--------------------------- MODULE ReadlineProofs ---------------------------
(***************************************************************************)
(* The safety properties of Readline, for any table, any number of         *)
(* interfaces and lines and any nesting of callbacks.                      *)
(*                                                                         *)
(* That lines are whole and in order rests on an interface having at most  *)
(* one read on its way (OneJob): what it read comes before what its read   *)
(* has got so far (Ordered), and half a line that nobody else may touch is *)
(* ended by the read that began it (WholeLines).  That they are delivered  *)
(* in order rests on the buffer being empty while a drain has lines left,  *)
(* and on a buffer that is not empty being drained before the next read    *)
(* starts (Ledger), unless an exception broke the resume off.  Closing an  *)
(* interface over undelivered lines, pausing a drain or throwing out of it *)
(* cuts lines off; the others stay as they were (Agrees).                  *)
(***************************************************************************)
EXTENDS Readline, SequenceTheorems, WellFoundedInduction, TLAPS

Jobs == ToSet(running) \cup ToSet(completed)

(* No two reads are by the same interface, which knows that it is reading. *)
Alone(r, c) ==
    /\ \A k, m \in DOMAIN r : r[k].by = r[m].by => k = m
    /\ \A k, m \in DOMAIN c : c[k].by = c[m].by => k = m
    /\ \A k \in DOMAIN r, m \in DOMAIN c : r[k].by # c[m].by

OneJob == Alone(running, completed) /\ \A job \in Jobs : rl[job.by].reading

Ascending(line) == \A a, b \in DOMAIN line : a < b => line[a] < line[b]

Below(line, half) == \A a \in DOMAIN line : line[a] < half

Before(lines, line) ==
    \A m \in DOMAIN lines : \A a \in DOMAIN lines[m], b \in DOMAIN line : lines[m][a] < line[b]

(* What an interface read comes before what its read has got, and that before   *)
(* what is still to be typed.                                                   *)
Ordered ==
    /\ \A job \in Jobs : /\ Ascending(job.got) /\ Below(job.got, next)
                         /\ Before(rl[job.by].took, job.got)
    /\ \A i \in DOMAIN rl : /\ AsTyped(rl[i].took)
                            /\ \A m \in DOMAIN rl[i].took : Below(rl[i].took[m], next)

Mixed(line) == \E m \in DOMAIN line : LineOf(line[m]) \in mixed

(* The half of a line that was typed last is with a read that is on its way,    *)
(* and if it is alone there, nobody else has touched its line.                  *)
WholeLines ==
    /\ next <= last + 1
    /\ \A job \in ToSet(running) :
           \/ job.got = <<>> \/ Mixed(job.got)
           \/ job.got = <<next - 1>> /\ ~Ends(next - 1)
    /\ next <= last /\ Ends(next) =>
           \E job \in ToSet(running) : job.got # <<>> /\ job.got[Len(job.got)] = next - 1
    /\ \A job \in ToSet(completed) : Whole(job.got) \/ (job.eof /\ job.got = <<>>)
    /\ \A i \in DOMAIN rl : \A m \in DOMAIN rl[i].took : Whole(rl[i].took[m])

(* The drains among the callbacks fs have lines in hand for interface i, at     *)
(* most one of them any.                                                        *)
Holds(fs, i, lines) ==
    \/ lines = <<>> /\ \A f \in DOMAIN fs : fs[f].of = i => fs[f].rest = <<>>
    \/ lines # <<>> /\ \E f \in DOMAIN fs :
           /\ fs[f].of = i /\ fs[f].rest = lines
           /\ \A g \in DOMAIN fs : fs[g].of = i /\ g # f => fs[g].rest = <<>>

(* The lines kept are among those that were read, none of them twice, as they   *)
(* were typed unless the buffer was left exposed, and all of them unless some   *)
(* were cut off.                                                                *)
Agrees(kept, r) ==
    /\ IsInjective(kept) /\ ToSet(kept) \subseteq ToSet(r.took)
    /\ ~r.exposed => AsTyped(kept)
    /\ ~r.cut => ToSet(r.took) \subseteq ToSet(kept)

(* An interface that may read has nothing buffered unless a resume is about to  *)
(* drain it, or was broken off; while a drain has lines in hand nothing is      *)
(* buffered behind it; and a closed interface has no lines left of which it     *)
(* does not know that they are cut off.                                         *)
Books(i, r, fs) ==
    /\ r.pending # <<>> => r.paused \/ r.closed \/ r.exposed \/ WillDrain(fs, i)
    /\ \E lines \in {fs[f].rest : f \in DOMAIN fs} \cup {<<>>} :
          /\ Holds(fs, i, lines)
          /\ lines # <<>> => r.pending = <<>>
          /\ r.closed /\ ~r.cut => lines = <<>> /\ r.pending = <<>>
          /\ Agrees(r.delivered \o lines \o r.pending, r)

OnlyDrains(fs) == \A f \in DOMAIN fs : fs[f].rest # <<>> => fs[f].then = "drain"

Ledger == OnlyDrains(frames) /\ \A i \in DOMAIN rl : Books(i, rl[i], frames)

IInv == TypeOK /\ OneJob /\ Ordered /\ WholeLines /\ Ledger
-----------------------------------------------------------------------------
(* A callback put in front moves the others up by one. *)
LEMMA Pushed ==
    ASSUME NEW S, NEW s \in Seq(S), NEW e \in S
    PROVE  /\ <<e>> \o s \in Seq(S) /\ Len(s) \in Nat
           /\ DOMAIN s = 1 .. Len(s) /\ DOMAIN (<<e>> \o s) = 1 .. Len(s) + 1
           /\ (<<e>> \o s)[1] = e
           /\ \A i \in 2 .. Len(s) + 1 : (<<e>> \o s)[i] = s[i - 1]
<1> DEFINE t == <<e>>
<1>1. t \in Seq(S) /\ Len(t) = 1 /\ t[1] = e /\ Len(s) \in Nat
  BY LenProperties
<1> HIDE DEF t
<1>2. /\ t \o s \in Seq(S) /\ Len(t \o s) = Len(t) + Len(s)
      /\ \A i \in 1 .. Len(t) + Len(s) : (t \o s)[i] = IF i <= Len(t) THEN t[i] ELSE s[i - Len(t)]
  BY <1>1, ConcatProperties
<1>3. DOMAIN s = 1 .. Len(s) /\ DOMAIN (t \o s) = 1 .. 1 + Len(s)
  BY <1>1, <1>2, LenProperties
<1>4. 1 + Len(s) = Len(s) + 1 /\ 1 \in 1 .. 1 + Len(s)
  BY <1>1
<1>5. (t \o s)[1] = e
  BY <1>1, <1>2, <1>4
<1>6. \A i \in 2 .. Len(s) + 1 : (t \o s)[i] = s[i - 1]
  <2> TAKE i \in 2 .. Len(s) + 1
  <2>1. i \in 1 .. 1 + Len(s) /\ ~(i <= 1)
    BY <1>1
  <2> QED BY <1>1, <1>2, <2>1
<1> QED BY <1>1, <1>2, <1>3, <1>4, <1>5, <1>6 DEF t

(* The tail has the other elements, moved down by one. *)
LEMMA Shortened ==
    ASSUME NEW S, NEW s \in Seq(S), s # <<>>
    PROVE  /\ Len(s) \in Nat \ {0} /\ DOMAIN s = 1 .. Len(s)
           /\ Head(s) = s[1] /\ s[1] \in S
           /\ Tail(s) \in Seq(S) /\ DOMAIN Tail(s) = 1 .. Len(s) - 1
           /\ \A i \in 1 .. Len(s) - 1 : Tail(s)[i] = s[i + 1]
<1>1. Tail(s) \in Seq(S) /\ Len(s) \in Nat \ {0}
  BY HeadTailProperties, EmptySeq
<1> QED BY <1>1, HeadTailProperties, EmptySeq, LenProperties, ElementOfSeq

(* Removing an element moves those behind it down by one. *)
LEMMA Removed ==
    ASSUME NEW S, NEW s \in Seq(S), NEW k \in DOMAIN s
    PROVE  /\ RemoveAt(s, k) \in Seq(S) /\ Len(s) \in Nat /\ k \in 1 .. Len(s)
           /\ DOMAIN s = 1 .. Len(s) /\ DOMAIN RemoveAt(s, k) = 1 .. Len(s) - 1
           /\ \A m \in 1 .. Len(s) - 1 : RemoveAt(s, k)[m] = IF m < k THEN s[m] ELSE s[m + 1]
<1> DEFINE l == SubSeq(s, 1, k - 1)
           r == SubSeq(s, k + 1, Len(s))
           n == Len(s)
<1>1. n \in Nat /\ k \in 1 .. n /\ DOMAIN s = 1 .. n /\ \A i \in 1 .. n : s[i] \in S
  BY LenProperties, ElementOfSeq
<1>2. l \in Seq(S) /\ Len(l) = k - 1 /\ \A i \in 1 .. k - 1 : l[i] = s[i]
  BY <1>1, SubSeqProperties
<1>3. r \in Seq(S) /\ Len(r) = n - k /\ \A i \in 1 .. n - k : r[i] = s[i + k]
  BY <1>1, SubSeqProperties
<1> HIDE DEF l, r, n
<1>4. /\ l \o r \in Seq(S) /\ Len(l \o r) = Len(l) + Len(r)
      /\ \A i \in 1 .. Len(l) + Len(r) : (l \o r)[i] = IF i <= Len(l) THEN l[i] ELSE r[i - Len(l)]
  BY <1>2, <1>3, ConcatProperties
<1>5. DOMAIN (l \o r) = 1 .. n - 1
  BY <1>1, <1>2, <1>3, <1>4, LenProperties
<1>6. \A m \in 1 .. n - 1 : (l \o r)[m] = IF m < k THEN s[m] ELSE s[m + 1]
  <2> TAKE m \in 1 .. n - 1
  <2>1. CASE m < k
    BY <1>1, <1>2, <1>3, <1>4, <2>1
  <2>2. CASE ~(m < k)
    <3>1. m - (k - 1) \in 1 .. n - k /\ m - (k - 1) + k = m + 1 /\ ~(m <= k - 1) /\ m \in 1 .. (k - 1) + (n - k)
      BY <1>1, <2>2
    <3> QED BY <1>2, <1>3, <1>4, <2>2, <3>1
  <2> QED BY <2>1, <2>2
<1>7. RemoveAt(s, k) = l \o r
  BY DEF RemoveAt, l, r, n
<1> QED BY <1>1, <1>4, <1>5, <1>6, <1>7 DEF n

(* Every non-empty set of naturals has a minimum. *)
LEMMA MinOfNaturals ==
    ASSUME NEW S, S \subseteq Nat, S # {}
    PROVE  Min(S) \in S /\ \A y \in S : Min(S) <= y
<1> DEFINE R == OpToRel(<, Nat)
<1>1. IsWellFoundedOn(R, Nat)
  BY NatLessThanWellFounded
<1>2. \A x, y \in Nat : <<x, y>> \in R <=> x < y
  BY DEF OpToRel
<1> HIDE DEF R
<1>3. PICK x \in S : \A y \in S : ~(<<y, x>> \in R)
  BY <1>1, WFMin
<1>4. \A y \in S : x <= y
  <2> TAKE y \in S
  <2>1. x \in Nat /\ y \in Nat /\ ~(<<y, x>> \in R)
    BY <1>3
  <2>2. ~(y < x)
    BY <1>2, <2>1
  <2> QED BY <2>1, <2>2
<1> QED BY <1>4 DEF Min

(* What is in a queue after an append, a removal, or at its front. *)
LEMMA InQueue ==
    ASSUME NEW S, NEW s \in Seq(S)
    PROVE  /\ \A e \in S : /\ Append(s, e) \in Seq(S) /\ ToSet(Append(s, e)) = ToSet(s) \cup {e}
                          /\ DOMAIN Append(s, e) = 1 .. Len(s) + 1 /\ Append(s, e)[Len(s) + 1] = e
                          /\ \A i \in 1 .. Len(s) : Append(s, e)[i] = s[i]
           /\ Len(s) \in Nat /\ DOMAIN s = 1 .. Len(s) /\ ToSet(s) \subseteq S
<1>1. Len(s) \in Nat /\ DOMAIN s = 1 .. Len(s) /\ \A i \in 1 .. Len(s) : s[i] \in S
  BY LenProperties, ElementOfSeq
<1>2. ASSUME NEW e \in S
      PROVE  /\ Append(s, e) \in Seq(S) /\ ToSet(Append(s, e)) = ToSet(s) \cup {e}
             /\ DOMAIN Append(s, e) = 1 .. Len(s) + 1 /\ Append(s, e)[Len(s) + 1] = e
             /\ \A i \in 1 .. Len(s) : Append(s, e)[i] = s[i]
  <2> DEFINE t == Append(s, e)
             n == Len(s)
  <2>1. t \in Seq(S) /\ Len(t) = n + 1 /\ t[n + 1] = e /\ \A i \in 1 .. n : t[i] = s[i]
    BY AppendProperties
  <2>2. DOMAIN t = 1 .. n + 1
    BY <2>1, LenProperties
  <2> HIDE DEF t, n
  <2>3. n \in Nat /\ DOMAIN s = 1 .. n
    BY <1>1 DEF n
  <2>4. ToSet(t) = ToSet(s) \cup {e}
    BY <2>1, <2>2, <2>3 DEF ToSet
  <2> QED BY <2>1, <2>2, <2>4 DEF t, n
<1> QED BY <1>1, <1>2 DEF ToSet
-----------------------------------------------------------------------------
(* Only interface i changes, to e. *)
Becomes(i, e) ==
    /\ rl' \in Seq(Interface) /\ Len(rl') = Len(rl) /\ DOMAIN rl' = DOMAIN rl
    /\ rl'[i] = e /\ \A j \in DOMAIN rl : j # i => rl'[j] = rl[j]

LEMMA Types ==
    ASSUME TypeOK
    PROVE  /\ Len(rl) \in Nat /\ DOMAIN rl = 1 .. Len(rl) /\ rl \in Seq(Interface)
           /\ \A i \in DOMAIN rl : rl[i] \in Interface
           /\ running \in Seq(Job) /\ \A k \in DOMAIN running : running[k] \in Job
           /\ completed \in Seq(Job) /\ \A k \in DOMAIN completed : completed[k] \in Job
           /\ frames \in Seq(Frame) /\ \A f \in DOMAIN frames : frames[f] \in Frame
           /\ \A s \in Slots : slots[s] = 0 \/ slots[s] \in DOMAIN rl
           /\ next \in Nat \ {0} /\ last \in Nat \ {0} /\ MaxLines \in Nat \ {0}
           /\ next <= 2 * MaxLines + 1 /\ last <= 2 * MaxLines
<1>1. rl \in Seq(Interface) /\ running \in Seq(Job) /\ completed \in Seq(Job) /\ frames \in Seq(Frame)
  BY DEF TypeOK
<1>2. Len(rl) \in Nat /\ DOMAIN rl = 1 .. Len(rl) /\ \A i \in DOMAIN rl : rl[i] \in Interface
  BY <1>1, LenProperties, ElementOfSeq
<1>3. \A k \in DOMAIN running : running[k] \in Job
  BY <1>1, LenProperties, ElementOfSeq
<1>4. \A k \in DOMAIN completed : completed[k] \in Job
  BY <1>1, LenProperties, ElementOfSeq
<1>5. \A f \in DOMAIN frames : frames[f] \in Frame
  BY <1>1, LenProperties, ElementOfSeq
<1>6. \A s \in Slots : slots[s] = 0 \/ slots[s] \in DOMAIN rl
  BY <1>2 DEF TypeOK
<1>7. /\ next \in Nat \ {0} /\ last \in Nat \ {0} /\ MaxLines \in Nat \ {0}
      /\ next <= 2 * MaxLines + 1 /\ last <= 2 * MaxLines
  BY ReadlineAssumption DEF TypeOK, Halves
<1> QED BY <1>1, <1>2, <1>3, <1>4, <1>5, <1>6, <1>7

(* Closing, pausing and starting to read leave an interface an interface. *)
LEMMA Flagged ==
    ASSUME NEW r \in Interface
    PROVE  /\ r.slot \in Slots
           /\ \A b \in BOOLEAN : /\ [r EXCEPT !.closed = b] \in Interface
                               /\ [r EXCEPT !.paused = b] \in Interface
                               /\ [r EXCEPT !.reading = b] \in Interface
<1>1. r.slot \in Slots
  BY DEF Interface
<1>2. \A b \in BOOLEAN : [r EXCEPT !.closed = b] \in Interface
  BY DEF Interface
<1>3. \A b \in BOOLEAN : [r EXCEPT !.paused = b] \in Interface
  BY DEF Interface
<1>4. \A b \in BOOLEAN : [r EXCEPT !.reading = b] \in Interface
  BY DEF Interface
<1> QED BY <1>1, <1>2, <1>3, <1>4

LEMMA ChangeOne ==
    ASSUME TypeOK, NEW i \in DOMAIN rl, NEW e \in Interface, rl' = [rl EXCEPT ![i] = e]
    PROVE  Becomes(i, e)
<1>1. rl \in Seq(Interface) /\ i \in 1 .. Len(rl) /\ DOMAIN rl = 1 .. Len(rl)
  BY Types
<1>2. /\ rl' \in Seq(Interface) /\ Len(rl') = Len(rl)
      /\ \A j \in 1 .. Len(rl) : rl'[j] = IF j = i THEN e ELSE rl[j]
  BY <1>1, ExceptSeq
<1>3. DOMAIN rl' = 1 .. Len(rl)
  BY <1>2, LenProperties
<1> QED BY <1>1, <1>2, <1>3 DEF Becomes

(* Reads and callbacks keep their type when interfaces are added. *)
LEMMA Grows ==
    ASSUME DOMAIN rl \subseteq DOMAIN rl'
    PROVE  Job \subseteq Job' /\ Seq(Job) \subseteq Seq(Job') /\ Seq(Frame) \subseteq Seq(Frame')
<1>1. Job \subseteq Job' /\ Frame \subseteq Frame'
  BY DEF Job, Frame, Slots, Lines, Halves
<1> QED BY <1>1, SeqMonotonic

LEMMA NoLines == <<>> \in Lines /\ <<>> \in Seq(Halves)
  BY EmptySeq DEF Lines

LEMMA OneMoreLine ==
    ASSUME NEW lines \in Lines, NEW line \in Seq(Halves)
    PROVE  Append(lines, line) \in Lines
  BY AppendProperties DEF Lines

LEMMA FirstLine ==
    ASSUME NEW lines \in Lines, lines # <<>>
    PROVE  Head(lines) \in Seq(Halves) /\ Tail(lines) \in Lines
  BY HeadTailProperties DEF Lines

(* What xt_readline_start_read does to the interfaces as the caller left them,  *)
LEMMA StartReadsFrom ==
    ASSUME TypeOK, NEW r \in Seq(Interface), Len(r) = Len(rl), NEW s \in Slots, StartRead(r, s)
    PROVE  \/ rl' = r /\ running' = running
           \/ \E i \in DOMAIN rl, job \in Job :
                 /\ MayRead(r[i]) /\ job.by = i /\ job.got = <<>>
                 /\ rl' \in Seq(Interface) /\ Len(rl') = Len(rl) /\ DOMAIN rl' = DOMAIN rl
                 /\ rl'[i] = [r[i] EXCEPT !.reading = TRUE] /\ \A j \in DOMAIN rl : j # i => rl'[j] = r[j]
                 /\ running' = Append(running, job) /\ running' \in Seq(Job)
<1> DEFINE i == slots[s]
           job == [by |-> i, slot |-> s, got |-> <<>>, eof |-> FALSE]
           e == [r[i] EXCEPT !.reading = TRUE]
<1>1. CASE i # 0 /\ MayRead(r[i])
  <2>1. i \in DOMAIN rl /\ DOMAIN rl = 1 .. Len(rl)
    BY <1>1, Types
  <2>2. rl' = [r EXCEPT ![i] = e] /\ running' = Append(running, job)
    BY <1>1 DEF StartRead
  <2>3. r[i] \in Interface
    BY <2>1, ElementOfSeq
  <2>4. e \in Interface
    BY <2>3, Flagged
  <2>5. job \in Job /\ job.by = i /\ job.got = <<>>
    BY <2>1, NoLines DEF Job
  <2> HIDE DEF e, job, i
  <2>6. /\ rl' \in Seq(Interface) /\ Len(rl') = Len(rl)
        /\ \A j \in 1 .. Len(rl) : rl'[j] = IF j = i THEN e ELSE r[j]
    BY <2>1, <2>2, <2>4, ExceptSeq
  <2>7. DOMAIN rl' = 1 .. Len(rl)
    BY <2>6, LenProperties
  <2>8. Append(running, job) \in Seq(Job)
    BY <2>5, Types, AppendProperties
  <2>9. /\ MayRead(r[i]) /\ rl' \in Seq(Interface) /\ Len(rl') = Len(rl) /\ DOMAIN rl' = DOMAIN rl
        /\ rl'[i] = [r[i] EXCEPT !.reading = TRUE] /\ \A j \in DOMAIN rl : j # i => rl'[j] = r[j]
        /\ running' = Append(running, job) /\ running' \in Seq(Job)
    BY <1>1, <2>1, <2>2, <2>6, <2>7, <2>8 DEF e
  <2> QED BY <2>1, <2>5, <2>9
<1>2. CASE ~(i # 0 /\ MayRead(r[i]))
  BY <1>2 DEF StartRead
<1> QED BY <1>1, <1>2

(* and as they are. *)
LEMMA StartReads ==
    ASSUME TypeOK, NEW s \in Slots, StartRead(rl, s)
    PROVE  \/ rl' = rl /\ running' = running
           \/ \E i \in DOMAIN rl, job \in Job :
                 /\ MayRead(rl[i]) /\ job.by = i /\ job.got = <<>>
                 /\ Becomes(i, [rl[i] EXCEPT !.reading = TRUE])
                 /\ running' = Append(running, job) /\ running' \in Seq(Job)
<1>1. rl \in Seq(Interface)
  BY Types
<1> QED BY <1>1, StartReadsFrom DEF Becomes

(* StartRead keeps the types. *)
LEMMA StartReadTypes ==
    ASSUME TypeOK, NEW s \in Slots, StartRead(rl, s)
    PROVE  rl' \in Seq(Interface) /\ Len(rl') = Len(rl) /\ DOMAIN rl' = DOMAIN rl /\ running' \in Seq(Job)
  BY StartReads, Types DEF Becomes

(* A step that adds no interface keeps the types if it keeps those of each part. *)
LEMMA SameTypes ==
    ASSUME TypeOK, rl' \in Seq(Interface), Len(rl') = Len(rl), DOMAIN rl' = DOMAIN rl,
           running' \in Seq(Job), completed' \in Seq(Job), frames' \in Seq(Frame),
           slots' = slots \/ slots' \in [Slots -> 0 .. Len(rl)],
           UNCHANGED input \/ (next' \in 1 .. 2 * MaxLines + 1 /\ last' = last /\ mixed' \subseteq 1 .. MaxLines)
    PROVE  TypeOK'
<1>1. Seq(Job) \subseteq Seq(Job') /\ Seq(Frame) \subseteq Seq(Frame')
  BY Grows
<1>2. rl' \in Seq(Interface')
  BY DEF Interface, Slots, Lines, Halves
<1>3. next' \in 1 .. 2 * MaxLines + 1 /\ last' \in Halves' /\ mixed' \subseteq 1 .. MaxLines
  BY DEF TypeOK, input, Halves
<1>4. slots' \in [Slots' -> 0 .. Len(rl')]
  BY DEF TypeOK, Slots
<1> QED BY <1>1, <1>2, <1>3, <1>4 DEF TypeOK
-----------------------------------------------------------------------------
(* What each step does to the interfaces and the callbacks. *)
LEMMA CreateStep ==
    ASSUME TypeOK, Create
    PROVE  /\ TypeOK' /\ DOMAIN rl' = 1 .. Len(rl) + 1 /\ \A i \in DOMAIN rl : rl'[i] = rl[i]
           /\ rl'[Len(rl) + 1].pending = <<>> /\ rl'[Len(rl) + 1].delivered = <<>>
           /\ rl'[Len(rl) + 1].took = <<>> /\ ~rl'[Len(rl) + 1].closed
           /\ UNCHANGED <<input, running, completed, frames>>
<1>1. FreeSlots \subseteq Nat /\ FreeSlots # {} /\ FreeSlots \subseteq Slots
  BY DEF Create, FreeSlots, Slots
<1>2. FreeSlot \in Slots
  BY <1>1, MinOfNaturals DEF FreeSlot
<1> DEFINE e == New(FreeSlot)
<1>3. e \in Interface
  BY <1>2, NoLines DEF New, Interface
<1>4. rl' = Append(rl, e) /\ slots' = [slots EXCEPT ![FreeSlot] = Len(rl) + 1]
  BY DEF Create
<1>5. UNCHANGED <<input, running, completed, frames>>
  BY DEF Create
<1>11. e.pending = <<>> /\ e.delivered = <<>> /\ e.took = <<>> /\ ~e.closed
  BY DEF New
<1> HIDE DEF e
<1>6. /\ rl' \in Seq(Interface) /\ Len(rl') = Len(rl) + 1 /\ rl'[Len(rl) + 1] = e
      /\ \A i \in 1 .. Len(rl) : rl'[i] = rl[i]
  BY <1>3, <1>4, Types, AppendProperties
<1>7. DOMAIN rl' = 1 .. Len(rl) + 1 /\ DOMAIN rl = 1 .. Len(rl) /\ Len(rl) \in Nat
  BY <1>6, Types, LenProperties
<1>8. Seq(Job) \subseteq Seq(Job') /\ Seq(Frame) \subseteq Seq(Frame')
  BY <1>7, Grows
<1>9. slots' \in [Slots -> 0 .. Len(rl')]
  BY <1>2, <1>4, <1>6, <1>7 DEF TypeOK
<1>10. TypeOK'
  BY <1>5, <1>6, <1>8, <1>9 DEF TypeOK, input, Interface, Slots, Lines, Halves
<1> QED BY <1>5, <1>6, <1>7, <1>10, <1>11

LEMMA ListenStep ==
    ASSUME TypeOK, NEW i \in DOMAIN rl, Listen(i)
    PROVE  TypeOK' /\ UNCHANGED <<input, slots, completed, frames>>
           /\ \E s \in Slots : StartRead(rl, s)
<1>1. rl[i].slot \in Slots
  BY Types, Flagged
<1>2. StartRead(rl, rl[i].slot) /\ UNCHANGED <<input, slots, completed, frames>>
  BY DEF Listen
<1>3. rl' \in Seq(Interface) /\ Len(rl') = Len(rl) /\ DOMAIN rl' = DOMAIN rl /\ running' \in Seq(Job)
  BY <1>1, <1>2, StartReadTypes
<1>4. TypeOK'
  BY <1>2, <1>3, Types, SameTypes
<1> QED BY <1>1, <1>2, <1>4

LEMMA PauseStep ==
    ASSUME TypeOK, NEW i \in DOMAIN rl, Pause(i)
    PROVE  /\ TypeOK' /\ Becomes(i, [rl[i] EXCEPT !.paused = TRUE])
           /\ UNCHANGED <<input, slots, running, completed, frames>>
<1> DEFINE e == [rl[i] EXCEPT !.paused = TRUE]
<1>1. e \in Interface
  BY Types, Flagged
<1>2. rl' = [rl EXCEPT ![i] = e] /\ UNCHANGED <<input, slots, running, completed, frames>>
  BY DEF Pause
<1>3. Becomes(i, e)
  BY <1>1, <1>2, ChangeOne
<1> HIDE DEF e
<1>4. TypeOK'
  BY <1>2, <1>3, Types, SameTypes DEF Becomes
<1> QED BY <1>2, <1>3, <1>4 DEF e

(* The frame of a callback that has just been called. *)
LEMMA NewFrame ==
    ASSUME NEW i \in DOMAIN rl, NEW then \in {"go_on", "drain_pending", "drain", "free_slot"}
    PROVE  LET f == Callback(i, then)
           IN  f \in Frame /\ f.of = i /\ f.then = then /\ f.rest = <<>>
  BY NoLines DEF Callback, Frame

(* A call that goes on after the end of the input. *)
LEMMA CallWithEof ==
    ASSUME NEW i \in DOMAIN rl, NEW eof \in BOOLEAN
    PROVE  LET f == [Callback(i, "go_on") EXCEPT !.eof = eof]
           IN  f \in Frame /\ f.of = i /\ f.rest = <<>>
<1> DEFINE f == [of |-> i, then |-> "go_on", rest |-> <<>>, eof |-> eof]
<1>1. f \in Frame /\ f.of = i /\ f.rest = <<>>
  BY NoLines DEF Frame
<1>2. [Callback(i, "go_on") EXCEPT !.eof = eof] = f
  BY DEF Callback
<1> QED BY <1>1, <1>2

LEMMA ResumeStep ==
    ASSUME TypeOK, NEW i \in DOMAIN rl, Resume(i)
    PROVE  /\ TypeOK' /\ Becomes(i, [rl[i] EXCEPT !.paused = FALSE])
           /\ Callback(i, "drain_pending") \in Frame
           /\ frames' = <<Callback(i, "drain_pending")>> \o frames
           /\ UNCHANGED <<input, slots, running, completed>>
<1> DEFINE e == [rl[i] EXCEPT !.paused = FALSE]
           f == Callback(i, "drain_pending")
<1>1. e \in Interface
  BY Types, Flagged
<1>2. /\ rl' = [rl EXCEPT ![i] = e] /\ frames' = <<f>> \o frames
      /\ UNCHANGED <<input, slots, running, completed>>
  BY DEF Resume
<1>3. Becomes(i, e)
  BY <1>1, <1>2, ChangeOne
<1>4. f \in Frame
  BY NoLines DEF Callback, Frame
<1> HIDE DEF e, f
<1>5. frames' \in Seq(Frame)
  BY <1>2, <1>4, Types, Pushed
<1>6. TypeOK'
  BY <1>2, <1>3, <1>5, Types, SameTypes DEF Becomes
<1> QED BY <1>2, <1>3, <1>4, <1>6 DEF e, f

(* A closed interface keeps its lines, and knows when there are any left. *)
Closed(i, r, e) ==
    /\ e \in Interface /\ e.closed
    /\ e.pending = r.pending /\ e.delivered = r.delivered /\ e.took = r.took
    /\ e.exposed = r.exposed /\ e.reading = r.reading
    /\ r.cut => e.cut
    /\ ~e.cut => r.pending = <<>> /\ Drains(i) = {}

LEMMA ClosedRecord ==
    ASSUME NEW r \in Interface, NEW i
    PROVE  Closed(i, r, [r EXCEPT !.closed = TRUE, !.cut = @ \/ r.pending # <<>> \/ Drains(i) # {}])
<1> DEFINE c == r.cut \/ r.pending # <<>> \/ Drains(i) # {}
           e == [r EXCEPT !.closed = TRUE, !.cut = c]
<1>1. r.cut \in BOOLEAN
  BY DEF Interface
<1>2. c \in BOOLEAN /\ (r.cut => c) /\ (~c => r.pending = <<>> /\ Drains(i) = {})
  BY <1>1
<1> HIDE DEF c
<1>3. e \in Interface
  BY <1>2 DEF Interface
<1>4. /\ e.closed /\ e.cut = c /\ e.pending = r.pending /\ e.delivered = r.delivered
      /\ e.took = r.took /\ e.exposed = r.exposed /\ e.reading = r.reading
  BY DEF Interface
<1>5. Closed(i, r, e)
  BY <1>2, <1>3, <1>4 DEF Closed
<1> QED BY <1>5 DEF c

(* xt_readline_close up to the close listeners. *)
LEMMA CloseInStep ==
    ASSUME TypeOK, NEW i \in DOMAIN rl, NEW outer \in Seq(Frame), CloseIn(rl, i, outer)
    PROVE  /\ \E e \in Interface : Becomes(i, e) /\ Closed(i, rl[i], e)
           /\ Callback(i, "free_slot") \in Frame
           /\ frames' = <<Callback(i, "free_slot")>> \o outer
           /\ frames' \in Seq(Frame)
<1> DEFINE e == [rl[i] EXCEPT !.closed = TRUE, !.cut = @ \/ rl[i].pending # <<>> \/ Drains(i) # {}]
           f == Callback(i, "free_slot")
<1>1. rl[i] \in Interface
  BY Types
<1>2. Closed(i, rl[i], e)
  BY <1>1, ClosedRecord
<1>3. rl' = [rl EXCEPT ![i] = e] /\ frames' = <<f>> \o outer
  BY DEF CloseIn
<1>4. f \in Frame
  BY NoLines DEF Callback, Frame
<1> HIDE DEF e, f
<1>5. Becomes(i, e) /\ e \in Interface
  BY <1>2, <1>3, ChangeOne DEF Closed
<1>6. frames' \in Seq(Frame)
  BY <1>3, <1>4, Pushed
<1> QED BY <1>2, <1>3, <1>4, <1>5, <1>6 DEF f

LEMMA CloseStep ==
    ASSUME TypeOK, NEW i \in DOMAIN rl, Close(i)
    PROVE  /\ TypeOK' /\ \E e \in Interface : Becomes(i, e) /\ Closed(i, rl[i], e)
           /\ Callback(i, "free_slot") \in Frame
           /\ frames' = <<Callback(i, "free_slot")>> \o frames
           /\ UNCHANGED <<input, slots, running, completed>>
<1>1. CloseIn(rl, i, frames) /\ UNCHANGED <<input, slots, running, completed>> /\ frames \in Seq(Frame)
  BY Types DEF Close
<1>2. /\ \E e \in Interface : Becomes(i, e) /\ Closed(i, rl[i], e)
      /\ Callback(i, "free_slot") \in Frame
      /\ frames' = <<Callback(i, "free_slot")>> \o frames /\ frames' \in Seq(Frame)
  BY <1>1, CloseInStep
<1>3. TypeOK'
  BY <1>1, <1>2, Types, SameTypes DEF Becomes
<1> QED BY <1>1, <1>2, <1>3
-----------------------------------------------------------------------------
LEMMA JobEndsTypes ==
    ASSUME TypeOK, NEW k \in DOMAIN running, NEW job \in Job, JobEnds(k, job)
    PROVE  running' \in Seq(Job) /\ completed' \in Seq(Job)
<1>1. running \in Seq(Job) /\ completed \in Seq(Job)
  BY Types
<1>2. running' = RemoveAt(running, k) /\ completed' = Append(completed, job)
  BY DEF JobEnds
<1>3. RemoveAt(running, k) \in Seq(Job)
  BY <1>1, Removed
<1>4. Append(completed, job) \in Seq(Job)
  BY <1>1, AppendProperties
<1> QED BY <1>2, <1>3, <1>4

(* The read that takes the next half. *)
LEMMA JobReadsStep ==
    ASSUME TypeOK, NEW k \in DOMAIN running, JobReads(k)
    PROVE  /\ TypeOK' /\ UNCHANGED <<last, rl, slots, frames>>
           /\ next \in Halves /\ next' = next + 1 /\ next <= last
           /\ mixed' = IF Rivals(k) THEN mixed \cup {LineOf(next)} ELSE mixed
           /\ \E job \in Job :
                 /\ job.by = running[k].by /\ job.got = Append(running[k].got, next)
                 /\ IF Ends(next) THEN JobEnds(k, job)
                    ELSE running' = [running EXCEPT ![k] = job] /\ completed' = completed
<1>1. /\ next <= last /\ next' = next + 1 /\ UNCHANGED <<last, rl, slots, frames>>
      /\ mixed' = IF Rivals(k) THEN mixed \cup {LineOf(next)} ELSE mixed
  BY DEF JobReads
<1>2. next \in Halves /\ next + 1 \in 1 .. 2 * MaxLines + 1
  BY <1>1, Types DEF Halves
<1>3. LineOf(next) \in 1 .. MaxLines
  BY <1>2, Types DEF Halves, LineOf
<1> DEFINE job == [running[k] EXCEPT !.got = Append(@, next)]
<1>4. running[k] \in Job
  BY Types
<1>5. Append(running[k].got, next) \in Seq(Halves)
  <2>1. running[k].got \in Seq(Halves)
    BY <1>4 DEF Job
  <2> QED BY <1>2, <2>1, AppendProperties
<1>6. job \in Job /\ job.by = running[k].by /\ job.got = Append(running[k].got, next)
  BY <1>4, <1>5 DEF Job
<1>7. IF Ends(next) THEN JobEnds(k, job)
      ELSE running' = [running EXCEPT ![k] = job] /\ completed' = completed
  BY DEF JobReads
<1> HIDE DEF job
<1>8. running' \in Seq(Job) /\ completed' \in Seq(Job)
  <2>1. CASE Ends(next)
    BY <1>6, <1>7, <2>1, JobEndsTypes
  <2>2. CASE ~Ends(next)
    <3>1. running \in Seq(Job) /\ completed \in Seq(Job) /\ k \in 1 .. Len(running)
      BY Types, LenProperties
    <3>2. [running EXCEPT ![k] = job] \in Seq(Job)
      BY <1>6, <3>1, ExceptSeq
    <3> QED BY <1>7, <2>2, <3>1, <3>2
  <2> QED BY <2>1, <2>2
<1>9. mixed' \subseteq 1 .. MaxLines
  BY <1>1, <1>3 DEF TypeOK
<1>10. TypeOK'
  BY <1>1, <1>2, <1>8, <1>9, Types, SameTypes
<1> QED BY <1>1, <1>2, <1>6, <1>7, <1>10

LEMMA JobAtEofStep ==
    ASSUME TypeOK, NEW k \in DOMAIN running, JobAtEof(k)
    PROVE  /\ TypeOK' /\ UNCHANGED <<input, rl, slots, frames>> /\ next > last
           /\ \E job \in Job : /\ job.by = running[k].by /\ job.got = running[k].got /\ job.eof
                               /\ JobEnds(k, job)
<1> DEFINE job == [running[k] EXCEPT !.eof = TRUE]
<1>1. running[k] \in Job
  BY Types
<1>2. job \in Job /\ job.by = running[k].by /\ job.got = running[k].got /\ job.eof
  BY <1>1 DEF Job
<1>3. JobEnds(k, job) /\ UNCHANGED <<input, rl, slots, frames>> /\ next > last
  BY DEF JobAtEof
<1> HIDE DEF job
<1>4. running' \in Seq(Job) /\ completed' \in Seq(Job)
  BY <1>2, <1>3, JobEndsTypes
<1>5. TypeOK'
  BY <1>3, <1>4, Types, SameTypes
<1> QED BY <1>2, <1>3, <1>5

(* A completion that is not wanted changes nothing; one that is ends the read   *)
(* of its interface, and its line, if there is one, is delivered, or buffered   *)
(* if the interface is paused.                                                  *)
Ended(i) == [rl[i] EXCEPT !.reading = FALSE]

None(job) == job.eof /\ job.got = <<>>

Delivered(i, e, line) ==
    /\ ~rl[i].paused /\ ~rl[i].closed
    /\ e \in Interface
    /\ e.paused = rl[i].paused /\ e.closed = rl[i].closed
    /\ e.cut = rl[i].cut /\ e.exposed = rl[i].exposed
    /\ e.reading = FALSE /\ e.pending = rl[i].pending
    /\ e.delivered = Append(rl[i].delivered, line) /\ e.took = Append(rl[i].took, line)

Buffered(i, e, line) ==
    /\ rl[i].paused
    /\ e \in Interface
    /\ e.paused = rl[i].paused /\ e.exposed = rl[i].exposed
    /\ rl[i].cut => e.cut
    /\ e.closed => e.cut
    /\ e.reading = FALSE /\ e.delivered = rl[i].delivered
    /\ e.pending = Append(rl[i].pending, line) /\ e.took = Append(rl[i].took, line)

LEMMA WithLine ==
    ASSUME TypeOK, NEW i \in DOMAIN rl, NEW line \in Seq(Halves)
    PROVE  /\ \E e \in Interface :
                 /\ With(i, "delivered", line) = [rl EXCEPT ![i] = e]
                 /\ ~rl[i].paused /\ ~rl[i].closed => Delivered(i, e, line)
           /\ \E e \in Interface :
                 /\ With(i, "pending", line) = [rl EXCEPT ![i] = e]
                 /\ rl[i].paused /\ ~rl[i].closed => Buffered(i, e, line)
<1> DEFINE r == rl[i]
           d == [r EXCEPT !.reading = FALSE, !.delivered = Append(@, line), !.took = Append(@, line)]
           p == [r EXCEPT !.reading = FALSE, !.pending = Append(@, line), !.took = Append(@, line)]
<1>1. r \in Interface
  BY Types
<1>2. /\ Append(r.delivered, line) \in Lines /\ Append(r.pending, line) \in Lines
      /\ Append(r.took, line) \in Lines
  BY <1>1, OneMoreLine DEF Interface
<1>3. d \in Interface /\ (~r.paused /\ ~r.closed => Delivered(i, d, line))
  BY <1>1, <1>2 DEF Interface, Delivered
<1>4. p \in Interface /\ (r.paused /\ ~r.closed => Buffered(i, p, line))
  BY <1>1, <1>2 DEF Interface, Buffered
<1>5. With(i, "delivered", line) = [rl EXCEPT ![i] = d]
  BY <1>1, Types DEF With
<1>6. With(i, "pending", line) = [rl EXCEPT ![i] = p]
  BY <1>1, Types DEF With
<1> QED BY <1>3, <1>4, <1>5, <1>6

\* A callback of interface i starts, on top of those in fs.
Calls(i, fs) ==
    \E f \in Frame : f.of = i /\ f.rest = <<>> /\ frames' = <<f>> \o fs

(* What xt_readline_job_complete does with the read that ended first. *)
Completed(i, job) ==
    \/ UNCHANGED <<rl, frames>>
    \/ rl[i].closed /\ Becomes(i, Ended(i)) /\ frames' = frames
    \/ ~None(job) /\ \E e \in Interface : Becomes(i, e) /\ Delivered(i, e, job.got) /\ Calls(i, <<>>)
    \/ ~None(job) /\ \E e \in Interface : /\ Becomes(i, e) /\ Buffered(i, e, job.got)
                                          /\ frames' = frames \/ Calls(i, <<>>)
    \/ None(job) /\ Calls(i, <<>>) /\ \E e \in Interface : Becomes(i, e) /\ Closed(i, Ended(i), e)

LEMMA CompleteStep ==
    ASSUME TypeOK, Complete
    PROVE  /\ TypeOK' /\ frames = <<>> /\ completed # <<>> /\ completed' = Tail(completed)
           /\ UNCHANGED <<input, slots, running>>
           /\ completed[1] \in Job /\ Completed(completed[1].by, completed[1])
<1> DEFINE job == Head(completed)
           i == job.by
<1>1. /\ frames = <<>> /\ completed # <<>> /\ completed' = Tail(completed)
      /\ UNCHANGED <<input, slots, running>>
  BY DEF Complete
<1>2. completed \in Seq(Job) /\ job = completed[1] /\ job \in Job /\ Tail(completed) \in Seq(Job)
  BY <1>1, Types, Shortened
<1>3. i \in DOMAIN rl /\ job.got \in Seq(Halves) /\ job.eof \in BOOLEAN /\ rl[i] \in Interface
  BY <1>2, Types DEF Job
<1>4. \/ UNCHANGED <<rl, frames>>
      \/ rl[i].closed /\ rl' = [rl EXCEPT ![i].reading = FALSE] /\ frames' = frames
      \/ /\ ~rl[i].closed /\ ~None(job) /\ ~rl[i].paused
         /\ rl' = With(i, "delivered", job.got)
         /\ frames' = <<[Callback(i, "go_on") EXCEPT !.eof = job.eof]>>
      \/ /\ ~rl[i].closed /\ ~None(job) /\ rl[i].paused
         /\ rl' = With(i, "pending", job.got) /\ frames' = frames
      \/ /\ ~rl[i].closed /\ ~None(job) /\ rl[i].paused
         /\ CloseIn(With(i, "pending", job.got), i, <<>>)
      \/ /\ None(job)
         /\ CloseIn([rl EXCEPT ![i].reading = FALSE], i, <<>>)
  BY DEF Complete, Unwanted, None
<1> HIDE DEF job, i
<1> DEFINE free == Callback(i, "free_slot")
           goOn == [Callback(i, "go_on") EXCEPT !.eof = job.eof]
<1>5. /\ free \in Frame /\ free.of = i /\ free.rest = <<>>
      /\ goOn \in Frame /\ goOn.of = i /\ goOn.rest = <<>>
  BY <1>3, NewFrame, CallWithEof
<1>6. <<free>> \o <<>> = <<free>> /\ <<goOn>> \o <<>> = <<goOn>>
  OBVIOUS
<1> HIDE DEF free, goOn
<1>7. /\ frames' = <<goOn>> => Calls(i, <<>>)
      /\ frames' = <<free>> \o <<>> => Calls(i, <<>>)
  BY <1>5, <1>6 DEF Calls
<1> DEFINE shut(r) == [r EXCEPT !.closed = TRUE, !.cut = @ \/ r.pending # <<>> \/ Drains(i) # {}]
<1>12. Ended(i) \in Interface
  BY <1>3 DEF Interface, Ended
<1>13. ASSUME NEW r \in Interface
       PROVE  shut(r) \in Interface /\ Closed(i, r, shut(r)) /\ shut(r).paused = r.paused
  <2>1. Closed(i, r, shut(r))
    BY ClosedRecord
  <2>2. shut(r).paused = r.paused
    BY DEF Interface
  <2> HIDE DEF shut
  <2> QED BY <2>1, <2>2 DEF Closed
<1>14. ASSUME NEW r \in Interface, NEW q, q = [rl EXCEPT ![i] = r], CloseIn(q, i, <<>>)
       PROVE  rl' = [rl EXCEPT ![i] = shut(r)] /\ frames' = <<free>> \o <<>>
  <2>1. q[i] = r /\ q = [rl EXCEPT ![i] = r]
    BY <1>3, <1>14
  <2>2. rl' = [q EXCEPT ![i] = shut(r)] /\ frames' = <<free>> \o <<>>
    BY <1>14, <2>1 DEF CloseIn, free
  <2> HIDE DEF shut
  <2> QED BY <2>1, <2>2
<1>8. Completed(i, job)
  <2>1. CASE UNCHANGED <<rl, frames>>
    BY <2>1 DEF Completed
  <2>6. CASE rl[i].closed /\ rl' = [rl EXCEPT ![i].reading = FALSE] /\ frames' = frames
    <3>1. rl' = [rl EXCEPT ![i] = Ended(i)]
      BY <2>6 DEF Ended
    <3>2. Becomes(i, Ended(i))
      BY <1>3, <1>12, <3>1, ChangeOne
    <3> QED BY <2>6, <3>2 DEF Completed
  <2>2. CASE /\ ~rl[i].closed /\ ~None(job) /\ ~rl[i].paused
             /\ rl' = With(i, "delivered", job.got) /\ frames' = <<goOn>>
    <3>1. PICK e \in Interface : rl' = [rl EXCEPT ![i] = e] /\ Delivered(i, e, job.got)
      BY <1>3, <2>2, WithLine
    <3>2. Becomes(i, e)
      BY <1>3, <3>1, ChangeOne
    <3> QED BY <1>7, <2>2, <3>1, <3>2 DEF Completed
  <2>3. CASE /\ ~rl[i].closed /\ ~None(job) /\ rl[i].paused
             /\ rl' = With(i, "pending", job.got) /\ frames' = frames
    <3>1. PICK e \in Interface : rl' = [rl EXCEPT ![i] = e] /\ Buffered(i, e, job.got)
      BY <1>3, <2>3, WithLine
    <3>2. Becomes(i, e)
      BY <1>3, <3>1, ChangeOne
    <3> QED BY <2>3, <3>1, <3>2 DEF Completed
  <2>4. CASE ~rl[i].closed /\ ~None(job) /\ rl[i].paused /\ CloseIn(With(i, "pending", job.got), i, <<>>)
    <3>1. PICK e \in Interface : With(i, "pending", job.got) = [rl EXCEPT ![i] = e] /\ Buffered(i, e, job.got)
      BY <1>3, <2>4, WithLine
    <3> DEFINE c == shut(e)
    <3>2. rl' = [rl EXCEPT ![i] = c] /\ frames' = <<free>> \o <<>>
      BY <1>14, <2>4, <3>1
    <3>3. c \in Interface /\ Closed(i, e, c) /\ c.paused = e.paused
      BY <1>13
    <3> HIDE DEF c, shut
    <3>4. e.pending # <<>>
      <4>1. rl[i].pending \in Seq(Seq(Halves)) /\ e.pending = Append(rl[i].pending, job.got)
        BY <1>3, <3>1 DEF Buffered, Interface, Lines
      <4> QED BY <1>3, <4>1, AppendProperties
    <3>5. c.cut
      BY <3>3, <3>4 DEF Closed
    <3>6. Buffered(i, c, job.got)
      BY <3>1, <3>3, <3>5 DEF Buffered, Closed
    <3>7. Becomes(i, c)
      BY <1>3, <3>2, <3>3, ChangeOne
    <3> QED BY <1>7, <2>4, <3>2, <3>3, <3>6, <3>7 DEF Completed
  <2>5. CASE None(job) /\ CloseIn([rl EXCEPT ![i].reading = FALSE], i, <<>>)
    <3> DEFINE c == shut(Ended(i))
    <3>1. c \in Interface /\ Closed(i, Ended(i), c)
      BY <1>12, <1>13
    <3>2. [rl EXCEPT ![i].reading = FALSE] = [rl EXCEPT ![i] = Ended(i)]
      BY DEF Ended
    <3>3. rl' = [rl EXCEPT ![i] = c] /\ frames' = <<free>> \o <<>>
      BY <1>12, <1>14, <2>5, <3>2
    <3> HIDE DEF c, shut
    <3>4. Becomes(i, c)
      BY <1>3, <3>1, <3>3, ChangeOne
    <3> QED BY <1>7, <2>5, <3>1, <3>3, <3>4 DEF Completed
  <2> QED BY <1>4, <2>1, <2>2, <2>3, <2>4, <2>5, <2>6 DEF goOn
<1>9. rl' \in Seq(Interface) /\ Len(rl') = Len(rl) /\ DOMAIN rl' = DOMAIN rl
  BY <1>8, Types DEF Completed, Becomes
<1>10. frames' \in Seq(Frame)
  <2>1. \A f \in Frame : <<f>> \o <<>> \in Seq(Frame)
    BY EmptySeq, ConcatProperties
  <2> QED BY <1>8, <2>1, Types DEF Completed, Calls
<1>11. TypeOK'
  BY <1>1, <1>2, <1>9, <1>10, Types, SameTypes
<1> QED BY <1>1, <1>2, <1>8, <1>11 DEF i
-----------------------------------------------------------------------------
LEMMA TopFrame ==
    ASSUME TypeOK, frames # <<>>
    PROVE  /\ Top = frames[1] /\ Top \in Frame /\ Top.of \in DOMAIN rl /\ rl[Top.of] \in Interface
           /\ rl[Top.of].slot \in Slots /\ Top.rest \in Lines /\ Tail(frames) \in Seq(Frame)
<1>1. Top = frames[1] /\ Top \in Frame /\ Tail(frames) \in Seq(Frame)
  BY Types, Shortened DEF Top
<1>2. Top.of \in DOMAIN rl /\ Top.rest \in Lines
  BY <1>1 DEF Frame
<1>3. rl[Top.of] \in Interface
  BY <1>2, Types
<1> QED BY <1>1, <1>2, <1>3 DEF Interface

LEMMA GoOnStep ==
    ASSUME TypeOK, GoOn
    PROVE  /\ TypeOK' /\ frames # <<>> /\ Top.then = "go_on" /\ UNCHANGED <<input, slots, completed>>
           /\ \/ /\ \E e \in Interface : Becomes(Top.of, e) /\ Closed(Top.of, rl[Top.of], e)
                 /\ Calls(Top.of, Tail(frames)) /\ UNCHANGED running
              \/ frames' = Tail(frames) /\ UNCHANGED <<rl, running>>
              \/ frames' = Tail(frames) /\ \E s \in Slots : StartRead(rl, s)
<1>1. frames # <<>> /\ Top.then = "go_on" /\ UNCHANGED <<input, slots, completed>>
  BY DEF GoOn, Returns
<1> DEFINE i == Top.of
           t == Tail(frames)
<1>2. i \in DOMAIN rl /\ rl[i] \in Interface /\ rl[i].slot \in Slots /\ t \in Seq(Frame)
  BY <1>1, TopFrame
<1>3. \/ CloseIn(rl, i, t) /\ UNCHANGED running
      \/ frames' = t /\ UNCHANGED <<rl, running>>
      \/ frames' = t /\ StartRead(rl, rl[i].slot)
  BY DEF GoOn
<1> HIDE DEF i, t
<1>4. CASE CloseIn(rl, i, t) /\ UNCHANGED running
  <2>1. /\ \E e \in Interface : Becomes(i, e) /\ Closed(i, rl[i], e)
        /\ Callback(i, "free_slot") \in Frame
        /\ frames' = <<Callback(i, "free_slot")>> \o t /\ frames' \in Seq(Frame)
    BY <1>2, <1>4, CloseInStep
  <2>2. Calls(i, t)
    BY <2>1 DEF Calls, Callback
  <2>3. TypeOK'
    BY <1>1, <1>4, <2>1, Types, SameTypes DEF Becomes
  <2> QED BY <1>1, <1>4, <2>1, <2>2, <2>3 DEF i, t
<1>5. CASE frames' = t /\ UNCHANGED <<rl, running>>
  <2>1. TypeOK'
    BY <1>1, <1>2, <1>5, Types, SameTypes
  <2> QED BY <1>1, <1>5, <2>1 DEF i, t
<1>6. CASE frames' = t /\ StartRead(rl, rl[i].slot)
  <2>1. rl' \in Seq(Interface) /\ Len(rl') = Len(rl) /\ DOMAIN rl' = DOMAIN rl /\ running' \in Seq(Job)
    BY <1>2, <1>6, StartReadTypes
  <2>2. TypeOK'
    BY <1>1, <1>2, <1>6, <2>1, Types, SameTypes
  <2> QED BY <1>1, <1>2, <1>6, <2>2 DEF i, t
<1> QED BY <1>3, <1>4, <1>5, <1>6

(* A turn of the loop of xt_readline_drain_pending, with the lines rest still   *)
(* to be delivered and the lines of buffer left behind them: a line is          *)
(* delivered, nothing is left, or what is left is dropped.                      *)
Keeps(i, e, buffer) ==
    /\ e \in Interface /\ e.pending = buffer
    /\ e.paused = rl[i].paused /\ e.closed = rl[i].closed /\ e.exposed = rl[i].exposed
    /\ e.reading = rl[i].reading /\ e.took = rl[i].took

\* Interface i becomes e, and j starts to read.
Hands(i, e, j) ==
    /\ j # i /\ ~rl[j].reading
    /\ rl' \in Seq(Interface) /\ Len(rl') = Len(rl) /\ DOMAIN rl' = DOMAIN rl
    /\ rl'[i] = e /\ rl'[j] = [rl[j] EXCEPT !.reading = TRUE]
    /\ \A m \in DOMAIN rl : m # i /\ m # j => rl'[m] = rl[m]
    /\ \E job \in Job : /\ job.by = j /\ job.got = <<>>
                         /\ running' = Append(running, job) /\ running' \in Seq(Job)

Drained(i, rest, buffer) ==
    \/ /\ rest # <<>> /\ UNCHANGED running /\ ~rl[i].closed
       /\ \E e \in Interface : /\ Becomes(i, e) /\ Keeps(i, e, buffer) /\ e.cut = rl[i].cut
                               /\ e.delivered = Append(rl[i].delivered, Head(rest))
       /\ \E f \in Frame : /\ f.of = i /\ f.then = "drain" /\ f.rest = Tail(rest)
                           /\ frames' = <<f>> \o Tail(frames)
    \/ rest = <<>> /\ frames' = Tail(frames) /\ \E s \in Slots : StartRead(rl, s)
    \/ /\ rest # <<>> /\ frames' = Tail(frames)
       /\ \E e \in Interface : /\ Keeps(i, e, buffer) /\ e.cut /\ e.delivered = rl[i].delivered
                               /\ \/ Becomes(i, e) /\ UNCHANGED running
                                  \/ \E j \in DOMAIN rl : Hands(i, e, j)

LEMMA DrainTypes ==
    ASSUME TypeOK, NEW i \in DOMAIN rl, frames # <<>>, NEW rest, NEW buffer, Drained(i, rest, buffer),
           UNCHANGED <<input, completed>>, slots' = slots
    PROVE  TypeOK'
<1>1. Tail(frames) \in Seq(Frame)
  BY TopFrame
<1>2. frames' \in Seq(Frame)
  <2>1. \A f \in Frame : <<f>> \o Tail(frames) \in Seq(Frame)
    BY <1>1, Pushed
  <2> QED BY <1>1, <2>1 DEF Drained
<1>3. rl' \in Seq(Interface) /\ Len(rl') = Len(rl) /\ DOMAIN rl' = DOMAIN rl /\ running' \in Seq(Job)
  <2>1. CASE \E s \in Slots : StartRead(rl, s)
    BY <2>1, Types, StartReadTypes
  <2>2. CASE UNCHANGED running /\ \E e : Becomes(i, e)
    BY <2>2, Types DEF Becomes
  <2>3. CASE \E e, j : Hands(i, e, j)
    BY <2>3 DEF Hands
  <2> QED BY <2>1, <2>2, <2>3 DEF Drained
<1> QED BY <1>2, <1>3, Types, SameTypes

LEMMA DrainStep ==
    ASSUME TypeOK, NEW i \in DOMAIN rl, frames # <<>>, NEW rest \in Lines, NEW buffer \in Lines,
           NEW r, r = [rl EXCEPT ![i].pending = buffer], Drain(r, i, rest),
           rest = <<>> => buffer = rl[i].pending
    PROVE  Drained(i, rest, buffer)
<1> DEFINE b == [rl[i] EXCEPT !.pending = buffer]
           t == Tail(frames)
<1>1. rl[i] \in Interface /\ t \in Seq(Frame)
  BY Types, TopFrame
<1>2. /\ b \in Interface /\ b.closed = rl[i].closed /\ b.paused = rl[i].paused /\ b.slot = rl[i].slot
      /\ r = [rl EXCEPT ![i] = b] /\ r[i] = b
  BY <1>1 DEF Interface
<1>3. CASE rest # <<>> /\ ~(r[i].closed \/ r[i].paused)
  <2> DEFINE e == [b EXCEPT !.delivered = Append(@, Head(rest))]
             f == [Callback(i, "drain") EXCEPT !.rest = Tail(rest)]
  <2>1. Head(rest) \in Seq(Halves) /\ Tail(rest) \in Lines
    BY <1>3, FirstLine
  <2>2. rl[i].delivered \in Lines
    BY <1>1 DEF Interface
  <2>3. Append(rl[i].delivered, Head(rest)) \in Lines
    BY <2>1, <2>2, OneMoreLine
  <2>4. /\ e \in Interface /\ Keeps(i, e, buffer) /\ e.cut = rl[i].cut
        /\ e.delivered = Append(rl[i].delivered, Head(rest))
    BY <1>1, <2>3 DEF Interface, Keeps
  <2>5. f \in Frame /\ f.of = i /\ f.then = "drain" /\ f.rest = Tail(rest)
    <3> DEFINE left == Tail(rest)
    <3> HIDE DEF left
    <3>1. left \in Lines /\ FALSE \in BOOLEAN
      BY <2>1 DEF left
    <3>2. /\ [Callback(i, "drain") EXCEPT !.rest = left] \in Frame
          /\ [Callback(i, "drain") EXCEPT !.rest = left].of = i
          /\ [Callback(i, "drain") EXCEPT !.rest = left].then = "drain"
          /\ [Callback(i, "drain") EXCEPT !.rest = left].rest = left
      BY <3>1, NoLines DEF Callback, Frame
    <3> QED BY <3>2 DEF left
  <2>6. rl' = [r EXCEPT ![i].delivered = Append(@, Head(rest))] /\ frames' = <<f>> \o t /\ UNCHANGED running
    BY <1>3 DEF Drain
  <2>7. rl' = [rl EXCEPT ![i] = e]
    BY <1>2, <2>6, Types
  <2> HIDE DEF e, f
  <2>8. Becomes(i, e)
    BY <2>4, <2>7, ChangeOne
  <2>9. ~rl[i].closed /\ rest # <<>>
    BY <1>2, <1>3
  <2> QED BY <2>4, <2>5, <2>6, <2>8, <2>9 DEF Drained, t
<1>4. CASE rest = <<>>
  <2>1. r = rl
    BY <1>1, <1>2, <1>4, Types DEF Interface
  <2>2. [rl EXCEPT ![i].cut = @ \/ rest # <<>>] = rl
    <3>1. [rl[i] EXCEPT !.cut = FALSE \/ @] = rl[i] /\ [rl EXCEPT ![i] = rl[i]] = rl
      BY <1>1, Types DEF Interface
    <3> QED BY <1>4, <3>1
  <2>3. frames' = t /\ StartRead(rl, rl[i].slot)
    BY <1>4, <2>1, <2>2 DEF Drain
  <2>4. rl[i].slot \in Slots
    BY <1>1 DEF Interface
  <2> QED BY <1>4, <2>3, <2>4 DEF Drained, t
<1>5. CASE rest # <<>> /\ (r[i].closed \/ r[i].paused)
  <2> DEFINE e == [b EXCEPT !.cut = TRUE]
             q == [rl EXCEPT ![i] = e]
  <2>1. /\ e \in Interface /\ Keeps(i, e, buffer) /\ e.cut /\ e.delivered = rl[i].delivered
        /\ e.slot = rl[i].slot /\ (e.closed \/ e.paused)
    BY <1>1, <1>2, <1>5 DEF Interface, Keeps
  <2>2. [r EXCEPT ![i].cut = @ \/ rest # <<>>] = q
    <3>1. [b EXCEPT !.cut = @ \/ TRUE] = e
      BY <1>2 DEF Interface
    <3> QED BY <1>2, <1>5, <3>1, Types
  <2>3. frames' = t /\ StartRead(q, rl[i].slot)
    BY <1>2, <1>5, <2>2 DEF Drain
  <2> HIDE DEF e
  <2>4. /\ q \in Seq(Interface) /\ Len(q) = Len(rl)
        /\ q[i] = e /\ \A j \in DOMAIN rl : j # i => q[j] = rl[j]
    <3>1. rl \in Seq(Interface) /\ i \in 1 .. Len(rl) /\ DOMAIN rl = 1 .. Len(rl)
      BY Types
    <3> QED BY <2>1, <3>1, ExceptSeq
  <2>5. rl[i].slot \in Slots
    BY <1>1 DEF Interface
  <2> HIDE DEF q
  <2>6. CASE rl' = q /\ running' = running
    <3>1. Becomes(i, e)
      BY <2>4, <2>6, Types, LenProperties DEF Becomes
    <3> QED BY <1>5, <2>1, <2>3, <2>6, <3>1 DEF Drained, t
  <2>7. ASSUME NEW j \in DOMAIN rl, NEW job \in Job, MayRead(q[j]), job.by = j, job.got = <<>>,
               rl' \in Seq(Interface), Len(rl') = Len(rl), DOMAIN rl' = DOMAIN rl,
               rl'[j] = [q[j] EXCEPT !.reading = TRUE], \A m \in DOMAIN rl : m # j => rl'[m] = q[m],
               running' = Append(running, job), running' \in Seq(Job)
        PROVE  Drained(i, rest, buffer)
    <3>1. j # i
      BY <2>1, <2>4, <2>7 DEF MayRead
    <3>2. ~rl[j].reading /\ rl'[i] = e /\ rl'[j] = [rl[j] EXCEPT !.reading = TRUE]
      BY <2>4, <2>7, <3>1 DEF MayRead
    <3>3. \A m \in DOMAIN rl : m # i /\ m # j => rl'[m] = rl[m]
      BY <2>4, <2>7
    <3>4. Hands(i, e, j)
      BY <2>7, <3>1, <3>2, <3>3 DEF Hands
    <3> QED BY <1>5, <2>1, <2>3, <3>4 DEF Drained, t
  <2> QED BY <2>3, <2>4, <2>5, <2>6, <2>7, StartReadsFrom
<1> QED BY <1>3, <1>4, <1>5

LEMMA DrainPendingStep ==
    ASSUME TypeOK, DrainPending
    PROVE  /\ TypeOK' /\ frames # <<>> /\ Top.then = "drain_pending" /\ UNCHANGED <<input, slots, completed>>
           /\ Drained(Top.of, rl[Top.of].pending, <<>>)
<1> DEFINE i == Top.of
           r == [rl EXCEPT ![i].pending = <<>>]
<1>1. /\ frames # <<>> /\ Top.then = "drain_pending" /\ UNCHANGED <<input, slots, completed>>
      /\ Drain(r, i, rl[i].pending)
  BY DEF DrainPending, Returns
<1>2. i \in DOMAIN rl /\ rl[i].pending \in Lines
  BY <1>1, TopFrame DEF Interface
<1> HIDE DEF i
<1>3. Drained(i, rl[i].pending, <<>>)
  BY <1>1, <1>2, NoLines, DrainStep
<1>4. TypeOK'
  BY <1>1, <1>2, <1>3, DrainTypes
<1> QED BY <1>1, <1>3, <1>4 DEF i

LEMMA DrainNextStep ==
    ASSUME TypeOK, DrainNext
    PROVE  /\ TypeOK' /\ frames # <<>> /\ Top.then = "drain" /\ UNCHANGED <<input, slots, completed>>
           /\ Drained(Top.of, Top.rest, rl[Top.of].pending)
<1> DEFINE i == Top.of
           rest == Top.rest
<1>1. /\ frames # <<>> /\ Top.then = "drain" /\ UNCHANGED <<input, slots, completed>>
      /\ Drain(rl, i, rest)
  BY DEF DrainNext, Returns
<1>2. i \in DOMAIN rl /\ rl[i] \in Interface /\ rl[i].pending \in Lines /\ rest \in Lines
  BY <1>1, TopFrame DEF Interface
<1> HIDE DEF i, rest
<1>3. rl = [rl EXCEPT ![i].pending = rl[i].pending]
  BY <1>2, Types DEF Interface
<1>4. Drained(i, rest, rl[i].pending)
  BY <1>1, <1>2, <1>3, DrainStep
<1>5. TypeOK'
  BY <1>1, <1>2, <1>4, DrainTypes
<1> QED BY <1>1, <1>4, <1>5 DEF i, rest

LEMMA FreeClosedStep ==
    ASSUME TypeOK, FreeClosed
    PROVE  /\ TypeOK' /\ frames # <<>> /\ Top.then = "free_slot" /\ frames' = Tail(frames)
           /\ UNCHANGED <<input, rl, running, completed>>
<1>1. /\ frames # <<>> /\ Top.then = "free_slot" /\ frames' = Tail(frames)
      /\ UNCHANGED <<input, rl, running, completed>>
      /\ slots' = [slots EXCEPT ![rl[Top.of].slot] = 0]
  BY DEF FreeClosed, Returns
<1>2. Tail(frames) \in Seq(Frame)
  BY <1>1, TopFrame
<1>3. slots' \in [Slots -> 0 .. Len(rl)]
  <2>1. slots \in [Slots -> 0 .. Len(rl)] /\ 0 \in 0 .. Len(rl)
    BY Types DEF TypeOK
  <2> QED BY <1>1, <2>1
<1>4. TypeOK'
  BY <1>1, <1>2, <1>3, Types, SameTypes
<1> QED BY <1>1, <1>4
-----------------------------------------------------------------------------
(* What a step does to the reads on their way, and to what interfaces read: it  *)
(* leaves them alone, it starts a read, it ends one on the main thread, or the  *)
(* read itself goes on.                                                         *)
Quiet ==
    /\ UNCHANGED <<input, running, completed>> /\ DOMAIN rl \subseteq DOMAIN rl'
    /\ \A i \in DOMAIN rl : rl'[i].took = rl[i].took /\ rl'[i].reading = rl[i].reading
    /\ \A i \in DOMAIN rl' : i \notin DOMAIN rl => rl'[i].took = <<>>

Starts ==
    \E i \in DOMAIN rl, job \in Job :
        /\ DOMAIN rl' = DOMAIN rl /\ \A j \in DOMAIN rl : rl'[j].took = rl[j].took
        /\ ~rl[i].reading /\ rl'[i].reading
        /\ \A j \in DOMAIN rl : j # i => rl'[j].reading = rl[j].reading
        /\ job.by = i /\ job.got = <<>> /\ running' = Append(running, job)
        /\ UNCHANGED <<input, completed>>

Finishes ==
    /\ completed # <<>> /\ completed' = Tail(completed) /\ completed[1] \in Job
    /\ UNCHANGED <<input, running>>
    /\ \/ UNCHANGED rl
       \/ \E e \in Interface :
             /\ Becomes(completed[1].by, e)
             /\ \/ e.took = rl[completed[1].by].took
                \/ ~None(completed[1]) /\ e.took = Append(rl[completed[1].by].took, completed[1].got)

LEMMA QuietOrStarts ==
    ASSUME TypeOK, NEW s \in Slots, StartRead(rl, s), UNCHANGED <<input, completed>>
    PROVE  Quiet \/ Starts
<1>1. CASE rl' = rl /\ running' = running
  BY <1>1 DEF Quiet
<1>2. ASSUME NEW i \in DOMAIN rl, NEW job \in Job, MayRead(rl[i]), job.by = i, job.got = <<>>,
             Becomes(i, [rl[i] EXCEPT !.reading = TRUE]), running' = Append(running, job)
      PROVE  Starts
  <2>1. /\ rl[i] \in Interface /\ ~rl[i].reading
        /\ rl'[i].reading /\ rl'[i].took = rl[i].took
        /\ DOMAIN rl' = DOMAIN rl /\ \A j \in DOMAIN rl : j # i => rl'[j] = rl[j]
    BY <1>2, Types DEF Becomes, Interface, MayRead
  <2>2. \A j \in DOMAIN rl : rl'[j].took = rl[j].took /\ (j # i => rl'[j].reading = rl[j].reading)
    BY <2>1
  <2> QED BY <1>2, <2>1, <2>2 DEF Starts
<1> QED BY <1>1, <1>2, StartReads

(* An interface that changes in another way has read nothing more. *)
LEMMA QuietChange ==
    ASSUME TypeOK, NEW i \in DOMAIN rl, NEW e, Becomes(i, e),
           e.took = rl[i].took, e.reading = rl[i].reading, UNCHANGED <<input, running, completed>>
    PROVE  Quiet
  BY DEF Becomes, Quiet

LEMMA QuietSame ==
    ASSUME UNCHANGED <<rl, input, running, completed>>
    PROVE  Quiet
  BY DEF Quiet

LEMMA QuietDrain ==
    ASSUME TypeOK, NEW i \in DOMAIN rl, NEW rest, NEW buffer, Drained(i, rest, buffer),
           UNCHANGED <<input, slots, completed>>
    PROVE  Quiet \/ Starts
<1>1. CASE UNCHANGED running /\ \E e \in Interface : Becomes(i, e) /\ Keeps(i, e, buffer)
  BY <1>1, QuietChange DEF Keeps
<1>2. CASE \E s \in Slots : StartRead(rl, s)
  BY <1>2, QuietOrStarts
<1>3. ASSUME NEW e \in Interface, Keeps(i, e, buffer), NEW j \in DOMAIN rl, Hands(i, e, j)
      PROVE  Starts
  <2>1. /\ rl[j] \in Interface /\ rl'[j].reading /\ rl'[j].took = rl[j].took
        /\ DOMAIN rl' = DOMAIN rl /\ rl'[i] = e /\ \A m \in DOMAIN rl : m # i /\ m # j => rl'[m] = rl[m]
    BY <1>3, Types DEF Hands, Interface
  <2>2. \A m \in DOMAIN rl : rl'[m].took = rl[m].took /\ (m # j => rl'[m].reading = rl[m].reading)
    BY <1>3, <2>1 DEF Keeps
  <2> QED BY <1>3, <2>1, <2>2 DEF Starts, Hands
<1> QED BY <1>1, <1>2, <1>3 DEF Drained

(* An exception changes what is noted of the lines, and ends callbacks. *)
Unwinds(k) ==
    /\ frames' = SubSeq(frames, k + 1, Len(frames))
    /\ \A i \in DOMAIN rl :
          /\ rl'[i].pending = rl[i].pending /\ rl'[i].delivered = rl[i].delivered
          /\ rl'[i].took = rl[i].took /\ rl'[i].reading = rl[i].reading
          /\ rl'[i].paused = rl[i].paused /\ rl'[i].closed = rl[i].closed
          /\ rl'[i].cut <=> rl[i].cut \/ \E f \in Drains(i) : f <= k
          /\ rl'[i].exposed <=> rl[i].exposed \/ Stale(rl[i], i, frames')

LEMMA ThrowStep ==
    ASSUME TypeOK, Throw
    PROVE  /\ TypeOK' /\ UNCHANGED <<input, slots, running, completed>> /\ DOMAIN rl' = DOMAIN rl
           /\ frames # <<>> /\ \E k \in DOMAIN frames : Unwinds(k)
<1>1. frames # <<>> /\ UNCHANGED <<input, slots, running, completed>>
  BY DEF Throw
<1> DEFINE outer(k) == SubSeq(frames, k + 1, Len(frames))
           cut(i, k) == rl[i].cut \/ \E f \in Drains(i) : f <= k
           exposed(i, k) == rl[i].exposed \/ Stale(rl[i], i, outer(k))
           e(i, k) == [rl[i] EXCEPT !.cut = cut(i, k), !.exposed = exposed(i, k)]
<1>2. PICK k \in DOMAIN frames : frames' = outer(k) /\ rl' = [i \in DOMAIN rl |-> e(i, k)]
  BY DEF Throw
<1>3. ASSUME NEW i \in DOMAIN rl
      PROVE  cut(i, k) \in BOOLEAN /\ exposed(i, k) \in BOOLEAN
  <2>1. rl[i].cut \in BOOLEAN /\ rl[i].exposed \in BOOLEAN
    BY Types DEF Interface
  <2> QED BY <2>1
<1>4. ASSUME NEW i \in DOMAIN rl
      PROVE  /\ e(i, k) \in Interface /\ e(i, k).cut = cut(i, k) /\ e(i, k).exposed = exposed(i, k)
             /\ e(i, k).pending = rl[i].pending /\ e(i, k).delivered = rl[i].delivered
             /\ e(i, k).took = rl[i].took /\ e(i, k).reading = rl[i].reading
             /\ e(i, k).paused = rl[i].paused /\ e(i, k).closed = rl[i].closed
  <2>1. rl[i] \in Interface
    BY Types
  <2> HIDE DEF cut, exposed
  <2> QED BY <1>3, <2>1 DEF Interface
<1>5. Unwinds(k)
  <2>1. \A i \in DOMAIN rl : rl'[i] = e(i, k)
    BY <1>2
  <2> HIDE DEF e
  <2> QED BY <1>2, <1>4, <2>1 DEF Unwinds
<1> HIDE DEF e
<1>6. DOMAIN rl' = DOMAIN rl /\ rl' \in Seq(Interface) /\ Len(rl') = Len(rl)
  <2>1. DOMAIN rl = 1 .. Len(rl) /\ Len(rl) \in Nat
    BY Types
  <2>2. rl' \in [1 .. Len(rl) -> Interface]
    BY <1>2, <1>4, <2>1
  <2>3. rl' \in Seq(Interface) /\ DOMAIN rl' = 1 .. Len(rl)
    BY <2>1, <2>2, SeqDef
  <2>4. Len(rl') = Len(rl)
    BY <2>1, <2>3, LenProperties
  <2> QED BY <2>1, <2>3, <2>4
<1>7. frames' \in Seq(Frame)
  BY <1>2, Types, LenProperties, SubSeqProperties
<1>8. TypeOK'
  BY <1>1, <1>6, <1>7, Types, SameTypes
<1> QED BY <1>1, <1>5, <1>6, <1>8

LEMMA Kinds ==
    ASSUME TypeOK, [Next]_vars
    PROVE  /\ TypeOK'
           /\ Quiet \/ Starts \/ Finishes \/ \E k \in DOMAIN running : JobReads(k) \/ JobAtEof(k)
<1>1. CASE UNCHANGED vars
  <2>1. UNCHANGED <<rl, input, running, completed, frames, slots>>
    BY <1>1 DEF vars
  <2> QED BY <2>1, QuietSame, Types, SameTypes
<1>2. CASE Create
  <2>1. /\ TypeOK' /\ DOMAIN rl' = 1 .. Len(rl) + 1 /\ (\A i \in DOMAIN rl : rl'[i] = rl[i])
        /\ UNCHANGED <<input, running, completed>> /\ rl'[Len(rl) + 1].took = <<>>
    BY <1>2, CreateStep
  <2>2. DOMAIN rl = 1 .. Len(rl) /\ Len(rl) \in Nat
    BY Types
  <2>3. DOMAIN rl \subseteq DOMAIN rl' /\ \A i \in DOMAIN rl' : i \notin DOMAIN rl => i = Len(rl) + 1
    BY <2>1, <2>2
  <2> QED BY <2>1, <2>3 DEF Quiet
<1>3. ASSUME NEW i \in DOMAIN rl, Listen(i)
      PROVE  TypeOK' /\ (Quiet \/ Starts)
  BY <1>3, ListenStep, QuietOrStarts
<1>4. ASSUME NEW i \in DOMAIN rl, Pause(i)
      PROVE  TypeOK' /\ Quiet
  <2> DEFINE e == [rl[i] EXCEPT !.paused = TRUE]
  <2>1. TypeOK' /\ Becomes(i, e) /\ UNCHANGED <<input, running, completed>>
    BY <1>4, PauseStep
  <2>2. e.took = rl[i].took /\ e.reading = rl[i].reading
    BY Types DEF Interface
  <2> HIDE DEF e
  <2> QED BY <2>1, <2>2, QuietChange
<1>5. ASSUME NEW i \in DOMAIN rl, Resume(i)
      PROVE  TypeOK' /\ Quiet
  <2> DEFINE e == [rl[i] EXCEPT !.paused = FALSE]
  <2>1. TypeOK' /\ Becomes(i, e) /\ UNCHANGED <<input, running, completed>>
    BY <1>5, ResumeStep
  <2>2. e.took = rl[i].took /\ e.reading = rl[i].reading
    BY Types DEF Interface
  <2> HIDE DEF e
  <2> QED BY <2>1, <2>2, QuietChange
<1>6. ASSUME NEW i \in DOMAIN rl, Close(i)
      PROVE  TypeOK' /\ Quiet
  <2>1. PICK e \in Interface : Becomes(i, e) /\ Closed(i, rl[i], e)
    BY <1>6, CloseStep
  <2>2. e.took = rl[i].took /\ e.reading = rl[i].reading
    BY <2>1 DEF Closed
  <2>3. TypeOK' /\ UNCHANGED <<input, running, completed>>
    BY <1>6, CloseStep
  <2> QED BY <2>1, <2>2, <2>3, QuietChange
<1>7. ASSUME NEW k \in DOMAIN running, JobReads(k) \/ JobAtEof(k)
      PROVE  TypeOK'
  BY <1>7, JobReadsStep, JobAtEofStep
<1>8. CASE Complete
  <2> DEFINE job == completed[1]
             i == job.by
  <2>1. /\ TypeOK' /\ completed # <<>> /\ completed' = Tail(completed) /\ job \in Job
        /\ UNCHANGED <<input, running>> /\ Completed(i, job)
    BY <1>8, CompleteStep
  <2>2. i \in DOMAIN rl /\ rl[i] \in Interface
    BY <2>1, Types DEF Job
  <2>3. \/ UNCHANGED rl
        \/ \E e \in Interface :
              /\ Becomes(i, e)
              /\ \/ e.took = rl[i].took
                 \/ ~None(job) /\ e.took = Append(rl[i].took, job.got)
    <3>1. Ended(i) \in Interface /\ Ended(i).took = rl[i].took
      BY <2>2 DEF Interface, Ended
    <3> HIDE DEF job, i
    <3> QED BY <2>1, <3>1 DEF Completed, Delivered, Buffered, Closed
  <2> QED BY <2>1, <2>3 DEF Finishes
<1>9. CASE GoOn
  <2>1. /\ TypeOK' /\ frames # <<>> /\ UNCHANGED <<input, completed>>
        /\ \/ (\E e \in Interface : Becomes(Top.of, e) /\ Closed(Top.of, rl[Top.of], e)) /\ UNCHANGED running
           \/ UNCHANGED <<rl, running>>
           \/ \E s \in Slots : StartRead(rl, s)
    BY <1>9, GoOnStep
  <2>2. Top.of \in DOMAIN rl
    BY <2>1, TopFrame
  <2>3. ASSUME NEW e \in Interface, Becomes(Top.of, e), Closed(Top.of, rl[Top.of], e), UNCHANGED running
        PROVE  Quiet
    <3>1. e.took = rl[Top.of].took /\ e.reading = rl[Top.of].reading
      BY <2>3 DEF Closed
    <3> QED BY <2>1, <2>2, <2>3, <3>1, QuietChange
  <2> QED BY <2>1, <2>3, QuietSame, QuietOrStarts
<1>10. CASE DrainPending
  BY <1>10, DrainPendingStep, TopFrame, QuietDrain
<1>11. CASE DrainNext
  BY <1>11, DrainNextStep, TopFrame, QuietDrain
<1>12. CASE FreeClosed
  BY <1>12, FreeClosedStep, QuietSame
<1>13. CASE Throw
  BY <1>13, ThrowStep DEF Quiet, Unwinds
<1> QED BY <1>1, <1>2, <1>3, <1>4, <1>5, <1>6, <1>7, <1>8, <1>9, <1>10, <1>11, <1>12, <1>13 DEF Next, Method

LEMMA InitTypes ==
    ASSUME Init
    PROVE  TypeOK
<1>1. /\ next = 1 /\ last \in Halves /\ rl = <<>> /\ running = <<>> /\ completed = <<>> /\ frames = <<>>
      /\ mixed = {} /\ slots = [s \in Slots |-> 0]
  BY ReadlineAssumption DEF Init, Halves
<1>2. <<>> \in Seq(Interface) /\ <<>> \in Seq(Job) /\ <<>> \in Seq(Frame) /\ Len(rl) = 0
  BY <1>1, EmptySeq
<1>3. next \in 1 .. 2 * MaxLines + 1
  BY <1>1, ReadlineAssumption
<1> QED BY <1>1, <1>2, <1>3 DEF TypeOK

(* The state of every interface, read and callback has its type, and an index   *)
(* of the table its bounds.                                                     *)
THEOREM TypeCorrect == Spec => []TypeOK
<1>1. Init => TypeOK
  BY InitTypes
<1>2. TypeOK /\ [Next]_vars => TypeOK'
  BY Kinds
<1> QED BY <1>1, <1>2, PTL DEF Spec
-----------------------------------------------------------------------------
(* A read that is appended, goes on, ends or is taken from the queue leaves an  *)
(* interface with one read at most.                                             *)
LEMMA AloneAppended ==
    ASSUME NEW r \in Seq(Job), NEW c \in Seq(Job), NEW job \in Job, Alone(r, c),
           \A k \in DOMAIN r : r[k].by # job.by, \A k \in DOMAIN c : c[k].by # job.by
    PROVE  Alone(Append(r, job), c)
<1> DEFINE q == Append(r, job)
           n == Len(r)
<1>1. /\ n \in Nat /\ DOMAIN r = 1 .. n /\ DOMAIN q = 1 .. n + 1
      /\ q[n + 1] = job /\ \A i \in 1 .. n : q[i] = r[i]
  BY InQueue
<1> HIDE DEF q, n
<1>2. \A k \in DOMAIN q : k = n + 1 \/ (k \in DOMAIN r /\ q[k] = r[k])
  BY <1>1
<1>3. \A k \in DOMAIN q, m \in DOMAIN c : q[k].by # c[m].by
  BY <1>1, <1>2 DEF Alone
<1>4. \A k, m \in DOMAIN q : q[k].by = q[m].by => k = m
  BY <1>1, <1>2 DEF Alone
<1> QED BY <1>3, <1>4 DEF Alone, q

LEMMA AloneGoesOn ==
    ASSUME NEW r \in Seq(Job), NEW c \in Seq(Job), NEW k \in DOMAIN r, NEW job \in Job,
           job.by = r[k].by, Alone(r, c)
    PROVE  /\ Alone([r EXCEPT ![k] = job], c) /\ job \in ToSet([r EXCEPT ![k] = job])
           /\ \A j \in ToSet([r EXCEPT ![k] = job]) : j = job \/ (j \in ToSet(r) /\ j.by # job.by)
<1> DEFINE q == [r EXCEPT ![k] = job]
<1>1. DOMAIN q = DOMAIN r /\ q[k] = job /\ \A m \in DOMAIN r : m # k => q[m] = r[m]
  BY LenProperties
<1> HIDE DEF q
<1>2. \A m \in DOMAIN r : q[m].by = r[m].by
  BY <1>1
<1>3. Alone(q, c)
  BY <1>1, <1>2 DEF Alone
<1>4. \A m \in DOMAIN r : m # k => r[m].by # job.by
  BY DEF Alone
<1>5. job \in ToSet(q) /\ \A j \in ToSet(q) : j = job \/ (j \in ToSet(r) /\ j.by # job.by)
  BY <1>1, <1>4 DEF ToSet
<1> QED BY <1>3, <1>5 DEF q

LEMMA AloneEnds ==
    ASSUME NEW r \in Seq(Job), NEW c \in Seq(Job), NEW k \in DOMAIN r, NEW job \in Job,
           job.by = r[k].by, Alone(r, c)
    PROVE  /\ Alone(RemoveAt(r, k), Append(c, job))
           /\ \A j \in ToSet(RemoveAt(r, k)) : j \in ToSet(r) /\ j.by # job.by
           /\ ToSet(Append(c, job)) = ToSet(c) \cup {job}
<1> DEFINE q == RemoveAt(r, k)
           d == Append(c, job)
           n == Len(r)
           l == Len(c)
<1>1. /\ n \in Nat /\ DOMAIN r = 1 .. n /\ DOMAIN q = 1 .. n - 1 /\ k \in 1 .. n
      /\ \A m \in 1 .. n - 1 : q[m] = IF m < k THEN r[m] ELSE r[m + 1]
  BY Removed
<1>2. /\ l \in Nat /\ DOMAIN c = 1 .. l /\ DOMAIN d = 1 .. l + 1 /\ ToSet(d) = ToSet(c) \cup {job}
      /\ d[l + 1] = job /\ \A i \in 1 .. l : d[i] = c[i]
  BY InQueue
<1> HIDE DEF q, d, n, l
<1> DEFINE old(m) == IF m < k THEN m ELSE m + 1
<1>3. \A m \in DOMAIN q : old(m) \in DOMAIN r /\ old(m) # k /\ q[m] = r[old(m)]
  BY <1>1
<1>4. \A m, p \in DOMAIN q : old(m) = old(p) => m = p
  BY <1>1
<1> HIDE DEF old
<1>5. \A m \in DOMAIN r : m # k => r[m].by # job.by
  BY DEF Alone
<1>6. \A m \in DOMAIN q : q[m] \in ToSet(r) /\ q[m].by # job.by
  BY <1>3, <1>5 DEF ToSet
<1>7. \A m, p \in DOMAIN q : q[m].by = q[p].by => m = p
  BY <1>3, <1>4 DEF Alone
<1>8. \A m \in DOMAIN d : m = l + 1 \/ (m \in DOMAIN c /\ d[m] = c[m])
  BY <1>2
<1>9. \A m \in DOMAIN c : c[m].by # job.by
  BY DEF Alone
<1>10. \A m, p \in DOMAIN d : d[m].by = d[p].by => m = p
  BY <1>2, <1>8, <1>9 DEF Alone
<1>11. \A m \in DOMAIN q, p \in DOMAIN d : q[m].by # d[p].by
  BY <1>2, <1>3, <1>6, <1>8 DEF Alone
<1>12. Alone(q, d)
  BY <1>7, <1>10, <1>11 DEF Alone
<1>13. \A j \in ToSet(q) : j \in ToSet(r) /\ j.by # job.by
  BY <1>6 DEF ToSet
<1> QED BY <1>2, <1>12, <1>13 DEF q, d

LEMMA AloneFinishes ==
    ASSUME NEW r \in Seq(Job), NEW c \in Seq(Job), c # <<>>, Alone(r, c)
    PROVE  /\ Alone(r, Tail(c)) /\ c[1] \in ToSet(c)
           /\ \A j \in ToSet(r) : j.by # c[1].by
           /\ \A j \in ToSet(Tail(c)) : j \in ToSet(c) /\ j.by # c[1].by
<1> DEFINE d == Tail(c)
           n == Len(c)
<1>1. /\ n \in Nat \ {0} /\ DOMAIN c = 1 .. n /\ DOMAIN d = 1 .. n - 1
      /\ \A i \in 1 .. n - 1 : d[i] = c[i + 1]
  BY Shortened
<1> HIDE DEF d, n
<1>2. \A m \in DOMAIN d : m + 1 \in DOMAIN c /\ m + 1 # 1 /\ d[m] = c[m + 1]
  BY <1>1
<1>3. 1 \in DOMAIN c
  BY <1>1
<1>4. \A m \in DOMAIN d : d[m] \in ToSet(c) /\ d[m].by # c[1].by
  BY <1>2, <1>3 DEF Alone, ToSet
<1>5. \A m, p \in DOMAIN d : d[m].by = d[p].by => m = p
  <2> TAKE m, p \in DOMAIN d
  <2>1. m \in Int /\ p \in Int
    BY <1>1
  <2>2. d[m].by = d[p].by => m + 1 = p + 1
    BY <1>2 DEF Alone
  <2> QED BY <2>1, <2>2
<1>6. Alone(r, d)
  BY <1>2, <1>5 DEF Alone
<1>7. \A j \in ToSet(d) : j \in ToSet(c) /\ j.by # c[1].by
  BY <1>4 DEF ToSet
<1>8. c[1] \in ToSet(c) /\ \A j \in ToSet(r) : j.by # c[1].by
  BY <1>3 DEF Alone, ToSet
<1> QED BY <1>6, <1>7, <1>8 DEF d

LEMMA JobsTyped ==
    ASSUME TypeOK
    PROVE  Jobs \subseteq Job /\ \A job \in Jobs : job.by \in DOMAIN rl /\ job.got \in Seq(Halves)
  BY Types DEF Jobs, ToSet, Job
-----------------------------------------------------------------------------
(* Read k goes on as job, or has ended as job; the other reads stay. *)
GoesOn(job) ==
    /\ job \in ToSet(running') /\ completed' = completed
    /\ \A j \in ToSet(running') : j = job \/ (j \in ToSet(running) /\ j.by # job.by)

HasEnded(job) ==
    /\ ToSet(completed') = ToSet(completed) \cup {job}
    /\ \A j \in ToSet(running') : j \in ToSet(running) /\ j.by # job.by

LEMMA Ending ==
    ASSUME TypeOK, OneJob, NEW k \in DOMAIN running, NEW job \in Job, job.by = running[k].by,
           JobEnds(k, job)
    PROVE  HasEnded(job) /\ Alone(running', completed')
<1>1. running' = RemoveAt(running, k) /\ completed' = Append(completed, job)
  BY DEF JobEnds
<1>2. running \in Seq(Job) /\ completed \in Seq(Job) /\ Alone(running, completed)
  BY Types DEF OneJob
<1>3. /\ Alone(RemoveAt(running, k), Append(completed, job))
      /\ \A j \in ToSet(RemoveAt(running, k)) : j \in ToSet(running) /\ j.by # job.by
      /\ ToSet(Append(completed, job)) = ToSet(completed) \cup {job}
  BY <1>2, AloneEnds
<1> QED BY <1>1, <1>3 DEF HasEnded

LEMMA StillReading ==
    ASSUME TypeOK, OneJob, NEW k \in DOMAIN running, NEW job \in Job, job.by = running[k].by,
           GoesOn(job) \/ HasEnded(job), Alone(running', completed'), UNCHANGED rl
    PROVE  OneJob'
<1>1. running[k] \in Jobs
  BY DEF Jobs, ToSet
<1>2. rl[job.by].reading
  BY <1>1 DEF OneJob
<1>3. \A j \in Jobs' : j = job \/ j \in Jobs
  BY DEF Jobs, GoesOn, HasEnded
<1> QED BY <1>2, <1>3 DEF OneJob

LEMMA JobReadsOne ==
    ASSUME TypeOK, OneJob, NEW k \in DOMAIN running, JobReads(k)
    PROVE  /\ OneJob'
           /\ \E job \in Job : /\ job.by = running[k].by /\ job.got = Append(running[k].got, next)
                               /\ IF Ends(next) THEN HasEnded(job) ELSE GoesOn(job)
<1>1. PICK job \in Job :
         /\ job.by = running[k].by /\ job.got = Append(running[k].got, next)
         /\ IF Ends(next) THEN JobEnds(k, job)
            ELSE running' = [running EXCEPT ![k] = job] /\ completed' = completed
  BY JobReadsStep
<1>2. UNCHANGED rl
  BY JobReadsStep
<1>3. CASE Ends(next)
  <2>1. HasEnded(job) /\ Alone(running', completed')
    BY <1>1, <1>3, Ending
  <2> QED BY <1>1, <1>2, <1>3, <2>1, StillReading
<1>4. CASE ~Ends(next)
  <2>1. running' = [running EXCEPT ![k] = job] /\ completed' = completed
    BY <1>1, <1>4
  <2>2. running \in Seq(Job) /\ completed \in Seq(Job) /\ Alone(running, completed)
    BY Types DEF OneJob
  <2>3. /\ Alone([running EXCEPT ![k] = job], completed) /\ job \in ToSet([running EXCEPT ![k] = job])
        /\ \A j \in ToSet([running EXCEPT ![k] = job]) :
              j = job \/ (j \in ToSet(running) /\ j.by # job.by)
    <3>1. job.by = running[k].by
      BY <1>1
    <3> QED BY <2>2, <3>1, AloneGoesOn
  <2>4. GoesOn(job) /\ Alone(running', completed')
    BY <2>1, <2>3 DEF GoesOn
  <2> QED BY <1>1, <1>2, <1>4, <2>4, StillReading
<1> QED BY <1>3, <1>4

LEMMA JobAtEofOne ==
    ASSUME TypeOK, OneJob, NEW k \in DOMAIN running, JobAtEof(k)
    PROVE  /\ OneJob'
           /\ \E job \in Job : /\ job.by = running[k].by /\ job.got = running[k].got /\ job.eof
                               /\ HasEnded(job)
<1>1. PICK job \in Job : /\ job.by = running[k].by /\ job.got = running[k].got /\ job.eof
                         /\ JobEnds(k, job)
  BY JobAtEofStep
<1>2. UNCHANGED rl
  BY JobAtEofStep
<1>3. HasEnded(job) /\ Alone(running', completed')
  BY <1>1, Ending
<1> QED BY <1>1, <1>2, <1>3, StillReading

LEMMA StartsOne ==
    ASSUME TypeOK, OneJob, Starts
    PROVE  /\ OneJob' /\ DOMAIN rl' = DOMAIN rl /\ UNCHANGED <<input, completed>>
           /\ \A i \in DOMAIN rl : rl'[i].took = rl[i].took
           /\ \E job \in Job : job.got = <<>> /\ ToSet(running') = ToSet(running) \cup {job}
<1>1. PICK i \in DOMAIN rl, job \in Job :
         /\ DOMAIN rl' = DOMAIN rl /\ \A j \in DOMAIN rl : rl'[j].took = rl[j].took
         /\ ~rl[i].reading /\ rl'[i].reading
         /\ \A j \in DOMAIN rl : j # i => rl'[j].reading = rl[j].reading
         /\ job.by = i /\ job.got = <<>> /\ running' = Append(running, job)
         /\ UNCHANGED <<input, completed>>
  BY DEF Starts
<1>2. running \in Seq(Job) /\ completed \in Seq(Job) /\ Alone(running, completed)
  BY Types DEF OneJob
<1>3. \A j \in Jobs : j.by # i
  BY <1>1 DEF OneJob
<1>4. Alone(Append(running, job), completed)
  BY <1>1, <1>2, <1>3, AloneAppended DEF Jobs, ToSet
<1>5. ToSet(running') = ToSet(running) \cup {job}
  BY <1>1, <1>2, InQueue
<1>6. \A j \in Jobs : j.by \in DOMAIN rl
  BY JobsTyped
<1>7. \A j \in Jobs' : j = job \/ j \in Jobs
  BY <1>1, <1>5 DEF Jobs
<1>8. \A j \in Jobs' : rl'[j.by].reading
  BY <1>1, <1>6, <1>7 DEF OneJob
<1>9. OneJob'
  BY <1>1, <1>4, <1>8 DEF OneJob
<1> QED BY <1>1, <1>5, <1>9

LEMMA FinishesOne ==
    ASSUME TypeOK, OneJob, Finishes
    PROVE  /\ OneJob' /\ DOMAIN rl' = DOMAIN rl /\ UNCHANGED <<input, running>>
           /\ completed[1] \in ToSet(completed) /\ ToSet(completed') \subseteq ToSet(completed)
           /\ \A j \in Jobs' : j \in Jobs /\ j.by # completed[1].by
           /\ \A i \in DOMAIN rl :
                 \/ rl'[i].took = rl[i].took
                 \/ /\ i = completed[1].by /\ ~None(completed[1])
                    /\ rl'[i].took = Append(rl[i].took, completed[1].got)
<1> DEFINE job == completed[1]
<1>1. /\ completed # <<>> /\ completed' = Tail(completed) /\ job \in Job /\ UNCHANGED <<input, running>>
      /\ \/ UNCHANGED rl
         \/ \E e \in Interface : /\ Becomes(job.by, e)
                                 /\ \/ e.took = rl[job.by].took
                                    \/ ~None(job) /\ e.took = Append(rl[job.by].took, job.got)
  BY DEF Finishes
<1>2. running \in Seq(Job) /\ completed \in Seq(Job) /\ Alone(running, completed)
  BY Types DEF OneJob
<1>3. /\ Alone(running, Tail(completed)) /\ job \in ToSet(completed)
      /\ \A j \in ToSet(running) : j.by # job.by
      /\ \A j \in ToSet(Tail(completed)) : j \in ToSet(completed) /\ j.by # job.by
  BY <1>1, <1>2, AloneFinishes
<1> HIDE DEF job
<1>4. \A j \in Jobs' : j \in Jobs /\ j.by # job.by
  BY <1>1, <1>3 DEF Jobs
<1>5. DOMAIN rl' = DOMAIN rl /\ \A i \in DOMAIN rl : i # job.by => rl'[i] = rl[i]
  BY <1>1 DEF Becomes
<1>6. \A j \in Jobs' : rl'[j.by].reading
  <2>1. \A j \in Jobs : j.by \in DOMAIN rl /\ rl[j.by].reading
    BY JobsTyped DEF OneJob
  <2> QED BY <1>4, <1>5, <2>1
<1>7. OneJob'
  BY <1>1, <1>3, <1>6 DEF OneJob
<1>8. \A i \in DOMAIN rl :
         \/ rl'[i].took = rl[i].took
         \/ i = job.by /\ ~None(job) /\ rl'[i].took = Append(rl[i].took, job.got)
  BY <1>1, <1>5 DEF Becomes
<1>9. ToSet(completed') \subseteq ToSet(completed)
  BY <1>1, <1>3
<1> QED BY <1>1, <1>3, <1>4, <1>5, <1>7, <1>8, <1>9 DEF job

LEMMA QuietOne ==
    ASSUME TypeOK, OneJob, Quiet
    PROVE  OneJob' /\ Jobs' = Jobs
<1>1. running' = running /\ completed' = completed /\ \A i \in DOMAIN rl : rl'[i].reading = rl[i].reading
  BY DEF Quiet
<1>2. Jobs' = Jobs
  BY <1>1 DEF Jobs
<1>3. \A j \in Jobs : j.by \in DOMAIN rl
  BY JobsTyped
<1> QED BY <1>1, <1>2, <1>3 DEF OneJob
-----------------------------------------------------------------------------
LEMMA HalvesTyped ==
    /\ Halves \subseteq Nat
    /\ \A line \in Seq(Halves) : /\ Len(line) \in Nat /\ DOMAIN line = 1 .. Len(line)
                                 /\ \A a \in DOMAIN line : line[a] \in Halves
    /\ \A lines \in Lines : /\ Len(lines) \in Nat /\ DOMAIN lines = 1 .. Len(lines)
                            /\ \A m \in DOMAIN lines : lines[m] \in Seq(Halves)
<1>1. Halves \subseteq Nat
  BY ReadlineAssumption DEF Halves
<1>2. ASSUME NEW line \in Seq(Halves)
      PROVE  /\ Len(line) \in Nat /\ DOMAIN line = 1 .. Len(line)
             /\ \A a \in DOMAIN line : line[a] \in Halves
  BY LenProperties, ElementOfSeq
<1>3. ASSUME NEW lines \in Lines
      PROVE  /\ Len(lines) \in Nat /\ DOMAIN lines = 1 .. Len(lines)
             /\ \A m \in DOMAIN lines : lines[m] \in Seq(Halves)
  BY LenProperties, ElementOfSeq DEF Lines
<1> QED BY <1>1, <1>2, <1>3

(* A half that is typed after the others of the line goes behind them. *)
LEMMA HalfAppended ==
    ASSUME NEW line \in Seq(Halves), NEW half \in Halves, Ascending(line), Below(line, half),
           NEW lines \in Lines, Before(lines, line), \A m \in DOMAIN lines : Below(lines[m], half)
    PROVE  /\ Ascending(Append(line, half)) /\ Below(Append(line, half), half + 1)
           /\ Before(lines, Append(line, half))
<1> DEFINE l == Append(line, half)
           n == Len(line)
<1>1. /\ n \in Nat /\ DOMAIN line = 1 .. n /\ DOMAIN l = 1 .. n + 1 /\ l[n + 1] = half
      /\ \A a \in 1 .. n : l[a] = line[a]
  BY InQueue
<1>2. half \in Nat /\ \A a \in DOMAIN line : line[a] \in Nat /\ line[a] < half
  BY HalvesTyped DEF Below
<1> HIDE DEF l, n
<1>3. \A a \in DOMAIN l : a = n + 1 \/ (a \in DOMAIN line /\ l[a] = line[a] /\ a < n + 1)
  BY <1>1
<1>4. Ascending(l)
  BY <1>1, <1>2, <1>3 DEF Ascending
<1>5. Below(l, half + 1)
  BY <1>1, <1>2, <1>3 DEF Below
<1>6. Before(lines, l)
  BY <1>1, <1>2, <1>3 DEF Before, Below
<1> QED BY <1>4, <1>5, <1>6 DEF l

(* A line typed after the others goes behind them. *)
LEMMA LineAppended ==
    ASSUME NEW lines \in Lines, AsTyped(lines), NEW line \in Seq(Halves), Ascending(line),
           Before(lines, line)
    PROVE  AsTyped(Append(lines, line))
<1> DEFINE l == Append(lines, line)
           n == Len(lines)
<1>1. lines \in Seq(Seq(Halves))
  BY DEF Lines
<1>2. /\ n \in Nat /\ DOMAIN lines = 1 .. n /\ DOMAIN l = 1 .. n + 1 /\ l[n + 1] = line
      /\ \A m \in 1 .. n : l[m] = lines[m]
  BY <1>1, InQueue
<1> HIDE DEF l, n
<1>3. \A m \in DOMAIN l : \/ m = n + 1 /\ l[m] = line
                          \/ m \in DOMAIN lines /\ l[m] = lines[m] /\ m < n + 1 /\ m # n + 1
  BY <1>2
<1>4. SUFFICES ASSUME NEW m \in DOMAIN l, NEW p \in DOMAIN l, NEW a \in DOMAIN l[m], NEW b \in DOMAIN l[p],
                      m < p \/ (m = p /\ a < b)
               PROVE  l[m][a] < l[p][b]
  BY DEF AsTyped, l
<1>5. CASE m \in DOMAIN lines /\ p \in DOMAIN lines
  BY <1>2, <1>4, <1>5 DEF AsTyped
<1>6. CASE m \in DOMAIN lines /\ p = n + 1
  BY <1>2, <1>4, <1>6 DEF Before
<1>7. CASE m = n + 1
  <2>1. p = n + 1
    BY <1>2, <1>4, <1>7
  <2>2. m = p /\ a < b
    BY <1>2, <1>4, <1>7, <2>1
  <2> QED BY <1>2, <1>4, <1>7, <2>1, <2>2 DEF Ascending
<1> QED BY <1>3, <1>5, <1>6, <1>7

LEMMA InterfaceLines ==
    ASSUME TypeOK, NEW i \in DOMAIN rl
    PROVE  rl[i].took \in Lines /\ rl[i].delivered \in Lines /\ rl[i].pending \in Lines
  BY Types DEF Interface

LEMMA StillBelow ==
    ASSUME NEW line \in Seq(Halves), NEW half \in Nat, Below(line, half)
    PROVE  Below(line, half + 1)
<1>1. \A a \in DOMAIN line : line[a] \in Nat /\ line[a] < half
  BY HalvesTyped DEF Below
<1> QED BY <1>1 DEF Below

LEMMA OrderedWhileReading ==
    ASSUME TypeOK, OneJob, Ordered, NEW k \in DOMAIN running, JobReads(k)
    PROVE  Ordered'
<1>1. /\ UNCHANGED rl /\ next \in Halves /\ next' = next + 1 /\ next \in Nat
  BY JobReadsStep, Types
<1>2. PICK job \in Job : /\ job.by = running[k].by /\ job.got = Append(running[k].got, next)
                         /\ IF Ends(next) THEN HasEnded(job) ELSE GoesOn(job)
  BY JobReadsOne
<1>3. \A j \in Jobs' : j = job \/ j \in Jobs
  BY <1>2 DEF Jobs, HasEnded, GoesOn
<1>4. running[k] \in Jobs
  BY DEF Jobs, ToSet
<1>5. job.by \in DOMAIN rl /\ running[k].got \in Seq(Halves)
  BY <1>2, <1>4, JobsTyped
<1>6. Ascending(job.got) /\ Below(job.got, next') /\ Before(rl[job.by].took, job.got)
  <2> DEFINE line == running[k].got
             lines == rl[job.by].took
  <2>1. /\ Ascending(line) /\ Below(line, next) /\ Before(lines, line) /\ lines \in Lines
        /\ \A m \in DOMAIN lines : Below(lines[m], next)
    BY <1>2, <1>4, <1>5, InterfaceLines DEF Ordered
  <2> HIDE DEF line, lines
  <2>2. line \in Seq(Halves)
    BY <1>5 DEF line
  <2>3. /\ Ascending(Append(line, next)) /\ Below(Append(line, next), next + 1)
        /\ Before(lines, Append(line, next))
    BY <1>1, <2>1, <2>2, HalfAppended
  <2> QED BY <1>1, <1>2, <2>3 DEF line, lines
<1>7. \A j \in Jobs : Ascending(j.got) /\ Below(j.got, next') /\ Before(rl[j.by].took, j.got)
  BY <1>1, JobsTyped, StillBelow DEF Ordered
<1>8. ASSUME NEW i \in DOMAIN rl
      PROVE  AsTyped(rl[i].took) /\ \A m \in DOMAIN rl[i].took : Below(rl[i].took[m], next')
  <2>1. \A m \in DOMAIN rl[i].took : rl[i].took[m] \in Seq(Halves)
    BY InterfaceLines, HalvesTyped
  <2> QED BY <1>1, <2>1, StillBelow DEF Ordered
<1>9. \A j \in Jobs' : Ascending(j.got) /\ Below(j.got, next') /\ Before(rl[j.by].took, j.got)
  BY <1>3, <1>6, <1>7
<1> QED BY <1>1, <1>8, <1>9 DEF Ordered

LEMMA OrderedWhenLess ==
    ASSUME Ordered, \A j \in Jobs' : j.got = <<>> \/ \E o \in Jobs : o.by = j.by /\ o.got = j.got,
           \A j \in Jobs' : j.by \in DOMAIN rl /\ rl'[j.by].took = rl[j.by].took, next' = next,
           \A i \in DOMAIN rl' : AsTyped(rl'[i].took) /\ \A m \in DOMAIN rl'[i].took : Below(rl'[i].took[m], next)
    PROVE  Ordered'
<1>1. \A j \in Jobs' : Ascending(j.got) /\ Below(j.got, next) /\ Before(rl'[j.by].took, j.got)
  BY DEF Ordered, Ascending, Below, Before
<1> QED BY <1>1 DEF Ordered

LEMMA OrderedKept ==
    ASSUME TypeOK, OneJob, Ordered, Quiet \/ Starts \/ Finishes \/ \E k \in DOMAIN running : JobReads(k) \/ JobAtEof(k)
    PROVE  Ordered'
<1>1. CASE Quiet
  <2>1. /\ Jobs' = Jobs /\ next' = next
        /\ \A i \in DOMAIN rl : rl'[i].took = rl[i].took
        /\ \A i \in DOMAIN rl' : i \notin DOMAIN rl => rl'[i].took = <<>>
    BY <1>1, QuietOne DEF Quiet, input
  <2>2. \A j \in Jobs : j.by \in DOMAIN rl
    BY JobsTyped
  <2>3. \A i \in DOMAIN rl' : AsTyped(rl'[i].took) /\ \A m \in DOMAIN rl'[i].took : Below(rl'[i].took[m], next)
    BY <2>1 DEF Ordered, AsTyped
  <2> QED BY <2>1, <2>2, <2>3, OrderedWhenLess
<1>2. CASE Starts
  <2>1. PICK job \in Job : job.got = <<>> /\ ToSet(running') = ToSet(running) \cup {job}
    BY <1>2, StartsOne
  <2>2. /\ DOMAIN rl' = DOMAIN rl /\ completed' = completed /\ next' = next
        /\ \A i \in DOMAIN rl : rl'[i].took = rl[i].took
    BY <1>2, StartsOne DEF input
  <2>3. \A j \in Jobs' : (j.got = <<>> \/ j \in Jobs) /\ j.by \in DOMAIN rl
    BY <2>1, <2>2, JobsTyped DEF Jobs, Job
  <2>4. \A i \in DOMAIN rl' : AsTyped(rl'[i].took) /\ \A m \in DOMAIN rl'[i].took : Below(rl'[i].took[m], next)
    BY <2>2 DEF Ordered
  <2> QED BY <2>2, <2>3, <2>4, OrderedWhenLess
<1>3. CASE Finishes
  <2> DEFINE job == completed[1]
  <2>1. /\ DOMAIN rl' = DOMAIN rl /\ next' = next /\ job \in Jobs
        /\ \A j \in Jobs' : j \in Jobs /\ j.by # job.by
        /\ \A i \in DOMAIN rl :
              \/ rl'[i].took = rl[i].took
              \/ i = job.by /\ rl'[i].took = Append(rl[i].took, job.got)
    BY <1>3, FinishesOne DEF input, Jobs
  <2> HIDE DEF job
  <2>2. \A j \in Jobs' : j.by \in DOMAIN rl /\ rl'[j.by].took = rl[j.by].took
    BY <2>1, JobsTyped
  <2>3. ASSUME NEW i \in DOMAIN rl
        PROVE  AsTyped(rl'[i].took) /\ \A m \in DOMAIN rl'[i].took : Below(rl'[i].took[m], next)
    <3>1. CASE rl'[i].took = rl[i].took
      BY <3>1 DEF Ordered
    <3>2. CASE i = job.by /\ rl'[i].took = Append(rl[i].took, job.got)
      <4> DEFINE lines == rl[i].took
                 line == job.got
      <4>1. /\ lines \in Lines /\ line \in Seq(Halves) /\ AsTyped(lines) /\ Ascending(line)
            /\ Before(lines, line) /\ Below(line, next) /\ \A m \in DOMAIN lines : Below(lines[m], next)
        BY <2>1, <3>2, JobsTyped, InterfaceLines DEF Ordered
      <4> HIDE DEF lines, line
      <4>2. AsTyped(Append(lines, line))
        BY <4>1, LineAppended
      <4>3. \A m \in DOMAIN Append(lines, line) : Below(Append(lines, line)[m], next)
        <5>1. lines \in Seq(Seq(Halves))
          BY <4>1 DEF Lines
        <5>2. /\ Len(lines) \in Nat /\ DOMAIN lines = 1 .. Len(lines)
              /\ DOMAIN Append(lines, line) = 1 .. Len(lines) + 1
              /\ Append(lines, line)[Len(lines) + 1] = line
              /\ \A m \in 1 .. Len(lines) : Append(lines, line)[m] = lines[m]
          BY <4>1, <5>1, InQueue
        <5>3. \A m \in DOMAIN Append(lines, line) : m = Len(lines) + 1 \/ m \in 1 .. Len(lines)
          BY <5>2
        <5> QED BY <4>1, <5>2, <5>3
      <4> QED BY <3>2, <4>2, <4>3 DEF lines, line
    <3> QED BY <2>1, <3>1, <3>2
  <2> QED BY <2>1, <2>2, <2>3, OrderedWhenLess
<1>4. ASSUME NEW k \in DOMAIN running, JobReads(k)
      PROVE  Ordered'
  BY <1>4, OrderedWhileReading
<1>5. ASSUME NEW k \in DOMAIN running, JobAtEof(k)
      PROVE  Ordered'
  <2>1. PICK job \in Job : job.by = running[k].by /\ job.got = running[k].got /\ HasEnded(job)
    BY <1>5, JobAtEofOne
  <2>2. UNCHANGED <<rl, input>> /\ next' = next
    BY <1>5, JobAtEofStep DEF input
  <2>3. running[k] \in Jobs
    BY DEF Jobs, ToSet
  <2>4. \A j \in Jobs' : \E o \in Jobs : o.by = j.by /\ o.got = j.got
    BY <2>1, <2>3 DEF Jobs, HasEnded
  <2>5. \A j \in Jobs' : j.by \in DOMAIN rl
    BY <2>4, JobsTyped
  <2> QED BY <2>2, <2>4, <2>5, OrderedWhenLess DEF Ordered
<1> QED BY <1>1, <1>2, <1>3, <1>4, <1>5
-----------------------------------------------------------------------------
LEMMA Parity ==
    ASSUME NEW half \in Nat \ {0}
    PROVE  /\ Ends(half + 1) <=> ~Ends(half)
           /\ Ends(half) <=> ~Ends(half - 1)
           /\ Ends(half) => LineOf(half - 1) = LineOf(half)
<1>1. Ends(half + 1) <=> ~Ends(half)
  BY DEF Ends
<1>2. Ends(half) <=> ~Ends(half - 1)
  BY DEF Ends
<1>3. Ends(half) => LineOf(half - 1) = LineOf(half)
  BY DEF Ends, LineOf
<1> QED BY <1>1, <1>2, <1>3

(* Whole lines stay whole, and so do mixed ones. *)
LEMMA StillWhole ==
    ASSUME mixed \subseteq mixed', last' = last
    PROVE  \A line : (Mixed(line) => Mixed(line)') /\ (Whole(line) => Whole(line)') /\ (Mixed(line)' => Whole(line)')
  BY DEF Mixed, Whole, Ends

LEMMA AppendedHalf ==
    ASSUME NEW line \in Seq(Halves), NEW half \in Halves
    PROVE  /\ Len(line) \in Nat /\ DOMAIN line = 1 .. Len(line)
           /\ DOMAIN Append(line, half) = 1 .. Len(line) + 1 /\ Len(Append(line, half)) = Len(line) + 1
           /\ Append(line, half)[Len(line) + 1] = half
           /\ \A a \in 1 .. Len(line) : Append(line, half)[a] = line[a]
           /\ Append(line, half) # <<>>
           /\ Len(line) + 1 \in DOMAIN Append(line, half)
<1>1. /\ Len(line) \in Nat /\ DOMAIN line = 1 .. Len(line)
      /\ DOMAIN Append(line, half) = 1 .. Len(line) + 1
      /\ Append(line, half)[Len(line) + 1] = half
      /\ \A a \in 1 .. Len(line) : Append(line, half)[a] = line[a]
  BY InQueue
<1>2. Append(line, half) # <<>> /\ Len(Append(line, half)) = Len(line) + 1
  BY AppendProperties
<1> QED BY <1>1, <1>2

(* Another read that has begun a line learns that it is not alone. *)
LEMMA OthersMixed ==
    ASSUME TypeOK, OneJob, NEW k \in DOMAIN running, JobReads(k),
           NEW other \in ToSet(running), other.by # running[k].by
    PROVE  LineOf(next) \in mixed'
<1>1. PICK m \in DOMAIN running : running[m] = other
  BY DEF ToSet
<1>2. Rivals(k)
  BY <1>1 DEF Rivals
<1> QED BY <1>2, JobReadsStep

LEMMA WholeWhileReading ==
    ASSUME TypeOK, OneJob, WholeLines, NEW k \in DOMAIN running, JobReads(k)
    PROVE  WholeLines'
<1> DEFINE mine == running[k]
<1>1. /\ UNCHANGED rl /\ next \in Halves /\ next' = next + 1 /\ next \in Nat \ {0} /\ next <= last
      /\ last' = last /\ mixed \subseteq mixed' /\ last \in Nat
  BY JobReadsStep, Types
<1>2. PICK job \in Job : /\ job.by = mine.by /\ job.got = Append(mine.got, next)
                         /\ IF Ends(next) THEN HasEnded(job) ELSE GoesOn(job)
  BY JobReadsOne
<1>3. mine \in ToSet(running) /\ mine.got \in Seq(Halves)
  <2>1. mine \in ToSet(running) /\ mine \in Jobs
    BY DEF ToSet, Jobs
  <2> QED BY <2>1, JobsTyped
<1>4. \A j \in ToSet(running) : j.by = mine.by => j = mine
  BY DEF OneJob, Alone, ToSet
<1> HIDE DEF mine
<1>5. /\ Len(mine.got) \in Nat /\ DOMAIN mine.got = 1 .. Len(mine.got)
      /\ DOMAIN job.got = 1 .. Len(mine.got) + 1 /\ Len(job.got) = Len(mine.got) + 1
      /\ job.got[Len(mine.got) + 1] = next /\ \A a \in 1 .. Len(mine.got) : job.got[a] = mine.got[a]
      /\ job.got # <<>> /\ Len(mine.got) + 1 \in DOMAIN job.got
  BY <1>1, <1>2, <1>3, AppendedHalf
<1>6. \A j \in ToSet(running) : j.by # mine.by => LineOf(next) \in mixed'
  BY OthersMixed DEF mine
<1>7. /\ \A line : (Mixed(line) => Mixed(line)') /\ (Whole(line) => Whole(line)') /\ (Mixed(line)' => Whole(line)')
  BY <1>1, StillWhole
<1>8. Mixed(mine.got) => Mixed(job.got)'
  BY <1>1, <1>5 DEF Mixed
<1>9. LineOf(next) \in mixed' => Mixed(job.got)'
  BY <1>5 DEF Mixed
<1>10. \/ mine.got = <<>> \/ Mixed(mine.got)
       \/ mine.got = <<next - 1>> /\ ~Ends(next - 1)
  BY <1>3 DEF WholeLines
<1>11. next' <= last' + 1
  BY <1>1
<1>12. ASSUME NEW j \in ToSet(running')
       PROVE  \/ j.got = <<>> \/ Mixed(j.got)'
              \/ j.got = <<next' - 1>> /\ ~Ends(next' - 1)
  <2>1. CASE j \in ToSet(running) /\ j.by # mine.by
    <3>1. LineOf(next) \in mixed'
      BY <1>6, <2>1
    <3>2. CASE j.got = <<>> \/ Mixed(j.got)
      BY <1>7, <3>2
    <3>3. CASE j.got = <<next - 1>> /\ ~Ends(next - 1)
      <4>1. LineOf(next - 1) = LineOf(next)
        BY <1>1, <3>3, Parity
      <4>2. 1 \in DOMAIN j.got /\ j.got[1] = next - 1
        BY <3>3
      <4> QED BY <3>1, <4>1, <4>2 DEF Mixed
    <3> QED BY <2>1, <3>2, <3>3 DEF WholeLines
  <2>2. CASE j = job /\ ~Ends(next)
    <3>1. CASE mine.got = <<>>
      <4>1. job.got = <<next>>
        BY <1>2, <3>1
      <4>2. next' - 1 = next
        BY <1>1
      <4> QED BY <2>2, <4>1, <4>2
    <3>2. CASE Mixed(mine.got)
      BY <1>8, <2>2, <3>2
    <3>3. CASE ~Ends(next - 1)
      BY <1>1, <2>2, <3>3, Parity
    <3> QED BY <1>10, <3>1, <3>2, <3>3
  <2> QED BY <1>2, <2>1, <2>2 DEF GoesOn, HasEnded
<1>13. ASSUME next' <= last', Ends(next')
       PROVE  \E j \in ToSet(running') : j.got # <<>> /\ j.got[Len(j.got)] = next' - 1
  <2>1. ~Ends(next)
    BY <1>1, <1>13, Parity
  <2>2. job \in ToSet(running')
    BY <1>2, <2>1 DEF GoesOn
  <2>3. next' - 1 = next
    BY <1>1
  <2> QED BY <1>5, <2>2, <2>3
<1>14. ASSUME Ends(next)
       PROVE  Whole(job.got)'
  <2>1. PICK m \in ToSet(running) : m.got # <<>> /\ m.got[Len(m.got)] = next - 1
    BY <1>1, <1>14 DEF WholeLines
  <2>2. CASE m.by # mine.by
    BY <1>6, <1>7, <1>9, <2>2
  <2>3. CASE Mixed(mine.got)
    BY <1>7, <1>8, <2>3
  <2>4. CASE m = mine /\ mine.got = <<next - 1>>
    <3>1. Len(mine.got) = 1 /\ mine.got[1] = next - 1
      BY <2>4
    <3>2. Len(job.got) = 2 /\ job.got[1] = next - 1 /\ job.got[2] = next
      BY <1>5, <3>1
    <3>3. LineOf(next - 1) = LineOf(next)
      BY <1>1, <1>14, Parity
    <3> QED BY <3>2, <3>3 DEF Whole
  <2> QED BY <1>4, <1>10, <2>1, <2>2, <2>3, <2>4
<1>15. \A j \in ToSet(completed') : Whole(j.got)' \/ (j.eof /\ j.got = <<>>)
  <2>1. \A j \in ToSet(completed) : Whole(j.got)' \/ (j.eof /\ j.got = <<>>)
    BY <1>7 DEF WholeLines
  <2> QED BY <1>2, <1>14, <2>1 DEF GoesOn, HasEnded
<1>16. \A i \in DOMAIN rl' : \A m \in DOMAIN rl'[i].took : (Whole(rl[i].took[m]))'
  <2>1. \A i \in DOMAIN rl : \A m \in DOMAIN rl[i].took : Whole(rl[i].took[m])
    BY DEF WholeLines
  <2> QED BY <1>1, <2>1 DEF Whole
<1> QED BY <1>11, <1>12, <1>13, <1>15, <1>16 DEF WholeLines, Mixed, Whole, Ends

LEMMA WholeWhenInputStays ==
    ASSUME WholeLines, UNCHANGED input,
           \A j \in ToSet(running') : j.got = <<>> \/ j \in ToSet(running),
           next <= last => \A j \in ToSet(running) : j \in ToSet(running'),
           \A j \in ToSet(completed') : j \in ToSet(completed) \/ Whole(j.got) \/ (j.eof /\ j.got = <<>>),
           \A i \in DOMAIN rl' : \A m \in DOMAIN rl'[i].took : Whole(rl'[i].took[m])
    PROVE  WholeLines'
<1>1. next' = next /\ last' = last /\ mixed' = mixed
  BY DEF input
<1>2. \A line : (Mixed(line)' <=> Mixed(line)) /\ (Whole(line)' <=> Whole(line))
  BY <1>1 DEF Mixed, Whole, Ends
<1>3. \A j \in ToSet(running') : \/ j.got = <<>> \/ Mixed(j.got)'
                                 \/ j.got = <<next' - 1>> /\ ~Ends(next' - 1)
  BY <1>1, <1>2 DEF WholeLines
<1>4. next' <= last' /\ Ends(next') =>
        \E j \in ToSet(running') : j.got # <<>> /\ j.got[Len(j.got)] = next' - 1
  BY <1>1 DEF WholeLines
<1>5. \A j \in ToSet(completed') : Whole(j.got)' \/ (j.eof /\ j.got = <<>>)
  BY <1>2 DEF WholeLines
<1>6. \A i \in DOMAIN rl' : \A m \in DOMAIN rl'[i].took : (Whole(rl[i].took[m]))'
  BY <1>1 DEF Whole
<1> QED BY <1>1, <1>3, <1>4, <1>5, <1>6 DEF WholeLines, Mixed, Whole, Ends

LEMMA WholeKept ==
    ASSUME TypeOK, OneJob, WholeLines, Quiet \/ Starts \/ Finishes \/ \E k \in DOMAIN running : JobReads(k) \/ JobAtEof(k)
    PROVE  WholeLines'
<1>1. CASE Quiet
  <2>1. /\ UNCHANGED <<input, running, completed>>
        /\ \A i \in DOMAIN rl : rl'[i].took = rl[i].took
        /\ \A i \in DOMAIN rl' : i \notin DOMAIN rl => rl'[i].took = <<>>
    BY <1>1 DEF Quiet
  <2>2. \A i \in DOMAIN rl' : \A m \in DOMAIN rl'[i].took : Whole(rl'[i].took[m])
    BY <2>1 DEF WholeLines
  <2> QED BY <2>1, <2>2, WholeWhenInputStays
<1>2. CASE Starts
  <2>1. PICK job \in Job : job.got = <<>> /\ ToSet(running') = ToSet(running) \cup {job}
    BY <1>2, StartsOne
  <2>2. /\ DOMAIN rl' = DOMAIN rl /\ completed' = completed /\ UNCHANGED input
        /\ \A i \in DOMAIN rl : rl'[i].took = rl[i].took
    BY <1>2, StartsOne
  <2>3. \A i \in DOMAIN rl' : \A m \in DOMAIN rl'[i].took : Whole(rl'[i].took[m])
    BY <2>2 DEF WholeLines
  <2> QED BY <2>1, <2>2, <2>3, WholeWhenInputStays
<1>3. CASE Finishes
  <2> DEFINE job == completed[1]
  <2>1. /\ DOMAIN rl' = DOMAIN rl /\ UNCHANGED <<input, running>>
        /\ job \in ToSet(completed) /\ ToSet(completed') \subseteq ToSet(completed)
        /\ \A i \in DOMAIN rl :
              \/ rl'[i].took = rl[i].took
              \/ ~None(job) /\ rl'[i].took = Append(rl[i].took, job.got)
    BY <1>3, FinishesOne
  <2> HIDE DEF job
  <2>2. ~None(job) => Whole(job.got)
    BY <2>1 DEF WholeLines, None
  <2>3. job.got \in Seq(Halves)
    BY <2>1, JobsTyped DEF Jobs
  <2>4. ASSUME NEW i \in DOMAIN rl, NEW m \in DOMAIN rl'[i].took
        PROVE  Whole(rl'[i].took[m])
    <3>1. CASE rl'[i].took = rl[i].took
      BY <2>4, <3>1 DEF WholeLines
    <3>2. CASE ~None(job) /\ rl'[i].took = Append(rl[i].took, job.got)
      <4> DEFINE lines == rl[i].took
                 line == job.got
      <4>1. lines \in Seq(Seq(Halves)) /\ line \in Seq(Halves) /\ Whole(line)
            /\ \A p \in DOMAIN lines : Whole(lines[p])
        BY <2>2, <2>3, <3>2, InterfaceLines DEF Lines, WholeLines
      <4>2. rl'[i].took = Append(lines, line)
        BY <3>2
      <4> HIDE DEF lines, line
      <4>3. /\ Len(lines) \in Nat /\ DOMAIN lines = 1 .. Len(lines)
            /\ DOMAIN Append(lines, line) = 1 .. Len(lines) + 1
            /\ Append(lines, line)[Len(lines) + 1] = line
            /\ \A p \in 1 .. Len(lines) : Append(lines, line)[p] = lines[p]
        BY <4>1, InQueue
      <4>4. m \in 1 .. Len(lines) + 1
        BY <2>4, <4>2, <4>3
      <4>5. CASE m = Len(lines) + 1
        BY <4>1, <4>2, <4>3, <4>5
      <4>6. CASE m \in 1 .. Len(lines)
        BY <4>1, <4>2, <4>3, <4>6
      <4> QED BY <4>3, <4>4, <4>5, <4>6
    <3> QED BY <2>1, <3>1, <3>2
  <2> QED BY <2>1, <2>4, WholeWhenInputStays
<1>4. ASSUME NEW k \in DOMAIN running, JobReads(k)
      PROVE  WholeLines'
  BY <1>4, WholeWhileReading
<1>5. ASSUME NEW k \in DOMAIN running, JobAtEof(k)
      PROVE  WholeLines'
  <2>1. PICK job \in Job : /\ job.by = running[k].by /\ job.got = running[k].got /\ job.eof
                           /\ HasEnded(job)
    BY <1>5, JobAtEofOne
  <2>2. UNCHANGED <<input, rl>> /\ next > last /\ next \in Nat /\ last \in Nat
    BY <1>5, JobAtEofStep, Types
  <2>3. running[k] \in ToSet(running)
    BY DEF ToSet
  <2>4. next - 1 = last
    BY <2>2 DEF WholeLines
  <2>5. Whole(job.got) \/ (job.eof /\ job.got = <<>>)
    <3> DEFINE line == job.got
    <3>1. line = <<>> \/ Mixed(line) \/ (line = <<next - 1>> /\ ~Ends(next - 1))
      BY <2>1, <2>3 DEF WholeLines
    <3>2. CASE line = <<next - 1>> /\ ~Ends(next - 1)
      <4>1. Len(line) = 1 /\ line[1] = last /\ ~Ends(last)
        BY <2>4, <3>2
      <4> QED BY <4>1 DEF Whole
    <3>3. CASE Mixed(line)
      BY <3>3 DEF Mixed, Whole
    <3> QED BY <2>1, <3>1, <3>2, <3>3
  <2>6. \A i \in DOMAIN rl' : \A m \in DOMAIN rl'[i].took : Whole(rl'[i].took[m])
    BY <2>2 DEF WholeLines
  <2>7. ~(next <= last)
    BY <2>2
  <2> QED BY <2>1, <2>2, <2>5, <2>6, <2>7, WholeWhenInputStays DEF HasEnded
<1> QED BY <1>1, <1>2, <1>3, <1>4, <1>5
-----------------------------------------------------------------------------
(* The lines in hand when a callback starts, and when it returns. *)
LEMMA HoldsPushed ==
    ASSUME NEW fs \in Seq(Frame), NEW e \in Frame, NEW i, NEW lines
    PROVE  /\ Holds(fs, i, lines) /\ (e.of # i \/ e.rest = <<>>) => Holds(<<e>> \o fs, i, lines)
           /\ Holds(fs, i, <<>>) /\ e.of = i => Holds(<<e>> \o fs, i, e.rest)
           /\ WillDrain(fs, i) => WillDrain(<<e>> \o fs, i)
           /\ e.of = i /\ e.then = "drain_pending" => WillDrain(<<e>> \o fs, i)
           /\ OnlyDrains(fs) /\ (e.rest # <<>> => e.then = "drain") => OnlyDrains(<<e>> \o fs)
<1> DEFINE q == <<e>> \o fs
           n == Len(fs)
<1>1. /\ n \in Nat /\ DOMAIN fs = 1 .. n /\ DOMAIN q = 1 .. n + 1 /\ q[1] = e
      /\ \A f \in 2 .. n + 1 : q[f] = fs[f - 1]
  BY Pushed
<1> HIDE DEF q, n
<1>2. /\ 1 \in DOMAIN q /\ \A f \in DOMAIN q : f = 1 \/ (f - 1 \in DOMAIN fs /\ q[f] = fs[f - 1])
      /\ \A f \in DOMAIN fs : f + 1 \in DOMAIN q /\ f + 1 # 1 /\ q[f + 1] = fs[f] /\ f + 1 - 1 = f
  BY <1>1
<1>3. \A f \in DOMAIN fs, g \in DOMAIN q : g # f + 1 => g - 1 # f
  BY <1>1
<1>4. Holds(fs, i, lines) /\ (e.of # i \/ e.rest = <<>>) => Holds(q, i, lines)
  <2> SUFFICES ASSUME Holds(fs, i, lines), e.of # i \/ e.rest = <<>>
               PROVE  Holds(q, i, lines)
    OBVIOUS
  <2>1. CASE lines = <<>> /\ \A f \in DOMAIN fs : fs[f].of = i => fs[f].rest = <<>>
    <3>1. \A f \in DOMAIN q : q[f].of = i => q[f].rest = <<>>
      BY <1>1, <1>2, <2>1
    <3> QED BY <2>1, <3>1 DEF Holds
  <2>2. CASE lines # <<>> /\ \E f \in DOMAIN fs :
                /\ fs[f].of = i /\ fs[f].rest = lines
                /\ \A g \in DOMAIN fs : fs[g].of = i /\ g # f => fs[g].rest = <<>>
    <3>1. PICK f \in DOMAIN fs :
                /\ fs[f].of = i /\ fs[f].rest = lines
                /\ \A g \in DOMAIN fs : fs[g].of = i /\ g # f => fs[g].rest = <<>>
      BY <2>2
    <3>2. f + 1 \in DOMAIN q /\ q[f + 1].of = i /\ q[f + 1].rest = lines
      BY <1>2, <3>1
    <3>3. \A g \in DOMAIN q : q[g].of = i /\ g # f + 1 => q[g].rest = <<>>
      BY <1>1, <1>2, <1>3, <3>1
    <3> QED BY <2>2, <3>2, <3>3 DEF Holds
  <2> QED BY <2>1, <2>2 DEF Holds
<1>5. Holds(fs, i, <<>>) /\ e.of = i => Holds(q, i, e.rest)
  <2> SUFFICES ASSUME Holds(fs, i, <<>>), e.of = i
               PROVE  Holds(q, i, e.rest)
    OBVIOUS
  <2>1. \A f \in DOMAIN fs : fs[f].of = i => fs[f].rest = <<>>
    BY DEF Holds
  <2>2. q[1].of = i /\ q[1].rest = e.rest /\ \A g \in DOMAIN q : q[g].of = i /\ g # 1 => q[g].rest = <<>>
    BY <1>1, <1>2, <2>1
  <2> QED BY <1>2, <2>2 DEF Holds
<1>6. WillDrain(fs, i) => WillDrain(q, i)
  BY <1>2 DEF WillDrain
<1>7. e.of = i /\ e.then = "drain_pending" => WillDrain(q, i)
  BY <1>1, <1>2 DEF WillDrain
<1>8. OnlyDrains(fs) /\ (e.rest # <<>> => e.then = "drain") => OnlyDrains(q)
  BY <1>1, <1>2 DEF OnlyDrains
<1> QED BY <1>4, <1>5, <1>6, <1>7, <1>8 DEF q

LEMMA HoldsPopped ==
    ASSUME NEW fs \in Seq(Frame), fs # <<>>, NEW i, NEW lines
    PROVE  /\ Holds(fs, i, lines) /\ (fs[1].of # i \/ fs[1].rest = <<>>) => Holds(Tail(fs), i, lines)
           /\ Holds(fs, i, lines) /\ fs[1].of = i /\ fs[1].rest # <<>> =>
                 lines = fs[1].rest /\ Holds(Tail(fs), i, <<>>)
           /\ WillDrain(fs, i) /\ (fs[1].of # i \/ fs[1].then # "drain_pending") => WillDrain(Tail(fs), i)
           /\ OnlyDrains(fs) => OnlyDrains(Tail(fs)) /\ (fs[1].rest # <<>> => fs[1].then = "drain")
<1> DEFINE q == Tail(fs)
           n == Len(fs)
           e == fs[1]
<1>1. /\ n \in Nat \ {0} /\ DOMAIN fs = 1 .. n /\ DOMAIN q = 1 .. n - 1
      /\ \A f \in 1 .. n - 1 : q[f] = fs[f + 1]
  BY Shortened
<1> HIDE DEF q, n
<1>2. /\ 1 \in DOMAIN fs /\ \A f \in DOMAIN fs : f = 1 \/ (f - 1 \in DOMAIN q /\ q[f - 1] = fs[f])
      /\ \A f \in DOMAIN q : f + 1 \in DOMAIN fs /\ f + 1 # 1 /\ q[f] = fs[f + 1]
  BY <1>1
<1>3. \A f \in DOMAIN fs, g \in DOMAIN q : g # f - 1 => g + 1 # f
  BY <1>1
<1>4. Holds(fs, i, lines) /\ (e.of # i \/ e.rest = <<>>) => Holds(q, i, lines)
  <2> SUFFICES ASSUME Holds(fs, i, lines), e.of # i \/ e.rest = <<>>
               PROVE  Holds(q, i, lines)
    OBVIOUS
  <2>1. CASE lines = <<>> /\ \A f \in DOMAIN fs : fs[f].of = i => fs[f].rest = <<>>
    <3>1. \A f \in DOMAIN q : q[f].of = i => q[f].rest = <<>>
      BY <1>2, <2>1
    <3> QED BY <2>1, <3>1 DEF Holds
  <2>2. CASE lines # <<>> /\ \E f \in DOMAIN fs :
                /\ fs[f].of = i /\ fs[f].rest = lines
                /\ \A g \in DOMAIN fs : fs[g].of = i /\ g # f => fs[g].rest = <<>>
    <3>1. PICK f \in DOMAIN fs :
                /\ fs[f].of = i /\ fs[f].rest = lines
                /\ \A g \in DOMAIN fs : fs[g].of = i /\ g # f => fs[g].rest = <<>>
      BY <2>2
    <3>2. f # 1
      BY <2>2, <3>1
    <3>3. f - 1 \in DOMAIN q /\ q[f - 1].of = i /\ q[f - 1].rest = lines
      BY <1>2, <3>1, <3>2
    <3>4. \A g \in DOMAIN q : q[g].of = i /\ g # f - 1 => q[g].rest = <<>>
      BY <1>2, <1>3, <3>1
    <3> QED BY <2>2, <3>3, <3>4 DEF Holds
  <2> QED BY <2>1, <2>2 DEF Holds
<1>5. Holds(fs, i, lines) /\ e.of = i /\ e.rest # <<>> => lines = e.rest /\ Holds(q, i, <<>>)
  <2> SUFFICES ASSUME Holds(fs, i, lines), e.of = i, e.rest # <<>>
               PROVE  lines = e.rest /\ Holds(q, i, <<>>)
    OBVIOUS
  <2>1. PICK f \in DOMAIN fs :
              /\ fs[f].of = i /\ fs[f].rest = lines
              /\ \A g \in DOMAIN fs : fs[g].of = i /\ g # f => fs[g].rest = <<>>
    BY <1>2 DEF Holds
  <2>2. f = 1
    BY <1>2, <2>1
  <2>3. \A g \in DOMAIN q : q[g].of = i => q[g].rest = <<>>
    BY <1>2, <2>1, <2>2
  <2> QED BY <2>1, <2>2, <2>3 DEF Holds
<1>6. WillDrain(fs, i) /\ (e.of # i \/ e.then # "drain_pending") => WillDrain(q, i)
  BY <1>2 DEF WillDrain
<1>7. OnlyDrains(fs) => OnlyDrains(q) /\ (e.rest # <<>> => e.then = "drain")
  BY <1>2 DEF OnlyDrains
<1> QED BY <1>4, <1>5, <1>6, <1>7 DEF q

(* An exception that ends the first k callbacks, and leaves outer, takes the    *)
(* lines of a drain among them with it.                                         *)
Outlives(fs, k, outer) ==
    \A i, lines : Holds(fs, i, lines) =>
        IF \E f \in DOMAIN fs : fs[f].of = i /\ fs[f].rest # <<>> /\ f <= k
        THEN lines # <<>> /\ Holds(outer, i, <<>>)
        ELSE Holds(outer, i, lines)

LEMMA HoldsUnwound ==
    ASSUME NEW fs \in Seq(Frame), NEW k \in DOMAIN fs
    PROVE  LET outer == SubSeq(fs, k + 1, Len(fs))
           IN  (OnlyDrains(fs) => OnlyDrains(outer)) /\ Outlives(fs, k, outer)
<1> DEFINE n == Len(fs)
           q == SubSeq(fs, k + 1, Len(fs))
<1>1. n \in Nat /\ DOMAIN fs = 1 .. n /\ k \in 1 .. n
  BY LenProperties
<1>2. q \in Seq(Frame) /\ Len(q) = n - k /\ \A f \in 1 .. n - k : q[f] = fs[f + k]
  BY <1>1, SubSeqProperties
<1>3. DOMAIN q = 1 .. n - k
  BY <1>2, LenProperties
<1> HIDE DEF n, q
<1>4. \A f \in DOMAIN q : f + k \in DOMAIN fs /\ ~(f + k <= k) /\ q[f] = fs[f + k]
  BY <1>1, <1>2, <1>3
<1>5. ASSUME NEW f \in DOMAIN fs, ~(f <= k)
      PROVE  f - k \in DOMAIN q /\ q[f - k] = fs[f]
  <2>1. f - k \in 1 .. n - k /\ f - k + k = f
    BY <1>1, <1>5
  <2> QED BY <1>2, <1>3, <2>1
<1>6. \A f \in DOMAIN fs, g \in DOMAIN q : g # f - k => g + k # f
  BY <1>1, <1>3
<1>7. OnlyDrains(fs) => OnlyDrains(q)
  BY <1>4 DEF OnlyDrains
<1>8. ASSUME NEW i, NEW lines, Holds(fs, i, lines),
             \E f \in DOMAIN fs : fs[f].of = i /\ fs[f].rest # <<>> /\ f <= k
      PROVE  lines # <<>> /\ Holds(q, i, <<>>)
  <2>1. PICK f \in DOMAIN fs : fs[f].of = i /\ fs[f].rest # <<>> /\ f <= k
    BY <1>8
  <2>2. lines # <<>> /\ \A g \in DOMAIN fs : fs[g].of = i /\ g # f => fs[g].rest = <<>>
    BY <1>8, <2>1 DEF Holds
  <2>3. \A g \in DOMAIN q : q[g].of = i => q[g].rest = <<>>
    BY <1>4, <2>1, <2>2
  <2> QED BY <2>2, <2>3 DEF Holds
<1>9. ASSUME NEW i, NEW lines, Holds(fs, i, lines),
             ~\E f \in DOMAIN fs : fs[f].of = i /\ fs[f].rest # <<>> /\ f <= k
      PROVE  Holds(q, i, lines)
  <2>1. CASE lines = <<>> /\ \A f \in DOMAIN fs : fs[f].of = i => fs[f].rest = <<>>
    BY <1>4, <2>1 DEF Holds
  <2>2. CASE lines # <<>> /\ \E f \in DOMAIN fs :
                /\ fs[f].of = i /\ fs[f].rest = lines
                /\ \A g \in DOMAIN fs : fs[g].of = i /\ g # f => fs[g].rest = <<>>
    <3>1. PICK f \in DOMAIN fs :
                /\ fs[f].of = i /\ fs[f].rest = lines
                /\ \A g \in DOMAIN fs : fs[g].of = i /\ g # f => fs[g].rest = <<>>
      BY <2>2
    <3>2. f - k \in DOMAIN q /\ q[f - k].of = i /\ q[f - k].rest = lines
      BY <1>5, <1>9, <2>2, <3>1
    <3>3. \A g \in DOMAIN q : q[g].of = i /\ g # f - k => q[g].rest = <<>>
      BY <1>4, <1>6, <3>1
    <3> QED BY <2>2, <3>2, <3>3 DEF Holds
  <2> QED BY <1>9, <2>1, <2>2 DEF Holds
<1>10. ASSUME NEW i, NEW lines, Holds(fs, i, lines)
       PROVE  IF \E f \in DOMAIN fs : fs[f].of = i /\ fs[f].rest # <<>> /\ f <= k
              THEN lines # <<>> /\ Holds(q, i, <<>>)
              ELSE Holds(q, i, lines)
  <2>1. CASE \E f \in DOMAIN fs : fs[f].of = i /\ fs[f].rest # <<>> /\ f <= k
    BY <1>8, <1>10, <2>1
  <2>2. CASE ~\E f \in DOMAIN fs : fs[f].of = i /\ fs[f].rest # <<>> /\ f <= k
    BY <1>9, <1>10, <2>2
  <2> QED BY <2>1, <2>2
<1> QED BY <1>7, <1>10 DEF Outlives, q
-----------------------------------------------------------------------------
(* A line that is new, put between the lines before and behind it, is there once. *)
LEMMA NewLine ==
    ASSUME NEW S, NEW d \in Seq(S), NEW p \in Seq(S), NEW line \in S, line \notin ToSet(d \o p),
           IsInjective(d \o p)
    PROVE  /\ IsInjective(Append(d, line) \o p)
           /\ ToSet(Append(d, line) \o p) = ToSet(d \o p) \cup {line}
<1> DEFINE a == Append(d, line)
           old == d \o p
           new == a \o p
           n == Len(d)
           l == Len(p)
<1>1. n \in Nat /\ l \in Nat
  BY LenProperties
<1>2. a \in Seq(S) /\ Len(a) = n + 1 /\ a[n + 1] = line /\ \A m \in 1 .. n : a[m] = d[m]
  BY AppendProperties
<1>3. /\ old \in Seq(S) /\ Len(old) = n + l
      /\ \A m \in 1 .. n + l : old[m] = IF m <= n THEN d[m] ELSE p[m - n]
  BY ConcatProperties
<1> HIDE DEF a, old
<1>4. /\ new \in Seq(S) /\ Len(new) = n + 1 + l
      /\ \A m \in 1 .. n + 1 + l : new[m] = IF m <= n + 1 THEN a[m] ELSE p[m - (n + 1)]
  <2>1. /\ new \in Seq(S) /\ Len(new) = Len(a) + Len(p)
        /\ \A m \in 1 .. Len(a) + Len(p) : new[m] = IF m <= Len(a) THEN a[m] ELSE p[m - Len(a)]
    BY <1>2, ConcatProperties
  <2> QED BY <1>2, <2>1
<1>5. DOMAIN old = 1 .. n + l /\ DOMAIN new = 1 .. n + 1 + l
  BY <1>3, <1>4, LenProperties
<1> HIDE DEF new, n, l
<1> DEFINE was(m) == IF m <= n THEN m ELSE m - 1
           is(m) == IF m <= n THEN m ELSE m + 1
<1>6. n + 1 \in DOMAIN new /\ new[n + 1] = line
  BY <1>1, <1>2, <1>4, <1>5
<1>7. ASSUME NEW m \in DOMAIN new, m # n + 1
      PROVE  was(m) \in DOMAIN old /\ new[m] = old[was(m)]
  <2>1. CASE m <= n
    BY <1>1, <1>2, <1>3, <1>4, <1>5, <2>1
  <2>2. CASE ~(m <= n)
    <3>1. m - 1 \in 1 .. n + l /\ ~(m - 1 <= n) /\ m - 1 - n = m - (n + 1) /\ ~(m <= n + 1)
      BY <1>1, <1>5, <1>7, <2>2
    <3> QED BY <1>3, <1>4, <1>5, <2>2, <3>1
  <2> QED BY <2>1, <2>2
<1>8. ASSUME NEW m \in DOMAIN old
      PROVE  is(m) \in DOMAIN new /\ new[is(m)] = old[m]
  <2>1. CASE m <= n
    BY <1>1, <1>2, <1>3, <1>4, <1>5, <2>1
  <2>2. CASE ~(m <= n)
    <3>1. m + 1 \in 1 .. n + 1 + l /\ ~(m + 1 <= n + 1) /\ (m + 1) - (n + 1) = m - n
      BY <1>1, <1>5, <2>2
    <3>2. old[m] = p[m - n]
      BY <1>3, <1>5, <2>2
    <3>3. m + 1 \in DOMAIN new /\ new[m + 1] = p[m - n]
      <4> DEFINE j == m + 1
      <4>1. j \in 1 .. n + 1 + l /\ ~(j <= n + 1) /\ j - (n + 1) = m - n
        BY <3>1
      <4> HIDE DEF j
      <4>2. new[j] = p[j - (n + 1)]
        BY <1>4, <4>1
      <4>3. j \in DOMAIN new /\ new[j] = p[m - n]
        BY <1>5, <4>1, <4>2
      <4> QED BY <4>3 DEF j
    <3> QED BY <2>2, <3>2, <3>3
  <2> QED BY <2>1, <2>2
<1>9. ASSUME NEW m \in DOMAIN new, NEW k \in DOMAIN new, m # n + 1, k # n + 1, was(m) = was(k)
      PROVE  m = k
  <2>1. m \in Nat /\ k \in Nat
    BY <1>1, <1>5
  <2>2. CASE m <= n /\ k <= n
    BY <1>9, <2>2
  <2>3. CASE ~(m <= n) /\ ~(k <= n)
    BY <1>1, <1>9, <2>1, <2>3
  <2>4. CASE m <= n <=> ~(k <= n)
    BY <1>1, <1>9, <2>1, <2>4
  <2> QED BY <2>2, <2>3, <2>4
<1> HIDE DEF was, is
<1>10. \A m \in DOMAIN old : old[m] # line
  BY DEF ToSet, old
<1>11. IsInjective(old)
  BY DEF old
<1>12. IsInjective(new)
  <2> SUFFICES ASSUME NEW m \in DOMAIN new, NEW k \in DOMAIN new, new[m] = new[k]
               PROVE  m = k
    BY DEF IsInjective
  <2>1. CASE m = n + 1 \/ k = n + 1
    BY <1>6, <1>7, <1>10, <2>1
  <2>2. CASE m # n + 1 /\ k # n + 1
    <3>1. was(m) \in DOMAIN old /\ was(k) \in DOMAIN old /\ old[was(m)] = old[was(k)]
      BY <1>7, <2>2
    <3>2. was(m) = was(k)
      BY <1>11, <3>1 DEF IsInjective
    <3> QED BY <1>9, <2>2, <3>2
  <2> QED BY <2>1, <2>2
<1>13. ToSet(new) = ToSet(old) \cup {line}
  <2>1. ToSet(new) \subseteq ToSet(old) \cup {line}
    BY <1>6, <1>7 DEF ToSet
  <2>2. ToSet(old) \cup {line} \subseteq ToSet(new)
    BY <1>6, <1>8 DEF ToSet
  <2> QED BY <2>1, <2>2
<1> QED BY <1>12, <1>13 DEF new, old, a

(* What is kept agrees with another record of the same reading, *)
LEMMA AgreesSame ==
    ASSUME NEW kept, NEW r, NEW q, Agrees(kept, r), q.took = r.took,
           r.cut => q.cut, r.exposed => q.exposed
    PROVE  Agrees(kept, q)
  BY DEF Agrees

(* and with one line more at the end of both, or, if the buffer was exposed,    *)
(* before what is buffered;                                                     *)
LEMMA AgreesMore ==
    ASSUME NEW d \in Lines, NEW p \in Lines, NEW r, r.took \in Lines, Agrees(d \o p, r),
           NEW line \in Seq(Halves), line # <<>>, Ascending(line), Before(r.took, line),
           p = <<>> \/ r.exposed,
           NEW q, q.took = Append(r.took, line), r.cut => q.cut, q.exposed = r.exposed
    PROVE  Agrees(Append(d, line) \o p, q)
<1> DEFINE took == r.took
           kept == d \o p
           more == Append(d, line) \o p
<1>1. d \in Seq(Seq(Halves)) /\ p \in Seq(Seq(Halves)) /\ took \in Seq(Seq(Halves))
  BY DEF Lines
<1>2. /\ IsInjective(kept) /\ ToSet(kept) \subseteq ToSet(took)
      /\ ~r.exposed => AsTyped(kept)
      /\ ~r.cut => ToSet(took) \subseteq ToSet(kept)
  BY DEF Agrees
<1>3. Before(took, line) /\ q.took = Append(took, line)
  OBVIOUS
<1> HIDE DEF took, kept
<1>4. line \notin ToSet(took)
  <2> SUFFICES ASSUME NEW m \in DOMAIN took, took[m] = line
               PROVE  FALSE
    BY DEF ToSet
  <2>1. 1 \in DOMAIN line /\ line[1] \in Nat
    <3>1. Len(line) \in Nat \ {0} /\ DOMAIN line = 1 .. Len(line) /\ line[1] \in Halves
      BY Shortened
    <3>2. Halves \subseteq Nat
      BY HalvesTyped
    <3>3. 1 \in DOMAIN line
      BY <3>1
    <3> QED BY <3>1, <3>2, <3>3, Zenon
  <2>2. line[1] < line[1]
    BY <1>3, <2>1 DEF Before
  <2> QED BY <2>1, <2>2
<1>5. IsInjective(more) /\ ToSet(more) = ToSet(kept) \cup {line}
  <2>1. line \notin ToSet(kept)
    BY <1>2, <1>4
  <2> QED BY <1>1, <1>2, <2>1, NewLine DEF kept
<1>6. ToSet(q.took) = ToSet(took) \cup {line}
  BY <1>1, <1>3, InQueue
<1>7. ASSUME ~q.exposed
      PROVE  AsTyped(more)
  <2>1. p = <<>> /\ AsTyped(kept)
    BY <1>2, <1>7
  <2>2. kept = d /\ more = Append(d, line)
    <3>1. Append(d, line) \in Seq(Seq(Halves))
      BY <1>1, AppendProperties
    <3> QED BY <1>1, <2>1, <3>1, ConcatEmptySeq DEF kept
  <2>3. Before(kept, line)
    <3> SUFFICES ASSUME NEW m \in DOMAIN kept, NEW a \in DOMAIN kept[m], NEW b \in DOMAIN line
                 PROVE  kept[m][a] < line[b]
      BY DEF Before
    <3>1. PICK k \in DOMAIN took : took[k] = kept[m]
      BY <1>2 DEF ToSet
    <3> QED BY <1>3, <3>1 DEF Before
  <2>4. AsTyped(Append(d, line))
    BY <2>1, <2>2, <2>3, LineAppended
  <2> QED BY <2>2, <2>4
<1>8. ToSet(more) \subseteq ToSet(q.took)
  BY <1>2, <1>5, <1>6
<1>9. ~q.cut => ToSet(q.took) \subseteq ToSet(more)
  BY <1>2, <1>5, <1>6
<1> HIDE DEF more
<1>10. Agrees(more, q)
  BY <1>5, <1>7, <1>8, <1>9 DEF Agrees
<1> QED BY <1>10 DEF more

(* what comes before the lines that are cut off agrees with what is left. *)
LEMMA AgreesCut ==
    ASSUME NEW d \in Lines, NEW l \in Lines, NEW r, Agrees(d \o l, r),
           NEW q, q.took = r.took, q.cut, r.exposed => q.exposed
    PROVE  Agrees(d, q)
<1> DEFINE kept == d \o l
<1>1. d \in Seq(Seq(Halves)) /\ l \in Seq(Seq(Halves))
  BY DEF Lines
<1>2. /\ kept \in Seq(Seq(Halves)) /\ Len(kept) = Len(d) + Len(l)
      /\ \A m \in 1 .. Len(d) + Len(l) : kept[m] = IF m <= Len(d) THEN d[m] ELSE l[m - Len(d)]
  BY <1>1, ConcatProperties
<1> HIDE DEF kept
<1>3. /\ Len(d) \in Nat /\ Len(l) \in Nat /\ DOMAIN d = 1 .. Len(d)
      /\ DOMAIN kept = 1 .. Len(d) + Len(l)
  BY <1>1, <1>2, LenProperties
<1>4. ASSUME NEW m \in DOMAIN d PROVE m \in DOMAIN kept /\ kept[m] = d[m]
  BY <1>2, <1>3
<1>5. /\ IsInjective(kept) /\ ToSet(kept) \subseteq ToSet(r.took)
      /\ ~r.exposed => AsTyped(kept)
  BY DEF Agrees, kept
<1>6. ~q.exposed => AsTyped(d)
  BY <1>4, <1>5 DEF AsTyped
<1>7. ToSet(d) \subseteq ToSet(q.took)
  BY <1>4, <1>5 DEF ToSet
<1>8. IsInjective(d)
  BY <1>4, <1>5 DEF IsInjective
<1> QED BY <1>6, <1>7, <1>8 DEF Agrees

(* Two records with the same lines and the same state are the same to Books. *)
Alike(r, q) ==
    /\ q.pending = r.pending /\ q.delivered = r.delivered /\ q.took = r.took
    /\ q.cut = r.cut /\ q.exposed = r.exposed
    /\ q.paused = r.paused /\ q.closed = r.closed

LEMMA BooksOpened ==
    ASSUME NEW i, NEW r, NEW fs, NEW lines, Holds(fs, i, lines),
           r.pending # <<>> => r.paused \/ r.closed \/ r.exposed \/ WillDrain(fs, i),
           lines # <<>> => r.pending = <<>>,
           r.closed /\ ~r.cut => lines = <<>> /\ r.pending = <<>>,
           Agrees(r.delivered \o lines \o r.pending, r)
    PROVE  Books(i, r, fs)
<1>1. lines \in {fs[f].rest : f \in DOMAIN fs} \cup {<<>>}
  BY DEF Holds
<1> QED BY <1>1 DEF Books

LEMMA BooksRead ==
    ASSUME NEW i, NEW r, NEW fs, Books(i, r, fs)
    PROVE  /\ r.pending # <<>> => r.paused \/ r.closed \/ r.exposed \/ WillDrain(fs, i)
           /\ \E lines : /\ Holds(fs, i, lines)
                         /\ lines # <<>> => r.pending = <<>>
                         /\ r.closed /\ ~r.cut => lines = <<>> /\ r.pending = <<>>
                         /\ Agrees(r.delivered \o lines \o r.pending, r)
  BY DEF Books

LEMMA BooksAlike ==
    ASSUME NEW i, NEW r, NEW q, NEW fs, Books(i, r, fs), Alike(r, q)
    PROVE  Books(i, q, fs)
<1>1. PICK lines : /\ Holds(fs, i, lines)
                   /\ lines # <<>> => r.pending = <<>>
                   /\ r.closed /\ ~r.cut => lines = <<>> /\ r.pending = <<>>
                   /\ Agrees(r.delivered \o lines \o r.pending, r)
  BY BooksRead
<1>2. q.pending # <<>> => q.paused \/ q.closed \/ q.exposed \/ WillDrain(fs, i)
  BY BooksRead DEF Alike
<1>3. Agrees(q.delivered \o lines \o q.pending, q)
  BY <1>1, AgreesSame DEF Alike
<1>4. /\ lines # <<>> => q.pending = <<>>
      /\ q.closed /\ ~q.cut => lines = <<>> /\ q.pending = <<>>
  BY <1>1 DEF Alike
<1> QED BY <1>1, <1>2, <1>3, <1>4, BooksOpened

(* A callback that starts or returns without lines leaves the books as they are. *)
LEMMA BooksPushed ==
    ASSUME NEW i, NEW r, NEW fs \in Seq(Frame), Books(i, r, fs), NEW e \in Frame, e.of # i \/ e.rest = <<>>
    PROVE  Books(i, r, <<e>> \o fs)
<1>1. PICK lines : /\ Holds(fs, i, lines)
                   /\ lines # <<>> => r.pending = <<>>
                   /\ r.closed /\ ~r.cut => lines = <<>> /\ r.pending = <<>>
                   /\ Agrees(r.delivered \o lines \o r.pending, r)
  BY BooksRead
<1>2. Holds(<<e>> \o fs, i, lines)
  BY <1>1, HoldsPushed
<1>3. r.pending # <<>> => r.paused \/ r.closed \/ r.exposed \/ WillDrain(<<e>> \o fs, i)
  BY BooksRead, HoldsPushed
<1> QED BY <1>1, <1>2, <1>3, BooksOpened

LEMMA BooksPopped ==
    ASSUME NEW i, NEW r, NEW fs \in Seq(Frame), fs # <<>>, Books(i, r, fs),
           fs[1].of # i \/ (fs[1].rest = <<>> /\ (fs[1].then = "drain_pending" => r.pending = <<>>))
    PROVE  Books(i, r, Tail(fs))
<1>1. PICK lines : /\ Holds(fs, i, lines)
                   /\ lines # <<>> => r.pending = <<>>
                   /\ r.closed /\ ~r.cut => lines = <<>> /\ r.pending = <<>>
                   /\ Agrees(r.delivered \o lines \o r.pending, r)
  BY BooksRead
<1>2. Holds(Tail(fs), i, lines)
  BY <1>1, HoldsPopped
<1>3. r.pending # <<>> => r.paused \/ r.closed \/ r.exposed \/ WillDrain(Tail(fs), i)
  BY BooksRead, HoldsPopped
<1> QED BY <1>1, <1>2, <1>3, BooksOpened

LEMMA LedgerAgain ==
    ASSUME OnlyDrains(frames'), \A j \in DOMAIN rl' : Books(j, rl'[j], frames')
    PROVE  Ledger'
  BY DEF Ledger, OnlyDrains, Books, Holds, WillDrain, Agrees, AsTyped, ToSet

(* What one interface changes leaves the others' books alone. *)
LEMMA LedgerOfOne ==
    ASSUME NEW i \in DOMAIN rl, NEW e, Becomes(i, e), OnlyDrains(frames)', Books(i, e, frames'),
           \A j \in DOMAIN rl : j # i => Books(j, rl[j], frames')
    PROVE  Ledger'
<1>1. DOMAIN rl' = DOMAIN rl /\ rl'[i] = e /\ \A j \in DOMAIN rl : j # i => rl'[j] = rl[j]
  BY DEF Becomes
<1>2. \A j \in DOMAIN rl' : Books(j, rl'[j], frames')
  BY <1>1
<1> QED BY <1>2 DEF Ledger, OnlyDrains, Books, Holds, WillDrain, Agrees, AsTyped, ToSet

LEMMA LedgerOfOthers ==
    ASSUME NEW i \in DOMAIN rl, DOMAIN rl' = DOMAIN rl, \A j \in DOMAIN rl : j # i => Alike(rl[j], rl'[j]),
           OnlyDrains(frames'), Books(i, rl'[i], frames'),
           \A j \in DOMAIN rl : j # i => Books(j, rl[j], frames')
    PROVE  Ledger'
<1>1. \A j \in DOMAIN rl' : Books(j, rl'[j], frames')
  BY BooksAlike
<1> QED BY <1>1, LedgerAgain

(* Nothing is said of the reads. *)
LEMMA LedgerOfAlike ==
    ASSUME DOMAIN rl' = DOMAIN rl, \A j \in DOMAIN rl : Alike(rl[j], rl'[j]), OnlyDrains(frames)',
           \A j \in DOMAIN rl : Books(j, rl[j], frames')
    PROVE  Ledger'
<1>1. \A j \in DOMAIN rl' : Books(j, rl'[j], frames')
  BY BooksAlike
<1> QED BY <1>1 DEF Ledger, OnlyDrains, Books, Holds, WillDrain, Agrees, AsTyped, ToSet

LEMMA StartReadAlike ==
    ASSUME TypeOK, NEW s \in Slots, StartRead(rl, s)
    PROVE  DOMAIN rl' = DOMAIN rl /\ \A j \in DOMAIN rl : Alike(rl[j], rl'[j])
<1>1. CASE rl' = rl
  BY <1>1 DEF Alike
<1>2. CASE \E i \in DOMAIN rl : Becomes(i, [rl[i] EXCEPT !.reading = TRUE])
  <2>1. PICK i \in DOMAIN rl : Becomes(i, [rl[i] EXCEPT !.reading = TRUE])
    BY <1>2
  <2> DEFINE e == [rl[i] EXCEPT !.reading = TRUE]
  <2>2. Alike(rl[i], e)
    BY Types DEF Alike, Interface
  <2>3. Becomes(i, e)
    BY <2>1
  <2> HIDE DEF e
  <2>4. \A j \in DOMAIN rl : j # i => Alike(rl[j], rl[j])
    BY DEF Alike
  <2> QED BY <2>2, <2>3, <2>4 DEF Becomes
<1> QED BY <1>1, <1>2, StartReads

LEMMA Rows ==
    ASSUME TypeOK, NEW i \in DOMAIN rl
    PROVE  /\ rl[i] \in Interface /\ rl[i].pending \in Seq(Seq(Halves))
           /\ rl[i].delivered \in Seq(Seq(Halves)) /\ rl[i].took \in Seq(Seq(Halves))
  BY Types DEF Interface, Lines

LEMMA HeldTyped ==
    ASSUME TypeOK, NEW i, NEW lines, Holds(frames, i, lines)
    PROVE  lines \in Lines /\ lines \in Seq(Seq(Halves))
<1>1. \A f \in DOMAIN frames : frames[f].rest \in Lines
  BY Types DEF Frame
<1> QED BY <1>1, NoLines DEF Holds, Lines

LEMMA LedgerCreate ==
    ASSUME TypeOK, Ledger, Create
    PROVE  Ledger'
<1> DEFINE n == Len(rl) + 1
<1>1. /\ DOMAIN rl' = 1 .. n /\ (\A j \in DOMAIN rl : rl'[j] = rl[j]) /\ frames' = frames
      /\ rl'[n].pending = <<>> /\ rl'[n].delivered = <<>> /\ rl'[n].took = <<>> /\ ~rl'[n].closed
  BY CreateStep
<1>2. DOMAIN rl = 1 .. Len(rl) /\ Len(rl) \in Nat
  BY Types
<1>3. \A f \in DOMAIN frames : frames[f].of # n
  <2>1. \A f \in DOMAIN frames : frames[f].of \in DOMAIN rl
    BY Types DEF Frame
  <2> QED BY <1>2, <2>1
<1>4. \A j \in DOMAIN rl' : j = n \/ j \in DOMAIN rl
  BY <1>1, <1>2
<1> HIDE DEF n
<1>5. Holds(frames, n, <<>>)
  BY <1>3 DEF Holds
<1>6. Books(n, rl'[n], frames)
  <2>1. <<>> \o <<>> \o <<>> = <<>>
    OBVIOUS
  <2>2. Agrees(<<>>, rl'[n])
    BY <1>1 DEF Agrees, AsTyped, IsInjective, ToSet
  <2> QED BY <1>1, <1>5, <2>1, <2>2, BooksOpened
<1>7. \A j \in DOMAIN rl' : Books(j, rl'[j], frames)
  BY <1>1, <1>4, <1>6 DEF Ledger
<1>8. OnlyDrains(frames') /\ frames' = frames
  BY <1>1 DEF Ledger
<1> QED BY <1>7, <1>8, LedgerAgain

LEMMA LedgerStartRead ==
    ASSUME TypeOK, Ledger, NEW s \in Slots, StartRead(rl, s), frames' = frames
    PROVE  Ledger'
<1>1. \A j \in DOMAIN rl : Books(j, rl[j], frames')
  BY DEF Ledger
<1>2. OnlyDrains(frames)'
  BY DEF Ledger, OnlyDrains
<1> QED BY <1>1, <1>2, StartReadAlike, LedgerOfAlike

LEMMA LedgerPause ==
    ASSUME TypeOK, Ledger, NEW i \in DOMAIN rl, Pause(i)
    PROVE  Ledger'
<1> DEFINE e == [rl[i] EXCEPT !.paused = TRUE]
<1>1. Becomes(i, e) /\ frames' = frames
  BY PauseStep
<1>2. /\ e.paused /\ e.pending = rl[i].pending /\ e.delivered = rl[i].delivered /\ e.took = rl[i].took
      /\ e.cut = rl[i].cut /\ e.exposed = rl[i].exposed /\ e.closed = rl[i].closed
  BY Rows DEF Interface
<1> HIDE DEF e
<1>3. PICK lines : /\ Holds(frames, i, lines)
                   /\ lines # <<>> => rl[i].pending = <<>>
                   /\ rl[i].closed /\ ~rl[i].cut => lines = <<>> /\ rl[i].pending = <<>>
                   /\ Agrees(rl[i].delivered \o lines \o rl[i].pending, rl[i])
  BY BooksRead DEF Ledger
<1>4. Books(i, e, frames)
  <2>1. Agrees(e.delivered \o lines \o e.pending, e)
    BY <1>2, <1>3, AgreesSame
  <2> QED BY <1>2, <1>3, <2>1, BooksOpened
<1>5. OnlyDrains(frames)' /\ \A j \in DOMAIN rl : Books(j, rl[j], frames')
  BY <1>1 DEF Ledger, OnlyDrains
<1> QED BY <1>1, <1>4, <1>5, LedgerOfOne

LEMMA LedgerResume ==
    ASSUME TypeOK, Ledger, NEW i \in DOMAIN rl, Resume(i)
    PROVE  Ledger'
<1> DEFINE e == [rl[i] EXCEPT !.paused = FALSE]
           f == Callback(i, "drain_pending")
<1>1. Becomes(i, e) /\ f \in Frame /\ frames' = <<f>> \o frames
  BY ResumeStep
<1>2. /\ e.pending = rl[i].pending /\ e.delivered = rl[i].delivered /\ e.took = rl[i].took
      /\ e.cut = rl[i].cut /\ e.exposed = rl[i].exposed /\ e.closed = rl[i].closed
  BY Rows DEF Interface
<1>3. f.of = i /\ f.rest = <<>> /\ f.then = "drain_pending"
  BY DEF Callback
<1> HIDE DEF e, f
<1>4. frames \in Seq(Frame)
  BY Types
<1>5. PICK lines : /\ Holds(frames, i, lines)
                   /\ lines # <<>> => rl[i].pending = <<>>
                   /\ rl[i].closed /\ ~rl[i].cut => lines = <<>> /\ rl[i].pending = <<>>
                   /\ Agrees(rl[i].delivered \o lines \o rl[i].pending, rl[i])
  BY BooksRead DEF Ledger
<1>6. Holds(frames', i, lines) /\ WillDrain(frames', i)
  BY <1>1, <1>3, <1>4, <1>5, HoldsPushed
<1>7. Books(i, e, frames')
  <2>1. Agrees(e.delivered \o lines \o e.pending, e)
    BY <1>2, <1>5, AgreesSame
  <2> QED BY <1>2, <1>5, <1>6, <2>1, BooksOpened
<1>8. \A j \in DOMAIN rl : Books(j, rl[j], frames')
  BY <1>1, <1>3, <1>4, BooksPushed DEF Ledger
<1>9. OnlyDrains(frames')
  BY <1>1, <1>3, <1>4, HoldsPushed DEF Ledger
<1>10. OnlyDrains(frames)'
  BY <1>9 DEF OnlyDrains
<1> QED BY <1>1, <1>7, <1>8, <1>10, LedgerOfOne

(* xt_readline_close, whose listeners run above the callbacks outer. *)
LEMMA LedgerClose ==
    ASSUME TypeOK, NEW i \in DOMAIN rl, NEW outer \in Seq(Frame), OnlyDrains(outer),
           \A j \in DOMAIN rl : Books(j, rl[j], outer),
           \A f \in DOMAIN outer : outer[f].of = i /\ outer[f].rest # <<>> => Drains(i) # {},
           NEW e \in Interface, Becomes(i, e), Closed(i, rl[i], e), Calls(i, outer)
    PROVE  Ledger'
<1>1. PICK f \in Frame : f.of = i /\ f.rest = <<>> /\ frames' = <<f>> \o outer
  BY DEF Calls
<1>2. /\ e.closed /\ e.pending = rl[i].pending /\ e.delivered = rl[i].delivered /\ e.took = rl[i].took
      /\ rl[i].cut => e.cut
      /\ e.exposed = rl[i].exposed
      /\ ~e.cut => rl[i].pending = <<>> /\ Drains(i) = {}
  BY DEF Closed
<1>3. PICK lines : /\ Holds(outer, i, lines)
                   /\ lines # <<>> => rl[i].pending = <<>>
                   /\ Agrees(rl[i].delivered \o lines \o rl[i].pending, rl[i])
  BY BooksRead
<1>4. ~e.cut => lines = <<>> /\ e.pending = <<>>
  BY <1>2, <1>3 DEF Holds
<1>5. Holds(frames', i, lines)
  BY <1>1, <1>3, HoldsPushed
<1>6. Books(i, e, frames')
  <2>1. Agrees(e.delivered \o lines \o e.pending, e)
    BY <1>2, <1>3, AgreesSame
  <2> QED BY <1>2, <1>3, <1>4, <1>5, <2>1, BooksOpened
<1>7. \A j \in DOMAIN rl : Books(j, rl[j], frames')
  BY <1>1, BooksPushed
<1>8. OnlyDrains(frames')
  BY <1>1, HoldsPushed
<1>9. OnlyDrains(frames)'
  BY <1>8 DEF OnlyDrains
<1> QED BY <1>6, <1>7, <1>9, LedgerOfOne

(* A line that moves from the front of what is left to the lines delivered, or  *)
(* is added at the end, leaves the concatenation as it has to be.               *)
LEMMA Concatenations ==
    ASSUME NEW S, NEW d \in Seq(S), NEW p \in Seq(S)
    PROVE  /\ d \o <<>> \o p = d \o p /\ d \o p \o <<>> = d \o p /\ d \o <<>> = d
           /\ \A line \in S : d \o <<>> \o Append(p, line) = Append(d \o p, line)
           /\ p # <<>> => Append(d, Head(p)) \o Tail(p) = d \o p
<1>1. d \o <<>> = d /\ <<>> \o d = d /\ <<>> \o p = p
  BY ConcatEmptySeq
<1>2. d \o p \in Seq(S)
  BY ConcatProperties
<1>3. d \o p \o <<>> = d \o p
  BY <1>2, ConcatEmptySeq
<1>4. ASSUME NEW line \in S
      PROVE  d \o Append(p, line) = Append(d \o p, line)
  <2> DEFINE t == <<line>>
  <2>1. t \in Seq(S)
    OBVIOUS
  <2>2. Append(p, line) = p \o t
    BY AppendIsConcat
  <2>3. Append(d \o p, line) = (d \o p) \o t
    BY <1>2, AppendIsConcat
  <2> HIDE DEF t
  <2>4. (d \o p) \o t = d \o (p \o t)
    BY <2>1, ConcatAssociative
  <2> QED BY <2>2, <2>3, <2>4
<1>5. ASSUME p # <<>>
      PROVE  Append(d, Head(p)) \o Tail(p) = d \o p
  <2> DEFINE h == <<Head(p)>>
             t == Tail(p)
  <2>1. h \in Seq(S) /\ t \in Seq(S) /\ Head(p) \in S
    BY <1>5, HeadTailProperties
  <2>2. Append(d, Head(p)) = d \o h
    BY <2>1, AppendIsConcat
  <2>3. p = h \o t
    <3> DEFINE q == h \o t
    <3>1. Len(h) = 1 /\ h[1] = Head(p) /\ Len(t) = Len(p) - 1 /\ Len(p) \in Nat \ {0} /\ Head(p) = p[1]
          /\ \A i \in 1 .. Len(p) - 1 : t[i] = p[i + 1]
      BY <1>5, HeadTailProperties, LenProperties, Shortened
    <3>2. q \in Seq(S) /\ Len(q) = Len(h) + Len(t)
          /\ \A i \in 1 .. Len(h) + Len(t) : q[i] = IF i <= Len(h) THEN h[i] ELSE t[i - Len(h)]
      BY <2>1, ConcatProperties
    <3> HIDE DEF q, h, t
    <3>3. Len(q) = Len(p)
      BY <3>1, <3>2
    <3>4. \A i \in 1 .. Len(p) : q[i] = p[i]
      <4> TAKE i \in 1 .. Len(p)
      <4>1. CASE i = 1
        BY <3>1, <3>2, <4>1
      <4>2. CASE i # 1
        <5>1. i - 1 \in 1 .. Len(p) - 1 /\ i - 1 + 1 = i /\ ~(i <= 1)
          BY <3>1, <4>2
        <5> QED BY <3>1, <3>2, <5>1
      <4> QED BY <4>1, <4>2
    <3>5. q = p
      BY <3>2, <3>3, <3>4, SeqEqual
    <3> QED BY <3>5 DEF q
  <2> HIDE DEF h, t
  <2>4. (d \o h) \o t = d \o (h \o t)
    BY <2>1, ConcatAssociative
  <2> QED BY <2>2, <2>3, <2>4 DEF t
<1> QED BY <1>1, <1>3, <1>4, <1>5
(* Without running callbacks nothing is in hand and nobody will drain. *)
LEMMA Idle ==
    ASSUME TypeOK, Ledger, frames = <<>>, NEW i \in DOMAIN rl
    PROVE  /\ rl[i].pending # <<>> => rl[i].paused \/ rl[i].closed \/ rl[i].exposed
           /\ rl[i].closed /\ ~rl[i].cut => rl[i].pending = <<>>
           /\ Agrees(rl[i].delivered \o rl[i].pending, rl[i])
<1>1. Books(i, rl[i], <<>>)
  BY DEF Ledger
<1>2. ~WillDrain(<<>>, i)
  BY DEF WillDrain
<1>3. PICK lines : /\ Holds(<<>>, i, lines)
                   /\ rl[i].closed /\ ~rl[i].cut => rl[i].pending = <<>>
                   /\ Agrees(rl[i].delivered \o lines \o rl[i].pending, rl[i])
  BY <1>1, BooksRead
<1>4. lines = <<>>
  BY <1>3 DEF Holds
<1>5. rl[i].delivered \o <<>> \o rl[i].pending = rl[i].delivered \o rl[i].pending
  BY Rows, Concatenations
<1> QED BY <1>1, <1>2, <1>3, <1>4, <1>5, BooksRead

LEMMA BooksIdle ==
    ASSUME NEW i, NEW e \in Interface, e.pending # <<>> => e.paused \/ e.closed \/ e.exposed,
           e.closed /\ ~e.cut => e.pending = <<>>,
           Agrees(e.delivered \o e.pending, e)
    PROVE  Books(i, e, <<>>)
<1>1. Holds(<<>>, i, <<>>)
  BY DEF Holds
<1>2. e.delivered \in Seq(Seq(Halves)) /\ e.pending \in Seq(Seq(Halves))
  BY DEF Interface, Lines
<1>3. e.delivered \o <<>> \o e.pending = e.delivered \o e.pending
  BY <1>2, Concatenations
<1> QED BY <1>1, <1>3, BooksOpened

LEMMA LedgerIdle ==
    ASSUME TypeOK, Ledger, frames = <<>>, NEW i \in DOMAIN rl, NEW e \in Interface, Becomes(i, e),
           e.pending # <<>> => e.paused \/ e.closed \/ e.exposed,
           e.closed /\ ~e.cut => e.pending = <<>>,
           Agrees(e.delivered \o e.pending, e),
           frames' = <<>> \/ Calls(i, <<>>)
    PROVE  Ledger'
<1>1. Books(i, e, <<>>) /\ OnlyDrains(<<>>) /\ <<>> \in Seq(Frame)
  <2>1. Books(i, e, <<>>)
    BY BooksIdle
  <2>2. OnlyDrains(<<>>) /\ <<>> \in Seq(Frame)
    BY EmptySeq DEF OnlyDrains
  <2> QED BY <2>1, <2>2
<1>2. \A j \in DOMAIN rl : Books(j, rl[j], <<>>)
  BY DEF Ledger
<1>3. /\ OnlyDrains(frames') /\ Books(i, e, frames')
      /\ \A j \in DOMAIN rl : Books(j, rl[j], frames')
  <2>1. CASE frames' = <<>>
    BY <1>1, <1>2, <2>1
  <2>2. CASE Calls(i, <<>>)
    <3>1. PICK f \in Frame : f.rest = <<>> /\ frames' = <<f>> \o <<>>
      BY <2>2 DEF Calls
    <3>2. OnlyDrains(<<f>> \o <<>>)
      BY <1>1, <3>1, HoldsPushed
    <3>3. Books(i, e, <<f>> \o <<>>) /\ \A j \in DOMAIN rl : Books(j, rl[j], <<f>> \o <<>>)
      BY <1>1, <1>2, <3>1, BooksPushed
    <3>4. frames' = <<f>> \o <<>>
      BY <3>1
    <3> QED BY <3>2, <3>3, <3>4
  <2> QED BY <2>1, <2>2
<1>4. OnlyDrains(frames)'
  BY <1>3 DEF OnlyDrains
<1> QED BY <1>3, <1>4, LedgerOfOne

LEMMA LedgerComplete ==
    ASSUME TypeOK, Ordered, WholeLines, Ledger, Complete
    PROVE  Ledger'
<1> DEFINE job == completed[1]
           i == job.by
           r == rl[i]
<1>1. frames = <<>> /\ completed[1] \in Job /\ Completed(i, job)
  BY CompleteStep
<1>2. i \in DOMAIN rl /\ job.got \in Seq(Halves)
  BY <1>1 DEF Job
<1>3. /\ Ascending(job.got) /\ Before(rl[i].took, job.got)
      /\ ~None(job) => job.got # <<>>
  <2>1. 1 \in DOMAIN completed
    BY CompleteStep, Types, Shortened
  <2>2. job \in Jobs /\ job \in ToSet(completed)
    BY <2>1 DEF Jobs, ToSet
  <2> HIDE DEF job
  <2>3. Whole(job.got) \/ None(job)
    BY <2>2 DEF WholeLines, None
  <2>4. ~Whole(<<>>)
    BY DEF Whole
  <2> QED BY <2>2, <2>3, <2>4 DEF Ordered
<1> HIDE DEF job, i
<1>4. /\ r \in Interface /\ r.pending \in Seq(Seq(Halves))
      /\ r.delivered \in Seq(Seq(Halves)) /\ r.took \in Seq(Seq(Halves))
  BY <1>2, Rows
<1>5. Before(r.took, job.got) /\ r.took \in Lines /\ r.delivered \in Lines /\ r.pending \in Lines
  BY <1>3, <1>4 DEF Lines
<1>6. /\ r.pending # <<>> => r.paused \/ r.closed \/ r.exposed
      /\ r.closed /\ ~r.cut => r.pending = <<>>
      /\ Agrees(r.delivered \o r.pending, r)
  BY <1>1, <1>2, Idle
<1> HIDE DEF r
<1>7. CASE UNCHANGED <<rl, frames>>
  <2>1. Becomes(i, r)
    BY <1>2, <1>7, Types DEF Becomes, r
  <2> QED BY <1>1, <1>2, <1>4, <1>6, <1>7, <2>1, LedgerIdle
<1>8. CASE Becomes(i, Ended(i)) /\ frames' = frames
  <2> DEFINE e == Ended(i)
  <2>1. /\ e \in Interface /\ e.closed = r.closed /\ e.cut = r.cut /\ e.exposed = r.exposed
        /\ e.paused = r.paused /\ e.delivered = r.delivered /\ e.pending = r.pending /\ e.took = r.took
    BY <1>4 DEF Ended, Interface, r
  <2>2. Becomes(i, e)
    BY <1>8
  <2> HIDE DEF e
  <2>3. Agrees(e.delivered \o e.pending, e)
    BY <1>6, <2>1, AgreesSame
  <2> QED BY <1>1, <1>2, <1>6, <1>8, <2>1, <2>2, <2>3, LedgerIdle
<1>9. ASSUME ~None(job), NEW e \in Interface, Becomes(i, e), Delivered(i, e, job.got), Calls(i, <<>>)
      PROVE  Ledger'
  <2>1. /\ ~r.paused /\ ~r.closed /\ e.paused = r.paused /\ e.closed = r.closed
        /\ e.cut = r.cut /\ e.exposed = r.exposed /\ e.pending = r.pending
        /\ e.delivered = Append(r.delivered, job.got) /\ e.took = Append(r.took, job.got)
    BY <1>9 DEF Delivered, r
  <2>2. r.pending = <<>> \/ r.exposed
    BY <1>6, <2>1
  <2>3. Agrees(Append(r.delivered, job.got) \o r.pending, e)
    BY <1>2, <1>3, <1>5, <1>6, <1>9, <2>1, <2>2, AgreesMore
  <2>4. Agrees(e.delivered \o e.pending, e)
    BY <2>1, <2>3
  <2> QED BY <1>1, <1>2, <1>9, <2>1, <2>2, <2>4, LedgerIdle
<1>10. ASSUME ~None(job), NEW e \in Interface, Becomes(i, e), Buffered(i, e, job.got),
              frames' = frames \/ Calls(i, <<>>)
       PROVE  Ledger'
  <2> DEFINE kept == r.delivered \o r.pending
  <2>1. /\ r.paused /\ e.paused = r.paused /\ e.exposed = r.exposed /\ (r.cut => e.cut) /\ (e.closed => e.cut)
        /\ e.delivered = r.delivered
        /\ e.pending = Append(r.pending, job.got) /\ e.took = Append(r.took, job.got)
    BY <1>10 DEF Buffered, r
  <2>2. kept \in Seq(Seq(Halves)) /\ kept \o <<>> = kept
    BY <1>4, ConcatProperties, ConcatEmptySeq
  <2>3. r.delivered \o <<>> \o Append(r.pending, job.got) = Append(kept, job.got)
    <3> DEFINE d == r.delivered
               p == r.pending
               S == Seq(Halves)
    <3>1. d \in Seq(S) /\ p \in Seq(S)
      BY <1>4
    <3> HIDE DEF d, p, S
    <3>2. \A line \in S : d \o <<>> \o Append(p, line) = Append(d \o p, line)
      BY <3>1, Concatenations
    <3> QED BY <1>2, <3>2 DEF d, p, S
  <2>4. r.delivered \o <<>> = r.delivered
    BY <1>4, Concatenations
  <2>5. Agrees(kept, r)
    BY <1>6
  <2> HIDE DEF kept
  <2>6. kept \in Lines /\ <<>> \in Lines /\ Agrees(kept \o <<>>, r)
    BY <2>2, <2>5, NoLines DEF Lines
  <2>7. Agrees(Append(kept, job.got) \o <<>>, e)
    BY <1>2, <1>3, <1>5, <1>10, <2>1, <2>6, AgreesMore
  <2>8. Append(kept, job.got) \o <<>> = Append(kept, job.got)
    <3>1. Append(kept, job.got) \in Seq(Seq(Halves))
      BY <1>2, <2>2, AppendProperties
    <3> QED BY <3>1, ConcatEmptySeq
  <2>9. Agrees(e.delivered \o e.pending, e)
    BY <2>1, <2>3, <2>4, <2>7, <2>8
  <2>10. e.paused /\ (e.closed => e.cut)
    BY <2>1
  <2> QED BY <1>1, <1>2, <1>10, <2>9, <2>10, LedgerIdle
<1>11. ASSUME Calls(i, <<>>), NEW e \in Interface, Becomes(i, e), Closed(i, Ended(i), e)
       PROVE  Ledger'
  <2>1. /\ Ended(i).pending = r.pending /\ Ended(i).delivered = r.delivered /\ Ended(i).took = r.took
        /\ Ended(i).cut = r.cut /\ Ended(i).exposed = r.exposed
    BY <1>4 DEF Ended, Interface, r
  <2>2. /\ e.closed /\ e.pending = r.pending /\ e.delivered = r.delivered /\ e.took = r.took
        /\ r.cut => e.cut
        /\ e.exposed = r.exposed
        /\ ~e.cut => r.pending = <<>>
    BY <1>11, <2>1 DEF Closed
  <2>3. Agrees(e.delivered \o e.pending, e)
    BY <1>6, <2>2, AgreesSame
  <2> QED BY <1>1, <1>2, <1>11, <2>2, <2>3, LedgerIdle
<1> QED BY <1>1, <1>7, <1>8, <1>9, <1>10, <1>11 DEF Completed

(* A callback returns that has nothing in hand and nothing left to drain. *)
LEMMA LedgerReturned ==
    ASSUME TypeOK, Ledger, frames # <<>>, Top.rest = <<>>,
           Top.then = "drain_pending" => rl[Top.of].pending = <<>>
    PROVE  OnlyDrains(Tail(frames)) /\ \A j \in DOMAIN rl : Books(j, rl[j], Tail(frames))
<1>1. frames \in Seq(Frame) /\ Top = frames[1] /\ OnlyDrains(frames)
  BY Types, TopFrame DEF Ledger
<1>2. OnlyDrains(Tail(frames))
  BY <1>1, HoldsPopped
<1>3. ASSUME NEW j \in DOMAIN rl
      PROVE  Books(j, rl[j], Tail(frames))
  <2>1. Books(j, rl[j], frames)
    BY DEF Ledger
  <2> QED BY <1>1, <2>1, BooksPopped
<1> QED BY <1>2, <1>3

LEMMA LedgerDrained ==
    ASSUME TypeOK, Ledger, frames # <<>>, NEW i \in DOMAIN rl, i = Top.of,
           NEW rest \in Lines, NEW buffer, Drained(i, rest, buffer),
           rest = <<>> => Top.rest = <<>> /\ (Top.then = "drain_pending" => rl[i].pending = <<>>),
           rest # <<>> => /\ buffer = <<>> /\ Holds(Tail(frames), i, <<>>)
                          /\ Agrees(rl[i].delivered \o rest, rl[i])
    PROVE  Ledger'
<1> DEFINE t == Tail(frames)
<1>1. frames \in Seq(Frame) /\ t \in Seq(Frame) /\ frames[1].of = i /\ OnlyDrains(t)
  BY Types, TopFrame, HoldsPopped DEF Ledger
<1>2. ASSUME NEW j \in DOMAIN rl, j # i
      PROVE  Books(j, rl[j], t)
  <2>1. Books(j, rl[j], frames)
    BY DEF Ledger
  <2> QED BY <1>1, <1>2, <2>1, BooksPopped
<1>3. ASSUME rest # <<>>, ~rl[i].closed,
             NEW e \in Interface, Becomes(i, e), Keeps(i, e, buffer), e.cut = rl[i].cut,
             e.delivered = Append(rl[i].delivered, Head(rest)),
             NEW f \in Frame, f.of = i, f.then = "drain", f.rest = Tail(rest), frames' = <<f>> \o t
      PROVE  Ledger'
  <2>1. rest \in Seq(Seq(Halves)) /\ rl[i].delivered \in Seq(Seq(Halves))
    BY Rows DEF Lines
  <2>2. Append(rl[i].delivered, Head(rest)) \o Tail(rest) = rl[i].delivered \o rest
    <3> DEFINE d == rl[i].delivered
               S == Seq(Halves)
    <3>1. d \in Seq(S) /\ rest \in Seq(S)
      BY <2>1
    <3> HIDE DEF d, S
    <3>2. rest # <<>> => Append(d, Head(rest)) \o Tail(rest) = d \o rest
      BY <3>1, Concatenations
    <3> QED BY <1>3, <3>2 DEF d
  <2>3. e.delivered \in Seq(Seq(Halves)) /\ Tail(rest) \in Seq(Seq(Halves))
    BY <1>3, FirstLine DEF Interface, Lines
  <2>4. e.delivered \o Tail(rest) \o <<>> = e.delivered \o Tail(rest)
    BY <2>3, Concatenations
  <2>5. e.pending = <<>> /\ e.took = rl[i].took /\ e.exposed = rl[i].exposed /\ ~e.closed
    BY <1>3 DEF Keeps
  <2>6. Agrees(e.delivered \o Tail(rest) \o e.pending, e)
    <3>1. Agrees(rl[i].delivered \o rest, e)
      BY <1>3, <2>5, AgreesSame
    <3> QED BY <1>3, <2>2, <2>4, <2>5, <3>1
  <2>7. Holds(frames', i, Tail(rest))
    BY <1>1, <1>3, HoldsPushed
  <2>8. Books(i, e, frames')
    BY <2>5, <2>6, <2>7, BooksOpened
  <2>9. \A j \in DOMAIN rl : j # i => Books(j, rl[j], frames')
    BY <1>1, <1>2, <1>3, BooksPushed
  <2>10. OnlyDrains(frames')
    BY <1>1, <1>3, HoldsPushed
  <2>11. OnlyDrains(frames)'
    BY <2>10 DEF OnlyDrains
  <2> QED BY <1>3, <2>8, <2>9, <2>11, LedgerOfOne
<1>4. ASSUME rest = <<>>, frames' = t, NEW s \in Slots, StartRead(rl, s)
      PROVE  Ledger'
  <2>1. OnlyDrains(t) /\ \A j \in DOMAIN rl : Books(j, rl[j], t)
    BY <1>4, LedgerReturned
  <2>2. OnlyDrains(frames)' /\ \A j \in DOMAIN rl : Books(j, rl[j], frames')
    BY <1>4, <2>1 DEF OnlyDrains
  <2> QED BY <1>4, <2>2, StartReadAlike, LedgerOfAlike
<1>5. ASSUME rest # <<>>, frames' = t, NEW e \in Interface, Keeps(i, e, buffer), e.cut,
             e.delivered = rl[i].delivered, DOMAIN rl' = DOMAIN rl, rl'[i] = e,
             \A j \in DOMAIN rl : j # i => Alike(rl[j], rl'[j])
      PROVE  Ledger'
  <2>1. e.pending = <<>> /\ e.took = rl[i].took /\ e.exposed = rl[i].exposed
    BY <1>5 DEF Keeps
  <2>2. rl[i].delivered \in Lines
    BY Rows DEF Lines
  <2>3. e.delivered \in Seq(Seq(Halves))
    BY DEF Interface, Lines
  <2>4. e.delivered \o <<>> \o <<>> = e.delivered
    BY <2>3, ConcatEmptySeq
  <2>5. Agrees(e.delivered, e)
    BY <1>5, <2>1, <2>2, AgreesCut
  <2>6. Books(i, e, frames')
    BY <1>5, <2>1, <2>4, <2>5, BooksOpened
  <2>7. OnlyDrains(frames') /\ \A j \in DOMAIN rl : j # i => Books(j, rl[j], frames')
    BY <1>1, <1>2, <1>5
  <2> QED BY <1>5, <2>6, <2>7, LedgerOfOthers
<1>6. ASSUME NEW e, Becomes(i, e)
      PROVE  /\ DOMAIN rl' = DOMAIN rl /\ rl'[i] = e
             /\ \A j \in DOMAIN rl : j # i => Alike(rl[j], rl'[j])
  BY <1>6 DEF Becomes, Alike
<1>7. ASSUME NEW e, NEW j \in DOMAIN rl, Hands(i, e, j)
      PROVE  /\ DOMAIN rl' = DOMAIN rl /\ rl'[i] = e
             /\ \A m \in DOMAIN rl : m # i => Alike(rl[m], rl'[m])
  <2>1. Alike(rl[j], [rl[j] EXCEPT !.reading = TRUE])
    BY Types DEF Alike, Interface
  <2>2. \A m \in DOMAIN rl : Alike(rl[m], rl[m])
    BY DEF Alike
  <2> QED BY <1>7, <2>1, <2>2 DEF Hands
<1> QED BY <1>3, <1>4, <1>5, <1>6, <1>7 DEF Drained

LEMMA LedgerGoOn ==
    ASSUME TypeOK, Ledger, GoOn
    PROVE  Ledger'
<1> DEFINE i == Top.of
           t == Tail(frames)
<1>1. /\ frames # <<>> /\ Top.then = "go_on"
      /\ \/ (\E e \in Interface : Becomes(i, e) /\ Closed(i, rl[i], e)) /\ Calls(i, t)
         \/ frames' = t /\ UNCHANGED rl
         \/ frames' = t /\ \E s \in Slots : StartRead(rl, s)
  BY GoOnStep
<1>2. i \in DOMAIN rl /\ t \in Seq(Frame) /\ frames \in Seq(Frame) /\ Top = frames[1]
  BY <1>1, TopFrame, Types
<1>3. Top.rest = <<>>
  BY <1>1, <1>2, HoldsPopped DEF Ledger
<1>4. OnlyDrains(t) /\ \A j \in DOMAIN rl : Books(j, rl[j], t)
  BY <1>1, <1>3, LedgerReturned
<1>5. \A f \in DOMAIN t : t[f].of = i /\ t[f].rest # <<>> => Drains(i) # {}
  <2>1. \A f \in DOMAIN t : f + 1 \in DOMAIN frames /\ t[f] = frames[f + 1]
    BY <1>1, <1>2, Shortened
  <2> HIDE DEF i, t
  <2> QED BY <2>1 DEF Drains
<1> HIDE DEF i, t
<1>6. CASE (\E e \in Interface : Becomes(i, e) /\ Closed(i, rl[i], e)) /\ Calls(i, t)
  BY <1>2, <1>4, <1>5, <1>6, LedgerClose
<1>7. frames' = t => OnlyDrains(frames)' /\ \A j \in DOMAIN rl : Books(j, rl[j], frames')
  BY <1>4 DEF OnlyDrains
<1>8. CASE frames' = t /\ UNCHANGED rl
  <2>1. \A j \in DOMAIN rl' : Books(j, rl'[j], frames')
    BY <1>4, <1>8
  <2>2. OnlyDrains(frames')
    BY <1>4, <1>8
  <2> QED BY <2>1, <2>2, LedgerAgain
<1>9. CASE frames' = t /\ \E s \in Slots : StartRead(rl, s)
  BY <1>7, <1>9, StartReadAlike, LedgerOfAlike
<1> QED BY <1>1, <1>6, <1>8, <1>9

LEMMA LedgerFreeClosed ==
    ASSUME TypeOK, Ledger, FreeClosed
    PROVE  Ledger'
<1>1. frames # <<>> /\ Top.then = "free_slot" /\ frames' = Tail(frames) /\ UNCHANGED rl
  BY FreeClosedStep
<1>2. frames \in Seq(Frame) /\ Top = frames[1]
  BY <1>1, TopFrame, Types
<1>3. Top.rest = <<>>
  BY <1>1, <1>2, HoldsPopped DEF Ledger
<1>4. OnlyDrains(frames') /\ \A j \in DOMAIN rl' : Books(j, rl'[j], frames')
  BY <1>1, <1>3, LedgerReturned
<1> QED BY <1>4, LedgerAgain

(* What an exception took out of a drain is cut off; what it left in a buffer   *)
(* that nobody will drain is exposed.                                           *)
LEMMA LedgerThrow ==
    ASSUME TypeOK, Ledger, Throw
    PROVE  Ledger'
<1>1. PICK k \in DOMAIN frames : Unwinds(k)
  BY ThrowStep
<1>2. frames' = SubSeq(frames, k + 1, Len(frames)) /\ frames \in Seq(Frame) /\ DOMAIN rl' = DOMAIN rl
  BY <1>1, ThrowStep, Types DEF Unwinds
<1> DEFINE outer == frames'
<1>3. outer = SubSeq(frames, k + 1, Len(frames))
  BY <1>2
<1> HIDE DEF outer
<1>4. (OnlyDrains(frames) => OnlyDrains(outer)) /\ Outlives(frames, k, outer)
  BY <1>2, <1>3, HoldsUnwound
<1>5. OnlyDrains(outer)
  BY <1>4 DEF Ledger
<1>6. ASSUME NEW i \in DOMAIN rl
      PROVE  Books(i, rl'[i], outer)
  <2> DEFINE r == rl[i]
             q == rl'[i]
  <2>1. /\ q.pending = r.pending /\ q.delivered = r.delivered /\ q.took = r.took
        /\ q.paused = r.paused /\ q.closed = r.closed
        /\ q.cut <=> r.cut \/ \E f \in Drains(i) : f <= k
        /\ q.exposed <=> r.exposed \/ Stale(r, i, outer)
    BY <1>1 DEF Unwinds, outer
  <2>2. PICK lines : /\ Holds(frames, i, lines)
                     /\ lines # <<>> => r.pending = <<>>
                     /\ r.closed /\ ~r.cut => lines = <<>> /\ r.pending = <<>>
                     /\ Agrees(r.delivered \o lines \o r.pending, r)
    BY BooksRead DEF Ledger
  <2>3. r.delivered \in Seq(Seq(Halves)) /\ lines \in Seq(Seq(Halves))
    BY <2>2, Rows, HeldTyped
  <2> HIDE DEF r, q
  <2>4. q.pending # <<>> => q.paused \/ q.closed \/ q.exposed \/ WillDrain(outer, i)
    BY <2>1 DEF Stale
  <2>5. CASE \E f \in Drains(i) : f <= k
    <3>1. lines # <<>> /\ Holds(outer, i, <<>>)
      BY <1>4, <2>2, <2>5 DEF Drains, Outlives
    <3>2. q.cut /\ q.pending = <<>> /\ r.pending = <<>>
      BY <2>1, <2>2, <2>5, <3>1
    <3>3. r.delivered \o lines \o <<>> = r.delivered \o lines /\ r.delivered \o <<>> \o <<>> = r.delivered
      BY <2>3, Concatenations, ConcatEmptySeq
    <3>4. Agrees(r.delivered \o lines, r)
      BY <2>2, <3>2, <3>3
    <3>5. Agrees(r.delivered, q)
      BY <2>1, <2>3, <3>2, <3>4, AgreesCut DEF Lines
    <3>6. Agrees(q.delivered \o <<>> \o q.pending, q)
      BY <2>1, <3>2, <3>3, <3>5
    <3> QED BY <2>4, <3>1, <3>2, <3>6, BooksOpened DEF q
  <2>6. CASE ~\E f \in Drains(i) : f <= k
    <3>1. Holds(outer, i, lines)
      BY <1>4, <2>2, <2>6 DEF Drains, Outlives
    <3>2. Agrees(q.delivered \o lines \o q.pending, q)
      BY <2>1, <2>2, AgreesSame
    <3>3. /\ lines # <<>> => q.pending = <<>>
          /\ q.closed /\ ~q.cut => lines = <<>> /\ q.pending = <<>>
      BY <2>1, <2>2
    <3> QED BY <2>4, <3>1, <3>2, <3>3, BooksOpened DEF q
  <2> QED BY <2>5, <2>6
<1> QED BY <1>2, <1>5, <1>6, LedgerAgain DEF outer

LEMMA LedgerDrainPending ==
    ASSUME TypeOK, Ledger, DrainPending
    PROVE  Ledger'
<1> DEFINE i == Top.of
           t == Tail(frames)
           p == rl[i].pending
           d == rl[i].delivered
<1>1. frames # <<>> /\ Top.then = "drain_pending" /\ Drained(i, p, <<>>)
  BY DrainPendingStep
<1>2. i \in DOMAIN rl /\ frames \in Seq(Frame) /\ Top = frames[1]
  BY <1>1, TopFrame, Types
<1>3. Top.rest = <<>>
  BY <1>1, <1>2, HoldsPopped DEF Ledger
<1>4. p \in Lines /\ p \in Seq(Seq(Halves)) /\ d \in Seq(Seq(Halves))
  BY <1>2, Rows DEF Lines
<1>5. PICK lines : /\ Holds(frames, i, lines) /\ (lines # <<>> => p = <<>>)
                   /\ Agrees(d \o lines \o p, rl[i])
  BY <1>2 DEF Ledger, Books
<1>6. Holds(t, i, lines)
  BY <1>1, <1>2, <1>3, <1>5, HoldsPopped
<1>7. d \o <<>> \o p = d \o p
  BY <1>4, Concatenations
<1>8. p # <<>> => Holds(t, i, <<>>) /\ Agrees(d \o p, rl[i])
  BY <1>5, <1>6, <1>7
<1> HIDE DEF p, d
<1> QED BY <1>1, <1>2, <1>3, <1>4, <1>8, LedgerDrained DEF p, d

LEMMA LedgerDrainNext ==
    ASSUME TypeOK, Ledger, DrainNext
    PROVE  Ledger'
<1> DEFINE i == Top.of
           t == Tail(frames)
           rest == Top.rest
           p == rl[i].pending
           d == rl[i].delivered
<1>1. frames # <<>> /\ Top.then = "drain" /\ Drained(i, rest, p)
  BY DrainNextStep
<1>2. i \in DOMAIN rl /\ frames \in Seq(Frame) /\ Top = frames[1] /\ rest \in Lines
  BY <1>1, TopFrame, Types
<1>3. rest \in Seq(Seq(Halves)) /\ d \in Seq(Seq(Halves))
  BY <1>2, Rows DEF Lines
<1>4. PICK lines : /\ Holds(frames, i, lines) /\ (lines # <<>> => p = <<>>)
                   /\ Agrees(d \o lines \o p, rl[i])
  BY <1>2 DEF Ledger, Books
<1>5. rest # <<>> => lines = rest /\ Holds(t, i, <<>>)
  BY <1>1, <1>2, <1>4, HoldsPopped
<1>6. d \o rest \o <<>> = d \o rest
  BY <1>3, Concatenations
<1>7. ASSUME rest # <<>>
      PROVE  p = <<>> /\ Holds(t, i, <<>>) /\ Agrees(d \o rest, rl[i])
  <2> HIDE DEF p, d, rest
  <2>1. lines = rest /\ Holds(t, i, <<>>)
    BY <1>5, <1>7
  <2>2. p = <<>>
    BY <1>4, <1>7, <2>1 DEF p
  <2>3. d \o lines \o p = d \o rest
    BY <1>6, <2>1, <2>2
  <2>4. Agrees(d \o lines \o p, rl[i])
    BY <1>4 DEF p, d
  <2> QED BY <2>1, <2>2, <2>3, <2>4, Zenon
<1>8. /\ rest = <<>> => Top.rest = <<>> /\ (Top.then = "drain_pending" => p = <<>>)
      /\ rest # <<>> => p = <<>> /\ Holds(t, i, <<>>) /\ Agrees(d \o rest, rl[i])
  BY <1>1, <1>7
<1> HIDE DEF i, rest
<1>9. i = Top.of
  BY DEF i
<1> QED BY <1>1, <1>2, <1>8, <1>9, LedgerDrained DEF p, d, t

LEMMA LedgerKept ==
    ASSUME TypeOK, Ordered, WholeLines, Ledger, [Next]_vars
    PROVE  Ledger'
<1>1. CASE UNCHANGED <<rl, frames>>
  <2>1. OnlyDrains(frames') /\ \A j \in DOMAIN rl' : Books(j, rl'[j], frames')
    BY <1>1 DEF Ledger
  <2> QED BY <2>1, LedgerAgain
<1>2. ASSUME NEW i \in DOMAIN rl, Listen(i)
      PROVE  Ledger'
  BY <1>2, ListenStep, LedgerStartRead
<1>3. ASSUME NEW i \in DOMAIN rl, Close(i)
      PROVE  Ledger'
  <2> DEFINE f == Callback(i, "free_slot")
  <2>1. /\ \E e \in Interface : Becomes(i, e) /\ Closed(i, rl[i], e)
        /\ f \in Frame /\ frames' = <<f>> \o frames
    BY <1>3, CloseStep
  <2>2. f.of = i /\ f.rest = <<>>
    BY DEF Callback
  <2> HIDE DEF f
  <2>3. Calls(i, frames)
    BY <2>1, <2>2 DEF Calls
  <2>4. frames \in Seq(Frame) /\ OnlyDrains(frames) /\ \A j \in DOMAIN rl : Books(j, rl[j], frames)
    BY Types DEF Ledger
  <2>5. \A g \in DOMAIN frames : frames[g].of = i /\ frames[g].rest # <<>> => Drains(i) # {}
    BY DEF Drains
  <2> QED BY <2>1, <2>3, <2>4, <2>5, LedgerClose
<1>4. ASSUME NEW k \in DOMAIN running, JobReads(k) \/ JobAtEof(k)
      PROVE  UNCHANGED <<rl, frames>>
  BY <1>4 DEF JobReads, JobAtEof
<1>5. ASSUME NEW i \in DOMAIN rl, Method(i)
      PROVE  Ledger'
  BY <1>2, <1>3, <1>5, LedgerPause, LedgerResume DEF Method
<1> QED BY <1>1, <1>4, <1>5, LedgerCreate, LedgerComplete, LedgerGoOn, LedgerDrainPending, LedgerDrainNext,
           LedgerFreeClosed, LedgerThrow DEF Next, vars
-----------------------------------------------------------------------------
LEMMA InitInvariant ==
    ASSUME Init
    PROVE  IInv
<1>1. /\ next = 1 /\ last \in Halves /\ rl = <<>> /\ running = <<>> /\ completed = <<>> /\ frames = <<>>
  BY ReadlineAssumption DEF Init, Halves
<1>2. DOMAIN rl = {} /\ DOMAIN running = {} /\ DOMAIN completed = {} /\ DOMAIN frames = {}
  BY <1>1
<1>3. ToSet(running) = {} /\ ToSet(completed) = {} /\ Jobs = {}
  BY <1>2 DEF ToSet, Jobs
<1>4. OneJob
  BY <1>2, <1>3 DEF OneJob, Alone
<1>5. Ordered
  BY <1>2, <1>3 DEF Ordered
<1>6. next <= last + 1 /\ ~Ends(next)
  BY <1>1, ReadlineAssumption DEF Halves, Ends
<1>7. WholeLines
  BY <1>2, <1>3, <1>6 DEF WholeLines
<1>8. Ledger
  BY <1>2 DEF Ledger, OnlyDrains
<1> QED BY <1>4, <1>5, <1>7, <1>8, InitTypes DEF IInv

LEMMA StepKeepsInvariant ==
    ASSUME IInv, [Next]_vars
    PROVE  IInv'
<1>1. TypeOK /\ OneJob /\ Ordered /\ WholeLines /\ Ledger
  BY DEF IInv
<1>2. /\ TypeOK'
      /\ Quiet \/ Starts \/ Finishes \/ \E k \in DOMAIN running : JobReads(k) \/ JobAtEof(k)
  BY <1>1, Kinds
<1>3. OneJob'
  BY <1>1, <1>2, QuietOne, StartsOne, FinishesOne, JobReadsOne, JobAtEofOne
<1>4. Ordered'
  BY <1>1, <1>2, OrderedKept
<1>5. WholeLines'
  BY <1>1, <1>2, WholeKept
<1>6. Ledger'
  BY <1>1, LedgerKept
<1> QED BY <1>2, <1>3, <1>4, <1>5, <1>6 DEF IInv

LEMMA InvariantOrders ==
    ASSUME IInv
    PROVE  LinesInOrder
<1> SUFFICES ASSUME NEW i \in DOMAIN rl
             PROVE  /\ AsTyped(rl[i].took)
                    /\ \A m \in DOMAIN rl[i].took : Whole(rl[i].took[m])
                    /\ \A f, g \in Drains(i) : f = g
                    /\ Agrees(Kept(i), rl[i])
  BY DEF LinesInOrder, Agrees
<1> DEFINE r == rl[i]
<1>1. AsTyped(rl[i].took) /\ \A m \in DOMAIN rl[i].took : Whole(rl[i].took[m])
  BY DEF IInv, Ordered, WholeLines
<1>2. TypeOK /\ Books(i, r, frames)
  BY DEF IInv, Ledger
<1>3. PICK lines : /\ Holds(frames, i, lines)
                   /\ r.closed /\ ~r.cut => lines = <<>> /\ r.pending = <<>>
                   /\ Agrees(r.delivered \o lines \o r.pending, r)
  BY <1>2, BooksRead
<1>4. \A f, g \in Drains(i) : f = g
  BY <1>3 DEF Holds, Drains
<1>5. InHand(i) = lines
  <2>1. CASE Drains(i) = {}
    <3>1. lines = <<>>
      BY <1>3, <2>1 DEF Holds, Drains
    <3> QED BY <2>1, <3>1 DEF InHand
  <2>2. CASE Drains(i) # {}
    <3>1. PICK f \in Drains(i) : TRUE
      BY <2>2
    <3>2. f = CHOOSE g \in Drains(i) : TRUE
      BY <1>4, <3>1
    <3>3. frames[f].rest = lines
      BY <1>3, <3>1 DEF Holds, Drains
    <3> QED BY <2>2, <3>2, <3>3 DEF InHand
  <2> QED BY <2>1, <2>2
<1>6. /\ r.delivered \in Seq(Seq(Halves)) /\ r.pending \in Seq(Seq(Halves))
      /\ lines \in Seq(Seq(Halves))
  BY <1>2, <1>3, Rows, HeldTyped
<1>7. Kept(i) = r.delivered \o (IF r.closed THEN <<>> ELSE lines \o r.pending)
  BY <1>5 DEF Kept
<1> HIDE DEF r
<1>8. /\ r.delivered \o <<>> = r.delivered
      /\ r.delivered \o (lines \o r.pending) = r.delivered \o lines \o r.pending
      /\ r.delivered \o <<>> \o <<>> = r.delivered
  <2> DEFINE d == r.delivered
             p == r.pending
             S == Seq(Halves)
  <2>1. d \in Seq(S) /\ p \in Seq(S) /\ lines \in Seq(S)
    BY <1>6
  <2> HIDE DEF d, p, S
  <2>2. d \o <<>> = d
    BY <2>1, ConcatEmptySeq
  <2>3. d \o (lines \o p) = d \o lines \o p
    BY <2>1, ConcatAssociative
  <2> QED BY <2>2, <2>3 DEF d, p
<1>9. CASE ~r.closed
  <2>1. Agrees(Kept(i), r)
    BY <1>3, <1>7, <1>8, <1>9
  <2> QED BY <1>1, <1>4, <2>1 DEF r
<1>10. CASE r.closed
  <2>1. Kept(i) = r.delivered
    BY <1>7, <1>8, <1>10
  <2>2. Agrees(r.delivered, r)
    <3>1. CASE ~r.cut
      BY <1>3, <1>8, <1>10, <3>1
    <3>2. CASE r.cut
      <4>1. lines \o r.pending \in Lines /\ r.delivered \in Lines
        BY <1>6, ConcatProperties DEF Lines
      <4>2. Agrees(r.delivered \o (lines \o r.pending), r)
        BY <1>3, <1>8
      <4> QED BY <3>2, <4>1, <4>2, AgreesCut
    <3> QED BY <3>1, <3>2
  <2> QED BY <1>1, <1>4, <2>1, <2>2 DEF r
<1> QED BY <1>9, <1>10

(* Whatever callbacks pause, resume, close or throw, what an interface read are *)
(* whole lines, as they were typed.  Those it delivered, has in the hands of a  *)
(* drain or, while it is open, in its buffer are among them, none of them       *)
(* twice: in that order, unless an exception broke a resume off over a buffer,  *)
(* and all of them, unless it was closed over some or a drain was paused or     *)
(* broken off (xt_readline_job_complete, xt_readline_drain_pending).            *)
THEOREM LinesStayInOrder == Spec => []LinesInOrder
<1>1. Init => IInv
  BY InitInvariant
<1>2. IInv /\ [Next]_vars => IInv'
  BY StepKeepsInvariant
<1>3. IInv => LinesInOrder
  BY InvariantOrders
<1> QED BY <1>1, <1>2, <1>3, PTL DEF Spec
=============================================================================
