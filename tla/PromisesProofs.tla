--------------------------- MODULE PromisesProofs ---------------------------
(***************************************************************************)
(* The bookkeeping of Promises, for any number of promises, async calls,   *)
(* nested activations and host callbacks.  Only RejectionsReported assumes *)
(* that a program uses the functions of a promise once.                    *)
(*                                                                         *)
(* The invariant of the heap, HeapOk, is a predicate on a heap h of which  *)
(* n promises are allocated, with po the promises of the async calls.      *)
(* Each helper of xt_promise.c keeps it, so an action does, because it is  *)
(* a composition of helpers.                                               *)
(***************************************************************************)
EXTENDS Promises, FiniteSetTheorems, SequenceTheorems, TLAPS

(* Putting an element in front moves the others up by one. *)
LEMMA Pushed ==
    ASSUME NEW S, NEW s \in Seq(S), NEW e \in S
    PROVE  /\ <<e>> \o s \in Seq(S) /\ <<e>> \o s # <<>>
           /\ Len(s) \in Nat /\ Len(<<e>> \o s) = Len(s) + 1
           /\ DOMAIN s = 1 .. Len(s) /\ DOMAIN (<<e>> \o s) = 1 .. Len(s) + 1
           /\ (<<e>> \o s)[1] = e
           /\ \A i \in 2 .. Len(s) + 1 : (<<e>> \o s)[i] = s[i - 1]
<1> DEFINE t == <<e>>
<1>1. t \in Seq(S) /\ Len(t) = 1 /\ t[1] = e /\ Len(s) \in Nat
  BY LenProperties
<1> QED BY <1>1, ConcatProperties, LenProperties, EmptySeq

(* The tail has the other elements, moved down by one. *)
LEMMA Shortened ==
    ASSUME NEW S, NEW s \in Seq(S), s # <<>>
    PROVE  /\ Len(s) \in Nat /\ Len(s) > 0 /\ DOMAIN s = 1 .. Len(s)
           /\ Head(s) = s[1] /\ s[1] \in S
           /\ Tail(s) \in Seq(S) /\ Len(Tail(s)) = Len(s) - 1
           /\ DOMAIN Tail(s) = 1 .. Len(s) - 1
           /\ \A i \in 1 .. Len(s) - 1 : Tail(s)[i] = s[i + 1]
           /\ Tail(s) = <<>> <=> Len(s) = 1
<1> DEFINE r == Tail(s)
<1>1. r \in Seq(S) /\ Len(r) = Len(s) - 1 /\ Len(s) \in Nat \ {0}
  BY HeadTailProperties, EmptySeq
<1> HIDE DEF r
<1>2. Len(<<>>) = 0 /\ (r # <<>> => Len(r) \in Nat \ {0})
  BY <1>1, EmptySeq
<1>3. r = <<>> <=> Len(s) = 1
  BY <1>1, <1>2
<1> QED BY <1>1, <1>3, HeadTailProperties, LenProperties, ElementOfSeq DEF r
(* Dropping the first k elements. *)
LEMMA Unwound ==
    ASSUME NEW S, NEW s \in Seq(S), NEW k \in 1 .. Len(s)
    PROVE  /\ SubSeq(s, k + 1, Len(s)) \in Seq(S) /\ Len(SubSeq(s, k + 1, Len(s))) = Len(s) - k
           /\ \A i \in 1 .. Len(SubSeq(s, k + 1, Len(s))) : SubSeq(s, k + 1, Len(s))[i] = s[k + i]
<1> DEFINE t == SubSeq(s, k + 1, Len(s))
<1>1. /\ Len(s) \in Nat /\ k \in Int /\ k + 1 \in Int /\ Len(s) \in Int
      /\ \A i \in k + 1 .. Len(s) : s[i] \in S
  BY LenProperties, ElementOfSeq
<1>2. /\ t \in Seq(S) /\ Len(t) = IF k + 1 <= Len(s) THEN Len(s) - (k + 1) + 1 ELSE 0
      /\ \A i \in 1 .. Len(s) - (k + 1) + 1 : t[i] = s[k + 1 + i - 1]
  BY <1>1, SubSeqProperties
<1> HIDE DEF t
<1>3. Len(t) = Len(s) - k /\ Len(s) - (k + 1) + 1 = Len(s) - k
  BY <1>1, <1>2
<1>4. \A i \in 1 .. Len(t) : t[i] = s[k + i]
  <2> TAKE i \in 1 .. Len(t)
  <2>1. t[i] = s[k + 1 + i - 1] /\ k + 1 + i - 1 = k + i
    BY <1>1, <1>2, <1>3
  <2> QED BY <2>1
<1> QED BY <1>2, <1>3, <1>4 DEF t
-----------------------------------------------------------------------------
Job == [kind : {"then", "follow", "wake"}, on : 0 .. MaxPromises,
        onFulfilled : BOOLEAN, onRejected : BOOLEAN,
        result : 0 .. MaxPromises, co : Coroutines \cup {NoCo}]

Heap == [proms : [Ids -> Promise], tasks : Seq(Job), unhandled : Seq(Ids), delivered : SUBSET Ids]

\* Places in the list and indexes in the promises refer to each other.
Linked(proms, list) ==
    /\ \A p \in Ids : proms[p].index # 0 =>
          proms[p].index <= Len(list) /\ list[proms[p].index] = p
    /\ \A k \in 1 .. Len(list) : proms[list[k]].index = k

Unseen(q) == q.state = "rejected" /\ ~q.observed

\* Listed are the rejected promises that nobody observed.
Reported(proms) == \A p \in Ids : proms[p].index # 0 <=> Unseen(proms[p])

\* Reactions wait with the promise they are for, while it is pending.
Waiting(proms) ==
    \A p \in Ids : /\ proms[p].state # "pending" => proms[p].reactions = <<>>
                   /\ \A k \in 1 .. Len(proms[p].reactions) : proms[p].reactions[k].on = p

\* A reaction is queued after the promise it is for was settled.
Due(proms, r) == r.on # 0 => proms[r.on].state # "pending"

\* What a reaction refers to exists.
Sound(r, n, po) ==
    /\ r.on \in 0 .. n
    /\ r.kind # "wake" => r.on # 0 /\ r.result \in 1 .. n
    /\ r.kind = "wake" => r.co \in Coroutines /\ po[r.co] \in 1 .. n

Refs(proms, n, po) ==
    \A p \in Ids : \A k \in 1 .. Len(proms[p].reactions) : Sound(proms[p].reactions[k], n, po)

QueueOk(tasks, proms, n, po) ==
    \A k \in 1 .. Len(tasks) : Sound(tasks[k], n, po) /\ Due(proms, tasks[k])

Unused(proms, n) == \A p \in Ids : p > n => proms[p] = Blank

HeapOk(h, n, po) ==
    /\ h \in Heap
    /\ Linked(h.proms, h.unhandled) /\ Reported(h.proms)
    /\ Waiting(h.proms) /\ Refs(h.proms, n, po) /\ Unused(h.proms, n)
    /\ QueueOk(h.tasks, h.proms, n, po)

Activations == [kind : {"script", "co", "handler", "block"}, p : 0 .. MaxPromises,
                co : Coroutines \cup {NoCo}]

\* What an activation refers to exists.
Running(f, n, po) ==
    /\ f.p \in 0 .. n
    /\ f.kind \in {"handler", "block"} => f.p # 0
    /\ f.kind = "co" => f.co \in Coroutines /\ po[f.co] \in 1 .. n

Frames(n, po) == {f \in Activations : Running(f, n, po)}

Others ==
    /\ next \in 0 .. MaxPromises /\ open \subseteq 1 .. next
    /\ co \in [Coroutines -> {"idle", "active", "waiting", "done"}]
    /\ promiseOf \in [Coroutines -> 0 .. next]
    /\ awaits \in [Coroutines -> 0 .. next]
    /\ status \in {"run", "exit", "crash"}

IInv ==
    /\ Others
    /\ HeapOk(heap, next, promiseOf)
    /\ stack \in Seq(Frames(next, promiseOf))
-----------------------------------------------------------------------------
LEMMA SamePromise ==
    ASSUME NEW a \in Promise, NEW b \in Promise,
           a.state = b.state, a.reason = b.reason, a.reactions = b.reactions,
           a.observed = b.observed, a.index = b.index
    PROVE  a = b
<1>1. ASSUME NEW r \in Promise
      PROVE  r = [state |-> r.state, reason |-> r.reason, reactions |-> r.reactions,
                  observed |-> r.observed, index |-> r.index]
  <2> DEFINE states == {"pending", "fulfilled", "rejected"}
             places == 0 .. MaxPromises
             jobs == Seq(Job)
             flags == BOOLEAN
  <2>1. r \in [state : states, reason : places, reactions : jobs, observed : flags,
               index : places]
    BY DEF Promise, Job
  <2> HIDE DEF states, places, jobs, flags
  <2> QED BY <2>1
<1> QED BY <1>1

LEMMA BlankIsOne == Blank \in Promise
<1>1. <<>> \in Seq(Job)
  OBVIOUS
<1>2. 0 \in 0 .. MaxPromises
  BY PromisesAssumption
<1> QED BY <1>1, <1>2 DEF Blank, Promise, Job

LEMMA HeapParts ==
    ASSUME NEW h, h \in Heap
    PROVE  /\ h.proms \in [Ids -> Promise] /\ h.tasks \in Seq(Job)
           /\ h.unhandled \in Seq(Ids) /\ h.delivered \subseteq Ids
           /\ \A p \in Ids :
                 /\ h.proms[p] \in Promise
                 /\ h.proms[p].state \in {"pending", "fulfilled", "rejected"}
                 /\ h.proms[p].reason \in 0 .. MaxPromises
                 /\ h.proms[p].reactions \in Seq(Job)
                 /\ h.proms[p].observed \in BOOLEAN
                 /\ h.proms[p].index \in 0 .. MaxPromises
                 /\ h.proms[p].index \in Nat
<1>1. /\ h.proms \in [Ids -> Promise] /\ h.tasks \in Seq(Job)
      /\ h.unhandled \in Seq(Ids) /\ h.delivered \subseteq Ids
  BY DEF Heap
<1>2. ASSUME NEW q \in Promise
      PROVE  /\ q.state \in {"pending", "fulfilled", "rejected"}
             /\ q.reason \in 0 .. MaxPromises
             /\ q.reactions \in Seq(Job)
             /\ q.observed \in BOOLEAN
             /\ q.index \in 0 .. MaxPromises /\ q.index \in Nat
  BY PromisesAssumption DEF Promise, Job
<1> QED BY <1>1, <1>2

LEMMA IdsAre == Ids = 1 .. MaxPromises /\ MaxPromises \in Nat /\ MaxCalls \in Nat
  BY PromisesAssumption DEF Ids
-----------------------------------------------------------------------------
(* Taking p out of the list of n entries: the last entry moves into its place.  *)
LEMMA Unlisted ==
    ASSUME NEW P, NEW L \in Seq(Ids), \A x \in Ids : P[x].index \in Nat, Linked(P, L),
           NEW p \in Ids, P[p].index # 0,
           NEW Q, \A x \in Ids : Q[x].index = IF x = p THEN 0
                                             ELSE IF x = L[Len(L)] THEN P[p].index ELSE P[x].index
    PROVE  /\ Front([L EXCEPT ![P[p].index] = L[Len(L)]]) \in Seq(Ids)
           /\ Linked(Q, Front([L EXCEPT ![P[p].index] = L[Len(L)]]))
           /\ P[p].index \in 1 .. Len(L) /\ L[Len(L)] \in Ids
<1> DEFINE k == P[p].index
           m == Len(L)
           l == L[m]
           M == [L EXCEPT ![k] = l]
<1>1. m \in Nat /\ k \in 1 .. m /\ L[k] = p
  <2>1. m \in Nat
    BY LenProperties
  <2>2. k \in Nat /\ k # 0 /\ k <= m /\ L[k] = p
    BY DEF Linked
  <2> QED BY <2>1, <2>2
<1>2. l \in Ids /\ m \in 1 .. m
  <2>1. m \in 1 .. m
    BY <1>1
  <2> QED BY <2>1, ElementOfSeq
<1>3. M \in Seq(Ids) /\ Len(M) = m /\ \A j \in 1 .. m : M[j] = IF j = k THEN l ELSE L[j]
  <2> HIDE DEF k, l
  <2> QED BY <1>1, <1>2, ExceptSeq
<1> DEFINE F == Front(M)
<1>4. F \in Seq(Ids) /\ Len(F) = m - 1 /\ \A j \in 1 .. m - 1 : F[j] = M[j]
  <2> HIDE DEF M, m
  <2>1. 1 \in Int /\ m - 1 \in Int /\ m \in Nat
    BY <1>1
  <2>2. \A j \in 1 .. m - 1 : M[j] \in Ids
    <3> TAKE j \in 1 .. m - 1
    <3>1. j \in 1 .. Len(M)
      BY <1>3, <2>1
    <3> QED BY <1>3, <3>1, ElementOfSeq
  <2>3. /\ SubSeq(M, 1, m - 1) \in Seq(Ids)
        /\ Len(SubSeq(M, 1, m - 1)) = IF 1 <= m - 1 THEN m - 1 - 1 + 1 ELSE 0
        /\ \A j \in 1 .. m - 1 - 1 + 1 : SubSeq(M, 1, m - 1)[j] = M[1 + j - 1]
    BY <2>1, <2>2, SubSeqProperties
  <2>4. F = SubSeq(M, 1, m - 1)
    BY <1>3 DEF Front
  <2>5. m >= 1
    BY <1>1
  <2> HIDE DEF F
  <2>6. Len(F) = m - 1
    BY <2>1, <2>3, <2>4, <2>5
  <2>7. \A j \in 1 .. m - 1 : F[j] = M[j]
    <3> TAKE j \in 1 .. m - 1
    <3>1. j \in 1 .. m - 1 - 1 + 1 /\ 1 + j - 1 = j
      BY <2>1
    <3> QED BY <2>3, <2>4, <3>1
  <2> QED BY <2>3, <2>4, <2>6, <2>7
<1>5. P[l].index = m /\ P[p].index = k
  BY <1>2 DEF Linked
<1> HIDE DEF F, M
<1>6. \A x \in Ids : Q[x].index # 0 => Q[x].index <= Len(F) /\ F[Q[x].index] = x
  <2> SUFFICES ASSUME NEW x \in Ids, Q[x].index # 0
               PROVE  Q[x].index <= Len(F) /\ F[Q[x].index] = x
    OBVIOUS
  <2>1. x # p
    OBVIOUS
  <2>2. CASE x = l
    <3>1. Q[x].index = k /\ k # m
      BY <1>1, <1>5, <2>1, <2>2
    <3> HIDE DEF k, m, l
    <3>2. k \in 1 .. m - 1
      BY <1>1, <3>1
    <3>3. F[k] = l /\ k <= Len(F)
      BY <1>1, <1>3, <1>4, <3>2
    <3> QED BY <2>2, <3>1, <3>3
  <2>3. CASE x # l
    <3> DEFINE j == P[x].index
    <3>1. Q[x].index = j /\ j \in Nat /\ j # 0 /\ j <= m /\ L[j] = x
      BY <2>1, <2>3 DEF Linked
    <3>2. j # m /\ j # k
      BY <1>1, <2>1, <2>3, <3>1
    <3> HIDE DEF k, m, l, j
    <3>3. j \in 1 .. m - 1 /\ j \in 1 .. m
      BY <1>1, <3>1, <3>2
    <3>4. F[j] = L[j] /\ j <= Len(F)
      BY <1>1, <1>3, <1>4, <3>2, <3>3
    <3> QED BY <3>1, <3>4
  <2> QED BY <2>2, <2>3
<1>7. \A j \in 1 .. Len(F) : Q[F[j]].index = j
  <2> SUFFICES ASSUME NEW j \in 1 .. m - 1 PROVE Q[F[j]].index = j
    BY <1>4
  <2>0. j \in 1 .. m /\ j # m
    BY <1>1
  <2>1. CASE j = k
    <3>1. F[j] = l
      BY <1>3, <1>4, <2>0, <2>1
    <3>2. l # p
      BY <1>5, <2>0, <2>1
    <3> QED BY <1>2, <2>1, <3>1, <3>2
  <2>2. CASE j # k
    <3>1. F[j] = L[j]
      BY <1>3, <1>4, <2>0, <2>2
    <3>2. P[L[j]].index = j /\ L[j] \in Ids
      BY <2>0, ElementOfSeq DEF Linked
    <3>3. L[j] # p /\ L[j] # l
      BY <1>5, <2>0, <2>2, <3>2
    <3> QED BY <3>1, <3>2, <3>3
  <2> QED BY <2>1, <2>2
<1> QED BY <1>1, <1>2, <1>4, <1>6, <1>7 DEF Linked, F, M

(* A promise that is not listed leaves room for itself: no list is longer than  *)
(* the number of promises.                                                      *)
LEMMA Listed ==
    ASSUME NEW P, NEW L \in Seq(Ids), Linked(P, L),
           NEW p \in Ids, P[p].index = 0
    PROVE  Len(L) + 1 \in 1 .. MaxPromises
<1> DEFINE m == Len(L)
           S == Ids \ {p}
<1>1. m \in Nat /\ DOMAIN L = 1 .. m /\ L \in [1 .. m -> Ids]
  BY LenProperties
<1>2. \A k \in 1 .. m : P[L[k]].index = k
  BY DEF Linked
<1>3. \A k \in 1 .. m : L[k] \in S
  <2> TAKE k \in 1 .. m
  <2>1. k # 0 /\ P[L[k]].index = k
    BY <1>1, <1>2
  <2> QED BY <1>1, <2>1
<1>4. L \in Injection(1 .. m, S)
  <2>1. L \in [1 .. m -> S]
    BY <1>1, <1>3
  <2>2. \A a, b \in 1 .. m : L[a] = L[b] => a = b
    <3> TAKE a \in 1 .. m, b \in 1 .. m
    <3>1. P[L[a]].index = a /\ P[L[b]].index = b
      BY <1>2
    <3> QED BY <3>1
  <2> QED BY <2>1, <2>2 DEF Injection, IsInjective
<1>5. IsFiniteSet(Ids) /\ Cardinality(Ids) = MaxPromises
  <2>1. 1 \in Int /\ MaxPromises \in Int /\ (1 > MaxPromises => MaxPromises = 0)
        /\ MaxPromises - 1 + 1 = MaxPromises
    BY IdsAre
  <2> QED BY <2>1, FS_Interval, IdsAre
<1>6. IsFiniteSet(S) /\ Cardinality(S) = MaxPromises - 1
  BY <1>5, FS_RemoveElement
<1>7. IsFiniteSet(1 .. m) /\ Cardinality(1 .. m) = m
  <2>1. 1 \in Int /\ m \in Int /\ (1 > m => m = 0) /\ m - 1 + 1 = m
    BY <1>1
  <2> QED BY <2>1, FS_Interval
<1>8. m <= MaxPromises - 1
  BY <1>4, <1>6, <1>7, FS_Injection
<1> QED BY <1>1, <1>8, IdsAre
-----------------------------------------------------------------------------
\* g is h after p was observed: p is marked and not listed any more.
Marked(h, p, g) ==
    /\ g \in Heap /\ g.tasks = h.tasks /\ g.delivered = h.delivered
    /\ Linked(g.proms, g.unhandled) /\ g.proms[p].observed = TRUE
    /\ \A x \in Ids : /\ g.proms[x].state = h.proms[x].state
                      /\ g.proms[x].reason = h.proms[x].reason
                      /\ g.proms[x].reactions = h.proms[x].reactions
                      /\ x # p => g.proms[x].observed = h.proms[x].observed
                      /\ g.proms[x].index = 0 <=> x = p \/ h.proms[x].index = 0

LEMMA ObserveMarks ==
    ASSUME NEW h, h \in Heap, Linked(h.proms, h.unhandled), NEW p \in Ids
    PROVE  Marked(h, p, Observe(h, p))
<1> DEFINE P == [h.proms EXCEPT ![p].observed = TRUE]
           f == [h EXCEPT !.proms[p].observed = TRUE]
           k == P[p].index
           L == h.unhandled
           l == L[Len(L)]
<1>1. /\ h.proms \in [Ids -> Promise] /\ h.tasks \in Seq(Job)
      /\ h.unhandled \in Seq(Ids) /\ h.delivered \subseteq Ids
      /\ \A x \in Ids : h.proms[x] \in Promise /\ h.proms[x].index \in Nat
  BY HeapParts
<1>2. f = [h EXCEPT !.proms = P]
  OBVIOUS
<1>3. f.proms = P /\ f.unhandled = L /\ f.tasks = h.tasks /\ f.delivered = h.delivered
  BY DEF Heap
<1>4. ASSUME NEW x \in Ids
      PROVE  /\ P[x] \in Promise /\ P[x].index = h.proms[x].index
             /\ P[x].state = h.proms[x].state /\ P[x].reason = h.proms[x].reason
             /\ P[x].reactions = h.proms[x].reactions
             /\ x # p => P[x].observed = h.proms[x].observed
             /\ x = p => P[x].observed = TRUE
  BY <1>1 DEF Promise
<1>5. P \in [Ids -> Promise]
  BY <1>1, <1>4
<1>6. Linked(P, L)
  <2>1. \A x \in Ids : P[x].index = h.proms[x].index
    BY <1>4
  <2>2. \A j \in 1 .. Len(L) : L[j] \in Ids
    BY <1>1, ElementOfSeq
  <2> HIDE DEF P
  <2> QED BY <2>1, <2>2 DEF Linked
<1>7. Observe(h, p) = Unlist(f, p)
  BY DEF Observe
<1>8. CASE k = 0
  <2>1. Observe(h, p) = [h EXCEPT !.proms = P]
    BY <1>2, <1>3, <1>7, <1>8 DEF Unlist
  <2>2. [h EXCEPT !.proms = P] \in Heap
    <3> HIDE DEF P
    <3> QED BY <1>5 DEF Heap
  <2>3. /\ [h EXCEPT !.proms = P].proms = P /\ [h EXCEPT !.proms = P].unhandled = L
        /\ [h EXCEPT !.proms = P].tasks = h.tasks
        /\ [h EXCEPT !.proms = P].delivered = h.delivered
    BY DEF Heap
  <2>4. h.proms[p].index = 0
    BY <1>4, <1>8
  <2> DEFINE o == Observe(h, p)
  <2>5. /\ o \in Heap /\ o.proms = P /\ o.unhandled = L
        /\ o.tasks = h.tasks /\ o.delivered = h.delivered
    BY <2>1, <2>2, <2>3
  <2> HIDE DEF P, L, k, f, o
  <2>6. Marked(h, p, o)
    BY <1>4, <1>6, <2>4, <2>5 DEF Marked
  <2> QED BY <2>6 DEF o
<1>9. CASE k # 0
  <2> DEFINE F == Front([L EXCEPT ![k] = L[Len(L)]])
             Q == [P EXCEPT ![l].index = k, ![p].index = 0]
             g == [f EXCEPT !.unhandled = F, !.proms = Q]
  <2>1. Observe(h, p) = g
    <3>1. Unlist(f, p) = [f EXCEPT !.unhandled = Front([@ EXCEPT ![k] = L[Len(L)]]),
                                   !.proms = [@ EXCEPT ![l].index = k, ![p].index = 0]]
      BY <1>3, <1>9 DEF Unlist
    <3>2. @ = g
      BY <1>3 DEF Heap
    <3> QED BY <1>7, <3>1, <3>2
  <2>2. \A x \in Ids : P[x].index \in Nat
    BY <1>1, <1>4
  <2>3. k \in 0 .. MaxPromises /\ 0 \in 0 .. MaxPromises
    BY <1>1, <1>4, IdsAre DEF Promise
  <2>4. l \in Ids
    <3>1. k # 0 => k <= Len(L) /\ Len(L) \in Nat /\ k \in Nat
      BY <1>1, <1>6, <2>2, LenProperties DEF Linked
    <3>2. Len(L) \in 1 .. Len(L)
      BY <1>9, <3>1
    <3> QED BY <1>1, <3>2, ElementOfSeq
  <2>5. ASSUME NEW x \in Ids
        PROVE  /\ Q[x] \in Promise
               /\ Q[x].state = P[x].state /\ Q[x].reason = P[x].reason
               /\ Q[x].reactions = P[x].reactions /\ Q[x].observed = P[x].observed
               /\ Q[x].index = IF x = p THEN 0 ELSE IF x = l THEN k ELSE P[x].index
    <3>1. P[x] \in Promise
      BY <1>4
    <3> DEFINE e == [P[x] EXCEPT !.index = k]
               z == [P[x] EXCEPT !.index = 0]
               y == [e EXCEPT !.index = 0]
    <3> HIDE DEF P, l, k
    <3>2. e \in Promise /\ z \in Promise /\ y \in Promise
      BY <2>3, <3>1 DEF Promise
    <3>3. e.index = k /\ z.index = 0 /\ y.index = 0
      BY <3>1 DEF Promise
    <3>4. /\ e.state = P[x].state /\ z.state = P[x].state /\ y.state = P[x].state
          /\ e.reason = P[x].reason /\ z.reason = P[x].reason /\ y.reason = P[x].reason
      BY DEF Promise
    <3>5. /\ e.reactions = P[x].reactions /\ z.reactions = P[x].reactions
          /\ y.reactions = P[x].reactions
          /\ e.observed = P[x].observed /\ z.observed = P[x].observed /\ y.observed = P[x].observed
      BY DEF Promise
    <3>6. Q[x] = IF x = p THEN IF x = l THEN y ELSE z ELSE IF x = l THEN e ELSE P[x]
      BY <1>5, <2>4
    <3> HIDE DEF e, z, y, Q
    <3> QED BY <3>1, <3>2, <3>3, <3>4, <3>5, <3>6
  <2>6. Q \in [Ids -> Promise]
    <3>1. DOMAIN Q = Ids /\ \A x \in Ids : Q[x] \in Promise
      BY <1>1, <2>5
    <3>2. Q = [x \in Ids |-> Q[x]]
      <4> HIDE DEF P, l, k
      <4> QED BY <1>5
    <3> HIDE DEF Q
    <3> QED BY <3>1, <3>2
  <2>7. \A x \in Ids : Q[x].index = IF x = p THEN 0 ELSE IF x = L[Len(L)] THEN P[p].index
                                                         ELSE P[x].index
    BY <2>5
  <2>8. F \in Seq(Ids) /\ Linked(Q, F)
    <3> HIDE DEF P, Q, L
    <3> QED BY <1>1, <1>6, <1>9, <2>2, <2>7, Unlisted DEF L
  <2>9. g.proms = Q /\ g.unhandled = F /\ g.tasks = h.tasks /\ g.delivered = h.delivered
    BY <1>3 DEF Heap
  <2>10. g \in Heap
    <3> HIDE DEF Q, F, P
    <3> QED BY <1>1, <2>6, <2>8 DEF Heap
  <2>11. \A x \in Ids : Q[x].index = 0 <=> x = p \/ h.proms[x].index = 0
    <3> TAKE x \in Ids
    <3>1. h.proms[x].index = P[x].index
      BY <1>4
    <3>2. x = l => P[x].index # 0
      <4>1. Len(L) \in Nat /\ k <= Len(L) /\ k \in Nat
        BY <1>1, <1>6, <1>9, <2>2, LenProperties DEF Linked
      <4>2. P[l].index = Len(L)
        BY <1>6, <1>9, <4>1 DEF Linked
      <4> HIDE DEF l, k, P, L
      <4> QED BY <1>9, <4>1, <4>2
    <3> HIDE DEF Q, P
    <3> QED BY <1>9, <2>5, <3>1, <3>2
  <2> DEFINE o == Observe(h, p)
  <2>12. /\ o \in Heap /\ o.proms = Q /\ o.unhandled = F
         /\ o.tasks = h.tasks /\ o.delivered = h.delivered
    BY <2>1, <2>9, <2>10
  <2> HIDE DEF g, Q, F, P, L, k, f, l, o
  <2>13. Marked(h, p, o)
    <3>1. Linked(o.proms, o.unhandled)
      BY <2>8, <2>12
    <3>2. o.proms[p].observed = TRUE
      BY <1>1, <1>4, <2>5, <2>12
    <3>3. ASSUME NEW x \in Ids
          PROVE  /\ o.proms[x].state = h.proms[x].state
                 /\ o.proms[x].reason = h.proms[x].reason
                 /\ o.proms[x].reactions = h.proms[x].reactions
                 /\ x # p => o.proms[x].observed = h.proms[x].observed
      <4>1. o.proms[x] = Q[x]
        BY <2>12
      <4>2. /\ Q[x].state = P[x].state /\ Q[x].reason = P[x].reason
            /\ Q[x].reactions = P[x].reactions /\ Q[x].observed = P[x].observed
        BY <2>5
      <4>3. /\ P[x].state = h.proms[x].state /\ P[x].reason = h.proms[x].reason
            /\ P[x].reactions = h.proms[x].reactions
            /\ x # p => P[x].observed = h.proms[x].observed
        BY <1>4
      <4> QED BY <4>1, <4>2, <4>3
    <3>4. \A x \in Ids : o.proms[x].index = 0 <=> x = p \/ h.proms[x].index = 0
      BY <2>11, <2>12
    <3> QED BY <2>12, <3>1, <3>2, <3>3, <3>4 DEF Marked
  <2> QED BY <2>13 DEF o
<1> QED BY <1>8, <1>9

(* Observing a promise keeps the heap sound and changes no state.               *)
LEMMA Observed ==
    ASSUME NEW n \in 0 .. MaxPromises, NEW po, NEW h, HeapOk(h, n, po), NEW p \in 1 .. n
    PROVE  /\ HeapOk(Observe(h, p), n, po)
           /\ \A x \in Ids : /\ Observe(h, p).proms[x].state = h.proms[x].state
                             /\ Observe(h, p).proms[x].reason = h.proms[x].reason
<1> DEFINE g == Observe(h, p)
<1>1. h \in Heap /\ Linked(h.proms, h.unhandled) /\ p \in Ids /\ n \in Nat
  BY IdsAre DEF HeapOk
<1>2. Marked(h, p, g)
  BY <1>1, ObserveMarks
<1> HIDE DEF g
<1>3. g \in Heap /\ Linked(g.proms, g.unhandled)
  BY <1>2 DEF Marked
<1>4. Reported(g.proms)
  <2> SUFFICES ASSUME NEW x \in Ids PROVE g.proms[x].index # 0 <=> Unseen(g.proms[x])
    BY DEF Reported
  <2>1. h.proms[x].index # 0 <=> Unseen(h.proms[x])
    BY DEF HeapOk, Reported
  <2>2. CASE x = p
    BY <1>2, <2>2 DEF Marked, Unseen
  <2>3. CASE x # p
    <3>1. g.proms[x].index = 0 <=> h.proms[x].index = 0
      BY <1>2, <2>3 DEF Marked
    <3>2. Unseen(g.proms[x]) <=> Unseen(h.proms[x])
      <4>1. g.proms[x].state = h.proms[x].state /\ g.proms[x].observed = h.proms[x].observed
        BY <1>2, <2>3 DEF Marked
      <4> QED BY <4>1 DEF Unseen
    <3> QED BY <2>1, <3>1, <3>2
  <2> QED BY <2>2, <2>3
<1>5. \A x \in Ids : /\ g.proms[x].state = h.proms[x].state
                     /\ g.proms[x].reason = h.proms[x].reason
                     /\ g.proms[x].reactions = h.proms[x].reactions
  BY <1>2 DEF Marked
<1>6. Waiting(g.proms)
  BY <1>5 DEF HeapOk, Waiting
<1>7. Refs(g.proms, n, po)
  BY <1>5 DEF HeapOk, Refs
<1>8. Unused(g.proms, n)
  <2> SUFFICES ASSUME NEW x \in Ids, x > n PROVE g.proms[x] = Blank
    BY DEF Unused
  <2>1. h.proms[x] = Blank /\ x # p
    BY <1>1 DEF HeapOk, Unused
  <2>2. /\ g.proms[x].state = Blank.state /\ g.proms[x].reason = Blank.reason
        /\ g.proms[x].reactions = Blank.reactions
    BY <1>5, <2>1
  <2>3. g.proms[x].observed = Blank.observed
    BY <1>2, <2>1 DEF Marked
  <2>4. g.proms[x].index = Blank.index
    <3>1. h.proms[x].index = 0
      BY <2>1 DEF Blank
    <3>2. Blank.index = 0
      BY DEF Blank
    <3> QED BY <1>2, <3>1, <3>2 DEF Marked
  <2>5. g.proms[x] \in Promise /\ Blank \in Promise
    BY <1>3, HeapParts, BlankIsOne
  <2> QED BY <2>2, <2>3, <2>4, <2>5, SamePromise
<1>9. QueueOk(g.tasks, g.proms, n, po)
  <2>1. g.tasks = h.tasks
    BY <1>2 DEF Marked
  <2> SUFFICES ASSUME NEW k \in 1 .. Len(g.tasks)
               PROVE  Sound(g.tasks[k], n, po) /\ Due(g.proms, g.tasks[k])
    BY DEF QueueOk
  <2>2. Sound(g.tasks[k], n, po) /\ Due(h.proms, g.tasks[k])
    BY <2>1 DEF HeapOk, QueueOk
  <2>3. g.tasks[k].on \in 0 .. n
    BY <2>2 DEF Sound
  <2>4. g.tasks[k].on # 0 => g.tasks[k].on \in Ids
    BY <2>3, IdsAre
  <2>5. Due(g.proms, g.tasks[k])
    BY <1>5, <2>2, <2>4 DEF Due
  <2> QED BY <2>2, <2>5
<1>10. HeapOk(g, n, po)
  BY <1>3, <1>4, <1>6, <1>7, <1>8, <1>9 DEF HeapOk
<1> QED BY <1>5, <1>10 DEF g

(* What a reaction on the heap is.                                              *)
LEMMA ReactionsAre ==
    ASSUME NEW n \in 0 .. MaxPromises, NEW po, NEW h, HeapOk(h, n, po)
    PROVE  /\ \A x \in Ids : \A k \in 1 .. Len(h.proms[x].reactions) :
                 h.proms[x].reactions[k] \in Job /\ Sound(h.proms[x].reactions[k], n, po)
                 /\ h.proms[x].reactions[k].on = x
           /\ \A k \in 1 .. Len(h.tasks) :
                 h.tasks[k] \in Job /\ Sound(h.tasks[k], n, po) /\ Due(h.proms, h.tasks[k])
           /\ \A x \in Ids : h.proms[x].index = 0 <=> ~Unseen(h.proms[x])
           /\ \A x \in Ids : h.proms[x].state # "pending" => h.proms[x].reactions = <<>>
           /\ \A x \in Ids : h.proms[x].reactions \in Seq(Job) /\ Len(h.proms[x].reactions) \in Nat
           /\ h.tasks \in Seq(Job) /\ Len(h.tasks) \in Nat
<1>1. h \in Heap
  BY DEF HeapOk
<1>2. \A x \in Ids : h.proms[x].reactions \in Seq(Job)
  BY <1>1, HeapParts
<1>3. h.tasks \in Seq(Job)
  BY <1>1, HeapParts
<1>4. \A x \in Ids : \A k \in 1 .. Len(h.proms[x].reactions) : h.proms[x].reactions[k] \in Job
  BY <1>2, ElementOfSeq
<1>5. \A k \in 1 .. Len(h.tasks) : h.tasks[k] \in Job
  BY <1>3, ElementOfSeq
<1>6. \A x \in Ids : Len(h.proms[x].reactions) \in Nat
  BY <1>2, LenProperties
<1>7. Len(h.tasks) \in Nat
  BY <1>3, LenProperties
<1>8. /\ \A x \in Ids : h.proms[x].index = 0 <=> ~Unseen(h.proms[x])
      /\ \A x \in Ids : h.proms[x].state # "pending" => h.proms[x].reactions = <<>>
  BY DEF HeapOk, Reported, Waiting
<1>9. \A x \in Ids : \A k \in 1 .. Len(h.proms[x].reactions) :
         Sound(h.proms[x].reactions[k], n, po) /\ h.proms[x].reactions[k].on = x
  BY DEF HeapOk, Refs, Waiting
<1>10. \A k \in 1 .. Len(h.tasks) : Sound(h.tasks[k], n, po) /\ Due(h.proms, h.tasks[k])
  BY DEF HeapOk, QueueOk
<1> QED BY <1>2, <1>3, <1>4, <1>5, <1>6, <1>7, <1>8, <1>9, <1>10
-----------------------------------------------------------------------------
\* g is h after its queue, its reactions of p or its history were replaced.
SameList(h, g) ==
    /\ g.unhandled = h.unhandled
    /\ \A x \in Ids : /\ g.proms[x].state = h.proms[x].state
                      /\ g.proms[x].observed = h.proms[x].observed
                      /\ g.proms[x].index = h.proms[x].index

LEMMA ListKept ==
    ASSUME NEW h, NEW g, h \in Heap, SameList(h, g),
           Linked(h.proms, h.unhandled), Reported(h.proms)
    PROVE  Linked(g.proms, g.unhandled) /\ Reported(g.proms)
<1>1. h.unhandled \in Seq(Ids)
  BY HeapParts
<1>2. \A j \in 1 .. Len(h.unhandled) : h.unhandled[j] \in Ids
  BY <1>1, ElementOfSeq
<1>3. Linked(g.proms, g.unhandled)
  BY <1>2 DEF SameList, Linked
<1>4. Reported(g.proms)
  BY DEF SameList, Reported, Unseen
<1> QED BY <1>3, <1>4

(* Attaching a reaction to a pending promise.                                   *)
LEMMA Reacted ==
    ASSUME NEW n \in 0 .. MaxPromises, NEW po, NEW h, HeapOk(h, n, po), NEW p \in 1 .. n,
           h.proms[p].state = "pending", NEW r \in Job, Sound(r, n, po), r.on = p
    PROVE  HeapOk(React(h, p, r), n, po)
<1> DEFINE R == Append(h.proms[p].reactions, r)
           P == [h.proms EXCEPT ![p].reactions = R]
           g == React(h, p, r)
<1>1. h \in Heap /\ p \in Ids /\ n \in Nat
  BY IdsAre DEF HeapOk
<1>2. /\ h.proms \in [Ids -> Promise] /\ h.tasks \in Seq(Job)
      /\ h.unhandled \in Seq(Ids) /\ h.delivered \subseteq Ids
      /\ \A x \in Ids : h.proms[x] \in Promise
      /\ h.proms[p].reactions \in Seq(Job)
  BY <1>1, HeapParts
<1>3. /\ R \in Seq(Job) /\ Len(R) = Len(h.proms[p].reactions) + 1
      /\ \A k \in 1 .. Len(h.proms[p].reactions) : R[k] = h.proms[p].reactions[k]
      /\ R[Len(h.proms[p].reactions) + 1] = r
      /\ Len(h.proms[p].reactions) \in Nat
  BY <1>2, AppendProperties, LenProperties
<1>4. g = [h EXCEPT !.proms = P]
  BY DEF React
<1> HIDE DEF R
<1>5. ASSUME NEW x \in Ids
      PROVE  /\ P[x] \in Promise /\ P[x].state = h.proms[x].state
             /\ P[x].reason = h.proms[x].reason /\ P[x].observed = h.proms[x].observed
             /\ P[x].index = h.proms[x].index
             /\ P[x].reactions = IF x = p THEN R ELSE h.proms[x].reactions
             /\ x # p => P[x] = h.proms[x]
  <2> DEFINE d == h.proms[p]
             e == [d EXCEPT !.reactions = R]
  <2>1. d \in Promise
    BY <1>1, <1>2
  <2>2. P = [h.proms EXCEPT ![p] = e]
    OBVIOUS
  <2> HIDE DEF d
  <2>3. e \in Promise
    BY <1>3, <2>1 DEF Promise, Job
  <2>4. /\ e.state = d.state /\ e.reason = d.reason /\ e.observed = d.observed
        /\ e.index = d.index /\ e.reactions = R
    BY <2>1 DEF Promise
  <2> HIDE DEF e, P
  <2>5. P[x] = IF x = p THEN e ELSE h.proms[x]
    BY <1>1, <1>2, <2>2
  <2> QED BY <1>2, <2>3, <2>4, <2>5 DEF d
<1>6. P \in [Ids -> Promise]
  BY <1>2, <1>5
<1> HIDE DEF P
<1>7. /\ [h EXCEPT !.proms = P] \in Heap /\ [h EXCEPT !.proms = P].proms = P
      /\ [h EXCEPT !.proms = P].tasks = h.tasks
      /\ [h EXCEPT !.proms = P].unhandled = h.unhandled
  BY <1>1, <1>2, <1>6 DEF Heap
<1>8. g \in Heap /\ g.proms = P /\ g.tasks = h.tasks /\ g.unhandled = h.unhandled
  BY <1>4, <1>7
<1> HIDE DEF g
<1>9. Linked(g.proms, g.unhandled) /\ Reported(g.proms)
  <2>1. SameList(h, g)
    BY <1>5, <1>8 DEF SameList
  <2> QED BY <1>1, <2>1, ListKept DEF HeapOk
<1>10. Waiting(g.proms)
  <2> SUFFICES ASSUME NEW x \in Ids
               PROVE  /\ P[x].state # "pending" => P[x].reactions = <<>>
                      /\ \A k \in 1 .. Len(P[x].reactions) : P[x].reactions[k].on = x
    BY <1>8 DEF Waiting
  <2>1. CASE x = p
    <3>1. P[x].state = "pending" /\ P[x].reactions = R
      BY <1>5, <2>1
    <3>2. \A k \in 1 .. Len(R) : R[k].on = x
      <4> TAKE k \in 1 .. Len(R)
      <4>1. k \in 1 .. Len(h.proms[p].reactions) \/ k = Len(h.proms[p].reactions) + 1
        BY <1>3
      <4>2. CASE k \in 1 .. Len(h.proms[p].reactions)
        <5>1. R[k] = h.proms[p].reactions[k]
          BY <1>3, <4>2
        <5>2. h.proms[p].reactions[k].on = p
          BY <1>1, <4>2, ReactionsAre
        <5> QED BY <2>1, <5>1, <5>2
      <4>3. CASE k = Len(h.proms[p].reactions) + 1
        <5>1. R[k] = r
          BY <1>3, <4>3
        <5> QED BY <2>1, <5>1
      <4> QED BY <4>1, <4>2, <4>3
    <3> QED BY <3>1, <3>2
  <2>2. CASE x # p
    BY <1>5, <2>2, ReactionsAre
  <2> QED BY <2>1, <2>2
<1>11. Refs(g.proms, n, po)
  <2> SUFFICES ASSUME NEW x \in Ids, NEW k \in 1 .. Len(P[x].reactions)
               PROVE  Sound(P[x].reactions[k], n, po)
    BY <1>8 DEF Refs
  <2>1. CASE x = p
    <3>1. P[x].reactions = R
      BY <1>5, <2>1
    <3>2. k \in 1 .. Len(h.proms[p].reactions) \/ k = Len(h.proms[p].reactions) + 1
      BY <1>3, <3>1
    <3> QED BY <1>1, <1>3, <3>1, <3>2, ReactionsAre
  <2>2. CASE x # p
    BY <1>5, <2>2, ReactionsAre
  <2> QED BY <2>1, <2>2
<1>12. Unused(g.proms, n)
  BY <1>1, <1>5, <1>8 DEF HeapOk, Unused
<1>13. QueueOk(g.tasks, g.proms, n, po)
  <2> SUFFICES ASSUME NEW k \in 1 .. Len(h.tasks)
               PROVE  Sound(h.tasks[k], n, po) /\ Due(P, h.tasks[k])
    BY <1>8 DEF QueueOk
  <2>1. Sound(h.tasks[k], n, po) /\ Due(h.proms, h.tasks[k])
    BY ReactionsAre
  <2>2. h.tasks[k].on # 0 => h.tasks[k].on \in Ids
    BY <2>1, IdsAre DEF Sound
  <2> QED BY <1>5, <2>1, <2>2 DEF Due
<1>14. HeapOk(g, n, po)
  BY <1>8, <1>9, <1>10, <1>11, <1>12, <1>13 DEF HeapOk
<1> QED BY <1>14 DEF g

(* Replacing the queue and the history, when what is queued is sound and due.   *)
LEMMA Requeued ==
    ASSUME NEW n \in 0 .. MaxPromises, NEW po, NEW h, HeapOk(h, n, po), NEW g,
           g \in Heap, g.proms = h.proms, g.unhandled = h.unhandled,
           \A k \in 1 .. Len(g.tasks) : Sound(g.tasks[k], n, po) /\ Due(h.proms, g.tasks[k])
    PROVE  HeapOk(g, n, po)
  BY DEF HeapOk, QueueOk

LEMMA Enqueued ==
    ASSUME NEW n \in 0 .. MaxPromises, NEW po, NEW h, HeapOk(h, n, po),
           NEW r \in Job, Sound(r, n, po), Due(h.proms, r)
    PROVE  HeapOk(Enqueue(h, r), n, po)
<1> DEFINE T == Append(h.tasks, r)
           g == Enqueue(h, r)
<1>1. h.tasks \in Seq(Job) /\ Len(h.tasks) \in Nat /\ h \in Heap
  BY ReactionsAre DEF HeapOk
<1>2. /\ T \in Seq(Job) /\ Len(T) = Len(h.tasks) + 1 /\ T[Len(h.tasks) + 1] = r
      /\ \A k \in 1 .. Len(h.tasks) : T[k] = h.tasks[k]
  BY <1>1, AppendProperties
<1>3. g = [h EXCEPT !.tasks = T]
  BY DEF Enqueue
<1> HIDE DEF T
<1>4. /\ [h EXCEPT !.tasks = T] \in Heap /\ [h EXCEPT !.tasks = T].tasks = T
      /\ [h EXCEPT !.tasks = T].proms = h.proms
      /\ [h EXCEPT !.tasks = T].unhandled = h.unhandled
  BY <1>1, <1>2 DEF Heap
<1>5. g \in Heap /\ g.tasks = T /\ g.proms = h.proms /\ g.unhandled = h.unhandled
  BY <1>3, <1>4
<1>6. \A k \in 1 .. Len(T) : Sound(T[k], n, po) /\ Due(h.proms, T[k])
  <2> TAKE k \in 1 .. Len(T)
  <2>1. k \in 1 .. Len(h.tasks) \/ k = Len(h.tasks) + 1
    BY <1>1, <1>2
  <2>2. CASE k \in 1 .. Len(h.tasks)
    <3>1. T[k] = h.tasks[k]
      BY <1>2, <2>2
    <3> QED BY <2>2, <3>1, ReactionsAre
  <2>3. CASE k = Len(h.tasks) + 1
    <3>1. T[k] = r
      BY <1>2, <2>3
    <3> QED BY <3>1
  <2> QED BY <2>1, <2>2, <2>3
<1> HIDE DEF g
<1>7. HeapOk(g, n, po)
  BY <1>5, <1>6, Requeued
<1> QED BY <1>7 DEF g

LEMMA Took ==
    ASSUME NEW n \in 0 .. MaxPromises, NEW po, HeapOk(heap, n, po), heap.tasks # <<>>
    PROVE  /\ HeapOk(Taken, n, po) /\ Taken.proms = heap.proms
           /\ Task \in Job /\ Sound(Task, n, po) /\ Due(heap.proms, Task)
<1> DEFINE T == Tail(heap.tasks)
           g == Taken
<1>1. heap.tasks \in Seq(Job) /\ Len(heap.tasks) \in Nat /\ heap \in Heap
  BY ReactionsAre DEF HeapOk
<1>2. /\ T \in Seq(Job) /\ Len(T) = Len(heap.tasks) - 1 /\ Len(heap.tasks) > 0
      /\ \A k \in 1 .. Len(heap.tasks) - 1 : T[k] = heap.tasks[k + 1]
      /\ Task = heap.tasks[1]
  BY <1>1, Shortened DEF Task
<1>3. g = [heap EXCEPT !.tasks = T]
  BY DEF Taken
<1> HIDE DEF T
<1>4. /\ [heap EXCEPT !.tasks = T] \in Heap /\ [heap EXCEPT !.tasks = T].tasks = T
      /\ [heap EXCEPT !.tasks = T].proms = heap.proms
      /\ [heap EXCEPT !.tasks = T].unhandled = heap.unhandled
  BY <1>1, <1>2 DEF Heap
<1>5. g \in Heap /\ g.tasks = T /\ g.proms = heap.proms /\ g.unhandled = heap.unhandled
  BY <1>3, <1>4
<1>6. \A k \in 1 .. Len(T) : Sound(T[k], n, po) /\ Due(heap.proms, T[k])
  <2> TAKE k \in 1 .. Len(T)
  <2>1. k + 1 \in 1 .. Len(heap.tasks) /\ k \in 1 .. Len(heap.tasks) - 1
    BY <1>1, <1>2
  <2>2. T[k] = heap.tasks[k + 1]
    BY <1>2, <2>1
  <2>3. \A j \in 1 .. Len(heap.tasks) :
           Sound(heap.tasks[j], n, po) /\ Due(heap.proms, heap.tasks[j])
    BY ReactionsAre
  <2> QED BY <2>1, <2>2, <2>3
<1>7. Task \in Job /\ Sound(Task, n, po) /\ Due(heap.proms, Task)
  <2>1. 1 \in 1 .. Len(heap.tasks)
    BY <1>1, <1>2
  <2> QED BY <1>2, <2>1, ReactionsAre
<1> HIDE DEF g
<1>8. HeapOk(g, n, po)
  BY <1>5, <1>6, Requeued
<1> QED BY <1>5, <1>7, <1>8 DEF g

\* g is h, up to the history.
SameBut(h, g) ==
    /\ g \in Heap
    /\ g.proms = h.proms /\ g.unhandled = h.unhandled /\ g.tasks = h.tasks

LEMMA HistoryAside ==
    ASSUME NEW n \in 0 .. MaxPromises, NEW po, NEW h, HeapOk(h, n, po), NEW g, SameBut(h, g)
    PROVE  HeapOk(g, n, po)
  BY DEF HeapOk, SameBut

LEMMA Delivered ==
    ASSUME NEW n \in 0 .. MaxPromises, NEW po, NEW h, HeapOk(h, n, po), NEW q \in 0 .. n
    PROVE  HeapOk(Deliver(h, q), n, po) /\ Deliver(h, q).proms = h.proms
<1>1. h \in Heap
  BY DEF HeapOk
<1>2. SameBut(h, Deliver(h, q))
  <2>1. CASE q = 0
    BY <1>1, <2>1 DEF Deliver, SameBut
  <2>2. CASE q # 0
    <3>1. h.delivered \cup {q} \subseteq Ids
      BY <1>1, <2>2, HeapParts, IdsAre
    <3> DEFINE d == h.delivered \cup {q}
    <3>2. Deliver(h, q) = [h EXCEPT !.delivered = d]
      BY <2>2 DEF Deliver
    <3> HIDE DEF d
    <3>3. SameBut(h, [h EXCEPT !.delivered = d])
      BY <1>1, <3>1 DEF SameBut, Heap, d
    <3> QED BY <3>2, <3>3
  <2> QED BY <2>1, <2>2
<1> QED BY <1>2, HistoryAside DEF SameBut

LEMMA Forwarded ==
    ASSUME NEW n \in 0 .. MaxPromises, NEW po, NEW h, HeapOk(h, n, po),
           NEW q \in 0 .. n, q # 0, NEW p
    PROVE  HeapOk(Forward(h, q, p), n, po) /\ Forward(h, q, p).proms = h.proms
<1>1. Forward(h, q, p) = Deliver(h, q) \/ Forward(h, q, p) = h
  BY DEF Forward, Deliver
<1> QED BY <1>1, Delivered
-----------------------------------------------------------------------------
(* Promises and calls that are added later disturb nothing.                     *)
LEMMA Grown ==
    ASSUME NEW n \in 0 .. MaxPromises, NEW m \in n .. MaxPromises, NEW po, NEW qo,
           \A c \in Coroutines : po[c] \in 1 .. n => qo[c] \in 1 .. m
    PROVE  /\ \A h : HeapOk(h, n, po) => HeapOk(h, m, qo)
           /\ \A r : Sound(r, n, po) => Sound(r, m, qo)
           /\ Frames(n, po) \subseteq Frames(m, qo)
<1>1. n \in Nat /\ m \in Nat /\ n <= m
  BY IdsAre
<1>2. \A r : Sound(r, n, po) => Sound(r, m, qo)
  BY <1>1 DEF Sound
<1>3. ASSUME NEW h, HeapOk(h, n, po) PROVE HeapOk(h, m, qo)
  <2>1. Refs(h.proms, m, qo)
    BY <1>2, <1>3 DEF HeapOk, Refs
  <2>2. Unused(h.proms, m)
    <3>1. \A x \in Ids : x > m => x > n
      BY <1>1, IdsAre
    <3> QED BY <1>3, <3>1 DEF HeapOk, Unused
  <2>3. QueueOk(h.tasks, h.proms, m, qo)
    BY <1>2, <1>3 DEF HeapOk, QueueOk
  <2> QED BY <1>3, <2>1, <2>2, <2>3 DEF HeapOk
<1>4. \A f : Running(f, n, po) => Running(f, m, qo)
  BY <1>1 DEF Running
<1>5. Frames(n, po) \subseteq Frames(m, qo)
  BY <1>4 DEF Frames
<1> QED BY <1>2, <1>3, <1>5

(* A new promise takes a place that was blank.                                  *)
LEMMA Allocated ==
    ASSUME next \in 0 .. MaxPromises, CanAlloc, NEW po, NEW h, HeapOk(h, next, po)
    PROVE  /\ Alloc(h) = h
           /\ Fresh \in 1 .. MaxPromises /\ Fresh \in next .. MaxPromises
           /\ 1 .. next \subseteq 1 .. Fresh
<1>1. /\ next + 1 \in 1 .. MaxPromises /\ next + 1 \in next .. MaxPromises
      /\ 1 .. next \subseteq 1 .. (next + 1) /\ next + 1 \in Ids /\ next + 1 > next
  BY IdsAre DEF CanAlloc
<1>2. h.proms[next + 1] = Blank
  BY <1>1 DEF HeapOk, Unused
<1>3. h \in Heap
  BY DEF HeapOk
<1>4. h.proms \in [Ids -> Promise]
  BY <1>3, HeapParts
<1>5. [h.proms EXCEPT ![next + 1] = Blank] = h.proms
  BY <1>2, <1>4
<1>6. [h EXCEPT !.proms = h.proms] = h
  BY <1>3 DEF Heap
<1>7. Alloc(h) = [h EXCEPT !.proms = [h.proms EXCEPT ![next + 1] = Blank]]
  BY DEF Alloc, Fresh
<1> QED BY <1>1, <1>5, <1>6, <1>7 DEF Fresh
-----------------------------------------------------------------------------
\* g is h after p was settled: its reactions moved to the queue.
Settled(h, p, state, reason, g) ==
    /\ g \in Heap /\ g.delivered = h.delivered
    /\ g.tasks = h.tasks \o h.proms[p].reactions
    /\ \A x \in Ids : x # p => g.proms[x] = h.proms[x]
    /\ g.proms[p].state = state /\ g.proms[p].reactions = <<>>
    /\ g.proms[p].observed = h.proms[p].observed
    /\ IF state = "rejected" /\ ~h.proms[p].observed
       THEN g.unhandled = Append(h.unhandled, p) /\ g.proms[p].index = Len(h.unhandled) + 1
       ELSE g.unhandled = h.unhandled /\ g.proms[p].index = 0

LEMMA SettleMoves ==
    ASSUME NEW n \in 0 .. MaxPromises, NEW po, NEW h, HeapOk(h, n, po), NEW p \in 1 .. n,
           h.proms[p].state = "pending",
           NEW state \in {"fulfilled", "rejected"}, NEW reason \in 0 .. MaxPromises
    PROVE  Settled(h, p, state, reason, Settle(h, p, state, reason))
<1> DEFINE P == [h.proms EXCEPT ![p].state = state, ![p].reason = reason]
           f == [h EXCEPT !.proms[p].state = state, !.proms[p].reason = reason]
           L == h.unhandled
           T == h.tasks \o h.proms[p].reactions
           e == IF state = "rejected" THEN List(f, p) ELSE f
           new == state = "rejected" /\ ~h.proms[p].observed
           i == IF new THEN Len(L) + 1 ELSE 0
           U == IF new THEN Append(L, p) ELSE L
           g == Settle(h, p, state, reason)
<1>1. h \in Heap /\ p \in Ids
  BY IdsAre DEF HeapOk
<1>2. /\ h.proms \in [Ids -> Promise] /\ h.tasks \in Seq(Job)
      /\ h.unhandled \in Seq(Ids) /\ h.delivered \subseteq Ids
      /\ \A x \in Ids : h.proms[x] \in Promise
      /\ h.proms[p].reactions \in Seq(Job) /\ h.proms[p].observed \in BOOLEAN
  BY <1>1, HeapParts
<1>3. h.proms[p].index = 0
  BY <1>1, ReactionsAre DEF Unseen
<1>4. Len(L) + 1 \in 0 .. MaxPromises /\ Len(L) + 1 # 0 /\ 0 \in 0 .. MaxPromises
  <2>1. Len(L) + 1 \in 1 .. MaxPromises
    BY <1>1, <1>2, <1>3, Listed DEF HeapOk
  <2> QED BY <2>1, IdsAre
<1>5. f = [h EXCEPT !.proms = P]
  BY <1>1, <1>2 DEF Heap, Promise
<1>6. f.proms = P /\ f.unhandled = L /\ f.tasks = h.tasks /\ f.delivered = h.delivered
  <2> HIDE DEF P, f
  <2> QED BY <1>1, <1>5 DEF Heap
<1>7. P \in [Ids -> Promise] /\ P[p].observed = h.proms[p].observed
      /\ P[p].index = 0 /\ P[p].state = state /\ P[p].reason = reason
      /\ \A x \in Ids : x # p => P[x] = h.proms[x]
  <2>1. P[p] \in Promise /\ P[p].observed = h.proms[p].observed
        /\ P[p].index = 0 /\ P[p].state = state /\ P[p].reason = reason
    <3> DEFINE d == h.proms[p]
               settled == [d EXCEPT !.state = state, !.reason = reason]
    <3>1. d \in Promise
      BY <1>1, <1>2
    <3>2. P[p] = settled
      BY <1>1, <1>2
    <3> HIDE DEF d
    <3>3. settled \in Promise
      BY <3>1 DEF Promise
    <3>4. /\ settled.observed = d.observed /\ settled.index = d.index
          /\ settled.state = state /\ settled.reason = reason
      BY <3>1 DEF Promise
    <3> HIDE DEF settled, P
    <3> QED BY <1>3, <3>2, <3>3, <3>4 DEF d
  <2>2. \A x \in Ids : x # p => P[x] = h.proms[x]
    BY <1>2
  <2>3. P = [x \in Ids |-> P[x]]
    BY <1>2
  <2> HIDE DEF P
  <2> QED BY <1>1, <1>2, <2>1, <2>2, <2>3
<1>8. e.tasks = h.tasks /\ e.delivered = h.delivered /\ e.unhandled = U
      /\ e \in Heap
      /\ (\A x \in Ids : x # p => e.proms[x] = h.proms[x])
      /\ e.proms[p].state = state /\ e.proms[p].observed = h.proms[p].observed
      /\ e.proms[p].index = i
  <2>1. CASE new
    <3> DEFINE Q == [P EXCEPT ![p].index = Len(L) + 1]
    <3>1. e = [f EXCEPT !.unhandled = Append(@, p), !.proms[p].index = Len(L) + 1]
      BY <1>6, <1>7, <2>1 DEF List
    <3>2. @ = [f EXCEPT !.unhandled = Append(L, p), !.proms = Q]
      <4> HIDE DEF P, f
      <4> QED BY <1>1, <1>5, <1>6 DEF Heap
    <3>3. Append(L, p) \in Seq(Ids)
      BY <1>1, <1>2, AppendProperties
    <3>4. Q \in [Ids -> Promise] /\ Q[p].index = Len(L) + 1 /\ Q[p].state = state
          /\ Q[p].observed = h.proms[p].observed
          /\ \A x \in Ids : x # p => Q[x] = h.proms[x]
      <4> HIDE DEF P, L
      <4>1. P[p] \in Promise
        BY <1>1, <1>7
      <4>2. Q[p] \in Promise /\ Q[p].index = Len(L) + 1 /\ Q[p].state = P[p].state
            /\ Q[p].observed = P[p].observed
        BY <1>1, <1>4, <1>7, <4>1 DEF Promise
      <4>3. \A x \in Ids : x # p => Q[x] = P[x]
        BY <1>7
      <4>4. Q = [x \in Ids |-> Q[x]]
        BY <1>7
      <4> HIDE DEF Q
      <4> QED BY <1>1, <1>7, <4>2, <4>3, <4>4
    <3> DEFINE A == Append(L, p)
               d == [f EXCEPT !.unhandled = A, !.proms = Q]
    <3> HIDE DEF P, f, Q, A
    <3>5. /\ d \in Heap /\ d.tasks = h.tasks /\ d.delivered = h.delivered
          /\ d.unhandled = A /\ d.proms = Q
      BY <1>1, <1>2, <1>5, <3>3, <3>4 DEF Heap, A
    <3>6. e = d
      BY <3>1, <3>2 DEF A
    <3>7. i = Len(L) + 1 /\ U = A
      BY <2>1 DEF A
    <3> HIDE DEF d, e, i, U, new, L
    <3> QED BY <3>4, <3>5, <3>6, <3>7
  <2>2. CASE ~new
    <3>1. e = f
      BY <1>6, <1>7, <2>2 DEF List
    <3>2. i = 0 /\ U = L
      BY <2>2
    <3> HIDE DEF P, f, e, i, U, new
    <3>3. f \in Heap
      BY <1>1, <1>2, <1>5, <1>7 DEF Heap
    <3> QED BY <1>6, <1>7, <3>1, <3>2, <3>3
  <2> QED BY <2>1, <2>2
<1>9. g = [e EXCEPT !.tasks = @ \o h.proms[p].reactions, !.proms[p].reactions = <<>>]
  BY DEF Settle
<1>10. T \in Seq(Job)
  BY <1>2, ConcatProperties
<1>11. g = [e EXCEPT !.tasks = T, !.proms = [e.proms EXCEPT ![p].reactions = <<>>]]
  <2> HIDE DEF e
  <2> QED BY <1>8, <1>9 DEF Heap
<1> HIDE DEF e, T
<1> DEFINE Q == [e.proms EXCEPT ![p].reactions = <<>>]
<1>12. e.proms \in [Ids -> Promise] /\ e.proms[p] \in Promise /\ <<>> \in Seq(Job)
  <2>1. e.proms \in [Ids -> Promise]
    BY <1>8, HeapParts
  <2>2. <<>> \in Seq(Job)
    OBVIOUS
  <2> QED BY <1>1, <2>1, <2>2
<1>13. Q \in [Ids -> Promise] /\ Q[p].index = i /\ Q[p].state = state
       /\ Q[p].observed = h.proms[p].observed /\ Q[p].reactions = <<>>
       /\ \A x \in Ids : x # p => Q[x] = h.proms[x]
  <2> HIDE DEF i
  <2>1. Q[p] \in Promise /\ Q[p].index = e.proms[p].index /\ Q[p].state = e.proms[p].state
        /\ Q[p].observed = e.proms[p].observed /\ Q[p].reactions = <<>>
    BY <1>1, <1>12 DEF Promise, Job
  <2>2. \A x \in Ids : x # p => Q[x] = e.proms[x]
    BY <1>12
  <2>3. Q = [x \in Ids |-> Q[x]]
    BY <1>12
  <2> HIDE DEF Q
  <2> QED BY <1>1, <1>8, <1>12, <2>1, <2>2, <2>3
<1> DEFINE d == [e EXCEPT !.tasks = T, !.proms = Q]
<1> HIDE DEF Q
<1>14. d \in Heap /\ d.tasks = T /\ d.unhandled = e.unhandled /\ d.proms = Q
       /\ d.delivered = h.delivered
  BY <1>8, <1>10, <1>13 DEF Heap
<1>15. g = d
  BY <1>11 DEF Q
<1>16. IF new THEN e.unhandled = Append(L, p) /\ i = Len(L) + 1
              ELSE e.unhandled = L /\ i = 0
  BY <1>8
<1> HIDE DEF d, g, P, f, i, U, L
<1>17. Settled(h, p, state, reason, g)
  BY <1>13, <1>14, <1>15, <1>16 DEF Settled, T, L
<1> QED BY <1>17 DEF g

(* Settling a promise keeps the heap sound.                                     *)
LEMMA SettleKeeps ==
    ASSUME NEW n \in 0 .. MaxPromises, NEW po, NEW h, HeapOk(h, n, po), NEW p \in 1 .. n,
           NEW state \in {"fulfilled", "rejected"}, NEW reason \in 0 .. MaxPromises
    PROVE  HeapOk(Settle(h, p, state, reason), n, po)
<1> DEFINE g == Settle(h, p, state, reason)
           L == h.unhandled
           R == h.proms[p].reactions
           new == state = "rejected" /\ ~h.proms[p].observed
<1>0. CASE h.proms[p].state # "pending"
  <2>1. g = h
    BY <1>0 DEF Settle
  <2> QED BY <2>1
<1> SUFFICES ASSUME h.proms[p].state = "pending" PROVE HeapOk(g, n, po)
  BY <1>0
<1>1. h \in Heap /\ p \in Ids /\ n \in Nat
  BY IdsAre DEF HeapOk
<1>2. /\ L \in Seq(Ids) /\ Len(L) \in Nat /\ h.tasks \in Seq(Job) /\ Len(h.tasks) \in Nat
      /\ R \in Seq(Job) /\ Len(R) \in Nat
      /\ \A j \in 1 .. Len(L) : L[j] \in Ids
  <2>1. L \in Seq(Ids) /\ h.tasks \in Seq(Job) /\ R \in Seq(Job)
    BY <1>1, HeapParts
  <2> HIDE DEF L, R
  <2> QED BY <2>1, LenProperties, ElementOfSeq
<1>3. Settled(h, p, state, reason, g)
  BY SettleMoves
<1> HIDE DEF g
<1>4. /\ g \in Heap /\ g.tasks = h.tasks \o R
      /\ \A x \in Ids : x # p => g.proms[x] = h.proms[x]
      /\ g.proms[p].state = state /\ g.proms[p].reactions = <<>>
      /\ g.proms[p].observed = h.proms[p].observed
  BY <1>3 DEF Settled
<1>5. /\ new => g.unhandled = Append(L, p) /\ g.proms[p].index = Len(L) + 1
      /\ ~new => g.unhandled = L /\ g.proms[p].index = 0
  BY <1>3 DEF Settled
<1>6. h.proms[p].index = 0
  BY <1>1, ReactionsAre DEF Unseen
<1>7. \A j \in 1 .. Len(L) : L[j] # p /\ h.proms[L[j]].index = j
  <2> TAKE j \in 1 .. Len(L)
  <2>1. h.proms[L[j]].index = j /\ j # 0
    BY DEF HeapOk, Linked
  <2> QED BY <1>6, <2>1
<1>8. \A x \in Ids : h.proms[x].index # 0 => /\ h.proms[x].index <= Len(L)
                                             /\ L[h.proms[x].index] = x
                                             /\ h.proms[x].index \in 1 .. Len(L)
  <2> TAKE x \in Ids
  <2>1. h.proms[x].index \in Nat
    BY <1>1, HeapParts
  <2>2. h.proms[x].index # 0 => h.proms[x].index <= Len(L) /\ L[h.proms[x].index] = x
    BY DEF HeapOk, Linked
  <2> QED BY <1>2, <2>1, <2>2
<1>9. Linked(g.proms, g.unhandled)
  <2>1. CASE new
    <3> DEFINE A == Append(L, p)
    <3>1. /\ Len(A) = Len(L) + 1 /\ A[Len(L) + 1] = p
          /\ \A j \in 1 .. Len(L) : A[j] = L[j]
      BY <1>1, <1>2, AppendProperties
    <3>2. g.unhandled = A /\ g.proms[p].index = Len(L) + 1
      BY <1>5, <2>1
    <3> HIDE DEF A, L
    <3>3. \A x \in Ids : g.proms[x].index # 0 =>
             g.proms[x].index <= Len(A) /\ A[g.proms[x].index] = x
      <4> TAKE x \in Ids
      <4>1. CASE x = p
        BY <1>2, <3>1, <3>2, <4>1
      <4>2. CASE x # p
        <5> DEFINE j == h.proms[x].index
        <5>1. g.proms[x].index = j
          BY <1>4, <4>2
        <5>2. j # 0 => j \in 1 .. Len(L) /\ L[j] = x
          BY <1>8
        <5> HIDE DEF j
        <5>3. j # 0 => j <= Len(A) /\ A[j] = x
          BY <1>2, <3>1, <5>2
        <5> QED BY <5>1, <5>3
      <4> QED BY <4>1, <4>2
    <3>4. \A j \in 1 .. Len(A) : g.proms[A[j]].index = j
      <4> TAKE j \in 1 .. Len(A)
      <4>1. j \in 1 .. Len(L) \/ j = Len(L) + 1
        BY <1>2, <3>1
      <4>2. CASE j \in 1 .. Len(L)
        <5>1. A[j] = L[j] /\ L[j] # p /\ L[j] \in Ids /\ h.proms[L[j]].index = j
          BY <1>2, <1>7, <3>1, <4>2
        <5> QED BY <1>4, <5>1
      <4>3. CASE j = Len(L) + 1
        BY <3>1, <3>2, <4>3
      <4> QED BY <4>1, <4>2, <4>3
    <3> QED BY <3>2, <3>3, <3>4 DEF Linked
  <2>2. CASE ~new
    <3>1. g.unhandled = L /\ g.proms[p].index = 0
      BY <1>5, <2>2
    <3> HIDE DEF L
    <3>2. \A x \in Ids : g.proms[x].index = h.proms[x].index
      BY <1>4, <1>6, <3>1
    <3> QED BY <1>2, <1>7, <1>8, <3>1, <3>2 DEF Linked
  <2> QED BY <2>1, <2>2
<1>10. Reported(g.proms)
  <2> SUFFICES ASSUME NEW x \in Ids PROVE g.proms[x].index # 0 <=> Unseen(g.proms[x])
    BY DEF Reported
  <2>1. CASE x # p
    <3>1. h.proms[x].index # 0 <=> Unseen(h.proms[x])
      BY ReactionsAre
    <3> QED BY <1>4, <2>1, <3>1
  <2>2. CASE x = p
    <3>1. Unseen(g.proms[p]) <=> new
      BY <1>4 DEF Unseen
    <3>2. Len(L) + 1 # 0
      BY <1>2
    <3> HIDE DEF new, L
    <3> QED BY <1>5, <2>2, <3>1, <3>2
  <2> QED BY <2>1, <2>2
<1>11. Waiting(g.proms)
  <2> SUFFICES ASSUME NEW x \in Ids
               PROVE  /\ g.proms[x].state # "pending" => g.proms[x].reactions = <<>>
                      /\ \A k \in 1 .. Len(g.proms[x].reactions) : g.proms[x].reactions[k].on = x
    BY DEF Waiting
  <2>1. CASE x # p
    <3>1. /\ h.proms[x].state # "pending" => h.proms[x].reactions = <<>>
          /\ \A k \in 1 .. Len(h.proms[x].reactions) : h.proms[x].reactions[k].on = x
      BY DEF HeapOk, Waiting
    <3>2. g.proms[x] = h.proms[x]
      BY <1>4, <2>1
    <3> QED BY <3>1, <3>2
  <2>2. CASE x = p
    <3>1. Len(<<>>) = 0
      OBVIOUS
    <3>2. g.proms[x].reactions = <<>> /\ Len(g.proms[x].reactions) = 0
      BY <1>4, <2>2, <3>1
    <3>3. \A k \in 1 .. 0 : FALSE
      OBVIOUS
    <3> QED BY <3>2, <3>3
  <2> QED BY <2>1, <2>2
<1>12. Refs(g.proms, n, po)
  <2> SUFFICES ASSUME NEW x \in Ids, NEW k \in 1 .. Len(g.proms[x].reactions)
               PROVE  Sound(g.proms[x].reactions[k], n, po)
    BY DEF Refs
  <2>1. CASE x # p
    <3>1. g.proms[x] = h.proms[x]
      BY <1>4, <2>1
    <3> QED BY <3>1 DEF HeapOk, Refs
  <2>2. CASE x = p
    <3>1. Len(<<>>) = 0
      OBVIOUS
    <3>2. Len(g.proms[x].reactions) = 0
      BY <1>4, <2>2, <3>1
    <3> QED BY <3>2
  <2> QED BY <2>1, <2>2
<1>13. Unused(g.proms, n)
  <2>1. \A x \in Ids : x > n => x # p
    BY <1>1
  <2> QED BY <1>4, <2>1 DEF HeapOk, Unused
<1>14. QueueOk(g.tasks, g.proms, n, po)
  <2> DEFINE T == h.tasks \o R
  <2>1. /\ Len(T) = Len(h.tasks) + Len(R)
        /\ \A k \in 1 .. Len(h.tasks) + Len(R) :
              T[k] = IF k <= Len(h.tasks) THEN h.tasks[k] ELSE R[k - Len(h.tasks)]
    <3> HIDE DEF R
    <3> QED BY <1>2, ConcatProperties
  <2> SUFFICES ASSUME NEW k \in 1 .. Len(T)
               PROVE  Sound(T[k], n, po) /\ Due(g.proms, T[k])
    BY <1>4 DEF QueueOk
  <2> HIDE DEF T, R
  <2>5. k \in 1 .. Len(h.tasks) + Len(R)
    BY <2>1
  <2>2. CASE k <= Len(h.tasks)
    <3>1. T[k] = h.tasks[k] /\ k \in 1 .. Len(h.tasks)
      BY <1>2, <2>1, <2>2, <2>5
    <3>2. Sound(T[k], n, po) /\ Due(h.proms, T[k])
      BY <3>1, ReactionsAre
    <3>3. T[k].on # 0 => T[k].on \in Ids
      BY <3>2, IdsAre DEF Sound
    <3>4. T[k].on # 0 => T[k].on # p
      BY <3>2 DEF Due
    <3> QED BY <1>4, <3>2, <3>3, <3>4 DEF Due
  <2>3. CASE ~(k <= Len(h.tasks))
    <3> DEFINE j == k - Len(h.tasks)
    <3>1. T[k] = R[j] /\ j \in 1 .. Len(R)
      BY <1>2, <2>1, <2>3, <2>5
    <3> HIDE DEF j
    <3>2. Sound(R[j], n, po) /\ R[j].on = p
      BY <1>1, <3>1, ReactionsAre DEF R
    <3>3. Due(g.proms, R[j])
      BY <1>4, <3>2 DEF Due
    <3> QED BY <3>1, <3>2, <3>3
  <2> QED BY <2>2, <2>3
<1>15. HeapOk(g, n, po)
  BY <1>4, <1>9, <1>10, <1>11, <1>12, <1>13, <1>14 DEF HeapOk
<1> QED BY <1>15 DEF g

(* Resolving with a value or with another promise.                              *)
LEMMA Resolved ==
    ASSUME NEW n \in 0 .. MaxPromises, NEW po, NEW h, HeapOk(h, n, po),
           NEW p \in 1 .. n, NEW q \in 0 .. n
    PROVE  HeapOk(ResolveInto(h, p, q), n, po)
<1> DEFINE seen == Observe(h, q)
<1>0. 0 \in 0 .. MaxPromises /\ n \in Nat /\ 1 .. n \subseteq Ids /\ p \in 0 .. MaxPromises
  BY IdsAre
<1>1. CASE q = 0
  <2>1. ResolveInto(h, p, q) = Settle(h, p, "fulfilled", 0)
    BY <1>1 DEF ResolveInto
  <2> QED BY <1>0, <2>1, SettleKeeps
<1>2. CASE q # 0
  <2>1. q \in 1 .. n /\ q \in Ids
    BY <1>0, <1>2
  <2>2. HeapOk(seen, n, po)
    BY <2>1, Observed
  <2> HIDE DEF seen
  <2>3. CASE seen.proms[q].state = "pending"
    <3> DEFINE r == Reaction("follow", q, FALSE, FALSE, p, NoCo)
    <3>1. r \in Job /\ Sound(r, n, po) /\ r.on = q
      <4>1. q \in 0 .. MaxPromises /\ NoCo \in Coroutines \cup {NoCo}
        BY <1>0, IdsAre
      <4> QED BY <1>0, <1>2, <4>1 DEF Reaction, Job, Sound
    <3>2. ResolveInto(h, p, q) = React(seen, q, r)
      BY <1>2, <2>3 DEF ResolveInto, seen
    <3> HIDE DEF r
    <3> QED BY <2>1, <2>2, <2>3, <3>1, <3>2, Reacted
  <2>4. CASE seen.proms[q].state # "pending"
    <3> DEFINE g == Forward(seen, q, p)
               state == seen.proms[q].state
               reason == seen.proms[q].reason
    <3>1. HeapOk(g, n, po)
      BY <1>2, <2>2, Forwarded
    <3>2. state \in {"fulfilled", "rejected"} /\ reason \in 0 .. MaxPromises
      <4>1. seen \in Heap
        BY <2>2 DEF HeapOk
      <4> QED BY <2>1, <2>4, <4>1, HeapParts
    <3>3. ResolveInto(h, p, q) = Settle(g, p, state, reason)
      BY <1>2, <2>4 DEF ResolveInto, seen
    <3> HIDE DEF g, state, reason
    <3> QED BY <3>1, <3>2, <3>3, SettleKeeps
  <2> QED BY <2>3, <2>4
<1> QED BY <1>1, <1>2
-----------------------------------------------------------------------------
LEMMA Parts ==
    ASSUME IInv
    PROVE  /\ next \in 0 .. MaxPromises /\ next \in Nat /\ open \subseteq 1 .. next
           /\ 1 .. next \subseteq Ids /\ Known = 1 .. next
           /\ HeapOk(heap, next, promiseOf) /\ heap \in Heap
           /\ stack \in Seq(Frames(next, promiseOf))
<1>1. /\ next \in 0 .. MaxPromises /\ open \subseteq 1 .. next
      /\ HeapOk(heap, next, promiseOf) /\ stack \in Seq(Frames(next, promiseOf))
  BY DEF IInv, Others
<1>2. next \in Nat /\ 1 .. next \subseteq Ids
  BY <1>1, IdsAre
<1> QED BY <1>1, <1>2 DEF HeapOk, Known

(* The innermost activation and the activations below it.                       *)
LEMMA Innermost ==
    ASSUME IInv, stack # <<>>
    PROVE  /\ Head(stack) \in Frames(next, promiseOf)
           /\ Running(Head(stack), next, promiseOf)
           /\ Tail(stack) \in Seq(Frames(next, promiseOf))
<1>1. stack \in Seq(Frames(next, promiseOf))
  BY Parts
<1>2. Head(stack) \in Frames(next, promiseOf) /\ Tail(stack) \in Seq(Frames(next, promiseOf))
  BY <1>1, Shortened
<1> QED BY <1>2 DEF Frames

(* Entering an activation.                                                      *)
LEMMA Entered ==
    ASSUME NEW n \in 0 .. MaxPromises, NEW po, NEW s \in Seq(Frames(n, po)),
           NEW kind \in {"script", "co", "handler", "block"}, NEW p \in 0 .. n,
           NEW c \in Coroutines \cup {NoCo},
           kind \in {"handler", "block"} => p # 0,
           kind = "co" => c \in Coroutines /\ po[c] \in 1 .. n
    PROVE  <<Frame(kind, p, c)>> \o s \in Seq(Frames(n, po))
<1>1. p \in 0 .. MaxPromises
  BY IdsAre
<1>2. Frame(kind, p, c) \in Frames(n, po)
  BY <1>1 DEF Frame, Frames, Running, Activations
<1> QED BY <1>2, Pushed

LEMMA NewPromiseKeeps == ASSUME IInv, NewPromise PROVE IInv'
<1>1. /\ heap' = Alloc(heap) /\ next' = Fresh /\ open' = open \cup {Fresh} /\ CanAlloc
      /\ UNCHANGED <<co, promiseOf, awaits, stack, host, status>>
  BY DEF NewPromise
<1>2. /\ heap' = heap /\ Fresh \in 1 .. MaxPromises /\ Fresh \in next .. MaxPromises
      /\ 1 .. next \subseteq 1 .. Fresh
  BY <1>1, Parts, Allocated
<1>3. HeapOk(heap, Fresh, promiseOf) /\ Frames(next, promiseOf) \subseteq Frames(Fresh, promiseOf)
  BY <1>2, Parts, Grown
<1>4. stack \in Seq(Frames(Fresh, promiseOf))
  BY <1>3, Parts, SeqMonotonic
<1>5. Others'
  <2>1. Fresh \in 0 .. MaxPromises /\ 0 .. next \subseteq 0 .. Fresh /\ Fresh \in 1 .. Fresh
    BY <1>2, Parts
  <2> QED BY <1>1, <1>2, <2>1 DEF IInv, Others
<1> QED BY <1>1, <1>2, <1>3, <1>4, <1>5 DEF IInv

(* Actions that allocate nothing and keep the activations.                      *)
LEMMA QuietKeeps ==
    ASSUME IInv, UNCHANGED <<next, promiseOf>>, open' \subseteq open,
           co' \in [Coroutines -> {"idle", "active", "waiting", "done"}],
           awaits' \in [Coroutines -> 0 .. next], status' \in {"run", "exit", "crash"},
           HeapOk(heap', next, promiseOf), stack' \in Seq(Frames(next, promiseOf))
    PROVE  IInv'
<1>1. Others'
  BY DEF IInv, Others
<1> QED BY <1>1 DEF IInv

LEMMA Calls ==
    ASSUME IInv
    PROVE  /\ co \in [Coroutines -> {"idle", "active", "waiting", "done"}]
           /\ awaits \in [Coroutines -> 0 .. next] /\ status \in {"run", "exit", "crash"}
           /\ promiseOf \in [Coroutines -> 0 .. next] /\ open \subseteq open
  BY DEF IInv, Others

LEMMA ResolveKeeps ==
    ASSUME IInv, NEW p \in open, NEW q \in {0} \cup Known, Resolve(p, q)
    PROVE  IInv'
<1>1. /\ heap' = ResolveInto(heap, p, q) /\ open' \subseteq open
      /\ UNCHANGED <<next, co, promiseOf, awaits, stack, host, status>>
  BY DEF Resolve
<1>2. p \in 1 .. next /\ q \in 0 .. next
  BY Parts
<1>3. HeapOk(heap', next, promiseOf)
  BY <1>1, <1>2, Parts, Resolved
<1> QED BY <1>1, <1>3, Parts, Calls, QuietKeeps

LEMMA RejectKeeps == ASSUME IInv, NEW p \in open, Reject(p) PROVE IInv'
<1>1. /\ heap' = Settle(heap, p, "rejected", p) /\ open' \subseteq open
      /\ UNCHANGED <<next, co, promiseOf, awaits, stack, host, status>>
  BY DEF Reject
<1>2. p \in 1 .. next /\ p \in 0 .. MaxPromises
  BY Parts, IdsAre
<1>3. HeapOk(heap', next, promiseOf)
  BY <1>1, <1>2, Parts, SettleKeeps
<1> QED BY <1>1, <1>3, Parts, Calls, QuietKeeps

LEMMA ThenKeeps ==
    ASSUME IInv, NEW p \in Known, NEW f \in BOOLEAN, NEW r \in BOOLEAN, Then(p, f, r)
    PROVE  IInv'
<1> DEFINE seen == Observe(heap, p)
           reaction == Reaction("then", p, f, r, Fresh, NoCo)
<1>1. /\ heap' = IF Alloc(seen).proms[p].state = "pending" THEN React(Alloc(seen), p, reaction)
                 ELSE Enqueue(Alloc(seen), reaction)
      /\ next' = Fresh /\ CanAlloc
      /\ UNCHANGED <<open, co, promiseOf, awaits, stack, host, status>>
  BY DEF Then
<1>2. p \in 1 .. next
  BY Parts
<1>3. HeapOk(seen, next, promiseOf)
  BY <1>2, Parts, Observed
<1> HIDE DEF seen
<1>4. /\ Alloc(seen) = seen /\ Fresh \in 1 .. MaxPromises /\ Fresh \in next .. MaxPromises
      /\ 1 .. next \subseteq 1 .. Fresh
  BY <1>1, <1>3, Parts, Allocated
<1>5. Fresh \in 0 .. MaxPromises /\ 0 .. next \subseteq 0 .. Fresh /\ Fresh \in 1 .. Fresh
      /\ p \in 1 .. Fresh /\ p \in 0 .. MaxPromises
  BY <1>2, <1>4, Parts, IdsAre
<1>6. /\ HeapOk(seen, Fresh, promiseOf)
      /\ Frames(next, promiseOf) \subseteq Frames(Fresh, promiseOf)
  BY <1>3, <1>4, Parts, Grown
<1>7. reaction \in Job /\ Sound(reaction, Fresh, promiseOf) /\ reaction.on = p
  <2> HIDE DEF Fresh
  <2> QED BY <1>5 DEF Reaction, Job, Sound
<1> HIDE DEF reaction
<1>8. HeapOk(heap', Fresh, promiseOf)
  <2>1. CASE seen.proms[p].state = "pending"
    <3>1. heap' = React(seen, p, reaction)
      BY <1>1, <1>4, <2>1
    <3> QED BY <1>5, <1>6, <1>7, <2>1, <3>1, Reacted
  <2>2. CASE seen.proms[p].state # "pending"
    <3>1. heap' = Enqueue(seen, reaction)
      BY <1>1, <1>4, <2>2
    <3>2. Due(seen.proms, reaction)
      BY <1>7, <2>2 DEF Due
    <3> QED BY <1>5, <1>6, <1>7, <3>1, <3>2, Enqueued
  <2> QED BY <2>1, <2>2
<1>9. stack \in Seq(Frames(Fresh, promiseOf))
  BY <1>6, Parts, SeqMonotonic
<1>10. Others'
  BY <1>1, <1>4, <1>5 DEF IInv, Others
<1> QED BY <1>1, <1>8, <1>9, <1>10 DEF IInv

LEMMA CallKeeps == ASSUME IInv, NEW c \in Coroutines, Call(c) PROVE IInv'
<1> DEFINE po == [promiseOf EXCEPT ![c] = Fresh]
<1>1. /\ heap' = Alloc(heap) /\ next' = Fresh /\ promiseOf' = po /\ CanAlloc
      /\ co' = [co EXCEPT ![c] = "active"]
      /\ stack' = <<Frame("co", 0, c)>> \o stack
      /\ UNCHANGED <<open, awaits, host, status>>
  BY DEF Call
<1>2. /\ heap' = heap /\ Fresh \in 1 .. MaxPromises /\ Fresh \in next .. MaxPromises
      /\ 1 .. next \subseteq 1 .. Fresh
  BY <1>1, Parts, Allocated
<1>3. Fresh \in 0 .. MaxPromises /\ 0 .. next \subseteq 0 .. Fresh /\ Fresh \in 1 .. Fresh
      /\ 0 \in 0 .. Fresh /\ Fresh \in 0 .. Fresh
  BY <1>2, Parts, IdsAre
<1>4. /\ po \in [Coroutines -> 0 .. Fresh] /\ po[c] = Fresh
      /\ \A d \in Coroutines : promiseOf[d] \in 1 .. next => po[d] \in 1 .. Fresh
  BY <1>2, <1>3, Calls
<1> HIDE DEF po
<1>5. HeapOk(heap, Fresh, po) /\ Frames(next, promiseOf) \subseteq Frames(Fresh, po)
  BY <1>2, <1>4, Parts, Grown
<1>6. stack \in Seq(Frames(Fresh, po))
  BY <1>5, Parts, SeqMonotonic
<1>7. <<Frame("co", 0, c)>> \o stack \in Seq(Frames(Fresh, po))
  BY <1>3, <1>4, <1>6, Entered
<1>8. Others'
  <2>1. co' \in [Coroutines -> {"idle", "active", "waiting", "done"}]
    BY <1>1, Calls
  <2> QED BY <1>1, <1>2, <1>3, <1>4, <2>1 DEF IInv, Others
<1> QED BY <1>1, <1>2, <1>5, <1>7, <1>8 DEF IInv

LEMMA AwaitKeeps == ASSUME IInv, NEW q \in {0} \cup Known, Await(q) PROVE IInv'
<1> DEFINE c == Head(stack).co
           wake == Reaction("wake", q, FALSE, FALSE, 0, c)
           seen == Observe(heap, q)
<1>1. /\ Top("co")
      /\ heap' = IF q = 0 THEN Enqueue(heap, wake)
                 ELSE IF heap.proms[q].state = "pending" THEN React(seen, q, wake)
                 ELSE Enqueue(seen, wake)
      /\ co' = [co EXCEPT ![c] = "waiting"] /\ awaits' = [awaits EXCEPT ![c] = q]
      /\ stack' = Tail(stack)
      /\ UNCHANGED <<next, open, promiseOf, host, status>>
  BY DEF Await
<1>2. c \in Coroutines /\ promiseOf[c] \in 1 .. next /\ stack' \in Seq(Frames(next, promiseOf))
  <2>1. stack # <<>> /\ Head(stack).kind = "co"
    BY <1>1 DEF Top
  <2> QED BY <1>1, <2>1, Innermost DEF Running
<1>3. q \in 0 .. next /\ q \in 0 .. MaxPromises /\ 0 \in 0 .. MaxPromises
  BY Parts, IdsAre
<1> HIDE DEF c
<1>4. wake \in Job /\ Sound(wake, next, promiseOf) /\ wake.on = q
  BY <1>2, <1>3 DEF Reaction, Job, Sound
<1> HIDE DEF wake
<1>5. HeapOk(heap', next, promiseOf)
  <2>1. CASE q = 0
    <3>1. heap' = Enqueue(heap, wake) /\ Due(heap.proms, wake)
      BY <1>1, <1>4, <2>1 DEF Due
    <3> QED BY <1>4, <3>1, Parts, Enqueued
  <2>2. CASE q # 0
    <3>1. q \in 1 .. next /\ q \in Ids
      BY <1>3, <2>2, Parts
    <3>2. HeapOk(seen, next, promiseOf) /\ seen.proms[q].state = heap.proms[q].state
      BY <3>1, Parts, Observed
    <3> HIDE DEF seen
    <3>3. CASE heap.proms[q].state = "pending"
      <4>1. heap' = React(seen, q, wake)
        BY <1>1, <2>2, <3>3
      <4> QED BY <1>4, <3>1, <3>2, <3>3, <4>1, Parts, Reacted
    <3>4. CASE heap.proms[q].state # "pending"
      <4>1. heap' = Enqueue(seen, wake) /\ Due(seen.proms, wake)
        BY <1>1, <1>4, <2>2, <3>2, <3>4 DEF Due
      <4> QED BY <1>4, <3>2, <4>1, Parts, Enqueued
    <3> QED BY <3>3, <3>4
  <2> QED BY <2>1, <2>2
<1>6. co' \in [Coroutines -> {"idle", "active", "waiting", "done"}]
      /\ awaits' \in [Coroutines -> 0 .. next]
  BY <1>1, <1>2, <1>3, Calls
<1> QED BY <1>1, <1>2, <1>5, <1>6, Calls, QuietKeeps

LEMMA BlockKeeps == ASSUME IInv, NEW q \in Known, Block(q) PROVE IInv'
<1> DEFINE seen == Observe(heap, q)
<1>1. q \in 1 .. next /\ q \in 0 .. next /\ q # 0 /\ q \in Ids
  BY Parts
<1>2. HeapOk(seen, next, promiseOf)
  BY <1>1, Parts, Observed
<1>3. /\ \/ heap' = seen /\ stack' = <<Frame("block", q, NoCo)>> \o stack
         \/ heap' = Deliver(seen, q) /\ stack' = stack
      /\ UNCHANGED <<next, open, co, promiseOf, awaits, host, status>>
  BY DEF Block
<1> HIDE DEF seen
<1>4. HeapOk(heap', next, promiseOf)
  BY <1>1, <1>2, <1>3, Parts, Delivered
<1>5. <<Frame("block", q, NoCo)>> \o stack \in Seq(Frames(next, promiseOf))
  BY <1>1, Parts, Entered
<1> QED BY <1>3, <1>4, <1>5, Parts, Calls, QuietKeeps

LEMMA CoReturnKeeps == ASSUME IInv, NEW q \in {0} \cup Known, CoReturn(q) PROVE IInv'
<1> DEFINE c == Head(stack).co
<1>1. /\ Top("co") /\ heap' = ResolveInto(heap, promiseOf[c], q)
      /\ co' = [co EXCEPT ![c] = "done"] /\ stack' = Tail(stack)
      /\ UNCHANGED <<next, open, promiseOf, awaits, host, status>>
  BY DEF CoReturn
<1>2. c \in Coroutines /\ promiseOf[c] \in 1 .. next /\ stack' \in Seq(Frames(next, promiseOf))
  <2>1. stack # <<>> /\ Head(stack).kind = "co"
    BY <1>1 DEF Top
  <2> QED BY <1>1, <2>1, Innermost DEF Running
<1> HIDE DEF c
<1>3. q \in 0 .. next
  BY Parts
<1>4. HeapOk(heap', next, promiseOf)
  BY <1>1, <1>2, <1>3, Parts, Resolved
<1>5. co' \in [Coroutines -> {"idle", "active", "waiting", "done"}]
  BY <1>1, Calls
<1> QED BY <1>1, <1>2, <1>4, <1>5, Calls, QuietKeeps

LEMMA CoThrowKeeps == ASSUME IInv, CoThrow PROVE IInv'
<1> DEFINE c == Head(stack).co
           p == promiseOf[c]
<1>1. /\ Top("co") /\ heap' = Settle(heap, p, "rejected", p)
      /\ co' = [co EXCEPT ![c] = "done"] /\ stack' = Tail(stack)
      /\ UNCHANGED <<next, open, promiseOf, awaits, host, status>>
  BY DEF CoThrow
<1>2. p \in 1 .. next /\ stack' \in Seq(Frames(next, promiseOf))
  <2>1. stack # <<>> /\ Head(stack).kind = "co"
    BY <1>1 DEF Top
  <2> QED BY <1>1, <2>1, Innermost DEF Running
<1> HIDE DEF c, p
<1>3. p \in 0 .. MaxPromises
  BY <1>2, Parts, IdsAre
<1>4. HeapOk(heap', next, promiseOf)
  BY <1>1, <1>2, <1>3, Parts, SettleKeeps
<1>5. co' \in [Coroutines -> {"idle", "active", "waiting", "done"}]
  BY <1>1, Calls
<1> QED BY <1>1, <1>2, <1>4, <1>5, Calls, QuietKeeps

LEMMA HandlerReturnKeeps == ASSUME IInv, NEW q \in {0} \cup Known, HandlerReturn(q) PROVE IInv'
<1> DEFINE p == Head(stack).p
<1>1. /\ Top("handler") /\ heap' = ResolveInto(heap, p, q) /\ stack' = Tail(stack)
      /\ UNCHANGED <<next, open, co, promiseOf, awaits, host, status>>
  BY DEF HandlerReturn
<1>2. p \in 1 .. next /\ stack' \in Seq(Frames(next, promiseOf))
  <2>1. stack # <<>> /\ Head(stack).kind = "handler"
    BY <1>1 DEF Top
  <2>2. p \in 0 .. next /\ p # 0
    BY <2>1, Innermost DEF Running
  <2> QED BY <1>1, <2>1, <2>2, Innermost, Parts
<1> HIDE DEF p
<1>3. q \in 0 .. next
  BY Parts
<1>4. HeapOk(heap', next, promiseOf)
  BY <1>1, <1>2, <1>3, Parts, Resolved
<1> QED BY <1>1, <1>2, <1>4, Calls, QuietKeeps

LEMMA ThrowKeeps == ASSUME IInv, Throw PROVE IInv'
<1>1. /\ status' \in {"crash", status} /\ UNCHANGED <<heap, next, open, co, promiseOf, awaits>>
      /\ stack' = stack \/ \E k \in Blocks : stack' = SubSeq(stack, k + 1, Len(stack))
  BY DEF Throw
<1>2. DOMAIN stack = 1 .. Len(stack)
  BY Parts, LenProperties
<1>3. stack' \in Seq(Frames(next, promiseOf))
  <2>1. ASSUME NEW k \in Blocks PROVE SubSeq(stack, k + 1, Len(stack)) \in Seq(Frames(next, promiseOf))
    BY <1>2, Parts, Unwound DEF Blocks
  <2> QED BY <1>1, <2>1, Parts
<1>4. status' \in {"run", "exit", "crash"}
  BY <1>1, Calls
<1> QED BY <1>1, <1>3, <1>4, Parts, Calls, QuietKeeps

(* The activations that end or begin without touching a promise.                *)
LEMMA HostKeeps == ASSUME IInv, ScriptEnd \/ HostCallback \/ Exit \/ Ended PROVE IInv'
<1>1. CASE ScriptEnd
  <2>1. stack # <<>> /\ stack' = Tail(stack)
        /\ UNCHANGED <<heap, next, open, co, promiseOf, awaits, host, status>>
    BY <1>1 DEF ScriptEnd, Top
  <2> QED BY <2>1, Parts, Innermost, Calls, QuietKeeps
<1>2. CASE HostCallback
  <2>1. stack' = <<Frame("script", 0, NoCo)>> \o stack
        /\ UNCHANGED <<heap, next, open, co, promiseOf, awaits, status>>
    BY <1>2 DEF HostCallback
  <2>2. 0 \in 0 .. next
    BY Parts
  <2>3. stack' \in Seq(Frames(next, promiseOf))
    BY <2>1, <2>2, Parts, Entered
  <2> QED BY <2>1, <2>3, Parts, Calls, QuietKeeps
<1>3. CASE Exit
  <2>1. status' = "exit" /\ UNCHANGED <<heap, next, open, co, promiseOf, awaits, stack, host>>
    BY <1>3 DEF Exit
  <2> QED BY <2>1, Parts, Calls, QuietKeeps
<1>4. CASE Ended
  <2>1. UNCHANGED <<heap, next, open, co, promiseOf, awaits, stack, host, status>>
    BY <1>4 DEF Ended, vars
  <2> QED BY <2>1, Parts, Calls, QuietKeeps
<1> QED BY <1>1, <1>2, <1>3, <1>4

LEMMA RunWakeKeeps == ASSUME IInv, RunWake PROVE IInv'
<1> DEFINE c == Task.co
<1>1. /\ heap.tasks # <<>> /\ Task.kind = "wake" /\ heap' = Deliver(Taken, Task.on)
      /\ \/ UNCHANGED <<co, awaits, stack>>
         \/ /\ co' = [co EXCEPT ![c] = "active"] /\ awaits' = [awaits EXCEPT ![c] = 0]
            /\ stack' = <<Frame("co", 0, c)>> \o stack
      /\ UNCHANGED <<next, open, promiseOf, host, status>>
  BY DEF RunWake
<1>2. HeapOk(Taken, next, promiseOf) /\ Sound(Task, next, promiseOf)
  BY <1>1, Parts, Took
<1>3. Task.on \in 0 .. next /\ c \in Coroutines /\ promiseOf[c] \in 1 .. next /\ 0 \in 0 .. next
  BY <1>1, <1>2, Parts DEF Sound
<1> HIDE DEF c
<1>4. HeapOk(heap', next, promiseOf)
  BY <1>1, <1>2, <1>3, Parts, Delivered
<1>5. <<Frame("co", 0, c)>> \o stack \in Seq(Frames(next, promiseOf))
  BY <1>3, Parts, Entered
<1>6. co' \in [Coroutines -> {"idle", "active", "waiting", "done"}]
      /\ awaits' \in [Coroutines -> 0 .. next]
  BY <1>1, <1>3, Calls
<1> QED BY <1>1, <1>4, <1>5, <1>6, Parts, Calls, QuietKeeps

LEMMA RunHandlerKeeps == ASSUME IInv, RunHandler PROVE IInv'
<1>1. /\ heap.tasks # <<>> /\ Task.kind # "wake" /\ heap' = Deliver(Taken, Task.on)
      /\ stack' = <<Frame("handler", Task.result, NoCo)>> \o stack
      /\ UNCHANGED <<next, open, co, promiseOf, awaits, host, status>>
  BY DEF RunHandler
<1>2. HeapOk(Taken, next, promiseOf) /\ Sound(Task, next, promiseOf)
  BY <1>1, Parts, Took
<1>3. Task.on \in 0 .. next /\ Task.result \in 0 .. next /\ Task.result # 0
  BY <1>1, <1>2, Parts DEF Sound
<1>4. HeapOk(heap', next, promiseOf)
  BY <1>1, <1>2, <1>3, Parts, Delivered
<1>5. stack' \in Seq(Frames(next, promiseOf))
  BY <1>1, <1>3, Parts, Entered
<1> QED BY <1>1, <1>4, <1>5, Calls, QuietKeeps

LEMMA RunForwardKeeps == ASSUME IInv, RunForward PROVE IInv'
<1> DEFINE state == heap.proms[Task.on].state
           reason == heap.proms[Task.on].reason
           sent == Forward(Taken, Task.on, Task.result)
<1>1. /\ heap.tasks # <<>> /\ Task.kind # "wake"
      /\ heap' = Settle(sent, Task.result, state, reason)
      /\ UNCHANGED <<next, open, co, promiseOf, awaits, stack, host, status>>
  BY DEF RunForward
<1>2. HeapOk(Taken, next, promiseOf) /\ Sound(Task, next, promiseOf) /\ Due(heap.proms, Task)
  BY <1>1, Parts, Took
<1>3. Task.on \in 0 .. next /\ Task.on # 0 /\ Task.result \in 1 .. next /\ Task.on \in Ids
  BY <1>1, <1>2, Parts DEF Sound
<1>4. state \in {"fulfilled", "rejected"} /\ reason \in 0 .. MaxPromises
  <2>1. state # "pending"
    BY <1>2, <1>3 DEF Due
  <2> QED BY <1>3, <2>1, Parts, HeapParts
<1>5. HeapOk(sent, next, promiseOf)
  BY <1>2, <1>3, Parts, Forwarded
<1> HIDE DEF state, reason, sent
<1>6. HeapOk(heap', next, promiseOf)
  BY <1>1, <1>3, <1>4, <1>5, Parts, SettleKeeps
<1> QED BY <1>1, <1>6, Parts, Calls, QuietKeeps

LEMMA UnblockKeeps == ASSUME IInv, Unblock \/ GiveUp PROVE IInv'
<1>1. /\ Top("block") /\ heap' \in {heap, Deliver(heap, Head(stack).p)} /\ stack' = Tail(stack)
      /\ UNCHANGED <<next, open, co, promiseOf, awaits, host, status>>
  BY DEF Unblock, GiveUp
<1>2. stack # <<>>
  BY <1>1 DEF Top
<1>3. Head(stack).p \in 0 .. next
  BY <1>2, Innermost DEF Running
<1>4. HeapOk(heap', next, promiseOf)
  BY <1>1, <1>3, Parts, Delivered
<1> QED BY <1>1, <1>2, <1>4, Innermost, Calls, QuietKeeps
-----------------------------------------------------------------------------
LEMMA InitInv == Init => IInv
<1> SUFFICES ASSUME Init PROVE IInv
  OBVIOUS
<1>1. Others
  BY IdsAre DEF Init, Others
<1>2. /\ heap.proms = [p \in Ids |-> Blank] /\ heap.tasks = <<>> /\ heap.unhandled = <<>>
      /\ heap.delivered = {} /\ next = 0
  BY DEF Init
<1>3. heap \in Heap
  <2>1. [p \in Ids |-> Blank] \in [Ids -> Promise]
    BY BlankIsOne
  <2>2. <<>> \in Seq(Job) /\ <<>> \in Seq(Ids)
    OBVIOUS
  <2> QED BY <2>1, <2>2 DEF Init, Heap
<1>4. /\ \A p \in Ids : heap.proms[p] = Blank
      /\ Blank.index = 0 /\ Blank.state = "pending" /\ Blank.reactions = <<>>
      /\ Len(<<>>) = 0 /\ \A k \in 1 .. 0 : FALSE
  BY <1>2 DEF Blank
<1>5. \A p \in Ids : /\ heap.proms[p].index = 0 /\ heap.proms[p].state = "pending"
                     /\ heap.proms[p].reactions = <<>>
  BY <1>4
<1>6. Linked(heap.proms, heap.unhandled) /\ Reported(heap.proms)
  BY <1>2, <1>4, <1>5 DEF Linked, Reported, Unseen
<1>7. Waiting(heap.proms) /\ Refs(heap.proms, next, promiseOf) /\ Unused(heap.proms, next)
  BY <1>4, <1>5 DEF Waiting, Refs, Unused
<1>8. QueueOk(heap.tasks, heap.proms, next, promiseOf)
  BY <1>2, <1>4 DEF QueueOk
<1>9. stack \in Seq(Frames(next, promiseOf))
  <2>1. 0 \in 0 .. next /\ next \in 0 .. MaxPromises
    BY <1>2, IdsAre
  <2>2. <<>> \in Seq(Frames(next, promiseOf))
    OBVIOUS
  <2>3. <<Frame("script", 0, NoCo)>> \o <<>> \in Seq(Frames(next, promiseOf))
    BY <2>1, <2>2, Entered
  <2>4. stack = <<Frame("script", 0, NoCo)>> \o <<>>
    BY DEF Init
  <2> QED BY <2>3, <2>4
<1> QED BY <1>1, <1>3, <1>6, <1>7, <1>8, <1>9 DEF IInv, HeapOk

LEMMA Inductive == IInv /\ [Next]_vars => IInv'
<1> SUFFICES ASSUME IInv, [Next]_vars PROVE IInv'
  OBVIOUS
<1>1. CASE UNCHANGED vars
  <2>1. UNCHANGED <<heap, next, open, co, promiseOf, awaits, stack, host, status>>
    BY <1>1 DEF vars
  <2> QED BY <2>1, Parts, Calls, QuietKeeps
<1>2. CASE Engine
  BY <1>2, RunWakeKeeps, RunHandlerKeeps, RunForwardKeeps, UnblockKeeps DEF Engine
<1>3. CASE Finish
  BY <1>3, CoThrowKeeps, ThrowKeeps, HostKeeps, CoReturnKeeps, HandlerReturnKeeps,
     AwaitKeeps DEF Finish
<1>4. CASE Script
  BY <1>4, NewPromiseKeeps, RejectKeeps, ResolveKeeps, BlockKeeps, ThenKeeps, CallKeeps DEF Script
<1>5. CASE HostCallback \/ Exit \/ Ended
  BY <1>5, HostKeeps
<1> QED BY <1>1, <1>2, <1>3, <1>4, <1>5 DEF Next

(* Only promises that were awaited are abandoned. *)
LEMMA AbandonedAre ==
    ASSUME IInv, abandoned \subseteq Ids, [Next]_vars
    PROVE  abandoned' \subseteq Ids
<1>1. /\ DOMAIN stack = 1 .. Len(stack) /\ 1 .. next \subseteq Ids
      /\ \A i \in DOMAIN stack : stack[i].kind = "block" => stack[i].p \in Ids
  <2>1. DOMAIN stack = 1 .. Len(stack) /\ \A i \in 1 .. Len(stack) : stack[i] \in Frames(next, promiseOf)
    BY Parts, LenProperties, ElementOfSeq
  <2> QED BY <2>1, Parts, IdsAre DEF Frames, Running
<1>2. CASE Throw
  BY <1>1, <1>2 DEF Throw, Blocks
<1>3. CASE GiveUp
  <2>1. stack # <<>> /\ Head(stack).kind = "block" /\ abandoned' = abandoned \cup {Head(stack).p}
    BY <1>3 DEF GiveUp, Top
  <2>2. Head(stack).p \in 0 .. next /\ Head(stack).p # 0
    BY <2>1, Innermost DEF Running
  <2>3. Head(stack).p \in Ids
    BY <2>2, Parts, IdsAre
  <2> QED BY <2>1, <2>3
<1>4. ASSUME abandoned' = abandoned PROVE abandoned' \subseteq Ids
  BY <1>4
<1>5. CASE Engine
  BY <1>3, <1>4, <1>5 DEF Engine, RunWake, RunHandler, RunForward, Unblock
<1>6. CASE Finish
  BY <1>2, <1>4, <1>6 DEF Finish, CoThrow, ScriptEnd, CoReturn, HandlerReturn, Await
<1>7. CASE Script
  BY <1>4, <1>7 DEF Script, NewPromise, Reject, Resolve, Block, Then, Call
<1>8. CASE HostCallback \/ Exit \/ Ended \/ UNCHANGED vars
  BY <1>4, <1>8 DEF HostCallback, Exit, Ended, vars
<1> QED BY <1>5, <1>6, <1>7, <1>8 DEF Next

LEMMA Invariance == Spec => []IInv
<1> QED BY InitInv, Inductive, PTL DEF Spec
-----------------------------------------------------------------------------
(* The heap, the calls and the list keep their types: in particular the list of *)
(* unhandled rejections never outgrows the promises, so a report_index fits.    *)
THEOREM TypeCorrect == Spec => []TypeOK
<1>1. IInv /\ abandoned \subseteq Ids => TypeOK
  <2> SUFFICES ASSUME IInv, abandoned \subseteq Ids PROVE TypeOK
    OBVIOUS
  <2>1. heap.proms \in [Ids -> Promise] /\ heap.delivered \subseteq Ids
    BY Parts, HeapParts
  <2>2. \A p \in Ids \ Known : heap.proms[p] = Blank
    <3> TAKE p \in Ids \ Known
    <3>1. p > next /\ p \in Ids
      BY Parts, IdsAre
    <3> QED BY <3>1, Parts DEF HeapOk, Unused
  <2> QED BY <2>1, <2>2 DEF IInv, Others, TypeOK
<1>2. Init => abandoned \subseteq Ids
  BY DEF Init
<1>3. IInv /\ abandoned \subseteq Ids /\ [Next]_vars => (abandoned \subseteq Ids)'
  BY AbandonedAre
<1> QED BY <1>1, <1>2, <1>3, Invariance, PTL DEF Spec

(* However often entries are swapped, the list holds every rejection nobody has *)
(* observed, once, and the indexes in the promises point at their entries.      *)
THEOREM UnhandledKept == Spec => []UnhandledExact
<1>1. IInv => UnhandledExact
  <2> SUFFICES ASSUME IInv PROVE UnhandledExact
    OBVIOUS
  <2> DEFINE L == heap.unhandled
             P == heap.proms
  <2>1. Known \subseteq Ids /\ next \in Nat /\ Known = 1 .. next
    BY Parts
  <2>2. Linked(P, L) /\ Reported(P) /\ Unused(P, next)
    BY Parts DEF HeapOk
  <2>3. L \in Seq(Ids) /\ DOMAIN L = 1 .. Len(L) /\ \A k \in 1 .. Len(L) : L[k] \in Ids
    <3>1. L \in Seq(Ids)
      BY Parts, HeapParts
    <3> HIDE DEF L
    <3> QED BY <3>1, LenProperties, ElementOfSeq
  <2>4. \A p \in Ids : P[p].index \in Nat
    BY Parts, HeapParts
  <2> HIDE DEF L, P
  <2>5. \A p \in Known : P[p].index # 0 => P[p].index <= Len(L) /\ L[P[p].index] = p
    BY <2>1, <2>2 DEF Linked
  <2>6. ToSet(L) = {p \in Known : P[p].state = "rejected" /\ ~P[p].observed}
    <3>1. ASSUME NEW k \in 1 .. Len(L)
          PROVE  L[k] \in Known /\ P[L[k]].state = "rejected" /\ ~P[L[k]].observed
      <4>1. P[L[k]].index = k /\ k # 0 /\ L[k] \in Ids
        BY <2>2, <2>3 DEF Linked
      <4>2. Unseen(P[L[k]])
        BY <2>2, <4>1 DEF Reported
      <4>3. ~(L[k] > next)
        <5>1. Blank.index = 0
          BY DEF Blank
        <5> QED BY <2>2, <4>1, <5>1 DEF Unused
      <4>4. L[k] \in Known
        BY <2>1, <4>1, <4>3, IdsAre
      <4> QED BY <4>2, <4>4 DEF Unseen
    <3>2. ASSUME NEW p \in Known, P[p].state = "rejected", ~P[p].observed
          PROVE  \E k \in 1 .. Len(L) : L[k] = p
      <4>1. P[p].index # 0 /\ p \in Ids
        BY <2>1, <2>2, <3>2 DEF Reported, Unseen
      <4>2. P[p].index \in Nat /\ P[p].index <= Len(L) /\ L[P[p].index] = p /\ Len(L) \in Nat
        BY <2>3, <2>4, <2>5, <4>1, LenProperties
      <4>3. P[p].index \in 1 .. Len(L)
        BY <4>1, <4>2
      <4> QED BY <4>2, <4>3
    <3> QED BY <2>3, <3>1, <3>2 DEF ToSet
  <2>7. IsInjective(L)
    <3>1. \A a, b \in 1 .. Len(L) : L[a] = L[b] => a = b
      BY <2>2 DEF Linked
    <3> QED BY <2>3, <3>1 DEF IsInjective
  <2> QED BY <2>5, <2>6, <2>7 DEF UnhandledExact, L, P
<1> QED BY <1>1, Invariance, PTL

(* A reaction waits with its promise while that is pending and is queued once   *)
(* it is settled, whatever order then, settlement and drain come in.            *)
THEOREM ReactionsKept == Spec => []ReactionsFollowState
<1>1. IInv => ReactionsFollowState
  <2> SUFFICES ASSUME IInv PROVE ReactionsFollowState
    OBVIOUS
  <2>1. Known \subseteq Ids
    BY Parts
  <2>2. \A p \in Ids : DOMAIN heap.proms[p].reactions = 1 .. Len(heap.proms[p].reactions)
    <3> TAKE p \in Ids
    <3>1. heap.proms[p].reactions \in Seq(Job)
      BY Parts, ReactionsAre
    <3> QED BY <3>1, LenProperties
  <2>3. DOMAIN heap.tasks = 1 .. Len(heap.tasks)
    BY Parts, ReactionsAre, LenProperties
  <2>4. \A p \in Ids : /\ heap.proms[p].state # "pending" => heap.proms[p].reactions = <<>>
                       /\ \A k \in 1 .. Len(heap.proms[p].reactions) :
                             heap.proms[p].reactions[k].on = p
    BY Parts, ReactionsAre
  <2>5. \A k \in 1 .. Len(heap.tasks) : Due(heap.proms, heap.tasks[k])
    BY Parts, ReactionsAre
  <2> QED BY <2>1, <2>2, <2>3, <2>4, <2>5 DEF ReactionsFollowState, Due
<1> QED BY <1>1, Invariance, PTL
-----------------------------------------------------------------------------
(***************************************************************************)
(* The second part is about who settles a promise and who resumes a body.  *)
(* In every program, a body that waits is resumed by one reaction, and the *)
(* promise of a call is settled by nothing but its body until that ends.   *)
(* In a program that uses the functions of a promise once, each pending    *)
(* promise is settled from one place at most, its owner: a reaction whose  *)
(* result it is, the program that holds its functions, a handler on the    *)
(* stack, or the body of a call.  Every step hands an owner on or settles  *)
(* the promise, and whoever observed a promise still waits for its outcome *)
(* or got it.                                                              *)
(***************************************************************************)
\* The reactions of promise p, or the microtask queue as line 0.
Line(h, p) == IF p = 0 THEN h.tasks ELSE h.proms[p].reactions

Lines == 0 .. MaxPromises

Jobs(h) == UNION {{Line(h, p)[k] : k \in 1 .. Len(Line(h, p))} : p \in Lines}

\* Two reactions that would resume one body or, where promises have one owner,
\* settle one promise.
Rivals(r, s) ==
    IF r.kind = "wake" THEN s.kind = "wake" /\ r.co = s.co
    ELSE ~Reresolves /\ s.kind # "wake" /\ r.result = s.result

NoRivals(h) ==
    \A p, q \in Lines : \A k \in 1 .. Len(Line(h, p)), j \in 1 .. Len(Line(h, q)) :
        Rivals(Line(h, p)[k], Line(h, q)[j]) => p = q /\ k = j

\* What the reactions will do: settle promises, resume bodies; and what they wait for.
Settling(h) == {r.result : r \in {j \in Jobs(h) : j.kind # "wake"}}
Following(h) == {r.result : r \in {j \in Jobs(h) : j.kind = "follow"}}
Waking(h) == {r.co : r \in {j \in Jobs(h) : j.kind = "wake"}}
Watching(h) == {r.on : r \in Jobs(h)}

\* Only a then calls handlers, only a waiter resumes a body.
Plain(h) ==
    \A r \in Jobs(h) : /\ r.kind = "follow" => ~r.onFulfilled /\ ~r.onRejected
                       /\ r.kind # "wake" => r.co = NoCo

\* The promises that handlers on the stack will settle, the bodies on it, the
\* promises on which it is blocked.
Handling(s) == {s[i].p : i \in {k \in 1 .. Len(s) : s[k].kind = "handler"}}
Entering(s) == {s[i].co : i \in {k \in 1 .. Len(s) : s[k].kind = "co"}}
Blocked(s) == {s[i].p : i \in {k \in 1 .. Len(s) : s[k].kind = "block"}}

Doubles(f, g) ==
    /\ f.kind = g.kind
    /\ \/ f.kind = "handler" /\ ~Reresolves /\ f.p = g.p
       \/ f.kind = "co" /\ f.co = g.co

NoDoubles(s) == \A i, j \in 1 .. Len(s) : Doubles(s[i], s[j]) => i = j

Bodies(c, po) == {po[d] : d \in {e \in Coroutines : c[e] \in {"active", "waiting"}}}

CallsOwn(c, po, n) ==
    /\ \A d \in Coroutines : c[d] # "idle" => po[d] \in 1 .. n
    /\ \A d, e \in Coroutines : c[d] # "idle" /\ c[e] # "idle" /\ po[d] = po[e] => d = e

\* A body is waiting exactly while a reaction will resume it.
Scheduled(h, s, c) ==
    \A d \in Coroutines : /\ c[d] = "waiting" <=> d \in Waking(h)
                          /\ d \in Entering(s) => c[d] = "active"

Apart(A, B, C, D) ==
    /\ A \cap B = {} /\ A \cap C = {} /\ A \cap D = {}
    /\ B \cap C = {} /\ B \cap D = {} /\ C \cap D = {}

\* The promise of a body is pending and settled by nothing but the body.
BodiesApart(h, o, s, c, po) ==
    /\ Bodies(c, po) \cap (Settling(h) \cup o \cup Handling(s)) = {}
    /\ \A x \in Bodies(c, po) : h.proms[x].state = "pending"

\* Used once, each pending promise has at most one place from which it will be settled.
Settlers(h, o, s, c, po) ==
    ~Reresolves =>
        /\ Apart(Settling(h), o, Handling(s), Bodies(c, po))
        /\ \A x \in Settling(h) \cup o \cup Handling(s) \cup Bodies(c, po) :
              h.proms[x].state = "pending"

\* Whoever observes a promise gets its outcome, or will, or has left it.
Pursued(h, s, a) ==
    ~Reresolves =>
        \A p \in Ids : h.proms[p].observed => p \in h.delivered \cup Watching(h) \cup Blocked(s) \cup a

\* A finished body has settled its promise, or another promise will.
Returned(h, c, po) ==
    \A d \in Coroutines :
        c[d] = "done" /\ h.proms[po[d]].state = "pending" => po[d] \in Following(h)

Owned(h, o, s, c, po, n, a) ==
    /\ NoRivals(h) /\ Plain(h) /\ NoDoubles(s)
    /\ CallsOwn(c, po, n) /\ Scheduled(h, s, c)
    /\ BodiesApart(h, o, s, c, po) /\ Settlers(h, o, s, c, po)
    /\ Pursued(h, s, a) /\ Returned(h, c, po)

Ending == status = "exit" => stack = <<>> /\ heap.tasks = <<>>
-----------------------------------------------------------------------------
LEMMA LinesAre ==
    ASSUME NEW n \in 0 .. MaxPromises, NEW po, NEW h, HeapOk(h, n, po)
    PROVE  \A p \in Lines : /\ Line(h, p) \in Seq(Job) /\ Len(Line(h, p)) \in Nat
                            /\ \A k \in 1 .. Len(Line(h, p)) :
                                  Line(h, p)[k] \in Job /\ Sound(Line(h, p)[k], n, po)
<1> TAKE p \in Lines
<1>1. CASE p = 0
  BY <1>1, ReactionsAre DEF Line
<1>2. CASE p # 0
  <2>1. p \in Ids
    BY <1>2, IdsAre DEF Lines
  <2> QED BY <1>2, <2>1, ReactionsAre DEF Line
<1> QED BY <1>1, <1>2

LEMMA JobIn ==
    ASSUME NEW h, NEW r
    PROVE  r \in Jobs(h) <=> \E p \in Lines : \E k \in 1 .. Len(Line(h, p)) : Line(h, p)[k] = r
  BY DEF Jobs

LEMMA JobsAre ==
    ASSUME NEW n \in 0 .. MaxPromises, NEW po, NEW h, HeapOk(h, n, po)
    PROVE  /\ \A r \in Jobs(h) : r \in Job /\ Sound(r, n, po)
           /\ Settling(h) \subseteq 1 .. n /\ Following(h) \subseteq Settling(h)
           /\ Waking(h) \subseteq Coroutines
<1>1. \A r \in Jobs(h) : r \in Job /\ Sound(r, n, po)
  BY LinesAre, JobIn
<1>2. Settling(h) \subseteq 1 .. n /\ Waking(h) \subseteq Coroutines
  BY <1>1 DEF Settling, Waking, Sound
<1>3. Following(h) \subseteq Settling(h)
  BY DEF Following, Settling
<1> QED BY <1>1, <1>2, <1>3

(* The four ways in which helpers change the lines.                             *)
LEMMA SameJobs ==
    ASSUME NEW h, NEW g, \A p \in Lines : Line(g, p) = Line(h, p)
    PROVE  Jobs(g) = Jobs(h) /\ (NoRivals(h) => NoRivals(g))
  BY DEF Jobs, NoRivals

LEMMA MoreJobs ==
    ASSUME NEW h, NEW g, NEW p \in Lines, NEW r \in Job,
           \A q \in Lines : Line(h, q) \in Seq(Job),
           Line(g, p) = Append(Line(h, p), r), \A q \in Lines : q # p => Line(g, q) = Line(h, q)
    PROVE  /\ Jobs(g) = Jobs(h) \cup {r}
           /\ NoRivals(h) /\ (\A s \in Jobs(h) : ~Rivals(r, s)) => NoRivals(g)
<1> DEFINE m == Len(Line(h, p))
<1>1. /\ m \in Nat /\ Len(Line(g, p)) = m + 1 /\ Line(g, p)[m + 1] = r
      /\ \A k \in 1 .. m : Line(g, p)[k] = Line(h, p)[k]
  <2> DEFINE L == Line(h, p)
  <2>1. L \in Seq(Job)
    OBVIOUS
  <2> HIDE DEF L
  <2>2. /\ Len(L) \in Nat /\ Len(Append(L, r)) = Len(L) + 1 /\ Append(L, r)[Len(L) + 1] = r
        /\ \A k \in 1 .. Len(L) : Append(L, r)[k] = L[k]
    BY <2>1, AppendProperties, LenProperties
  <2> QED BY <2>2 DEF L
<1>2. m + 1 \in 1 .. m + 1 /\ 1 .. m \subseteq 1 .. m + 1
      /\ \A k \in 1 .. m + 1 : k \in 1 .. m \/ k = m + 1
  BY <1>1
<1> HIDE DEF m
<1>3. Jobs(g) = Jobs(h) \cup {r}
  <2>1. ASSUME NEW s \in Jobs(g) PROVE s \in Jobs(h) \/ s = r
    <3>1. PICK q \in Lines : \E k \in 1 .. Len(Line(g, q)) : Line(g, q)[k] = s
      BY <2>1, JobIn
    <3>2. PICK k \in 1 .. Len(Line(g, q)) : Line(g, q)[k] = s
      BY <3>1
    <3>3. CASE q = p
      <4>1. CASE k = m + 1
        BY <1>1, <3>2, <3>3, <4>1
      <4>2. CASE k # m + 1
        <5>1. k \in 1 .. m
          BY <1>1, <1>2, <3>3, <4>2
        <5> QED BY <1>1, <3>2, <3>3, <5>1, JobIn DEF m
      <4> QED BY <4>1, <4>2
    <3>4. CASE q # p
      BY <3>2, <3>4, JobIn
    <3> QED BY <3>3, <3>4
  <2>2. r \in Jobs(g)
    BY <1>1, <1>2, JobIn
  <2>3. ASSUME NEW s \in Jobs(h) PROVE s \in Jobs(g)
    <3>1. PICK q \in Lines : \E k \in 1 .. Len(Line(h, q)) : Line(h, q)[k] = s
      BY <2>3, JobIn
    <3>2. PICK k \in 1 .. Len(Line(h, q)) : Line(h, q)[k] = s
      BY <3>1
    <3>3. CASE q = p
      <4>1. k \in 1 .. m /\ k \in 1 .. Len(Line(g, p))
        BY <1>1, <1>2, <3>3 DEF m
      <4> QED BY <1>1, <3>2, <3>3, <4>1, JobIn
    <3>4. CASE q # p
      BY <3>2, <3>4, JobIn
    <3> QED BY <3>3, <3>4
  <2> QED BY <2>1, <2>2, <2>3
<1>4. ASSUME NoRivals(h), \A s \in Jobs(h) : ~Rivals(r, s) PROVE NoRivals(g)
  <2>1. \A s \in Jobs(h) : ~Rivals(s, r)
    BY <1>4 DEF Rivals
  <2> SUFFICES ASSUME NEW a \in Lines, NEW b \in Lines,
                      NEW k \in 1 .. Len(Line(g, a)), NEW j \in 1 .. Len(Line(g, b)),
                      Rivals(Line(g, a)[k], Line(g, b)[j])
               PROVE  a = b /\ k = j
    BY DEF NoRivals
  <2> DEFINE old(q, i) == i \in 1 .. Len(Line(h, q)) /\ Line(g, q)[i] = Line(h, q)[i]
             new(q, i) == q = p /\ i = m + 1 /\ Line(g, q)[i] = r
  <2>2. ASSUME NEW q \in Lines, NEW i \in 1 .. Len(Line(g, q)) PROVE old(q, i) \/ new(q, i)
    <3>1. CASE q = p
      BY <1>1, <1>2, <3>1 DEF m
    <3>2. CASE q # p
      BY <3>2
    <3> QED BY <3>1, <3>2
  <2>3. old(a, k) => Line(g, a)[k] \in Jobs(h)
    BY JobIn
  <2>4. old(b, j) => Line(g, b)[j] \in Jobs(h)
    BY JobIn
  <2>5. CASE old(a, k) /\ old(b, j)
    BY <1>4, <2>5 DEF NoRivals
  <2>6. CASE new(a, k) /\ new(b, j)
    BY <2>6
  <2>7. ~(old(a, k) /\ new(b, j)) /\ ~(new(a, k) /\ old(b, j))
    BY <1>4, <2>1, <2>3, <2>4
  <2> QED BY <2>2, <2>5, <2>6, <2>7
<1> QED BY <1>3, <1>4

LEMMA FewerJobs ==
    ASSUME NEW h, NEW g, \A q \in Lines : Line(h, q) \in Seq(Job), h.tasks # <<>>,
           g.tasks = Tail(h.tasks), g.proms = h.proms
    PROVE  /\ Jobs(h) = Jobs(g) \cup {Head(h.tasks)}
           /\ NoRivals(h) => NoRivals(g) /\ \A s \in Jobs(g) : ~Rivals(Head(h.tasks), s)
<1> DEFINE T == h.tasks
           m == Len(T)
<1>1. 0 \in Lines /\ Line(h, 0) = T /\ Line(g, 0) = Tail(T)
      /\ \A q \in Lines : q # 0 => Line(g, q) = Line(h, q)
  BY IdsAre DEF Lines, Line
<1>2. /\ m \in Nat /\ m > 0 /\ Head(T) = T[1] /\ Len(Tail(T)) = m - 1
      /\ \A i \in 1 .. m - 1 : Tail(T)[i] = T[i + 1]
  <2>1. T \in Seq(Job) /\ T # <<>>
    BY <1>1
  <2> HIDE DEF T
  <2> QED BY <2>1, Shortened
<1> DEFINE up(q, k) == IF q = 0 THEN k + 1 ELSE k
<1>3. ASSUME NEW q \in Lines, NEW k \in 1 .. Len(Line(g, q))
      PROVE  /\ up(q, k) \in 1 .. Len(Line(h, q)) /\ Line(g, q)[k] = Line(h, q)[up(q, k)]
             /\ k \in Nat /\ (q = 0 => up(q, k) # 1)
  <2> HIDE DEF T
  <2>1. CASE q = 0
    <3>1. k \in 1 .. m - 1
      BY <1>1, <1>2, <2>1
    <3>2. k + 1 \in 1 .. m /\ k + 1 # 1 /\ k \in Nat
      BY <1>2, <3>1
    <3> QED BY <1>1, <1>2, <2>1, <3>1, <3>2
  <2>2. CASE q # 0
    BY <1>1, <2>2
  <2> QED BY <2>1, <2>2
<1> HIDE DEF T
<1>4. Jobs(h) = Jobs(g) \cup {Head(T)}
  <2>1. ASSUME NEW s \in Jobs(g) PROVE s \in Jobs(h)
    <3>1. PICK q \in Lines : \E k \in 1 .. Len(Line(g, q)) : Line(g, q)[k] = s
      BY <2>1, JobIn
    <3>2. PICK k \in 1 .. Len(Line(g, q)) : Line(g, q)[k] = s
      BY <3>1
    <3>3. up(q, k) \in 1 .. Len(Line(h, q)) /\ Line(h, q)[up(q, k)] = s
      BY <1>3, <3>2
    <3> HIDE DEF up
    <3> QED BY <3>3, JobIn
  <2>2. Head(T) \in Jobs(h)
    <3>1. 1 \in 1 .. m
      BY <1>2
    <3> QED BY <1>1, <1>2, <3>1, JobIn
  <2>3. ASSUME NEW s \in Jobs(h) PROVE s \in Jobs(g) \/ s = Head(T)
    <3>1. PICK q \in Lines : \E k \in 1 .. Len(Line(h, q)) : Line(h, q)[k] = s
      BY <2>3, JobIn
    <3>2. PICK k \in 1 .. Len(Line(h, q)) : Line(h, q)[k] = s
      BY <3>1
    <3>3. CASE q = 0 /\ k # 1
      <4>1. k - 1 \in 1 .. m - 1 /\ k - 1 + 1 = k
        BY <1>1, <1>2, <3>3
      <4>2. Tail(T)[k - 1] = T[k]
        BY <1>2, <4>1
      <4>3. k - 1 \in 1 .. Len(Line(g, 0)) /\ Line(g, 0)[k - 1] = s
        BY <1>1, <1>2, <3>2, <3>3, <4>1, <4>2
      <4> QED BY <1>1, <4>3, JobIn
    <3>4. CASE q = 0 /\ k = 1
      BY <1>1, <1>2, <3>2, <3>4
    <3>5. CASE q # 0
      BY <1>1, <3>2, <3>5, JobIn
    <3> QED BY <3>3, <3>4, <3>5
  <2> QED BY <2>1, <2>2, <2>3
<1>5. ASSUME NoRivals(h) PROVE NoRivals(g) /\ \A s \in Jobs(g) : ~Rivals(Head(T), s)
  <2>1. ASSUME NEW a \in Lines, NEW b \in Lines,
               NEW k \in 1 .. Len(Line(g, a)), NEW j \in 1 .. Len(Line(g, b)),
               Rivals(Line(g, a)[k], Line(g, b)[j])
        PROVE  a = b /\ k = j
    <3>1. /\ up(a, k) \in 1 .. Len(Line(h, a)) /\ up(b, j) \in 1 .. Len(Line(h, b))
          /\ Rivals(Line(h, a)[up(a, k)], Line(h, b)[up(b, j)])
      BY <1>3, <2>1
    <3>2. a = b /\ up(a, k) = up(b, j)
      BY <1>5, <3>1 DEF NoRivals
    <3> QED BY <1>3, <3>2
  <2>2. ASSUME NEW s \in Jobs(g), Rivals(Head(T), s) PROVE FALSE
    <3>1. PICK q \in Lines : \E k \in 1 .. Len(Line(g, q)) : Line(g, q)[k] = s
      BY <2>2, JobIn
    <3>2. PICK k \in 1 .. Len(Line(g, q)) : Line(g, q)[k] = s
      BY <3>1
    <3>3. up(q, k) \in 1 .. Len(Line(h, q)) /\ Line(h, q)[up(q, k)] = s
          /\ (q = 0 => up(q, k) # 1)
      BY <1>3, <3>2
    <3>4. 1 \in 1 .. Len(Line(h, 0)) /\ Line(h, 0)[1] = Head(T)
      BY <1>1, <1>2
    <3> HIDE DEF up
    <3>5. q = 0 /\ up(q, k) = 1
      BY <1>1, <1>5, <2>2, <3>3, <3>4 DEF NoRivals
    <3> QED BY <3>3, <3>5
  <2>3. NoRivals(g)
    BY <2>1 DEF NoRivals
  <2> QED BY <2>2, <2>3
<1> QED BY <1>4, <1>5 DEF T

LEMMA MovedJobs ==
    ASSUME NEW h, NEW g, NEW p \in Ids, \A q \in Lines : Line(h, q) \in Seq(Job),
           Line(g, 0) = Line(h, 0) \o Line(h, p), Line(g, p) = <<>>,
           \A q \in Lines : q # 0 /\ q # p => Line(g, q) = Line(h, q)
    PROVE  Jobs(g) = Jobs(h) /\ (NoRivals(h) => NoRivals(g))
<1> DEFINE T == Line(h, 0)
           R == Line(h, p)
           m == Len(T)
           n == Len(R)
<1>1. 0 \in Lines /\ p \in Lines /\ p # 0
  BY IdsAre DEF Lines
<1>2. T \in Seq(Job) /\ R \in Seq(Job) /\ m \in Nat /\ n \in Nat
  <2>1. T \in Seq(Job) /\ R \in Seq(Job)
    BY <1>1
  <2> HIDE DEF T, R
  <2> QED BY <2>1, LenProperties
<1>3. /\ Len(T \o R) = m + n
      /\ \A k \in 1 .. m + n : (T \o R)[k] = IF k <= m THEN T[k] ELSE R[k - m]
  <2> HIDE DEF T, R
  <2> QED BY <1>2, ConcatProperties
<1>4. Len(Line(g, 0)) = m + n /\ \A k \in 1 .. m + n :
          Line(g, 0)[k] = IF k <= m THEN T[k] ELSE R[k - m]
  BY <1>3
<1>5. ASSUME NEW k \in 1 .. Len(Line(g, p)) PROVE FALSE
  <2>1. Len(<<>>) = 0
    OBVIOUS
  <2> QED BY <2>1
\* Where the reaction at place k of line q came from.
<1> DEFINE line(q, k) == IF q = 0 /\ ~(k <= m) THEN p ELSE q
           at(q, k) == IF q = 0 /\ ~(k <= m) THEN k - m ELSE k
<1>6. ASSUME NEW q \in Lines, NEW k \in 1 .. Len(Line(g, q))
      PROVE  /\ line(q, k) \in Lines /\ at(q, k) \in 1 .. Len(Line(h, line(q, k)))
             /\ Line(g, q)[k] = Line(h, line(q, k))[at(q, k)]
             /\ q # p /\ k \in Nat
  <2> HIDE DEF T, R, m, n
  <2>1. q # p
    BY <1>5
  <2>2. CASE q = 0
    <3>1. k \in 1 .. m + n /\ k \in Nat
      BY <1>2, <1>4, <2>2
    <3>2. CASE k <= m
      <4>1. k \in 1 .. m
        BY <1>2, <3>1, <3>2
      <4> QED BY <1>1, <1>4, <2>1, <2>2, <3>1, <3>2, <4>1 DEF m, T
    <3>3. CASE ~(k <= m)
      <4>1. k - m \in 1 .. n
        BY <1>2, <3>1, <3>3
      <4> QED BY <1>1, <1>4, <2>1, <2>2, <3>1, <3>3, <4>1 DEF n, R
    <3> QED BY <3>2, <3>3
  <2>3. CASE q # 0
    <3>1. Line(g, q) = Line(h, q) /\ k \in Nat
      BY <2>1, <2>3
    <3> QED BY <2>1, <2>3, <3>1
  <2> QED BY <2>2, <2>3
<1> HIDE DEF T, R, m, n
<1>7. Jobs(g) = Jobs(h)
  <2>1. ASSUME NEW s \in Jobs(g) PROVE s \in Jobs(h)
    <3>1. PICK q \in Lines : \E k \in 1 .. Len(Line(g, q)) : Line(g, q)[k] = s
      BY <2>1, JobIn
    <3>2. PICK k \in 1 .. Len(Line(g, q)) : Line(g, q)[k] = s
      BY <3>1
    <3>3. /\ line(q, k) \in Lines /\ at(q, k) \in 1 .. Len(Line(h, line(q, k)))
          /\ Line(h, line(q, k))[at(q, k)] = s
      BY <1>6, <3>2
    <3> HIDE DEF line, at
    <3> QED BY <3>3, JobIn
  <2>2. ASSUME NEW s \in Jobs(h) PROVE s \in Jobs(g)
    <3>1. PICK q \in Lines : \E k \in 1 .. Len(Line(h, q)) : Line(h, q)[k] = s
      BY <2>2, JobIn
    <3>2. PICK k \in 1 .. Len(Line(h, q)) : Line(h, q)[k] = s
      BY <3>1
    <3>3. CASE q = 0
      <4>1. k \in 1 .. m /\ T[k] = s
        BY <3>2, <3>3 DEF m, T
      <4>2. k \in 1 .. m + n /\ k <= m
        BY <1>2, <4>1
      <4> QED BY <1>1, <1>4, <4>1, <4>2, JobIn
    <3>4. CASE q = p
      <4>1. k \in 1 .. n /\ R[k] = s
        BY <3>2, <3>4 DEF n, R
      <4> DEFINE i == k + m
      <4>2. i \in 1 .. m + n /\ ~(i <= m) /\ i - m = k
        BY <1>2, <4>1
      <4> HIDE DEF i
      <4>3. Line(g, 0)[i] = R[i - m]
        BY <1>4, <4>2
      <4>4. Line(g, 0)[i] = s /\ i \in 1 .. Len(Line(g, 0))
        BY <1>4, <4>1, <4>2, <4>3
      <4> QED BY <1>1, <4>4, JobIn
    <3>5. CASE q # 0 /\ q # p
      BY <3>2, <3>5, JobIn
    <3> QED BY <3>3, <3>4, <3>5
  <2> QED BY <2>1, <2>2
<1>8. ASSUME NoRivals(h),
             NEW a \in Lines, NEW b \in Lines,
             NEW k \in 1 .. Len(Line(g, a)), NEW j \in 1 .. Len(Line(g, b)),
             Rivals(Line(g, a)[k], Line(g, b)[j])
      PROVE  a = b /\ k = j
  <2>1. /\ line(a, k) \in Lines /\ at(a, k) \in 1 .. Len(Line(h, line(a, k)))
        /\ Line(g, a)[k] = Line(h, line(a, k))[at(a, k)] /\ a # p /\ k \in Nat
    BY <1>6
  <2>2. /\ line(b, j) \in Lines /\ at(b, j) \in 1 .. Len(Line(h, line(b, j)))
        /\ Line(g, b)[j] = Line(h, line(b, j))[at(b, j)] /\ b # p /\ j \in Nat
    BY <1>6
  <2>3. line(a, k) = line(b, j) /\ at(a, k) = at(b, j)
    <3> HIDE DEF line, at
    <3> QED BY <1>8, <2>1, <2>2 DEF NoRivals
  <2> QED BY <1>1, <1>2, <2>1, <2>2, <2>3
<1> QED BY <1>7, <1>8 DEF NoRivals
-----------------------------------------------------------------------------
\* Neither reactions nor outcomes differ.
Alike(h, g) ==
    /\ Jobs(g) = Jobs(h) /\ (NoRivals(h) => NoRivals(g))
    /\ \A x \in Ids : g.proms[x].state = h.proms[x].state

LEMMA ObserveAlike ==
    ASSUME NEW n \in 0 .. MaxPromises, NEW po, NEW h, HeapOk(h, n, po), NEW p \in 1 .. n
    PROVE  /\ Alike(h, Observe(h, p)) /\ Observe(h, p).delivered = h.delivered
           /\ \A x \in Ids : x # p => Observe(h, p).proms[x].observed = h.proms[x].observed
<1> DEFINE g == Observe(h, p)
<1>1. h \in Heap /\ Linked(h.proms, h.unhandled) /\ p \in Ids
  BY IdsAre DEF HeapOk
<1>2. Marked(h, p, g)
  BY <1>1, ObserveMarks
<1> HIDE DEF g
<1>3. \A q \in Lines : Line(g, q) = Line(h, q)
  <2>1. \A q \in Lines : q = 0 \/ q \in Ids
    BY IdsAre DEF Lines
  <2> QED BY <1>2, <2>1 DEF Line, Marked
<1>4. Alike(h, g)
  BY <1>2, <1>3, SameJobs DEF Alike, Marked
<1>5. g.delivered = h.delivered
      /\ \A x \in Ids : x # p => g.proms[x].observed = h.proms[x].observed
  BY <1>2 DEF Marked
<1> QED BY <1>4, <1>5 DEF g

LEMMA DeliverAlike ==
    ASSUME NEW n \in 0 .. MaxPromises, NEW po, NEW h, HeapOk(h, n, po), NEW q \in 0 .. n
    PROVE  /\ Alike(h, Deliver(h, q)) /\ Deliver(h, q).proms = h.proms
           /\ h.delivered \subseteq Deliver(h, q).delivered
           /\ Deliver(h, q).tasks = h.tasks
           /\ q # 0 => q \in Deliver(h, q).delivered
<1> DEFINE g == Deliver(h, q)
           d == h.delivered \cup {q}
<1>1. g = IF q = 0 THEN h ELSE [h EXCEPT !.delivered = d]
  BY DEF Deliver
<1>2. h \in Heap
  BY DEF HeapOk
<1> HIDE DEF d
<1>3. /\ [h EXCEPT !.delivered = d].proms = h.proms /\ [h EXCEPT !.delivered = d].tasks = h.tasks
      /\ [h EXCEPT !.delivered = d].delivered = d
  BY <1>2 DEF Heap
<1> HIDE DEF g
<1>4. g.proms = h.proms /\ g.tasks = h.tasks /\ h.delivered \subseteq g.delivered
      /\ (q # 0 => q \in g.delivered)
  BY <1>1, <1>3 DEF d
<1>5. \A p \in Lines : Line(g, p) = Line(h, p)
  BY <1>4 DEF Line
<1>6. Alike(h, g)
  BY <1>4, <1>5, SameJobs DEF Alike
<1> QED BY <1>4, <1>6 DEF g

\* A reaction was added.
Added(h, r, g) ==
    /\ Jobs(g) = Jobs(h) \cup {r}
    /\ NoRivals(h) /\ (\A s \in Jobs(h) : ~Rivals(r, s)) => NoRivals(g)
    /\ g.delivered = h.delivered
    /\ \A x \in Ids : /\ g.proms[x].state = h.proms[x].state
                      /\ g.proms[x].observed = h.proms[x].observed

LEMMA ReactAdds ==
    ASSUME NEW n \in 0 .. MaxPromises, NEW po, NEW h, HeapOk(h, n, po), NEW p \in 1 .. n,
           NEW r \in Job
    PROVE  Added(h, r, React(h, p, r))
<1> DEFINE g == React(h, p, r)
           P == [h.proms EXCEPT ![p].reactions = Append(h.proms[p].reactions, r)]
<1>1. h \in Heap /\ p \in Ids /\ p \in Lines /\ p # 0 /\ h.proms \in [Ids -> Promise]
  <2>1. h \in Heap /\ p \in Ids /\ p \in Lines /\ p # 0
    BY IdsAre DEF HeapOk, Lines
  <2> QED BY <2>1, HeapParts
<1>2. g = [h EXCEPT !.proms = P]
  BY DEF React
<1>3. ASSUME NEW x \in Ids
      PROVE  /\ P[x].state = h.proms[x].state /\ P[x].observed = h.proms[x].observed
             /\ P[x].reactions = IF x = p THEN Append(h.proms[p].reactions, r)
                                 ELSE h.proms[x].reactions
  <2>1. h.proms[x] \in Promise
    BY <1>1
  <2> QED BY <1>1, <2>1 DEF Promise
<1> HIDE DEF P
<1>4. g.proms = P /\ g.tasks = h.tasks /\ g.delivered = h.delivered
  BY <1>1, <1>2 DEF Heap
<1> HIDE DEF g
<1>5. Line(g, p) = Append(Line(h, p), r) /\ \A q \in Lines : q # p => Line(g, q) = Line(h, q)
  <2>1. \A q \in Lines : q = 0 \/ q \in Ids
    BY IdsAre DEF Lines
  <2> QED BY <1>1, <1>3, <1>4, <2>1 DEF Line
<1>6. \A q \in Lines : Line(h, q) \in Seq(Job)
  BY LinesAre
<1>7. /\ Jobs(g) = Jobs(h) \cup {r}
      /\ NoRivals(h) /\ (\A s \in Jobs(h) : ~Rivals(r, s)) => NoRivals(g)
  BY <1>1, <1>5, <1>6, MoreJobs
<1>8. Added(h, r, g)
  BY <1>3, <1>4, <1>7 DEF Added
<1> QED BY <1>8 DEF g

LEMMA EnqueueAdds ==
    ASSUME NEW n \in 0 .. MaxPromises, NEW po, NEW h, HeapOk(h, n, po), NEW r \in Job
    PROVE  Added(h, r, Enqueue(h, r))
<1> DEFINE g == Enqueue(h, r)
           T == Append(h.tasks, r)
<1>1. h \in Heap /\ 0 \in Lines
  BY IdsAre DEF HeapOk, Lines
<1>2. g = [h EXCEPT !.tasks = T]
  BY DEF Enqueue
<1> HIDE DEF T
<1>3. [h EXCEPT !.tasks = T].proms = h.proms /\ [h EXCEPT !.tasks = T].tasks = T
      /\ [h EXCEPT !.tasks = T].delivered = h.delivered
  BY <1>1 DEF Heap
<1>4. g.proms = h.proms /\ g.tasks = T /\ g.delivered = h.delivered
  BY <1>2, <1>3
<1> HIDE DEF g
<1>5. Line(g, 0) = Append(Line(h, 0), r) /\ \A q \in Lines : q # 0 => Line(g, q) = Line(h, q)
  BY <1>4 DEF Line, T
<1>6. \A q \in Lines : Line(h, q) \in Seq(Job)
  BY LinesAre
<1>7. /\ Jobs(g) = Jobs(h) \cup {r}
      /\ NoRivals(h) /\ (\A s \in Jobs(h) : ~Rivals(r, s)) => NoRivals(g)
  BY <1>1, <1>5, <1>6, MoreJobs
<1>8. Added(h, r, g)
  BY <1>4, <1>7 DEF Added
<1> QED BY <1>8 DEF g

\* A promise was settled, if it was pending.
Decided(h, p, g) ==
    /\ Jobs(g) = Jobs(h) /\ (NoRivals(h) => NoRivals(g))
    /\ g.delivered = h.delivered /\ g.proms[p].state # "pending"
    /\ \A x \in Ids : /\ x # p => g.proms[x].state = h.proms[x].state
                      /\ g.proms[x].observed = h.proms[x].observed

LEMMA SettleDecides ==
    ASSUME NEW n \in 0 .. MaxPromises, NEW po, NEW h, HeapOk(h, n, po), NEW p \in 1 .. n,
           NEW state \in {"fulfilled", "rejected"}, NEW reason \in 0 .. MaxPromises
    PROVE  Decided(h, p, Settle(h, p, state, reason))
<1> DEFINE g == Settle(h, p, state, reason)
<1>1. CASE h.proms[p].state # "pending"
  <2>1. g = h
    BY <1>1 DEF Settle
  <2> QED BY <1>1, <2>1 DEF Decided
<1>2. CASE h.proms[p].state = "pending"
  <2>1. p \in Ids /\ p # 0
    BY IdsAre
  <2>2. Settled(h, p, state, reason, g)
    BY <1>2, SettleMoves
  <2> HIDE DEF g
  <2>3. /\ Line(g, 0) = Line(h, 0) \o Line(h, p) /\ Line(g, p) = <<>>
        /\ \A q \in Lines : q # 0 /\ q # p => Line(g, q) = Line(h, q)
    <3>1. \A q \in Lines : q = 0 \/ q \in Ids
      BY IdsAre DEF Lines
    <3> QED BY <2>1, <2>2, <3>1 DEF Line, Settled
  <2>4. \A q \in Lines : Line(h, q) \in Seq(Job)
    BY LinesAre
  <2>5. Jobs(g) = Jobs(h) /\ (NoRivals(h) => NoRivals(g))
    BY <2>1, <2>3, <2>4, MovedJobs
  <2>6. g.delivered = h.delivered /\ g.proms[p].state # "pending"
    BY <2>2 DEF Settled
  <2>7. \A x \in Ids : /\ x # p => g.proms[x].state = h.proms[x].state
                       /\ g.proms[x].observed = h.proms[x].observed
    BY <2>2 DEF Settled
  <2>8. Decided(h, p, g)
    BY <2>5, <2>6, <2>7 DEF Decided
  <2> QED BY <2>8 DEF g
<1> QED BY <1>1, <1>2

LEMMA TakeRemoves ==
    ASSUME NEW n \in 0 .. MaxPromises, NEW po, HeapOk(heap, n, po), heap.tasks # <<>>
    PROVE  /\ Jobs(heap) = Jobs(Taken) \cup {Task}
           /\ NoRivals(heap) => NoRivals(Taken) /\ \A s \in Jobs(Taken) : ~Rivals(Task, s)
           /\ Taken.proms = heap.proms /\ Taken.delivered = heap.delivered
<1> DEFINE T == Tail(heap.tasks)
           g == Taken
<1>1. heap \in Heap
  BY DEF HeapOk
<1>2. g = [heap EXCEPT !.tasks = T]
  BY DEF Taken
<1> HIDE DEF T
<1>3. [heap EXCEPT !.tasks = T].proms = heap.proms /\ [heap EXCEPT !.tasks = T].tasks = T
      /\ [heap EXCEPT !.tasks = T].delivered = heap.delivered
  BY <1>1 DEF Heap
<1>4. g.proms = heap.proms /\ g.tasks = Tail(heap.tasks) /\ g.delivered = heap.delivered
  BY <1>2, <1>3 DEF T
<1> HIDE DEF g
<1>5. \A q \in Lines : Line(heap, q) \in Seq(Job)
  BY LinesAre
<1>6. /\ Jobs(heap) = Jobs(g) \cup {Head(heap.tasks)}
      /\ NoRivals(heap) => NoRivals(g) /\ \A s \in Jobs(g) : ~Rivals(Head(heap.tasks), s)
  BY <1>4, <1>5, FewerJobs
<1> QED BY <1>4, <1>6 DEF g, Task

\* Resolving p: a reaction of another promise carries it on, or it is settled; and a
\* promise whose outcome it takes is pursued.
Passed(h, p, g) ==
    /\ NoRivals(g)
    /\ \/ /\ \E r \in Job : /\ Jobs(g) = Jobs(h) \cup {r} /\ r.kind = "follow" /\ r.result = p
                            /\ r.co = NoCo /\ ~r.onFulfilled /\ ~r.onRejected
          /\ \A x \in Ids : g.proms[x].state = h.proms[x].state
       \/ /\ Jobs(g) = Jobs(h)
          /\ \A x \in Ids : x # p => g.proms[x].state = h.proms[x].state
          /\ g.proms[p].state # "pending"
    /\ h.delivered \subseteq g.delivered
    /\ ~Reresolves =>
          \A x \in Ids : g.proms[x].observed =>
              h.proms[x].observed \/ x \in g.delivered \/ x \in Watching(g)

LEMMA ResolvePasses ==
    ASSUME NEW n \in 0 .. MaxPromises, NEW po, NEW h, HeapOk(h, n, po), NoRivals(h),
           NEW p \in 1 .. n, ~Reresolves => p \notin Settling(h) /\ h.proms[p].state = "pending",
           NEW q \in 0 .. n
    PROVE  Passed(h, p, ResolveInto(h, p, q))
<1> DEFINE g == ResolveInto(h, p, q)
           seen == Observe(h, q)
<1>0. 0 \in 0 .. MaxPromises /\ n \in Nat /\ p \in Ids /\ p \in 0 .. MaxPromises
  BY IdsAre
<1>1. CASE q = 0
  <2>1. g = Settle(h, p, "fulfilled", 0)
    BY <1>1 DEF ResolveInto
  <2>2. Decided(h, p, g)
    BY <1>0, <2>1, SettleDecides
  <2> HIDE DEF g
  <2>3. Passed(h, p, g)
    BY <2>2 DEF Decided, Passed
  <2> QED BY <2>3 DEF g
<1>2. CASE q # 0
  <2>1. q \in 1 .. n /\ q \in Ids
    BY <1>0, <1>2, IdsAre
  <2>2. HeapOk(seen, n, po) /\ \A x \in Ids : seen.proms[x].reason = h.proms[x].reason
    BY <2>1, Observed
  <2>3. /\ Alike(h, seen) /\ seen.delivered = h.delivered
        /\ \A x \in Ids : x # q => seen.proms[x].observed = h.proms[x].observed
    BY <2>1, ObserveAlike
  <2> HIDE DEF seen
  <2>4. /\ NoRivals(seen) /\ Jobs(seen) = Jobs(h)
        /\ ~Reresolves => seen.proms[p].state = "pending"
        /\ \A x \in Ids : seen.proms[x].state = h.proms[x].state
    BY <1>0, <2>3 DEF Alike
  <2>5. CASE seen.proms[q].state = "pending"
    <3> DEFINE r == Reaction("follow", q, FALSE, FALSE, p, NoCo)
    <3>1. r \in Job
      <4>1. q \in 0 .. MaxPromises /\ NoCo \in Coroutines \cup {NoCo}
        BY <1>0, IdsAre
      <4> QED BY <1>0, <4>1 DEF Reaction, Job
    <3>2. r.kind = "follow" /\ r.result = p /\ r.co = NoCo /\ r.on = q
          /\ ~r.onFulfilled /\ ~r.onRejected
      BY DEF Reaction
    <3>3. g = React(seen, q, r)
      BY <1>2, <2>5 DEF ResolveInto, seen
    <3> HIDE DEF r
    <3>4. Added(seen, r, g)
      BY <2>1, <2>2, <3>1, <3>3, ReactAdds
    <3>5. \A s \in Jobs(seen) : ~Rivals(r, s)
      BY <2>4, <3>2 DEF Rivals, Settling
    <3> HIDE DEF g
    <3>6. q \in Watching(g)
      BY <3>2, <3>4 DEF Added, Watching
    <3>7. Passed(h, p, g)
      <4>1. NoRivals(g) /\ Jobs(g) = Jobs(h) \cup {r}
        BY <2>4, <3>4, <3>5 DEF Added
      <4>2. \A x \in Ids : g.proms[x].state = h.proms[x].state
        BY <2>4, <3>4 DEF Added
      <4>3. h.delivered \subseteq g.delivered
        BY <2>3, <3>4 DEF Added
      <4>4. ASSUME NEW x \in Ids, g.proms[x].observed
            PROVE  h.proms[x].observed \/ x \in g.delivered \/ x \in Watching(g)
        BY <2>3, <3>4, <3>6, <4>4 DEF Added
      <4> QED BY <3>1, <3>2, <4>1, <4>2, <4>3, <4>4 DEF Passed
    <3> QED BY <3>7 DEF g
  <2>6. CASE seen.proms[q].state # "pending"
    <3> DEFINE f == Forward(seen, q, p)
               state == seen.proms[q].state
               reason == seen.proms[q].reason
    <3>1. f = Deliver(seen, q) \/ (Reresolves /\ f = seen)
      BY <1>2, <2>4 DEF Forward, Deliver
    <3>2. HeapOk(f, n, po)
      BY <2>1, <2>2, <3>1, Delivered, <1>0
    <3>3. /\ Alike(seen, f) /\ f.proms = seen.proms /\ seen.delivered \subseteq f.delivered
          /\ q \in f.delivered \/ Reresolves
      <4>1. CASE f = seen /\ Reresolves
        BY <4>1 DEF Alike
      <4>2. CASE f = Deliver(seen, q)
        BY <1>2, <2>2, <4>2, DeliverAlike
      <4> QED BY <3>1, <4>1, <4>2
    <3>4. state \in {"fulfilled", "rejected"} /\ reason \in 0 .. MaxPromises
      <4>1. seen \in Heap
        BY <2>2 DEF HeapOk
      <4> QED BY <2>1, <2>6, <4>1, HeapParts
    <3>5. g = Settle(f, p, state, reason)
      BY <1>2, <2>6 DEF ResolveInto, seen
    <3> HIDE DEF f, state, reason, g
    <3>6. Decided(f, p, g)
      BY <3>2, <3>4, <3>5, SettleDecides
    <3>7. NoRivals(g) /\ Jobs(g) = Jobs(h)
      BY <2>4, <3>3, <3>6 DEF Alike, Decided
    <3>8. g.proms[p].state # "pending"
          /\ \A x \in Ids : x # p => g.proms[x].state = h.proms[x].state
      BY <2>4, <3>3, <3>6 DEF Decided
    <3>9. h.delivered \subseteq g.delivered /\ (q \in g.delivered \/ Reresolves)
      BY <2>3, <3>3, <3>6 DEF Decided
    <3>10. ASSUME ~Reresolves, NEW x \in Ids, g.proms[x].observed
           PROVE  h.proms[x].observed \/ x \in g.delivered \/ x \in Watching(g)
      BY <2>3, <3>3, <3>6, <3>9, <3>10 DEF Decided
    <3>11. Passed(h, p, g)
      BY <3>7, <3>8, <3>9, <3>10 DEF Passed
    <3> QED BY <3>11 DEF g
  <2> QED BY <2>5, <2>6
<1> QED BY <1>1, <1>2
-----------------------------------------------------------------------------
\* t is the stack s with activation f entered on top of it.
Atop(f, s, t) ==
    /\ Handling(t) = Handling(s) \cup (IF f.kind = "handler" THEN {f.p} ELSE {})
    /\ Entering(t) = Entering(s) \cup (IF f.kind = "co" THEN {f.co} ELSE {})
    /\ Blocked(t) = Blocked(s) \cup (IF f.kind = "block" THEN {f.p} ELSE {})
    /\ NoDoubles(t) <=> /\ NoDoubles(s)
                        /\ f.kind = "handler" /\ ~Reresolves => f.p \notin Handling(s)
                        /\ f.kind = "co" => f.co \notin Entering(s)

LEMMA OneMore ==
    ASSUME NEW s, NEW t, NEW f, Len(s) \in Nat, Len(t) = Len(s) + 1, t[1] = f,
           \A i \in 1 .. Len(s) : t[i + 1] = s[i]
    PROVE  Atop(f, s, t)
<1> DEFINE m == Len(s)
<1>1. /\ m \in Nat /\ Len(t) = m + 1 /\ 1 \in 1 .. m + 1
      /\ \A i \in 1 .. m : i + 1 \in 1 .. m + 1 /\ t[i + 1] = s[i]
      /\ \A i \in 1 .. m + 1 : i = 1 \/ (i - 1 \in 1 .. m /\ i - 1 + 1 = i)
  OBVIOUS
<1> HIDE DEF m
<1>2. ASSUME NEW i \in 1 .. m + 1
      PROVE  \/ i = 1 /\ t[i] = f
             \/ \E j \in 1 .. m : i = j + 1 /\ t[i] = s[j]
  <2>1. CASE i = 1
    BY <2>1
  <2>2. CASE i # 1
    <3>1. i - 1 \in 1 .. m /\ i = i - 1 + 1
      BY <1>1, <2>2
    <3>2. t[i - 1 + 1] = s[i - 1]
      BY <1>1, <3>1
    <3> QED BY <3>1, <3>2
  <2> QED BY <2>1, <2>2
<1> DEFINE Acts(u, n, kind) == {u[i] : i \in {k \in 1 .. n : u[k].kind = kind}}
           Its(kind) == IF f.kind = kind THEN {f} ELSE {}
<1>3. ASSUME NEW kind
      PROVE  Acts(t, m + 1, kind) = Acts(s, m, kind) \cup Its(kind)
  <2>1. ASSUME NEW g \in Acts(t, m + 1, kind) PROVE g \in Acts(s, m, kind) \cup Its(kind)
    <3>1. PICK i \in 1 .. m + 1 : t[i] = g /\ g.kind = kind
      BY <2>1
    <3> QED BY <1>2, <3>1
  <2>2. ASSUME NEW g \in Acts(s, m, kind) PROVE g \in Acts(t, m + 1, kind)
    <3>1. PICK j \in 1 .. m : s[j] = g /\ g.kind = kind
      BY <2>2
    <3>2. j + 1 \in 1 .. m + 1 /\ t[j + 1] = g
      BY <1>1, <3>1
    <3> QED BY <3>1, <3>2
  <2>3. ASSUME NEW g \in Its(kind) PROVE g \in Acts(t, m + 1, kind)
    <3>1. g = f /\ g.kind = kind /\ t[1] = g /\ 1 \in 1 .. m + 1
      BY <1>1, <2>3
    <3> QED BY <3>1
  <2> QED BY <2>1, <2>2, <2>3
<1>4. /\ Handling(s) = {g.p : g \in Acts(s, m, "handler")}
      /\ Entering(s) = {g.co : g \in Acts(s, m, "co")}
      /\ Blocked(s) = {g.p : g \in Acts(s, m, "block")}
  BY DEF Handling, Entering, Blocked, m
<1>5. /\ Handling(t) = {g.p : g \in Acts(t, m + 1, "handler")}
      /\ Entering(t) = {g.co : g \in Acts(t, m + 1, "co")}
      /\ Blocked(t) = {g.p : g \in Acts(t, m + 1, "block")}
  BY <1>1 DEF Handling, Entering, Blocked
<1> HIDE DEF Acts
<1>10. Handling(t) = Handling(s) \cup (IF f.kind = "handler" THEN {f.p} ELSE {})
  BY <1>3, <1>4, <1>5
<1>11. Entering(t) = Entering(s) \cup (IF f.kind = "co" THEN {f.co} ELSE {})
  BY <1>3, <1>4, <1>5
<1>12. Blocked(t) = Blocked(s) \cup (IF f.kind = "block" THEN {f.p} ELSE {})
  BY <1>3, <1>4, <1>5
<1> DEFINE Apt == /\ f.kind = "handler" /\ ~Reresolves => f.p \notin Handling(s)
                  /\ f.kind = "co" => f.co \notin Entering(s)
<1>6. Apt <=> \A j \in 1 .. m : ~Doubles(f, s[j])
  BY DEF Handling, Entering, Doubles, m
<1>7. ASSUME NEW j \in 1 .. m PROVE j \in Nat /\ j + 1 # 1 /\ j + 1 \in 1 .. m + 1
  BY <1>1
<1>8. ASSUME NoDoubles(t) PROVE NoDoubles(s) /\ Apt
  <2>1. ASSUME NEW i \in 1 .. m, NEW j \in 1 .. m, Doubles(s[i], s[j]) PROVE i = j
    <3>1. i + 1 \in 1 .. m + 1 /\ j + 1 \in 1 .. m + 1 /\ Doubles(t[i + 1], t[j + 1])
      BY <1>1, <2>1
    <3>2. i + 1 = j + 1
      BY <1>1, <1>8, <3>1 DEF NoDoubles
    <3> QED BY <1>7, <3>2
  <2>2. ASSUME NEW j \in 1 .. m, Doubles(f, s[j]) PROVE FALSE
    <3>1. j + 1 \in 1 .. m + 1 /\ Doubles(t[1], t[j + 1])
      BY <1>1, <2>2
    <3>2. 1 = j + 1
      BY <1>1, <1>8, <3>1 DEF NoDoubles
    <3> QED BY <1>7, <3>2
  <2> HIDE DEF Apt
  <2> QED BY <1>6, <2>1, <2>2 DEF NoDoubles, m
<1>9. ASSUME NoDoubles(s), Apt PROVE NoDoubles(t)
  <2>1. \A j \in 1 .. m : ~Doubles(f, s[j]) /\ ~Doubles(s[j], f)
    BY <1>6, <1>9 DEF Doubles
  <2> SUFFICES ASSUME NEW i \in 1 .. m + 1, NEW j \in 1 .. m + 1, Doubles(t[i], t[j])
               PROVE  i = j
    BY <1>1 DEF NoDoubles
  <2>2. CASE i = 1 \/ j = 1
    BY <1>2, <2>1, <2>2
  <2>3. CASE i # 1 /\ j # 1
    <3>1. PICK a \in 1 .. m : i = a + 1 /\ t[i] = s[a]
      BY <1>2, <2>3
    <3>2. PICK b \in 1 .. m : j = b + 1 /\ t[j] = s[b]
      BY <1>2, <2>3
    <3>3. a = b
      BY <1>9, <3>1, <3>2 DEF NoDoubles, m
    <3> QED BY <3>1, <3>2, <3>3
  <2> QED BY <2>2, <2>3
<1> QED BY <1>10, <1>11, <1>12, <1>8, <1>9 DEF Atop

LEMMA PushAtop ==
    ASSUME NEW S, NEW s \in Seq(S), NEW f
    PROVE  Atop(f, s, <<f>> \o s)
<1> DEFINE t == <<f>> \o s
<1>1. s \in Seq(S \cup {f}) /\ f \in S \cup {f}
  BY SeqMonotonic
<1>2. /\ Len(s) \in Nat /\ Len(t) = Len(s) + 1 /\ t[1] = f
      /\ \A i \in 2 .. Len(s) + 1 : t[i] = s[i - 1]
  BY <1>1, Pushed
<1> HIDE DEF t
<1>3. \A i \in 1 .. Len(s) : i + 1 \in 2 .. Len(s) + 1 /\ i + 1 - 1 = i
  BY <1>2
<1>4. \A i \in 1 .. Len(s) : t[i + 1] = s[i]
  BY <1>2, <1>3
<1>5. Atop(f, s, t)
  BY <1>2, <1>4, OneMore
<1> QED BY <1>5 DEF t

LEMMA PopAtop ==
    ASSUME NEW S, NEW s \in Seq(S), s # <<>>
    PROVE  Atop(Head(s), Tail(s), s)
<1>1. /\ Len(s) \in Nat /\ Len(s) > 0 /\ Head(s) = s[1] /\ Len(Tail(s)) = Len(s) - 1
      /\ \A i \in 1 .. Len(s) - 1 : Tail(s)[i] = s[i + 1]
  BY Shortened
<1>2. Len(Tail(s)) \in Nat /\ Len(s) = Len(Tail(s)) + 1
      /\ \A i \in 1 .. Len(Tail(s)) : s[i + 1] = Tail(s)[i]
  BY <1>1
<1> QED BY <1>1, <1>2, OneMore

LEMMA BareStack ==
    /\ Handling(<<>>) = {} /\ Entering(<<>>) = {} /\ Blocked(<<>>) = {}
    /\ NoDoubles(<<>>)
<1>1. Len(<<>>) = 0 /\ ~ \E k \in 1 .. 0 : TRUE
  OBVIOUS
<1> QED BY <1>1 DEF Handling, Entering, Blocked, NoDoubles
-----------------------------------------------------------------------------
LEMMA StackWithin ==
    ASSUME NEW n \in 0 .. MaxPromises, NEW po, NEW s \in Seq(Frames(n, po))
    PROVE  Handling(s) \subseteq 1 .. n /\ Entering(s) \subseteq Coroutines /\ Len(s) \in Nat
<1>1. Len(s) \in Nat /\ \A i \in 1 .. Len(s) : s[i] \in Frames(n, po)
  BY LenProperties, ElementOfSeq
<1>2. n \in Nat
  BY IdsAre
<1> QED BY <1>1, <1>2 DEF Handling, Entering, Frames, Running

(* Resolving or settling p hands it from whoever owned it to a reaction, or     *)
(* leaves it settled.                                                           *)
LEMMA PassKeeps ==
    ASSUME NEW n \in 0 .. MaxPromises, NEW po, NEW h, HeapOk(h, n, po), NEW g,
           NEW a, NEW o, o \subseteq 1 .. n, NEW s \in Seq(Frames(n, po)), NEW c,
           Owned(h, o, s, c, po, n, a), NEW p \in 1 .. n, Passed(h, p, g),
           ~Reresolves => p \notin Settling(h) /\ h.proms[p].state = "pending",
           NEW o2, NEW s2, NEW c2,
           o2 \subseteq o, Handling(s2) \subseteq Handling(s), Entering(s2) \subseteq Entering(s),
           Blocked(s) \subseteq Blocked(s2), NoDoubles(s2),
           \A d \in Coroutines :
               \/ c2[d] = c[d]
               \/ c[d] = "active" /\ c2[d] = "done" /\ po[d] = p /\ d \notin Entering(s2),
           ~Reresolves => p \notin o2 /\ p \notin Handling(s2), p \notin Bodies(c2, po)
    PROVE  Owned(g, o2, s2, c2, po, n, a)
<1>1. /\ NoRivals(h) /\ Plain(h) /\ NoDoubles(s) /\ CallsOwn(c, po, n) /\ Scheduled(h, s, c)
      /\ BodiesApart(h, o, s, c, po) /\ Settlers(h, o, s, c, po)
      /\ Pursued(h, s, a) /\ Returned(h, c, po)
  BY DEF Owned
<1>2. Settling(h) \subseteq 1 .. n /\ Following(h) \subseteq Settling(h) /\ 1 .. n \subseteq Ids
      /\ p \in Ids
  <2>1. 1 .. n \subseteq Ids
    BY IdsAre
  <2> QED BY <2>1, JobsAre
<1>3. /\ \A r \in Jobs(h) : r \in Jobs(g)
      /\ \A r \in Jobs(g) : \/ r \in Jobs(h)
                            \/ /\ r.kind = "follow" /\ r.result = p /\ r.co = NoCo
                               /\ ~r.onFulfilled /\ ~r.onRejected
                               /\ p \in Settling(g) /\ p \in Following(g)
                               /\ \A x \in Ids : g.proms[x].state = h.proms[x].state
      /\ \/ g.proms[p].state # "pending" /\ (~Reresolves => p \notin Settling(g))
         \/ p \in Following(g) /\ \A x \in Ids : g.proms[x].state = h.proms[x].state
      /\ \A x \in Ids : x # p => g.proms[x].state = h.proms[x].state
  <2>1. CASE Jobs(g) = Jobs(h)
    <3>1. g.proms[p].state # "pending" \/ p \in Following(g)
      BY <2>1 DEF Passed, Following
    <3> QED BY <2>1, <3>1 DEF Passed, Following, Settling
  <2>2. CASE /\ \E r \in Job : /\ Jobs(g) = Jobs(h) \cup {r} /\ r.kind = "follow" /\ r.result = p
                               /\ r.co = NoCo /\ ~r.onFulfilled /\ ~r.onRejected
             /\ \A x \in Ids : g.proms[x].state = h.proms[x].state
    <3>1. PICK r \in Job : /\ Jobs(g) = Jobs(h) \cup {r} /\ r.kind = "follow" /\ r.result = p
                           /\ r.co = NoCo /\ ~r.onFulfilled /\ ~r.onRejected
      BY <2>2
    <3>2. p \in Following(g) /\ p \in Settling(g)
      BY <3>1 DEF Following, Settling
    <3> QED BY <2>2, <3>1, <3>2
  <2> QED BY <2>1, <2>2 DEF Passed
<1>4. NoRivals(g) /\ Plain(g)
  <2>1. NoRivals(g)
    BY DEF Passed
  <2>2. Plain(g)
    BY <1>1, <1>3 DEF Plain
  <2> QED BY <2>1, <2>2
<1>5. /\ Settling(h) \subseteq Settling(g) /\ Settling(g) \subseteq Settling(h) \cup {p}
      /\ Waking(g) = Waking(h) /\ Following(h) \subseteq Following(g)
      /\ Watching(h) \subseteq Watching(g)
  <2>1. Settling(h) \subseteq Settling(g) /\ Settling(g) \subseteq Settling(h) \cup {p}
    BY <1>3 DEF Settling
  <2>2. Waking(g) = Waking(h)
    BY <1>3 DEF Waking
  <2>3. Following(h) \subseteq Following(g) /\ Watching(h) \subseteq Watching(g)
    BY <1>3 DEF Following, Watching
  <2> QED BY <2>1, <2>2, <2>3
<1>6. CallsOwn(c2, po, n) /\ Bodies(c2, po) \subseteq Bodies(c, po)
  <2>1. \A d \in Coroutines : c2[d] # "idle" => c[d] # "idle"
    OBVIOUS
  <2>2. CallsOwn(c2, po, n)
    BY <1>1, <2>1 DEF CallsOwn
  <2>3. \A d \in Coroutines : c2[d] \in {"active", "waiting"} => c[d] \in {"active", "waiting"}
    OBVIOUS
  <2> QED BY <2>2, <2>3 DEF Bodies
<1>7. Scheduled(g, s2, c2)
  BY <1>1, <1>5 DEF Scheduled
<1>8. BodiesApart(g, o2, s2, c2, po)
  <2>1. Bodies(c, po) \subseteq Ids
    BY <1>1, <1>2 DEF CallsOwn, Bodies
  <2>2. Bodies(c2, po) \cap Settling(h) = {} /\ Bodies(c2, po) \cap o2 = {}
        /\ Bodies(c2, po) \cap Handling(s2) = {}
    BY <1>1, <1>6 DEF BodiesApart
  <2>3. p \notin Bodies(c2, po)
    OBVIOUS
  <2>4. \A x \in Bodies(c2, po) : g.proms[x].state = "pending"
    BY <1>1, <1>3, <1>6, <2>1, <2>3 DEF BodiesApart
  <2> QED BY <1>5, <2>2, <2>3, <2>4 DEF BodiesApart
<1>9. Settlers(g, o2, s2, c2, po)
  <2> SUFFICES ASSUME ~Reresolves
               PROVE  /\ Apart(Settling(g), o2, Handling(s2), Bodies(c2, po))
                      /\ \A x \in Settling(g) \cup o2 \cup Handling(s2) \cup Bodies(c2, po) :
                            g.proms[x].state = "pending"
    BY DEF Settlers
  <2>1. Apart(Settling(g), o2, Handling(s2), Bodies(c2, po))
    BY <1>1, <1>5, <1>6 DEF Apart, Settlers
  <2>2. \A x \in Settling(h) \cup o \cup Handling(s) \cup Bodies(c, po) : h.proms[x].state = "pending"
    BY <1>1 DEF Settlers
  <2>3. ASSUME NEW x \in Settling(g) \cup o2 \cup Handling(s2) \cup Bodies(c2, po)
        PROVE  g.proms[x].state = "pending"
    <3>1. CASE x = p
      BY <1>2, <1>3, <3>1
    <3>2. CASE x # p
      <4>1. x \in Settling(h) \cup o \cup Handling(s) \cup Bodies(c, po)
        BY <1>5, <1>6, <3>2
      <4>2. Bodies(c, po) \subseteq 1 .. n /\ Handling(s) \subseteq 1 .. n
        BY <1>1, StackWithin DEF CallsOwn, Bodies
      <4>3. x \in Ids
        BY <1>2, <4>1, <4>2
      <4> QED BY <1>3, <2>2, <3>2, <4>1, <4>3
    <3> QED BY <3>1, <3>2
  <2> QED BY <2>1, <2>3
<1>10. Pursued(g, s2, a)
  <2>1. ASSUME ~Reresolves, NEW x \in Ids, g.proms[x].observed
        PROVE  x \in g.delivered \cup Watching(g) \cup Blocked(s2) \cup a
    <3>1. h.proms[x].observed \/ x \in g.delivered \/ x \in Watching(g)
      BY <2>1 DEF Passed
    <3>2. h.proms[x].observed => x \in h.delivered \cup Watching(h) \cup Blocked(s) \cup a
      BY <1>1, <2>1 DEF Pursued
    <3>3. h.delivered \subseteq g.delivered
      BY DEF Passed
    <3> QED BY <1>5, <3>1, <3>2, <3>3
  <2> QED BY <2>1 DEF Pursued
<1>11. Returned(g, c2, po)
  <2>1. ASSUME NEW d \in Coroutines, c2[d] = "done", g.proms[po[d]].state = "pending"
        PROVE  po[d] \in Following(g)
    <3>1. CASE po[d] = p
      BY <1>3, <2>1, <3>1
    <3>2. CASE po[d] # p
      <4>1. c[d] = "done"
        BY <2>1, <3>2
      <4>2. po[d] \in Ids
        BY <1>1, <1>2, <4>1 DEF CallsOwn
      <4>3. h.proms[po[d]].state = "pending"
        BY <1>3, <2>1, <3>2, <4>2
      <4> QED BY <1>1, <1>5, <4>1, <4>3 DEF Returned
    <3> QED BY <3>1, <3>2
  <2> QED BY <2>1 DEF Returned
<1> QED BY <1>1, <1>4, <1>6, <1>7, <1>8, <1>9, <1>10, <1>11 DEF Owned
-----------------------------------------------------------------------------
Own == Owned(heap, open, stack, co, promiseOf, next, abandoned)

LEMMA SettlePasses ==
    ASSUME NEW n \in 0 .. MaxPromises, NEW po, NEW h, HeapOk(h, n, po), NoRivals(h),
           NEW p \in 1 .. n, NEW state \in {"fulfilled", "rejected"}
    PROVE  Passed(h, p, Settle(h, p, state, p)) /\ Passed(h, p, Settle(h, p, state, 0))
<1>1. p \in 0 .. MaxPromises /\ 0 \in 0 .. MaxPromises
  BY IdsAre
<1>2. ASSUME NEW reason \in 0 .. MaxPromises PROVE Passed(h, p, Settle(h, p, state, reason))
  <2> DEFINE g == Settle(h, p, state, reason)
  <2>1. Decided(h, p, g)
    BY SettleDecides
  <2> HIDE DEF g
  <2>2. Passed(h, p, g)
    BY <2>1 DEF Decided, Passed
  <2> QED BY <2>2 DEF g
<1> QED BY <1>1, <1>2

LEMMA OwnParts ==
    ASSUME Own
    PROVE  /\ NoRivals(heap) /\ Plain(heap) /\ NoDoubles(stack)
           /\ CallsOwn(co, promiseOf, next) /\ Scheduled(heap, stack, co)
           /\ BodiesApart(heap, open, stack, co, promiseOf)
           /\ Bodies(co, promiseOf) \cap (Settling(heap) \cup open \cup Handling(stack)) = {}
           /\ \A x \in Bodies(co, promiseOf) : heap.proms[x].state = "pending"
           /\ Settlers(heap, open, stack, co, promiseOf)
           /\ Pursued(heap, stack, abandoned) /\ Returned(heap, co, promiseOf)
  BY DEF Own, Owned, BodiesApart

(* A program that uses the functions of a promise once has one owner for each   *)
(* pending promise.                                                             *)
LEMMA OneOwner ==
    ASSUME Own, ~Reresolves
    PROVE  /\ Apart(Settling(heap), open, Handling(stack), Bodies(co, promiseOf))
           /\ \A x \in Settling(heap) \cup open \cup Handling(stack) \cup Bodies(co, promiseOf) :
                 heap.proms[x].state = "pending"
  BY DEF Own, Owned, Settlers

(* The functions of a promise are used: nobody holds them any more, unless the  *)
(* program may use them again.                                                  *)
LEMMA ResolveOwned ==
    ASSUME IInv, Own, NEW p \in open,
           Reject(p) \/ \E q \in {0} \cup Known : Resolve(p, q)
    PROVE  Own'
<1> DEFINE o2 == IF Reresolves THEN open ELSE open \ {p}
<1>1. /\ open' = o2 /\ UNCHANGED <<next, co, promiseOf, stack, abandoned>>
      /\ \/ heap' = Settle(heap, p, "rejected", p)
         \/ \E q \in {0} \cup Known : heap' = ResolveInto(heap, p, q)
  BY DEF Reject, Resolve
<1>2. p \in 1 .. next /\ \A q \in {0} \cup Known : q \in 0 .. next
  BY Parts
<1>3. /\ p \notin Bodies(co, promiseOf) /\ NoRivals(heap) /\ NoDoubles(stack)
      /\ ~Reresolves => /\ heap.proms[p].state = "pending" /\ p \notin Settling(heap)
                        /\ p \notin Handling(stack) /\ p \notin o2
      /\ o2 \subseteq open
  BY OwnParts, OneOwner DEF Apart
<1> HIDE DEF o2
<1>4. Passed(heap, p, heap')
  BY <1>1, <1>2, <1>3, Parts, SettlePasses, ResolvePasses
<1>5. Owned(heap', o2, stack, co, promiseOf, next, abandoned)
  BY <1>2, <1>3, <1>4, Parts, PassKeeps DEF Own
<1> QED BY <1>1, <1>5 DEF Own

LEMMA Popped ==
    ASSUME IInv, stack # <<>>
    PROVE  /\ Atop(Head(stack), Tail(stack), stack)
           /\ Tail(stack) \in Seq(Frames(next, promiseOf))
           /\ Handling(stack) \subseteq 1 .. next /\ Entering(stack) \subseteq Coroutines
  BY Parts, Innermost, PopAtop, StackWithin

(* The body of an async function ends, by returning or throwing.                *)
LEMMA BodyEndsOwned ==
    ASSUME IInv, Own, CoThrow \/ \E q \in {0} \cup Known : CoReturn(q)
    PROVE  Own'
<1> DEFINE c == Head(stack).co
           p == promiseOf[c]
           c2 == [co EXCEPT ![c] = "done"]
<1>1. /\ Top("co") /\ co' = c2 /\ stack' = Tail(stack)
      /\ UNCHANGED <<next, open, promiseOf, abandoned>>
      /\ \/ heap' = Settle(heap, p, "rejected", p)
         \/ \E q \in {0} \cup Known : heap' = ResolveInto(heap, p, q)
  BY DEF CoThrow, CoReturn
<1>2. stack # <<>> /\ Head(stack).kind = "co"
  BY <1>1 DEF Top
<1>3. c \in Coroutines /\ p \in 1 .. next /\ \A q \in {0} \cup Known : q \in 0 .. next
  BY <1>2, Parts, Innermost DEF Running
<1>4. /\ Handling(stack) = Handling(Tail(stack)) /\ Blocked(stack) = Blocked(Tail(stack))
      /\ Entering(stack) = Entering(Tail(stack)) \cup {c}
      /\ NoDoubles(stack) => NoDoubles(Tail(stack)) /\ c \notin Entering(Tail(stack))
  BY <1>2, Popped DEF Atop
<1> HIDE DEF c
<1>5. co[c] = "active"
  BY <1>3, <1>4, OwnParts DEF Scheduled
<1>6. p \in Bodies(co, promiseOf)
  BY <1>3, <1>5 DEF Bodies
<1>7. /\ heap.proms[p].state = "pending" /\ p \notin Settling(heap)
      /\ p \notin open /\ p \notin Handling(Tail(stack)) /\ NoRivals(heap)
  BY <1>4, <1>6, OwnParts
<1>8. Passed(heap, p, heap')
  <2> HIDE DEF p
  <2> QED BY <1>1, <1>3, <1>7, Parts, SettlePasses, ResolvePasses
<1>9. \A d \in Coroutines : c2[d] = IF d = c THEN "done" ELSE co[d]
  BY Calls
<1>10. p \notin Bodies(c2, promiseOf)
  <2>1. \A d \in Coroutines : c2[d] \in {"active", "waiting"} =>
            d # c /\ co[d] # "idle" /\ co[c] # "idle"
    BY <1>5, <1>9
  <2> HIDE DEF c2
  <2> QED BY <1>3, <2>1, OwnParts DEF Bodies, CallsOwn
<1>11. \A d \in Coroutines :
          \/ c2[d] = co[d]
          \/ co[d] = "active" /\ c2[d] = "done" /\ promiseOf[d] = p /\ d \notin Entering(Tail(stack))
  BY <1>4, <1>5, <1>9, OwnParts
<1> HIDE DEF p, c2
<1>12. NoDoubles(Tail(stack))
  BY <1>4, OwnParts
<1>13. Owned(heap', open, Tail(stack), c2, promiseOf, next, abandoned)
  BY <1>3, <1>4, <1>7, <1>8, <1>10, <1>11, <1>12, Parts, PassKeeps DEF Own
<1> QED BY <1>1, <1>13 DEF Own

(* A then handler returns: its result passes to the derived promise.            *)
LEMMA HandlerReturnOwned ==
    ASSUME IInv, Own, NEW q \in {0} \cup Known, HandlerReturn(q) PROVE Own'
<1> DEFINE p == Head(stack).p
<1>1. /\ Top("handler") /\ heap' = ResolveInto(heap, p, q) /\ stack' = Tail(stack)
      /\ UNCHANGED <<next, open, co, promiseOf, abandoned>>
  BY DEF HandlerReturn
<1>2. stack # <<>> /\ Head(stack).kind = "handler"
  BY <1>1 DEF Top
<1>3. p \in 1 .. next /\ q \in 0 .. next
  <2>1. p \in 0 .. next /\ p # 0
    BY <1>2, Innermost DEF Running
  <2> QED BY <2>1, Parts
<1>4. /\ Handling(stack) = Handling(Tail(stack)) \cup {p} /\ Blocked(stack) = Blocked(Tail(stack))
      /\ Entering(stack) = Entering(Tail(stack))
      /\ NoDoubles(stack) => NoDoubles(Tail(stack))
      /\ NoDoubles(stack) /\ ~Reresolves => p \notin Handling(Tail(stack))
  BY <1>2, Popped DEF Atop
<1> HIDE DEF p
<1>5. /\ p \notin Bodies(co, promiseOf) /\ NoRivals(heap) /\ NoDoubles(Tail(stack))
      /\ ~Reresolves => /\ heap.proms[p].state = "pending" /\ p \notin Settling(heap)
                        /\ p \notin open /\ p \notin Handling(Tail(stack))
  BY <1>4, OwnParts, OneOwner DEF Apart
<1>6. Passed(heap, p, heap')
  BY <1>1, <1>3, <1>5, Parts, ResolvePasses
<1>7. Owned(heap', open, Tail(stack), co, promiseOf, next, abandoned)
  BY <1>3, <1>4, <1>5, <1>6, Parts, PassKeeps DEF Own
<1> QED BY <1>1, <1>7 DEF Own
-----------------------------------------------------------------------------
(* A promise that is just allocated belongs to nobody yet.                      *)
LEMMA FreshFree ==
    ASSUME IInv, Own, CanAlloc
    PROVE  /\ Fresh \notin Settling(heap) \cup open \cup Handling(stack) \cup Bodies(co, promiseOf)
           /\ Fresh \in Ids /\ heap.proms[Fresh].state = "pending"
           /\ Fresh \in 1 .. Fresh /\ 1 .. next \subseteq 1 .. Fresh
           /\ CallsOwn(co, promiseOf, Fresh)
           /\ \A d \in Coroutines : co[d] # "idle" => promiseOf[d] # Fresh
<1>1. Fresh \in 1 .. MaxPromises /\ 1 .. next \subseteq 1 .. Fresh /\ next \in Nat
  BY Parts, Allocated
<1>2. Fresh \in Nat /\ Fresh > next /\ Fresh \notin 1 .. next /\ Fresh \in 1 .. Fresh
      /\ Fresh \in Ids
  BY <1>1, IdsAre DEF Fresh
<1> HIDE DEF Fresh
<1>3. Settling(heap) \subseteq 1 .. next /\ open \subseteq 1 .. next
      /\ Handling(stack) \subseteq 1 .. next
  BY Parts, JobsAre, StackWithin
<1>4. CallsOwn(co, promiseOf, next)
  BY OwnParts
<1>5. Bodies(co, promiseOf) \subseteq 1 .. next
  BY <1>4 DEF CallsOwn, Bodies
<1>6. heap.proms[Fresh].state = "pending"
  BY <1>2, Parts DEF HeapOk, Unused, Blank
<1>7. CallsOwn(co, promiseOf, Fresh) /\ \A d \in Coroutines : co[d] # "idle" => promiseOf[d] # Fresh
  BY <1>1, <1>2, <1>4 DEF CallsOwn
<1> QED BY <1>1, <1>2, <1>3, <1>5, <1>6, <1>7

LEMMA NewPromiseOwned == ASSUME IInv, Own, NewPromise PROVE Own'
<1>1. /\ heap' = Alloc(heap) /\ CanAlloc /\ next' = Fresh /\ open' = open \cup {Fresh}
      /\ UNCHANGED <<co, promiseOf, stack, abandoned>>
  BY DEF NewPromise
<1>2. heap' = heap
  BY <1>1, Parts, Allocated
<1>3. Settlers(heap, open \cup {Fresh}, stack, co, promiseOf)
  <2> HIDE DEF Fresh
  <2> SUFFICES ASSUME ~Reresolves PROVE Settlers(heap, open \cup {Fresh}, stack, co, promiseOf)
    BY DEF Settlers
  <2>1. Apart(Settling(heap), open \cup {Fresh}, Handling(stack), Bodies(co, promiseOf))
    BY <1>1, FreshFree, OneOwner DEF Apart
  <2> QED BY <1>1, <2>1, FreshFree, OneOwner DEF Settlers
<1>4. BodiesApart(heap, open \cup {Fresh}, stack, co, promiseOf)
  BY <1>1, FreshFree, OwnParts DEF BodiesApart
<1>5. Owned(heap, open \cup {Fresh}, stack, co, promiseOf, Fresh, abandoned)
  BY <1>1, <1>3, <1>4, FreshFree, OwnParts DEF Owned
<1> QED BY <1>1, <1>2, <1>5 DEF Own

LEMMA CallOwned == ASSUME IInv, Own, NEW c \in Coroutines, Call(c) PROVE Own'
<1> DEFINE po == [promiseOf EXCEPT ![c] = Fresh]
           c2 == [co EXCEPT ![c] = "active"]
           s2 == <<Frame("co", 0, c)>> \o stack
<1>1. /\ heap' = Alloc(heap) /\ CanAlloc /\ next' = Fresh /\ co[c] = "idle"
      /\ promiseOf' = po /\ co' = c2 /\ stack' = s2 /\ UNCHANGED <<open, abandoned>>
  BY DEF Call
<1>2. heap' = heap
  BY <1>1, Parts, Allocated
<1>3. \A d \in Coroutines : /\ po[d] = IF d = c THEN Fresh ELSE promiseOf[d]
                            /\ c2[d] = IF d = c THEN "active" ELSE co[d]
  BY Calls
<1>4. /\ Handling(s2) = Handling(stack) /\ Blocked(s2) = Blocked(stack)
      /\ Entering(s2) = Entering(stack) \cup {c}
      /\ NoDoubles(stack) /\ c \notin Entering(stack) => NoDoubles(s2)
  <2>1. Atop(Frame("co", 0, c), stack, s2)
    BY Parts, PushAtop
  <2>2. Frame("co", 0, c).kind = "co" /\ Frame("co", 0, c).co = c
    BY DEF Frame
  <2> HIDE DEF s2
  <2> QED BY <2>1, <2>2 DEF Atop
<1> HIDE DEF po, c2, s2, Fresh
<1>5. c \notin Entering(stack) /\ c \notin Waking(heap)
  BY <1>1, OwnParts DEF Scheduled
<1>6. NoDoubles(s2) /\ Scheduled(heap, s2, c2)
  <2>1. \A d \in Coroutines : c2[d] = "waiting" <=> d \in Waking(heap)
    BY <1>1, <1>3, <1>5, OwnParts DEF Scheduled
  <2>2. \A d \in Coroutines : d \in Entering(s2) => c2[d] = "active"
    BY <1>3, <1>4, OwnParts DEF Scheduled
  <2> QED BY <1>4, <1>5, <2>1, <2>2, OwnParts DEF Scheduled
<1>7. CallsOwn(c2, po, Fresh)
  BY <1>1, <1>3, FreshFree, OwnParts DEF CallsOwn
<1>8. Bodies(c2, po) = Bodies(co, promiseOf) \cup {Fresh}
  BY <1>1, <1>3 DEF Bodies
<1>9. Settlers(heap, open, s2, c2, po) /\ BodiesApart(heap, open, s2, c2, po)
  <2>1. ASSUME ~Reresolves PROVE Settlers(heap, open, s2, c2, po)
    <3>1. Apart(Settling(heap), open, Handling(s2), Bodies(c2, po))
      BY <1>1, <1>4, <1>8, <2>1, FreshFree, OneOwner DEF Apart
    <3> QED BY <1>1, <1>4, <1>8, <2>1, <3>1, FreshFree, OneOwner DEF Settlers
  <2>2. BodiesApart(heap, open, s2, c2, po)
    BY <1>1, <1>4, <1>8, FreshFree, OwnParts DEF BodiesApart
  <2> QED BY <2>1, <2>2 DEF Settlers
<1>10. Pursued(heap, s2, abandoned)
  BY <1>4, OwnParts DEF Pursued
<1>11. Returned(heap, c2, po)
  BY <1>3, OwnParts DEF Returned
<1>12. Owned(heap, open, s2, c2, po, Fresh, abandoned)
  BY <1>6, <1>7, <1>9, <1>10, <1>11, OwnParts DEF Owned
<1> QED BY <1>1, <1>2, <1>12 DEF Own

LEMMA OwnersExist ==
    ASSUME IInv, Own
    PROVE  /\ Settling(heap) \cup open \cup Handling(stack) \cup Bodies(co, promiseOf) \subseteq Ids
           /\ \A d \in Coroutines : co[d] # "idle" => promiseOf[d] \in Ids
<1>1. /\ Settling(heap) \subseteq 1 .. next /\ open \subseteq 1 .. next
      /\ Handling(stack) \subseteq 1 .. next /\ 1 .. next \subseteq Ids
  BY Parts, JobsAre, StackWithin
<1>2. CallsOwn(co, promiseOf, next)
  BY OwnParts
<1>3. Bodies(co, promiseOf) \subseteq 1 .. next
  BY <1>2 DEF CallsOwn, Bodies
<1> QED BY <1>1, <1>2, <1>3 DEF CallsOwn
-----------------------------------------------------------------------------
\* Reaction r was attached, and promise q is observed now.
Joined(h, q, r, g) ==
    /\ Jobs(g) = Jobs(h) \cup {r}
    /\ NoRivals(h) /\ (\A s \in Jobs(h) : ~Rivals(r, s)) => NoRivals(g)
    /\ g.delivered = h.delivered
    /\ \A x \in Ids : /\ g.proms[x].state = h.proms[x].state
                      /\ x # q => g.proms[x].observed = h.proms[x].observed

LEMMA Joins ==
    ASSUME NEW n \in 0 .. MaxPromises, NEW po, NEW h, HeapOk(h, n, po), NEW r \in Job, NEW g
    PROVE  /\ g = Enqueue(h, r) => Joined(h, 0, r, g)
           /\ \A q \in 1 .. n : g \in {React(Observe(h, q), q, r), Enqueue(Observe(h, q), r)} =>
                 Joined(h, q, r, g)
<1>1. ASSUME g = Enqueue(h, r) PROVE Joined(h, 0, r, g)
  <2>1. Added(h, r, g)
    BY <1>1, EnqueueAdds
  <2> QED BY <2>1 DEF Added, Joined
<1>2. ASSUME NEW q \in 1 .. n, g \in {React(Observe(h, q), q, r), Enqueue(Observe(h, q), r)}
      PROVE  Joined(h, q, r, g)
  <2> DEFINE seen == Observe(h, q)
  <2>1. HeapOk(seen, n, po)
    BY Observed
  <2>2. /\ Alike(h, seen) /\ seen.delivered = h.delivered
        /\ \A x \in Ids : x # q => seen.proms[x].observed = h.proms[x].observed
    BY ObserveAlike
  <2> HIDE DEF seen
  <2>3. Added(seen, r, g)
    BY <1>2, <2>1, ReactAdds, EnqueueAdds DEF seen
  <2> QED BY <2>2, <2>3 DEF Alike, Added, Joined
<1> QED BY <1>1, <1>2

LEMMA ThenOwned ==
    ASSUME IInv, Own, NEW p \in Known, NEW f \in BOOLEAN, NEW r \in BOOLEAN, Then(p, f, r)
    PROVE  Own'
<1> DEFINE seen == Observe(heap, p)
           reaction == Reaction("then", p, f, r, Fresh, NoCo)
<1>1. /\ heap' = IF Alloc(seen).proms[p].state = "pending" THEN React(Alloc(seen), p, reaction)
                 ELSE Enqueue(Alloc(seen), reaction)
      /\ next' = Fresh /\ CanAlloc /\ UNCHANGED <<open, co, promiseOf, stack, abandoned>>
  BY DEF Then
<1>2. p \in 1 .. next
  BY Parts
<1>3. HeapOk(seen, next, promiseOf)
  BY <1>2, Parts, Observed
<1>4. Alloc(seen) = seen /\ Fresh \in 1 .. MaxPromises
  BY <1>1, <1>3, Parts, Allocated
<1>5. heap' \in {React(seen, p, reaction), Enqueue(seen, reaction)}
  BY <1>1, <1>4
<1>6. /\ reaction \in Job /\ reaction.kind = "then" /\ reaction.on = p
      /\ reaction.result = Fresh /\ reaction.co = NoCo
  <2>1. p \in 0 .. MaxPromises /\ Fresh \in 0 .. MaxPromises
    BY <1>2, <1>4, Parts, IdsAre
  <2> QED BY <2>1 DEF Reaction, Job
<1> HIDE DEF reaction, seen
<1>7. Joined(heap, p, reaction, heap')
  BY <1>2, <1>5, <1>6, Parts, Joins DEF seen
<1>8. NoRivals(heap') /\ Plain(heap')
  <2>1. \A s \in Jobs(heap) : ~Rivals(reaction, s)
    BY <1>1, <1>6, FreshFree DEF Rivals, Settling
  <2> QED BY <1>6, <1>7, <2>1, OwnParts DEF Joined, Plain
<1>9. /\ Settling(heap') = Settling(heap) \cup {Fresh} /\ Waking(heap') = Waking(heap)
      /\ Following(heap') = Following(heap) /\ Watching(heap') = Watching(heap) \cup {p}
  BY <1>6, <1>7 DEF Joined, Settling, Waking, Following, Watching
<1>10. Settlers(heap', open, stack, co, promiseOf)
  <2> SUFFICES ASSUME ~Reresolves PROVE Settlers(heap', open, stack, co, promiseOf)
    BY DEF Settlers
  <2>1. Apart(Settling(heap'), open, Handling(stack), Bodies(co, promiseOf))
    BY <1>1, <1>9, FreshFree, OneOwner DEF Apart
  <2>2. ASSUME NEW x \in Settling(heap') \cup open \cup Handling(stack) \cup Bodies(co, promiseOf)
        PROVE  heap'.proms[x].state = "pending"
    <3>1. heap.proms[x].state = "pending"
      BY <1>1, <1>9, FreshFree, OneOwner
    <3>2. x \in Ids
      BY <1>1, <1>9, FreshFree, OwnersExist
    <3> QED BY <1>7, <3>1, <3>2 DEF Joined
  <2> QED BY <2>1, <2>2 DEF Settlers
<1>11. Scheduled(heap', stack, co) /\ Pursued(heap', stack, abandoned)
  BY <1>7, <1>9, OwnParts DEF Scheduled, Pursued, Joined
<1>12. Returned(heap', co, promiseOf)
  BY <1>7, <1>9, OwnParts, OwnersExist DEF Returned, Joined
<1>13. BodiesApart(heap', open, stack, co, promiseOf)
  BY <1>1, <1>7, <1>9, FreshFree, OwnParts, OwnersExist DEF BodiesApart, Joined
<1>14. Owned(heap', open, stack, co, promiseOf, Fresh, abandoned)
  BY <1>1, <1>8, <1>10, <1>11, <1>12, <1>13, FreshFree, OwnParts DEF Owned
<1> QED BY <1>1, <1>14 DEF Own

LEMMA AwaitOwned == ASSUME IInv, Own, NEW q \in {0} \cup Known, Await(q) PROVE Own'
<1> DEFINE c == Head(stack).co
           wake == Reaction("wake", q, FALSE, FALSE, 0, c)
           c2 == [co EXCEPT ![c] = "waiting"]
           s2 == Tail(stack)
<1>1. /\ Top("co") /\ co' = c2 /\ stack' = s2 /\ UNCHANGED <<next, open, promiseOf, abandoned>>
      /\ \/ q = 0 /\ heap' = Enqueue(heap, wake)
         \/ q # 0 /\ heap' \in {React(Observe(heap, q), q, wake), Enqueue(Observe(heap, q), wake)}
  BY DEF Await
<1>2. stack # <<>> /\ Head(stack).kind = "co"
  BY <1>1 DEF Top
<1>3. c \in Coroutines /\ q \in 0 .. next /\ (q # 0 => q \in 1 .. next)
  BY <1>2, Parts, Innermost DEF Running
<1>4. /\ Handling(stack) = Handling(s2) /\ Blocked(stack) = Blocked(s2)
      /\ Entering(stack) = Entering(s2) \cup {c}
      /\ NoDoubles(stack) => NoDoubles(s2) /\ c \notin Entering(s2)
  BY <1>2, Popped DEF Atop
<1> HIDE DEF c
<1>5. /\ wake \in Job /\ wake.kind = "wake" /\ wake.on = q /\ wake.co = c
  <2>1. q \in 0 .. MaxPromises /\ 0 \in 0 .. MaxPromises
    BY <1>3, Parts, IdsAre
  <2> QED BY <1>3, <2>1 DEF Reaction, Job
<1>6. \A d \in Coroutines : c2[d] = IF d = c THEN "waiting" ELSE co[d]
  BY Calls
<1> HIDE DEF wake, c2, s2
<1>7. Joined(heap, q, wake, heap')
  BY <1>1, <1>3, <1>5, Parts, Joins
<1>8. co[c] = "active" /\ c \notin Waking(heap) /\ NoDoubles(s2) /\ c \notin Entering(s2)
  BY <1>3, <1>4, OwnParts DEF Scheduled
<1>9. NoRivals(heap') /\ Plain(heap')
  <2>1. \A s \in Jobs(heap) : ~Rivals(wake, s)
    BY <1>5, <1>8 DEF Rivals, Waking
  <2> QED BY <1>5, <1>7, <2>1, OwnParts DEF Joined, Plain
<1>10. /\ Settling(heap') = Settling(heap) /\ Waking(heap') = Waking(heap) \cup {c}
       /\ Following(heap') = Following(heap) /\ Watching(heap') = Watching(heap) \cup {q}
  BY <1>5, <1>7 DEF Joined, Settling, Waking, Following, Watching
<1>11. CallsOwn(c2, promiseOf, next) /\ Bodies(c2, promiseOf) = Bodies(co, promiseOf)
  BY <1>6, <1>8, OwnParts DEF CallsOwn, Bodies
<1>12. Settlers(heap', open, s2, c2, promiseOf)
  <2> SUFFICES ASSUME ~Reresolves PROVE Settlers(heap', open, s2, c2, promiseOf)
    BY DEF Settlers
  <2>1. Apart(Settling(heap'), open, Handling(s2), Bodies(c2, promiseOf))
    BY <1>4, <1>10, <1>11, OneOwner
  <2>2. ASSUME NEW x \in Settling(heap') \cup open \cup Handling(s2) \cup Bodies(c2, promiseOf)
        PROVE  heap'.proms[x].state = "pending"
    <3>1. heap.proms[x].state = "pending" /\ x \in Ids
      BY <1>4, <1>10, <1>11, OneOwner, OwnersExist
    <3> QED BY <1>7, <3>1 DEF Joined
  <2> QED BY <2>1, <2>2 DEF Settlers
<1>13. Scheduled(heap', s2, c2)
  <2>1. \A d \in Coroutines : c2[d] = "waiting" <=> d \in Waking(heap')
    BY <1>6, <1>10, OwnParts DEF Scheduled
  <2>2. \A d \in Coroutines : d \in Entering(s2) => c2[d] = "active"
    BY <1>4, <1>6, <1>8, OwnParts DEF Scheduled
  <2> QED BY <2>1, <2>2 DEF Scheduled
<1>14. Pursued(heap', s2, abandoned)
  BY <1>4, <1>7, <1>10, OwnParts DEF Pursued, Joined
<1>15. Returned(heap', c2, promiseOf)
  BY <1>6, <1>7, <1>10, OwnParts, OwnersExist DEF Returned, Joined
<1>16. BodiesApart(heap', open, s2, c2, promiseOf)
  BY <1>4, <1>7, <1>10, <1>11, OwnParts, OwnersExist DEF BodiesApart, Joined
<1>17. Owned(heap', open, s2, c2, promiseOf, next, abandoned)
  BY <1>8, <1>9, <1>11, <1>12, <1>13, <1>14, <1>15, <1>16 DEF Owned
<1> QED BY <1>1, <1>17 DEF Own

(* A heap that differs only in what is observed and delivered.                  *)
LEMMA AlikeOwned ==
    ASSUME IInv, Own, NEW g, Alike(heap, g), NEW s, NEW a,
           Handling(s) \subseteq Handling(stack), Entering(s) \subseteq Entering(stack),
           NoDoubles(s), Pursued(g, s, a)
    PROVE  Owned(g, open, s, co, promiseOf, next, a)
<1>1. Jobs(g) = Jobs(heap) /\ NoRivals(g) /\ \A x \in Ids : g.proms[x].state = heap.proms[x].state
  BY OwnParts DEF Alike
<1>2. /\ Plain(g) /\ Settling(g) = Settling(heap) /\ Waking(g) = Waking(heap)
      /\ Following(g) = Following(heap)
  BY <1>1, OwnParts DEF Plain, Settling, Waking, Following
<1>3. Settlers(g, open, s, co, promiseOf) /\ BodiesApart(g, open, s, co, promiseOf)
  <2>1. ASSUME ~Reresolves PROVE Settlers(g, open, s, co, promiseOf)
    <3>1. Apart(Settling(g), open, Handling(s), Bodies(co, promiseOf))
      BY <1>2, <2>1, OneOwner DEF Apart
    <3> QED BY <1>1, <1>2, <2>1, <3>1, OneOwner, OwnersExist DEF Settlers
  <2>2. BodiesApart(g, open, s, co, promiseOf)
    BY <1>1, <1>2, OwnParts, OwnersExist DEF BodiesApart
  <2> QED BY <2>1, <2>2 DEF Settlers
<1>4. Scheduled(g, s, co) /\ Returned(g, co, promiseOf)
  BY <1>1, <1>2, OwnParts, OwnersExist DEF Scheduled, Returned
<1> QED BY <1>1, <1>2, <1>3, <1>4, OwnParts DEF Owned
-----------------------------------------------------------------------------
LEMMA Arrived ==
    ASSUME IInv, NEW kind, NEW p, NEW c
    PROVE  Atop(Frame(kind, p, c), stack, <<Frame(kind, p, c)>> \o stack)
           /\ Frame(kind, p, c).kind = kind /\ Frame(kind, p, c).p = p /\ Frame(kind, p, c).co = c
  BY Parts, PushAtop DEF Frame

(* A blocked await has its promise on the stack until the outcome reaches it.   *)
LEMMA BlockOwned == ASSUME IInv, Own, NEW q \in Known, Block(q) PROVE Own'
<1> DEFINE seen == Observe(heap, q)
           s2 == <<Frame("block", q, NoCo)>> \o stack
<1>1. /\ UNCHANGED <<next, open, co, promiseOf, abandoned>>
      /\ \/ heap' = seen /\ stack' = s2
         \/ heap' = Deliver(seen, q) /\ stack' = stack
  BY DEF Block
<1>2. q \in 1 .. next /\ q \in 0 .. next /\ q \in Ids /\ q # 0
  BY Parts
<1>3. HeapOk(seen, next, promiseOf)
  BY <1>2, Parts, Observed
<1>4. /\ Alike(heap, seen) /\ seen.delivered = heap.delivered
      /\ \A x \in Ids : x # q => seen.proms[x].observed = heap.proms[x].observed
  BY <1>2, Parts, ObserveAlike
<1>5. Watching(seen) = Watching(heap)
  BY <1>4 DEF Alike, Watching
<1>6. CASE heap' = seen /\ stack' = s2
  <2> DEFINE f == Frame("block", q, NoCo)
  <2>0. Atop(f, stack, s2) /\ f.kind = "block" /\ f.p = q
    BY Arrived
  <2> HIDE DEF seen, f, s2
  <2>1. /\ Handling(s2) = Handling(stack) /\ Entering(s2) = Entering(stack)
        /\ Blocked(s2) = Blocked(stack) \cup {q} /\ NoDoubles(s2)
    BY <2>0, OwnParts DEF Atop
  <2>2. Pursued(seen, s2, abandoned)
    BY <1>4, <1>5, <2>1, OwnParts DEF Pursued
  <2>3. Owned(seen, open, s2, co, promiseOf, next, abandoned)
    BY <1>4, <2>1, <2>2, AlikeOwned
  <2> QED BY <1>1, <1>6, <2>3 DEF Own
<1>7. CASE heap' = Deliver(seen, q) /\ stack' = stack
  <2> HIDE DEF seen
  <2>1. /\ Alike(seen, heap') /\ heap'.proms = seen.proms
        /\ seen.delivered \subseteq heap'.delivered /\ q \in heap'.delivered
    BY <1>2, <1>3, <1>7, Parts, DeliverAlike
  <2>2. Alike(heap, heap') /\ Watching(heap') = Watching(heap)
    BY <1>4, <1>5, <2>1 DEF Alike, Watching
  <2>3. Pursued(heap', stack, abandoned)
    BY <1>4, <2>1, <2>2, OwnParts DEF Pursued
  <2>4. Owned(heap', open, stack, co, promiseOf, next, abandoned)
    BY <2>2, <2>3, OwnParts, AlikeOwned
  <2> QED BY <1>1, <1>7, <2>4 DEF Own
<1> QED BY <1>1, <1>6, <1>7

(* What leaves the stack with the outcome of the promise it was blocked on.     *)
LEMMA LeaveOwned ==
    ASSUME IInv, Own, NEW q \in 0 .. next, heap' = Deliver(heap, q),
           UNCHANGED <<next, open, co, promiseOf, abandoned>>,
           Handling(stack') \subseteq Handling(stack), Entering(stack') \subseteq Entering(stack),
           Blocked(stack) \subseteq Blocked(stack') \cup {q}, NoDoubles(stack')
    PROVE  Own'
<1>1. /\ Alike(heap, heap') /\ heap'.proms = heap.proms
      /\ heap.delivered \subseteq heap'.delivered /\ (q # 0 => q \in heap'.delivered)
  BY Parts, DeliverAlike
<1>2. Watching(heap') = Watching(heap) /\ \A x \in Ids : x # 0
  BY <1>1, IdsAre DEF Alike, Watching
<1>3. Pursued(heap', stack', abandoned)
  BY <1>1, <1>2, OwnParts DEF Pursued
<1>4. Owned(heap', open, stack', co, promiseOf, next, abandoned)
  BY <1>1, <1>3, AlikeOwned
<1> QED BY <1>4 DEF Own

LEMMA UnblockOwned == ASSUME IInv, Own, Unblock PROVE Own'
<1>1. /\ Top("block") /\ heap' = Deliver(heap, Head(stack).p) /\ stack' = Tail(stack)
      /\ UNCHANGED <<next, open, co, promiseOf, abandoned>>
  BY DEF Unblock
<1>2. stack # <<>> /\ Head(stack).kind = "block"
  BY <1>1 DEF Top
<1>3. Head(stack).p \in 0 .. next
  BY <1>2, Innermost DEF Running
<1>4. /\ Handling(stack) = Handling(Tail(stack)) /\ Entering(stack) = Entering(Tail(stack))
      /\ Blocked(stack) = Blocked(Tail(stack)) \cup {Head(stack).p}
      /\ NoDoubles(Tail(stack))
  BY <1>2, Popped, OwnParts DEF Atop
<1> QED BY <1>1, <1>3, <1>4, LeaveOwned

(* What leaves the stack without the outcome is abandoned.                      *)
LEMMA AbandonOwned ==
    ASSUME IInv, Own, UNCHANGED <<heap, next, open, co, promiseOf>>,
           Handling(stack') \subseteq Handling(stack), Entering(stack') \subseteq Entering(stack),
           Blocked(stack) \cup abandoned \subseteq Blocked(stack') \cup abandoned', NoDoubles(stack')
    PROVE  Own'
<1>1. Alike(heap, heap)
  BY OwnParts DEF Alike
<1>2. Pursued(heap, stack', abandoned')
  BY OwnParts DEF Pursued
<1>3. Owned(heap, open, stack', co, promiseOf, next, abandoned')
  BY <1>1, <1>2, AlikeOwned
<1> QED BY <1>3 DEF Own

LEMMA GiveUpOwned == ASSUME IInv, Own, GiveUp PROVE Own'
<1>1. /\ Top("block") /\ stack' = Tail(stack) /\ abandoned' = abandoned \cup {Head(stack).p}
      /\ UNCHANGED <<heap, next, open, co, promiseOf>>
  BY DEF GiveUp
<1>2. stack # <<>> /\ Head(stack).kind = "block"
  BY <1>1 DEF Top
<1>3. /\ Handling(stack) = Handling(Tail(stack)) /\ Entering(stack) = Entering(Tail(stack))
      /\ Blocked(stack) = Blocked(Tail(stack)) \cup {Head(stack).p}
      /\ NoDoubles(Tail(stack))
  BY <1>2, Popped, OwnParts DEF Atop
<1> QED BY <1>1, <1>3, AbandonOwned

(* An exception unwinds the stack down to the activation that catches it.       *)
LEMMA ThrowOwned == ASSUME IInv, Own, Throw PROVE Own'
<1>1. /\ UNCHANGED <<heap, next, open, co, promiseOf>>
      /\ \/ UNCHANGED <<stack, abandoned>>
         \/ \E k \in Blocks :
               /\ stack' = SubSeq(stack, k + 1, Len(stack))
               /\ abandoned' = abandoned \cup {stack[i].p : i \in Blocks \cap 1 .. k}
  BY DEF Throw
<1>2. CASE UNCHANGED <<stack, abandoned>>
  BY <1>1, <1>2 DEF Own
<1>3. ASSUME NEW k \in Blocks, stack' = SubSeq(stack, k + 1, Len(stack)),
             abandoned' = abandoned \cup {stack[i].p : i \in Blocks \cap 1 .. k}
      PROVE  Own'
  <2> DEFINE t == SubSeq(stack, k + 1, Len(stack))
  <2>1. /\ k \in 1 .. Len(stack) /\ Len(stack) \in Nat /\ stack \in Seq(Frames(next, promiseOf))
        /\ Blocks = {i \in 1 .. Len(stack) : stack[i].kind = "block"}
    BY <1>3, Parts, LenProperties DEF Blocks
  <2>2. Len(t) = Len(stack) - k /\ \A i \in 1 .. Len(t) : t[i] = stack[k + i]
    BY <2>1, Unwound
  <2> HIDE DEF t
  <2>3. \A i \in 1 .. Len(t) : k + i \in 1 .. Len(stack) /\ i \in Nat /\ k \in Nat
    BY <2>1, <2>2
  <2>4. Handling(t) \subseteq Handling(stack) /\ Entering(t) \subseteq Entering(stack)
    <3>1. ASSUME NEW i \in 1 .. Len(t) PROVE \E j \in 1 .. Len(stack) : t[i] = stack[j]
      BY <2>2, <2>3
    <3> QED BY <3>1 DEF Handling, Entering
  <2>5. Blocked(stack) \subseteq Blocked(t) \cup abandoned'
    <3> SUFFICES ASSUME NEW i \in 1 .. Len(stack), stack[i].kind = "block"
                 PROVE  stack[i].p \in Blocked(t) \cup abandoned'
      BY DEF Blocked
    <3>1. CASE i <= k
      <4>1. i \in Blocks \cap 1 .. k
        BY <2>1, <3>1
      <4> QED BY <1>3, <4>1
    <3>2. CASE i > k
      <4>1. i - k \in 1 .. Len(t) /\ k + (i - k) = i
        BY <2>1, <2>2, <3>2
      <4>2. t[i - k] = stack[i]
        BY <2>2, <4>1
      <4> QED BY <4>1, <4>2 DEF Blocked
    <3> QED BY <2>1, <3>1, <3>2
  <2>6. NoDoubles(t)
    <3> SUFFICES ASSUME NEW i \in 1 .. Len(t), NEW j \in 1 .. Len(t), Doubles(t[i], t[j])
                 PROVE  i = j
      BY DEF NoDoubles
    <3>1. Doubles(stack[k + i], stack[k + j])
      BY <2>2
    <3>2. k + i = k + j
      BY <2>3, <3>1, OwnParts DEF NoDoubles
    <3> QED BY <2>3, <3>2
  <2> QED BY <1>1, <1>3, <2>4, <2>5, <2>6, AbandonOwned DEF t
<1> QED BY <1>1, <1>2, <1>3

LEMMA HostOwned == ASSUME IInv, Own, ScriptEnd \/ HostCallback \/ Exit \/ Ended PROVE Own'
<1>1. UNCHANGED <<heap, next, open, co, promiseOf, abandoned>>
  BY DEF ScriptEnd, HostCallback, Exit, Ended, vars
<1>2. CASE stack' = stack
  BY <1>1, <1>2 DEF Own
<1>3. ASSUME NoDoubles(stack'), Handling(stack') = Handling(stack),
             Entering(stack') = Entering(stack), Blocked(stack') = Blocked(stack)
      PROVE  Own'
  <2>1. Alike(heap, heap) /\ Pursued(heap, stack', abandoned)
    BY <1>3, OwnParts DEF Alike, Pursued
  <2>2. Owned(heap, open, stack', co, promiseOf, next, abandoned)
    BY <1>3, <2>1, AlikeOwned
  <2> QED BY <1>1, <2>2 DEF Own
<1>4. CASE ScriptEnd
  <2>1. stack # <<>> /\ Head(stack).kind = "script" /\ stack' = Tail(stack)
    BY <1>4 DEF ScriptEnd, Top
  <2> QED BY <1>3, <2>1, Popped, OwnParts DEF Atop
<1>5. CASE HostCallback
  <2> DEFINE f == Frame("script", 0, NoCo)
             s2 == <<f>> \o stack
  <2>1. stack' = s2
    BY <1>5 DEF HostCallback
  <2>2. Atop(f, stack, s2) /\ f.kind = "script"
    BY Arrived
  <2> HIDE DEF f, s2
  <2>3. /\ Handling(s2) = Handling(stack) /\ Entering(s2) = Entering(stack)
        /\ Blocked(s2) = Blocked(stack) /\ NoDoubles(s2)
    BY <2>2, OwnParts DEF Atop
  <2> QED BY <1>3, <2>1, <2>3
<1>6. Exit \/ Ended => stack' = stack
  BY DEF Exit, Ended, vars
<1> QED BY <1>2, <1>4, <1>5, <1>6
-----------------------------------------------------------------------------
(* The head of the queue is taken: what it would settle, or whom it would wake, *)
(* is nobody else's.                                                            *)
LEMMA Drawn ==
    ASSUME IInv, Own, heap.tasks # <<>>
    PROVE  /\ HeapOk(Taken, next, promiseOf) /\ Taken.proms = heap.proms
           /\ Taken.delivered = heap.delivered
           /\ Task \in Jobs(heap) /\ Task \in Job /\ Sound(Task, next, promiseOf)
           /\ Due(heap.proms, Task)
           /\ Jobs(heap) = Jobs(Taken) \cup {Task} /\ NoRivals(Taken)
           /\ \A s \in Jobs(Taken) : ~Rivals(Task, s)
<1>1. HeapOk(heap, next, promiseOf) /\ next \in 0 .. MaxPromises /\ NoRivals(heap)
  BY Parts, OwnParts
<1> QED BY <1>1, Took, TakeRemoves

LEMMA RunWakeOwned == ASSUME IInv, Own, RunWake PROVE Own'
<1> DEFINE c == Task.co
           c2 == [co EXCEPT ![c] = "active"]
           f == Frame("co", 0, c)
           s2 == <<f>> \o stack
<1>1. /\ heap.tasks # <<>> /\ Task.kind = "wake" /\ heap' = Deliver(Taken, Task.on)
      /\ co[c] # "done" => co' = c2 /\ stack' = s2
      /\ UNCHANGED <<next, open, promiseOf, abandoned>>
  BY DEF RunWake
<1>2. Task.on \in 0 .. next /\ c \in Coroutines
  BY <1>1, Drawn DEF Sound
<1>3. Atop(f, stack, s2) /\ f.kind = "co" /\ f.co = c
  BY Arrived
<1> HIDE DEF f, s2
<1>4. /\ Alike(Taken, heap') /\ heap'.proms = Taken.proms
      /\ Taken.delivered \subseteq heap'.delivered
      /\ Task.on # 0 => Task.on \in heap'.delivered
  BY <1>1, <1>2, Drawn, Parts, DeliverAlike
<1>5. /\ Jobs(heap) = Jobs(heap') \cup {Task} /\ NoRivals(heap') /\ heap'.proms = heap.proms
      /\ heap.delivered \subseteq heap'.delivered
      /\ \A s \in Jobs(heap') : ~Rivals(Task, s)
  BY <1>1, <1>4, Drawn DEF Alike
<1>6. c \in Waking(heap) /\ c \notin Waking(heap')
  <2> HIDE DEF c
  <2>1. c = Task.co
    BY DEF c
  <2> QED BY <1>1, <1>5, <2>1, Drawn DEF Waking, Rivals
<1> HIDE DEF c
<1>7. /\ Waking(heap) = Waking(heap') \cup {c} /\ Settling(heap') = Settling(heap)
      /\ Following(heap') = Following(heap) /\ Watching(heap) = Watching(heap') \cup {Task.on}
  BY <1>1, <1>5 DEF Waking, Settling, Following, Watching, c
<1>8. co[c] = "waiting" /\ c \notin Entering(stack)
  BY <1>2, <1>6, OwnParts DEF Scheduled
<1>9. co' = c2 /\ stack' = s2
  BY <1>1, <1>8
<1>10. \A d \in Coroutines : c2[d] = IF d = c THEN "active" ELSE co[d]
  BY Calls
<1> HIDE DEF c2
<1>11. /\ Handling(s2) = Handling(stack) /\ Blocked(s2) = Blocked(stack)
       /\ Entering(s2) = Entering(stack) \cup {c} /\ NoDoubles(s2)
  BY <1>3, <1>8, OwnParts DEF Atop
<1>12. CallsOwn(c2, promiseOf, next) /\ Bodies(c2, promiseOf) = Bodies(co, promiseOf)
  BY <1>8, <1>10, OwnParts DEF CallsOwn, Bodies
<1>13. Scheduled(heap', s2, c2)
  <2>1. \A d \in Coroutines : c2[d] = "waiting" <=> d \in Waking(heap')
    BY <1>6, <1>7, <1>10, OwnParts DEF Scheduled
  <2>2. \A d \in Coroutines : d \in Entering(s2) => c2[d] = "active"
    BY <1>10, <1>11, OwnParts DEF Scheduled
  <2> QED BY <2>1, <2>2 DEF Scheduled
<1>14. Settlers(heap', open, s2, c2, promiseOf) /\ BodiesApart(heap', open, s2, c2, promiseOf)
  BY <1>5, <1>7, <1>11, <1>12, OwnParts DEF Settlers, BodiesApart
<1>15. Pursued(heap', s2, abandoned) /\ Plain(heap')
  <2>1. \A x \in Ids : x # 0
    BY IdsAre
  <2> QED BY <1>4, <1>5, <1>7, <1>11, <2>1, OwnParts DEF Pursued, Plain
<1>16. Returned(heap', c2, promiseOf)
  BY <1>5, <1>7, <1>10, OwnParts DEF Returned
<1>17. Owned(heap', open, s2, c2, promiseOf, next, abandoned)
  BY <1>5, <1>11, <1>12, <1>13, <1>14, <1>15, <1>16 DEF Owned
<1> QED BY <1>1, <1>9, <1>17 DEF Own

LEMMA RunHandlerOwned == ASSUME IInv, Own, RunHandler PROVE Own'
<1> DEFINE p == Task.result
           f == Frame("handler", p, NoCo)
           s2 == <<f>> \o stack
<1>1. /\ heap.tasks # <<>> /\ Task.kind # "wake" /\ Handled /\ heap' = Deliver(Taken, Task.on)
      /\ stack' = s2 /\ UNCHANGED <<next, open, co, promiseOf, abandoned>>
  BY DEF RunHandler
<1>2. Task.on \in 0 .. next /\ p \in 1 .. next
  BY <1>1, Drawn DEF Sound
<1>3. Atop(f, stack, s2) /\ f.kind = "handler" /\ f.p = p
  BY Arrived
<1> HIDE DEF f, s2
<1>4. /\ Alike(Taken, heap') /\ heap'.proms = Taken.proms
      /\ Taken.delivered \subseteq heap'.delivered
      /\ Task.on # 0 => Task.on \in heap'.delivered
  BY <1>1, <1>2, Drawn, Parts, DeliverAlike
<1>5. /\ Jobs(heap) = Jobs(heap') \cup {Task} /\ NoRivals(heap') /\ heap'.proms = heap.proms
      /\ heap.delivered \subseteq heap'.delivered
      /\ \A s \in Jobs(heap') : ~Rivals(Task, s)
  BY <1>1, <1>4, Drawn DEF Alike
<1>6. Task.kind # "follow"
  <2>1. Task.onFulfilled \/ Task.onRejected
    BY <1>1 DEF Handled
  <2> QED BY <1>1, <2>1, Drawn, OwnParts DEF Plain
<1>7. p \in Settling(heap) /\ (~Reresolves => p \notin Settling(heap'))
  <2> HIDE DEF p
  <2>1. p = Task.result
    BY DEF p
  <2> QED BY <1>1, <1>5, <2>1, Drawn DEF Settling, Rivals
<1> HIDE DEF p
<1>8. /\ Settling(heap) = Settling(heap') \cup {p} /\ Waking(heap') = Waking(heap)
      /\ Following(heap') = Following(heap) /\ Watching(heap) = Watching(heap') \cup {Task.on}
  BY <1>1, <1>5, <1>6 DEF Waking, Settling, Following, Watching, p
<1>9. /\ Handling(s2) = Handling(stack) \cup {p} /\ Blocked(s2) = Blocked(stack)
      /\ Entering(s2) = Entering(stack) /\ NoDoubles(s2)
  BY <1>3, <1>7, OwnParts, OneOwner DEF Atop, Apart
<1>10. Settlers(heap', open, s2, co, promiseOf) /\ BodiesApart(heap', open, s2, co, promiseOf)
  <2>1. ASSUME ~Reresolves PROVE Settlers(heap', open, s2, co, promiseOf)
    <3>1. Apart(Settling(heap'), open, Handling(s2), Bodies(co, promiseOf))
      BY <1>7, <1>8, <1>9, <2>1, OneOwner DEF Apart
    <3> QED BY <1>5, <1>8, <1>9, <2>1, <3>1, OneOwner DEF Settlers
  <2>2. BodiesApart(heap', open, s2, co, promiseOf)
    BY <1>5, <1>7, <1>8, <1>9, OwnParts DEF BodiesApart
  <2> QED BY <2>1, <2>2 DEF Settlers
<1>11. Pursued(heap', s2, abandoned) /\ Plain(heap')
  <2>1. \A x \in Ids : x # 0
    BY IdsAre
  <2> QED BY <1>4, <1>5, <1>8, <1>9, <2>1, OwnParts DEF Pursued, Plain
<1>12. Scheduled(heap', s2, co) /\ Returned(heap', co, promiseOf)
  BY <1>5, <1>8, <1>9, OwnParts DEF Scheduled, Returned
<1>13. Owned(heap', open, s2, co, promiseOf, next, abandoned)
  BY <1>5, <1>9, <1>10, <1>11, <1>12, OwnParts DEF Owned
<1> QED BY <1>1, <1>13 DEF Own

(* A reaction without a handler passes the outcome; its result is pending       *)
(* unless the program resolved it again meanwhile.                              *)
LEMMA RunForwardOwned == ASSUME IInv, Own, RunForward PROVE Own'
<1> DEFINE p == Task.result
           q == Task.on
           state == heap.proms[q].state
           reason == heap.proms[q].reason
           sent == Forward(Taken, q, p)
<1>1. /\ heap.tasks # <<>> /\ Task.kind # "wake" /\ heap' = Settle(sent, p, state, reason)
      /\ UNCHANGED <<next, open, co, promiseOf, stack, abandoned>>
  BY DEF RunForward
<1>2. /\ q \in 0 .. next /\ q # 0 /\ q \in Ids /\ p \in 1 .. next /\ p \in Ids
      /\ state \in {"fulfilled", "rejected"} /\ reason \in 0 .. MaxPromises
  <2>1. q \in 0 .. next /\ q # 0 /\ p \in 1 .. next
    BY <1>1, Drawn DEF Sound
  <2>2. q \in Ids /\ p \in Ids
    BY <2>1, Parts
  <2>3. state # "pending"
    BY <1>1, <2>1, Drawn DEF Due
  <2> QED BY <2>1, <2>2, <2>3, Parts, HeapParts
<1>3. p \in Settling(heap) /\ (~Reresolves => heap.proms[p].state = "pending")
  <2>1. p \in Settling(heap)
    BY <1>1, Drawn DEF Settling
  <2> QED BY <2>1, OneOwner
<1>4. sent = Deliver(Taken, q) \/ (Reresolves /\ sent = Taken)
  BY <1>1, <1>2, <1>3, Drawn DEF Forward, Deliver
<1>5. HeapOk(sent, next, promiseOf)
  BY <1>1, <1>2, <1>4, Drawn, Parts, Delivered
<1>6. /\ Alike(Taken, sent) /\ sent.proms = Taken.proms
      /\ Taken.delivered \subseteq sent.delivered /\ (~Reresolves => q \in sent.delivered)
  <2>1. CASE sent = Deliver(Taken, q)
    BY <1>1, <1>2, <2>1, Drawn, Parts, DeliverAlike
  <2>2. CASE Reresolves /\ sent = Taken
    BY <2>2 DEF Alike
  <2> QED BY <1>4, <2>1, <2>2
<1> HIDE DEF sent, state, reason
<1>7. Decided(sent, p, heap')
  BY <1>1, <1>2, <1>5, Parts, SettleDecides
<1>8. /\ Jobs(heap) = Jobs(heap') \cup {Task} /\ NoRivals(heap')
      /\ heap.delivered \subseteq heap'.delivered /\ (~Reresolves => q \in heap'.delivered)
      /\ \A s \in Jobs(heap') : ~Rivals(Task, s)
  BY <1>1, <1>6, <1>7, Drawn DEF Alike, Decided
<1>9. /\ heap'.proms[p].state # "pending"
      /\ \A x \in Ids : /\ x # p => heap'.proms[x].state = heap.proms[x].state
                        /\ heap'.proms[x].observed = heap.proms[x].observed
  BY <1>1, <1>6, <1>7, Drawn DEF Decided
<1>10. ASSUME ~Reresolves PROVE p \notin Settling(heap')
  <2> HIDE DEF p
  <2>1. p = Task.result
    BY DEF p
  <2> QED BY <1>1, <1>8, <1>10, <2>1 DEF Settling, Rivals
<1> HIDE DEF p, q
<1>11. /\ Settling(heap) = Settling(heap') \cup {p} /\ Waking(heap') = Waking(heap)
       /\ Following(heap) \subseteq Following(heap') \cup {p}
       /\ Watching(heap) = Watching(heap') \cup {q}
  BY <1>1, <1>8 DEF Waking, Settling, Following, Watching, p, q
<1>12. Settlers(heap', open, stack, co, promiseOf)
  <2> SUFFICES ASSUME ~Reresolves PROVE Settlers(heap', open, stack, co, promiseOf)
    BY DEF Settlers
  <2>1. Apart(Settling(heap'), open, Handling(stack), Bodies(co, promiseOf))
    BY <1>11, OneOwner DEF Apart
  <2>2. ASSUME NEW x \in Settling(heap') \cup open \cup Handling(stack) \cup Bodies(co, promiseOf)
        PROVE  heap'.proms[x].state = "pending"
    <3>1. x # p
      BY <1>3, <1>10, OneOwner DEF Apart
    <3>2. heap.proms[x].state = "pending" /\ x \in Ids
      BY <1>11, OneOwner, OwnersExist
    <3> QED BY <1>9, <3>1, <3>2
  <2> QED BY <2>1, <2>2 DEF Settlers
<1>13. Pursued(heap', stack, abandoned) /\ Plain(heap') /\ Scheduled(heap', stack, co)
  BY <1>8, <1>9, <1>11, OwnParts DEF Pursued, Plain, Scheduled
<1>14. Returned(heap', co, promiseOf)
  <2>1. ASSUME NEW d \in Coroutines, co[d] = "done", heap'.proms[promiseOf[d]].state = "pending"
        PROVE  promiseOf[d] \in Following(heap')
    <3>1. promiseOf[d] # p /\ promiseOf[d] \in Ids
      BY <1>9, <2>1, OwnersExist
    <3>2. heap.proms[promiseOf[d]].state = "pending"
      BY <1>9, <2>1, <3>1
    <3> QED BY <1>11, <2>1, <3>1, <3>2, OwnParts DEF Returned
  <2> QED BY <2>1 DEF Returned
<1>15. BodiesApart(heap', open, stack, co, promiseOf)
  BY <1>3, <1>9, <1>11, OwnParts, OwnersExist DEF BodiesApart
<1>16. Owned(heap', open, stack, co, promiseOf, next, abandoned)
  BY <1>8, <1>12, <1>13, <1>14, <1>15, OwnParts DEF Owned
<1> QED BY <1>1, <1>16 DEF Own
-----------------------------------------------------------------------------
LEMMA InitOwned == Init => Own
<1> SUFFICES ASSUME Init PROVE Own
  OBVIOUS
<1> DEFINE f == Frame("script", 0, NoCo)
<1>1. /\ heap.tasks = <<>> /\ \A p \in Ids : heap.proms[p] = Blank
      /\ next = 0 /\ open = {} /\ stack = <<f>>
      /\ \A d \in Coroutines : co[d] = "idle"
  BY DEF Init
<1>2. Jobs(heap) = {} /\ NoRivals(heap)
  <2>1. \A p \in Lines : Line(heap, p) = <<>>
    BY <1>1, IdsAre DEF Lines, Line, Blank
  <2>2. Len(<<>>) = 0 /\ ~ \E k \in 1 .. 0 : TRUE
    OBVIOUS
  <2> QED BY <2>1, <2>2 DEF Jobs, NoRivals
<1>3. /\ Settling(heap) = {} /\ Waking(heap) = {} /\ Following(heap) = {} /\ Plain(heap)
  BY <1>2 DEF Settling, Waking, Following, Plain
<1>4. Handling(stack) = {} /\ Entering(stack) = {} /\ NoDoubles(stack)
  <2>1. Len(<<f>>) = 1 /\ <<f>>[1] = f /\ \A i \in 1 .. 1 : i = 1
    OBVIOUS
  <2>2. f.kind = "script"
    BY DEF Frame
  <2> HIDE DEF f
  <2> QED BY <1>1, <2>1, <2>2 DEF Handling, Entering, NoDoubles
<1>5. Bodies(co, promiseOf) = {} /\ CallsOwn(co, promiseOf, next)
  BY <1>1 DEF Bodies, CallsOwn
<1>6. Settlers(heap, open, stack, co, promiseOf) /\ BodiesApart(heap, open, stack, co, promiseOf)
  BY <1>1, <1>3, <1>4, <1>5 DEF Settlers, Apart, BodiesApart
<1>7. Scheduled(heap, stack, co) /\ Returned(heap, co, promiseOf)
  BY <1>1, <1>3, <1>4 DEF Scheduled, Returned
<1>8. Pursued(heap, stack, abandoned)
  BY <1>1 DEF Pursued, Blank
<1> QED BY <1>2, <1>3, <1>4, <1>5, <1>6, <1>7, <1>8 DEF Own, Owned

LEMMA OwnInductive == IInv /\ Own /\ [Next]_vars => Own'
<1> SUFFICES ASSUME IInv, Own, [Next]_vars PROVE Own'
  OBVIOUS
<1>1. CASE UNCHANGED vars
  BY <1>1 DEF vars, Own
<1>2. CASE Engine
  BY <1>2, RunWakeOwned, RunHandlerOwned, RunForwardOwned, UnblockOwned, GiveUpOwned DEF Engine
<1>3. CASE Finish
  BY <1>3, BodyEndsOwned, ThrowOwned, HostOwned, HandlerReturnOwned, AwaitOwned DEF Finish
<1>4. CASE Script
  BY <1>4, NewPromiseOwned, ResolveOwned, BlockOwned, ThenOwned, CallOwned DEF Script
<1>5. CASE HostCallback \/ Exit \/ Ended
  BY <1>5, HostOwned
<1> QED BY <1>1, <1>2, <1>3, <1>4, <1>5 DEF Next

LEMMA EndingKept == Ending /\ [Next]_vars => Ending'
<1> SUFFICES ASSUME Ending, [Next]_vars PROVE Ending'
  OBVIOUS
<1>1. CASE UNCHANGED vars
  BY <1>1 DEF vars, Ending
<1>2. CASE Engine
  BY <1>2 DEF Engine, RunWake, RunHandler, RunForward, Unblock, GiveUp, Draining, Ending
<1>3. CASE Finish
  BY <1>3 DEF Finish, CoThrow, Throw, ScriptEnd, CoReturn, HandlerReturn, Await, InScript,
     Ending
<1>4. CASE Script
  BY <1>4 DEF Script, NewPromise, Reject, Resolve, Block, Then, Call, InScript, Ending
<1>5. CASE HostCallback \/ Exit \/ Ended
  BY <1>5 DEF HostCallback, Exit, Ended, Draining, vars, Ending
<1> QED BY <1>1, <1>2, <1>3, <1>4, <1>5 DEF Next

LEMMA OwnInvariance == Spec => [](IInv /\ Own /\ Ending)
<1>1. Init => Own /\ Ending
  BY InitOwned DEF Init, Ending
<1> QED BY <1>1, InitInv, Inductive, OwnInductive, EndingKept, PTL DEF Spec
-----------------------------------------------------------------------------
(* A promise with reactions is allocated and pending.                           *)
LEMMA Holder ==
    ASSUME IInv, NEW p \in Ids, NEW k \in 1 .. Len(heap.proms[p].reactions)
    PROVE  p \in Known /\ heap.proms[p].state = "pending"
<1>1. Len(<<>>) = 0 /\ ~ \E i \in 1 .. 0 : TRUE
  OBVIOUS
<1>2. heap.proms[p].reactions # <<>>
  BY <1>1
<1>3. heap.proms[p].state = "pending"
  BY <1>2, Parts, ReactionsAre
<1>4. ~(p > next)
  BY <1>2, Parts DEF HeapOk, Unused, Blank
<1> QED BY <1>3, <1>4, Parts, IdsAre
-----------------------------------------------------------------------------
(* When a program that uses each promise's functions once ends, the rejection   *)
(* of every promise was listed, or reached a handler, an await or a promise, or *)
(* a blocked await had left that promise without its outcome: nothing else      *)
(* swallows a rejection.                                                        *)
THEOREM RejectionsReported == ASSUME ~Reresolves PROVE Spec => []RejectionsReachSomeone
<1>1. IInv /\ Own /\ Ending => RejectionsReachSomeone
  <2> SUFFICES ASSUME IInv, Own, Ending, status = "exit",
                      NEW p \in Known, heap.proms[p].state = "rejected",
                      p \notin ToSet(heap.unhandled)
               PROVE  p \in heap.delivered \cup abandoned
    BY DEF RejectionsReachSomeone
  <2>1. stack = <<>> /\ heap.tasks = <<>> /\ p \in Ids
    BY Parts DEF Ending
  <2>2. heap.proms[p].observed
    <3>1. ASSUME ~heap.proms[p].observed PROVE FALSE
      <4>1. Linked(heap.proms, heap.unhandled) /\ heap.proms[p].index # 0
        BY <2>1, <3>1, Parts DEF HeapOk, Reported, Unseen
      <4>2. heap.unhandled \in Seq(Ids) /\ heap.proms[p].index \in Nat
        BY <2>1, Parts, HeapParts
      <4>3. heap.proms[p].index \in 1 .. Len(heap.unhandled)
            /\ heap.unhandled[heap.proms[p].index] = p
        BY <2>1, <4>1, <4>2, LenProperties DEF Linked
      <4>4. DOMAIN heap.unhandled = 1 .. Len(heap.unhandled)
        BY <4>2, LenProperties
      <4> QED BY <4>3, <4>4 DEF ToSet
    <3> QED BY <3>1
  <2>3. p \in heap.delivered \cup Watching(heap) \cup Blocked(stack) \cup abandoned
    BY <2>1, <2>2, OwnParts DEF Pursued
  <2>4. Blocked(stack) = {}
    BY <2>1, BareStack
  <2>5. p \notin Watching(heap)
    <3>1. ASSUME NEW r \in Jobs(heap), r.on = p PROVE FALSE
      <4>1. PICK q \in Lines : \E k \in 1 .. Len(Line(heap, q)) : Line(heap, q)[k] = r
        BY JobIn
      <4>2. PICK k \in 1 .. Len(Line(heap, q)) : Line(heap, q)[k] = r
        BY <4>1
      <4>3. Len(<<>>) = 0 /\ ~ \E i \in 1 .. 0 : TRUE
        OBVIOUS
      <4>4. q # 0 /\ q \in Ids
        BY <2>1, <4>2, <4>3, IdsAre DEF Line, Lines
      <4>5. heap.proms[q].reactions[k].on = q /\ heap.proms[q].reactions # <<>>
        BY <4>2, <4>3, <4>4, Parts, ReactionsAre DEF Line
      <4>6. q = p
        BY <3>1, <4>2, <4>4, <4>5 DEF Line
      <4> QED BY <4>4, <4>5, <4>6, Parts, ReactionsAre
    <3> QED BY <3>1 DEF Watching
  <2> QED BY <2>3, <2>4, <2>5
<1> QED BY <1>1, OwnInvariance, PTL

(* The promise of an async call is pending while its body runs or waits, and    *)
(* later only while another reaction will settle it.                            *)
THEOREM ResultsFollow == Spec => []ResultAfterBody
<1>1. IInv /\ Own => ResultAfterBody
  <2> SUFFICES ASSUME IInv, Own, NEW c \in Coroutines
               PROVE  /\ co[c] \in {"active", "waiting"} => heap.proms[promiseOf[c]].state = "pending"
                      /\ co[c] = "done" /\ heap.proms[promiseOf[c]].state = "pending" =>
                            \/ \E p \in Known : heap.proms[p].state = "pending"
                                  /\ \E k \in DOMAIN heap.proms[p].reactions :
                                        heap.proms[p].reactions[k].result = promiseOf[c]
                            \/ \E k \in DOMAIN heap.tasks : heap.tasks[k].result = promiseOf[c]
    BY DEF ResultAfterBody
  <2>1. co[c] \in {"active", "waiting"} => heap.proms[promiseOf[c]].state = "pending"
    BY OwnParts DEF Bodies
  <2>2. ASSUME co[c] = "done", heap.proms[promiseOf[c]].state = "pending"
        PROVE  \/ \E p \in Known : heap.proms[p].state = "pending"
                     /\ \E k \in DOMAIN heap.proms[p].reactions :
                           heap.proms[p].reactions[k].result = promiseOf[c]
               \/ \E k \in DOMAIN heap.tasks : heap.tasks[k].result = promiseOf[c]
    <3>1. PICK r \in Jobs(heap) : r.result = promiseOf[c]
      BY <2>2, OwnParts DEF Returned, Following
    <3>2. PICK p \in Lines : \E k \in 1 .. Len(Line(heap, p)) : Line(heap, p)[k] = r
      BY JobIn
    <3>3. PICK k \in 1 .. Len(Line(heap, p)) : Line(heap, p)[k] = r
      BY <3>2
    <3>4. DOMAIN Line(heap, p) = 1 .. Len(Line(heap, p))
      BY Parts, LinesAre, LenProperties
    <3>5. CASE p = 0
      BY <3>1, <3>3, <3>4, <3>5 DEF Line
    <3>6. CASE p # 0
      <4>1. p \in Ids /\ Line(heap, p) = heap.proms[p].reactions
        BY <3>6, IdsAre DEF Line, Lines
      <4>2. p \in Known /\ heap.proms[p].state = "pending"
        BY <3>3, <4>1, Holder
      <4> QED BY <3>1, <3>3, <3>4, <4>1, <4>2
    <3> QED BY <3>5, <3>6
  <2> QED BY <2>1, <2>2
<1> QED BY <1>1, OwnInvariance, PTL

(* A suspended body has one wakeup, in the queue or with the promise it awaits; *)
(* any other body has none.                                                     *)
THEOREM OneWakerKept == Spec => []OneWaker
<1>1. IInv /\ Own => OneWaker
  <2> SUFFICES ASSUME IInv, Own, NEW c \in Coroutines
               PROVE  Wakers(c) = IF co[c] = "waiting" THEN 1 ELSE 0
    BY DEF OneWaker
  <2> DEFINE Wakes(p, k) == /\ p \in Lines /\ k \in 1 .. Len(Line(heap, p))
                            /\ Line(heap, p)[k].co = c
             A == {k \in DOMAIN heap.tasks : heap.tasks[k].co = c}
             B == {w \in UNION {{p} \X DOMAIN heap.proms[p].reactions : p \in Known} :
                      heap.proms[w[1]].reactions[w[2]].co = c}
  <2>1. \A k : k \in A <=> Wakes(0, k)
    <3>1. DOMAIN heap.tasks = 1 .. Len(heap.tasks) /\ 0 \in Lines
      BY Parts, ReactionsAre, LenProperties, IdsAre DEF Lines
    <3> QED BY <3>1 DEF Line
  <2>2. ASSUME NEW w PROVE w \in B <=> \E p \in Ids, k \in Nat : w = <<p, k>> /\ Wakes(p, k)
    <3>1. \A p \in Ids : p \in Lines /\ p # 0 /\ Line(heap, p) = heap.proms[p].reactions
      BY IdsAre DEF Lines, Line
    <3>2. \A p \in Lines : /\ DOMAIN Line(heap, p) = 1 .. Len(Line(heap, p))
                           /\ Len(Line(heap, p)) \in Nat
      BY Parts, LinesAre, LenProperties
    <3>3. ASSUME w \in B PROVE \E p \in Ids, k \in Nat : w = <<p, k>> /\ Wakes(p, k)
      <4>1. PICK p \in Known : w \in {p} \X DOMAIN heap.proms[p].reactions
        BY <3>3
      <4>2. p \in Ids /\ w = <<p, w[2]>> /\ w[2] \in DOMAIN Line(heap, p)
        BY <3>1, <4>1, Parts
      <4>3. w[2] \in 1 .. Len(Line(heap, p)) /\ w[2] \in Nat
        BY <3>1, <3>2, <4>2
      <4>4. Line(heap, p)[w[2]].co = c
        BY <3>1, <3>3, <4>2
      <4> QED BY <3>1, <4>2, <4>3, <4>4
    <3>4. ASSUME NEW p \in Ids, NEW k \in Nat, w = <<p, k>>, Wakes(p, k) PROVE w \in B
      <4>1. k \in 1 .. Len(heap.proms[p].reactions) /\ heap.proms[p].reactions[k].co = c
        BY <3>1, <3>4
      <4>2. p \in Known
        BY <4>1, Holder
      <4>3. k \in DOMAIN heap.proms[p].reactions
        BY <3>1, <3>2, <4>1
      <4> QED BY <3>4, <4>1, <4>2, <4>3
    <3> QED BY <3>3, <3>4
  <2>3. \A p, k : Wakes(p, k) => Line(heap, p)[k] \in Jobs(heap) /\ Line(heap, p)[k].kind = "wake"
    <3>1. \A p, k : Wakes(p, k) => Line(heap, p)[k] \in Jobs(heap)
      BY JobIn
    <3>2. c # NoCo
      BY DEF Coroutines, NoCo
    <3> QED BY <3>1, <3>2, OwnParts DEF Plain
  <2>4. ASSUME NEW p, NEW q, NEW k, NEW j, Wakes(p, k), Wakes(q, j) PROVE p = q /\ k = j
    <3>1. Rivals(Line(heap, p)[k], Line(heap, q)[j])
      BY <2>3, <2>4 DEF Rivals
    <3> QED BY <2>4, <3>1, OwnParts DEF NoRivals
  <2>5. (co[c] = "waiting") <=> \E p, k : Wakes(p, k)
    <3>1. c \in Waking(heap) => \E p, k : Wakes(p, k)
      <4>1. c \in Waking(heap) => \E r \in Jobs(heap) : r.co = c
        BY DEF Waking
      <4> QED BY <4>1, JobIn
    <3>2. (\E p, k : Wakes(p, k)) => c \in Waking(heap)
      BY <2>3 DEF Waking
    <3> QED BY <3>1, <3>2, OwnParts DEF Scheduled
  <2>6. Wakers(c) = Cardinality(A) + Cardinality(B)
    BY DEF Wakers
  <2>7. \A p, k : Wakes(p, k) => p = 0 \/ (p \in Ids /\ k \in Nat)
    BY Parts, LinesAre, IdsAre DEF Lines
  <2>8. 0 \notin Ids
    BY IdsAre
  <2> HIDE DEF Wakes, A, B
  <2>9. Cardinality({}) = 0 /\ \A x : Cardinality({x}) = 1
    BY FS_EmptySet, FS_Singleton
  <2>10. CASE \E k : Wakes(0, k)
    <3>1. PICK k : Wakes(0, k)
      BY <2>10
    <3>2. A = {k} /\ B = {}
      BY <2>1, <2>2, <2>4, <2>8, <3>1
    <3> QED BY <2>5, <2>6, <2>9, <3>1, <3>2
  <2>11. CASE \E p \in Ids, k \in Nat : Wakes(p, k)
    <3>1. PICK p \in Ids, k \in Nat : Wakes(p, k)
      BY <2>11
    <3>2. A = {}
      BY <2>1, <2>4, <2>8, <3>1
    <3>3. B = {<<p, k>>}
      BY <2>2, <2>4, <3>1
    <3>4. Cardinality(A) = 0 /\ Cardinality(B) = 1
      <4> DEFINE w == <<p, k>>
      <4>1. B = {w}
        BY <3>3
      <4> HIDE DEF w
      <4> QED BY <2>9, <3>2, <4>1
    <3>5. co[c] = "waiting"
      BY <2>5, <3>1
    <3> QED BY <2>6, <3>4, <3>5
  <2>12. CASE ~ \E p, k : Wakes(p, k)
    <3>1. A = {} /\ B = {}
      BY <2>1, <2>2, <2>12
    <3> QED BY <2>5, <2>6, <2>9, <2>12, <3>1
  <2> QED BY <2>7, <2>10, <2>11, <2>12
<1> QED BY <1>1, OwnInvariance, PTL
=============================================================================
