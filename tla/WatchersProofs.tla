--------------------------- MODULE WatchersProofs ---------------------------
(***************************************************************************)
(* The safety properties of Watchers, for any descriptors, any size of the *)
(* table, any number of registrations and any nesting of dispatches.       *)
(*                                                                         *)
(* That a handler belongs to a sampled registration rests on the slots: as *)
(* long as a dispatch is in progress, no slot below its limit gets a new   *)
(* owner (SeenBy), because reuse is suspended until the outermost dispatch *)
(* has ended (Nested).  An exception only ever leaves the flag set.        *)
(***************************************************************************)
EXTENDS Watchers, FiniteSetTheorems, SequenceTheorems, WellFoundedInduction, TLAPS

(* Putting an element in front moves the others up by one. *)
LEMMA Pushed ==
    ASSUME NEW S, NEW s \in Seq(S), NEW e \in S
    PROVE  /\ <<e>> \o s \in Seq(S) /\ <<e>> \o s # <<>>
           /\ Len(s) \in Nat /\ Len(<<e>> \o s) = Len(s) + 1
           /\ DOMAIN s = 1 .. Len(s) /\ DOMAIN (<<e>> \o s) = 1 .. Len(s) + 1
           /\ (<<e>> \o s)[1] = e
           /\ \A i \in 2 .. Len(s) + 1 : (<<e>> \o s)[i] = s[i - 1]
<1> DEFINE t == <<e>>
<1>1. t \in Seq(S) /\ Len(t) = 1 /\ t[1] = e /\ Len(s) \in Nat
  BY LenProperties
<1> QED BY <1>1, ConcatProperties, LenProperties, EmptySeq

(* The tail has the other elements, moved down by one. *)
LEMMA Shortened ==
    ASSUME NEW S, NEW s \in Seq(S), s # <<>>
    PROVE  /\ Len(s) \in Nat /\ Len(s) > 0 /\ DOMAIN s = 1 .. Len(s)
           /\ Head(s) = s[1] /\ s[1] \in S
           /\ Tail(s) \in Seq(S) /\ Len(Tail(s)) = Len(s) - 1
           /\ DOMAIN Tail(s) = 1 .. Len(s) - 1
           /\ \A i \in 1 .. Len(s) - 1 : Tail(s)[i] = s[i + 1]
           /\ Tail(s) = <<>> <=> Len(s) = 1
<1> DEFINE r == Tail(s)
<1>1. r \in Seq(S) /\ Len(r) = Len(s) - 1 /\ Len(s) \in Nat \ {0}
  BY HeadTailProperties, EmptySeq
<1> HIDE DEF r
<1>2. Len(<<>>) = 0 /\ (r # <<>> => Len(r) \in Nat \ {0})
  BY <1>1, EmptySeq
<1>3. r = <<>> <=> Len(s) = 1
  BY <1>1, <1>2
<1> QED BY <1>1, <1>3, HeadTailProperties, LenProperties, ElementOfSeq DEF r

(* Every non-empty set of naturals has a minimum. *)
LEMMA MinOfNaturals ==
    ASSUME NEW S, S \subseteq Nat, S # {}
    PROVE  Min(S) \in S /\ \A y \in S : Min(S) <= y
<1> DEFINE R == OpToRel(<, Nat)
<1>1. IsWellFoundedOn(R, Nat)
  BY NatLessThanWellFounded
<1>2. \A x, y \in Nat : <<x, y>> \in R <=> x < y
  BY DEF OpToRel
<1> HIDE DEF R
<1>3. PICK x \in S : \A y \in S : ~(<<y, x>> \in R)
  BY <1>1, WFMin
<1>4. \A y \in S : x <= y
  <2> TAKE y \in S
  <2>1. x \in Nat /\ y \in Nat /\ ~(<<y, x>> \in R)
    BY <1>3
  <2>2. ~(y < x)
    BY <1>2, <2>1
  <2> QED BY <2>1, <2>2
<1>5. \E z \in S : \A y \in S : z <= y
  BY <1>4
<1> QED BY <1>5 DEF Min
-----------------------------------------------------------------------------
Slot == [fd : Fds \cup {NoFd}, events : Interests, active : BOOLEAN, reg : 1 .. MaxReg]
Poll == [at : Nat \ {0}, limit : Nat, reported : SUBSET (Fds \X Events), saved : BOOLEAN,
         running : 0 .. MaxReg, sampled : SUBSET (1 .. MaxReg)]

ActiveOf(s) == {k \in DOMAIN s : s[k].active}

\* No descriptor has two active slots.
OneSlotEach(s) == \A i, k \in ActiveOf(s) : s[i].fd = s[k].fd => i = k

\* Each dispatch but the outermost restores a flag that was set, and after an
\* exception left them all so does every later one.
Nested(ps, flag, esc) ==
    /\ flag = (ps # <<>> \/ esc)
    /\ \A p \in DOMAIN ps : ps[p].saved = (p # Len(ps) \/ esc)

\* What a dispatch in progress may still call was active when it began.
SeenBy(s, ps) ==
    \A p \in DOMAIN ps : /\ ps[p].limit <= Len(s)
                         /\ \A k \in 1 .. ps[p].limit : s[k].active => s[k].reg \in ps[p].sampled

RanSampled(ps) == \A p \in DOMAIN ps : ps[p].running # 0 => ps[p].running \in ps[p].sampled

Modes == mode = "dispatch" => polls # <<>>

IInv ==
    /\ TypeOK /\ polls \in Seq(Poll)
    /\ activeCount = Cardinality(ActiveOf(slots))
    /\ OneSlotEach(slots)
    /\ Nested(polls, dispatching, escaped)
    /\ SeenBy(slots, polls)
    /\ RanSampled(polls)
    /\ Modes
-----------------------------------------------------------------------------

LEMMA PollPushed ==
    ASSUME NEW ps \in Seq(Poll), NEW e \in Poll
    PROVE  /\ <<e>> \o ps \in Seq(Poll) /\ Len(<<e>> \o ps) = Len(ps) + 1
           /\ Len(ps) \in Nat /\ DOMAIN ps = 1 .. Len(ps)
           /\ DOMAIN (<<e>> \o ps) = 1 .. Len(ps) + 1
           /\ <<e>> \o ps # <<>>
           /\ (<<e>> \o ps)[1] = e
           /\ \A p \in 2 .. Len(ps) + 1 : p - 1 \in DOMAIN ps /\ (<<e>> \o ps)[p] = ps[p - 1]
<1> DEFINE q == <<e>> \o ps
           n == Len(ps)
<1>1. /\ q \in Seq(Poll) /\ q # <<>> /\ n \in Nat /\ Len(q) = n + 1 /\ DOMAIN ps = 1 .. n
      /\ DOMAIN q = 1 .. n + 1 /\ q[1] = e /\ \A i \in 2 .. n + 1 : q[i] = ps[i - 1]
  BY Pushed
<1> HIDE DEF q, n
<1>2. \A p \in 2 .. n + 1 : p - 1 \in DOMAIN ps
  BY <1>1
<1> QED BY <1>1, <1>2 DEF q, n

LEMMA PollPopped ==
    ASSUME NEW ps \in Seq(Poll), ps # <<>>
    PROVE  /\ Len(ps) \in Nat \ {0} /\ DOMAIN ps = 1 .. Len(ps)
           /\ Head(ps) = ps[1] /\ ps[1] \in Poll
           /\ Tail(ps) \in Seq(Poll) /\ Len(Tail(ps)) = Len(ps) - 1
           /\ DOMAIN Tail(ps) = 1 .. Len(ps) - 1
           /\ \A p \in 1 .. Len(ps) - 1 : p + 1 \in DOMAIN ps /\ Tail(ps)[p] = ps[p + 1]
           /\ Tail(ps) = <<>> <=> Len(ps) = 1
<1> DEFINE q == Tail(ps)
           n == Len(ps)
<1>1. /\ n \in Nat /\ n > 0 /\ DOMAIN ps = 1 .. n /\ Head(ps) = ps[1] /\ ps[1] \in Poll
      /\ q \in Seq(Poll) /\ Len(q) = n - 1 /\ DOMAIN q = 1 .. n - 1
      /\ (\A i \in 1 .. n - 1 : q[i] = ps[i + 1]) /\ (q = <<>> <=> n = 1)
  BY Shortened
<1> HIDE DEF q, n
<1>2. n \in Nat \ {0} /\ \A p \in 1 .. n - 1 : p + 1 \in DOMAIN ps
  BY <1>1
<1> QED BY <1>1, <1>2 DEF q, n
-----------------------------------------------------------------------------

LEMMA Types ==
    ASSUME IInv
    PROVE  /\ slots \in Seq(Slot) /\ Len(slots) \in Nat /\ DOMAIN slots = 1 .. Len(slots)
           /\ \A k \in 1 .. Len(slots) : slots[k] \in Slot
           /\ Len(slots) <= MaxWatchers /\ MaxWatchers \in Nat
           /\ polls \in Seq(Poll) /\ Len(polls) \in Nat /\ DOMAIN polls = 1 .. Len(polls)
           /\ \A p \in 1 .. Len(polls) : polls[p] \in Poll
           /\ ActiveSlots = ActiveOf(slots)
<1>1. slots \in Seq(Slot) /\ polls \in Seq(Poll) /\ Len(slots) <= MaxWatchers
  BY DEF IInv, TypeOK, Slot
<1>2. Len(slots) \in Nat /\ DOMAIN slots = 1 .. Len(slots) /\ Len(polls) \in Nat /\ DOMAIN polls = 1 .. Len(polls)
  BY <1>1, LenProperties
<1>3. (\A k \in 1 .. Len(slots) : slots[k] \in Slot) /\ \A p \in 1 .. Len(polls) : polls[p] \in Poll
  BY <1>1, ElementOfSeq
<1> QED BY <1>1, <1>2, <1>3, WatchersAssumption DEF ActiveSlots, ActiveOf

(* The active slots are finite, and no more than the table has. *)
LEMMA ActiveFinite ==
    ASSUME NEW s \in Seq(Slot)
    PROVE  IsFiniteSet(ActiveOf(s)) /\ Cardinality(ActiveOf(s)) \in Nat /\ Cardinality(ActiveOf(s)) <= Len(s)
<1>1. DOMAIN s = 1 .. Len(s) /\ Len(s) \in Nat
  BY LenProperties
<1>2. IsFiniteSet(1 .. Len(s)) /\ Cardinality(1 .. Len(s)) = Len(s)
  <2>1. 1 \in Int /\ Len(s) \in Int /\ (1 > Len(s) => Len(s) = 0) /\ Len(s) - 1 + 1 = Len(s)
    BY <1>1
  <2> QED BY <2>1, FS_Interval
<1>3. ActiveOf(s) \subseteq 1 .. Len(s)
  BY <1>1 DEF ActiveOf
<1> QED BY <1>2, <1>3, FS_Subset, FS_CardinalityType

(* Slots that keep descriptor, registration and activity keep the invariant. *)
LEMMA SameSlots ==
    ASSUME NEW s \in Seq(Slot), NEW q \in Seq(Slot), Len(q) = Len(s),
           \A i \in 1 .. Len(s) : q[i].fd = s[i].fd /\ q[i].active = s[i].active /\ q[i].reg = s[i].reg,
           NEW ps
    PROVE  /\ ActiveOf(q) = ActiveOf(s)
           /\ OneSlotEach(s) => OneSlotEach(q)
           /\ ps \in Seq(Poll) /\ SeenBy(s, ps) => SeenBy(q, ps)
<1>1. DOMAIN s = 1 .. Len(s) /\ DOMAIN q = 1 .. Len(s) /\ Len(s) \in Nat
  BY LenProperties
<1>2. ActiveOf(q) = ActiveOf(s) /\ ActiveOf(s) \subseteq 1 .. Len(s)
  BY <1>1 DEF ActiveOf
<1>3. OneSlotEach(s) => OneSlotEach(q)
  BY <1>2 DEF OneSlotEach
<1>4. ASSUME ps \in Seq(Poll), SeenBy(s, ps) PROVE SeenBy(q, ps)
  <2> SUFFICES ASSUME NEW p \in DOMAIN ps
               PROVE  /\ ps[p].limit <= Len(q)
                      /\ \A k \in 1 .. ps[p].limit : q[k].active => q[k].reg \in ps[p].sampled
    BY DEF SeenBy
  <2>1. ps[p].limit \in Nat /\ ps[p].limit <= Len(s)
    <3>1. ps[p] \in Poll
      BY <1>4, LenProperties, ElementOfSeq
    <3> QED BY <1>4, <3>1 DEF Poll, SeenBy
  <2>2. \A k \in 1 .. ps[p].limit : k \in 1 .. Len(s)
    BY <1>1, <2>1
  <2> QED BY <1>4, <2>1, <2>2 DEF SeenBy
<1> QED BY <1>2, <1>3, <1>4

(* A change of the table that leaves everything else alone. *)
LEMMA SlotOf ==
    ASSUME IInv, NEW fd \in Fds, SlotsOf(fd) # {}
    PROVE  /\ Min(SlotsOf(fd)) \in ActiveOf(slots) /\ Min(SlotsOf(fd)) \in 1 .. Len(slots)
           /\ slots[Min(SlotsOf(fd))].fd = fd
<1>1. SlotsOf(fd) \subseteq 1 .. Len(slots) /\ SlotsOf(fd) \subseteq ActiveOf(slots)
  BY Types DEF SlotsOf, ActiveSlots, ActiveOf
<1>2. SlotsOf(fd) \subseteq Nat
  BY <1>1
<1>3. Min(SlotsOf(fd)) \in SlotsOf(fd)
  BY <1>2, MinOfNaturals
<1> QED BY <1>1, <1>3 DEF SlotsOf

LEMMA InterestsInv ==
    ASSUME IInv, NEW fd \in Fds, NEW events \in Interests, SlotsOf(fd) # {},
           slots' = [slots EXCEPT ![Min(SlotsOf(fd))].events = events],
           UNCHANGED <<activeCount, dispatching, ready, mode, polls, regs, escaped>>
    PROVE  IInv'
<1> DEFINE k == Min(SlotsOf(fd))
           w == [slots[k] EXCEPT !.events = events]
<1>1. k \in 1 .. Len(slots) /\ slots \in Seq(Slot) /\ slots[k] \in Slot
  BY Types, SlotOf
<1>2. /\ w \in Slot /\ w.fd = slots[k].fd /\ w.active = slots[k].active /\ w.reg = slots[k].reg
      /\ slots' = [slots EXCEPT ![k] = w]
  BY <1>1 DEF Slot
<1> HIDE DEF k, w
<1>3. /\ slots' \in Seq(Slot) /\ Len(slots') = Len(slots)
      /\ \A i \in 1 .. Len(slots) : slots'[i] = IF i = k THEN w ELSE slots[i]
  <2> DEFINE q == [slots EXCEPT ![k] = w]
  <2>1. w \in Slot /\ slots' = q
    BY <1>2
  <2>2. /\ q \in Seq(Slot) /\ Len(q) = Len(slots)
        /\ \A i \in 1 .. Len(slots) : q[i] = IF i = k THEN w ELSE slots[i]
    BY <1>1, <2>1, ExceptSeq
  <2> HIDE DEF q
  <2> QED BY <2>1, <2>2
<1>4. /\ ActiveOf(slots') = ActiveOf(slots) /\ OneSlotEach(slots')
      /\ SeenBy(slots', polls)
  <2>1. \A i \in 1 .. Len(slots) : /\ slots'[i].fd = slots[i].fd
                                   /\ slots'[i].active = slots[i].active
                                   /\ slots'[i].reg = slots[i].reg
    BY <1>2, <1>3
  <2> QED BY <1>1, <1>3, <2>1, SameSlots DEF IInv
<1>5. TypeOK'
  BY <1>3 DEF IInv, TypeOK, Slot
<1> QED BY <1>4, <1>5 DEF IInv, Modes

LEMMA RemoveInv ==
    ASSUME IInv, NEW fd \in Fds, Remove(fd)
    PROVE  IInv'
<1> DEFINE k == Min(SlotsOf(fd))
           w == [slots[k] EXCEPT !.active = FALSE, !.fd = NoFd]
<1>0. SlotsOf(fd) # {}
  BY DEF Remove
<1>1. k \in 1 .. Len(slots) /\ slots \in Seq(Slot) /\ slots[k] \in Slot /\ k \in ActiveOf(slots)
      /\ Len(slots) \in Nat /\ DOMAIN slots = 1 .. Len(slots)
  BY <1>0, Types, SlotOf
<1>2. /\ w \in Slot /\ w.active = FALSE /\ w.reg = slots[k].reg
      /\ slots' = [slots EXCEPT ![k] = w]
  BY <1>1 DEF Slot, Remove, NoFd
<1> HIDE DEF k, w
<1>3. /\ slots' \in Seq(Slot) /\ Len(slots') = Len(slots)
      /\ \A i \in 1 .. Len(slots) : slots'[i] = IF i = k THEN w ELSE slots[i]
  BY <1>1, <1>2, ExceptSeq
<1>4. DOMAIN slots' = 1 .. Len(slots)
  BY <1>3, LenProperties
<1>5. ActiveOf(slots') = ActiveOf(slots) \ {k}
  BY <1>1, <1>2, <1>3, <1>4 DEF ActiveOf
<1>6. activeCount' = Cardinality(ActiveOf(slots')) /\ activeCount' \in 0 .. MaxWatchers
  <2>1. IsFiniteSet(ActiveOf(slots)) /\ Cardinality(ActiveOf(slots)) \in Nat
    BY <1>1, ActiveFinite
  <2>2. Cardinality(ActiveOf(slots')) = Cardinality(ActiveOf(slots)) - 1
    BY <1>1, <1>5, <2>1, FS_RemoveElement
  <2>3. activeCount' = activeCount - 1 /\ activeCount = Cardinality(ActiveOf(slots))
    BY DEF Remove, IInv
  <2>4. Cardinality(ActiveOf(slots')) \in Nat /\ Cardinality(ActiveOf(slots')) <= Len(slots)
    BY <1>3, ActiveFinite
  <2>5. Len(slots) <= MaxWatchers /\ MaxWatchers \in Nat
    BY Types
  <2> QED BY <1>1, <2>2, <2>3, <2>4, <2>5
<1>7. OneSlotEach(slots')
  <2>1. \A i \in ActiveOf(slots') : i \in ActiveOf(slots) /\ slots'[i] = slots[i]
    BY <1>1, <1>3, <1>5 DEF ActiveOf
  <2> QED BY <2>1 DEF IInv, OneSlotEach
<1>8. SeenBy(slots', polls)
  <2> SUFFICES ASSUME NEW p \in DOMAIN polls
               PROVE  /\ polls[p].limit <= Len(slots')
                      /\ \A i \in 1 .. polls[p].limit :
                             slots'[i].active => slots'[i].reg \in polls[p].sampled
    BY DEF SeenBy
  <2>1. polls[p].limit \in Nat /\ polls[p].limit <= Len(slots)
    BY Types DEF IInv, SeenBy, Poll
  <2>2. \A i \in 1 .. polls[p].limit : i \in 1 .. Len(slots)
    BY <1>1, <2>1
  <2>3. \A i \in 1 .. polls[p].limit : slots[i].active => slots[i].reg \in polls[p].sampled
    BY DEF IInv, SeenBy
  <2> QED BY <1>2, <1>3, <2>1, <2>2, <2>3
<1>9. TypeOK'
  BY <1>3, <1>6 DEF IInv, TypeOK, Slot, Remove
<1> QED BY <1>6, <1>7, <1>8, <1>9 DEF IInv, Modes, Remove

(* The slot a new registration gets is free, and during a dispatch it is new. *)
LEMMA FreeSlotFits ==
    ASSUME IInv
    PROVE  /\ FreeSlot \in 1 .. Len(slots) + 1
           /\ FreeSlot \in 1 .. Len(slots) => ~dispatching /\ FreeSlot \notin ActiveOf(slots)
<1> DEFINE inactive == DOMAIN slots \ ActiveSlots
<1>1. inactive \subseteq Nat /\ Len(slots) \in Nat /\ inactive \subseteq 1 .. Len(slots)
  BY Types
<1>2. CASE ~dispatching /\ inactive # {}
  <2>1. Min(inactive) \in inactive /\ FreeSlot = Min(inactive)
    BY <1>1, <1>2, MinOfNaturals DEF FreeSlot
  <2> QED BY <1>1, <1>2, <2>1, Types
<1>3. CASE ~(~dispatching /\ inactive # {})
  <2>1. FreeSlot = Len(slots) + 1
    BY <1>3 DEF FreeSlot
  <2> QED BY <1>1, <2>1
<1> QED BY <1>2, <1>3

LEMMA AddNewInv ==
    ASSUME IInv, NEW fd \in Fds, NEW events \in Interests, AddNew(fd, events),
           UNCHANGED <<dispatching, ready, mode, polls, escaped>>
    PROVE  IInv'
<1> DEFINE f == FreeSlot
           w == Watcher(fd, events)
           n == Len(slots)
<1>1. /\ slots \in Seq(Slot) /\ n \in Nat /\ DOMAIN slots = 1 .. n
      /\ n <= MaxWatchers /\ MaxWatchers \in Nat /\ f <= MaxWatchers
      /\ f \in 1 .. n + 1 /\ (f \in 1 .. n => ~dispatching /\ f \notin ActiveOf(slots))
  BY Types, FreeSlotFits DEF AddNew, HasRoom
<1>2. w \in Slot /\ w.fd = fd /\ w.active = TRUE /\ regs + 1 \in 1 .. MaxReg
  <2>1. regs + 1 \in 1 .. MaxReg
    BY WatchersAssumption DEF IInv, TypeOK, AddNew
  <2> QED BY <2>1 DEF Watcher, Slot
<1>3. slots' = IF f \in 1 .. n THEN [slots EXCEPT ![f] = w] ELSE Append(slots, w)
  BY <1>1 DEF AddNew
<1> HIDE DEF f, w, n
<1>4. /\ slots' \in Seq(Slot) /\ Len(slots') = (IF f \in 1 .. n THEN n ELSE n + 1)
      /\ slots'[f] = w /\ \A i \in 1 .. n : i # f => slots'[i] = slots[i]
  <2>1. CASE f \in 1 .. n
    BY <1>1, <1>2, <1>3, <2>1, ExceptSeq DEF n
  <2>2. CASE f \notin 1 .. n
    <3>1. f = n + 1 /\ slots' = Append(slots, w)
      BY <1>1, <1>3, <2>2
    <3> QED BY <1>1, <1>2, <3>1, AppendProperties DEF n
  <2> QED BY <2>1, <2>2
<1>5. /\ DOMAIN slots' = 1 .. Len(slots') /\ Len(slots') <= MaxWatchers
      /\ \A i \in 1 .. Len(slots') : i = f \/ i \in 1 .. n
  BY <1>1, <1>4, LenProperties
<1>6. f \notin ActiveOf(slots) /\ ActiveOf(slots') = ActiveOf(slots) \cup {f}
  <2>1. f \notin ActiveOf(slots)
    BY <1>1 DEF ActiveOf
  <2>2. \A i \in 1 .. n : i \in 1 .. Len(slots')
    BY <1>1, <1>4
  <2>3. f \in 1 .. Len(slots')
    BY <1>1, <1>4
  <2> QED BY <1>1, <1>2, <1>4, <1>5, <2>1, <2>2, <2>3 DEF ActiveOf
<1>7. activeCount' = Cardinality(ActiveOf(slots')) /\ activeCount' \in 0 .. MaxWatchers
  <2>1. IsFiniteSet(ActiveOf(slots)) /\ Cardinality(ActiveOf(slots)) \in Nat
    BY <1>1, ActiveFinite
  <2>2. Cardinality(ActiveOf(slots')) = Cardinality(ActiveOf(slots)) + 1
    BY <1>6, <2>1, FS_AddElement
  <2>3. activeCount' = activeCount + 1 /\ activeCount = Cardinality(ActiveOf(slots))
    BY DEF AddNew, IInv, CountAfterAdd
  <2>4. Cardinality(ActiveOf(slots')) \in Nat /\ Cardinality(ActiveOf(slots')) <= Len(slots')
    BY <1>4, ActiveFinite
  <2>5. Len(slots') \in Nat
    BY <1>1, <1>4
  <2> QED BY <1>1, <1>5, <2>2, <2>3, <2>4, <2>5
<1>8. OneSlotEach(slots')
  <2>1. \A i \in ActiveOf(slots) : i \in 1 .. n /\ i # f /\ slots'[i] = slots[i] /\ slots[i].fd # fd
    <3>1. SlotsOf(fd) = {} /\ ActiveSlots = ActiveOf(slots)
      BY Types DEF AddNew
    <3>2. \A i \in ActiveOf(slots) : i \in 1 .. n /\ i # f
      BY <1>1, <1>6 DEF ActiveOf
    <3> QED BY <1>4, <3>1, <3>2 DEF SlotsOf
  <2> QED BY <1>2, <1>4, <1>6, <2>1 DEF IInv, OneSlotEach
<1>9. SeenBy(slots', polls)
  <2> SUFFICES ASSUME NEW p \in DOMAIN polls
               PROVE  /\ polls[p].limit <= Len(slots')
                      /\ \A i \in 1 .. polls[p].limit :
                             slots'[i].active => slots'[i].reg \in polls[p].sampled
    BY DEF SeenBy
  <2>1. polls[p].limit \in Nat /\ polls[p].limit <= n
    BY Types DEF IInv, SeenBy, Poll, n
  <2>2. dispatching
    <3>1. polls # <<>>
      <4>1. Len(<<>>) = 0
        OBVIOUS
      <4>2. Len(polls) # 0
        BY Types
      <4> QED BY <4>1, <4>2
    <3> QED BY <3>1 DEF IInv, Nested
  <2>3. f \notin 1 .. n
    BY <1>1, <2>2
  <2>4. \A i \in 1 .. polls[p].limit : i \in 1 .. n /\ i # f
    BY <1>1, <2>1, <2>3
  <2>5. \A i \in 1 .. polls[p].limit : slots[i].active => slots[i].reg \in polls[p].sampled
    BY DEF IInv, SeenBy
  <2> QED BY <1>1, <1>4, <2>1, <2>3, <2>4, <2>5
<1>10. TypeOK'
  <2>1. regs' \in 0 .. MaxReg
    BY <1>2, WatchersAssumption DEF AddNew
  <2> QED BY <1>4, <1>5, <1>7, <2>1 DEF IInv, TypeOK, Slot
<1> QED BY <1>7, <1>8, <1>9, <1>10 DEF IInv, Modes

LEMMA AddInv ==
    ASSUME IInv, NEW fd \in Fds, NEW events \in Interests, Add(fd, events)
    PROVE  IInv'
<1>0. UNCHANGED <<dispatching, ready, mode, polls, escaped>>
  BY DEF Add
<1>1. CASE AddExisting(fd, events)
  BY <1>0, <1>1, InterestsInv DEF AddExisting
<1>2. CASE AddNew(fd, events)
  BY <1>0, <1>2, AddNewInv
<1> QED BY <1>1, <1>2 DEF Add

(* Steps that leave the table and the dispatches alone. *)
LEMMA ReadyInv ==
    ASSUME IInv, ready' \subseteq Fds \X Events,
           mode' \in {"js", "loop", "select", "dispatch", "exit"},
           mode' = "dispatch" => polls # <<>>,
           UNCHANGED <<slots, activeCount, dispatching, polls, regs, escaped>>
    PROVE  IInv'
<1>1. TypeOK'
  BY DEF IInv, TypeOK
<1>2. /\ activeCount' = Cardinality(ActiveOf(slots')) /\ OneSlotEach(slots')
      /\ Nested(polls', dispatching', escaped') /\ SeenBy(slots', polls') /\ RanSampled(polls')
      /\ polls' \in Seq(Poll)
  BY DEF IInv
<1> QED BY <1>1, <1>2 DEF IInv, Modes

(* A dispatch begins with a slot it may call for each registration it sampled. *)
LEMMA SelectReadyInv ==
    ASSUME IInv, SelectReady
    PROVE  IInv'
<1> DEFINE e == [at |-> 1, limit |-> Len(slots), reported |-> Reported, saved |-> dispatching,
                 running |-> 0, sampled |-> {slots[k].reg : k \in ActiveSlots}]
<1>1. e \in Poll
  <2>1. Reported \subseteq Fds \X Events /\ dispatching \in BOOLEAN
    BY DEF IInv, TypeOK, Reported
  <2>2. \A k \in ActiveSlots : slots[k].reg \in 1 .. MaxReg
    BY Types DEF ActiveOf, Slot
  <2>3. 0 \in 0 .. MaxReg /\ Len(slots) \in Nat /\ 1 \in Nat
    BY Types, WatchersAssumption
  <2> QED BY <2>1, <2>2, <2>3 DEF Poll
<1>2. /\ e.limit = Len(slots) /\ e.saved = dispatching /\ e.running = 0
      /\ \A k \in 1 .. Len(slots) : slots[k].active => slots[k].reg \in e.sampled
  BY Types DEF ActiveOf
<1>3. polls' = <<e>> \o polls /\ dispatching' = TRUE /\ mode' = "dispatch"
      /\ UNCHANGED <<slots, activeCount, ready, regs, escaped>>
  BY DEF SelectReady
<1> HIDE DEF e
<1>4. polls \in Seq(Poll) /\ Len(slots) \in Nat
  BY Types
<1>5. /\ polls' \in Seq(Poll) /\ DOMAIN polls' = 1 .. Len(polls) + 1 /\ Len(polls') = Len(polls) + 1
      /\ polls' # <<>> /\ polls'[1] = e /\ Len(polls) \in Nat /\ DOMAIN polls = 1 .. Len(polls)
      /\ \A p \in 2 .. Len(polls) + 1 : p - 1 \in DOMAIN polls /\ polls'[p] = polls[p - 1]
  BY <1>1, <1>3, <1>4, PollPushed
<1>6. \A p \in DOMAIN polls' : p = 1 \/ p \in 2 .. Len(polls) + 1
  BY <1>5
<1>7. Nested(polls', dispatching', escaped')
  <2>1. dispatching = (Len(polls) # 0 \/ escaped)
    BY <1>4, EmptySeq DEF IInv, Nested
  <2>2. polls'[1].saved = (1 # Len(polls') \/ escaped)
    BY <1>2, <1>5, <2>1
  <2>3. \A p \in 2 .. Len(polls) + 1 : polls'[p].saved = (p # Len(polls') \/ escaped)
    <3>1. \A p \in DOMAIN polls : polls[p].saved = (p # Len(polls) \/ escaped)
      BY DEF IInv, Nested
    <3> QED BY <1>5, <3>1
  <2> QED BY <1>3, <1>5, <1>6, <2>2, <2>3 DEF Nested
<1>8. SeenBy(slots', polls')
  <2>1. \A p \in DOMAIN polls : /\ polls[p].limit <= Len(slots)
                                /\ \A k \in 1 .. polls[p].limit :
                                       slots[k].active => slots[k].reg \in polls[p].sampled
    BY DEF IInv, SeenBy
  <2>2. e.limit <= Len(slots)
    BY <1>2, <1>4
  <2> QED BY <1>2, <1>3, <1>5, <1>6, <2>1, <2>2 DEF SeenBy
<1>9. RanSampled(polls')
  BY <1>2, <1>5, <1>6 DEF IInv, RanSampled
<1>10. TypeOK'
  BY <1>3 DEF IInv, TypeOK
<1>11. activeCount' = Cardinality(ActiveOf(slots')) /\ OneSlotEach(slots')
  BY <1>3 DEF IInv
<1> QED BY <1>3, <1>5, <1>7, <1>8, <1>9, <1>10, <1>11 DEF IInv, Modes

(* What a dispatch calls next is active, below its limit, and thus sampled. *)
LEMMA DueSampled ==
    ASSUME IInv, polls # <<>>, Due # {}
    PROVE  /\ Min(Due) \in 1 .. Len(slots)
           /\ slots[Min(Due)].reg \in 1 .. MaxReg /\ slots[Min(Due)].reg \in polls[1].sampled
<1>1. Current = polls[1] /\ polls[1] \in Poll /\ 1 \in DOMAIN polls
  <2>1. polls \in Seq(Poll)
    BY Types
  <2> QED BY <2>1, PollPopped DEF Current
<1>2. /\ polls[1].at \in Nat \ {0} /\ polls[1].limit \in Nat /\ polls[1].limit <= Len(slots)
      /\ \A k \in 1 .. polls[1].limit : slots[k].active => slots[k].reg \in polls[1].sampled
  BY <1>1 DEF IInv, SeenBy, Poll
<1>3. Due \subseteq 1 .. polls[1].limit /\ \A k \in Due : slots[k].active
  BY <1>1, <1>2 DEF Due
<1>4. Due \subseteq Nat
  BY <1>3
<1>5. Min(Due) \in Due
  BY <1>4, MinOfNaturals
<1>6. Min(Due) \in 1 .. Len(slots) /\ Len(slots) \in Nat
  <2>1. Min(Due) \in 1 .. polls[1].limit /\ Len(slots) \in Nat
    BY <1>3, <1>5, Types
  <2> QED BY <1>2, <2>1
<1>7. slots[Min(Due)].reg \in 1 .. MaxReg
  BY <1>6, Types DEF Slot
<1> QED BY <1>2, <1>3, <1>5, <1>6, <1>7

(* The call advances the innermost dispatch and leaves the outer ones alone. *)
LEMMA CallHandlerInv ==
    ASSUME IInv, CallHandler
    PROVE  IInv'
<1> DEFINE k == Min(Due)
           e == [Current EXCEPT !.at = k + 1, !.running = slots[k].reg]
           rest == Tail(polls)
<1>1. polls # <<>> /\ polls \in Seq(Poll) /\ mode' = "js"
      /\ UNCHANGED <<slots, activeCount, dispatching, regs, escaped>> /\ Due # {}
  BY Types DEF IInv, Modes, CallHandler
<1>2. k \in 1 .. Len(slots) /\ slots[k].reg \in 1 .. MaxReg /\ slots[k].reg \in polls[1].sampled
  BY <1>1, DueSampled
<1>3. polls' = <<e>> \o rest /\ ready' \subseteq ready
  BY DEF CallHandler
<1>4. /\ Len(polls) \in Nat \ {0} /\ DOMAIN polls = 1 .. Len(polls)
      /\ Current = polls[1] /\ polls[1] \in Poll
      /\ rest \in Seq(Poll) /\ Len(rest) = Len(polls) - 1 /\ DOMAIN rest = 1 .. Len(polls) - 1
      /\ \A p \in 1 .. Len(polls) - 1 : p + 1 \in DOMAIN polls /\ rest[p] = polls[p + 1]
  BY <1>1, PollPopped DEF Current
<1>5. /\ e \in Poll /\ e.limit = polls[1].limit /\ e.saved = polls[1].saved
      /\ e.sampled = polls[1].sampled /\ e.running = slots[k].reg
  <2>1. k + 1 \in Nat \ {0} /\ slots[k].reg \in 0 .. MaxReg
    BY <1>2, WatchersAssumption
  <2> HIDE DEF k
  <2> QED BY <1>4, <2>1 DEF Poll
<1> HIDE DEF e, rest, k
<1>6. /\ polls' \in Seq(Poll) /\ Len(polls') = Len(rest) + 1 /\ DOMAIN polls' = 1 .. Len(rest) + 1
      /\ polls' # <<>> /\ polls'[1] = e
      /\ \A p \in 2 .. Len(rest) + 1 : p - 1 \in DOMAIN rest /\ polls'[p] = rest[p - 1]
  BY <1>3, <1>4, <1>5, PollPushed
<1>7. /\ Len(polls') = Len(polls) /\ DOMAIN polls' = DOMAIN polls
      /\ polls'[1].limit = polls[1].limit /\ polls'[1].saved = polls[1].saved
      /\ polls'[1].sampled = polls[1].sampled /\ polls'[1].running = slots[k].reg
      /\ \A p \in DOMAIN polls : p # 1 => polls'[p] = polls[p]
  <2>1. Len(polls') = Len(polls) /\ DOMAIN polls' = DOMAIN polls
    BY <1>4, <1>6
  <2>2. ASSUME NEW p \in DOMAIN polls, p # 1 PROVE polls'[p] = polls[p]
    <3>1. p \in 2 .. Len(rest) + 1 /\ p - 1 \in 1 .. Len(polls) - 1 /\ (p - 1) + 1 = p
      BY <1>4, <2>2
    <3> QED BY <1>4, <1>6, <3>1
  <2> QED BY <1>5, <1>6, <2>1, <2>2
<1>8. \A p \in DOMAIN polls : /\ polls'[p].limit = polls[p].limit
                              /\ polls'[p].saved = polls[p].saved
                              /\ polls'[p].sampled = polls[p].sampled
  BY <1>7
<1>9. Nested(polls', dispatching', escaped')
  BY <1>1, <1>6, <1>7, <1>8 DEF IInv, Nested
<1>10. SeenBy(slots', polls')
  BY <1>1, <1>7, <1>8 DEF IInv, SeenBy
<1>11. RanSampled(polls')
  <2>1. polls'[1].running \in polls'[1].sampled
    BY <1>2, <1>7 DEF k
  <2> QED BY <1>7, <2>1 DEF IInv, RanSampled
<1>12. TypeOK' /\ activeCount' = Cardinality(ActiveOf(slots')) /\ OneSlotEach(slots')
  BY <1>1, <1>3 DEF IInv, TypeOK
<1> QED BY <1>1, <1>6, <1>9, <1>10, <1>11, <1>12 DEF IInv, Modes

(* The end of a dispatch restores the flag its own select found. *)
LEMMA DispatchEndInv ==
    ASSUME IInv, DispatchEnd
    PROVE  IInv'
<1> DEFINE rest == Tail(polls)
<1>1. polls # <<>> /\ polls \in Seq(Poll)
  BY Types DEF IInv, Modes, DispatchEnd
<1>2. /\ polls' = rest /\ dispatching' = polls[1].saved /\ mode' = "js"
      /\ UNCHANGED <<slots, activeCount, ready, regs, escaped>>
  BY <1>1, PollPopped DEF DispatchEnd, FlagAfter, Current
<1>3. /\ Len(polls) \in Nat \ {0} /\ DOMAIN polls = 1 .. Len(polls) /\ polls[1] \in Poll
      /\ rest \in Seq(Poll) /\ Len(rest) = Len(polls) - 1 /\ DOMAIN rest = 1 .. Len(polls) - 1
      /\ \A p \in 1 .. Len(polls) - 1 : p + 1 \in DOMAIN polls /\ rest[p] = polls[p + 1]
      /\ (rest = <<>> <=> Len(polls) = 1)
  BY <1>1, PollPopped
<1> HIDE DEF rest
<1>4. Nested(rest, polls[1].saved, escaped)
  <2>1. \A p \in DOMAIN polls : polls[p].saved = (p # Len(polls) \/ escaped)
    BY DEF IInv, Nested
  <2>2. polls[1].saved = (rest # <<>> \/ escaped)
    BY <1>3, <2>1
  <2>3. \A p \in DOMAIN rest : rest[p].saved = (p # Len(rest) \/ escaped)
    <3>1. \A p \in 1 .. Len(polls) - 1 : p + 1 # Len(polls) <=> p # Len(rest)
      BY <1>3
    <3>2. \A p \in 1 .. Len(polls) - 1 : rest[p].saved = (p + 1 # Len(polls) \/ escaped)
      BY <1>3, <2>1
    <3> QED BY <1>3, <3>1, <3>2
  <2> QED BY <2>2, <2>3 DEF Nested
<1>5. SeenBy(slots, rest)
  BY <1>3 DEF IInv, SeenBy
<1>6. RanSampled(rest)
  BY <1>3 DEF IInv, RanSampled
<1>7. TypeOK'
  <2>1. polls[1].saved \in BOOLEAN
    BY <1>3 DEF Poll
  <2> QED BY <1>2, <2>1 DEF IInv, TypeOK
<1>8. activeCount' = Cardinality(ActiveOf(slots')) /\ OneSlotEach(slots')
  BY <1>2 DEF IInv
<1> QED BY <1>2, <1>3, <1>4, <1>5, <1>6, <1>7, <1>8 DEF IInv, Modes

(* A sequence without its first k elements. *)
LEMMA DroppedSeq ==
    ASSUME NEW S, NEW s \in Seq(S), NEW k \in 1 .. Len(s)
    PROVE  LET r == SubSeq(s, k + 1, Len(s))
           IN  /\ r \in Seq(S) /\ Len(r) = Len(s) - k
               /\ \A p \in 1 .. Len(s) - k : r[p] = s[p + k]
<1> DEFINE r == SubSeq(s, k + 1, Len(s))
<1>1. /\ Len(s) \in Nat /\ k + 1 \in 1 .. Len(s) + 1 /\ Len(s) \in k + 1 - 1 .. Len(s)
      /\ \A i \in k + 1 .. Len(s) : s[i] \in S
  BY LenProperties, ElementOfSeq
<1>2. r \in Seq(S) /\ Len(r) = Len(s) - k
  BY <1>1, SubSeqProperties
<1>3. \A p \in 1 .. Len(s) - k : r[p] = s[p + k]
  BY <1>1, SubSeqProperties
<1> QED BY <1>2, <1>3

(* An exception takes the innermost dispatches off.  Those that remain are as   *)
(* they were, and unless none remains the flag they need is set.                *)
LEMMA ThrowInv ==
    ASSUME IInv, Throw
    PROVE  IInv'
<1>1. PICK k \in DOMAIN polls : polls' = SubSeq(polls, k + 1, Len(polls))
  BY DEF Throw
<1>2. /\ polls \in Seq(Poll) /\ Len(polls) \in Nat /\ DOMAIN polls = 1 .. Len(polls)
      /\ k \in 1 .. Len(polls)
  BY <1>1, Types
<1> DEFINE n == Len(polls) - k
<1>3. /\ polls' \in Seq(Poll) /\ n \in Nat /\ Len(polls') = n /\ DOMAIN polls' = 1 .. n
      /\ \A p \in 1 .. n : p + k \in DOMAIN polls /\ polls'[p] = polls[p + k]
      /\ (polls' = <<>> <=> n = 0)
  <2>1. n \in Nat /\ \A p \in 1 .. n : p + k \in DOMAIN polls
    BY <1>2
  <2>2. polls' \in Seq(Poll) /\ Len(polls') = n /\ \A p \in 1 .. n : polls'[p] = polls[p + k]
    BY <1>1, <1>2, DroppedSeq
  <2>3. DOMAIN polls' = 1 .. n /\ (polls' = <<>> <=> n = 0)
    BY <2>1, <2>2, LenProperties, EmptySeq
  <2> QED BY <2>1, <2>2, <2>3
<1>4. /\ escaped' = (escaped \/ n = 0) /\ mode = "js"
      /\ UNCHANGED <<slots, activeCount, dispatching, ready, mode, regs>>
  BY <1>3 DEF Throw
<1> HIDE DEF n
<1>5. Nested(polls', dispatching', escaped')
  <2>1. dispatching /\ \A p \in DOMAIN polls : polls[p].saved = (p # Len(polls) \/ escaped)
    <3>1. polls # <<>>
      BY <1>2, EmptySeq
    <3> QED BY <3>1 DEF IInv, Nested
  <2>2. \A p \in 1 .. n : polls'[p].saved = (p # n \/ escaped)
    <3>1. \A p \in 1 .. n : p + k = Len(polls) <=> p = n
      BY <1>2, <1>3 DEF n
    <3> QED BY <1>3, <2>1, <3>1
  <2>3. \A p \in 1 .. n : n # 0
    BY <1>3
  <2> QED BY <1>3, <1>4, <2>1, <2>2, <2>3 DEF Nested
<1>6. SeenBy(slots', polls') /\ RanSampled(polls')
  BY <1>3, <1>4 DEF IInv, SeenBy, RanSampled
<1>7. TypeOK'
  BY <1>4 DEF IInv, TypeOK
<1>8. activeCount' = Cardinality(ActiveOf(slots')) /\ OneSlotEach(slots')
  BY <1>4 DEF IInv
<1> QED BY <1>3, <1>4, <1>5, <1>6, <1>7, <1>8 DEF IInv, Modes

LEMMA InitInv == Init => IInv
<1> SUFFICES ASSUME Init PROVE IInv
  OBVIOUS
<1>1. slots = <<>> /\ polls = <<>> /\ DOMAIN slots = {} /\ DOMAIN polls = {}
      /\ Len(slots) = 0 /\ slots \in Seq(Slot) /\ polls \in Seq(Poll)
  BY DEF Init
<1>2. ActiveOf(slots) = {} /\ Cardinality(ActiveOf(slots)) = 0
  BY <1>1, FS_EmptySet DEF ActiveOf
<1>3. TypeOK
  <2>1. slots \in Seq([fd : Fds \cup {NoFd}, events : Interests, active : BOOLEAN, reg : 1 .. MaxReg])
    BY <1>1 DEF Slot
  <2>2. Len(slots) <= MaxWatchers /\ 0 \in 0 .. MaxWatchers /\ 0 \in 0 .. MaxReg
    BY <1>1, WatchersAssumption
  <2>3. activeCount = 0 /\ dispatching = FALSE /\ ready = {} /\ mode = "js" /\ regs = 0
        /\ escaped = FALSE
    BY DEF Init
  <2> QED BY <2>1, <2>2, <2>3 DEF TypeOK
<1>4. OneSlotEach(slots) /\ SeenBy(slots, polls) /\ RanSampled(polls)
  BY <1>1, <1>2 DEF OneSlotEach, SeenBy, RanSampled
<1>5. Nested(polls, dispatching, escaped)
  BY <1>1 DEF Init, Nested
<1> QED BY <1>1, <1>2, <1>3, <1>4, <1>5 DEF Init, IInv, Modes

LEMMA Inductive == IInv /\ [Next]_vars => IInv'
<1> SUFFICES ASSUME IInv, [Next]_vars PROVE IInv'
  OBVIOUS
<1>0. ready \subseteq Fds \X Events /\ mode \in {"js", "loop", "select", "dispatch", "exit"}
      /\ (mode = "dispatch" => polls # <<>>)
  BY DEF IInv, TypeOK, Modes
<1>1. CASE Loop
  <2>1. CASE LoopCheck \/ SelectTimeout \/ ScriptReturn
    BY <1>0, <2>1, ReadyInv DEF LoopCheck, SelectTimeout, ScriptReturn
  <2> QED BY <1>1, <2>1, SelectReadyInv, CallHandlerInv, DispatchEndInv DEF Loop
<1>2. CASE NestedPoll \/ Throw
  BY <1>0, <1>2, ReadyInv, ThrowInv DEF NestedPoll
<1>3. ASSUME NEW fd \in Fds, NEW events \in Interests, Add(fd, events) \/ Update(fd, events)
      PROVE  IInv'
  BY <1>3, AddInv, InterestsInv DEF Update
<1>4. ASSUME NEW fd \in Fds, Remove(fd) PROVE IInv'
  BY <1>4, RemoveInv
<1>5. ASSUME NEW fd \in Fds, NEW event \in Events, Arrive(fd, event) PROVE IInv'
  <2>1. ready' \subseteq Fds \X Events /\ mode' = mode
        /\ UNCHANGED <<slots, activeCount, dispatching, polls, regs, escaped>>
    BY <1>0, <1>5 DEF Arrive
  <2> QED BY <1>0, <2>1, ReadyInv
<1>6. CASE UNCHANGED vars
  <2>1. UNCHANGED <<slots, activeCount, dispatching, ready, mode, polls, regs, escaped>>
    BY <1>6 DEF vars
  <2> QED BY <1>0, <2>1, ReadyInv
<1> QED BY <1>1, <1>2, <1>3, <1>4, <1>5, <1>6 DEF Next, Script, Exited

LEMMA Invariance == Spec => []IInv
<1>1. Init => IInv
  BY InitInv
<1>2. IInv /\ [Next]_vars => IInv'
  BY Inductive
<1> QED BY <1>1, <1>2, PTL DEF Spec
-----------------------------------------------------------------------------
(* Every variable has its type, and the table stays within its size, whatever   *)
(* the order of xt_loop_add and xt_loop_remove.                                 *)
THEOREM TypeCorrect == Spec => []TypeOK
<1>1. IInv => TypeOK
  BY DEF IInv
<1> QED BY <1>1, Invariance, PTL

LEMMA Consistent == ASSUME IInv PROVE TableConsistent
<1>1. activeCount = Cardinality(ActiveSlots) /\ ActiveSlots = ActiveOf(slots)
  BY Types DEF IInv
<1>2. ASSUME NEW fd \in Fds PROVE Cardinality(SlotsOf(fd)) <= 1
  <2>1. CASE SlotsOf(fd) = {}
    BY <2>1, FS_EmptySet
  <2>2. CASE SlotsOf(fd) # {}
    <3>1. PICK k \in SlotsOf(fd) : TRUE
      BY <2>2
    <3>2. SlotsOf(fd) = {k}
      BY <1>1, <3>1 DEF IInv, OneSlotEach, SlotsOf
    <3>3. Cardinality({k}) = 1
      BY FS_Singleton
    <3> QED BY <3>2, <3>3
  <2> QED BY <2>1, <2>2
<1> QED BY <1>1, <1>2 DEF TableConsistent

(* xt_loop_active_count counts the active slots, and xt_loop_remove of a         *)
(* descriptor ends all its callbacks, for any table and any nesting.            *)
THEOREM TableKept == Spec => []TableConsistent
<1>1. IInv => TableConsistent
  BY Consistent
<1> QED BY <1>1, Invariance, PTL

(* A handler is only called by a dispatch whose select sampled its               *)
(* registration, however deep xt_await nests xt_loop_poll and however often a   *)
(* descriptor number comes back.                                                *)
THEOREM SampledOnly == Spec => []HandlerSampled
<1>1. IInv => HandlerSampled
  BY DEF IInv, RanSampled, HandlerSampled
<1> QED BY <1>1, Invariance, PTL

(* xt_loop_poll leaves xt_loop_dispatching set exactly while an outer dispatch   *)
(* is in progress, or once an exception left every dispatch.                    *)
THEOREM FlagKept == Spec => []FlagRestored
<1>1. IInv => FlagRestored
  BY DEF IInv, Nested, FlagRestored
<1> QED BY <1>1, Invariance, PTL
=============================================================================
