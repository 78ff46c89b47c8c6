---------------------------- MODULE TimersProofs ----------------------------
(***************************************************************************)
(* The safety properties of Timers, for any number of timers, any delays   *)
(* and any clock.                                                          *)
(*                                                                         *)
(* The heart of the proof is compaction: the cells it leaves are the       *)
(* active ones, all of them, in their order (CompactedCells).  The         *)
(* predicates of the inductive invariant are operators on an array m with  *)
(* n cells, so that they apply to the array before and after a step.       *)
(***************************************************************************)
EXTENDS Timers, FiniteSetTheorems, SequenceTheorems, WellFoundedInduction, TLAPS

(* Putting an element in front moves the others up by one. *)
LEMMA Pushed ==
    ASSUME NEW S, NEW s \in Seq(S), NEW e \in S
    PROVE  /\ <<e>> \o s \in Seq(S) /\ <<e>> \o s # <<>>
           /\ Len(s) \in Nat /\ Len(<<e>> \o s) = Len(s) + 1
           /\ DOMAIN s = 1 .. Len(s) /\ DOMAIN (<<e>> \o s) = 1 .. Len(s) + 1
           /\ (<<e>> \o s)[1] = e
           /\ \A i \in 2 .. Len(s) + 1 : (<<e>> \o s)[i] = s[i - 1]
<1> DEFINE t == <<e>>
<1>1. t \in Seq(S) /\ Len(t) = 1 /\ t[1] = e /\ Len(s) \in Nat
  BY LenProperties
<1> QED BY <1>1, ConcatProperties, LenProperties, EmptySeq

(* The tail has the other elements, moved down by one. *)
LEMMA Shortened ==
    ASSUME NEW S, NEW s \in Seq(S), s # <<>>
    PROVE  /\ Len(s) \in Nat /\ Len(s) > 0 /\ DOMAIN s = 1 .. Len(s)
           /\ Head(s) = s[1] /\ s[1] \in S
           /\ Tail(s) \in Seq(S) /\ Len(Tail(s)) = Len(s) - 1
           /\ DOMAIN Tail(s) = 1 .. Len(s) - 1
           /\ \A i \in 1 .. Len(s) - 1 : Tail(s)[i] = s[i + 1]
           /\ Tail(s) = <<>> <=> Len(s) = 1
<1> DEFINE r == Tail(s)
<1>1. r \in Seq(S) /\ Len(r) = Len(s) - 1 /\ Len(s) \in Nat \ {0}
  BY HeadTailProperties, EmptySeq
<1> HIDE DEF r
<1>2. Len(<<>>) = 0 /\ (r # <<>> => Len(r) \in Nat \ {0})
  BY <1>1, EmptySeq
<1>3. r = <<>> <=> Len(s) = 1
  BY <1>1, <1>2
<1> QED BY <1>1, <1>3, HeadTailProperties, LenProperties, ElementOfSeq DEF r

(* Every non-empty set of naturals has a minimum. *)
LEMMA MinOfNaturals ==
    ASSUME NEW S, S \subseteq Nat, S # {}
    PROVE  Min(S) \in S /\ \A y \in S : Min(S) <= y
<1> DEFINE R == OpToRel(<, Nat)
<1>1. IsWellFoundedOn(R, Nat)
  BY NatLessThanWellFounded
<1>2. \A x, y \in Nat : <<x, y>> \in R <=> x < y
  BY DEF OpToRel
<1> HIDE DEF R
<1>3. PICK x \in S : \A y \in S : ~(<<y, x>> \in R)
  BY <1>1, WFMin
<1>4. \A y \in S : x <= y
  <2> TAKE y \in S
  <2>1. x \in Nat /\ y \in Nat /\ ~(<<y, x>> \in R)
    BY <1>3
  <2>2. ~(y < x)
    BY <1>2, <2>1
  <2> QED BY <2>1, <2>2
<1>5. \E z \in S : \A y \in S : z <= y
  BY <1>4
<1> QED BY <1>5 DEF Min

(* The maximum exists for a non-empty set of naturals that has a bound. *)
LEMMA MaxOfNaturals ==
    ASSUME NEW S, S \subseteq Nat, S # {}, NEW bound \in Nat, \A y \in S : y <= bound
    PROVE  Max(S) \in S /\ \A y \in S : y <= Max(S)
<1> DEFINE bounds == {b \in Nat : \A y \in S : y <= b}
           m == Min(bounds)
<1>1. bounds \subseteq Nat /\ bounds # {}
  OBVIOUS
<1>2. m \in bounds /\ \A b \in bounds : m <= b
  BY <1>1, MinOfNaturals
<1> HIDE DEF m
<1>3. m \in Nat /\ \A y \in S : y \in Nat /\ y <= m
  BY <1>2
<1>4. m \in S
  <2> SUFFICES ASSUME m \notin S PROVE FALSE
    OBVIOUS
  <2>1. \A y \in S : y \in Nat /\ y < m
    <3> TAKE y \in S
    <3>1. y \in Nat /\ y <= m /\ y # m
      BY <1>3
    <3> QED BY <1>3, <3>1
  <2>2. m - 1 \in Nat /\ \A y \in S : y <= m - 1
    <3>1. PICK z \in S : TRUE
      OBVIOUS
    <3>2. z \in Nat /\ z < m
      BY <2>1, <3>1
    <3> QED BY <1>3, <2>1, <3>2
  <2>3. m - 1 \in bounds
    BY <2>2
  <2> HIDE DEF bounds
  <2> QED BY <1>2, <1>3, <2>3
<1>5. \E x \in S : \A y \in S : x >= y
  BY <1>3, <1>4
<1>6. Max(S) \in S /\ \A y \in S : Max(S) >= y
  BY <1>5 DEF Max
<1>7. Max(S) \in Nat
  BY <1>6
<1> QED BY <1>3, <1>6, <1>7

(* A finite set of naturals has a bound: there is no least initial segment of   *)
(* an enumeration of it that has none.                                          *)
LEMMA FiniteIsBounded ==
    ASSUME NEW S, S \subseteq Nat, IsFiniteSet(S)
    PROVE  \E b \in Nat : \A y \in S : y <= b
<1>1. Cardinality(S) \in Nat /\ ExistsBijection(1 .. Cardinality(S), S)
  BY FS_CardinalityType
<1> DEFINE n == Cardinality(S)
<1>2. PICK f \in [1 .. n -> S] : \A y \in S : \E i \in 1 .. n : f[i] = y
  <2>1. PICK f \in Bijection(1 .. n, S) : TRUE
    BY <1>1 DEF ExistsBijection
  <2> QED BY <2>1 DEF Bijection, Surjection, Injection
<1> HIDE DEF n
<1> DEFINE bounded(k) == \E b \in Nat : \A i \in 1 .. k : f[i] <= b
           bad == {k \in 0 .. n : ~bounded(k)}
<1>3. bad = {}
  <2> SUFFICES ASSUME bad # {} PROVE FALSE
    OBVIOUS
  <2>1. bad \subseteq Nat
    BY <1>1 DEF n
  <2>2. Min(bad) \in bad /\ \A k \in bad : Min(bad) <= k
    BY <2>1, MinOfNaturals
  <2>3. PICK k \in 0 .. n : ~bounded(k) /\ \A j \in 0 .. n : ~bounded(j) => k <= j
    BY <2>2
  <2>4. n \in Nat /\ k \in Nat
    BY <1>1, <2>3 DEF n
  <2>5. k # 0
    <3>1. 0 \in Nat /\ \A i \in 1 .. 0 : f[i] <= 0
      OBVIOUS
    <3> QED BY <2>3, <3>1
  <2>6. k - 1 \in 0 .. n /\ ~(k <= k - 1) /\ k \in 1 .. n
    BY <2>3, <2>4, <2>5
  <2>7. PICK b \in Nat : \A i \in 1 .. k - 1 : f[i] <= b
    BY <2>3, <2>6
  <2>8. f[k] \in Nat
    BY <1>2, <2>6
  <2>9. PICK c \in Nat : b <= c /\ f[k] <= c
    <3> DEFINE v == f[k]
    <3>1. v \in Nat
      BY <2>8
    <3> HIDE DEF v
    <3>2. \E c \in Nat : b <= c /\ v <= c
      <4>1. b + v \in Nat /\ b <= b + v /\ v <= b + v
        BY <3>1
      <4> QED BY <4>1
    <3> QED BY <3>2 DEF v
  <2>10. \A i \in 1 .. k : f[i] <= c
    <3> TAKE i \in 1 .. k
    <3>1. i \in 1 .. n
      BY <2>4, <2>6
    <3>2. f[i] \in Nat
      BY <1>2, <3>1
    <3>3. CASE i = k
      BY <2>9, <3>3
    <3>4. CASE i # k
      <4>1. i \in 1 .. k - 1
        BY <2>4, <3>4
      <4>2. f[i] <= b
        BY <2>7, <4>1
      <4> DEFINE v == f[i]
      <4>3. v \in Nat /\ v <= b /\ b \in Nat /\ c \in Nat /\ b <= c
        BY <2>9, <3>2, <4>2
      <4> HIDE DEF v
      <4>4. v <= c
        BY <4>3
      <4> QED BY <4>4 DEF v
    <3> QED BY <3>3, <3>4
  <2> QED BY <2>3, <2>9, <2>10
<1>4. bounded(n)
  <2>1. n \in 0 .. n
    BY <1>1 DEF n
  <2> QED BY <1>3, <2>1
<1> QED BY <1>2, <1>4
-----------------------------------------------------------------------------
PassType == [at : 1 .. MaxTimers + 1, limit : 0 .. MaxTimers, now : 0 .. MaxTime,
             fresh : 1 .. MaxTimers + 1, running : 0 .. MaxTimers]

Sorted(m, n) == \A i, k \in 1 .. n : i < k => m[i].id < m[k].id

\* The ids of the table were given out, so the table never overflows.
Numbered(m, n, next) == n < next /\ \A k \in 1 .. n : m[k].id \in 1 .. next - 1

Held(m, n, id) == \E k \in 1 .. n : m[k].active /\ m[k].id = id
RecursIn(m, n, id) == \E k \in 1 .. n : m[k].id = id /\ m[k].interval > 0
Owed(m, n, next, frd, clr, id) ==
    id \in 1 .. next - 1 /\ id \notin clr /\ (RecursIn(m, n, id) \/ frd[id] = 0)

\* The timers with an active cell are those that still have to be called.
Exact(m, n, next, frd, clr) ==
    \A id \in Ids : Held(m, n, id) <=> Owed(m, n, next, frd, clr, id)

\* No id was called or cleared before it was given out.
Unborn(next, frd, clr) == \A id \in Ids : id >= next => frd[id] = 0 /\ id \notin clr

\* There is at most one pass, and it looks only at timers that it found.
PassFits(ps, m, n) ==
    /\ ps \in Seq(PassType) /\ Len(ps) <= 1
    /\ ps # <<>> => /\ ps[1].limit <= n
                    /\ ps[1].running < ps[1].fresh
                    /\ \A k \in 1 .. ps[1].limit : m[k].id < ps[1].fresh

Modes ==
    /\ mode \in {"loop", "sleep", "exit"} => passes = <<>>
    /\ mode = "run" => passes # <<>>

IInv ==
    /\ TypeOK
    /\ Sorted(mem, count) /\ Numbered(mem, count, nextId)
    /\ Exact(mem, count, nextId, fired, cleared)
    /\ Unborn(nextId, fired, cleared)
    /\ PassFits(passes, mem, count)
    /\ Modes
-----------------------------------------------------------------------------
(* Two cells of a sorted array never hold the same id. *)
LEMMA OneCellEach ==
    ASSUME NEW m, NEW n \in Nat, Sorted(m, n), \A k \in 1 .. n : m[k].id \in Nat,
           NEW i \in 1 .. n, NEW k \in 1 .. n, m[i].id = m[k].id
    PROVE  i = k
<1>1. m[i].id \in Nat /\ m[k].id \in Nat /\ ~(m[i].id < m[k].id) /\ ~(m[k].id < m[i].id)
  OBVIOUS
<1>2. ~(i < k) /\ ~(k < i)
  BY <1>1 DEF Sorted
<1> QED BY <1>2

LEMMA Bounds ==
    ASSUME IInv
    PROVE  /\ MaxTimers \in Nat \ {0} /\ MaxTime \in Nat /\ Delays \subseteq Nat
           /\ mem \in [Ids -> Timer] /\ count \in Nat /\ count <= MaxTimers
           /\ nextId \in Nat /\ nextId <= MaxTimers + 1 /\ 1 <= nextId /\ count < nextId
           /\ clock \in 0 .. MaxTime
           /\ Cells = 1 .. count /\ Cells \subseteq Ids
           /\ \A k \in Cells : mem[k] \in Timer /\ mem[k].id \in 1 .. nextId - 1
           /\ \A k \in Cells : mem[k].id \in Ids /\ mem[k].id \in Nat
<1>1. MaxTimers \in Nat \ {0} /\ MaxTime \in Nat /\ Delays \subseteq Nat
  BY TimersAssumption
<1>2. /\ mem \in [Ids -> Timer] /\ count \in 0 .. MaxTimers /\ nextId \in 1 .. MaxTimers + 1
      /\ clock \in 0 .. MaxTime /\ count < nextId
      /\ \A k \in 1 .. count : mem[k].id \in 1 .. nextId - 1
  BY DEF IInv, TypeOK, Numbered
<1>3. 1 .. count \subseteq Ids
  BY <1>1, <1>2 DEF Ids
<1>4. \A k \in 1 .. count : mem[k].id \in Ids /\ mem[k].id \in Nat
  BY <1>1, <1>2 DEF Ids
<1> QED BY <1>1, <1>2, <1>3, <1>4 DEF Cells

(* Deadlines stay within the range that TypeOK gives them. *)
LEMMA DeadlineFits ==
    ASSUME NEW c \in 0 .. MaxTime, NEW d \in Delays \cup {0, 1}
    PROVE  c + d \in Times
<1> DEFINE longest == IF Delays = {} THEN 0 ELSE Max(Delays)
<1>1. MaxTime \in Nat /\ Delays \subseteq Nat
  BY TimersAssumption
<1>2. longest \in Nat /\ (d \in Delays => d <= longest)
  <2>1. CASE Delays = {}
    BY <2>1
  <2>2. CASE Delays # {}
    <3>1. PICK b \in Nat : \A y \in Delays : y <= b
      BY TimersAssumption, FiniteIsBounded
    <3>2. Max(Delays) \in Delays /\ \A y \in Delays : y <= Max(Delays)
      BY <1>1, <2>2, <3>1, MaxOfNaturals
    <3> QED BY <1>1, <2>2, <3>2
  <2> QED BY <2>1, <2>2
<1>3. Times = 0 .. MaxTime + longest + 1
  BY DEF Times
<1>4. d \in Nat /\ d <= longest + 1
  <2> HIDE DEF longest
  <2> QED BY <1>1, <1>2
<1> HIDE DEF longest
<1> QED BY <1>1, <1>2, <1>3, <1>4

LEMMA AlonePass ==
    ASSUME NEW e \in PassType, NEW rest \in Seq(PassType), Len(rest) = 0
    PROVE  /\ <<e>> \o rest \in Seq(PassType) /\ Len(<<e>> \o rest) = 1
           /\ <<e>> \o rest # <<>> /\ (<<e>> \o rest)[1] = e
<1>1. /\ <<e>> \o rest \in Seq(PassType) /\ <<e>> \o rest # <<>>
      /\ Len(<<e>> \o rest) = Len(rest) + 1 /\ (<<e>> \o rest)[1] = e
  BY Pushed
<1> QED BY <1>1

LEMMA OnePass ==
    ASSUME NEW ps \in Seq(PassType), Len(ps) <= 1, ps # <<>>
    PROVE  /\ Head(ps) = ps[1] /\ ps[1] \in PassType /\ Len(ps) = 1
           /\ Tail(ps) = <<>> /\ Tail(ps) \in Seq(PassType) /\ Len(Tail(ps)) = 0
<1>1. /\ Len(ps) \in Nat /\ Len(ps) > 0 /\ Head(ps) = ps[1] /\ ps[1] \in PassType
      /\ Tail(ps) \in Seq(PassType) /\ Len(Tail(ps)) = Len(ps) - 1
      /\ (Tail(ps) = <<>> <=> Len(ps) = 1)
  BY Shortened
<1>2. Len(ps) = 1
  BY <1>1
<1> QED BY <1>1, <1>2
-----------------------------------------------------------------------------
(* Rank numbers the active cells from 1 to Kept, in their order. *)
LEMMA Ranking ==
    ASSUME count \in Nat
    PROVE  /\ IsFiniteSet(Active) /\ Active \subseteq 1 .. count
           /\ Kept \in Nat /\ Kept <= count
           /\ \A i \in Active : Rank(i) \in 1 .. Kept
           /\ \A i, j \in Active : i < j => Rank(i) < Rank(j)
           /\ \A k \in 1 .. Kept : \E i \in Active : Rank(i) = k
<1> DEFINE below(i) == {j \in Active : j <= i}
<1>1. Active \subseteq 1 .. count
  BY DEF Active, Cells
<1>2. IsFiniteSet(1 .. count) /\ Cardinality(1 .. count) = count
  <2>1. 1 \in Int /\ count \in Int /\ (1 > count => count = 0) /\ count - 1 + 1 = count
    OBVIOUS
  <2> QED BY <2>1, FS_Interval
<1>3. IsFiniteSet(Active) /\ Kept \in Nat /\ Kept <= count
  BY <1>1, <1>2, FS_Subset, FS_CardinalityType DEF Kept
<1>4. \A i \in Active : IsFiniteSet(below(i)) /\ Rank(i) = Cardinality(below(i))
                        /\ Rank(i) \in Nat /\ Rank(i) <= Kept
  <2> TAKE i \in Active
  <2>1. below(i) \subseteq Active
    OBVIOUS
  <2>2. IsFiniteSet(below(i)) /\ Cardinality(below(i)) <= Kept
    BY <1>3, <2>1, FS_Subset DEF Kept
  <2>3. Cardinality(below(i)) \in Nat
    BY <2>2, FS_CardinalityType
  <2> QED BY <2>2, <2>3 DEF Rank
<1>5. \A i \in Active : Rank(i) \in 1 .. Kept
  <2> TAKE i \in Active
  <2>1. i \in below(i)
    BY <1>1
  <2>2. Cardinality(below(i)) # 0
    BY <1>4, <2>1, FS_EmptySet
  <2> HIDE DEF below
  <2> QED BY <1>3, <1>4, <2>2
<1>6. ASSUME NEW i \in Active, NEW j \in Active, i < j PROVE Rank(i) < Rank(j)
  <2>0. \A y \in Active : y \in Nat
    BY <1>1
  <2>1. below(i) \subseteq below(j) /\ j \in below(j) /\ j \notin below(i)
    BY <1>6, <2>0
  <2>2. IsFiniteSet(below(j)) /\ below(i) # below(j)
    BY <1>4, <2>1
  <2>3. Cardinality(below(i)) <= Cardinality(below(j))
        /\ Cardinality(below(i)) # Cardinality(below(j))
    BY <2>1, <2>2, FS_Subset
  <2> HIDE DEF below
  <2> QED BY <1>4, <2>3
<1>7. \A k \in 1 .. Kept : \E i \in Active : Rank(i) = k
  <2> DEFINE f == [i \in Active |-> Rank(i)]
  <2>1. f \in [Active -> 1 .. Kept]
    BY <1>5
  <2>2. ASSUME NEW i \in Active, NEW j \in Active, f[i] = f[j] PROVE i = j
    <3>1. Rank(i) = Rank(j) /\ Rank(i) \in Nat /\ i \in Nat /\ j \in Nat
      <4>1. f[i] = Rank(i) /\ f[j] = Rank(j)
        OBVIOUS
      <4>2. \A y \in Active : y \in Nat
        BY <1>1
      <4> QED BY <1>4, <2>2, <4>1, <4>2
    <3>2. ~(i < j) /\ ~(j < i)
      BY <1>6, <3>1
    <3> QED BY <3>1, <3>2
  <2>3. f \in Injection(Active, 1 .. Kept)
    BY <2>1, <2>2 DEF Injection, IsInjective
  <2>4. IsFiniteSet(1 .. Kept) /\ Cardinality(1 .. Kept) = Kept
    <3>1. 1 \in Int /\ Kept \in Int /\ (1 > Kept => Kept = 0) /\ Kept - 1 + 1 = Kept
      BY <1>3
    <3> QED BY <3>1, FS_Interval
  <2>5. Cardinality(Active) = Cardinality(1 .. Kept)
    BY <2>4 DEF Kept
  <2>6. f \in Surjection(Active, 1 .. Kept)
    BY <2>3, <2>4, <2>5, FS_Injection
  <2> QED BY <2>6 DEF Surjection
<1> QED BY <1>1, <1>3, <1>5, <1>6, <1>7

(* The cells that compaction leaves are the active ones, in their order. *)
LEMMA CompactedCells ==
    ASSUME count \in 0 .. MaxTimers, MaxTimers \in Nat, mem \in [Ids -> Timer]
    PROVE  /\ Kept \in Nat /\ Kept <= count /\ Compacted \in [Ids -> Timer]
           /\ \E src \in [1 .. Kept -> Active] :
                 /\ \A k \in 1 .. Kept : Compacted[k] = mem[src[k]]
                 /\ \A k, l \in 1 .. Kept : k < l => src[k] < src[l]
                 /\ \A i \in Active : \E k \in 1 .. Kept : src[k] = i
<1> DEFINE src == [k \in 1 .. Kept |-> CHOOSE i \in Active : Rank(i) = k]
<1>1. /\ Active \subseteq 1 .. count /\ Kept \in Nat /\ Kept <= count
      /\ \A i \in Active : Rank(i) \in 1 .. Kept
      /\ \A i, j \in Active : i < j => Rank(i) < Rank(j)
      /\ \A k \in 1 .. Kept : \E i \in Active : Rank(i) = k
  BY Ranking
<1>2. 1 .. Kept \subseteq Ids /\ Active \subseteq Ids /\ Active \subseteq Nat
  BY <1>1 DEF Ids
<1>3. \A k \in 1 .. Kept : src[k] \in Active /\ Rank(src[k]) = k
  BY <1>1
<1>4. \A k \in 1 .. Kept : Compacted[k] = mem[src[k]]
  BY <1>2 DEF Compacted, Kept
<1>5. Compacted \in [Ids -> Timer]
  <2> SUFFICES ASSUME NEW k \in Ids PROVE Compacted[k] \in Timer
    BY DEF Compacted
  <2>1. CASE k \in 1 .. Kept
    <3>1. src[k] \in Ids /\ Compacted[k] = mem[src[k]]
      BY <1>2, <1>3, <1>4, <2>1
    <3> QED BY <3>1
  <2>2. CASE k \notin 1 .. Kept
    <3>1. ~(k <= Cardinality(Active))
      BY <1>1, <2>2 DEF Ids, Kept
    <3> QED BY <3>1 DEF Compacted
  <2> QED BY <2>1, <2>2
<1>6. src \in [1 .. Kept -> Active]
  BY <1>3
<1> HIDE DEF src
<1>7. ASSUME NEW k \in 1 .. Kept, NEW l \in 1 .. Kept, k < l PROVE src[k] < src[l]
  <2>1. src[k] \in Nat /\ src[l] \in Nat /\ src[k] \in Active /\ src[l] \in Active
        /\ Rank(src[k]) = k /\ Rank(src[l]) = l
    BY <1>2, <1>3
  <2>2. src[k] # src[l] /\ ~(src[l] < src[k])
    BY <1>1, <1>7, <2>1
  <2> QED BY <2>1, <2>2
<1>8. ASSUME NEW i \in Active PROVE \E k \in 1 .. Kept : src[k] = i
  <2> DEFINE k == Rank(i)
  <2>1. k \in 1 .. Kept /\ src[k] \in Active /\ Rank(src[k]) = Rank(i)
    BY <1>1, <1>3
  <2>2. src[k] \in Nat /\ i \in Nat /\ Rank(i) \in Nat
    <3>1. \A y \in Active : y \in Nat
      BY <1>2
    <3>2. \A y \in 1 .. Kept : y \in Nat
      BY <1>1
    <3> QED BY <2>1, <3>1, <3>2
  <2>3. ~(src[k] < i) /\ ~(i < src[k])
    BY <1>1, <2>1, <2>2
  <2>4. src[k] = i
    BY <2>2, <2>3
  <2> QED BY <2>1, <2>4
<1> QED BY <1>1, <1>4, <1>5, <1>6, <1>7, <1>8
-----------------------------------------------------------------------------
(* A change that keeps the ids of the cells keeps what is said about ids. *)
LEMMA SameIds ==
    ASSUME NEW m, NEW q, NEW n \in Nat, \A k \in 1 .. n : q[k].id = m[k].id, NEW next, NEW ps
    PROVE  /\ Sorted(m, n) => Sorted(q, n)
           /\ Numbered(m, n, next) => Numbered(q, n, next)
           /\ PassFits(ps, m, n) => PassFits(ps, q, n)
<1>1. Sorted(m, n) => Sorted(q, n)
  BY DEF Sorted
<1>2. Numbered(m, n, next) => Numbered(q, n, next)
  BY DEF Numbered
<1>3. ASSUME PassFits(ps, m, n) PROVE PassFits(ps, q, n)
  <2>1. CASE ps = <<>>
    BY <1>3, <2>1 DEF PassFits
  <2>2. CASE ps # <<>>
    <3>1. ps[1] \in PassType
      BY <1>3, <2>2, OnePass DEF PassFits
    <3>2. ps[1].limit \in Nat /\ ps[1].limit <= n
      <4>1. MaxTimers \in Nat
        BY TimersAssumption
      <4> QED BY <1>3, <2>2, <3>1, <4>1 DEF PassFits, PassType
    <3>3. \A k \in 1 .. ps[1].limit : k \in 1 .. n
      BY <3>2
    <3> QED BY <1>3, <2>2, <3>3 DEF PassFits
  <2> QED BY <2>1, <2>2
<1> QED BY <1>1, <1>2, <1>3

(* Steps that change neither the table nor a pass nor a history. *)
LEMMA ControlInv ==
    ASSUME IInv, clock' \in 0 .. MaxTime, wakeAt' \in Times,
           mode' \in {"js", "loop", "sleep", "run", "exit"},
           mode' \in {"loop", "sleep", "exit"} => passes = <<>>,
           mode' = "run" => passes # <<>>,
           UNCHANGED <<mem, count, nextId, passes, fired, cleared>>
    PROVE  IInv'
<1>1. TypeOK'
  BY DEF IInv, TypeOK
<1>2. /\ Sorted(mem', count') /\ Numbered(mem', count', nextId')
      /\ Exact(mem', count', nextId', fired', cleared')
      /\ Unborn(nextId', fired', cleared') /\ PassFits(passes', mem', count')
  BY DEF IInv
<1>3. Modes'
  BY DEF Modes
<1> QED BY <1>1, <1>2, <1>3 DEF IInv

LEMMA AddInv ==
    ASSUME IInv, NEW delay \in Delays, NEW interval \in Delays \cup {0, 1}, Add(delay, interval)
    PROVE  IInv'
<1> DEFINE w == [id |-> nextId, due |-> clock + delay, interval |-> interval, active |-> TRUE]
           n == count + 1
<1>1. /\ mem' = [mem EXCEPT ![n] = w] /\ count' = n /\ nextId' = nextId + 1
      /\ nextId <= MaxTimers /\ mode = "js"
      /\ UNCHANGED <<clock, mode, wakeAt, passes, fired, cleared>>
  BY DEF Add
<1>2. /\ MaxTimers \in Nat \ {0} /\ mem \in [Ids -> Timer] /\ count \in Nat /\ nextId \in Nat
      /\ 1 <= nextId /\ count < nextId /\ n \in Nat /\ n \in Ids /\ nextId \in Ids
      /\ \A k \in 1 .. count : mem[k].id \in 1 .. nextId - 1
  <2>1. /\ MaxTimers \in Nat \ {0} /\ mem \in [Ids -> Timer] /\ count \in Nat /\ nextId \in Nat
        /\ 1 <= nextId /\ count < nextId
        /\ \A k \in 1 .. count : mem[k].id \in 1 .. nextId - 1
    BY Bounds
  <2>2. n \in Nat /\ n \in Ids /\ nextId \in Ids
    BY <1>1, <2>1 DEF Ids
  <2> QED BY <2>1, <2>2
<1>3. w \in Timer /\ w.id = nextId /\ w.active = TRUE /\ w.interval = interval
  <2>1. clock + delay \in Times
    BY DeadlineFits, Bounds
  <2>2. nextId \in 0 .. MaxTimers
    BY <1>1, <1>2
  <2> QED BY <2>1, <2>2 DEF Timer
<1> HIDE DEF w
<1>4. /\ mem' \in [Ids -> Timer] /\ mem'[n] = w
      /\ \A k \in 1 .. count : mem'[k] = mem[k]
  <2>1. \A k \in 1 .. count : k \in Ids /\ k # n
    BY <1>1, <1>2 DEF Ids
  <2> QED BY <1>1, <1>2, <1>3, <2>1
<1>5. \A k \in 1 .. n : k = n \/ k \in 1 .. count
  BY <1>2
<1>6. \A k \in 1 .. count : k \in 1 .. n
  BY <1>2
<1>7. n \in 1 .. n /\ count < n
  BY <1>2
<1>8. Sorted(mem', n)
  <2> SUFFICES ASSUME NEW i \in 1 .. n, NEW k \in 1 .. n, i < k
               PROVE  mem'[i].id < mem'[k].id
    BY DEF Sorted
  <2>1. i \in 1 .. count
    BY <1>2
  <2>2. mem'[i] = mem[i] /\ mem[i].id \in Nat /\ mem[i].id < nextId
    BY <1>2, <1>4, <2>1
  <2>3. CASE k = n
    BY <1>3, <1>4, <2>2, <2>3
  <2>4. CASE k \in 1 .. count
    BY <1>4, <2>1, <2>4 DEF IInv, Sorted
  <2> QED BY <1>5, <2>3, <2>4
<1>9. Numbered(mem', n, nextId + 1)
  <2>1. \A k \in 1 .. n : mem'[k].id \in 1 .. (nextId + 1) - 1
    BY <1>2, <1>3, <1>4, <1>5
  <2> QED BY <1>2, <2>1 DEF Numbered
<1> HIDE DEF n
<1>10. Exact(mem', n, nextId + 1, fired, cleared)
  <2> SUFFICES ASSUME NEW id \in Ids
               PROVE  Held(mem', n, id) <=> Owed(mem', n, nextId + 1, fired, cleared, id)
    BY DEF Exact
  <2>1. CASE id = nextId
    <3>1. fired[id] = 0 /\ id \notin cleared
      BY <1>2, <2>1 DEF IInv, Unborn
    <3>2. Held(mem', n, id)
      BY <1>3, <1>4, <1>7, <2>1 DEF Held
    <3>3. id \in 1 .. (nextId + 1) - 1
      BY <1>2, <2>1
    <3> QED BY <3>1, <3>2, <3>3 DEF Owed
  <2>2. CASE id # nextId
    <3>1. Held(mem', n, id) <=> Held(mem, count, id)
      BY <1>3, <1>4, <1>5, <1>6, <2>2 DEF Held
    <3>2. RecursIn(mem', n, id) <=> RecursIn(mem, count, id)
      BY <1>3, <1>4, <1>5, <1>6, <2>2 DEF RecursIn
    <3>3. id \in 1 .. (nextId + 1) - 1 <=> id \in 1 .. nextId - 1
      BY <1>2, <2>2 DEF Ids
    <3>4. Held(mem, count, id) <=> Owed(mem, count, nextId, fired, cleared, id)
      BY DEF IInv, Exact
    <3> QED BY <3>1, <3>2, <3>3, <3>4 DEF Owed
  <2> QED BY <2>1, <2>2
<1>11. Unborn(nextId + 1, fired, cleared)
  <2>1. \A id \in Ids : id >= nextId + 1 => id >= nextId
    BY <1>2 DEF Ids
  <2> QED BY <2>1 DEF IInv, Unborn
<1>12. PassFits(passes, mem', n)
  <2>1. PassFits(passes, mem', count)
    BY <1>2, <1>4, SameIds DEF IInv
  <2>2. CASE passes = <<>>
    BY <2>1, <2>2 DEF PassFits
  <2>3. CASE passes # <<>>
    <3>1. passes[1] \in PassType
      BY <2>1, <2>3, OnePass DEF PassFits
    <3>2. passes[1].limit \in Nat /\ passes[1].limit <= count
      BY <1>2, <2>1, <2>3, <3>1 DEF PassFits, PassType
    <3>3. passes[1].limit <= n
      BY <1>2, <3>2 DEF n
    <3> QED BY <2>1, <2>3, <3>3 DEF PassFits
  <2> QED BY <2>2, <2>3
<1>13. TypeOK'
  <2>1. n \in 0 .. MaxTimers /\ nextId + 1 \in 1 .. MaxTimers + 1
    BY <1>1, <1>2 DEF n
  <2> QED BY <1>1, <1>4, <2>1 DEF IInv, TypeOK
<1>14. Modes'
  BY <1>1 DEF IInv, Modes
<1> QED BY <1>1, <1>8, <1>9, <1>10, <1>11, <1>12, <1>13, <1>14 DEF IInv

LEMMA ClearInv ==
    ASSUME IInv, NEW id \in Ids, Clear(id)
    PROVE  IInv'
<1>1. /\ mem' = [k \in Ids |-> IF k \in Active /\ mem[k].id = id
                              THEN [mem[k] EXCEPT !.active = FALSE] ELSE mem[k]]
      /\ cleared' = cleared \cup {id} /\ id < nextId
      /\ UNCHANGED <<count, nextId, clock, mode, wakeAt, passes, fired>>
  BY DEF Clear
<1>2. mem \in [Ids -> Timer] /\ count \in Nat /\ Cells = 1 .. count /\ Cells \subseteq Ids
      /\ nextId \in Nat
  BY Bounds
<1>3. \A k \in Ids : /\ mem'[k] \in Timer /\ mem'[k].id = mem[k].id
                     /\ mem'[k].interval = mem[k].interval
  <2> TAKE k \in Ids
  <2>1. mem[k] \in Timer
    BY <1>2
  <2>2. [mem[k] EXCEPT !.active = FALSE] \in Timer
        /\ [mem[k] EXCEPT !.active = FALSE].id = mem[k].id
        /\ [mem[k] EXCEPT !.active = FALSE].interval = mem[k].interval
    BY <2>1 DEF Timer
  <2> QED BY <1>1, <2>1, <2>2
<1>4. \A k \in 1 .. count : mem'[k].active <=> mem[k].active /\ mem[k].id # id
  <2> TAKE k \in 1 .. count
  <2>1. k \in Ids /\ mem[k] \in Timer /\ (k \in Active <=> mem[k].active)
    BY <1>2 DEF Active
  <2>2. [mem[k] EXCEPT !.active = FALSE].active = FALSE
    BY <2>1 DEF Timer
  <2> QED BY <1>1, <2>1, <2>2
<1>5. \A k \in 1 .. count : mem'[k].id = mem[k].id /\ mem'[k].interval = mem[k].interval
  BY <1>2, <1>3
<1>6. Sorted(mem', count) /\ Numbered(mem', count, nextId) /\ PassFits(passes, mem', count)
  BY <1>2, <1>5, SameIds DEF IInv
<1>7. Exact(mem', count, nextId, fired, cleared')
  <2> SUFFICES ASSUME NEW j \in Ids
               PROVE  Held(mem', count, j) <=> Owed(mem', count, nextId, fired, cleared', j)
    BY DEF Exact
  <2>1. CASE j = id
    BY <1>1, <1>4, <1>5, <2>1 DEF Held, Owed
  <2>2. CASE j # id
    <3>1. Held(mem', count, j) <=> Held(mem, count, j)
      BY <1>4, <1>5, <2>2 DEF Held
    <3>2. RecursIn(mem', count, j) <=> RecursIn(mem, count, j)
      BY <1>5 DEF RecursIn
    <3>3. Held(mem, count, j) <=> Owed(mem, count, nextId, fired, cleared, j)
      BY DEF IInv, Exact
    <3> QED BY <1>1, <2>2, <3>1, <3>2, <3>3 DEF Owed
  <2> QED BY <2>1, <2>2
<1>8. Unborn(nextId, fired, cleared')
  <2>1. ~(id >= nextId)
    BY <1>1, <1>2 DEF Ids
  <2> QED BY <1>1, <2>1 DEF IInv, Unborn
<1>9. TypeOK'
  <2>1. mem' \in [Ids -> Timer]
    BY <1>1, <1>3
  <2> QED BY <1>1, <2>1 DEF IInv, TypeOK
<1>10. Modes'
  BY <1>1 DEF IInv, Modes
<1> QED BY <1>1, <1>6, <1>7, <1>8, <1>9, <1>10 DEF IInv

(* A pass begins with a compaction: every timer that is still to be called      *)
(* keeps exactly one cell.                                                      *)
LEMMA StartPassInv ==
    ASSUME IInv, StartPass, passes = <<>>, UNCHANGED <<nextId, clock, fired, cleared>>
    PROVE  IInv'
<1> DEFINE e == [at |-> 1, limit |-> Kept, now |-> clock, fresh |-> nextId, running |-> 0]
<1>1. /\ mem' = Compacted /\ count' = Kept /\ passes' = <<e>> \o passes
      /\ mode' = "run" /\ wakeAt' = 0
  BY DEF StartPass
<1>2. /\ MaxTimers \in Nat \ {0} /\ MaxTime \in Nat /\ mem \in [Ids -> Timer]
      /\ count \in 0 .. MaxTimers /\ Cells = 1 .. count
      /\ nextId \in 1 .. MaxTimers + 1 /\ count < nextId /\ clock \in 0 .. MaxTime
      /\ \A k \in 1 .. count : mem[k].id \in 1 .. nextId - 1 /\ mem[k].id \in Nat
      /\ Active \subseteq 1 .. count /\ \A k \in 1 .. count : k \in Active <=> mem[k].active
  BY Bounds DEF Active
<1>3. Kept \in Nat /\ Kept <= count /\ Compacted \in [Ids -> Timer]
  BY <1>2, CompactedCells
<1>4. PICK src \in [1 .. Kept -> Active] :
          /\ \A k \in 1 .. Kept : Compacted[k] = mem[src[k]]
          /\ \A k, l \in 1 .. Kept : k < l => src[k] < src[l]
          /\ \A i \in Active : \E k \in 1 .. Kept : src[k] = i
  BY <1>2, CompactedCells
<1>5. \A k \in 1 .. Kept : /\ src[k] \in 1 .. count /\ mem[src[k]].active
                           /\ mem'[k] = mem[src[k]]
  BY <1>1, <1>2, <1>4
<1>6. e \in PassType /\ e.limit = Kept /\ e.running = 0 /\ e.fresh = nextId
  <2>1. 1 \in 1 .. MaxTimers + 1 /\ Kept \in 0 .. MaxTimers /\ 0 \in 0 .. MaxTimers
    BY <1>2, <1>3
  <2> QED BY <1>2, <2>1 DEF PassType
<1> HIDE DEF e
<1>7. Sorted(mem', Kept)
  <2> SUFFICES ASSUME NEW i \in 1 .. Kept, NEW k \in 1 .. Kept, i < k
               PROVE  mem'[i].id < mem'[k].id
    BY DEF Sorted
  <2>1. src[i] \in 1 .. count /\ src[k] \in 1 .. count /\ src[i] < src[k]
    BY <1>4, <1>5
  <2>2. mem[src[i]].id < mem[src[k]].id
    BY <2>1 DEF IInv, Sorted
  <2> QED BY <1>5, <2>2
<1>8. Numbered(mem', Kept, nextId)
  <2>1. Kept < nextId
    BY <1>2, <1>3
  <2>2. \A k \in 1 .. Kept : mem'[k].id \in 1 .. nextId - 1
    BY <1>2, <1>5
  <2> QED BY <2>1, <2>2 DEF Numbered
<1>9. Exact(mem', Kept, nextId, fired, cleared)
  <2> SUFFICES ASSUME NEW id \in Ids
               PROVE  Held(mem', Kept, id) <=> Owed(mem', Kept, nextId, fired, cleared, id)
    BY DEF Exact
  <2>1. Held(mem', Kept, id) <=> Held(mem, count, id)
    <3>1. ASSUME NEW k \in 1 .. Kept, mem'[k].active, mem'[k].id = id
          PROVE  Held(mem, count, id)
      BY <1>5, <3>1 DEF Held
    <3>2. ASSUME NEW i \in 1 .. count, mem[i].active, mem[i].id = id
          PROVE  Held(mem', Kept, id)
      <4>1. PICK k \in 1 .. Kept : src[k] = i
        BY <1>2, <1>4, <3>2
      <4> QED BY <1>5, <3>2, <4>1 DEF Held
    <3> QED BY <3>1, <3>2 DEF Held
  <2>2. RecursIn(mem', Kept, id) => RecursIn(mem, count, id)
    BY <1>5 DEF RecursIn
  <2>3. ASSUME Held(mem, count, id), RecursIn(mem, count, id) PROVE RecursIn(mem', Kept, id)
    <3>1. PICK i \in 1 .. count : mem[i].active /\ mem[i].id = id
      BY <2>3 DEF Held
    <3>2. PICK k \in 1 .. count : mem[k].id = id /\ mem[k].interval > 0
      BY <2>3 DEF RecursIn
    <3>3. i = k
      BY <1>2, <3>1, <3>2, OneCellEach DEF IInv
    <3>4. PICK l \in 1 .. Kept : src[l] = k
      BY <1>2, <1>4, <3>1, <3>3
    <3> QED BY <1>5, <3>2, <3>4 DEF RecursIn
  <2>4. Held(mem, count, id) <=> Owed(mem, count, nextId, fired, cleared, id)
    BY DEF IInv, Exact
  <2> QED BY <2>1, <2>2, <2>3, <2>4 DEF Owed
<1>10. PassFits(passes', mem', Kept)
  <2>1. passes \in Seq(PassType) /\ Len(passes) = 0
    BY DEF IInv, PassFits
  <2>2. /\ passes' \in Seq(PassType) /\ Len(passes') = 1 /\ passes' # <<>> /\ passes'[1] = e
    BY <1>1, <1>6, <2>1, AlonePass
  <2>3. \A k \in 1 .. Kept : mem'[k].id < nextId
    BY <1>2, <1>5
  <2>4. 0 < nextId /\ Kept <= Kept
    BY <1>2, <1>3
  <2> QED BY <1>6, <2>2, <2>3, <2>4 DEF PassFits
<1>11. Unborn(nextId, fired, cleared)
  BY DEF IInv
<1>12. passes' # <<>> /\ passes' \in Seq(PassType)
  <2>1. passes \in Seq(PassType) /\ Len(passes) = 0
    BY DEF IInv, PassFits
  <2> QED BY <1>1, <1>6, <2>1, AlonePass
<1>13. TypeOK'
  <2>1. 0 \in Times
    <3>1. 0 \in 0 .. MaxTime /\ 0 + 0 = 0
      BY <1>2
    <3> QED BY <3>1, DeadlineFits
  <2>2. Kept \in 0 .. MaxTimers
    BY <1>2, <1>3
  <2> QED BY <1>1, <1>3, <1>12, <2>1, <2>2 DEF IInv, TypeOK, PassType
<1>14. Modes'
  BY <1>1, <1>12 DEF Modes
<1> QED BY <1>1, <1>7, <1>8, <1>9, <1>10, <1>11, <1>13, <1>14 DEF IInv

(* The timer that is called is in a cell below the limit and still owed a call. *)
LEMMA DueCell ==
    ASSUME IInv, passes # <<>>, DueCells # {}
    PROVE  /\ Pass = passes[1] /\ passes[1] \in PassType /\ Len(passes) = 1
           /\ Min(DueCells) \in 1 .. passes[1].limit /\ Min(DueCells) \in 1 .. count
           /\ mem[Min(DueCells)].active
           /\ Owed(mem, count, nextId, fired, cleared, mem[Min(DueCells)].id)
<1>1. Pass = passes[1] /\ passes[1] \in PassType /\ Len(passes) = 1
  BY OnePass DEF IInv, PassFits, Pass
<1>2. /\ MaxTimers \in Nat /\ count \in Nat /\ Cells = 1 .. count
      /\ \A k \in 1 .. count : mem[k].id \in Ids
  BY Bounds
<1>3. passes[1].at \in Nat \ {0} /\ passes[1].limit \in Nat /\ passes[1].limit <= count
  BY <1>1, <1>2 DEF IInv, PassFits, PassType
<1>4. DueCells \subseteq Nat /\ DueCells \subseteq 1 .. passes[1].limit
      /\ \A k \in DueCells : mem[k].active
  BY <1>1, <1>3 DEF DueCells
<1> DEFINE k == Min(DueCells)
<1>5. k \in DueCells
  BY <1>4, MinOfNaturals
<1> HIDE DEF k
<1>6. k \in 1 .. passes[1].limit /\ mem[k].active
  BY <1>4, <1>5
<1>7. k \in 1 .. count
  BY <1>2, <1>3, <1>6
<1>8. Held(mem, count, mem[k].id)
  BY <1>6, <1>7 DEF Held
<1>9. Owed(mem, count, nextId, fired, cleared, mem[k].id)
  BY <1>2, <1>7, <1>8 DEF IInv, Exact
<1> QED BY <1>1, <1>6, <1>7, <1>9 DEF k

(* The call uses up a one-shot timer and re-arms an interval. *)
LEMMA FireInv ==
    ASSUME IInv, Fire
    PROVE  IInv'
<1> DEFINE k == Min(DueCells)
           t == mem[k]
           w == IF t.interval > 0 THEN [t EXCEPT !.due = Pass.now + t.interval]
                                  ELSE [t EXCEPT !.active = FALSE]
           e == [Pass EXCEPT !.at = k + 1, !.running = t.id]
           v == Min({fired[t.id] + 1, 2})
           rest == Tail(passes)
<1>1. /\ mode = "run" /\ DueCells # {} /\ passes # <<>>
      /\ mem' = [mem EXCEPT ![k] = w] /\ fired' = [fired EXCEPT ![t.id] = v]
      /\ passes' = <<e>> \o rest /\ mode' = "js"
      /\ UNCHANGED <<count, nextId, clock, wakeAt, cleared>>
  BY DEF Fire, Rearmed, IInv, Modes
<1>2. /\ Pass = passes[1] /\ passes[1] \in PassType
      /\ k \in 1 .. passes[1].limit /\ k \in 1 .. count /\ t.active
      /\ Owed(mem, count, nextId, fired, cleared, t.id)
  BY <1>1, DueCell
<1>3. /\ MaxTimers \in Nat \ {0} /\ mem \in [Ids -> Timer] /\ count \in Nat /\ count <= MaxTimers
      /\ nextId \in Nat /\ Cells = 1 .. count /\ Cells \subseteq Ids
      /\ \A i \in 1 .. count : mem[i].id \in 1 .. nextId - 1 /\ mem[i].id \in Ids
                               /\ mem[i].id \in Nat
  BY Bounds
<1>4. t \in Timer /\ k \in Ids /\ t.id \in Ids /\ t.id \in 1 .. nextId - 1
  BY <1>2, <1>3
<1>5. /\ w \in Timer /\ w.id = t.id /\ w.interval = t.interval
      /\ (w.active <=> t.interval > 0)
  <2>1. CASE t.interval > 0
    <3>1. Pass.now + t.interval \in Times
      <4>1. Pass.now \in 0 .. MaxTime /\ t.interval \in Delays \cup {0, 1}
        BY <1>2, <1>4 DEF PassType, Timer
      <4> QED BY <4>1, DeadlineFits
    <3>2. w = [t EXCEPT !.due = Pass.now + t.interval]
      BY <2>1
    <3> HIDE DEF t
    <3> QED BY <1>2, <1>4, <2>1, <3>1, <3>2 DEF Timer
  <2>2. CASE ~(t.interval > 0)
    <3>1. w = [t EXCEPT !.active = FALSE]
      BY <2>2
    <3> HIDE DEF t
    <3> QED BY <1>4, <2>2, <3>1 DEF Timer
  <2> QED BY <2>1, <2>2
<1>6. v \in 1 .. 2
  <2> DEFINE f == fired[t.id]
  <2>1. f \in 0 .. 2
    BY <1>4 DEF IInv, TypeOK
  <2> HIDE DEF f
  <2>2. {f + 1, 2} \subseteq Nat /\ {f + 1, 2} # {}
    BY <2>1
  <2>3. Min({f + 1, 2}) \in {f + 1, 2} /\ Min({f + 1, 2}) <= 2
    BY <2>2, MinOfNaturals
  <2>4. Min({f + 1, 2}) \in 1 .. 2
    BY <2>1, <2>3
  <2> QED BY <2>4 DEF f
<1>7. /\ e \in PassType /\ e.limit = passes[1].limit /\ e.fresh = passes[1].fresh
      /\ e.running = t.id
  <2>1. k + 1 \in 1 .. MaxTimers + 1 /\ t.id \in 0 .. MaxTimers
    BY <1>2, <1>3, <1>4 DEF Ids
  <2> HIDE DEF k, t
  <2> QED BY <1>2, <2>1 DEF PassType
<1> HIDE DEF k, w, e, v, rest
<1>8. /\ mem' \in [Ids -> Timer] /\ mem'[k] = w
      /\ \A i \in 1 .. count : i # k => mem'[i] = mem[i]
  <2>1. \A i \in 1 .. count : i \in Ids
    BY <1>3
  <2> QED BY <1>1, <1>3, <1>4, <1>5, <2>1
<1> HIDE DEF t
<1>9. mem[k] = t
  BY DEF t
<1>10. \A i \in 1 .. count : mem'[i].id = mem[i].id /\ mem'[i].interval = mem[i].interval
  BY <1>5, <1>8, <1>9
<1>11. Sorted(mem', count) /\ Numbered(mem', count, nextId) /\ PassFits(passes, mem', count)
  BY <1>3, <1>10, SameIds DEF IInv
<1>12. /\ fired' \in [Ids -> 0 .. 2] /\ fired'[t.id] = v /\ v # 0
       /\ \A j \in Ids : j # t.id => fired'[j] = fired[j]
  <2>1. fired \in [Ids -> 0 .. 2] /\ v \in 0 .. 2 /\ v # 0
    BY <1>6 DEF IInv, TypeOK
  <2> QED BY <1>1, <1>4, <2>1
<1>13. \A i \in 1 .. count : mem[i].id = t.id => i = k
  BY <1>2, <1>3, <1>9, OneCellEach DEF IInv
<1>14. Exact(mem', count, nextId, fired', cleared)
  <2> SUFFICES ASSUME NEW j \in Ids
               PROVE  Held(mem', count, j) <=> Owed(mem', count, nextId, fired', cleared, j)
    BY DEF Exact
  <2>1. RecursIn(mem', count, j) <=> RecursIn(mem, count, j)
    BY <1>10 DEF RecursIn
  <2>2. CASE j # t.id
    <3>1. Held(mem', count, j) <=> Held(mem, count, j)
      BY <1>5, <1>8, <1>9, <2>2 DEF Held
    <3>2. Held(mem, count, j) <=> Owed(mem, count, nextId, fired, cleared, j)
      BY DEF IInv, Exact
    <3> QED BY <1>12, <2>1, <2>2, <3>1, <3>2 DEF Owed
  <2>3. CASE j = t.id /\ t.interval > 0
    <3>1. Held(mem', count, j)
      BY <1>2, <1>5, <1>8, <2>3 DEF Held
    <3>2. RecursIn(mem, count, j)
      BY <1>2, <1>9, <2>3 DEF RecursIn
    <3> QED BY <1>2, <2>1, <2>3, <3>1, <3>2 DEF Owed
  <2>4. CASE j = t.id /\ ~(t.interval > 0)
    <3>1. ~Held(mem', count, j)
      BY <1>5, <1>8, <1>10, <1>13, <2>4 DEF Held
    <3>2. ~RecursIn(mem, count, j)
      BY <1>9, <1>13, <2>4 DEF RecursIn
    <3> QED BY <1>12, <2>1, <2>4, <3>1, <3>2 DEF Owed
  <2> QED BY <2>2, <2>3, <2>4
<1>15. Unborn(nextId, fired', cleared)
  <2>1. ~(t.id >= nextId)
    BY <1>3, <1>4
  <2> QED BY <1>12, <2>1 DEF IInv, Unborn
<1>16. PassFits(passes', mem', count) /\ passes' \in Seq(PassType)
  <2>1. rest \in Seq(PassType) /\ Len(rest) = 0
    BY <1>1, OnePass DEF IInv, PassFits, rest
  <2>2. /\ passes' \in Seq(PassType) /\ Len(passes') = 1 /\ passes' # <<>> /\ passes'[1] = e
    BY <1>1, <1>7, <2>1, AlonePass
  <2>3. t.id < passes[1].fresh
    BY <1>1, <1>2, <1>9 DEF IInv, PassFits
  <2>4. /\ passes[1].limit <= count
        /\ \A i \in 1 .. passes[1].limit : mem'[i].id < passes[1].fresh
    BY <1>1, <1>11 DEF PassFits
  <2> QED BY <1>7, <2>2, <2>3, <2>4 DEF PassFits
<1>17. TypeOK'
  BY <1>1, <1>8, <1>12, <1>16 DEF IInv, TypeOK, PassType
<1>18. Modes'
  BY <1>1 DEF Modes
<1> QED BY <1>1, <1>11, <1>14, <1>15, <1>16, <1>17, <1>18 DEF IInv

LEMMA PassEndInv ==
    ASSUME IInv, PassEnd
    PROVE  IInv'
<1>1. /\ passes # <<>> /\ passes' = Tail(passes) /\ mode' = "js"
      /\ UNCHANGED <<mem, count, nextId, clock, wakeAt, fired, cleared>>
  BY DEF IInv, Modes, PassEnd
<1>2. passes' \in Seq(PassType) /\ passes' = <<>> /\ Len(passes') = 0
  BY <1>1, OnePass DEF IInv, PassFits
<1>3. PassFits(passes', mem', count')
  BY <1>2 DEF PassFits
<1>4. TypeOK'
  BY <1>1, <1>2 DEF IInv, TypeOK, PassType
<1>5. Modes'
  BY <1>1, <1>2 DEF Modes
<1> QED BY <1>1, <1>3, <1>4, <1>5 DEF IInv

LEMMA LoopCheckInv ==
    ASSUME IInv, LoopCheck
    PROVE  IInv'
<1>1. passes = <<>> /\ UNCHANGED <<mem, count, nextId, clock, passes, fired, cleared>>
      /\ wakeAt \in Times /\ clock \in 0 .. MaxTime
  BY DEF IInv, Modes, LoopCheck, TypeOK
<1>2. CASE Active = {}
  <2>1. mode' = "exit" /\ wakeAt' = wakeAt
    BY <1>2 DEF LoopCheck
  <2> QED BY <1>1, <2>1, ControlInv
<1>3. CASE Active # {}
  <2>1. mode' = "sleep" /\ wakeAt' = Max({clock, NextDue})
    BY <1>3 DEF LoopCheck
  <2> DEFINE dues == {mem[k].due : k \in Active}
  <2>2. \A k \in Active : mem[k].due \in Times
    BY Bounds DEF Active, Timer
  <2>3. Times \subseteq Nat
    BY DEF Times
  <2>4. dues \subseteq Nat /\ dues # {} /\ dues \subseteq Times
    BY <1>3, <2>2, <2>3
  <2>5. NextDue \in Times
    BY <2>4, MinOfNaturals DEF NextDue
  <2>6. clock \in Times
    <3>1. clock + 0 \in Times /\ clock + 0 = clock
      BY <1>1, DeadlineFits
    <3> QED BY <3>1
  <2>7. wakeAt' \in Times
    <3> DEFINE d == NextDue
    <3>1. d \in Nat /\ clock \in Nat /\ d \in Times
      BY <2>3, <2>5, <2>6
    <3> HIDE DEF d
    <3>2. /\ {clock, d} \subseteq Nat /\ {clock, d} # {} /\ clock + d \in Nat
          /\ \A y \in {clock, d} : y <= clock + d
      BY <3>1
    <3>3. Max({clock, d}) \in {clock, d}
      BY <3>2, MaxOfNaturals
    <3>4. Max({clock, d}) \in Times
      BY <2>6, <3>1, <3>3
    <3> QED BY <2>1, <3>4 DEF d
  <2> QED BY <1>1, <2>1, <2>7, ControlInv
<1> QED BY <1>2, <1>3

LEMMA InitInv == Init => IInv
<1> SUFFICES ASSUME Init PROVE IInv
  OBVIOUS
<1>1. /\ mem = [k \in Ids |-> Blank] /\ count = 0 /\ nextId = 1 /\ clock = 0 /\ wakeAt = 0
      /\ mode = "js" /\ passes = <<>> /\ fired = [id \in Ids |-> 0] /\ cleared = {}
      /\ MaxTimers \in Nat \ {0} /\ MaxTime \in Nat
  BY TimersAssumption DEF Init
<1>2. 0 \in Times
  <2>1. 0 \in 0 .. MaxTime /\ 0 + 0 = 0
    BY <1>1
  <2> QED BY <2>1, DeadlineFits
<1>3. passes \in Seq(PassType) /\ Len(passes) = 0
  BY <1>1
<1>4. TypeOK
  <2>1. Blank \in Timer
    <3>1. 0 \in 0 .. MaxTimers
      BY <1>1
    <3> QED BY <1>2, <3>1 DEF Blank, Timer
  <2>2. mem \in [Ids -> Timer] /\ fired \in [Ids -> 0 .. 2]
    BY <1>1, <2>1
  <2>3. count \in 0 .. MaxTimers /\ nextId \in 1 .. MaxTimers + 1 /\ clock \in 0 .. MaxTime
    BY <1>1
  <2> QED BY <1>1, <1>2, <1>3, <2>2, <2>3 DEF TypeOK, PassType
<1>5. \A k \in 1 .. count : FALSE
  BY <1>1
<1>6. Sorted(mem, count) /\ Numbered(mem, count, nextId)
  BY <1>1, <1>5 DEF Sorted, Numbered
<1>7. Exact(mem, count, nextId, fired, cleared)
  <2>1. \A id \in Ids : ~Held(mem, count, id)
    BY <1>5 DEF Held
  <2>2. \A id \in Ids : id \notin 1 .. nextId - 1
    BY <1>1
  <2> QED BY <2>1, <2>2 DEF Exact, Owed
<1>8. Unborn(nextId, fired, cleared) /\ PassFits(passes, mem, count) /\ Modes
  BY <1>1, <1>3 DEF Unborn, PassFits, Modes
<1> QED BY <1>4, <1>6, <1>7, <1>8 DEF IInv

LEMMA Inductive == IInv /\ [Next]_vars => IInv'
<1> SUFFICES ASSUME IInv, [Next]_vars PROVE IInv'
  OBVIOUS
<1>0. /\ clock \in 0 .. MaxTime /\ wakeAt \in Times
      /\ mode \in {"js", "loop", "sleep", "run", "exit"}
      /\ (mode \in {"loop", "sleep", "exit"} => passes = <<>>) /\ (mode = "run" => passes # <<>>)
  BY DEF IInv, TypeOK, Modes
<1>1. CASE ScriptReturn
  BY <1>0, <1>1, ControlInv DEF ScriptReturn
<1>2. CASE SleepOver \/ OtherEvent
  BY <1>0, <1>2, StartPassInv DEF SleepOver, OtherEvent
<1>3. ASSUME NEW d \in Delays, SetTimeout(d) \/ SetInterval(d) PROVE IInv'
  <2>1. CASE SetTimeout(d)
    BY <2>1, AddInv DEF SetTimeout
  <2>2. CASE SetInterval(d)
    <3>1. (IF d > 0 THEN d ELSE 1) \in Delays \cup {0, 1}
      OBVIOUS
    <3> QED BY <2>2, <3>1, AddInv DEF SetInterval
  <2> QED BY <1>3, <2>1, <2>2
<1>4. CASE Tick
  <2>1. clock + 1 \in 0 .. MaxTime
    BY <1>0, <1>4, TimersAssumption DEF Tick
  <2>2. clock' = clock + 1 /\ UNCHANGED <<mem, count, nextId, mode, wakeAt, passes, fired, cleared>>
    BY <1>4 DEF Tick
  <2> QED BY <1>0, <2>1, <2>2, ControlInv
<1>5. CASE UNCHANGED vars
  <2>1. UNCHANGED <<mem, count, nextId, clock, mode, wakeAt, passes, fired, cleared>>
    BY <1>5 DEF vars
  <2> QED BY <1>0, <2>1, ControlInv
<1>6. CASE Fire \/ PassEnd \/ LoopCheck
  BY <1>6, FireInv, PassEndInv, LoopCheckInv
<1>7. ASSUME NEW id \in Ids, Clear(id) PROVE IInv'
  BY <1>7, ClearInv
<1> QED BY <1>1, <1>2, <1>3, <1>4, <1>5, <1>6, <1>7 DEF Next, Loop, Script, Exited

LEMMA Invariance == Spec => []IInv
<1>1. Init => IInv
  BY InitInv
<1>2. IInv /\ [Next]_vars => IInv'
  BY Inductive
<1> QED BY <1>1, <1>2, PTL DEF Spec, SafeSpec
-----------------------------------------------------------------------------
(* Every variable has its type, however many timers are added and compacted,    *)
(* and no pass looks beyond the array.                                          *)
THEOREM TypeCorrect == Spec => []TypeOK
<1>1. IInv => TypeOK
  BY DEF IInv
<1> QED BY <1>1, Invariance, PTL

LEMMA NothingLost == ASSUME IInv PROVE NoTimerLost
<1>1. Cells = 1 .. count /\ nextId \in Nat /\ nextId <= MaxTimers + 1 /\ MaxTimers \in Nat
      /\ \A k \in Cells : mem[k].id \in Ids
  BY Bounds
<1>2. \A id : id \in {mem[k].id : k \in Active} <=> id \in Ids /\ Held(mem, count, id)
  BY <1>1 DEF Active, Held
<1>3. 1 .. nextId - 1 \subseteq Ids
  BY <1>1 DEF Ids
<1>4. \A id : id \in Outstanding <=> id \in Ids /\ Owed(mem, count, nextId, fired, cleared, id)
  BY <1>1, <1>3 DEF Outstanding, Recurs, Owed, RecursIn
<1>5. \A id \in Ids : Held(mem, count, id) <=> Owed(mem, count, nextId, fired, cleared, id)
  BY DEF IInv, Exact
<1> QED BY <1>2, <1>4, <1>5 DEF NoTimerLost

(* The table of xt_loop.c holds exactly the timers that still have to be called, *)
(* for any number of timers and any interleaving of calls and clears.           *)
THEOREM NoneLost == Spec => []NoTimerLost
<1>1. IInv => NoTimerLost
  BY NothingLost
<1> QED BY <1>1, Invariance, PTL

LEMMA Waits == ASSUME IInv PROVE AddedWaits
<1>1. passes \in Seq(PassType) /\ Len(passes) <= 1 /\ (passes # <<>> => passes[1].running < passes[1].fresh)
  BY DEF IInv, PassFits
<1>2. DOMAIN passes = 1 .. Len(passes) /\ Len(passes) \in Nat
  BY <1>1, LenProperties
<1>3. \A p \in DOMAIN passes : p = 1 /\ passes # <<>>
  BY <1>1, <1>2
<1> QED BY <1>1, <1>3 DEF AddedWaits

(* A pass of xt_timer_run_due calls only timers that existed when it began.      *)
THEOREM AddedOnesWait == Spec => []AddedWaits
<1>1. IInv => AddedWaits
  BY Waits
<1> QED BY <1>1, Invariance, PTL

(* The callback that a step starts. *)
LEMMA Called ==
    ASSUME IInv, Fire
    PROVE  /\ Head(passes').running \notin cleared
           /\ fired[Head(passes').running] = 0 \/ Recurs(Head(passes').running)
<1> DEFINE t == mem[Min(DueCells)]
           e == [Pass EXCEPT !.at = Min(DueCells) + 1, !.running = t.id]
<1>1. passes # <<>> /\ DueCells # {} /\ passes' = <<e>> \o Tail(passes)
  BY DEF Fire, IInv, Modes
<1>2. Owed(mem, count, nextId, fired, cleared, t.id) /\ Pass \in PassType
  BY <1>1, DueCell
<1>3. Head(passes').running = t.id
  <2>1. Head(<<e>> \o Tail(passes)) = e
    OBVIOUS
  <2>2. e.running = t.id
    BY <1>2 DEF PassType
  <2> QED BY <1>1, <2>1, <2>2
<1> HIDE DEF t
<1>4. t.id \notin cleared /\ (fired[t.id] = 0 \/ Recurs(t.id))
  BY <1>2 DEF Owed, RecursIn, Recurs, Cells
<1> QED BY <1>3, <1>4

(* Of the steps out of a pass into a script, only a call keeps the pass.         *)
LEMMA OnlyFireCalls ==
    ASSUME IInv, [Next]_vars, mode = "run", mode' = "js", Len(passes') = Len(passes)
    PROVE  Fire
<1>1. ~PassEnd
  <2>1. Len(passes) = 1 /\ Len(Tail(passes)) = 0
    BY OnePass DEF IInv, Modes, PassFits
  <2>2. ASSUME PassEnd PROVE FALSE
    <3>1. passes' = Tail(passes)
      BY <2>2 DEF PassEnd
    <3>2. Len(passes') = 0
      BY <2>1, <3>1
    <3> QED BY <2>1, <3>2
  <2> QED BY <2>2
<1>2. ~(UNCHANGED vars) /\ ~Tick
  BY DEF vars, Tick
<1>3. ~ScriptReturn /\ ~LoopCheck /\ ~SleepOver /\ ~OtherEvent /\ ~Exited
  BY DEF ScriptReturn, LoopCheck, SleepOver, OtherEvent, Exited
<1>4. ~Script
  BY DEF Script, SetTimeout, SetInterval, Add, Clear
<1> QED BY <1>1, <1>2, <1>3, <1>4 DEF Next, Loop

(* clearTimeout is final, also within the pass that would have called the timer, *)
(* and a one-shot timer is called once, for any number of timers.               *)
THEOREM CalledOnce == Spec => OneShotOnce
<1>1. IInv /\ [Next]_vars =>
          [mode = "run" /\ mode' = "js" /\ Len(passes') = Len(passes) =>
              LET id == Head(passes').running
              IN  id \notin cleared /\ (fired[id] = 0 \/ Recurs(id))]_vars
  BY OnlyFireCalls, Called
<1> QED BY <1>1, Invariance, PTL DEF Spec, SafeSpec, OneShotOnce
-----------------------------------------------------------------------------
(***************************************************************************)
(* The reactor implements the safety part of TimerService.  The pending    *)
(* timers are the entries of the active cells, and a round holds those of  *)
(* the cells that the pass still has to reach.  A cell is found by its id  *)
(* (OneCellEach), so a step that changes one cell changes one timer.       *)
(***************************************************************************)
LEMMA EntryFields == \A r : /\ Entry(r).id = r.id /\ Entry(r).due = r.due
                            /\ Entry(r).interval = r.interval
  BY DEF Entry

(* The cells that hold timers, and those a pass has yet to call. *)
LEMMA SeenCells ==
    ASSUME IInv
    PROVE  /\ Active \subseteq 1 .. count /\ count \in Nat
           /\ \A i \in 1 .. count : i \in Active <=> mem[i].active
           /\ \A i \in 1 .. count : i \in Ids /\ mem[i] \in Timer /\ mem[i].id \in 1 .. nextId - 1
           /\ \A i, k \in 1 .. count : mem[i].id = mem[k].id => i = k
           /\ \A i, k \in 1 .. count : i <= k => mem[i].id <= mem[k].id
           /\ passes # <<>> =>
                 /\ Pass = passes[1] /\ Pass \in PassType
                 /\ Pass.at \in Nat \ {0} /\ Pass.now \in Nat
                 /\ Pass.limit \in Nat /\ Pass.limit <= count
                 /\ DueCells \subseteq Active
<1>1. /\ count \in Nat /\ Cells = 1 .. count /\ MaxTimers \in Nat
      /\ \A i \in 1 .. count : i \in Ids /\ mem[i] \in Timer /\ mem[i].id \in 1 .. nextId - 1
      /\ \A i \in 1 .. count : mem[i].id \in Nat
  BY Bounds
<1>2. Active \subseteq 1 .. count /\ \A i \in 1 .. count : i \in Active <=> mem[i].active
  BY <1>1 DEF Active
<1>3. \A i, k \in 1 .. count : mem[i].id = mem[k].id => i = k
  BY <1>1, OneCellEach DEF IInv
<1>4. ASSUME NEW i \in 1 .. count, NEW k \in 1 .. count, i <= k
      PROVE  mem[i].id <= mem[k].id
  <2>1. CASE i = k
    <3>1. mem[k].id \in Nat
      BY <1>1
    <3> QED BY <2>1, <3>1
  <2>2. CASE i # k
    <3>1. mem[i].id < mem[k].id
      BY <1>4, <2>2 DEF IInv, Sorted
    <3>2. mem[k].id \in Nat /\ mem[i].id \in Nat
      BY <1>1
    <3> QED BY <3>1, <3>2
  <2> QED BY <2>1, <2>2
<1>5. ASSUME passes # <<>>
      PROVE  /\ Pass = passes[1] /\ Pass \in PassType
             /\ Pass.at \in Nat \ {0} /\ Pass.now \in Nat
             /\ Pass.limit \in Nat /\ Pass.limit <= count
             /\ DueCells \subseteq Active
  <2>1. Pass = passes[1] /\ passes[1] \in PassType
    BY <1>5, OnePass DEF IInv, PassFits, Pass
  <2>2. /\ Pass.at \in Nat \ {0} /\ Pass.now \in Nat
        /\ Pass.limit \in Nat /\ Pass.limit <= count
    BY <1>1, <1>5, <2>1, TimersAssumption DEF IInv, PassFits, PassType
  <2>3. DueCells \subseteq Active
    BY <1>1, <2>2 DEF DueCells, Active
  <2> QED BY <2>1, <2>2, <2>3
<1> QED BY <1>1, <1>2, <1>3, <1>4, <1>5

(* A step that only moves the reactor along is invisible. *)
LEMMA Unseen ==
    ASSUME UNCHANGED <<mem, count, nextId, clock, passes>>,
           mode' = "js" <=> mode = "js", mode' = "exit" <=> mode = "exit"
    PROVE  UNCHANGED Service!vars
<1>1. /\ Entries(Active)' = Entries(Active) /\ Entries(DueCells)' = Entries(DueCells)
      /\ Pass' = Pass
  BY DEF Entries, Active, Cells, DueCells, Pass
<1>2. (mode = "js")' = (mode = "js") /\ (mode = "exit")' = (mode = "exit")
  OBVIOUS
<1> QED BY <1>1, <1>2 DEF Service!vars

(* A new cell is a new timer, out of reach of the pass in progress. *)
LEMMA AddIsSet ==
    ASSUME IInv, NEW delay \in Delays, NEW interval \in Delays \cup {0, 1}, Add(delay, interval)
    PROVE  Service!Set(delay, interval)
<1> DEFINE w == [id |-> nextId, due |-> clock + delay, interval |-> interval, active |-> TRUE]
           n == count + 1
           x == [id |-> nextId, due |-> clock + delay, interval |-> interval]
<1>1. /\ mem' = [mem EXCEPT ![n] = w] /\ count' = n /\ nextId' = nextId + 1
      /\ nextId <= MaxTimers /\ mode = "js"
      /\ UNCHANGED <<clock, mode, wakeAt, passes, fired, cleared>>
  BY DEF Add
<1>2. /\ mem \in [Ids -> Timer] /\ count \in Nat /\ nextId \in Nat /\ n \in Nat /\ n \in Ids
      /\ 1 <= nextId
  BY <1>1, Bounds DEF Ids
<1>3. w.active = TRUE /\ Entry(w) = x
  BY DEF Entry
<1> HIDE DEF w, x
<1>4. /\ mem'[n] = w /\ \A k \in 1 .. count : mem'[k] = mem[k]
  <2>1. \A k \in 1 .. count : k \in Ids /\ k # n
    BY <1>2, SeenCells
  <2> QED BY <1>1, <1>2, <2>1
<1>5. n \in 1 .. n /\ \A k : k \in 1 .. n <=> k = n \/ k \in 1 .. count
  BY <1>2
<1> HIDE DEF n
<1>6. Active' = Active \cup {n}
  BY <1>1, <1>3, <1>4, <1>5 DEF Active, Cells
<1>7. Entries(Active)' = Entries(Active) \cup {x}
  <2>1. \A k \in Active : k \in 1 .. count
    BY SeenCells
  <2>2. Entries(Active)' = {Entry(mem'[k]) : k \in Active'}
    BY DEF Entries
  <2> QED BY <1>3, <1>4, <1>6, <2>1, <2>2 DEF Entries
<1>8. passes # <<>> => Entries(DueCells)' = Entries(DueCells)
  <2> SUFFICES ASSUME passes # <<>> PROVE Entries(DueCells)' = Entries(DueCells)
    OBVIOUS
  <2>1. \A k \in Pass.at .. Pass.limit : mem'[k] = mem[k]
    <3>1. /\ Pass.at \in Nat \ {0} /\ Pass.limit \in Nat /\ Pass.limit <= count /\ count \in Nat
      BY SeenCells
    <3>2. \A k \in Pass.at .. Pass.limit : k \in 1 .. count
      BY <3>1
    <3> QED BY <1>4, <3>2
  <2>2. Pass' = Pass
    BY <1>1 DEF Pass
  <2>3. DueCells' = DueCells
    BY <2>1, <2>2 DEF DueCells
  <2>4. \A k \in DueCells : mem'[k] = mem[k]
    BY <2>1 DEF DueCells
  <2>5. Entries(DueCells)' = {Entry(mem'[k]) : k \in DueCells'}
    BY DEF Entries
  <2> QED BY <2>3, <2>4, <2>5 DEF Entries
<1>9. (nextId - 1)' = (nextId - 1) + 1 /\ (nextId - 1)' = nextId
  BY <1>1, <1>2
<1>10. Pass' = Pass /\ (mode = "js")' = (mode = "js") /\ (mode = "exit")' = (mode = "exit")
  BY <1>1 DEF Pass
<1> QED BY <1>1, <1>7, <1>8, <1>9, <1>10 DEF Service!Set, x

(* The timer leaves the table, and the pass in progress if that was to call it. *)
LEMMA ClearIsClear ==
    ASSUME IInv, NEW id \in Ids, Clear(id)
    PROVE  Service!Clear(id)
<1>1. /\ mem' = [k \in Ids |-> IF k \in Active /\ mem[k].id = id
                              THEN [mem[k] EXCEPT !.active = FALSE] ELSE mem[k]]
      /\ mode = "js"
      /\ UNCHANGED <<count, nextId, clock, mode, wakeAt, passes, fired>>
  BY DEF Clear
<1>2. \A k \in 1 .. count : /\ mem'[k].active <=> mem[k].active /\ mem[k].id # id
                            /\ mem'[k].due = mem[k].due /\ Entry(mem'[k]) = Entry(mem[k])
  <2> TAKE k \in 1 .. count
  <2>1. k \in Ids /\ mem[k] \in Timer /\ (k \in Active <=> mem[k].active)
    BY SeenCells
  <2> DEFINE r == mem[k]
             q == [r EXCEPT !.active = FALSE]
  <2>2. q.active = FALSE /\ q.due = r.due /\ q.id = r.id /\ q.interval = r.interval
    BY <2>1 DEF Timer
  <2>3. mem'[k] = IF k \in Active /\ r.id = id THEN q ELSE r
    BY <1>1, <2>1
  <2> HIDE DEF q
  <2> QED BY <2>1, <2>2, <2>3 DEF Entry
<1>3. Active' = {k \in Active : mem[k].id # id}
  BY <1>1, <1>2 DEF Active, Cells
<1>4. Entries(Active)' = {t \in Entries(Active) : t.id # id}
  <2>1. Entries(Active)' = {Entry(mem'[k]) : k \in Active'}
    BY DEF Entries
  <2>2. \A k \in Active : Entry(mem'[k]) = Entry(mem[k])
    BY <1>2, SeenCells
  <2> QED BY <1>3, <2>1, <2>2, EntryFields DEF Entries
<1>5. passes # <<>> => Entries(DueCells)' = {t \in Entries(DueCells) : t.id # id}
  <2> SUFFICES ASSUME passes # <<>>
               PROVE  Entries(DueCells)' = {t \in Entries(DueCells) : t.id # id}
    OBVIOUS
  <2>1. \A k \in Pass.at .. Pass.limit : k \in 1 .. count
    BY SeenCells
  <2>2. Pass' = Pass
    BY <1>1 DEF Pass
  <2>3. DueCells' = {k \in DueCells : mem[k].id # id}
    BY <1>2, <2>1, <2>2 DEF DueCells
  <2>4. \A k \in DueCells : Entry(mem'[k]) = Entry(mem[k])
    BY <1>2, <2>1 DEF DueCells
  <2>5. Entries(DueCells)' = {Entry(mem'[k]) : k \in DueCells'}
    BY DEF Entries
  <2> QED BY <2>3, <2>4, <2>5, EntryFields DEF Entries
<1>6. Pass' = Pass /\ (mode = "js")' = (mode = "js") /\ (mode = "exit")' = (mode = "exit")
  BY <1>1 DEF Pass
<1> QED BY <1>1, <1>4, <1>5, <1>6 DEF Service!Clear

(* Compaction changes no timer, and the pass will call those that are due. *)
LEMMA StartIsBegin ==
    ASSUME IInv, StartPass, mode = "sleep", passes = <<>>, UNCHANGED <<nextId, clock>>
    PROVE  Service!Begin
<1> DEFINE e == [at |-> 1, limit |-> Kept, now |-> clock, fresh |-> nextId, running |-> 0]
<1>1. /\ mem' = Compacted /\ count' = Kept /\ passes' = <<e>> \o passes /\ mode' = "run"
  BY DEF StartPass
<1>2. passes' # <<>> /\ Pass' = e
  <2>1. passes' = <<e>>
    BY <1>1
  <2> QED BY <2>1 DEF Pass
<1>3. e.at = 1 /\ e.limit = Kept /\ e.now = clock
  OBVIOUS
<1> HIDE DEF e
<1>4. PICK src \in [1 .. Kept -> Active] :
          /\ \A k \in 1 .. Kept : Compacted[k] = mem[src[k]]
          /\ \A i \in Active : \E k \in 1 .. Kept : src[k] = i
  <2>1. count \in 0 .. MaxTimers /\ MaxTimers \in Nat /\ mem \in [Ids -> Timer]
    BY TimersAssumption DEF IInv, TypeOK
  <2> QED BY <2>1, CompactedCells
<1>5. \A k \in 1 .. Kept : src[k] \in Active /\ mem'[k] = mem[src[k]] /\ mem[src[k]].active
  BY <1>1, <1>4, SeenCells
<1>6. Active' = 1 .. Kept
  BY <1>1, <1>5 DEF Active, Cells
<1>7. Entries(Active)' = Entries(Active)
  <2>1. Entries(Active)' = {Entry(mem'[k]) : k \in Active'}
    BY DEF Entries
  <2> QED BY <1>4, <1>5, <1>6, <2>1 DEF Entries
<1>8. DueCells' = {k \in 1 .. Kept : mem[src[k]].due <= clock}
  BY <1>2, <1>3, <1>5 DEF DueCells
<1>9. Entries(DueCells)' = {t \in Entries(Active) : t.due <= clock}
  <2>1. Entries(DueCells)' = {Entry(mem'[k]) : k \in DueCells'}
    BY DEF Entries
  <2> QED BY <1>4, <1>5, <1>8, <2>1, EntryFields DEF Entries
<1>10. (mode = "js") = FALSE /\ (mode = "exit") = FALSE
       /\ (mode = "js")' = FALSE /\ (mode = "exit")' = FALSE
  BY <1>1
<1> QED BY <1>2, <1>3, <1>7, <1>9, <1>10 DEF Service!Begin, Service!Due, Service!NoRound

(* The first due cell holds the due timer that was set first. *)
LEMMA FireIsCall ==
    ASSUME IInv, Fire
    PROVE  Service!Next
<1> DEFINE k == Min(DueCells)
           t == mem[k]
           w == IF t.interval > 0 THEN Rearmed(t) ELSE [t EXCEPT !.active = FALSE]
           e == [Pass EXCEPT !.at = k + 1, !.running = t.id]
           x == Entry(t)
           y == [x EXCEPT !.due = Pass.now + t.interval]
<1>1. /\ mode = "run" /\ DueCells # {} /\ passes # <<>>
      /\ mem' = [mem EXCEPT ![k] = w]
      /\ passes' = <<e>> \o Tail(passes) /\ mode' = "js"
      /\ UNCHANGED <<count, nextId, clock>>
  BY DEF Fire, IInv, Modes
<1>2. /\ Pass \in PassType /\ Pass.at \in Nat \ {0} /\ Pass.now \in Nat
      /\ Pass.limit \in Nat /\ Pass.limit <= count /\ count \in Nat
      /\ DueCells \subseteq Active /\ Active \subseteq 1 .. count
      /\ \A i \in 1 .. count : i \in Active <=> mem[i].active
      /\ \A i \in 1 .. count : i \in Ids /\ mem[i] \in Timer /\ mem[i].id \in 1 .. nextId - 1
      /\ \A i, j \in 1 .. count : mem[i].id = mem[j].id => i = j
      /\ \A i, j \in 1 .. count : i <= j => mem[i].id <= mem[j].id
  BY <1>1, SeenCells
<1>3. k \in DueCells /\ \A i \in DueCells : k <= i
  <2>1. DueCells \subseteq Nat
    BY <1>2
  <2> QED BY <1>1, <2>1, MinOfNaturals
<1>4. k \in 1 .. count /\ k \in Pass.at .. Pass.limit /\ k \in Active /\ t \in Timer /\ t.active
  BY <1>2, <1>3 DEF DueCells
<1>5. w.id = t.id /\ w.interval = t.interval /\ (w.active <=> t.interval > 0)
  <2>1. CASE t.interval > 0
    <3>1. w = [t EXCEPT !.due = Pass.now + t.interval]
      BY <2>1 DEF Rearmed
    <3> HIDE DEF t, w
    <3> QED BY <1>4, <2>1, <3>1 DEF Timer
  <2>2. CASE ~(t.interval > 0)
    <3>1. w = [t EXCEPT !.active = FALSE]
      BY <2>2
    <3> HIDE DEF t, w
    <3> QED BY <1>4, <2>2, <3>1 DEF Timer
  <2> QED BY <2>1, <2>2
<1>6. t.interval > 0 => Entry(w) = y
  <2> SUFFICES ASSUME t.interval > 0 PROVE Entry(w) = y
    OBVIOUS
  <2>1. w = [t EXCEPT !.due = Pass.now + t.interval]
    BY DEF Rearmed
  <2>2. w.id = t.id /\ w.interval = t.interval /\ w.due = Pass.now + t.interval
    <3> HIDE DEF t, w
    <3> QED BY <1>4, <2>1 DEF Timer
  <2> HIDE DEF t, w
  <2> QED BY <2>2 DEF Entry
<1>7. passes' # <<>> /\ Pass' = e
  <2>1. Head(<<e>> \o Tail(passes)) = e /\ <<e>> \o Tail(passes) # <<>>
    OBVIOUS
  <2> QED BY <1>1, <2>1 DEF Pass
<1>8. e.at = k + 1 /\ e.limit = Pass.limit /\ e.now = Pass.now
  <2> HIDE DEF k, t
  <2> QED BY <1>2 DEF PassType
<1>9. x.id = t.id /\ x.interval = t.interval
  BY EntryFields
<1>10. x = Entry(mem[k]) /\ t = mem[k]
  OBVIOUS
<1> HIDE DEF k, w, e, x, y, t
<1>11. /\ mem'[k] = w /\ \A i \in 1 .. count : i # k => mem'[i] = mem[i]
  <2>1. DOMAIN mem = Ids
    BY DEF IInv, TypeOK
  <2> QED BY <1>1, <1>2, <1>4, <2>1
<1>12. \A i \in 1 .. count : i # k => Entry(mem[i]) # x
  BY <1>2, <1>4, <1>9, <1>10, EntryFields
<1>13. Active' = IF t.interval > 0 THEN Active ELSE Active \ {k}
  BY <1>1, <1>2, <1>4, <1>5, <1>11 DEF Active, Cells
<1>14. Entries(Active)' = IF t.interval > 0 THEN (Entries(Active) \ {x}) \cup {y}
                                            ELSE Entries(Active) \ {x}
  <2>1. Entries(Active)' = {Entry(mem'[i]) : i \in Active'}
    BY DEF Entries
  <2>2. \A i \in Active : i # k => mem'[i] = mem[i] /\ Entry(mem[i]) # x
    BY <1>2, <1>11, <1>12
  <2>3. CASE t.interval > 0
    <3>1. Entries(Active)' = {Entry(mem'[i]) : i \in Active} /\ Entry(mem'[k]) = y
      BY <1>6, <1>11, <1>13, <2>1, <2>3
    <3> QED BY <1>4, <1>10, <2>2, <2>3, <3>1 DEF Entries
  <2>4. CASE ~(t.interval > 0)
    <3>1. Entries(Active)' = {Entry(mem'[i]) : i \in Active \ {k}}
      BY <1>13, <2>1, <2>4
    <3> QED BY <1>10, <2>2, <2>4, <3>1 DEF Entries
  <2> QED BY <2>3, <2>4
<1>15. DueCells' = DueCells \ {k}
  <2>1. \A i \in Pass.at .. Pass.limit : i \in 1 .. count /\ i \in Nat
    BY <1>2
  <2>2. DueCells' = {i \in k + 1 .. Pass.limit : mem'[i].active /\ mem'[i].due <= Pass.now}
    BY <1>7, <1>8 DEF DueCells
  <2>3. \A i \in k + 1 .. Pass.limit : i \in Pass.at .. Pass.limit /\ i # k
    BY <1>2, <1>4
  <2>4. \A i \in DueCells : i # k => i \in k + 1 .. Pass.limit
    BY <1>2, <1>3, <1>4, <2>1 DEF DueCells
  <2>5. \A i \in k + 1 .. Pass.limit : mem'[i] = mem[i]
    BY <1>11, <2>1, <2>3
  <2>6. k \notin k + 1 .. Pass.limit
    BY <1>4
  <2> QED BY <2>2, <2>3, <2>4, <2>5, <2>6 DEF DueCells
<1>16. Entries(DueCells)' = Entries(DueCells) \ {x}
  <2>1. Entries(DueCells)' = {Entry(mem'[i]) : i \in DueCells \ {k}}
    BY <1>15 DEF Entries
  <2>2. \A i \in DueCells : i # k => mem'[i] = mem[i] /\ Entry(mem[i]) # x
    BY <1>2, <1>11, <1>12
  <2> QED BY <1>10, <2>1, <2>2 DEF Entries
<1>17. x \in Entries(DueCells) /\ \A u \in Entries(DueCells) : x.id <= u.id
  <2>1. x \in Entries(DueCells)
    BY <1>3, <1>10 DEF Entries
  <2>2. ASSUME NEW i \in DueCells PROVE x.id <= Entry(mem[i]).id
    <3>1. i \in 1 .. count /\ k <= i
      BY <1>2, <1>3
    <3>2. mem[k].id <= mem[i].id
      BY <1>2, <1>4, <3>1
    <3> QED BY <1>9, <1>10, <3>2, EntryFields
  <2> QED BY <2>1, <2>2 DEF Entries
<1>18. (mode = "js") = FALSE /\ (mode = "js")' = TRUE /\ (mode = "exit")' = (mode = "exit")
       /\ Pass'.now = Pass.now
  BY <1>1, <1>7, <1>8
<1>19. y = [x EXCEPT !.due = Pass.now + x.interval]
  BY <1>9 DEF y
<1>20. Service!Call(x)
  BY <1>1, <1>7, <1>9, <1>14, <1>16, <1>17, <1>18, <1>19 DEF Service!Call
<1> QED BY <1>1, <1>17, <1>20 DEF Service!Next

(* A pass ends when it has called every timer of its round. *)
LEMMA PassEndIsEnd ==
    ASSUME IInv, PassEnd
    PROVE  Service!End
<1>1. /\ passes # <<>> /\ DueCells = {} /\ passes' = Tail(passes) /\ mode = "run" /\ mode' = "js"
      /\ UNCHANGED <<mem, count, nextId, clock>>
  BY DEF IInv, Modes, PassEnd
<1>2. passes' = <<>>
  BY <1>1, OnePass DEF IInv, PassFits
<1>3. Entries(DueCells) = {} /\ Entries(Active)' = Entries(Active)
  BY <1>1 DEF Entries, Active, Cells
<1>4. Pass.now # -1
  <2>1. Pass.now \in Nat
    BY <1>1, SeenCells
  <2> DEFINE v == Pass.now
  <2>2. v \in Nat
    BY <2>1
  <2> HIDE DEF v
  <2>3. v # -1
    BY <2>2
  <2> QED BY <2>3 DEF v
<1>5. (mode = "js") = FALSE /\ (mode = "js")' = TRUE /\ (mode = "exit")' = (mode = "exit")
  BY <1>1
<1> QED BY <1>1, <1>2, <1>3, <1>4, <1>5 DEF Service!End, Service!NoRound

(* The loop goes to sleep, which nobody sees, or ends with no timer left. *)
LEMMA LoopCheckIsExit ==
    ASSUME IInv, LoopCheck
    PROVE  Service!Exit \/ UNCHANGED Service!vars
<1>1. /\ passes = <<>> /\ mode = "loop"
      /\ UNCHANGED <<mem, count, nextId, clock, passes>>
  BY DEF IInv, Modes, LoopCheck
<1>2. CASE Active = {}
  <2>1. mode' = "exit"
    BY <1>2 DEF LoopCheck
  <2>2. Entries(Active) = {} /\ Entries(Active)' = Entries(Active)
    BY <1>1, <1>2 DEF Entries, Active, Cells
  <2>3. /\ (mode = "js") = FALSE /\ (mode = "js")' = FALSE
        /\ (mode = "exit") = FALSE /\ (mode = "exit")' = TRUE
    BY <1>1, <2>1
  <2> QED BY <1>1, <2>2, <2>3 DEF Service!Exit, Service!NoRound
<1>3. CASE Active # {}
  <2>1. mode' = "sleep"
    BY <1>3 DEF LoopCheck
  <2> QED BY <1>1, <2>1, Unseen
<1> QED BY <1>2, <1>3

(* A script comes back to the pass or to the loop. *)
LEMMA ScriptReturnIsReturn ==
    ASSUME ScriptReturn
    PROVE  Service!Return
<1>1. /\ mode = "js" /\ mode' \in {"loop", "run"}
      /\ UNCHANGED <<mem, count, nextId, clock, passes>>
  BY DEF ScriptReturn
<1>2. /\ Entries(Active)' = Entries(Active) /\ Entries(DueCells)' = Entries(DueCells)
      /\ Pass' = Pass
  BY <1>1 DEF Entries, Active, Cells, DueCells, Pass
<1>3. (mode = "js") = TRUE /\ (mode = "js")' = FALSE /\ (mode = "exit")' = (mode = "exit")
  BY <1>1
<1> QED BY <1>1, <1>2, <1>3 DEF Service!Return

LEMMA TickIsTick ==
    ASSUME Tick
    PROVE  Service!Tick
<1>1. /\ mode # "exit" /\ clock' = clock + 1
      /\ UNCHANGED <<mem, count, nextId, mode, passes>>
  BY DEF Tick
<1>2. /\ Entries(Active)' = Entries(Active) /\ Entries(DueCells)' = Entries(DueCells)
      /\ Pass' = Pass
  BY <1>1 DEF Entries, Active, Cells, DueCells, Pass
<1>3. (mode = "exit") = FALSE /\ (mode = "exit")' = FALSE /\ (mode = "js")' = (mode = "js")
  BY <1>1
<1> QED BY <1>1, <1>2, <1>3 DEF Service!Tick

LEMMA InitRefines == Init => Service!Init
<1> SUFFICES ASSUME Init PROVE Service!Init
  OBVIOUS
<1>1. count = 0 /\ nextId - 1 = 0 /\ clock = 0 /\ mode = "js" /\ passes = <<>>
  BY DEF Init
<1>2. Entries(Active) = {}
  BY <1>1 DEF Entries, Active, Cells
<1> QED BY <1>1, <1>2 DEF Service!Init, Service!NoRound

LEMMA StepRefines == IInv /\ [Next]_vars => [Service!Next]_(Service!vars)
<1> SUFFICES ASSUME IInv, [Next]_vars PROVE [Service!Next]_(Service!vars)
  OBVIOUS
<1>1. CASE SleepOver \/ OtherEvent
  BY <1>1, StartIsBegin DEF SleepOver, OtherEvent, IInv, Modes, Service!Next
<1>2. CASE Fire
  BY <1>2, FireIsCall
<1>3. CASE PassEnd
  BY <1>3, PassEndIsEnd DEF Service!Next
<1>4. CASE LoopCheck
  BY <1>4, LoopCheckIsExit DEF Service!Next
<1>5. CASE ScriptReturn
  BY <1>5, ScriptReturnIsReturn DEF Service!Next
<1>6. CASE Tick
  BY <1>6, TickIsTick DEF Service!Next
<1>7. ASSUME NEW d \in Delays, SetTimeout(d) \/ SetInterval(d) PROVE Service!Next
  <2>1. Service!SetTimer(d)
    <3>1. CASE SetTimeout(d)
      BY <3>1, AddIsSet DEF SetTimeout, Service!SetTimer
    <3>2. CASE SetInterval(d)
      <4>1. (IF d > 0 THEN d ELSE 1) \in Delays \cup {0, 1}
        OBVIOUS
      <4> QED BY <3>2, <4>1, AddIsSet DEF SetInterval, Service!SetTimer
    <3> QED BY <1>7, <3>1, <3>2
  <2> QED BY <2>1 DEF Service!Next
<1>8. ASSUME NEW id \in Ids, Clear(id) PROVE Service!Next
  <2>1. id \in 1 .. nextId - 1
    <3>1. id < nextId /\ nextId \in Nat /\ MaxTimers \in Nat
      BY <1>8, Bounds DEF Clear
    <3> QED BY <3>1 DEF Ids
  <2>2. Service!Clear(id)
    BY <1>8, ClearIsClear
  <2> QED BY <2>1, <2>2 DEF Service!Next
<1>9. CASE UNCHANGED vars
  BY <1>9, Unseen DEF vars
<1> QED BY <1>1, <1>2, <1>3, <1>4, <1>5, <1>6, <1>7, <1>8, <1>9
         DEF Next, Loop, Script, Exited

(* The array, its compaction and the positions of xt_timer_run_due behave as a  *)
(* set of timers called round by round, for any number of timers and any delays. *)
THEOREM TimersKeepPromise == SafeSpec => Service!SafeSpec
<1>1. SafeSpec => []IInv
  BY InitInv, Inductive, PTL DEF SafeSpec
<1>2. Init => Service!Init
  BY InitRefines
<1>3. IInv /\ [Next]_vars => [Service!Next]_(Service!vars)
  BY StepRefines
<1> QED BY <1>1, <1>2, <1>3, PTL DEF SafeSpec, Service!SafeSpec
=============================================================================
