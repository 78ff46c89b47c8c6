-------------------------- MODULE CoroutinesProofs --------------------------
(***************************************************************************)
(* The invariants of Coroutines, for any sets of coroutines, any size of   *)
(* the region array and any number of try frames.                          *)
(*                                                                         *)
(* What a switch restores was stored by the one that entered the           *)
(* coroutine, so each invariant of the running stack is extended to all    *)
(* stacks below it.  The parts of the inductive invariant are operators on *)
(* values, which lets one lemma about values serve each switch.            *)
(***************************************************************************)
EXTENDS Coroutines, SequenceTheorems, TLAPS

(* Putting an element in front moves the others up by one. *)
LEMMA Pushed ==
    ASSUME NEW S, NEW s \in Seq(S), NEW e \in S
    PROVE  /\ <<e>> \o s \in Seq(S) /\ <<e>> \o s # <<>>
           /\ Len(s) \in Nat /\ Len(<<e>> \o s) = Len(s) + 1
           /\ DOMAIN s = 1 .. Len(s) /\ DOMAIN (<<e>> \o s) = 1 .. Len(s) + 1
           /\ (<<e>> \o s)[1] = e
           /\ \A i \in 2 .. Len(s) + 1 : (<<e>> \o s)[i] = s[i - 1]
<1> DEFINE t == <<e>>
<1>1. t \in Seq(S) /\ Len(t) = 1 /\ t[1] = e /\ Len(s) \in Nat
  BY LenProperties
<1> QED BY <1>1, ConcatProperties, LenProperties, EmptySeq

(* The tail has the other elements, moved down by one. *)
LEMMA Shortened ==
    ASSUME NEW S, NEW s \in Seq(S), s # <<>>
    PROVE  /\ Len(s) \in Nat /\ Len(s) > 0 /\ DOMAIN s = 1 .. Len(s)
           /\ Head(s) = s[1] /\ s[1] \in S
           /\ Tail(s) \in Seq(S) /\ Len(Tail(s)) = Len(s) - 1
           /\ DOMAIN Tail(s) = 1 .. Len(s) - 1
           /\ \A i \in 1 .. Len(s) - 1 : Tail(s)[i] = s[i + 1]
           /\ Tail(s) = <<>> <=> Len(s) = 1
<1> DEFINE r == Tail(s)
<1>1. r \in Seq(S) /\ Len(r) = Len(s) - 1 /\ Len(s) \in Nat \ {0}
  BY HeadTailProperties, EmptySeq
<1> HIDE DEF r
<1>2. Len(<<>>) = 0 /\ (r # <<>> => Len(r) \in Nat \ {0})
  BY <1>1, EmptySeq
<1>3. r = <<>> <=> Len(s) = 1
  BY <1>1, <1>2
<1> QED BY <1>1, <1>3, HeadTailProperties, LenProperties, ElementOfSeq DEF r
-----------------------------------------------------------------------------
Entry == [co : Coroutine, callerTry : Seq(Stack), previous : Stack]
RegionType == [of : Stack, low : Stack \cup {"all", "unset"}]
States == {"new", "suspended", "entered", "released"}
Actives == [generator : Yielding \cup {Nobody}, async : AsyncFunctions \cup {Nobody}]

\* The stack i switches below the running one, which is at 1.
StackAt(ch, i) == IF i > Len(ch) THEN Main ELSE ch[i].co

(* The coroutines in the chain are the entered ones, each once. *)
ChainFits(ch, st) ==
    /\ \A i, j \in DOMAIN ch : ch[i].co = ch[j].co => i = j
    /\ \A co \in Coroutine : st[co] = "entered" <=> \E i \in DOMAIN ch : ch[i].co = co

OwnFrames(try, stack) == \A i \in DOMAIN try : try[i] = stack

(* Each stack in the chain keeps a try chain of its own frames, and a           *)
(* coroutine's never lacks the boundary.                                        *)
TriesFit(ch, try) ==
    /\ OwnFrames(try, StackAt(ch, 1))
    /\ ch # <<>> => try # <<>>
    /\ \A i \in DOMAIN ch : /\ OwnFrames(ch[i].callerTry, StackAt(ch, i + 1))
                            /\ i < Len(ch) => ch[i].callerTry # <<>>

SavedFit(st, sav) ==
    \A co \in Coroutine : st[co] = "suspended" => sav[co] # <<>> /\ OwnFrames(sav[co], co)

SameOwner(ch, i, j) == Owner(ch[i].co) = Owner(ch[j].co)
PossibleOwner(co) == (IF Owner(co) = "generator" THEN Yielding ELSE AsyncFunctions) \cup {Nobody}

(* The active owner of a kind is the innermost of that kind, and each entry     *)
(* remembers the next one of its kind.                                          *)
OwnersFit(ch, act) ==
    /\ \A j \in DOMAIN ch : (\A i \in 1 .. j - 1 : ~SameOwner(ch, i, j)) =>
                                act[Owner(ch[j].co)] = ch[j].co
    /\ \A i, j \in DOMAIN ch :
           i < j /\ SameOwner(ch, i, j) /\ (\A k \in i + 1 .. j - 1 : ~SameOwner(ch, k, j)) =>
               ch[i].previous = ch[j].co
    /\ \A i \in DOMAIN ch : ch[i].previous \in PossibleOwner(ch[i].co)

(* There is never a region too many.  Unless a push was dropped there is one    *)
(* per live stack, with a bound inside it.                                      *)
RegionsFit(rs, ch, dr) ==
    /\ Len(rs) <= Len(ch) + 1
    /\ rs[1].of = Main
    /\ Len(rs) = 1 /\ MaxStacks > 1 => rs[1].low = "unset"
    /\ ~dr => /\ Len(rs) = Len(ch) + 1
              /\ \A i \in DOMAIN rs : rs[i].of = StackAt(ch, Len(ch) + 2 - i)
              /\ \A i \in 1 .. Len(rs) - 1 : rs[i].low \in {"all", rs[i].of}
              /\ MaxStacks > 1 => rs[Len(rs)].low \in {"all", "unset", StackAt(ch, 1)}

IInv ==
    /\ TypeOK
    /\ ChainFits(chain, state)
    /\ TriesFit(chain, tryTop)
    /\ SavedFit(state, saved)
    /\ OwnersFit(chain, active)
    /\ RegionsFit(regions, chain, dropped)
-----------------------------------------------------------------------------
LEMMA NextOfKind ==
    ASSUME NEW ch \in Seq(Entry), NEW act, OwnersFit(ch, act),
           NEW i \in 1 .. Len(ch), NEW j \in 1 .. Len(ch), i < j, SameOwner(ch, i, j),
           \A k \in i + 1 .. j - 1 : ~SameOwner(ch, k, j)
    PROVE  ch[i].previous = ch[j].co
<1>1. DOMAIN ch = 1 .. Len(ch)
  BY LenProperties
<1> QED BY <1>1 DEF OwnersFit

(* The owners after a coroutine is entered, and after the running one is left.  *)
LEMMA OwnersEntered ==
    ASSUME NEW ch \in Seq(Entry), NEW act \in Actives, OwnersFit(ch, act),
           NEW e \in Entry, e.previous = act[Owner(e.co)]
    PROVE  OwnersFit(<<e>> \o ch, [act EXCEPT ![Owner(e.co)] = e.co])
<1> DEFINE new == <<e>> \o ch
           n == Len(ch)
           after == [act EXCEPT ![Owner(e.co)] = e.co]
<1>1. /\ n \in Nat /\ DOMAIN ch = 1 .. n /\ DOMAIN new = 1 .. n + 1
      /\ new[1] = e /\ \A i \in 2 .. n + 1 : new[i] = ch[i - 1]
  BY Pushed
<1>2. /\ \A co \in Coroutine : Owner(co) \in {"generator", "async"}
      /\ after[Owner(e.co)] = e.co
      /\ \A o \in {"generator", "async"} : o # Owner(e.co) => after[o] = act[o]
  BY DEF Owner, Actives
<1> HIDE DEF new, n, after
<1>4. ASSUME NEW j \in 1 .. n + 1, \A i \in 1 .. j - 1 : ~SameOwner(new, i, j)
      PROVE  after[Owner(new[j].co)] = new[j].co
  <2>1. CASE j = 1
    BY <1>1, <1>2, <2>1
  <2>2. CASE j # 1
    <3>1. j - 1 \in 1 .. n /\ new[j] = ch[j - 1] /\ 1 \in 1 .. j - 1
      BY <1>1, <2>2
    <3>2. Owner(e.co) # Owner(ch[j - 1].co)
      BY <1>1, <1>4, <3>1 DEF SameOwner
    <3>3. \A i \in 1 .. (j - 1) - 1 : ~SameOwner(ch, i, j - 1)
      <4>1. \A i \in 1 .. (j - 1) - 1 : i + 1 \in 1 .. j - 1 /\ new[i + 1] = ch[i]
        BY <1>1
      <4> QED BY <1>4, <3>1, <4>1 DEF SameOwner
    <3>4. act[Owner(ch[j - 1].co)] = ch[j - 1].co
      BY <1>1, <3>1, <3>3 DEF OwnersFit
    <3>5. Owner(ch[j - 1].co) \in {"generator", "async"}
      BY DEF Owner
    <3> QED BY <1>2, <3>1, <3>2, <3>4, <3>5
  <2> QED BY <2>1, <2>2
<1>5. ASSUME NEW i \in 1 .. n + 1, NEW j \in 1 .. n + 1, i < j, SameOwner(new, i, j),
             \A k \in i + 1 .. j - 1 : ~SameOwner(new, k, j)
      PROVE  new[i].previous = new[j].co
  <2>0. j - 1 \in 1 .. n /\ new[j] = ch[j - 1]
    BY <1>1, <1>5
  <2>1. CASE i = 1
    <3>1. \A k \in 1 .. (j - 1) - 1 : ~SameOwner(ch, k, j - 1)
      <4>1. \A k \in 1 .. (j - 1) - 1 : k + 1 \in i + 1 .. j - 1 /\ new[k + 1] = ch[k]
        BY <1>1, <2>1
      <4> QED BY <1>5, <2>0, <4>1 DEF SameOwner
    <3>2. act[Owner(ch[j - 1].co)] = ch[j - 1].co
      BY <1>1, <2>0, <3>1 DEF OwnersFit
    <3> QED BY <1>1, <1>5, <2>0, <2>1, <3>2 DEF SameOwner
  <2>2. CASE i # 1
    <3>1. i - 1 \in 1 .. n /\ new[i] = ch[i - 1] /\ i - 1 < j - 1
      BY <1>1, <1>5, <2>2
    <3>2. \A k \in (i - 1) + 1 .. (j - 1) - 1 : ~SameOwner(ch, k, j - 1)
      <4>1. \A k \in (i - 1) + 1 .. (j - 1) - 1 : k + 1 \in i + 1 .. j - 1 /\ new[k + 1] = ch[k]
        BY <1>1, <3>1
      <4> QED BY <1>5, <2>0, <4>1 DEF SameOwner
    <3>3. SameOwner(ch, i - 1, j - 1)
      BY <1>5, <2>0, <3>1 DEF SameOwner
    <3>4. i - 1 \in 1 .. Len(ch) /\ j - 1 \in 1 .. Len(ch) /\ ch \in Seq(Entry)
      BY <2>0, <3>1 DEF n
    <3>5. ch[i - 1].previous = ch[j - 1].co
      BY <3>1, <3>2, <3>3, <3>4, NextOfKind
    <3> QED BY <2>0, <3>1, <3>5
  <2> QED BY <2>1, <2>2
<1>6. ASSUME NEW i \in 1 .. n + 1
      PROVE  new[i].previous \in PossibleOwner(new[i].co)
  <2>1. act[Owner(e.co)] \in PossibleOwner(e.co)
    BY DEF Owner, Actives, PossibleOwner
  <2>2. CASE i = 1
    BY <1>1, <2>1, <2>2
  <2>3. CASE i # 1
    BY <1>1, <2>3 DEF OwnersFit
  <2> QED BY <2>2, <2>3
<1>7. OwnersFit(new, after)
  BY <1>1, <1>4, <1>5, <1>6 DEF OwnersFit
<1> QED BY <1>7 DEF new, after

LEMMA OwnersLeft ==
    ASSUME NEW ch \in Seq(Entry), NEW act \in Actives, OwnersFit(ch, act), ch # <<>>
    PROVE  /\ OwnersFit(Tail(ch), [act EXCEPT ![Owner(ch[1].co)] = ch[1].previous])
           /\ [act EXCEPT ![Owner(ch[1].co)] = ch[1].previous] \in Actives
<1> DEFINE rest == Tail(ch)
           n == Len(ch)
           after == [act EXCEPT ![Owner(ch[1].co)] = ch[1].previous]
<1>1. /\ n \in Nat /\ n > 0 /\ DOMAIN ch = 1 .. n /\ DOMAIN rest = 1 .. n - 1
      /\ \A i \in 1 .. n - 1 : rest[i] = ch[i + 1]
  BY Shortened
<1>2. /\ after[Owner(ch[1].co)] = ch[1].previous
      /\ \A o \in {"generator", "async"} : o # Owner(ch[1].co) => after[o] = act[o]
  BY DEF Owner, Actives
<1>3. after \in Actives
  <2>1. ch[1].previous \in PossibleOwner(ch[1].co)
    BY <1>1 DEF OwnersFit
  <2>2. CASE ch[1].co \in Yielding
    BY <2>1, <2>2 DEF PossibleOwner, Owner, Actives
  <2>3. CASE ch[1].co \notin Yielding
    BY <2>1, <2>3 DEF PossibleOwner, Owner, Actives
  <2> QED BY <2>2, <2>3
<1> HIDE DEF rest, n, after
<1>4. ASSUME NEW j \in 1 .. n - 1, \A i \in 1 .. j - 1 : ~SameOwner(rest, i, j)
      PROVE  after[Owner(rest[j].co)] = rest[j].co
  <2>1. j + 1 \in 1 .. n /\ rest[j] = ch[j + 1] /\ 1 < j + 1 /\ 1 \in 1 .. n
    BY <1>1
  <2>2. \A i \in 1 + 1 .. (j + 1) - 1 : ~SameOwner(ch, i, j + 1)
    <3>1. \A i \in 1 + 1 .. (j + 1) - 1 : i - 1 \in 1 .. j - 1 /\ rest[i - 1] = ch[i]
      BY <1>1
    <3> QED BY <1>4, <2>1, <3>1 DEF SameOwner
  <2>3. CASE SameOwner(ch, 1, j + 1)
    <3>0. 1 \in 1 .. Len(ch) /\ j + 1 \in 1 .. Len(ch) /\ ch \in Seq(Entry)
      BY <2>1 DEF n
    <3>1. ch[1].previous = ch[j + 1].co
      BY <2>1, <2>2, <2>3, <3>0, NextOfKind
    <3> QED BY <1>2, <2>1, <2>3, <3>1 DEF SameOwner
  <2>4. CASE ~SameOwner(ch, 1, j + 1)
    <3>1. \A i \in 1 .. (j + 1) - 1 : ~SameOwner(ch, i, j + 1)
      BY <2>2, <2>4
    <3>2. act[Owner(ch[j + 1].co)] = ch[j + 1].co
      BY <1>1, <2>1, <3>1 DEF OwnersFit
    <3>3. Owner(ch[j + 1].co) \in {"generator", "async"}
      BY DEF Owner
    <3> QED BY <1>2, <2>1, <2>4, <3>2, <3>3 DEF SameOwner
  <2> QED BY <2>3, <2>4
<1>5. ASSUME NEW i \in 1 .. n - 1, NEW j \in 1 .. n - 1, i < j, SameOwner(rest, i, j),
             \A k \in i + 1 .. j - 1 : ~SameOwner(rest, k, j)
      PROVE  rest[i].previous = rest[j].co
  <2>1. /\ i + 1 \in 1 .. n /\ rest[i] = ch[i + 1] /\ j + 1 \in 1 .. n /\ rest[j] = ch[j + 1]
        /\ i + 1 < j + 1
    BY <1>1, <1>5
  <2>2. \A k \in (i + 1) + 1 .. (j + 1) - 1 : ~SameOwner(ch, k, j + 1)
    <3>1. \A k \in (i + 1) + 1 .. (j + 1) - 1 : k - 1 \in i + 1 .. j - 1 /\ rest[k - 1] = ch[k]
      BY <1>1
    <3> QED BY <1>5, <2>1, <3>1 DEF SameOwner
  <2>3. SameOwner(ch, i + 1, j + 1)
    BY <1>5, <2>1 DEF SameOwner
  <2>4. i + 1 \in 1 .. Len(ch) /\ j + 1 \in 1 .. Len(ch) /\ ch \in Seq(Entry)
    BY <2>1 DEF n
  <2>5. ch[i + 1].previous = ch[j + 1].co
    BY <2>1, <2>2, <2>3, <2>4, NextOfKind
  <2> QED BY <2>1, <2>5
<1>6. \A i \in 1 .. n - 1 : rest[i].previous \in PossibleOwner(rest[i].co)
  <2>1. \A i \in 1 .. n - 1 : i + 1 \in 1 .. n /\ rest[i] = ch[i + 1]
    BY <1>1
  <2> QED BY <1>1, <2>1 DEF OwnersFit
<1>7. OwnersFit(rest, after)
  BY <1>1, <1>4, <1>5, <1>6 DEF OwnersFit
<1> QED BY <1>3, <1>7 DEF rest, after
-----------------------------------------------------------------------------
(* The stacks after a coroutine is entered, and after the running one is left.  *)
LEMMA StacksEntered ==
    ASSUME NEW ch \in Seq(Entry), NEW e \in Entry
    PROVE  /\ StackAt(<<e>> \o ch, 1) = e.co
           /\ \A i \in 2 .. Len(ch) + 2 : StackAt(<<e>> \o ch, i) = StackAt(ch, i - 1)
<1> DEFINE new == <<e>> \o ch
           n == Len(ch)
<1>1. /\ n \in Nat /\ Len(new) = n + 1 /\ new[1] = e
      /\ \A i \in 2 .. n + 1 : new[i] = ch[i - 1]
  BY Pushed
<1> HIDE DEF new
<1> QED BY <1>1 DEF StackAt, new

LEMMA StacksLeft ==
    ASSUME NEW ch \in Seq(Entry), ch # <<>>
    PROVE  \A i \in 1 .. Len(ch) : StackAt(Tail(ch), i) = StackAt(ch, i + 1)
  BY Shortened DEF StackAt

LEMMA ChainEntered ==
    ASSUME NEW ch \in Seq(Entry), NEW st \in [Coroutine -> States], ChainFits(ch, st),
           NEW e \in Entry, st[e.co] # "entered"
    PROVE  ChainFits(<<e>> \o ch, [st EXCEPT ![e.co] = "entered"])
<1> DEFINE new == <<e>> \o ch
           n == Len(ch)
           after == [st EXCEPT ![e.co] = "entered"]
<1>1. /\ n \in Nat /\ DOMAIN ch = 1 .. n /\ DOMAIN new = 1 .. n + 1
      /\ new[1] = e /\ \A i \in 2 .. n + 1 : new[i] = ch[i - 1]
  BY Pushed
<1>2. e.co \in Coroutine
  BY DEF Entry
<1>3. \A co \in Coroutine : after[co] = IF co = e.co THEN "entered" ELSE st[co]
  BY <1>2
<1> HIDE DEF new, n, after
<1>4. \A i \in 1 .. n : i + 1 \in 1 .. n + 1 /\ new[i + 1] = ch[i]
  BY <1>1
<1>5. \A i \in 1 .. n : ch[i].co # e.co
  BY <1>1, <1>2 DEF ChainFits
<1>6. \A i, j \in 1 .. n : ch[i].co = ch[j].co => i = j
  BY <1>1 DEF ChainFits
<1>7. ASSUME NEW i \in 1 .. n + 1, NEW j \in 1 .. n + 1, new[i].co = new[j].co
      PROVE  i = j
  <2>1. CASE i = 1 /\ j = 1
    BY <2>1
  <2>2. CASE i = 1 /\ j # 1
    <3>1. j - 1 \in 1 .. n /\ new[j] = ch[j - 1]
      BY <1>1, <2>2
    <3> QED BY <1>1, <1>5, <1>7, <2>2, <3>1
  <2>3. CASE i # 1 /\ j = 1
    <3>1. i - 1 \in 1 .. n /\ new[i] = ch[i - 1]
      BY <1>1, <2>3
    <3> QED BY <1>1, <1>5, <1>7, <2>3, <3>1
  <2>4. CASE i # 1 /\ j # 1
    <3>1. i - 1 \in 1 .. n /\ new[i] = ch[i - 1] /\ j - 1 \in 1 .. n /\ new[j] = ch[j - 1]
      BY <1>1, <2>4
    <3>2. i - 1 = j - 1
      BY <1>6, <1>7, <3>1
    <3> QED BY <3>2
  <2> QED BY <2>1, <2>2, <2>3, <2>4
<1>8. ASSUME NEW co \in Coroutine
      PROVE  after[co] = "entered" <=> \E i \in 1 .. n + 1 : new[i].co = co
  <2>1. CASE co = e.co
    <3>1. 1 \in 1 .. n + 1 /\ new[1].co = co
      BY <1>1, <2>1
    <3> QED BY <1>3, <2>1, <3>1
  <2>2. CASE co # e.co
    <3>1. (\E i \in 1 .. n : ch[i].co = co) <=> \E i \in 1 .. n + 1 : new[i].co = co
      <4>1. ASSUME NEW i \in 1 .. n + 1, new[i].co = co
            PROVE  \E k \in 1 .. n : ch[k].co = co
        <5>1. i # 1
          BY <1>1, <2>2, <4>1
        <5>2. i - 1 \in 1 .. n /\ new[i] = ch[i - 1]
          BY <1>1, <5>1
        <5> QED BY <4>1, <5>2
      <4> QED BY <1>4, <4>1
    <3>2. st[co] = "entered" <=> \E i \in 1 .. n : ch[i].co = co
      BY <1>1 DEF ChainFits
    <3> QED BY <1>3, <2>2, <3>1, <3>2
  <2> QED BY <2>1, <2>2
<1>9. ChainFits(new, after)
  BY <1>1, <1>7, <1>8 DEF ChainFits
<1> QED BY <1>9 DEF new, after

LEMMA ChainLeft ==
    ASSUME NEW ch \in Seq(Entry), NEW st \in [Coroutine -> States], ChainFits(ch, st),
           ch # <<>>, NEW next \in States, next # "entered"
    PROVE  ChainFits(Tail(ch), [st EXCEPT ![ch[1].co] = next])
<1> DEFINE rest == Tail(ch)
           n == Len(ch)
           after == [st EXCEPT ![ch[1].co] = next]
<1>1. /\ n \in Nat /\ n > 0 /\ DOMAIN ch = 1 .. n /\ DOMAIN rest = 1 .. n - 1
      /\ \A i \in 1 .. n - 1 : rest[i] = ch[i + 1]
  BY Shortened
<1>0. ch[1].co \in Coroutine
  <2>1. ch[1] \in Entry
    BY Shortened
  <2> QED BY <2>1 DEF Entry
<1>2. \A co \in Coroutine : after[co] = IF co = ch[1].co THEN next ELSE st[co]
  BY <1>0
<1> HIDE DEF rest, n, after
<1>3. \A i, j \in 1 .. n : ch[i].co = ch[j].co => i = j
  BY <1>1 DEF ChainFits
<1>4. \A i \in 1 .. n - 1 : i + 1 \in 1 .. n /\ i + 1 # 1 /\ rest[i] = ch[i + 1] /\ 1 \in 1 .. n
  BY <1>1
<1>5. ASSUME NEW i \in 1 .. n - 1, NEW j \in 1 .. n - 1, rest[i].co = rest[j].co
      PROVE  i = j
  <2>1. i + 1 = j + 1
    BY <1>3, <1>4, <1>5
  <2> QED BY <2>1
<1>6. ASSUME NEW co \in Coroutine
      PROVE  after[co] = "entered" <=> \E i \in 1 .. n - 1 : rest[i].co = co
  <2>1. CASE co = ch[1].co
    <3>1. \A i \in 1 .. n - 1 : rest[i].co # co
      BY <1>3, <1>4, <2>1
    <3> QED BY <1>2, <2>1, <3>1
  <2>2. CASE co # ch[1].co
    <3>1. ASSUME NEW i \in 1 .. n, ch[i].co = co
          PROVE  \E k \in 1 .. n - 1 : rest[k].co = co
      <4>1. i - 1 \in 1 .. n - 1 /\ rest[i - 1] = ch[i]
        BY <1>1, <2>2, <3>1
      <4> QED BY <3>1, <4>1
    <3>2. (\E i \in 1 .. n : ch[i].co = co) <=> \E i \in 1 .. n - 1 : rest[i].co = co
      BY <1>4, <3>1
    <3>3. st[co] = "entered" <=> \E i \in 1 .. n : ch[i].co = co
      BY <1>1 DEF ChainFits
    <3> QED BY <1>2, <2>2, <3>2, <3>3
  <2> QED BY <2>1, <2>2
<1>7. ChainFits(rest, after)
  BY <1>1, <1>5, <1>6 DEF ChainFits
<1> QED BY <1>7 DEF rest, after

LEMMA TriesEntered ==
    ASSUME NEW ch \in Seq(Entry), NEW try \in Seq(Stack), TriesFit(ch, try),
           NEW e \in Entry, e.callerTry = try,
           NEW new \in Seq(Stack), new # <<>>, OwnFrames(new, e.co)
    PROVE  TriesFit(<<e>> \o ch, new)
<1> DEFINE longer == <<e>> \o ch
           n == Len(ch)
<1>1. /\ n \in Nat /\ Len(longer) = n + 1 /\ DOMAIN ch = 1 .. n /\ DOMAIN longer = 1 .. n + 1
      /\ longer[1] = e /\ \A i \in 2 .. n + 1 : longer[i] = ch[i - 1]
  BY Pushed
<1>2. /\ StackAt(longer, 1) = e.co
      /\ \A i \in 2 .. n + 2 : StackAt(longer, i) = StackAt(ch, i - 1)
  BY StacksEntered
<1>3. n > 0 => ch # <<>>
  BY EmptySeq
<1> HIDE DEF longer, n
<1>4. ASSUME NEW i \in 1 .. n + 1
      PROVE  /\ OwnFrames(longer[i].callerTry, StackAt(longer, i + 1))
             /\ i < n + 1 => longer[i].callerTry # <<>>
  <2>1. CASE i = 1
    <3>1. StackAt(longer, i + 1) = StackAt(ch, 1) /\ longer[i].callerTry = try
      BY <1>1, <1>2, <2>1
    <3>2. i < n + 1 => ch # <<>>
      BY <1>1, <1>3, <2>1
    <3> QED BY <3>1, <3>2 DEF TriesFit
  <2>2. CASE i # 1
    <3>1. /\ i - 1 \in 1 .. n /\ longer[i] = ch[i - 1] /\ i + 1 \in 2 .. n + 2
          /\ (i - 1) + 1 = (i + 1) - 1 /\ i < n + 1 => i - 1 < n
      BY <1>1, <2>2
    <3>2. StackAt(longer, i + 1) = StackAt(ch, (i - 1) + 1)
      BY <1>2, <3>1
    <3>3. /\ OwnFrames(ch[i - 1].callerTry, StackAt(ch, (i - 1) + 1))
          /\ i - 1 < n => ch[i - 1].callerTry # <<>>
      BY <1>1, <3>1 DEF TriesFit, n
    <3> QED BY <1>1, <2>2, <3>1, <3>2, <3>3
  <2> QED BY <2>1, <2>2
<1>5. TriesFit(longer, new)
  BY <1>1, <1>2, <1>4 DEF TriesFit
<1> QED BY <1>5 DEF longer

LEMMA TriesLeft ==
    ASSUME NEW ch \in Seq(Entry), NEW try, TriesFit(ch, try), ch # <<>>
    PROVE  TriesFit(Tail(ch), ch[1].callerTry)
<1> DEFINE rest == Tail(ch)
           n == Len(ch)
<1>1. /\ n \in Nat /\ n > 0 /\ DOMAIN ch = 1 .. n /\ DOMAIN rest = 1 .. n - 1
      /\ Len(rest) = n - 1 /\ \A i \in 1 .. n - 1 : rest[i] = ch[i + 1]
      /\ rest = <<>> <=> n = 1
  BY Shortened
<1>2. \A i \in 1 .. n : StackAt(rest, i) = StackAt(ch, i + 1)
  BY StacksLeft
<1> HIDE DEF rest, n
<1>3. \A i \in 1 .. n : /\ OwnFrames(ch[i].callerTry, StackAt(ch, i + 1))
                        /\ i < n => ch[i].callerTry # <<>>
  BY <1>1 DEF TriesFit, n
<1>4. 1 \in 1 .. n
  BY <1>1
<1>5. OwnFrames(ch[1].callerTry, StackAt(rest, 1))
  BY <1>2, <1>3, <1>4
<1>6. rest # <<>> => ch[1].callerTry # <<>>
  BY <1>1, <1>3, <1>4
<1>7. ASSUME NEW i \in 1 .. n - 1
      PROVE  /\ OwnFrames(rest[i].callerTry, StackAt(rest, i + 1))
             /\ i < n - 1 => rest[i].callerTry # <<>>
  <2>1. i \in 1 .. n /\ i + 1 \in 1 .. n /\ rest[i] = ch[i + 1] /\ (i < n - 1 => i + 1 < n)
    BY <1>1
  <2>2. /\ OwnFrames(ch[i + 1].callerTry, StackAt(ch, i + 1 + 1))
        /\ i + 1 < n => ch[i + 1].callerTry # <<>>
    BY <1>3, <2>1
  <2>3. StackAt(rest, i + 1) = StackAt(ch, i + 1 + 1)
    BY <1>2, <2>1
  <2> QED BY <2>1, <2>2, <2>3
<1>8. TriesFit(rest, ch[1].callerTry)
  <2>1. \A i \in DOMAIN rest : /\ OwnFrames(rest[i].callerTry, StackAt(rest, i + 1))
                               /\ i < Len(rest) => rest[i].callerTry # <<>>
    BY <1>1, <1>7
  <2> QED BY <1>5, <1>6, <2>1 DEF TriesFit
<1> QED BY <1>8 DEF rest
-----------------------------------------------------------------------------
(* A new bound for the top region changes nothing else. *)
Bounded(rs, low) == [rs EXCEPT ![Len(rs)].low = low]

LEMMA BoundSet ==
    ASSUME NEW rs \in Seq(RegionType), Len(rs) > 0, NEW low \in Stack \cup {"all", "unset"}
    PROVE  LET q == Bounded(rs, low)
               n == Len(rs)
           IN  /\ n \in Nat /\ DOMAIN rs = 1 .. n /\ DOMAIN q = 1 .. n
               /\ q \in Seq(RegionType) /\ Len(q) = n
               /\ q[n].low = low
               /\ \A i \in 1 .. n : q[i].of = rs[i].of
               /\ \A i \in 1 .. n - 1 : q[i] = rs[i]
<1> DEFINE n == Len(rs)
           top == [rs[n] EXCEPT !.low = low]
           q == [rs EXCEPT ![n] = top]
<1>1. n \in Nat /\ n > 0 /\ DOMAIN rs = 1 .. n /\ n \in 1 .. n
  BY LenProperties
<1>2. rs[n] \in RegionType
  BY <1>1, ElementOfSeq
<1>3. top \in RegionType /\ top.of = rs[n].of /\ top.low = low
  BY <1>2 DEF RegionType
<1>4. Bounded(rs, low) = q
  BY <1>2 DEF RegionType, Bounded
<1> HIDE DEF top
<1>5. /\ q \in Seq(RegionType) /\ Len(q) = n
      /\ \A i \in 1 .. n : q[i] = IF i = n THEN top ELSE rs[i]
  BY <1>1, <1>3, ExceptSeq
<1> HIDE DEF q
<1>6. DOMAIN q = 1 .. n
  BY <1>5, LenProperties
<1> HIDE DEF n
<1>7. q[n].low = low /\ \A i \in 1 .. n : q[i].of = rs[i].of
  BY <1>1, <1>3, <1>5
<1>8. \A i \in 1 .. n - 1 : q[i] = rs[i]
  <2>1. \A i \in 1 .. n - 1 : i \in 1 .. n /\ i # n
    BY <1>1
  <2> QED BY <1>5, <2>1
<1> QED BY <1>1, <1>4, <1>5, <1>6, <1>7, <1>8 DEF n

(* The bounds xt_gc_suspend may leave, as an operator on values. *)
BoundsOf(top, stack) ==
    IF top.low = "unset" THEN {stack}
    ELSE IF top.of = stack /\ top.low \in {"all", stack} THEN {top.low}
    ELSE {top.low, stack}

LEMMA RegionsEntered ==
    ASSUME NEW ch \in Seq(Entry), NEW rs \in Seq(RegionType), Len(rs) \in 1 .. MaxStacks,
           NEW dr \in BOOLEAN, RegionsFit(rs, ch, dr), NEW e \in Entry,
           NEW low \in BoundsOf(rs[Len(rs)], StackAt(ch, 1))
    PROVE  LET after == Push(Bounded(rs, low), e.co)
           IN  /\ after \in Seq(RegionType) /\ Len(after) \in 1 .. MaxStacks
               /\ RegionsFit(after, <<e>> \o ch, dr \/ Len(rs) >= MaxStacks)
<1> DEFINE n == Len(rs)
           m == Len(ch)
           q == Bounded(rs, low)
           longer == <<e>> \o ch
           r == Region(e.co)
           full == n >= MaxStacks
           after == IF full THEN q ELSE Append(q, r)
           dr1 == dr \/ full
           Goal == /\ after \in Seq(RegionType) /\ Len(after) \in 1 .. MaxStacks
                   /\ RegionsFit(after, longer, dr1)
<1>1. /\ n \in Nat /\ n > 0 /\ MaxStacks \in Nat /\ n <= MaxStacks /\ DOMAIN rs = 1 .. n
      /\ m \in Nat /\ e.co \in Stack /\ \A i \in Nat \ {0} : StackAt(ch, i) \in Stack
  <2>1. \A i \in 1 .. m : ch[i] \in Entry
    BY ElementOfSeq
  <2>2. n \in Nat /\ m \in Nat /\ DOMAIN rs = 1 .. n
    BY LenProperties
  <2>3. Main \in Stack /\ \A f \in Entry : f.co \in Stack
    BY DEF Entry, Stack
  <2>4. MaxStacks \in Nat /\ n > 0 /\ n <= MaxStacks
    BY <2>2, CoroutinesAssumption
  <2>5. \A i \in Nat \ {0} : StackAt(ch, i) \in Stack
    BY <2>1, <2>2, <2>3 DEF StackAt
  <2> QED BY <2>2, <2>3, <2>4, <2>5
<1>2. rs[n] \in RegionType
  BY <1>1, ElementOfSeq
<1>3. low \in Stack \cup {"all", "unset"}
  BY <1>1, <1>2 DEF BoundsOf, RegionType
<1>4. /\ DOMAIN q = 1 .. n /\ q \in Seq(RegionType) /\ Len(q) = n /\ q[n].low = low
      /\ \A i \in 1 .. n : q[i].of = rs[i].of
      /\ \A i \in 1 .. n - 1 : q[i] = rs[i]
  BY <1>1, <1>3, BoundSet
<1>5. r \in RegionType /\ r.of = e.co /\ r.low = "all"
  BY <1>1 DEF Region, RegionType
<1>6. Len(longer) = m + 1
  BY Pushed
<1>7. /\ StackAt(longer, 1) = e.co
      /\ \A i \in 2 .. m + 2 : StackAt(longer, i) = StackAt(ch, i - 1)
  BY StacksEntered
<1> HIDE DEF q, longer, r, n, m
<1>8. /\ n <= m + 1 /\ rs[1].of = Main
      /\ ~dr => /\ n = m + 1
                /\ \A i \in 1 .. n : rs[i].of = StackAt(ch, m + 2 - i)
                /\ \A i \in 1 .. n - 1 : rs[i].low \in {"all", rs[i].of}
                /\ MaxStacks > 1 => rs[n].low \in {"all", "unset", StackAt(ch, 1)}
  BY <1>1 DEF RegionsFit, n, m
<1>9. ASSUME full PROVE Goal
  <2>1. after \in Seq(RegionType) /\ Len(after) \in 1 .. MaxStacks
    BY <1>1, <1>4, <1>9
  <2>2. Len(after) <= Len(longer) + 1
    BY <1>1, <1>4, <1>6, <1>8, <1>9
  <2>3. after[1].of = Main
    BY <1>1, <1>4, <1>8, <1>9
  <2>4. ~(Len(after) = 1 /\ MaxStacks > 1)
    BY <1>1, <1>4, <1>9
  <2>5. dr1
    BY <1>9
  <2> HIDE DEF after, dr1
  <2> QED BY <2>1, <2>2, <2>3, <2>4, <2>5 DEF RegionsFit
<1>10. ASSUME ~full PROVE Goal
  <2>1. /\ after \in Seq(RegionType) /\ Len(after) = n + 1 /\ DOMAIN after = 1 .. n + 1
        /\ \A i \in 1 .. n : after[i] = q[i]
        /\ after[n + 1] = r
    BY <1>1, <1>4, <1>5, <1>10, AppendProperties, LenProperties
  <2>2. Len(after) \in 1 .. MaxStacks /\ MaxStacks > 1
    BY <1>1, <1>10, <2>1
  <2>3. dr1 = dr
    BY <1>10
  <2> HIDE DEF after, dr1
  <2>4. Len(after) <= Len(longer) + 1 /\ after[1].of = Main /\ Len(after) # 1
    BY <1>1, <1>4, <1>6, <1>8, <2>1
  <2>5. ASSUME ~dr
        PROVE  /\ Len(after) = Len(longer) + 1
               /\ \A i \in 1 .. n + 1 : after[i].of = StackAt(longer, Len(longer) + 2 - i)
               /\ \A i \in 1 .. n : after[i].low \in {"all", after[i].of}
               /\ after[n + 1].low = "all"
    <3>1. /\ n = m + 1 /\ rs[n].low \in {"all", "unset", StackAt(ch, 1)}
          /\ rs[n].of = StackAt(ch, 1)
      <4>0. n = m + 1
        BY <1>8, <2>5
      <4>1. n = m + 1 /\ n \in 1 .. n /\ m + 2 - n = 1
        BY <1>1, <4>0
      <4> QED BY <1>8, <2>2, <2>5, <4>1
    <3>2. low \in {"all", StackAt(ch, 1)}
      BY <3>1 DEF BoundsOf, n
    <3>3. ASSUME NEW i \in 1 .. n + 1 PROVE after[i].of = StackAt(longer, m + 3 - i)
      <4>1. CASE i = n + 1
        <5>1. m + 3 - i = 1
          BY <1>1, <3>1, <4>1
        <5> QED BY <1>5, <1>7, <2>1, <4>1, <5>1
      <4>2. CASE i # n + 1
        <5>1. i \in 1 .. n /\ m + 3 - i \in 2 .. m + 2 /\ (m + 3 - i) - 1 = m + 2 - i
          BY <1>1, <3>1, <4>2
        <5>2. StackAt(longer, m + 3 - i) = StackAt(ch, m + 2 - i)
          BY <1>7, <5>1
        <5> QED BY <1>4, <1>8, <2>1, <2>5, <5>1, <5>2
      <4> QED BY <4>1, <4>2
    <3>4. ASSUME NEW i \in 1 .. n PROVE after[i].low \in {"all", after[i].of}
      <4>1. CASE i = n
        BY <1>1, <1>4, <2>1, <3>1, <3>2, <4>1
      <4>2. CASE i # n
        <5>1. i \in 1 .. n - 1
          BY <1>1, <4>2
        <5> QED BY <1>4, <1>8, <2>1, <2>5, <5>1
      <4> QED BY <4>1, <4>2
    <3>5. \A i \in 1 .. n + 1 : Len(longer) + 2 - i = m + 3 - i
      BY <1>1, <1>6
    <3> QED BY <1>5, <1>6, <2>1, <3>1, <3>3, <3>4, <3>5
  <2>6. RegionsFit(after, longer, dr)
    <3>1. DOMAIN after = 1 .. n + 1 /\ 1 .. Len(after) - 1 = 1 .. n /\ after[Len(after)] = after[n + 1]
      BY <1>1, <2>1
    <3> QED BY <2>4, <2>5, <3>1 DEF RegionsFit
  <2> QED BY <2>1, <2>2, <2>3, <2>6
<1>11. Push(Bounded(rs, low), e.co) = after
  BY <1>4 DEF Push, q, n, r
<1> HIDE DEF after, dr1
<1>12. /\ after \in Seq(RegionType) /\ Len(after) \in 1 .. MaxStacks
       /\ RegionsFit(after, longer, dr1)
  BY <1>9, <1>10
<1> QED BY <1>11, <1>12 DEF longer, dr1, n

PoppedOf(rs) == IF Len(rs) <= 1 THEN rs ELSE Bounded(Front(rs), "unset")

LEMMA RegionsLeft ==
    ASSUME NEW ch \in Seq(Entry), NEW rs \in Seq(RegionType), Len(rs) \in 1 .. MaxStacks,
           NEW dr \in BOOLEAN, RegionsFit(rs, ch, dr), ch # <<>>
    PROVE  /\ PoppedOf(rs) \in Seq(RegionType) /\ Len(PoppedOf(rs)) \in 1 .. MaxStacks
           /\ RegionsFit(PoppedOf(rs), Tail(ch), dr /\ Len(ch) > 1)
<1> DEFINE n == Len(rs)
           m == Len(ch)
           q == Front(rs)
           after == PoppedOf(rs)
           rest == Tail(ch)
           dr1 == dr /\ m > 1
<1>1. /\ n \in Nat /\ n > 0 /\ DOMAIN rs = 1 .. n /\ n <= MaxStacks /\ MaxStacks \in Nat
      /\ m \in Nat /\ m > 0 /\ Len(rest) = m - 1
      /\ \A i \in 1 .. m : StackAt(rest, i) = StackAt(ch, i + 1)
  <2>1. n \in Nat /\ n > 0 /\ DOMAIN rs = 1 .. n /\ n <= MaxStacks /\ MaxStacks \in Nat
    BY LenProperties, CoroutinesAssumption
  <2>2. m \in Nat /\ m > 0 /\ Len(rest) = m - 1
    BY Shortened
  <2>3. \A i \in 1 .. m : StackAt(rest, i) = StackAt(ch, i + 1)
    BY StacksLeft
  <2> QED BY <2>1, <2>2, <2>3
<1>2. /\ n <= m + 1 /\ rs[1].of = Main
      /\ n = 1 /\ MaxStacks > 1 => rs[1].low = "unset"
      /\ ~dr => /\ n = m + 1
                /\ \A i \in 1 .. n : rs[i].of = StackAt(ch, m + 2 - i)
                /\ \A i \in 1 .. n - 1 : rs[i].low \in {"all", rs[i].of}
  BY <1>1 DEF RegionsFit
<1>3. m = 1 => \A i \in Nat \ {0} : StackAt(rest, i) = Main
  <2> HIDE DEF rest, m
  <2> QED BY <1>1 DEF StackAt
<1>4. ASSUME n = 1
      PROVE  /\ after \in Seq(RegionType) /\ Len(after) \in 1 .. MaxStacks
             /\ RegionsFit(after, rest, dr1)
  <2>1. after = rs
    BY <1>4 DEF PoppedOf
  <2> HIDE DEF after, rest, n, m, dr1
  <2>2. Len(after) = 1 /\ DOMAIN after = 1 .. 1
    BY <1>1, <1>4, <2>1 DEF n
  <2>3. ~dr1 => m = 1
    BY <1>1, <1>2, <1>4 DEF dr1
  <2>4. m = 1 => Len(rest) = 0 /\ StackAt(rest, 1) = Main
    BY <1>1, <1>3
  <2>5. RegionsFit(after, rest, dr1)
    <3>1. Len(after) <= Len(rest) + 1
      BY <1>1, <2>2
    <3>2. Len(after) = 1 /\ MaxStacks > 1 => after[1].low = "unset"
      BY <1>2, <1>4, <2>1
    <3>3. m = 1 => \A i \in DOMAIN after : after[i].of = StackAt(rest, Len(rest) + 2 - i)
      <4>1. \A i \in DOMAIN after : i = 1
        BY <2>2
      <4>2. m = 1 => Len(rest) + 2 - 1 = 1
        BY <2>4
      <4> QED BY <1>2, <2>1, <2>4, <4>1, <4>2
    <3>4. 1 .. Len(after) - 1 = {}
      BY <2>2
    <3> QED BY <1>2, <2>1, <2>2, <2>3, <2>4, <3>1, <3>2, <3>3, <3>4 DEF RegionsFit
  <2> QED BY <1>1, <1>4, <2>1, <2>2, <2>5
<1>5. ASSUME n # 1
      PROVE  /\ after \in Seq(RegionType) /\ Len(after) \in 1 .. MaxStacks
             /\ RegionsFit(after, rest, dr1)
  <2>1. /\ q \in Seq(RegionType) /\ Len(q) = n - 1
        /\ \A i \in 1 .. n - 1 : q[i] = rs[i]
    <3>1. \A i \in 1 .. n - 1 : rs[i] \in RegionType
      BY <1>1, ElementOfSeq
    <3>2. /\ SubSeq(rs, 1, n - 1) \in Seq(RegionType)
          /\ Len(SubSeq(rs, 1, n - 1)) = n - 1
          /\ \A i \in 1 .. n - 1 : SubSeq(rs, 1, n - 1)[i] = rs[i]
      <4>1. 1 \in Int /\ n - 1 \in Int /\ 1 <= n - 1 /\ n - 1 - 1 + 1 = n - 1
            /\ \A i \in 1 .. n - 1 : 1 + i - 1 = i
        BY <1>1, <1>5
      <4> HIDE DEF n
      <4> QED BY <3>1, <4>1, SubSeqProperties
    <3> QED BY <3>2 DEF Front
  <2>2. after = Bounded(q, "unset")
    BY <1>1, <1>5 DEF PoppedOf
  <2>3. /\ after \in Seq(RegionType) /\ Len(after) = n - 1 /\ DOMAIN after = 1 .. n - 1
        /\ after[n - 1].low = "unset"
        /\ \A i \in 1 .. n - 1 : after[i].of = rs[i].of
        /\ \A i \in 1 .. n - 2 : after[i] = rs[i]
    <3>1. Len(q) > 0 /\ n - 1 - 1 = n - 2
      BY <1>1, <1>5, <2>1
    <3> HIDE DEF q, n, after
    <3>2. /\ Bounded(q, "unset") \in Seq(RegionType) /\ Len(Bounded(q, "unset")) = Len(q)
          /\ DOMAIN Bounded(q, "unset") = 1 .. Len(q)
          /\ Bounded(q, "unset")[Len(q)].low = "unset"
          /\ \A i \in 1 .. Len(q) : Bounded(q, "unset")[i].of = q[i].of
          /\ \A i \in 1 .. Len(q) - 1 : Bounded(q, "unset")[i] = q[i]
      <4>1. q \in Seq(RegionType) /\ "unset" \in Stack \cup {"all", "unset"}
        BY <2>1
      <4> QED BY <3>1, <4>1, BoundSet, Zenon
    <3>3. \A i \in 1 .. n - 2 : i \in 1 .. n - 1
      BY <1>1
    <3> QED BY <2>1, <2>2, <3>1, <3>2, <3>3
  <2> HIDE DEF after, rest, n, m, q, dr1
  <2>4. Len(after) \in 1 .. MaxStacks /\ Len(after) <= Len(rest) + 1
    BY <1>1, <1>2, <1>5, <2>3
  <2>5. after[1].of = Main /\ (Len(after) = 1 => after[1].low = "unset")
    BY <1>1, <1>2, <1>5, <2>3
  <2>6. ~dr1 => n = m + 1
    <3>1. CASE dr
      BY <1>1, <1>2, <1>5, <3>1 DEF dr1
    <3>2. CASE ~dr
      BY <1>2, <3>2
    <3> QED BY <3>1, <3>2
  <2>7. ASSUME ~dr1, NEW i \in 1 .. n - 1
        PROVE  after[i].of = StackAt(rest, Len(rest) + 2 - i)
    <3>0. n = m + 1
      BY <2>6, <2>7
    <3>1. CASE dr
      <4>1. m = 1
        BY <1>1, <2>7, <3>1 DEF dr1
      <4>2. i = 1 /\ Len(rest) + 2 - i = 1
        BY <1>1, <3>0, <4>1
      <4> QED BY <1>1, <1>2, <1>3, <2>3, <4>1, <4>2
    <3>2. CASE ~dr
      <4>1. /\ i \in 1 .. n /\ Len(rest) + 2 - i \in 1 .. m
            /\ (Len(rest) + 2 - i) + 1 = m + 2 - i
        BY <1>1, <3>0
      <4>2. StackAt(rest, Len(rest) + 2 - i) = StackAt(ch, m + 2 - i)
        BY <1>1, <4>1
      <4>3. rs[i].of = StackAt(ch, m + 2 - i)
        BY <1>2, <3>2, <4>1
      <4> QED BY <2>3, <4>2, <4>3
    <3> QED BY <3>1, <3>2
  <2>8. ASSUME ~dr1, NEW i \in 1 .. n - 2
        PROVE  after[i].low \in {"all", after[i].of}
    <3>1. ~dr /\ i \in 1 .. n - 1
      BY <1>1, <2>6, <2>8 DEF dr1
    <3> QED BY <1>2, <2>3, <3>1
  <2>9. RegionsFit(after, rest, dr1)
    <3>1. Len(after) - 1 = n - 2 /\ after[Len(after)].low = "unset"
      BY <1>1, <2>3
    <3>2. ~dr1 => Len(after) = Len(rest) + 1
      BY <1>1, <2>3, <2>6
    <3> QED BY <2>3, <2>4, <2>5, <2>7, <2>8, <3>1, <3>2 DEF RegionsFit
  <2> QED BY <2>3, <2>4, <2>9
<1> QED BY <1>4, <1>5
-----------------------------------------------------------------------------
LEMMA InitInv == ASSUME Init PROVE IInv
<1>1. /\ <<>> \in Seq(Entry) /\ <<>> \in Seq(Stack) /\ Len(<<>>) = 0 /\ DOMAIN <<>> = 1 .. 0
  BY EmptySeq
<1>2. Main \in Stack /\ MaxStacks \in Nat /\ MaxStacks > 0
  BY CoroutinesAssumption DEF Stack
<1>3. /\ regions \in Seq(RegionType) /\ Len(regions) = 1 /\ DOMAIN regions = 1 .. 1
      /\ regions[1] = [of |-> Main, low |-> "unset"]
  BY <1>2 DEF Init, RegionType
<1>4. TypeOK
  <2>1. chain \in Seq(Entry) /\ tryTop \in Seq(Stack) /\ saved \in [Coroutine -> Seq(Stack)]
    BY <1>1 DEF Init
  <2>2. Len(regions) \in 1 .. MaxStacks
    BY <1>2, <1>3
  <2>3. /\ state \in [Coroutine -> {"new", "suspended", "entered", "released"}]
        /\ active \in Actives /\ dropped \in BOOLEAN
    BY DEF Init, Actives
  <2> QED BY <1>3, <2>1, <2>2, <2>3 DEF TypeOK, Entry, RegionType, Actives
<1>5. chain = <<>> /\ tryTop = <<>> /\ \A co \in Coroutine : state[co] = "new"
  BY DEF Init
<1>6. ChainFits(chain, state) /\ TriesFit(chain, tryTop) /\ SavedFit(state, saved)
  BY <1>1, <1>5 DEF ChainFits, TriesFit, SavedFit, OwnFrames
<1>7. OwnersFit(chain, active)
  BY <1>1, <1>5 DEF OwnersFit
<1>8. RegionsFit(regions, chain, dropped)
  <2>1. \A i \in DOMAIN regions : i = 1
    BY <1>3
  <2>2. StackAt(<<>>, 1) = Main /\ 0 + 2 - 1 = 1
    BY <1>1 DEF StackAt
  <2>3. 1 .. Len(regions) - 1 = {}
    BY <1>3
  <2> QED BY <1>1, <1>3, <1>5, <2>1, <2>2, <2>3 DEF RegionsFit
<1> QED BY <1>4, <1>6, <1>7, <1>8 DEF IInv

(* The running stack, in the terms of the code and of the invariant. *)
LEMMA CurrentIsTop ==
    ASSUME TypeOK
    PROVE  /\ chain \in Seq(Entry) /\ regions \in Seq(RegionType) /\ active \in Actives
           /\ Current = StackAt(chain, 1)
           /\ chain = <<>> => Current = Main
           /\ chain # <<>> => /\ Current = chain[1].co /\ chain[1].co \in Coroutine
                              /\ Head(chain) = chain[1] /\ chain[1].callerTry \in Seq(Stack)
<1>1. chain \in Seq(Entry) /\ regions \in Seq(RegionType) /\ active \in Actives
  BY DEF TypeOK, Entry, RegionType, Actives
<1>2. CASE chain = <<>>
  <2>1. Len(chain) = 0
    BY <1>2
  <2> QED BY <1>1, <1>2, <2>1 DEF Current, StackAt
<1>3. CASE chain # <<>>
  <2>1. Len(chain) \in Nat /\ Len(chain) > 0 /\ Head(chain) = chain[1] /\ chain[1] \in Entry
    BY <1>1, <1>3, Shortened
  <2> QED BY <1>1, <1>3, <2>1 DEF Current, StackAt, Entry
<1> QED BY <1>2, <1>3

LEMMA EnterInv ==
    ASSUME IInv, NEW co \in Coroutine, Enter(co)
    PROVE  IInv'
<1> DEFINE e == [co |-> co, callerTry |-> tryTop, previous |-> active[Owner(co)]]
<1>1. /\ chain \in Seq(Entry) /\ regions \in Seq(RegionType) /\ active \in Actives
      /\ Current = StackAt(chain, 1) /\ tryTop \in Seq(Stack)
      /\ Len(regions) \in 1 .. MaxStacks /\ dropped \in BOOLEAN
      /\ state \in [Coroutine -> {"new", "suspended", "entered", "released"}]
      /\ saved \in [Coroutine -> Seq(Stack)]
  BY CurrentIsTop DEF IInv, TypeOK
<1>2. e \in Entry /\ e.co = co /\ e.callerTry = tryTop /\ e.previous = active[Owner(co)]
  <2>1. active[Owner(co)] \in Stack
    BY <1>1 DEF Actives, Owner, Stack, Yielding, Coroutine, Nobody
  <2> QED BY <1>1, <2>1 DEF Entry
<1>3. chain' = <<e>> \o chain
  BY DEF Enter
<1> HIDE DEF e
<1>4. chain' \in Seq(Entry)
  BY <1>1, <1>2, <1>3, Pushed
<1>5. ChainFits(chain', state')
  <2>1. state \in [Coroutine -> States] /\ state[co] # "entered"
    BY <1>1 DEF Enter, States
  <2>2. state' = [state EXCEPT ![e.co] = "entered"] /\ ChainFits(chain, state)
    BY <1>2 DEF Enter, IInv
  <2> QED BY <1>1, <1>2, <1>3, <2>1, <2>2, ChainEntered
<1>6. tryTop' \in Seq(Stack) /\ tryTop' # <<>> /\ OwnFrames(tryTop', co)
  <2>1. CASE state[co] = "new"
    <3>1. tryTop' = <<co>> /\ co \in Stack
      BY <2>1 DEF Enter, EnteredTry, Stack
    <3>2. <<co>> \in Seq(Stack) /\ <<co>> # <<>> /\ \A i \in DOMAIN <<co>> : <<co>>[i] = co
      BY <3>1
    <3> QED BY <3>1, <3>2 DEF OwnFrames
  <2>2. CASE state[co] # "new"
    <3>1. tryTop' = saved[co] /\ state[co] = "suspended"
      BY <2>2 DEF Enter, EnteredTry
    <3> QED BY <1>1, <3>1 DEF IInv, SavedFit
  <2> QED BY <2>1, <2>2
<1>7. TriesFit(chain', tryTop')
  BY <1>1, <1>2, <1>3, <1>6, TriesEntered DEF IInv
<1>8. SavedFit(state', saved')
  BY <1>1 DEF Enter, IInv, SavedFit
<1>9. OwnersFit(chain', active') /\ active' \in Actives
  <2>1. active' = [active EXCEPT ![Owner(e.co)] = e.co]
    BY <1>2 DEF Enter
  <2>2. OwnersFit(chain', active')
    BY <1>1, <1>2, <1>3, <2>1, OwnersEntered DEF IInv
  <2>3. active' \in Actives
    BY <1>1, <1>2, <2>1 DEF Actives, Owner, Coroutine, Yielding
  <2> QED BY <2>2, <2>3
<1>10. /\ regions' \in Seq(RegionType) /\ Len(regions') \in 1 .. MaxStacks
       /\ RegionsFit(regions', chain', dropped') /\ dropped' \in BOOLEAN
  <2>1. PICK low \in SuspendBounds : regions' = Push(SuspendTop(low), co)
    BY DEF Enter
  <2>2. SuspendBounds = BoundsOf(regions[Len(regions)], StackAt(chain, 1))
    BY <1>1 DEF SuspendBounds, BoundsOf, Last
  <2>3. regions' = Push(Bounded(regions, low), e.co)
    BY <1>2, <2>1 DEF SuspendTop, Bounded
  <2>4. dropped' = (dropped \/ Len(regions) >= MaxStacks)
    BY DEF Enter
  <2>5. RegionsFit(regions, chain, dropped) /\ low \in BoundsOf(regions[Len(regions)], StackAt(chain, 1))
    BY <2>1, <2>2 DEF IInv
  <2>6. /\ regions' \in Seq(RegionType) /\ Len(regions') \in 1 .. MaxStacks
        /\ RegionsFit(regions', chain', dropped \/ Len(regions) >= MaxStacks)
    BY <1>1, <1>2, <1>3, <2>3, <2>5, RegionsEntered
  <2>7. RegionsFit(regions', chain', dropped')
    BY <2>4, <2>6
  <2>8. dropped' \in BOOLEAN
    BY <2>4
  <2> QED BY <2>6, <2>7, <2>8
<1>11. TypeOK'
  <2>1. /\ state' \in [Coroutine -> {"new", "suspended", "entered", "released"}]
        /\ saved' \in [Coroutine -> Seq(Stack)]
    BY <1>1 DEF Enter
  <2> QED BY <1>4, <1>6, <1>9, <1>10, <2>1 DEF TypeOK, Entry, RegionType, Actives
<1> QED BY <1>5, <1>7, <1>8, <1>9, <1>10, <1>11 DEF IInv

LEMMA LeaveInv ==
    ASSUME IInv, chain # <<>>, NEW next \in {"suspended", "released"},
           NEW kept \in Seq(Stack),
           next = "suspended" => kept # <<>> /\ OwnFrames(kept, Current),
           LeaveFor(next, kept)
    PROVE  IInv'
<1>1. /\ chain \in Seq(Entry) /\ regions \in Seq(RegionType) /\ active \in Actives
      /\ Current = chain[1].co /\ chain[1].co \in Coroutine /\ Head(chain) = chain[1]
      /\ chain[1].callerTry \in Seq(Stack) /\ tryTop \in Seq(Stack)
      /\ Len(regions) \in 1 .. MaxStacks /\ dropped \in BOOLEAN
      /\ state \in [Coroutine -> {"new", "suspended", "entered", "released"}]
      /\ saved \in [Coroutine -> Seq(Stack)]
  BY CurrentIsTop DEF IInv, TypeOK
<1>2. /\ chain' = Tail(chain) /\ tryTop' = chain[1].callerTry
      /\ state' = [state EXCEPT ![chain[1].co] = next]
      /\ saved' = [saved EXCEPT ![chain[1].co] = kept]
      /\ active' = [active EXCEPT ![Owner(chain[1].co)] = chain[1].previous]
      /\ regions' = PoppedOf(regions)
      /\ dropped' = (dropped /\ Len(chain) > 1)
  BY <1>1 DEF LeaveFor, OwnerRestored, Popped, PoppedOf, Bounded
<1>3. chain' \in Seq(Entry)
  BY <1>1, <1>2, Shortened
<1>4. ChainFits(chain', state')
  <2>1. state \in [Coroutine -> States] /\ next \in States /\ next # "entered"
    BY <1>1 DEF States
  <2>2. ChainFits(chain, state)
    BY DEF IInv
  <2> QED BY <1>1, <1>2, <2>1, <2>2, ChainLeft
<1>5. TriesFit(chain', tryTop')
  BY <1>1, <1>2, TriesLeft DEF IInv
<1>6. SavedFit(state', saved')
  BY <1>1, <1>2 DEF IInv, SavedFit
<1>7. OwnersFit(chain', active') /\ active' \in Actives
  BY <1>1, <1>2, OwnersLeft DEF IInv
<1>8. /\ regions' \in Seq(RegionType) /\ Len(regions') \in 1 .. MaxStacks
      /\ RegionsFit(regions', chain', dropped') /\ dropped' \in BOOLEAN
  <2>1. RegionsFit(regions, chain, dropped)
    BY DEF IInv
  <2>2. /\ regions' \in Seq(RegionType) /\ Len(regions') \in 1 .. MaxStacks
        /\ RegionsFit(regions', chain', dropped /\ Len(chain) > 1)
    BY <1>1, <1>2, <2>1, RegionsLeft
  <2>3. RegionsFit(regions', chain', dropped') /\ dropped' \in BOOLEAN
    BY <1>2, <2>2
  <2> QED BY <2>2, <2>3
<1>9. TypeOK'
  <2>1. /\ state' \in [Coroutine -> {"new", "suspended", "entered", "released"}]
        /\ saved' \in [Coroutine -> Seq(Stack)]
    BY <1>1, <1>2
  <2>2. tryTop' \in Seq(Stack)
    BY <1>1, <1>2
  <2> QED BY <1>3, <1>7, <1>8, <2>1, <2>2 DEF TypeOK, Entry, RegionType, Actives
<1> QED BY <1>4, <1>5, <1>6, <1>7, <1>8, <1>9 DEF IInv

LEMMA AbandonInv ==
    ASSUME IInv, NEW co \in Coroutine, Abandon(co)
    PROVE  IInv'
<1>1. /\ UNCHANGED <<chain, regions, tryTop, active, dropped>>
      /\ state[co] = "suspended"
      /\ state' = [state EXCEPT ![co] = "released"]
      /\ saved' = [saved EXCEPT ![co] = <<>>]
  BY DEF Abandon
<1>2. /\ state \in [Coroutine -> {"new", "suspended", "entered", "released"}]
      /\ saved \in [Coroutine -> Seq(Stack)] /\ <<>> \in Seq(Stack)
  BY EmptySeq DEF IInv, TypeOK
<1>3. TypeOK'
  <2>1. /\ state' \in [Coroutine -> {"new", "suspended", "entered", "released"}]
        /\ saved' \in [Coroutine -> Seq(Stack)]
    BY <1>1, <1>2
  <2> QED BY <1>1, <2>1 DEF IInv, TypeOK
<1>4. \A c \in Coroutine : state'[c] = IF c = co THEN "released" ELSE state[c]
  BY <1>1, <1>2
<1>5. ChainFits(chain', state') /\ SavedFit(state', saved')
  BY <1>1, <1>2, <1>4 DEF IInv, ChainFits, SavedFit
<1>6. TriesFit(chain', tryTop') /\ OwnersFit(chain', active') /\ RegionsFit(regions', chain', dropped')
  BY <1>1 DEF IInv
<1> QED BY <1>3, <1>5, <1>6 DEF IInv

(* Steps that only set up or take away try frames of the running stack. *)
LEMMA TryStepInv ==
    ASSUME IInv, tryTop' \in Seq(Stack), OwnFrames(tryTop', Current),
           chain # <<>> => tryTop' # <<>>,
           UNCHANGED <<state, chain, regions, saved, active, dropped>>
    PROVE  IInv'
<1>1. Current = StackAt(chain, 1)
  BY CurrentIsTop DEF IInv
<1>2. TriesFit(chain', tryTop')
  BY <1>1 DEF IInv, TriesFit
<1>3. TypeOK'
  BY DEF IInv, TypeOK
<1> QED BY <1>2, <1>3 DEF IInv

LEMMA TryEnterInv == ASSUME IInv, TryEnter PROVE IInv'
<1>1. tryTop \in Seq(Stack) /\ Current \in Stack /\ OwnFrames(tryTop, Current)
  BY CurrentIsTop DEF IInv, TypeOK, TriesFit, Stack
<1>2. /\ tryTop' = <<Current>> \o tryTop
      /\ UNCHANGED <<state, chain, regions, saved, active, dropped>>
  BY DEF TryEnter
<1>3. /\ tryTop' \in Seq(Stack) /\ tryTop' # <<>>
      /\ DOMAIN tryTop = 1 .. Len(tryTop) /\ Len(tryTop) \in Nat
      /\ DOMAIN tryTop' = 1 .. Len(tryTop) + 1 /\ tryTop'[1] = Current
      /\ \A i \in 2 .. Len(tryTop) + 1 : tryTop'[i] = tryTop[i - 1]
  BY <1>1, <1>2, Pushed
<1>4. OwnFrames(tryTop', Current)
  <2> SUFFICES ASSUME NEW i \in 1 .. Len(tryTop) + 1 PROVE tryTop'[i] = Current
    BY <1>3 DEF OwnFrames
  <2>1. CASE i = 1
    BY <1>3, <2>1
  <2>2. CASE i # 1
    <3>1. i \in 2 .. Len(tryTop) + 1 /\ i - 1 \in DOMAIN tryTop
      BY <1>3, <2>2
    <3>2. tryTop[i - 1] = Current
      BY <1>1, <3>1 DEF OwnFrames
    <3> QED BY <1>3, <3>1, <3>2
  <2> QED BY <2>1, <2>2
<1> QED BY <1>2, <1>3, <1>4, TryStepInv

LEMMA TryLeaveInv == ASSUME IInv, TryLeave PROVE IInv'
<1>1. tryTop \in Seq(Stack) /\ OwnFrames(tryTop, Current)
  BY CurrentIsTop DEF IInv, TypeOK, TriesFit
<1>2. /\ tryTop' = Tail(tryTop) /\ Len(tryTop) > Boundary
      /\ UNCHANGED <<state, chain, regions, saved, active, dropped>>
  BY DEF TryLeave
<1>3. tryTop # <<>>
  <2>1. Len(<<>>) = 0
    OBVIOUS
  <2> QED BY <1>2, <2>1 DEF Boundary
<1>4. /\ tryTop' \in Seq(Stack) /\ DOMAIN tryTop = 1 .. Len(tryTop) /\ Len(tryTop) \in Nat
      /\ DOMAIN tryTop' = 1 .. Len(tryTop) - 1
      /\ \A i \in 1 .. Len(tryTop) - 1 : tryTop'[i] = tryTop[i + 1]
      /\ tryTop' = <<>> <=> Len(tryTop) = 1
  BY <1>1, <1>2, <1>3, Shortened
<1>5. OwnFrames(tryTop', Current)
  <2>1. \A i \in 1 .. Len(tryTop) - 1 : i + 1 \in DOMAIN tryTop
    BY <1>4
  <2> QED BY <1>1, <1>4, <2>1 DEF OwnFrames
<1>6. chain # <<>> => tryTop' # <<>>
  BY <1>2, <1>4 DEF Boundary
<1> QED BY <1>2, <1>4, <1>5, <1>6, TryStepInv

LEMMA Inductive == ASSUME IInv, [Next]_vars PROVE IInv'
<1>0. tryTop \in Seq(Stack) /\ <<>> \in Seq(Stack) /\ OwnFrames(tryTop, Current)
      /\ (chain # <<>> => tryTop # <<>>)
  BY EmptySeq, CurrentIsTop DEF IInv, TypeOK, TriesFit
<1>1. CASE UNCHANGED vars
  BY <1>1 DEF vars, IInv, TypeOK
<1>2. CASE \E co \in Coroutine : Enter(co) \/ Abandon(co)
  BY <1>2, EnterInv, AbandonInv
<1>3. CASE Await
  <2>1. chain # <<>> /\ LeaveFor("suspended", tryTop)
    BY <1>3 DEF Await
  <2> QED BY <1>0, <2>1, LeaveInv
<1>4. CASE Yield
  <2>1. chain # <<>> /\ LeaveFor("suspended", tryTop)
    BY <1>4 DEF Yield
  <2> QED BY <1>0, <2>1, LeaveInv
<1>5. CASE Finish
  <2>1. chain # <<>> /\ LeaveFor("released", <<>>)
    BY <1>5 DEF Finish
  <2> QED BY <1>0, <2>1, LeaveInv
<1>6. CASE TryEnter
  BY <1>6, TryEnterInv
<1>7. CASE TryLeave
  BY <1>7, TryLeaveInv
<1>8. CASE Throw
  <2>1. CASE TryLeave
    BY <2>1, TryLeaveInv
  <2>2. CASE Len(tryTop) = Boundary /\ LeaveFor("released", <<>>)
    <3>1. tryTop # <<>>
      BY <1>8 DEF Throw
    <3>2. Len(tryTop) # 0
      BY <1>0, <3>1, EmptySeq
    <3>3. chain # <<>>
      BY <2>2, <3>2 DEF Boundary
    <3> QED BY <1>0, <2>2, <3>3, LeaveInv
  <2> QED BY <1>8, <2>1, <2>2 DEF Throw
<1> QED BY <1>1, <1>2, <1>3, <1>4, <1>5, <1>6, <1>7, <1>8 DEF Next

LEMMA Invariance == Spec => []IInv
<1>1. Init => IInv
  BY InitInv
<1>2. IInv /\ [Next]_vars => IInv'
  BY Inductive
<1> QED BY <1>1, <1>2, PTL DEF Spec
-----------------------------------------------------------------------------
(* Every variable has its type, and the region array stays within its size,     *)
(* however many coroutines are nested.                                          *)
THEOREM TypeCorrect == Spec => []TypeOK
<1>1. IInv => TypeOK
  BY DEF IInv
<1> QED BY <1>1, Invariance, PTL

LEMMA OwnState == ASSUME IInv PROVE SwitchKeepsOwnState
<1>1. /\ chain \in Seq(Entry) /\ Current = StackAt(chain, 1)
      /\ chain = <<>> => Current = Main
      /\ chain # <<>> => Current = chain[1].co
  BY CurrentIsTop DEF IInv
<1>2. \A i \in DOMAIN tryTop : tryTop[i] = Current
  BY <1>1 DEF IInv, TriesFit, OwnFrames
<1>3. \A co \in Coroutine : state[co] = "suspended" =>
          saved[co] # <<>> /\ \A i \in DOMAIN saved[co] : saved[co][i] = co
  BY DEF IInv, SavedFit, OwnFrames
<1>4. chain # <<>> => active[Owner(Current)] = Current
  <2> SUFFICES ASSUME chain # <<>> PROVE active[Owner(Current)] = Current
    OBVIOUS
  <2>1. 1 \in DOMAIN chain /\ 1 .. 1 - 1 = {}
    BY <1>1, Shortened
  <2> QED BY <1>1, <2>1 DEF IInv, OwnersFit
<1>5. Current \in Awaiting => AwaitOwner = Current
  <2> SUFFICES ASSUME Current \in Awaiting PROVE AwaitOwner = Current
    OBVIOUS
  <2>1. chain # <<>> /\ Current # Nobody
    BY <1>1, CoroutinesAssumption DEF Awaiting, Coroutine, Nobody
  <2>2. active[Owner(Current)] = Current
    BY <1>4, <2>1
  <2>3. CASE Current \in AsyncGenerators
    BY <2>2, <2>3 DEF AwaitOwner, Owner, Yielding
  <2>4. CASE Current \in AsyncFunctions
    <3>1. Current \notin AsyncGenerators /\ Owner(Current) = "async"
      BY <2>4, CoroutinesAssumption DEF Owner, Yielding
    <3> QED BY <2>1, <2>2, <3>1 DEF AwaitOwner
  <2> QED BY <2>3, <2>4 DEF Awaiting
<1> QED BY <1>2, <1>3, <1>4, <1>5 DEF SwitchKeepsOwnState

(* A throw never unwinds across a switch, and an await parks the body that       *)
(* executes it, for any nesting of xt_generator_enter and xt_async_resume.       *)
THEOREM OwnStateKept == Spec => []SwitchKeepsOwnState
<1>1. IInv => SwitchKeepsOwnState
  BY OwnState
<1> QED BY <1>1, Invariance, PTL

LEMMA LiveStackAt ==
    ASSUME NEW ch \in Seq(Entry)
    PROVE  LET live == <<Main>> \o Reverse([i \in DOMAIN ch |-> ch[i].co])
           IN  /\ Len(live) = Len(ch) + 1
               /\ \A i \in 1 .. Len(ch) + 1 : live[i] = StackAt(ch, Len(ch) + 2 - i)
<1> DEFINE n == Len(ch)
           cos == [i \in DOMAIN ch |-> ch[i].co]
           back == Reverse(cos)
           live == <<Main>> \o back
<1>1. n \in Nat /\ DOMAIN ch = 1 .. n /\ \A i \in 1 .. n : ch[i].co \in Stack
  <2>1. \A i \in 1 .. n : ch[i] \in Entry
    BY ElementOfSeq
  <2>2. \A f \in Entry : f.co \in Stack
    BY DEF Entry, Stack
  <2> QED BY <2>1, <2>2, LenProperties
<1>2. cos \in [1 .. n -> Stack]
  BY <1>1
<1>3. cos \in Seq(Stack) /\ Len(cos) = n /\ \A i \in 1 .. n : cos[i] = ch[i].co
  BY <1>1, <1>2, SeqDef
<1> HIDE DEF cos, n
<1>4. /\ back \in [1 .. n -> Stack] /\ \A i \in 1 .. n : back[i] = ch[n - i + 1].co
  <2>1. back = [i \in 1 .. n |-> cos[n - i + 1]]
    BY <1>3 DEF Reverse
  <2>2. \A i \in 1 .. n : n - i + 1 \in 1 .. n
    BY <1>1
  <2> HIDE DEF back
  <2> QED BY <1>1, <1>3, <2>1, <2>2
<1>5. back \in Seq(Stack) /\ Len(back) = n
  <2> HIDE DEF back
  <2> QED BY <1>1, <1>4, SeqDef
<1>6. Main \in Stack
  BY DEF Stack
<1> HIDE DEF back
<1>7. /\ Len(live) = n + 1 /\ live[1] = Main
      /\ \A i \in 2 .. n + 1 : live[i] = back[i - 1]
  BY <1>5, <1>6, Pushed
<1> HIDE DEF live
<1>8. ASSUME NEW i \in 1 .. n + 1 PROVE live[i] = StackAt(ch, n + 2 - i)
  <2>1. CASE i = 1
    BY <1>1, <1>7, <2>1 DEF StackAt, n
  <2>2. CASE i # 1
    <3>1. /\ i \in 2 .. n + 1 /\ i - 1 \in 1 .. n /\ n - (i - 1) + 1 = n + 2 - i
          /\ n + 2 - i \in 1 .. n
      BY <1>1, <2>2
    <3>2. live[i] = ch[n + 2 - i].co
      BY <1>4, <1>7, <3>1
    <3> QED BY <1>1, <3>1, <3>2 DEF StackAt, n
  <2> QED BY <2>1, <2>2
<1> QED BY <1>7, <1>8 DEF live, back, cos, n

LEMMA Scanned == ASSUME IInv PROVE LiveStacksScanned
<1> SUFFICES ASSUME ~dropped
             PROVE  /\ Len(regions) = Len(LiveStacks)
                    /\ \A i \in DOMAIN regions :
                          /\ regions[i].of = LiveStacks[i]
                          /\ i < Len(regions) => regions[i].low \in {"all", LiveStacks[i]}
  BY DEF LiveStacksScanned
<1>1. chain \in Seq(Entry) /\ regions \in Seq(RegionType)
  BY CurrentIsTop DEF IInv
<1>2. /\ Len(LiveStacks) = Len(chain) + 1
      /\ \A i \in 1 .. Len(chain) + 1 : LiveStacks[i] = StackAt(chain, Len(chain) + 2 - i)
  BY <1>1, LiveStackAt DEF LiveStacks
<1>3. /\ Len(regions) = Len(chain) + 1
      /\ \A i \in DOMAIN regions : regions[i].of = StackAt(chain, Len(chain) + 2 - i)
      /\ \A i \in 1 .. Len(regions) - 1 : regions[i].low \in {"all", regions[i].of}
  BY DEF IInv, RegionsFit
<1>4. DOMAIN regions = 1 .. Len(chain) + 1 /\ Len(chain) \in Nat
  BY <1>1, <1>3, LenProperties
<1>5. \A i \in DOMAIN regions : regions[i].of = LiveStacks[i]
  BY <1>2, <1>3, <1>4
<1>6. \A i \in DOMAIN regions : i < Len(regions) => i \in 1 .. Len(regions) - 1
  BY <1>3, <1>4
<1> QED BY <1>2, <1>3, <1>5, <1>6

(* A collection scans every live stack from the point where it was suspended,    *)
(* as long as no push was dropped, for any size of the region array.             *)
THEOREM StacksScanned == Spec => []LiveStacksScanned
<1>1. IInv => LiveStacksScanned
  BY Scanned
<1> QED BY <1>1, Invariance, PTL
=============================================================================
