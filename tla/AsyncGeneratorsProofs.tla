----------------------- MODULE AsyncGeneratorsProofs ------------------------
(***************************************************************************)
(* The safety properties of AsyncGenerators, for any number of calls and   *)
(* awaits.                                                                 *)
(*                                                                         *)
(* BodyEnteredOnce is not inductive.  That a yield returns to the frame    *)
(* that entered the body rests on the few shapes the C stack can have      *)
(* (Shape), and that a yield always answers the request in hand rests on   *)
(* the kind of that request while the body runs (Control).  CallOrderKept  *)
(* needs in addition that the queue is sorted and holds every call that    *)
(* has no answer and is not in hand (Queued).                              *)
(***************************************************************************)
EXTENDS AsyncGenerators, SequenceTheorems, TLAPS

(* The C stack: nothing, a drain loop, or the one frame that entered the body. *)
Shape ==
    frames \in IF Running \/ body = "resumed" THEN {<<"start", "drain">>, <<"wake">>}
               ELSE {<<>>, <<"drain">>}

(* What the place of the coroutine says about the flags. *)
Control ==
    /\ waiter # "none" <=> body = "await"
    /\ pending # 0 <=> body \in {"running", "resumed", "await"}
    /\ body \in {"running", "await"} => resumeKind = "next"
    /\ started <=> body # "new"
    /\ body = "gone" => done
    /\ done => body \in {"gone", "new"}

(* The queue is in the order of the calls, behind the request in hand, and holds *)
(* every other call without an answer.                                           *)
Queued ==
    /\ \A i, j \in DOMAIN requests : i < j => requests[i] < requests[j]
    /\ pending # 0 => \A i \in DOMAIN requests : pending < requests[i]
    /\ \A r \in Calls : outcome[r] = "pending" =>
           r = pending \/ \E i \in DOMAIN requests : requests[i] = r

(* What was left behind is the queue of a generator that nobody works on. *)
Behind == left = IF done /\ frames = <<>> THEN ToSet(requests) ELSE {}

IInv == TypeOK /\ Shape /\ Control /\ Queued /\ Behind /\ CallOrderKept
-----------------------------------------------------------------------------
(* A call is appended to the history with the outcome it starts with. *)
LEMMA CalledHistory ==
    ASSUME TypeOK, NEW kind \in Kinds, NEW o \in Outcomes
    PROVE  /\ Len(kinds) \in Nat /\ Calls = 1 .. Len(kinds)
           /\ Append(kinds, kind) \in Seq(Kinds)
           /\ Len(Append(kinds, kind)) = Len(kinds) + 1
           /\ DOMAIN Append(kinds, kind) = 1 .. Len(kinds) + 1
           /\ Append(outcome, o) \in Seq(Outcomes)
           /\ Len(Append(outcome, o)) = Len(kinds) + 1
           /\ \A r \in Calls : Append(outcome, o)[r] = outcome[r]
           /\ Append(outcome, o)[Len(kinds) + 1] = o
  BY AppendProperties, LenProperties DEF TypeOK, Calls

(* The queue after a call. *)
LEMMA LongerQueue ==
    ASSUME TypeOK
    PROVE  LET longer == Append(requests, Len(kinds) + 1)
               n == Len(requests)
           IN  /\ n \in Nat /\ DOMAIN requests = 1 .. n
               /\ longer \in Seq(1 .. Len(kinds) + 1)
               /\ DOMAIN longer = 1 .. n + 1
               /\ \A i \in 1 .. n : longer[i] = requests[i] /\ requests[i] \in Calls
               /\ longer[n + 1] = Len(kinds) + 1
<1>1. Len(kinds) \in Nat /\ Calls = 1 .. Len(kinds)
  BY LenProperties DEF TypeOK, Calls
<1> DEFINE More == 1 .. Len(kinds) + 1
<1>2. requests \in Seq(More)
  <2>1. Calls \subseteq More /\ requests \in Seq(Calls)
    BY <1>1 DEF TypeOK
  <2> HIDE DEF More
  <2> QED BY <2>1, SeqMonotonic
<1>3. \A i \in 1 .. Len(requests) : requests[i] \in Calls
  BY ElementOfSeq DEF TypeOK
<1> QED BY <1>1, <1>2, <1>3, AppendProperties, LenProperties

(* The queue after its head was taken. *)
LEMMA ShorterQueue ==
    ASSUME TypeOK, requests # <<>>
    PROVE  LET n == Len(requests)
           IN  /\ n \in Nat /\ n > 0 /\ DOMAIN requests = 1 .. n
               /\ Oldest = requests[1] /\ Oldest \in Calls
               /\ Tail(requests) \in Seq(Calls)
               /\ DOMAIN Tail(requests) = 1 .. n - 1
               /\ \A i \in 1 .. n - 1 : Tail(requests)[i] = requests[i + 1]
  BY HeadTailProperties, LenProperties DEF TypeOK, Oldest

(* The shapes of the C stack, and what entering and leaving makes of them. *)
LEMMA Stacks ==
    /\ \A f \in {<<>>, <<"drain">>, <<"start", "drain">>, <<"wake">>} :
           f \in Seq({"drain", "start", "wake"})
    /\ <<"drain">> \o <<>> = <<"drain">>
    /\ <<"start">> \o <<"drain">> = <<"start", "drain">>
    /\ Tail(<<"start", "drain">>) = <<"drain">> /\ Head(<<"start", "drain">>) = "start"
    /\ Tail(<<"drain">>) = <<>> /\ Head(<<"drain">>) = "drain"
    /\ Tail(<<"wake">>) = <<>> /\ Head(<<"wake">>) = "wake"
<1>1. <<>> \in Seq({"drain", "start", "wake"})
  BY EmptySeq
<1>2. \A x \in {"drain", "start", "wake"} : <<x>> \in Seq({"drain", "start", "wake"})
  OBVIOUS
<1>3. <<"start", "drain">> \in Seq({"drain", "start", "wake"})
  OBVIOUS
<1>4. <<"drain">> \o <<>> = <<"drain">>
  OBVIOUS
<1>5. <<"start">> \o <<"drain">> = <<"start", "drain">>
  <2> DEFINE S == {"drain", "start", "wake"}
             s == <<"start">>
             t == <<"drain">>
             u == <<"start", "drain">>
  <2>1. s \in Seq(S) /\ t \in Seq(S) /\ u \in Seq(S)
    BY <1>2, <1>3
  <2>2. Len(s) = 1 /\ Len(t) = 1 /\ Len(u) = 2
    OBVIOUS
  <2>3. s[1] = "start" /\ t[1] = "drain" /\ u[1] = "start" /\ u[2] = "drain"
    OBVIOUS
  <2> HIDE DEF S, s, t, u
  <2>4. s \o t \in Seq(S) /\ Len(s \o t) = 2
    BY <2>1, <2>2, ConcatProperties
  <2>5. (s \o t)[1] = s[1] /\ (s \o t)[2] = t[1]
    BY <2>1, <2>2, ConcatProperties
  <2>6. \A i \in 1 .. Len(u) : (s \o t)[i] = u[i]
    BY <2>2, <2>3, <2>5
  <2>7. s \o t = u
    BY <2>1, <2>2, <2>4, <2>6, SeqEqual
  <2> QED BY <2>7 DEF s, t, u
<1>6. Tail(<<"start", "drain">>) = <<"drain">> /\ Head(<<"start", "drain">>) = "start"
  OBVIOUS
<1>7. Tail(<<"drain">>) = <<>> /\ Head(<<"drain">>) = "drain"
  OBVIOUS
<1>8. Tail(<<"wake">>) = <<>> /\ Head(<<"wake">>) = "wake"
  OBVIOUS
<1> QED BY <1>1, <1>2, <1>3, <1>4, <1>5, <1>6, <1>7, <1>8
-----------------------------------------------------------------------------
LEMMA InitInv == ASSUME Init PROVE IInv
<1> USE GeneratorsAssumption
<1>1. TypeOK
  <2>1. /\ <<>> \in Seq(Kinds) /\ <<>> \in Seq(Outcomes) /\ <<>> \in Seq(Calls)
        /\ <<>> \in Seq({"drain", "start", "wake"})
        /\ Len(<<>>) = 0
    BY EmptySeq
  <2>2. kinds \in Seq(Kinds) /\ outcome \in Seq(Outcomes) /\ requests \in Seq(Calls)
    BY <2>1 DEF Init
  <2>3. frames \in Seq({"drain", "start", "wake"})
    BY <2>1 DEF Init
  <2>4. Len(kinds) <= MaxCalls /\ Len(outcome) = Len(kinds)
    BY <2>1 DEF Init
  <2>5. resumeKind \in Kinds /\ awaits \in 0 .. MaxAwaits
    BY DEF Init, Kinds
  <2>6. started \in BOOLEAN /\ done \in BOOLEAN /\ threw \in BOOLEAN
    BY DEF Init
  <2>7. pending \in Calls \cup {0} /\ body = "new" /\ waiter = "none" /\ left = {}
    BY DEF Init
  <2> QED BY <2>2, <2>3, <2>4, <2>5, <2>6, <2>7 DEF TypeOK
<1> QED BY <1>1 DEF Init, IInv, Shape, Running, Control, Queued, Behind, CallOrderKept, Calls

LEMMA CallInv ==
    ASSUME IInv, NEW kind \in Kinds, Call(kind)
    PROVE  IInv'
<1>1. TypeOK /\ Len(kinds) \in Nat /\ Calls = 1 .. Len(kinds)
  BY LenProperties DEF IInv, TypeOK, Calls
<1>2. CASE done /\ CallDone(kind)
  <2>1. DoneOutcome(kind) \in Outcomes /\ DoneOutcome(kind) # "pending"
    BY DEF DoneOutcome, Outcomes
  <2>2. frames = <<>> /\ pending = 0
    BY <1>2 DEF IInv, Control, Call, flags, Running
  <2>3. Calls' = 1 .. Len(kinds) + 1
    BY <2>1, CalledHistory, <1>1 DEF Call, flags, Calls
  <2>4. TypeOK'
    <3>1. Calls \subseteq Calls'
      BY <1>1, <2>3
    <3>2. requests' \in Seq(Calls') /\ pending' \in Calls' \cup {0}
      BY <1>1, <1>2, <3>1, SeqMonotonic DEF TypeOK, Call, flags, CallDone
    <3> QED BY <1>1, <1>2, <2>1, <3>1, <3>2, CalledHistory, GeneratorsAssumption
            DEF TypeOK, Call, flags, CallDone
  <2>5. Shape' /\ Control' /\ Behind'
    BY <1>2 DEF IInv, Shape, Control, Running, Behind, Call, flags, CallDone
  <2>6. Queued'
    BY <1>1, <1>2, <2>1, <2>2, <2>3, CalledHistory DEF IInv, Queued, Call, flags, CallDone
  <2>7. CallOrderKept'
    <3> SUFFICES ASSUME NEW r \in Calls', NEW s \in Calls', r < s, outcome'[s] # "pending",
                        outcome'[r] = "pending"
                 PROVE  r \in left'
      BY DEF CallOrderKept
    <3>1. r \in Calls /\ outcome[r] = "pending"
      BY <1>1, <1>2, <2>1, <2>3, CalledHistory DEF Call, flags, CallDone
    <3>2. \E i \in DOMAIN requests : requests[i] = r
      BY <2>2, <3>1, <1>1 DEF IInv, Queued
    <3> QED BY <1>2, <2>2, <3>2 DEF IInv, Behind, ToSet, Call
  <2> QED BY <2>4, <2>5, <2>6, <2>7 DEF IInv
<1>3. CASE ~done /\ CallLive
  <2>1. "pending" \in Outcomes
    BY DEF Outcomes
  <2>2. Calls' = 1 .. Len(kinds) + 1 /\ NewRequest = Len(kinds) + 1
    BY <2>1, CalledHistory, <1>1 DEF Call, flags, Calls, NewRequest
  <2>3. Shape' /\ Control'
    <3>1. ~Occupied => frames = <<>>
      BY DEF IInv, Control, Call, flags, Occupied, Running
    <3> QED BY <1>3, <3>1, Stacks DEF IInv, Shape, Control, Running, Call, flags, CallLive, Occupied
  <2>4. TypeOK'
    <3>1. frames' \in Seq({"drain", "start", "wake"})
      BY <2>3, Stacks DEF Shape
    <3>2. requests' \in Seq(Calls')
      BY <1>1, <1>3, <2>2, LongerQueue DEF CallLive
    <3>3. pending' \in Calls' \cup {0} /\ left' \subseteq Calls'
      BY <1>1, <2>2 DEF TypeOK, Call, flags
    <3> QED BY <1>1, <1>3, <2>1, <2>2, <3>1, <3>2, <3>3, CalledHistory,
             GeneratorsAssumption DEF TypeOK, Call, flags, CallLive
  <2>5. Queued'
    <3>1. pending \in Calls \cup {0} /\ pending' = pending
      BY <1>1 DEF TypeOK, Call, flags
    <3>2. requests' = Append(requests, Len(kinds) + 1)
      BY <1>3, <2>2 DEF CallLive
    <3>3. ASSUME NEW i \in DOMAIN requests', NEW j \in DOMAIN requests', i < j
          PROVE  requests'[i] < requests'[j]
      BY <1>1, <3>2, <3>3, LongerQueue DEF IInv, Queued
    <3>4. ASSUME pending' # 0, NEW i \in DOMAIN requests' PROVE pending' < requests'[i]
      BY <1>1, <3>1, <3>2, <3>4, LongerQueue DEF IInv, Queued
    <3>5. ASSUME NEW r \in Calls', outcome'[r] = "pending"
          PROVE  r = pending' \/ \E i \in DOMAIN requests' : requests'[i] = r
      <4>1. CASE r = Len(kinds) + 1
        BY <1>1, <3>2, <4>1, LongerQueue
      <4>2. CASE r # Len(kinds) + 1
        <5>1. r \in Calls /\ outcome[r] = "pending"
          BY <1>1, <1>3, <2>1, <2>2, <3>5, <4>2, CalledHistory DEF CallLive
        <5> QED BY <1>1, <3>1, <3>2, <5>1, LongerQueue DEF IInv, Queued
      <4> QED BY <4>1, <4>2
    <3> QED BY <3>3, <3>4, <3>5 DEF Queued
  <2>6. CallOrderKept'
    <3> SUFFICES ASSUME NEW r \in Calls', NEW s \in Calls', r < s, outcome'[s] # "pending"
                 PROVE  outcome'[r] # "pending"
      BY DEF CallOrderKept
    <3>1. s \in Calls /\ outcome[s] # "pending"
      BY <1>1, <1>3, <2>1, <2>2, CalledHistory DEF CallLive
    <3>2. r \in Calls
      BY <1>1, <2>2, <3>1
    <3>3. outcome[r] # "pending"
      BY <1>3, <3>1, <3>2 DEF IInv, CallOrderKept, Behind
    <3> QED BY <1>1, <1>3, <2>1, <3>2, <3>3, CalledHistory DEF CallLive
  <2>7. Behind'
    BY <1>3 DEF IInv, Behind, Call, flags
  <2> QED BY <2>3, <2>4, <2>5, <2>6, <2>7 DEF IInv
<1> QED BY <1>2, <1>3 DEF Call, flags, CallDone, CallLive

(* The request in hand is answered, and the frame that entered the body goes on: *)
(* a yield, and the last steps of xt_yield's return and of the end of the body.  *)
LEMMA AnsweredInv ==
    ASSUME IInv, body \in {"running", "resumed"}, NEW how \in Outcomes, how # "pending",
           outcome' = [outcome EXCEPT ![pending] = how], pending' = 0,
           frames' \in {<<>>, <<"drain">>},
           (body' = "gone" /\ done' = TRUE) \/ (body' = "yield" /\ done' = done),
           threw' \in BOOLEAN, resumeKind' \in Kinds,
           left' = IF done' /\ frames' = <<>> THEN ToSet(requests) ELSE {},
           UNCHANGED <<kinds, requests, started, waiter, awaits>>
    PROVE  IInv'
<1>1. /\ TypeOK /\ Calls = 1 .. Len(kinds) /\ Calls' = Calls /\ DOMAIN outcome = Calls
      /\ Len(kinds) \in Nat /\ Len(outcome) = Len(kinds)
  BY LenProperties DEF IInv, TypeOK, Calls
<1>2. pending \in Calls /\ frames # <<>> /\ ~done
  <2>1. pending \in Calls /\ ~done
    BY <1>1 DEF IInv, Control, TypeOK
  <2>2. frames \in {<<"start", "drain">>, <<"wake">>}
    BY DEF IInv, Shape, Running
  <2>3. frames # <<>>
    BY <2>2
  <2> QED BY <2>1, <2>3
<1>3. outcome' \in Seq(Outcomes) /\ Len(outcome') = Len(kinds)
  BY <1>1, <1>2, ExceptSeq DEF TypeOK
<1>4. \A r \in Calls : outcome'[r] = IF r = pending THEN how ELSE outcome[r]
  BY <1>1, <1>2
<1>5. TypeOK'
  <2>1. frames' \in Seq({"drain", "start", "wake"})
    BY Stacks
  <2>2. done' \in BOOLEAN
    BY <1>1 DEF TypeOK
  <2>3. ToSet(requests) \subseteq Calls
    <3>1. \A i \in DOMAIN requests : requests[i] \in Calls
      BY <1>1, LenProperties, ElementOfSeq DEF TypeOK
    <3> QED BY <3>1 DEF ToSet
  <2> QED BY <1>1, <1>3, <2>1, <2>2, <2>3 DEF TypeOK, Calls
<1>6. Shape' /\ Behind'
  BY DEF Shape, Running, Behind
<1>7. Control'
  BY <1>1, <1>2 DEF IInv, Control
<1>8. Queued'
  BY <1>1, <1>2, <1>4 DEF IInv, Queued
<1>9. CallOrderKept'
  <2> SUFFICES ASSUME NEW r \in Calls, NEW s \in Calls, r < s, outcome'[s] # "pending",
                      outcome'[r] = "pending"
               PROVE  FALSE
    BY <1>1 DEF CallOrderKept
  <2>1. outcome[r] = "pending" /\ r # pending
    BY <1>4
  <2>2. CASE s = pending
    BY <1>1, <1>2, <2>1, <2>2 DEF IInv, Queued
  <2>3. CASE s # pending
    BY <1>2, <1>4, <2>1, <2>3 DEF IInv, CallOrderKept, Behind
  <2> QED BY <2>2, <2>3
<1> QED BY <1>5, <1>6, <1>7, <1>8, <1>9 DEF IInv

(* Where control goes when the body is left. *)
LEMMA LeftBody ==
    ASSUME IInv, body \in {"running", "resumed"}
    PROVE  /\ pending # 0 /\ ~done /\ left = {} /\ Suspended = <<"drain">>
           /\ Tail(frames) \in {<<>>, <<"drain">>} /\ (Tail(frames) = <<>> <=> Top = "wake")
<1>1. frames \in {<<"start", "drain">>, <<"wake">>} /\ pending # 0 /\ ~done /\ left = {}
  BY DEF IInv, Shape, Running, Control, Behind
<1>2. CASE frames = <<"wake">>
  BY <1>1, <1>2, Stacks DEF Suspended, Top
<1>3. CASE frames = <<"start", "drain">>
  BY <1>1, <1>3, Stacks DEF Suspended, Top
<1> QED BY <1>1, <1>2, <1>3

LEMMA ResumeYieldInv == ASSUME IInv, ResumeYield PROVE IInv'
<1>1. body = "resumed" /\ resumeKind' = "next" /\ "next" \in Kinds
  BY DEF ResumeYield, Kinds
<1>2. CASE resumeKind = "return"
  <2>1. "done" \in Outcomes
    BY DEF Outcomes
  <2>2. threw' \in BOOLEAN
    BY <1>2 DEF ResumeYield
  <2>3. Finished("done") /\ UNCHANGED <<kinds, requests, started, waiter, awaits>>
    BY <1>2 DEF ResumeYield
  <2>4. pending # 0 /\ frames' \in {<<>>, <<"drain">>}
        /\ left' = IF done' /\ frames' = <<>> THEN ToSet(requests) ELSE {}
    BY <1>1, <2>3, LeftBody DEF Finished
  <2>5. /\ outcome' = [outcome EXCEPT ![pending] = "done"] /\ pending' = 0
        /\ body' = "gone" /\ done' = TRUE
    BY <2>3, <2>4 DEF Finished
  <2>6. (body' = "gone" /\ done' = TRUE) \/ (body' = "yield" /\ done' = done)
    BY <2>5
  <2>7. "done" # "pending" /\ body \in {"running", "resumed"} /\ resumeKind' \in Kinds
    BY <1>1
  <2> QED BY <2>1, <2>2, <2>3, <2>4, <2>5, <2>6, <2>7, AnsweredInv
<1>3. CASE resumeKind # "return"
  <2>1. /\ body' = "running" /\ UNCHANGED <<kinds, outcome, requests, pending, started,
                                            done, threw, waiter, frames, awaits, left>>
    BY <1>3 DEF ResumeYield
  <2>2. TypeOK'
    BY <1>1, <2>1 DEF IInv, TypeOK, Calls
  <2>3. Shape' /\ Control'
    BY <1>1, <2>1 DEF IInv, Shape, Control, Running
  <2>4. Queued' /\ Behind' /\ CallOrderKept'
    BY <2>1 DEF IInv, Queued, Behind, CallOrderKept, Calls
  <2> QED BY <2>2, <2>3, <2>4 DEF IInv
<1> QED BY <1>2, <1>3

(* A yield always answers: the body runs with a request in hand, and a throw     *)
(* that it caught is no longer the kind of that request.                         *)
LEMMA YieldInv == ASSUME IInv, Yield PROVE IInv'
<1>1. body = "running" /\ pending # 0 /\ resumeKind = "next"
  BY DEF Yield, Running, IInv, Control
<1>2. YieldSettles
  BY <1>1 DEF YieldSettles
<1>3. outcome' = [outcome EXCEPT ![pending] = "yielded"] /\ pending' = 0
  BY <1>1, <1>2 DEF Yield
<1>4. "yielded" \in Outcomes /\ threw \in BOOLEAN /\ resumeKind \in Kinds
  BY DEF Outcomes, IInv, TypeOK
<1>5. frames' = <<"drain">> /\ left' = {} /\ ~done'
  BY <1>1, LeftBody DEF Yield, flags
<1> QED BY <1>1, <1>3, <1>4, <1>5, AnsweredInv DEF Yield, flags

LEMMA FinishInv ==
    ASSUME IInv, NEW escaped \in BOOLEAN, Finish(escaped)
    PROVE  IInv'
<1> DEFINE how == IF escaped THEN "rejected" ELSE "done"
<1>1. body = "running" /\ threw' \in BOOLEAN /\ resumeKind' \in Kinds
  BY DEF Finish, Running, IInv, TypeOK
<1>2. how \in Outcomes /\ how # "pending" /\ Finished(how)
  BY DEF Outcomes, Finish
<1>3. UNCHANGED <<kinds, requests, started, waiter, awaits>>
  BY DEF Finish
<1> HIDE DEF how
<1>4. pending # 0 /\ frames' \in {<<>>, <<"drain">>}
      /\ left' = IF done' /\ frames' = <<>> THEN ToSet(requests) ELSE {}
  BY <1>1, <1>2, LeftBody DEF Finished
<1>5. /\ outcome' = [outcome EXCEPT ![pending] = how] /\ pending' = 0
      /\ body' = "gone" /\ done' = TRUE
  BY <1>2, <1>4 DEF Finished
<1>6. (body' = "gone" /\ done' = TRUE) \/ (body' = "yield" /\ done' = done)
  BY <1>5
<1>7. body \in {"running", "resumed"}
  BY <1>1
<1> QED BY <1>1, <1>2, <1>3, <1>4, <1>5, <1>6, <1>7, AnsweredInv

LEMMA AwaitInv == ASSUME IInv, Await PROVE IInv'
<1>1. /\ body = "running" /\ body' = "await" /\ waiter' \in {"registered", "queued"}
      /\ frames' = <<"drain">> /\ ~done /\ awaits' = awaits + 1 /\ left = {} /\ left' = {}
      /\ UNCHANGED <<kinds, outcome, requests, pending, resumeKind, started, done, threw>>
  BY LeftBody DEF Await, Running, flags, IInv, Control
<1>2. TypeOK'
  <2>1. frames' \in Seq({"drain", "start", "wake"})
    BY <1>1, Stacks
  <2>2. awaits' \in 0 .. MaxAwaits
    BY <1>1, GeneratorsAssumption DEF Await, IInv, TypeOK
  <2> QED BY <1>1, <2>1, <2>2 DEF IInv, TypeOK, Calls
<1>3. Shape' /\ Control' /\ Behind'
  BY <1>1 DEF IInv, Shape, Control, Running, Behind
<1>4. Queued' /\ CallOrderKept'
  BY <1>1 DEF IInv, Queued, CallOrderKept, Calls
<1> QED BY <1>2, <1>3, <1>4 DEF IInv
-----------------------------------------------------------------------------
LEMMA StartNextInv == ASSUME IInv, StartNext PROVE IInv'
<1> DEFINE n == Len(requests)
<1>1. TypeOK /\ pending = 0 /\ requests # <<>> /\ requests' = Tail(requests)
  BY DEF IInv, StartNext, MayStart
<1>2. frames = <<"drain">> /\ body \in {"new", "yield", "gone"}
  BY <1>1, Stacks DEF IInv, Shape, Control, Running, StartNext, Top, TypeOK
<1>13. left = {} /\ left' = {}
  BY <1>2 DEF IInv, Behind, StartNext
<1>3. /\ n \in Nat /\ n > 0 /\ DOMAIN requests = 1 .. n
      /\ Oldest = requests[1] /\ Oldest \in Calls
      /\ Tail(requests) \in Seq(Calls)
      /\ DOMAIN Tail(requests) = 1 .. n - 1
      /\ \A i \in 1 .. n - 1 : Tail(requests)[i] = requests[i + 1]
  BY <1>1, ShorterQueue
<1>4. /\ Calls = 1 .. Len(kinds) /\ Calls' = Calls /\ DOMAIN outcome = Calls
      /\ Len(kinds) \in Nat /\ Len(outcome) = Len(kinds)
  BY <1>1, LenProperties DEF TypeOK, Calls, StartNext
<1>5. kinds[Oldest] \in Kinds
  BY <1>1, <1>3, <1>4, ElementOfSeq DEF TypeOK
<1>6. DoneOutcome(kinds[Oldest]) \in Outcomes /\ DoneOutcome(kinds[Oldest]) # "pending"
  BY DEF DoneOutcome, Outcomes
(* The queue keeps its order, and the head was its least request. *)
<1>7. /\ \A i, j \in DOMAIN requests' : i < j => requests'[i] < requests'[j]
      /\ \A i \in DOMAIN requests' : Oldest < requests'[i]
  <2>1. \A i, j \in 1 .. n : i < j => requests[i] < requests[j]
    BY <1>3 DEF IInv, Queued
  <2> QED BY <1>1, <1>3, <2>1
<1>8. ASSUME NEW r \in Calls, outcome[r] = "pending"
      PROVE  r = Oldest \/ \E i \in DOMAIN requests' : requests'[i] = r
  <2>1. PICK i \in 1 .. n : requests[i] = r
    BY <1>1, <1>3, <1>4, <1>8 DEF IInv, Queued
  <2>2. CASE i = 1
    BY <1>3, <2>1, <2>2
  <2>3. CASE i # 1
    <3>1. i - 1 \in 1 .. n - 1 /\ Tail(requests)[i - 1] = r
      BY <1>3, <2>1, <2>3
    <3> QED BY <1>1, <1>3, <3>1
  <2> QED BY <2>2, <2>3
<1>9. \A r, s \in Calls : r < s /\ outcome[s] # "pending" => outcome[r] # "pending"
  BY <1>13 DEF IInv, CallOrderKept
<1>10. /\ Len(kinds) <= MaxCalls /\ kinds' \in Seq(Kinds) /\ requests' \in Seq(Calls')
       /\ Len(kinds') = Len(kinds) /\ resumeKind' \in Kinds
       /\ waiter' \in {"none", "registered", "queued"} /\ awaits' \in 0 .. MaxAwaits
  BY <1>1, <1>3, <1>4, <1>5 DEF TypeOK, StartNext
<1>11. CASE AnswerDone \/ CloseUnstarted
  <2>1. /\ outcome' = [outcome EXCEPT ![Oldest] = DoneOutcome(kinds[Oldest])]
        /\ UNCHANGED <<kinds, pending, started, body, frames, waiter>>
        /\ done' = TRUE /\ threw' \in BOOLEAN
    BY <1>1, <1>11 DEF AnswerDone, CloseUnstarted, StartNext, flags, TypeOK
  <2>2. outcome' \in Seq(Outcomes) /\ Len(outcome') = Len(kinds)
    BY <1>1, <1>3, <1>4, <1>6, <2>1, ExceptSeq DEF TypeOK
  <2>3. \A r \in Calls : outcome'[r] = IF r = Oldest THEN DoneOutcome(kinds[Oldest])
                                       ELSE outcome[r]
    BY <1>4, <2>1
  <2>4. TypeOK'
    BY <1>1, <1>4, <1>10, <1>13, <2>1, <2>2 DEF TypeOK
  <2>5. Shape' /\ Behind'
    BY <1>2, <1>13, <2>1 DEF IInv, Shape, Running, Behind
  <2>6. done => body \in {"gone", "new"}
    BY DEF IInv, Control
  <2>7. body \in {"gone", "new"}
    <3>1. CASE AnswerDone
      BY <2>6, <3>1 DEF AnswerDone
    <3>2. CASE CloseUnstarted
      BY <3>2 DEF CloseUnstarted, IInv, Control
    <3> QED BY <1>11, <3>1, <3>2
  <2>8. Control'
    BY <1>1, <2>1, <2>7 DEF IInv, Control
  <2>9. Queued'
    BY <1>1, <1>4, <1>6, <1>7, <1>8, <2>1, <2>3 DEF Queued
  <2>10. CallOrderKept'
    <3> SUFFICES ASSUME NEW r \in Calls, NEW s \in Calls, r < s, outcome'[s] # "pending",
                        outcome'[r] = "pending"
                 PROVE  FALSE
      BY <1>4 DEF CallOrderKept
    <3>1. outcome[r] = "pending" /\ r # Oldest
      BY <1>6, <2>3
    <3>2. CASE s = Oldest
      BY <1>4, <1>7, <1>8, <3>1, <3>2
    <3>3. CASE s # Oldest
      BY <1>9, <2>3, <3>1, <3>3
    <3> QED BY <3>2, <3>3
  <2> QED BY <2>4, <2>5, <2>8, <2>9, <2>10 DEF IInv
<1>12. CASE EnterBody
  <2>1. /\ started' = TRUE /\ pending' = Oldest /\ body' \in {"running", "resumed"}
        /\ body' = "running" => body = "new"
        /\ frames' = <<"start", "drain">> /\ ~done
        /\ UNCHANGED <<kinds, done, threw, outcome, waiter>>
    BY <1>2, <1>12, Stacks DEF EnterBody, StartNext
  <2>2. resumeKind' = kinds[Oldest] /\ (body' = "running" => kinds[Oldest] = "next")
    BY <1>12, <2>1 DEF EnterBody, StartNext, IInv, Control
  <2>3. frames' \in Seq({"drain", "start", "wake"})
    BY <2>1, Stacks
  <2>4. TypeOK'
    BY <1>1, <1>3, <1>4, <1>10, <1>13, <2>1, <2>3 DEF TypeOK
  <2>5. Shape' /\ Behind'
    BY <1>13, <2>1 DEF Shape, Running, Behind
  <2>6. Oldest # 0 /\ waiter = "none"
    BY <1>2, <1>3, <1>4 DEF IInv, Control
  <2>7. Control'
    BY <2>1, <2>2, <2>6 DEF Control
  <2>8. Queued'
    BY <1>4, <1>7, <1>8, <2>1 DEF Queued
  <2>9. CallOrderKept'
    BY <1>4, <1>9, <2>1 DEF CallOrderKept
  <2> QED BY <2>4, <2>5, <2>7, <2>8, <2>9 DEF IInv
<1> QED BY <1>11, <1>12 DEF StartNext

LEMMA DrainEndsInv == ASSUME IInv, DrainEnds PROVE IInv'
<1>1. frames \in {<<>>, <<"drain">>, <<"start", "drain">>, <<"wake">>}
  BY DEF IInv, Shape
<1>2. frames = <<"drain">>
  BY <1>1, Stacks DEF DrainEnds, Top
<1>3. frames' = <<>> /\ body \notin {"running", "resumed"}
  BY <1>2, Stacks DEF DrainEnds, IInv, Shape, Running
<1>4. UNCHANGED <<kinds, outcome, requests, pending, resumeKind, started, done, threw,
                  body, waiter, awaits, left>>
  BY DEF DrainEnds, flags
<1>5. TypeOK'
  <2>1. frames' \in Seq({"drain", "start", "wake"})
    BY <1>3, Stacks
  <2> QED BY <1>4, <2>1 DEF IInv, TypeOK, Calls
<1>6. Shape' /\ Control' /\ Queued'
  BY <1>3, <1>4 DEF IInv, Shape, Running, Control, Queued, Calls
<1>7. CallOrderKept'
  BY <1>4 DEF IInv, CallOrderKept, Calls
(* A drain that ends on a finished generator has emptied the queue. *)
<1>8. Behind'
  <2>1. left' = {}
    BY <1>2, <1>4 DEF IInv, Behind
  <2>2. done => requests = <<>>
    BY <1>3 DEF DrainEnds, MayStart, IInv, Control
  <2>3. ToSet(<<>>) = {}
    BY DEF ToSet
  <2> QED BY <1>3, <1>4, <2>1, <2>2, <2>3 DEF Behind
<1> QED BY <1>5, <1>6, <1>7, <1>8 DEF IInv

LEMMA AwaitedSettlesInv == ASSUME IInv, AwaitedSettles PROVE IInv'
<1>1. /\ waiter = "registered" /\ waiter' = "queued"
      /\ UNCHANGED <<kinds, outcome, requests, pending, resumeKind, started, done, threw,
                     body, frames, awaits, left>>
  BY DEF AwaitedSettles, flags
<1>2. TypeOK'
  BY <1>1 DEF IInv, TypeOK, Calls
<1>3. Shape' /\ Control' /\ Queued' /\ Behind' /\ CallOrderKept'
  BY <1>1 DEF IInv, Shape, Running, Control, Queued, Behind, CallOrderKept, Calls
<1> QED BY <1>2, <1>3 DEF IInv

LEMMA WakeInv == ASSUME IInv, Wake PROVE IInv'
<1>1. /\ waiter' = "none" /\ body' = "running" /\ frames' = <<"wake">> /\ ~done /\ body = "await"
      /\ UNCHANGED <<kinds, outcome, requests, pending, resumeKind, started, done, threw, awaits, left>>
  BY DEF Wake, flags, IInv, Control
<1>2. TypeOK'
  <2>1. frames' \in Seq({"drain", "start", "wake"})
    BY <1>1, Stacks
  <2> QED BY <1>1, <2>1 DEF IInv, TypeOK, Calls
<1>3. Shape' /\ Control' /\ Queued' /\ Behind' /\ CallOrderKept'
  BY <1>1 DEF IInv, Shape, Running, Control, Queued, Behind, CallOrderKept, Calls
<1> QED BY <1>2, <1>3 DEF IInv

LEMMA StutterInv == ASSUME IInv, UNCHANGED vars PROVE IInv'
<1>1. UNCHANGED <<kinds, outcome, requests, pending, resumeKind, started, done, threw,
                  body, waiter, frames, awaits, left>>
  BY DEF vars, flags
<1>2. TypeOK'
  BY <1>1 DEF IInv, TypeOK, Calls
<1>3. Shape' /\ Control' /\ Queued' /\ Behind' /\ CallOrderKept'
  BY <1>1 DEF IInv, Shape, Running, Control, Queued, Behind, CallOrderKept, Calls
<1> QED BY <1>2, <1>3 DEF IInv

LEMMA Inductive == ASSUME IInv, [Next]_vars PROVE IInv'
<1>1. CASE UNCHANGED vars
  BY <1>1, StutterInv
<1>2. CASE \E kind \in Kinds : Call(kind)
  BY <1>2, CallInv
<1>3. CASE StartNext
  BY <1>3, StartNextInv
<1>4. CASE DrainEnds
  BY <1>4, DrainEndsInv
<1>5. CASE ResumeYield
  BY <1>5, ResumeYieldInv
<1>6. CASE Yield
  BY <1>6, YieldInv
<1>7. CASE Await
  BY <1>7, AwaitInv
<1>8. CASE \E escaped \in BOOLEAN : Finish(escaped)
  BY <1>8, FinishInv
<1>9. CASE AwaitedSettles
  BY <1>9, AwaitedSettlesInv
<1>10. CASE Wake
  BY <1>10, WakeInv
<1> QED BY <1>1, <1>2, <1>3, <1>4, <1>5, <1>6, <1>7, <1>8, <1>9, <1>10 DEF Next, Step, BodyStep

LEMMA Invariance == Spec => []IInv
<1>1. Init => IInv
  BY InitInv
<1>2. IInv /\ [Next]_vars => IInv'
  BY Inductive
<1> QED BY <1>1, <1>2, PTL DEF Spec, SafeSpec
-----------------------------------------------------------------------------
(* Every variable of the generator has its type, however many calls and awaits. *)
THEOREM TypeCorrect == Spec => []TypeOK
<1>1. IInv => TypeOK
  BY DEF IInv
<1> QED BY <1>1, Invariance, PTL

LEMMA EnteredOnce == ASSUME IInv PROVE BodyEnteredOnce
<1>1. CASE body \in {"running", "resumed"}
  <2>1. frames \in {<<"start", "drain">>, <<"wake">>}
    BY <1>1 DEF IInv, Shape, Running
  <2>2. \A i \in DOMAIN frames : frames[i] # "drain" => i = 1
    BY <2>1
  <2>3. 1 \in DOMAIN frames /\ frames[1] # "drain"
    BY <2>1
  <2> QED BY <1>1, <2>2, <2>3 DEF BodyEnteredOnce, IInv, Control
<1>2. CASE body \notin {"running", "resumed"}
  <2>1. frames \in {<<>>, <<"drain">>}
    BY <1>2 DEF IInv, Shape, Running
  <2>2. \A i \in DOMAIN frames : frames[i] = "drain"
    BY <2>1
  <2> QED BY <1>2, <2>2 DEF BodyEnteredOnce, IInv, Control
<1> QED BY <1>1, <1>2

(* xt_generator_enter and xt_generator_wake never enter the coroutine while one  *)
(* frame already is inside it or at a place where it did not suspend.            *)
THEOREM EnteredOnlyOnce == Spec => []BodyEnteredOnce
<1>1. IInv => BodyEnteredOnce
  BY EnteredOnce
<1> QED BY <1>1, Invariance, PTL

(* Requests are answered in the order of the calls, except those that a body     *)
(* left behind that ended after an await.                                        *)
THEOREM OrderKept == Spec => []CallOrderKept
<1>1. IInv => CallOrderKept
  BY DEF IInv
<1> QED BY <1>1, Invariance, PTL
=============================================================================
