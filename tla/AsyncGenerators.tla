-------------------------- MODULE AsyncGenerators --------------------------
(***************************************************************************)
(* One async generator of runtime/xt_generator.c: the queue of its next,   *)
(* throw and return requests, and the body on its own stack, which         *)
(* suspends at yield and at await.                                         *)
(*                                                                         *)
(* Requests are numbered in the order of the calls.  A call comes from a   *)
(* task of the event loop or from inside the body, which may call methods  *)
(* of its own generator.  The C frames that work on the generator form the *)
(* sequence frames, the innermost first: "drain" is the loop of            *)
(* xt_generator_drain_requests, "start" is xt_generator_start_next and     *)
(* "wake" is xt_generator_wake, the last two inside xt_generator_enter.    *)
(*                                                                         *)
(* Definitions whose names begin with Bug are wrong on purpose: each is    *)
(* the variant of the definition after it that some property must refute.  *)
(***************************************************************************)
EXTENDS Integers, Sequences, SequencesExt

CONSTANTS
    MaxCalls,     \* bound: calls of next, throw and return in one execution
    MaxAwaits     \* bound: awaits of the body in one execution

ASSUME GeneratorsAssumption == MaxCalls \in Nat /\ MaxAwaits \in Nat

VARIABLES
    kinds,        \* history: the kind of each request, in the order of the calls
    outcome,      \* the state of the promise each call returned
    requests,     \* gen->requests: the queued requests
    pending,      \* the request of gen->pending_promise, 0 if undefined
    resumeKind,   \* gen->resume_kind
    started,      \* gen->started
    done,         \* gen->done
    threw,        \* gen->threw
    body,         \* where the coroutine is
    waiter,       \* the one wakeup the body arranged at an await
    frames,       \* C frames inside the generator, innermost first
    awaits,       \* history: number of awaits so far
    left          \* history: the requests a body that ended left in the queue

flags == <<started, done, threw>>
vars == <<kinds, outcome, requests, pending, resumeKind, flags, body, waiter, frames, awaits, left>>

Kinds == {"next", "throw", "return"}
Outcomes == {"pending", "yielded", "done", "rejected"}
Calls == DOMAIN kinds

Top == IF frames = <<>> THEN "none" ELSE Head(frames)
Running == body = "running"

\* How a request that finds the generator finished is answered.
DoneOutcome(kind) == IF kind = "throw" THEN "rejected" ELSE "done"
-----------------------------------------------------------------------------
Init ==
    /\ kinds = <<>> /\ outcome = <<>>
    /\ requests = <<>> /\ pending = 0 /\ resumeKind = "next"
    /\ started = FALSE /\ done = FALSE /\ threw = FALSE
    /\ body = "new" /\ waiter = "none"
    /\ frames = <<>>
    /\ awaits = 0 /\ left = {}

(* xt_async_enqueue on a finished generator: a settled promise, at once. *)
CallDone(kind) ==
    /\ done
    /\ outcome' = Append(outcome, DoneOutcome(kind))
    /\ UNCHANGED <<requests, frames>>

Occupied == pending # 0

BugSlotIndex == Len(kinds)
NewRequest == Len(kinds) + 1

(* xt_async_enqueue on a live one: queue the request, and start to work on the  *)
(* queue unless a request is being executed.                                    *)
CallLive ==
    /\ ~done
    /\ outcome' = Append(outcome, "pending")
    /\ requests' = Append(requests, NewRequest)
    /\ frames' = IF Occupied THEN frames ELSE <<"drain">> \o frames

Call(kind) ==
    /\ frames = <<>> \/ Running
    /\ Len(kinds) < MaxCalls
    /\ kinds' = Append(kinds, kind)
    /\ CallDone(kind) \/ CallLive
    /\ UNCHANGED <<pending, resumeKind, flags, body, waiter, awaits, left>>
-----------------------------------------------------------------------------
BugStartWhileExecuting == requests # <<>>
MayStart == pending = 0 /\ requests # <<>>

BugNewest == Last(requests)
Oldest == Head(requests)

(* xt_generator_start_next on a generator that a request before it finished. *)
AnswerDone ==
    /\ done
    /\ outcome' = [outcome EXCEPT ![Oldest] = DoneOutcome(kinds[Oldest])]
    /\ UNCHANGED <<pending, flags, body, frames>>

(* throw and return before the first next: the body never runs. *)
CloseUnstarted ==
    /\ ~done /\ ~started
    /\ kinds[Oldest] # "next"
    /\ done' = TRUE
    /\ threw' = (kinds[Oldest] = "throw")
    /\ outcome' = [outcome EXCEPT ![Oldest] = DoneOutcome(kinds[Oldest])]
    /\ UNCHANGED <<pending, started, body, frames>>

(* Enter the coroutine, at its first statement or in the middle of xt_yield. *)
EnterBody ==
    /\ ~done
    /\ started \/ kinds[Oldest] = "next"
    /\ started' = TRUE
    /\ pending' = Oldest
    /\ body' = IF body = "new" THEN "running" ELSE "resumed"
    /\ frames' = <<"start">> \o frames
    /\ UNCHANGED <<done, threw, outcome>>

StartNext ==
    /\ Top = "drain"
    /\ MayStart
    /\ resumeKind' = kinds[Oldest]
    /\ requests' = Tail(requests)
    /\ AnswerDone \/ CloseUnstarted \/ EnterBody
    /\ UNCHANGED <<kinds, waiter, awaits, left>>

DrainEnds ==
    /\ Top = "drain"
    /\ ~MayStart
    /\ frames' = Tail(frames)
    /\ UNCHANGED <<kinds, outcome, requests, pending, resumeKind, flags, body, waiter, awaits, left>>
-----------------------------------------------------------------------------
BugWakeOnlyReturns == Tail(frames)

(* Back in the frame that entered the coroutine, which suspended again:         *)
(* xt_generator_start_next returns to its loop, xt_generator_wake enters one.   *)
Suspended == IF Top = "wake" THEN <<"drain">> \o Tail(frames) ELSE Tail(frames)

(* Back in that frame with gen->done set: xt_generator_settle_pending.  The     *)
(* drain loop below xt_generator_start_next goes on, but xt_generator_wake does *)
(* not look at the queue again and leaves its requests behind.                  *)
Finished(how) ==
    /\ done' = TRUE
    /\ body' = "gone"
    /\ outcome' = IF pending = 0 THEN outcome ELSE [outcome EXCEPT ![pending] = how]
    /\ pending' = 0
    /\ frames' = Tail(frames)
    /\ left' = IF Top = "wake" THEN ToSet(requests) ELSE left

(* xt_yield after the context switch: a throw is raised in the body, where a    *)
(* handler may catch it; a return leaves for good.                              *)
ResumeYield ==
    /\ body = "resumed"
    /\ resumeKind' = "next"
    /\ \/ /\ resumeKind # "return"
          /\ body' = "running"
          /\ UNCHANGED <<outcome, pending, done, threw, frames, left>>
       \/ /\ resumeKind = "return"
          /\ threw' = FALSE
          /\ Finished("done")
    /\ UNCHANGED <<kinds, requests, started, waiter, awaits>>

\* The guard of the settlement in xt_yield.
YieldSettles == pending # 0 /\ resumeKind # "throw"

Yield ==
    /\ Running
    /\ body' = "yield"
    /\ \/ /\ YieldSettles
          /\ outcome' = [outcome EXCEPT ![pending] =
                             IF resumeKind = "return" THEN "done" ELSE "yielded"]
          /\ pending' = 0
       \/ /\ ~YieldSettles
          /\ UNCHANGED <<outcome, pending>>
    /\ frames' = Suspended
    /\ UNCHANGED <<kinds, requests, resumeKind, flags, waiter, awaits, left>>

(* xt_generator_await: a pending promise gets a waiter, for a settled one or a  *)
(* plain value a microtask is queued.                                           *)
Await ==
    /\ Running
    /\ awaits < MaxAwaits
    /\ awaits' = awaits + 1
    /\ body' = "await"
    /\ waiter' \in {"registered", "queued"}
    /\ frames' = Suspended
    /\ UNCHANGED <<kinds, outcome, requests, pending, resumeKind, flags, left>>

(* xt_generator_run: the body returns, or an exception escapes it. *)
Finish(escaped) ==
    /\ Running
    /\ threw' = escaped
    /\ Finished(IF escaped THEN "rejected" ELSE "done")
    /\ UNCHANGED <<kinds, requests, resumeKind, started, waiter, awaits>>
-----------------------------------------------------------------------------
(* The awaited promise settles and its reaction goes to the microtask queue. *)
AwaitedSettles ==
    /\ waiter = "registered"
    /\ waiter' = "queued"
    /\ UNCHANGED <<kinds, outcome, requests, pending, resumeKind, flags, body, frames, awaits, left>>

(* xt_generator_wake, from the microtask loop. *)
Wake ==
    /\ frames = <<>>
    /\ waiter = "queued"
    /\ ~done
    /\ waiter' = "none"
    /\ body' = "running"
    /\ frames' = <<"wake">>
    /\ UNCHANGED <<kinds, outcome, requests, pending, resumeKind, flags, awaits, left>>

BodyStep == ResumeYield \/ Yield \/ Await \/ \E escaped \in BOOLEAN : Finish(escaped)
Step == StartNext \/ DrainEnds \/ BodyStep \/ AwaitedSettles \/ Wake

Next == Step \/ \E kind \in Kinds : Call(kind)

SafeSpec == Init /\ [][Next]_vars

(* The body and the microtask loop go on, and what is awaited settles. *)
Spec == SafeSpec /\ WF_vars(Step)
-----------------------------------------------------------------------------
(* Every variable has its type. *)
TypeOK ==
    /\ kinds \in Seq(Kinds) /\ Len(kinds) <= MaxCalls
    /\ outcome \in Seq(Outcomes) /\ Len(outcome) = Len(kinds)
    /\ requests \in Seq(Calls)
    /\ pending \in Calls \cup {0}
    /\ resumeKind \in Kinds
    /\ started \in BOOLEAN /\ done \in BOOLEAN /\ threw \in BOOLEAN
    /\ body \in {"new", "running", "resumed", "yield", "await", "gone"}
    /\ waiter \in {"none", "registered", "queued"}
    /\ frames \in Seq({"drain", "start", "wake"})
    /\ awaits \in 0 .. MaxAwaits
    /\ left \subseteq Calls

(* The coroutine is entered only where it suspended: one C frame is inside it   *)
(* exactly while its body runs, it is woken exactly while it awaits, and then,  *)
(* as while it runs, it holds the request it works for, so a call in between    *)
(* cannot resume it at the await.                                               *)
BodyEnteredOnce ==
    /\ (\E i \in DOMAIN frames : frames[i] # "drain") <=> body \in {"running", "resumed"}
    /\ \A i, j \in DOMAIN frames : frames[i] # "drain" /\ frames[j] # "drain" => i = j
    /\ waiter # "none" <=> body = "await"
    /\ pending # 0 <=> body \in {"running", "resumed", "await"}

Waits(r) == r \in Calls /\ outcome[r] = "pending"

(* "Requests are processed in call order" (xt_generator.c:28), with the one     *)
(* exception the code has: a request is answered before an older one only when  *)
(* the older one was left behind by a body that ended after an await.           *)
CallOrderKept ==
    \A r, s \in Calls : r < s /\ outcome[s] # "pending" =>
                            outcome[r] # "pending" \/ r \in left

(* Each call's promise settles, or the body ended after an await and left the   *)
(* request behind; a suspended generator always works off its queue.            *)
RequestsSettle == \A r \in 1 .. MaxCalls : Waits(r) ~> (~Waits(r) \/ r \in left)
=============================================================================
