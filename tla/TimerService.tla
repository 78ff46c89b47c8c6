---------------------------- MODULE TimerService ----------------------------
(***************************************************************************)
(* What setTimeout, setInterval and the clear functions promise to a       *)
(* program.  There is a set of pending timers.  A round takes the timers   *)
(* whose deadlines have passed when it begins and calls them one by one,   *)
(* in the order they were set; timers set meanwhile wait for a later       *)
(* round, and a cleared timer is not called.  Arrays, positions,           *)
(* compaction and the wait of the event loop are invisible here.           *)
(***************************************************************************)
EXTENDS Integers

CONSTANT Delays   \* the delays in milliseconds a program asks for

VARIABLES pending,   \* the timers that still have to be called
          issued,    \* how many timers were ever set
          round,     \* the pending timers that the round in progress has yet to call
          begun,     \* when the round in progress began, NoRound when there is none
          busy,      \* JavaScript is running
          over,      \* the event loop has ended
          clock      \* milliseconds

vars == <<pending, issued, round, begun, busy, over, clock>>

NoRound == -1

Init ==
    /\ pending = {} /\ issued = 0
    /\ round = {} /\ begun = NoRound
    /\ busy = TRUE /\ over = FALSE
    /\ clock = 0

Set(delay, interval) ==
    /\ busy
    /\ issued' = issued + 1
    /\ pending' = pending \cup {[id |-> issued', due |-> clock + delay, interval |-> interval]}
    /\ UNCHANGED <<round, begun, busy, over, clock>>

\* An interval is at least one millisecond, its first delay need not be.
SetTimer(delay) == Set(delay, 0) \/ Set(delay, IF delay > 0 THEN delay ELSE 1)

Clear(id) ==
    /\ busy
    /\ pending' = {t \in pending : t.id # id}
    /\ round' = {t \in round : t.id # id}
    /\ UNCHANGED <<issued, begun, busy, over, clock>>

Due == {t \in pending : t.due <= clock}

Begin ==
    /\ ~busy /\ ~over /\ begun = NoRound
    /\ round' = Due
    /\ begun' = clock
    /\ UNCHANGED <<pending, issued, busy, over, clock>>

\* The timer that was set first is called: an interval is armed again, counted
\* from the beginning of the round, a one-shot timer is gone.
Call(t) ==
    /\ ~busy
    /\ t \in round /\ \A u \in round : t.id <= u.id
    /\ round' = round \ {t}
    /\ pending' = IF t.interval > 0
                  THEN (pending \ {t}) \cup {[t EXCEPT !.due = begun + t.interval]}
                  ELSE pending \ {t}
    /\ busy' = TRUE
    /\ UNCHANGED <<issued, begun, over, clock>>

\* Microtasks run between the rounds.
End ==
    /\ ~busy /\ begun # NoRound /\ round = {}
    /\ begun' = NoRound
    /\ busy' = TRUE
    /\ UNCHANGED <<pending, issued, round, over, clock>>

Return ==
    /\ busy /\ busy' = FALSE
    /\ UNCHANGED <<pending, issued, round, begun, over, clock>>

Exit ==
    /\ ~busy /\ ~over /\ begun = NoRound
    /\ pending = {}
    /\ over' = TRUE
    /\ UNCHANGED <<pending, issued, round, begun, busy, clock>>

Tick ==
    /\ ~over
    /\ clock' = clock + 1
    /\ UNCHANGED <<pending, issued, round, begun, busy, over>>

Next ==
    \/ \E d \in Delays : SetTimer(d)
    \/ \E id \in 1 .. issued : Clear(id)
    \/ \E t \in round : Call(t)
    \/ Begin \/ End \/ Return \/ Exit \/ Tick

(* Scripts return, a round calls all of its timers, and a round begins when a  *)
(* deadline has passed.                                                        *)
Fairness ==
    /\ WF_vars(Return)
    /\ WF_vars(End \/ \E t \in round : Call(t))
    /\ WF_vars(Due # {} /\ Begin)
    /\ WF_vars(Exit)

SafeSpec == Init /\ [][Next]_vars
Spec == SafeSpec /\ Fairness
=============================================================================
