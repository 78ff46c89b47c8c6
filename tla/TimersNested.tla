---------------------------- MODULE TimersNested ----------------------------
(***************************************************************************)
(* The timers when a callback polls the reactor from inside a pass.        *)
(*                                                                         *)
(* Promise.all, Promise.race and Promise.any wait for a pending element    *)
(* with xt_await.  In a timer callback that is not an async function there *)
(* is no coroutine to suspend, so xt_await calls xt_loop_poll, and this    *)
(* runs xt_timer_run_due again while the outer pass is in its loop: the    *)
(* inner pass compacts the array, the outer one keeps its index and limit. *)
(***************************************************************************)
EXTENDS Timers

CONSTANT MaxNest   \* bound: passes in progress at the same time

(* The wait of the inner xt_loop_poll is over; its pass begins. *)
NestedPoll ==
    /\ mode = "js"
    /\ passes # <<>>
    /\ Len(passes) < MaxNest
    /\ StartPass
    /\ UNCHANGED <<nextId, clock, fired, cleared>>

NestedSpec == Init /\ [][Next \/ NestedPoll]_vars

(* A timer that is not an interval is "one-shot" (the comment of               *)
(* xt_timer_compact): its callback runs once.                                  *)
FiredOneShotsRest ==
    \A k \in Ids : mem[k].id # 0 /\ mem[k].interval = 0 => fired[mem[k].id] <= 1
=============================================================================
