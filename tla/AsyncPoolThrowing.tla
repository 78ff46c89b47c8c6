------------------------- MODULE AsyncPoolThrowing --------------------------
(***************************************************************************)
(* The I/O pool when JavaScript called by a completion throws.             *)
(*                                                                         *)
(* xt_async_poll sets up no try frame around job->complete, and xt_throw   *)
(* longjmps to the innermost frame (xt_io/exception.inc).  The completion  *)
(* of a readline job calls 'line' listeners directly, so while a top-level *)
(* await blocks on the reactor inside a try statement an exception from a  *)
(* listener unwinds through xt_async_poll into that statement.             *)
(***************************************************************************)
EXTENDS AsyncPool

CONSTANTS j1, j2, j3, w1, w2

MCSpawnable == {{w1}, {w1, w2}}

(* The exception unwinds to JavaScript that is blocked in an xt_await further *)
(* out.  A timer callback runs under a boundary of its own (xt_timer_invoke). *)
Throw ==
    /\ pc = "js"
    /\ \E i \in DOMAIN frames :
        /\ frames[i].kind = "await"
        /\ \A k \in 1 .. i - 1 : frames[k].kind # "turn"
        /\ frames' = SubSeq(frames, i + 1, Len(frames))
    /\ UNCHANGED <<work, done, live, pending, started, created, pipe, watching,
                   workerVars, pc, publishing, tail, ended, silent>>

ThrowingSpec == Init /\ [][Next \/ Throw]_vars

(* xt_async_io.h promises that xt_async_pending is the number of submitted     *)
(* jobs whose completion has not run yet; a job whose completion threw stays   *)
(* counted, and the loop then never finds that it has no work.                 *)
PendingNeverStale == pending = Cardinality(Unfinished)
=============================================================================
