----------------------------- MODULE JobService -----------------------------
(***************************************************************************)
(* What the asynchronous I/O pool of the runtime promises to the code that *)
(* submits jobs (xt_async_io.h): every job is run once on a worker, is     *)
(* completed once on the main thread after it ran, and is released only    *)
(* then.  Queues, threads, the wake pipe and the event loop are invisible  *)
(* here.                                                                   *)
(*                                                                         *)
(* One case is part of the promise only because the code has it: when no   *)
(* thread could be created at all, jobs are completed without having been  *)
(* run (Bypass).  Once one worker exists no job is ever bypassed.          *)
(***************************************************************************)
CONSTANTS Jobs,     \* the jobs a program submits during one execution
          Endless   \* the jobs whose run never returns (a read of a silent terminal)

VARIABLES phase,    \* phase[j]: how far job j has come
          staffed   \* at least one worker thread exists

vars == <<phase, staffed>>

Phases == {"new", "queued", "running", "ready", "completing", "closed"}

Init == /\ phase = [j \in Jobs |-> "new"]
        /\ staffed = FALSE

Step(j, from, to) == /\ phase[j] = from
                     /\ phase' = [phase EXCEPT ![j] = to]
                     /\ UNCHANGED staffed

Take(j) == Step(j, "new", "queued")

\* The pool is staffed once, for the first job, before any job has left the queue.
Staff == /\ ~staffed
         /\ \E j \in Jobs : phase[j] = "queued"
         /\ \A j \in Jobs : phase[j] \in {"new", "queued"}
         /\ staffed' = TRUE
         /\ UNCHANGED phase

Bypass(j) == ~staffed /\ Step(j, "queued", "ready")

Run(j) == staffed /\ Step(j, "queued", "running")

Finish(j) == Step(j, "running", "ready")

Complete(j) == Step(j, "ready", "completing")

Close(j) == Step(j, "completing", "closed")

Next == Staff \/ \E j \in Jobs : \/ Take(j) \/ Bypass(j) \/ Run(j)
                                 \/ Finish(j) \/ Complete(j) \/ Close(j)

Fairness == \A j \in Jobs : /\ WF_vars(Staff \/ Bypass(j))
                            /\ WF_vars(Run(j))
                            /\ j \notin Endless => WF_vars(Finish(j))
                            /\ WF_vars(Complete(j))
                            /\ WF_vars(Close(j))

SafeSpec == Init /\ [][Next]_vars
Spec == SafeSpec /\ Fairness
=============================================================================
