----------------------------- MODULE AsyncPool ------------------------------
(***************************************************************************)
(* The asynchronous I/O offload pool, runtime/xt_async_io.c.               *)
(*                                                                         *)
(* The main thread submits jobs, a few worker threads run them, and the    *)
(* main thread completes them when the reactor polls the pool.  Two queues *)
(* are shared under one lock; every region the lock protects touches       *)
(* nothing else and is one atomic step here.  Workers tell the reactor     *)
(* about a completion by writing one byte into a non-blocking self-pipe.   *)
(*                                                                         *)
(* The C stack of the main thread is modelled by frames, innermost first:  *)
(* a completion may run JavaScript, JavaScript may block in xt_await, and  *)
(* a blocked await polls the reactor again from inside.                    *)
(*                                                                         *)
(* Definitions whose names begin with Bug are wrong on purpose: each is    *)
(* the variant of the definition after it that some property must refute.  *)
(***************************************************************************)
EXTENDS Integers, FiniteSets, SequencesExt

CONSTANTS
    Jobs,          \* jobs a program submits during one execution
    Workers,       \* the threads the pool tries to create (XT_ASYNC_WORKERS)
    NoJob,         \* the NULL job
    Spawnable,     \* sets of threads that pthread_create may manage to start
    Endless,       \* jobs whose run never returns
    PipeOutcomes,  \* may pipe(2) succeed, may it fail
    LoopOutcomes,  \* may xt_loop_add find a slot, may it not
    PipeCap,       \* bound: bytes the wake pipe holds before write(2) gives EAGAIN
    MaxDepth       \* bound: nesting of frames when JavaScript blocks in an await

ASSUME PoolAssumption ==
    /\ IsFiniteSet(Jobs)
    /\ NoJob \notin Jobs
    /\ Endless \subseteq Jobs
    /\ Spawnable \subseteq SUBSET Workers
    /\ PipeOutcomes \subseteq BOOLEAN
    /\ LoopOutcomes \subseteq BOOLEAN
    /\ PipeCap \in Nat \ {0}
    /\ MaxDepth \in Nat

VARIABLES
    work, done,    \* the two queues, oldest job first
    live,          \* the registry of submitted, not yet released jobs: GC roots
    pending,       \* xt_async_pending_jobs
    started,       \* xt_async_workers_started
    created,       \* the worker threads that exist
    pipe,          \* bytes in the self-pipe, Closed while there is no pipe
    watching,      \* xt_async_watcher_fd >= 0: the loop watches the pipe
    wpc, wjob,     \* per worker: where it is in its loop, the job it holds
    pc,            \* where the main thread is
    publishing,    \* the job between the two halves of xt_async_submit
    tail,          \* is the running xt_async_poll the one that ends xt_loop_poll
    frames,        \* the main thread's pending C calls, innermost first
    ended,         \* history: released jobs
    ran,           \* history: jobs whose run was called
    silent         \* history: jobs queued as done without a wakeup byte

mainVars == <<pc, publishing, tail, frames>>
workerVars == <<wpc, wjob, ran>>
vars == <<work, done, live, pending, started, created, pipe, watching,
          wpc, wjob, pc, publishing, tail, frames, ended, ran, silent>>

Closed == -1

\* A frame is a blocking xt_await for the promise of a job, the rest of one
\* xt_loop_poll after its wake handler (other handlers and timers run there),
\* or the completion of a job by an xt_async_poll that was the tail one or not.
Frame == [kind : {"await", "turn", "complete"}, job : Jobs \cup {NoJob}, tail : BOOLEAN]

Push(kind, job, saved) == <<[kind |-> kind, job |-> job, tail |-> saved]>> \o frames

Top(kind) == frames # <<>> /\ Head(frames).kind = kind

\* The jobs whose completions are on a call stack, and that each is there once.
JobsOf(s) == {s[i].job : i \in {k \in DOMAIN s : s[k].kind = "complete"}}

OncePerJob(s) ==
    \A i, k \in DOMAIN s :
        s[i].kind = "complete" /\ s[k].kind = "complete" /\ i # k => s[i].job # s[k].job

Completing == JobsOf(frames)

Fresh == Jobs \ (live \cup ended)

Waiting == {w \in created : wpc[w] = "wait"}

\* Queueing a job at the tail and unlinking the one at the head.
BugPushedFront(queue, j) == <<j>>
Pushed(queue, j) == Append(queue, j)

BugPoppedNone(queue) == queue
BugPoppedAll(queue) == <<>>
Popped(queue) == Tail(queue)

\* Where the workers may be after pthread_cond_signal: one waiter, if any, woke up.
BugUnsignalled(at) == {at}
Signalled(at) == IF Waiting = {} THEN {at} ELSE {[at EXCEPT ![w] = "pop"] : w \in Waiting}

\* The pipe after xt_async_wakeup: no pipe, no byte; a full pipe drops the byte.
BugPipeWithoutByte == pipe
PipeWithByte == IF pipe \in {Closed, PipeCap} THEN pipe ELSE pipe + 1
-----------------------------------------------------------------------------
Init ==
    /\ work = <<>> /\ done = <<>>
    /\ live = {} /\ pending = 0
    /\ started = FALSE /\ created = {}
    /\ pipe = Closed /\ watching = FALSE
    /\ wpc = [w \in Workers |-> "none"]
    /\ wjob = [w \in Workers |-> NoJob]
    /\ pc = "js" /\ publishing = NoJob /\ tail = FALSE /\ frames = <<>>
    /\ ended = {} /\ ran = {} /\ silent = {}

(* xt_async_submit, first half: the registry, the counter, the wake pipe and *)
(* the watcher belong to the main thread and need no lock.                   *)
Submit(j) ==
    /\ pc = "js"
    /\ j \in Fresh
    /\ live' = live \cup {j}
    /\ pending' = pending + 1
    /\ \E opened \in PipeOutcomes : pipe' = IF pipe = Closed /\ opened THEN 0 ELSE pipe
    /\ \E added \in LoopOutcomes : watching' = (watching \/ (pipe' # Closed /\ added))
    /\ publishing' = j
    /\ pc' = "publish"
    /\ UNCHANGED <<work, done, started, created, workerVars, tail, frames, ended, silent>>

(* xt_async_submit, second half, under the lock: start the threads once,     *)
(* queue the job and signal one waiter.  With no thread at all the job goes  *)
(* straight to the done queue, and nobody writes a wakeup byte.              *)
Publish ==
    /\ pc = "publish"
    /\ started' = TRUE
    /\ created' \in IF started THEN {created} ELSE Spawnable
    /\ IF created' # {}
       THEN /\ work' = Pushed(work, publishing)
            /\ UNCHANGED <<done, silent>>
       ELSE /\ done' = Pushed(done, publishing)
            /\ silent' = silent \cup {publishing}
            /\ UNCHANGED work
    /\ LET awake == [w \in Workers |-> IF w \in created' \ created THEN "pop" ELSE wpc[w]]
       IN  wpc' \in Signalled(awake)
    /\ pc' = "js"
    /\ publishing' = NoJob
    /\ UNCHANGED <<live, pending, pipe, watching, wjob, ran, tail, frames, ended>>

(* xt_await outside a coroutine: block on the reactor until the promise that *)
(* job j settles is settled.  Not modelled: blocking on a job whose own      *)
(* completion is on the stack, and blocking inside a completion on a job     *)
(* that never ends.                                                          *)
Await(j) ==
    /\ pc = "js"
    /\ Len(frames) < MaxDepth
    /\ j \in live \ Completing
    /\ j \in Endless => Completing = {}
    /\ frames' = Push("await", j, FALSE)
    /\ UNCHANGED <<work, done, live, pending, started, created, pipe, watching,
                   workerVars, pc, publishing, tail, ended, silent>>
-----------------------------------------------------------------------------
\* The start of xt_async_poll: empty the pipe if the loop watches it.
Drained == IF watching THEN 0 ELSE pipe

Poll(isTail) ==
    /\ pc' = "poll"
    /\ tail' = isTail
    /\ pipe' = Drained

mainOnly == <<work, done, started, created, workerVars, publishing, silent>>

(* select(2) reports the pipe readable: xt_async_wake_handler polls the pool. *)
SelectWoken ==
    /\ pc = "select"
    /\ watching /\ pipe > 0
    /\ Poll(FALSE)
    /\ UNCHANGED <<mainOnly, live, pending, watching, frames, ended>>

BugWaitUnbounded == FALSE
WaitBounded == pending > 0

(* select(2) returns without the pipe: the wait is bounded while jobs are     *)
(* pending.  Other handlers and due timers run JavaScript.                    *)
SelectTimeout ==
    /\ pc = "select"
    /\ ~(watching /\ pipe > 0)
    /\ WaitBounded
    /\ pc' = "js"
    /\ frames' = Push("turn", NoJob, FALSE)
    /\ UNCHANGED <<mainOnly, live, pending, watching, pipe, tail, ended>>

(* xt_loop_poll after its handlers and timers: the unconditional poll.        *)
TurnEnd ==
    /\ pc = "js"
    /\ Top("turn")
    /\ frames' = Tail(frames)
    /\ Poll(TRUE)
    /\ UNCHANGED <<mainOnly, live, pending, watching, ended>>

(* xt_async_poll takes the oldest done job and calls its completion.          *)
CompleteStart ==
    /\ pc = "poll"
    /\ done # <<>>
    /\ done' = Popped(done)
    /\ frames' = Push("complete", Head(done), tail)
    /\ pc' = "js"
    /\ tail' = FALSE
    /\ UNCHANGED <<work, live, pending, started, created, pipe, watching, workerVars,
                   publishing, ended, silent>>

(* The completion returned: unregister, release, count, and look again.       *)
CompleteReturn ==
    /\ pc = "js"
    /\ Top("complete")
    /\ live' = live \ {Head(frames).job}
    /\ ended' = ended \cup {Head(frames).job}
    /\ pending' = pending - 1
    /\ tail' = Head(frames).tail
    /\ frames' = Tail(frames)
    /\ pc' = "poll"
    /\ UNCHANGED <<mainOnly, pipe, watching>>

BugWatchForever == watching
StillWatching == watching /\ pending # 0

\* What the end of a poll returns to.  The handler's poll goes on to the rest of
\* the turn.  After the tail poll the microtasks run in the code that called
\* xt_loop_poll; if that is an await and this was the last of its 100000 turns,
\* it returns undefined although its job is still outstanding.
AfterPoll == IF ~tail THEN {Push("turn", NoJob, FALSE)}
             ELSE {frames} \cup (IF Top("await") THEN {Tail(frames)} ELSE {})

(* No done job is left: stop watching the pipe when the pool is idle.         *)
PollEnd ==
    /\ pc = "poll"
    /\ done = <<>>
    /\ watching' = StillWatching
    /\ frames' \in AfterPoll
    /\ pc' = "js"
    /\ tail' = FALSE
    /\ UNCHANGED <<mainOnly, live, pending, pipe, ended>>

(* The loop in xt_await: return when the promise is settled, poll otherwise.  *)
AwaitCheck ==
    /\ pc = "js"
    /\ Top("await")
    /\ IF Head(frames).job \in live
       THEN pc' = "select" /\ UNCHANGED frames
       ELSE frames' = Tail(frames) /\ UNCHANGED pc
    /\ UNCHANGED <<mainOnly, live, pending, watching, pipe, tail, ended>>

(* The module body or the microtasks of one turn are over.                    *)
ScriptEnd ==
    /\ pc = "js"
    /\ frames = <<>>
    /\ pc' = "loop"
    /\ UNCHANGED <<mainOnly, live, pending, watching, pipe, tail, frames, ended>>

BugWatcherHasWork == watching
HasWork == watching \/ pending > 0

(* xt_run_event_loop: the loop runs while xt_loop_has_work.  Sockets and      *)
(* timers of the program are left out, so only the pool keeps it alive.       *)
LoopCheck ==
    /\ pc = "loop"
    /\ pc' = IF HasWork THEN "select" ELSE "exit"
    /\ UNCHANGED <<mainOnly, live, pending, watching, pipe, tail, frames, ended>>

Main == \/ Publish \/ SelectWoken \/ SelectTimeout \/ TurnEnd \/ CompleteStart
        \/ CompleteReturn \/ PollEnd \/ AwaitCheck \/ ScriptEnd \/ LoopCheck

Script == \E j \in Jobs : Submit(j) \/ Await(j)
-----------------------------------------------------------------------------
\* What a step of a worker leaves alone besides its own fields.
workerOnly == <<live, pending, started, created, watching, mainVars, ended>>

(* The head of the worker loop, under the lock: take a job or wait.           *)
WorkerPop(w) ==
    /\ pc # "exit"
    /\ wpc[w] = "pop"
    /\ IF work = <<>>
       THEN wpc' = [wpc EXCEPT ![w] = "wait"] /\ UNCHANGED <<work, wjob>>
       ELSE /\ wpc' = [wpc EXCEPT ![w] = "run"]
            /\ wjob' = [wjob EXCEPT ![w] = Head(work)]
            /\ work' = Popped(work)
    /\ UNCHANGED <<workerOnly, done, pipe, ran, silent>>

\* Wrong: the worker goes on with the job it has instead of looking again.
BugWaitOnce(w) ==
    /\ pc # "exit"
    /\ wpc[w] = "wait"
    /\ wpc' = [wpc EXCEPT ![w] = "run"]
    /\ UNCHANGED <<workerOnly, work, done, pipe, wjob, ran, silent>>

(* pthread_cond_wait may return without a signal; the worker looks again.     *)
SpuriousWake(w) ==
    /\ pc # "exit"
    /\ wpc[w] = "wait"
    /\ wpc' = [wpc EXCEPT ![w] = "pop"]
    /\ UNCHANGED <<workerOnly, work, done, pipe, wjob, ran, silent>>

(* job->run, outside the lock.                                                *)
WorkerRun(w) ==
    /\ pc # "exit"
    /\ wpc[w] = "run"
    /\ wjob[w] \notin Endless
    /\ ran' = ran \cup {wjob[w]}
    /\ wpc' = [wpc EXCEPT ![w] = "done"]
    /\ UNCHANGED <<workerOnly, work, done, pipe, wjob, silent>>

BugPushBeforeRun(w) ==
    /\ pc # "exit"
    /\ wpc[w] = "run"
    /\ done' = Append(done, wjob[w])
    /\ wpc' = [wpc EXCEPT ![w] = "wake"]
    /\ UNCHANGED <<workerOnly, work, pipe, wjob, ran, silent>>

(* Queue the completion, under the lock.                                      *)
WorkerPush(w) ==
    /\ pc # "exit"
    /\ wpc[w] = "done"
    /\ done' = Pushed(done, wjob[w])
    /\ wpc' = [wpc EXCEPT ![w] = "wake"]
    /\ UNCHANGED <<workerOnly, work, pipe, wjob, ran, silent>>

(* xt_async_wakeup, after the lock is released.                               *)
WorkerWakeup(w) ==
    /\ pc # "exit"
    /\ wpc[w] = "wake"
    /\ pipe' = PipeWithByte
    /\ silent' = IF pipe = Closed THEN silent \cup {wjob[w]} ELSE silent
    /\ wpc' = [wpc EXCEPT ![w] = "pop"]
    /\ wjob' = [wjob EXCEPT ![w] = NoJob]
    /\ UNCHANGED <<workerOnly, work, done, ran>>

Worker(w) == WorkerPop(w) \/ WorkerRun(w) \/ WorkerPush(w) \/ WorkerWakeup(w)

Exited == pc = "exit" /\ UNCHANGED vars

Next == \/ Main \/ Script \/ Exited
        \/ \E w \in Workers : Worker(w) \/ SpuriousWake(w)

(* The threads are scheduled, run and completions return (except Endless      *)
(* runs), and JavaScript returns.                                             *)
Fairness == WF_vars(Main) /\ \A w \in Workers : WF_vars(Worker(w))

SafeSpec == Init /\ [][Next]_vars
Spec == SafeSpec /\ Fairness
-----------------------------------------------------------------------------
\* The jobs a worker holds between taking them and queueing their completion.
Busy == {w \in created : wpc[w] \in {"run", "done"}}

InWorkers == {wjob[w] : w \in Busy}

\* Jobs that were submitted and whose completion has not returned.
Unfinished == ({publishing} \ {NoJob}) \cup ToSet(work) \cup InWorkers
                \cup ToSet(done) \cup Completing

(* Every variable has the type its declaration gives it. *)
TypeOK ==
    /\ work \in Seq(Jobs) /\ done \in Seq(Jobs)
    /\ live \subseteq Jobs /\ ended \subseteq Jobs
    /\ ran \subseteq Jobs /\ silent \subseteq Jobs
    /\ pending \in Nat
    /\ started \in BOOLEAN /\ watching \in BOOLEAN /\ tail \in BOOLEAN
    /\ created \subseteq Workers
    /\ pipe \in Closed .. PipeCap
    /\ wpc \in [Workers -> {"none", "pop", "wait", "run", "done", "wake"}]
    /\ wjob \in [Workers -> Jobs \cup {NoJob}]
    /\ pc \in {"js", "publish", "select", "poll", "loop", "exit"}
    /\ publishing \in Jobs \cup {NoJob}
    /\ frames \in Seq(Frame)

(* A submitted job is in exactly one place until its completion returns: being *)
(* published, queued as work, held by one worker, queued as done, or being     *)
(* completed by one frame.  So no hand-over between the queues, which happens  *)
(* under the lock in pieces, loses a job or completes it twice.                *)
OneOwner ==
    /\ IsInjective(work) /\ IsInjective(done)
    /\ \A v, w \in Busy : wjob[v] = wjob[w] => v = w
    /\ OncePerJob(frames)
    /\ ToSet(work) \cap (ToSet(done) \cup InWorkers \cup Completing \cup {publishing}) = {}
    /\ ToSet(done) \cap (InWorkers \cup Completing \cup {publishing}) = {}
    /\ InWorkers \cap (Completing \cup {publishing}) = {}
    /\ publishing \notin Completing

(* The values a job roots stay registered with the collector while anybody may *)
(* still use the job, and a released job has nobody left who does.             *)
RootsCoverJobs == Unfinished = live /\ ended \cap live = {}

(* xt_async_pending counts the submitted jobs whose completion has not run.    *)
(* The loop decides on this number whether the process may exit.               *)
PendingCounts == pending = Cardinality(Unfinished)

(* A completion sees the result of a run: with a worker thread alive, no job   *)
(* is completed before its run returned.                                       *)
CompleteAfterRun == created # {} => ToSet(done) \cup Completing \cup ended \subseteq ran

(* Queued work never waits for a worker that was not told: some thread is on   *)
(* its way to the queue, however signals and pops interleave.                  *)
WorkIsSeen == work # <<>> => \E w \in created : wpc[w] # "wait"

(* A wakeup is not lost between a drain of the pipe and the next select: when  *)
(* the loop waits with the pipe watched, a completion that announced itself or *)
(* will do so makes select return at once.  Inside a completion that blocks on *)
(* another job this does not hold (the outer poll has drained the byte); the   *)
(* bounded wait covers that case.                                              *)
NoLostWakeup ==
    pc = "select" /\ watching /\ Completing = {} =>
        \A j \in ToSet(done) \ silent :
            pipe > 0 \/ \E w \in created : wpc[w] = "wake" /\ wjob[w] = j

(* The loop exits only when every submitted job was completed, and the pool    *)
(* keeps the loop alive only while it has jobs.                                *)
ExitsIdle ==
    /\ pc = "exit" => live = {} /\ work = <<>> /\ done = <<>> /\ ~watching
    /\ pc \in {"loop", "select"} => (watching => pending > 0)

(* The pool implements its promise: each job runs and completes once, in that  *)
(* order, and with enough threads every job that ends is released.             *)
Phase(j) == CASE j \in Fresh -> "new"
              [] j = publishing \/ j \in ToSet(work) -> "queued"
              [] \E w \in Busy : wpc[w] = "run" /\ wjob[w] = j -> "running"
              [] j \in ToSet(done) \/ \E w \in Busy : wpc[w] = "done" /\ wjob[w] = j -> "ready"
              [] j \in Completing -> "completing"
              [] OTHER -> "closed"

Service == INSTANCE JobService WITH phase <- [j \in Jobs |-> Phase(j)],
                                    staffed <- created # {}

ServiceSpec == Service!Spec

(* Once no job is outstanding for good, the process terminates: the watcher of *)
(* the wake pipe does not keep an idle loop waiting.                           *)
IdleLoopExits == <>[](live = {}) => <>(pc = "exit")
=============================================================================
