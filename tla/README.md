# A TLA+ model of the xbintsc runtime

xbintsc compiles TypeScript to LLVM IR and links it with a C runtime.  This
directory holds TLA+ specifications of the concurrent and reactive part of that
runtime and of the incremental build, TLC configurations that model-check them,
and TLAPS proofs about the I/O pool, the timers, the watcher table, the promises, the
async generators, the context switch, the line reader and the build cache.

Paths below are relative to the root of the repository.

## The system

`src/` is the compiler (TypeScript): lexer, parser, binder, checker, code
generator, driver.  It is a pipeline of pure functions; the state it keeps is the
build cache on disk, which several compilers and the watch command share.
`runtime/` is linked into every compiled program.  Its core is where steps
interleave.  That core and the build cache are what is modelled.

| Component | Source | State | Operations |
| --- | --- | --- | --- |
| I/O pool | `runtime/xt_async_io.c` | work and done queues under one lock, registry of live jobs, pending counter, wake pipe, watcher | submit, worker loop, wakeup, poll |
| Timers | `runtime/xt_loop.c` | flat array with a count, next id | set, clear, compact, run due timers |
| Reactor | `runtime/xt_loop.c` | watcher table, active count, dispatching flag | add, update, remove, select and dispatch, run the loop |
| Promises | `runtime/xt_promise.c` | promises with reactions, microtask queue, list of unhandled rejections | resolve, reject, then, drain, report |
| Async functions | `runtime/xt_async.c` | one coroutine and one promise per call | call, await, resume, finish |
| Coroutines | `runtime/xt_coroutine.c` | private stacks, current coroutine, saved exception stack | enter, leave, release |
| Generators | `runtime/xt_generator.c` | coroutine, request queue of async generators | next, throw, return, yield, await |
| Collector | `runtime/xt_alloc.c` | heap, root providers, stack regions | allocate, mark, sweep |
| Exceptions | `runtime/xt_io/exception.inc` | stack of try frames, shadow call stack | enter, leave, throw |
| Readline | `runtime/ext_node/readline/readline.c` | table of interfaces, buffered lines, one read per interface | create, on, question, pause, resume, close, read, deliver |
| Other node extensions | `runtime/ext_node/` | sockets, streams, files | handlers on top of reactor and pool |
| Build cache | `src/driver/cache.ts`, `src/driver/compiler.ts` | manifest, outputs, runtime objects | is fresh, record, save |
| Watch | `src/cli/watch.ts` | the last fingerprint of the tree | scan, compare, rebuild |

`PROJECT.json` lists every part of the repository, the ones not modelled
included, with the reason.

How they interact.  The module body runs on the main thread.  `xt_run_event_loop`
then calls `xt_loop_poll` while a watcher, a timer or a job is left.  One turn of
`xt_loop_poll` waits in `select`, dispatches handlers, runs due timers, polls the
pool and drains the microtasks.  Worker threads touch the two queues and the wake
pipe and nothing else.  Everything JavaScript does may call back into this: above
all an `await` outside an async function (at top level, in a plain timer callback,
inside `Promise.all`) calls `xt_loop_poll` again, from inside a handler, a
completion, a timer callback or a microtask.  **This re-entrancy is the hard part
of the code**: each of the loops in `xt_async_poll`, `xt_timer_run_due`,
`xt_loop_poll` and `xt_promise_run_reactions` keeps indices, limits or flags
across calls that may run the same loop again.  The other hard parts are the
hand-over between threads, the lost-wakeup protocol of the pipe, creation failures
of pipe, watcher and threads, exceptions that leave C frames by `longjmp`, stacks
that are switched under the collector and the try chain, and compilers that share
files without a lock.
`PROJECT.json` lists these hazards one by one, at their lines, with the properties
that cover them.

## Modules

| Module | What it is |
| --- | --- |
| `JobService` | abstract: what the pool promises for each job |
| `AsyncPool` | the pool, its threads, the pipe, and the part of the loop that polls it |
| `MCAsyncPool` | the sets of threads that creation may leave, for TLC |
| `AsyncPoolThrowing` | the pool when a completion throws |
| `AsyncPoolProofs` | the invariants of `AsyncPool` as theorems, and that it implements the safety part of `JobService` |
| `TimerService` | abstract: what setting and clearing timers promises |
| `Timers` | the timers and the wait of the reactor |
| `TimersProofs` | the safety properties of `Timers` as theorems, and that it implements the safety part of `TimerService` |
| `TimersNested` | timers when a callback polls the reactor |
| `Watchers` | the watcher table and the select dispatch, nested |
| `WatchersProofs` | the invariants of `Watchers` as theorems |
| `Promises` | promises, microtasks, async functions, unhandled rejections |
| `PromisesProofs` | the safety properties of `Promises` as theorems |
| `PromisesReresolved` | promises resolved more than once |
| `Coroutines` | the context switch and what it swaps: stack regions, try frames, active owners |
| `CoroutinesProofs` | the invariants of `Coroutines` as theorems |
| `AsyncGenerators` | the request queue and the body of one async generator |
| `AsyncGeneratorsProofs` | the invariants of `AsyncGenerators` as theorems |
| `Readline` | the line reader: interfaces, reads on the pool, delivery to callbacks |
| `ReadlineProofs` | the invariants of `Readline` as theorems |
| `BuildCache` | the build of one entry, the manifest, and the watch command |
| `BuildCacheProofs` | the invariants of `BuildCache` as theorems |

Definitions whose names start with `Bug` are deliberately wrong variants of the
definition that follows them.  Each property can be checked to be sensitive: put
the body of the variant in place of the definition and TLC finds the property
violated.  `PROJECT.json` ("mutants") says which variant breaks which property.

### AsyncPool

*State.* `work`, `done`, `live`, `pending`, `started`, `pipe` are the static
variables of the file.  `watching` is `xt_async_watcher_fd >= 0`.  `created` is the
set of threads `pthread_create` managed to start.  A worker is at `pop` (before the
lock), `wait` (in `pthread_cond_wait`), `run`, `done` (before it queues the
completion) or `wake` (before it writes the byte).

*Steps.* A region under the lock is one step, since nothing outside it touches what
it protects.  `xt_async_submit` is two steps, `Submit` (the registry, the counter,
the pipe, the watcher: main thread only) and `Publish` (under the lock), so a worker
may run in between.  `xt_async_poll` is a step per completion taken
(`CompleteStart`), a step when it returns (`CompleteReturn`) and the end
(`PollEnd`).  Between start and return JavaScript runs: `Submit` of further jobs and
`Await`.

*Call stack.* `frames` holds the pending C calls that matter.  A `complete` frame is
an `xt_async_poll` inside its callback; `tail` remembers whether this call is the
unconditional one at the end of `xt_loop_poll` or the one made by the wake handler.
A `turn` frame is an `xt_loop_poll` after its wake handler, which still has other
handlers and timers to run before the unconditional poll.  An `await` frame is an
`xt_await` that blocks until its job is released.

*Left out.* The program's own sockets and timers (they only add wakeups; the `turn`
frame stands for their JavaScript), `submit` of a job without `run` (released at
once), and two programs that deadlock by construction: a completion that blocks on
its own job, and one that blocks on a job that never ends.  A failing `select` is
not modelled.

*The bound of an await.* `xt_await` polls at most 100000 times and then returns
`undefined`.  That takes no program that queues work for ever: with a job pending every
wait is cut to 10 ms, so an await of a job that takes longer than about 1000 s reaches
it.  The turns are not counted; an await may give up after any of them (`AfterPoll`).

*The service.* `JobService` takes each job through `new`, `queued`, `running`,
`ready`, `completing`, `closed`, with one exception the code has: if no thread
exists jobs go from `queued` to `ready` (`Bypass`).  `AsyncPool!Phase` computes the
phase from the queues and threads, and `ServiceSpec` is the instance of the abstract
specification, fairness included.

### Timers

`mem` is the array with the cells above `count` that compaction leaves behind.  A
pass (`StartPass`, `Fire`, `PassEnd`) is `xt_timer_run_due`; its index, limit and
clock reading form a record in `passes`.  `Tick` may happen between any two steps,
so a callback can take any time.  `OtherEvent` is a wait cut short by a descriptor.
`setImmediate` is `SetTimeout(0)`, and the three clear functions are one `Clear`.
Realloc of the array and the arguments of callbacks are left out.

*The service.* `TimerService` has no array: a set of pending timers, and the part of it
that the round in progress has yet to call.  A round takes the timers that are due when
it begins and calls them in the order they were set, one after another and never inside
another callback; an interval is armed again from the beginning of the round; a timer
that is cleared leaves the set and the round; a new one waits for a later round; the loop
ends when the set is empty.  In `Timers` the set is read off the active cells
(`Entries(Active)`) and the round off the cells the pass has yet to reach
(`Entries(DueCells)`); `ServiceSpec` is the instance, fairness included.  With nested
passes the promise does not hold (`TimersNested`).

### Watchers

`slots` is the table up to its count.  Each registration has a number (`reg`), which
the code does not have: it lets `HandlerSampled` say that the watcher a handler is
called for is the one `select` looked at.  `Remove` also clears the readiness of
the number, because the callers close the descriptor.  A handler is assumed to take
what made it run.  It may return or throw (`Throw`): the exception leaves the handler and
any number of the dispatches in progress for a `try` around an await that began one of
them, and restores no flag.  `escaped` records that an exception left them all; an
exception nobody catches ends the process and is no step here.  Sleeping without
descriptors is left to `Timers`.

### Promises

`heap` holds the promises, the microtasks and the list of unhandled rejections.
The helpers of `xt_promise.c` are operators from heap to heap with the names of the
C functions, and an action composes them in the order of the code.  A reaction
record keeps the promise it is for (`on`), as the C struct does.  A waiter of an
async body is a reaction of kind `wake`; a settled operand queues the wakeup at
once, where the code allocates a settled helper promise: here the reaction names the
operand itself.  Values are left out except promises.  `delivered` is a history: the
rejections whose outcome a handler, an await or another promise received.  `abandoned`
is another: the promises of blocked awaits that ended without an outcome.

`stack` holds the activations: the module body or a host callback (`script`), a
`then` handler, the body of an async function (`co`), and a blocked `xt_await`
(`block`).  Microtasks run when the stack is empty or a blocked await is on top.  A
blocked await is left by its outcome (`Unblock`), by an exception of an activation
above it, which may go past several of them (`Throw`), or because no work is left or
its 100000 turns are over (`GiveUp`, after any drain).  The bound of 100000 in
`xt_drain_microtasks` is left out: it counts calls of `xt_promise_run_reactions`, which
empties the queue in one.  In
`Promises` a program calls at most one of a promise's resolve and reject functions,
once; `PromisesReresolved` drops that restriction.  A promise resolved with itself is
excluded there.

### Coroutines

`chain` is `g_current_coroutine` with its `previous` links; an element also holds the
locals of the C frames that entered the coroutine (`caller_try_top`, the previous
active owner).  A try frame is represented by the stack it was set up on, since a
throw is right exactly when the frame it jumps to lies on the running stack.
`regions` is the array the collector scans: the stack each region belongs to, and its
recorded bound `low`, which is a stack pointer of some stack, `unset` (no bound
recorded), or `all` (the whole stack is scanned, as for a region that was just
pushed).  `xt_gc_suspend` keeps the lower of two stack pointers; if they point into
different stacks, which is lower depends on where the stacks lie, and both outcomes
are possible (`SuspendBounds`).  A coroutine is entered only while it is suspended,
because that is what `AsyncGenerators` (`BodyEnteredOnce`) and `Promises` (`OneWaker`)
establish for awaits; a plain generator whose body calls its own `next` breaks it and
is listed as a hazard without a property.  Left out: the cache of free stacks, the
saved registers, the shadow call stack.

### AsyncGenerators

Requests are numbered in the order of the calls; `requests`, `pending`, `resumeKind`,
`started`, `done` and `threw` are the fields of the generator.  `body` is where the
coroutine is: `new`, `running`, `resumed` (inside `xt_yield` just after the switch),
suspended at a `yield` or an `await`, or `gone`.  `frames` are the C functions that
work on the generator.  `Call` is a whole `xt_async_enqueue`, up to the loop of
`xt_generator_drain_requests`, of which each turn is a step (`StartNext`), because the
body runs in the middle of it and may call the generator's own methods.  `Wake` is
`xt_generator_wake`.  `left` is a history: the requests in the queue when a body that was
woken from an await ended.  Values are left out, and so is `yield*`.

### Readline

An interface is a record in `rl`, and its place in `g_readline_interfaces` a slot that
another interface may get later.  Input is typed in halves of lines, so that two reads
in flight can divide a line.  A C function that calls JavaScript is cut into a part
before the callbacks and one after them, and `frames` says what is left to do; in
between any method may be called.  A callback may throw (`Throw`): no function of
`readline.c` has a try frame, so the exception ends it and any number of callbacks
around it, with everything the C code would have done after them.  That happens when a
callback catches what a method it called threw, when the program does, and when the
module body awaits inside a `try`; an exception nobody catches ends the process.
`took` is a history: the lines an interface read.  `cut` is set when lines are dropped,
by a close over lines not delivered, a drain that was paused, or one an exception broke
off; `exposed` when an exception breaks off a resume before its drain and leaves lines in
the buffer of an interface that may read.  Left out: which callback takes a line
(questions and listeners only differ in the callback, except that an exception between
several listeners of one line skips the rest of them), prompts, read errors, and
callbacks that run the event loop themselves.  The last is a restriction: in the model a
completion is handled only when no callback runs.

### BuildCache

Everything in the key but the source text is constant, so a key is a text.  A
fingerprint contains modification times, so it is the number of edits.  `job` is where
a compiler is inside `build()`, with the text it parsed and the keys of its
`BuildCache` object, which it read at the start and will write as a whole: two
compilers may overwrite each other's entries.  Each file operation is a step; a
compiler may be killed between any two, also in the middle of writing the manifest
(`Torn`, which the next reader takes for an empty manifest).  If a second compiler opened
the manifest while another one was writing it (`overlap`), the shorter text may leave the
tail of the longer one behind, whichever of them ends last.  `seen` is `previous` of
`startWatching`.  `loads` says whether the project config can be read: a build command
reads it first and ends if it does not load.  The config may lie above the watched tree,
so an edit of it is or is not one that the fingerprint shows.  A watcher that was killed
is started again only by the user.  Left out: what goes into the key, runtime objects, the
emit kinds, bundles and icons; of a link that fails late only the output it leaves.

## Runs

Run a configuration with `tlc -config X.cfg M`.

| Run | Configuration | Outcome | States | What it shows |
| --- | --- | --- | --- | --- |
| pool | `MCAsyncPool.cfg` | holds | 174 827 | the pool is correct and implements `JobService` |
| pool_throw | `AsyncPoolThrowing.cfg` | violated | - | a throwing completion leaves the counter too high |
| timers | `Timers.cfg` | holds | 297 395 | timers are not lost, doubled or late, and the array implements `TimerService` |
| timers_nested | `TimersNested.cfg` | violated | - | a nested turn fires a one-shot timer twice |
| watchers | `Watchers.cfg` | holds | 135 712 | the table survives changes and exceptions in the middle of a dispatch |
| promises | `Promises.cfg` | holds | 1 642 540 | wakeups are neither lost nor doubled, nor are rejections but those of abandoned awaits |
| promises_reresolved | `PromisesReresolved.cfg` | violated | - | a promise resolved twice swallows a rejection |
| coroutines | `Coroutines.cfg` | holds | 889 616 | every live stack is scanned, a throw and an await stay on their stack |
| generators | `AsyncGenerators.cfg` | holds | 29 317 | one entry at a time, answers in call order, each request settles or is left behind |
| readline | `Readline.cfg` | holds | 5 530 880 | lines are read in order and whole, and kept so but where a close, a pause or an exception drops them |
| build_cache | `BuildCache.cfg` | holds | 501 960 | only linked builds are fresh, a watcher reads the tree again after every change |
| build_cache_revert | `BuildCacheRevert.cfg` | violated | - | a skipped build leaves the output of another text |

### Bounds, and why they suffice

* **pool**: three jobs, two workers, one of the jobs endless, thread creation
  leaving either both threads or none, pipe and watcher creation failing at any
  submission, a pipe of one byte, two frames of blocking.  Two jobs queue up behind
  a running one; two workers race for one job; an endless job holds one worker while
  the other serves; one byte makes the second wakeup find the pipe full; depth two
  has a completion that blocks and, in the turn it polls, a second completion that
  blocks or submits.
  With as many endless jobs as workers the pool starves, which is what the code
  does: the instance keeps fewer, which is also why creation never leaves one thread
  here (`pool_throw`, without an endless job, has that case; the proofs cover any set).
* **timers**: three timers, delays 0 and 1, the clock up to 2.  Three timers allow a
  hole in the middle for compaction, with one timer before and one after it, one of
  them set by a callback.  Delay 0 with an interval of 1 exercises the clamp.
* **watchers**: two descriptor numbers, one event, a table of three slots, four
  registrations, two nested dispatches.  A number can be closed and reused in the
  inner dispatch while the outer one still has it in its set; the table can be full.
* **promises**: three promises, two async calls, three activations, one host
  callback.  Three promises make a chain (a follower of a follower), and a list of
  unhandled rejections in which removing the first entry moves the last.  Three
  activations are one too few for an exception that goes past a blocked await to
  another one below it; that case is covered by the proofs only.
* **coroutines**: a generator, an async generator, two async functions, an array of
  three regions, one try frame per stack beside the boundary.  With four coroutines
  the array overflows at two depths, so the invariant is also checked after a push was
  dropped and the main stack ran again.  Two async functions make an owner nest in one
  of its own kind, the async generator in between makes it nest in the other.
* **generators**: five calls, four awaits.  One request in hand, two in the queue behind
  it, and two more that come after the body has ended cover every order of answers;
  four awaits let the body await before and after a yield of two requests.
* **readline**: two slots, two interfaces, two lines of two halves, callbacks two deep.
  One slot is freed and reused; two reads divide a line; a resume inside a delivery
  drains inside a drain, and an exception ends one callback or both.
* **build_cache**: two texts, a watcher and a build command, two edits, one build
  command beside the builds of the watcher, one accident.  An edit and its reversal, each
  during the other compiler's build, are possible.

No run uses symmetry: the properties with fairness would not allow it.

### Fairness

* **pool**: weak fairness of the main thread's steps and of each worker.  The code
  justifies it: threads are scheduled, `select` with a bounded wait returns, and
  completions and runs return, except for the jobs in `Endless`, whose `WorkerRun`
  is disabled.  What JavaScript chooses to do (`Submit`, `Await`) is not fair, but
  its return is.
* **timers**: the loop and the clock go on, callbacks return.
* **watchers**: the loop goes on and handlers return or throw.  `ReadyIsServed` presumes
  that they do not throw for ever: an exception skips the watchers the dispatch has yet to
  reach, and a handler that throws in every turn can keep those behind it from being served.
* **promises**: an activation returns or suspends eventually and the queue is
  drained.  What JavaScript does in between is not fair.

* **generators**: the running body goes on to a yield, an await or its end, the loop of
  microtasks goes on, and what is awaited settles.  Calls are not fair.
* **build_cache**: a compiler that is building goes on (it may still fail or be killed),
  a watcher that finished its first build scans the tree, and its interval timer fires.
  Edits, commands, the start of a watcher (also of one that was killed) and accidents are
  not fair.
* **coroutines**, **readline**: no liveness is claimed.  Which coroutine runs next is up
  to the program, and standard input may stay silent for ever.

A program that never returns from a callback stops everything, in the code and here.

## What the violated runs say

* `pool_throw`: `xt_async_poll` decrements the counter after `complete` returned.
  The completion of a readline job calls `'line'` listeners without a try frame, so
  an exception unwinds to a `try` around an outer blocking await.  The job is then
  in no queue and on no stack but still counted, although `xt_async_io.h` calls the
  counter the number of jobs "whose completion has not run yet"; the loop never
  becomes idle.
* `timers_nested`: the inner pass compacts the array while the outer one keeps its
  index and limit; the outer pass then meets a stale copy of a timer that has moved
  down and calls it again.
* `promises_reresolved`: `reject(p1); reject(p2); resolve(p1, p2)` marks `p2` as
  observed although `p1` is settled and ignores it.
  `doc/unimplemented/deviations.md` says that a rejection no handler observed is
  printed and ends the process with status 1.
* `build_cache_revert`: the manifest keeps every key ever built, and `isFresh` asks
  only whether the key is there and some file exists at the output path.  Building a
  text, a changed text, and the first text again skips the third build and leaves the
  program of the second, although `cache.ts` says that a build is skipped "if nothing
  changed and the recorded outputs still exist".

### Exceptions the properties name

Other places where the code does less than a comment or the documentation says show in
runs that hold: there the property names the exception, through a history variable, and
holds for everything else.

* `left`, in `CallOrderKept` and `RequestsSettle`: `xt_generator_wake` does not look at the
  queue again when the body ended (`xt_generator.c:431`).  Requests queued behind the one
  that ended the body after an await stay pending for ever; a later call does not help
  them, it finds the generator done and is answered at once.  `left` records these requests
  at that step and no others: a drain loop that stopped early would be caught.
* `escaped`, in `FlagRestored`: an exception that leaves a dispatch passes the line that
  restores `xt_loop_dispatching` (`xt_loop.c:473`).  `xt_loop_add` looks for a free slot
  only while that flag is clear, so after an exception that left every dispatch each new
  registration appends and the table fills up, although the comment at `xt_loop.c:351`
  counts on the reuse of slots.  An exception that only left inner dispatches does no harm.
* `abandoned`, in `RejectionsReachSomeone`: `xt_await` marks its promise as observed before
  it waits (`xt_async.c:128`).  If the await is abandoned, by an exception that a callback
  throws past it or because it gives up, and the promise is rejected afterwards, the mark
  keeps the rejection off the list, and nobody received it.  `doc/unimplemented/deviations.md`
  says that a rejection no handler observed is printed and ends the process.
* `exposed`, in `LinesInOrder`: `rl_resume` clears `paused`, calls the listeners,
  and then drains (`readline.c:430`).  A listener that throws skips the drain; the next read
  delivers a newer line in front of the buffered one, although the head of the file says
  that the buffer is drained before reading again.
* `cut`, in `LinesInOrder`: the documentation of readline says that "a line that arrives
  while paused is buffered and delivered on resume".  The end of the input closes a paused
  interface with its buffer (`readline.c:247`), and a resume listener that pauses again makes
  the drain drop the lines it had already taken out (`readline.c:299`).  An exception out of a
  line listener drops the rest of a drain the same way.
* No property speaks of the slot of an interface whose close listener throws: the line that
  frees it is skipped (`readline.c:310`), a second close returns at once, and the slot is
  gone, although "a closed interface frees its slot" (`readline.c:226`).

## Proofs

`AsyncPoolProofs` proves the eight invariants of the pool for every value of the
constants that satisfies `PoolAssumption`: any finite set of jobs, any set of
workers, any pipe capacity, any depth.  `tlapm AsyncPoolProofs.tla` checks them.

| Theorem | Invariant |
| --- | --- |
| `TypeCorrect` | `TypeOK` |
| `JobsHaveOneOwner` | `OneOwner` |
| `RootsAreCovered` | `RootsCoverJobs` |
| `CounterIsExact` | `PendingCounts` |
| `RunsBeforeCompletion` | `CompleteAfterRun` |
| `WorkersSeeWork` | `WorkIsSeen` |
| `WakeupsArrive` | `NoLostWakeup` |
| `ExitMeansIdle` | `ExitsIdle` |

The same module proves, from the same inductive invariant, that the pool
implements the safety part of `JobService` (`PoolKeepsPromise`: `SafeSpec =>
Service!SafeSpec`).

The argument.  None of the invariants is inductive alone.  The inductive invariant
`IInv` consists of

* `TypeOK`, `OneOwner`, `RootsCoverJobs`, `CompleteAfterRun`, `WorkIsSeen`;
* `Stages`: what a control point says about jobs.  A job is being published exactly at
  `publish`; the created threads are those not at `none`; a worker at `run`, `done` or
  `wake` holds a job, and at `done` that job was run; frames complete jobs of `Jobs`;
* `Staffing`: before the first publication no thread exists and nothing was queued as
  done or completed, and without a thread nothing is queued as work.  This is what
  makes `CompleteAfterRun` survive the step that creates the threads;
* `Counting`: `pending` is the number of *registered* jobs.  With `RootsCoverJobs` it
  gives `PendingCounts`, and it is the form that survives a step, because a step
  changes the registry by one job.  Also, outside a running poll the pipe is watched
  only while jobs are pending, and at `exit` there are none;
* `Announced`: the strengthening of `NoLostWakeup` over the whole turn.  At `select`
  alone the invariant says nothing about the states in which a byte is drained, so it
  is stated everywhere: for each done job that was announced at all there is a byte in
  the pipe, or its worker is about to write one, or the main thread is in a poll that
  will look at the queue, or a completion is on the stack.

There is one lemma per action and under it one step per conjunct the action can
disturb.  The facts about queues and frames (what appending or removing a job does
to the set and to the absence of duplicates) are lemmas of their own, used by every
action.  `PendingCounts`, `NoLostWakeup` and `ExitsIdle` follow from the parts of
`IInv` without a further induction (lemma `Consequences`).

The refinement.  `Phase` reads the phase of a job off the place it is in.  `PhaseIs`
says that six sets, one per phase, are disjoint and cover the jobs, which follows from
`OneOwner` and `RootsCoverJobs`.  A step that keeps the members of all six but for one
job is then a step of the service for that job (`OneMove`), and one that keeps them all
is a stutter (`NoMove`); each action needs only its inclusions.  `Submit` is `Take`,
`Publish` is `Staff`, `Bypass` or invisible, `WorkerPop` is `Run` or invisible,
`WorkerRun` is `Finish`, `CompleteStart` is `Complete`, `CompleteReturn` is `Close`.

### Timers

`TimersProofs` proves the safety properties of `Timers` for any number of timers, any
finite set of delays and any clock, for passes that do not nest.

| Theorem | Property |
| --- | --- |
| `TypeCorrect` | `TypeOK` |
| `NoneLost` | `NoTimerLost` |
| `AddedOnesWait` | `AddedWaits` |
| `CalledOnce` | `OneShotOnce` (an action property) |

The heart is compaction.  `Ranking` shows that numbering the active cells in their order
reaches exactly the numbers from 1 to their count: it is injective because it grows,
hence onto, between finite sets of one size.  `CompactedCells` turns that into a map from
the new cells to the old ones that is increasing and misses no active cell.

The inductive invariant has `Sorted` (ids grow along the array) beside the properties.
`NoTimerLost` is not inductive without it: an interval counts as outstanding as long as
some cell holds it, and only because no id has two cells is the cell that a compaction
keeps, a clear deactivates or a call re-arms the one that is meant.  `Numbered` bounds the
array by the ids given out; `Unborn` says that an id is neither called nor cleared before
it is given out, so that a new timer is owed a call; `PassFits` says of a pass in progress
that its limit is within the array and everything below it is older than the pass, which
an append in a callback does not disturb.  `CalledOnce` then follows from the state in
which the call is made: the cell is active, so its timer is outstanding.

`TimersKeepPromise` (`SafeSpec => Service!SafeSpec`) is the refinement of `TimerService`
without its fairness, from the same inductive invariant.  An id has one cell, so the
entries of two cells differ and a step that changes a cell changes one timer of the set
(`FireIsCall`, `ClearIsClear`); ids grow along the array, so the first due cell holds the
due timer that was set first; compaction keeps the set because it neither misses nor
invents an active cell (`StartIsBegin`); an append is beyond the limit of the pass, so it
leaves the round alone (`AddIsSet`).

### Watcher table

`WatchersProofs` proves the four invariants of `Watchers` for any descriptors, any size
of the table, any number of registrations and any nesting of dispatches.

| Theorem | Invariant |
| --- | --- |
| `TypeCorrect` | `TypeOK` |
| `TableKept` | `TableConsistent` |
| `SampledOnly` | `HandlerSampled` |
| `FlagKept` | `FlagRestored` |

`HandlerSampled` is about the moment of a call, and what makes it true is a promise kept
since the `select`.  The inductive invariant states it for every dispatch in progress,
not only for the innermost: `SeenBy`, an active slot below the limit of a dispatch
belongs to a registration that dispatch sampled.  `xt_loop_add` keeps it because during
a dispatch the slot it takes is new, hence beyond every limit (lemma `FreeSlotFits`), so
the flag must be right for as long as any dispatch runs.  That is `Nested`: the flag is
set exactly while there is a dispatch, or after an exception that left them all, and each
saved flag but the outermost is set, so the one a dispatch restores fits the dispatches
that remain, also when an exception took some off (`ThrowInv`).  `TableConsistent` follows
from `OneSlotEach`, two active slots have two descriptors, and from the count of the
active slots.

### Promises

`PromisesProofs` proves the safety properties of `Promises` for any number of promises,
async calls, nested activations and host callbacks.

| Theorem | Invariant | Assumes |
| --- | --- | --- |
| `TypeCorrect` | `TypeOK` | |
| `UnhandledKept` | `UnhandledExact` | |
| `ReactionsKept` | `ReactionsFollowState` | |
| `OneWakerKept` | `OneWaker` | |
| `ResultsFollow` | `ResultAfterBody` | |
| `RejectionsReported` | `RejectionsReachSomeone` | `~Reresolves` |

Only the last is about programs that use the functions of each promise once:
`RejectionsReachSomeone` is false without that, as the run `promises_reresolved` shows.
The others hold for every program, also where the runs do not look: a program that
resolves one promise repeatedly can pile up reactions without end, so no run explores it
completely.

The invariant of the heap, `HeapOk`, is an operator on a heap, on the number of promises
allocated and on the promises of the async calls.  The helpers of `xt_promise.c` map heaps
to heaps, so each has one lemma saying that it keeps `HeapOk` (`Observed`, `SettleKeeps`,
`Reacted`, `Resolved`, `Enqueued`, `Took`, `Delivered`), and the lemma of an action composes
them in the order of the code.  `Linked` says that list and indexes refer to each other in
both directions; the second direction, from the list back, is what makes the swap of
`xt_unhandled_remove` right when the entry removed is the last one, and what bounds the list
by the number of promises (`Listed`).  `Reported` ties the list to the states.  `Waiting` and
`QueueOk` are the two halves of `ReactionsFollowState`; `Refs`, `Unused` and `Frames` say that
reactions, tasks and activations refer only to promises that exist, without which a
settlement through a reaction could touch a promise that is allocated later.

For the last three theorems the invariant is extended with `Owned`.  `Scheduled` and
`NoRivals` tie the bodies that wait to the reactions that wake them, one each among all
reactions in the queue and at all promises together.  `BodiesApart` says that the
promise of a body that has not ended is pending, and that no reaction, no handler on the
stack and no function the program holds will settle it; calling the functions of other
promises again never reaches it.  For programs that use each promise's functions once,
`Settlers` says more: the results of the reactions, the promises whose functions the
program holds, those of the handlers on the stack and those of the async bodies that
have not ended are pending and have nothing in common.  So each pending promise has one
owner at most, and whoever settles it finds it pending; an early return of
`xt_promise_settle` never drops an outcome.  `Pursued` follows the outcome of an
observed promise: it was delivered, a reaction or a blocked activation is still after
it, or the activation was abandoned.  `Returned` says that a body that ended left its promise settled, or to a follower.
The proof treats the queue and the reactions of the promises as one family of lines,
indexed by 0 and the promises, because settling moves reactions from one line to another
and changes nothing else about them (`MovedJobs`).  Each helper has a lemma about what
it does to the lines, each kind of activation one about what entering and leaving it
does to the stack (`Atop`), and an action combines them.  At the exit the stack and the
queue are empty (`Ending`) and settled promises have no reactions, which leaves
`delivered` as the only place where the outcome of an observed promise can be, unless
its await was abandoned.

### Async generators

`AsyncGeneratorsProofs` proves the three safety properties of `AsyncGenerators` for
any number of calls and awaits.

| Theorem | Invariant |
| --- | --- |
| `TypeCorrect` | `TypeOK` |
| `EnteredOnlyOnce` | `BodyEnteredOnce` |
| `OrderKept` | `CallOrderKept` |

The inductive invariant adds four parts.  `Shape`: the C stack is empty or one drain
loop while the body is suspended, and is `start` on `drain`, or `wake`, while it runs;
without it the frame that a yield returns to is unknown.  `Control`: what the place of
the body says about the fields; its key clause is that while the body runs or awaits,
`resume_kind` is `next`, because `xt_yield` resets it, which is why a yield always
settles the request in hand.  `Queued`: the queue is sorted, all of it is later than
the request in hand, and every call without an answer is in one of the two places.  An
answer to the request in hand then never overtakes an older call.  `Behind`: what was left
behind is the whole queue of a generator that is done and on which no frame works, and
nothing before.  From then on a call is answered at once and the queue does not change, so
the requests it overtakes are those left behind.

### Context switch

`CoroutinesProofs` proves the three invariants of `Coroutines` for any sets of
generators and async functions, any size of the region array and any number of try
frames.

| Theorem | Invariant |
| --- | --- |
| `TypeCorrect` | `TypeOK` |
| `StacksScanned` | `LiveStacksScanned` |
| `OwnStateKept` | `SwitchKeepsOwnState` |

Each invariant speaks of the running stack, and a switch makes another stack run.  The
inductive invariant therefore says the same of every stack in the chain: `TriesFit`, the
`caller_try_top` of each entry holds frames of the stack below it, and the boundary
frame if that is a coroutine; `OwnersFit`, the active owner of a kind is the innermost of
that kind and each entry remembers the next one; `ChainFits`, the chain has every entered
coroutine once; `RegionsFit`, one region per live stack with a bound inside it.
`RegionsFit` also says what survives a dropped push: there is never a region too many, the
first is the main stack's, and when it is the only one its bound is unset.  That is why
the scan is right again once the main stack runs, although pops outnumber pushes.  The
parts are operators on values, so that one lemma per part and direction (`...Entered`,
`...Left`) serves all switches.

### Line reader

`ReadlineProofs` proves both invariants of `Readline` for any table, any number of
interfaces and lines, and callbacks nested to any depth.

| Theorem | Invariant |
| --- | --- |
| `TypeCorrect` | `TypeOK` |
| `LinesStayInOrder` | `LinesInOrder` |

`LinesInOrder` says what an interface read, in which order and how whole, and where those
lines are now; the inductive invariant adds why.

* `OneJob`: at most one read of an interface is on its way, in flight or completed, and
  the interface's `reading` flag is set.  `start_read` tests that flag only; everything
  below rests on it, because two reads of one interface could complete in either order.
* `Ordered`: what an interface read was typed before what its read on the way has got,
  and that before what is still to be typed.
* `WholeLines`: while half a line has been typed, the read that took it is still in
  flight.  If the next half goes to a different read, two interfaces were reading, and the
  line is in `mixed`; the first read keeps only its half.
* `Ledger`: for each interface (`Books`), at most one interrupted drain has lines in hand,
  then the buffer is empty, and delivered lines, lines in hand and buffer agree with what
  was read (`Agrees`): none twice, in order unless the interface was `exposed`, none
  missing unless it was `cut`; and a closed interface that is not `cut` has nothing left.
  That the next line read comes after all of them follows from `Ordered`.  That a line is
  never delivered in front of buffered ones rests on the first clause: an interface that is
  neither paused nor closed has an empty buffer, or a `resume` among the running callbacks
  is still to drain it, or an exception removed that resume, which is what `exposed`
  records.  A completion runs only without callbacks, so otherwise the buffer is empty.

A step changes the reads in one of four ways (`Kinds`), and the first three parts are
shown once per way; `Ledger` has a lemma per action, all of them from what happens to
`Holds` when a callback is put on the stack, when it returns, and when an exception takes
several off.  Nothing limits how often or how deep callbacks call `pause`, `resume` and
`close` or throw: the induction is over steps, and the lines in hand are those of one
frame, so no induction over the stack is needed.

### Build cache

`BuildCacheProofs` proves both invariants of `BuildCache` for any set of texts, any set of
compilers and any number of edits, builds and accidents.

| Theorem | Invariant |
| --- | --- |
| `TypeCorrect` | `TypeOK` |
| `OnlyLinkedIsRecorded` | `RecordedWasLinked` |

The inductive invariant adds that a compiler which is past the parser knows a text, and
that one which is about to record a key has linked that text itself
(`LinkedBeforeRecord`).  The rest is that keys only travel from a cache to the manifest
and back and that `linked` only grows, so a kill, a torn manifest or another writer can
lose keys but not make one up.

Checked by TLC only: the liveness properties (`IdleLoopExits`, `DueTimersFire`,
`ReadyIsServed`, `SettledAwaitResumes`, `RequestsSettle`, `WatcherCatchesUp`, and the
fair part of `ServiceSpec`), which are beyond what the prover handles; and the four
disagreements above, each of which TLC shows by a counterexample.  Every invariant of a
passing run is a theorem.  The proofs contain no induction over data and no recursive
operator, both of which the prover cannot do here.

## Not modelled

The compiler front end and the code generator are sequential translations of one
program text into another; their state is the program itself, and what would have to
be shown is about data, not about steps.  The same holds for the values and
containers of the runtime, the console, the regular expressions, the parsers of the
node extensions, the GUI's layout, styles and drawing, and the vendored single-header
libraries, which are most of the lines of the repository.  The marking and sweeping of
the collector is left out because it is conservative: what it keeps depends on which
words of a stack look like pointers.  Sockets, child processes and streams are
handlers on top of the modelled reactor; they are next in the plan.  `PROJECT.json`
gives the reason for each part.

## Plan

Done: the I/O pool, the timers, the reactor, promises with async functions, the context
switch, async generators, the line reader, and the build cache, each as a module with
its own runs; the invariants of every module as theorems, and for the pool and the timers
also the safety part of their refinements.

Next modules, in this order:

1. the combinators of `Promises` (`all`, `race`, `any`);
2. the cache of runtime objects in `compiler.ts`, with compilers that share it;
3. the sockets of `runtime/ext_node/net`, whose handlers close and reopen descriptors
   of the watcher table;
4. `yield*` and plain generators that call their own methods.

Next theorems: the invariants of these modules; every invariant and every action
property that the passing runs check today is proved, and what remains with TLC is
listed at the end of "Proofs".
