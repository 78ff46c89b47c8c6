-------------------------- MODULE AsyncPoolProofs ---------------------------
(***************************************************************************)
(* The safety properties of AsyncPool, for all sets of jobs and threads,   *)
(* and that it implements the safety part of JobService.                   *)
(*                                                                         *)
(* OneOwner and RootsCoverJobs alone are not inductive: that a pop finds a *)
(* job nobody else holds, or that the counter never goes below zero, rests *)
(* on where the threads are (Stages), on the pool having been started      *)
(* (Staffing), on the counter being exact (Counting) and on the state of   *)
(* the pipe protocol between a push and its byte (Announced).  IInv is     *)
(* their conjunction; one lemma per action shows that it is preserved.     *)
(***************************************************************************)
EXTENDS AsyncPool, SequenceTheorems, FiniteSetTheorems, TLAPS

(* Appending to a queue adds one job, and keeps it free of duplicates. *)
LEMMA PushedQueue ==
    ASSUME NEW S, NEW q \in Seq(S), NEW e \in S
    PROVE  /\ Pushed(q, e) \in Seq(S)
           /\ Pushed(q, e) # <<>>
           /\ ToSet(Pushed(q, e)) = ToSet(q) \cup {e}
           /\ IsInjective(q) /\ e \notin ToSet(q) => IsInjective(Pushed(q, e))
<1> DEFINE t == Pushed(q, e)
<1>1. /\ t \in Seq(S) /\ t # <<>>
      /\ DOMAIN t = 1 .. Len(q) + 1 /\ DOMAIN q = 1 .. Len(q) /\ Len(q) \in Nat
      /\ \A i \in 1 .. Len(q) : t[i] = q[i]
      /\ t[Len(q) + 1] = e
  BY AppendProperties, LenProperties DEF Pushed
<1> HIDE DEF t
<1>2. ToSet(t) = ToSet(q) \cup {e}
  <2>1. \A x \in ToSet(t) : x \in ToSet(q) \cup {e}
    BY <1>1 DEF ToSet
  <2>2. \A x \in ToSet(q) \cup {e} : x \in ToSet(t)
    BY <1>1 DEF ToSet
  <2> QED BY <2>1, <2>2
<1>3. ASSUME IsInjective(q), e \notin ToSet(q) PROVE IsInjective(t)
  BY <1>1, <1>3 DEF IsInjective, ToSet
<1> QED BY <1>1, <1>2, <1>3 DEF t

(* The same of the pool's two queues. *)
LEMMA PushedJobs ==
    ASSUME NEW q \in Seq(Jobs), NEW e \in Jobs
    PROVE  /\ Pushed(q, e) \in Seq(Jobs)
           /\ ToSet(Pushed(q, e)) = ToSet(q) \cup {e}
           /\ IsInjective(q) /\ e \notin ToSet(q) => IsInjective(Pushed(q, e))
<1> DEFINE t == Pushed(q, e)
<1>1. /\ t \in Seq(Jobs) /\ ToSet(t) = ToSet(q) \cup {e}
      /\ IsInjective(q) /\ e \notin ToSet(q) => IsInjective(t)
  BY PushedQueue
<1> HIDE DEF t
<1> QED BY <1>1 DEF t

(* Unlinking the head of a queue removes one job. *)
LEMMA PoppedQueue ==
    ASSUME NEW S, NEW q \in Seq(S), q # <<>>
    PROVE  /\ Head(q) \in S
           /\ Popped(q) \in Seq(S)
           /\ ToSet(q) = ToSet(Popped(q)) \cup {Head(q)}
           /\ IsInjective(q) => IsInjective(Popped(q)) /\ Head(q) \notin ToSet(Popped(q))
<1> DEFINE t == Popped(q)
<1>1. /\ t \in Seq(S) /\ Head(q) \in S
      /\ Len(q) \in Nat /\ Len(q) > 0
      /\ DOMAIN t = 1 .. Len(q) - 1 /\ DOMAIN q = 1 .. Len(q)
      /\ \A i \in 1 .. Len(q) - 1 : t[i] = q[i + 1]
      /\ q[1] = Head(q)
  BY HeadTailProperties, LenProperties DEF Popped
<1> HIDE DEF t
<1>2. ToSet(q) = ToSet(t) \cup {Head(q)}
  <2>1. ASSUME NEW x \in ToSet(q) PROVE x \in ToSet(t) \cup {Head(q)}
    <3>1. PICK i \in 1 .. Len(q) : q[i] = x
      BY <1>1 DEF ToSet
    <3>2. CASE i = 1
      BY <3>1, <3>2, <1>1
    <3>3. CASE i # 1
      <4>1. i - 1 \in DOMAIN t /\ t[i - 1] = x
        BY <3>1, <3>3, <1>1
      <4> QED BY <4>1 DEF ToSet
    <3> QED BY <3>2, <3>3
  <2>2. \A x \in ToSet(t) \cup {Head(q)} : x \in ToSet(q)
    BY <1>1 DEF ToSet
  <2> QED BY <2>1, <2>2
<1>3. ASSUME IsInjective(q) PROVE IsInjective(t) /\ Head(q) \notin ToSet(t)
  <2>1. ASSUME NEW a \in DOMAIN t, NEW b \in DOMAIN t, t[a] = t[b] PROVE a = b
    <3>1. /\ a + 1 \in DOMAIN q /\ b + 1 \in DOMAIN q
          /\ t[a] = q[a + 1] /\ t[b] = q[b + 1]
      BY <1>1
    <3>2. a + 1 = b + 1
      BY <3>1, <2>1, <1>3 DEF IsInjective
    <3> QED BY <3>2, <1>1
  <2>2. Head(q) \notin ToSet(t)
    BY <1>1, <1>3 DEF IsInjective, ToSet
  <2> QED BY <2>1, <2>2 DEF IsInjective
<1> QED BY <1>1, <1>2, <1>3 DEF t

(* A job is being completed exactly when some frame completes it. *)
LEMMA JobsOfMember ==
    ASSUME NEW s, NEW j
    PROVE  j \in JobsOf(s) <=> \E i \in DOMAIN s : s[i].kind = "complete" /\ s[i].job = j
  BY DEF JobsOf

(* A call pushes one frame. *)
LEMMA PushedFrame ==
    ASSUME NEW s \in Seq(Frame), NEW f \in Frame
    PROVE  LET t == <<f>> \o s IN
           /\ t \in Seq(Frame)
           /\ t # <<>>
           /\ Head(t) = f
           /\ f.kind # "complete" => JobsOf(t) = JobsOf(s)
           /\ f.kind # "complete" /\ OncePerJob(s) => OncePerJob(t)
           /\ f.kind = "complete" => JobsOf(t) = JobsOf(s) \cup {f.job}
           /\ f.kind = "complete" /\ OncePerJob(s) /\ f.job \notin JobsOf(s) => OncePerJob(t)
<1> DEFINE t == <<f>> \o s
<1>1. /\ t \in Seq(Frame) /\ t # <<>> /\ Head(t) = f
      /\ Len(s) \in Nat
      /\ DOMAIN t = 1 .. Len(s) + 1 /\ DOMAIN s = 1 .. Len(s)
      /\ t[1] = f
      /\ \A i \in 1 .. Len(s) : t[i + 1] = s[i]
  OBVIOUS
<1> HIDE DEF t
<1>2. \A i \in DOMAIN t : i # 1 => i - 1 \in DOMAIN s /\ t[i] = s[i - 1]
  BY <1>1
<1>3. ASSUME NEW j PROVE j \in JobsOf(t) <=> j \in JobsOf(s) \/ (f.kind = "complete" /\ f.job = j)
  <2>1. ASSUME j \in JobsOf(t) PROVE j \in JobsOf(s) \/ (f.kind = "complete" /\ f.job = j)
    <3>1. PICK i \in DOMAIN t : t[i].kind = "complete" /\ t[i].job = j
      BY <2>1, JobsOfMember
    <3>2. CASE i = 1
      BY <3>1, <3>2, <1>1
    <3>3. CASE i # 1
      BY <3>1, <3>3, <1>2, JobsOfMember
    <3> QED BY <3>2, <3>3
  <2>2. ASSUME j \in JobsOf(s) PROVE j \in JobsOf(t)
    <3>1. PICK i \in DOMAIN s : s[i].kind = "complete" /\ s[i].job = j
      BY <2>2, JobsOfMember
    <3>2. i + 1 \in DOMAIN t /\ t[i + 1] = s[i]
      BY <1>1
    <3> QED BY <3>1, <3>2, JobsOfMember
  <2>3. ASSUME f.kind = "complete", f.job = j PROVE j \in JobsOf(t)
    <3>1. 1 \in DOMAIN t /\ t[1] = f
      BY <1>1
    <3> QED BY <3>1, <2>3, JobsOfMember
  <2> QED BY <2>1, <2>2, <2>3
<1>4. ASSUME OncePerJob(s), f.kind = "complete" => f.job \notin JobsOf(s) PROVE OncePerJob(t)
  <2> SUFFICES ASSUME NEW i \in DOMAIN t, NEW k \in DOMAIN t, i # k,
                      t[i].kind = "complete", t[k].kind = "complete"
               PROVE  t[i].job # t[k].job
    BY DEF OncePerJob
  <2>1. CASE i = 1
    <3>1. t[i] = f /\ k - 1 \in DOMAIN s /\ t[k] = s[k - 1]
      BY <2>1, <1>1, <1>2
    <3> QED BY <3>1, <1>4, JobsOfMember
  <2>2. CASE k = 1
    <3>1. t[k] = f /\ i - 1 \in DOMAIN s /\ t[i] = s[i - 1]
      BY <2>2, <1>1, <1>2
    <3> QED BY <3>1, <1>4, JobsOfMember
  <2>3. CASE i # 1 /\ k # 1
    <3>1. /\ i - 1 \in DOMAIN s /\ t[i] = s[i - 1]
          /\ k - 1 \in DOMAIN s /\ t[k] = s[k - 1]
          /\ i - 1 # k - 1
      BY <2>3, <1>1, <1>2
    <3> QED BY <3>1, <1>4 DEF OncePerJob
  <2> QED BY <2>1, <2>2, <2>3
<1>5. f.kind # "complete" => JobsOf(t) = JobsOf(s)
  BY <1>3
<1>6. f.kind = "complete" => JobsOf(t) = JobsOf(s) \cup {f.job}
  BY <1>3
<1> QED BY <1>1, <1>4, <1>5, <1>6 DEF t

(* A return pops one frame. *)
LEMMA PoppedFrame ==
    ASSUME NEW s \in Seq(Frame), s # <<>>
    PROVE  /\ Head(s) \in Frame
           /\ Tail(s) \in Seq(Frame)
           /\ Head(s).kind # "complete" => JobsOf(Tail(s)) = JobsOf(s)
           /\ Head(s).kind = "complete" /\ OncePerJob(s) => JobsOf(Tail(s)) = JobsOf(s) \ {Head(s).job}
           /\ Head(s).kind = "complete" => Head(s).job \in JobsOf(s)
           /\ OncePerJob(s) => OncePerJob(Tail(s))
<1> DEFINE t == Tail(s)
<1>1. /\ t \in Seq(Frame) /\ Head(s) \in Frame
      /\ Len(s) \in Nat /\ Len(s) > 0
      /\ DOMAIN t = 1 .. Len(s) - 1 /\ DOMAIN s = 1 .. Len(s)
      /\ \A i \in 1 .. Len(s) - 1 : t[i] = s[i + 1]
      /\ s[1] = Head(s)
  BY HeadTailProperties, LenProperties
<1> HIDE DEF t
<1>3. ASSUME NEW j
      PROVE  j \in JobsOf(s) <=> j \in JobsOf(t) \/ (Head(s).kind = "complete" /\ Head(s).job = j)
  <2>1. s = <<Head(s)>> \o t
    BY <1>1, ConcatProperties DEF t
  <2>2. /\ Head(s).kind # "complete" => JobsOf(s) = JobsOf(t)
        /\ Head(s).kind = "complete" => JobsOf(s) = JobsOf(t) \cup {Head(s).job}
    <3> PICK h : h = Head(s)
      OBVIOUS
    <3>1. h \in Frame /\ s = <<h>> \o t
      BY <1>1, <2>1
    <3>2. /\ h.kind # "complete" => JobsOf(<<h>> \o t) = JobsOf(t)
          /\ h.kind = "complete" => JobsOf(<<h>> \o t) = JobsOf(t) \cup {h.job}
      BY <3>1, <1>1, PushedFrame
    <3>3. /\ h.kind # "complete" => JobsOf(s) = JobsOf(t)
          /\ h.kind = "complete" => JobsOf(s) = JobsOf(t) \cup {h.job}
      BY <3>1, <3>2
    <3> QED BY <3>3
  <2> QED BY <2>2
<1>4. ASSUME OncePerJob(s), Head(s).kind = "complete" PROVE Head(s).job \notin JobsOf(t)
  <2> SUFFICES ASSUME Head(s).job \in JobsOf(t) PROVE FALSE
    OBVIOUS
  <2>1. PICK i \in DOMAIN t : t[i].kind = "complete" /\ t[i].job = Head(s).job
    BY JobsOfMember
  <2>2. i + 1 \in DOMAIN s /\ s[i + 1] = t[i] /\ 1 \in DOMAIN s /\ i + 1 # 1
    BY <1>1
  <2> QED BY <2>1, <2>2, <1>1, <1>4 DEF OncePerJob
<1>5. ASSUME OncePerJob(s) PROVE OncePerJob(t)
  <2> SUFFICES ASSUME NEW i \in DOMAIN t, NEW k \in DOMAIN t, i # k,
                      t[i].kind = "complete", t[k].kind = "complete"
               PROVE  t[i].job # t[k].job
    BY DEF OncePerJob
  <2>1. /\ i + 1 \in DOMAIN s /\ t[i] = s[i + 1]
        /\ k + 1 \in DOMAIN s /\ t[k] = s[k + 1]
        /\ i + 1 # k + 1
    BY <1>1
  <2> QED BY <2>1, <1>5 DEF OncePerJob
<1>6. Head(s).kind # "complete" => JobsOf(t) = JobsOf(s)
  BY <1>3
<1>7. Head(s).kind = "complete" /\ OncePerJob(s) => JobsOf(t) = JobsOf(s) \ {Head(s).job}
  BY <1>3, <1>4
<1>8. Head(s).kind = "complete" => Head(s).job \in JobsOf(s)
  BY <1>3
<1> QED BY <1>1, <1>5, <1>6, <1>7, <1>8 DEF t
-----------------------------------------------------------------------------
(* What the state of a thread says about the jobs it holds. *)
Stages ==
    /\ publishing # NoJob <=> pc = "publish"
    /\ \A w \in Workers : w \in created <=> wpc[w] # "none"
    /\ \A w \in Workers : wpc[w] \in {"run", "done", "wake"} => wjob[w] \in Jobs
    /\ \A w \in Workers : wpc[w] = "done" => wjob[w] \in ran
    /\ Completing \subseteq Jobs

(* Nothing is queued before the threads are started, and no work without one. *)
Staffing ==
    /\ ~started => created = {} /\ done = <<>> /\ Completing = {} /\ ended = {}
    /\ created = {} => work = <<>>

(* The counter is exact, and it decides what the loop sees. *)
Counting ==
    /\ pending = Cardinality(live)
    /\ pc # "poll" => (watching => pending > 0)
    /\ pc = "exit" => pending = 0 /\ ~watching

(* A done job that nobody has begun to complete left a byte in the pipe, or its *)
(* worker is about to write one, or the main thread is looking at the queue.    *)
Announced ==
    \A j \in ToSet(done) \ silent :
        \/ pipe > 0
        \/ \E w \in created : wpc[w] = "wake" /\ wjob[w] = j
        \/ pc = "poll"
        \/ Completing # {}

IInv ==
    /\ TypeOK /\ OneOwner /\ RootsCoverJobs
    /\ Stages /\ Staffing /\ Counting
    /\ CompleteAfterRun /\ WorkIsSeen /\ Announced

(* The registry is a finite set, so adding and removing jobs counts. *)
LEMMA Registry ==
    ASSUME TypeOK
    PROVE  IsFiniteSet(live) /\ Cardinality(live) \in Nat
  BY PoolAssumption, FS_Subset, FS_CardinalityType DEF TypeOK

(* Only an empty queue holds no job. *)
LEMMA EmptyQueue ==
    ASSUME NEW S, NEW q \in Seq(S), ToSet(q) = {}
    PROVE  q = <<>>
<1> SUFFICES ASSUME q # <<>> PROVE FALSE
  OBVIOUS
<1>1. ToSet(q) = ToSet(Popped(q)) \cup {Head(q)}
  BY PoppedQueue
<1> QED BY <1>1

(* The places of jobs are made of jobs. *)
LEMMA PlacesAreJobs ==
    ASSUME TypeOK, Stages
    PROVE  /\ ToSet(work) \subseteq Jobs /\ ToSet(done) \subseteq Jobs
           /\ InWorkers \subseteq Jobs /\ Completing \subseteq Jobs
<1>1. ToSet(work) \subseteq Jobs /\ ToSet(done) \subseteq Jobs
  BY ElementOfSeq, LenProperties DEF TypeOK, ToSet
<1> QED BY <1>1 DEF TypeOK, Stages, InWorkers, Busy

(* The initial state satisfies the invariant: nothing was submitted. *)
LEMMA InitIInv == Init => IInv
<1> SUFFICES ASSUME Init PROVE IInv
  OBVIOUS
<1>1. /\ ToSet(work) = {} /\ ToSet(done) = {} /\ Completing = {} /\ Busy = {} /\ InWorkers = {}
  BY DEF Init, ToSet, Completing, JobsOf, Busy, InWorkers
<1>2. TypeOK
  <2>1. pipe \in Closed .. PipeCap
    BY PoolAssumption DEF Init, Closed
  <2>2. work \in Seq(Jobs) /\ done \in Seq(Jobs) /\ frames \in Seq(Frame)
    BY EmptySeq DEF Init
  <2> QED BY <2>1, <2>2 DEF Init, TypeOK
<1>3. OneOwner
  BY <1>1 DEF Init, OneOwner, IsInjective, OncePerJob
<1>4. RootsCoverJobs
  BY <1>1 DEF Init, RootsCoverJobs, Unfinished
<1>5. Stages /\ Staffing
  BY <1>1 DEF Init, Stages, Staffing
<1>6. Counting
  BY FS_EmptySet DEF Init, Counting
<1>7. CompleteAfterRun /\ WorkIsSeen /\ Announced
  BY <1>1 DEF Init, CompleteAfterRun, WorkIsSeen, Announced
<1> QED BY <1>2, <1>3, <1>4, <1>5, <1>6, <1>7 DEF IInv
-----------------------------------------------------------------------------
(* Most steps of the main thread move no job: they only change where the thread *)
(* is, its frames of other kinds, the pipe and the watcher.                     *)
LEMMA NothingMoves ==
    ASSUME IInv,
           UNCHANGED <<work, done, live, pending, started, created, workerVars,
                       publishing, ended, silent>>,
           frames' \in Seq(Frame), Completing' = Completing, OncePerJob(frames)',
           pc # "publish", pc' \in {"js", "select", "poll", "loop", "exit"},
           pipe' \in Closed .. PipeCap, watching' \in BOOLEAN, tail' \in BOOLEAN,
           pc' # "poll" => (watching' => pending > 0),
           pc' = "exit" => pending = 0 /\ ~watching',
           Announced'
    PROVE  IInv'
<1> USE DEF workerVars
<1>1. Busy' = Busy /\ InWorkers' = InWorkers
  BY DEF Busy, InWorkers
<1>2. TypeOK'
  BY DEF IInv, TypeOK
<1>3. OneOwner'
  BY <1>1 DEF IInv, OneOwner
<1>4. RootsCoverJobs'
  BY <1>1 DEF IInv, RootsCoverJobs, Unfinished
<1>5. Stages' /\ Staffing'
  BY DEF IInv, Stages, Staffing
<1>6. Counting'
  BY DEF IInv, Counting
<1>7. CompleteAfterRun' /\ WorkIsSeen'
  BY DEF IInv, CompleteAfterRun, WorkIsSeen
<1> QED BY <1>2, <1>3, <1>4, <1>5, <1>6, <1>7 DEF IInv

(* Pushing a frame that completes nothing. *)
LEMMA OtherFramePushed ==
    ASSUME TypeOK, OneOwner, NEW kind \in {"await", "turn"}, NEW j \in Jobs \cup {NoJob},
           frames' = Push(kind, j, FALSE)
    PROVE  frames' \in Seq(Frame) /\ Completing' = Completing /\ OncePerJob(frames)'
<1> DEFINE f == [kind |-> kind, job |-> j, tail |-> FALSE]
<1>1. f \in Frame /\ f.kind # "complete" /\ frames \in Seq(Frame) /\ OncePerJob(frames)
  BY DEF Frame, TypeOK, OneOwner
<1>2. frames' = <<f>> \o frames
  BY DEF Push
<1> HIDE DEF f
<1> QED BY <1>1, <1>2, PushedFrame DEF Completing

(* Popping a frame that completes nothing. *)
LEMMA OtherFramePopped ==
    ASSUME TypeOK, OneOwner, frames # <<>>, Head(frames).kind # "complete",
           frames' = Tail(frames)
    PROVE  frames' \in Seq(Frame) /\ Completing' = Completing /\ OncePerJob(frames)'
  BY PoppedFrame DEF TypeOK, OneOwner, Completing

(* Blocking in xt_await pushes a frame and moves no job. *)
LEMMA AwaitKeeps == ASSUME IInv, NEW j \in Jobs, Await(j) PROVE IInv'
<1>1. frames' \in Seq(Frame) /\ Completing' = Completing /\ OncePerJob(frames)'
  BY OtherFramePushed DEF IInv, Await
<1>2. Announced'
  BY <1>1 DEF IInv, Announced, Await, workerVars
<1> QED BY <1>1, <1>2, NothingMoves DEF IInv, TypeOK, Counting, Await

(* The wake handler drains the pipe and enters xt_async_poll. *)
LEMMA SelectWokenKeeps == ASSUME IInv, SelectWoken PROVE IInv'
<1>1. Announced'
  BY DEF Announced, SelectWoken, Poll
<1>2. pipe' \in Closed .. PipeCap
  BY PoolAssumption DEF IInv, TypeOK, SelectWoken, Poll, Drained, Closed
<1>3. frames' \in Seq(Frame) /\ Completing' = Completing /\ OncePerJob(frames)'
  BY DEF IInv, TypeOK, OneOwner, SelectWoken, Completing
<1> QED BY <1>1, <1>2, <1>3, NothingMoves DEF IInv, TypeOK, Counting, SelectWoken, Poll, mainOnly

(* A bounded wait ends; the rest of the turn runs JavaScript. *)
LEMMA SelectTimeoutKeeps == ASSUME IInv, SelectTimeout PROVE IInv'
<1>1. frames' \in Seq(Frame) /\ Completing' = Completing /\ OncePerJob(frames)'
  BY OtherFramePushed DEF IInv, SelectTimeout
<1>2. Announced'
  BY <1>1 DEF IInv, Announced, SelectTimeout, mainOnly, workerVars
<1> QED BY <1>1, <1>2, NothingMoves DEF IInv, TypeOK, Counting, SelectTimeout, mainOnly

(* The end of a turn polls the pool, whatever the pipe says. *)
LEMMA TurnEndKeeps == ASSUME IInv, TurnEnd PROVE IInv'
<1>1. frames' \in Seq(Frame) /\ Completing' = Completing /\ OncePerJob(frames)'
  BY OtherFramePopped DEF IInv, TurnEnd, Top
<1>2. Announced'
  BY DEF Announced, TurnEnd, Poll
<1> QED BY <1>1, <1>2, NothingMoves, PoolAssumption
     DEF IInv, TypeOK, Counting, TurnEnd, Poll, Drained, mainOnly, Closed

(* xt_async_poll stops watching only when nothing is pending. *)
LEMMA PollEndKeeps == ASSUME IInv, PollEnd PROVE IInv'
<1>1. frames' \in Seq(Frame) /\ Completing' = Completing /\ OncePerJob(frames)'
  <2>1. CASE frames' = frames
    BY <2>1 DEF IInv, TypeOK, OneOwner, Completing
  <2>2. CASE frames' = Push("turn", NoJob, FALSE)
    BY <2>2, OtherFramePushed DEF IInv
  <2>3. CASE Top("await") /\ frames' = Tail(frames)
    BY <2>3, OtherFramePopped DEF IInv, Top
  <2> QED BY <2>1, <2>2, <2>3 DEF PollEnd, AfterPoll
<1>2. Announced'
  BY DEF Announced, PollEnd, mainOnly, ToSet
<1>3. watching' => pending > 0
  <2>1. watching' => pending # 0
    BY Zenon DEF PollEnd, StillWatching
  <2>2. pending \in Nat
    BY DEF IInv, TypeOK
  <2> QED BY <2>1, <2>2
<1> QED BY <1>1, <1>2, <1>3, NothingMoves DEF IInv, TypeOK, PollEnd, StillWatching, mainOnly

(* xt_await returns for a released job and polls for others. *)
LEMMA AwaitCheckKeeps == ASSUME IInv, AwaitCheck PROVE IInv'
<1>1. frames' \in Seq(Frame) /\ Completing' = Completing /\ OncePerJob(frames)'
  <2>1. CASE Head(frames).job \in live
    BY <2>1 DEF IInv, TypeOK, OneOwner, AwaitCheck, Completing
  <2>2. CASE Head(frames).job \notin live
    BY <2>2, OtherFramePopped DEF IInv, AwaitCheck, Top
  <2> QED BY <2>1, <2>2
<1>2. Announced'
  BY <1>1 DEF IInv, Announced, AwaitCheck, mainOnly, workerVars
<1> QED BY <1>1, <1>2, NothingMoves DEF IInv, TypeOK, Counting, AwaitCheck, mainOnly

(* The module body ends and the loop takes over. *)
LEMMA ScriptEndKeeps == ASSUME IInv, ScriptEnd PROVE IInv'
<1>1. Announced'
  BY DEF IInv, Announced, ScriptEnd, mainOnly, workerVars, Completing
<1> QED BY <1>1, NothingMoves
     DEF IInv, TypeOK, OneOwner, Counting, ScriptEnd, mainOnly, Completing

(* The loop exits only without a watcher and a pending job. *)
LEMMA LoopCheckKeeps == ASSUME IInv, LoopCheck PROVE IInv'
<1>1. Announced'
  BY DEF IInv, Announced, LoopCheck, mainOnly, workerVars, Completing
<1> QED BY <1>1, NothingMoves
     DEF IInv, TypeOK, OneOwner, Counting, LoopCheck, HasWork, mainOnly, Completing

-----------------------------------------------------------------------------
(* xt_async_submit registers and counts a job nobody knew. *)
LEMMA SubmitKeeps == ASSUME IInv, NEW j \in Jobs, Submit(j) PROVE IInv'
<1> USE DEF workerVars
<1>1. /\ publishing = NoJob /\ publishing' = j /\ NoJob \notin Jobs
      /\ j \notin live /\ j \notin ended
      /\ live' = live \cup {j}
  BY PoolAssumption DEF IInv, Stages, Submit, Fresh
<1>2. /\ ToSet(work)' = ToSet(work) /\ ToSet(done)' = ToSet(done)
      /\ Completing' = Completing /\ Busy' = Busy /\ InWorkers' = InWorkers
  BY DEF Submit, Completing, Busy, InWorkers
<1>3. j \notin ToSet(work) \cup ToSet(done) \cup InWorkers \cup Completing
  BY <1>1 DEF IInv, RootsCoverJobs, Unfinished
<1>4. pending' = pending + 1 /\ pending \in Nat
  BY DEF IInv, TypeOK, Submit
<1>5. TypeOK'
  <2>1. pipe' \in Closed .. PipeCap
    BY PoolAssumption DEF IInv, TypeOK, Submit, Closed
  <2>2. watching' \in BOOLEAN
    BY Zenon DEF Submit
  <2> QED BY <1>1, <1>4, <2>1, <2>2 DEF IInv, TypeOK, Submit
<1>6. OneOwner'
  <2>1. UNCHANGED <<work, done, wjob, frames>>
    BY DEF Submit
  <2> QED BY <1>1, <1>2, <1>3, <2>1 DEF IInv, OneOwner
<1>7. RootsCoverJobs'
  BY <1>1, <1>2 DEF IInv, RootsCoverJobs, Unfinished, Submit
<1>8. Stages'
  BY <1>1, <1>2 DEF IInv, Stages, Submit
<1>9. Staffing'
  BY <1>2 DEF IInv, Staffing, Submit
<1>10. Counting'
  <2>1. Cardinality(live') = Cardinality(live) + 1
    BY <1>1, Registry, FS_AddElement DEF IInv
  <2>2. pending' > 0 /\ pc' = "publish"
    BY <1>4 DEF Submit
  <2> QED BY <1>4, <2>1, <2>2 DEF IInv, Counting
<1>11. CompleteAfterRun' /\ WorkIsSeen'
  BY <1>2 DEF IInv, CompleteAfterRun, WorkIsSeen, Submit
<1>12. Announced'
  <2>1. pipe > 0 => pipe' > 0
    BY DEF Submit, Closed
  <2>2. UNCHANGED <<done, silent, created, wpc, wjob>> /\ pc = "js"
    BY DEF Submit
  <2> QED BY <1>2, <2>1, <2>2 DEF IInv, Announced
<1> QED BY <1>5, <1>6, <1>7, <1>8, <1>9, <1>10, <1>11, <1>12 DEF IInv

(* xt_async_poll moves the oldest done job to a completion. *)
LEMMA CompleteStartKeeps == ASSUME IInv, CompleteStart PROVE IInv'
<1> USE DEF workerVars
<1> DEFINE j == Head(done)
           f == [kind |-> "complete", job |-> j, tail |-> tail]
<1>1. /\ j \in Jobs /\ done' \in Seq(Jobs)
      /\ ToSet(done) = ToSet(done)' \cup {j} /\ j \notin ToSet(done)'
      /\ IsInjective(done)'
  BY PoppedQueue DEF IInv, TypeOK, OneOwner, CompleteStart
<1>2. f \in Frame /\ f.kind = "complete" /\ f.job = j /\ frames' = <<f>> \o frames
  BY <1>1 DEF IInv, TypeOK, CompleteStart, Push, Frame
<1>3. j \notin Completing
  BY <1>1 DEF IInv, OneOwner
<1> HIDE DEF f
<1>4. frames' \in Seq(Frame) /\ Completing' = Completing \cup {j} /\ OncePerJob(frames)'
  BY <1>2, <1>3, PushedFrame DEF IInv, TypeOK, OneOwner, Completing
<1>5. /\ ToSet(work)' = ToSet(work) /\ Busy' = Busy /\ InWorkers' = InWorkers
      /\ UNCHANGED <<work, wjob, wpc, created, publishing, live, ended, pending, ran, started>>
      /\ pc' = "js" /\ pc = "poll"
  BY DEF CompleteStart, Busy, InWorkers
<1> HIDE DEF j
<1>6. TypeOK'
  BY <1>1, <1>4 DEF IInv, TypeOK, CompleteStart
<1>7. OneOwner'
  <2>1. /\ IsInjective(work)' /\ IsInjective(done)' /\ OncePerJob(frames)'
        /\ \A v, w \in Busy' : wjob'[v] = wjob'[w] => v = w
    BY <1>1, <1>4, <1>5 DEF IInv, OneOwner
  <2>2. j # publishing /\ j \notin ToSet(work) \cup InWorkers
    BY <1>1 DEF IInv, OneOwner
  <2> QED BY <1>1, <1>4, <1>5, <2>1, <2>2 DEF IInv, OneOwner
<1>8. RootsCoverJobs'
  BY <1>1, <1>4, <1>5 DEF IInv, RootsCoverJobs, Unfinished
<1>9. Stages'
  BY <1>1, <1>4, <1>5 DEF IInv, Stages
<1>10. Staffing'
  <2>1. started
    BY DEF IInv, Staffing, CompleteStart
  <2> QED BY <2>1, <1>5 DEF IInv, Staffing
<1>11. Counting'
  <2>1. j \in live
    BY <1>1 DEF IInv, RootsCoverJobs, Unfinished
  <2>2. Cardinality(live) # 0
    BY <2>1, Registry, FS_EmptySet DEF IInv
  <2>3. pending > 0
    BY <2>2, Registry DEF IInv, Counting
  <2> QED BY <2>3, <1>5 DEF IInv, Counting
<1>12. CompleteAfterRun' /\ WorkIsSeen'
  BY <1>1, <1>4, <1>5 DEF IInv, CompleteAfterRun, WorkIsSeen
<1>13. Announced'
  BY <1>4 DEF Announced
<1> QED BY <1>6, <1>7, <1>8, <1>9, <1>10, <1>11, <1>12, <1>13 DEF IInv

(* A completion returns: its job leaves the registry and the counter. *)
LEMMA CompleteReturnKeeps == ASSUME IInv, CompleteReturn PROVE IInv'
<1> USE DEF workerVars, mainOnly
<1> DEFINE j == Head(frames).job
<1>1. /\ frames' \in Seq(Frame) /\ Completing' = Completing \ {j} /\ OncePerJob(frames)'
      /\ j \in Completing /\ Head(frames) \in Frame
  BY PoppedFrame DEF IInv, TypeOK, OneOwner, Completing, CompleteReturn, Top
<1>2. /\ ToSet(work)' = ToSet(work) /\ ToSet(done)' = ToSet(done)
      /\ Busy' = Busy /\ InWorkers' = InWorkers
      /\ UNCHANGED <<work, done, wjob, wpc, created, publishing, ran, started, watching>>
      /\ pc' = "poll" /\ pc = "js"
  BY DEF CompleteReturn, Busy, InWorkers
<1>3. /\ live' = live \ {j} /\ ended' = ended \cup {j} /\ pending' = pending - 1
      /\ j \in live /\ j \in Jobs
  BY <1>1 DEF IInv, RootsCoverJobs, Unfinished, Stages, CompleteReturn
<1>4. tail' \in BOOLEAN
  BY <1>1 DEF CompleteReturn, Frame
<1> HIDE DEF j
<1>5. Cardinality(live') = pending' /\ pending' \in Nat
  <2>1. Cardinality(live') = Cardinality(live) - 1 /\ IsFiniteSet(live')
    BY <1>3, Registry, FS_RemoveElement DEF IInv
  <2>2. Cardinality(live') \in Nat
    BY <2>1, FS_CardinalityType
  <2> QED BY <2>1, <2>2, <1>3 DEF IInv, Counting
<1>6. TypeOK'
  BY <1>1, <1>3, <1>4, <1>5 DEF IInv, TypeOK, CompleteReturn
<1>7. OneOwner'
  BY <1>1, <1>2 DEF IInv, OneOwner
<1>8. RootsCoverJobs'
  BY <1>1, <1>2, <1>3 DEF IInv, RootsCoverJobs, Unfinished, OneOwner
<1>9. Stages'
  BY <1>1, <1>2 DEF IInv, Stages
<1>10. Staffing'
  BY <1>1, <1>2 DEF IInv, Staffing
<1>11. Counting'
  BY <1>2, <1>5 DEF Counting
<1>12. CompleteAfterRun' /\ WorkIsSeen'
  BY <1>1, <1>2, <1>3 DEF IInv, CompleteAfterRun, WorkIsSeen
<1>13. Announced'
  BY <1>2 DEF Announced
<1> QED BY <1>6, <1>7, <1>8, <1>9, <1>10, <1>11, <1>12, <1>13 DEF IInv

(* Starting the threads and signalling one leaves every busy worker where it is. *)
LEMMA PublishThreads ==
    ASSUME IInv, Publish
    PROVE  /\ created \subseteq created' /\ created' \subseteq Workers
           /\ started => created' = created
           /\ wpc' \in [Workers -> {"none", "pop", "wait", "run", "done", "wake"}]
           /\ \A w \in created' \ created : wpc'[w] = "pop"
           /\ \A w \in created : wpc'[w] = wpc[w] \/ (wpc[w] = "wait" /\ wpc'[w] = "pop")
           /\ \A w \in Workers \ created' : wpc'[w] = "none"
           /\ created' # {} => \E w \in created' : wpc'[w] # "wait"
<1> DEFINE awake == [w \in Workers |-> IF w \in created' \ created THEN "pop" ELSE wpc[w]]
<1>1. /\ created' \in IF started THEN {created} ELSE Spawnable
      /\ wpc' \in Signalled(awake)
  BY DEF Publish
<1>2. created \subseteq created' /\ created' \subseteq Workers /\ (started => created' = created)
  BY <1>1, PoolAssumption DEF IInv, TypeOK, Staffing
<1>3. /\ wpc \in [Workers -> {"none", "pop", "wait", "run", "done", "wake"}]
      /\ created \subseteq Workers
      /\ \A w \in Workers : w \in created <=> wpc[w] # "none"
  BY DEF IInv, TypeOK, Stages
<1>4. awake \in [Workers -> {"none", "pop", "wait", "run", "done", "wake"}]
  BY <1>3
<1>5. /\ \A w \in created' \ created : awake[w] = "pop"
      /\ \A w \in created : awake[w] = wpc[w]
      /\ \A w \in Workers \ created' : awake[w] = "none"
  BY <1>2, <1>3
<1> HIDE DEF awake
<1>6. CASE Waiting = {}
  <2>1. wpc' = awake
    BY <1>1, <1>6 DEF Signalled
  <2>2. \A w \in created' : wpc'[w] # "wait"
    BY <2>1, <1>2, <1>5, <1>6 DEF Waiting
  <2> QED BY <2>1, <2>2, <1>2, <1>4, <1>5
<1>7. CASE Waiting # {}
  <2>1. PICK v \in Waiting : wpc' = [awake EXCEPT ![v] = "pop"]
    BY <1>1, <1>7 DEF Signalled
  <2>2. v \in created /\ wpc[v] = "wait"
    BY DEF Waiting
  <2>3. /\ wpc' \in [Workers -> {"none", "pop", "wait", "run", "done", "wake"}]
        /\ wpc'[v] = "pop"
        /\ \A w \in Workers : w # v => wpc'[w] = awake[w]
    BY <2>1, <2>2, <1>3, <1>4
  <2> QED BY <2>2, <2>3, <1>2, <1>3, <1>5
<1> QED BY <1>6, <1>7

(* xt_async_submit queues the job it registered, as work or, without threads, as done. *)
LEMMA PublishKeeps == ASSUME IInv, Publish PROVE IInv'
<1> DEFINE j == publishing
<1>1. /\ j \in Jobs /\ pc = "publish" /\ publishing' = NoJob /\ pc' = "js"
      /\ j \in live /\ NoJob \notin Jobs
      /\ j \notin ToSet(work) \cup ToSet(done) \cup InWorkers \cup Completing
  BY PoolAssumption DEF IInv, TypeOK, Stages, RootsCoverJobs, Unfinished, OneOwner, Publish
<1>2. /\ UNCHANGED <<live, pending, pipe, watching, wjob, ran, tail, frames, ended>>
      /\ Completing' = Completing /\ started'
  BY DEF Publish, Completing
<1>3. Busy' = Busy /\ InWorkers' = InWorkers
  <2>1. Busy' = Busy
    BY PublishThreads DEF Busy
  <2> QED BY <2>1, <1>2 DEF InWorkers
<1>4. /\ work' \in Seq(Jobs) /\ done' \in Seq(Jobs)
      /\ IsInjective(work)' /\ IsInjective(done)'
      /\ \/ /\ created' # {}
            /\ ToSet(work)' = ToSet(work) \cup {j} /\ ToSet(done)' = ToSet(done)
            /\ UNCHANGED <<done, silent>>
         \/ /\ created' = {}
            /\ ToSet(work)' = ToSet(work) /\ ToSet(done)' = ToSet(done) \cup {j}
            /\ UNCHANGED work /\ silent' = silent \cup {j}
  <2>1. /\ work \in Seq(Jobs) /\ done \in Seq(Jobs)
        /\ IsInjective(work) /\ IsInjective(done)
        /\ j \in Jobs /\ j \notin ToSet(work) /\ j \notin ToSet(done)
    BY <1>1 DEF IInv, TypeOK, OneOwner
  <2>2. CASE created' # {}
    <3>1. work' = Pushed(work, j) /\ UNCHANGED <<done, silent>>
      BY <2>2 DEF Publish
    <3> HIDE DEF j
    <3>2. /\ work' \in Seq(Jobs) /\ IsInjective(work')
          /\ ToSet(work') = ToSet(work) \cup {j}
      BY <2>1, <3>1, PushedJobs
    <3> QED BY <2>1, <2>2, <3>1, <3>2
  <2>3. CASE created' = {}
    <3>1. done' = Pushed(done, j) /\ silent' = silent \cup {j} /\ UNCHANGED work
      BY <2>3 DEF Publish
    <3> HIDE DEF j
    <3>2. /\ done' \in Seq(Jobs) /\ IsInjective(done')
          /\ ToSet(done') = ToSet(done) \cup {j}
      BY <2>1, <3>1, PushedJobs
    <3> QED BY <2>1, <2>3, <3>1, <3>2
  <2> QED BY <2>2, <2>3
<1>5. j = publishing
  OBVIOUS
<1> HIDE DEF j
<1>6. TypeOK'
  <2>1. started' \in BOOLEAN /\ publishing' \in Jobs \cup {NoJob} /\ silent' \subseteq Jobs
    BY <1>1, <1>2, <1>4 DEF IInv, TypeOK
  <2> QED BY <2>1, <1>1, <1>2, <1>4, PublishThreads DEF IInv, TypeOK
<1>7. OneOwner'
  <2>1. NoJob \notin ToSet(work)' \cup ToSet(done)' \cup InWorkers' \cup Completing'
    BY <1>1, <1>2, <1>3, <1>4, PlacesAreJobs DEF IInv
  <2> QED BY <1>1, <1>2, <1>3, <1>4, <1>5, <2>1 DEF IInv, OneOwner
<1>8. RootsCoverJobs'
  BY <1>1, <1>2, <1>3, <1>4, <1>5 DEF IInv, RootsCoverJobs, Unfinished
<1>9. Stages'
  <2>1. \A w \in Workers : /\ w \in created' <=> wpc'[w] # "none"
                           /\ wpc'[w] \in {"run", "done", "wake"} => wpc'[w] = wpc[w]
    BY PublishThreads DEF IInv, Stages, TypeOK
  <2> QED BY <1>1, <1>2, <2>1 DEF IInv, Stages
<1>10. Staffing'
  BY <1>2, <1>4, PublishThreads DEF IInv, Staffing
<1>11. Counting'
  BY <1>1, <1>2 DEF IInv, Counting
<1>12. CompleteAfterRun'
  <2> SUFFICES ASSUME created' # {} PROVE ToSet(done)' \cup Completing' \cup ended' \subseteq ran'
    BY DEF CompleteAfterRun
  <2>1. CASE started
    BY <2>1, <1>2, <1>4, PublishThreads DEF IInv, CompleteAfterRun
  <2>2. CASE ~started
    BY <2>2, <1>2, <1>4 DEF IInv, Staffing, ToSet
  <2> QED BY <2>1, <2>2
<1>13. WorkIsSeen'
  BY <1>4, PublishThreads DEF IInv, WorkIsSeen, Staffing
<1>14. Announced'
  <2> SUFFICES ASSUME NEW i \in ToSet(done)' \ silent'
               PROVE  \/ pipe' > 0
                      \/ \E w \in created' : wpc'[w] = "wake" /\ wjob'[w] = i
                      \/ Completing' # {}
    BY DEF Announced
  <2>1. i \in ToSet(done) \ silent
    BY <1>4
  <2>2. \/ pipe > 0
        \/ \E w \in created : wpc[w] = "wake" /\ wjob[w] = i
        \/ Completing # {}
    BY <2>1, <1>1 DEF IInv, Announced
  <2>3. \A w \in created : wpc[w] = "wake" => w \in created' /\ wpc'[w] = "wake"
    BY PublishThreads
  <2> QED BY <2>2, <2>3, <1>2
<1> QED BY <1>6, <1>7, <1>8, <1>9, <1>10, <1>11, <1>12, <1>13, <1>14 DEF IInv
-----------------------------------------------------------------------------
(* A worker takes the oldest job or goes to sleep on an empty queue. *)
LEMMA WorkerPopKeeps == ASSUME IInv, NEW w \in Workers, WorkerPop(w) PROVE IInv'
<1> USE DEF workerOnly, mainVars
<1>1. /\ UNCHANGED <<live, pending, started, created, watching, pc, publishing, tail, frames,
                     ended, done, pipe, ran, silent>>
      /\ Completing' = Completing /\ ToSet(done)' = ToSet(done)
      /\ wpc \in [Workers -> {"none", "pop", "wait", "run", "done", "wake"}]
      /\ wjob \in [Workers -> Jobs \cup {NoJob}]
      /\ wpc[w] = "pop" /\ w \in created /\ w \notin Busy
  BY DEF IInv, TypeOK, Stages, WorkerPop, Completing, Busy
<1>2. CASE work = <<>>
  <2>1. wpc' = [wpc EXCEPT ![w] = "wait"] /\ UNCHANGED <<work, wjob>>
    BY <1>2 DEF WorkerPop
  <2>2. Busy' = Busy /\ InWorkers' = InWorkers
    BY <1>1, <2>1 DEF Busy, InWorkers
  <2>3. TypeOK'
    BY <1>1, <2>1 DEF IInv, TypeOK
  <2>4. OneOwner'
    BY <1>1, <2>1, <2>2 DEF IInv, OneOwner
  <2>5. RootsCoverJobs'
    BY <1>1, <2>1, <2>2 DEF IInv, RootsCoverJobs, Unfinished
  <2>6. Stages' /\ Staffing' /\ Counting'
    BY <1>1, <2>1 DEF IInv, Stages, Staffing, Counting
  <2>7. CompleteAfterRun' /\ WorkIsSeen'
    BY <1>1, <1>2, <2>1 DEF IInv, CompleteAfterRun, WorkIsSeen
  <2>8. Announced'
    BY <1>1, <2>1 DEF IInv, Announced
  <2> QED BY <2>3, <2>4, <2>5, <2>6, <2>7, <2>8 DEF IInv
<1>3. CASE work # <<>>
  <2> DEFINE j == Head(work)
  <2>1. /\ wpc' = [wpc EXCEPT ![w] = "run"]
        /\ wjob' = [wjob EXCEPT ![w] = j]
        /\ work' = Popped(work)
    BY <1>3 DEF WorkerPop
  <2>2. /\ j \in Jobs /\ work' \in Seq(Jobs)
        /\ ToSet(work) = ToSet(work)' \cup {j} /\ j \notin ToSet(work)'
        /\ IsInjective(work)'
    BY <1>3, <2>1, PoppedQueue DEF IInv, TypeOK, OneOwner
  <2>3. j \notin ToSet(done) \cup InWorkers \cup Completing \cup {publishing}
    BY <2>2 DEF IInv, OneOwner
  <2> HIDE DEF j
  <2>4. Busy' = Busy \cup {w} /\ w \notin Busy
    BY <1>1, <2>1 DEF Busy
  <2>5. wjob'[w] = j /\ \A v \in Busy : wjob'[v] = wjob[v]
    BY <1>1, <2>1 DEF Busy
  <2>6. InWorkers' = InWorkers \cup {j}
    BY <2>4, <2>5 DEF InWorkers
  <2>7. TypeOK'
    BY <1>1, <2>1, <2>2 DEF IInv, TypeOK
  <2>8. OneOwner'
    <3>1. \A v, u \in Busy' : wjob'[v] = wjob'[u] => v = u
      BY <2>3, <2>4, <2>5 DEF IInv, OneOwner, InWorkers
    <3> QED BY <3>1, <1>1, <2>2, <2>3, <2>6 DEF IInv, OneOwner
  <2>9. RootsCoverJobs'
    BY <1>1, <2>2, <2>6 DEF IInv, RootsCoverJobs, Unfinished
  <2>10. Stages'
    BY <1>1, <2>1, <2>2 DEF IInv, Stages
  <2>11. Staffing' /\ Counting'
    BY <1>1 DEF IInv, Staffing, Counting
  <2>12. CompleteAfterRun' /\ WorkIsSeen'
    BY <1>1, <2>1 DEF IInv, CompleteAfterRun, WorkIsSeen
  <2>13. Announced'
    <3>1. \A v \in created : wpc[v] = "wake" => wpc'[v] = "wake" /\ wjob'[v] = wjob[v]
      BY <1>1, <2>1 DEF IInv, TypeOK
    <3> QED BY <3>1, <1>1 DEF IInv, Announced
  <2> QED BY <2>7, <2>8, <2>9, <2>10, <2>11, <2>12, <2>13 DEF IInv
<1> QED BY <1>2, <1>3

(* A worker that wakes without a signal holds nothing. *)
LEMMA SpuriousWakeKeeps == ASSUME IInv, NEW w \in Workers, SpuriousWake(w) PROVE IInv'
<1> USE DEF workerOnly, mainVars
<1>1. /\ UNCHANGED <<live, pending, started, created, watching, pc, publishing, tail, frames,
                     ended, work, done, pipe, wjob, ran, silent>>
      /\ Completing' = Completing
      /\ wpc \in [Workers -> {"none", "pop", "wait", "run", "done", "wake"}]
      /\ wpc[w] = "wait" /\ wpc' = [wpc EXCEPT ![w] = "pop"]
  BY DEF IInv, TypeOK, SpuriousWake, Completing
<1>2. Busy' = Busy /\ InWorkers' = InWorkers
  BY <1>1 DEF Busy, InWorkers
<1>3. TypeOK'
  BY <1>1 DEF IInv, TypeOK
<1>4. OneOwner'
  BY <1>1, <1>2 DEF IInv, OneOwner
<1>5. RootsCoverJobs'
  BY <1>1, <1>2 DEF IInv, RootsCoverJobs, Unfinished
<1>6. Stages' /\ Staffing' /\ Counting'
  BY <1>1 DEF IInv, Stages, Staffing, Counting
<1>7. CompleteAfterRun' /\ WorkIsSeen'
  BY <1>1 DEF IInv, TypeOK, CompleteAfterRun, WorkIsSeen
<1>8. Announced'
  BY <1>1 DEF IInv, TypeOK, Announced
<1> QED BY <1>3, <1>4, <1>5, <1>6, <1>7, <1>8 DEF IInv

(* A worker runs the job it holds. *)
LEMMA WorkerRunKeeps == ASSUME IInv, NEW w \in Workers, WorkerRun(w) PROVE IInv'
<1> USE DEF workerOnly, mainVars
<1>1. /\ UNCHANGED <<live, pending, started, created, watching, pc, publishing, tail, frames,
                     ended, work, done, pipe, wjob, silent>>
      /\ Completing' = Completing
      /\ wpc \in [Workers -> {"none", "pop", "wait", "run", "done", "wake"}]
      /\ wpc[w] = "run" /\ wpc' = [wpc EXCEPT ![w] = "done"]
      /\ ran' = ran \cup {wjob[w]} /\ wjob[w] \in Jobs
  BY DEF IInv, TypeOK, Stages, WorkerRun, Completing
<1>2. Busy' = Busy /\ InWorkers' = InWorkers
  BY <1>1 DEF Busy, InWorkers
<1>3. TypeOK'
  BY <1>1 DEF IInv, TypeOK
<1>4. OneOwner'
  BY <1>1, <1>2 DEF IInv, OneOwner
<1>5. RootsCoverJobs'
  BY <1>1, <1>2 DEF IInv, RootsCoverJobs, Unfinished
<1>6. Stages' /\ Staffing' /\ Counting'
  BY <1>1 DEF IInv, Stages, Staffing, Counting
<1>7. CompleteAfterRun' /\ WorkIsSeen'
  BY <1>1 DEF IInv, TypeOK, CompleteAfterRun, WorkIsSeen
<1>8. Announced'
  BY <1>1 DEF IInv, TypeOK, Announced
<1> QED BY <1>3, <1>4, <1>5, <1>6, <1>7, <1>8 DEF IInv

(* A worker queues its job as done and owes a byte. *)
LEMMA WorkerPushKeeps == ASSUME IInv, NEW w \in Workers, WorkerPush(w) PROVE IInv'
<1> USE DEF workerOnly, mainVars
<1> DEFINE j == wjob[w]
<1>1. /\ UNCHANGED <<live, pending, started, created, watching, pc, publishing, tail, frames,
                     ended, work, pipe, wjob, ran, silent>>
      /\ Completing' = Completing /\ ToSet(work)' = ToSet(work)
      /\ wpc \in [Workers -> {"none", "pop", "wait", "run", "done", "wake"}]
      /\ wpc[w] = "done" /\ wpc' = [wpc EXCEPT ![w] = "wake"]
      /\ done' = Pushed(done, j)
      /\ j \in Jobs /\ j \in ran /\ w \in created
  BY DEF IInv, TypeOK, Stages, WorkerPush, Completing
<1>2. w \in Busy /\ Busy' = Busy \ {w}
  BY <1>1 DEF Busy
<1>3. j \in InWorkers /\ InWorkers' = InWorkers \ {j}
  BY <1>1, <1>2 DEF IInv, OneOwner, InWorkers
<1>4. j \notin ToSet(work) \cup ToSet(done) \cup Completing \cup {publishing}
  BY <1>3 DEF IInv, OneOwner
<1>5. done' \in Seq(Jobs) /\ IsInjective(done') /\ ToSet(done') = ToSet(done) \cup {j}
  <2>1. done \in Seq(Jobs) /\ IsInjective(done) /\ j \in Jobs /\ j \notin ToSet(done)
    BY <1>1, <1>4 DEF IInv, TypeOK, OneOwner
  <2> HIDE DEF j
  <2>2. /\ Pushed(done, j) \in Seq(Jobs) /\ IsInjective(Pushed(done, j))
        /\ ToSet(Pushed(done, j)) = ToSet(done) \cup {j}
    BY <2>1, PushedJobs
  <2>3. done' = Pushed(done, j)
    BY <1>1
  <2> QED BY <2>2, <2>3
<1>6. TypeOK'
  BY <1>1, <1>5 DEF IInv, TypeOK
<1>7. OneOwner'
  <2>1. /\ IsInjective(work)' /\ IsInjective(done)' /\ OncePerJob(frames)'
        /\ \A v, u \in Busy' : wjob'[v] = wjob'[u] => v = u
    BY <1>1, <1>2, <1>5 DEF IInv, OneOwner
  <2> HIDE DEF j
  <2> QED BY <1>1, <1>3, <1>4, <1>5, <2>1 DEF IInv, OneOwner
<1>8. RootsCoverJobs'
  BY <1>1, <1>3, <1>5 DEF IInv, RootsCoverJobs, Unfinished
<1>9. Stages'
  BY <1>1 DEF IInv, Stages
<1>10. Staffing' /\ Counting'
  BY <1>1 DEF IInv, Staffing, Counting
<1>11. CompleteAfterRun' /\ WorkIsSeen'
  BY <1>1, <1>5 DEF IInv, CompleteAfterRun, WorkIsSeen
<1>12. Announced'
  <2> SUFFICES ASSUME NEW i \in ToSet(done)' \ silent', pc # "poll", Completing = {}, ~(pipe > 0)
               PROVE  \E v \in created : wpc'[v] = "wake" /\ wjob[v] = i
    BY <1>1 DEF Announced
  <2>1. CASE i = j
    BY <2>1, <1>1
  <2>2. CASE i # j
    <3>1. PICK v \in created : wpc[v] = "wake" /\ wjob[v] = i
      BY <2>2, <1>1, <1>5 DEF IInv, Announced
    <3>2. wpc'[v] = "wake"
      BY <3>1, <1>1 DEF IInv, TypeOK
    <3> QED BY <3>1, <3>2
  <2> QED BY <2>1, <2>2
<1> QED BY <1>6, <1>7, <1>8, <1>9, <1>10, <1>11, <1>12 DEF IInv

(* A worker pays the byte, or there is no pipe to write to. *)
LEMMA WorkerWakeupKeeps == ASSUME IInv, NEW w \in Workers, WorkerWakeup(w) PROVE IInv'
<1> USE DEF workerOnly, mainVars
<1> DEFINE j == wjob[w]
<1>1. /\ UNCHANGED <<live, pending, started, created, watching, pc, publishing, tail, frames,
                     ended, work, done, ran>>
      /\ Completing' = Completing
      /\ wpc \in [Workers -> {"none", "pop", "wait", "run", "done", "wake"}]
      /\ wjob \in [Workers -> Jobs \cup {NoJob}]
      /\ wpc[w] = "wake" /\ wpc' = [wpc EXCEPT ![w] = "pop"]
      /\ wjob' = [wjob EXCEPT ![w] = NoJob]
      /\ j \in Jobs /\ w \notin Busy
  BY DEF IInv, TypeOK, Stages, WorkerWakeup, Completing, Busy
<1>2. /\ pipe' \in Closed .. PipeCap
      /\ pipe > 0 => pipe' > 0
      /\ \/ pipe = Closed /\ silent' = silent \cup {j}
         \/ pipe' > 0 /\ silent' = silent
  <2>1. pipe \in Closed .. PipeCap /\ PipeCap \in Nat \ {0}
    BY PoolAssumption DEF IInv, TypeOK
  <2> QED BY <2>1 DEF WorkerWakeup, PipeWithByte, Closed
<1>3. Busy' = Busy
  BY <1>1 DEF Busy
<1>4. InWorkers' = InWorkers /\ \A v \in Busy : wjob'[v] = wjob[v]
  BY <1>1, <1>3 DEF InWorkers, Busy
<1>5. TypeOK'
  BY <1>1, <1>2 DEF IInv, TypeOK
<1>6. OneOwner'
  BY <1>1, <1>3, <1>4 DEF IInv, OneOwner
<1>7. RootsCoverJobs'
  BY <1>1, <1>4 DEF IInv, RootsCoverJobs, Unfinished
<1>8. Stages' /\ Staffing' /\ Counting'
  BY <1>1 DEF IInv, Stages, Staffing, Counting
<1>9. CompleteAfterRun' /\ WorkIsSeen'
  BY <1>1 DEF IInv, TypeOK, CompleteAfterRun, WorkIsSeen
<1>10. Announced'
  <2> SUFFICES ASSUME NEW i \in ToSet(done) \ silent', pc # "poll", Completing = {}, ~(pipe' > 0)
               PROVE  \E v \in created : wpc'[v] = "wake" /\ wjob'[v] = i
    BY <1>1 DEF Announced
  <2>1. i # j /\ i \notin silent /\ ~(pipe > 0)
    BY <1>2
  <2>2. PICK v \in created : wpc[v] = "wake" /\ wjob[v] = i
    BY <2>1 DEF IInv, Announced
  <2>3. v # w /\ v \in Workers
    BY <2>1, <2>2 DEF IInv, TypeOK
  <2> QED BY <2>2, <2>3, <1>1
<1> QED BY <1>5, <1>6, <1>7, <1>8, <1>9, <1>10 DEF IInv
-----------------------------------------------------------------------------
(* The inductive step. *)
LEMMA NextIInv == IInv /\ [Next]_vars => IInv'
<1> SUFFICES ASSUME IInv, [Next]_vars PROVE IInv'
  OBVIOUS
<1>1. CASE Main
  BY <1>1, PublishKeeps, SelectWokenKeeps, SelectTimeoutKeeps, TurnEndKeeps, CompleteStartKeeps,
     CompleteReturnKeeps, PollEndKeeps, AwaitCheckKeeps, ScriptEndKeeps, LoopCheckKeeps DEF Main
<1>2. CASE Script
  BY <1>2, SubmitKeeps, AwaitKeeps DEF Script
<1>3. ASSUME NEW w \in Workers, Worker(w) \/ SpuriousWake(w) PROVE IInv'
  BY <1>3, WorkerPopKeeps, WorkerRunKeeps, WorkerPushKeeps, WorkerWakeupKeeps, SpuriousWakeKeeps DEF Worker
<1>4. CASE UNCHANGED vars
  <2>1. /\ Busy' = Busy /\ InWorkers' = InWorkers /\ Completing' = Completing
        /\ Unfinished' = Unfinished
    BY <1>4 DEF vars, Busy, InWorkers, Completing, Unfinished
  <2>2. TypeOK' /\ OneOwner' /\ RootsCoverJobs'
    BY <2>1, <1>4 DEF vars, IInv, TypeOK, OneOwner, RootsCoverJobs
  <2>3. Stages' /\ Staffing' /\ Counting'
    BY <2>1, <1>4 DEF vars, IInv, Stages, Staffing, Counting
  <2>4. CompleteAfterRun' /\ WorkIsSeen' /\ Announced'
    BY <2>1, <1>4 DEF vars, IInv, CompleteAfterRun, WorkIsSeen, Announced
  <2> QED BY <2>2, <2>3, <2>4 DEF IInv
<1> QED BY <1>1, <1>2, <1>3, <1>4 DEF Next, Exited

(* The invariant holds in every behaviour. *)
LEMMA Invariance == Spec => []IInv
  BY InitIInv, NextIInv, PTL DEF Spec, SafeSpec

(* What the inductive invariant says about the properties of the model. *)
LEMMA Consequences == IInv => PendingCounts /\ NoLostWakeup /\ ExitsIdle
<1> SUFFICES ASSUME IInv PROVE PendingCounts /\ NoLostWakeup /\ ExitsIdle
  OBVIOUS
<1>1. PendingCounts
  BY DEF IInv, RootsCoverJobs, Counting, PendingCounts
<1>2. NoLostWakeup
  BY DEF IInv, Announced, NoLostWakeup
<1>3. ExitsIdle
  <2>1. ASSUME pc = "exit" PROVE live = {} /\ work = <<>> /\ done = <<>> /\ ~watching
    <3>1. live = {}
      BY <2>1, Registry, FS_EmptySet DEF IInv, Counting
    <3>2. ToSet(work) = {} /\ ToSet(done) = {}
      BY <3>1 DEF IInv, RootsCoverJobs, Unfinished
    <3>3. work = <<>> /\ done = <<>>
      BY <3>2, EmptyQueue DEF IInv, TypeOK
    <3> QED BY <2>1, <3>1, <3>3 DEF IInv, Counting
  <2> QED BY <2>1 DEF IInv, Counting, ExitsIdle
<1> QED BY <1>1, <1>2, <1>3

(* Every variable keeps its type, for any jobs, threads and pipe. *)
THEOREM TypeCorrect == Spec => []TypeOK
<1>1. IInv => TypeOK
  BY DEF IInv
<1> QED BY <1>1, Invariance, PTL

(* No job is lost or completed twice: it has one owner at any time. *)
THEOREM JobsHaveOneOwner == Spec => []OneOwner
<1>1. IInv => OneOwner
  BY DEF IInv
<1> QED BY <1>1, Invariance, PTL

(* A job stays registered with the collector exactly until it is released. *)
THEOREM RootsAreCovered == Spec => []RootsCoverJobs
<1>1. IInv => RootsCoverJobs
  BY DEF IInv
<1> QED BY <1>1, Invariance, PTL

(* The counter the loop decides on is the number of unfinished jobs. *)
THEOREM CounterIsExact == Spec => []PendingCounts
  BY Consequences, Invariance, PTL

(* With a worker alive, only jobs that ran are completed. *)
THEOREM RunsBeforeCompletion == Spec => []CompleteAfterRun
<1>1. IInv => CompleteAfterRun
  BY DEF IInv
<1> QED BY <1>1, Invariance, PTL

(* Signals and pops never leave work behind with every thread asleep. *)
THEOREM WorkersSeeWork == Spec => []WorkIsSeen
<1>1. IInv => WorkIsSeen
  BY DEF IInv
<1> QED BY <1>1, Invariance, PTL

(* The self-pipe protocol loses no wakeup outside nested completions. *)
THEOREM WakeupsArrive == Spec => []NoLostWakeup
  BY Consequences, Invariance, PTL

(* The loop exits with nothing outstanding. *)
THEOREM ExitMeansIdle == Spec => []ExitsIdle
  BY Consequences, Invariance, PTL
-----------------------------------------------------------------------------
(***************************************************************************)
(* The pool implements the safety part of JobService: seen through Phase,  *)
(* every step of AsyncPool is one step of the service or changes nothing.  *)
(*                                                                         *)
(* Six sets partition the jobs, one per phase (PhaseIs).  The inductive    *)
(* invariant makes them disjoint, so a step that moves one job from one    *)
(* set to another and keeps the members of all six otherwise (Kept) is a   *)
(* step of the service for that job.                                       *)
(***************************************************************************)
Queued == ToSet(work) \cup ({publishing} \ {NoJob})

HeldAt(stage) == {wjob[w] : w \in {v \in created : wpc[v] = stage}}

Ready == ToSet(done) \cup HeldAt("done")

PhaseIs ==
    \A j \in Jobs :
        /\ j \in Fresh => Phase(j) = "new"
        /\ j \in Queued => Phase(j) = "queued"
        /\ j \in HeldAt("run") => Phase(j) = "running"
        /\ j \in Ready => Phase(j) = "ready"
        /\ j \in Completing => Phase(j) = "completing"
        /\ j \in ended => Phase(j) = "closed"
        /\ j \in Fresh \cup Queued \cup HeldAt("run") \cup Ready \cup Completing \cup ended

\* The phases of all jobs but those of S survive a step.
Kept(S) ==
    /\ Fresh \ S \subseteq Fresh'
    /\ Queued \ S \subseteq Queued'
    /\ HeldAt("run") \ S \subseteq HeldAt("run")'
    /\ Ready \ S \subseteq Ready'
    /\ Completing \ S \subseteq Completing'
    /\ ended \ S \subseteq ended'

phases == [j \in Jobs |-> Phase(j)]

(* The sets of PhaseIs are disjoint, and Phase picks the right one. *)
LEMMA PhaseIsNow == IInv => PhaseIs
<1> SUFFICES ASSUME IInv, NEW j \in Jobs
             PROVE  /\ j \in Fresh => Phase(j) = "new"
                    /\ j \in Queued => Phase(j) = "queued"
                    /\ j \in HeldAt("run") => Phase(j) = "running"
                    /\ j \in Ready => Phase(j) = "ready"
                    /\ j \in Completing => Phase(j) = "completing"
                    /\ j \in ended => Phase(j) = "closed"
                    /\ j \in Fresh \cup Queued \cup HeldAt("run") \cup Ready \cup Completing \cup ended
  BY DEF PhaseIs
<1> DEFINE run == \E w \in Busy : wpc[w] = "run" /\ wjob[w] = j
           held == \E w \in Busy : wpc[w] = "done" /\ wjob[w] = j
<1>1. j # NoJob
  BY PoolAssumption
<1>2. /\ j \in HeldAt("run") <=> run
      /\ j \in HeldAt("done") <=> held
      /\ j \in InWorkers <=> run \/ held
      /\ ~(run /\ held)
  BY DEF HeldAt, Busy, InWorkers, IInv, OneOwner
<1>3. Phase(j) = CASE j \in Fresh -> "new"
                   [] j = publishing \/ j \in ToSet(work) -> "queued"
                   [] run -> "running"
                   [] j \in ToSet(done) \/ held -> "ready"
                   [] j \in Completing -> "completing"
                   [] OTHER -> "closed"
  BY DEF Phase
<1> HIDE DEF run, held
<1>4. /\ j \in Fresh <=> j \notin live /\ j \notin ended
      /\ j \in live <=> j = publishing \/ j \in ToSet(work) \/ run \/ held
                          \/ j \in ToSet(done) \/ j \in Completing
      /\ ~(j \in live /\ j \in ended)
  BY <1>1, <1>2 DEF IInv, RootsCoverJobs, Unfinished, Fresh
<1>5. /\ j \in Queued <=> j = publishing \/ j \in ToSet(work)
      /\ j \in Ready <=> j \in ToSet(done) \/ held
  BY <1>1, <1>2 DEF Queued, Ready
<1>6. /\ ~(j \in Queued /\ (run \/ j \in Ready \/ j \in Completing))
      /\ ~(run /\ (j \in Ready \/ j \in Completing))
      /\ ~(j \in Ready /\ j \in Completing)
  BY <1>1, <1>2, <1>5 DEF IInv, OneOwner
<1> QED BY <1>2, <1>3, <1>4, <1>5, <1>6

(* The same in the next state. *)
LEMMA PhaseIsNext == IInv' => PhaseIs'
  BY PhaseIsNow, PTL

(* A step that keeps every phase is invisible to the service. *)
LEMMA NoMove == ASSUME IInv, IInv', Kept({}) PROVE phases' = phases
<1>1. ASSUME NEW j \in Jobs PROVE Phase(j)' = Phase(j)
  BY PhaseIsNow, PhaseIsNext DEF Kept, PhaseIs
<1> QED BY <1>1 DEF phases

(* A step that moves one job changes its phase only. *)
LEMMA OneMove ==
    ASSUME IInv, IInv', NEW j \in Jobs, Kept({j})
    PROVE  phases' = [phases EXCEPT ![j] = Phase(j)']
<1>1. ASSUME NEW i \in Jobs \ {j} PROVE Phase(i)' = Phase(i)
  BY PhaseIsNow, PhaseIsNext DEF Kept, PhaseIs
<1> QED BY <1>1 DEF phases
-----------------------------------------------------------------------------
(* What the service sees of a step that moves no job. *)
LEMMA Stutter ==
    ASSUME IInv, IInv', Kept({}), created' = created
    PROVE  UNCHANGED Service!vars
  BY NoMove DEF phases, Service!vars

(* What the service sees of a step that moves one job. *)
LEMMA Moved ==
    ASSUME IInv, IInv', NEW j \in Jobs, Kept({j}), created' = created,
           NEW from, NEW to, Phase(j) = from, Phase(j)' = to
    PROVE  Service!Step(j, from, to)
<1>1. phases' = [phases EXCEPT ![j] = to]
  BY OneMove
<1>2. phases[j] = from
  BY DEF phases
<1>3. (created # {})' = (created # {})
  OBVIOUS
<1> QED BY <1>1, <1>2, <1>3 DEF phases, Service!Step

(* The main thread moves jobs only when it submits, publishes and completes. *)
LEMMA MainStutters ==
    ASSUME IInv, IInv',
           UNCHANGED <<work, done, live, created, wpc, wjob, publishing, ended>>,
           Completing' = Completing
    PROVE  UNCHANGED Service!vars
  BY Stutter DEF Kept, Fresh, Queued, HeldAt, Ready

(* xt_await blocks without touching a job. *)
LEMMA AwaitStutters ==
    ASSUME IInv, IInv', NEW j \in Jobs, Await(j) PROVE UNCHANGED Service!vars
  BY MainStutters, OtherFramePushed DEF IInv, Await, workerVars

(* The turns of the loop, up to the done queue, touch no job. *)
LEMMA LoopStutters ==
    ASSUME IInv, IInv',
           SelectWoken \/ SelectTimeout \/ TurnEnd \/ PollEnd \/ AwaitCheck \/ ScriptEnd \/ LoopCheck
    PROVE  UNCHANGED Service!vars
<1>1. /\ UNCHANGED <<work, done, created, wpc, wjob, publishing>>
      /\ UNCHANGED <<live, ended>>
  BY DEF SelectWoken, SelectTimeout, TurnEnd, PollEnd, AwaitCheck, ScriptEnd, LoopCheck,
         mainOnly, workerVars
<1>2. Completing' = Completing
  <2>1. CASE UNCHANGED frames
    BY <2>1 DEF Completing
  <2>2. CASE frames' = Push("turn", NoJob, FALSE)
    BY <2>2, OtherFramePushed DEF IInv
  <2>3. CASE (Top("turn") \/ Top("await")) /\ frames' = Tail(frames)
    BY <2>3, OtherFramePopped DEF IInv, Top
  <2>4. CASE PollEnd
    BY <2>1, <2>2, <2>3, <2>4 DEF PollEnd, AfterPoll
  <2> QED BY <2>1, <2>2, <2>3, <2>4
       DEF SelectWoken, SelectTimeout, TurnEnd, AwaitCheck, ScriptEnd, LoopCheck
<1> QED BY <1>1, <1>2, MainStutters

(* Submission is the service taking a job. *)
LEMMA SubmitTakes ==
    ASSUME IInv, IInv', NEW j \in Jobs, Submit(j) PROVE Service!Take(j)
<1>1. /\ UNCHANGED <<work, done, created, wpc, wjob, frames, ended>>
      /\ j \in Fresh /\ live' = live \cup {j}
      /\ publishing = NoJob /\ publishing' = j /\ j # NoJob
  BY PoolAssumption DEF IInv, Stages, Submit, workerVars
<1>2. Kept({j}) /\ j \in Queued'
  BY <1>1 DEF Kept, Fresh, Queued, HeldAt, Ready, Completing
<1>3. Phase(j) = "new" /\ Phase(j)' = "queued"
  BY <1>1, <1>2, PhaseIsNow, PhaseIsNext DEF PhaseIs
<1> QED BY <1>1, <1>2, <1>3, Moved DEF Service!Take

(* Publication creates the threads, or queues behind them, or bypasses them. *)
LEMMA PublishStaffs ==
    ASSUME IInv, IInv', Publish
    PROVE  \/ Service!Staff
           \/ \E j \in Jobs : Service!Bypass(j)
           \/ UNCHANGED Service!vars
<1> PICK j \in Jobs : j = publishing
  BY DEF IInv, TypeOK, Stages, Publish
<1>1. /\ j = publishing /\ publishing' = NoJob /\ NoJob \notin Jobs
      /\ UNCHANGED <<live, wjob, frames, ended>>
  BY PoolAssumption DEF Publish
<1>2. j \in Jobs /\ work \in Seq(Jobs) /\ done \in Seq(Jobs)
  BY DEF IInv, TypeOK
<1>3. \A stage \in {"run", "done"} : HeldAt(stage)' = HeldAt(stage)
  BY <1>1, PublishThreads DEF HeldAt
<1>4. Completing' = Completing /\ Fresh' = Fresh
  BY <1>1 DEF Completing, Fresh
<1>5. j \in Queued
  BY <1>1 DEF Queued
<1>6. CASE created' # {}
  <2>1. work' = Pushed(work, j) /\ done' = done
    BY <1>1, <1>6 DEF Publish
  <2>2. ToSet(work)' = ToSet(work) \cup {j}
    <3>1. Pushed(work, j) \in Seq(Jobs) /\ ToSet(Pushed(work, j)) = ToSet(work) \cup {j}
      BY <1>2, PushedJobs
    <3>2. ToSet(work') = ToSet(work) \cup {j}
      BY <3>1, <2>1
    <3> QED BY <3>2
  <2>3. Queued' = Queued
    BY <1>1, <2>2 DEF Queued
  <2>4. Kept({})
    BY <1>1, <1>3, <1>4, <2>1, <2>3 DEF Kept, Ready
  <2>5. CASE started
    <3>1. created' = created
      BY <2>5, PublishThreads
    <3> QED BY <3>1, <2>4, Stutter
  <2>6. CASE ~started
    <3>1. /\ created = {} /\ done = <<>> /\ Completing = {} /\ ended = {}
      BY <2>6 DEF IInv, Staffing
    <3>2. \A i \in Jobs : i \in Fresh \cup Queued
      BY <3>1 DEF IInv, RootsCoverJobs, Unfinished, InWorkers, Busy, Fresh, Queued, ToSet
    <3>3. \A i \in Jobs : phases[i] \in {"new", "queued"}
      BY <3>2, PhaseIsNow DEF PhaseIs, phases
    <3>4. phases[j] = "queued"
      BY <1>1, <1>5, PhaseIsNow DEF PhaseIs, phases
    <3>5. phases' = phases
      BY <2>4, NoMove
    <3>6. Service!Staff
      BY <1>1, <1>6, <3>1, <3>3, <3>4, <3>5 DEF phases, Service!Staff
    <3> QED BY <3>6
  <2> QED BY <2>5, <2>6
<1>7. CASE created' = {}
  <2>1. created = {}
    BY <1>7, PublishThreads
  <2>2. done' = Pushed(done, j) /\ work' = work
    BY <1>1, <1>7 DEF Publish
  <2>3. ToSet(done)' = ToSet(done) \cup {j}
    <3>1. Pushed(done, j) \in Seq(Jobs) /\ ToSet(Pushed(done, j)) = ToSet(done) \cup {j}
      BY <1>2, PushedJobs
    <3>2. ToSet(done') = ToSet(done) \cup {j}
      BY <3>1, <2>2
    <3> QED BY <3>2
  <2>4. Kept({j}) /\ j \in Ready'
    BY <1>1, <1>3, <1>4, <2>2, <2>3 DEF Kept, Queued, Ready
  <2>5. Phase(j) = "queued" /\ Phase(j)' = "ready"
    BY <1>1, <1>5, <2>4, PhaseIsNow, PhaseIsNext DEF PhaseIs
  <2>6. Service!Step(j, "queued", "ready")
    BY <1>1, <1>7, <2>1, <2>4, <2>5, Moved
  <2> QED BY <1>1, <2>1, <2>6 DEF Service!Bypass
<1> QED BY <1>6, <1>7

(* Calling a completion is the service completing a job that ran or was bypassed. *)
LEMMA CompleteStartCompletes ==
    ASSUME IInv, IInv', CompleteStart PROVE \E j \in Jobs : Service!Complete(j)
<1> PICK j \in Jobs : j = Head(done)
  BY PoppedQueue DEF IInv, TypeOK, CompleteStart
<1> DEFINE f == [kind |-> "complete", job |-> j, tail |-> tail]
<1>1. j = Head(done) /\ ToSet(done) = ToSet(done)' \cup {j}
  BY PoppedQueue DEF IInv, TypeOK, CompleteStart
<1>2. f \in Frame /\ f.kind = "complete" /\ f.job = j /\ frames' = <<f>> \o frames
  BY <1>1 DEF IInv, TypeOK, CompleteStart, Push, Frame
<1> HIDE DEF f
<1>3. Completing' = Completing \cup {j}
  BY <1>2, PushedFrame DEF IInv, TypeOK, Completing
<1>4. UNCHANGED <<work, live, created, wpc, wjob, publishing, ended>>
  BY DEF CompleteStart, workerVars
<1>5. Kept({j}) /\ j \in Ready /\ j \in Completing'
  BY <1>1, <1>3, <1>4 DEF Kept, Fresh, Queued, HeldAt, Ready
<1>6. Phase(j) = "ready" /\ Phase(j)' = "completing"
  BY <1>1, <1>5, PhaseIsNow, PhaseIsNext DEF PhaseIs
<1>7. Service!Step(j, "ready", "completing")
  BY <1>1, <1>4, <1>5, <1>6, Moved
<1> QED BY <1>1, <1>7 DEF Service!Complete

(* The return of a completion is the service closing the job. *)
LEMMA CompleteReturnCloses ==
    ASSUME IInv, IInv', CompleteReturn PROVE \E j \in Jobs : Service!Close(j)
<1> PICK j \in Completing : j = Head(frames).job
  BY PoppedFrame DEF IInv, TypeOK, Completing, CompleteReturn, Top
<1>1. Completing' = Completing \ {j} /\ j \in Jobs /\ j = Head(frames).job
  BY PoppedFrame DEF IInv, TypeOK, OneOwner, Stages, Completing, CompleteReturn, Top
<1>2. /\ UNCHANGED <<work, done, created, wpc, wjob, publishing>>
      /\ live' = live \ {j} /\ ended' = ended \cup {j}
  BY <1>1 DEF CompleteReturn, mainOnly, workerVars
<1>3. Kept({j}) /\ j \in ended'
  BY <1>1, <1>2 DEF Kept, Fresh, Queued, HeldAt, Ready
<1>4. Phase(j) = "completing" /\ Phase(j)' = "closed"
  BY <1>1, <1>3, PhaseIsNow, PhaseIsNext DEF PhaseIs
<1>5. Service!Step(j, "completing", "closed")
  BY <1>1, <1>2, <1>3, <1>4, Moved
<1> QED BY <1>1, <1>5 DEF Service!Close

(* Popping a job is the service beginning to run it. *)
LEMMA WorkerPopRuns ==
    ASSUME IInv, IInv', NEW w \in Workers, WorkerPop(w)
    PROVE  UNCHANGED Service!vars \/ \E j \in Jobs : Service!Run(j)
<1> USE DEF workerOnly, mainVars
<1>1. /\ UNCHANGED <<live, created, publishing, frames, ended, done>>
      /\ wpc \in [Workers -> {"none", "pop", "wait", "run", "done", "wake"}]
      /\ wjob \in [Workers -> Jobs \cup {NoJob}]
      /\ wpc[w] = "pop" /\ w \in created /\ created \subseteq Workers
  BY DEF IInv, TypeOK, Stages, WorkerPop
<1>2. CASE work = <<>>
  <2>1. wpc' = [wpc EXCEPT ![w] = "wait"] /\ UNCHANGED <<work, wjob>>
    BY <1>2 DEF WorkerPop
  <2>2. \A stage \in {"run", "done"} : HeldAt(stage)' = HeldAt(stage)
    BY <1>1, <2>1 DEF HeldAt
  <2>3. Kept({})
    BY <1>1, <2>1, <2>2 DEF Kept, Fresh, Queued, Ready, Completing
  <2> QED BY <1>1, <2>3, Stutter
<1>3. CASE work # <<>>
  <2> PICK j \in Jobs : j = Head(work)
    BY <1>3, PoppedQueue DEF IInv, TypeOK
  <2>1. /\ wpc' = [wpc EXCEPT ![w] = "run"]
        /\ wjob' = [wjob EXCEPT ![w] = j]
        /\ work' = Popped(work)
    BY <1>3 DEF WorkerPop
  <2>2. ToSet(work) = ToSet(work)' \cup {j}
    BY <1>3, <2>1, PoppedQueue DEF IInv, TypeOK
  <2>3. HeldAt("done")' = HeldAt("done") /\ HeldAt("run") \subseteq HeldAt("run")'
    BY <1>1, <2>1 DEF HeldAt
  <2>4. j \in HeldAt("run")'
    BY <1>1, <2>1 DEF HeldAt
  <2>5. Kept({j}) /\ j \in Queued
    BY <1>1, <2>2, <2>3 DEF Kept, Fresh, Queued, Ready, Completing
  <2>6. Phase(j) = "queued" /\ Phase(j)' = "running"
    BY <2>2, <2>4, <2>5, PhaseIsNow, PhaseIsNext DEF PhaseIs
  <2>7. Service!Step(j, "queued", "running")
    BY <1>1, <2>2, <2>5, <2>6, Moved
  <2> QED BY <1>1, <2>2, <2>7 DEF Service!Run
<1> QED BY <1>2, <1>3

(* The return of run is the service finishing the job. *)
LEMMA WorkerRunFinishes ==
    ASSUME IInv, IInv', NEW w \in Workers, WorkerRun(w) PROVE \E j \in Jobs : Service!Finish(j)
<1> USE DEF workerOnly, mainVars
<1> PICK j \in Jobs : j = wjob[w]
  BY DEF IInv, Stages, WorkerRun
<1>1. /\ UNCHANGED <<live, created, publishing, frames, ended, work, done, wjob>>
      /\ wpc \in [Workers -> {"none", "pop", "wait", "run", "done", "wake"}]
      /\ wpc[w] = "run" /\ wpc' = [wpc EXCEPT ![w] = "done"]
      /\ w \in created /\ created \subseteq Workers /\ j = wjob[w]
  BY DEF IInv, TypeOK, Stages, WorkerRun
<1>2. /\ j \in HeldAt("run") /\ j \in HeldAt("done")'
      /\ HeldAt("done") \subseteq HeldAt("done")'
      /\ HeldAt("run") \ {j} \subseteq HeldAt("run")'
  BY <1>1 DEF HeldAt
<1>3. Kept({j}) /\ j \in Ready'
  BY <1>1, <1>2 DEF Kept, Fresh, Queued, Ready, Completing
<1>4. Phase(j) = "running" /\ Phase(j)' = "ready"
  BY <1>1, <1>2, <1>3, PhaseIsNow, PhaseIsNext DEF PhaseIs
<1>5. Service!Step(j, "running", "ready")
  BY <1>1, <1>3, <1>4, Moved
<1> QED BY <1>1, <1>5 DEF Service!Finish

(* Queueing the completion keeps the job ready. *)
LEMMA WorkerPushStutters ==
    ASSUME IInv, IInv', NEW w \in Workers, WorkerPush(w) PROVE UNCHANGED Service!vars
<1> USE DEF workerOnly, mainVars
<1> PICK j \in Jobs : j = wjob[w]
  BY DEF IInv, Stages, WorkerPush
<1>1. /\ UNCHANGED <<live, created, publishing, frames, ended, work, wjob>>
      /\ wpc \in [Workers -> {"none", "pop", "wait", "run", "done", "wake"}]
      /\ wpc[w] = "done" /\ wpc' = [wpc EXCEPT ![w] = "wake"]
      /\ created \subseteq Workers
      /\ done' = Pushed(done, j) /\ j = wjob[w] /\ done \in Seq(Jobs)
  BY DEF IInv, TypeOK, Stages, WorkerPush
<1>2. HeldAt("run") \subseteq HeldAt("run")' /\ HeldAt("done") \ {j} \subseteq HeldAt("done")'
  BY <1>1 DEF HeldAt
<1>3. ToSet(done)' = ToSet(done) \cup {j}
  <2>1. Pushed(done, j) \in Seq(Jobs) /\ ToSet(Pushed(done, j)) = ToSet(done) \cup {j}
    <3>1. j \in Jobs /\ done \in Seq(Jobs)
      BY <1>1
    <3> QED BY <3>1, PushedJobs
  <2>2. ToSet(done') = ToSet(done) \cup {j}
    BY <2>1, <1>1
  <2> QED BY <2>2
<1>4. Kept({})
  BY <1>1, <1>2, <1>3 DEF Kept, Fresh, Queued, Ready, Completing
<1> QED BY <1>1, <1>4, Stutter

(* Writing the byte and waking without a signal concern no job. *)
LEMMA WorkerRestStutters ==
    ASSUME IInv, IInv', NEW w \in Workers, WorkerWakeup(w) \/ SpuriousWake(w)
    PROVE  UNCHANGED Service!vars
<1>1. /\ UNCHANGED <<live, created, publishing, frames, ended, work, done>>
      /\ wpc \in [Workers -> {"none", "pop", "wait", "run", "done", "wake"}]
      /\ wjob \in [Workers -> Jobs \cup {NoJob}]
      /\ wpc[w] \in {"wake", "wait"} /\ wpc' = [wpc EXCEPT ![w] = "pop"]
      /\ wjob' = wjob \/ wjob' = [wjob EXCEPT ![w] = NoJob]
      /\ created \subseteq Workers
  BY DEF IInv, TypeOK, WorkerWakeup, SpuriousWake, workerOnly, mainVars
<1>2. \A stage \in {"run", "done"} : HeldAt(stage) \subseteq HeldAt(stage)'
  BY <1>1 DEF HeldAt
<1>3. Kept({})
  BY <1>1, <1>2 DEF Kept, Fresh, Queued, Ready, Completing
<1> QED BY <1>1, <1>3, Stutter
-----------------------------------------------------------------------------
(* A program has submitted nothing: every job is new. *)
LEMMA InitService == Init => Service!Init
<1> SUFFICES ASSUME Init PROVE Service!Init
  OBVIOUS
<1>1. Fresh = Jobs /\ created = {}
  BY DEF Init, Fresh
<1>2. \A j \in Jobs : Phase(j) = "new"
  BY <1>1, InitIInv, PhaseIsNow DEF PhaseIs
<1> QED BY <1>1, <1>2 DEF Service!Init

(* Every step of the pool is a step of the service or a stutter. *)
LEMMA NextService == IInv /\ IInv' /\ [Next]_vars => [Service!Next]_Service!vars
<1> SUFFICES ASSUME IInv, IInv', [Next]_vars PROVE [Service!Next]_Service!vars
  OBVIOUS
<1>1. CASE Publish
  BY <1>1, PublishStaffs DEF Service!Next
<1>2. CASE CompleteStart
  BY <1>2, CompleteStartCompletes DEF Service!Next
<1>3. CASE CompleteReturn
  BY <1>3, CompleteReturnCloses DEF Service!Next
<1>4. CASE SelectWoken \/ SelectTimeout \/ TurnEnd \/ PollEnd \/ AwaitCheck \/ ScriptEnd \/ LoopCheck
  BY <1>4, LoopStutters
<1>5. ASSUME NEW j \in Jobs, Submit(j) \/ Await(j) PROVE [Service!Next]_Service!vars
  BY <1>5, SubmitTakes, AwaitStutters DEF Service!Next
<1>6. ASSUME NEW w \in Workers, Worker(w) \/ SpuriousWake(w) PROVE [Service!Next]_Service!vars
  BY <1>6, WorkerPopRuns, WorkerRunFinishes, WorkerPushStutters, WorkerRestStutters
     DEF Worker, Service!Next
<1>7. CASE UNCHANGED vars
  <2>1. Completing' = Completing
    BY <1>7 DEF vars, Completing
  <2> QED BY <1>7, <2>1, MainStutters DEF vars
<1> QED BY <1>1, <1>2, <1>3, <1>4, <1>5, <1>6, <1>7 DEF Next, Main, Script, Exited

(* The pool keeps its promise: each job is run once and completed once, in   *)
(* that order, and bypassed only when no thread could be created.            *)
THEOREM PoolKeepsPromise == SafeSpec => Service!SafeSpec
<1>1. SafeSpec => []IInv
  BY InitIInv, NextIInv, PTL DEF SafeSpec
<1>2. Init => Service!Init
  BY InitService
<1> QED BY <1>1, <1>2, NextService, PTL DEF SafeSpec, Service!SafeSpec
=============================================================================
