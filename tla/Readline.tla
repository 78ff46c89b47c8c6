------------------------------ MODULE Readline ------------------------------
(***************************************************************************)
(* The line reader of runtime/ext_node/readline/readline.c: interfaces in  *)
(* a table of slots, a blocking byte-wise read of standard input per       *)
(* interface on the asynchronous I/O pool, and the delivery of lines to    *)
(* callbacks that may call every method of every interface.                *)
(*                                                                         *)
(* Standard input is typed in halves, numbered from 1: an odd one begins a *)
(* line, the next one ends it with its newline; the last line may lack it. *)
(* Reads in flight take whatever comes next, so halves stand for bytes.    *)
(*                                                                         *)
(* The callbacks that are running form the sequence frames, the innermost  *)
(* first, each with what the C code does once it returns.  A callback may  *)
(* throw: no function of readline.c has a try frame, so the exception goes *)
(* past all of them to a try statement of an outer callback or of the main *)
(* program.  Whether a question or the line listeners take a line is left  *)
(* out, and so are a read error and callbacks that run the event loop      *)
(* themselves, as Promise.all does (see README).                           *)
(*                                                                         *)
(* Definitions whose names begin with Bug are wrong on purpose: each is    *)
(* the variant of the definition after it that some property must refute.  *)
(***************************************************************************)
EXTENDS Integers, Sequences, SequencesExt, FiniteSetsExt

CONSTANTS
    MaxSlots,        \* XT_READLINE_MAX_INTERFACES
    MaxInterfaces,   \* bound: interfaces created in one execution
    MaxLines,        \* bound: typed lines
    MaxDepth         \* bound: nested callbacks

ASSUME ReadlineAssumption ==
    MaxSlots \in Nat /\ MaxInterfaces \in Nat /\ MaxLines \in Nat \ {0} /\ MaxDepth \in Nat

VARIABLES
    next, last,   \* standard input: the next half, and the last there will be
    rl,           \* the interfaces, in the order of their creation
    slots,        \* g_readline_interfaces: an index of rl, 0 if undefined
    running,      \* the reads in flight
    completed,    \* the reads that wait for their completion on the main thread
    frames,       \* running callbacks, innermost first
    mixed         \* history: lines read while two interfaces were reading

input == <<next, last, mixed>>
vars == <<input, rl, slots, running, completed, frames>>

Slots == 0 .. MaxSlots - 1
Halves == 1 .. 2 * MaxLines
LineOf(half) == (half + 1) \div 2
Ends(half) == half % 2 = 0

New(slot) == [slot |-> slot, closed |-> FALSE, paused |-> FALSE, reading |-> FALSE,
              pending |-> <<>>, delivered |-> <<>>,
              \* histories: the lines read, that some of them were dropped, and
              \* that an exception left some buffered with nobody to drain them
              took |-> <<>>, cut |-> FALSE, exposed |-> FALSE]

Callback(i, then) == [of |-> i, then |-> then, rest |-> <<>>, eof |-> FALSE]
-----------------------------------------------------------------------------
Init ==
    /\ next = 1 /\ last \in {2 * MaxLines - 1, 2 * MaxLines}
    /\ rl = <<>> /\ slots = [s \in Slots |-> 0]
    /\ running = <<>> /\ completed = <<>>
    /\ frames = <<>> /\ mixed = {}

FreeSlots == {s \in Slots : slots[s] = 0}

BugSlotFromOne == Len(rl) + 1
FreeSlot == Min(FreeSlots)

(* createInterface; with a full table it returns undefined. *)
Create ==
    /\ Len(rl) < MaxInterfaces
    /\ FreeSlots # {}
    /\ rl' = Append(rl, New(FreeSlot))
    /\ slots' = [slots EXCEPT ![FreeSlot] = Len(rl) + 1]
    /\ UNCHANGED <<input, running, completed, frames>>

BugReadAgain(r) == ~r.closed /\ ~r.paused
MayRead(r) == ~r.closed /\ ~r.paused /\ ~r.reading

(* xt_readline_start_read: whoever is in the slot now reads, if it may; r is rl *)
(* as the caller leaves it.                                                     *)
StartRead(r, s) ==
    LET i == slots[s]
    IN  IF i # 0 /\ MayRead(r[i])
        THEN /\ rl' = [r EXCEPT ![i].reading = TRUE]
             /\ running' = Append(running, [by |-> i, slot |-> s, got |-> <<>>, eof |-> FALSE])
        ELSE rl' = r /\ UNCHANGED running

(* on("line"), once("line") and question. *)
Listen(i) ==
    /\ StartRead(rl, rl[i].slot)
    /\ UNCHANGED <<input, slots, completed, frames>>

Pause(i) ==
    /\ ~rl[i].closed
    /\ rl' = [rl EXCEPT ![i].paused = TRUE]
    /\ UNCHANGED <<input, slots, running, completed, frames>>

(* resume calls the resume listeners first. *)
Resume(i) ==
    /\ ~rl[i].closed
    /\ Len(frames) < MaxDepth
    /\ rl' = [rl EXCEPT ![i].paused = FALSE]
    /\ frames' = <<Callback(i, "drain_pending")>> \o frames
    /\ UNCHANGED <<input, slots, running, completed>>

\* The drains of an interface that were interrupted by a callback, with lines left.
Drains(i) == {f \in DOMAIN frames : frames[f].of = i /\ frames[f].rest # <<>>}

(* xt_readline_close: the close listeners run before the slot is free.  What is *)
(* buffered or in the hands of a drain will not be delivered any more.          *)
CloseIn(r, i, outer) ==
    /\ rl' = [r EXCEPT ![i].closed = TRUE,
                       ![i].cut = @ \/ r[i].pending # <<>> \/ Drains(i) # {}]
    /\ frames' = <<Callback(i, "free_slot")>> \o outer

Close(i) ==
    /\ ~rl[i].closed
    /\ Len(frames) < MaxDepth
    /\ CloseIn(rl, i, frames)
    /\ UNCHANGED <<input, slots, running, completed>>
-----------------------------------------------------------------------------
(* xt_readline_job_run, on a worker: the read takes what comes next; a newline, *)
(* or the end of the input, completes it.                                       *)
JobEnds(k, job) ==
    /\ running' = RemoveAt(running, k)
    /\ completed' = Append(completed, job)

Rivals(k) == \E m \in DOMAIN running : running[m].by # running[k].by

JobReads(k) ==
    /\ next <= last
    /\ next' = next + 1
    /\ mixed' = IF Rivals(k) THEN mixed \cup {LineOf(next)} ELSE mixed
    /\ LET job == [running[k] EXCEPT !.got = Append(@, next)]
       IN  IF Ends(next) THEN JobEnds(k, job)
           ELSE running' = [running EXCEPT ![k] = job] /\ UNCHANGED completed
    /\ UNCHANGED <<last, rl, slots, frames>>

JobAtEof(k) ==
    /\ next > last
    /\ JobEnds(k, [running[k] EXCEPT !.eof = TRUE])
    /\ UNCHANGED <<input, rl, slots, frames>>

\* The slot of the interface that asked is free, or has a new owner.
Gone(job) == slots[job.slot] # job.by
Unwanted(job) == Gone(job) \/ rl[job.by].closed

\* The line of a completed read is in the interface, at the place named.
With(i, place, line) ==
    [rl EXCEPT ![i].reading = FALSE, ![i][place] = Append(@, line), ![i].took = Append(@, line)]

(* xt_readline_job_complete, from the event loop, up to the first callback. *)
Complete ==
    /\ frames = <<>> /\ completed # <<>>
    /\ completed' = Tail(completed)
    /\ LET job == Head(completed)
           i == job.by
           none == job.eof /\ job.got = <<>>
       IN  \/ Gone(job) /\ UNCHANGED <<rl, frames>>
           \/ /\ ~Gone(job) /\ rl[i].closed
              /\ rl' = [rl EXCEPT ![i].reading = FALSE]
              /\ UNCHANGED frames
           \/ /\ ~Unwanted(job) /\ ~none /\ ~rl[i].paused
              /\ rl' = With(i, "delivered", job.got)
              /\ frames' = <<[Callback(i, "go_on") EXCEPT !.eof = job.eof]>>
           \/ /\ ~Unwanted(job) /\ ~none /\ rl[i].paused /\ ~job.eof
              /\ rl' = With(i, "pending", job.got)
              /\ UNCHANGED frames
           \/ /\ ~Unwanted(job) /\ ~none /\ rl[i].paused /\ job.eof
              /\ CloseIn(With(i, "pending", job.got), i, <<>>)
           \/ /\ ~Unwanted(job) /\ none
              /\ CloseIn([rl EXCEPT ![i].reading = FALSE], i, <<>>)
    /\ UNCHANGED <<input, slots, running>>
-----------------------------------------------------------------------------
Top == Head(frames)
Returns(then) == frames # <<>> /\ Top.then = then

\* The rest of xt_readline_job_complete after a line was delivered.
GoOn ==
    /\ Returns("go_on")
    /\ \/ Top.eof /\ ~rl[Top.of].closed /\ CloseIn(rl, Top.of, Tail(frames)) /\ UNCHANGED running
       \/ /\ Top.eof /\ rl[Top.of].closed
          /\ frames' = Tail(frames) /\ UNCHANGED <<rl, running>>
       \/ /\ ~Top.eof
          /\ frames' = Tail(frames)
          /\ IF rl[Top.of].closed THEN UNCHANGED <<rl, running>> ELSE StartRead(rl, rl[Top.of].slot)
    /\ UNCHANGED <<input, slots, completed>>

(* The loop of xt_readline_drain_pending: a line is delivered unless a callback *)
(* paused or closed the interface; rl_resume then starts to read, for whoever   *)
(* is in the slot by now.                                                       *)
Drain(r, i, rest) ==
    LET stop == r[i].closed \/ r[i].paused
    IN  IF rest # <<>> /\ ~stop
        THEN /\ rl' = [r EXCEPT ![i].delivered = Append(@, Head(rest))]
             /\ frames' = <<[Callback(i, "drain") EXCEPT !.rest = Tail(rest)]>> \o Tail(frames)
             /\ UNCHANGED running
        ELSE /\ frames' = Tail(frames)
             /\ StartRead([r EXCEPT ![i].cut = @ \/ rest # <<>>], r[i].slot)

DrainPending ==
    /\ Returns("drain_pending")
    /\ Drain([rl EXCEPT ![Top.of].pending = <<>>], Top.of, rl[Top.of].pending)
    /\ UNCHANGED <<input, slots, completed>>

DrainNext ==
    /\ Returns("drain")
    /\ Drain(rl, Top.of, Top.rest)
    /\ UNCHANGED <<input, slots, completed>>

FreeClosed ==
    /\ Returns("free_slot")
    /\ slots' = [slots EXCEPT ![rl[Top.of].slot] = 0]
    /\ frames' = Tail(frames)
    /\ UNCHANGED <<input, rl, running, completed>>

WillDrain(fs, i) == \E f \in DOMAIN fs : fs[f].of = i /\ fs[f].then = "drain_pending"

\* The interface may read, and no resume is about to drain what it has buffered.
Stale(r, i, fs) == r.pending # <<>> /\ ~r.paused /\ ~r.closed /\ ~WillDrain(fs, i)

(* An exception ends the callback that runs and k - 1 around it; nothing of what *)
(* the C code does after them is done: no drain, no read, no close at the end of *)
(* the input, and the slot of a closed interface stays taken.                    *)
Throw ==
    /\ frames # <<>>
    /\ \E k \in DOMAIN frames :
          LET outer == SubSeq(frames, k + 1, Len(frames))
          IN  /\ frames' = outer
              /\ rl' = [i \in DOMAIN rl |->
                          [rl[i] EXCEPT !.cut = @ \/ \E f \in Drains(i) : f <= k,
                                        !.exposed = @ \/ Stale(rl[i], i, outer)]]
    /\ UNCHANGED <<input, slots, running, completed>>

Method(i) == Listen(i) \/ Pause(i) \/ Resume(i) \/ Close(i)

Next == \/ Create
        \/ \E i \in DOMAIN rl : Method(i)
        \/ \E k \in DOMAIN running : JobReads(k) \/ JobAtEof(k)
        \/ Complete
        \/ GoOn \/ DrainPending \/ DrainNext \/ FreeClosed
        \/ Throw

Spec == Init /\ [][Next]_vars
-----------------------------------------------------------------------------
Lines == Seq(Seq(Halves))

Interface == [slot : Slots, closed : BOOLEAN, paused : BOOLEAN, reading : BOOLEAN,
              pending : Lines, delivered : Lines, took : Lines, cut : BOOLEAN, exposed : BOOLEAN]
Job == [by : DOMAIN rl, slot : Slots, got : Seq(Halves), eof : BOOLEAN]
Frame == [of : DOMAIN rl, rest : Lines, eof : BOOLEAN,
          then : {"go_on", "drain_pending", "drain", "free_slot"}]

(* Every variable has its type. *)
TypeOK ==
    /\ next \in 1 .. 2 * MaxLines + 1 /\ last \in Halves
    /\ rl \in Seq(Interface)
    /\ slots \in [Slots -> 0 .. Len(rl)]
    /\ running \in Seq(Job) /\ completed \in Seq(Job)
    /\ frames \in Seq(Frame)
    /\ mixed \subseteq 1 .. MaxLines

InHand(i) ==
    IF Drains(i) = {} THEN <<>> ELSE frames[CHOOSE f \in Drains(i) : TRUE].rest

\* The lines that were delivered, or still can be.
Kept(i) == rl[i].delivered \o (IF rl[i].closed THEN <<>> ELSE InHand(i) \o rl[i].pending)

\* Each half of the lines was typed before those that follow it, in this line or a later one.
AsTyped(lines) ==
    \A m, n \in DOMAIN lines : \A a \in DOMAIN lines[m], b \in DOMAIN lines[n] :
        m < n \/ (m = n /\ a < b) => lines[m][a] < lines[n][b]

Whole(line) ==
    \/ Len(line) = 2 /\ LineOf(line[1]) = LineOf(line[2])
    \/ Len(line) = 1 /\ line[1] = last /\ ~Ends(last)
    \/ \E m \in DOMAIN line : LineOf(line[m]) \in mixed

(* "`pause()` buffers a line that arrives while paused and `resume()` drains    *)
(* the buffer before reading again" (readline.c:8): whatever callbacks do in    *)
(* between, what an interface read are whole lines (unless two interfaces read  *)
(* them) as they were typed.  Those that it delivered, that a drain has in hand *)
(* or that an open interface buffers are among them, none of them twice, and in *)
(* that order unless a resume was broken off by an exception while lines were   *)
(* buffered.  Lines are missing only where the interface was closed with lines  *)
(* undelivered, or a drain was paused or broken off by an exception.  The       *)
(* header and the documentation of readline make none of these exceptions.      *)
LinesInOrder ==
    \A i \in DOMAIN rl :
        /\ AsTyped(rl[i].took)
        /\ \A m \in DOMAIN rl[i].took : Whole(rl[i].took[m])
        /\ \A f, g \in Drains(i) : f = g
        /\ IsInjective(Kept(i)) /\ ToSet(Kept(i)) \subseteq ToSet(rl[i].took)
        /\ ~rl[i].exposed => AsTyped(Kept(i))
        /\ ~rl[i].cut => ToSet(rl[i].took) \subseteq ToSet(Kept(i))
=============================================================================
