------------------------------- MODULE Timers -------------------------------
(***************************************************************************)
(* setTimeout, setInterval, setImmediate and their clear functions, and    *)
(* the part of the reactor that runs them: runtime/xt_loop.c.              *)
(*                                                                         *)
(* Pending timers live in a flat array.  mem is that memory, whose cells   *)
(* above count keep what compaction left behind; a pass over the due       *)
(* timers remembers a position, a limit and a time, and calls JavaScript   *)
(* in between.  The passes in progress form the sequence passes, the       *)
(* innermost first.  Here JavaScript does not poll the reactor itself, so  *)
(* there is at most one; TimersNested adds that step.                      *)
(*                                                                         *)
(* Definitions whose names begin with Bug are wrong on purpose: each is    *)
(* the variant of the definition after it that some property must refute.  *)
(***************************************************************************)
EXTENDS Integers, FiniteSetsExt, Sequences

CONSTANTS
    MaxTimers,   \* bound: timers created in one execution
    Delays,      \* delays in milliseconds, as xt_timer_delay_arg returns them
    MaxTime      \* bound: where the clock stops

ASSUME TimersAssumption ==
    /\ MaxTimers \in Nat \ {0}
    /\ Delays \subseteq Nat /\ IsFiniteSet(Delays)   \* xt_timer_delay_arg bounds them
    /\ MaxTime \in Nat

VARIABLES
    mem,       \* the array xt_timers
    count,     \* xt_timer_count
    nextId,    \* xt_timer_next_id
    clock,     \* the monotonic clock, in milliseconds
    mode,      \* "js", "loop", "sleep", "run" or "exit"
    wakeAt,    \* when the wait in progress ends at the latest, 0 outside a wait
    passes,    \* the activations of xt_timer_run_due, innermost first
    fired,     \* history: how often each timer was called, counted up to 2
    cleared    \* history: timers the program cleared

vars == <<mem, count, nextId, clock, mode, wakeAt, passes, fired, cleared>>

Ids == 1 .. MaxTimers

Blank == [id |-> 0, due |-> 0, interval |-> 0, active |-> FALSE]

Cells == 1 .. count

Active == {k \in Cells : mem[k].active}
-----------------------------------------------------------------------------
Init ==
    /\ mem = [k \in Ids |-> Blank]
    /\ count = 0 /\ nextId = 1
    /\ clock = 0 /\ wakeAt = 0
    /\ mode = "js"
    /\ passes = <<>>
    /\ fired = [id \in Ids |-> 0]
    /\ cleared = {}

(* xt_timer_add: append; ids are never reused. *)
Add(delay, interval) ==
    /\ mode = "js"
    /\ nextId <= MaxTimers
    /\ mem' = [mem EXCEPT ![count + 1] =
                 [id |-> nextId, due |-> clock + delay, interval |-> interval, active |-> TRUE]]
    /\ count' = count + 1
    /\ nextId' = nextId + 1
    /\ UNCHANGED <<clock, mode, wakeAt, passes, fired, cleared>>

SetTimeout(delay) == Add(delay, 0)

\* Intervals are clamped to at least one millisecond; the first delay is not.
SetInterval(delay) == Add(delay, IF delay > 0 THEN delay ELSE 1)

(* clearTimeout, clearInterval, clearImmediate: deactivate the cell that holds *)
(* the id, if there is one.  Any id the program ever saw may be passed.        *)
Clear(id) ==
    /\ mode = "js"
    /\ id < nextId
    /\ mem' = [k \in Ids |-> IF k \in Active /\ mem[k].id = id
                             THEN [mem[k] EXCEPT !.active = FALSE] ELSE mem[k]]
    /\ cleared' = cleared \cup {id}
    /\ UNCHANGED <<count, nextId, clock, mode, wakeAt, passes, fired>>

(* xt_timer_compact: the active cells move down in order.  Cells at and above  *)
(* the new count keep their old contents.                                      *)
Rank(k) == Cardinality({i \in Active : i <= k})

BugCompactedShort == [k \in Ids |-> IF k < Cardinality(Active)
                                 THEN mem[CHOOSE i \in Active : Rank(i) = k] ELSE mem[k]]
Compacted == [k \in Ids |-> IF k <= Cardinality(Active)
                            THEN mem[CHOOSE i \in Active : Rank(i) = k] ELSE mem[k]]

BugKeptAndOne == Cardinality(Active) + 1
Kept == Cardinality(Active)

(* The start of xt_timer_run_due.  fresh is the first id that did not exist    *)
(* yet, running the timer whose callback is on the stack.                      *)
StartPass ==
    /\ mem' = Compacted
    /\ count' = Kept
    /\ passes' = <<[at |-> 1, limit |-> Kept, now |-> clock,
                    fresh |-> nextId, running |-> 0]>> \o passes
    /\ mode' = "run"
    /\ wakeAt' = 0

Pass == Head(passes)

BugDueToTheEnd == {k \in Pass.at .. count : mem[k].active /\ mem[k].due <= Pass.now}
BugDueOrCleared == {k \in Pass.at .. Pass.limit : mem[k].due <= Pass.now}
DueCells == {k \in Pass.at .. Pass.limit : mem[k].active /\ mem[k].due <= Pass.now}

BugRearmedFromDeadline(t) == [t EXCEPT !.due = t.due + t.interval]
Rearmed(t) == [t EXCEPT !.due = Pass.now + t.interval]

(* One iteration of the loop in xt_timer_run_due that reaches a due timer:     *)
(* re-arm or deactivate the cell, then call the callback.                      *)
Fire ==
    /\ mode = "run"
    /\ DueCells # {}
    /\ LET k == Min(DueCells)
           t == mem[k]
       IN  /\ mem' = [mem EXCEPT ![k] = IF t.interval > 0
                                        THEN Rearmed(t)
                                        ELSE [t EXCEPT !.active = FALSE]]
           /\ fired' = [fired EXCEPT ![t.id] = Min({@ + 1, 2})]
           /\ passes' = <<[Pass EXCEPT !.at = k + 1, !.running = t.id]>> \o Tail(passes)
    /\ mode' = "js"
    /\ UNCHANGED <<count, nextId, clock, wakeAt, cleared>>

(* No due timer is left up to the limit: the microtasks run next. *)
PassEnd ==
    /\ mode = "run"
    /\ DueCells = {}
    /\ passes' = Tail(passes)
    /\ mode' = "js"
    /\ UNCHANGED <<mem, count, nextId, clock, wakeAt, fired, cleared>>

(* A callback, the microtasks or the module body return to their caller. *)
ScriptReturn ==
    /\ mode = "js"
    /\ mode' = IF passes = <<>> THEN "loop" ELSE "run"
    /\ UNCHANGED <<mem, count, nextId, clock, wakeAt, passes, fired, cleared>>

BugFurthestDue == Max({mem[k].due : k \in Active})
NextDue == Min({mem[k].due : k \in Active})

(* xt_loop_has_work, and the bound xt_loop_poll puts on its wait: the nearest  *)
(* deadline, or no wait when that has passed.                                  *)
LoopCheck ==
    /\ mode = "loop"
    /\ IF Active = {}
       THEN mode' = "exit" /\ UNCHANGED wakeAt
       ELSE /\ mode' = "sleep"
            /\ wakeAt' = Max({clock, NextDue})
    /\ UNCHANGED <<mem, count, nextId, clock, passes, fired, cleared>>

SleepOver ==
    /\ mode = "sleep"
    /\ clock >= wakeAt
    /\ StartPass
    /\ UNCHANGED <<nextId, clock, fired, cleared>>

\* A descriptor became ready before the deadline.
OtherEvent ==
    /\ mode = "sleep"
    /\ clock < wakeAt
    /\ StartPass
    /\ UNCHANGED <<nextId, clock, fired, cleared>>

Tick ==
    /\ mode # "exit"
    /\ clock < MaxTime
    /\ clock' = clock + 1
    /\ UNCHANGED <<mem, count, nextId, mode, wakeAt, passes, fired, cleared>>

Exited == mode = "exit" /\ UNCHANGED vars

Loop == Fire \/ PassEnd \/ ScriptReturn \/ LoopCheck \/ SleepOver

Script == \/ \E d \in Delays : SetTimeout(d) \/ SetInterval(d)
          \/ \E id \in Ids : Clear(id)

Next == Loop \/ Script \/ OtherEvent \/ Tick \/ Exited

(* Callbacks return, the loop goes on, and time passes. *)
Fairness == WF_vars(Loop) /\ WF_vars(Tick)

SafeSpec == Init /\ [][Next]_vars
Spec == SafeSpec /\ Fairness
-----------------------------------------------------------------------------
Times == 0 .. MaxTime + (IF Delays = {} THEN 0 ELSE Max(Delays)) + 1

Timer == [id : 0 .. MaxTimers, due : Times, interval : Delays \cup {0, 1}, active : BOOLEAN]

(* Every variable has its type, and no pass looks beyond the array. *)
TypeOK ==
    /\ mem \in [Ids -> Timer]
    /\ count \in 0 .. MaxTimers /\ nextId \in 1 .. MaxTimers + 1
    /\ clock \in 0 .. MaxTime /\ wakeAt \in Times
    /\ mode \in {"js", "loop", "sleep", "run", "exit"}
    /\ passes \in Seq([at : 1 .. MaxTimers + 1, limit : 0 .. MaxTimers, now : 0 .. MaxTime,
                       fresh : 1 .. MaxTimers + 1, running : 0 .. MaxTimers])
    /\ fired \in [Ids -> 0 .. 2]
    /\ cleared \subseteq Ids

Recurs(id) == \E k \in Cells : mem[k].id = id /\ mem[k].interval > 0

Outstanding == {id \in 1 .. nextId - 1 : id \notin cleared /\ (Recurs(id) \/ fired[id] = 0)}

(* The table holds exactly the timers that still have to be called: none is    *)
(* lost by compaction, by a clear from inside a callback or by a callback that *)
(* appends while the pass is under way, and none that is finished remains.     *)
NoTimerLost == {mem[k].id : k \in Active} = Outstanding

(* "Timers scheduled by a callback (or by a microtask) are left for the next   *)
(* reactor iteration": a pass only calls timers that existed when it began.    *)
AddedWaits == \A p \in DOMAIN passes : passes[p].running < passes[p].fresh

(* A one-shot timer is called at most once, and a cleared timer never again,   *)
(* also when it is cleared by the callback of an earlier timer of the pass.    *)
OneShotOnce ==
    [][mode = "run" /\ mode' = "js" /\ Len(passes') = Len(passes) =>
          LET id == Head(passes').running
          IN  id \notin cleared /\ (fired[id] = 0 \/ Recurs(id))]_vars

(* A timer whose deadline the clock reaches is called, unless it is cleared. *)
DueTimersFire ==
    \A id \in Ids :
        (\E k \in Active : mem[k].id = id /\ mem[k].due <= MaxTime)
            ~> (fired[id] > 0 \/ id \in cleared)

(* Seen without the array the reactor is a TimerService: the timers are the   *)
(* active cells, and a round is what a pass has yet to call.                   *)
Entry(cell) == [id |-> cell.id, due |-> cell.due, interval |-> cell.interval]

Entries(cells) == {Entry(mem[k]) : k \in cells}

Service == INSTANCE TimerService WITH
               pending <- Entries(Active),
               issued <- nextId - 1,
               round <- IF passes = <<>> THEN {} ELSE Entries(DueCells),
               begun <- IF passes = <<>> THEN -1 ELSE Pass.now,
               busy <- mode = "js",
               over <- mode = "exit"

ServiceSpec == Service!Spec
=============================================================================
