------------------------------ MODULE Watchers ------------------------------
(***************************************************************************)
(* The watcher table of the select(2) reactor and its dispatch loop:       *)
(* xt_loop_add, xt_loop_update, xt_loop_remove and xt_loop_poll of         *)
(* runtime/xt_loop.c.                                                      *)
(*                                                                         *)
(* A handler runs JavaScript in the middle of a dispatch: it may register  *)
(* and remove descriptors, the operating system may give the number of a   *)
(* closed descriptor to a new one, and the handler may poll the reactor    *)
(* again (a blocking xt_await).  Dispatches in progress form the sequence  *)
(* polls, the innermost first.  Timers, the I/O pool and microtasks run    *)
(* JavaScript too and are part of "js" here.  JavaScript may throw out of  *)
(* a handler: xt_loop_poll sets up no try frame around it.                 *)
(*                                                                         *)
(* Definitions whose names begin with Bug are wrong on purpose: each is    *)
(* the variant of the definition after it that some property must refute.  *)
(***************************************************************************)
EXTENDS Integers, FiniteSetsExt, Sequences

CONSTANTS
    Fds,          \* descriptor numbers
    Events,       \* XT_IO_READ, XT_IO_WRITE
    MaxWatchers,  \* XT_LOOP_MAX_WATCHERS
    MaxReg,       \* bound: registrations in one execution
    MaxNest       \* bound: dispatches in progress at the same time

ASSUME WatchersAssumption ==
    /\ IsFiniteSet(Fds) /\ -1 \notin Fds
    /\ MaxWatchers \in Nat \ {0}
    /\ MaxReg \in Nat
    /\ MaxNest \in Nat

VARIABLES
    slots,        \* xt_loop_watchers up to xt_loop_watcher_count
    activeCount,  \* xt_loop_active_count
    dispatching,  \* xt_loop_dispatching
    ready,        \* what select(2) would report: pairs of descriptor and event
    mode,         \* "js", "loop", "select", "dispatch" or "exit"
    polls,        \* dispatch loops in progress, innermost first
    regs,         \* history: number of registrations so far
    escaped       \* history: an exception left every dispatch in progress

vars == <<slots, activeCount, dispatching, ready, mode, polls, regs, escaped>>

NoFd == -1

ActiveSlots == {k \in DOMAIN slots : slots[k].active}

\* xt_loop_find: the active slots of a descriptor, lowest first in the code.
SlotsOf(fd) == {k \in ActiveSlots : slots[k].fd = fd}

Interests == SUBSET Events \ {{}}

\* A slot as xt_loop_add fills it; reg tells registrations apart.
Watcher(fd, events) == [fd |-> fd, events |-> events, active |-> TRUE, reg |-> regs + 1]
-----------------------------------------------------------------------------
Init ==
    /\ slots = <<>> /\ activeCount = 0
    /\ dispatching = FALSE
    /\ ready = {}
    /\ mode = "js" /\ polls = <<>>
    /\ regs = 0 /\ escaped = FALSE

(* xt_loop_add of a descriptor that is registered: update in place. *)
AddExisting(fd, events) ==
    /\ SlotsOf(fd) # {}
    /\ slots' = [slots EXCEPT ![Min(SlotsOf(fd))].events = events]
    /\ UNCHANGED <<activeCount, regs>>

(* The slot xt_loop_add takes: outside a dispatch the first inactive one,      *)
(* otherwise a new one at the end, if the table has room.                      *)
BugFreeSlotAlways ==
    LET inactive == DOMAIN slots \ ActiveSlots
    IN  IF inactive # {} THEN Min(inactive) ELSE Len(slots) + 1

FreeSlot ==
    LET inactive == DOMAIN slots \ ActiveSlots
    IN  IF ~dispatching /\ inactive # {} THEN Min(inactive) ELSE Len(slots) + 1

BugRoomForOneMore == FreeSlot <= MaxWatchers + 1
HasRoom == FreeSlot <= MaxWatchers

\* Both ways to take a slot count it.
BugCountAppended == IF FreeSlot \in DOMAIN slots THEN activeCount ELSE activeCount + 1
CountAfterAdd == activeCount + 1

AddNew(fd, events) ==
    /\ SlotsOf(fd) = {}
    /\ regs < MaxReg
    /\ HasRoom
    /\ slots' = IF FreeSlot \in DOMAIN slots
                THEN [slots EXCEPT ![FreeSlot] = Watcher(fd, events)]
                ELSE Append(slots, Watcher(fd, events))
    /\ activeCount' = CountAfterAdd
    /\ regs' = regs + 1

Add(fd, events) ==
    /\ mode = "js"
    /\ AddExisting(fd, events) \/ AddNew(fd, events)
    /\ UNCHANGED <<dispatching, ready, mode, polls, escaped>>

Update(fd, events) ==
    /\ mode = "js"
    /\ SlotsOf(fd) # {}
    /\ slots' = [slots EXCEPT ![Min(SlotsOf(fd))].events = events]
    /\ UNCHANGED <<activeCount, dispatching, ready, mode, polls, regs, escaped>>

(* xt_loop_remove; the caller then closes the descriptor, so whatever was      *)
(* ready on that number is gone.                                               *)
Remove(fd) ==
    /\ mode = "js"
    /\ SlotsOf(fd) # {}
    /\ slots' = [slots EXCEPT ![Min(SlotsOf(fd))].active = FALSE,
                              ![Min(SlotsOf(fd))].fd = NoFd]
    /\ activeCount' = activeCount - 1
    /\ ready' = {r \in ready : r[1] # fd}
    /\ UNCHANGED <<dispatching, mode, polls, regs, escaped>>

(* The peer: bytes or a connection arrive, or a send buffer drains. *)
Arrive(fd, event) ==
    /\ mode # "exit"
    /\ ready' = ready \cup {<<fd, event>>}
    /\ UNCHANGED <<slots, activeCount, dispatching, mode, polls, regs, escaped>>
-----------------------------------------------------------------------------
\* The descriptors of the fd_sets that select(2) leaves set.
Reported == {r \in ready : \E k \in SlotsOf(r[1]) : r[2] \in slots[k].events}

(* xt_run_event_loop, with the table as the only source of work. *)
LoopCheck ==
    /\ mode = "loop"
    /\ mode' = IF activeCount > 0 THEN "select" ELSE "exit"
    /\ UNCHANGED <<slots, activeCount, dispatching, ready, polls, regs, escaped>>

(* A handler, or any other JavaScript, blocks in xt_await, which polls the reactor. *)
NestedPoll ==
    /\ mode = "js"
    /\ Len(polls) < MaxNest
    /\ activeCount > 0
    /\ mode' = "select"
    /\ UNCHANGED <<slots, activeCount, dispatching, ready, polls, regs, escaped>>

(* select(2) reports something: the dispatch works on a snapshot of the table's *)
(* length and on the reported sets.                                             *)
SelectReady ==
    /\ mode = "select"
    /\ Reported # {}
    /\ polls' = <<[at |-> 1, limit |-> Len(slots), reported |-> Reported,
                   saved |-> dispatching, running |-> 0,
                   sampled |-> {slots[k].reg : k \in ActiveSlots}]>> \o polls
    /\ dispatching' = TRUE
    /\ mode' = "dispatch"
    /\ UNCHANGED <<slots, activeCount, ready, regs, escaped>>

\* The wait ends without a descriptor: a timer is due or the pool has jobs.
SelectTimeout ==
    /\ mode = "select"
    /\ Reported = {}
    /\ mode' = "js"
    /\ UNCHANGED <<slots, activeCount, dispatching, ready, polls, regs, escaped>>

Current == Head(polls)

BugDueBeforeLimit == {k \in Current.at .. Current.limit - 1 :
            slots[k].active /\ \E e \in slots[k].events : <<slots[k].fd, e>> \in Current.reported}

Due == {k \in Current.at .. Current.limit :
            slots[k].active /\ \E e \in slots[k].events : <<slots[k].fd, e>> \in Current.reported}

(* The dispatch loop reaches a watcher with a reported event and calls its      *)
(* handler, which takes what is ready on the descriptor.                        *)
CallHandler ==
    /\ mode = "dispatch"
    /\ Due # {}
    /\ LET k == Min(Due)
       IN  /\ polls' = <<[Current EXCEPT !.at = k + 1, !.running = slots[k].reg]>> \o Tail(polls)
           /\ ready' = {r \in ready : r[1] # slots[k].fd}
    /\ mode' = "js"
    /\ UNCHANGED <<slots, activeCount, dispatching, regs, escaped>>

BugFlagCleared == FALSE
FlagAfter == Current.saved

(* The end of the dispatch; timers, the pool and the microtasks follow. *)
DispatchEnd ==
    /\ mode = "dispatch"
    /\ Due = {}
    /\ dispatching' = FlagAfter
    /\ polls' = Tail(polls)
    /\ mode' = "js"
    /\ UNCHANGED <<slots, activeCount, ready, regs, escaped>>

(* JavaScript returns to the dispatch that called it, or to the loop. *)
ScriptReturn ==
    /\ mode = "js"
    /\ mode' = IF polls = <<>> THEN "loop" ELSE "dispatch"
    /\ UNCHANGED <<slots, activeCount, dispatching, ready, polls, regs, escaped>>

(* An exception leaves the handler that runs, and with it k dispatches, for a   *)
(* try statement around one of the awaits that began them.  That await's        *)
(* JavaScript goes on; no flag is restored.                                     *)
Throw ==
    /\ mode = "js"
    /\ \E k \in DOMAIN polls : polls' = SubSeq(polls, k + 1, Len(polls))
    /\ escaped' = (escaped \/ polls' = <<>>)
    /\ UNCHANGED <<slots, activeCount, dispatching, ready, mode, regs>>

Exited == mode = "exit" /\ UNCHANGED vars

Loop == LoopCheck \/ SelectReady \/ SelectTimeout \/ CallHandler \/ DispatchEnd \/ ScriptReturn

Script == \/ NestedPoll \/ Throw
          \/ \E fd \in Fds : \/ Remove(fd)
                             \/ \E events \in Interests : Add(fd, events) \/ Update(fd, events)

Next == Loop \/ Script \/ Exited \/ \E fd \in Fds, e \in Events : Arrive(fd, e)

(* Handlers return and the loop goes on. *)
Spec == Init /\ [][Next]_vars /\ WF_vars(Loop)
-----------------------------------------------------------------------------
(* Every variable has its type; the table stays within its size. *)
TypeOK ==
    /\ slots \in Seq([fd : Fds \cup {NoFd}, events : Interests, active : BOOLEAN, reg : 1 .. MaxReg])
    /\ Len(slots) <= MaxWatchers
    /\ activeCount \in 0 .. MaxWatchers
    /\ dispatching \in BOOLEAN
    /\ ready \subseteq Fds \X Events
    /\ mode \in {"js", "loop", "select", "dispatch", "exit"}
    /\ regs \in 0 .. MaxReg /\ escaped \in BOOLEAN

(* The number that keeps the loop alive is the number of active slots, and a    *)
(* descriptor never has two of them, so a removal ends all its callbacks.       *)
TableConsistent ==
    /\ activeCount = Cardinality(ActiveSlots)
    /\ \A fd \in Fds : Cardinality(SlotsOf(fd)) <= 1

(* "a handler may register a new descriptor, and it must wait for the next      *)
(* iteration rather than being tested against this iteration's fd_set": a       *)
(* handler is only called by a dispatch whose select saw its registration, even *)
(* when the number of a closed descriptor came back in between, in the handler  *)
(* of an outer dispatch or of this one.                                         *)
HandlerSampled ==
    \A p \in DOMAIN polls : polls[p].running # 0 => polls[p].running \in polls[p].sampled

(* Slot reuse is suspended exactly while some dispatch is in progress, and for  *)
(* ever after an exception that left them all.  That is against what the code   *)
(* says of the reuse of slots (xt_loop.c:351); an exception that only left      *)
(* inner dispatches does no harm.                                               *)
FlagRestored == dispatching = (polls # <<>> \/ escaped)

(* Unless handlers throw again and again, a watched descriptor that is ready    *)
(* does not stay unserved: it is handled, or nobody is interested any more.     *)
ReadyIsServed ==
    <>[][~Throw]_vars =>
        \A fd \in Fds, e \in Events :
            (\E k \in SlotsOf(fd) : e \in slots[k].events) /\ <<fd, e>> \in ready
                ~> (<<fd, e>> \notin ready \/ ~\E k \in SlotsOf(fd) : e \in slots[k].events)
=============================================================================
