----------------------------- MODULE Coroutines -----------------------------
(***************************************************************************)
(* The context switch of runtime/xt_coroutine.c and what it swaps: the     *)
(* stack regions the collector scans (xt_gc_push_stack, xt_gc_suspend and  *)
(* xt_gc_pop_stack of xt_alloc.c), the chain of try frames (xt_io/         *)
(* exception.inc) and the pointers g_active_generator and g_active_async   *)
(* through which an await finds the body that executes it.                 *)
(*                                                                         *)
(* The owners are generators, async generators and async functions; their  *)
(* bodies may enter each other's coroutines and set up try frames.  A      *)
(* coroutine is entered only when it is suspended: the generator and       *)
(* promise modules state that for awaits, and no generator here calls its  *)
(* own next while it runs.                                                 *)
(*                                                                         *)
(* Definitions whose names begin with Bug are wrong on purpose: each is    *)
(* the variant of the definition after it that some property must refute.  *)
(***************************************************************************)
EXTENDS Integers, FiniteSets, Sequences, SequencesExt

CONSTANTS
    Generators, AsyncGenerators, AsyncFunctions,   \* the coroutines by owner
    Main,         \* the main stack
    MaxStacks,    \* XT_GC_MAX_STACKS
    MaxTry        \* bound: try frames set up on one stack

Coroutine == Generators \cup AsyncGenerators \cup AsyncFunctions
Yielding == Generators \cup AsyncGenerators
Awaiting == AsyncGenerators \cup AsyncFunctions
Stack == Coroutine \cup {Main}

ASSUME CoroutinesAssumption ==
    /\ Main \notin Coroutine
    /\ AsyncFunctions \cap Yielding = {}
    /\ MaxStacks \in Nat \ {0}
    /\ MaxTry \in Nat

VARIABLES
    state,        \* of each coroutine: "new", "suspended", "entered" or "released"
    chain,        \* g_current_coroutine, its previous, and so on, with the
                  \* locals of the frames that entered them, innermost first
    regions,      \* g_stack_regions up to g_stack_depth, outermost first
    tryTop,       \* the frames from g_try_top on: the stack each one was set up on
    saved,        \* co->saved_try_top of each coroutine, likewise
    active,       \* g_active_generator and g_active_async
    dropped       \* history: a push was dropped since the main stack last ran

vars == <<state, chain, regions, tryTop, saved, active, dropped>>

Nobody == Main
Current == IF chain = <<>> THEN Main ELSE Head(chain).co
Owner(co) == IF co \in Yielding THEN "generator" ELSE "async"

\* A region with xt_gc_mark_roots's lower bound: all of it, no bound recorded
\* (UINTPTR_MAX), or a stack pointer of the stack that is named.
Region(of) == [of |-> of, low |-> "all"]
-----------------------------------------------------------------------------
Init ==
    /\ state = [co \in Coroutine |-> "new"]
    /\ chain = <<>>
    /\ regions = <<[of |-> Main, low |-> "unset"]>>
    /\ tryTop = <<>>
    /\ saved = [co \in Coroutine |-> <<>>]
    /\ active = [generator |-> Nobody, async |-> Nobody]
    /\ dropped = FALSE

(* xt_gc_suspend: the stack pointer of the running stack becomes the bound of   *)
(* the top region, if it is lower than the bound that is there.  How a pointer  *)
(* into another stack compares depends on the addresses.                        *)
BugNoSuspend == {Last(regions).low}
SuspendBounds ==
    LET top == Last(regions)
    IN  IF top.low = "unset" THEN {Current}
        ELSE IF top.of = Current /\ top.low \in {"all", Current} THEN {top.low}
        ELSE {top.low, Current}

SuspendTop(low) == [regions EXCEPT ![Len(regions)].low = low]

BugPushAlways(rs, co) == Append(rs, Region(co))

\* xt_gc_push_stack: nothing happens when the array is full.
Push(rs, co) == IF Len(rs) >= MaxStacks THEN rs ELSE Append(rs, Region(co))

\* xt_gc_pop_stack: the stack below runs again, the collector takes its bound
\* from the stack pointer; the main stack's region stays.
Popped ==
    IF Len(regions) <= 1 THEN regions
    ELSE LET rest == Front(regions)
         IN  [rest EXCEPT ![Len(rest)].low = "unset"]

BugChainKept(co) == tryTop
EnteredTry(co) == IF state[co] = "new" THEN <<co>> ELSE saved[co]

(* xt_generator_enter or xt_async_resume: note the previous active owner and    *)
(* enter the coroutine.  A new body starts with a try frame of its own.         *)
Enter(co) ==
    /\ state[co] \in {"new", "suspended"}
    /\ \E low \in SuspendBounds : regions' = Push(SuspendTop(low), co)
    /\ dropped' = (dropped \/ Len(regions) >= MaxStacks)
    /\ chain' = <<[co |-> co, callerTry |-> tryTop, previous |-> active[Owner(co)]]>> \o chain
    /\ active' = [active EXCEPT ![Owner(co)] = co]
    /\ tryTop' = EnteredTry(co)
    /\ state' = [state EXCEPT ![co] = "entered"]
    /\ UNCHANGED saved

BugOwnerStays == active
OwnerRestored == [active EXCEPT ![Owner(Current)] = Head(chain).previous]

(* xt_coroutine_leave, and the rest of xt_coroutine_enter in the resumer: the   *)
(* body's try chain is kept, the resumer's comes back, a region is popped.      *)
LeaveFor(next, kept) ==
    /\ state' = [state EXCEPT ![Current] = next]
    /\ saved' = [saved EXCEPT ![Current] = kept]
    /\ tryTop' = Head(chain).callerTry
    /\ active' = OwnerRestored
    /\ regions' = Popped
    /\ chain' = Tail(chain)
    /\ dropped' = (dropped /\ Len(chain) > 1)

\* xt_await: the owner whose coroutine is current, as the two pointers tell.
AwaitOwner ==
    IF active.generator \in AsyncGenerators /\ active.generator = Current
    THEN active.generator
    ELSE IF active.async # Nobody /\ active.async = Current THEN active.async ELSE Nobody

(* An await that finds its owner parks it; otherwise it blocks where it is.     *)
Await ==
    /\ chain # <<>> /\ Current \in Awaiting
    /\ AwaitOwner # Nobody
    /\ LeaveFor("suspended", tryTop)

(* xt_yield suspends g_active_generator. *)
Yield ==
    /\ chain # <<>> /\ Current \in Yielding
    /\ active.generator = Current
    /\ LeaveFor("suspended", tryTop)

(* The body returns; its stack goes back to the cache.  The boundary frame is   *)
(* the last of the chain then.                                                  *)
Finish ==
    /\ chain # <<>>
    /\ Len(tryTop) = 1
    /\ LeaveFor("released", <<>>)

(* return() of a suspended generator, or the collector frees a suspended owner. *)
Abandon(co) ==
    /\ state[co] = "suspended"
    /\ state' = [state EXCEPT ![co] = "released"]
    /\ saved' = [saved EXCEPT ![co] = <<>>]
    /\ UNCHANGED <<chain, regions, tryTop, active, dropped>>
-----------------------------------------------------------------------------
Boundary == IF chain = <<>> THEN 0 ELSE 1

TryEnter ==
    /\ Len(tryTop) < MaxTry + Boundary
    /\ tryTop' = <<Current>> \o tryTop
    /\ UNCHANGED <<state, chain, regions, saved, active, dropped>>

\* The end of a try statement, or of its handler after a throw.
TryLeave ==
    /\ Len(tryTop) > Boundary
    /\ tryTop' = Tail(tryTop)
    /\ UNCHANGED <<state, chain, regions, saved, active, dropped>>

(* xt_throw jumps to the innermost frame: a handler, which leaves the frame, or *)
(* the boundary, whose owner is then done.  Without a frame the process ends.   *)
Throw ==
    /\ tryTop # <<>>
    /\ \/ Len(tryTop) > Boundary /\ TryLeave
       \/ Len(tryTop) = Boundary /\ LeaveFor("released", <<>>)

Next == \/ \E co \in Coroutine : Enter(co) \/ Abandon(co)
        \/ Await \/ Yield \/ Finish
        \/ TryEnter \/ TryLeave \/ Throw

Spec == Init /\ [][Next]_vars
-----------------------------------------------------------------------------
(* Every variable has its type; the region array stays within its size. *)
TypeOK ==
    /\ state \in [Coroutine -> {"new", "suspended", "entered", "released"}]
    /\ chain \in Seq([co : Coroutine, callerTry : Seq(Stack), previous : Stack])
    /\ regions \in Seq([of : Stack, low : Stack \cup {"all", "unset"}])
    /\ Len(regions) \in 1 .. MaxStacks
    /\ tryTop \in Seq(Stack)
    /\ saved \in [Coroutine -> Seq(Stack)]
    /\ active \in [generator : Yielding \cup {Nobody}, async : AsyncFunctions \cup {Nobody}]
    /\ dropped \in BOOLEAN

\* The stacks that hold live frames, outermost first.
LiveStacks == <<Main>> \o Reverse([i \in DOMAIN chain |-> chain[i].co])

(* "Scanning more than the top region matters while a generator runs: the       *)
(* frames that resumed it are still live on the main stack": a collection scans *)
(* each live stack, and each from the point where that very stack was           *)
(* suspended; the top one is scanned from the stack pointer.  It holds unless   *)
(* more coroutines are nested than the array has places, and again after the    *)
(* main stack runs next.                                                        *)
LiveStacksScanned ==
    ~dropped =>
        /\ Len(regions) = Len(LiveStacks)
        /\ \A i \in DOMAIN regions :
              /\ regions[i].of = LiveStacks[i]
              /\ i < Len(regions) => regions[i].low \in {"all", LiveStacks[i]}

(* A throw lands in a frame of the stack it is thrown on and never unwinds      *)
(* across a switch, whichever coroutine was entered, left, or entered by        *)
(* somebody else in between; and the body that awaits is the one that is        *)
(* parked, "so a nested async function inside an async generator (or vice       *)
(* versa) does not mistake the outer coroutine for its own".                    *)
SwitchKeepsOwnState ==
    /\ \A i \in DOMAIN tryTop : tryTop[i] = Current
    /\ \A co \in Coroutine : state[co] = "suspended" =>
          /\ saved[co] # <<>>
          /\ \A i \in DOMAIN saved[co] : saved[co][i] = co
    /\ chain # <<>> => active[Owner(Current)] = Current
    /\ Current \in Awaiting => AwaitOwner = Current
=============================================================================
