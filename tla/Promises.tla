------------------------------ MODULE Promises ------------------------------
(***************************************************************************)
(* Promises, the microtask queue, async functions and unhandled            *)
(* rejections: runtime/xt_promise.c and runtime/xt_async.c.                *)
(*                                                                         *)
(* heap is everything the C code mutates: the promises, the microtask      *)
(* queue and the list of rejections nobody has observed.  The helpers of   *)
(* xt_promise.c are operators from one heap to the next, so an action      *)
(* composes them in the order the code calls them.                         *)
(*                                                                         *)
(* stack holds the JavaScript activations that drive the heap, innermost   *)
(* first: the module body or a host callback, a then handler, the body of  *)
(* an async function on its coroutine, and an xt_await that blocks because *)
(* there is no coroutine to suspend.  Microtasks run when the stack is     *)
(* empty or a blocked await is on top.                                     *)
(*                                                                         *)
(* Definitions whose names begin with Bug are wrong on purpose: each is    *)
(* the variant of the definition after it that some property must refute.  *)
(***************************************************************************)
EXTENDS Integers, FiniteSets, SequencesExt

CONSTANTS
    MaxPromises,   \* bound: promises allocated in one execution
    MaxCalls,      \* bound: calls of async functions
    MaxStack,      \* bound: nesting of activations
    MaxHost,       \* bound: callbacks from timers, sockets and the I/O pool
    Reresolves     \* may resolve functions of one promise be called repeatedly

ASSUME PromisesAssumption ==
    /\ MaxPromises \in Nat /\ MaxCalls \in Nat
    /\ MaxStack \in Nat /\ MaxHost \in Nat
    /\ Reresolves \in BOOLEAN

VARIABLES
    heap,      \* promises, microtasks, unhandled list
    next,      \* number of promises allocated so far
    open,      \* promises whose resolve and reject functions JavaScript holds
    co,        \* per async call: "idle", "active", "waiting", "done"
    promiseOf, \* per async call: the promise it returned
    awaits,    \* per async call: the promise it waits for, 0 for a plain value
    stack,     \* activations, innermost first
    host,      \* host callbacks so far
    status,    \* "run", "exit", "crash"
    abandoned  \* history: promises that a blocked await left without their outcome

vars == <<heap, next, open, co, promiseOf, awaits, stack, host, status, abandoned>>

Ids == 1 .. MaxPromises

\* The coroutines of async calls, in the order of the calls; 0 stands for none.
Coroutines == 1 .. MaxCalls
NoCo == 0

\* The heap has no promise 0: it stands for NULL and for plain values.
Promise == [state : {"pending", "fulfilled", "rejected"},
            reason : 0 .. MaxPromises,     \* the promise a rejection started at
            reactions : Seq([kind : {"then", "follow", "wake"}, on : 0 .. MaxPromises,
                             onFulfilled : BOOLEAN, onRejected : BOOLEAN,
                             result : 0 .. MaxPromises, co : Coroutines \cup {NoCo}]),
            observed : BOOLEAN,
            index : 0 .. MaxPromises]      \* report_index, 0 when unlisted

Blank == [state |-> "pending", reason |-> 0, reactions |-> <<>>, observed |-> FALSE, index |-> 0]

Reaction(kind, on, f, r, result, c) ==
    [kind |-> kind, on |-> on, onFulfilled |-> f, onRejected |-> r, result |-> result, co |-> c]

Frame(kind, p, c) == [kind |-> kind, p |-> p, co |-> c]
-----------------------------------------------------------------------------
BugUnlistStaleIndex(h, p) ==
    LET k == h.proms[p].index
    IN  IF k = 0 THEN h
        ELSE [h EXCEPT !.unhandled = Front([@ EXCEPT ![k] = Last(h.unhandled)]), !.proms[p].index = 0]

BugUnlistBefore(h, p) ==
    LET k == h.proms[p].index
    IN  IF k = 0 THEN h
        ELSE [h EXCEPT !.unhandled = Remove(@, p), !.proms[p].index = -1]

\* xt_unhandled_remove: swap the last entry into the freed place.
Unlist(h, p) ==
    LET k == h.proms[p].index
        last == Len(h.unhandled)
    IN  IF k = 0 THEN h
        ELSE [h EXCEPT !.unhandled = Front([@ EXCEPT ![k] = h.unhandled[last]]),
                       !.proms = [@ EXCEPT ![h.unhandled[last]].index = k, ![p].index = 0]]

BugListNobody(h, p) == h

\* xt_unhandled_add
List(h, p) ==
    IF h.proms[p].observed \/ h.proms[p].index # 0 THEN h
    ELSE [h EXCEPT !.unhandled = Append(@, p),
                   !.proms[p].index = Len(h.unhandled) + 1]

\* xt_promise_observe
Observe(h, p) == Unlist([h EXCEPT !.proms[p].observed = TRUE], p)

BugSettleKeeping(h, p, state, reason) ==
    IF h.proms[p].state # "pending" THEN h
    ELSE LET settled == [h EXCEPT !.proms[p].state = state, !.proms[p].reason = reason]
             listed == IF state = "rejected" THEN List(settled, p) ELSE settled
         IN  [listed EXCEPT !.tasks = @ \o h.proms[p].reactions]

\* xt_promise_settle: only a pending promise; its reactions become microtasks.
Settle(h, p, state, reason) ==
    IF h.proms[p].state # "pending" THEN h
    ELSE LET settled == [h EXCEPT !.proms[p].state = state, !.proms[p].reason = reason]
             listed == IF state = "rejected" THEN List(settled, p) ELSE settled
         IN  [listed EXCEPT !.tasks = @ \o h.proms[p].reactions,
                            !.proms[p].reactions = <<>>]

\* History: the outcome of q reached somebody, as the state of p or a callback.
Forward(h, q, p) ==
    IF h.proms[p].state = "pending" THEN [h EXCEPT !.delivered = @ \cup {q}] ELSE h

Deliver(h, q) == IF q = 0 THEN h ELSE [h EXCEPT !.delivered = @ \cup {q}]

BugReactLost(h, p, r) == h

\* Attach a reaction to a pending promise.
React(h, p, r) == [h EXCEPT !.proms[p].reactions = Append(@, r)]

\* xt_promise_resolve_into with promise q, or with a plain value when q is 0.
ResolveInto(h, p, q) ==
    IF q = 0 THEN Settle(h, p, "fulfilled", 0)
    ELSE LET seen == Observe(h, q)
         IN  IF seen.proms[q].state = "pending"
             THEN React(seen, q, Reaction("follow", q, FALSE, FALSE, p, NoCo))
             ELSE Settle(Forward(seen, q, p), p, seen.proms[q].state, seen.proms[q].reason)

BugEnqueueTwice(h, r) == [h EXCEPT !.tasks = @ \o <<r, r>>]

\* Queue a microtask directly: a reaction to a promise that is settled already.
Enqueue(h, r) == [h EXCEPT !.tasks = Append(@, r)]

\* What xt_promise_new returns, and the heap with it.
Fresh == next + 1

Alloc(h) == [h EXCEPT !.proms[Fresh] = Blank]

CanAlloc == next < MaxPromises
-----------------------------------------------------------------------------
Init ==
    /\ heap = [proms |-> [p \in Ids |-> Blank], tasks |-> <<>>, unhandled |-> <<>>, delivered |-> {}]
    /\ next = 0 /\ open = {}
    /\ co = [c \in Coroutines |-> "idle"]
    /\ promiseOf = [c \in Coroutines |-> 0]
    /\ awaits = [c \in Coroutines |-> 0]
    /\ stack = <<Frame("script", 0, NoCo)>>
    /\ host = 0
    /\ status = "run"
    /\ abandoned = {}

Top(kind) == stack # <<>> /\ Head(stack).kind = kind

\* JavaScript runs: the innermost activation is not a blocked await.
InScript == status = "run" /\ stack # <<>> /\ ~Top("block")

\* The places of the blocked awaits on the stack.
Blocks == {k \in DOMAIN stack : stack[k].kind = "block"}

(* new Promise(executor): the executor's callbacks escape to the program. *)
NewPromise ==
    /\ InScript /\ CanAlloc
    /\ heap' = Alloc(heap)
    /\ next' = Fresh
    /\ open' = open \cup {Fresh}
    /\ UNCHANGED <<co, promiseOf, awaits, stack, host, status, abandoned>>

(* resolve(q), or resolve of a plain value when q is 0.  Programs that call   *)
(* several of a promise's functions exist only with Reresolves.               *)
Resolve(p, q) ==
    /\ InScript
    /\ p \in open
    /\ heap' = ResolveInto(heap, p, q)
    /\ open' = IF Reresolves THEN open ELSE open \ {p}
    /\ UNCHANGED <<next, co, promiseOf, awaits, stack, host, status, abandoned>>

(* reject(reason) *)
Reject(p) ==
    /\ InScript
    /\ p \in open
    /\ heap' = Settle(heap, p, "rejected", p)
    /\ open' = IF Reresolves THEN open ELSE open \ {p}
    /\ UNCHANGED <<next, co, promiseOf, awaits, stack, host, status, abandoned>>

(* p.then(f, r) and p.catch(r), with or without either handler. *)
Then(p, f, r) ==
    /\ InScript /\ CanAlloc
    /\ LET h == Alloc(Observe(heap, p))
           reaction == Reaction("then", p, f, r, Fresh, NoCo)
       IN  heap' = IF h.proms[p].state = "pending" THEN React(h, p, reaction) ELSE Enqueue(h, reaction)
    /\ next' = Fresh
    /\ UNCHANGED <<open, co, promiseOf, awaits, stack, host, status, abandoned>>

(* xt_async_call: allocate the result and run the body at once. *)
Call(c) ==
    /\ InScript /\ CanAlloc /\ Len(stack) < MaxStack
    /\ co[c] = "idle" /\ \A d \in 1 .. c - 1 : co[d] # "idle"
    /\ heap' = Alloc(heap)
    /\ next' = Fresh
    /\ promiseOf' = [promiseOf EXCEPT ![c] = Fresh]
    /\ co' = [co EXCEPT ![c] = "active"]
    /\ stack' = <<Frame("co", 0, c)>> \o stack
    /\ UNCHANGED <<open, awaits, host, status, abandoned>>

(* xt_await on a coroutine: always suspend; wait for a pending promise, or     *)
(* queue the wakeup when the operand is settled or plain (0).                  *)
Await(q) ==
    /\ InScript
    /\ Top("co")
    /\ LET c == Head(stack).co
           wake == Reaction("wake", q, FALSE, FALSE, 0, c)
       IN  /\ heap' = IF q = 0 THEN Enqueue(heap, wake)
                      ELSE IF heap.proms[q].state = "pending"
                           THEN React(Observe(heap, q), q, wake)
                           ELSE Enqueue(Observe(heap, q), wake)
           /\ co' = [co EXCEPT ![c] = "waiting"]
           /\ awaits' = [awaits EXCEPT ![c] = q]
    /\ stack' = Tail(stack)
    /\ UNCHANGED <<next, open, promiseOf, host, status, abandoned>>

(* xt_await without a coroutine: return or throw the outcome of a settled      *)
(* promise at once; block on a pending one, draining and polling.              *)
Block(q) ==
    /\ InScript
    /\ ~Top("co")
    /\ IF heap.proms[q].state = "pending"
       THEN /\ Len(stack) < MaxStack
            /\ heap' = Observe(heap, q)
            /\ stack' = <<Frame("block", q, NoCo)>> \o stack
       ELSE /\ heap' = Deliver(Observe(heap, q), q)
            /\ UNCHANGED stack
    /\ UNCHANGED <<next, open, co, promiseOf, awaits, host, status, abandoned>>

(* The body of an async function returns a plain value (0) or a promise.       *)
CoReturn(q) ==
    /\ InScript
    /\ Top("co")
    /\ heap' = ResolveInto(heap, promiseOf[Head(stack).co], q)
    /\ co' = [co EXCEPT ![Head(stack).co] = "done"]
    /\ stack' = Tail(stack)
    /\ UNCHANGED <<next, open, promiseOf, awaits, host, status, abandoned>>

(* An exception escapes the body: it rejects the promise. *)
CoThrow ==
    /\ InScript
    /\ Top("co")
    /\ LET p == promiseOf[Head(stack).co] IN heap' = Settle(heap, p, "rejected", p)
    /\ co' = [co EXCEPT ![Head(stack).co] = "done"]
    /\ stack' = Tail(stack)
    /\ UNCHANGED <<next, open, promiseOf, awaits, host, status, abandoned>>

(* A then handler returns: its result resolves the derived promise. *)
HandlerReturn(q) ==
    /\ InScript
    /\ Top("handler")
    /\ heap' = ResolveInto(heap, Head(stack).p, q)
    /\ stack' = Tail(stack)
    /\ UNCHANGED <<next, open, co, promiseOf, awaits, host, status, abandoned>>

(* An exception escapes a then handler, a host callback or the module body.    *)
(* Neither xt_promise_run_reactions nor the loop has a try frame: it unwinds to *)
(* a try statement around any of the blocked awaits below, or ends the process. *)
(* The await that is left, and those above it, never get an outcome, and the    *)
(* derived promises of the handlers stay pending.                               *)
Throw ==
    /\ InScript
    /\ ~Top("co")
    /\ \/ status' = "crash" /\ UNCHANGED <<stack, abandoned>>
       \/ \E k \in Blocks :
             /\ stack' = SubSeq(stack, k + 1, Len(stack))
             /\ abandoned' = abandoned \cup {stack[i].p : i \in Blocks \cap 1 .. k}
             /\ UNCHANGED status
    /\ UNCHANGED <<heap, next, open, co, promiseOf, awaits, host>>

ScriptEnd ==
    /\ InScript
    /\ Top("script")
    /\ stack' = Tail(stack)
    /\ UNCHANGED <<heap, next, open, co, promiseOf, awaits, host, status, abandoned>>
-----------------------------------------------------------------------------
Draining == status = "run" /\ (stack = <<>> \/ Top("block"))

Task == Head(heap.tasks)

\* The heap after the head of the queue is taken.
Taken == [heap EXCEPT !.tasks = Tail(@)]

(* xt_promise_run_reactions, a waiter: resume the coroutine (xt_async_wake),   *)
(* unless its body has finished.                                               *)
RunWake ==
    /\ Draining /\ heap.tasks # <<>> /\ Task.kind = "wake"
    /\ heap' = Deliver(Taken, Task.on)
    /\ IF co[Task.co] = "done"
       THEN UNCHANGED <<co, awaits, stack>>
       ELSE /\ co' = [co EXCEPT ![Task.co] = "active"]
            /\ awaits' = [awaits EXCEPT ![Task.co] = 0]
            /\ stack' = <<Frame("co", 0, Task.co)>> \o stack
    /\ UNCHANGED <<next, open, promiseOf, host, status, abandoned>>

Handled == LET p == heap.proms[Task.on]
           IN  IF p.state = "fulfilled" THEN Task.onFulfilled ELSE Task.onRejected

(* A reaction with a handler for the outcome: call it. *)
RunHandler ==
    /\ Draining /\ heap.tasks # <<>> /\ Task.kind # "wake"
    /\ Handled
    /\ heap' = Deliver(Taken, Task.on)
    /\ stack' = <<Frame("handler", Task.result, NoCo)>> \o stack
    /\ UNCHANGED <<next, open, co, promiseOf, awaits, host, status, abandoned>>

(* A reaction without one: the result takes the outcome. *)
RunForward ==
    /\ Draining /\ heap.tasks # <<>> /\ Task.kind # "wake"
    /\ ~Handled
    /\ LET p == heap.proms[Task.on]
       IN  heap' = Settle(Forward(Taken, Task.on, Task.result), Task.result, p.state, p.reason)
    /\ UNCHANGED <<next, open, co, promiseOf, awaits, stack, host, status, abandoned>>

(* The queue is empty: a blocked await whose promise is settled returns, or    *)
(* throws its rejection into the code that awaited it.                         *)
Unblock ==
    /\ Draining /\ heap.tasks = <<>> /\ Top("block")
    /\ heap.proms[Head(stack).p].state # "pending"
    /\ heap' = Deliver(heap, Head(stack).p)
    /\ stack' = Tail(stack)
    /\ UNCHANGED <<next, open, co, promiseOf, awaits, host, status, abandoned>>

(* The queue is empty and the loop has work: the host runs a callback. *)
HostCallback ==
    /\ Draining /\ heap.tasks = <<>>
    /\ Top("block") => heap.proms[Head(stack).p].state = "pending"
    /\ host < MaxHost /\ Len(stack) < MaxStack
    /\ host' = host + 1
    /\ stack' = <<Frame("script", 0, NoCo)>> \o stack
    /\ UNCHANGED <<heap, next, open, co, promiseOf, awaits, status, abandoned>>

(* Nothing can settle the promise any more, or it waited for too many turns:    *)
(* xt_await returns undefined.  The promise stays marked as observed, although  *)
(* a function that settles it may still be called.                              *)
GiveUp ==
    /\ Draining /\ heap.tasks = <<>> /\ Top("block")
    /\ heap.proms[Head(stack).p].state = "pending"
    /\ abandoned' = abandoned \cup {Head(stack).p}
    /\ stack' = Tail(stack)
    /\ UNCHANGED <<heap, next, open, co, promiseOf, awaits, host, status>>

(* The loop has no work: report what is listed and exit.  Status 1 exactly     *)
(* when something was reported.                                                *)
Exit ==
    /\ Draining /\ heap.tasks = <<>> /\ stack = <<>>
    /\ status' = "exit"
    /\ UNCHANGED <<heap, next, open, co, promiseOf, awaits, stack, host, abandoned>>

Engine == RunWake \/ RunHandler \/ RunForward \/ Unblock \/ GiveUp

Known == 1 .. next

Finish == \/ CoThrow \/ Throw \/ ScriptEnd
          \/ \E q \in {0} \cup Known : CoReturn(q) \/ HandlerReturn(q) \/ Await(q)

Script == \/ NewPromise
          \/ \E p \in open : Reject(p) \/ \E q \in {0} \cup Known : Resolve(p, q)
          \/ \E p \in Known : Block(p) \/ \E f, r \in BOOLEAN : Then(p, f, r)
          \/ \E c \in Coroutines : Call(c)

Ended == status # "run" /\ UNCHANGED vars

Next == Engine \/ Finish \/ Script \/ HostCallback \/ Exit \/ Ended

(* Activations return or suspend, and the queue is drained. *)
Fairness == WF_vars(Engine) /\ WF_vars(Finish)

Spec == Init /\ [][Next]_vars /\ Fairness
-----------------------------------------------------------------------------
(* Every variable has its type; heap.proms of an id not allocated yet is Blank. *)
TypeOK ==
    /\ heap.proms \in [Ids -> Promise]
    /\ \A p \in Ids \ Known : heap.proms[p] = Blank
    /\ heap.delivered \subseteq Ids
    /\ next \in 0 .. MaxPromises /\ open \subseteq 1 .. next
    /\ co \in [Coroutines -> {"idle", "active", "waiting", "done"}]
    /\ promiseOf \in [Coroutines -> 0 .. next]
    /\ awaits \in [Coroutines -> 0 .. next]
    /\ status \in {"run", "exit", "crash"}
    /\ abandoned \subseteq Ids

(* The list of unhandled rejections is exact and its back references agree,     *)
(* however often entries are swapped: every rejected promise nobody observed is *)
(* listed once, and nothing else is.                                            *)
UnhandledExact ==
    /\ \A p \in Known : heap.proms[p].index # 0 =>
          /\ heap.proms[p].index <= Len(heap.unhandled)
          /\ heap.unhandled[heap.proms[p].index] = p
    /\ ToSet(heap.unhandled)
          = {p \in Known : heap.proms[p].state = "rejected" /\ ~heap.proms[p].observed}
    /\ IsInjective(heap.unhandled)

(* A reaction waits with its promise while that is pending and is in the queue  *)
(* once it is settled: a late then, a settlement and a drain never leave one    *)
(* behind or run one too early.                                                 *)
ReactionsFollowState ==
    /\ \A p \in Known : heap.proms[p].state # "pending" => heap.proms[p].reactions = <<>>
    /\ \A p \in Known : \A k \in DOMAIN heap.proms[p].reactions : heap.proms[p].reactions[k].on = p
    /\ \A k \in DOMAIN heap.tasks :
          heap.tasks[k].on # 0 => heap.proms[heap.tasks[k].on].state # "pending"

Wakers(c) ==
    Cardinality({k \in DOMAIN heap.tasks : heap.tasks[k].co = c})
    + Cardinality({w \in UNION {{p} \X DOMAIN heap.proms[p].reactions : p \in Known} :
                     heap.proms[w[1]].reactions[w[2]].co = c})

(* A suspended async body has exactly one wakeup outstanding, on the promise it *)
(* awaits; one that runs or has finished has none.  So it is never resumed      *)
(* twice, never while it is running, and never forgotten.                       *)
OneWaker ==
    \A c \in Coroutines :
        Wakers(c) = IF co[c] = "waiting" THEN 1 ELSE 0

(* "A rejection that no handler ever observed is fatal" (xt_loop.c): when the   *)
(* program ends, every rejected promise was reported, or its rejection reached  *)
(* a handler, an await or another promise that took it over.  The one exception *)
(* is a promise that a blocked await left, because it gave up or an exception   *)
(* unwound it: the await had marked it as observed and got nothing.             *)
RejectionsReachSomeone ==
    status = "exit" =>
        \A p \in Known : heap.proms[p].state = "rejected" =>
            p \in ToSet(heap.unhandled) \cup heap.delivered \cup abandoned

(* An async function that returned settles its promise only once its body is    *)
(* done, and stays pending only behind another pending promise.                 *)
ResultAfterBody ==
    \A c \in Coroutines :
        /\ co[c] \in {"active", "waiting"} => heap.proms[promiseOf[c]].state = "pending"
        /\ co[c] = "done" /\ heap.proms[promiseOf[c]].state = "pending" =>
              \/ \E p \in Known : heap.proms[p].state = "pending"
                    /\ \E k \in DOMAIN heap.proms[p].reactions :
                          heap.proms[p].reactions[k].result = promiseOf[c]
              \/ \E k \in DOMAIN heap.tasks : heap.tasks[k].result = promiseOf[c]

(* A body that waits for a settled promise is resumed. *)
SettledAwaitResumes ==
    \A c \in Coroutines :
        co[c] = "waiting" /\ (awaits[c] = 0 \/ heap.proms[awaits[c]].state # "pending")
            ~> (co[c] # "waiting" \/ status # "run")
=============================================================================
