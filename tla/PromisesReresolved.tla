------------------------- MODULE PromisesReresolved -------------------------
(***************************************************************************)
(* Promises of a program that calls the functions of one promise again.    *)
(*                                                                         *)
(* xt_promise_resolve_into leaves a promise pending while it follows       *)
(* another one, so a second call of its resolve or reject function still   *)
(* settles it, and the outcome it followed then arrives at a settled       *)
(* promise.                                                                *)
(***************************************************************************)
EXTENDS Promises

\* The steps of a program, without resolve(p) of p itself.
Distinct == \/ NewPromise
            \/ \E p \in open : Reject(p) \/ \E q \in ({0} \cup Known) \ {p} : Resolve(p, q)
            \/ \E p \in Known : Block(p) \/ \E f, r \in BOOLEAN : Then(p, f, r)

ReresolvingSpec == Init /\ [][Engine \/ Finish \/ HostCallback \/ Exit \/ Ended \/ Distinct]_vars

(* "a rejection no handler observed is printed and makes the process exit 1"    *)
(* (doc/unimplemented/deviations.md): at exit each rejected promise is listed   *)
(* for the report, its outcome reached a handler, an await or a promise, or a   *)
(* blocked await was abandoned on it.                                           *)
RejectionReportedOrSeen ==
    status = "exit" =>
        {p \in Known : heap.proms[p].state = "rejected"}
            \subseteq ToSet(heap.unhandled) \cup heap.delivered \cup abandoned
=============================================================================
