------------------------- MODULE IdempotentCapture -------------------------
(***************************************************************************)
(* What the capture endpoint promises a form, with no requests, no races   *)
(* and no transactions: a key is captured at most once, as one lead, and   *)
(* whoever is told of a lead for that key is told of that one.             *)
(*                                                                         *)
(* It states docs/decisions/0007-idempotency-strategy.md; LeadCapture      *)
(* implements it.                                                          *)
(***************************************************************************)
CONSTANTS Keys, Leads, NoLead

VARIABLES
    captured,  \* the lead each key was captured as
    told       \* what was answered: the pairs of a key and a lead

vars == <<captured, told>>

Init ==
    /\ captured = [k \in Keys |-> NoLead]
    /\ told = {}

(***************************************************************************)
(* The one capture of a key; its answer may be lost.                       *)
(***************************************************************************)
Capture(k, lead) ==
    /\ captured[k] = NoLead
    /\ captured' = [captured EXCEPT ![k] = lead]
    /\ told' \in {told, told \cup {<<k, lead>>}}

Recall(k) ==
    /\ captured[k] # NoLead
    /\ told' = told \cup {<<k, captured[k]>>}
    /\ UNCHANGED captured

Next == \E k \in Keys : Recall(k) \/ \E lead \in Leads : Capture(k, lead)

Spec == Init /\ [][Next]_vars
=============================================================================
