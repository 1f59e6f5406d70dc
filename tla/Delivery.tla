------------------------------ MODULE Delivery ------------------------------
(***************************************************************************)
(* What the outbox promises its producers and its consumers, with no       *)
(* clock, no attempts and no rows: an event that was written is queued; a  *)
(* worker takes it and is then the only one that may resolve it; it is     *)
(* acknowledged only after it was consumed; and it goes back to the queue  *)
(* on its own only when its worker is gone.                                *)
(*                                                                         *)
(* It states the prose of outbox_dispatcher.py, outbox_store.py and        *)
(* docs/decisions/0006-transactional-outbox.md; Outbox implements it when   *)
(* no pass outlives stalled_after_seconds and operators replay only dead   *)
(* letters.                                                                *)
(***************************************************************************)
CONSTANTS Events, Consumed, Workers, Nobody

VARIABLES
    stage,     \* where each event is
    owner,     \* the worker an event in flight belongs to
    consumed   \* the events whose consumer has succeeded at least once

vars == <<stage, owner, consumed>>

Stages == {"unwritten", "queued", "inflight", "acknowledged", "buried"}

Init ==
    /\ stage = [e \in Events |-> "unwritten"]
    /\ owner = [e \in Events |-> Nobody]
    /\ consumed = {}

Write(e) ==
    /\ stage[e] = "unwritten"
    /\ stage' = [stage EXCEPT ![e] = "queued"]
    /\ UNCHANGED <<owner, consumed>>

Take(w, batch) ==
    /\ \A e \in batch : stage[e] = "queued"
    /\ stage' = [e \in Events |-> IF e \in batch THEN "inflight" ELSE stage[e]]
    /\ owner' = [e \in Events |-> IF e \in batch THEN w ELSE owner[e]]
    /\ UNCHANGED consumed

Consume(e) ==
    /\ stage[e] = "inflight"
    /\ owner[e] # Nobody
    /\ consumed' = consumed \cup {e}
    /\ UNCHANGED <<stage, owner>>

(***************************************************************************)
(* The owner resolves the event, and so gives it up.                       *)
(***************************************************************************)
Resolve(e, to) ==
    /\ stage[e] = "inflight"
    /\ owner[e] # Nobody
    /\ to = "acknowledged" => e \in consumed \/ e \notin Consumed
    /\ stage' = [stage EXCEPT ![e] = to]
    /\ owner' = [owner EXCEPT ![e] = Nobody]
    /\ UNCHANGED consumed

Vanish(w) ==
    /\ owner' = [e \in Events |-> IF owner[e] = w THEN Nobody ELSE owner[e]]
    /\ UNCHANGED <<stage, consumed>>

(***************************************************************************)
(* Events return to the queue unresolved only if they belong to nobody.    *)
(***************************************************************************)
GiveBack(batch) ==
    /\ \A e \in batch : stage[e] = "inflight" /\ owner[e] = Nobody
    /\ stage' = [e \in Events |-> IF e \in batch THEN "queued" ELSE stage[e]]
    /\ UNCHANGED <<owner, consumed>>

Revive(e) ==
    /\ stage[e] = "buried"
    /\ stage' = [stage EXCEPT ![e] = "queued"]
    /\ UNCHANGED <<owner, consumed>>

Next ==
    \/ \E e \in Events : Write(e)
    \/ \E w \in Workers, batch \in SUBSET Events : Take(w, batch)
    \/ \E e \in Events : Consume(e)
    \/ \E e \in Events, to \in {"queued", "acknowledged", "buried"} : Resolve(e, to)
    \/ \E w \in Workers : Vanish(w)
    \/ \E batch \in SUBSET Events : GiveBack(batch)
    \/ \E e \in Events : Revive(e)

Spec == Init /\ [][Next]_vars
=============================================================================
