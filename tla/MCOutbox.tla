------------------------------ MODULE MCOutbox ------------------------------
(***************************************************************************)
(* Instances of Outbox for TLC.  The events are numbered in the order in   *)
(* which they occurred; nobody consumes the second.                        *)
(***************************************************************************)
EXTENDS Outbox, TLC

MCOccurredAt == [e \in Events |-> e]
MCHandled    == Events \ {2}
Symmetry     == Permutations(Workers)
=============================================================================
