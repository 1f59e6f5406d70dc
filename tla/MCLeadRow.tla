----------------------------- MODULE MCLeadRow -----------------------------
(***************************************************************************)
(* Instances of LeadRow for TLC.  Synchronisations are interchangeable.    *)
(***************************************************************************)
EXTENDS LeadRow, TLC

Symmetry == Permutations(Syncs)
=============================================================================
