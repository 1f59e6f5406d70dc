--------------------------- MODULE MCLeadCapture ---------------------------
(***************************************************************************)
(* Instances of LeadCapture for TLC: requests are interchangeable, and so  *)
(* are keys.                                                               *)
(***************************************************************************)
EXTENDS LeadCapture, TLC

Symmetry == Permutations(Requests) \cup Permutations(Keys)
=============================================================================
