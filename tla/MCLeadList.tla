--------------------------- MODULE MCLeadList ----------------------------
(***************************************************************************)
(* Instances of LeadList, and LeadCapture below it, for TLC.  One payload  *)
(* is hot at the threshold, one misses it by two points, a third is one    *)
(* the domain refuses.                                                     *)
(***************************************************************************)
EXTENDS LeadList, TLC

CONSTANT Refused

JustHot ==
    [budget |-> "FROM_5K_TO_10K", volume |-> "TWENTY", timeline |-> "WITHIN_30_DAYS",
     goal |-> "PRODUCT_LAUNCH", industry |-> "FITNESS"]

AlmostHot == [JustHot EXCEPT !.industry = "LEGAL"]

MCValid    == {JustHot, AlmostHot}
MCPayloads == MCValid \cup {Refused}
MCHot      == {p \in MCValid : Temperature(p) = "hot"}

Symmetry == Permutations(Requests) \cup Permutations(Keys)
=============================================================================
