------------------------------ MODULE Scoring ------------------------------
(***************************************************************************)
(* The deterministic score of a lead: five tables of points, a penalty for *)
(* one combination of answers, a clamp and two thresholds.                 *)
(*                                                                         *)
(* Sources: domain/leads/scoring.py and the vocabularies of                *)
(* domain/leads/enums.py, whose members' names are kept (OTHER, a word of  *)
(* TLA+, is UNLISTED here).  The explanation stored beside a score is      *)
(* abstracted to the points of its lines.                                  *)
(***************************************************************************)
EXTENDS Integers

MinScore == 0
MaxScore == 100
HotThreshold == 80
WarmThreshold == 50

BudgetPoints ==
    [OVER_10K |-> 30, FROM_5K_TO_10K |-> 25, FROM_2K_TO_5K |-> 15, UNDER_2K |-> 5]

(***************************************************************************)
(* Variant: two rows of the table are swapped.                             *)
(***************************************************************************)
VolumePointsSwapped ==
    [THIRTY_PLUS |-> 20, TWENTY |-> 12, TWELVE |-> 18, EIGHT |-> 8, FOUR |-> 4]

VolumePoints ==
    [THIRTY_PLUS |-> 20, TWENTY |-> 18, TWELVE |-> 12, EIGHT |-> 8, FOUR |-> 4]

TimelinePoints ==
    [IMMEDIATELY |-> 20, WITHIN_30_DAYS |-> 15, ONE_TO_THREE_MONTHS |-> 8,
     RESEARCHING |-> 2]

GoalPoints ==
    [LEAD_GENERATION |-> 15, SALES |-> 15, PRODUCT_LAUNCH |-> 10,
     BRAND_AWARENESS |-> 8, SOCIAL_GROWTH |-> 8]

IndustryPoints ==
    [DENTAL |-> 15, BEAUTY |-> 15, REAL_ESTATE |-> 13, FITNESS |-> 12,
     PHYSIOTHERAPY |-> 12, LEGAL |-> 10, ECOMMERCE |-> 10, SAAS |-> 8,
     RESTAURANT |-> 7, UNLISTED |-> 8]

Penalty == -10
IncoherentVolume == 20

BudgetRank ==
    [UNDER_2K |-> 0, FROM_2K_TO_5K |-> 1, FROM_5K_TO_10K |-> 2, OVER_10K |-> 3]

MinVideos ==
    [FOUR |-> 4, EIGHT |-> 8, TWELVE |-> 12, TWENTY |-> 20, THIRTY_PLUS |-> 30]

-----------------------------------------------------------------------------
Answers ==
    [budget   : DOMAIN BudgetPoints,
     volume   : DOMAIN VolumePoints,
     timeline : DOMAIN TimelinePoints,
     goal     : DOMAIN GoalPoints,
     industry : DOMAIN IndustryPoints]

IsIncoherent(a) == a.budget = "UNDER_2K" /\ MinVideos[a.volume] >= IncoherentVolume

RawTotal(a) ==
    BudgetPoints[a.budget] + VolumePoints[a.volume] + TimelinePoints[a.timeline]
        + GoalPoints[a.goal] + IndustryPoints[a.industry]
        + (IF IsIncoherent(a) THEN Penalty ELSE 0)

Clamped(n) == IF n < MinScore THEN MinScore ELSE IF n > MaxScore THEN MaxScore ELSE n

Score(a) == Clamped(RawTotal(a))

Classify(score) ==
    CASE score >= HotThreshold  -> "hot"
      [] score >= WarmThreshold /\ score < HotThreshold -> "warm"
      [] OTHER -> "cold"

Temperature(a) == Classify(Score(a))

Bands == {"hot", "warm", "cold"}

-----------------------------------------------------------------------------
(***************************************************************************)
(* The points follow the order the vocabularies carry (rank, min_videos):  *)
(* a larger budget never cools a lead, nor does a larger volume unless it  *)
(* takes the lead over the line of the coherence rule, and then it never   *)
(* warms it: asking for 20 videos on the smallest budget scores no better  *)
(* than asking for 12.                                                     *)
(***************************************************************************)
NoColderWithMore(a) ==
    /\ \A b \in DOMAIN BudgetPoints :
          BudgetRank[b] >= BudgetRank[a.budget]
              => Score([a EXCEPT !.budget = b]) >= Score(a)
    /\ \A v \in DOMAIN VolumePoints :
          LET more == [a EXCEPT !.volume = v] IN
          MinVideos[v] > MinVideos[a.volume] =>
              IF IsIncoherent(more) /\ ~ IsIncoherent(a)
              THEN MinVideos[a.volume] = 12 => Score(more) <= Score(a)
              ELSE Score(more) >= Score(a)
=============================================================================
