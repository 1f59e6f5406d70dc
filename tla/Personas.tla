----------------------------- MODULE Personas ------------------------------
(***************************************************************************)
(* The answers of a synthetic lead: a band is aimed for, every answer is   *)
(* drawn from the band's pool, and the draw is repeated until the scorer   *)
(* agrees or the attempts are used up, when the last draw is taken as it   *)
(* is.                                                                     *)
(*                                                                         *)
(* Source: application/demo/personas.py.  The names, the company, the      *)
(* message and the attribution are left out; weights are percentages.      *)
(***************************************************************************)
EXTENDS Scoring

Sets == INSTANCE FiniteSetsExt

QualityWeights ==
    [RANDOM      |-> [hot |-> 20, warm |-> 45, cold |-> 35],
     MOSTLY_HOT  |-> [hot |-> 65, warm |-> 28, cold |-> 7],
     MOSTLY_WARM |-> [hot |-> 12, warm |-> 70, cold |-> 18],
     MOSTLY_COLD |-> [hot |-> 4,  warm |-> 26, cold |-> 70]]

ScenarioQuality ==
    [NORMAL_WEEK          |-> "RANDOM",
     HIGH_INTENT_CAMPAIGN |-> "MOSTLY_HOT",
     LOW_QUALITY_CAMPAIGN |-> "MOSTLY_COLD",
     LEAD_SURGE           |-> "RANDOM"]

EffectiveQuality(quality, scenario) ==
    IF quality = "RANDOM" THEN ScenarioQuality[scenario] ELSE quality

IndustryWeights ==
    [DENTAL |-> 20, REAL_ESTATE |-> 20, FITNESS |-> 15, BEAUTY |-> 15,
     LEGAL |-> 10, RESTAURANT |-> 10, PHYSIOTHERAPY |-> 10]

(***************************************************************************)
(* Variant: one of the cold pool's budgets has slipped into the hot pool.  *)
(***************************************************************************)
BudgetsMixed ==
    [hot  |-> [OVER_10K |-> 55, FROM_5K_TO_10K |-> 40, UNDER_2K |-> 5],
     warm |-> [FROM_5K_TO_10K |-> 35, FROM_2K_TO_5K |-> 55, OVER_10K |-> 10],
     cold |-> [UNDER_2K |-> 70, FROM_2K_TO_5K |-> 30]]

Budgets ==
    [hot  |-> [OVER_10K |-> 55, FROM_5K_TO_10K |-> 45],
     warm |-> [FROM_5K_TO_10K |-> 35, FROM_2K_TO_5K |-> 55, OVER_10K |-> 10],
     cold |-> [UNDER_2K |-> 70, FROM_2K_TO_5K |-> 30]]

Volumes ==
    [hot  |-> [THIRTY_PLUS |-> 40, TWENTY |-> 40, TWELVE |-> 20],
     warm |-> [TWELVE |-> 45, EIGHT |-> 35, TWENTY |-> 20],
     cold |-> [FOUR |-> 50, EIGHT |-> 35, TWENTY |-> 15]]

(***************************************************************************)
(* Variant: the warm pool starts as soon as the hot one, mostly.           *)
(***************************************************************************)
TimelinesEager ==
    [hot  |-> [IMMEDIATELY |-> 60, WITHIN_30_DAYS |-> 40],
     warm |-> [WITHIN_30_DAYS |-> 45, ONE_TO_THREE_MONTHS |-> 10, IMMEDIATELY |-> 45],
     cold |-> [RESEARCHING |-> 55, ONE_TO_THREE_MONTHS |-> 45]]

Timelines ==
    [hot  |-> [IMMEDIATELY |-> 60, WITHIN_30_DAYS |-> 40],
     warm |-> [WITHIN_30_DAYS |-> 45, ONE_TO_THREE_MONTHS |-> 45, IMMEDIATELY |-> 10],
     cold |-> [RESEARCHING |-> 55, ONE_TO_THREE_MONTHS |-> 45]]

Goals ==
    [hot  |-> [LEAD_GENERATION |-> 45, SALES |-> 40, PRODUCT_LAUNCH |-> 15],
     warm |-> [LEAD_GENERATION |-> 35, SALES |-> 25, BRAND_AWARENESS |-> 25,
               SOCIAL_GROWTH |-> 15],
     cold |-> [SOCIAL_GROWTH |-> 40, BRAND_AWARENESS |-> 40, LEAD_GENERATION |-> 20]]

(***************************************************************************)
(* How many times a draw that missed is replaced.                          *)
(***************************************************************************)
CoherenceAttempts == 12

-----------------------------------------------------------------------------
Draws(target, industry) ==
    [budget   : DOMAIN Budgets[target],
     volume   : DOMAIN Volumes[target],
     timeline : DOMAIN Timelines[target],
     goal     : DOMAIN Goals[target],
     industry : {industry}]

(***************************************************************************)
(* The chance of one draw, in hundred millionths.                          *)
(***************************************************************************)
DrawWeight(target, a) ==
    Budgets[target][a.budget] * Volumes[target][a.volume]
        * Timelines[target][a.timeline] * Goals[target][a.goal]

Everything == 100 * 100 * 100 * 100

Targets(quality, scenario) == DOMAIN QualityWeights[EffectiveQuality(quality, scenario)]

(***************************************************************************)
(* What build_persona may return after so many draws that missed.          *)
(***************************************************************************)
BuildPersona(target, industry, misses) ==
    {a \in Draws(target, industry) :
        Temperature(a) = target \/ misses = CoherenceAttempts}

-----------------------------------------------------------------------------
Missed(target, industry) ==
    {a \in Draws(target, industry) : Temperature(a) # target}

(***************************************************************************)
(* "The pools are tuned well enough that this almost never exhausts": less *)
(* than a quarter of the draws for a band and an industry miss, so that    *)
(* thirteen misses in a row are rarer than one in sixty million.           *)
(***************************************************************************)
MostDrawsLand(target, industry) ==
    4 * Sets!MapThenSumSet(LAMBDA a : DrawWeight(target, a), Missed(target, industry))
        < Everything
=============================================================================
