----------------------------- MODULE MCBackend ------------------------------
(***************************************************************************)
(* Seven parts that share no state, for TLC: the container, the rate       *)
(* limiter, the sales brief, the demo batch, the retries of an event, the  *)
(* values of a form, and the score of every lead's answers.  A behaviour   *)
(* is one of one part, chosen at the start; the others rest.  Nothing is   *)
(* lost by not interleaving them: none reads what another writes, and what *)
(* a restart of the container does to the others is a step of each.        *)
(***************************************************************************)
EXTENDS Container, RateLimiter, SalesBrief, DemoBatch, RetryPolicy,
        LeadForm

VARIABLES
    part,    \* which of them this behaviour is about
    scored   \* the answers that are scored, when it is the scorer

allVars == <<containerVars, limiterVars, briefVars, batchVars, retryVars, formVars,
             part, scored>>

SomeAnswers == CHOOSE a \in Answers : TRUE

MCInit ==
    /\ ContainerInit /\ LimiterInit /\ BriefInit /\ BatchInit /\ RetryInit
    /\ FormInit
    /\ \/ part \in {"container", "limiter", "brief", "batch", "retry", "form"} /\ scored = SomeAnswers
       \/ part = "scorer" /\ scored \in Answers

MCNext ==
    /\ UNCHANGED <<part, scored>>
    /\ \/ /\ part = "container" /\ ContainerNext
          /\ UNCHANGED <<limiterVars, briefVars, batchVars, retryVars, formVars>>
       \/ /\ part = "limiter" /\ LimiterNext
          /\ UNCHANGED <<containerVars, briefVars, batchVars, retryVars, formVars>>
       \/ /\ part = "brief" /\ BriefNext
          /\ UNCHANGED <<containerVars, limiterVars, batchVars, retryVars, formVars>>
       \/ /\ part = "batch" /\ BatchNext
          /\ UNCHANGED <<containerVars, limiterVars, briefVars, retryVars, formVars>>
       \/ /\ part = "retry" /\ RetryNext
          /\ UNCHANGED <<containerVars, limiterVars, briefVars, batchVars, formVars>>
       \/ /\ part = "form" /\ FormNext
          /\ UNCHANGED <<containerVars, limiterVars, briefVars, batchVars, retryVars>>

MCSpec == MCInit /\ [][MCNext]_allVars /\ (part = "container" => ContainerFairness)

(***************************************************************************)
(* Statuses of every class, and headers at both ends of every comparison.  *)
(***************************************************************************)
MCCodes   == {200, 302, 400, 408, 422, 429, 500, 503, 599}
MCHeaders ==
    {Word(kind) : kind \in {"none", "date", "nan", "inf"}}
        \cup {Number(n) : n \in {-3, 0, 1, 2, 3, 120, 7199, 7200, 7201, 7300}}

(***************************************************************************)
(* Texts at both ends of every limit, some with a pair; a short form with  *)
(* one of its inputs of any length, and every kind of address and website. *)
(***************************************************************************)
MCTexts ==
    [chars : {0, 1, 50, 51, 120, 121, 255, 256, 504, 505, 512, 513, 5000, 5001}, pairs : {0}]
        \cup [chars : {50, 255, 256}, pairs : {1}]

ShortForm ==
    [texts  |-> [i \in Inputs |-> [chars |-> IF i \in Required THEN 1 ELSE 0, pairs |-> 0]],
     email  |-> "valid",
     scheme |-> FALSE]

MCForms ==
    LET Long(i, t) == [ShortForm EXCEPT !.texts = [@ EXCEPT ![i] = t]]
    IN  {Long(i, t) : i \in Inputs, t \in MCTexts}
            \cup {[Long("website", t) EXCEPT !.scheme = TRUE] : t \in {u \in MCTexts : u.chars > 6}}
            \cup {[Long("website", t) EXCEPT !.email = email] :
                    t \in {u \in MCTexts : u.chars \in {0, 505}}, email \in {"odd", "wrong"}}
-----------------------------------------------------------------------------
(***************************************************************************)
(* Larger budgets and volumes never cool a lead (scoring.py), whatever the *)
(* other answers, but for the coherence rule: see NoColderWithMore.        *)
(***************************************************************************)
MoreIsNeverColder == NoColderWithMore(scored)

(***************************************************************************)
(* Whatever a lead's answers, in their industry the persona generator      *)
(* misses no band so often that it has to give up: see MostDrawsLand.      *)
(***************************************************************************)
DrawsLandInBand == \A target \in Bands : MostDrawsLand(target, scored.industry)
=============================================================================
