----------------------------- MODULE SalesBrief -----------------------------
(***************************************************************************)
(* The AI sales brief: the lead is read, the model is called with no       *)
(* transaction open, the brief is committed as an entry of the lead's      *)
(* timeline, and the call is recorded in ai_runs by a recorder whose own   *)
(* failures nobody hears of.                                               *)
(*                                                                         *)
(* Sources: application/services/sales_brief_service.py,                   *)
(* infrastructure/ai/anthropic_client.py, infrastructure/database/         *)
(* ai_runs.py and api/v1/dashboard.py (generate_sales_brief).  A call of   *)
(* the model is named by the request that makes it.                        *)
(***************************************************************************)
EXTENDS Integers

CONSTANT Calls  \* the requests for a brief of one lead

VARIABLES
    stage,     \* where each request is
    briefs,    \* the lead's timeline: the calls whose brief was committed
    runs,      \* ai_runs: <<call, status>>
    billed,    \* of the provider: the calls it answered with a message
    briefReply \* the status each request was answered, 0 before; 500 for none, too

briefVars == <<stage, briefs, runs, billed, briefReply>>

(***************************************************************************)
(* What a call may come to.  "undecodable": a body that is not JSON or not *)
(* of the shape that is read, which raises what nobody catches.            *)
(***************************************************************************)
CallOutcomes == {"brief", "unusable", "undecodable", "unavailable", "timeout"}

BriefInit ==
    /\ stage = [c \in Calls |-> "idle"]
    /\ briefs = {} /\ runs = {} /\ billed = {}
    /\ briefReply = [c \in Calls |-> 0]

Reaches(c, where) == stage' = [stage EXCEPT ![c] = where]

BriefAnswer(c, status) ==
    /\ Reaches(c, "answered")
    /\ briefReply' = [briefReply EXCEPT ![c] = status]

-----------------------------------------------------------------------------
(***************************************************************************)
(* Without a key: 503.  An unknown lead: 404.  Otherwise the transaction   *)
(* is over before the model is called.                                     *)
(***************************************************************************)
AskBrief(c) ==
    /\ stage[c] = "idle"
    /\ \/ Reaches(c, "calling") /\ UNCHANGED briefReply
       \/ \E status \in {503, 404} : BriefAnswer(c, status)
    /\ UNCHANGED <<briefs, runs, billed>>

(***************************************************************************)
(* generate: one POST with the tool forced, and the checks of the answer.  *)
(* The provider may bill a call whose answer came too late.                *)
(***************************************************************************)
Generate(c, outcome) ==
    /\ stage[c] = "calling"
    /\ \/ outcome \in {"brief", "unusable", "undecodable", "timeout"}
          /\ billed' = billed \cup {c}
       \/ outcome \in {"unavailable", "timeout"} /\ UNCHANGED billed
    /\ CASE outcome = "brief" ->
              Reaches(c, "storing") /\ UNCHANGED briefReply
         [] outcome = "undecodable" ->
              BriefAnswer(c, 500)
         [] outcome = "unusable" ->
              Reaches(c, "unusable") /\ UNCHANGED briefReply
         [] OTHER ->
              Reaches(c, "unavailable") /\ UNCHANGED briefReply
    /\ UNCHANGED <<briefs, runs>>

(***************************************************************************)
(* record: the row is there, or its failure was logged.                    *)
(***************************************************************************)
Record(c, status) == runs' \in {runs, runs \cup {<<c, status>>}}

RecordFailedRun(c) ==
    /\ \/ stage[c] = "unusable" /\ BriefAnswer(c, 502)
       \/ stage[c] = "unavailable" /\ BriefAnswer(c, 503)
    /\ Record(c, "failed")
    /\ UNCHANGED <<briefs, billed>>

(***************************************************************************)
(* Variant: the run is recorded before the brief is stored.                *)
(***************************************************************************)
StoreRecordedFirst(c) ==
    /\ stage[c] = "storing"
    /\ Record(c, "succeeded")
    /\ \/ briefs' = briefs \cup {c} /\ Reaches(c, "recording") /\ UNCHANGED briefReply
       \/ BriefAnswer(c, 500) /\ UNCHANGED briefs
    /\ UNCHANGED <<billed>>

(***************************************************************************)
(* The second unit of work commits the entry, or raises, or is not heard.  *)
(***************************************************************************)
Store(c) ==
    /\ stage[c] = "storing"
    /\ \/ briefs' = briefs \cup {c} /\ Reaches(c, "recording") /\ UNCHANGED briefReply
       \/ BriefAnswer(c, 500) /\ briefs' \in {briefs, briefs \cup {c}}
    /\ UNCHANGED <<runs, billed>>

RecordRun(c) ==
    /\ stage[c] = "recording"
    /\ Record(c, "succeeded")
    /\ BriefAnswer(c, 201)
    /\ UNCHANGED <<briefs, billed>>

(***************************************************************************)
(* The process ends, or the request is cancelled, wherever it is.  A call  *)
(* under way may be billed.                                                *)
(***************************************************************************)
LoseBrief(c) ==
    /\ stage[c] \notin {"idle", "answered"}
    /\ BriefAnswer(c, 500)
    /\ \/ UNCHANGED billed
       \/ stage[c] = "calling" /\ billed' = billed \cup {c}
    /\ UNCHANGED <<briefs, runs>>

BriefNext ==
    \E c \in Calls :
        \/ AskBrief(c) \/ RecordFailedRun(c) \/ Store(c) \/ RecordRun(c) \/ LoseBrief(c)
        \/ \E outcome \in CallOutcomes : Generate(c, outcome)

BriefSpec == BriefInit /\ [][BriefNext]_briefVars
-----------------------------------------------------------------------------
(***************************************************************************)
(* ai_runs, the timeline and the answers agree, whichever of them is lost: *)
(* a call is recorded once at most; one recorded as succeeded or answered  *)
(* with its brief has it in the timeline and was billed; one recorded as   *)
(* failed left no brief.                                                   *)
(***************************************************************************)
RunsTellTheTruth ==
    \A c \in Calls :
        /\ <<c, "succeeded">> \in runs \/ briefReply[c] = 201 => c \in briefs \cap billed
        /\ <<c, "failed">> \in runs => c \notin briefs /\ <<c, "succeeded">> \notin runs
=============================================================================
