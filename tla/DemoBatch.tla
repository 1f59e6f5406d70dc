----------------------------- MODULE DemoBatch ------------------------------
(***************************************************************************)
(* A batch of synthetic leads: built one after the other and captured each *)
(* in a transaction of its own, by one request from the demo page.         *)
(*                                                                         *)
(* Sources: application/services/demo_lead_service.py, api/v1/demo.py and  *)
(* components/dashboard/demo-generator.tsx.  The answers of a persona are  *)
(* Personas', the capture is LeadCapture's: with a key of its own it is    *)
(* committed or it is not, and one that was may go unheard.                *)
(***************************************************************************)
EXTENDS Personas, Sequences

CONSTANTS
    Batches,      \* the requests
    Counts,       \* the counts asked for
    Industries,   \* the industries asked for, or drawn when none was
    MaxBatchSize  \* demo_max_batch_size

ASSUME DemoBatchAssumption ==
    /\ Counts \subseteq Nat
    /\ Industries \subseteq DOMAIN IndustryPoints
    /\ MaxBatchSize \in Nat

VARIABLES
    batch,   \* each request: "idle", "building", "capturing", "shown" or "error"
    wanted,  \* its count
    drawn,   \* the persona in its hands: the band aimed for and the answers
    listed,  \* the summary it gathers: the intended bands of its leads, in order
    made     \* the leads in the database: of each request, by number, with their band

batchVars == <<batch, wanted, drawn, listed, made>>

Nobody == [target |-> "none", answers |-> <<>>]

BatchInit ==
    /\ batch  = [b \in Batches |-> "idle"]
    /\ wanted = [b \in Batches |-> 0]
    /\ drawn  = [b \in Batches |-> Nobody]
    /\ listed = [b \in Batches |-> <<>>]
    /\ made   = [b \in Batches |-> {}]

Turns(b, now) == batch' = [batch EXCEPT ![b] = now]

-----------------------------------------------------------------------------
(***************************************************************************)
(* generate of the page, and the checks of the service: the generator is   *)
(* disabled (403), the count is out of range (422), or the batch begins.   *)
(***************************************************************************)
AskBatch(b, count) ==
    /\ batch[b] = "idle"
    /\ wanted' = [wanted EXCEPT ![b] = count]
    /\ \/ Turns(b, "error")
       \/ count \in 1..MaxBatchSize /\ Turns(b, "building")
    /\ UNCHANGED <<drawn, listed, made>>

(***************************************************************************)
(* build_persona for the next lead, for whatever quality and scenario were *)
(* asked for.                                                              *)
(***************************************************************************)
AnyTarget ==
    UNION {Targets(quality, scenario) :
              quality \in DOMAIN QualityWeights, scenario \in DOMAIN ScenarioQuality}

Build(b) ==
    /\ batch[b] = "building"
    /\ Len(listed[b]) < wanted[b]
    /\ \E target \in AnyTarget, industry \in Industries, misses \in {0, CoherenceAttempts} :
          \E a \in BuildPersona(target, industry, misses) :
             drawn' = [drawn EXCEPT ![b] = [target |-> target, answers |-> a]]
    /\ Turns(b, "capturing")
    /\ UNCHANGED <<wanted, listed, made>>

(***************************************************************************)
(* The end of the loop: the summary is answered (201) and shown.           *)
(***************************************************************************)
ShowBatch(b) ==
    /\ batch[b] = "building"
    /\ Len(listed[b]) = wanted[b]
    /\ Turns(b, "shown")
    /\ UNCHANGED <<wanted, drawn, listed, made>>

(***************************************************************************)
(* The lead the capture stores is scored by the scorer, not the generator. *)
(***************************************************************************)
Stored(b) ==
    made[b] \cup {[number |-> Len(listed[b]) + 1, band |-> Temperature(drawn[b].answers)]}

(***************************************************************************)
(* Variant: a lead that failed is left out and the batch goes on.          *)
(***************************************************************************)
CaptureOrSkip(b) ==
    /\ batch[b] = "capturing"
    /\ Turns(b, "building")
    /\ listed' = [listed EXCEPT ![b] = Append(@, drawn[b].target)]
    /\ made' \in {made, [made EXCEPT ![b] = Stored(b)]}
    /\ drawn' = [drawn EXCEPT ![b] = Nobody]
    /\ UNCHANGED wanted

Capture(b) ==
    /\ batch[b] = "capturing"
    /\ Turns(b, "building")
    /\ listed' = [listed EXCEPT ![b] = Append(@, drawn[b].target)]
    /\ made'   = [made EXCEPT ![b] = Stored(b)]
    /\ drawn'  = [drawn EXCEPT ![b] = Nobody]
    /\ UNCHANGED wanted

(***************************************************************************)
(* The capture raises, before its commit or after it, the process ends or  *)
(* the answer is lost: the leads before it stay.                           *)
(***************************************************************************)
BatchFails(b) ==
    /\ batch[b] \in {"building", "capturing"}
    /\ Turns(b, "error")
    /\ \/ UNCHANGED made
       \/ batch[b] = "capturing" /\ made' = [made EXCEPT ![b] = Stored(b)]
    /\ drawn' = [drawn EXCEPT ![b] = Nobody]
    /\ UNCHANGED <<wanted, listed>>

BatchNext ==
    \E b \in Batches :
        \/ \E count \in Counts : AskBatch(b, count)
        \/ Build(b) \/ ShowBatch(b) \/ Capture(b) \/ BatchFails(b)

BatchSpec == BatchInit /\ [][BatchNext]_batchVars
-----------------------------------------------------------------------------
Numbers(b) == {lead.number : lead \in made[b]}

(***************************************************************************)
(* "Lead seven failing must not roll back leads one to six"                *)
(* (demo_lead_service.py): what a batch leaves is its first leads, without *)
(* a gap and with all it has listed; a batch that is shown is whole.       *)
(***************************************************************************)
BatchIsWholeOrAPrefix ==
    \A b \in Batches :
        /\ \E n \in Len(listed[b]) .. wanted[b] : Numbers(b) = 1..n
        /\ batch[b] = "shown" => Numbers(b) = 1..wanted[b]

(***************************************************************************)
(* The band a summary intends and the band the lead was scored are at most *)
(* one apart, a persona that was given up on after its last draw included: *)
(* a lead written as hot is never scored cold, nor the other way round.    *)
(***************************************************************************)
NeverTheOppositeBand ==
    \A b \in Batches : \A lead \in made[b] :
        lead.number <= Len(listed[b]) =>
            {listed[b][lead.number], lead.band} # {"hot", "cold"}
=============================================================================
