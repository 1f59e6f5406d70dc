---------------------------- MODULE LeadCapture ----------------------------
(***************************************************************************)
(* The capture of leads: requests that carry an idempotency key, the look  *)
(* for a lead with that key, and the one commit that writes a lead with    *)
(* its timeline entries and its outbox events, against the unique index.   *)
(*                                                                         *)
(* Sources: api/v1/leads.py (create_lead), application/services/           *)
(* lead_service.py (capture_lead), domain/leads/entities.py (capture),     *)
(* infrastructure/database/unit_of_work.py and repositories.py.            *)
(*                                                                         *)
(* A payload stands for everything a form sends besides its key; what the  *)
(* rules say of it is whether it is valid and whether it scores hot.       *)
(* Nothing is written before the commit: the session does not flush on its *)
(* own, and the INSERTs that conflict with an open transaction wait for it.*)
(***************************************************************************)
EXTENDS Integers

CONSTANTS
    Requests,  \* the requests; the lead one creates takes its name (a fresh uuid)
    Keys,      \* the idempotency keys, one per mounted form
    Payloads,
    Valid,     \* the payloads Lead.capture accepts
    Hot,       \* the payloads that score hot
    None

ASSUME LeadCaptureAssumption ==
    /\ Hot \subseteq Valid
    /\ Valid \subseteq Payloads
    /\ None \notin Requests \cup Keys \cup Payloads

VARIABLES
    \* the database
    leads, timeline, outbox,
    \* each request: where it is, what it carries, what it was answered
    pc, key, payload, reply,
    \* history: the requests that arrived when a lead with their key was stored
    late

database == <<leads, timeline, outbox>>
vars == <<database, pc, key, payload, reply, late>>

Leads == [id: Requests, key: Keys, payload: Valid]

(***************************************************************************)
(* 500 stands for no answer at all, too.                                   *)
(***************************************************************************)
Statuses == {200, 201, 409, 422, 429, 500, 503}
Accepted == {200, 201}
Replies  == [status: Statuses, lead: Requests \cup {None}]

Init ==
    /\ leads    = {}
    /\ timeline = {}
    /\ outbox   = {}
    /\ pc       = [r \in Requests |-> "unsent"]
    /\ key      = [r \in Requests |-> None]
    /\ payload  = [r \in Requests |-> None]
    /\ reply    = [r \in Requests |-> None]
    /\ late     = {}

-----------------------------------------------------------------------------
LeadsWith(k) == {l \in leads : l.key = k}

(***************************************************************************)
(* A form is submitted, again (a double click, a retry, with corrected     *)
(* values) or for the first time.                                          *)
(***************************************************************************)
Submit(r, k, p) ==
    /\ pc[r] = "unsent"
    /\ pc'      = [pc EXCEPT ![r] = "arrived"]
    /\ key'     = [key EXCEPT ![r] = k]
    /\ payload' = [payload EXCEPT ![r] = p]
    /\ late'    = IF LeadsWith(k) = {} THEN late ELSE late \cup {r}
    /\ UNCHANGED <<database, reply>>

Answer(r, status, lead) ==
    /\ pc'    = [pc EXCEPT ![r] = "answered"]
    /\ reply' = [reply EXCEPT ![r] = [status |-> status, lead |-> lead]]
    /\ UNCHANGED <<key, payload, late>>

(***************************************************************************)
(* Before the use case runs: no database, a malformed body, the limiter.   *)
(***************************************************************************)
TurnAway(r, status) ==
    /\ pc[r] = "arrived"
    /\ status \in {422, 429, 503}
    /\ Answer(r, status, None)
    /\ UNCHANGED database

(***************************************************************************)
(* find_by_idempotency_key, which is outside the commit it protects.       *)
(***************************************************************************)
FindExisting(r) ==
    /\ pc[r] = "arrived"
    /\ \E l \in LeadsWith(key[r]) : Answer(r, 200, l.id)
    /\ UNCHANGED database

(***************************************************************************)
(* Variant: the look for a lead with the key is left to the unique index.  *)
(***************************************************************************)
FindNothingEver(r) ==
    /\ pc[r] = "arrived"
    /\ pc' = [pc EXCEPT ![r] = "capturing"]
    /\ UNCHANGED <<database, key, payload, reply, late>>

FindNothing(r) ==
    /\ pc[r] = "arrived"
    /\ LeadsWith(key[r]) = {}
    /\ pc' = [pc EXCEPT ![r] = "capturing"]
    /\ UNCHANGED <<database, key, payload, reply, late>>

(***************************************************************************)
(* Lead.capture raises, after the look and before anything is staged.      *)
(***************************************************************************)
Reject(r) ==
    /\ pc[r] = "capturing"
    /\ payload[r] \notin Valid
    /\ Answer(r, 422, None)
    /\ UNCHANGED database

-----------------------------------------------------------------------------
(***************************************************************************)
(* What a capture stages besides the lead.                                 *)
(***************************************************************************)
Entries(id) == {<<"captured", id>>, <<"scored", id>>}

Published(id, p) ==
    {<<"LeadCaptured", id>>} \cup {<<"LeadMarkedHot", id>> : x \in {p} \cap Hot}

(***************************************************************************)
(* Variant: no unique index, the look alone guards the insert.             *)
(***************************************************************************)
InsertUnguarded(r) ==
    /\ pc[r] = "capturing"
    /\ payload[r] \in Valid
    /\ leads'    = leads \cup {[id |-> r, key |-> key[r], payload |-> payload[r]]}
    /\ timeline' = timeline \cup Entries(r)
    /\ outbox'   = outbox \cup Published(r, payload[r])

(***************************************************************************)
(* Variant: the row is stored as it came, unvalidated.                     *)
(***************************************************************************)
InsertUnchecked(r) ==
    /\ pc[r] = "capturing"
    /\ LeadsWith(key[r]) = {}
    /\ leads'    = leads \cup {[id |-> r, key |-> key[r], payload |-> payload[r]]}
    /\ timeline' = timeline \cup Entries(r)
    /\ outbox'   = outbox \cup Published(r, payload[r])

(***************************************************************************)
(* The commit, as the unique index on the key lets it through.             *)
(***************************************************************************)
Insert(r) ==
    /\ pc[r] = "capturing"
    /\ payload[r] \in Valid
    /\ LeadsWith(key[r]) = {}
    /\ leads'    = leads \cup {[id |-> r, key |-> key[r], payload |-> payload[r]]}
    /\ timeline' = timeline \cup Entries(r)
    /\ outbox'   = outbox \cup Published(r, payload[r])

Create(r) ==
    /\ Insert(r)
    /\ Answer(r, 201, r)

(***************************************************************************)
(* The commit is applied and the connection, the process or the client is  *)
(* gone before it is known.                                                *)
(***************************************************************************)
CreateUnheard(r) ==
    /\ Insert(r)
    /\ Answer(r, 500, None)

(***************************************************************************)
(* Variant: the events of a conflicting capture are published all the same.*)
(***************************************************************************)
ConflictPublishes(r) ==
    /\ pc[r] = "capturing"
    /\ payload[r] \in Valid
    /\ LeadsWith(key[r]) # {}
    /\ outbox' = outbox \cup Published(r, payload[r])
    /\ Answer(r, 409, None)
    /\ UNCHANGED <<leads, timeline>>

(***************************************************************************)
(* Variant: a conflict is answered like a success, with the lead it built. *)
(***************************************************************************)
ConflictAcknowledged(r) ==
    /\ pc[r] = "capturing"
    /\ payload[r] \in Valid
    /\ LeadsWith(key[r]) # {}
    /\ Answer(r, 200, r)
    /\ UNCHANGED database

(***************************************************************************)
(* The index finds a lead with the key: IdempotencyConflictError.          *)
(***************************************************************************)
Conflict(r) ==
    /\ pc[r] = "capturing"
    /\ payload[r] \in Valid
    /\ LeadsWith(key[r]) # {}
    /\ Answer(r, 409, None)
    /\ UNCHANGED database

(***************************************************************************)
(* A statement raises or the process dies before the commit.               *)
(***************************************************************************)
Fail(r) ==
    /\ pc[r] \in {"arrived", "capturing"}
    /\ Answer(r, 500, None)
    /\ UNCHANGED database

-----------------------------------------------------------------------------
Next ==
    \/ \E r \in Requests, k \in Keys, p \in Payloads : Submit(r, k, p)
    \/ \E r \in Requests, status \in Statuses : TurnAway(r, status)
    \/ \E r \in Requests :
        \/ FindExisting(r)
        \/ FindNothing(r)
        \/ Reject(r)
        \/ Create(r)
        \/ CreateUnheard(r)
        \/ Conflict(r)
        \/ Fail(r)

Spec == Init /\ [][Next]_vars
-----------------------------------------------------------------------------
(***************************************************************************)
(* Types, and what is known of a request where it is.                      *)
(***************************************************************************)
TypeOK ==
    /\ leads \subseteq Leads
    /\ timeline \subseteq {"captured", "scored"} \X Requests
    /\ outbox \subseteq {"LeadCaptured", "LeadMarkedHot"} \X Requests
    /\ pc \in [Requests -> {"unsent", "arrived", "capturing", "answered"}]
    /\ key \in [Requests -> Keys \cup {None}]
    /\ payload \in [Requests -> Payloads \cup {None}]
    /\ reply \in [Requests -> Replies \cup {None}]
    /\ late \subseteq Requests
    /\ \A r \in Requests : pc[r] = "answered" => reply[r] \in Replies

(***************************************************************************)
(* "produces exactly one lead" (api-client.ts): however many requests      *)
(* carry a key and however they overlap, at most one lead is stored for it.*)
(***************************************************************************)
OneLeadPerKey == \A l, m \in leads : l.key = m.key => l = m

(***************************************************************************)
(* Lead, timeline and outbox commit together (lead_service.py): the        *)
(* outbox holds the events of the stored leads, all of them and no others, *)
(* and so does the timeline.                                               *)
(***************************************************************************)
EventsOfLeads ==
    /\ outbox = UNION {Published(l.id, l.payload) : l \in leads}
    /\ timeline = UNION {Entries(l.id) : l \in leads}

(***************************************************************************)
(* "First request: 201 ... Replay with the same key: 200" (ADR 0007): a    *)
(* request sent when its key is already stored, as every retry after an    *)
(* answer is, creates nothing and is never told of a conflict.             *)
(***************************************************************************)
RetryIsRecognised ==
    \A r \in late : pc[r] = "answered" => reply[r].status \notin {201, 409}

(***************************************************************************)
(* "A double-click must never show an error" (api/v1/leads.py and ADR      *)
(* 0007): of two requests with the same key, neither is answered with a    *)
(* conflict.                                                               *)
(***************************************************************************)
DoubleClickShowsNoError ==
    \A r \in Requests : pc[r] = "answered" => reply[r].status # 409

-----------------------------------------------------------------------------
Answered(r) == pc[r] = "answered" /\ reply[r].status \in Accepted

CapturedAs(k) ==
    IF LeadsWith(k) = {} THEN None ELSE (CHOOSE l \in leads : l.key = k).id

Promise == INSTANCE IdempotentCapture WITH
    Leads    <- Requests,
    NoLead   <- None,
    captured <- [k \in Keys |-> CapturedAs(k)],
    told     <- {<<key[r], reply[r].lead>> : r \in {q \in Requests : Answered(q)}}

(***************************************************************************)
(* The requests, however they race, keep the promise of IdempotentCapture. *)
(***************************************************************************)
KeepsPromise == Promise!Spec
=============================================================================
