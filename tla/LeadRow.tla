------------------------------ MODULE LeadRow ------------------------------
(***************************************************************************)
(* One row of `leads` and the units of work that read it, decide, and      *)
(* write it back: dashboard requests that move it through the lifecycle,   *)
(* requests that rescore it, and CRM synchronisations.                     *)
(*                                                                         *)
(* Sources: application/services/lead_service.py and crm_sync_service.py   *)
(* (the use cases), domain/leads/entities.py (the decisions),              *)
(* infrastructure/database/repositories.py, mappers.py and unit_of_work.py *)
(* (the read and the write), infrastructure/hubspot/client.py.             *)
(*                                                                         *)
(* Transactions run at READ COMMITTED and the row has no version: between  *)
(* a read and the commit, other units of work commit.  The columns nobody  *)
(* changes after the capture (contact, answers, attribution) are left out, *)
(* and so are the timeline entries of scores and CRM outcomes, which go in *)
(* with the row's update and which no unit of work reads.                  *)
(***************************************************************************)
EXTENDS Integers, Sequences

CONSTANTS
    Desks,         \* requests that may move the lead through the lifecycle at once
    Rescorers,     \* requests that may rescore it at once
    Syncs,         \* calls of sync_lead that may run at once
    RuleVersions,  \* the versions of the scoring rules the processes run
    ContactIds,    \* the contact ids recorded; "unknown" when the answer had none to read
    SkipAnswers,   \* what _should_skip may answer, as the credential and settings change
    MaxMoves,      \* bound: lifecycle entries in the timeline
    AttemptsCap,   \* bound: where hubspot_sync_attempts stops counting
    None

Tasks   == Desks \cup Rescorers \cup Syncs
Answers == {"ok", "transient", "permanent"}

ASSUME LeadRowAssumption ==
    /\ Desks \cap Rescorers = {} /\ Desks \cap Syncs = {} /\ Rescorers \cap Syncs = {}
    /\ None \notin ContactIds \cup Answers
    /\ SkipAnswers \subseteq BOOLEAN
    /\ MaxMoves \in Nat
    /\ AttemptsCap \in Nat

VARIABLES
    row,       \* the row
    history,   \* the <<from, to>> of the timeline's status changes, oldest first
    published, \* the <<from, to>> of the LeadStatusChanged events in the outbox
    crmHolds,  \* what the CRM has under the lead's email: nothing or a contact
    pc,        \* where each unit of work is
    loaded,    \* the row as it read it
    answer     \* of a sync: what the CRM answered

vars == <<row, history, published, crmHolds, pc, loaded, answer>>

Lifecycle == INSTANCE LeadLifecycle WITH status <- row.status

CrmStatuses == {"pending", "synced", "failed", "skipped"}

Rows == [status:   Lifecycle!LeadStatuses,
         score:    RuleVersions,
         crm:      CrmStatuses,
         contact:  ContactIds \cup {None},
         attempts: 0..AttemptsCap]

Init ==
    /\ row \in {r \in Rows : /\ r.status = "new" /\ r.crm = "pending"
                             /\ r.contact = None /\ r.attempts = 0}
    /\ history   = <<>>
    /\ published = {}
    /\ crmHolds  = "nothing"
    /\ pc        = [t \in Tasks |-> "idle"]
    /\ loaded    = [t \in Tasks |-> None]
    /\ answer    = [t \in Tasks |-> None]

-----------------------------------------------------------------------------
(***************************************************************************)
(* uow.leads.get: the row as it is committed now.                          *)
(***************************************************************************)
Load(t) ==
    /\ pc[t] = "idle"
    /\ pc'     = [pc EXCEPT ![t] = "loaded"]
    /\ loaded' = [loaded EXCEPT ![t] = row]
    /\ UNCHANGED <<row, history, published, crmHolds, answer>>

(***************************************************************************)
(* The unit of work is over.                                               *)
(***************************************************************************)
Done(t) ==
    /\ pc'     = [pc EXCEPT ![t] = "idle"]
    /\ loaded' = [loaded EXCEPT ![t] = None]
    /\ answer' = [answer EXCEPT ![t] = None]

(***************************************************************************)
(* Variant: the UPDATE sets every column that was assigned.                *)
(***************************************************************************)
WrittenWhole(before, after) == after

(***************************************************************************)
(* uow.leads.update and the commit.  apply_lead_to_row assigns every       *)
(* column, but the UPDATE the session emits sets those whose value differs *)
(* from the one that was loaded; the others keep what others committed.    *)
(***************************************************************************)
Written(before, after) ==
    LET column(c) == IF after[c] = before[c] THEN row[c] ELSE after[c]
    IN  [status   |-> column("status"),
         score    |-> column("score"),
         crm      |-> column("crm"),
         contact  |-> column("contact"),
         attempts |-> column("attempts")]

Commit(t, after) ==
    /\ row' = Written(loaded[t], after)
    /\ Done(t)

(***************************************************************************)
(* No commit: the domain refused, the client went away, a statement raised *)
(* or the process died.  A CRM call that was under way may have been       *)
(* applied.                                                                *)
(***************************************************************************)
Rollback(t) ==
    /\ pc[t] # "idle"
    /\ \/ UNCHANGED crmHolds
       \/ pc[t] = "calling" /\ crmHolds' = "contact"
    /\ Done(t)
    /\ UNCHANGED <<row, history, published>>

-----------------------------------------------------------------------------
(***************************************************************************)
(* transition_status: transition_to decides on the status that was loaded. *)
(* A request for that very status is let through and still makes an entry; *)
(* an illegal one raises, and is rolled back.                              *)
(***************************************************************************)
MayMove(from, to) == to = from \/ Lifecycle!CanTransition(from, to)

(***************************************************************************)
(* The LeadStatusChanged of a move: none when the status stays.            *)
(***************************************************************************)
Published(from, to) == {<<from, to>>} \ {<<to, to>>}

Transition(d, to) ==
    LET from == loaded[d].status
    IN  /\ pc[d] = "loaded"
        /\ MayMove(from, to)
        /\ Len(history) < MaxMoves
        /\ Commit(d, [loaded[d] EXCEPT !.status = to])
        /\ history' = Append(history, <<from, to>>)
        /\ published' = published \cup Published(from, to)
        /\ UNCHANGED crmHolds

Refuse(d, to) ==
    /\ pc[d] = "loaded"
    /\ ~MayMove(loaded[d].status, to)
    /\ Done(d)
    /\ UNCHANGED <<row, history, published, crmHolds>>

Rescore(r, version) ==
    /\ pc[r] = "loaded"
    /\ Commit(r, [loaded[r] EXCEPT !.score = version])
    /\ UNCHANGED <<history, published, crmHolds>>

-----------------------------------------------------------------------------
(***************************************************************************)
(* sync_lead, in its order: skip; nothing to do; otherwise close the       *)
(* transaction and call the CRM.                                           *)
(***************************************************************************)
SyncSkip(s) ==
    /\ pc[s] = "loaded"
    /\ TRUE \in SkipAnswers
    /\ Commit(s, [loaded[s] EXCEPT !.crm = "skipped"])
    /\ UNCHANGED <<history, published, crmHolds>>

SyncNothingToDo(s) ==
    /\ pc[s] = "loaded"
    /\ FALSE \in SkipAnswers
    /\ loaded[s].contact # None
    /\ Done(s)
    /\ UNCHANGED <<row, history, published, crmHolds>>

SyncCall(s) ==
    /\ pc[s] = "loaded"
    /\ FALSE \in SkipAnswers
    /\ loaded[s].contact = None
    /\ pc'     = [pc EXCEPT ![s] = "calling"]
    /\ loaded' = [loaded EXCEPT ![s] = None]
    /\ UNCHANGED <<row, history, published, crmHolds, answer>>

(***************************************************************************)
(* upsert_contact: keyed on email, so a second one changes nothing.  A     *)
(* transient error (a timeout, say) does not tell whether it was applied.  *)
(***************************************************************************)
UpsertReturns(s, a) ==
    /\ pc[s] = "calling"
    /\ pc'     = [pc EXCEPT ![s] = "answered"]
    /\ answer' = [answer EXCEPT ![s] = a]
    /\ \/ a # "ok" /\ UNCHANGED crmHolds
       \/ a # "permanent" /\ crmHolds' = "contact"
    /\ UNCHANGED <<row, history, published, loaded>>

(***************************************************************************)
(* _record_success and _record_failure are units of work of their own and  *)
(* read the row again.                                                     *)
(***************************************************************************)
RecordLoad(s) ==
    /\ pc[s] = "answered"
    /\ pc'     = [pc EXCEPT ![s] = "recording"]
    /\ loaded' = [loaded EXCEPT ![s] = row]
    /\ UNCHANGED <<row, history, published, crmHolds, answer>>

(***************************************************************************)
(* Variant: a call that may have been applied is recorded as a success.    *)
(***************************************************************************)
RecordSuccessAnyway(s, id) ==
    /\ pc[s] = "recording"
    /\ answer[s] # "permanent"
    /\ Commit(s, [loaded[s] EXCEPT !.crm = "synced", !.contact = id])
    /\ UNCHANGED <<history, published, crmHolds>>

RecordSuccess(s, id) ==
    /\ pc[s] = "recording"
    /\ answer[s] = "ok"
    /\ Commit(s, [loaded[s] EXCEPT !.crm = "synced", !.contact = id])
    /\ UNCHANGED <<history, published, crmHolds>>

(***************************************************************************)
(* Variant: the entity and the service both count the attempt.             *)
(***************************************************************************)
CountedTwice(n) == n + 2

Counted(n) == IF n < AttemptsCap THEN n + 1 ELSE n

RecordFailure(s) ==
    /\ pc[s] = "recording"
    /\ answer[s] # "ok"
    /\ Commit(s, [loaded[s] EXCEPT !.crm = "failed", !.attempts = Counted(@)])
    /\ UNCHANGED <<history, published, crmHolds>>

-----------------------------------------------------------------------------
Next ==
    \/ \E t \in Tasks : Load(t) \/ Rollback(t)
    \/ \E d \in Desks, to \in Lifecycle!LeadStatuses : Transition(d, to) \/ Refuse(d, to)
    \/ \E r \in Rescorers, version \in RuleVersions : Rescore(r, version)
    \/ \E s \in Syncs : SyncSkip(s) \/ SyncNothingToDo(s) \/ SyncCall(s)
    \/ \E s \in Syncs, a \in Answers : UpsertReturns(s, a)
    \/ \E s \in Syncs : RecordLoad(s) \/ RecordFailure(s)
    \/ \E s \in Syncs, id \in ContactIds : RecordSuccess(s, id)

Spec == Init /\ [][Next]_vars
-----------------------------------------------------------------------------
(***************************************************************************)
(* Types, and what a unit of work holds where it is.                       *)
(***************************************************************************)
TypeOK ==
    /\ row \in Rows
    /\ history \in Seq(Lifecycle!LeadStatuses \X Lifecycle!LeadStatuses)
    /\ published \subseteq Lifecycle!LeadStatuses \X Lifecycle!LeadStatuses
    /\ crmHolds \in {"nothing", "contact"}
    /\ pc \in [Tasks -> {"idle", "loaded", "calling", "answered", "recording"}]
    /\ loaded \in [Tasks -> Rows \cup {None}]
    /\ answer \in [Tasks -> Answers \cup {None}]

(***************************************************************************)
(* "Every caller in the system goes through it, so an illegal transition   *)
(* is impossible" (entities.py): whatever rescores and synchronisations    *)
(* commit in between, the status column only follows the lifecycle.        *)
(***************************************************************************)
FollowsLifecycle == Lifecycle!Spec

(***************************************************************************)
(* "Terminal states. Nothing leaves them." (lifecycle.py)                  *)
(***************************************************************************)
TerminalStays ==
    [][row.status \in Lifecycle!TerminalStatuses => row'.status = row.status]_vars

(***************************************************************************)
(* The timeline explains the status: its status changes start at `new`,    *)
(* each begins where the one before it ended, and the last ends where the  *)
(* lead is.  And the outbox tells the same story: the moves published are  *)
(* the entries in which the status changed.                                *)
(***************************************************************************)
HistoryIsAPath ==
    LET n == Len(history)
    IN  /\ n = 0 => row.status = "new"
        /\ n > 0 => history[1][1] = "new" /\ history[n][2] = row.status
        /\ \A i \in 1..n - 1 : history[i][2] = history[i + 1][1]
        /\ published = {m \in {history[i] : i \in 1..n} : m[1] # m[2]}

(***************************************************************************)
(* A contact id is never lost again, however many synchronisations of the  *)
(* lead overlap and however they end: it is what keeps a redelivered event *)
(* from calling the CRM again.                                             *)
(***************************************************************************)
ContactKept == [][row.contact # None => row'.contact # None]_vars

(***************************************************************************)
(* What the row says of the CRM is so: a synced lead has a contact id, and *)
(* a contact id stands for a contact the CRM has.                          *)
(***************************************************************************)
CrmStatusIsHonest ==
    /\ row.crm = "synced" => row.contact # None
    /\ row.contact # None => crmHolds = "contact"

(***************************************************************************)
(* "If the lead already has a crm_contact_id, there is nothing to do."     *)
(* (crm_sync_service.py)                                                   *)
(***************************************************************************)
NothingToDoOnceSynced == [][row.contact # None => row'.crm = row.crm]_vars
=============================================================================
