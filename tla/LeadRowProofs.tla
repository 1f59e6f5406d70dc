--------------------------- MODULE LeadRowProofs ---------------------------
(***************************************************************************)
(* Theorems about a lead's row for any number of concurrent requests and   *)
(* synchronisations.                                                       *)
(***************************************************************************)
EXTENDS LeadRow, TLAPS

-----------------------------------------------------------------------------
(***************************************************************************)
(* Types, and what a unit of work holds: a row from its load on, and an    *)
(* answer from the CRM's on; "ok" means the contact is there.              *)
(***************************************************************************)
Holding == {"loaded", "recording"}

InHand ==
    \A t \in Tasks :
        /\ pc[t] \in Holding => loaded[t] \in Rows
        /\ answer[t] = "ok" => crmHolds = "contact"

TypeInv == TypeOK /\ InHand

LEMMA WrittenRow ==
    ASSUME row \in Rows, NEW before \in Rows, NEW after \in Rows
    PROVE  Written(before, after) \in Rows
  BY DEF Written, Rows

LEMMA CommitTypes ==
    ASSUME TypeInv, NEW t \in Tasks, NEW after \in Rows, pc[t] \in Holding,
           Commit(t, after), UNCHANGED crmHolds,
           history' \in Seq(Lifecycle!LeadStatuses \X Lifecycle!LeadStatuses),
           published' \subseteq Lifecycle!LeadStatuses \X Lifecycle!LeadStatuses
    PROVE  TypeInv'
  <1>1. row' \in Rows
    BY WrittenRow DEF Commit, TypeInv, TypeOK, InHand
  <1>2. QED
    BY <1>1, LeadRowAssumption DEF Commit, Done, TypeInv, TypeOK, InHand, Holding, Answers

LEMMA InitTypes == Init => TypeInv
  <1> SUFFICES ASSUME Init
               PROVE  TypeInv
    OBVIOUS
  <1>1. history \in Seq(Lifecycle!LeadStatuses \X Lifecycle!LeadStatuses)
    BY DEF Init
  <1>2. TypeOK
    BY <1>1 DEF Init, TypeOK
  <1>3. InHand
    BY LeadRowAssumption DEF Init, InHand, Holding, Answers
  <1>4. QED
    BY <1>2, <1>3 DEF TypeInv

LEMMA NextTypes == TypeInv /\ [Next]_vars => TypeInv'
  <1> SUFFICES ASSUME TypeInv, [Next]_vars
               PROVE  TypeInv'
    OBVIOUS
  <1> USE LeadRowAssumption DEF TypeInv, Answers
  <1>1. ASSUME NEW t \in Tasks, Load(t)
        PROVE  TypeInv'
    BY <1>1 DEF Load, TypeOK, InHand, Holding
  <1>2. ASSUME NEW t \in Tasks, Rollback(t)
        PROVE  TypeInv'
    <2>1. /\ crmHolds' \in {"nothing", "contact"}
          /\ crmHolds = "contact" => crmHolds' = "contact"
      BY <1>2 DEF Rollback, TypeOK
    <2>2. TypeOK'
      BY <1>2, <2>1 DEF Rollback, Done, TypeOK
    <2>3. \A u \in Tasks : answer'[u] = "ok" => answer[u] = "ok"
      BY <1>2 DEF Rollback, Done, TypeOK
    <2>4. InHand'
      BY <1>2, <2>1, <2>3 DEF Rollback, Done, TypeOK, InHand, Holding
    <2>5. QED
      BY <2>2, <2>4
  <1>3. ASSUME NEW d \in Desks, NEW to \in Lifecycle!LeadStatuses, Transition(d, to)
        PROVE  TypeInv'
    <2>1. d \in Tasks /\ pc[d] \in Holding /\ loaded[d] \in Rows
      BY <1>3 DEF Transition, Tasks, InHand, Holding
    <2>2. [loaded[d] EXCEPT !.status = to] \in Rows
      BY <2>1 DEF Rows
    <2>3. loaded[d].status \in Lifecycle!LeadStatuses
      BY <2>1 DEF Rows
    <2>4. history' \in Seq(Lifecycle!LeadStatuses \X Lifecycle!LeadStatuses)
      BY <1>3, <2>3 DEF Transition, TypeOK
    <2>5. published' \subseteq Lifecycle!LeadStatuses \X Lifecycle!LeadStatuses
      BY <1>3, <2>3 DEF Transition, Published, TypeOK
    <2>6. QED
      BY <1>3, <2>1, <2>2, <2>4, <2>5, CommitTypes DEF Transition
  <1>4. ASSUME NEW d \in Desks, NEW to \in Lifecycle!LeadStatuses, Refuse(d, to)
        PROVE  TypeInv'
    BY <1>4 DEF Refuse, Done, Tasks, TypeOK, InHand, Holding
  <1>5. ASSUME NEW r \in Rescorers, NEW version \in RuleVersions, Rescore(r, version)
        PROVE  TypeInv'
    <2>1. r \in Tasks /\ pc[r] \in Holding /\ loaded[r] \in Rows
      BY <1>5 DEF Rescore, Tasks, InHand, Holding
    <2>2. [loaded[r] EXCEPT !.score = version] \in Rows
      BY <2>1 DEF Rows
    <2>3. QED
      BY <1>5, <2>1, <2>2, CommitTypes DEF Rescore, TypeOK
  <1>6. ASSUME NEW s \in Syncs, SyncSkip(s)
        PROVE  TypeInv'
    <2>1. s \in Tasks /\ pc[s] \in Holding /\ loaded[s] \in Rows
      BY <1>6 DEF SyncSkip, Tasks, InHand, Holding
    <2>2. [loaded[s] EXCEPT !.crm = "skipped"] \in Rows
      BY <2>1 DEF Rows, CrmStatuses
    <2>3. QED
      BY <1>6, <2>1, <2>2, CommitTypes DEF SyncSkip, TypeOK
  <1>7. ASSUME NEW s \in Syncs, SyncNothingToDo(s)
        PROVE  TypeInv'
    BY <1>7 DEF SyncNothingToDo, Done, Tasks, TypeOK, InHand, Holding
  <1>8. ASSUME NEW s \in Syncs, SyncCall(s)
        PROVE  TypeInv'
    BY <1>8 DEF SyncCall, Tasks, TypeOK, InHand, Holding
  <1>9. ASSUME NEW s \in Syncs, NEW a \in Answers, UpsertReturns(s, a)
        PROVE  TypeInv'
    BY <1>9 DEF UpsertReturns, Tasks, TypeOK, InHand, Holding
  <1>10. ASSUME NEW s \in Syncs, RecordLoad(s)
         PROVE  TypeInv'
    BY <1>10 DEF RecordLoad, Tasks, TypeOK, InHand, Holding
  <1>11. ASSUME NEW s \in Syncs, NEW id \in ContactIds, RecordSuccess(s, id)
         PROVE  TypeInv'
    <2>1. s \in Tasks /\ pc[s] \in Holding /\ loaded[s] \in Rows
      BY <1>11 DEF RecordSuccess, Tasks, InHand, Holding
    <2>2. [loaded[s] EXCEPT !.crm = "synced", !.contact = id] \in Rows
      BY <2>1 DEF Rows, CrmStatuses
    <2>3. QED
      BY <1>11, <2>1, <2>2, CommitTypes DEF RecordSuccess, TypeOK
  <1>12. ASSUME NEW s \in Syncs, RecordFailure(s)
         PROVE  TypeInv'
    <2>1. s \in Tasks /\ pc[s] \in Holding /\ loaded[s] \in Rows
      BY <1>12 DEF RecordFailure, Tasks, InHand, Holding
    <2>2. Counted(loaded[s].attempts) \in 0..AttemptsCap
      BY <2>1 DEF Rows, Counted
    <2>3. [loaded[s] EXCEPT !.crm = "failed", !.attempts = Counted(@)] \in Rows
      BY <2>1, <2>2 DEF Rows, CrmStatuses
    <2>4. QED
      BY <1>12, <2>1, <2>3, CommitTypes DEF RecordFailure, TypeOK
  <1>13. CASE UNCHANGED vars
    BY <1>13 DEF vars, TypeOK, InHand
  <1>14. QED
    BY <1>1, <1>2, <1>3, <1>4, <1>5, <1>6, <1>7, <1>8, <1>9, <1>10, <1>11, <1>12, <1>13
       DEF Next

(***************************************************************************)
(* The columns and the units of work keep their types.                     *)
(***************************************************************************)
THEOREM TypeCorrect == Spec => []TypeOK
  <1>1. Init => TypeInv
    BY InitTypes
  <1>2. TypeInv /\ [Next]_vars => TypeInv'
    BY NextTypes
  <1>3. TypeInv => TypeOK
    BY DEF TypeInv
  <1>4. QED
    BY <1>1, <1>2, <1>3, PTL DEF Spec

-----------------------------------------------------------------------------
(***************************************************************************)
(* The CRM columns.  Whoever has loaded a contact id finds the row still   *)
(* has one when it commits: that is what makes ContactKept inductive.      *)
(***************************************************************************)
ContactSeen ==
    \A t \in Tasks :
        pc[t] \in Holding /\ loaded[t].contact # None => row.contact # None

CrmInv == TypeInv /\ CrmStatusIsHonest /\ ContactSeen

LEMMA CommitContact ==
    ASSUME CrmInv, NEW t \in Tasks, NEW after \in Rows, pc[t] \in Holding,
           Commit(t, after), UNCHANGED crmHolds,
           loaded[t].contact # None => after.contact # None,
           after.contact # None => row.contact # None \/ crmHolds = "contact",
           \/ after.crm = loaded[t].crm
           \/ after.crm # "synced"
           \/ after.contact # None
    PROVE  /\ row.contact # None => row'.contact # None
           /\ (CrmStatusIsHonest /\ ContactSeen)'
  <1>1. /\ row'.contact = IF after.contact = loaded[t].contact
                          THEN row.contact ELSE after.contact
        /\ row'.crm = IF after.crm = loaded[t].crm THEN row.crm ELSE after.crm
    BY DEF Commit, Written
  <1>2. loaded[t].contact # None => row.contact # None
    BY DEF CrmInv, ContactSeen
  <1>3. row.contact # None => row'.contact # None
    BY <1>1
  <1>4. CrmStatusIsHonest'
    BY <1>1, <1>2, <1>3 DEF CrmInv, CrmStatusIsHonest
  <1>5. ContactSeen'
    BY <1>3 DEF Commit, Done, CrmInv, ContactSeen, TypeInv, TypeOK, Holding
  <1>6. QED
    BY <1>3, <1>4, <1>5

LEMMA NextCrm ==
    CrmInv /\ [Next]_vars => /\ row.contact # None => row'.contact # None
                             /\ (CrmStatusIsHonest /\ ContactSeen)'
  <1> SUFFICES ASSUME CrmInv, [Next]_vars
               PROVE  /\ row.contact # None => row'.contact # None
                      /\ (CrmStatusIsHonest /\ ContactSeen)'
    OBVIOUS
  <1> USE LeadRowAssumption DEF CrmInv, TypeInv
  <1>1. ASSUME UNCHANGED row, crmHolds = "contact" => crmHolds' = "contact",
               \A t \in Tasks : pc'[t] \in Holding =>
                   loaded'[t] = row \/ (pc[t] \in Holding /\ loaded'[t] = loaded[t])
        PROVE  /\ row.contact # None => row'.contact # None
               /\ (CrmStatusIsHonest /\ ContactSeen)'
    BY <1>1 DEF CrmStatusIsHonest, ContactSeen
  <1>2. ASSUME NEW t \in Tasks, Load(t)
        PROVE  /\ row.contact # None => row'.contact # None
               /\ (CrmStatusIsHonest /\ ContactSeen)'
    BY <1>1, <1>2 DEF Load, TypeOK
  <1>3. ASSUME NEW t \in Tasks, Rollback(t)
        PROVE  /\ row.contact # None => row'.contact # None
               /\ (CrmStatusIsHonest /\ ContactSeen)'
    BY <1>1, <1>3 DEF Rollback, Done, TypeOK, Holding
  <1>4. ASSUME NEW d \in Desks, NEW to \in Lifecycle!LeadStatuses, Transition(d, to)
        PROVE  /\ row.contact # None => row'.contact # None
               /\ (CrmStatusIsHonest /\ ContactSeen)'
    <2> DEFINE after == [loaded[d] EXCEPT !.status = to]
    <2>1. d \in Tasks /\ pc[d] \in Holding /\ loaded[d] \in Rows
      BY <1>4 DEF Transition, Tasks, InHand, Holding
    <2>2. /\ after \in Rows
          /\ after.contact = loaded[d].contact
          /\ after.crm = loaded[d].crm
      BY <2>1 DEF Rows
    <2>3. QED
      BY <1>4, <2>1, <2>2, CommitContact DEF Transition, ContactSeen
  <1>5. ASSUME NEW d \in Desks, NEW to \in Lifecycle!LeadStatuses, Refuse(d, to)
        PROVE  /\ row.contact # None => row'.contact # None
               /\ (CrmStatusIsHonest /\ ContactSeen)'
    BY <1>1, <1>5 DEF Refuse, Done, Tasks, TypeOK, Holding
  <1>6. ASSUME NEW r \in Rescorers, NEW version \in RuleVersions, Rescore(r, version)
        PROVE  /\ row.contact # None => row'.contact # None
               /\ (CrmStatusIsHonest /\ ContactSeen)'
    <2> DEFINE after == [loaded[r] EXCEPT !.score = version]
    <2>1. r \in Tasks /\ pc[r] \in Holding /\ loaded[r] \in Rows
      BY <1>6 DEF Rescore, Tasks, InHand, Holding
    <2>2. /\ after \in Rows
          /\ after.contact = loaded[r].contact
          /\ after.crm = loaded[r].crm
      BY <2>1 DEF Rows
    <2>3. QED
      BY <1>6, <2>1, <2>2, CommitContact DEF Rescore, ContactSeen
  <1>7. ASSUME NEW s \in Syncs, SyncSkip(s)
        PROVE  /\ row.contact # None => row'.contact # None
               /\ (CrmStatusIsHonest /\ ContactSeen)'
    <2> DEFINE after == [loaded[s] EXCEPT !.crm = "skipped"]
    <2>1. s \in Tasks /\ pc[s] \in Holding /\ loaded[s] \in Rows
      BY <1>7 DEF SyncSkip, Tasks, InHand, Holding
    <2>2. after \in Rows /\ after.contact = loaded[s].contact /\ after.crm = "skipped"
      BY <2>1 DEF Rows, CrmStatuses
    <2>3. QED
      BY <1>7, <2>1, <2>2, CommitContact DEF SyncSkip, ContactSeen
  <1>8. ASSUME NEW s \in Syncs, SyncNothingToDo(s)
        PROVE  /\ row.contact # None => row'.contact # None
               /\ (CrmStatusIsHonest /\ ContactSeen)'
    BY <1>1, <1>8 DEF SyncNothingToDo, Done, Tasks, TypeOK, Holding
  <1>9. ASSUME NEW s \in Syncs, SyncCall(s)
        PROVE  /\ row.contact # None => row'.contact # None
               /\ (CrmStatusIsHonest /\ ContactSeen)'
    BY <1>1, <1>9 DEF SyncCall, Tasks, TypeOK, Holding
  <1>10. ASSUME NEW s \in Syncs, NEW a \in Answers, UpsertReturns(s, a)
         PROVE  /\ row.contact # None => row'.contact # None
                /\ (CrmStatusIsHonest /\ ContactSeen)'
    BY <1>1, <1>10 DEF UpsertReturns, Tasks, TypeOK, Holding
  <1>11. ASSUME NEW s \in Syncs, RecordLoad(s)
         PROVE  /\ row.contact # None => row'.contact # None
                /\ (CrmStatusIsHonest /\ ContactSeen)'
    BY <1>1, <1>11 DEF RecordLoad, Tasks, TypeOK
  <1>12. ASSUME NEW s \in Syncs, NEW id \in ContactIds, RecordSuccess(s, id)
         PROVE  /\ row.contact # None => row'.contact # None
                /\ (CrmStatusIsHonest /\ ContactSeen)'
    <2> DEFINE after == [loaded[s] EXCEPT !.crm = "synced", !.contact = id]
    <2>1. s \in Tasks /\ pc[s] \in Holding /\ loaded[s] \in Rows
      BY <1>12 DEF RecordSuccess, Tasks, InHand, Holding
    <2>2. after \in Rows /\ after.contact = id /\ id # None
      BY <2>1 DEF Rows, CrmStatuses
    <2>3. crmHolds = "contact"
      BY <1>12, <2>1 DEF RecordSuccess, InHand
    <2>4. QED
      BY <1>12, <2>1, <2>2, <2>3, CommitContact DEF RecordSuccess
  <1>13. ASSUME NEW s \in Syncs, RecordFailure(s)
         PROVE  /\ row.contact # None => row'.contact # None
                /\ (CrmStatusIsHonest /\ ContactSeen)'
    <2> DEFINE after == [loaded[s] EXCEPT !.crm = "failed", !.attempts = Counted(@)]
    <2>1. s \in Tasks /\ pc[s] \in Holding /\ loaded[s] \in Rows
      BY <1>13 DEF RecordFailure, Tasks, InHand, Holding
    <2>2. Counted(loaded[s].attempts) \in 0..AttemptsCap
      BY <2>1 DEF Rows, Counted
    <2>3. after \in Rows /\ after.contact = loaded[s].contact /\ after.crm = "failed"
      BY <2>1, <2>2 DEF Rows, CrmStatuses
    <2>4. QED
      BY <1>13, <2>1, <2>3, CommitContact DEF RecordFailure, ContactSeen
  <1>14. CASE UNCHANGED vars
    BY <1>1, <1>14 DEF vars
  <1>15. QED
    BY <1>2, <1>3, <1>4, <1>5, <1>6, <1>7, <1>8, <1>9, <1>10, <1>11, <1>12, <1>13, <1>14
       DEF Next

LEMMA CrmInvariant == Spec => []CrmInv
  <1>1. Init => CrmInv
    BY InitTypes DEF Init, CrmInv, CrmStatusIsHonest, ContactSeen, Holding
  <1>2. CrmInv /\ [Next]_vars => CrmInv'
    BY NextTypes, NextCrm DEF CrmInv
  <1>3. QED
    BY <1>1, <1>2, PTL DEF Spec

(***************************************************************************)
(* However many synchronisations overlap, fail, time out or are cut short, *)
(* a lead marked synced has a contact id and a contact id stands for a     *)
(* contact in the CRM.                                                     *)
(***************************************************************************)
THEOREM CrmStatusNeverLies == Spec => []CrmStatusIsHonest
  <1>1. CrmInv => CrmStatusIsHonest
    BY DEF CrmInv
  <1>2. QED
    BY <1>1, CrmInvariant, PTL

(***************************************************************************)
(* No unit of work ever commits the contact id away.                       *)
(***************************************************************************)
THEOREM ContactIsKept == Spec => ContactKept
  <1>1. CrmInv /\ [Next]_vars => [row.contact # None => row'.contact # None]_vars
    BY NextCrm
  <1>2. QED
    BY <1>1, CrmInvariant, PTL DEF Spec, ContactKept

-----------------------------------------------------------------------------
(***************************************************************************)
(* The lifecycle, when requests that move the lead come one at a time.     *)
(* Rescores and synchronisations may overlap with them as they please: a   *)
(* commit leaves the status alone unless its unit of work changed it.      *)
(***************************************************************************)
OneDesk == \A d, e \in Desks : d = e

DeskSees == \A d \in Desks : pc[d] = "loaded" => loaded[d].status = row.status

(***************************************************************************)
(* What a step may do to the status and to the history it leaves.          *)
(***************************************************************************)
Stays == row'.status = row.status /\ history' = history /\ published' = published

Moves ==
    \E to \in Lifecycle!LeadStatuses :
        /\ MayMove(row.status, to)
        /\ row'.status = to
        /\ history' = Append(history, <<row.status, to>>)
        /\ published' = published \cup Published(row.status, to)

LEMMA CommitStays ==
    ASSUME NEW t \in Tasks, NEW after, Commit(t, after),
           after.status = loaded[t].status, UNCHANGED <<history, published>>
    PROVE  Stays
  BY DEF Commit, Written, Stays

(***************************************************************************)
(* Every step but a transition leaves the status and the timeline alone,   *)
(* and what a unit of work holds after it was read now or held before.     *)
(***************************************************************************)
Quiet ==
    /\ Stays
    /\ \A t \in Tasks : pc'[t] \in Holding =>
           loaded'[t] = row \/ (pc'[t] = pc[t] /\ loaded'[t] = loaded[t])

LEMMA CommitQuiet ==
    ASSUME TypeInv, NEW t \in Tasks, NEW after, Commit(t, after),
           after.status = loaded[t].status, UNCHANGED <<history, published>>
    PROVE  Quiet
  <1>1. Stays
    BY CommitStays
  <1>2. ASSUME NEW u \in Tasks, pc'[u] \in Holding
        PROVE  pc'[u] = pc[u] /\ loaded'[u] = loaded[u]
    BY <1>2 DEF Commit, Done, TypeInv, TypeOK, Holding
  <1>3. QED
    BY <1>1, <1>2 DEF Quiet

LEMMA OnlyTransitionsMove ==
    TypeInv /\ [Next]_vars =>
        Quiet \/ \E d \in Desks, to \in Lifecycle!LeadStatuses : Transition(d, to)
  <1> SUFFICES ASSUME TypeInv, [Next]_vars
               PROVE  Quiet \/ \E d \in Desks, to \in Lifecycle!LeadStatuses : Transition(d, to)
    OBVIOUS
  <1> USE DEF TypeInv
  <1>1. ASSUME NEW t \in Tasks, Load(t) \/ Rollback(t)
        PROVE  Quiet
    BY <1>1 DEF Load, Rollback, Done, Quiet, Stays, Holding, TypeOK
  <1>2. ASSUME NEW d \in Desks, NEW to \in Lifecycle!LeadStatuses, Refuse(d, to)
        PROVE  Quiet
    BY <1>2 DEF Refuse, Done, Quiet, Stays, Holding, Tasks, TypeOK
  <1>3. ASSUME NEW s \in Syncs, SyncNothingToDo(s) \/ SyncCall(s) \/ RecordLoad(s)
        PROVE  Quiet
    BY <1>3 DEF SyncNothingToDo, SyncCall, RecordLoad, Done, Quiet, Stays, Holding, Tasks,
                TypeOK
  <1>4. ASSUME NEW s \in Syncs, NEW a \in Answers, UpsertReturns(s, a)
        PROVE  Quiet
    BY <1>4 DEF UpsertReturns, Quiet, Stays, Holding, Tasks, TypeOK
  <1>5. ASSUME NEW r \in Rescorers, NEW version \in RuleVersions, Rescore(r, version)
        PROVE  Quiet
    <2>1. r \in Tasks /\ loaded[r] \in Rows
      BY <1>5 DEF Rescore, Tasks, InHand, Holding
    <2>2. [loaded[r] EXCEPT !.score = version].status = loaded[r].status
      BY <2>1 DEF Rows
    <2>3. QED
      BY <1>5, <2>1, <2>2, CommitQuiet DEF Rescore
  <1>6. ASSUME NEW s \in Syncs, SyncSkip(s)
        PROVE  Quiet
    <2>1. s \in Tasks /\ loaded[s] \in Rows
      BY <1>6 DEF SyncSkip, Tasks, InHand, Holding
    <2>2. [loaded[s] EXCEPT !.crm = "skipped"].status = loaded[s].status
      BY <2>1 DEF Rows
    <2>3. QED
      BY <1>6, <2>1, <2>2, CommitQuiet DEF SyncSkip
  <1>7. ASSUME NEW s \in Syncs, NEW id \in ContactIds, RecordSuccess(s, id)
        PROVE  Quiet
    <2>1. s \in Tasks /\ loaded[s] \in Rows
      BY <1>7 DEF RecordSuccess, Tasks, InHand, Holding
    <2>2. [loaded[s] EXCEPT !.crm = "synced", !.contact = id].status = loaded[s].status
      BY <2>1 DEF Rows
    <2>3. QED
      BY <1>7, <2>1, <2>2, CommitQuiet DEF RecordSuccess
  <1>8. ASSUME NEW s \in Syncs, RecordFailure(s)
        PROVE  Quiet
    <2>1. s \in Tasks /\ loaded[s] \in Rows
      BY <1>8 DEF RecordFailure, Tasks, InHand, Holding
    <2>2. [loaded[s] EXCEPT !.crm = "failed", !.attempts = Counted(@)].status
            = loaded[s].status
      BY <2>1 DEF Rows
    <2>3. QED
      BY <1>8, <2>1, <2>2, CommitQuiet DEF RecordFailure
  <1>9. CASE UNCHANGED vars
    BY <1>9 DEF vars, Quiet, Stays
  <1>10. QED
    BY <1>1, <1>2, <1>3, <1>4, <1>5, <1>6, <1>7, <1>8, <1>9 DEF Next

LEMMA NextStatus ==
    OneDesk /\ TypeInv /\ DeskSees /\ [Next]_vars => (Stays \/ Moves) /\ DeskSees'
  <1> SUFFICES ASSUME OneDesk, TypeInv, DeskSees, [Next]_vars
               PROVE  (Stays \/ Moves) /\ DeskSees'
    OBVIOUS
  <1>1. ASSUME Quiet
        PROVE  Stays /\ DeskSees'
    <2>1. ASSUME NEW d \in Desks, pc'[d] = "loaded"
          PROVE  loaded'[d].status = row.status
      <3>1. d \in Tasks /\ pc'[d] \in Holding
        BY <2>1 DEF Tasks, Holding
      <3>2. loaded'[d] = row \/ (pc[d] = "loaded" /\ loaded'[d] = loaded[d])
        BY <1>1, <2>1, <3>1 DEF Quiet
      <3>3. QED
        BY <3>2 DEF DeskSees
    <2>2. QED
      BY <1>1, <2>1 DEF Quiet, Stays, DeskSees
  <1>2. ASSUME NEW d \in Desks, NEW to \in Lifecycle!LeadStatuses, Transition(d, to)
        PROVE  Moves /\ DeskSees'
    <2>1. d \in Tasks /\ loaded[d] \in Rows /\ loaded[d].status = row.status
      BY <1>2 DEF Transition, Tasks, TypeInv, InHand, Holding, DeskSees
    <2>2. [loaded[d] EXCEPT !.status = to].status = to
      BY <2>1 DEF Rows
    <2>3. row'.status = to
      BY <1>2, <2>1, <2>2 DEF Transition, Commit, Written
    <2>4. Moves
      BY <1>2, <2>1, <2>3 DEF Transition, Moves
    <2>5. \A e \in Desks : pc'[e] = "idle"
      BY <1>2, <2>1 DEF OneDesk, Transition, Commit, Done, TypeInv, TypeOK
    <2>6. QED
      BY <2>4, <2>5 DEF DeskSees
  <1>3. QED
    BY <1>1, <1>2, OnlyTransitionsMove

LEMMA DeskInvariant ==
    ASSUME OneDesk
    PROVE  Spec => [](TypeInv /\ DeskSees)
  <1>1. Init => TypeInv /\ DeskSees
    BY InitTypes DEF Init, DeskSees, Tasks
  <1>2. TypeInv /\ DeskSees /\ [Next]_vars => (TypeInv /\ DeskSees)'
    BY NextTypes, NextStatus, OneDesk
  <1>3. QED
    BY <1>1, <1>2, PTL DEF Spec

(***************************************************************************)
(* With one status request at a time, the status column implements the     *)
(* lifecycle whatever else commits.                                        *)
(***************************************************************************)
THEOREM StatusFollowsLifecycle ==
    ASSUME OneDesk
    PROVE  Spec => FollowsLifecycle
  <1>1. Init => Lifecycle!Init
    BY DEF Init, Lifecycle!Init
  <1>2. Stays \/ Moves => [Lifecycle!Next]_(row.status)
    BY DEF Stays, Moves, MayMove, Lifecycle!Next
  <1>3. TypeInv /\ DeskSees /\ [Next]_vars => [Lifecycle!Next]_(row.status)
    BY <1>2, NextStatus, OneDesk
  <1>4. QED
    BY <1>1, <1>3, DeskInvariant, PTL DEF Spec, FollowsLifecycle, Lifecycle!Spec

LEMMA MovesPath ==
    ASSUME TypeInv, HistoryIsAPath, Moves
    PROVE  HistoryIsAPath'
  <1>1. PICK to \in Lifecycle!LeadStatuses :
               /\ row'.status = to
               /\ history' = Append(history, <<row.status, to>>)
               /\ published' = published \cup Published(row.status, to)
    BY DEF Moves
  <1> DEFINE n == Len(history)
  <1>2. /\ n \in Nat /\ Len(history') = n + 1
        /\ \A i \in 1..n : history'[i] = history[i]
        /\ history'[n + 1] = <<row.status, to>>
    BY <1>1 DEF TypeInv, TypeOK
  <1>3. history'[1][1] = "new" /\ history'[n + 1][2] = row'.status
    BY <1>1, <1>2 DEF HistoryIsAPath
  <1>4. ASSUME NEW i \in 1..n
        PROVE  history'[i][2] = history'[i + 1][1]
    <2>1. CASE i = n
      BY <1>2, <2>1 DEF HistoryIsAPath
    <2>2. CASE i # n
      <3>1. i \in 1..n - 1 /\ i + 1 \in 1..n
        BY <1>2, <2>2
      <3>2. QED
        BY <1>2, <3>1 DEF HistoryIsAPath
    <2>3. QED
      BY <2>1, <2>2
  <1>5. published' = {m \in {history'[i] : i \in 1..n + 1} : m[1] # m[2]}
    <2>1. {history'[i] : i \in 1..n + 1} = {history[i] : i \in 1..n} \cup {<<row.status, to>>}
      <3>1. 1..n + 1 = (1..n) \cup {n + 1}
        BY <1>2
      <3>2. {history'[i] : i \in 1..n} = {history[i] : i \in 1..n}
        BY <1>2
      <3>3. QED
        BY <1>2, <3>1, <3>2
    <2>2. published = {m \in {history[i] : i \in 1..n} : m[1] # m[2]}
      BY DEF HistoryIsAPath
    <2>3. {m \in {<<row.status, to>>} : m[1] # m[2]} = Published(row.status, to)
      BY DEF Published
    <2>4. QED
      BY <1>1, <2>1, <2>2, <2>3
  <1>6. QED
    BY <1>2, <1>3, <1>4, <1>5 DEF HistoryIsAPath

(***************************************************************************)
(* With one status request at a time, the timeline explains the status.    *)
(***************************************************************************)
THEOREM TimelineExplainsStatus ==
    ASSUME OneDesk
    PROVE  Spec => []HistoryIsAPath
  <1>1. Init => HistoryIsAPath
    BY DEF Init, HistoryIsAPath
  <1>2. HistoryIsAPath /\ Stays => HistoryIsAPath'
    BY DEF HistoryIsAPath, Stays
  <1>3. TypeInv /\ DeskSees /\ HistoryIsAPath /\ [Next]_vars => HistoryIsAPath'
    BY <1>2, MovesPath, NextStatus, OneDesk
  <1>4. QED
    BY <1>1, <1>3, DeskInvariant, PTL DEF Spec

(***************************************************************************)
(* With one status request at a time, nothing leaves a terminal status:    *)
(* the documented claim that two overlapping requests break.               *)
(***************************************************************************)
THEOREM TerminalIsFinal ==
    ASSUME OneDesk
    PROVE  Spec => TerminalStays
  <1>1. Stays \/ Moves =>
            (row.status \in Lifecycle!TerminalStatuses => row'.status = row.status)
    BY DEF Stays, Moves, MayMove, Lifecycle!CanTransition, Lifecycle!AllowedTransitions,
           Lifecycle!LeadStatuses, Lifecycle!TerminalStatuses
  <1>2. TypeInv /\ DeskSees /\ [Next]_vars =>
            [row.status \in Lifecycle!TerminalStatuses => row'.status = row.status]_vars
    BY <1>1, NextStatus, OneDesk
  <1>3. QED
    BY <1>2, DeskInvariant, PTL DEF Spec, TerminalStays

-----------------------------------------------------------------------------
(***************************************************************************)
(* Synchronisations that come one at a time, of a lead that is never to be *)
(* skipped: from the moment a sync reads that there is no contact id until *)
(* it records its answer, there is none.                                    *)
(***************************************************************************)
OneAtATime == \A s, t \in Syncs : s = t

OneSync == OneAtATime /\ TRUE \notin SkipAnswers

SyncSees ==
    \A s \in Syncs :
        /\ pc[s] = "loaded" /\ loaded[s].contact = None => row.contact = None
        /\ pc[s] \in {"calling", "answered", "recording"} => row.contact = None

CrmStays == row'.contact = row.contact /\ row'.crm = row.crm

LEMMA CommitKeepsCrm ==
    ASSUME NEW t \in Tasks, NEW after, Commit(t, after),
           after.crm = loaded[t].crm, after.contact = loaded[t].contact
    PROVE  CrmStays
  BY DEF Commit, Written, CrmStays

LEMMA DeskKeepsSees ==
    ASSUME TypeInv, SyncSees, NEW t \in Desks \cup Rescorers, NEW after, Commit(t, after),
           after.crm = loaded[t].crm, after.contact = loaded[t].contact
    PROVE  CrmStays /\ SyncSees'
  <1>1. CrmStays
    BY CommitKeepsCrm DEF Tasks
  <1>2. \A s \in Syncs : s # t /\ s \in Tasks
    BY LeadRowAssumption DEF Tasks
  <1>3. \A s \in Syncs : pc'[s] = pc[s] /\ loaded'[s] = loaded[s]
    BY <1>2 DEF Commit, Done, TypeInv, TypeOK
  <1>4. QED
    BY <1>1, <1>3 DEF SyncSees, CrmStays

(***************************************************************************)
(* What a step may do to the CRM columns: nothing, once there is a contact *)
(* id.                                                                     *)
(***************************************************************************)
CrmSettled == row.contact # None => row'.crm = row.crm

LEMMA NextSync ==
    OneSync /\ TypeInv /\ SyncSees /\ [Next]_vars => CrmSettled /\ SyncSees'
  <1> SUFFICES ASSUME OneSync, TypeInv, SyncSees, [Next]_vars
               PROVE  CrmSettled /\ SyncSees'
    OBVIOUS
  <1> USE LeadRowAssumption DEF TypeInv
  <1>1. ASSUME NEW t \in Tasks, Load(t)
        PROVE  CrmSettled /\ SyncSees'
    BY <1>1 DEF Load, CrmSettled, SyncSees, Tasks, TypeOK
  <1>2. ASSUME NEW t \in Tasks, Rollback(t)
        PROVE  CrmSettled /\ SyncSees'
    BY <1>2 DEF Rollback, Done, CrmSettled, SyncSees, Tasks, TypeOK
  <1>3. ASSUME NEW d \in Desks, NEW to \in Lifecycle!LeadStatuses, Transition(d, to)
        PROVE  CrmSettled /\ SyncSees'
    <2> DEFINE after == [loaded[d] EXCEPT !.status = to]
    <2>1. d \in Tasks /\ loaded[d] \in Rows
      BY <1>3 DEF Transition, Tasks, InHand, Holding
    <2>2. after.contact = loaded[d].contact /\ after.crm = loaded[d].crm
      BY <2>1 DEF Rows
    <2>3. QED
      BY <1>3, <2>2, DeskKeepsSees DEF Transition, CrmStays, CrmSettled
  <1>4. ASSUME NEW d \in Desks, NEW to \in Lifecycle!LeadStatuses, Refuse(d, to)
        PROVE  CrmSettled /\ SyncSees'
    BY <1>4 DEF Refuse, Done, CrmSettled, SyncSees, Tasks, TypeOK
  <1>5. ASSUME NEW r \in Rescorers, NEW version \in RuleVersions, Rescore(r, version)
        PROVE  CrmSettled /\ SyncSees'
    <2> DEFINE after == [loaded[r] EXCEPT !.score = version]
    <2>1. r \in Tasks /\ loaded[r] \in Rows
      BY <1>5 DEF Rescore, Tasks, InHand, Holding
    <2>2. after.contact = loaded[r].contact /\ after.crm = loaded[r].crm
      BY <2>1 DEF Rows
    <2>3. QED
      BY <1>5, <2>2, DeskKeepsSees DEF Rescore, CrmStays, CrmSettled
  <1>6. ASSUME NEW s \in Syncs, SyncSkip(s)
        PROVE  CrmSettled /\ SyncSees'
    BY <1>6 DEF SyncSkip, OneSync
  <1>7. ASSUME NEW s \in Syncs, SyncNothingToDo(s)
        PROVE  CrmSettled /\ SyncSees'
    BY <1>7 DEF SyncNothingToDo, Done, CrmSettled, SyncSees, Tasks, TypeOK
  <1>8. ASSUME NEW s \in Syncs, SyncCall(s)
        PROVE  CrmSettled /\ SyncSees'
    <2>1. /\ row' = row /\ row.contact = None
          /\ pc' = [pc EXCEPT ![s] = "calling"] /\ s \in Tasks
      BY <1>8 DEF SyncCall, SyncSees, Tasks
    <2>2. \A t \in Syncs : t = s
      BY DEF OneSync, OneAtATime
    <2>3. pc'[s] = "calling"
      BY <2>1 DEF TypeOK
    <2>4. QED
      BY <2>1, <2>2, <2>3 DEF CrmSettled, SyncSees
  <1>9. ASSUME NEW s \in Syncs, NEW a \in Answers, UpsertReturns(s, a)
        PROVE  CrmSettled /\ SyncSees'
    BY <1>9 DEF UpsertReturns, CrmSettled, SyncSees, Tasks, TypeOK
  <1>10. ASSUME NEW s \in Syncs, RecordLoad(s)
         PROVE  CrmSettled /\ SyncSees'
    BY <1>10 DEF RecordLoad, CrmSettled, SyncSees, Tasks, TypeOK
  <1>11. ASSUME NEW s \in Syncs, NEW after, pc[s] = "recording", Commit(s, after)
         PROVE  CrmSettled /\ SyncSees'
    <2>1. row.contact = None
      BY <1>11 DEF SyncSees
    <2>2. \A t \in Syncs : pc'[t] = "idle"
      BY <1>11 DEF OneSync, OneAtATime, Commit, Done, Tasks, TypeOK
    <2>3. QED
      BY <2>1, <2>2 DEF CrmSettled, SyncSees
  <1>12. ASSUME NEW s \in Syncs, RecordFailure(s) \/ \E id \in ContactIds : RecordSuccess(s, id)
         PROVE  CrmSettled /\ SyncSees'
    BY <1>11, <1>12 DEF RecordSuccess, RecordFailure
  <1>13. CASE UNCHANGED vars
    BY <1>13 DEF vars, CrmSettled, SyncSees
  <1>14. QED
    BY <1>1, <1>2, <1>3, <1>4, <1>5, <1>6, <1>7, <1>8, <1>9, <1>10, <1>12, <1>13 DEF Next

(***************************************************************************)
(* With one synchronisation at a time and a credential that stays, there   *)
(* is nothing to do once a lead has a contact id: the documented claim     *)
(* that a removed credential breaks, and two overlapping syncs would.      *)
(***************************************************************************)
THEOREM SyncedOnceIsEnough ==
    ASSUME OneSync
    PROVE  Spec => NothingToDoOnceSynced
  <1>1. Init => TypeInv /\ SyncSees
    BY InitTypes DEF Init, SyncSees, Tasks
  <1>2. TypeInv /\ SyncSees /\ [Next]_vars => (TypeInv /\ SyncSees)'
    BY NextTypes, NextSync, OneSync
  <1>3. TypeInv /\ SyncSees /\ [Next]_vars =>
            [row.contact # None => row'.crm = row.crm]_vars
    BY NextSync, OneSync DEF CrmSettled
  <1>4. QED
    BY <1>1, <1>2, <1>3, PTL DEF Spec, NothingToDoOnceSynced

-----------------------------------------------------------------------------
(***************************************************************************)
(* The timeline, however many requests overlap.  The status is not always  *)
(* where the last entry ended (an entry that keeps the status writes       *)
(* nothing), but it is where the last one that changed it did.             *)
(***************************************************************************)
Changes(m) == m[1] # m[2]

Reached(s, h, n) == s = "new" \/ \E j \in 1..n : Changes(h[j]) /\ h[j][2] = s

LastChange(s, h) ==
    \/ s = "new" /\ \A i \in 1..Len(h) : ~Changes(h[i])
    \/ \E i \in 1..Len(h) : /\ Changes(h[i]) /\ h[i][2] = s
                           /\ \A j \in i + 1 .. Len(h) : ~Changes(h[j])

(***************************************************************************)
(* Every entry is a move that the table allows from a status the lead had  *)
(* before; the events are the entries that changed it; and the status is   *)
(* the one the last of them led to.                                        *)
(***************************************************************************)
TimelineIsHonest ==
    /\ \A i \in 1..Len(history) :
        /\ MayMove(history[i][1], history[i][2])
        /\ Reached(history[i][1], history, i - 1)
    /\ published = {m \in {history[i] : i \in 1..Len(history)} : Changes(m)}
    /\ LastChange(row.status, history)

ReadsWereSo ==
    \A t \in Tasks : pc[t] \in Holding => Reached(loaded[t].status, history, Len(history))

HonestInv == TypeInv /\ TimelineIsHonest /\ ReadsWereSo

LEMMA LastIsReached ==
    ASSUME HonestInv
    PROVE  Reached(row.status, history, Len(history))
  BY DEF HonestInv, TimelineIsHonest, LastChange, Reached

(***************************************************************************)
(* A unit of work that leaves the timeline and the status alone.           *)
(***************************************************************************)
LEMMA StaysHonest ==
    ASSUME HonestInv, Quiet
    PROVE  (TimelineIsHonest /\ ReadsWereSo)'
  <1>1. TimelineIsHonest'
    BY DEF HonestInv, Quiet, Stays, TimelineIsHonest, LastChange, Reached, Changes
  <1>2. ASSUME NEW t \in Tasks, pc'[t] \in Holding
        PROVE  Reached(loaded'[t].status, history, Len(history))
    BY <1>2, LastIsReached DEF HonestInv, Quiet, ReadsWereSo
  <1>3. ReadsWereSo'
    BY <1>2 DEF Quiet, Stays, ReadsWereSo, Reached, Changes
  <1>4. QED
    BY <1>1, <1>3

(***************************************************************************)
(* One entry more.                                                         *)
(***************************************************************************)
LEMMA EntryIsHonest ==
    ASSUME HonestInv, NEW d \in Desks, NEW to \in Lifecycle!LeadStatuses, Transition(d, to)
    PROVE  (TimelineIsHonest /\ ReadsWereSo)'
  <1> DEFINE n    == Len(history)
             from == loaded[d].status
  <1>1. d \in Tasks /\ loaded[d] \in Rows /\ pc[d] \in Holding
    BY DEF HonestInv, Transition, Tasks, TypeInv, InHand, Holding
  <1>2. /\ n \in Nat /\ Len(history') = n + 1
        /\ \A i \in 1..n : history'[i] = history[i]
        /\ history'[n + 1] = <<from, to>>
        /\ MayMove(from, to)
        /\ published' = published \cup Published(from, to)
    BY DEF Transition, HonestInv, TypeInv, TypeOK
  <1>3. row'.status = IF to = from THEN row.status ELSE to
    BY <1>1 DEF Transition, Commit, Written, Rows
  <1>4. Reached(from, history, n)
    BY <1>1 DEF HonestInv, ReadsWereSo
  <1> HIDE DEF n, from
  <1>5. ASSUME NEW s, NEW k \in 0..n, Reached(s, history, k)
        PROVE  Reached(s, history', k) /\ Reached(s, history', n + 1)
    BY <1>2, <1>5 DEF Reached
  <1>6. ASSUME NEW i \in 1..n + 1
        PROVE  /\ MayMove(history'[i][1], history'[i][2])
               /\ Reached(history'[i][1], history', i - 1)
    <2>1. CASE i \in 1..n
      <3>1. MayMove(history[i][1], history[i][2]) /\ Reached(history[i][1], history, i - 1)
        BY <2>1 DEF n, HonestInv, TimelineIsHonest
      <3>2. i - 1 \in 0..n /\ history'[i] = history[i]
        BY <1>2, <2>1
      <3>3. QED
        BY <1>5, <3>1, <3>2
    <2>2. CASE i = n + 1
      <3>1. i - 1 = n /\ n \in 0..n
        BY <1>2, <2>2
      <3>2. QED
        BY <1>2, <1>4, <1>5, <2>2, <3>1
    <2>3. QED
      BY <1>2, <2>1, <2>2
  <1>7. published' = {m \in {history'[i] : i \in 1..n + 1} : Changes(m)}
    <2>1. {history'[i] : i \in 1..n + 1} = {history[i] : i \in 1..n} \cup {<<from, to>>}
      <3>1. 1..n + 1 = (1..n) \cup {n + 1}
        BY <1>2
      <3>2. {history'[i] : i \in 1..n} = {history[i] : i \in 1..n}
        BY <1>2
      <3>3. QED
        BY <1>2, <3>1, <3>2
    <2>2. published = {m \in {history[i] : i \in 1..n} : Changes(m)}
      BY DEF n, HonestInv, TimelineIsHonest
    <2>3. {m \in {<<from, to>>} : Changes(m)} = Published(from, to)
      BY DEF Published, Changes
    <2>4. QED
      BY <1>2, <2>1, <2>2, <2>3
  <1>8. LastChange(row'.status, history')
    <2>1. LastChange(row.status, history)
      BY DEF HonestInv, TimelineIsHonest
    <2>2. CASE to = from
      <3>1. ~Changes(history'[n + 1])
        BY <1>2, <2>2 DEF Changes
      <3>2. CASE row.status = "new" /\ \A i \in 1..n : ~Changes(history[i])
        <4>1. \A i \in 1..n + 1 : ~Changes(history'[i])
          BY <1>2, <3>1, <3>2
        <4>2. QED
          BY <1>2, <1>3, <2>2, <3>2, <4>1 DEF LastChange
      <3>3. ASSUME NEW i \in 1..n, Changes(history[i]), history[i][2] = row.status,
                   \A j \in i + 1 .. n : ~Changes(history[j])
            PROVE  LastChange(row'.status, history')
        <4>1. i \in 1..n + 1 /\ history'[i] = history[i]
          BY <1>2
        <4>2. \A j \in i + 1 .. n + 1 : ~Changes(history'[j])
          BY <1>2, <3>1, <3>3
        <4>3. QED
          BY <1>2, <1>3, <2>2, <3>3, <4>1, <4>2 DEF LastChange
      <3>4. QED
        BY <2>1, <3>2, <3>3 DEF LastChange, n
    <2>3. CASE to # from
      <3>1. Changes(history'[n + 1]) /\ history'[n + 1][2] = to /\ row'.status = to
        BY <1>2, <1>3, <2>3 DEF Changes
      <3>2. n + 1 \in 1..n + 1 /\ (n + 1) + 1 .. n + 1 = {}
        BY <1>2
      <3>3. QED
        BY <1>2, <3>1, <3>2 DEF LastChange
    <2>4. QED
      BY <2>2, <2>3
  <1>9. TimelineIsHonest'
    BY <1>2, <1>6, <1>7, <1>8 DEF TimelineIsHonest
  <1>10. ASSUME NEW t \in Tasks, pc'[t] \in Holding
         PROVE  Reached(loaded'[t].status, history', Len(history'))
    <2>1. pc[t] \in Holding /\ loaded'[t] = loaded[t]
      BY <1>1, <1>10 DEF Transition, Commit, Done, HonestInv, TypeInv, TypeOK, Holding
    <2>2. Reached(loaded[t].status, history, n) /\ n \in 0..n
      BY <1>2, <2>1 DEF n, HonestInv, ReadsWereSo
    <2>3. QED
      BY <1>2, <1>5, <2>1, <2>2
  <1>11. QED
    BY <1>9, <1>10 DEF ReadsWereSo

(***************************************************************************)
(* However many requests, rescores and synchronisations overlap, the       *)
(* timeline and the outbox do not lie about a lead: each entry is a legal  *)
(* move from a status the lead really had, the events are the entries that *)
(* changed the status, and the last of those led to the status it has now. *)
(* What overlap costs is only that an entry need not start where the one   *)
(* before it ended.                                                        *)
(***************************************************************************)
THEOREM TimelineNeverLies == Spec => []TimelineIsHonest
  <1>1. Init => HonestInv
    <2> SUFFICES ASSUME Init
                 PROVE  HonestInv
      OBVIOUS
    <2>1. history = <<>> /\ Len(history) = 0 /\ published = {} /\ row.status = "new"
      BY DEF Init
    <2>2. TimelineIsHonest
      BY <2>1 DEF TimelineIsHonest, LastChange
    <2>3. ReadsWereSo
      BY DEF Init, ReadsWereSo, Holding
    <2>4. QED
      BY <2>2, <2>3, InitTypes DEF HonestInv
  <1>2. HonestInv /\ [Next]_vars => HonestInv'
    <2> SUFFICES ASSUME HonestInv, [Next]_vars
                 PROVE  HonestInv'
      OBVIOUS
    <2>1. TypeInv'
      BY NextTypes DEF HonestInv
    <2>2. CASE Quiet
      BY <2>1, <2>2, StaysHonest DEF HonestInv
    <2>3. CASE \E d \in Desks, to \in Lifecycle!LeadStatuses : Transition(d, to)
      BY <2>1, <2>3, EntryIsHonest DEF HonestInv
    <2>4. QED
      BY <2>2, <2>3, OnlyTransitionsMove DEF HonestInv
  <1>3. HonestInv => TimelineIsHonest
    BY DEF HonestInv
  <1>4. QED
    BY <1>1, <1>2, <1>3, PTL DEF Spec

(***************************************************************************)
(* A request that decides on a status the lead no longer has.              *)
(***************************************************************************)
DecidesOnStale == \E d \in Desks : pc[d] = "loaded" /\ loaded[d].status # row.status

(***************************************************************************)
(* The only way out of the lifecycle table is a request that read the      *)
(* status before another one changed it: with no such request in flight a  *)
(* step keeps the status or follows the table, whatever rescores and syncs *)
(* do.  Two requests at once are needed, and one stale read is enough.     *)
(***************************************************************************)
THEOREM OnlyStaleReadsBreakIt ==
    Spec => [][\/ row'.status = row.status
               \/ Lifecycle!CanTransition(row.status, row'.status)
               \/ DecidesOnStale]_vars
  <1>1. TypeInv /\ [Next]_vars => \/ row'.status = row.status
                                 \/ Lifecycle!CanTransition(row.status, row'.status)
                                 \/ DecidesOnStale
    <2> SUFFICES ASSUME TypeInv, NEW d \in Desks, NEW to \in Lifecycle!LeadStatuses,
                        Transition(d, to)
                 PROVE  \/ row'.status = row.status
                        \/ Lifecycle!CanTransition(row.status, row'.status)
                        \/ DecidesOnStale
      BY OnlyTransitionsMove DEF Quiet, Stays
    <2>1. d \in Tasks /\ loaded[d] \in Rows
      BY DEF TypeInv, Transition, Tasks, InHand, Holding
    <2>2. row'.status = IF to = loaded[d].status THEN row.status ELSE to
      BY <2>1 DEF Transition, Commit, Written, Rows
    <2>3. QED
      BY <2>2 DEF Transition, MayMove, DecidesOnStale
  <1>2. TypeInv /\ [Next]_vars => TypeInv'
    BY NextTypes
  <1>3. QED
    BY <1>1, <1>2, InitTypes, PTL DEF Spec

-----------------------------------------------------------------------------
(***************************************************************************)
(* Synchronisations that come one at a time hold the CRM columns as they   *)
(* are, whatever requests and rescores commit meanwhile.                   *)
(***************************************************************************)
SyncColumns(r) == <<r.crm, r.contact, r.attempts>>

SyncHolds ==
    \A s \in Syncs : pc[s] \in Holding => SyncColumns(loaded[s]) = SyncColumns(row)

(***************************************************************************)
(* What each outcome writes when it is written on the row as it is.        *)
(***************************************************************************)
WritesOutcome(s) ==
    /\ SyncSkip(s) => SyncColumns(row') = <<"skipped", row.contact, row.attempts>>
    /\ RecordFailure(s) =>
        SyncColumns(row') = <<"failed", row.contact, Counted(row.attempts)>>
    /\ \A id \in ContactIds :
        RecordSuccess(s, id) => SyncColumns(row') = <<"synced", id, row.attempts>>

LEMMA OutcomeIsWritten ==
    ASSUME TypeInv, SyncHolds, NEW s \in Syncs
    PROVE  WritesOutcome(s)
  <1>1. s \in Tasks /\ row \in Rows
    BY DEF TypeInv, TypeOK, Tasks
  <1>2. ASSUME pc[s] \in Holding
        PROVE  /\ loaded[s] \in Rows
               /\ loaded[s].crm = row.crm
               /\ loaded[s].contact = row.contact
               /\ loaded[s].attempts = row.attempts
    BY <1>1, <1>2 DEF TypeInv, InHand, SyncHolds, SyncColumns
  <1>3. ASSUME SyncSkip(s)
        PROVE  SyncColumns(row') = <<"skipped", row.contact, row.attempts>>
    BY <1>1, <1>2, <1>3 DEF SyncSkip, Commit, Written, Rows, Holding, SyncColumns
  <1>4. ASSUME RecordFailure(s)
        PROVE  SyncColumns(row') = <<"failed", row.contact, Counted(row.attempts)>>
    <2> DEFINE after == [loaded[s] EXCEPT !.crm = "failed", !.attempts = Counted(@)]
    <2>1. pc[s] \in Holding /\ row' = Written(loaded[s], after)
      BY <1>4 DEF RecordFailure, Commit, Holding
    <2>2. /\ after.crm = "failed" /\ after.contact = row.contact
          /\ after.attempts = Counted(row.attempts)
      BY <1>2, <2>1 DEF Rows
    <2> HIDE DEF after
    <2>3. QED
      BY <1>2, <2>1, <2>2 DEF Written, SyncColumns
  <1>5. ASSUME NEW id \in ContactIds, RecordSuccess(s, id)
        PROVE  SyncColumns(row') = <<"synced", id, row.attempts>>
    <2> DEFINE after == [loaded[s] EXCEPT !.crm = "synced", !.contact = id]
    <2>1. pc[s] \in Holding /\ row' = Written(loaded[s], after)
      BY <1>5 DEF RecordSuccess, Commit, Holding
    <2>2. /\ after.crm = "synced" /\ after.contact = id
          /\ after.attempts = row.attempts
      BY <1>2, <2>1 DEF Rows
    <2> HIDE DEF after
    <2>3. QED
      BY <1>2, <2>1, <2>2 DEF Written, SyncColumns
  <1>6. QED
    BY <1>3, <1>4, <1>5 DEF WritesOutcome

(***************************************************************************)
(* A commit of a request or a rescore, and every step that commits         *)
(* nothing, leaves the CRM columns alone.                                  *)
(***************************************************************************)
ColumnsStay == SyncColumns(row') = SyncColumns(row)

LEMMA OthersKeepColumns ==
    ASSUME TypeInv, SyncHolds, NEW t \in Desks \cup Rescorers, NEW after, Commit(t, after),
           SyncColumns(after) = SyncColumns(loaded[t])
    PROVE  ColumnsStay /\ SyncHolds'
  <1>1. ColumnsStay
    BY DEF Commit, Written, SyncColumns, ColumnsStay
  <1>2. \A s \in Syncs : s # t /\ s \in Tasks
    BY LeadRowAssumption DEF Tasks
  <1>3. \A s \in Syncs : pc'[s] = pc[s] /\ loaded'[s] = loaded[s]
    BY <1>2 DEF Commit, Done, TypeInv, TypeOK
  <1>4. QED
    BY <1>1, <1>3 DEF SyncHolds, ColumnsStay

(***************************************************************************)
(* The attempts: unchanged, or one more.                                   *)
(***************************************************************************)
CountsUp == row'.attempts \in {row.attempts, Counted(row.attempts)}

LEMMA NextHolds ==
    ASSUME OneAtATime, TypeInv, SyncHolds, [Next]_vars
    PROVE  CountsUp /\ SyncHolds'
  <1> USE LeadRowAssumption DEF TypeInv
  <1>1. ColumnsStay => CountsUp
    BY DEF ColumnsStay, SyncColumns, CountsUp
  <1>2. ASSUME NEW t \in Tasks, Load(t) \/ Rollback(t)
        PROVE  ColumnsStay /\ SyncHolds'
    BY <1>2 DEF Load, Rollback, Done, ColumnsStay, SyncHolds, Holding, Tasks, TypeOK
  <1>3. ASSUME NEW d \in Desks, NEW to \in Lifecycle!LeadStatuses, Transition(d, to)
        PROVE  ColumnsStay /\ SyncHolds'
    <2>1. loaded[d] \in Rows
      BY <1>3 DEF Transition, Tasks, InHand, Holding
    <2>2. SyncColumns([loaded[d] EXCEPT !.status = to]) = SyncColumns(loaded[d])
      BY <2>1 DEF Rows, SyncColumns
    <2>3. QED
      BY <1>3, <2>2, OthersKeepColumns DEF Transition
  <1>4. ASSUME NEW d \in Desks, NEW to \in Lifecycle!LeadStatuses, Refuse(d, to)
        PROVE  ColumnsStay /\ SyncHolds'
    BY <1>4 DEF Refuse, Done, ColumnsStay, SyncHolds, Holding, Tasks, TypeOK
  <1>5. ASSUME NEW r \in Rescorers, NEW version \in RuleVersions, Rescore(r, version)
        PROVE  ColumnsStay /\ SyncHolds'
    <2>1. loaded[r] \in Rows
      BY <1>5 DEF Rescore, Tasks, InHand, Holding
    <2>2. SyncColumns([loaded[r] EXCEPT !.score = version]) = SyncColumns(loaded[r])
      BY <2>1 DEF Rows, SyncColumns
    <2>3. QED
      BY <1>5, <2>2, OthersKeepColumns DEF Rescore
  <1>6. ASSUME NEW s \in Syncs, SyncNothingToDo(s) \/ SyncCall(s) \/ RecordLoad(s)
        PROVE  ColumnsStay /\ SyncHolds'
    BY <1>6 DEF SyncNothingToDo, SyncCall, RecordLoad, Done, ColumnsStay, SyncHolds, Holding,
                Tasks, TypeOK
  <1>7. ASSUME NEW s \in Syncs, NEW a \in Answers, UpsertReturns(s, a)
        PROVE  ColumnsStay /\ SyncHolds'
    BY <1>7 DEF UpsertReturns, ColumnsStay, SyncHolds, Holding, Tasks, TypeOK
  <1>8. ASSUME NEW s \in Syncs,
               SyncSkip(s) \/ RecordFailure(s) \/ \E id \in ContactIds : RecordSuccess(s, id)
        PROVE  CountsUp /\ SyncHolds'
    <2>1. row \in Rows /\ WritesOutcome(s)
      BY OutcomeIsWritten DEF TypeOK
    <2>2. CountsUp
      BY <1>8, <2>1 DEF WritesOutcome, SyncColumns, CountsUp
    <2>3. \E after : Commit(s, after)
      BY <1>8 DEF SyncSkip, RecordFailure, RecordSuccess
    <2>4. \A t \in Syncs : pc'[t] = "idle"
      BY <2>3 DEF OneAtATime, Commit, Done, Tasks, TypeOK
    <2>5. QED
      BY <2>2, <2>4 DEF SyncHolds, Holding
  <1>9. ASSUME UNCHANGED vars
        PROVE  ColumnsStay /\ SyncHolds'
    BY <1>9 DEF vars, ColumnsStay, SyncHolds, SyncColumns
  <1>10. (ColumnsStay \/ CountsUp) /\ SyncHolds'
    BY <1>2, <1>3, <1>4, <1>5, <1>6, <1>7, <1>8, <1>9 DEF Next
  <1>11. QED
    BY <1>1, <1>10

(***************************************************************************)
(* With one synchronisation at a time every outcome is written in full on  *)
(* the row as it then is, whatever requests and rescores overlap with it,  *)
(* and hubspot_sync_attempts only ever counts up, by one: two overlapping  *)
(* syncs can count two failures once, or take the count back.              *)
(***************************************************************************)
THEOREM OutcomesAreRecorded ==
    ASSUME OneAtATime
    PROVE  Spec => [][CountsUp /\ \A s \in Syncs : WritesOutcome(s)]_vars
  <1>1. Init => TypeInv /\ SyncHolds
    BY InitTypes DEF Init, SyncHolds, Holding, Tasks
  <1>2. TypeInv /\ SyncHolds /\ [Next]_vars => (TypeInv /\ SyncHolds)'
    BY NextTypes, NextHolds, OneAtATime
  <1>3. TypeInv /\ SyncHolds /\ [Next]_vars =>
            CountsUp /\ \A s \in Syncs : WritesOutcome(s)
    BY NextHolds, OutcomeIsWritten, OneAtATime
  <1>4. QED
    BY <1>1, <1>2, <1>3, PTL DEF Spec
=============================================================================
