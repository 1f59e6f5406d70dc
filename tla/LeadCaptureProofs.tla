------------------------- MODULE LeadCaptureProofs -------------------------
(***************************************************************************)
(* Proofs about LeadCapture: for any number of requests, forms and         *)
(* payloads, whatever races, faults and retries there are.  The capture    *)
(* needs no assumption: the unique index arbitrates, and the rest of the   *)
(* inductive invariant says what each request may rely on where it is.     *)
(***************************************************************************)
EXTENDS LeadCapture, TLAPS

(***************************************************************************)
(* What a request carries, and what its answer says, is so.                *)
(***************************************************************************)
RequestsInHand ==
    \A r \in Requests :
        /\ pc[r] # "unsent" => key[r] \in Keys /\ payload[r] \in Payloads
        /\ pc[r] = "unsent" => r \notin late
        /\ Answered(r) => \E l \in leads : l.id = reply[r].lead /\ l.key = key[r]

(***************************************************************************)
(* A lead was created by the request it is named after.                    *)
(***************************************************************************)
LeadsHaveMakers ==
    \A l \in leads : pc[l.id] = "answered" /\ key[l.id] = l.key

(***************************************************************************)
(* A request that came after its lead finds it.                            *)
(***************************************************************************)
LateFinds ==
    \A r \in late : /\ LeadsWith(key[r]) # {}
                    /\ pc[r] # "capturing"

IInv ==
    /\ TypeOK
    /\ OneLeadPerKey
    /\ EventsOfLeads
    /\ RequestsInHand
    /\ LeadsHaveMakers
    /\ LateFinds
    /\ RetryIsRecognised

-----------------------------------------------------------------------------
LEMMA InitEstablishes == Init => IInv
<1> SUFFICES ASSUME Init PROVE IInv
    OBVIOUS
<1>1. TypeOK /\ OneLeadPerKey
    BY DEF Init, TypeOK, OneLeadPerKey
<1>2. EventsOfLeads
    BY DEF Init, EventsOfLeads
<1>3. RequestsInHand /\ LeadsHaveMakers /\ LateFinds /\ RetryIsRecognised
    BY DEF Init, RequestsInHand, LeadsHaveMakers, LateFinds, RetryIsRecognised, Answered
<1> QED
    BY <1>1, <1>2, <1>3 DEF IInv

(***************************************************************************)
(* A submission puts a request on its way and touches nothing else.        *)
(***************************************************************************)
LEMMA SubmitKeeps ==
    ASSUME IInv, NEW r \in Requests, NEW k \in Keys, NEW p \in Payloads, Submit(r, k, p)
    PROVE  IInv'
<1> USE LeadCaptureAssumption DEF IInv, Submit, database
<1>1. TypeOK'
    BY DEF TypeOK
<1>2. OneLeadPerKey' /\ EventsOfLeads'
    BY DEF OneLeadPerKey, EventsOfLeads, Published, Entries
<1>3. RequestsInHand'
    BY DEF RequestsInHand, TypeOK, Answered
<1>4. LeadsHaveMakers'
    BY DEF LeadsHaveMakers, TypeOK, Leads
<1>5. LateFinds'
    BY DEF LateFinds, LeadsWith, TypeOK, RequestsInHand
<1>6. RetryIsRecognised'
    BY DEF RetryIsRecognised, TypeOK, RequestsInHand
<1> QED
    BY <1>1, <1>2, <1>3, <1>4, <1>5, <1>6

(***************************************************************************)
(* A step on the way to the commit: the request moves on unanswered.       *)
(***************************************************************************)
LEMMA FindNothingKeeps ==
    ASSUME IInv, NEW r \in Requests, FindNothing(r)
    PROVE  IInv'
<1> USE DEF IInv, FindNothing, database
<1>1. TypeOK'
    BY DEF TypeOK
<1>2. OneLeadPerKey' /\ EventsOfLeads'
    BY DEF OneLeadPerKey, EventsOfLeads, Published, Entries
<1>3. RequestsInHand'
    BY DEF RequestsInHand, TypeOK, Answered
<1>4. LeadsHaveMakers'
    BY DEF LeadsHaveMakers, TypeOK, Leads
<1>5. LateFinds'
    BY DEF LateFinds, LeadsWith, TypeOK
<1>6. RetryIsRecognised'
    BY DEF RetryIsRecognised
<1> QED
    BY <1>1, <1>2, <1>3, <1>4, <1>5, <1>6

(***************************************************************************)
(* An answer that leaves the database alone keeps the invariant if what it *)
(* says is so, and if it is fit for a late request.                        *)
(***************************************************************************)
LEMMA AnswerKeeps ==
    ASSUME IInv, NEW r \in Requests, NEW status \in Statuses, NEW lead \in Requests \cup {None},
           pc[r] \in {"arrived", "capturing"},
           Answer(r, status, lead),
           UNCHANGED database,
           status \in Accepted => \E l \in leads : l.id = lead /\ l.key = key[r],
           r \in late => status \notin {201, 409}
    PROVE  IInv'
<1> USE LeadCaptureAssumption DEF IInv, Answer, Replies, database
<1>1. TypeOK'
    BY DEF TypeOK
<1>2. OneLeadPerKey' /\ EventsOfLeads'
    BY DEF OneLeadPerKey, EventsOfLeads, Published, Entries
<1>3. RequestsInHand'
    BY DEF RequestsInHand, TypeOK, Answered
<1>4. LeadsHaveMakers'
    BY DEF LeadsHaveMakers, TypeOK, Leads
<1>5. LateFinds'
    BY DEF LateFinds, LeadsWith, TypeOK
<1>6. RetryIsRecognised'
    BY DEF RetryIsRecognised, TypeOK
<1> QED
    BY <1>1, <1>2, <1>3, <1>4, <1>5, <1>6

(***************************************************************************)
(* The insert: what makes it safe is the unique index and that no lead is  *)
(* named after a request that has yet to commit.                           *)
(***************************************************************************)
LEMMA InsertKeeps ==
    ASSUME IInv, NEW r \in Requests, Insert(r),
           NEW status \in Statuses, NEW lead \in Requests \cup {None},
           Answer(r, status, lead),
           status \in Accepted => lead = r,
           status # 409
    PROVE  IInv'
<1> DEFINE new == [id |-> r, key |-> key[r], payload |-> payload[r]]
<1> USE LeadCaptureAssumption DEF IInv, Answer, Replies
<1>0. /\ leads' = leads \cup {new}
      /\ timeline' = timeline \cup Entries(r)
      /\ outbox' = outbox \cup Published(r, payload[r])
      /\ pc[r] = "capturing"
      /\ payload[r] \in Valid
      /\ key[r] \in Keys
      /\ LeadsWith(key[r]) = {}
    BY DEF Insert, RequestsInHand
<1>n. new \in Leads /\ new.id = r /\ new.key = key[r] /\ new.payload = payload[r]
    BY <1>0 DEF Leads
<1> HIDE DEF new
<1>1. TypeOK'
    <2>1. leads' \subseteq Leads
        BY <1>0, <1>n DEF TypeOK
    <2>2. timeline' \subseteq {"captured", "scored"} \X Requests
        BY <1>0 DEF TypeOK, Entries
    <2>3. outbox' \subseteq {"LeadCaptured", "LeadMarkedHot"} \X Requests
        BY <1>0 DEF TypeOK, Published
    <2> QED
        BY <2>1, <2>2, <2>3 DEF TypeOK
<1>2. OneLeadPerKey'
    BY <1>0, <1>n DEF OneLeadPerKey, LeadsWith
<1>3. EventsOfLeads'
    <2> DEFINE P(l) == Published(l.id, l.payload)
               E(l) == Entries(l.id)
    <2>1. outbox = UNION {P(l) : l \in leads} /\ timeline = UNION {E(l) : l \in leads}
        BY DEF EventsOfLeads
    <2>2. P(new) = Published(r, payload[r]) /\ E(new) = Entries(r)
        BY <1>n
    <2> HIDE DEF P, E
    <2>3. UNION {P(l) : l \in leads \cup {new}} = outbox \cup Published(r, payload[r])
        BY <2>1, <2>2
    <2>4. UNION {E(l) : l \in leads \cup {new}} = timeline \cup Entries(r)
        BY <2>1, <2>2
    <2>5. outbox' = UNION {P(l) : l \in leads'} /\ timeline' = UNION {E(l) : l \in leads'}
        BY <1>0, <2>3, <2>4
    <2> QED
        BY <2>5 DEF EventsOfLeads, P, E, Published, Entries
<1>4. RequestsInHand'
    BY <1>0, <1>n DEF RequestsInHand, TypeOK, Answered
<1>5. LeadsHaveMakers'
    BY <1>0, <1>n DEF LeadsHaveMakers, TypeOK, Leads
<1>6. LateFinds'
    BY <1>0 DEF LateFinds, LeadsWith, TypeOK
<1>7. RetryIsRecognised'
    BY <1>0 DEF RetryIsRecognised, LateFinds, TypeOK
<1> QED
    BY <1>1, <1>2, <1>3, <1>4, <1>5, <1>6, <1>7

LEMMA NextKeeps == IInv /\ [Next]_vars => IInv'
<1> SUFFICES ASSUME IInv, [Next]_vars PROVE IInv'
    OBVIOUS
<1> USE DEF Statuses, Accepted
<1>1. ASSUME NEW r \in Requests, NEW k \in Keys, NEW p \in Payloads, Submit(r, k, p)
      PROVE  IInv'
    BY <1>1, SubmitKeeps
<1>2. ASSUME NEW r \in Requests, NEW status \in Statuses, TurnAway(r, status)
      PROVE  IInv'
    BY <1>2, AnswerKeeps DEF TurnAway
<1>3. ASSUME NEW r \in Requests, FindExisting(r)
      PROVE  IInv'
    <2>1. PICK l \in LeadsWith(key[r]) : Answer(r, 200, l.id)
        BY <1>3 DEF FindExisting
    <2>2. l \in leads /\ l.key = key[r] /\ l.id \in Requests
        BY <2>1 DEF LeadsWith, IInv, TypeOK, Leads
    <2> QED
        BY <1>3, <2>1, <2>2, AnswerKeeps DEF FindExisting
<1>4. ASSUME NEW r \in Requests, FindNothing(r)
      PROVE  IInv'
    BY <1>4, FindNothingKeeps
<1>5. ASSUME NEW r \in Requests, Reject(r)
      PROVE  IInv'
    BY <1>5, AnswerKeeps DEF Reject
<1>6. ASSUME NEW r \in Requests, Create(r)
      PROVE  IInv'
    BY <1>6, InsertKeeps DEF Create
<1>7. ASSUME NEW r \in Requests, CreateUnheard(r)
      PROVE  IInv'
    BY <1>7, InsertKeeps DEF CreateUnheard
<1>8. ASSUME NEW r \in Requests, Conflict(r)
      PROVE  IInv'
    <2>1. r \notin late
        BY <1>8 DEF Conflict, IInv, LateFinds
    <2> QED
        BY <1>8, <2>1, AnswerKeeps DEF Conflict
<1>9. ASSUME NEW r \in Requests, Fail(r)
      PROVE  IInv'
    BY <1>9, AnswerKeeps DEF Fail
<1>10. CASE UNCHANGED vars
    BY <1>10 DEF vars, database, IInv, TypeOK, OneLeadPerKey, EventsOfLeads, RequestsInHand,
                 LeadsHaveMakers, LateFinds, RetryIsRecognised, Answered, LeadsWith,
                 Published, Entries
<1> QED
    BY <1>1, <1>2, <1>3, <1>4, <1>5, <1>6, <1>7, <1>8, <1>9, <1>10 DEF Next

THEOREM Invariance == Spec => []IInv
<1> QED
    BY InitEstablishes, NextKeeps, PTL DEF Spec

-----------------------------------------------------------------------------
(***************************************************************************)
(* Rows, requests and answers have their types, and an answered request    *)
(* has an answer.                                                          *)
(***************************************************************************)
THEOREM CaptureTypes == Spec => []TypeOK
<1>1. IInv => TypeOK
    BY DEF IInv
<1> QED
    BY <1>1, Invariance, PTL

(***************************************************************************)
(* However many requests carry a key, one lead is stored for it.           *)
(***************************************************************************)
THEOREM KeyIsCapturedOnce == Spec => []OneLeadPerKey
<1>1. IInv => OneLeadPerKey
    BY DEF IInv
<1> QED
    BY <1>1, Invariance, PTL

(***************************************************************************)
(* No lead is without its events and no event is without its lead.         *)
(***************************************************************************)
THEOREM LeadsAndEventsAgree == Spec => []EventsOfLeads
<1>1. IInv => EventsOfLeads
    BY DEF IInv
<1> QED
    BY <1>1, Invariance, PTL

(***************************************************************************)
(* A retry of what is stored is recognised, and never called a conflict.   *)
(***************************************************************************)
THEOREM RetriesAreRecognised == Spec => []RetryIsRecognised
<1>1. IInv => RetryIsRecognised
    BY DEF IInv
<1> QED
    BY <1>1, Invariance, PTL

-----------------------------------------------------------------------------
(***************************************************************************)
(* The lead a key was captured as is the stored one, and none otherwise.   *)
(***************************************************************************)
LEMMA CapturedAsStored ==
    ASSUME IInv
    PROVE  /\ \A l \in leads : CapturedAs(l.key) = l.id
           /\ \A k : LeadsWith(k) = {} => CapturedAs(k) = None
           /\ \A k : LeadsWith(k) # {} => CapturedAs(k) # None
<1> USE LeadCaptureAssumption DEF IInv, LeadsWith, CapturedAs
<1>1. ASSUME NEW l \in leads
      PROVE  CapturedAs(l.key) = l.id
    <2>1. \A m \in leads : m.key = l.key => m = l
        BY DEF OneLeadPerKey
    <2> QED
        BY <2>1
<1>2. ASSUME NEW k, LeadsWith(k) # {}
      PROVE  CapturedAs(k) # None
    <2>1. PICK l \in leads : l.key = k
        BY <1>2
    <2>2. CapturedAs(k) = l.id
        BY <1>1, <2>1
    <2>3. l.id \in Requests
        BY DEF TypeOK, Leads
    <2> QED
        BY <2>2, <2>3
<1>3. \A k : LeadsWith(k) = {} => CapturedAs(k) = None
    OBVIOUS
<1> QED
    BY <1>1, <1>2, <1>3

(***************************************************************************)
(* Nobody was told anything by a request that has no answer yet: one that  *)
(* is answered now adds its own pair, if it is accepted, and that is all.  *)
(***************************************************************************)
Told == {<<key[r], reply[r].lead>> : r \in {q \in Requests : Answered(q)}}

LEMMA AnswerTells ==
    ASSUME IInv, NEW r \in Requests, NEW status, NEW lead,
           pc[r] # "answered", Answer(r, status, lead)
    PROVE  Told' = IF status \in Accepted THEN Told \cup {<<key[r], lead>>} ELSE Told
<1> USE DEF IInv, Answer
<1>1. /\ key' = key
      /\ pc'[r] = "answered"
      /\ reply'[r] = [status |-> status, lead |-> lead]
      /\ \A q \in Requests \ {r} : pc'[q] = pc[q] /\ reply'[q] = reply[q]
    BY DEF TypeOK
<1>2. Answered(r)' <=> status \in Accepted
    BY <1>1 DEF Answered, Accepted
<1>3. ~Answered(r) /\ \A q \in Requests \ {r} : Answered(q)' <=> Answered(q)
    BY <1>1 DEF Answered, Accepted
<1> QED
    BY <1>1, <1>2, <1>3 DEF Told

(***************************************************************************)
(* The captured keys do not change while the leads do not.                 *)
(***************************************************************************)
Captured == [k \in Keys |-> CapturedAs(k)]

LEMMA AnswerMaps ==
    ASSUME IInv, NEW r \in Requests, NEW status, NEW lead,
           pc[r] # "answered", Answer(r, status, lead), leads' = leads,
           status \in Accepted => \E l \in leads : l.id = lead /\ l.key = key[r]
    PROVE  [Promise!Next]_(Promise!vars)
<1>1. Captured' = Captured
    BY DEF Captured, CapturedAs, LeadsWith
<1>2. CASE status \notin Accepted
    <2>1. Told' = Told
        BY <1>2, AnswerTells
    <2> QED
        BY <1>1, <2>1 DEF Promise!vars, Captured, Told
<1>3. CASE status \in Accepted
    <2>1. PICK l \in leads : l.id = lead /\ l.key = key[r]
        BY <1>3
    <2>2. l.key \in Keys
        BY DEF IInv, TypeOK, Leads
    <2>3. Captured[l.key] = lead /\ Captured[l.key] # None
        BY <2>1, <2>2, CapturedAsStored DEF Captured, LeadsWith
    <2>4. Told' = Told \cup {<<l.key, lead>>}
        BY <1>3, <2>1, AnswerTells
    <2>5. Promise!Recall(l.key)
        BY <1>1, <2>3, <2>4 DEF Promise!Recall, Captured, Told
    <2> QED
        BY <2>2, <2>5 DEF Promise!Next
<1> QED
    BY <1>2, <1>3

LEMMA InsertMaps ==
    ASSUME IInv, IInv', NEW r \in Requests, Insert(r),
           NEW status, NEW lead,
           Answer(r, status, lead),
           status \in Accepted => lead = r
    PROVE  Promise!Next
<1>0. PICK k, new : k = key[r] /\ new = [id |-> r, key |-> k, payload |-> payload[r]]
    OBVIOUS
<1>1. /\ k = key[r] /\ k \in Keys /\ LeadsWith(k) = {} /\ pc[r] = "capturing"
      /\ leads' = leads \cup {new} /\ new.id = r /\ new.key = k
    BY <1>0 DEF Insert, IInv, RequestsInHand
<1>2. Captured[k] = None
    BY <1>1, CapturedAsStored DEF Captured
<1>3. Captured' = [Captured EXCEPT ![k] = r]
    <2>1. CapturedAs(k)' = r
        <3>1. \A l \in leads' : l.key = k => l = new
            BY <1>1 DEF LeadsWith
        <3>2. LeadsWith(k)' # {}
            BY <1>1 DEF LeadsWith
        <3> QED
            BY <1>1, <3>1, <3>2 DEF CapturedAs
    <2>2. ASSUME NEW j \in Keys \ {k}
          PROVE  CapturedAs(j)' = CapturedAs(j)
        <3>1. LeadsWith(j)' = LeadsWith(j)
            BY <1>1 DEF LeadsWith
        <3>2. CASE LeadsWith(j) = {}
            BY <3>1, <3>2 DEF CapturedAs
        <3>3. CASE LeadsWith(j) # {}
            <4>1. PICK l \in leads : l.key = j
                BY <3>3 DEF LeadsWith
            <4>2. \A m \in leads' : m.key = j => m = l
                BY <1>1, <4>1 DEF IInv, OneLeadPerKey
            <4>3. CapturedAs(j) = l.id
                BY <4>1, CapturedAsStored
            <4>4. (CHOOSE m \in leads' : m.key = j) = l
                BY <1>1, <4>1, <4>2
            <4> QED
                BY <3>1, <3>3, <4>3, <4>4 DEF CapturedAs
        <3> QED
            BY <3>2, <3>3
    <2> QED
        BY <2>1, <2>2 DEF Captured
<1>4. Told' \in {Told, Told \cup {<<k, r>>}}
    BY <1>1, AnswerTells
<1>5. Promise!Capture(k, r)
    BY <1>2, <1>3, <1>4 DEF Promise!Capture, Captured, Told
<1> QED
    BY <1>1, <1>5 DEF Promise!Next

(***************************************************************************)
(* The endpoint keeps its promise: a key is captured at most once, and     *)
(* every acceptance of a request with that key names that lead.            *)
(***************************************************************************)
THEOREM CaptureKeepsPromise == Spec => KeepsPromise
<1>1. Init => Promise!Init
    BY DEF Init, Promise!Init, CapturedAs, LeadsWith, Answered, Accepted
<1>2. IInv /\ IInv' /\ [Next]_vars => [Promise!Next]_(Promise!vars)
    <2> SUFFICES ASSUME IInv, IInv', [Next]_vars PROVE [Promise!Next]_(Promise!vars)
        OBVIOUS
    <2> USE DEF Statuses, Accepted
    <2>1. ASSUME NEW r \in Requests, NEW j \in Keys, NEW p \in Payloads, Submit(r, j, p)
          PROVE  UNCHANGED Promise!vars
        <3>1. Captured' = Captured
            BY <2>1 DEF Submit, database, Captured, CapturedAs, LeadsWith
        <3>2. Told' = Told
            BY <2>1 DEF Submit, Told, Answered, IInv, TypeOK
        <3> QED
            BY <3>1, <3>2 DEF Promise!vars, Captured, Told
    <2>2. ASSUME NEW r \in Requests, NEW status \in Statuses, TurnAway(r, status)
          PROVE  [Promise!Next]_(Promise!vars)
        BY <2>2, AnswerMaps DEF TurnAway, database
    <2>3. ASSUME NEW r \in Requests, FindExisting(r)
          PROVE  [Promise!Next]_(Promise!vars)
        <3>1. PICK l \in LeadsWith(key[r]) : Answer(r, 200, l.id)
            BY <2>3 DEF FindExisting
        <3>2. l \in leads /\ l.key = key[r]
            BY DEF LeadsWith
        <3> QED
            BY <2>3, <3>1, <3>2, AnswerMaps DEF FindExisting, database
    <2>4. ASSUME NEW r \in Requests, FindNothing(r)
          PROVE  UNCHANGED Promise!vars
        <3>1. Captured' = Captured
            BY <2>4 DEF FindNothing, database, Captured, CapturedAs, LeadsWith
        <3>2. Told' = Told
            BY <2>4 DEF FindNothing, Told, Answered, IInv, TypeOK
        <3> QED
            BY <3>1, <3>2 DEF Promise!vars, Captured, Told
    <2>5. ASSUME NEW r \in Requests, Reject(r) \/ Conflict(r) \/ Fail(r)
          PROVE  [Promise!Next]_(Promise!vars)
        BY <2>5, AnswerMaps DEF Reject, Conflict, Fail, database
    <2>6. ASSUME NEW r \in Requests, Create(r)
          PROVE  Promise!Next
        BY <2>6, InsertMaps DEF Create
    <2>7. ASSUME NEW r \in Requests, CreateUnheard(r)
          PROVE  Promise!Next
        BY <2>7, InsertMaps DEF CreateUnheard
    <2>8. CASE UNCHANGED vars
        BY <2>8 DEF vars, database, Promise!vars, CapturedAs, LeadsWith, Answered
    <2> QED
        BY <2>1, <2>2, <2>3, <2>4, <2>5, <2>6, <2>7, <2>8 DEF Next
<1> QED
    BY <1>1, <1>2, Invariance, PTL DEF Spec, Promise!Spec, KeepsPromise

-----------------------------------------------------------------------------
(***************************************************************************)
(* What each status tells of a request: 201, its own lead is stored, with  *)
(* what it carried; 200 and 409, another's is, and 409 only if that one    *)
(* was not there yet when it arrived; and a request whose lead is stored   *)
(* was told 201 or nothing.                                                *)
(***************************************************************************)
AnswersAreTrue ==
    \A r \in Requests : pc[r] = "answered" =>
        /\ reply[r].status = 201 =>
            \E l \in leads : l.id = r /\ l.key = key[r] /\ l.payload = payload[r]
        /\ reply[r].status \in {200, 409} => \E l \in leads : l.key = key[r] /\ l.id # r
        /\ reply[r].status = 409 => r \notin late
        /\ \A l \in leads : l.id = r => reply[r].status \in {201, 500}

LEMMA AnswerIsTrue ==
    ASSUME IInv, AnswersAreTrue, NEW r \in Requests, NEW status \in Statuses, NEW lead,
           pc[r] \in {"arrived", "capturing"},
           Answer(r, status, lead), UNCHANGED database,
           status # 201,
           status \in {200, 409} => LeadsWith(key[r]) # {},
           status = 409 => r \notin late
    PROVE  AnswersAreTrue'
<1>1. \A l \in leads : l.id # r
    BY DEF IInv, LeadsHaveMakers
<1>2. /\ reply'[r].status = status
      /\ \A q \in Requests \ {r} : pc'[q] = pc[q] /\ reply'[q] = reply[q]
      /\ UNCHANGED <<leads, key, payload, late>>
    BY DEF Answer, IInv, TypeOK, database
<1>3. status \in {200, 409} => \E l \in leads : l.key = key[r] /\ l.id # r
    BY <1>1 DEF LeadsWith
<1> QED
    BY <1>1, <1>2, <1>3 DEF AnswersAreTrue

LEMMA InsertIsTrue ==
    ASSUME IInv, AnswersAreTrue, NEW r \in Requests, Insert(r),
           NEW status \in {201, 500}, NEW lead, Answer(r, status, lead)
    PROVE  AnswersAreTrue'
<1> DEFINE new == [id |-> r, key |-> key[r], payload |-> payload[r]]
<1>1. /\ leads' = leads \cup {new}
      /\ new.id = r /\ new.key = key[r] /\ new.payload = payload[r]
    BY DEF Insert
<1> HIDE DEF new
<1>2. /\ reply'[r].status = status
      /\ \A q \in Requests \ {r} : pc'[q] = pc[q] /\ reply'[q] = reply[q]
      /\ UNCHANGED <<key, payload, late>>
    BY DEF Answer, IInv, TypeOK
<1>3. ASSUME NEW q \in Requests \ {r}, pc'[q] = "answered"
      PROVE  /\ reply'[q].status = 201 =>
                 \E l \in leads' : l.id = q /\ l.key = key'[q] /\ l.payload = payload'[q]
             /\ reply'[q].status \in {200, 409} => \E l \in leads' : l.key = key'[q] /\ l.id # q
             /\ reply'[q].status = 409 => q \notin late'
             /\ \A l \in leads' : l.id = q => reply'[q].status \in {201, 500}
    BY <1>1, <1>2, <1>3 DEF AnswersAreTrue
<1> QED
    BY <1>1, <1>2, <1>3 DEF AnswersAreTrue

LEMMA NextIsTrue == IInv /\ AnswersAreTrue /\ [Next]_vars => AnswersAreTrue'
<1> SUFFICES ASSUME IInv, AnswersAreTrue, [Next]_vars PROVE AnswersAreTrue'
    OBVIOUS
<1>1. ASSUME NEW r \in Requests, NEW k \in Keys, NEW p \in Payloads, Submit(r, k, p)
      PROVE  AnswersAreTrue'
    BY <1>1 DEF Submit, database, AnswersAreTrue, IInv, TypeOK
<1>2. ASSUME NEW r \in Requests, NEW status \in Statuses, TurnAway(r, status)
      PROVE  AnswersAreTrue'
    BY <1>2, AnswerIsTrue DEF TurnAway
<1>3. ASSUME NEW r \in Requests, FindExisting(r)
      PROVE  AnswersAreTrue'
    BY <1>3, AnswerIsTrue DEF FindExisting, LeadsWith, Statuses
<1>4. ASSUME NEW r \in Requests, FindNothing(r)
      PROVE  AnswersAreTrue'
    BY <1>4 DEF FindNothing, database, AnswersAreTrue, IInv, TypeOK
<1>5. ASSUME NEW r \in Requests, Reject(r) \/ Fail(r)
      PROVE  AnswersAreTrue'
    BY <1>5, AnswerIsTrue DEF Reject, Fail, Statuses
<1>6. ASSUME NEW r \in Requests, Create(r) \/ CreateUnheard(r)
      PROVE  AnswersAreTrue'
    BY <1>6, InsertIsTrue DEF Create, CreateUnheard
<1>7. ASSUME NEW r \in Requests, Conflict(r)
      PROVE  AnswersAreTrue'
    <2>1. r \notin late
        BY <1>7 DEF Conflict, IInv, LateFinds
    <2> QED
        BY <1>7, <2>1, AnswerIsTrue DEF Conflict, Statuses
<1>8. CASE UNCHANGED vars
    BY <1>8 DEF vars, database, AnswersAreTrue
<1> QED
    BY <1>1, <1>2, <1>3, <1>4, <1>5, <1>6, <1>7, <1>8 DEF Next

LEMMA TrueAnswers == Spec => [](IInv /\ AnswersAreTrue)
<1>1. Init => AnswersAreTrue
    BY DEF Init, AnswersAreTrue
<1> QED
    BY <1>1, NextIsTrue, InitEstablishes, NextKeeps, PTL DEF Spec

(***************************************************************************)
(* No answer misleads the form: it is told 201 only for the lead it made,  *)
(* as it sent it; a 200 or a 409 means that another submission of the form *)
(* is stored, so an enquiry met with a conflict is not lost; a conflict    *)
(* takes a real overlap; and whoever is refused (422, 429, 503) has stored *)
(* nothing.                                                                *)
(***************************************************************************)
THEOREM AnswersNeverMislead == Spec => []AnswersAreTrue
<1> QED
    BY TrueAnswers, PTL

(***************************************************************************)
(* At most one submission of a form is told that it created a lead, and    *)
(* all that are told of a lead are told of the same one.                   *)
(***************************************************************************)
OneAnswerPerKey ==
    \A q, r \in Requests : Answered(q) /\ Answered(r) /\ key[q] = key[r] =>
        /\ reply[q].lead = reply[r].lead
        /\ reply[q].status = 201 /\ reply[r].status = 201 => q = r

(***************************************************************************)
(* The confirmations of one form agree with each other, however its        *)
(* submissions raced: "produces exactly one lead" as the visitor sees it.  *)
(***************************************************************************)
THEOREM ConfirmationsAgree == Spec => []OneAnswerPerKey
<1>1. ASSUME IInv, AnswersAreTrue, NEW q \in Requests, NEW r \in Requests,
             Answered(q), Answered(r), key[q] = key[r]
      PROVE  /\ reply[q].lead = reply[r].lead
             /\ reply[q].status = 201 /\ reply[r].status = 201 => q = r
    <2>1. PICK l, m \in leads : /\ l.id = reply[q].lead /\ l.key = key[q]
                                /\ m.id = reply[r].lead /\ m.key = key[r]
        BY <1>1 DEF IInv, RequestsInHand
    <2>2. l = m
        BY <1>1, <2>1 DEF IInv, OneLeadPerKey
    <2>3. ASSUME reply[q].status = 201, reply[r].status = 201
          PROVE  q = r
        BY <1>1, <2>3 DEF AnswersAreTrue, Answered, IInv, OneLeadPerKey
    <2> QED
        BY <2>1, <2>2, <2>3
<1>2. IInv /\ AnswersAreTrue => OneAnswerPerKey
    BY <1>1 DEF OneAnswerPerKey
<1> QED
    BY <1>2, TrueAnswers, PTL

(***************************************************************************)
(* What is stored stays as it was stored: no later submission of the form, *)
(* corrected or not, replaces or removes it.                               *)
(***************************************************************************)
THEOREM FirstValuesStay == Spec => [][leads \subseteq leads']_vars
<1>1. [Next]_vars => leads \subseteq leads'
    BY DEF Next, Submit, TurnAway, FindExisting, FindNothing, Reject, Create, CreateUnheard,
           Insert, Conflict, Fail, database, vars
<1> QED
    BY <1>1, PTL DEF Spec
=============================================================================
