---------------------------- MODULE WebsiteProofs ----------------------------
(***************************************************************************)
(* Proofs about Website: for any number of forms and requests, whoever is  *)
(* thanked has a lead stored, and a form that asked for the thank-you page *)
(* sends nothing more unless it was submitted twice before.                *)
(***************************************************************************)
EXTENDS Website, LeadCaptureProofs

(***************************************************************************)
(* What a form waits for it has sent, with its key, and what it was        *)
(* answered with stays stored.                                             *)
(***************************************************************************)
FormsInHand ==
    /\ state \in [Keys -> {"unmounted", "idle", "submitting", "error", "thanked", "closed"}]
    /\ waiting \in [Keys -> SUBSET Requests]
    /\ pushed \subseteq Keys
    /\ \A f \in Keys : \A r \in waiting[f] : pc[r] # "unsent" /\ key[r] = f

(***************************************************************************)
(* A form that was not submitted twice waits for one request at most, and  *)
(* only while it is submitting; once it asked for the thank-you page it    *)
(* waits for nothing.                                                      *)
(***************************************************************************)
OneAtATime ==
    \A f \in Keys \ doubled :
        /\ state[f] # "submitting" => waiting[f] = {}
        /\ \A q, r \in waiting[f] : q = r
        /\ f \in pushed => /\ waiting[f] = {}
                           /\ state[f] \in {"submitting", "thanked", "closed"}

SiteInv ==
    /\ IInv
    /\ FormsInHand
    /\ ThankedMeansStored
    /\ OneAtATime
-----------------------------------------------------------------------------
LEMMA SiteInitEstablishes == SiteInit => SiteInv
<1> SUFFICES ASSUME SiteInit PROVE SiteInv
    OBVIOUS
<1>1. IInv
    BY InitEstablishes DEF SiteInit
<1>2. FormsInHand /\ ThankedMeansStored /\ OneAtATime
    BY DEF SiteInit, FormsInHand, ThankedMeansStored, OneAtATime
<1> QED
    BY <1>1, <1>2 DEF SiteInv

(***************************************************************************)
(* To the endpoint, every step of the site is a step or nothing.           *)
(***************************************************************************)
LEMMA SiteStepsAreCaptures == [SiteNext]_siteVars => [Next]_vars
<1> SUFFICES ASSUME [SiteNext]_siteVars PROVE [Next]_vars
    OBVIOUS
<1>1. ASSUME NEW f \in Keys, NEW r \in Requests, NEW p \in Payloads, Click(f, r, p)
      PROVE  Next
    BY <1>1 DEF Click, Next
<1>2. ASSUME NEW r \in Requests, Serve(r) PROVE Next
    BY <1>2 DEF Serve, Next, Statuses
<1>3. ASSUME NEW f \in Keys, NEW r \in Requests, Thank(f, r) \/ ShowError(f, r)
      PROVE  UNCHANGED vars
    BY <1>3 DEF Thank, ShowError, Settle
<1>4. ASSUME NEW f \in Keys,
             \/ Close(f) \/ Render(f) \/ Navigate(f)
             \/ Mount(f)
      PROVE  UNCHANGED vars
    BY <1>4 DEF Close, Render, Navigate, Mount
<1>5. CASE UNCHANGED siteVars
    BY <1>5 DEF siteVars
<1> QED
    BY <1>1, <1>2, <1>3, <1>4, <1>5 DEF SiteNext

(***************************************************************************)
(* Leads stay, and a request that was sent keeps its key.                  *)
(***************************************************************************)
LEMMA CapturesStay ==
    ASSUME IInv, [Next]_vars
    PROVE  /\ leads \subseteq leads'
           /\ \A r \in Requests : pc[r] # "unsent" => pc'[r] # "unsent" /\ key'[r] = key[r]
<1>1. ASSUME NEW r \in Requests, NEW k \in Keys, NEW p \in Payloads, Submit(r, k, p)
      PROVE  /\ leads' = leads
             /\ \A q \in Requests : pc[q] # "unsent" => pc'[q] # "unsent" /\ key'[q] = key[q]
    BY <1>1 DEF Submit, database, IInv, TypeOK
<1>2. ASSUME NEW r \in Requests, NEW status, NEW lead, Answer(r, status, lead)
      PROVE  \A q \in Requests : pc[q] # "unsent" => pc'[q] # "unsent" /\ key'[q] = key[q]
    BY <1>2 DEF Answer, IInv, TypeOK
<1>3. ASSUME NEW r \in Requests, NEW status \in Statuses, TurnAway(r, status)
      PROVE  /\ leads' = leads
             /\ \A q \in Requests : pc[q] # "unsent" => pc'[q] # "unsent" /\ key'[q] = key[q]
    BY <1>2, <1>3 DEF TurnAway, database
<1>4. ASSUME NEW r \in Requests, FindExisting(r) \/ Reject(r) \/ Conflict(r) \/ Fail(r)
      PROVE  /\ leads' = leads
             /\ \A q \in Requests : pc[q] # "unsent" => pc'[q] # "unsent" /\ key'[q] = key[q]
    BY <1>2, <1>4 DEF FindExisting, Reject, Conflict, Fail, database
<1>5. ASSUME NEW r \in Requests, Create(r) \/ CreateUnheard(r)
      PROVE  /\ leads \subseteq leads'
             /\ \A q \in Requests : pc[q] # "unsent" => pc'[q] # "unsent" /\ key'[q] = key[q]
    BY <1>2, <1>5 DEF Create, CreateUnheard, Insert
<1>6. ASSUME NEW r \in Requests, FindNothing(r)
      PROVE  /\ leads' = leads
             /\ \A q \in Requests : pc[q] # "unsent" => pc'[q] # "unsent" /\ key'[q] = key[q]
    BY <1>6 DEF FindNothing, database, IInv, TypeOK
<1>7. CASE UNCHANGED vars
    BY <1>7 DEF vars, database
<1> QED
    BY <1>1, <1>3, <1>4, <1>5, <1>6, <1>7 DEF Next

(***************************************************************************)
(* What forms wait for they have sent, whichever side moves.               *)
(***************************************************************************)
LEMMA FormsKeep ==
    ASSUME SiteInv, [SiteNext]_siteVars
    PROVE  FormsInHand'
<1>1. /\ FormsInHand
      /\ \A r \in Requests : pc[r] # "unsent" => pc'[r] # "unsent" /\ key'[r] = key[r]
    BY CapturesStay, SiteStepsAreCaptures DEF SiteInv
<1>2. ASSUME NEW f \in Keys, NEW r \in Requests, NEW p \in Payloads, Click(f, r, p)
      PROVE  FormsInHand'
    <2>1. /\ pc'[r] = "arrived" /\ key'[r] = f
          /\ state' = [state EXCEPT ![f] = "submitting"]
          /\ waiting' = [waiting EXCEPT ![f] = waiting[f] \cup {r}]
          /\ pushed' = pushed
        BY <1>2 DEF Click, Submit, SiteInv, IInv, TypeOK
    <2> QED
        BY <1>1, <2>1 DEF FormsInHand
<1>3. ASSUME NEW f \in Keys, NEW r \in Requests, Thank(f, r) \/ ShowError(f, r)
      PROVE  FormsInHand'
    BY <1>1, <1>3 DEF Thank, ShowError, Settle, FormsInHand
<1>4. ASSUME NEW f \in Keys,
             \/ Close(f) \/ Render(f) \/ Navigate(f)
             \/ Mount(f)
      PROVE  FormsInHand'
    BY <1>1, <1>4 DEF Close, Render, Navigate, Mount, FormsInHand
<1>5. ASSUME UNCHANGED forms PROVE FormsInHand'
    BY <1>1, <1>5 DEF forms, FormsInHand
<1> QED
    BY <1>2, <1>3, <1>4, <1>5 DEF SiteNext, Serve, siteVars

(***************************************************************************)
(* A form asks for the thank-you page when a request with its key was      *)
(* answered with a lead, and leads stay.                                   *)
(***************************************************************************)
LEMMA ThankedKeeps ==
    ASSUME SiteInv, [SiteNext]_siteVars
    PROVE  ThankedMeansStored'
<1>1. \A f : LeadsWith(f) # {} => LeadsWith(f)' # {}
    BY CapturesStay, SiteStepsAreCaptures DEF SiteInv, LeadsWith
<1>2. ASSUME NEW f \in Keys, NEW r \in Requests, Thank(f, r)
      PROVE  pushed' = pushed \cup {f} /\ LeadsWith(f) # {}
    <2>1. key[r] = f
        BY <1>2 DEF Thank, Settle, SiteInv, FormsInHand
    <2>2. \E l \in leads : l.key = key[r]
        BY <1>2 DEF Thank, SiteInv, IInv, RequestsInHand
    <2> QED
        BY <1>2, <2>1, <2>2 DEF Thank, LeadsWith
<1>3. ASSUME NEW f \in Keys,
             \/ Close(f) \/ Render(f) \/ Navigate(f)
             \/ Mount(f)
             \/ \E r \in Requests, p \in Payloads : Click(f, r, p)
             \/ \E r \in Requests : ShowError(f, r)
      PROVE  pushed' = pushed
    BY <1>3 DEF Close, Render, Navigate, Mount, Click, ShowError
<1>4. ASSUME UNCHANGED forms PROVE pushed' = pushed
    BY <1>4 DEF forms
<1>5. \A f \in pushed' : f \in pushed \/ LeadsWith(f) # {}
    BY <1>2, <1>3, <1>4 DEF SiteNext, Serve, siteVars
<1> QED
    BY <1>1, <1>5 DEF SiteInv, ThankedMeansStored

(***************************************************************************)
(* A form that is not submitted twice has one request under way at most.   *)
(***************************************************************************)
LEMMA OneAtATimeKeeps ==
    ASSUME SiteInv, [SiteNext]_siteVars
    PROVE  OneAtATime'
<1>1. FormsInHand /\ OneAtATime
    BY DEF SiteInv
<1>2. ASSUME NEW f \in Keys, NEW r \in Requests, NEW p \in Payloads, Click(f, r, p)
      PROVE  OneAtATime'
    <2>1. CASE state[f] = "submitting"
        BY <1>1, <1>2, <2>1 DEF Click, FormsInHand, OneAtATime
    <2>2. CASE state[f] # "submitting"
        <3>1. /\ f \notin doubled => waiting[f] = {} /\ f \notin pushed
              /\ doubled' = doubled /\ pushed' = pushed
              /\ state' = [state EXCEPT ![f] = "submitting"]
              /\ waiting' = [waiting EXCEPT ![f] = waiting[f] \cup {r}]
            BY <1>1, <1>2, <2>2 DEF Click, OneAtATime, OnScreen
        <3> QED
            BY <1>1, <3>1 DEF FormsInHand, OneAtATime
    <2> QED
        BY <2>1, <2>2
<1>3. ASSUME NEW f \in Keys, NEW r \in Requests, Thank(f, r) \/ ShowError(f, r)
      PROVE  OneAtATime'
    <2>1. /\ r \in waiting[f]
          /\ waiting' = [waiting EXCEPT ![f] = waiting[f] \ {r}]
          /\ doubled' = doubled
        BY <1>3 DEF Thank, ShowError, Settle
    <2>2. f \notin doubled => waiting'[f] = {} /\ state[f] = "submitting" /\ f \notin pushed
        BY <1>1, <2>1 DEF FormsInHand, OneAtATime
    <2>3. CASE Thank(f, r)
        <3>1. state' = state /\ pushed' = pushed \cup {f}
            BY <2>3 DEF Thank
        <3> QED
            BY <1>1, <2>1, <2>2, <3>1 DEF FormsInHand, OneAtATime
    <2>4. CASE ShowError(f, r)
        <3>1. state' = [state EXCEPT ![f] = "error"] /\ pushed' = pushed
            BY <2>4 DEF ShowError
        <3> QED
            BY <1>1, <2>1, <2>2, <3>1 DEF FormsInHand, OneAtATime
    <2> QED
        BY <1>3, <2>3, <2>4
<1>4. ASSUME NEW f \in Keys, Close(f) \/ Navigate(f) PROVE OneAtATime'
    BY <1>1, <1>4 DEF Close, Navigate, FormsInHand, OneAtATime
<1>5. ASSUME NEW f \in Keys,
             Render(f) \/ Mount(f)
      PROVE  OneAtATime'
    BY <1>1, <1>5 DEF Render, Mount, FormsInHand, OneAtATime
<1>6. ASSUME UNCHANGED forms PROVE OneAtATime'
    BY <1>1, <1>6 DEF forms, OneAtATime
<1> QED
    BY <1>2, <1>3, <1>4, <1>5, <1>6 DEF SiteNext, Serve, siteVars

LEMMA SiteNextKeeps == SiteInv /\ [SiteNext]_siteVars => SiteInv'
<1> SUFFICES ASSUME SiteInv, [SiteNext]_siteVars PROVE SiteInv'
    OBVIOUS
<1>1. IInv'
    BY SiteStepsAreCaptures, NextKeeps DEF SiteInv
<1> QED
    BY <1>1, FormsKeep, ThankedKeeps, OneAtATimeKeeps DEF SiteInv

THEOREM SiteInvariance == SiteSpec => []SiteInv
<1> QED
    BY SiteInitEstablishes, SiteNextKeeps, PTL DEF SiteSpec
-----------------------------------------------------------------------------
(***************************************************************************)
(* The endpoint's specification is kept whatever the browsers do, so what  *)
(* is proved of LeadCapture holds of the site.                             *)
(***************************************************************************)
THEOREM SiteIsACapture == SiteSpec => Spec
<1>1. SiteInit => Init
    BY DEF SiteInit
<1> QED
    BY <1>1, SiteStepsAreCaptures, PTL DEF SiteSpec, Spec

(***************************************************************************)
(* Nobody is thanked for what is not stored.                               *)
(***************************************************************************)
THEOREM ThankedIsStored == SiteSpec => []ThankedMeansStored
<1>1. SiteInv => ThankedMeansStored
    BY DEF SiteInv
<1> QED
    BY <1>1, SiteInvariance, PTL

(***************************************************************************)
(* Once the thank-you page is asked for, the form sends nothing more,      *)
(* except a form that was submitted twice before its button was disabled.  *)
(***************************************************************************)
THEOREM NoImpatientClick == SiteSpec => ImpatientClickCannotFire
<1>1. ASSUME SiteInv, [SiteNext]_siteVars, NEW g \in pushed
      PROVE  waiting'[g] \subseteq waiting[g] \/ g \in doubled'
    <2>1. FormsInHand /\ OneAtATime /\ g \in Keys
        BY <1>1 DEF SiteInv, FormsInHand
    <2>2. ASSUME NEW f \in Keys, NEW r \in Requests, NEW p \in Payloads, Click(f, r, p)
          PROVE  waiting'[g] \subseteq waiting[g] \/ g \in doubled'
        <3>1. CASE f = g /\ g \notin doubled
            BY <2>1, <2>2, <3>1 DEF Click, OneAtATime, OnScreen
        <3>2. CASE f # g \/ g \in doubled
            BY <2>1, <2>2, <3>2 DEF Click, FormsInHand
        <3> QED
            BY <3>1, <3>2
    <2>3. ASSUME NEW f \in Keys,
                 \/ Close(f) \/ Render(f) \/ Navigate(f)
                 \/ Mount(f)
                 \/ \E r \in Requests : Thank(f, r) \/ ShowError(f, r)
          PROVE  waiting'[g] \subseteq waiting[g]
        BY <2>1, <2>3 DEF Close, Render, Navigate, Mount, Thank, ShowError, Settle, FormsInHand
    <2>4. ASSUME UNCHANGED forms PROVE waiting'[g] \subseteq waiting[g]
        BY <2>4 DEF forms
    <2> QED
        BY <1>1, <2>2, <2>3, <2>4 DEF SiteNext, Serve, siteVars
<1>2. SiteInv /\ [SiteNext]_siteVars
        => [\A f \in pushed : waiting'[f] \subseteq waiting[f] \/ f \in doubled']_siteVars
    BY <1>1
<1> QED
    BY <1>2, SiteInvariance, PTL DEF SiteSpec, ImpatientClickCannotFire
=============================================================================
