------------------------------ MODULE Website ------------------------------
(***************************************************************************)
(* The booking form in visitors' browsers over the capture endpoint: every *)
(* mounted form has a key of its own, sends it with each attempt, disables *)
(* its button when React has rendered the busy state, and goes to the      *)
(* thank-you page or back to an error when an answer or a broken           *)
(* connection reaches it.                                                  *)
(*                                                                         *)
(* Sources: components/leads/book-call-form.tsx, lib/api-client.ts         *)
(* (submitLead, toApiError), over LeadCapture.  A form is named by its key; *)
(* a reload mounts another form, with another key, in the same tab.  What  *)
(* becomes of a form's values and of the attribution is in LeadForm.       *)
(***************************************************************************)
EXTENDS LeadCapture, FiniteSets

CONSTANTS
    Fits,       \* the payloads the client's schema lets through
    Sent        \* bound: the forms that are submitted; the others are only looked at

ASSUME WebsiteAssumption ==
    /\ Fits \subseteq Valid
    /\ Sent \subseteq Keys

VARIABLES
    state,     \* each form: "unmounted", "idle", "submitting", "error", "thanked" or "closed"
    disabled,  \* the forms whose button is rendered disabled
    pushed,    \* the forms that asked the router for the thank-you page
    waiting,   \* of each form, the requests whose fetch is not settled
    doubled    \* history: forms submitted again while they were submitting

forms    == <<state, disabled, pushed, waiting, doubled>>
siteVars == <<vars, forms>>

OnScreen == {"idle", "submitting", "error"}

SiteInit ==
    /\ Init
    /\ state    = [f \in Keys |-> "unmounted"]
    /\ disabled = {}
    /\ pushed   = {}
    /\ waiting  = [f \in Keys |-> {}]
    /\ doubled  = {}

-----------------------------------------------------------------------------
(***************************************************************************)
(* The form mounts.                                                        *)
(***************************************************************************)
Mount(f) ==
    /\ state[f] = "unmounted"
    /\ state' = [state EXCEPT ![f] = "idle"]
    /\ UNCHANGED <<vars, disabled, pushed, waiting, doubled>>

(***************************************************************************)
(* The visitor reloads or leaves: the requests go on without the form.     *)
(***************************************************************************)
Close(f) ==
    /\ state[f] \in OnScreen
    /\ state'    = [state EXCEPT ![f] = "closed"]
    /\ disabled' = disabled \ {f}
    /\ waiting'  = [waiting EXCEPT ![f] = {}]
    /\ UNCHANGED <<vars, pushed, doubled>>

(***************************************************************************)
(* handleSubmit, when the client's schema lets the values through: onSubmit*)
(* sets the state and sends the request.  The button is as it was rendered.*)
(***************************************************************************)
Click(f, r, p) ==
    /\ f \in Sent
    /\ state[f] \in OnScreen
    /\ f \notin disabled
    /\ p \in Fits
    /\ Submit(r, f, p)
    /\ state'    = [state EXCEPT ![f] = "submitting"]
    /\ waiting'  = [waiting EXCEPT ![f] = @ \cup {r}]
    /\ doubled'  = IF state[f] = "submitting" THEN doubled \cup {f} ELSE doubled
    /\ UNCHANGED <<disabled, pushed>>

(***************************************************************************)
(* React renders: disabled={busy}.                                         *)
(***************************************************************************)
Render(f) ==
    /\ state[f] \in OnScreen
    /\ (f \in disabled) # (state[f] = "submitting")
    /\ disabled' = IF state[f] = "submitting" THEN disabled \cup {f} ELSE disabled \ {f}
    /\ UNCHANGED <<vars, state, pushed, waiting, doubled>>

Settle(f, r) ==
    /\ r \in waiting[f]
    /\ waiting' = [waiting EXCEPT ![f] = @ \ {r}]
    /\ UNCHANGED <<vars, disabled, doubled>>

(***************************************************************************)
(* Variant: whatever came back, the visitor is thanked.                    *)
(***************************************************************************)
ThankAnyway(f, r) ==
    /\ pc[r] = "answered"
    /\ Settle(f, r)
    /\ pushed' = pushed \cup {f}
    /\ UNCHANGED state

(***************************************************************************)
(* Variant: the form is reset when the answer is in.                       *)
(***************************************************************************)
ThankAndReset(f, r) ==
    /\ Answered(r)
    /\ Settle(f, r)
    /\ pushed' = pushed \cup {f}
    /\ state'  = [state EXCEPT ![f] = "idle"]

(***************************************************************************)
(* A 2xx: router.push, and the form stays "submitting".                    *)
(***************************************************************************)
Thank(f, r) ==
    /\ Answered(r)
    /\ Settle(f, r)
    /\ pushed' = pushed \cup {f}
    /\ UNCHANGED state

(***************************************************************************)
(* Variant: only answers with an error are an error, a fetch that rejects  *)
(* is not caught.                                                          *)
(***************************************************************************)
ShowAnswerOnly(f, r) ==
    /\ pc[r] = "answered" /\ reply[r].status \notin Accepted \cup {500}
    /\ Settle(f, r)
    /\ state' = [state EXCEPT ![f] = "error"]
    /\ UNCHANGED pushed

(***************************************************************************)
(* Any other answer, or a fetch that rejects: the network fails before the *)
(* request arrives, while it is served or on the way back.                 *)
(***************************************************************************)
ShowError(f, r) ==
    /\ \/ pc[r] = "answered" /\ reply[r].status \notin Accepted
       \/ pc[r] # "unsent"
    /\ Settle(f, r)
    /\ state' = [state EXCEPT ![f] = "error"]
    /\ UNCHANGED pushed

Navigate(f) ==
    /\ f \in pushed
    /\ state[f] \in OnScreen
    /\ state'    = [state EXCEPT ![f] = "thanked"]
    /\ disabled' = disabled \ {f}
    /\ waiting'  = [waiting EXCEPT ![f] = {}]
    /\ UNCHANGED <<vars, pushed, doubled>>

-----------------------------------------------------------------------------
(***************************************************************************)
(* The endpoint's side of a request.  The form treats 422, 429 and 503     *)
(* alike, so one of them stands for the three; values that fit the schema  *)
(* are values the domain accepts.                                          *)
(***************************************************************************)
Serve(r) ==
    /\ \/ TurnAway(r, 429)
       \/ FindExisting(r)
       \/ FindNothing(r)
       \/ Create(r)
       \/ CreateUnheard(r)
       \/ Conflict(r)
       \/ Fail(r)
    /\ UNCHANGED forms

SiteNext ==
    \/ \E f \in Keys, r \in Requests, p \in Payloads : Click(f, r, p)
    \/ \E f \in Keys, r \in Requests : Thank(f, r) \/ ShowError(f, r)
    \/ \E f \in Keys : Mount(f) \/ Close(f) \/ Render(f) \/ Navigate(f)
    \/ \E r \in Requests : Serve(r)

(***************************************************************************)
(* Requests are served and their answers delivered or their connections    *)
(* broken, and the browser renders and navigates; nobody has to click.     *)
(***************************************************************************)
SiteFairness ==
    /\ \A r \in Requests : WF_siteVars(Serve(r))
    /\ \A f \in Keys : WF_siteVars(Render(f)) /\ WF_siteVars(Navigate(f))
    /\ \A f \in Keys, r \in Requests : WF_siteVars(Thank(f, r) \/ ShowError(f, r))

SiteSpec == SiteInit /\ [][SiteNext]_siteVars /\ SiteFairness
-----------------------------------------------------------------------------
(***************************************************************************)
(* Whoever is sent to "Thanks - that is with us" has a lead stored under   *)
(* the key of that very form, whichever of its requests was answered.      *)
(***************************************************************************)
ThankedMeansStored == \A f \in pushed : LeadsWith(f) # {}

(***************************************************************************)
(* "the button stays disabled through the navigation, so an impatient      *)
(* second click cannot fire" (book-call-form.tsx): once the thank-you page *)
(* was asked for, the form is submitted again only if it was submitted     *)
(* twice before its button was rendered disabled, when the loser's error   *)
(* enables it again.                                                       *)
(***************************************************************************)
ImpatientClickCannotFire ==
    [][\A f \in pushed : waiting'[f] \subseteq waiting[f] \/ f \in doubled']_siteVars

(***************************************************************************)
(* A form that is sending does not stay so: it is thanked, shows an error  *)
(* from which it can be sent again, or is left.                            *)
(***************************************************************************)
EveryClickIsAnswered ==
    \A f \in Keys :
        state[f] = "submitting" ~>
            \/ state[f] \in {"thanked", "closed"}
            \/ state[f] = "error" /\ f \notin disabled
=============================================================================
