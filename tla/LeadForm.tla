------------------------------ MODULE LeadForm ------------------------------
(***************************************************************************)
(* What becomes of the values of the strategy-call form on their way to    *)
(* the leads table: the client's schema lets them through, the attribution *)
(* that the tab remembers goes with them, the API's schema checks them     *)
(* anew and completes them, the aggregate looks at them once more, and     *)
(* they must fit the columns.                                              *)
(*                                                                         *)
(* Sources: lib/lead-form-schema.ts, book-call-form.tsx (onSubmit),        *)
(* schemas/leads.py, api/v1/leads.py, Lead._validate, models.py and the    *)
(* first migration; PostgreSQL, which unlike SQLite enforces the lengths.  *)
(* A text is what trimming leaves of it, known by its length; the selects, *)
(* whose vocabularies are shared, the key and landing_page, both of a fixed*)
(* length, are left out, and one campaign stands for the five parameters.  *)
(* What is concurrent about a submission, and an answer that never comes,  *)
(* are in Website and LeadCapture.                                         *)
(***************************************************************************)
EXTENDS Integers

CONSTANTS
    Texts,      \* the texts somebody may type or a URL may carry
    Forms,      \* the forms somebody may fill in
    Campaigns,  \* what the utm parameters of a URL may name
    Referrers   \* the lengths of document.referrer

Inputs   == {"first_name", "last_name", "company_name", "phone", "website", "message"}
Required == {"first_name", "last_name", "company_name"}

ASSUME LeadFormAssumption ==
    /\ Texts \subseteq {t \in [chars : Nat, pairs : Nat] : t.pairs <= t.chars}
    /\ Forms \subseteq [texts  : [Inputs -> Texts],
                        email  : {"valid", "odd", "wrong"},
                        scheme : BOOLEAN]
    /\ \A form \in Forms : form.scheme => form.texts["website"].chars >= 7
    /\ "none" \notin Campaigns
    /\ Referrers \subseteq Nat

VARIABLES
    stash,    \* sessionStorage of the tab: the attribution it remembers
    latest,   \* history: the campaign of the last visit that carried one and was remembered
    phase,    \* the form: "away", "idle", "submitting", "error" or "thanked"
    entered,  \* the values that were submitted last
    shown,    \* the status of the answer, and the inputs it is shown at
    row       \* the stored lead: the lengths of its columns, and its campaign

formVars == <<stash, latest, phase, entered, shown, row>>

Nothing  == [kept |-> FALSE, campaign |-> "none", chars |-> 0, torn |-> FALSE, referrer |-> 0]
NotShown == [status |-> 0, at |-> {}]
NotStored == [lengths |-> [i \in Inputs |-> 0], campaign |-> "none"]

emptyLeadForm ==
    [texts  |-> [i \in Inputs |-> [chars |-> 0, pairs |-> 0]],
     email  |-> "wrong",
     scheme |-> FALSE]

FormInit ==
    /\ stash   = Nothing
    /\ latest  = "none"
    /\ phase   = "away"
    /\ entered = emptyLeadForm
    /\ shown   = NotShown
    /\ row     = NotStored

-----------------------------------------------------------------------------
(***************************************************************************)
(* JavaScript counts UTF-16 code units, of which a character outside the   *)
(* basic plane is a pair; Python and PostgreSQL count characters.          *)
(***************************************************************************)
Units(t) == t.chars + t.pairs

(***************************************************************************)
(* value.slice(0, 255): some whole pairs among the units that are left,    *)
(* and perhaps the first half of another one at their end.                 *)
(***************************************************************************)
Slices(t) ==
    IF Units(t) <= 255 THEN {[chars |-> t.chars, torn |-> FALSE]}
    ELSE {s \in [chars : 128..255, torn : BOOLEAN] :
            LET whole == 255 - s.chars
                half  == IF s.torn THEN 1 ELSE 0
            IN  /\ whole + half <= t.pairs
                /\ s.chars - whole - half <= t.chars - t.pairs}

(***************************************************************************)
(* Variant: every visit is remembered, the ones without a campaign too.    *)
(***************************************************************************)
CaptureAttributionAnew(campaign, slice, referrer) ==
    /\ stash'  = [kept |-> TRUE, campaign |-> campaign, chars |-> slice.chars,
                  torn |-> slice.torn, referrer |-> referrer]
    /\ latest' = IF campaign = "none" THEN latest ELSE campaign

(***************************************************************************)
(* captureAttribution: what is remembered is kept unless the URL carries a *)
(* campaign; the referrer is taken as it is.                               *)
(***************************************************************************)
CaptureAttribution(campaign, slice, referrer) ==
    IF stash.kept /\ campaign = "none" THEN UNCHANGED <<stash, latest>>
    ELSE /\ stash'  = [kept |-> TRUE, campaign |-> campaign, chars |-> slice.chars,
                       torn |-> slice.torn, referrer |-> referrer]
         /\ latest' = IF campaign = "none" THEN latest ELSE campaign

(***************************************************************************)
(* The form mounts, on arrival or anew, though not while an answer is on   *)
(* its way.  Storage may refuse.                                           *)
(***************************************************************************)
Mounted ==
    /\ phase # "submitting"
    /\ phase'   = "idle"
    /\ entered' = emptyLeadForm
    /\ shown'   = NotShown
    /\ row'     = NotStored

ArriveByCampaign ==
    /\ Mounted
    /\ \E campaign \in Campaigns, t \in Texts, referrer \in Referrers :
          /\ t.chars > 0
          /\ \E slice \in Slices(t) : CaptureAttribution(campaign, slice, referrer)

ArriveDirectly ==
    /\ Mounted
    /\ \E referrer \in Referrers :
          CaptureAttribution("none", [chars |-> 0, torn |-> FALSE], referrer)

ArriveUnremembered ==
    /\ Mounted
    /\ UNCHANGED <<stash, latest>>

-----------------------------------------------------------------------------
(***************************************************************************)
(* leadFormSchema                                                          *)
(***************************************************************************)
ClientLimit ==
    [first_name |-> 120, last_name |-> 120, company_name |-> 255,
     phone |-> 50, website |-> 512, message |-> 5000]

Passes(form) ==
    /\ form.email # "wrong"
    /\ \A i \in Inputs : Units(form.texts[i]) <= ClientLimit[i]
    /\ \A i \in Required : form.texts[i].chars >= 1

(***************************************************************************)
(* onSubmit, first or after an error: the values, and what readAttribution *)
(* finds; a storage that took the attribution gives it back.               *)
(***************************************************************************)
SubmitForm(form) ==
    /\ phase \in {"idle", "error"}
    /\ Passes(form)
    /\ phase'   = "submitting"
    /\ entered' = form
    /\ shown'   = NotShown
    /\ UNCHANGED <<stash, latest, row>>

(***************************************************************************)
(* LeadCreateRequest and AttributionRequest: what they complain of.  Half  *)
(* a pair is no text.                                                      *)
(***************************************************************************)
SchemaLimit ==
    [first_name |-> 120, last_name |-> 120, company_name |-> 255,
     phone |-> 50, website |-> 512, message |-> 5000]

Complaints ==
    {i \in Inputs : entered.texts[i].chars > SchemaLimit[i]}
        \cup {i \in Required : entered.texts[i].chars < 1}
        \cup {e \in {"email"} : entered.email # "valid"}
        \cup {a \in {"attribution.utm"} : stash.chars > 255 \/ stash.torn}
        \cup {a \in {"attribution.referrer"} : stash.referrer > 1024}

(***************************************************************************)
(* Lead._validate.                                                         *)
(***************************************************************************)
MaxMessageLength == 5000

IsMeaningful ==
    /\ \A i \in Required : entered.texts[i].chars >= 1
    /\ entered.texts["message"].chars <= MaxMessageLength

(***************************************************************************)
(* The row: a website without a scheme gets one, an empty one stays none.  *)
(***************************************************************************)
Prefix == 8

Row == [lengths  |-> [i \in Inputs |->
                        LET n == entered.texts[i].chars IN
                        IF i = "website" /\ n > 0 /\ ~entered.scheme THEN n + Prefix ELSE n],
        campaign |-> stash.campaign]

ColumnWidth ==
    [first_name |-> 120, last_name |-> 120, company_name |-> 255,
     phone |-> 50, website |-> 512]

FitsColumns ==
    /\ \A i \in DOMAIN ColumnWidth : Row.lengths[i] <= ColumnWidth[i]
    /\ stash.chars <= 255
    /\ stash.referrer <= 1024

(***************************************************************************)
(* The three answers.  Of the fields a 422 names, the form shows those it  *)
(* has.                                                                    *)
(***************************************************************************)
ShowAnswer(status, fields) ==
    /\ phase' = "error"
    /\ shown' = [status |-> status, at |-> fields \cap (Inputs \cup {"email"})]
    /\ UNCHANGED <<stash, latest, entered, row>>

RefuseForm ==
    /\ phase = "submitting"
    /\ Complaints # {} \/ ~IsMeaningful
    /\ ShowAnswer(422, Complaints)

FailToStore ==
    /\ phase = "submitting"
    /\ Complaints = {} /\ IsMeaningful
    /\ ~FitsColumns
    /\ ShowAnswer(500, {})

StoreForm ==
    /\ phase = "submitting"
    /\ Complaints = {} /\ IsMeaningful
    /\ FitsColumns
    /\ phase' = "thanked"
    /\ shown' = [status |-> 201, at |-> {}]
    /\ row'   = Row
    /\ UNCHANGED <<stash, latest, entered>>

FormNext ==
    \/ ArriveByCampaign
    \/ ArriveDirectly
    \/ ArriveUnremembered
    \/ \E form \in Forms : SubmitForm(form)
    \/ RefuseForm
    \/ FailToStore
    \/ StoreForm

FormSpec == FormInit /\ [][FormNext]_formVars
-----------------------------------------------------------------------------
(***************************************************************************)
(* Why a form that the client's schema let through may be refused all the  *)
(* same: an address only its pattern takes, a referrer nobody cut, a       *)
(* campaign that was cut inside a character, and a website that is longer  *)
(* than its column once it has a scheme.                                   *)
(***************************************************************************)
Reasons ==
    {e \in {"email"}    : entered.email = "odd"}
        \cup {r \in {"referrer"} : stash.referrer > 1024}
        \cup {c \in {"campaign"} : stash.torn}
        \cup {w \in {"website"}  : /\ ~entered.scheme
                                   /\ entered.texts["website"].chars \in 505..512}

(***************************************************************************)
(* Layers that check the same form by different rules agree on it but for  *)
(* these: without a reason it is stored, as it was entered and with the    *)
(* campaign of the last visit that carried one; with one it never is, and  *)
(* of the reasons the visitor is only ever shown the address.  That the    *)
(* others are real is a defect: "losing attribution must never break the   *)
(* form" (lead-form-schema.ts).                                            *)
(***************************************************************************)
EnquiryIsKept ==
    /\ phase = "thanked" =>
          /\ Reasons = {}
          /\ row.campaign = latest
          /\ \A i \in Inputs \ {"website"} : row.lengths[i] = entered.texts[i].chars
          /\ row.lengths["website"] - entered.texts["website"].chars \in {0, Prefix}
    /\ phase = "error" =>
          /\ Reasons # {}
          /\ shown.at = Reasons \cap {"email"}
=============================================================================
