------------------------------ MODULE LeadDesk ------------------------------
(***************************************************************************)
(* Salespeople at the page of one lead: the page as it was rendered, with  *)
(* the status, the timeline and the buttons the backend allowed; the       *)
(* clicks, the proxy, the request at the backend, and the refresh.         *)
(*                                                                         *)
(* Sources: components/dashboard/lead-actions.tsx (LeadActions), the page  *)
(* dashboard/leads/[id]/page.tsx, lib/api-server.ts, the proxy             *)
(* app/api/internal/[...path]/route.ts, api/v1/dashboard.py,               *)
(* infrastructure/database/read_models.py (get_detail).  What the requests *)
(* do to the row is LeadRow's.                                             *)
(*                                                                         *)
(* A desk is a tab.  One that is closed while its request is under way is  *)
(* not modelled: the request goes on, as one of another desk does.         *)
(***************************************************************************)
EXTENDS LeadRow, FiniteSets

VARIABLES
    page,    \* what the tab shows: None before the page is there, and for ErrorState
    loading, \* the load of the page: "no", "wanted", or "row" once the row was read
    fetched, \* the row that load read
    busy,    \* LeadActions: the label of the button that is working, or None
    pending, \* LeadActions: the transition of the refresh is not over
    notice,  \* LeadActions: the error it shows, or None
    phase,   \* the request of the button: where it is, how it ended
    moved    \* history: how many moves there were with the desk's last one

deskVars == <<page, loading, fetched, busy, pending, notice, phase, moved>>
allVars  == <<vars, deskVars>>

Labels == Lifecycle!LeadStatuses \cup {"rescore", "dispatch"}

ASSUME LeadDeskAssumption == None \notin Labels \cup {"refused", "failed"}

DeskInit ==
    /\ Init
    /\ page    = [d \in Desks |-> None]
    /\ loading = [d \in Desks |-> "no"]
    /\ fetched = [d \in Desks |-> None]
    /\ busy    = [d \in Desks |-> None]
    /\ pending = [d \in Desks |-> FALSE]
    /\ notice  = [d \in Desks |-> None]
    /\ phase   = [d \in Desks |-> "none"]
    /\ moved   = [d \in Desks |-> 0]

Disabled(d) == pending[d] \/ busy[d] # None

-----------------------------------------------------------------------------
(***************************************************************************)
(* The page is opened or loaded again, which forgets what LeadActions knew.*)
(***************************************************************************)
Visit(d) ==
    /\ ~Disabled(d) /\ loading[d] = "no"
    /\ page'    = [page EXCEPT ![d] = None]
    /\ loading' = [loading EXCEPT ![d] = "wanted"]
    /\ notice'  = [notice EXCEPT ![d] = None]
    /\ UNCHANGED <<vars, fetched, busy, pending, phase, moved>>

(***************************************************************************)
(* load_lead_with_activities: the row by one SELECT, its activities by     *)
(* another, each of what is committed at its time.                         *)
(***************************************************************************)
ReadRow(d) ==
    /\ loading[d] = "wanted"
    /\ loading' = [loading EXCEPT ![d] = "row"]
    /\ fetched' = [fetched EXCEPT ![d] = [status |-> row.status, at |-> Len(history)]]
    /\ UNCHANGED <<vars, page, busy, pending, notice, phase, moved>>

(***************************************************************************)
(* Variant: the activities are read before the row.                        *)
(***************************************************************************)
ShownTimelineFirst(d) ==
    [status |-> row.status, moves |-> SubSeq(history, 1, fetched[d].at),
     at |-> Len(history)]

(***************************************************************************)
(* What get_detail returns and the page renders: `at`, which no page       *)
(* holds, is how many moves the row that was read had behind it.           *)
(***************************************************************************)
Shown(d) == [status |-> fetched[d].status, moves |-> history, at |-> fetched[d].at]

ReadTimeline(d) ==
    /\ loading[d] = "row"
    /\ page'    = [page EXCEPT ![d] = Shown(d)]
    /\ loading' = [loading EXCEPT ![d] = "no"]
    /\ fetched' = [fetched EXCEPT ![d] = None]
    /\ pending' = [pending EXCEPT ![d] = FALSE]
    /\ UNCHANGED <<vars, busy, notice, phase, moved>>

(***************************************************************************)
(* The backend cannot be reached, or answers with an error: ErrorState, in *)
(* place of the whole page.                                                *)
(***************************************************************************)
LoadFails(d) ==
    /\ loading[d] # "no"
    /\ page'    = [page EXCEPT ![d] = None]
    /\ loading' = [loading EXCEPT ![d] = "no"]
    /\ fetched' = [fetched EXCEPT ![d] = None]
    /\ pending' = [pending EXCEPT ![d] = FALSE]
    /\ notice'  = [notice EXCEPT ![d] = None]
    /\ UNCHANGED <<vars, busy, phase, moved>>

-----------------------------------------------------------------------------
(***************************************************************************)
(* Variant: the list of buttons is written into the page.                  *)
(***************************************************************************)
OfferedHardcoded(status) == Lifecycle!LeadStatuses \ {"new"}

(***************************************************************************)
(* next_statuses, by which the backend fills allowed_next_statuses.        *)
(***************************************************************************)
Offered(status) == {to \in Lifecycle!LeadStatuses : Lifecycle!CanTransition(status, to)}

Moving == {d \in Desks : busy[d] \in Lifecycle!LeadStatuses}

(***************************************************************************)
(* run: one of the buttons that are enabled.  MaxMoves bounds the clicks.  *)
(***************************************************************************)
Click(d, label) ==
    /\ page[d] # None /\ ~Disabled(d)
    /\ \/ label \in Offered(page[d].status)
          /\ Len(history) + Cardinality(Moving) < MaxMoves
       \/ label \in {"rescore", "dispatch"}
    /\ busy'   = [busy EXCEPT ![d] = label]
    /\ notice' = [notice EXCEPT ![d] = None]
    /\ phase'  = [phase EXCEPT ![d] = "sent"]
    /\ UNCHANGED <<vars, page, loading, fetched, pending, moved>>

Becomes(d, now) ==
    /\ phase' = [phase EXCEPT ![d] = now]
    /\ UNCHANGED <<page, loading, fetched, busy, pending, notice>>

(***************************************************************************)
(* The proxy forwards the request and the use case reads the lead.         *)
(***************************************************************************)
Serve(d) ==
    /\ phase[d] = "sent"
    /\ busy[d] # "dispatch"
    /\ Load(d)
    /\ Becomes(d, "serving")
    /\ UNCHANGED moved

(***************************************************************************)
(* update_status: the move is committed, or the domain refuses it.         *)
(***************************************************************************)
ServeMove(d) ==
    /\ phase[d] = "serving"
    /\ Transition(d, busy[d])
    /\ Becomes(d, "served")
    /\ moved' = [moved EXCEPT ![d] = Len(history')]

RefuseMove(d) ==
    /\ phase[d] = "serving"
    /\ busy[d] \in Lifecycle!LeadStatuses
    /\ Refuse(d, busy[d])
    /\ Becomes(d, "refused")
    /\ UNCHANGED moved

ServeRescore(d) ==
    /\ phase[d] = "serving"
    /\ busy[d] = "rescore"
    /\ \E version \in RuleVersions : Rescore(d, version)
    /\ Becomes(d, "served")
    /\ UNCHANGED moved

(***************************************************************************)
(* A dispatch pass, which leaves the lead's status alone.                  *)
(***************************************************************************)
ServeDispatch(d) ==
    /\ phase[d] = "sent"
    /\ busy[d] = "dispatch"
    /\ Becomes(d, "served")
    /\ UNCHANGED <<vars, moved>>

(***************************************************************************)
(* The proxy cannot reach the backend (502), the backend fails before the  *)
(* commit or after it, or an answer is lost.                               *)
(***************************************************************************)
Break(d) ==
    /\ \/ phase[d] \in {"sent", "served"} /\ UNCHANGED vars
       \/ phase[d] = "serving" /\ Rollback(d)
    /\ Becomes(d, "failed")
    /\ UNCHANGED moved

-----------------------------------------------------------------------------
(***************************************************************************)
(* Variant: the refresh is not a transition, as in SalesBriefAction.       *)
(***************************************************************************)
RefreshUntracked(d) ==
    /\ phase[d] = "served"
    /\ phase'   = [phase EXCEPT ![d] = "none"]
    /\ busy'    = [busy EXCEPT ![d] = None]
    /\ loading' = [loading EXCEPT ![d] = "wanted"]
    /\ UNCHANGED <<vars, page, fetched, pending, notice, moved>>

(***************************************************************************)
(* The work is done: the page is fetched again, and the buttons stay       *)
(* disabled until it is there.                                             *)
(***************************************************************************)
Refresh(d) ==
    /\ phase[d] = "served"
    /\ phase'   = [phase EXCEPT ![d] = "none"]
    /\ busy'    = [busy EXCEPT ![d] = None]
    /\ loading' = [loading EXCEPT ![d] = "wanted"]
    /\ pending' = [pending EXCEPT ![d] = TRUE]
    /\ UNCHANGED <<vars, page, fetched, notice, moved>>

(***************************************************************************)
(* Variant: the button is given back by the success alone, not `finally`.  *)
(***************************************************************************)
ShowErrorOnly(d) ==
    /\ phase[d] \in {"refused", "failed"}
    /\ phase'  = [phase EXCEPT ![d] = "none"]
    /\ notice' = [notice EXCEPT ![d] = phase[d]]
    /\ UNCHANGED <<vars, page, loading, fetched, busy, pending, moved>>

ShowError(d) ==
    /\ phase[d] \in {"refused", "failed"}
    /\ phase'  = [phase EXCEPT ![d] = "none"]
    /\ busy'   = [busy EXCEPT ![d] = None]
    /\ notice' = [notice EXCEPT ![d] = phase[d]]
    /\ UNCHANGED <<vars, page, loading, fetched, pending, moved>>

-----------------------------------------------------------------------------
Answering(d) ==
    \/ ReadRow(d) \/ ReadTimeline(d) \/ LoadFails(d)
    \/ Serve(d) \/ ServeMove(d) \/ RefuseMove(d) \/ ServeRescore(d) \/ ServeDispatch(d)
    \/ Break(d)
    \/ Refresh(d) \/ ShowError(d)

DeskNext ==
    \E d \in Desks :
        \/ Visit(d)
        \/ \E label \in Labels : Click(d, label)
        \/ Answering(d)

(***************************************************************************)
(* Nothing waits for ever: every fetch is answered, refused or times out.  *)
(***************************************************************************)
DeskSpec == DeskInit /\ [][DeskNext]_allVars /\ \A d \in Desks : WF_allVars(Answering(d))
-----------------------------------------------------------------------------
(***************************************************************************)
(* "The UI therefore cannot offer a transition the entity would reject"    *)
(* (lead-actions.tsx), as far as it is so: the domain refuses a button of  *)
(* the page only when the status moved after the page's row was read.      *)
(***************************************************************************)
RefusedOnlyIfMoved ==
    \A d \in Desks :
        phase[d] = "refused" =>
            \E i \in page[d].at + 1 .. Len(history) : history[i][1] # history[i][2]

(***************************************************************************)
(* The timeline on a page explains the status beside it, though they are   *)
(* read one after the other while others move the lead: the status is      *)
(* `new`, or one of the moves shown led to it.                             *)
(***************************************************************************)
PageIsExplained ==
    \A d \in Desks :
        page[d] # None =>
            \/ page[d].status = "new"
            \/ \E i \in 1..Len(page[d].moves) : page[d].moves[i][2] = page[d].status

(***************************************************************************)
(* "Re-fetch the Server Component so the timeline and badges reflect the   *)
(* change" (lead-actions.tsx): buttons that can be clicked, with no error  *)
(* beside them, are those of a page read after the desk's own last move.   *)
(***************************************************************************)
OwnMoveIsShown ==
    \A d \in Desks :
        page[d] # None /\ ~Disabled(d) /\ notice[d] = None =>
            page[d].at >= moved[d]

(***************************************************************************)
(* A button that is working is given back, however its request ends.       *)
(***************************************************************************)
ButtonsComeBack == \A d \in Desks : busy[d] # None ~> ~Disabled(d)
=============================================================================
