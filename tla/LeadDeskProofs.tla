--------------------------- MODULE LeadDeskProofs ---------------------------
(***************************************************************************)
(* Proofs about LeadDesk: for any number of desks at a lead's page, what   *)
(* the page shows is explained by its own timeline, is no older than the   *)
(* desk's own last move, and offers moves that are refused only when       *)
(* somebody moved the lead meanwhile.                                      *)
(***************************************************************************)
EXTENDS LeadDesk, LeadRowProofs, FiniteSetTheorems

Statuses  == Lifecycle!LeadStatuses
Timelines == Seq(Statuses \X Statuses)
Phases    == {"none", "sent", "serving", "served", "refused", "failed"}

(***************************************************************************)
(* A status is explained by the moves before it, and as long as nobody has *)
(* moved the lead since a view of it, the lead is as it was seen.          *)
(***************************************************************************)
Explained(status, moves) ==
    \/ status = "new"
    \/ \E i \in 1..Len(moves) : moves[i][2] = status

Unmoved(at, moves) == \A i \in at + 1 .. Len(moves) : moves[i][1] = moves[i][2]

SoFar(view, status, moves) ==
    /\ view.at \in 0..Len(moves)
    /\ Unmoved(view.at, moves) => status = view.status

(***************************************************************************)
(* Which requests and loads a desk can have under way at once.             *)
(***************************************************************************)
DeskTypes ==
    /\ loading \in [Desks -> {"no", "wanted", "row"}]
    /\ busy \in [Desks -> Labels \cup {None}]
    /\ pending \in [Desks -> BOOLEAN]
    /\ phase \in [Desks -> Phases]
    /\ moved \in [Desks -> Nat]
    /\ page = [d \in Desks |-> page[d]]
    /\ fetched = [d \in Desks |-> fetched[d]]
    /\ notice = [d \in Desks |-> notice[d]]

DeskInHand ==
    \A d \in Desks :
        /\ phase[d] = "none" <=> busy[d] = None
        /\ phase[d] = "serving" <=> pc[d] # "idle"
        /\ phase[d] = "serving" => pc[d] = "loaded"
        /\ busy[d] # None => loading[d] = "no" /\ ~pending[d] /\ page[d] # None
        /\ loading[d] # "no" => pending[d] \/ page[d] = None
        /\ pending[d] => loading[d] # "no"

(***************************************************************************)
(* What was read was so, and is unless somebody moved the lead since.      *)
(***************************************************************************)
ViewsWereSo ==
    \A d \in Desks :
        /\ moved[d] <= Len(history)
        /\ page[d] # None => SoFar(page[d], row.status, history)
        /\ loading[d] = "row" =>
              /\ SoFar(fetched[d], row.status, history)
              /\ Explained(fetched[d].status, history)
              /\ fetched[d].at >= moved[d]
        /\ phase[d] = "serving" /\ Unmoved(page[d].at, history) =>
              loaded[d].status = page[d].status
        /\ busy[d] \in Statuses => busy[d] \in Offered(page[d].status)

DeskInv ==
    /\ TypeInv
    /\ DeskTypes
    /\ DeskInHand
    /\ Explained(row.status, history)
    /\ ViewsWereSo
    /\ PageIsExplained
    /\ OwnMoveIsShown
    /\ RefusedOnlyIfMoved
-----------------------------------------------------------------------------
(***************************************************************************)
(* One move more: what was explained stays so, and a view that is as the   *)
(* lead was before it is as the lead is, unless the move changed anything. *)
(***************************************************************************)
LEMMA OneMoveMore ==
    ASSUME NEW h \in Timelines, NEW m \in Statuses \X Statuses
    PROVE  /\ Append(h, m) \in Timelines
           /\ Len(Append(h, m)) = Len(h) + 1
           /\ Append(h, m)[Len(h) + 1] = m
           /\ \A i \in 1..Len(h) : Append(h, m)[i] = h[i]
BY DEF Timelines

LEMMA ExplainedStays ==
    ASSUME NEW h \in Timelines, NEW m \in Statuses \X Statuses, NEW status, Explained(status, h)
    PROVE  Explained(status, Append(h, m))
BY OneMoveMore DEF Explained, Timelines

LEMMA UnmovedBefore ==
    ASSUME NEW h \in Timelines, NEW m \in Statuses \X Statuses, NEW at \in 0..Len(h),
           Unmoved(at, Append(h, m))
    PROVE  Unmoved(at, h) /\ m[1] = m[2]
<1>1. Len(h) \in Nat
    BY DEF Timelines
<1>2. \A i \in at + 1 .. Len(h) + 1 : Append(h, m)[i][1] = Append(h, m)[i][2]
    BY OneMoveMore DEF Unmoved
<1>3. Unmoved(at, h)
    BY <1>1, <1>2, OneMoveMore DEF Unmoved
<1>4. m[1] = m[2]
    BY <1>1, <1>2, OneMoveMore
<1> QED
    BY <1>3, <1>4

LEMMA SoFarStays ==
    ASSUME NEW h \in Timelines, NEW from \in Statuses, NEW to \in Statuses,
           NEW before, NEW after, from = to => after = before,
           NEW view, SoFar(view, before, h)
    PROVE  SoFar(view, after, Append(h, <<from, to>>))
<1>1. Len(h) \in Nat /\ view.at \in 0..Len(h)
    BY DEF Timelines, SoFar
<1>2. view.at \in 0..Len(Append(h, <<from, to>>))
    BY <1>1, OneMoveMore
<1>3. ASSUME Unmoved(view.at, Append(h, <<from, to>>)) PROVE after = view.status
    <2>1. Unmoved(view.at, h) /\ from = to
        BY <1>1, <1>3, UnmovedBefore
    <2> QED
        BY <2>1 DEF SoFar
<1> QED
    BY <1>2, <1>3 DEF SoFar
-----------------------------------------------------------------------------
(***************************************************************************)
(* A move, as the row, the timeline and the other units of work see it.    *)
(***************************************************************************)
LEMMA MoveMoves ==
    ASSUME TypeInv, NEW d \in Desks, ServeMove(d)
    PROVE  /\ loaded[d].status \in Statuses /\ busy[d] \in Statuses
           /\ history \in Timelines
           /\ history' = Append(history, <<loaded[d].status, busy[d]>>)
           /\ row'.status = IF busy[d] = loaded[d].status THEN row.status ELSE busy[d]
<1>1. d \in Tasks /\ loaded[d] \in Rows
    BY DEF ServeMove, Transition, Tasks, TypeInv, InHand, Holding
<1>2. history \in Timelines /\ loaded[d].status \in Statuses
    BY <1>1 DEF TypeInv, TypeOK, Timelines, Statuses, Rows
<1>3. busy[d] \in Statuses
    BY <1>2 DEF ServeMove, Transition, MayMove, Statuses, Lifecycle!CanTransition,
                Lifecycle!AllowedTransitions, Lifecycle!LeadStatuses
<1>4. row'.status = IF busy[d] = loaded[d].status THEN row.status ELSE busy[d]
    BY <1>1 DEF ServeMove, Transition, Commit, Written, Rows
<1> QED
    BY <1>2, <1>3, <1>4 DEF ServeMove, Transition

(***************************************************************************)
(* What any other step of a desk is to the row.                            *)
(***************************************************************************)
LEMMA RowSide ==
    ASSUME TypeInv, NEW d \in Desks,
           Answering(d) \/ Visit(d) \/ \E label \in Labels : Click(d, label)
    PROVE  /\ TypeInv'
           /\ ServeMove(d) \/ (history' = history /\ row'.status = row.status)
<1>1. CASE UNCHANGED vars
    BY <1>1 DEF vars, TypeInv, TypeOK, InHand
<1>2. CASE Load(d) \/ Rollback(d)
    <2>1. [Next]_vars
        BY <1>2 DEF Next, Tasks
    <2> QED
        BY <1>2, <2>1, NextTypes DEF Load, Rollback
<1>3. CASE ServeMove(d)
    <2>1. [Next]_vars
        BY <1>3, MoveMoves DEF ServeMove, Next, Statuses
    <2> QED
        BY <1>3, <2>1, NextTypes
<1>4. CASE RefuseMove(d)
    <2>1. [Next]_vars /\ UNCHANGED <<row, history>>
        BY <1>4 DEF RefuseMove, Refuse, Next
    <2> QED
        BY <2>1, NextTypes
<1>5. CASE ServeRescore(d)
    <2>1. PICK version \in RuleVersions : Rescore(d, version)
        BY <1>5 DEF ServeRescore
    <2>2. d \in Tasks /\ pc[d] \in Holding /\ loaded[d] \in Rows
        BY <2>1 DEF Rescore, Tasks, TypeInv, InHand, Holding
    <2>3. /\ [loaded[d] EXCEPT !.score = version] \in Rows
          /\ [loaded[d] EXCEPT !.score = version]["status"] = loaded[d]["status"]
        BY <2>2 DEF Rows
    <2>4. TypeInv'
        BY <2>1, <2>2, <2>3, CommitTypes DEF Rescore, TypeInv, TypeOK
    <2>5. row'.status = row.status
        BY <2>1, <2>3 DEF Rescore, Commit, Written
    <2> QED
        BY <2>1, <2>4, <2>5 DEF Rescore
<1> QED
    BY <1>1, <1>2, <1>3, <1>4, <1>5
       DEF Answering, Visit, Click, ReadRow, ReadTimeline, LoadFails, Serve, ServeDispatch,
           Break, Refresh, ShowError

LEMMA DeskTypesKeep ==
    ASSUME DeskTypes, TypeInv, NEW d \in Desks,
           Answering(d) \/ Visit(d) \/ \E label \in Labels : Click(d, label)
    PROVE  DeskTypes'
<1> USE DEF DeskTypes
<1>1. CASE Visit(d) \/ ReadRow(d) \/ ReadTimeline(d) \/ LoadFails(d)
    BY <1>1 DEF Visit, ReadRow, ReadTimeline, LoadFails
<1>2. ASSUME NEW label \in Labels, Click(d, label) PROVE DeskTypes'
    BY <1>2 DEF Click, Phases
<1>3. CASE Serve(d) \/ RefuseMove(d) \/ ServeRescore(d) \/ ServeDispatch(d) \/ Break(d)
    BY <1>3 DEF Serve, RefuseMove, ServeRescore, ServeDispatch, Break, Becomes, Phases
<1>4. CASE ServeMove(d)
    <2>1. Len(history') \in Nat
        BY <1>4, MoveMoves, OneMoveMore DEF Timelines
    <2> QED
        BY <1>4, <2>1 DEF ServeMove, Becomes, Phases
<1>5. CASE Refresh(d) \/ ShowError(d)
    BY <1>5 DEF Refresh, ShowError, Phases
<1> QED
    BY <1>1, <1>2, <1>3, <1>4, <1>5 DEF Answering

(***************************************************************************)
(* One request or one load of a desk at a time.                            *)
(***************************************************************************)
LEMMA InHandKeeps ==
    ASSUME DeskTypes, DeskInHand, TypeInv, NEW d \in Desks,
           Answering(d) \/ Visit(d) \/ \E label \in Labels : Click(d, label)
    PROVE  DeskInHand'
<1> USE DEF DeskTypes, DeskInHand
<1>1. pc = [t \in Tasks |-> pc[t]] /\ Desks \subseteq Tasks
    BY DEF TypeInv, TypeOK, Tasks
<1>2. CASE Visit(d) \/ ReadRow(d) \/ ReadTimeline(d) \/ LoadFails(d)
    BY <1>1, <1>2 DEF Visit, ReadRow, ReadTimeline, LoadFails, Disabled, vars
<1>3. ASSUME NEW label \in Labels, Click(d, label) PROVE DeskInHand'
    BY <1>1, <1>3, LeadDeskAssumption DEF Click, Disabled, vars
<1>4. CASE Serve(d)
    BY <1>1, <1>4 DEF Serve, Load, Becomes
<1>5. CASE ServeMove(d) \/ RefuseMove(d) \/ ServeRescore(d)
    <2>1. pc' = [pc EXCEPT ![d] = "idle"]
        BY <1>5 DEF ServeMove, RefuseMove, ServeRescore, Transition, Refuse, Rescore,
                    Commit, Done
    <2>2. /\ phase[d] = "serving"
          /\ phase' = [phase EXCEPT ![d] = "served"] \/ phase' = [phase EXCEPT ![d] = "refused"]
          /\ UNCHANGED <<page, loading, fetched, busy, pending, notice>>
        BY <1>5 DEF ServeMove, RefuseMove, ServeRescore, Becomes
    <2> QED
        BY <1>1, <2>1, <2>2
<1>6. CASE ServeDispatch(d) \/ Break(d)
    BY <1>1, <1>6 DEF ServeDispatch, Break, Rollback, Done, Becomes, vars
<1>7. CASE Refresh(d) \/ ShowError(d)
    BY <1>1, <1>7 DEF Refresh, ShowError, vars
<1> QED
    BY <1>2, <1>3, <1>4, <1>5, <1>6, <1>7 DEF Answering

(***************************************************************************)
(* What the row is once the desk or another has taken a step.              *)
(***************************************************************************)
LEMMA RowExplained ==
    ASSUME TypeInv, Explained(row.status, history), NEW d \in Desks,
           Answering(d) \/ Visit(d) \/ \E label \in Labels : Click(d, label)
    PROVE  Explained(row'.status, history')
<1>1. CASE history' = history /\ row'.status = row.status
    BY <1>1
<1>2. CASE ServeMove(d)
    <2> DEFINE m == <<loaded[d].status, busy[d]>>
    <2>1. /\ history \in Timelines /\ m \in Statuses \X Statuses
          /\ history' = Append(history, m)
          /\ row'.status = row.status \/ row'.status = m[2]
        BY <1>2, MoveMoves
    <2>2. CASE row'.status = row.status
        BY <2>1, <2>2, ExplainedStays
    <2>3. CASE row'.status = m[2]
        <3>1. /\ Len(history) + 1 \in 1..Len(history')
              /\ history'[Len(history) + 1] = m
            BY <2>1, OneMoveMore DEF Timelines
        <3> QED
            BY <2>3, <3>1 DEF Explained
    <2> QED
        BY <2>1, <2>2, <2>3
<1> QED
    BY <1>1, <1>2, RowSide

(***************************************************************************)
(* A view of the lead is as good after a step as it was before.            *)
(***************************************************************************)
LEMMA ViewsStay ==
    ASSUME TypeInv, NEW d \in Desks,
           Answering(d) \/ Visit(d) \/ \E label \in Labels : Click(d, label)
    PROVE  /\ Len(history') \in Nat /\ Len(history) <= Len(history')
           /\ \A view : SoFar(view, row.status, history) => SoFar(view, row'.status, history')
           /\ \A at \in 0..Len(history) : Unmoved(at, history') => Unmoved(at, history)
           /\ \A status : Explained(status, history) => Explained(status, history')
<1>0. history \in Timelines
    BY DEF TypeInv, TypeOK, Timelines, Statuses
<1>1. CASE history' = history /\ row'.status = row.status
    BY <1>0, <1>1 DEF Timelines
<1>2. CASE ServeMove(d)
    <2> DEFINE m == <<loaded[d].status, busy[d]>>
    <2>1. /\ m \in Statuses \X Statuses /\ m[1] \in Statuses /\ m[2] \in Statuses
          /\ history' = Append(history, m)
          /\ m[1] = m[2] => row'.status = row.status
        BY <1>2, MoveMoves
    <2>2. Len(history') \in Nat /\ Len(history) <= Len(history')
        BY <1>0, <2>1, OneMoveMore DEF Timelines
    <2>3. \A view : SoFar(view, row.status, history) => SoFar(view, row'.status, history')
        BY <1>0, <2>1, SoFarStays
    <2>4. \A at \in 0..Len(history) : Unmoved(at, history') => Unmoved(at, history)
        BY <1>0, <2>1, UnmovedBefore
    <2>5. \A status : Explained(status, history) => Explained(status, history')
        BY <1>0, <2>1, ExplainedStays
    <2> QED
        BY <2>2, <2>3, <2>4, <2>5
<1> QED
    BY <1>1, <1>2, RowSide
-----------------------------------------------------------------------------
(***************************************************************************)
(* What a step may change of what a desk shows and has under way.          *)
(***************************************************************************)
Framed(e) ==
    /\ page'[e] \in {page[e], None} \/ (ReadTimeline(e) /\ page'[e] = Shown(e))
    /\ busy[e] # None => page'[e] = page[e]
    /\ moved'[e] = moved[e] \/ (ServeMove(e) /\ moved'[e] = Len(history'))
    /\ loading'[e] = "row" =>
          /\ moved'[e] = moved[e]
          /\ \/ loading[e] = "row" /\ fetched'[e] = fetched[e]
             \/ ReadRow(e)
    /\ phase'[e] = "serving" =>
          /\ busy[e] # None
          /\ \/ phase[e] = "serving" /\ loaded'[e] = loaded[e]
             \/ Serve(e)
    /\ phase'[e] = "refused" => busy[e] # None /\ (phase[e] = "refused" \/ RefuseMove(e))
    /\ busy'[e] \in Statuses =>
          /\ page'[e] = page[e]
          /\ busy'[e] = busy[e] \/ busy'[e] \in Offered(page[e].status)
    /\ page'[e] # None /\ ~Disabled(e)' /\ notice'[e] = None =>
          /\ moved'[e] = moved[e]
          /\ \/ ReadTimeline(e)
             \/ page'[e] = page[e] /\ ~Disabled(e) /\ notice[e] = None

LEMMA StepsAreFramed ==
    ASSUME DeskTypes, DeskInHand, TypeInv, NEW d \in Desks, NEW e \in Desks,
           Answering(d) \/ Visit(d) \/ \E label \in Labels : Click(d, label)
    PROVE  Framed(e)
<1> USE DEF DeskTypes, DeskInHand, Framed, Disabled
<1>1. loaded = [t \in Tasks |-> loaded[t]] /\ Desks \subseteq Tasks /\ None \notin Statuses
    BY LeadDeskAssumption DEF TypeInv, TypeOK, Tasks, Labels, Statuses
<1>2. CASE Visit(d)
    BY <1>1, <1>2 DEF Visit, vars
<1>3. CASE ReadRow(d)
    BY <1>1, <1>3 DEF ReadRow, vars
<1>4. CASE ReadTimeline(d)
    BY <1>1, <1>4 DEF ReadTimeline, vars
<1>5. CASE LoadFails(d)
    BY <1>1, <1>5 DEF LoadFails, vars
<1>6. ASSUME NEW label \in Labels, Click(d, label) PROVE Framed(e)
    <2>1. {"rescore", "dispatch"} \cap Statuses = {}
        BY DEF Statuses, Lifecycle!LeadStatuses
    <2>2. label \in Statuses => label \in Offered(page[d].status)
        BY <1>6, <2>1 DEF Click
    <2>3. label # None
        BY LeadDeskAssumption
    <2> QED
        BY <1>1, <1>6, <2>2, <2>3 DEF Click, vars
<1>7. CASE Serve(d)
    BY <1>1, <1>7 DEF Serve, Load, Becomes
<1>8. CASE ServeMove(d) \/ RefuseMove(d) \/ ServeRescore(d)
    <2>1. loaded' = [loaded EXCEPT ![d] = None]
        BY <1>8 DEF ServeMove, RefuseMove, ServeRescore, Transition, Refuse, Rescore,
                    Commit, Done
    <2>2. /\ phase[d] = "serving"
          /\ \/ phase' = [phase EXCEPT ![d] = "served"]
             \/ phase' = [phase EXCEPT ![d] = "refused"] /\ RefuseMove(d)
          /\ UNCHANGED <<page, loading, fetched, busy, pending, notice>>
        BY <1>8 DEF ServeMove, RefuseMove, ServeRescore, Becomes
    <2>3. \/ ServeMove(d) /\ moved' = [moved EXCEPT ![d] = Len(history')]
          \/ moved' = moved
        BY <1>8 DEF ServeMove, RefuseMove, ServeRescore
    <2> QED
        BY <1>1, <2>1, <2>2, <2>3
<1>9. CASE ServeDispatch(d)
    BY <1>1, <1>9 DEF ServeDispatch, Becomes, vars
<1>10. CASE Break(d)
    BY <1>1, <1>10 DEF Break, Rollback, Done, Becomes, vars
<1>11. CASE Refresh(d)
    BY <1>1, <1>11 DEF Refresh, vars
<1>12. CASE ShowError(d)
    BY <1>1, <1>12, LeadDeskAssumption DEF ShowError, vars
<1> QED
    BY <1>2, <1>3, <1>4, <1>5, <1>6, <1>7, <1>8, <1>9, <1>10, <1>11, <1>12 DEF Answering

(***************************************************************************)
(* The desk's views after a step.                                          *)
(***************************************************************************)
LEMMA ViewsKeep ==
    ASSUME DeskInv, NEW d \in Desks,
           Answering(d) \/ Visit(d) \/ \E label \in Labels : Click(d, label)
    PROVE  ViewsWereSo'
<1>1. /\ TypeInv /\ DeskTypes /\ DeskInHand /\ ViewsWereSo
      /\ Explained(row.status, history)
    BY DEF DeskInv
<1>2. /\ Len(history) \in Nat /\ Len(history') \in Nat /\ Len(history) <= Len(history')
      /\ \A view : SoFar(view, row.status, history) => SoFar(view, row'.status, history')
      /\ \A at \in 0..Len(history) : Unmoved(at, history') => Unmoved(at, history)
      /\ \A status : Explained(status, history) => Explained(status, history')
    BY <1>1, ViewsStay DEF TypeInv, TypeOK
<1>3. SUFFICES ASSUME NEW e \in Desks
      PROVE  /\ moved'[e] <= Len(history')
             /\ page'[e] # None => SoFar(page'[e], row'.status, history')
             /\ loading'[e] = "row" =>
                   /\ SoFar(fetched'[e], row'.status, history')
                   /\ Explained(fetched'[e].status, history')
                   /\ fetched'[e].at >= moved'[e]
             /\ phase'[e] = "serving" /\ Unmoved(page'[e].at, history') =>
                   loaded'[e].status = page'[e].status
             /\ busy'[e] \in Statuses => busy'[e] \in Offered(page'[e].status)
    BY DEF ViewsWereSo
<1>4. Framed(e)
    BY <1>1, StepsAreFramed
<1>5. moved[e] \in Nat /\ moved[e] <= Len(history)
    BY <1>1 DEF DeskTypes, ViewsWereSo
<1>6. moved'[e] <= Len(history')
    BY <1>2, <1>4, <1>5 DEF Framed
<1>7. ASSUME page'[e] # None PROVE SoFar(page'[e], row'.status, history')
    <2>1. CASE page'[e] = page[e]
        BY <1>1, <1>2, <1>7, <2>1 DEF ViewsWereSo
    <2>2. CASE ReadTimeline(e) /\ page'[e] = Shown(e)
        <3>1. SoFar(fetched[e], row.status, history)
            BY <1>1, <2>2 DEF ReadTimeline, ViewsWereSo
        <3>2. SoFar(Shown(e), row.status, history)
            BY <3>1 DEF SoFar, Shown
        <3> QED
            BY <1>2, <2>2, <3>2
    <2> QED
        BY <1>4, <1>7, <2>1, <2>2 DEF Framed
<1>8. ASSUME loading'[e] = "row"
      PROVE  /\ SoFar(fetched'[e], row'.status, history')
             /\ Explained(fetched'[e].status, history')
             /\ fetched'[e].at >= moved'[e]
    <2>1. CASE loading[e] = "row" /\ fetched'[e] = fetched[e]
        BY <1>1, <1>2, <1>4, <1>8, <2>1 DEF Framed, ViewsWereSo
    <2>2. CASE ReadRow(e)
        <3>1. fetched'[e] = [status |-> row.status, at |-> Len(history)]
            BY <1>1, <2>2 DEF ReadRow, DeskTypes
        <3>2. SoFar(fetched'[e], row.status, history)
            BY <1>2, <3>1 DEF SoFar
        <3> QED
            BY <1>1, <1>2, <1>4, <1>5, <1>8, <3>1, <3>2 DEF Framed
    <2> QED
        BY <1>4, <1>8, <2>1, <2>2 DEF Framed
<1>9. ASSUME phase'[e] = "serving", Unmoved(page'[e].at, history')
      PROVE  loaded'[e].status = page'[e].status
    <2>1. /\ page'[e] = page[e] /\ page[e] # None
          /\ SoFar(page[e], row.status, history)
        BY <1>1, <1>4, <1>9 DEF Framed, DeskInHand, ViewsWereSo
    <2>2. Unmoved(page[e].at, history)
        BY <1>2, <1>9, <2>1 DEF SoFar
    <2>3. CASE phase[e] = "serving" /\ loaded'[e] = loaded[e]
        BY <1>1, <2>1, <2>2, <2>3 DEF ViewsWereSo
    <2>4. CASE Serve(e)
        <3>1. loaded'[e] = row
            BY <1>1, <2>4 DEF Serve, Load, TypeInv, TypeOK, Tasks
        <3> QED
            BY <2>1, <2>2, <3>1 DEF SoFar
    <2> QED
        BY <1>4, <1>9, <2>3, <2>4 DEF Framed
<1>10. busy'[e] \in Statuses => busy'[e] \in Offered(page'[e].status)
    BY <1>1, <1>4 DEF Framed, ViewsWereSo
<1> QED
    BY <1>6, <1>7, <1>8, <1>9, <1>10

LEMMA PageIsExplainedKeeps ==
    ASSUME DeskInv, NEW d \in Desks,
           Answering(d) \/ Visit(d) \/ \E label \in Labels : Click(d, label)
    PROVE  PageIsExplained'
<1>1. SUFFICES ASSUME NEW e \in Desks, page'[e] # None
      PROVE  Explained(page'[e].status, page'[e].moves)
    BY DEF PageIsExplained, Explained
<1>2. Framed(e)
    BY StepsAreFramed DEF DeskInv
<1>3. CASE page'[e] = page[e]
    BY <1>1, <1>3 DEF DeskInv, PageIsExplained, Explained
<1>4. CASE ReadTimeline(e) /\ page'[e] = Shown(e)
    BY <1>4 DEF ReadTimeline, Shown, DeskInv, ViewsWereSo
<1> QED
    BY <1>1, <1>2, <1>3, <1>4 DEF Framed

LEMMA OwnMoveKeeps ==
    ASSUME DeskInv, NEW d \in Desks,
           Answering(d) \/ Visit(d) \/ \E label \in Labels : Click(d, label)
    PROVE  OwnMoveIsShown'
<1>1. SUFFICES ASSUME NEW e \in Desks, page'[e] # None, ~Disabled(e)', notice'[e] = None
      PROVE  page'[e].at >= moved'[e]
    BY DEF OwnMoveIsShown
<1>2. Framed(e)
    BY StepsAreFramed DEF DeskInv
<1>3. CASE ReadTimeline(e)
    <2>1. page'[e] = Shown(e) /\ fetched[e].at >= moved[e] /\ moved'[e] = moved[e]
        BY <1>3 DEF ReadTimeline, DeskInv, DeskTypes, ViewsWereSo
    <2> QED
        BY <2>1 DEF Shown
<1>4. CASE page'[e] = page[e] /\ ~Disabled(e) /\ notice[e] = None /\ moved'[e] = moved[e]
    BY <1>1, <1>4 DEF DeskInv, OwnMoveIsShown
<1> QED
    BY <1>1, <1>2, <1>3, <1>4 DEF Framed

LEMMA RefusedKeeps ==
    ASSUME DeskInv, NEW d \in Desks,
           Answering(d) \/ Visit(d) \/ \E label \in Labels : Click(d, label)
    PROVE  RefusedOnlyIfMoved'
<1>1. SUFFICES ASSUME NEW e \in Desks, phase'[e] = "refused"
      PROVE  ~Unmoved(page'[e].at, history')
    BY DEF RefusedOnlyIfMoved, Unmoved
<1>2. /\ TypeInv /\ DeskTypes /\ DeskInHand /\ ViewsWereSo /\ RefusedOnlyIfMoved
    BY DEF DeskInv
<1>3. Framed(e)
    BY <1>2, StepsAreFramed
<1>4. page'[e] = page[e] /\ page[e].at \in 0..Len(history)
    BY <1>1, <1>2, <1>3 DEF Framed, DeskInHand, ViewsWereSo, SoFar
<1>5. ASSUME phase[e] = "refused" PROVE ~Unmoved(page[e].at, history)
    BY <1>2, <1>5 DEF RefusedOnlyIfMoved, Unmoved
<1>6. ASSUME RefuseMove(e) PROVE ~Unmoved(page[e].at, history)
    <2>1. /\ busy[e] \in Offered(page[e].status)
          /\ ~MayMove(loaded[e].status, busy[e])
          /\ phase[e] = "serving"
        BY <1>2, <1>6 DEF RefuseMove, Refuse, ViewsWereSo, Statuses
    <2>2. loaded[e].status # page[e].status
        BY <2>1 DEF Offered, MayMove
    <2> QED
        BY <1>2, <2>1, <2>2 DEF ViewsWereSo
<1>7. ~Unmoved(page[e].at, history)
    BY <1>1, <1>3, <1>5, <1>6 DEF Framed
<1> QED
    BY <1>2, <1>4, <1>7, ViewsStay
-----------------------------------------------------------------------------
LEMMA DeskInitEstablishes == DeskInit => DeskInv
<1> SUFFICES ASSUME DeskInit PROVE DeskInv
    OBVIOUS
<1>1. TypeInv /\ row.status = "new" /\ history = <<>>
    BY InitTypes DEF DeskInit, Init
<1>2. DeskTypes
    BY DEF DeskInit, DeskTypes, Phases
<1>3. DeskInHand
    BY DEF DeskInit, DeskInHand, Init, Tasks
<1>4. ViewsWereSo
    <2>1. Len(history) = 0 /\ None \notin Statuses
        BY <1>1, LeadDeskAssumption DEF Statuses, Labels
    <2>2. ASSUME NEW d \in Desks
          PROVE  /\ page[d] = None /\ loading[d] = "no" /\ busy[d] = None
                 /\ phase[d] = "none" /\ moved[d] = 0
        BY DEF DeskInit
    <2>3. ASSUME NEW d \in Desks PROVE moved[d] <= Len(history)
        <3>1. moved[d] \in Int /\ Len(history) \in Int /\ moved[d] = Len(history)
            BY <2>1, <2>2
        <3> QED
            BY <3>1
    <2>4. \A d \in Desks : page[d] = None /\ loading[d] # "row" /\ phase[d] # "serving"
                             /\ busy[d] \notin Statuses
        BY <2>1, <2>2
    <2> QED
        BY <2>3, <2>4 DEF ViewsWereSo
<1>5. PageIsExplained /\ OwnMoveIsShown /\ RefusedOnlyIfMoved
    BY DEF DeskInit, PageIsExplained, OwnMoveIsShown, RefusedOnlyIfMoved
<1> QED
    BY <1>1, <1>2, <1>3, <1>4, <1>5 DEF DeskInv, Explained

LEMMA DeskNextKeeps == DeskInv /\ [DeskNext]_allVars => DeskInv'
<1> SUFFICES ASSUME DeskInv, [DeskNext]_allVars PROVE DeskInv'
    OBVIOUS
<1>1. ASSUME NEW d \in Desks,
             Answering(d) \/ Visit(d) \/ \E label \in Labels : Click(d, label)
      PROVE  DeskInv'
    <2>1. TypeInv' /\ DeskTypes' /\ DeskInHand'
        BY <1>1, RowSide, DeskTypesKeep, InHandKeeps DEF DeskInv
    <2>2. Explained(row'.status, history')
        BY <1>1, RowExplained DEF DeskInv
    <2>3. ViewsWereSo'
        BY <1>1, ViewsKeep
    <2>4. PageIsExplained' /\ OwnMoveIsShown' /\ RefusedOnlyIfMoved'
        BY <1>1, PageIsExplainedKeeps, OwnMoveKeeps, RefusedKeeps
    <2> QED
        BY <2>1, <2>2, <2>3, <2>4 DEF DeskInv
<1>2. CASE UNCHANGED allVars
    BY <1>2 DEF allVars, vars, deskVars, DeskInv, TypeInv, TypeOK, InHand, DeskTypes,
                DeskInHand, ViewsWereSo, PageIsExplained, OwnMoveIsShown, Disabled,
                RefusedOnlyIfMoved
<1> QED
    BY <1>1, <1>2 DEF DeskNext

THEOREM DeskInvariance == DeskSpec => []DeskInv
<1> QED
    BY DeskInitEstablishes, DeskNextKeeps, PTL DEF DeskSpec
-----------------------------------------------------------------------------
(***************************************************************************)
(* However the two reads of a page and the moves of others interleave, the *)
(* timeline on the page explains the status on it.                         *)
(***************************************************************************)
THEOREM PagesAreExplained == DeskSpec => []PageIsExplained
<1>1. DeskInv => PageIsExplained
    BY DEF DeskInv
<1> QED
    BY <1>1, DeskInvariance, PTL

(***************************************************************************)
(* Buttons that can be clicked, with no error beside them, are those of a  *)
(* page that shows the desk's own last move.                               *)
(***************************************************************************)
THEOREM OwnMovesAreShown == DeskSpec => []OwnMoveIsShown
<1>1. DeskInv => OwnMoveIsShown
    BY DEF DeskInv
<1> QED
    BY <1>1, DeskInvariance, PTL

(***************************************************************************)
(* A button of the page is refused only if somebody moved the lead.        *)
(***************************************************************************)
THEOREM RefusalsAreStale == DeskSpec => []RefusedOnlyIfMoved
<1>1. DeskInv => RefusedOnlyIfMoved
    BY DEF DeskInv
<1> QED
    BY <1>1, DeskInvariance, PTL

-----------------------------------------------------------------------------
(***************************************************************************)
(* The desks' requests are units of work of LeadRow, but for a desk's      *)
(* rescore, which its theorems have another task do.                       *)
(***************************************************************************)
LEMMA DeskStepsAreHonest ==
    ASSUME HonestInv, NEW d \in Desks,
           Answering(d) \/ Visit(d) \/ \E label \in Labels : Click(d, label)
    PROVE  (TimelineIsHonest /\ ReadsWereSo)'
<1>0. TypeInv
    BY DEF HonestInv
<1>1. CASE UNCHANGED vars
    BY <1>1, StaysHonest DEF vars, Quiet, Stays
<1>2. CASE Load(d) \/ Rollback(d) \/ \E to \in Statuses : Refuse(d, to)
    <2>1. [Next]_vars
        BY <1>2 DEF Next, Tasks, Statuses
    <2>2. CASE Quiet
        BY <2>2, StaysHonest
    <2>3. ASSUME NEW e \in Desks, NEW to \in Lifecycle!LeadStatuses, Transition(e, to)
          PROVE  (TimelineIsHonest /\ ReadsWereSo)'
        BY <2>3, EntryIsHonest
    <2> QED
        BY <1>0, <2>1, <2>2, <2>3, OnlyTransitionsMove
<1>3. CASE ServeMove(d)
    BY <1>0, <1>3, MoveMoves, EntryIsHonest DEF ServeMove, Statuses
<1>4. CASE ServeRescore(d)
    <2>1. PICK version \in RuleVersions : Rescore(d, version)
        BY <1>4 DEF ServeRescore
    <2>2. d \in Tasks /\ loaded[d] \in Rows
        BY <1>0, <2>1 DEF Rescore, Tasks, TypeInv, InHand, Holding
    <2>3. [loaded[d] EXCEPT !.score = version].status = loaded[d].status
        BY <2>2 DEF Rows
    <2>4. Quiet
        BY <1>0, <2>1, <2>2, <2>3, CommitQuiet DEF Rescore
    <2> QED
        BY <2>4, StaysHonest
<1> QED
    BY <1>1, <1>2, <1>3, <1>4
       DEF Answering, Visit, Click, ReadRow, ReadTimeline, LoadFails, Serve, RefuseMove,
           ServeDispatch, Break, Refresh, ShowError, Statuses

(***************************************************************************)
(* Whatever salespeople click at once, on pages of any age, the timeline   *)
(* and the outbox stay honest about the lead.                              *)
(***************************************************************************)
THEOREM DesksKeepTimelineHonest == DeskSpec => []TimelineIsHonest
<1>1. DeskInit => TimelineIsHonest /\ ReadsWereSo
    <2> SUFFICES ASSUME DeskInit PROVE TimelineIsHonest /\ ReadsWereSo
        OBVIOUS
    <2>1. history = <<>> /\ Len(history) = 0 /\ published = {} /\ row.status = "new"
        BY DEF DeskInit, Init
    <2>2. TimelineIsHonest
        BY <2>1 DEF TimelineIsHonest, LastChange
    <2>3. ReadsWereSo
        BY DEF DeskInit, Init, ReadsWereSo, Holding
    <2> QED
        BY <2>2, <2>3
<1>2. TypeInv /\ TimelineIsHonest /\ ReadsWereSo /\ [DeskNext]_allVars
          => (TimelineIsHonest /\ ReadsWereSo)'
    <2> SUFFICES ASSUME TypeInv, TimelineIsHonest, ReadsWereSo, [DeskNext]_allVars
                 PROVE  (TimelineIsHonest /\ ReadsWereSo)'
        OBVIOUS
    <2>1. HonestInv
        BY DEF HonestInv
    <2>2. CASE UNCHANGED allVars
        BY <2>1, <2>2, StaysHonest DEF allVars, vars, Quiet, Stays
    <2> QED
        BY <2>1, <2>2, DeskStepsAreHonest DEF DeskNext
<1>3. DeskInv => TypeInv
    BY DEF DeskInv
<1> QED
    BY <1>1, <1>2, <1>3, DeskInvariance, PTL DEF DeskSpec

-----------------------------------------------------------------------------
(***************************************************************************)
(* The moves that are asked for and not yet made leave room for them all.  *)
(***************************************************************************)
UnderWay == {d \in Desks : busy[d] \in Statuses /\ phase[d] \in {"sent", "serving"}}

RoomForMoves ==
    /\ IsFiniteSet(Moving)
    /\ Len(history) + Cardinality(UnderWay) <= MaxMoves
    /\ \A d \in Desks : phase[d] = "serving" => busy[d] # "dispatch"

LEMMA UnderWayIsFinite ==
    ASSUME TypeInv, IsFiniteSet(Moving)
    PROVE  /\ IsFiniteSet(UnderWay) /\ Cardinality(UnderWay) \in Nat
           /\ Cardinality(Moving) \in Nat /\ Cardinality(UnderWay) <= Cardinality(Moving)
           /\ Len(history) \in Nat /\ MaxMoves \in Nat
<1>1. UnderWay \subseteq Moving
    BY DEF UnderWay, Moving, Statuses
<1>2. Len(history) \in Nat
    BY DEF TypeInv, TypeOK
<1> QED
    BY <1>1, <1>2, FS_Subset, FS_CardinalityType, LeadRowAssumption

(***************************************************************************)
(* A step that asks for no move and makes none.                            *)
(***************************************************************************)
LEMMA NoMoreUnderWay ==
    ASSUME TypeInv, RoomForMoves, history' = history,
           \A e \in Desks :
               /\ busy'[e] \in Statuses => busy[e] = busy'[e]
               /\ phase'[e] \in {"sent", "serving"} /\ busy'[e] \in Statuses =>
                      phase[e] \in {"sent", "serving"}
               /\ phase'[e] = "serving" => busy'[e] # "dispatch"
    PROVE  RoomForMoves'
<1>1. Moving' \subseteq Moving /\ UnderWay' \subseteq UnderWay
    BY DEF Moving, UnderWay, Statuses
<1>2. IsFiniteSet(Moving') /\ Cardinality(UnderWay') <= Cardinality(UnderWay)
    BY <1>1, UnderWayIsFinite, FS_Subset DEF RoomForMoves
<1>3. Cardinality(UnderWay') \in Nat
    BY <1>1, UnderWayIsFinite, FS_Subset, FS_CardinalityType DEF RoomForMoves
<1>4. Len(history') + Cardinality(UnderWay') <= MaxMoves
    BY <1>2, <1>3, UnderWayIsFinite DEF RoomForMoves
<1> QED
    BY <1>2, <1>4 DEF RoomForMoves

LEMMA RoomStays ==
    ASSUME TypeInv, DeskTypes, DeskInHand, RoomForMoves, NEW d \in Desks,
           Answering(d) \/ Visit(d) \/ \E label \in Labels : Click(d, label)
    PROVE  RoomForMoves'
<1> USE DEF DeskTypes
<1>0. None \notin Statuses /\ "dispatch" \notin Statuses /\ "rescore" \notin Statuses
    BY LeadDeskAssumption DEF Labels, Statuses, Lifecycle!LeadStatuses
<1>1. CASE Visit(d) \/ ReadRow(d) \/ ReadTimeline(d) \/ LoadFails(d)
    <2>1. UNCHANGED <<history, busy, phase>>
        BY <1>1 DEF Visit, ReadRow, ReadTimeline, LoadFails, vars
    <2> QED
        BY <2>1, NoMoreUnderWay DEF RoomForMoves
<1>2. ASSUME NEW label \in Labels, Click(d, label) PROVE RoomForMoves'
    <2>1. /\ busy' = [busy EXCEPT ![d] = label] /\ phase' = [phase EXCEPT ![d] = "sent"]
          /\ history' = history
        BY <1>2 DEF Click, vars
    <2>2. CASE label \notin Statuses
        BY <1>0, <2>1, <2>2, NoMoreUnderWay DEF RoomForMoves
    <2>3. CASE label \in Statuses
        <3>1. Len(history) + Cardinality(Moving) < MaxMoves
            BY <1>0, <1>2, <2>3 DEF Click
        <3>2. Moving' = Moving \cup {d} /\ UnderWay' = UnderWay \cup {d}
            BY <2>1, <2>3 DEF Moving, UnderWay, Statuses
        <3>3. IsFiniteSet(Moving) /\ IsFiniteSet(UnderWay) /\ Cardinality(UnderWay) \in Nat
            BY UnderWayIsFinite DEF RoomForMoves
        <3>4. Cardinality(UnderWay') = Cardinality(UnderWay)
              \/ Cardinality(UnderWay') = Cardinality(UnderWay) + 1
            BY <3>2, <3>3, FS_AddElement
        <3>5. /\ IsFiniteSet(Moving') /\ IsFiniteSet(UnderWay)
              /\ Cardinality(UnderWay') <= Cardinality(UnderWay) + 1
            BY <3>2, <3>3, <3>4, FS_AddElement
        <3>6. Cardinality(UnderWay') \in Nat
            BY <3>2, <3>5, FS_AddElement, FS_CardinalityType
        <3>7. Len(history') + Cardinality(UnderWay') <= MaxMoves
            BY <2>1, <3>1, <3>5, <3>6, UnderWayIsFinite DEF RoomForMoves
        <3> QED
            BY <2>1, <3>5, <3>7 DEF RoomForMoves
    <2> QED
        BY <2>2, <2>3
<1>3. CASE Serve(d)
    <2>1. /\ phase' = [phase EXCEPT ![d] = "serving"] /\ phase[d] = "sent"
          /\ busy[d] # "dispatch" /\ UNCHANGED <<history, busy>>
        BY <1>3 DEF Serve, Becomes, Load
    <2> QED
        BY <2>1, NoMoreUnderWay DEF RoomForMoves
<1>4. CASE ServeMove(d)
    <2>1. /\ phase' = [phase EXCEPT ![d] = "served"] /\ phase[d] = "serving"
          /\ busy' = busy
        BY <1>4 DEF ServeMove, Becomes
    <2>2. /\ history \in Timelines /\ <<loaded[d].status, busy[d]>> \in Statuses \X Statuses
          /\ history' = Append(history, <<loaded[d].status, busy[d]>>) /\ busy[d] \in Statuses
        BY <1>4, MoveMoves
    <2>3. Len(history') = Len(history) + 1
        BY <2>2, OneMoveMore
    <2>4. Moving' = Moving /\ UnderWay' = UnderWay \ {d} /\ d \in UnderWay
        BY <2>1, <2>2 DEF Moving, UnderWay
    <2>5. Cardinality(UnderWay') = Cardinality(UnderWay) - 1
        BY <2>4, UnderWayIsFinite, FS_RemoveElement DEF RoomForMoves
    <2>6. Len(history') + Cardinality(UnderWay') <= MaxMoves
        BY <2>3, <2>5, UnderWayIsFinite DEF RoomForMoves
    <2> QED
        BY <2>1, <2>4, <2>6 DEF RoomForMoves
<1>5. CASE RefuseMove(d) \/ ServeRescore(d) \/ ServeDispatch(d) \/ Break(d)
    <2>1. /\ \E now \in {"refused", "served", "failed"} : phase' = [phase EXCEPT ![d] = now]
          /\ UNCHANGED <<history, busy>>
        BY <1>5 DEF RefuseMove, Refuse, ServeRescore, Rescore, ServeDispatch, Break, Rollback,
                    Becomes, vars
    <2> QED
        BY <2>1, NoMoreUnderWay DEF RoomForMoves
<1>6. CASE Refresh(d) \/ ShowError(d)
    <2>1. /\ phase' = [phase EXCEPT ![d] = "none"] /\ busy' = [busy EXCEPT ![d] = None]
          /\ history' = history
        BY <1>6 DEF Refresh, ShowError, vars
    <2> QED
        BY <1>0, <2>1, NoMoreUnderWay DEF RoomForMoves
<1> QED
    BY <1>1, <1>2, <1>3, <1>4, <1>5, <1>6 DEF Answering

(***************************************************************************)
(* A button that is disabled is so for a load or a request under way, and  *)
(* a request that is being served can be: as a move, made or refused, that *)
(* no bound holds up, or as a rescore.                                     *)
(***************************************************************************)
NoButtonIsOrphaned ==
    \A d \in Desks : Disabled(d) =>
        \/ loading[d] # "no"
        \/ phase[d] \in {"served", "refused", "failed"}
        \/ phase[d] = "sent" /\ pc[d] = "idle"
        \/ /\ phase[d] = "serving" /\ pc[d] = "loaded"
           /\ \/ busy[d] = "rescore"
              \/ /\ busy[d] \in Lifecycle!LeadStatuses
                 /\ Len(history) < MaxMoves

(***************************************************************************)
(* No interleaving of desks leaves buttons disabled with nothing under way *)
(* that could give them back, and no request waits for a bound of the      *)
(* model: the safety half of ButtonsComeBack, for any number of desks.     *)
(***************************************************************************)
THEOREM ButtonsAreNeverOrphaned == DeskSpec => []NoButtonIsOrphaned
<1>1. DeskInit => RoomForMoves
    <2> SUFFICES ASSUME DeskInit PROVE RoomForMoves
        OBVIOUS
    <2>1. Len(history) = 0 /\ \A d \in Desks : busy[d] \notin Statuses /\ phase[d] = "none"
        BY LeadDeskAssumption DEF DeskInit, Init, Labels, Statuses
    <2>2. Moving = {} /\ UnderWay = {}
        BY <2>1 DEF Moving, UnderWay, Statuses
    <2>3. IsFiniteSet(Moving) /\ Cardinality(UnderWay) = 0
        BY <2>2, FS_EmptySet
    <2>4. Len(history) + Cardinality(UnderWay) <= MaxMoves
        BY <2>1, <2>3, LeadRowAssumption
    <2> QED
        BY <2>1, <2>3, <2>4 DEF RoomForMoves
<1>2. DeskInv /\ RoomForMoves /\ [DeskNext]_allVars => RoomForMoves'
    <2> SUFFICES ASSUME DeskInv, RoomForMoves, [DeskNext]_allVars PROVE RoomForMoves'
        OBVIOUS
    <2>1. CASE UNCHANGED allVars
        BY <2>1 DEF allVars, vars, deskVars, RoomForMoves, Moving, UnderWay
    <2> QED
        BY <2>1, RoomStays DEF DeskNext, DeskInv
<1>3. ASSUME DeskInv, RoomForMoves, NEW d \in Desks, phase[d] = "serving", busy[d] \in Statuses
      PROVE  Len(history) < MaxMoves
    <2>1. UnderWay # {}
        BY <1>3 DEF UnderWay
    <2>2. Cardinality(UnderWay) # 0
        BY <1>3, <2>1, UnderWayIsFinite, FS_EmptySet DEF DeskInv, RoomForMoves
    <2> QED
        BY <1>3, <2>2, UnderWayIsFinite DEF DeskInv, RoomForMoves
<1>4. ASSUME DeskInv, RoomForMoves, NEW d \in Desks, Disabled(d)
      PROVE  \/ loading[d] # "no"
             \/ phase[d] \in {"served", "refused", "failed"}
             \/ phase[d] = "sent" /\ pc[d] = "idle"
             \/ /\ phase[d] = "serving" /\ pc[d] = "loaded"
                /\ \/ busy[d] = "rescore"
                   \/ /\ busy[d] \in Lifecycle!LeadStatuses
                      /\ Len(history) < MaxMoves
    <2>1. phase[d] = "serving" => busy[d] \in Statuses \cup {"rescore"}
        BY <1>4 DEF DeskInv, DeskTypes, DeskInHand, RoomForMoves, Labels, Statuses
    <2> QED
        BY <1>3, <1>4, <2>1 DEF DeskInv, DeskTypes, DeskInHand, Disabled, Phases, Statuses
<1>5. DeskInv /\ RoomForMoves => NoButtonIsOrphaned
    BY <1>4 DEF NoButtonIsOrphaned
<1> QED
    BY <1>1, <1>2, <1>5, DeskInvariance, PTL DEF DeskSpec
=============================================================================
