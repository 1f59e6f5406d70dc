--------------------------- MODULE LeadLifecycle ---------------------------
(***************************************************************************)
(* The sales lifecycle of a lead: the table of domain/leads/lifecycle.py,  *)
(* and the state machine it promises.                                      *)
(***************************************************************************)
VARIABLE status

LeadStatuses == {"new", "qualified", "contacted", "booked", "won", "lost", "disqualified"}

TerminalStatuses == {"won", "lost", "disqualified"}

(***************************************************************************)
(* Every open lead may be lost or disqualified; the rest of the table is   *)
(* the way forward.                                                        *)
(***************************************************************************)
AllowedTransitions ==
    ((LeadStatuses \ TerminalStatuses) \X {"lost", "disqualified"})
    \cup {<<"new", "qualified">>, <<"new", "contacted">>,
          <<"qualified", "contacted">>, <<"qualified", "booked">>,
          <<"contacted", "booked">>, <<"booked", "won">>}

CanTransition(current, requested) == <<current, requested>> \in AllowedTransitions

Init == status = "new"

Next == \E requested \in LeadStatuses :
            /\ CanTransition(status, requested)
            /\ status' = requested

Spec == Init /\ [][Next]_status
=============================================================================
