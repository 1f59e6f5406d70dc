------------------------------ MODULE LeadList ------------------------------
(***************************************************************************)
(* The dashboard's list of leads, read while captures go on: the page asks *)
(* for the counters and for a page of the table at once, the table is read *)
(* by a COUNT and by a SELECT, each a snapshot of its own, and the Next    *)
(* link is there or not by what the two of them said.                      *)
(*                                                                         *)
(* Sources: infrastructure/database/read_models.py (list_leads, stats),    *)
(* application/services/lead_query_service.py, application/dto/leads.py,   *)
(* api/v1/dashboard.py (list_leads) and the page of the frontend,          *)
(* app/(internal)/dashboard/leads/page.tsx.                                *)
(*                                                                         *)
(* The filter is the temperature; the ones on status, synchronisation and  *)
(* text, which leads enter and leave, are left out.  created_at is read    *)
(* from the clock before the commit: leads may appear behind newer ones.   *)
(***************************************************************************)
EXTENDS LeadCapture, Scoring, FiniteSets

CONSTANTS
    Filters,   \* the temperatures filtered on; None: no filter
    PageSize,  \* PAGE_SIZE of the page, 25: a limit the API takes
    MaxLoads   \* bound: loads of the page in a behaviour

ASSUME LeadListAssumption ==
    /\ Valid \subseteq Answers
    /\ Hot = {p \in Valid : Temperature(p) = "hot"}
    /\ Filters \subseteq Bands \cup {None}
    /\ None \notin Bands
    /\ PageSize \in 1..100
    /\ MaxLoads \in Nat

VARIABLES
    clock, createdAt,          \* readings of the clock, and each capture's, 0 before
    filter, page,              \* the URL of the page: None and 0 before it is opened
    total, items, counters,    \* what has come back of this load, None before
    loads,    \* loads so far
    \* history: leads stored when page 1 was opened, leads shown since, and the
    \* places where a lead was stored in the middle of a load
    stored, shown, raced

reader   == <<filter, page, total, items, counters, loads, stored, shown, raced>>
listVars == <<vars, clock, createdAt, reader>>

ListInit ==
    /\ Init
    /\ clock     = 0
    /\ createdAt = [r \in Requests |-> 0]
    /\ filter    = None
    /\ page      = 0
    /\ total     = None
    /\ items     = None
    /\ counters  = None
    /\ loads     = 0
    /\ stored    = {}
    /\ shown     = {}
    /\ raced     = {}

-----------------------------------------------------------------------------
MatchingLeads(f) == {l \in leads : f # None => Temperature(l.payload) = f}

(***************************************************************************)
(* ORDER BY created_at DESC: the place of a row is the number of newer ones*)
(***************************************************************************)
Rank(l, rows) == Cardinality({m \in rows : createdAt[m.id] > createdAt[l.id]})

(***************************************************************************)
(* LIMIT limit OFFSET offset                                               *)
(***************************************************************************)
PageOf(rows, offset, limit) ==
    {l.id : l \in {m \in rows : Rank(m, rows) \in offset .. offset + limit - 1}}

SafeLimit(limit)   == IF limit < 1 THEN 1 ELSE IF limit > 100 THEN 100 ELSE limit
SafeOffset(offset) == IF offset < 0 THEN 0 ELSE offset

(***************************************************************************)
(* Variant: as if pages were numbered from zero.                           *)
(***************************************************************************)
OffsetFromZero(n) == SafeOffset(n * PageSize)

Offset(n) == SafeOffset((n - 1) * PageSize)

Load ==
    /\ loads < MaxLoads
    /\ loads'    = loads + 1
    /\ total'    = None
    /\ items'    = None
    /\ counters' = None
    /\ UNCHANGED <<vars, clock, createdAt>>

Loading  == page > 0 /\ (total = None \/ items = None \/ counters = None)
Rendered == page > 0 /\ total # None /\ items # None /\ counters # None

(***************************************************************************)
(* The list is opened at its first page, with or without a filter.         *)
(***************************************************************************)
Open(f) ==
    /\ ~Loading
    /\ Load
    /\ filter' = f
    /\ page'   = 1
    /\ stored' = {l.id : l \in MatchingLeads(f)}
    /\ shown'  = {}
    /\ raced'  = {}

HasMore == Offset(page) + Cardinality(items) < total

NextPage ==
    /\ Rendered
    /\ HasMore
    /\ Load
    /\ page'  = page + 1
    /\ raced' = raced \ {"page"}
    /\ UNCHANGED <<filter, stored, shown>>

(***************************************************************************)
(* Variant: the COUNT is made without the filter of the SELECT.            *)
(***************************************************************************)
CountRowsUnfiltered ==
    /\ page > 0
    /\ total = None
    /\ total' = Cardinality(leads)
    /\ UNCHANGED <<vars, clock, createdAt, filter, page, items, counters, loads, stored, shown, raced>>

CountRows ==
    /\ page > 0
    /\ total = None
    /\ total' = Cardinality(MatchingLeads(filter))
    /\ UNCHANGED <<vars, clock, createdAt, filter, page, items, counters, loads, stored, shown, raced>>

FetchRows ==
    /\ page > 0
    /\ total # None
    /\ items = None
    /\ items' = PageOf(MatchingLeads(filter), Offset(page), SafeLimit(PageSize))
    /\ shown' = shown \cup items'
    /\ UNCHANGED <<vars, clock, createdAt, filter, page, total, counters, loads, stored, raced>>

(***************************************************************************)
(* stats, one statement with conditional sums.                             *)
(***************************************************************************)
CountedIn(band) == Cardinality(MatchingLeads(band))

Counters ==
    [total |-> CountedIn(None), hot |-> CountedIn("hot"),
     warm  |-> CountedIn("warm"), cold |-> CountedIn("cold")]

ReadStats ==
    /\ page > 0
    /\ counters = None
    /\ counters' = Counters
    /\ UNCHANGED <<vars, clock, createdAt, filter, page, total, items, loads, stored, shown, raced>>

(***************************************************************************)
(* Either request fails: the page shows an error and nothing else.         *)
(***************************************************************************)
LoadFails ==
    /\ Loading
    /\ page'     = 0
    /\ filter'   = None
    /\ total'    = None
    /\ items'    = None
    /\ counters' = None
    /\ stored'   = {}
    /\ shown'    = {}
    /\ raced'    = {}
    /\ UNCHANGED <<vars, clock, createdAt, loads>>

(***************************************************************************)
(* A step of a capture.  The clock is read when the look found nothing.    *)
(***************************************************************************)
CaptureStep ==
    /\ Next
    /\ LET timed == {r \in Requests : pc[r] = "arrived" /\ pc'[r] = "capturing"} IN
       /\ clock'     = IF timed = {} THEN clock ELSE clock + 1
       /\ createdAt' = [r \in Requests |-> IF r \in timed THEN clock' ELSE createdAt[r]]
    /\ raced' = raced
        \cup {p \in {"table"} : leads' # leads /\ total # None /\ items = None}
        \cup {p \in {"page"} :
                leads' # leads /\ Loading /\ ~(total = None /\ counters = None)}
    /\ UNCHANGED <<filter, page, total, items, counters, loads, stored, shown>>

ListNext ==
    \/ CaptureStep
    \/ \E f \in Filters : Open(f)
    \/ NextPage
    \/ CountRows
    \/ FetchRows
    \/ ReadStats
    \/ LoadFails

ListSpec == ListInit /\ [][ListNext]_listVars
-----------------------------------------------------------------------------
(***************************************************************************)
(* Whoever opens the list and follows Next to the last page has been shown *)
(* every lead that was there, though leads arrive on every page and push   *)
(* the others on, some of them into the middle of the list.  The exception *)
(* is a lead stored between the COUNT and the SELECT of a page: the total  *)
(* is then too small, and Next may be missing.                             *)
(***************************************************************************)
PagingMissesNothing ==
    Rendered /\ ~HasMore /\ "table" \notin raced => stored \subseteq shown

(***************************************************************************)
(* Counters, total and rows are three reads: when no lead was stored       *)
(* between them they are of one list: the bands add up to the total, the   *)
(* total under a filter is the counter beside it, and the page is full     *)
(* unless it is the last.                                                  *)
(***************************************************************************)
QuietPageAgrees ==
    Rendered /\ "page" \notin raced =>
        /\ counters.total = counters.hot + counters.warm + counters.cold
        /\ total = IF filter = None THEN counters.total ELSE counters[filter]
        /\ Offset(page) < total =>
              Cardinality(items) = IF HasMore THEN PageSize ELSE total - Offset(page)
=============================================================================
