--------------------------- MODULE LeadListProofs ---------------------------
(***************************************************************************)
(* Proofs about LeadList: for any number of requests, forms and payloads,  *)
(* any page size the API takes and any number of loads, whatever captures  *)
(* commit between the reads.  What carries the argument is that the rank   *)
(* of a lead under ORDER BY created_at DESC never falls, so that the rows  *)
(* before the ones a page asks for have all been shown.                    *)
(***************************************************************************)
EXTENDS LeadList, LeadCaptureProofs, FiniteSetTheorems

(***************************************************************************)
(* The table: finitely many leads, each with a reading of the clock of its *)
(* own, taken before its capture could commit.                             *)
(***************************************************************************)
RowsInHand ==
    /\ IsFiniteSet(leads)
    /\ \A l, m \in leads : l.id = m.id => l = m
    /\ clock \in Nat /\ createdAt \in [Requests -> Nat]
    /\ \A r \in Requests : createdAt[r] <= clock
    /\ \A q, r \in Requests : createdAt[q] = createdAt[r] => q = r \/ createdAt[q] = 0
    /\ \A r \in Requests : pc[r] = "capturing" => createdAt[r] > 0
    /\ \A l \in leads : createdAt[l.id] > 0

Rows == MatchingLeads(filter)

RowsRead == IF items = None THEN Offset(page) ELSE Offset(page + 1)

(***************************************************************************)
(* The reader: a lead that was there when the list was opened and is now   *)
(* within the rows read has been shown; a total not overtaken is exact     *)
(* when the rows are selected, and if it says that these are the last,     *)
(* nothing is left to show.                                                *)
(***************************************************************************)
ReaderInHand ==
    /\ page \in Nat
    /\ filter \in Filters \cup {None}
    /\ items # None => total # None
    /\ page > 0 =>
          /\ stored \subseteq {l.id : l \in Rows}
          /\ \A l \in Rows : l.id \in stored /\ Rank(l, Rows) < RowsRead => l.id \in shown
          /\ total # None /\ "table" \notin raced =>
                IF items = None THEN total = Cardinality(Rows)
                                ELSE ~HasMore => stored \subseteq shown

PageIsFull ==
    Offset(page) < total =>
        Cardinality(items) = IF HasMore THEN PageSize ELSE total - Offset(page)

(***************************************************************************)
(* What has come back of a load during which no lead was stored is what    *)
(* would come back now.                                                    *)
(***************************************************************************)
LoadInHand ==
    /\ Loading /\ "page" \notin raced =>
          /\ total # None => total = Cardinality(Rows)
          /\ counters # None => counters = Counters
          /\ items # None => PageIsFull
    /\ QuietPageAgrees

ListInv == IInv /\ RowsInHand /\ ReaderInHand /\ LoadInHand
-----------------------------------------------------------------------------
(***************************************************************************)
(* Offsets, within the bounds the service and the API clamp to.            *)
(***************************************************************************)
LEMMA FirstOffset == Offset(1) = 0
    BY LeadListAssumption DEF Offset, SafeOffset

LEMMA OffsetsAdd ==
    ASSUME NEW n \in Nat, n > 0
    PROVE  /\ Offset(n) = (n - 1) * PageSize
           /\ Offset(n) \in Nat
           /\ Offset(n + 1) = Offset(n) + PageSize
           /\ Offset(1) = 0
           /\ SafeLimit(PageSize) = PageSize /\ PageSize \in Nat /\ PageSize > 0
<1>1. PageSize \in Nat /\ PageSize > 0 /\ PageSize <= 100
    BY LeadListAssumption
<1>2. (n - 1) * PageSize \in Nat
    BY <1>1
<1>3. Offset(n) = (n - 1) * PageSize
    BY <1>2 DEF Offset, SafeOffset
<1>4. n * PageSize \in Nat /\ n * PageSize = (n - 1) * PageSize + PageSize
    BY <1>1
<1>5. Offset(n + 1) = n * PageSize
    BY <1>4 DEF Offset, SafeOffset
<1>6. Offset(1) = 0
    BY <1>1 DEF Offset, SafeOffset
<1> QED
    BY <1>1, <1>2, <1>3, <1>4, <1>5, <1>6 DEF SafeLimit

(***************************************************************************)
(* A newer row has the smaller rank, and every rank is one of a row.       *)
(***************************************************************************)
LEMMA RanksAreOrdered ==
    ASSUME RowsInHand, TypeOK, NEW rows \in SUBSET leads,
           NEW l \in rows, NEW m \in rows, createdAt[m.id] > createdAt[l.id]
    PROVE  Rank(m, rows) < Rank(l, rows)
<1> DEFINE NewerThan(x) == {y \in rows : createdAt[y.id] > createdAt[x.id]}
<1>1. \A x \in rows : createdAt[x.id] \in Nat
    BY DEF RowsInHand, TypeOK, Leads
<1>2. IsFiniteSet(rows)
    BY FS_Subset DEF RowsInHand
<1>3. NewerThan(m) \subseteq NewerThan(l) \ {m}
    BY <1>1
<1>4. m \in NewerThan(l) /\ NewerThan(l) \in SUBSET rows /\ NewerThan(m) \in SUBSET rows
    OBVIOUS
<1>5. Rank(m, rows) = Cardinality(NewerThan(m)) /\ Rank(l, rows) = Cardinality(NewerThan(l))
    BY DEF Rank
<1> HIDE DEF NewerThan
<1>6. IsFiniteSet(NewerThan(l)) /\ IsFiniteSet(NewerThan(m))
    BY <1>2, <1>4, FS_Subset
<1>7. /\ IsFiniteSet(NewerThan(l) \ {m})
      /\ Cardinality(NewerThan(l) \ {m}) = Cardinality(NewerThan(l)) - 1
    BY <1>4, <1>6, FS_RemoveElement
<1>8. Cardinality(NewerThan(m)) <= Cardinality(NewerThan(l) \ {m})
    BY <1>3, <1>7, FS_Subset
<1>9. Cardinality(NewerThan(m)) \in Nat /\ Cardinality(NewerThan(l)) \in Nat
    BY <1>6, FS_CardinalityType
<1> QED
    BY <1>5, <1>7, <1>8, <1>9

(***************************************************************************)
(* No two leads have one rank.                                             *)
(***************************************************************************)
LEMMA RanksAreDistinct ==
    ASSUME RowsInHand, TypeOK, NEW rows \in SUBSET leads
    PROVE  /\ IsFiniteSet(rows) /\ Cardinality(rows) \in Nat
           /\ [l \in rows |-> Rank(l, rows)] \in Injection(rows, 0 .. Cardinality(rows) - 1)
<1> DEFINE N == Cardinality(rows)
           rank == [l \in rows |-> Rank(l, rows)]
<1>1. IsFiniteSet(rows) /\ N \in Nat
    BY FS_Subset, FS_CardinalityType DEF RowsInHand
<1>2. ASSUME NEW l \in rows PROVE Rank(l, rows) \in 0 .. N - 1
    <2> DEFINE newer == {y \in rows : createdAt[y.id] > createdAt[l.id]}
    <2>1. createdAt[l.id] \in Nat
        BY DEF RowsInHand, TypeOK, Leads
    <2>2. newer \subseteq rows \ {l}
        BY <2>1
    <2>3. Rank(l, rows) = Cardinality(newer)
        BY DEF Rank
    <2> HIDE DEF newer
    <2>4. IsFiniteSet(rows \ {l}) /\ Cardinality(rows \ {l}) = N - 1
        BY <1>1, FS_RemoveElement
    <2>5. IsFiniteSet(newer) /\ Cardinality(newer) <= N - 1
        BY <2>2, <2>4, FS_Subset
    <2>6. Cardinality(newer) \in Nat
        BY <2>5, FS_CardinalityType
    <2> QED
        BY <1>1, <2>3, <2>5, <2>6
<1>3. ASSUME NEW l \in rows, NEW m \in rows, Rank(l, rows) = Rank(m, rows) PROVE l = m
    <2>1. /\ createdAt[l.id] \in Nat /\ createdAt[m.id] \in Nat
          /\ l.id \in Requests /\ m.id \in Requests
          /\ createdAt[l.id] > 0
        BY DEF RowsInHand, TypeOK, Leads
    <2>2. Rank(l, rows) \in Int
        BY <1>2
    <2>3. ~(createdAt[l.id] > createdAt[m.id]) /\ ~(createdAt[m.id] > createdAt[l.id])
        BY <1>3, <2>2, RanksAreOrdered
    <2>4. createdAt[l.id] = createdAt[m.id]
        BY <2>1, <2>3
    <2> QED
        BY <2>1, <2>4 DEF RowsInHand
<1> HIDE DEF N
<1>4. rank \in [rows -> 0 .. N - 1]
    BY <1>2
<1>5. \A l, m \in rows : rank[l] = rank[m] => l = m
    BY <1>3
<1>6. rank \in Injection(rows, 0 .. N - 1)
    BY <1>4, <1>5 DEF Injection, IsInjective
<1> QED
    BY <1>1, <1>6 DEF N

(***************************************************************************)
(* A rank is a place in the list.                                          *)
(***************************************************************************)
LEMMA RanksAreNaturals ==
    ASSUME RowsInHand, TypeOK, NEW rows \in SUBSET leads, NEW l \in rows
    PROVE  Rank(l, rows) \in Nat
<1>1. [m \in rows |-> Rank(m, rows)] \in [rows -> 0 .. Cardinality(rows) - 1]
    BY RanksAreDistinct DEF Injection
<1> QED
    BY <1>1, RanksAreDistinct

(***************************************************************************)
(* A page holds as many rows as there are places of the list within it.    *)
(***************************************************************************)
LEMMA PagesFill ==
    ASSUME RowsInHand, TypeOK, NEW rows \in SUBSET leads, NEW offset \in Nat,
           NEW limit \in Nat, limit > 0
    PROVE  Cardinality(PageOf(rows, offset, limit)) =
               IF offset + limit <= Cardinality(rows) THEN limit
               ELSE IF offset < Cardinality(rows) THEN Cardinality(rows) - offset ELSE 0
<1> DEFINE N == Cardinality(rows)
           rank == [l \in rows |-> Rank(l, rows)]
           last == IF offset + limit <= N THEN offset + limit - 1 ELSE N - 1
           within == {m \in rows : Rank(m, rows) \in offset .. offset + limit - 1}
           place == [l \in within |-> Rank(l, rows)]
           name == [l \in within |-> l.id]
<1>1. IsFiniteSet(rows) /\ N \in Nat /\ rank \in Injection(rows, 0 .. N - 1)
    BY RanksAreDistinct
<1>2. IsFiniteSet(0 .. N - 1) /\ Cardinality(0 .. N - 1) = N
    <2>1. 0 \in Int /\ N - 1 \in Int
        BY <1>1
    <2>2. /\ IsFiniteSet(0 .. N - 1)
          /\ Cardinality(0 .. N - 1) = IF 0 > N - 1 THEN 0 ELSE N - 1 - 0 + 1
        BY <2>1, FS_Interval
    <2> QED
        BY <1>1, <2>2
<1>3. rank \in Surjection(rows, 0 .. N - 1)
    BY <1>1, <1>2, FS_Injection
<1>4. /\ \A n \in 0 .. N - 1 : \E l \in rows : Rank(l, rows) = n
      /\ \A l \in rows : Rank(l, rows) \in 0 .. N - 1
      /\ \A l, m \in rows : Rank(l, rows) = Rank(m, rows) => l = m
    <2> HIDE DEF N
    <2>1. \A l \in rows : rank[l] = Rank(l, rows)
        OBVIOUS
    <2> HIDE DEF rank
    <2>2. /\ rank \in [rows -> 0 .. N - 1]
          /\ \A l, m \in rows : rank[l] = rank[m] => l = m
        BY <1>1 DEF Injection, IsInjective
    <2>3. \A n \in 0 .. N - 1 : \E l \in rows : rank[l] = n
        BY <1>3 DEF Surjection
    <2> QED
        BY <2>1, <2>2, <2>3
<1>5. \A n : n \in offset .. last <=> n \in 0 .. N - 1 /\ n \in offset .. offset + limit - 1
    BY <1>1
<1>6. last \in Int /\ offset \in Int
    BY <1>1
<1> HIDE DEF last, N
<1>7. place \in Bijection(within, offset .. last)
    <2>1. \A l \in within : place[l] \in offset .. last
        BY <1>4, <1>5
    <2>2. \A l, m \in within : place[l] = place[m] => l = m
        BY <1>4
    <2>3. ASSUME NEW n \in offset .. last PROVE \E l \in within : place[l] = n
        BY <1>4, <1>5
    <2>4. place = [l \in within |-> place[l]]
        OBVIOUS
    <2> HIDE DEF place, within
    <2>5. place \in [within -> offset .. last]
        BY <2>1, <2>4
    <2> QED
        BY <2>2, <2>3, <2>5 DEF Bijection, Injection, IsInjective, Surjection
<1>8. name \in Bijection(within, PageOf(rows, offset, limit))
    <2>1. \A l, m \in within : name[l] = name[m] => l = m
        BY DEF RowsInHand
    <2>2. PageOf(rows, offset, limit) = {name[l] : l \in within}
        BY DEF PageOf
    <2>3. name = [l \in within |-> name[l]]
        OBVIOUS
    <2> HIDE DEF name, within
    <2> QED
        BY <2>1, <2>2, <2>3 DEF Bijection, Injection, IsInjective, Surjection
<1>9. IsFiniteSet(within)
    BY <1>1, FS_Subset
<1> HIDE DEF within, place, name
<1>10. Cardinality(PageOf(rows, offset, limit)) = Cardinality(offset .. last)
    BY <1>7, <1>8, <1>9, FS_Bijection DEF ExistsBijection
<1>11. Cardinality(offset .. last) = IF offset > last THEN 0 ELSE last - offset + 1
    BY <1>6, FS_Interval
<1> QED
    BY <1>1, <1>10, <1>11 DEF last, N

-----------------------------------------------------------------------------
(***************************************************************************)
(* What a step of a capture does to the table: nothing, or it adds the     *)
(* lead of a request that has read the clock.                              *)
(***************************************************************************)
LEMMA CaptureAdds ==
    ASSUME IInv, Next
    PROVE  \E r \in Requests :
              /\ pc' = [pc EXCEPT ![r] = pc'[r]]
              /\ pc'[r] = "capturing" => pc[r] = "arrived" /\ leads' = leads
              /\ \/ leads' = leads
                 \/ /\ pc[r] = "capturing"
                    /\ \E p \in Valid :
                          leads' = leads \cup {[id |-> r, key |-> key[r], payload |-> p]}
<1>0. pc = [q \in Requests |-> pc[q]]
    BY DEF IInv, TypeOK
<1>1. ASSUME NEW r \in Requests, NEW k \in Keys, NEW p \in Payloads, Submit(r, k, p)
      PROVE  pc' = [pc EXCEPT ![r] = pc'[r]] /\ pc'[r] # "capturing" /\ leads' = leads
    BY <1>0, <1>1 DEF Submit, database
<1>2. ASSUME NEW r \in Requests, NEW status \in Statuses, TurnAway(r, status)
      PROVE  pc' = [pc EXCEPT ![r] = pc'[r]] /\ pc'[r] # "capturing" /\ leads' = leads
    BY <1>0, <1>2 DEF TurnAway, Answer, database
<1>3. ASSUME NEW r \in Requests, FindExisting(r) \/ Reject(r) \/ Conflict(r) \/ Fail(r)
      PROVE  pc' = [pc EXCEPT ![r] = pc'[r]] /\ pc'[r] # "capturing" /\ leads' = leads
    BY <1>0, <1>3 DEF FindExisting, Reject, Conflict, Fail, Answer, database
<1>4. ASSUME NEW r \in Requests, FindNothing(r)
      PROVE  pc' = [pc EXCEPT ![r] = pc'[r]] /\ pc[r] = "arrived" /\ leads' = leads
    BY <1>0, <1>4 DEF FindNothing, database
<1>5. ASSUME NEW r \in Requests, Create(r) \/ CreateUnheard(r)
      PROVE  /\ pc' = [pc EXCEPT ![r] = pc'[r]] /\ pc'[r] # "capturing"
             /\ pc[r] = "capturing"
             /\ \E p \in Valid :
                   leads' = leads \cup {[id |-> r, key |-> key[r], payload |-> p]}
    BY <1>0, <1>5 DEF Create, CreateUnheard, Insert, Answer
<1> QED
    BY <1>1, <1>2, <1>3, <1>4, <1>5 DEF Next

(***************************************************************************)
(* A capture keeps the table in hand, and what is in it keeps its place in *)
(* the order.                                                              *)
(***************************************************************************)
LEMMA TableGrows ==
    ASSUME IInv, RowsInHand, CaptureStep
    PROVE  /\ RowsInHand'
           /\ leads \subseteq leads'
           /\ \A l \in leads : createdAt'[l.id] = createdAt[l.id]
<1> DEFINE timed == {q \in Requests : pc[q] = "arrived" /\ pc'[q] = "capturing"}
<1>1. PICK r \in Requests :
          /\ pc' = [pc EXCEPT ![r] = pc'[r]]
          /\ pc'[r] = "capturing" => pc[r] = "arrived" /\ leads' = leads
          /\ \/ leads' = leads
             \/ /\ pc[r] = "capturing"
                /\ \E p \in Valid :
                      leads' = leads \cup {[id |-> r, key |-> key[r], payload |-> p]}
    BY CaptureAdds DEF CaptureStep
<1>2. \A q \in Requests \ {r} : pc'[q] = pc[q]
    BY <1>1 DEF IInv, TypeOK
<1>3. /\ clock' = IF timed = {} THEN clock ELSE clock + 1
      /\ createdAt' = [q \in Requests |-> IF q \in timed THEN clock' ELSE createdAt[q]]
    BY DEF CaptureStep
<1>4. timed \subseteq {r}
    BY <1>2
<1>5. /\ clock \in Nat /\ createdAt \in [Requests -> Nat]
      /\ \A q \in Requests : createdAt[q] <= clock
      /\ \A p, q \in Requests : createdAt[p] = createdAt[q] => p = q \/ createdAt[p] = 0
    BY DEF RowsInHand
<1>6. \A q \in timed : pc[q] = "arrived"
    OBVIOUS
<1>7. \A q \in Requests : pc'[q] = "capturing" => q \in timed \/ pc[q] = "capturing"
    BY <1>1, <1>2
<1> HIDE DEF timed
<1>8. clock' \in Nat /\ createdAt' \in [Requests -> Nat]
    BY <1>3, <1>5
<1>9. \A q \in Requests : createdAt'[q] <= clock'
    BY <1>3, <1>5
<1>10. \A p, q \in Requests : createdAt'[p] = createdAt'[q] => p = q \/ createdAt'[p] = 0
    BY <1>3, <1>4, <1>5
<1>11. \A q \in Requests : pc'[q] = "capturing" => createdAt'[q] > 0
    <2> SUFFICES ASSUME NEW q \in Requests, pc'[q] = "capturing" PROVE createdAt'[q] > 0
        OBVIOUS
    <2>1. CASE q \in timed
        BY <1>3, <1>5, <2>1
    <2>2. CASE q \notin timed
        BY <1>3, <1>5, <1>7, <2>2 DEF RowsInHand
    <2> QED
        BY <2>1, <2>2
<1>12. \A l \in leads : l.id \in Requests /\ l.id \notin timed /\ createdAt[l.id] > 0
    BY <1>6 DEF RowsInHand, IInv, LeadsHaveMakers, TypeOK, Leads
<1>13. \A l \in leads : createdAt'[l.id] = createdAt[l.id]
    BY <1>3, <1>12
<1>14. CASE leads' = leads
    <2>1. RowsInHand'
        BY <1>8, <1>9, <1>10, <1>11, <1>12, <1>13, <1>14 DEF RowsInHand
    <2> QED
        BY <1>13, <1>14, <2>1
<1>15. ASSUME pc[r] = "capturing", NEW p \in Valid,
              leads' = leads \cup {[id |-> r, key |-> key[r], payload |-> p]}
       PROVE  RowsInHand' /\ leads \subseteq leads'
    <2> DEFINE new == [id |-> r, key |-> key[r], payload |-> p]
    <2>1. r \notin timed /\ createdAt[r] > 0
        BY <1>6, <1>15 DEF RowsInHand
    <2>2. createdAt'[r] > 0
        BY <1>3, <2>1
    <2>3. \A l \in leads : l.id # r
        BY <1>15 DEF IInv, LeadsHaveMakers
    <2>4. new.id = r /\ leads' = leads \cup {new}
        BY <1>15
    <2> HIDE DEF new
    <2>5. IsFiniteSet(leads')
        BY <2>4, FS_AddElement DEF RowsInHand
    <2>6. \A l, m \in leads' : l.id = m.id => l = m
        BY <2>3, <2>4 DEF RowsInHand
    <2>7. \A l \in leads' : createdAt'[l.id] > 0
        BY <1>12, <1>13, <2>2, <2>4
    <2> QED
        BY <1>8, <1>9, <1>10, <1>11, <2>4, <2>5, <2>6, <2>7 DEF RowsInHand
<1> QED
    BY <1>1, <1>13, <1>14, <1>15

(***************************************************************************)
(* Ranks do not fall when the table grows.                                 *)
(***************************************************************************)
LEMMA RanksOnlyGrow ==
    ASSUME RowsInHand', NEW rows \in SUBSET leads, NEW more \in SUBSET leads',
           rows \subseteq more,
           \A l \in rows : createdAt'[l.id] = createdAt[l.id],
           NEW l \in rows
    PROVE  /\ Rank(l, rows) <= Cardinality({m \in more : createdAt'[m.id] > createdAt'[l.id]})
           /\ Rank(l, rows) \in Nat
           /\ Cardinality({m \in more : createdAt'[m.id] > createdAt'[l.id]}) \in Nat
<1> DEFINE before == {m \in rows : createdAt[m.id] > createdAt[l.id]}
           after  == {m \in more : createdAt'[m.id] > createdAt'[l.id]}
<1>1. before \subseteq after
    OBVIOUS
<1>2. after \in SUBSET leads'
    OBVIOUS
<1>3. Rank(l, rows) = Cardinality(before)
    BY DEF Rank
<1> HIDE DEF before, after
<1>4. IsFiniteSet(after)
    BY <1>2, FS_Subset DEF RowsInHand
<1>5. IsFiniteSet(before) /\ Cardinality(before) <= Cardinality(after)
    BY <1>1, <1>4, FS_Subset
<1>6. Cardinality(before) \in Nat /\ Cardinality(after) \in Nat
    BY <1>4, <1>5, FS_CardinalityType
<1> QED
    BY <1>3, <1>5, <1>6 DEF after

(***************************************************************************)
(* The bands partition the leads, so the counters add up.                  *)
(***************************************************************************)
LEMMA BandsAddUp ==
    ASSUME RowsInHand, TypeOK, filter \in Filters \cup {None}
    PROVE  /\ Counters.total = Counters.hot + Counters.warm + Counters.cold
           /\ Cardinality(Rows) = IF filter = None THEN Counters.total ELSE Counters[filter]
<1> DEFINE hot == MatchingLeads("hot")  warm == MatchingLeads("warm")
           cold == MatchingLeads("cold")
<1>0. "hot" # None /\ "warm" # None /\ "cold" # None /\ filter \in Bands \cup {None}
    BY LeadListAssumption DEF Bands
<1>1. ASSUME NEW l \in leads PROVE Temperature(l.payload) \in Bands
    BY DEF Temperature, Classify, Bands
<1>2. /\ hot  = {l \in leads : Temperature(l.payload) = "hot"}
      /\ warm = {l \in leads : Temperature(l.payload) = "warm"}
      /\ cold = {l \in leads : Temperature(l.payload) = "cold"}
    BY <1>0 DEF MatchingLeads
<1>3. MatchingLeads(None) = leads
    BY DEF MatchingLeads
<1>4. leads = hot \cup (warm \cup cold) /\ hot \cap (warm \cup cold) = {} /\ warm \cap cold = {}
    BY <1>1, <1>2 DEF Bands
<1> HIDE DEF hot, warm, cold
<1>5. IsFiniteSet(hot) /\ IsFiniteSet(warm) /\ IsFiniteSet(cold) /\ IsFiniteSet(warm \cup cold)
    BY <1>4, FS_Subset DEF RowsInHand
<1>6. /\ Cardinality(warm \cup cold) = Cardinality(warm) + Cardinality(cold) - Cardinality({})
      /\ Cardinality(leads) = Cardinality(hot) + Cardinality(warm \cup cold) - Cardinality({})
    BY <1>4, <1>5, FS_Union
<1>7. Cardinality({}) = 0
    BY FS_EmptySet
<1>8. Cardinality(hot) \in Nat /\ Cardinality(warm) \in Nat /\ Cardinality(cold) \in Nat
    BY <1>5, FS_CardinalityType
<1>9. Cardinality(leads) = Cardinality(hot) + Cardinality(warm) + Cardinality(cold)
    BY <1>6, <1>7, <1>8
<1>10. /\ Counters.total = Cardinality(leads) /\ Counters.hot = Cardinality(hot)
       /\ Counters.warm = Cardinality(warm) /\ Counters.cold = Cardinality(cold)
    BY <1>3 DEF Counters, CountedIn, hot, warm, cold
<1>11. Cardinality(Rows) = IF filter = None THEN Counters.total ELSE Counters[filter]
    <2>1. CASE filter = None
        BY <1>3, <1>10, <2>1 DEF Rows
    <2>2. ASSUME filter # None, filter \in Bands PROVE Counters[filter] = CountedIn(filter)
        BY <2>2 DEF Counters, Bands
    <2> QED
        BY <1>0, <2>1, <2>2 DEF Rows, CountedIn
<1> QED
    BY <1>9, <1>10, <1>11

-----------------------------------------------------------------------------
(***************************************************************************)
(* The steps.  A capture pushes rows on and takes none away.               *)
(***************************************************************************)
LEMMA CaptureStepKeeps ==
    ASSUME ListInv, CaptureStep
    PROVE  ListInv'
<1>0. IInv /\ RowsInHand /\ ReaderInHand /\ LoadInHand
    BY DEF ListInv
<1>1. IInv'
    BY <1>0, NextKeeps DEF CaptureStep
<1>2. /\ RowsInHand' /\ leads \subseteq leads'
      /\ \A l \in leads : createdAt'[l.id] = createdAt[l.id]
    BY <1>0, TableGrows
<1>3. UNCHANGED <<filter, page, total, items, counters, loads, stored, shown>>
    BY DEF CaptureStep
<1>4. /\ raced \subseteq raced'
      /\ leads' # leads /\ total # None /\ items = None => "table" \in raced'
      /\ leads' # leads /\ Loading /\ ~(total = None /\ counters = None) => "page" \in raced'
    BY DEF CaptureStep
<1>5. Rows \subseteq Rows' /\ Rows \subseteq leads /\ Rows' \subseteq leads'
    BY <1>2, <1>3 DEF Rows, MatchingLeads
<1>6. leads' = leads => Rows' = Rows /\ Counters' = Counters
    BY <1>3 DEF Rows, MatchingLeads, Counters, CountedIn
<1>7. RowsRead' = RowsRead /\ (HasMore <=> HasMore') /\ (PageIsFull <=> PageIsFull')
    BY <1>3 DEF RowsRead, Offset, HasMore, PageIsFull
<1>8. ReaderInHand'
    <2>1. ASSUME page > 0 PROVE stored' \subseteq {l.id : l \in Rows'}
        BY <1>0, <1>3, <1>5, <2>1 DEF ReaderInHand
    <2>2. ASSUME page > 0, NEW l \in Rows', l.id \in stored, Rank(l, Rows)' < RowsRead
          PROVE  l.id \in shown
        <3>1. PICK k \in Rows : k.id = l.id
            BY <1>0, <2>2 DEF ReaderInHand
        <3>2. l \in Rows
            BY <1>2, <1>5, <3>1 DEF RowsInHand
        <3>3. Rank(l, Rows)' = Cardinality({m \in Rows' : createdAt'[m.id] > createdAt'[l.id]})
            BY DEF Rank
        <3>4. \A m \in Rows : createdAt'[m.id] = createdAt[m.id]
            BY <1>2, <1>5
        <3>5. Rank(l, Rows) <= Rank(l, Rows)' /\ Rank(l, Rows) \in Nat /\ Rank(l, Rows)' \in Nat
            <4>1. /\ Rank(l, Rows)
                        <= Cardinality({m \in Rows' : createdAt'[m.id] > createdAt'[l.id]})
                  /\ Rank(l, Rows) \in Nat
                  /\ Cardinality({m \in Rows' : createdAt'[m.id] > createdAt'[l.id]}) \in Nat
                BY <1>2, <1>5, <3>2, <3>4, RanksOnlyGrow
            <4> QED
                BY <3>3, <4>1
        <3>6. RowsRead \in Int
            BY <1>0, <2>2, OffsetsAdd DEF RowsRead, ReaderInHand
        <3>7. Rank(l, Rows) < RowsRead
            BY <2>2, <3>5, <3>6
        <3> QED
            BY <1>0, <2>2, <3>2, <3>7 DEF ReaderInHand
    <2>3. ASSUME page > 0, total # None, "table" \notin raced'
          PROVE  IF items = None THEN total = Cardinality(Rows')
                                 ELSE ~HasMore => stored \subseteq shown
        BY <1>0, <1>4, <1>6, <2>3 DEF ReaderInHand
    <2> QED
        BY <1>0, <1>3, <1>7, <2>1, <2>2, <2>3 DEF ReaderInHand
<1>9. LoadInHand'
    <2>1. QuietPageAgrees'
        BY <1>0, <1>3, <1>4, <1>7 DEF LoadInHand, QuietPageAgrees, Rendered, HasMore, Offset
    <2>2. ASSUME Loading', "page" \notin raced'
          PROVE  /\ total # None => total = Cardinality(Rows')
                 /\ counters # None => counters = Counters'
                 /\ items # None => PageIsFull
        <3>1. Loading /\ "page" \notin raced
            BY <1>3, <1>4, <2>2 DEF Loading
        <3>2. CASE leads' = leads
            BY <1>0, <1>6, <3>1, <3>2 DEF LoadInHand
        <3>3. CASE total = None /\ counters = None
            BY <1>0, <3>3 DEF ReaderInHand
        <3> QED
            BY <1>4, <2>2, <3>1, <3>2, <3>3
    <2> QED
        BY <1>3, <1>7, <2>1, <2>2 DEF LoadInHand
<1> QED
    BY <1>1, <1>2, <1>8, <1>9 DEF ListInv

(***************************************************************************)
(* The other steps leave the table alone.                                  *)
(***************************************************************************)
LEMMA TableRests ==
    ASSUME ListInv, UNCHANGED <<vars, clock, createdAt>>
    PROVE  /\ IInv' /\ RowsInHand'
           /\ \A f : MatchingLeads(f)' = MatchingLeads(f)
           /\ Counters' = Counters
           /\ \A l, rows : Rank(l, rows)' = Rank(l, rows)
<1>1. IInv'
    BY NextKeeps DEF ListInv
<1>2. RowsInHand'
    BY DEF ListInv, RowsInHand, vars, database
<1>3. /\ \A f : MatchingLeads(f)' = MatchingLeads(f)
      /\ Counters' = Counters
    BY DEF vars, database, MatchingLeads, Counters, CountedIn
<1>4. \A l, rows : Rank(l, rows)' = Rank(l, rows)
    BY DEF Rank
<1> QED
    BY <1>1, <1>2, <1>3, <1>4

(***************************************************************************)
(* A page holds the ranks from its offset on, as far as it goes.           *)
(***************************************************************************)
LEMMA RowsAreRanked ==
    ASSUME ListInv
    PROVE  /\ Rows \in SUBSET leads /\ IsFiniteSet(Rows) /\ Cardinality(Rows) \in Nat
           /\ \A l \in Rows : Rank(l, Rows) \in 0 .. Cardinality(Rows) - 1
<1>1. Rows \in SUBSET leads /\ RowsInHand /\ TypeOK
    BY DEF Rows, MatchingLeads, ListInv, IInv
<1>2. /\ IsFiniteSet(Rows) /\ Cardinality(Rows) \in Nat
      /\ [l \in Rows |-> Rank(l, Rows)] \in Injection(Rows, 0 .. Cardinality(Rows) - 1)
    BY <1>1, RanksAreDistinct
<1>3. [l \in Rows |-> Rank(l, Rows)] \in [Rows -> 0 .. Cardinality(Rows) - 1]
    BY <1>2 DEF Injection
<1> QED
    BY <1>1, <1>2, <1>3

(***************************************************************************)
(* Opening the list, or asking for the next page, forgets what was read    *)
(* but not what was shown.                                                 *)
(***************************************************************************)
LEMMA OpenKeeps ==
    ASSUME ListInv, NEW f \in Filters, Open(f)
    PROVE  ListInv'
<1>1. UNCHANGED <<vars, clock, createdAt>>
    BY DEF Open, Load
<1>2. /\ filter' = f /\ page' = 1 /\ total' = None /\ items' = None /\ counters' = None
      /\ stored' = {l.id : l \in MatchingLeads(f)} /\ shown' = {} /\ raced' = {}
    BY DEF Open, Load
<1>3. /\ IInv' /\ RowsInHand' /\ Rows' = MatchingLeads(f)
    BY <1>1, <1>2, TableRests DEF Rows
<1>4. RowsRead' = Offset(1)
    BY <1>2 DEF RowsRead, Offset
<1>f. Offset(1) = 0
    BY FirstOffset
<1>5. \A l \in Rows' : Rank(l, Rows)' \in Nat
    <2>1. \A l, rows : Rank(l, rows)' = Rank(l, rows)
        BY <1>1, TableRests
    <2>2. /\ MatchingLeads(f) \in SUBSET leads
          /\ RowsInHand /\ TypeOK
        BY DEF MatchingLeads, ListInv, IInv
    <2>3. \A l \in MatchingLeads(f) : Rank(l, MatchingLeads(f)) \in Nat
        BY <2>2, RanksAreNaturals
    <2>4. \A l : Rank(l, Rows)' = Rank(l, MatchingLeads(f))
        BY <1>3, <2>1 DEF Rank
    <2> QED
        BY <1>3, <2>3, <2>4
<1>6. ReaderInHand'
    BY <1>2, <1>3, <1>4, <1>f, <1>5 DEF ReaderInHand
<1>7. LoadInHand'
    BY <1>2 DEF LoadInHand, QuietPageAgrees, Rendered
<1> QED
    BY <1>3, <1>6, <1>7 DEF ListInv

(***************************************************************************)
(* The next page is asked for.                                             *)
(***************************************************************************)
LEMMA NextPageKeeps ==
    ASSUME ListInv, NextPage
    PROVE  ListInv'
<1>1. UNCHANGED <<vars, clock, createdAt>>
    BY DEF NextPage, Load
<1>2. /\ page > 0 /\ items # None
      /\ page' = page + 1 /\ total' = None /\ items' = None /\ counters' = None
      /\ UNCHANGED <<filter, stored, shown>>
    BY DEF NextPage, Load, Rendered
<1>3. /\ IInv' /\ RowsInHand' /\ Rows' = Rows
      /\ \A l, rows : Rank(l, rows)' = Rank(l, rows)
    BY <1>1, <1>2, TableRests DEF Rows
<1>4. RowsRead' = RowsRead
    BY <1>2 DEF RowsRead, Offset
<1>5. \A l \in Rows : l.id \in stored /\ Rank(l, Rows) < RowsRead => l.id \in shown
    BY <1>2 DEF ListInv, ReaderInHand
<1>6. \A l : Rank(l, Rows)' = Rank(l, Rows)
    BY <1>3 DEF Rank
<1>7. ReaderInHand'
    <2>1. page' \in Nat /\ filter' \in Filters \cup {None}
        BY <1>2 DEF ListInv, ReaderInHand
    <2>2. stored' \subseteq {l.id : l \in Rows'}
        BY <1>2, <1>3 DEF ListInv, ReaderInHand
    <2>3. \A l \in Rows' : l.id \in stored' /\ Rank(l, Rows)' < RowsRead' => l.id \in shown'
        BY <1>2, <1>3, <1>4, <1>5, <1>6
    <2> QED
        BY <1>2, <2>1, <2>2, <2>3 DEF ReaderInHand
<1>8. LoadInHand'
    BY <1>2 DEF LoadInHand, QuietPageAgrees, Rendered
<1> QED
    BY <1>3, <1>7, <1>8 DEF ListInv

(***************************************************************************)
(* The three reads.                                                        *)
(***************************************************************************)
LEMMA CountRowsKeeps ==
    ASSUME ListInv, CountRows
    PROVE  ListInv'
<1>1. UNCHANGED <<vars, clock, createdAt>>
    BY DEF CountRows
<1>2. /\ page > 0 /\ total = None /\ total' = Cardinality(Rows)
      /\ UNCHANGED <<filter, page, items, counters, stored, shown, raced>>
    BY DEF CountRows, Rows
<1>3. /\ IInv' /\ RowsInHand' /\ Rows' = Rows /\ Counters' = Counters
      /\ \A l, rows : Rank(l, rows)' = Rank(l, rows)
    BY <1>1, <1>2, TableRests DEF Rows
<1>4. items = None /\ RowsRead' = RowsRead
    BY <1>2 DEF ListInv, ReaderInHand, RowsRead, Offset
<1>5. ReaderInHand'
    BY <1>2, <1>3, <1>4 DEF ListInv, ReaderInHand, Rank
<1>6. LoadInHand'
    BY <1>2, <1>3, <1>4 DEF ListInv, LoadInHand, QuietPageAgrees, Rendered, Loading
<1> QED
    BY <1>3, <1>5, <1>6 DEF ListInv

(***************************************************************************)
(* The counts are read.                                                    *)
(***************************************************************************)
LEMMA ReadStatsKeeps ==
    ASSUME ListInv, ReadStats
    PROVE  ListInv'
<1>1. UNCHANGED <<vars, clock, createdAt>>
    BY DEF ReadStats
<1>2. /\ page > 0 /\ counters = None /\ counters' = Counters
      /\ UNCHANGED <<filter, page, total, items, stored, shown, raced>>
    BY DEF ReadStats
<1>3. /\ IInv' /\ RowsInHand' /\ Rows' = Rows /\ Counters' = Counters
      /\ \A l, rows : Rank(l, rows)' = Rank(l, rows)
    BY <1>1, <1>2, TableRests DEF Rows
<1>4. /\ RowsRead' = RowsRead /\ (HasMore <=> HasMore') /\ (PageIsFull <=> PageIsFull')
    BY <1>2 DEF RowsRead, Offset, HasMore, PageIsFull
<1>5. ReaderInHand'
    BY <1>2, <1>3, <1>4 DEF ListInv, ReaderInHand, Rank
<1>6. ASSUME "page" \notin raced
      PROVE  /\ total # None => total = Cardinality(Rows)
             /\ items # None => PageIsFull
    BY <1>2, <1>6 DEF ListInv, LoadInHand, Loading
<1>7. QuietPageAgrees'
    <2> SUFFICES ASSUME total # None, items # None, "page" \notin raced
                 PROVE  /\ Counters.total = Counters.hot + Counters.warm + Counters.cold
                        /\ total = IF filter = None THEN Counters.total ELSE Counters[filter]
                        /\ PageIsFull
        BY <1>2, <1>4 DEF QuietPageAgrees, Rendered, PageIsFull, HasMore, Offset
    <2>1. /\ Counters.total = Counters.hot + Counters.warm + Counters.cold
          /\ Cardinality(Rows) = IF filter = None THEN Counters.total ELSE Counters[filter]
        BY BandsAddUp DEF ListInv, IInv, ReaderInHand
    <2> QED
        BY <1>6, <2>1
<1>8. LoadInHand'
    BY <1>2, <1>3, <1>4, <1>6, <1>7 DEF LoadInHand
<1> QED
    BY <1>3, <1>5, <1>8 DEF ListInv

(***************************************************************************)
(* The rows of the page are read.                                          *)
(***************************************************************************)
LEMMA FetchRowsKeeps ==
    ASSUME ListInv, FetchRows
    PROVE  ListInv'
<1> DEFINE N == Cardinality(Rows)
<1>1. UNCHANGED <<vars, clock, createdAt>>
    BY DEF FetchRows
<1>2. /\ page > 0 /\ total # None /\ items = None
      /\ items' = PageOf(Rows, Offset(page), SafeLimit(PageSize))
      /\ shown' = shown \cup items'
      /\ UNCHANGED <<filter, page, total, counters, stored, raced>>
    BY DEF FetchRows, Rows
<1>3. /\ IInv' /\ RowsInHand' /\ Rows' = Rows /\ Counters' = Counters
      /\ \A l, rows : Rank(l, rows)' = Rank(l, rows)
    BY <1>1, <1>2, TableRests DEF Rows
<1>4. /\ Offset(page) \in Nat /\ Offset(page + 1) = Offset(page) + PageSize
      /\ SafeLimit(PageSize) = PageSize /\ PageSize \in Nat /\ PageSize > 0
      /\ Offset(page)' = Offset(page)
    BY <1>2, OffsetsAdd DEF ListInv, ReaderInHand, Offset
<1>5. /\ Rows \in SUBSET leads /\ N \in Nat /\ \A l \in Rows : Rank(l, Rows) \in 0 .. N - 1
    BY RowsAreRanked
<1>6. Cardinality(items') = IF Offset(page) + PageSize <= N THEN PageSize
                            ELSE IF Offset(page) < N THEN N - Offset(page) ELSE 0
    BY <1>2, <1>4, <1>5, PagesFill DEF ListInv, IInv
<1>7. \A l \in Rows : Rank(l, Rows) \in Offset(page) .. Offset(page) + PageSize - 1 => l.id \in items'
    BY <1>2, <1>4 DEF PageOf
<1>8. HasMore' <=> Offset(page) + Cardinality(items') < total
    BY <1>2, <1>4 DEF HasMore
<1> HIDE DEF N
<1>9. ASSUME NEW l \in Rows, l.id \in stored, Rank(l, Rows) < Offset(page + 1)
      PROVE  l.id \in shown'
    <2>1. CASE Rank(l, Rows) < Offset(page)
        BY <1>2, <1>9, <2>1 DEF ListInv, ReaderInHand, RowsRead
    <2>2. CASE ~(Rank(l, Rows) < Offset(page))
        BY <1>2, <1>4, <1>5, <1>7, <1>9, <2>2
    <2> QED
        BY <2>1, <2>2
<1>10. ASSUME "table" \notin raced PROVE total = N
    BY <1>2, <1>10 DEF ListInv, ReaderInHand, N
<1>11. ASSUME "table" \notin raced, ~HasMore' PROVE stored \subseteq shown'
    <2>1. N <= Offset(page + 1)
        BY <1>4, <1>5, <1>6, <1>8, <1>10, <1>11
    <2>2. \A l \in Rows : Rank(l, Rows) < Offset(page + 1)
        BY <1>4, <1>5, <2>1
    <2>3. stored \subseteq {l.id : l \in Rows}
        BY <1>2 DEF ListInv, ReaderInHand
    <2> QED
        BY <1>9, <2>2, <2>3
<1>12. ReaderInHand'
    <2>1. \A l \in Rows : l.id \in stored /\ Rank(l, Rows) < RowsRead' => l.id \in shown'
        <3>1. CASE items' = None
            <4>1. RowsRead' = RowsRead
                BY <1>2, <1>4, <3>1 DEF RowsRead
            <4> QED
                BY <1>2, <4>1 DEF ListInv, ReaderInHand
        <3>2. CASE items' # None
            <4>1. RowsRead' = Offset(page + 1)
                BY <1>2, <3>2 DEF RowsRead, Offset
            <4> QED
                BY <1>9, <4>1
        <3> QED
            BY <3>1, <3>2
    <2> QED
        BY <1>2, <1>3, <1>10, <1>11, <2>1 DEF ListInv, ReaderInHand, Rank, N
<1>13. ASSUME "page" \notin raced
       PROVE  /\ total = N
              /\ counters # None => counters = Counters
              /\ PageIsFull'
    <2>1. total = N /\ (counters # None => counters = Counters)
        BY <1>2, <1>13 DEF ListInv, LoadInHand, Loading, N
    <2> QED
        BY <1>2, <1>4, <1>5, <1>6, <1>8, <2>1 DEF PageIsFull
<1>14. QuietPageAgrees'
    <2> SUFFICES ASSUME counters # None, "page" \notin raced
                 PROVE  /\ Counters.total = Counters.hot + Counters.warm + Counters.cold
                        /\ total = IF filter = None THEN Counters.total ELSE Counters[filter]
                        /\ counters = Counters
                        /\ PageIsFull'
        BY <1>2 DEF QuietPageAgrees, Rendered, PageIsFull
    <2>1. /\ Counters.total = Counters.hot + Counters.warm + Counters.cold
          /\ N = IF filter = None THEN Counters.total ELSE Counters[filter]
        BY BandsAddUp DEF ListInv, IInv, ReaderInHand, N
    <2> QED
        BY <1>13, <2>1
<1>15. LoadInHand'
    BY <1>2, <1>3, <1>13, <1>14 DEF LoadInHand, N
<1> QED
    BY <1>3, <1>12, <1>15 DEF ListInv

(***************************************************************************)
(* A page that fails leaves what was shown.                                *)
(***************************************************************************)
LEMMA LoadFailsKeeps ==
    ASSUME ListInv, LoadFails
    PROVE  ListInv'
<1>1. UNCHANGED <<vars, clock, createdAt>>
    BY DEF LoadFails
<1>2. page' = 0 /\ filter' = None /\ total' = None /\ items' = None /\ counters' = None
    BY DEF LoadFails
<1>3. IInv' /\ RowsInHand'
    BY <1>1, TableRests
<1>4. ReaderInHand' /\ LoadInHand'
    BY <1>2 DEF ReaderInHand, LoadInHand, QuietPageAgrees, Rendered, Loading
<1> QED
    BY <1>3, <1>4 DEF ListInv

-----------------------------------------------------------------------------
(***************************************************************************)
(* No page was asked for.                                                  *)
(***************************************************************************)
LEMMA ListBegins == ListInit => ListInv
<1> SUFFICES ASSUME ListInit PROVE ListInv
    OBVIOUS
<1>1. IInv
    BY InitEstablishes DEF ListInit
<1>2. IsFiniteSet({})
    BY FS_EmptySet
<1>3. RowsInHand
    BY <1>2 DEF ListInit, Init, RowsInHand
<1>4. ReaderInHand /\ LoadInHand
    BY DEF ListInit, ReaderInHand, LoadInHand, QuietPageAgrees, Rendered, Loading
<1> QED
    BY <1>1, <1>3, <1>4 DEF ListInv

(***************************************************************************)
(* ListInv is inductive.                                                   *)
(***************************************************************************)
LEMMA ListGoesOn == ListInv /\ [ListNext]_listVars => ListInv'
<1> SUFFICES ASSUME ListInv, [ListNext]_listVars PROVE ListInv'
    OBVIOUS
<1>1. CASE CaptureStep
    BY <1>1, CaptureStepKeeps
<1>2. ASSUME NEW f \in Filters, Open(f) PROVE ListInv'
    BY <1>2, OpenKeeps
<1>3. CASE NextPage \/ LoadFails
    BY <1>3, NextPageKeeps, LoadFailsKeeps
<1>4. CASE CountRows \/ FetchRows \/ ReadStats
    BY <1>4, CountRowsKeeps, FetchRowsKeeps, ReadStatsKeeps
<1>5. CASE UNCHANGED listVars
    <2>1. UNCHANGED <<vars, clock, createdAt>> /\ UNCHANGED reader
        BY <1>5 DEF listVars
    <2>2. /\ IInv' /\ RowsInHand' /\ Rows' = Rows /\ Counters' = Counters
          /\ \A l, rows : Rank(l, rows)' = Rank(l, rows)
        BY <2>1, TableRests DEF Rows, reader
    <2>3. RowsRead' = RowsRead
        BY <2>1 DEF reader, RowsRead, Offset
    <2>4. ReaderInHand'
        BY <2>1, <2>2, <2>3 DEF reader, ListInv, ReaderInHand, Rank, HasMore, Offset
    <2>5. LoadInHand'
        BY <2>1, <2>2 DEF reader, ListInv, LoadInHand, QuietPageAgrees, Rendered, Loading,
                          PageIsFull, HasMore, Offset
    <2> QED
        BY <2>2, <2>4, <2>5 DEF ListInv
<1> QED
    BY <1>1, <1>2, <1>3, <1>4, <1>5 DEF ListNext

(***************************************************************************)
(* Whoever follows Next to the end has been shown every lead that was      *)
(* there, whatever the page size and however many leads come meanwhile.    *)
(***************************************************************************)
THEOREM FollowingNextShowsAll == ListSpec => []PagingMissesNothing
<1>1. ListInv => PagingMissesNothing
    BY DEF ListInv, ReaderInHand, PagingMissesNothing, Rendered
<1> QED
    BY <1>1, ListBegins, ListGoesOn, PTL DEF ListSpec

(***************************************************************************)
(* What a page shows of one list is consistent.                            *)
(***************************************************************************)
THEOREM QuietPagesAgree == ListSpec => []QuietPageAgrees
<1>1. ListInv => QuietPageAgrees
    BY DEF ListInv, LoadInHand
<1> QED
    BY <1>1, ListBegins, ListGoesOn, PTL DEF ListSpec

(***************************************************************************)
(* Whoever reads changes nothing of what the capture requests do: every    *)
(* theorem of LeadCaptureProofs holds beside a reader.                     *)
(***************************************************************************)
THEOREM ReadingChangesNothing == ListSpec => Spec
<1>1. ListInit => Init
    BY DEF ListInit
<1>2. [ListNext]_listVars => [Next]_vars
    BY DEF ListNext, listVars, CaptureStep, Open, NextPage, Load, CountRows, FetchRows,
           ReadStats, LoadFails
<1> QED
    BY <1>1, <1>2, PTL DEF ListSpec, Spec
=============================================================================
