---------------------------- MODULE OutboxProofs ----------------------------
(***************************************************************************)
(* Theorems about the outbox for every set of events and workers and every *)
(* value of the bounds.                                                    *)
(***************************************************************************)
EXTENDS Outbox, FiniteSetTheorems, TLAPS

-----------------------------------------------------------------------------
(***************************************************************************)
(* Types, together with what each worker has in hand: the record a result  *)
(* is written for is one of the events.                                    *)
(***************************************************************************)
TypeInv == TypeOK /\ RecordsInHand

LEMMA InitTypes == Init => TypeInv
  BY OutboxAssumption DEF Init, TypeInv, TypeOK, RecordsInHand, Statuses, Phases,
     Results, Delivering, Null

LEMMA ResolvedTypes ==
    ASSUME TypeInv, NEW w \in Workers, NEW e \in held[w], Resolved(w, e),
           UNCHANGED <<delivered, refused, abandons, replays>>,
           status' \in [Events -> Statuses],
           attempts' \in [Events -> 0..AttemptCap],
           nextIn' \in [Events -> Int],
           claimAge' \in [Events -> Int]
    PROVE  TypeInv'
  <1> USE OutboxAssumption DEF TypeInv, Resolved
  <1>1. /\ phase' \in [Workers -> Phases]
        /\ passAge' \in [Workers -> 0..PassLimit]
        /\ held' \in [Workers -> SUBSET Events]
        /\ current' \in [Workers -> Events \cup {None}]
        /\ result' \in [Workers -> Results \cup {None}]
    BY DEF TypeOK, Phases, Delivering
  <1>2. seen' \in [Workers -> [Events -> 0..AttemptCap]]
    BY DEF TypeOK
  <1>3. RecordsInHand'
    BY DEF TypeOK, RecordsInHand, Delivering
  <1>4. QED
    BY <1>1, <1>2, <1>3 DEF TypeOK

LEMMA NullIsInt == Null \in Int
  BY DEF Null

LEMMA NextTypes == TypeInv /\ [Next]_vars => TypeInv'
  <1> SUFFICES ASSUME TypeInv, [Next]_vars
               PROVE  TypeInv'
    OBVIOUS
  <1> USE OutboxAssumption DEF TypeInv, rows, workers, history, budgets
  <1>1. ASSUME NEW e \in Events, NEW lag \in 0..MaxLag, Enqueue(e, lag)
        PROVE  TypeInv'
    BY <1>1 DEF Enqueue, TypeOK, RecordsInHand, Statuses
  <1>2. ASSUME NEW w \in Workers, ReadClock(w)
        PROVE  TypeInv'
    BY <1>2 DEF ReadClock, TypeOK, RecordsInHand, Phases, Delivering
  <1>3. ASSUME NEW w \in Workers, ReclaimStalled(w)
        PROVE  TypeInv'
    BY <1>3 DEF ReclaimStalled, TypeOK, RecordsInHand, Phases, Delivering, Statuses, Null
  <1>4. ASSUME NEW w \in Workers, ClaimBatch(w)
        PROVE  TypeInv'
    <2>1. PICK batch \in Batches(DueFor(w)) : ClaimBatch(w)!(batch)
      BY <1>4 DEF ClaimBatch
    <2>2. batch \subseteq Events
      BY DEF Batches, DueFor
    <2>3. attempts' \in [Events -> 0..AttemptCap]
      BY <2>1 DEF TypeOK, Attempted
    <2>4. seen' \in [Workers -> [Events -> 0..AttemptCap]]
      BY <2>1, <2>3 DEF TypeOK
    <2>5. TypeOK'
      BY <2>1, <2>2, <2>3, <2>4 DEF TypeOK, Statuses, Phases
    <2>6. RecordsInHand'
      BY <2>1 DEF TypeOK, RecordsInHand, Delivering
    <2>7. QED
      BY <2>5, <2>6
  <1>5. ASSUME NEW w \in Workers, HandlerCall(w)
        PROVE  TypeInv'
    BY <1>5 DEF HandlerCall, NextRecord, TypeOK, RecordsInHand, Phases, Delivering
  <1>6. ASSUME NEW w \in Workers, NEW r \in Results, HandlerReturns(w, r)
        PROVE  TypeInv'
    BY <1>6 DEF HandlerReturns, TypeOK, RecordsInHand, Phases, Results, Delivering
  <1>7. ASSUME NEW w \in Workers, SkipUnhandled(w)
        PROVE  TypeInv'
    <2>1. PICK e \in NextRecord(w) \ Handled :
                 SetProcessed(e) /\ Resolved(w, e) /\ UNCHANGED <<history, budgets>>
      BY <1>7 DEF SkipUnhandled
    <2>2. e \in held[w]
      BY DEF NextRecord
    <2>3. /\ status' \in [Events -> Statuses]
          /\ UNCHANGED <<attempts, nextIn, claimAge>>
      BY <2>1 DEF SetProcessed, TypeOK, Statuses
    <2>4. QED
      BY <2>1, <2>2, <2>3, ResolvedTypes DEF TypeOK
  <1>8. ASSUME NEW w \in Workers, MarkProcessed(w)
        PROVE  TypeInv'
    <2>1. current[w] \in held[w]
      BY <1>8 DEF MarkProcessed, RecordsInHand
    <2>2. /\ SetProcessed(current[w])
          /\ Resolved(w, current[w])
          /\ UNCHANGED <<delivered, refused, abandons, replays>>
      BY <1>8 DEF MarkProcessed
    <2>3. status' \in [Events -> Statuses]
      BY <2>2 DEF SetProcessed, TypeOK, Statuses
    <2>4. /\ attempts' \in [Events -> 0..AttemptCap]
          /\ nextIn' \in [Events -> Int]
          /\ claimAge' \in [Events -> Int]
      BY <2>2 DEF SetProcessed, TypeOK, Null
    <2>5. QED
      BY <2>1, <2>2, <2>3, <2>4, ResolvedTypes
  <1>9. ASSUME NEW w \in Workers, MarkDead(w)
        PROVE  TypeInv'
    <2>1. current[w] \in held[w]
      BY <1>9 DEF MarkDead, RecordsInHand
    <2>2. /\ SetDead(current[w])
          /\ Resolved(w, current[w])
          /\ UNCHANGED <<delivered, refused, abandons, replays>>
      BY <1>9 DEF MarkDead
    <2>3. status' \in [Events -> Statuses]
      BY <2>2 DEF SetDead, TypeOK, Statuses
    <2>4. /\ attempts' \in [Events -> 0..AttemptCap]
          /\ nextIn' \in [Events -> Int]
      BY <2>2 DEF SetDead, TypeOK
    <2>5. claimAge' \in [Events -> Int]
      BY <2>2, NullIsInt DEF SetDead, TypeOK
    <2>6. QED
      BY <2>1, <2>2, <2>3, <2>4, <2>5, ResolvedTypes
  <1>10. ASSUME NEW w \in Workers, NEW delay \in Delays, MarkFailed(w, delay)
         PROVE  TypeInv'
    <2>1. current[w] \in held[w]
      BY <1>10 DEF MarkFailed, RecordsInHand
    <2>2. /\ SetFailed(current[w], delay)
          /\ Resolved(w, current[w])
          /\ UNCHANGED <<delivered, refused, abandons, replays>>
      BY <1>10 DEF MarkFailed
    <2>3. status' \in [Events -> Statuses]
      BY <2>2 DEF SetFailed, TypeOK, Statuses
    <2>4. attempts' \in [Events -> 0..AttemptCap]
      BY <2>2 DEF SetFailed, TypeOK
    <2>5. nextIn' \in [Events -> Int]
      <3>1. delay \in Int
        OBVIOUS
      <3>2. QED
        BY <2>2, <3>1 DEF SetFailed, TypeOK
    <2>6. claimAge' \in [Events -> Int]
      BY <2>2, NullIsInt DEF SetFailed, TypeOK
    <2>7. QED
      BY <2>1, <2>2, <2>3, <2>4, <2>5, <2>6, ResolvedTypes
  <1>11. ASSUME NEW w \in Workers, Abandon(w)
         PROVE  TypeInv'
    BY <1>11 DEF Abandon, TypeOK, RecordsInHand, Phases, Delivering
  <1>12. ASSUME NEW e \in Events, Replay(e)
         PROVE  TypeInv'
    BY <1>12 DEF Replay, TypeOK, RecordsInHand, Statuses, Null
  <1>13. CASE Tick
    <2>1. passAge' \in [Workers -> 0..PassLimit]
      <3>1. ASSUME NEW w \in Workers, phase[w] # "idle"
            PROVE  passAge[w] + 1 \in 0..PassLimit
        <4>1. /\ passAge[w] \in Nat
              /\ phase[w] \in {"polling", "claiming"} \cup Delivering
          BY <3>1 DEF TypeOK, Phases, Delivering
        <4>2. passAge[w] < PassLimit
          BY <1>13, <4>1 DEF Tick
        <4>3. QED
          BY <4>1, <4>2
      <3>2. QED
        BY <1>13, <3>1 DEF Tick, TypeOK
    <2>2. /\ nextIn' \in [Events -> Int]
          /\ claimAge' \in [Events -> Int]
      BY <1>13 DEF Tick, TypeOK, Null
    <2>3. QED
      BY <1>13, <2>1, <2>2 DEF Tick, TypeOK, RecordsInHand
  <1>14. CASE UNCHANGED vars
    BY <1>14 DEF vars, TypeOK, RecordsInHand
  <1>15. QED
    BY <1>1, <1>2, <1>3, <1>4, <1>5, <1>6, <1>7, <1>8, <1>9, <1>10, <1>11, <1>12,
       <1>13, <1>14 DEF Next, WorkerStep

(***************************************************************************)
(* The columns and the workers' variables keep their types, and nobody     *)
(* writes a result for a record that is not in its batch.                  *)
(***************************************************************************)
THEOREM TypeCorrect == Spec => [](TypeOK /\ RecordsInHand)
  <1>1. Init => TypeInv
    BY InitTypes
  <1>2. TypeInv /\ [Next]_vars => TypeInv'
    BY NextTypes
  <1>3. TypeInv => TypeOK /\ RecordsInHand
    BY DEF TypeInv
  <1>4. QED
    BY <1>1, <1>2, <1>3, PTL DEF Spec

-----------------------------------------------------------------------------
(***************************************************************************)
(* Exclusive delivery.  What it takes: a pass that is over before any      *)
(* other pass may see its claims as stalled, and operators who replay      *)
(* dead letters only.                                                      *)
(***************************************************************************)
Punctual == PassLimit <= StalledAfter /\ Replayable \subseteq {"dead"}

ExclusiveInv == TypeInv /\ ClaimsInHand

LEMMA InitClaims == Init => ClaimsInHand
  BY DEF Init, ClaimsInHand

(***************************************************************************)
(* Resolving a record of w's batch leaves every other record of a batch    *)
(* alone.                                                                  *)
(***************************************************************************)
LEMMA ResolvedClaims ==
    ASSUME ExclusiveInv, NEW w \in Workers, NEW e \in held[w], Resolved(w, e),
           \A f \in Events \ {e} : /\ status'[f] = status[f]
                                   /\ claimAge'[f] = claimAge[f],
           UNCHANGED attempts
    PROVE  ClaimsInHand'
  <1>1. ASSUME NEW v \in Workers, NEW f \in held'[v]
        PROVE  /\ status'[f] = "processing"
               /\ claimAge'[f] = passAge'[v]
               /\ attempts'[f] = seen'[v][f]
               /\ \A u \in Workers \ {v} : f \notin held'[u]
    <2>1. f \in held[v] /\ f # e /\ f \in Events /\ e \in Events
      BY <1>1 DEF ExclusiveInv, ClaimsInHand, TypeInv, TypeOK, Resolved
    <2>2. passAge'[v] = passAge[v] /\ seen'[v][f] = seen[v][f]
      BY <1>1, <2>1 DEF ExclusiveInv, TypeInv, TypeOK, Resolved
    <2>3. \A u \in Workers : held'[u] \subseteq held[u]
      BY DEF ExclusiveInv, TypeInv, TypeOK, Resolved
    <2>4. QED
      BY <2>1, <2>2, <2>3 DEF ExclusiveInv, ClaimsInHand
  <1>2. QED
    BY <1>1 DEF ClaimsInHand

LEMMA NextClaims == Punctual /\ ExclusiveInv /\ [Next]_vars => ClaimsInHand'
  <1> SUFFICES ASSUME Punctual, ExclusiveInv, [Next]_vars
               PROVE  ClaimsInHand'
    OBVIOUS
  <1> USE OutboxAssumption DEF ExclusiveInv, TypeInv, rows, workers, history, budgets
  <1>1. ASSUME NEW e \in Events, NEW lag \in 0..MaxLag, Enqueue(e, lag)
        PROVE  ClaimsInHand'
    BY <1>1 DEF Enqueue, TypeOK, ClaimsInHand
  <1>2. ASSUME NEW w \in Workers, ReadClock(w)
        PROVE  ClaimsInHand'
    <2>1. held[w] = {}
      BY <1>2 DEF ReadClock, RecordsInHand, Delivering
    <2>2. QED
      BY <1>2, <2>1 DEF ReadClock, TypeOK, ClaimsInHand
  <1>3. ASSUME NEW w \in Workers, ReclaimStalled(w)
        PROVE  ClaimsInHand'
    <2>1. ASSUME NEW v \in Workers, NEW e \in held[v]
          PROVE  e \notin StalledFor(w)
      <3>1. claimAge[e] = passAge[v] /\ passAge[v] \in 0..PassLimit /\ passAge[w] \in Nat
        BY <2>1 DEF TypeOK, ClaimsInHand
      <3>2. claimAge[e] - passAge[w] <= StalledAfter
        BY <3>1 DEF Punctual
      <3>3. QED
        BY <3>1, <3>2 DEF StalledFor
    <2>2. \A v \in Workers : \A e \in held[v] : e \in Events
      BY DEF TypeOK
    <2>3. QED
      BY <1>3, <2>1, <2>2 DEF ReclaimStalled, ClaimsInHand
  <1>4. ASSUME NEW w \in Workers, ClaimBatch(w)
        PROVE  ClaimsInHand'
    <2>1. PICK batch \in Batches(DueFor(w)) : ClaimBatch(w)!(batch)
      BY <1>4 DEF ClaimBatch
    <2>2. batch \subseteq DueFor(w) /\ batch \subseteq Events
      BY DEF Batches, DueFor
    <2>3. \A v \in Workers : \A e \in held[v] : e \notin batch
      BY <2>2 DEF DueFor, Claimable, ClaimsInHand
    <2>4. ASSUME NEW v \in Workers, NEW f \in held'[v]
          PROVE  /\ status'[f] = "processing"
                 /\ claimAge'[f] = passAge'[v]
                 /\ attempts'[f] = seen'[v][f]
                 /\ \A u \in Workers \ {v} : f \notin held'[u]
      <3>1. CASE v = w
        <4>1. f \in batch /\ f \in Events /\ batch # {}
          BY <2>1, <2>2, <2>4, <3>1 DEF TypeOK
        <4>2. passAge'[w] = passAge[w] /\ seen'[w][f] = attempts'[f]
          BY <2>1, <4>1 DEF TypeOK
        <4>3. \A u \in Workers \ {w} : held'[u] = held[u]
          BY <2>1 DEF TypeOK
        <4>4. QED
          BY <2>1, <2>3, <3>1, <4>1, <4>2, <4>3
      <3>2. CASE v # w
        <4>1. f \in held[v] /\ f \in Events /\ f \notin batch
          BY <2>1, <2>3, <2>4, <3>2 DEF TypeOK
        <4>2. passAge'[v] = passAge[v] /\ seen'[v] = seen[v]
          BY <2>1, <3>2 DEF TypeOK
        <4>3. \A u \in Workers : held'[u] = held[u] \/ held'[u] = batch
          BY <2>1 DEF TypeOK
        <4>4. QED
          BY <2>1, <4>1, <4>2, <4>3 DEF ClaimsInHand
      <3>3. QED
        BY <3>1, <3>2
    <2>5. QED
      BY <2>4 DEF ClaimsInHand
  <1>5. ASSUME NEW w \in Workers, HandlerCall(w)
        PROVE  ClaimsInHand'
    BY <1>5 DEF HandlerCall, ClaimsInHand
  <1>6. ASSUME NEW w \in Workers, NEW r \in Results, HandlerReturns(w, r)
        PROVE  ClaimsInHand'
    BY <1>6 DEF HandlerReturns, ClaimsInHand
  <1>7. ASSUME NEW w \in Workers, SkipUnhandled(w)
        PROVE  ClaimsInHand'
    <2>1. PICK e \in NextRecord(w) \ Handled :
                 SetProcessed(e) /\ Resolved(w, e) /\ UNCHANGED <<history, budgets>>
      BY <1>7 DEF SkipUnhandled
    <2>2. e \in held[w]
      BY DEF NextRecord
    <2>3. QED
      BY <2>1, <2>2, ResolvedClaims DEF SetProcessed, TypeOK
  <1>8. ASSUME NEW w \in Workers, MarkProcessed(w)
        PROVE  ClaimsInHand'
    <2>1. current[w] \in held[w]
      BY <1>8 DEF MarkProcessed, RecordsInHand
    <2>2. QED
      BY <1>8, <2>1, ResolvedClaims DEF MarkProcessed, SetProcessed, TypeOK
  <1>9. ASSUME NEW w \in Workers, MarkDead(w)
        PROVE  ClaimsInHand'
    <2>1. current[w] \in held[w]
      BY <1>9 DEF MarkDead, RecordsInHand
    <2>2. QED
      BY <1>9, <2>1, ResolvedClaims DEF MarkDead, SetDead, TypeOK
  <1>10. ASSUME NEW w \in Workers, NEW delay \in Delays, MarkFailed(w, delay)
         PROVE  ClaimsInHand'
    <2>1. current[w] \in held[w]
      BY <1>10 DEF MarkFailed, RecordsInHand
    <2>2. QED
      BY <1>10, <2>1, ResolvedClaims DEF MarkFailed, SetFailed, TypeOK
  <1>11. ASSUME NEW w \in Workers, Abandon(w)
         PROVE  ClaimsInHand'
    BY <1>11 DEF Abandon, TypeOK, ClaimsInHand
  <1>12. ASSUME NEW e \in Events, Replay(e)
         PROVE  ClaimsInHand'
    <2>1. status[e] = "dead"
      BY <1>12 DEF Replay, Punctual
    <2>2. \A v \in Workers : e \notin held[v]
      BY <2>1 DEF ClaimsInHand
    <2>3. QED
      BY <1>12, <2>2 DEF Replay, TypeOK, ClaimsInHand
  <1>13. CASE Tick
    <2>1. ASSUME NEW v \in Workers, NEW f \in held[v]
          PROVE  claimAge'[f] = passAge'[v]
      <3>1. /\ phase[v] \in Delivering /\ f \in Events
            /\ status[f] = "processing"
            /\ claimAge[f] = passAge[v]
            /\ passAge[v] \in 0..PassLimit
        BY <2>1 DEF TypeOK, RecordsInHand, ClaimsInHand
      <3>2. passAge'[v] = passAge[v] + 1
        BY <1>13, <3>1 DEF Tick, Delivering
      <3>3. claimAge[f] \in 0..AgeCap - 1
        BY <3>1 DEF AgeCap, Punctual
      <3>4. claimAge'[f] = claimAge[f] + 1
        BY <1>13, <3>1, <3>3 DEF Tick
      <3>5. QED
        BY <3>1, <3>2, <3>4
    <2>2. QED
      BY <1>13, <2>1 DEF Tick, ClaimsInHand
  <1>14. CASE UNCHANGED vars
    BY <1>14 DEF vars, ClaimsInHand
  <1>15. QED
    BY <1>1, <1>2, <1>3, <1>4, <1>5, <1>6, <1>7, <1>8, <1>9, <1>10, <1>11, <1>12,
       <1>13, <1>14 DEF Next, WorkerStep

LEMMA ExclusiveInvariant ==
    ASSUME Punctual
    PROVE  Spec => []ExclusiveInv
  <1>1. Init => ExclusiveInv
    BY InitTypes, InitClaims DEF ExclusiveInv
  <1>2. ExclusiveInv /\ [Next]_vars => ExclusiveInv'
    BY NextTypes, NextClaims, Punctual DEF ExclusiveInv
  <1>3. QED
    BY <1>1, <1>2, PTL DEF Spec

(***************************************************************************)
(* While passes are punctual and only dead letters are replayed, no event  *)
(* is ever in the hands of two workers, whatever crashes and retries there *)
(* are.                                                                    *)
(***************************************************************************)
THEOREM DeliveryIsExclusive ==
    ASSUME Punctual
    PROVE  Spec => []ExclusiveDelivery
  <1>1. ExclusiveInv => ExclusiveDelivery
    BY DEF ExclusiveInv, ClaimsInHand, ExclusiveDelivery
  <1>2. QED
    BY <1>1, ExclusiveInvariant, PTL

-----------------------------------------------------------------------------
(***************************************************************************)
(* Acknowledgement.  This one needs nothing of the workers' speed nor of   *)
(* the operators: a worker only writes `processed` for a record whose      *)
(* handler returned to it, or that has no handler.                         *)
(***************************************************************************)
LEMMA NextDelivered ==
    TypeInv /\ ProcessedWasDelivered /\ [Next]_vars => ProcessedWasDelivered'
  <1> SUFFICES ASSUME TypeInv, ProcessedWasDelivered, [Next]_vars
               PROVE  ProcessedWasDelivered'
    OBVIOUS
  <1> USE OutboxAssumption DEF TypeInv, TypeOK, ProcessedWasDelivered, rows, workers,
                              history, budgets
  <1>1. ASSUME NEW e \in Events, NEW lag \in 0..MaxLag, Enqueue(e, lag)
        PROVE  ProcessedWasDelivered'
    BY <1>1 DEF Enqueue
  <1>2. ASSUME NEW w \in Workers,
               \/ ReadClock(w)
               \/ HandlerCall(w)
               \/ Abandon(w)
               \/ \E r \in Results : HandlerReturns(w, r)
        PROVE  ProcessedWasDelivered'
    BY <1>2 DEF ReadClock, HandlerCall, Abandon, HandlerReturns
  <1>3. ASSUME NEW w \in Workers, ReclaimStalled(w)
        PROVE  ProcessedWasDelivered'
    BY <1>3 DEF ReclaimStalled
  <1>4. ASSUME NEW w \in Workers, ClaimBatch(w)
        PROVE  ProcessedWasDelivered'
    BY <1>4 DEF ClaimBatch
  <1>5. ASSUME NEW w \in Workers, SkipUnhandled(w)
        PROVE  ProcessedWasDelivered'
    BY <1>5 DEF SkipUnhandled, SetProcessed
  <1>6. ASSUME NEW w \in Workers, MarkProcessed(w)
        PROVE  ProcessedWasDelivered'
    BY <1>6 DEF MarkProcessed, SetProcessed, RecordsInHand
  <1>7. ASSUME NEW w \in Workers, MarkDead(w)
        PROVE  ProcessedWasDelivered'
    BY <1>7 DEF MarkDead, SetDead
  <1>8. ASSUME NEW w \in Workers, NEW delay \in Delays, MarkFailed(w, delay)
        PROVE  ProcessedWasDelivered'
    BY <1>8 DEF MarkFailed, SetFailed
  <1>9. ASSUME NEW e \in Events, Replay(e)
        PROVE  ProcessedWasDelivered'
    BY <1>9 DEF Replay
  <1>10. CASE Tick \/ UNCHANGED vars
    BY <1>10 DEF Tick, vars
  <1>11. QED
    BY <1>1, <1>2, <1>3, <1>4, <1>5, <1>6, <1>7, <1>8, <1>9, <1>10 DEF Next, WorkerStep

(***************************************************************************)
(* An acknowledged event was handled successfully at least once: slow      *)
(* workers, crashes and replays of any row included.                       *)
(***************************************************************************)
THEOREM AcknowledgedWasDelivered == Spec => []ProcessedWasDelivered
  <1>1. Init => TypeInv /\ ProcessedWasDelivered
    BY InitTypes, OutboxAssumption DEF Init, ProcessedWasDelivered
  <1>2. TypeInv /\ ProcessedWasDelivered /\ [Next]_vars
          => (TypeInv /\ ProcessedWasDelivered)'
    BY NextTypes, NextDelivered
  <1>3. QED
    BY <1>1, <1>2, PTL DEF Spec

-----------------------------------------------------------------------------
(***************************************************************************)
(* Settled rows, while passes are punctual.                                *)
(***************************************************************************)
SettledStep ==
    \A e \in Events :
        /\ status[e] = "processed" => status'[e] = "processed"
        /\ status[e] = "dead" => status'[e] = "dead" \/ replays' > replays

LEMMA NextSettled == Punctual /\ ExclusiveInv /\ [Next]_vars => SettledStep
  <1> SUFFICES ASSUME Punctual, ExclusiveInv, [Next]_vars
               PROVE  SettledStep
    OBVIOUS
  <1> USE OutboxAssumption DEF ExclusiveInv, TypeInv, TypeOK, rows, workers, history, budgets
  <1>1. ASSUME NEW w \in Workers, NEW e \in held[w]
        PROVE  e \in Events /\ status[e] = "processing"
    BY DEF ClaimsInHand
  <1>2. ASSUME NEW w \in Workers, NEW e \in held[w],
               \A f \in Events \ {e} : status'[f] = status[f]
        PROVE  SettledStep
    BY <1>1, <1>2 DEF SettledStep
  <1>3. ASSUME NEW e \in Events, NEW lag \in 0..MaxLag, Enqueue(e, lag)
        PROVE  SettledStep
    BY <1>3 DEF Enqueue, SettledStep
  <1>4. ASSUME NEW w \in Workers,
               \/ ReadClock(w)
               \/ HandlerCall(w)
               \/ Abandon(w)
               \/ \E r \in Results : HandlerReturns(w, r)
        PROVE  SettledStep
    BY <1>4 DEF ReadClock, HandlerCall, Abandon, HandlerReturns, SettledStep
  <1>5. ASSUME NEW w \in Workers, ReclaimStalled(w)
        PROVE  SettledStep
    BY <1>5 DEF ReclaimStalled, StalledFor, SettledStep
  <1>6. ASSUME NEW w \in Workers, ClaimBatch(w)
        PROVE  SettledStep
    <2>1. PICK batch \in Batches(DueFor(w)) : ClaimBatch(w)!(batch)
      BY <1>6 DEF ClaimBatch
    <2>2. \A e \in batch : status[e] \in Claimable
      BY DEF Batches, DueFor
    <2>3. QED
      BY <2>1, <2>2 DEF Claimable, SettledStep
  <1>7. ASSUME NEW w \in Workers, SkipUnhandled(w)
        PROVE  SettledStep
    BY <1>2, <1>7 DEF SkipUnhandled, NextRecord, SetProcessed
  <1>8. ASSUME NEW w \in Workers,
               \/ MarkProcessed(w)
               \/ MarkDead(w)
               \/ \E delay \in Delays : MarkFailed(w, delay)
        PROVE  SettledStep
    <2>1. current[w] \in held[w]
      BY <1>8 DEF MarkProcessed, MarkDead, MarkFailed, RecordsInHand
    <2>2. \A f \in Events \ {current[w]} : status'[f] = status[f]
      BY <1>8 DEF MarkProcessed, MarkDead, MarkFailed, SetProcessed, SetDead, SetFailed
    <2>3. QED
      BY <1>2, <2>1, <2>2
  <1>9. ASSUME NEW e \in Events, Replay(e)
        PROVE  SettledStep
    BY <1>9 DEF Replay, Punctual, SettledStep
  <1>10. CASE Tick \/ UNCHANGED vars
    BY <1>10 DEF Tick, vars, SettledStep
  <1>11. QED
    BY <1>3, <1>4, <1>5, <1>6, <1>7, <1>8, <1>9, <1>10 DEF Next, WorkerStep

(***************************************************************************)
(* While passes are punctual, `processed` is terminal and a dead letter    *)
(* leaves only by a replay.                                                *)
(***************************************************************************)
THEOREM SettledIsTerminal ==
    ASSUME Punctual
    PROVE  Spec => SettledStays
  <1>1. ExclusiveInv /\ [Next]_vars => [SettledStep]_vars
    BY NextSettled, Punctual
  <1>2. QED
    BY <1>1, ExclusiveInvariant, PTL DEF Spec, SettledStays, SettledStep

LEMMA NextExhausted ==
    Punctual /\ ExclusiveInv /\ DeadWasExhausted /\ [Next]_vars => DeadWasExhausted'
  <1> SUFFICES ASSUME Punctual, ExclusiveInv, DeadWasExhausted, [Next]_vars
               PROVE  DeadWasExhausted'
    OBVIOUS
  <1> USE OutboxAssumption DEF ExclusiveInv, TypeInv, TypeOK, DeadWasExhausted, rows,
                              workers, history, budgets
  <1>1. ASSUME NEW e \in Events, NEW lag \in 0..MaxLag, Enqueue(e, lag)
        PROVE  DeadWasExhausted'
    BY <1>1 DEF Enqueue
  <1>2. ASSUME NEW w \in Workers,
               \/ ReadClock(w)
               \/ HandlerCall(w)
               \/ Abandon(w)
               \/ \E r \in Results : HandlerReturns(w, r)
        PROVE  DeadWasExhausted'
    BY <1>2 DEF ReadClock, HandlerCall, Abandon, HandlerReturns
  <1>3. ASSUME NEW w \in Workers, ReclaimStalled(w)
        PROVE  DeadWasExhausted'
    BY <1>3 DEF ReclaimStalled
  <1>4. ASSUME NEW w \in Workers, ClaimBatch(w)
        PROVE  DeadWasExhausted'
    BY <1>4 DEF ClaimBatch
  <1>5. ASSUME NEW w \in Workers, SkipUnhandled(w)
        PROVE  DeadWasExhausted'
    BY <1>5 DEF SkipUnhandled, SetProcessed
  <1>6. ASSUME NEW w \in Workers, MarkProcessed(w)
        PROVE  DeadWasExhausted'
    BY <1>6 DEF MarkProcessed, SetProcessed
  <1>7. ASSUME NEW w \in Workers, MarkDead(w)
        PROVE  DeadWasExhausted'
    <2>1. current[w] \in refused \/ attempts[current[w]] >= MaxAttempts
      BY <1>7 DEF MarkDead, OutOfAttempts, RecordsInHand, ClaimsInHand
    <2>2. QED
      BY <1>7, <2>1 DEF MarkDead, SetDead
  <1>8. ASSUME NEW w \in Workers, NEW delay \in Delays, MarkFailed(w, delay)
        PROVE  DeadWasExhausted'
    BY <1>8 DEF MarkFailed, SetFailed
  <1>9. ASSUME NEW e \in Events, Replay(e)
        PROVE  DeadWasExhausted'
    BY <1>9 DEF Replay
  <1>10. CASE Tick \/ UNCHANGED vars
    BY <1>10 DEF Tick, vars
  <1>11. QED
    BY <1>1, <1>2, <1>3, <1>4, <1>5, <1>6, <1>7, <1>8, <1>9, <1>10 DEF Next, WorkerStep

(***************************************************************************)
(* While passes are punctual, a dead letter was refused for good or its    *)
(* row shows that its attempts ran out.                                    *)
(***************************************************************************)
THEOREM DeadLettersAreExhausted ==
    ASSUME Punctual
    PROVE  Spec => []DeadWasExhausted
  <1>1. Init => DeadWasExhausted
    BY DEF Init, DeadWasExhausted
  <1>2. ExclusiveInv /\ DeadWasExhausted /\ [Next]_vars => DeadWasExhausted'
    BY NextExhausted, Punctual
  <1>3. QED
    BY <1>1, <1>2, ExclusiveInvariant, PTL DEF Spec

-----------------------------------------------------------------------------
(***************************************************************************)
(* The attempts a row shows.  A row that may still be claimed is not       *)
(* settled and in nobody's batch; each pass cut short leaves rows in that  *)
(* state whose attempt was counted and whose outcome was not.              *)
(***************************************************************************)
Unclaimed(e) == status[e] \notin Settled /\ \A w \in Workers : e \notin held[w]

AttemptsWithCrashes == \A e \in Events : attempts[e] <= MaxAttempts + abandons

UnclaimedHasOneLeft ==
    \A e \in Events : Unclaimed(e) => attempts[e] < MaxAttempts + abandons

AttemptsInv == AttemptsWithCrashes /\ UnclaimedHasOneLeft

LEMMA NextAttempts ==
    ExclusiveInv /\ AttemptsInv /\ [Next]_vars => AttemptsInv'
  <1> SUFFICES ASSUME ExclusiveInv, AttemptsInv, [Next]_vars
               PROVE  AttemptsInv'
    OBVIOUS
  <1> USE OutboxAssumption DEF ExclusiveInv, TypeInv, AttemptsInv, rows, workers,
                              history, budgets
  <1>0. /\ abandons \in Nat /\ MaxAttempts \in Nat /\ MaxAttempts > 0
        /\ \A e \in Events : attempts[e] \in Nat
    BY DEF TypeOK
  <1>a. ASSUME UNCHANGED <<attempts, abandons>>, \A e \in Events : Unclaimed(e)' => Unclaimed(e)
        PROVE  AttemptsInv'
    BY <1>a DEF AttemptsWithCrashes, UnclaimedHasOneLeft
  <1>b. ASSUME NEW w \in Workers, NEW e \in held[w], Resolved(w, e),
               UNCHANGED <<attempts, abandons>>,
               \A f \in Events \ {e} : status'[f] = status[f],
               status'[e] \in Settled \/ attempts[e] < MaxAttempts
        PROVE  AttemptsInv'
    <2>1. ASSUME NEW f \in Events, f # e, Unclaimed(f)'
          PROVE  Unclaimed(f)
      BY <1>b, <2>1 DEF Resolved, Unclaimed, TypeOK
    <2>2. ASSUME Unclaimed(e)'
          PROVE  attempts[e] < MaxAttempts
      BY <1>b, <2>2 DEF Unclaimed
    <2>3. e \in Events
      BY DEF TypeOK
    <2>4. UnclaimedHasOneLeft'
      BY <1>0, <1>b, <2>1, <2>2, <2>3 DEF UnclaimedHasOneLeft
    <2>5. QED
      BY <1>b, <2>4 DEF AttemptsWithCrashes
  <1>1. ASSUME NEW e \in Events, NEW lag \in 0..MaxLag, Enqueue(e, lag)
        PROVE  AttemptsInv'
    BY <1>1, <1>a DEF Enqueue, Unclaimed, Settled, TypeOK
  <1>2. ASSUME NEW w \in Workers,
               \/ ReadClock(w)
               \/ HandlerCall(w)
               \/ \E r \in Results : HandlerReturns(w, r)
        PROVE  AttemptsInv'
    BY <1>2, <1>a DEF ReadClock, HandlerCall, HandlerReturns, Unclaimed
  <1>3. ASSUME NEW w \in Workers, ReclaimStalled(w)
        PROVE  AttemptsInv'
    BY <1>3, <1>a DEF ReclaimStalled, StalledFor, Unclaimed, Settled
  <1>4. ASSUME NEW w \in Workers, ClaimBatch(w)
        PROVE  AttemptsInv'
    <2>1. PICK batch \in Batches(DueFor(w)) : ClaimBatch(w)!(batch)
      BY <1>4 DEF ClaimBatch
    <2>2. batch \subseteq Events /\ \A e \in batch : status[e] \in Claimable
      BY DEF Batches, DueFor
    <2>3. \A e \in batch : Unclaimed(e)
      BY <2>2 DEF Unclaimed, Claimable, Settled, ClaimsInHand
    <2>4. abandons' = abandons
      BY <2>1
    <2>5. \A e \in Events : attempts'[e] = IF e \in batch THEN Attempted(attempts[e])
                                           ELSE attempts[e]
      BY <2>1
    <2>6. \A e \in Events : Attempted(attempts[e]) <= attempts[e] + 1
      BY <1>0 DEF Attempted
    <2>7. AttemptsWithCrashes'
      <3>1. ASSUME NEW e \in batch
            PROVE  attempts'[e] <= MaxAttempts + abandons
        <4>1. e \in Events /\ attempts[e] < MaxAttempts + abandons
          BY <2>2, <2>3 DEF UnclaimedHasOneLeft
        <4>2. attempts'[e] <= attempts[e] + 1 /\ attempts'[e] \in Nat
          BY <1>0, <2>5, <2>6, <4>1 DEF Attempted
        <4>3. QED
          BY <1>0, <4>1, <4>2
      <3>2. ASSUME NEW e \in Events, e \notin batch
            PROVE  attempts'[e] <= MaxAttempts + abandons
        BY <2>5, <3>2 DEF AttemptsWithCrashes
      <3>3. QED
        BY <2>4, <3>1, <3>2 DEF AttemptsWithCrashes
    <2>8. ASSUME NEW e \in Events, Unclaimed(e)'
          PROVE  e \notin batch /\ Unclaimed(e)
      <3>1. held[w] = {} /\ held'[w] = batch
        BY <2>1 DEF TypeOK, RecordsInHand, Delivering
      <3>2. e \notin batch
        BY <2>8, <3>1 DEF Unclaimed
      <3>3. \A v \in Workers : e \notin held[v]
        BY <2>1, <2>8, <3>1 DEF Unclaimed, TypeOK
      <3>4. status'[e] = status[e]
        BY <2>1, <3>2
      <3>5. QED
        BY <2>8, <3>2, <3>3, <3>4 DEF Unclaimed
    <2>9. UnclaimedHasOneLeft'
      BY <2>4, <2>5, <2>8 DEF UnclaimedHasOneLeft
    <2>10. QED
      BY <2>7, <2>9
  <1>5. ASSUME NEW w \in Workers, SkipUnhandled(w)
        PROVE  AttemptsInv'
    BY <1>5, <1>b DEF SkipUnhandled, NextRecord, SetProcessed, Settled, TypeOK
  <1>6. ASSUME NEW w \in Workers, MarkProcessed(w)
        PROVE  AttemptsInv'
    BY <1>6, <1>b DEF MarkProcessed, SetProcessed, RecordsInHand, Settled, TypeOK
  <1>7. ASSUME NEW w \in Workers, MarkDead(w)
        PROVE  AttemptsInv'
    BY <1>7, <1>b DEF MarkDead, SetDead, RecordsInHand, Settled, TypeOK
  <1>8. ASSUME NEW w \in Workers, NEW delay \in Delays, MarkFailed(w, delay)
        PROVE  AttemptsInv'
    <2>1. current[w] \in held[w] /\ current[w] \in Events
      BY <1>8 DEF MarkFailed, RecordsInHand, TypeOK
    <2>2. attempts[current[w]] < MaxAttempts
      BY <1>0, <1>8, <2>1 DEF MarkFailed, OutOfAttempts, ClaimsInHand
    <2>3. QED
      BY <1>8, <1>b, <2>1, <2>2 DEF MarkFailed, SetFailed, TypeOK
  <1>9. ASSUME NEW w \in Workers, Abandon(w)
        PROVE  AttemptsInv'
    BY <1>0, <1>9 DEF Abandon, AttemptsWithCrashes, UnclaimedHasOneLeft
  <1>10. ASSUME NEW e \in Events, Replay(e)
         PROVE  AttemptsInv'
    <2>1. /\ abandons' = abandons /\ held' = held /\ attempts'[e] = 0
          /\ \A f \in Events \ {e} : attempts'[f] = attempts[f] /\ status'[f] = status[f]
      BY <1>10 DEF Replay, TypeOK
    <2>2. QED
      BY <1>0, <2>1 DEF AttemptsWithCrashes, UnclaimedHasOneLeft, Unclaimed
  <1>11. CASE Tick \/ UNCHANGED vars
    BY <1>11, <1>a DEF Tick, vars, Unclaimed
  <1>12. QED
    BY <1>1, <1>2, <1>3, <1>4, <1>5, <1>6, <1>7, <1>8, <1>9, <1>10, <1>11
       DEF Next, WorkerStep

(***************************************************************************)
(* While passes are punctual, each pass cut short costs a row at most one  *)
(* delivery more than MaxAttempts.                                         *)
(***************************************************************************)
THEOREM ACrashCostsOneAttempt ==
    ASSUME Punctual
    PROVE  Spec => []AttemptsWithCrashes
  <1>1. Init => AttemptsInv
    BY OutboxAssumption DEF Init, AttemptsInv, AttemptsWithCrashes, UnclaimedHasOneLeft
  <1>2. ExclusiveInv /\ AttemptsInv /\ [Next]_vars => AttemptsInv'
    BY NextAttempts
  <1>3. AttemptsInv => AttemptsWithCrashes
    BY DEF AttemptsInv
  <1>4. QED
    BY <1>1, <1>2, <1>3, ExclusiveInvariant, PTL DEF Spec

(***************************************************************************)
(* So max_attempts caps the deliveries while no pass is ever cut short:    *)
(* the documented claim that crashes break.                                *)
(***************************************************************************)
THEOREM AttemptsAreCapped ==
    ASSUME Punctual, MaxAbandons = 0
    PROVE  Spec => []AttemptsCapped
  <1>1. TypeOK /\ AttemptsWithCrashes => AttemptsCapped
    BY OutboxAssumption, MaxAbandons = 0 DEF TypeOK, AttemptsWithCrashes, AttemptsCapped
  <1>2. QED
    BY <1>1, ACrashCostsOneAttempt, TypeCorrect, Punctual, PTL

-----------------------------------------------------------------------------
(***************************************************************************)
(* NO ROW IS LOST FROM SIGHT.  The claim of a row in flight has an age     *)
(* (the WHERE clause of reclaim_stalled is never true of a NULL), and a    *)
(* pass that has yet to claim is young.                                    *)
(***************************************************************************)
AgesInv ==
    /\ \A e \in Events : status[e] = "processing" => claimAge[e] \in 0..AgeCap
    /\ \A w \in Workers : phase[w] \in {"polling", "claiming"} => passAge[w] \in 0..MaxLag

LEMMA NextAges == TypeInv /\ AgesInv /\ [Next]_vars => AgesInv'
  <1> SUFFICES ASSUME TypeInv, AgesInv, [Next]_vars
               PROVE  AgesInv'
    OBVIOUS
  <1> USE OutboxAssumption DEF TypeInv, rows, workers, history, budgets
  <1>1. ASSUME NEW e \in Events, NEW lag \in 0..MaxLag, Enqueue(e, lag)
        PROVE  AgesInv'
    BY <1>1 DEF Enqueue, AgesInv, TypeOK
  <1>2. ASSUME NEW w \in Workers, ReadClock(w)
        PROVE  AgesInv'
    BY <1>2 DEF ReadClock, AgesInv, TypeOK
  <1>3. ASSUME NEW w \in Workers, ReclaimStalled(w)
        PROVE  AgesInv'
    <2>1. \A e \in Events : status'[e] = "processing" =>
              status[e] = "processing" /\ claimAge'[e] = claimAge[e]
      BY <1>3 DEF ReclaimStalled
    <2>2. QED
      BY <1>3, <2>1 DEF ReclaimStalled, AgesInv, TypeOK
  <1>4. ASSUME NEW w \in Workers, ClaimBatch(w)
        PROVE  AgesInv'
    <2>1. PICK batch \in Batches(DueFor(w)) : ClaimBatch(w)!(batch)
      BY <1>4 DEF ClaimBatch
    <2>2. passAge[w] \in 0..AgeCap
      BY <2>1 DEF AgesInv, AgeCap, TypeOK
    <2>3. \A e \in Events : status'[e] = "processing" => claimAge'[e] \in 0..AgeCap
      BY <2>1, <2>2 DEF AgesInv
    <2>4. \A v \in Workers : phase'[v] \in {"polling", "claiming"} =>
              phase[v] \in {"polling", "claiming"} /\ passAge'[v] = passAge[v]
      BY <2>1 DEF TypeOK
    <2>5. QED
      BY <2>3, <2>4 DEF AgesInv
  <1>5. ASSUME NEW w \in Workers, HandlerCall(w) \/ \E r \in Results : HandlerReturns(w, r)
        PROVE  AgesInv'
    BY <1>5 DEF HandlerCall, HandlerReturns, AgesInv, TypeOK
  <1>6. ASSUME NEW w \in Workers, NEW f, Resolved(w, f),
               \A e \in Events : status'[e] = "processing" =>
                   status[e] = "processing" /\ claimAge'[e] = claimAge[e]
        PROVE  AgesInv'
    <2>1. \A v \in Workers : phase'[v] \in {"polling", "claiming"} =>
              phase[v] \in {"polling", "claiming"} /\ passAge'[v] = passAge[v]
      BY <1>6 DEF Resolved, TypeOK
    <2>2. QED
      BY <1>6, <2>1 DEF AgesInv
  <1>7. ASSUME NEW w \in Workers,
               \/ SkipUnhandled(w) \/ MarkProcessed(w) \/ MarkDead(w)
               \/ \E delay \in Delays : MarkFailed(w, delay)
        PROVE  AgesInv'
    <2>1. PICK f : /\ SetProcessed(f) \/ SetDead(f) \/ \E delay \in Delays : SetFailed(f, delay)
                   /\ Resolved(w, f)
      BY <1>7 DEF SkipUnhandled, MarkProcessed, MarkDead, MarkFailed
    <2>2. \A e \in Events : status'[e] = "processing" =>
              status[e] = "processing" /\ claimAge'[e] = claimAge[e]
      BY <2>1 DEF SetProcessed, SetDead, SetFailed, TypeOK
    <2>3. QED
      BY <1>6, <2>1, <2>2
  <1>8. ASSUME NEW w \in Workers, Abandon(w)
        PROVE  AgesInv'
    BY <1>8 DEF Abandon, AgesInv, TypeOK
  <1>9. ASSUME NEW e \in Events, Replay(e)
        PROVE  AgesInv'
    BY <1>9 DEF Replay, AgesInv, TypeOK
  <1>10. CASE Tick
    <2>1. ASSUME NEW e \in Events, status'[e] = "processing"
          PROVE  claimAge'[e] \in 0..AgeCap
      <3>1. claimAge[e] \in 0..AgeCap /\ AgeCap \in Int
        BY <1>10, <2>1 DEF Tick, AgesInv, AgeCap
      <3>2. claimAge'[e] = IF claimAge[e] \in 0..AgeCap - 1 THEN claimAge[e] + 1
                           ELSE claimAge[e]
        BY <1>10, <2>1 DEF Tick
      <3>3. QED
        BY <3>1, <3>2
    <2>2. ASSUME NEW w \in Workers, phase'[w] \in {"polling", "claiming"}
          PROVE  passAge'[w] \in 0..MaxLag
      BY <1>10, <2>2 DEF Tick, AgesInv, TypeOK
    <2>3. QED
      BY <2>1, <2>2 DEF AgesInv
  <1>11. CASE UNCHANGED vars
    BY <1>11 DEF vars, AgesInv
  <1>12. QED
    BY <1>1, <1>2, <1>3, <1>4, <1>5, <1>7, <1>8, <1>9, <1>10, <1>11 DEF Next, WorkerStep

LEMMA AgesInvariant == Spec => [](TypeInv /\ AgesInv)
  <1>1. Init => AgesInv
    BY DEF Init, AgesInv
  <1>2. TypeInv /\ AgesInv /\ [Next]_vars => (TypeInv /\ AgesInv)'
    BY NextTypes, NextAges
  <1>3. QED
    BY <1>1, <1>2, InitTypes, PTL DEF Spec

(***************************************************************************)
(* A row in flight has a claim that ages, and one that has aged all it can *)
(* is stalled for every pass that is about to reclaim; a queued row whose  *)
(* time has come all the way is due for every pass that is about to claim. *)
(***************************************************************************)
NothingIsStranded ==
    \A e \in Events :
        /\ status[e] = "processing" =>
            /\ claimAge[e] \in 0..AgeCap
            /\ claimAge[e] = AgeCap =>
                \A w \in Workers : phase[w] = "polling" => e \in StalledFor(w)
        /\ status[e] \in Claimable /\ nextIn[e] <= -MaxLag =>
            \A w \in Workers : phase[w] \in {"polling", "claiming"} => e \in DueFor(w)

(***************************************************************************)
(* Whatever crashes, overlaps and replays happened before, no row is left  *)
(* in a state that no later pass will pick up: the claims of dead workers  *)
(* are reclaimed by age alone, and no row is in flight without one.        *)
(***************************************************************************)
THEOREM NoRowIsStranded == Spec => []NothingIsStranded
  <1>1. ASSUME TypeInv, AgesInv, NEW e \in Events, NEW w \in Workers,
               phase[w] = "polling", status[e] = "processing", claimAge[e] = AgeCap
        PROVE  e \in StalledFor(w)
    BY <1>1, OutboxAssumption DEF AgesInv, AgeCap, Null, StalledFor
  <1>2. ASSUME TypeInv, AgesInv, NEW e \in Events, NEW w \in Workers,
               phase[w] \in {"polling", "claiming"}, status[e] \in Claimable,
               nextIn[e] <= -MaxLag
        PROVE  e \in DueFor(w)
    <2>1. nextIn[e] \in Int /\ passAge[w] \in 0..MaxLag
      BY <1>2 DEF TypeInv, TypeOK, AgesInv
    <2>2. QED
      BY <1>2, <2>1, OutboxAssumption DEF DueFor
  <1>3. TypeInv /\ AgesInv => NothingIsStranded
    BY <1>1, <1>2 DEF NothingIsStranded, AgesInv
  <1>4. QED
    BY <1>3, AgesInvariant, PTL

-----------------------------------------------------------------------------
(***************************************************************************)
(* NO PASS STICKS.  A set of events has an oldest one, and a batch.        *)
(***************************************************************************)
LEMMA LeastNatural ==
    ASSUME NEW T \in SUBSET Nat, T # {}
    PROVE  \E m \in T : \A k \in T : m <= k
  <1> DEFINE R == OpToRel(<, Nat)
  <1>1. IsWellFoundedOn(R, Nat)
    BY NatLessThanWellFounded
  <1>2. \A x, y \in Nat : <<y, x>> \in R <=> y < x
    BY DEF OpToRel
  <1> HIDE DEF R
  <1>3. PICK m \in T : \A y \in T : ~(<<y, m>> \in R)
    BY <1>1, WFMin
  <1>4. ASSUME NEW k \in T
        PROVE  m <= k
    <2>1. m \in Nat /\ k \in Nat /\ ~(k < m)
      BY <1>2, <1>3
    <2>2. QED
      BY <2>1
  <1>5. QED
    BY <1>4

LEMMA OldestExists ==
    ASSUME NEW S \in SUBSET Events, S # {}
    PROVE  \E e \in S : \A f \in S : OccurredAt[e] <= OccurredAt[f]
  <1> DEFINE T == {OccurredAt[e] : e \in S}
  <1>1. T \in SUBSET Nat /\ T # {}
    BY OutboxAssumption
  <1>2. PICK m \in T : \A k \in T : m <= k
    BY <1>1, LeastNatural
  <1>3. QED
    BY <1>2

(***************************************************************************)
(* The n oldest of `due`, or all of them when there are no more.           *)
(***************************************************************************)
Oldest(due, n, batch) ==
    /\ batch \subseteq due /\ IsFiniteSet(batch)
    /\ Cardinality(batch) <= n
    /\ batch # due => Cardinality(batch) = n
    /\ \A e \in batch, f \in due \ batch : OccurredAt[e] <= OccurredAt[f]

LEMMA OldestOneMore ==
    ASSUME NEW due \in SUBSET Events, NEW n \in Nat, NEW batch, Oldest(due, n, batch)
    PROVE  \E larger : Oldest(due, n + 1, larger)
  <1>1. batch \subseteq due /\ IsFiniteSet(batch) /\ Cardinality(batch) \in Nat
    BY FS_CardinalityType DEF Oldest
  <1>2. CASE batch = due
    <2>1. Cardinality(batch) <= n + 1
      BY <1>1 DEF Oldest
    <2>2. Oldest(due, n + 1, batch)
      BY <1>1, <1>2, <2>1 DEF Oldest
    <2>3. QED
      BY <2>2
  <1>3. CASE batch # due
    <2>1. PICK next \in due \ batch :
                 \A f \in due \ batch : OccurredAt[next] <= OccurredAt[f]
      BY <1>1, <1>3, OldestExists
    <2> DEFINE larger == batch \cup {next}
    <2>2. IsFiniteSet(larger) /\ Cardinality(larger) = n + 1
      BY <1>1, <1>3, <2>1, FS_AddElement DEF Oldest
    <2>3. \A e \in larger, f \in due \ larger : OccurredAt[e] <= OccurredAt[f]
      BY <2>1 DEF Oldest
    <2>4. larger \subseteq due
      BY <1>1, <2>1
    <2> HIDE DEF larger
    <2>5. Oldest(due, n + 1, larger)
      BY <2>2, <2>3, <2>4 DEF Oldest
    <2>6. QED
      BY <2>5
  <1>4. QED
    BY <1>2, <1>3

LEMMA OldestOfAnyNumber ==
    ASSUME NEW due \in SUBSET Events
    PROVE  \A n \in Nat : \E batch : Oldest(due, n, batch)
  <1> DEFINE Without == {n \in Nat : ~\E batch : Oldest(due, n, batch)}
  <1>1. SUFFICES ASSUME Without # {}
                 PROVE  FALSE
    OBVIOUS
  <1>2. PICK m \in Without : \A k \in Without : m <= k
    BY <1>1, LeastNatural
  <1>3. m # 0
    <2>1. Oldest(due, 0, {})
      BY FS_EmptySet DEF Oldest
    <2>2. QED
      BY <2>1
  <1>4. m - 1 \in Nat /\ m - 1 \notin Without /\ (m - 1) + 1 = m
    BY <1>2, <1>3
  <1>5. QED
    BY <1>4, OldestOneMore

LEMMA BatchExists ==
    ASSUME NEW due \in SUBSET Events
    PROVE  Batches(due) # {}
  <1>1. PICK batch : Oldest(due, BatchSize, batch)
    BY OldestOfAnyNumber, OutboxAssumption
  <1>2. batch \in Batches(due)
    BY <1>1 DEF Oldest, Batches
  <1>3. QED
    BY <1>2

(***************************************************************************)
(* A worker delivers until its batch is empty, oldest record first: the    *)
(* one in its hands is the oldest it still has to resolve.                 *)
(***************************************************************************)
DeliversOldest ==
    \A w \in Workers :
        /\ phase[w] \in Delivering => held[w] # {}
        /\ phase[w] \in {"handling", "resolving"} => current[w] \in NextRecord(w)

LEMMA ResolvedDelivers ==
    ASSUME TypeInv, DeliversOldest, NEW w \in Workers, NEW e, Resolved(w, e)
    PROVE  DeliversOldest'
  <1>1. ASSUME NEW v \in Workers, v # w
        PROVE  phase'[v] = phase[v] /\ held'[v] = held[v] /\ current'[v] = current[v]
    BY <1>1 DEF Resolved, TypeInv, TypeOK
  <1>2. /\ phase'[w] = IF held'[w] = {} THEN "idle" ELSE "delivering"
    BY DEF Resolved, TypeInv, TypeOK
  <1>3. QED
    BY <1>1, <1>2 DEF DeliversOldest, NextRecord, Delivering

LEMMA NextDelivers == TypeInv /\ DeliversOldest /\ [Next]_vars => DeliversOldest'
  <1> SUFFICES ASSUME TypeInv, DeliversOldest, [Next]_vars
               PROVE  DeliversOldest'
    OBVIOUS
  <1> USE DEF TypeInv, rows, workers, history, budgets, NextRecord, Delivering
  <1>1. ASSUME UNCHANGED <<phase, held, current>>
        PROVE  DeliversOldest'
    BY <1>1 DEF DeliversOldest
  <1>2. ASSUME NEW w \in Workers, ReadClock(w) \/ ReclaimStalled(w)
        PROVE  DeliversOldest'
    BY <1>2 DEF ReadClock, ReclaimStalled, DeliversOldest, TypeOK
  <1>3. ASSUME NEW w \in Workers, ClaimBatch(w)
        PROVE  DeliversOldest'
    BY <1>3 DEF ClaimBatch, DeliversOldest, TypeOK
  <1>4. ASSUME NEW w \in Workers, HandlerCall(w)
        PROVE  DeliversOldest'
    BY <1>4 DEF HandlerCall, DeliversOldest, TypeOK
  <1>5. ASSUME NEW w \in Workers, NEW r \in Results, HandlerReturns(w, r)
        PROVE  DeliversOldest'
    BY <1>5 DEF HandlerReturns, DeliversOldest, TypeOK
  <1>6. ASSUME NEW w \in Workers,
               \/ SkipUnhandled(w) \/ MarkProcessed(w) \/ MarkDead(w)
               \/ \E delay \in Delays : MarkFailed(w, delay)
        PROVE  DeliversOldest'
    <2>1. \E e : Resolved(w, e)
      BY <1>6 DEF SkipUnhandled, MarkProcessed, MarkDead, MarkFailed
    <2>2. QED
      BY <2>1, ResolvedDelivers
  <1>7. ASSUME NEW w \in Workers, Abandon(w)
        PROVE  DeliversOldest'
    BY <1>7 DEF Abandon, DeliversOldest, TypeOK
  <1>8. ASSUME NEW e \in Events,
               Replay(e) \/ \E lag \in 0..MaxLag : Enqueue(e, lag)
        PROVE  DeliversOldest'
    BY <1>1, <1>8 DEF Replay, Enqueue
  <1>9. CASE Tick \/ UNCHANGED vars
    BY <1>1, <1>9 DEF Tick, vars
  <1>10. QED
    BY <1>2, <1>3, <1>4, <1>5, <1>6, <1>7, <1>8, <1>9 DEF Next, WorkerStep

(***************************************************************************)
(* What the next step of a pass needs is there: a batch to claim, even of  *)
(* nothing; a record to hand out, and it is the oldest; and for the record *)
(* in hand a handler and one of the three results.                         *)
(***************************************************************************)
NoPassSticks ==
    \A w \in Workers :
        /\ phase[w] = "claiming" => Batches(DueFor(w)) # {}
        /\ phase[w] = "delivering" => NextRecord(w) # {}
        /\ phase[w] \in {"handling", "resolving"} => current[w] \in NextRecord(w) \cap Handled
        /\ phase[w] = "resolving" => result[w] \in Results

(***************************************************************************)
(* However workers, crashes and replays interleave, a pass is never left   *)
(* without a next step of its own, and it takes its batch oldest first.    *)
(* It is the safety half of the liveness TLC checks.                       *)
(***************************************************************************)
THEOREM PassesGoOn == Spec => []NoPassSticks
  <1>1. Init => DeliversOldest
    BY DEF Init, DeliversOldest, Delivering
  <1>2. TypeInv /\ DeliversOldest /\ [Next]_vars => (TypeInv /\ DeliversOldest)'
    BY NextTypes, NextDelivers
  <1>3. ASSUME TypeInv, DeliversOldest, NEW w \in Workers
        PROVE  /\ Batches(DueFor(w)) # {}
               /\ phase[w] = "delivering" => NextRecord(w) # {}
               /\ phase[w] \in {"handling", "resolving"} =>
                      current[w] \in NextRecord(w) \cap Handled
               /\ phase[w] = "resolving" => result[w] \in Results
    <2>1. Batches(DueFor(w)) # {}
      BY BatchExists DEF DueFor
    <2>2. ASSUME phase[w] = "delivering"
          PROVE  NextRecord(w) # {}
      <3>1. held[w] \in SUBSET Events /\ held[w] # {}
        BY <1>3, <2>2 DEF TypeInv, TypeOK, DeliversOldest, Delivering
      <3>2. QED
        BY <3>1, OldestExists DEF NextRecord
    <2>3. QED
      BY <1>3, <2>1, <2>2 DEF TypeInv, RecordsInHand, DeliversOldest
  <1>4. TypeInv /\ DeliversOldest => NoPassSticks
    BY <1>3 DEF NoPassSticks
  <1>5. QED
    BY <1>1, <1>2, <1>4, InitTypes, PTL DEF Spec
=============================================================================
