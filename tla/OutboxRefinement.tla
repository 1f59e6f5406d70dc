-------------------------- MODULE OutboxRefinement --------------------------
(***************************************************************************)
(* The outbox implements Delivery, for every set of events and workers and *)
(* every value of the bounds, while passes are punctual.                   *)
(***************************************************************************)
EXTENDS OutboxProofs

-----------------------------------------------------------------------------
(***************************************************************************)
(* The owner of an event: the one worker whose batch holds it, or nobody.  *)
(***************************************************************************)
LEMMA OwnerHolds ==
    ASSUME NEW batches, NEW w \in Workers, NEW e \in batches[w],
           \A v \in Workers \ {w} : e \notin batches[v]
    PROVE  Owner(batches, e) = w
  BY DEF Owner

LEMMA OwnerNobody ==
    ASSUME NEW batches, NEW e, \A v \in Workers : e \notin batches[v]
    PROVE  Owner(batches, e) = None
  BY DEF Owner

LEMMA OwnerKept ==
    ASSUME NEW before, NEW after, NEW e,
           \A v \in Workers : e \in before[v] <=> e \in after[v],
           \A v, u \in Workers : e \in before[v] /\ e \in before[u] => v = u
    PROVE  Owner(before, e) = Owner(after, e)
  <1>1. CASE \E w \in Workers : e \in before[w]
    <2>1. PICK w \in Workers : e \in before[w]
      BY <1>1
    <2>2. Owner(before, e) = w
      BY <2>1, OwnerHolds
    <2>3. Owner(after, e) = w
      BY <2>1, OwnerHolds
    <2>4. QED
      BY <2>2, <2>3
  <1>2. CASE \A w \in Workers : e \notin before[w]
    BY <1>2, OwnerNobody
  <1>3. QED
    BY <1>1, <1>2

LEMMA OneOwner ==
    ASSUME ExclusiveInv, NEW e \in Events
    PROVE  /\ \A v, u \in Workers : e \in held[v] /\ e \in held[u] => v = u
           /\ \A w \in Workers : e \in held[w] => Owner(held, e) = w
           /\ status[e] # "processing" => Owner(held, e) = None
  <1>1. \A v, u \in Workers : e \in held[v] /\ e \in held[u] => v = u
    BY DEF ExclusiveInv, ClaimsInHand
  <1>2. \A w \in Workers : e \in held[w] => Owner(held, e) = w
    BY <1>1, OwnerHolds
  <1>3. status[e] # "processing" => Owner(held, e) = None
    BY OwnerNobody DEF ExclusiveInv, ClaimsInHand
  <1>4. QED
    BY <1>1, <1>2, <1>3

-----------------------------------------------------------------------------
(***************************************************************************)
(* A worker resolves a record of its batch: it gives the event up, and     *)
(* nobody else's event changes hands.                                      *)
(***************************************************************************)
LEMMA ResolvedOwner ==
    ASSUME ExclusiveInv, NEW w \in Workers, NEW e \in held[w], Resolved(w, e)
    PROVE  /\ e \in Events
           /\ Owner(held, e) = w
           /\ [f \in Events |-> Owner(held', f)]
                = [[f \in Events |-> Owner(held, f)] EXCEPT ![e] = None]
  <1>1. e \in Events /\ Owner(held, e) = w
    BY OneOwner DEF ExclusiveInv, TypeInv, TypeOK
  <1>2. /\ \A v \in Workers \ {w} : held'[v] = held[v]
        /\ held'[w] = held[w] \ {e}
    BY DEF Resolved, ExclusiveInv, TypeInv, TypeOK
  <1>3. Owner(held', e) = None
    BY <1>1, <1>2, OneOwner, OwnerNobody
  <1>4. ASSUME NEW f \in Events, f # e
        PROVE  Owner(held', f) = Owner(held, f)
    <2>1. \A v \in Workers : f \in held[v] <=> f \in held'[v]
      BY <1>2, <1>4
    <2>2. \A v, u \in Workers : f \in held[v] /\ f \in held[u] => v = u
      BY OneOwner
    <2>3. QED
      BY <2>1, <2>2, OwnerKept
  <1>5. QED
    BY <1>1, <1>3, <1>4

(***************************************************************************)
(* Each way to resolve a record is Delivery's Resolve.                     *)
(***************************************************************************)
LEMMA ResolvedPromise ==
    ASSUME ExclusiveInv, NEW w \in Workers, NEW e \in held[w], Resolved(w, e),
           NEW s \in {"processed", "failed", "dead"},
           status' = [status EXCEPT ![e] = s],
           s = "processed" => e \in delivered \/ e \notin Handled,
           UNCHANGED delivered
    PROVE  Promise!Next
  <1> DEFINE to == StageOf(s)
  <1>1. to \in {"queued", "acknowledged", "buried"}
    BY DEF StageOf
  <1>2. to = "acknowledged" => s = "processed"
    BY DEF StageOf
  <1>3. e \in Events /\ status[e] = "processing" /\ w # None
    BY OutboxAssumption DEF ExclusiveInv, TypeInv, TypeOK, ClaimsInHand
  <1>4. StageOf(status[e]) = "inflight"
    BY <1>3 DEF StageOf
  <1>5. [f \in Events |-> StageOf(status'[f])]
          = [[f \in Events |-> StageOf(status[f])] EXCEPT ![e] = to]
    BY <1>3 DEF ExclusiveInv, TypeInv, TypeOK
  <1>6. Promise!Resolve(e, to)
    BY <1>2, <1>3, <1>4, <1>5, ResolvedOwner DEF Promise!Resolve
  <1>7. QED
    BY <1>1, <1>3, <1>6 DEF Promise!Next

-----------------------------------------------------------------------------
LEMMA PromiseInit == Init => Promise!Init
  <1> SUFFICES ASSUME Init
               PROVE  Promise!Init
    OBVIOUS
  <1>1. \A e \in Events : Owner(held, e) = None
    BY OwnerNobody DEF Init
  <1>2. \A e \in Events : StageOf(status[e]) = "unwritten"
    BY DEF Init, StageOf
  <1>3. QED
    BY <1>1, <1>2 DEF Init, Promise!Init

(***************************************************************************)
(* Every step of the outbox is a step of Delivery or leaves its variables  *)
(* alone.                                                                  *)
(***************************************************************************)
LEMMA PromiseNext ==
    Punctual /\ ExclusiveInv /\ [Next]_vars => [Promise!Next]_Promise!vars
  <1> SUFFICES ASSUME Punctual, ExclusiveInv, [Next]_vars
               PROVE  [Promise!Next]_Promise!vars
    OBVIOUS
  <1> USE OutboxAssumption DEF ExclusiveInv, TypeInv, rows, workers, history, budgets
  <1>1. ASSUME NEW e \in Events, NEW lag \in 0..MaxLag, Enqueue(e, lag)
        PROVE  Promise!Next
    <2>1. /\ StageOf(status[e]) = "unwritten"
          /\ [f \in Events |-> StageOf(status'[f])]
               = [[f \in Events |-> StageOf(status[f])] EXCEPT ![e] = "queued"]
      BY <1>1 DEF Enqueue, TypeOK, StageOf
    <2>2. Promise!Write(e)
      BY <1>1, <2>1 DEF Enqueue, Promise!Write
    <2>3. QED
      BY <2>2 DEF Promise!Next
  <1>2. ASSUME UNCHANGED <<status, held, delivered>>
        PROVE  UNCHANGED Promise!vars
    BY <1>2 DEF Promise!vars
  <1>3. ASSUME NEW w \in Workers, ReadClock(w) \/ HandlerCall(w)
        PROVE  UNCHANGED Promise!vars
    BY <1>2, <1>3 DEF ReadClock, HandlerCall
  <1>4. ASSUME NEW w \in Workers, ReclaimStalled(w)
        PROVE  Promise!Next
    <2> DEFINE stalled == StalledFor(w)
    <2>1. ASSUME NEW e \in stalled
          PROVE  e \in Events /\ StageOf(status[e]) = "inflight" /\ Owner(held, e) = None
      <3>1. e \in Events /\ status[e] = "processing"
        BY DEF StalledFor
      <3>2. ASSUME NEW v \in Workers
            PROVE  e \notin held[v]
        <4>1. SUFFICES ASSUME e \in held[v]
                       PROVE  FALSE
          OBVIOUS
        <4>2. claimAge[e] = passAge[v] /\ passAge[v] \in 0..PassLimit /\ passAge[w] \in Nat
          BY <4>1 DEF TypeOK, ClaimsInHand
        <4>3. QED
          BY <4>2 DEF StalledFor, Punctual
      <3>3. QED
        BY <3>1, <3>2, OwnerNobody DEF StageOf
    <2>2. [e \in Events |-> StageOf(status'[e])]
            = [e \in Events |-> IF e \in stalled THEN "queued" ELSE StageOf(status[e])]
      BY <1>4 DEF ReclaimStalled, StageOf
    <2>3. Promise!GiveBack(stalled)
      BY <1>4, <2>1, <2>2 DEF ReclaimStalled, Promise!GiveBack
    <2>4. stalled \in SUBSET Events
      BY DEF StalledFor
    <2>5. QED
      BY <2>3, <2>4 DEF Promise!Next
  <1>5. ASSUME NEW w \in Workers, ClaimBatch(w)
        PROVE  Promise!Next
    <2>1. PICK batch \in Batches(DueFor(w)) : ClaimBatch(w)!(batch)
      BY <1>5 DEF ClaimBatch
    <2>2. batch \subseteq Events /\ \A e \in batch : status[e] \in Claimable
      BY DEF Batches, DueFor
    <2>3. held[w] = {}
      BY <2>1 DEF RecordsInHand, Delivering
    <2>4. held' = [held EXCEPT ![w] = batch]
      BY <2>1
    <2>5. ASSUME NEW e \in Events
          PROVE  Owner(held', e) = IF e \in batch THEN w ELSE Owner(held, e)
      <3>1. CASE e \in batch
        <4>1. \A v \in Workers : e \notin held[v]
          BY <2>2, <3>1 DEF Claimable, ClaimsInHand
        <4>2. e \in held'[w] /\ \A v \in Workers \ {w} : e \notin held'[v]
          BY <2>4, <3>1, <4>1 DEF TypeOK
        <4>3. QED
          BY <3>1, <4>2, OwnerHolds
      <3>2. CASE e \notin batch
        <4>1. \A v \in Workers : e \in held[v] <=> e \in held'[v]
          BY <2>3, <2>4, <3>2 DEF TypeOK
        <4>2. \A v, u \in Workers : e \in held[v] /\ e \in held[u] => v = u
          BY OneOwner
        <4>3. QED
          BY <3>2, <4>1, <4>2, OwnerKept
      <3>3. QED
        BY <3>1, <3>2
    <2>6. \A e \in batch : StageOf(status[e]) = "queued"
      BY <2>2 DEF Claimable, StageOf
    <2>7. [e \in Events |-> StageOf(status'[e])]
            = [e \in Events |-> IF e \in batch THEN "inflight" ELSE StageOf(status[e])]
      BY <2>1 DEF StageOf
    <2>8. Promise!Take(w, batch)
      BY <2>1, <2>2, <2>5, <2>6, <2>7 DEF Promise!Take
    <2>9. QED
      BY <2>2, <2>8 DEF Promise!Next
  <1>6. ASSUME NEW w \in Workers, NEW r \in Results, HandlerReturns(w, r)
        PROVE  [Promise!Next]_Promise!vars
    <2>1. CASE r = "ok"
      <3>1. /\ current[w] \in held[w] /\ current[w] \in Events
            /\ status[current[w]] = "processing" /\ w # None
        BY <1>6 DEF HandlerReturns, TypeOK, RecordsInHand, ClaimsInHand
      <3>2. StageOf(status[current[w]]) = "inflight" /\ Owner(held, current[w]) = w
        BY <3>1, OneOwner DEF StageOf
      <3>3. Promise!Consume(current[w])
        BY <1>6, <2>1, <3>1, <3>2 DEF HandlerReturns, Promise!Consume
      <3>4. QED
        BY <3>1, <3>3 DEF Promise!Next
    <2>2. CASE r # "ok"
      BY <1>2, <1>6, <2>2 DEF HandlerReturns
    <2>3. QED
      BY <2>1, <2>2
  <1>7. ASSUME NEW w \in Workers, SkipUnhandled(w)
        PROVE  Promise!Next
    <2>1. PICK e \in NextRecord(w) \ Handled :
                 SetProcessed(e) /\ Resolved(w, e) /\ UNCHANGED <<history, budgets>>
      BY <1>7 DEF SkipUnhandled
    <2>2. QED
      BY <2>1, ResolvedPromise DEF NextRecord, SetProcessed
  <1>8. ASSUME NEW w \in Workers,
               \/ MarkProcessed(w)
               \/ MarkDead(w)
               \/ \E delay \in Delays : MarkFailed(w, delay)
        PROVE  Promise!Next
    <2>1. current[w] \in held[w] /\ Resolved(w, current[w]) /\ UNCHANGED delivered
      BY <1>8 DEF MarkProcessed, MarkDead, MarkFailed, RecordsInHand
    <2>2. \/ /\ status' = [status EXCEPT ![current[w]] = "processed"]
             /\ current[w] \in delivered
          \/ status' = [status EXCEPT ![current[w]] = "dead"]
          \/ status' = [status EXCEPT ![current[w]] = "failed"]
      BY <1>8 DEF MarkProcessed, MarkDead, MarkFailed, SetProcessed, SetDead, SetFailed,
                  RecordsInHand
    <2>3. QED
      BY <2>1, <2>2, ResolvedPromise
  <1>9. ASSUME NEW w \in Workers, Abandon(w)
        PROVE  Promise!Next
    <2>1. held' = [held EXCEPT ![w] = {}]
      BY <1>9 DEF Abandon
    <2>2. ASSUME NEW e \in Events
          PROVE  Owner(held', e) = IF Owner(held, e) = w THEN None ELSE Owner(held, e)
      <3>1. CASE e \in held[w]
        <4>1. Owner(held, e) = w
          BY <3>1, OneOwner
        <4>2. \A v \in Workers : e \notin held'[v]
          BY <2>1, <3>1, OneOwner DEF TypeOK
        <4>3. QED
          BY <4>1, <4>2, OwnerNobody
      <3>2. CASE e \notin held[w]
        <4>1. \A v \in Workers : e \in held[v] <=> e \in held'[v]
          BY <2>1, <3>2 DEF TypeOK
        <4>2. Owner(held, e) = Owner(held', e)
          BY <4>1, OneOwner, OwnerKept
        <4>3. Owner(held, e) # w
          <5>1. CASE \E v \in Workers : e \in held[v]
            BY <3>2, <5>1, OneOwner
          <5>2. CASE \A v \in Workers : e \notin held[v]
            BY <5>2, OwnerNobody
          <5>3. QED
            BY <5>1, <5>2
        <4>4. QED
          BY <4>2, <4>3
      <3>3. QED
        BY <3>1, <3>2
    <2>3. Promise!Vanish(w)
      BY <1>9, <2>2 DEF Abandon, Promise!Vanish
    <2>4. QED
      BY <2>3 DEF Promise!Next
  <1>10. ASSUME NEW e \in Events, Replay(e)
         PROVE  Promise!Next
    <2>1. status[e] = "dead"
      BY <1>10 DEF Replay, Punctual
    <2>2. /\ StageOf(status[e]) = "buried"
          /\ [f \in Events |-> StageOf(status'[f])]
               = [[f \in Events |-> StageOf(status[f])] EXCEPT ![e] = "queued"]
      BY <1>10, <2>1 DEF Replay, TypeOK, StageOf
    <2>3. Promise!Revive(e)
      BY <1>10, <2>2 DEF Replay, Promise!Revive
    <2>4. QED
      BY <2>3 DEF Promise!Next
  <1>11. CASE Tick \/ UNCHANGED vars
    BY <1>2, <1>11 DEF Tick, vars
  <1>12. QED
    BY <1>1, <1>3, <1>4, <1>5, <1>6, <1>7, <1>8, <1>9, <1>10, <1>11 DEF Next, WorkerStep

(***************************************************************************)
(* While passes are punctual and only dead letters are replayed, rows,     *)
(* passes and clocks keep the promise of Delivery: one owner at a time,    *)
(* acknowledged only after it was consumed, given back only when its       *)
(* worker is gone.                                                         *)
(***************************************************************************)
THEOREM OutboxKeepsPromise ==
    ASSUME Punctual
    PROVE  Spec => KeepsPromise
  <1>1. Init => Promise!Init
    BY PromiseInit
  <1>2. ExclusiveInv /\ [Next]_vars => [Promise!Next]_Promise!vars
    BY PromiseNext, Punctual
  <1>3. QED
    BY <1>1, <1>2, ExclusiveInvariant, PTL DEF Spec, KeepsPromise, Promise!Spec
=============================================================================
