------------------------------- MODULE Outbox -------------------------------
(***************************************************************************)
(* The transactional outbox: the rows of `outbox_events`, the dispatch     *)
(* passes of the background workers that drain them, the operator's replay *)
(* and the passing of time.                                                *)
(*                                                                         *)
(* Sources: application/services/outbox_dispatcher.py (the pass),          *)
(* infrastructure/database/outbox_store.py (each statement is one          *)
(* transaction, hence one action here), workers/outbox_worker.py (the      *)
(* loop) and OutboxEventModel in infrastructure/database/models.py.        *)
(*                                                                         *)
(* Timestamps are kept relative to the clock, so that time needs no bound: *)
(* nextIn[e] is next_attempt_at - now, claimAge[e] is now - claimed_at and *)
(* passAge[w] is now - (the `now` a worker read when its pass began).      *)
(* They stop counting where no comparison can tell the difference, and a   *)
(* tick forgets the one a row's status makes unreadable.                   *)
(***************************************************************************)
EXTENDS Integers, FiniteSets

CONSTANTS
    Events,        \* the ids of the events that may be written to the outbox
    OccurredAt,    \* occurred_at of each event: the order in which they are claimed
    Handled,       \* the events whose type has an entry in the routing table
    Workers,       \* the workers, one per backend process
    BatchSize,     \* batch_size of OutboxDispatcher
    MaxAttempts,   \* max_attempts of OutboxDispatcher
    StalledAfter,  \* stalled_after_seconds, in ticks
    Delays,        \* what retry_delay may answer, in ticks
    Replayable,    \* the statuses in which an operator asks for a replay
    MaxLag,        \* bound: ticks between a pass reading the clock and its claim
    PassLimit,     \* bound: ticks a pass lasts, from reading the clock to its end
    AttemptCap,    \* bound: where the attempts column stops counting
    MaxAbandons,   \* bound: passes cut short in a behaviour
    MaxReplays,    \* bound: replays in a behaviour
    None           \* no record in hand, no result yet

Statuses == {"absent", "pending", "processing", "processed", "failed", "dead"}

(***************************************************************************)
(* Nothing here relates PassLimit to StalledAfter: the code does not       *)
(* either, and the theorems that need it say so.                           *)
(***************************************************************************)
ASSUME OutboxAssumption ==
    /\ OccurredAt \in [Events -> Nat]
    /\ Handled \subseteq Events
    /\ BatchSize \in Nat \ {0}
    /\ MaxAttempts \in Nat \ {0}
    /\ StalledAfter \in Nat
    /\ Delays \subseteq Nat
    /\ Replayable \subseteq Statuses \ {"absent"}
    /\ MaxLag \in Nat
    /\ PassLimit \in Nat /\ MaxLag <= PassLimit
    /\ AttemptCap \in Nat /\ MaxAttempts <= AttemptCap
    /\ MaxAbandons \in Nat
    /\ MaxReplays \in Nat
    /\ None \notin Events \cup Workers

VARIABLES
    \* the columns of outbox_events
    status, attempts, nextIn, claimAge,
    \* the worker: where its pass is, the records it still has to resolve (and
    \* the attempts each showed when claimed), the record in its hands
    phase, passAge, held, seen, current, result,
    \* history: events some handler call returned normally for, events the CRM
    \* refused for good, and the two budgets
    delivered, refused, abandons, replays

rows    == <<status, attempts, nextIn, claimAge>>
workers == <<phase, passAge, held, seen, current, result>>
history == <<delivered, refused>>
budgets == <<abandons, replays>>
vars    == <<rows, workers, history, budgets>>

(***************************************************************************)
(* claimed_at is NULL.  No claim is one tick in the future.                *)
(***************************************************************************)
Null == -1

(***************************************************************************)
(* The age beyond which every pass sees a claim as stalled.                *)
(***************************************************************************)
AgeCap == StalledAfter + MaxLag + 1

Phases     == {"idle", "polling", "claiming", "delivering", "handling", "resolving"}
Results    == {"ok", "transient", "permanent"}
Delivering == {"delivering", "handling", "resolving"}
Claimable  == {"pending", "failed"}
Settled    == {"processed", "dead"}

Init ==
    /\ status    = [e \in Events |-> "absent"]
    /\ attempts  = [e \in Events |-> 0]
    /\ nextIn    = [e \in Events |-> 0]
    /\ claimAge  = [e \in Events |-> Null]
    /\ phase     = [w \in Workers |-> "idle"]
    /\ passAge   = [w \in Workers |-> 0]
    /\ held      = [w \in Workers |-> {}]
    /\ seen      = [w \in Workers |-> [e \in Events |-> 0]]
    /\ current   = [w \in Workers |-> None]
    /\ result    = [w \in Workers |-> None]
    /\ delivered = {}
    /\ refused   = {}
    /\ abandons  = 0
    /\ replays   = 0

-----------------------------------------------------------------------------
(***************************************************************************)
(* The producer.  A unit of work that commits writes the event's row with  *)
(* next_attempt_at = occurred_at, which the commit may follow by a while.  *)
(***************************************************************************)
Enqueue(e, lag) ==
    /\ status[e] = "absent"
    /\ status' = [status EXCEPT ![e] = "pending"]
    /\ nextIn' = [nextIn EXCEPT ![e] = -lag]
    /\ UNCHANGED <<attempts, claimAge, workers, history, budgets>>

-----------------------------------------------------------------------------
(***************************************************************************)
(* dispatch_once reads the clock once; reclaim_stalled and claim_batch use *)
(* that reading however late they run.                                     *)
(***************************************************************************)
ReadClock(w) ==
    /\ phase[w] = "idle"
    /\ phase'   = [phase EXCEPT ![w] = "polling"]
    /\ passAge' = [passAge EXCEPT ![w] = 0]
    /\ UNCHANGED <<rows, held, seen, current, result, history, budgets>>

(***************************************************************************)
(* Variant: every claim is stalled, however young.                         *)
(***************************************************************************)
StalledAnyClaim(w) ==
    {e \in Events : status[e] = "processing"}

(***************************************************************************)
(* Variant: a claim whose worker is gone is never seen as stalled.         *)
(***************************************************************************)
StalledNever(w) == {}

(***************************************************************************)
(* claimed_at < older_than, where older_than is StalledAfter before the    *)
(* clock reading of w's pass.                                              *)
(***************************************************************************)
StalledFor(w) ==
    {e \in Events : /\ status[e] = "processing"
                    /\ claimAge[e] # Null
                    /\ claimAge[e] - passAge[w] > StalledAfter}

ReclaimStalled(w) ==
    LET stalled == StalledFor(w)
    IN  /\ phase[w] = "polling"
        /\ status'   = [e \in Events |-> IF e \in stalled THEN "pending" ELSE status[e]]
        /\ claimAge' = [e \in Events |-> IF e \in stalled THEN Null ELSE claimAge[e]]
        /\ nextIn'   = [e \in Events |-> IF e \in stalled THEN -passAge[w] ELSE nextIn[e]]
        /\ phase'    = [phase EXCEPT ![w] = "claiming"]
        /\ UNCHANGED <<attempts, passAge, held, seen, current, result, history, budgets>>

(***************************************************************************)
(* Variant: the WHERE clause without its test of the status, so that only  *)
(* rows in flight are left out, by their lock.                             *)
(***************************************************************************)
DueWhateverStatus(w) ==
    {e \in Events : /\ status[e] \notin {"absent", "processing"}
                    /\ nextIn[e] <= -passAge[w]}

(***************************************************************************)
(* The rows claim_batch may take: claimable, and due at the clock reading. *)
(***************************************************************************)
DueFor(w) ==
    {e \in Events : /\ status[e] \in Claimable
                    /\ nextIn[e] <= -passAge[w]}

(***************************************************************************)
(* The first BatchSize of `due` ordered by occurred_at; ties in any order. *)
(***************************************************************************)
Batches(due) ==
    {batch \in SUBSET due :
        /\ Cardinality(batch) <= BatchSize
        /\ batch # due => Cardinality(batch) = BatchSize
        /\ \A e \in batch, f \in due \ batch : OccurredAt[e] <= OccurredAt[f]}

(***************************************************************************)
(* Variant: the claim counts an attempt and so does the delivery.          *)
(***************************************************************************)
AttemptedTwice(n) == n + 2

Attempted(n) == IF n < AttemptCap THEN n + 1 ELSE n

(***************************************************************************)
(* SELECT ... FOR UPDATE SKIP LOCKED and the update of what it returned,   *)
(* in one transaction: no other claim sees these rows in between.  A claim *)
(* that returns nothing ends the pass.                                     *)
(***************************************************************************)
ClaimBatch(w) ==
    \E batch \in Batches(DueFor(w)) :
        /\ phase[w] = "claiming"
        /\ status'   = [e \in Events |-> IF e \in batch THEN "processing" ELSE status[e]]
        /\ claimAge' = [e \in Events |-> IF e \in batch THEN passAge[w] ELSE claimAge[e]]
        /\ attempts' = [e \in Events |-> IF e \in batch THEN Attempted(attempts[e]) ELSE attempts[e]]
        /\ held'     = [held EXCEPT ![w] = batch]
        /\ seen'     = [seen EXCEPT ![w] = [e \in Events |-> IF e \in batch THEN attempts'[e] ELSE 0]]
        /\ phase'    = [phase EXCEPT ![w] = IF batch = {} THEN "idle" ELSE "delivering"]
        /\ passAge'  = [passAge EXCEPT ![w] = IF batch = {} THEN 0 ELSE @]
        /\ UNCHANGED <<nextIn, current, result, history, budgets>>

-----------------------------------------------------------------------------
(***************************************************************************)
(* The records of a batch are resolved one after the other, oldest first.  *)
(***************************************************************************)
NextRecord(w) ==
    {e \in held[w] : \A f \in held[w] : OccurredAt[e] <= OccurredAt[f]}

HandlerCall(w) ==
    \E e \in NextRecord(w) \cap Handled :
        /\ phase[w] = "delivering"
        /\ phase'   = [phase EXCEPT ![w] = "handling"]
        /\ current' = [current EXCEPT ![w] = e]
        /\ UNCHANGED <<rows, passAge, held, seen, result, history, budgets>>

(***************************************************************************)
(* The handler returns ("ok"), raises CrmPermanentError ("permanent") or   *)
(* raises anything else ("transient").                                     *)
(***************************************************************************)
HandlerReturns(w, r) ==
    /\ phase[w] = "handling"
    /\ phase'  = [phase EXCEPT ![w] = "resolving"]
    /\ result' = [result EXCEPT ![w] = r]
    /\ delivered' = IF r = "ok" THEN delivered \cup {current[w]} ELSE delivered
    /\ refused' = IF r = "permanent" THEN refused \cup {current[w]} ELSE refused
    /\ UNCHANGED <<rows, passAge, held, seen, current, budgets>>

(***************************************************************************)
(* The worker is done with record e: on to the next one, or end the pass.  *)
(***************************************************************************)
Resolved(w, e) ==
    LET rest == held[w] \ {e}
    IN  /\ held'    = [held EXCEPT ![w] = rest]
        /\ seen'    = [seen EXCEPT ![w][e] = 0]
        /\ phase'   = [phase EXCEPT ![w] = IF rest = {} THEN "idle" ELSE "delivering"]
        /\ passAge' = [passAge EXCEPT ![w] = IF rest = {} THEN 0 ELSE @]
        /\ current' = [current EXCEPT ![w] = None]
        /\ result'  = [result EXCEPT ![w] = None]

(***************************************************************************)
(* mark_processed, mark_failed and mark_dead write the row they are given, *)
(* whatever its status has become since it was claimed.                    *)
(***************************************************************************)
SetProcessed(e) ==
    /\ status' = [status EXCEPT ![e] = "processed"]
    /\ UNCHANGED <<attempts, nextIn, claimAge>>

SetFailed(e, delay) ==
    /\ status'   = [status EXCEPT ![e] = "failed"]
    /\ nextIn'   = [nextIn EXCEPT ![e] = delay]
    /\ claimAge' = [claimAge EXCEPT ![e] = Null]
    /\ UNCHANGED attempts

SetDead(e) ==
    /\ status'   = [status EXCEPT ![e] = "dead"]
    /\ claimAge' = [claimAge EXCEPT ![e] = Null]
    /\ UNCHANGED <<attempts, nextIn>>

(***************************************************************************)
(* Variant: the routing table is not consulted.                            *)
(***************************************************************************)
SkipAny(w) ==
    \E e \in NextRecord(w) :
        /\ phase[w] = "delivering"
        /\ SetProcessed(e)
        /\ Resolved(w, e)
        /\ UNCHANGED <<history, budgets>>

(***************************************************************************)
(* An event nobody consumes is marked processed without a handler call.    *)
(***************************************************************************)
SkipUnhandled(w) ==
    \E e \in NextRecord(w) \ Handled :
        /\ phase[w] = "delivering"
        /\ SetProcessed(e)
        /\ Resolved(w, e)
        /\ UNCHANGED <<history, budgets>>

(***************************************************************************)
(* Variant: a failed call is acknowledged like a successful one.           *)
(***************************************************************************)
MarkProcessedAnyway(w) ==
    /\ phase[w] = "resolving"
    /\ result[w] # "permanent"
    /\ SetProcessed(current[w])
    /\ Resolved(w, current[w])
    /\ UNCHANGED <<history, budgets>>

MarkProcessed(w) ==
    /\ phase[w] = "resolving"
    /\ result[w] = "ok"
    /\ SetProcessed(current[w])
    /\ Resolved(w, current[w])
    /\ UNCHANGED <<history, budgets>>

(***************************************************************************)
(* Variant: off by one.                                                    *)
(***************************************************************************)
OutOfAttemptsEarly(w) == seen[w][current[w]] + 1 >= MaxAttempts

OutOfAttempts(w) == seen[w][current[w]] >= MaxAttempts

MarkDead(w) ==
    /\ phase[w] = "resolving"
    /\ \/ result[w] = "permanent"
       \/ result[w] = "transient" /\ OutOfAttempts(w)
    /\ SetDead(current[w])
    /\ Resolved(w, current[w])
    /\ UNCHANGED <<history, budgets>>

MarkFailed(w, delay) ==
    /\ phase[w] = "resolving"
    /\ result[w] = "transient"
    /\ ~OutOfAttempts(w)
    /\ SetFailed(current[w], delay)
    /\ Resolved(w, current[w])
    /\ UNCHANGED <<history, budgets>>

(***************************************************************************)
(* The pass ends where it stands: the process dies, stop() cancels the     *)
(* task, or a statement of the store raises and the loop logs it and polls *)
(* again.  What was claimed stays `processing`.                            *)
(***************************************************************************)
Abandon(w) ==
    /\ phase[w] # "idle"
    /\ abandons < MaxAbandons
    /\ abandons' = abandons + 1
    /\ phase'    = [phase EXCEPT ![w] = "idle"]
    /\ passAge'  = [passAge EXCEPT ![w] = 0]
    /\ held'     = [held EXCEPT ![w] = {}]
    /\ seen'     = [seen EXCEPT ![w] = [e \in Events |-> 0]]
    /\ current'  = [current EXCEPT ![w] = None]
    /\ result'   = [result EXCEPT ![w] = None]
    /\ UNCHANGED <<rows, history, replays>>

-----------------------------------------------------------------------------
(***************************************************************************)
(* The operator's replay.  The store puts any row it finds back; which     *)
(* rows operators ask for is Replayable.                                   *)
(***************************************************************************)
Replay(e) ==
    /\ status[e] \in Replayable
    /\ replays < MaxReplays
    /\ replays'  = replays + 1
    /\ status'   = [status EXCEPT ![e] = "pending"]
    /\ attempts' = [attempts EXCEPT ![e] = 0]
    /\ nextIn'   = [nextIn EXCEPT ![e] = 0]
    /\ claimAge' = [claimAge EXCEPT ![e] = Null]
    /\ UNCHANGED <<workers, history, abandons>>

(***************************************************************************)
(* One tick passes.  A pass lasts at most PassLimit ticks and claims at    *)
(* most MaxLag ticks after it began: those who want longer ones raise the  *)
(* bounds, or abandon the pass.                                            *)
(***************************************************************************)
Tick ==
    /\ \A w \in Workers :
        /\ phase[w] \in {"polling", "claiming"} => passAge[w] < MaxLag
        /\ phase[w] \in Delivering => passAge[w] < PassLimit
    /\ passAge' = [w \in Workers |-> IF phase[w] = "idle" THEN 0 ELSE passAge[w] + 1]
    /\ nextIn' = [e \in Events |->
                    IF status[e] \notin Claimable THEN 0
                    ELSE IF nextIn[e] > -MaxLag THEN nextIn[e] - 1
                    ELSE nextIn[e]]
    /\ claimAge' = [e \in Events |->
                    IF status[e] # "processing" THEN Null
                    ELSE IF claimAge[e] \in 0..AgeCap - 1 THEN claimAge[e] + 1
                    ELSE claimAge[e]]
    /\ UNCHANGED <<status, attempts, phase, held, seen, current, result, history, budgets>>

-----------------------------------------------------------------------------
WorkerStep(w) ==
    \/ ReadClock(w)
    \/ ReclaimStalled(w)
    \/ ClaimBatch(w)
    \/ HandlerCall(w)
    \/ \E r \in Results : HandlerReturns(w, r)
    \/ SkipUnhandled(w)
    \/ MarkProcessed(w)
    \/ MarkDead(w)
    \/ \E delay \in Delays : MarkFailed(w, delay)

Next ==
    \/ \E e \in Events, lag \in 0..MaxLag : Enqueue(e, lag)
    \/ \E w \in Workers : WorkerStep(w)
    \/ \E w \in Workers : Abandon(w)
    \/ \E e \in Events : Replay(e)
    \/ Tick

Spec == Init /\ [][Next]_vars

(***************************************************************************)
(* The event loop runs every worker's task and every call a worker makes   *)
(* has a timeout, and time passes: Tick waits only for passes that sit at  *)
(* one of its two limits, which their workers end (with MaxLag > 0 a pass  *)
(* begins below both).  Nobody has to enqueue, crash or replay.            *)
(***************************************************************************)
Fairness ==
    /\ \A w \in Workers : WF_vars(WorkerStep(w))
    /\ WF_vars(Tick)

FairSpec == Spec /\ Fairness
-----------------------------------------------------------------------------
(***************************************************************************)
(* Types: the columns and the worker's variables hold what they should.    *)
(***************************************************************************)
TypeOK ==
    /\ status \in [Events -> Statuses]
    /\ attempts \in [Events -> 0..AttemptCap]
    /\ nextIn \in [Events -> Int]
    /\ claimAge \in [Events -> Int]
    /\ phase \in [Workers -> Phases]
    /\ passAge \in [Workers -> 0..PassLimit]
    /\ held \in [Workers -> SUBSET Events]
    /\ seen \in [Workers -> [Events -> 0..AttemptCap]]
    /\ current \in [Workers -> Events \cup {None}]
    /\ result \in [Workers -> Results \cup {None}]
    /\ delivered \subseteq Events
    /\ refused \subseteq Events
    /\ abandons \in 0..MaxAbandons
    /\ replays \in 0..MaxReplays

(***************************************************************************)
(* What a worker has in hand: outside a delivery nothing; while a handler  *)
(* call is open or its result is still to be recorded, one record of its   *)
(* batch whose type has a handler; and the result it remembers happened.   *)
(***************************************************************************)
RecordsInHand ==
    \A w \in Workers :
        /\ held[w] # {} => phase[w] \in Delivering
        /\ phase[w] \in {"handling", "resolving"} => current[w] \in held[w] \cap Handled
        /\ phase[w] = "resolving" => result[w] \in Results
        /\ phase[w] = "resolving" /\ result[w] = "ok" => current[w] \in delivered
        /\ phase[w] = "resolving" /\ result[w] = "permanent" => current[w] \in refused

(***************************************************************************)
(* The claim behind each record of a batch is still the worker's own: the  *)
(* row is in flight, stamped with the worker's clock reading, counts the   *)
(* attempts the record shows, and is in nobody else's batch.               *)
(***************************************************************************)
ClaimsInHand ==
    \A w \in Workers : \A e \in held[w] :
        /\ status[e] = "processing"
        /\ claimAge[e] = passAge[w]
        /\ attempts[e] = seen[w][e]
        /\ \A v \in Workers \ {w} : e \notin held[v]

(***************************************************************************)
(* "Two replicas can poll the same table at the same time and will never   *)
(* hand the same event to both" (outbox_store.py): a row that a worker     *)
(* still has to resolve is in flight and in no other worker's batch.       *)
(***************************************************************************)
ExclusiveDelivery ==
    \A w \in Workers : \A e \in held[w] :
        /\ status[e] = "processing"
        /\ \A v \in Workers \ {w} : e \notin held[v]

(***************************************************************************)
(* "success: mark processed. Terminal." (outbox_dispatcher.py): nothing    *)
(* ever moves a processed row, and a dead letter leaves only by a replay.  *)
(***************************************************************************)
SettledStays ==
    [][\A e \in Events :
        /\ status[e] = "processed" => status'[e] = "processed"
        /\ status[e] = "dead" => status'[e] = "dead" \/ replays' > replays]_vars

(***************************************************************************)
(* An event is acknowledged only if a call of its handler returned         *)
(* normally, whatever crashes, overlaps and replays happened before.       *)
(***************************************************************************)
ProcessedWasDelivered ==
    \A e \in Handled : status[e] = "processed" => e \in delivered

(***************************************************************************)
(* An event is dead-lettered only when the CRM refused it for good or its  *)
(* attempts, as the row counts them, have run out.                         *)
(***************************************************************************)
DeadWasExhausted ==
    \A e \in Events : status[e] = "dead" => e \in refused \/ attempts[e] >= MaxAttempts

(***************************************************************************)
(* "after max_attempts ... a dead letter" (outbox_dispatcher.py) and       *)
(* "otherwise a crash-looping consumer could retry forever without ever    *)
(* reaching max_attempts" (outbox_store.py): no row is handed out more     *)
(* often than max_attempts.                                                *)
(***************************************************************************)
AttemptsCapped == \A e \in Events : attempts[e] <= MaxAttempts

(***************************************************************************)
(* Every event in the outbox is eventually settled: acknowledged or        *)
(* dead-lettered, and left alone from then on.                             *)
(***************************************************************************)
EventuallySettled ==
    \A e \in Events : status[e] = "pending" ~> [](status[e] \in Settled)

-----------------------------------------------------------------------------
(***************************************************************************)
(* The refinement: the promise a row keeps, and the worker it belongs to.  *)
(***************************************************************************)
StageOf(s) ==
    CASE s = "absent"     -> "unwritten"
      [] s = "processing" -> "inflight"
      [] s = "processed"  -> "acknowledged"
      [] s = "dead"       -> "buried"
      [] OTHER            -> "queued"

Owner(batches, e) ==
    IF \E w \in Workers : e \in batches[w]
    THEN CHOOSE w \in Workers : e \in batches[w]
    ELSE None

Promise == INSTANCE Delivery WITH
    Consumed <- Handled,
    Nobody   <- None,
    stage    <- [e \in Events |-> StageOf(status[e])],
    owner    <- [e \in Events |-> Owner(held, e)],
    consumed <- delivered

(***************************************************************************)
(* The passes, clocks and rows of the outbox keep the promise of Delivery. *)
(***************************************************************************)
KeepsPromise == Promise!Spec
=============================================================================
