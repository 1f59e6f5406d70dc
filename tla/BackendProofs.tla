--------------------------- MODULE BackendProofs ----------------------------
(***************************************************************************)
(* Proofs about the parts of the backend that share no state: the          *)
(* container, the sales brief, the rate limiter, the demo batch, the       *)
(* retries, the score and the values of a form; then what a behaviour of   *)
(* MCBackend has to do with each of them.                                  *)
(***************************************************************************)
EXTENDS MCBackend, FiniteSetTheorems, TLAPS

-----------------------------------------------------------------------------
(***************************************************************************)
(* THE CONTAINER, for any number of readiness attempts and of restarts,    *)
(* whatever order processes, signals and probes come in.                   *)
(***************************************************************************)
(***************************************************************************)
(* Where the script is, what it has sent; how a process ended and whether  *)
(* it is there.                                                            *)
(***************************************************************************)
ProcessesInHand ==
    /\ proc \in [Processes -> {"none", "booting", "up", "closing", "gone"}]
    /\ ended \in [Processes -> {"not", "clean", "crash", "told"}]
    /\ sent \subseteq Processes
    /\ script \in {"probing", "supervising"} => sent = {}
    /\ script = "probing" => proc["frontend"] = "none"
    /\ \A p \in Processes :
          /\ ended[p] = "told" => p \in sent
          /\ ended[p] # "not" => proc[p] = "gone"
          /\ proc[p] = "gone" /\ ended[p] = "not" => script = "exited"

(***************************************************************************)
(* Nobody asked the script to end: a child that ended well is the reason.  *)
(***************************************************************************)
CleanIsTheReason ==
    /\ script = "stopping" /\ ~asked =>
          code = 0 /\ \E p \in Processes : ended[p] = "clean"
    /\ CrashIsReported

ContainerInv == ProcessesInHand /\ CleanIsTheReason
-----------------------------------------------------------------------------
(***************************************************************************)
(* The script starts the backend and has sent nothing yet.                 *)
(***************************************************************************)
LEMMA ContainerBegins == ContainerInit => ContainerInv
BY DEF ContainerInit, Started, Processes, NoCode, ContainerInv, ProcessesInHand, CleanIsTheReason,
       CrashIsReported

(***************************************************************************)
(* The script ends with a code for which there is a reason.                *)
(***************************************************************************)
LEMMA ExitKeeps ==
    ASSUME ContainerInv, NEW c, Exit(c), sent' \in {sent, sent \cup {"backend"}},
           UNCHANGED <<attempt, ended, asked, restarts>>,
           ~asked /\ c = 0 => \E p \in Processes : ended[p] = "clean"
    PROVE  ContainerInv'
<1> USE DEF ContainerInv, Exit, Alive, Processes
<1>1. ProcessesInHand'
    BY DEF ProcessesInHand
<1>2. CleanIsTheReason'
    BY DEF CleanIsTheReason, CrashIsReported
<1> QED
    BY <1>1, <1>2

(***************************************************************************)
(* What the backend does to itself leaves how it ended to the script.      *)
(***************************************************************************)
LEMMA BackendKeeps ==
    ASSUME ContainerInv, BootBackend \/ BeginPass \/ EndPass \/ Closing
    PROVE  ContainerInv'
<1> USE DEF ContainerInv, Processes, BootBackend, BeginPass, EndPass, Closing, BeginShutdown,
            WorkerEnds, CloseResources
<1>1. ProcessesInHand'
    BY DEF ProcessesInHand
<1>2. CleanIsTheReason'
    BY DEF CleanIsTheReason, CrashIsReported
<1> QED
    BY <1>1, <1>2

(***************************************************************************)
(* A process that ended well is not there to end again.                    *)
(***************************************************************************)
LEMMA EndsKeeps ==
    ASSUME ContainerInv, NEW p \in Processes, NEW how \in {"clean", "crash", "told"}, Ends(p, how)
    PROVE  ContainerInv'
<1> USE DEF ContainerInv, Ends, Alive
<1>1. ProcessesInHand'
    BY DEF ProcessesInHand, Processes
<1>2. \A q \in Processes : ended[q] = "clean" => ended'[q] = "clean"
    BY DEF ProcessesInHand
<1>3. CleanIsTheReason'
    BY <1>2 DEF CleanIsTheReason, CrashIsReported
<1> QED
    BY <1>1, <1>3

(***************************************************************************)
(* The script answers a dead child with its code, or ends both.            *)
(***************************************************************************)
LEMMA SuperviseKeeps ==
    ASSUME ContainerInv, Supervise
    PROVE  ContainerInv'
<1>1. PICK p \in Processes :
        /\ proc[p] = "gone"
        /\ \/ ended[p] = "crash" /\ Exit(1) /\ UNCHANGED sent
           \/ /\ ended[p] # "crash"
              /\ script' = "stopping" /\ code' = 0 /\ sent' = Processes
              /\ UNCHANGED <<proc, worker, open>>
    BY DEF Supervise
<1>2. CASE Exit(1) /\ UNCHANGED sent
    BY <1>2, ExitKeeps DEF Supervise
<1>3. CASE /\ ended[p] # "crash"
           /\ script' = "stopping" /\ code' = 0 /\ sent' = Processes
           /\ UNCHANGED <<proc, worker, open>>
    <2>1. script = "supervising" /\ UNCHANGED <<attempt, ended, asked, restarts>>
        BY DEF Supervise
    <2>2. ended[p] = "clean"
        BY <1>1, <1>3, <2>1 DEF ContainerInv, ProcessesInHand
    <2>3. ProcessesInHand'
        BY <1>3, <2>1 DEF ContainerInv, ProcessesInHand, Processes
    <2>4. CleanIsTheReason'
        BY <1>3, <2>1, <2>2 DEF CleanIsTheReason, CrashIsReported
    <2> QED
        BY <2>3, <2>4 DEF ContainerInv
<1> QED
    BY <1>1, <1>2, <1>3

(***************************************************************************)
(* Every other step of the script, of the platform, and a restart.         *)
(***************************************************************************)
LEMMA ScriptKeeps ==
    ASSUME ContainerInv, Script \/ Shutdown \/ Restart
    PROVE  ContainerInv'
<1>1. CASE ProbeReady
    BY <1>1 DEF ProbeReady, ContainerInv, ProcessesInHand, CleanIsTheReason, CrashIsReported, Processes
<1>2. CASE ProbeGone
    BY <1>2, ExitKeeps DEF ProbeGone
<1>3. CASE ProbeTimesOut
    BY <1>3, ExitKeeps DEF ProbeTimesOut
<1>4. CASE ProbeAgain
    BY <1>4 DEF ProbeAgain, ContainerInv, ProcessesInHand, CleanIsTheReason, CrashIsReported
<1>5. CASE Supervise
    BY <1>5, SuperviseKeeps
<1>6. CASE Finish
    BY <1>6, ExitKeeps DEF Finish, ContainerInv, CleanIsTheReason
<1>7. CASE Shutdown
    BY <1>7 DEF Shutdown, ContainerInv, ProcessesInHand, CleanIsTheReason, CrashIsReported, Processes
<1>8. CASE Restart
    BY <1>8 DEF Restart, Started, NoCode, ContainerInv, ProcessesInHand, CleanIsTheReason,
                CrashIsReported, Processes
<1> QED
    BY <1>1, <1>2, <1>3, <1>4, <1>5, <1>6, <1>7, <1>8 DEF Script

(***************************************************************************)
(* ContainerInv is inductive.                                              *)
(***************************************************************************)
LEMMA ContainerGoesOn == ContainerInv /\ [ContainerNext]_containerVars => ContainerInv'
<1> SUFFICES ASSUME ContainerInv, [ContainerNext]_containerVars PROVE ContainerInv'
    OBVIOUS
<1>1. CASE ContainerNext
    BY <1>1, BackendKeeps, EndsKeeps, ScriptKeeps DEF ContainerNext
<1>2. CASE UNCHANGED containerVars
    BY <1>2 DEF containerVars, ContainerInv, ProcessesInHand, CleanIsTheReason, CrashIsReported
<1> QED
    BY <1>1, <1>2

(***************************************************************************)
(* Unless the platform asked for it, only a process that ended well lets   *)
(* the container say that all is well.                                     *)
(***************************************************************************)
THEOREM CrashesAreReported == ContainerSpec => []CrashIsReported
<1>1. ContainerInv => CrashIsReported
    BY DEF ContainerInv, CleanIsTheReason
<1> QED
    BY <1>1, ContainerBegins, ContainerGoesOn, PTL DEF ContainerSpec

-----------------------------------------------------------------------------
(***************************************************************************)
(* No order of signals, crashes and passes closes the client or the pool   *)
(* under the worker.                                                       *)
(***************************************************************************)
THEOREM WorkerIsOutlived == ContainerSpec => []ClosedWhenQuiet
<1>1. ContainerInit => ClosedWhenQuiet
    BY DEF ContainerInit, ClosedWhenQuiet
<1>2. ClosedWhenQuiet /\ [ContainerNext]_containerVars => ClosedWhenQuiet'
    <2> SUFFICES ASSUME ClosedWhenQuiet, [ContainerNext]_containerVars
                 PROVE  ClosedWhenQuiet'
        OBVIOUS
    <2> USE DEF ClosedWhenQuiet
    <2>1. CASE BootBackend \/ BeginPass \/ EndPass
        BY <2>1 DEF BootBackend, BeginPass, EndPass
    <2>2. CASE Closing
        BY <2>2 DEF Closing, BeginShutdown, WorkerEnds, CloseResources
    <2>3. ASSUME NEW p \in Processes, NEW how, Ends(p, how) PROVE ClosedWhenQuiet'
        BY <2>3 DEF Ends
    <2>4. CASE Script
        BY <2>4 DEF Script, ProbeReady, ProbeGone, ProbeTimesOut, ProbeAgain, Supervise,
                    Finish, Exit
    <2>5. CASE Shutdown \/ Restart
        BY <2>5 DEF Shutdown, Restart
    <2>6. CASE UNCHANGED containerVars
        BY <2>6 DEF containerVars
    <2> QED
        BY <2>1, <2>2, <2>3, <2>4, <2>5, <2>6 DEF ContainerNext
<1> QED
    BY <1>1, <1>2, PTL DEF ContainerSpec
-----------------------------------------------------------------------------
(***************************************************************************)
(* THE SALES BRIEF, for any number of requests for a brief of one lead,    *)
(* whatever of a call, its entry and its record is lost.                   *)
(***************************************************************************)
Stages == {"idle", "calling", "storing", "unusable", "unavailable", "recording", "answered"}

(***************************************************************************)
(* What a request that was not answered has left behind where it is.       *)
(***************************************************************************)
CallsInHand ==
    /\ stage \in [Calls -> Stages]
    /\ briefReply \in [Calls -> {0, 201, 404, 500, 502, 503}]
    /\ runs \subseteq Calls \X {"succeeded", "failed"}
    /\ \A c \in Calls :
          stage[c] # "answered" =>
              /\ briefReply[c] = 0
              /\ <<c, "succeeded">> \notin runs /\ <<c, "failed">> \notin runs
              /\ c \in briefs => stage[c] = "recording"
              /\ stage[c] = "storing" => c \in billed
              /\ stage[c] = "recording" => c \in briefs \cap billed

BriefInv == CallsInHand /\ RunsTellTheTruth
-----------------------------------------------------------------------------
(***************************************************************************)
(* Nobody has asked yet.                                                   *)
(***************************************************************************)
LEMMA BriefBegins == BriefInit => BriefInv
BY DEF BriefInit, BriefInv, CallsInHand, RunsTellTheTruth, Stages

(***************************************************************************)
(* A step of a call that records nothing: the others are as they were.     *)
(***************************************************************************)
LEMMA UnrecordedKeeps ==
    ASSUME BriefInv, NEW c \in Calls, UNCHANGED runs,
           \/ AskBrief(c) \/ Store(c) \/ LoseBrief(c)
           \/ \E outcome \in CallOutcomes : Generate(c, outcome)
    PROVE  BriefInv'
<1> USE DEF BriefInv, BriefAnswer, Reaches
<1>1. CASE AskBrief(c)
    BY <1>1 DEF AskBrief, CallsInHand, RunsTellTheTruth, Stages
<1>2. CASE Store(c)
    BY <1>2 DEF Store, CallsInHand, RunsTellTheTruth, Stages
<1>3. CASE LoseBrief(c)
    BY <1>3 DEF LoseBrief, CallsInHand, RunsTellTheTruth, Stages
<1>4. ASSUME NEW outcome \in CallOutcomes, Generate(c, outcome) PROVE BriefInv'
    BY <1>4 DEF Generate, CallOutcomes, CallsInHand, RunsTellTheTruth, Stages
<1> QED
    BY <1>1, <1>2, <1>3, <1>4

(***************************************************************************)
(* The brief of a call that is not answered is stored while it is recorded.*)
(***************************************************************************)
LEMMA CallInHand ==
    ASSUME CallsInHand, NEW d \in Calls, stage[d] # "answered"
    PROVE  /\ d \in briefs <=> stage[d] = "recording"
           /\ stage[d] = "recording" => d \in briefs \cap billed
BY DEF CallsInHand

(***************************************************************************)
(* A record, written or lost, is the first of its call.                    *)
(***************************************************************************)
LEMMA RecordedKeeps ==
    ASSUME BriefInv, NEW c \in Calls, NEW status \in {"succeeded", "failed"},
           NEW reply \in {201, 502, 503},
           Record(c, status), BriefAnswer(c, reply), UNCHANGED <<briefs, billed>>,
           stage[c] # "answered",
           status = "succeeded" \/ reply = 201 => stage[c] = "recording",
           status = "failed" => stage[c] # "recording"
    PROVE  BriefInv'
<1>0. /\ CallsInHand /\ RunsTellTheTruth
      /\ briefs' = briefs /\ billed' = billed
      /\ stage[c] # "answered"
    BY DEF BriefInv
<1>a. c \in briefs <=> stage[c] = "recording"
    BY <1>0, CallInHand
<1>b. /\ status = "failed" => c \notin briefs
      /\ status = "succeeded" \/ reply = 201 => c \in briefs \cap billed
    BY <1>0, <1>a, CallInHand
<1>1. /\ \A q \in Calls \ {c} : stage'[q] = stage[q] /\ briefReply'[q] = briefReply[q]
      /\ stage'[c] = "answered" /\ briefReply'[c] = reply
    BY <1>0 DEF CallsInHand, BriefAnswer, Reaches
<1>2. /\ <<c, "succeeded">> \notin runs /\ <<c, "failed">> \notin runs
      /\ runs' \subseteq runs \cup {<<c, status>>}
      /\ runs \subseteq runs'
    BY <1>0 DEF CallsInHand, Record
<1>3. \A q \in Calls, s \in {"succeeded", "failed"} :
          <<q, s>> \in runs' => <<q, s>> \in runs \/ (q = c /\ s = status)
    BY <1>2
<1>4. CallsInHand'
    BY <1>0, <1>b, <1>1, <1>2, <1>3 DEF CallsInHand, Stages, BriefAnswer, Reaches
<1>5. ASSUME NEW q \in Calls
      PROVE  /\ <<q, "succeeded">> \in runs' \/ briefReply'[q] = 201 => q \in briefs \cap billed
             /\ <<q, "failed">> \in runs' => q \notin briefs /\ <<q, "succeeded">> \notin runs'
    <2>1. CASE q = c
        <3>1. <<c, "succeeded">> \in runs' => status = "succeeded"
            BY <1>2, <1>3
        <3>2. <<c, "failed">> \in runs' => status = "failed"
            BY <1>2, <1>3
        <3> QED
            BY <1>0, <1>b, <1>1, <2>1, <3>1, <3>2
    <2>2. CASE q # c
        <3>1. /\ <<q, "succeeded">> \in runs' <=> <<q, "succeeded">> \in runs
              /\ <<q, "failed">> \in runs' <=> <<q, "failed">> \in runs
            BY <1>2, <1>3, <2>2
        <3>2. briefReply'[q] = briefReply[q]
            BY <1>1, <2>2
        <3> QED
            BY <1>0, <3>1, <3>2 DEF RunsTellTheTruth
    <2> QED
        BY <2>1, <2>2
<1>6. RunsTellTheTruth'
    <2> SUFFICES ASSUME NEW q \in Calls
                 PROVE  /\ <<q, "succeeded">> \in runs' \/ briefReply'[q] = 201
                              => q \in briefs' \cap billed'
                        /\ <<q, "failed">> \in runs'
                              => q \notin briefs' /\ <<q, "succeeded">> \notin runs'
        BY DEF RunsTellTheTruth
    <2> QED
        BY <1>0, <1>5
<1> QED
    BY <1>4, <1>6 DEF BriefInv

(***************************************************************************)
(* BriefInv is inductive.                                                  *)
(***************************************************************************)
LEMMA BriefGoesOn == BriefInv /\ [BriefNext]_briefVars => BriefInv'
<1> SUFFICES ASSUME BriefInv, [BriefNext]_briefVars PROVE BriefInv'
    OBVIOUS
<1>1. ASSUME NEW c \in Calls,
             \/ AskBrief(c) \/ Store(c) \/ LoseBrief(c)
             \/ \E outcome \in CallOutcomes : Generate(c, outcome)
      PROVE  BriefInv'
    <2>1. UNCHANGED runs
        BY <1>1 DEF AskBrief, Store, LoseBrief, Generate
    <2> QED
        BY <1>1, <2>1, UnrecordedKeeps
<1>2. ASSUME NEW c \in Calls, RecordFailedRun(c) PROVE BriefInv'
    BY <1>2, RecordedKeeps DEF RecordFailedRun
<1>3. ASSUME NEW c \in Calls, RecordRun(c) PROVE BriefInv'
    BY <1>3, RecordedKeeps DEF RecordRun
<1>4. CASE UNCHANGED briefVars
    BY <1>4 DEF briefVars, BriefInv, CallsInHand, RunsTellTheTruth
<1> QED
    BY <1>1, <1>2, <1>3, <1>4 DEF BriefNext

(***************************************************************************)
(* ai_runs, the timeline and the answers never contradict each other.      *)
(***************************************************************************)
THEOREM RecordsAgree == BriefSpec => []RunsTellTheTruth
<1>1. BriefInv => RunsTellTheTruth
    BY DEF BriefInv
<1> QED
    BY <1>1, BriefBegins, BriefGoesOn, PTL DEF BriefSpec
-----------------------------------------------------------------------------
(***************************************************************************)
(* THE RATE LIMITER, for any clients, limit, window and size of the table. *)
(***************************************************************************)

(***************************************************************************)
(* A request of a client that was let through less than a window ago is    *)
(* known by its age and its place in its bucket.                           *)
(***************************************************************************)
Ages   == 0..Window - 1
Places == 1..Quota

(***************************************************************************)
(* The requests of the bucket that is open, and of the ones before it.     *)
(***************************************************************************)
InWindow(age, requests) == {r \in requests : r[1] <= age}
Before(age, requests)   == {r \in requests : r[1] > age}

(***************************************************************************)
(* What a bucket of that age and count says of the requests: of its own    *)
(* there are no more than it counts, of older ones fewer than a quota, for *)
(* the request that opened it had the place after them and all of theirs   *)
(* are older than it; a bucket that has expired leaves only what it        *)
(* counted, less the one that opened it.                                   *)
(***************************************************************************)
Fits(age, count, requests) ==
    /\ \A r \in InWindow(age, requests) : r[2] <= count
    /\ \A r \in requests : r[2] = 1 => r[1] >= age
    /\ age < Window =>
          /\ <<age, 1>> \in requests
          /\ Cardinality(InWindow(age, requests)) <= count
          /\ Cardinality(Before(age, requests)) < Quota
    /\ age = Window =>
          /\ Cardinality(requests) < Quota
          /\ \A r \in requests : r[1] > 0

Buckets == [age : 0..Window, count : Places]

(***************************************************************************)
(* Every client in the table has a bucket that fits its requests, and is   *)
(* due no sooner than the bucket expires; the others have none.            *)
(***************************************************************************)
TableInHand(table, past, wait) ==
    /\ DOMAIN table \subseteq Clients /\ table \in [DOMAIN table -> Buckets]
    /\ past \in [Clients -> SUBSET (Ages \X Places)]
    /\ wait \in [Clients -> Nat \cup {NotDue}]
    /\ \A c \in Clients :
          IF c \in DOMAIN table
          THEN /\ Fits(table[c].age, table[c].count, past[c])
               /\ wait[c] # NotDue => table[c].age + wait[c] >= Window
          ELSE past[c] = {}

LimiterInv == TableInHand(buckets, let, due)
-----------------------------------------------------------------------------
(***************************************************************************)
(* A window is at least one tick, and a bucket lets one through.           *)
(***************************************************************************)
LEMMA LimiterConstants ==
    /\ Window \in Nat /\ Window >= 1
    /\ Quota \in Nat /\ Quota >= 1
    /\ TicksPerSecond \in Nat /\ TicksPerSecond >= 1
BY RateLimiterAssumption DEF Window, Quota

(***************************************************************************)
(* No more requests than ages and places.                                  *)
(***************************************************************************)
LEMMA RequestsAreFinite ==
    ASSUME NEW requests \in SUBSET (Ages \X Places)
    PROVE  IsFiniteSet(requests) /\ Cardinality(requests) \in Nat
<1>1. IsFiniteSet(Ages) /\ IsFiniteSet(Places)
    BY LimiterConstants, FS_Interval DEF Ages, Places
<1>2. IsFiniteSet(requests)
    BY <1>1, FS_Product, FS_Subset
<1> QED
    BY <1>2, FS_CardinalityType

(***************************************************************************)
(* The size of two sets with nothing in common.                            *)
(***************************************************************************)
LEMMA DisjointUnion ==
    ASSUME NEW A, NEW B, IsFiniteSet(A), IsFiniteSet(B), A \cap B = {}
    PROVE  /\ IsFiniteSet(A \cup B)
           /\ Cardinality(A \cup B) = Cardinality(A) + Cardinality(B)
<1>1. Cardinality(A \cap B) = 0
    BY FS_EmptySet
<1>2. Cardinality(A) \in Nat /\ Cardinality(B) \in Nat
    BY FS_CardinalityType
<1>3. /\ IsFiniteSet(A \cup B)
      /\ Cardinality(A \cup B) = Cardinality(A) + Cardinality(B) - Cardinality(A \cap B)
    BY FS_Union
<1> QED
    BY <1>1, <1>2, <1>3

(***************************************************************************)
(* Requests do not multiply by getting older.                              *)
(***************************************************************************)
LEMMA AgedIsNoMore ==
    ASSUME NEW requests \in SUBSET (Ages \X Places)
    PROVE  Cardinality({<<r[1] + 1, r[2]>> : r \in requests}) <= Cardinality(requests)
<1> DEFINE older == {<<r[1] + 1, r[2]>> : r \in requests}
           f == [r \in requests |-> <<r[1] + 1, r[2]>>]
<1>1. f \in Surjection(requests, older)
    BY DEF Surjection
<1> HIDE DEF f, older
<1>2. Cardinality(older) <= Cardinality(requests)
    BY <1>1, RequestsAreFinite, FS_Surjection
<1> QED
    BY <1>2 DEF older

(***************************************************************************)
(* A tick makes bucket and requests older, and the oldest request of a     *)
(* bucket that reaches the window leaves it.                               *)
(***************************************************************************)
LEMMA TickFits ==
    ASSUME NEW age \in 0..Window, NEW count \in Places,
           NEW requests \in SUBSET (Ages \X Places), Fits(age, count, requests)
    PROVE  Fits(IF age < Window THEN age + 1 ELSE age, count, Aged(requests))
<1>0. /\ Window \in Nat /\ Window >= 1 /\ Quota \in Nat /\ Quota >= 1
      /\ age \in Nat /\ count \in Nat /\ count <= Quota
    BY LimiterConstants DEF Places
<1> DEFINE next == IF age < Window THEN age + 1 ELSE age
           kept == {q \in requests : q[1] + 1 < Window}
           Older(S) == {<<r[1] + 1, r[2]>> : r \in S}
<1>1. \A r \in requests : r[1] \in Int /\ r[2] \in Int /\ 0 <= r[1] /\ r[1] < Window
    BY <1>0 DEF Ages, Places
<1>2. Aged(requests) = Older(kept)
    BY DEF Aged
<1>3. \A r \in Aged(requests) :
          \E q \in requests : r = <<q[1] + 1, q[2]>> /\ q[1] + 1 < Window
    BY DEF Aged
<1>4. /\ \A r \in InWindow(next, Aged(requests)) : r[2] <= count
      /\ \A r \in Aged(requests) : r[2] = 1 => r[1] >= next
      /\ \A r \in Aged(requests) : r[1] > 0
    BY <1>0, <1>1, <1>3 DEF Fits, InWindow
<1>5. ASSUME NEW S \in SUBSET requests, NEW T, T \subseteq Older(S)
      PROVE  Cardinality(T) <= Cardinality(S) /\ Cardinality(T) \in Nat
    <2>1. Older(S) \in SUBSET ((1..Window) \X Places)
        BY <1>0, <1>1 DEF Ages, Places
    <2>2. IsFiniteSet(1..Window) /\ IsFiniteSet(Places)
        BY <1>0, FS_Interval DEF Places
    <2>3. IsFiniteSet(Older(S)) /\ Cardinality(Older(S)) \in Nat
        <3>1. IsFiniteSet((1..Window) \X Places)
            BY <2>2, FS_Product
        <3> QED
            BY <2>1, <3>1, FS_Subset, FS_CardinalityType
    <2>4. Cardinality(Older(S)) <= Cardinality(S)
        BY AgedIsNoMore
    <2>5. IsFiniteSet(T) /\ Cardinality(T) <= Cardinality(Older(S))
        BY <1>5, <2>3, FS_Subset
    <2>6. Cardinality(T) \in Nat /\ Cardinality(S) \in Nat
        BY <2>5, FS_CardinalityType, RequestsAreFinite
    <2> QED
        BY <2>3, <2>4, <2>5, <2>6
<1>6. ASSUME age + 1 < Window
      PROVE  /\ <<next, 1>> \in Aged(requests)
             /\ Cardinality(InWindow(next, Aged(requests))) <= count
             /\ Cardinality(Before(next, Aged(requests))) < Quota
    <2>0. age < Window /\ next = age + 1
        BY <1>0, <1>6
    <2>1. <<next, 1>> \in Aged(requests)
        <3>1. <<age, 1>> \in kept
            BY <1>6, <2>0 DEF Fits
        <3>2. <<<<age, 1>>[1] + 1, <<age, 1>>[2]>> \in Older(kept)
            BY <3>1
        <3> QED
            BY <1>2, <2>0, <3>2
    <2>2. InWindow(next, Aged(requests)) \subseteq Older(InWindow(age, requests))
        BY <1>0, <1>1, <1>3, <2>0 DEF InWindow
    <2>3. Before(next, Aged(requests)) \subseteq Older(Before(age, requests))
        BY <1>0, <1>1, <1>3, <2>0 DEF Before
    <2>4. /\ Cardinality(InWindow(next, Aged(requests))) <= Cardinality(InWindow(age, requests))
          /\ Cardinality(Before(next, Aged(requests))) <= Cardinality(Before(age, requests))
          /\ Cardinality(InWindow(next, Aged(requests))) \in Nat
          /\ Cardinality(Before(next, Aged(requests))) \in Nat
        BY <1>5, <2>2, <2>3 DEF InWindow, Before
    <2>5. InWindow(age, requests) \in SUBSET (Ages \X Places)
        BY DEF InWindow
    <2>6. Before(age, requests) \in SUBSET (Ages \X Places)
        BY DEF Before
    <2>7. /\ Cardinality(InWindow(age, requests)) \in Nat
          /\ Cardinality(Before(age, requests)) \in Nat
        BY <2>5, <2>6, RequestsAreFinite
    <2>8. /\ Cardinality(InWindow(age, requests)) <= count
          /\ Cardinality(Before(age, requests)) < Quota
        BY <2>0 DEF Fits
    <2> QED
        BY <1>0, <2>1, <2>4, <2>7, <2>8
<1>7. ASSUME age + 1 >= Window PROVE Cardinality(Aged(requests)) < Quota
    <2>0. Aged(requests) \subseteq Older(requests)
        BY <1>2
    <2>1. CASE age = Window
        <3>1. Cardinality(Aged(requests)) <= Cardinality(requests)
            BY <1>5, <2>0
        <3>2. Cardinality(requests) < Quota
            BY <1>0, <2>1 DEF Fits
        <3> QED
            BY <1>0, <1>5, <2>0, <3>1, <3>2, RequestsAreFinite
    <2>2. CASE age < Window
        <3>1. age = Window - 1
            BY <1>0, <1>7, <2>2
        <3>2. requests = InWindow(age, requests)
            BY <1>0, <1>1, <3>1 DEF InWindow
        <3>3. <<age, 1>> \in requests /\ Cardinality(requests) <= count
            BY <2>2, <3>2 DEF Fits
        <3>4. kept \subseteq requests \ {<<age, 1>>}
            BY <1>0, <1>1, <3>1
        <3>5. Cardinality(requests \ {<<age, 1>>}) = Cardinality(requests) - 1
            BY <3>3, RequestsAreFinite, FS_RemoveElement
        <3>6. Cardinality(Aged(requests)) <= Cardinality(requests \ {<<age, 1>>})
            BY <1>2, <1>5, <3>4
        <3>7. Cardinality(requests) \in Nat /\ Cardinality(Aged(requests)) \in Nat
            BY <1>5, <2>0, RequestsAreFinite
        <3> QED
            BY <1>0, <3>3, <3>5, <3>6, <3>7
    <2> QED
        BY <1>0, <2>1, <2>2
<1> QED
    BY <1>0, <1>4, <1>6, <1>7 DEF Fits

(***************************************************************************)
(* A bucket opens with the requests of the one that expired before it.     *)
(***************************************************************************)
LEMMA OpenFits ==
    ASSUME NEW requests \in SUBSET (Ages \X Places),
           requests = {} \/ \E count \in Places : Fits(Window, count, requests)
    PROVE  /\ Fits(0, 1, requests \cup {<<0, 1>>})
           /\ <<0, 1>> \notin requests
<1>0. Window \in Nat /\ Window >= 1 /\ Quota \in Nat /\ Quota >= 1
    BY LimiterConstants
<1>1. \A r \in requests : r[1] > 0
    BY DEF Fits
<1>2. Cardinality(requests) < Quota
    BY <1>0, FS_EmptySet DEF Fits
<1> DEFINE more == requests \cup {<<0, 1>>}
<1>3. \A r \in requests : r[1] \in Int
    BY <1>0 DEF Ages
<1>4. InWindow(0, more) = {<<0, 1>>}
    BY <1>1, <1>3 DEF InWindow
<1>5. Before(0, more) = requests
    BY <1>1, <1>3 DEF Before
<1>6. Cardinality({<<0, 1>>}) = 1
    BY FS_Singleton
<1>7. \A r \in more : r[1] >= 0
    BY <1>1, <1>3
<1>8. <<0, 1>> \in more /\ \A r \in InWindow(0, more) : r[2] <= 1
    BY <1>4
<1> HIDE DEF more
<1>9. Fits(0, 1, more)
    BY <1>0, <1>2, <1>4, <1>5, <1>6, <1>7, <1>8 DEF Fits
<1> QED
    BY <1>1, <1>9 DEF more

(***************************************************************************)
(* A bucket below its quota counts one more.                               *)
(***************************************************************************)
LEMMA CountFits ==
    ASSUME NEW age \in 0..Window - 1, NEW count \in Nat, 1 <= count, count < Quota,
           NEW requests \in SUBSET (Ages \X Places), Fits(age, count, requests)
    PROVE  /\ Fits(age, count + 1, requests \cup {<<0, count + 1>>})
           /\ <<0, count + 1>> \notin requests
<1>0. /\ Window \in Nat /\ Window >= 1 /\ Quota \in Nat /\ age \in Nat /\ age < Window
    BY LimiterConstants
<1> DEFINE more == requests \cup {<<0, count + 1>>}
<1>1. \A r \in requests : r[1] \in Int /\ r[2] \in Int
    BY <1>0 DEF Ages, Places
<1>2. /\ \A r \in InWindow(age, requests) : r[2] <= count
      /\ \A r \in requests : r[2] = 1 => r[1] >= age
      /\ <<age, 1>> \in requests
      /\ Cardinality(InWindow(age, requests)) <= count
      /\ Cardinality(Before(age, requests)) < Quota
    BY <1>0 DEF Fits
<1>3. <<0, count + 1>> \notin requests
    BY <1>0, <1>2 DEF InWindow
<1>4. InWindow(age, more) = InWindow(age, requests) \cup {<<0, count + 1>>}
    BY <1>0 DEF InWindow
<1>5. Before(age, more) = Before(age, requests)
    BY <1>0 DEF Before
<1>6. InWindow(age, requests) \in SUBSET (Ages \X Places)
    BY DEF InWindow
<1>7. Cardinality(InWindow(age, more)) <= count + 1
    <2>1. Cardinality(InWindow(age, more))
              \in {Cardinality(InWindow(age, requests)), Cardinality(InWindow(age, requests)) + 1}
        BY <1>4, <1>6, RequestsAreFinite, FS_AddElement
    <2> QED
        BY <1>2, <1>6, <2>1, RequestsAreFinite
<1>8. /\ \A r \in InWindow(age, more) : r[2] <= count + 1
      /\ \A r \in more : r[2] = 1 => r[1] >= age
    BY <1>1, <1>2, <1>4 DEF InWindow
<1>9. <<age, 1>> \in more
    BY <1>2
<1> HIDE DEF more
<1>10. Fits(age, count + 1, more)
    BY <1>0, <1>2, <1>5, <1>7, <1>8, <1>9 DEF Fits
<1> QED
    BY <1>3, <1>10 DEF more

(***************************************************************************)
(* A second more than the seconds told, truncated as they are, reaches the *)
(* end of the window.                                                      *)
(***************************************************************************)
LEMMA WaitCoversTheRest ==
    ASSUME NEW age \in 0..Window - 1
    PROVE  /\ (RetrySeconds(age) + 1) * TicksPerSecond \in Nat
           /\ age + (RetrySeconds(age) + 1) * TicksPerSecond >= Window
<1>0. /\ Window \in Nat /\ age \in Nat /\ age < Window
      /\ TicksPerSecond \in Nat /\ TicksPerSecond >= 1
    BY LimiterConstants
<1> DEFINE left == Window - age
           whole == left \div TicksPerSecond
<1>1. whole \in Nat /\ left < (whole + 1) * TicksPerSecond
    BY <1>0
<1>2. RetrySeconds(age) \in Nat /\ RetrySeconds(age) >= whole
    BY <1>1 DEF RetrySeconds
<1>3. (RetrySeconds(age) + 1) * TicksPerSecond >= (whole + 1) * TicksPerSecond
    BY <1>0, <1>1, <1>2
<1> QED
    BY <1>0, <1>1, <1>2, <1>3

(***************************************************************************)
(* A table that was cleared fits a history that is forgotten with it.      *)
(***************************************************************************)
LEMMA EmptyTable == TableInHand(<<>>, [c \in Clients |-> {}], [c \in Clients |-> NotDue])
<1>1. DOMAIN <<>> = {}
    OBVIOUS
<1>2. <<>> \in [{} -> Buckets]
    BY <1>1
<1> QED
    BY <1>1, <1>2 DEF TableInHand

(***************************************************************************)
(* So does the table a request is looked up in, cleared or not.            *)
(***************************************************************************)
LEMMA TableIsInHand ==
    ASSUME LimiterInv
    PROVE  TableInHand(Table, Past, StillDue)
BY EmptyTable DEF LimiterInv, Table, Past, StillDue

(***************************************************************************)
(* A request that is let through, by a bucket that fits the history with   *)
(* it.                                                                     *)
(***************************************************************************)
LEMMA LetThroughKeeps ==
    ASSUME NEW c \in Clients, NEW bucket \in [age : Ages, count : Places],
           LimiterInv, LetThrough(c, bucket),
           Fits(bucket.age, bucket.count, Past[c] \cup {<<0, bucket.count>>}),
           due' \in [Clients -> Nat \cup {NotDue}],
           \A d \in Clients \ {c} : due'[d] = StillDue[d],
           due'[c] # NotDue => bucket.age + due'[c] >= Window
    PROVE  LimiterInv'
<1> DEFINE table == Table  past == Past  wait == StillDue
<1>0. /\ TableInHand(table, past, wait)
      /\ Window \in Nat /\ Window >= 1
    BY TableIsInHand, LimiterConstants
<1>1. /\ DOMAIN buckets' = DOMAIN table \cup {c}
      /\ buckets' = [d \in DOMAIN buckets' |-> buckets'[d]]
      /\ buckets'[c] = bucket
      /\ \A d \in DOMAIN table \ {c} : buckets'[d] = table[d]
    BY DEF LetThrough
<1>2. let' = [past EXCEPT ![c] = past[c] \cup {<<0, bucket.count>>}]
    BY DEF LetThrough
<1>3. /\ due' \in [Clients -> Nat \cup {NotDue}]
      /\ \A d \in Clients \ {c} : due'[d] = wait[d]
      /\ due'[c] # NotDue => bucket.age + due'[c] >= Window
    OBVIOUS
<1>4. Fits(bucket.age, bucket.count, past[c] \cup {<<0, bucket.count>>})
    OBVIOUS
<1> HIDE DEF table, past, wait
<1>5. bucket \in Buckets
    BY <1>0 DEF Buckets, Ages
<1>6. <<0, bucket.count>> \in Ages \X Places
    BY <1>0 DEF Ages
<1>7. DOMAIN buckets' \subseteq Clients /\ buckets' \in [DOMAIN buckets' -> Buckets]
    <2>1. \A d \in DOMAIN buckets' : buckets'[d] \in Buckets
        BY <1>0, <1>1, <1>5 DEF TableInHand
    <2> QED
        BY <1>0, <1>1, <2>1 DEF TableInHand
<1>8. /\ let' \in [Clients -> SUBSET (Ages \X Places)]
      /\ \A d \in Clients \ {c} : let'[d] = past[d]
      /\ let'[c] = past[c] \cup {<<0, bucket.count>>}
    BY <1>0, <1>2, <1>6 DEF TableInHand
<1>9. ASSUME NEW d \in Clients
       PROVE  IF d \in DOMAIN buckets'
              THEN /\ Fits(buckets'[d].age, buckets'[d].count, let'[d])
                   /\ due'[d] # NotDue => buckets'[d].age + due'[d] >= Window
              ELSE let'[d] = {}
    <2>1. CASE d = c
        BY <1>1, <1>3, <1>4, <1>8, <2>1
    <2>2. CASE d # c
        BY <1>0, <1>1, <1>3, <1>8, <2>2 DEF TableInHand
    <2> QED
        BY <2>1, <2>2
<1> QED
    BY <1>3, <1>7, <1>8, <1>9 DEF LimiterInv, TableInHand, Fits, InWindow, Before

(***************************************************************************)
(* Time passes for every client alike.                                     *)
(***************************************************************************)
LEMMA TickKeeps ==
    ASSUME LimiterInv, Tick
    PROVE  LimiterInv'
<1>0. /\ TableInHand(buckets, let, due)
      /\ Window \in Nat /\ Window >= 1
    BY LimiterConstants DEF LimiterInv
<1> DEFINE Next(age) == IF age < Window THEN age + 1 ELSE age
<1>1. /\ DOMAIN buckets' = DOMAIN buckets
      /\ \A c \in DOMAIN buckets :
            /\ buckets'[c].age = Next(buckets[c].age)
            /\ buckets'[c].count = buckets[c].count
            /\ buckets'[c] \in Buckets
    BY <1>0 DEF Tick, TableInHand, Buckets
<1>2. buckets' \in [DOMAIN buckets' -> Buckets]
    BY <1>1 DEF Tick
<1>3. let' = [c \in Clients |-> Aged(let[c])]
    BY DEF Tick
<1>4. let' \in [Clients -> SUBSET (Ages \X Places)]
    <2>1. ASSUME NEW S \in SUBSET (Ages \X Places) PROVE Aged(S) \in SUBSET (Ages \X Places)
        BY <1>0 DEF Aged, Ages
    <2> QED
        BY <1>0, <1>3, <2>1 DEF TableInHand
<1>5. /\ due' \in [Clients -> Nat \cup {NotDue}]
      /\ \A c \in Clients : due'[c] # NotDue => due[c] # NotDue /\ due'[c] >= due[c] - 1
      /\ \A c \in Clients : due[c] = 0 => due'[c] = 0
    BY <1>0 DEF Tick, TableInHand, NotDue
<1>6. ASSUME NEW c \in DOMAIN buckets
      PROVE  /\ Fits(buckets'[c].age, buckets'[c].count, let'[c])
             /\ due'[c] # NotDue => buckets'[c].age + due'[c] >= Window
    <2>1. /\ c \in Clients /\ buckets[c].age \in 0..Window /\ buckets[c].count \in Places
          /\ let[c] \in SUBSET (Ages \X Places)
          /\ Fits(buckets[c].age, buckets[c].count, let[c])
          /\ due[c] # NotDue => buckets[c].age + due[c] >= Window
          /\ due[c] \in Nat \cup {NotDue}
        BY <1>0 DEF TableInHand, Buckets
    <2>2. Fits(Next(buckets[c].age), buckets[c].count, Aged(let[c]))
        BY <2>1, TickFits
    <2>3. due'[c] # NotDue => Next(buckets[c].age) + due'[c] >= Window
        BY <1>0, <1>5, <2>1 DEF NotDue
    <2> QED
        BY <1>1, <1>3, <2>1, <2>2, <2>3
<1>7. \A c \in Clients \ DOMAIN buckets : let'[c] = {}
    BY <1>0, <1>3 DEF TableInHand, Aged
<1> QED
    BY <1>0, <1>1, <1>2, <1>4, <1>5, <1>6, <1>7 DEF LimiterInv, TableInHand, Fits, InWindow, Before

(***************************************************************************)
(* A first request, or the first after its bucket expired.                 *)
(***************************************************************************)
LEMMA OpenKeeps ==
    ASSUME LimiterInv, NEW c \in Clients, Open(c)
    PROVE  LimiterInv'
<1>0. /\ TableInHand(Table, Past, StillDue)
      /\ Window \in Nat /\ Window >= 1 /\ Quota \in Nat /\ Quota >= 1
    BY TableIsInHand, LimiterConstants
<1>1. Past[c] = {} \/ \E count \in Places : Fits(Window, count, Past[c])
    <2>1. CASE c \notin DOMAIN Table
        BY <1>0, <2>1 DEF TableInHand
    <2>2. CASE c \in DOMAIN Table
        <3>1. /\ Table[c].age \in 0..Window /\ Table[c].count \in Places
              /\ Fits(Table[c].age, Table[c].count, Past[c])
            BY <1>0, <2>2 DEF TableInHand, Buckets
        <3>2. Table[c].age = Window
            BY <1>0, <2>2, <3>1 DEF Open, Expired
        <3> QED
            BY <3>1, <3>2
    <2> QED
        BY <2>1, <2>2
<1>2. Past[c] \in SUBSET (Ages \X Places)
    BY <1>0 DEF TableInHand
<1>3. Fits(0, 1, Past[c] \cup {<<0, 1>>})
    BY <1>1, <1>2, OpenFits
<1> DEFINE bucket == [age |-> 0, count |-> 1]
<1>4. bucket \in [age : Ages, count : Places] /\ bucket.age = 0 /\ bucket.count = 1
    BY <1>0 DEF Ages, Places
<1>5. /\ LetThrough(c, bucket)
      /\ due' \in [Clients -> Nat \cup {NotDue}]
      /\ \A d \in Clients \ {c} : due'[d] = StillDue[d]
      /\ due'[c] = NotDue
    BY <1>0 DEF Open, TableInHand
<1>6. Fits(bucket.age, bucket.count, Past[c] \cup {<<0, bucket.count>>})
    BY <1>3, <1>4
<1> HIDE DEF bucket
<1> QED
    BY <1>4, <1>5, <1>6, LetThroughKeeps

(***************************************************************************)
(* A request that its bucket counts.                                       *)
(***************************************************************************)
LEMMA CountKeeps ==
    ASSUME LimiterInv, NEW c \in Clients, Count(c)
    PROVE  LimiterInv'
<1>0. /\ TableInHand(Table, Past, StillDue)
      /\ Window \in Nat /\ Window >= 1 /\ Quota \in Nat
      /\ Limit \in Nat
    BY TableIsInHand, LimiterConstants, RateLimiterAssumption
<1>1. /\ c \in DOMAIN Table
      /\ Table[c] \in Buckets
      /\ Fits(Table[c].age, Table[c].count, Past[c])
      /\ Past[c] \in SUBSET (Ages \X Places)
    BY <1>0 DEF Count, Expired, TableInHand
<1> DEFINE age == Table[c].age  count == Table[c].count
<1>2. /\ age \in 0..Window - 1 /\ count \in Nat /\ 1 <= count /\ count < Quota
    BY <1>0, <1>1 DEF Count, Expired, Buckets, Places, Quota
<1>3. Fits(age, count + 1, Past[c] \cup {<<0, count + 1>>})
    BY <1>1, <1>2, CountFits
<1> DEFINE bucket == [Table[c] EXCEPT !.count = @ + 1]
<1>4. bucket = [age |-> age, count |-> count + 1]
    BY <1>1 DEF Buckets
<1>5. bucket \in [age : Ages, count : Places] /\ bucket.age = age /\ bucket.count = count + 1
    BY <1>0, <1>2, <1>4 DEF Ages, Places
<1>6. /\ LetThrough(c, bucket)
      /\ due' \in [Clients -> Nat \cup {NotDue}]
      /\ \A d \in Clients \ {c} : due'[d] = StillDue[d]
      /\ due'[c] # NotDue => age + due'[c] >= Window
    BY <1>0, <1>1 DEF Count, TableInHand
<1> HIDE DEF bucket
<1> QED
    BY <1>1, <1>3, <1>5, <1>6, LetThroughKeeps

(***************************************************************************)
(* A request that is refused.                                              *)
(***************************************************************************)
LEMMA TurnDownKeeps ==
    ASSUME LimiterInv, NEW c \in Clients, TurnDown(c)
    PROVE  LimiterInv'
<1>0. /\ TableInHand(buckets, let, due)
      /\ Window \in Nat /\ Window >= 1
    BY LimiterConstants DEF LimiterInv
<1>1. c \in DOMAIN Table /\ ~Full
    BY DEF TurnDown, Expired, Table
<1>2. Table = buckets /\ StillDue = due
    BY <1>1 DEF Table, StillDue
<1>3. buckets[c].age \in 0..Window - 1
    BY <1>0, <1>1, <1>2 DEF TurnDown, Expired, TableInHand, Buckets
<1> DEFINE wait == (RetrySeconds(buckets[c].age) + 1) * TicksPerSecond
<1>4. wait \in Nat /\ buckets[c].age + wait >= Window
    BY <1>3, WaitCoversTheRest
<1>5. due' = [due EXCEPT ![c] = wait] /\ UNCHANGED <<buckets, let>>
    BY <1>2 DEF TurnDown
<1> HIDE DEF wait
<1>6. /\ due' \in [Clients -> Nat \cup {NotDue}]
      /\ due'[c] = wait
      /\ \A d \in Clients \ {c} : due'[d] = due[d]
    BY <1>0, <1>4, <1>5 DEF TableInHand
<1> QED
    BY <1>0, <1>4, <1>5, <1>6 DEF LimiterInv, TableInHand, Fits, InWindow, Before

(***************************************************************************)
(* The table is empty.                                                     *)
(***************************************************************************)
LEMMA LimiterBegins == LimiterInit => LimiterInv
BY EmptyTable DEF LimiterInit, LimiterInv

(***************************************************************************)
(* LimiterInv is inductive.                                                *)
(***************************************************************************)
LEMMA LimiterGoesOn == LimiterInv /\ [LimiterNext]_limiterVars => LimiterInv'
<1> SUFFICES ASSUME LimiterInv, [LimiterNext]_limiterVars PROVE LimiterInv'
    OBVIOUS
<1>1. CASE Tick
    BY <1>1, TickKeeps
<1>2. ASSUME NEW c \in Clients, Open(c) \/ Count(c) \/ TurnDown(c) PROVE LimiterInv'
    BY <1>2, OpenKeeps, CountKeeps, TurnDownKeeps
<1>3. CASE Forget
    BY <1>3, EmptyTable DEF Forget, LimiterInv, TableInHand, Fits, InWindow, Before
<1>4. CASE UNCHANGED limiterVars
    BY <1>4 DEF limiterVars, LimiterInv, TableInHand, Fits, InWindow, Before
<1> QED
    BY <1>1, <1>2, <1>3, <1>4 DEF LimiterNext

(***************************************************************************)
(* A bucket and those before it hold fewer than twice a quota.             *)
(***************************************************************************)
LEMMA LimiterHolds == LimiterInv => SlidingBound /\ WaitingSuffices
<1> SUFFICES ASSUME LimiterInv PROVE SlidingBound /\ WaitingSuffices
    OBVIOUS
<1>0. /\ TableInHand(buckets, let, due)
      /\ Window \in Nat /\ Window >= 1 /\ Quota \in Nat /\ Quota >= 1
    BY LimiterConstants DEF LimiterInv
<1>1. ASSUME NEW c \in Clients PROVE Cardinality(let[c]) < 2 * Quota
    <2>1. CASE c \notin DOMAIN buckets
        <3>1. let[c] = {}
            BY <1>0, <2>1 DEF TableInHand
        <3>2. Cardinality({}) = 0
            BY FS_EmptySet
        <3> QED
            BY <1>0, <3>1, <3>2
    <2>2. CASE c \in DOMAIN buckets
        <3> DEFINE age == buckets[c].age  count == buckets[c].count
        <3>1. /\ age \in 0..Window /\ count \in Nat /\ count <= Quota
              /\ let[c] \in SUBSET (Ages \X Places)
              /\ Fits(age, count, let[c])
            BY <1>0, <2>2 DEF TableInHand, Buckets, Places
        <3>2. CASE age = Window
            <4>1. Cardinality(let[c]) < Quota
                BY <3>1, <3>2 DEF Fits
            <4> QED
                BY <1>0, <3>1, <4>1, RequestsAreFinite
        <3>3. CASE age < Window
            <4>1. /\ InWindow(age, let[c]) \in SUBSET (Ages \X Places)
                  /\ Before(age, let[c]) \in SUBSET (Ages \X Places)
                BY <3>1 DEF InWindow, Before
            <4>2. let[c] = InWindow(age, let[c]) \cup Before(age, let[c])
                BY <1>0, <3>1 DEF InWindow, Before, Ages
            <4>3. InWindow(age, let[c]) \cap Before(age, let[c]) = {}
                BY <1>0, <3>1 DEF InWindow, Before, Ages
            <4>4. Cardinality(let[c])
                    = Cardinality(InWindow(age, let[c])) + Cardinality(Before(age, let[c]))
                BY <4>1, <4>2, <4>3, RequestsAreFinite, DisjointUnion
            <4>5. /\ Cardinality(InWindow(age, let[c])) <= count
                  /\ Cardinality(Before(age, let[c])) < Quota
                BY <3>1, <3>3 DEF Fits
            <4> QED
                BY <1>0, <3>1, <4>1, <4>4, <4>5, RequestsAreFinite
        <3> QED
            BY <1>0, <3>1, <3>2, <3>3
    <2> QED
        BY <2>1, <2>2
<1>2. ASSUME NEW c \in Clients, due[c] = 0 PROVE Expired(c)
    BY <1>0, <1>2 DEF TableInHand, Buckets, Expired, Table, NotDue
<1> QED
    BY <1>1, <1>2 DEF SlidingBound, WaitingSuffices
(***************************************************************************)
(* However its requests are spread, and whoever else is counted, a client  *)
(* is let through less than twice its limit in a window's length.          *)
(***************************************************************************)
THEOREM SlidingWindowHolds == LimiterSpec => []SlidingBound
BY LimiterBegins, LimiterGoesOn, LimiterHolds, PTL DEF LimiterSpec

(***************************************************************************)
(* A client that waits as long as it was told is not refused again for the *)
(* window it was refused in.                                               *)
(***************************************************************************)
THEOREM ToldWaitsSuffice == LimiterSpec => []WaitingSuffices
BY LimiterBegins, LimiterGoesOn, LimiterHolds, PTL DEF LimiterSpec

(***************************************************************************)
(* Every place that a bucket counts was given to a request of its window.  *)
(***************************************************************************)
CountsRequests(table, past) ==
    \A c \in DOMAIN table : table[c].age < Window =>
        \A k \in 1..table[c].count : \E a \in 0..table[c].age : <<a, k>> \in past[c]

Accounted == CountsRequests(buckets, let)

LEMMA TableIsAccounted ==
    ASSUME Accounted
    PROVE  CountsRequests(Table, Past)
BY DEF Accounted, CountsRequests, Table, Past

(***************************************************************************)
(* One request more, in a window that is open or new.                      *)
(***************************************************************************)
LEMMA LetThroughAccounts ==
    ASSUME LimiterInv, Accounted, NEW c \in Clients, NEW bucket \in [age : Ages, count : Places],
           LetThrough(c, bucket),
           \A k \in 1..bucket.count - 1 : \E a \in 0..bucket.age : <<a, k>> \in Past[c]
    PROVE  Accounted'
<1>0. TableInHand(Table, Past, StillDue) /\ CountsRequests(Table, Past)
    BY TableIsInHand, TableIsAccounted
<1>1. bucket.age \in Nat /\ bucket.count \in Nat
    BY LimiterConstants DEF Ages, Places
<1>2. /\ DOMAIN buckets' = DOMAIN Table \cup {c}
      /\ buckets'[c] = bucket
      /\ \A d \in DOMAIN Table \ {c} : buckets'[d] = Table[d]
    BY DEF LetThrough
<1>3. /\ let'[c] = Past[c] \cup {<<0, bucket.count>>}
      /\ \A d \in Clients \ {c} : let'[d] = Past[d]
    BY <1>0 DEF LetThrough, TableInHand
<1>4. ASSUME NEW k \in 1..bucket.count
      PROVE  \E a \in 0..bucket.age : <<a, k>> \in let'[c]
    <2>1. CASE k = bucket.count
        <3>1. 0 \in 0..bucket.age
            BY <1>1
        <3> QED
            BY <1>3, <2>1, <3>1
    <2>2. CASE k # bucket.count
        <3>1. k \in 1..bucket.count - 1
            BY <1>1, <2>2
        <3> QED
            BY <1>3, <3>1
    <2> QED
        BY <2>1, <2>2
<1>5. ASSUME NEW d \in DOMAIN Table \ {c}, Table[d].age < Window, NEW k \in 1..Table[d].count
      PROVE  \E a \in 0..Table[d].age : <<a, k>> \in let'[d]
    BY <1>0, <1>3, <1>5 DEF CountsRequests, TableInHand
<1> QED
    BY <1>2, <1>4, <1>5 DEF Accounted, CountsRequests

(***************************************************************************)
(* A tick forgets no request of a window that stays open.                  *)
(***************************************************************************)
LEMMA TickAccounts ==
    ASSUME LimiterInv, Accounted, Tick
    PROVE  Accounted'
<1> SUFFICES ASSUME NEW c \in DOMAIN buckets, buckets'[c].age < Window,
                    NEW k \in 1..buckets[c].count
             PROVE  \E a \in 0..buckets'[c].age : <<a, k>> \in let'[c]
    <2>1. /\ DOMAIN buckets' = DOMAIN buckets
          /\ \A c \in DOMAIN buckets : buckets'[c].count = buckets[c].count
        BY DEF Tick, LimiterInv, TableInHand, Buckets
    <2> QED
        BY <2>1 DEF Accounted, CountsRequests
<1>1. /\ c \in Clients /\ buckets[c].age \in Nat /\ Window \in Nat
      /\ buckets'[c].age = IF buckets[c].age < Window THEN buckets[c].age + 1 ELSE buckets[c].age
      /\ let'[c] = Aged(let[c])
    BY LimiterConstants DEF Tick, LimiterInv, TableInHand, Buckets
<1>2. buckets[c].age < Window /\ buckets'[c].age = buckets[c].age + 1
    BY <1>1
<1>3. PICK a \in 0..buckets[c].age : <<a, k>> \in let[c]
    BY <1>2 DEF Accounted, CountsRequests
<1>4. a + 1 \in 0..buckets'[c].age /\ a + 1 < Window
    BY <1>1, <1>2
<1>5. <<a + 1, k>> \in Aged(let[c])
    <2> DEFINE r == <<a, k>>
    <2>1. r \in {q \in let[c] : q[1] + 1 < Window} /\ <<r[1] + 1, r[2]>> = <<a + 1, k>>
        BY <1>3, <1>4
    <2> HIDE DEF r
    <2> QED
        BY <2>1 DEF Aged
<1> QED
    BY <1>1, <1>4, <1>5

LEMMA AccountGoesOn ==
    LimiterInv /\ Accounted /\ [LimiterNext]_limiterVars => Accounted'
<1> SUFFICES ASSUME LimiterInv, Accounted, [LimiterNext]_limiterVars PROVE Accounted'
    OBVIOUS
<1>0. TableInHand(Table, Past, StillDue) /\ CountsRequests(Table, Past)
    BY TableIsInHand, TableIsAccounted
<1>1. ASSUME NEW c \in Clients, Open(c) PROVE Accounted'
    <2> DEFINE bucket == [age |-> 0, count |-> 1]
    <2>1. /\ bucket \in [age : Ages, count : Places] /\ bucket.age = 0 /\ bucket.count = 1
          /\ LetThrough(c, bucket)
        BY <1>1, LimiterConstants DEF Open, Ages, Places
    <2> HIDE DEF bucket
    <2>2. 1..bucket.count - 1 = {}
        BY <2>1
    <2> QED
        BY <2>1, <2>2, LetThroughAccounts
<1>2. ASSUME NEW c \in Clients, Count(c) PROVE Accounted'
    <2> DEFINE age == Table[c].age  count == Table[c].count
               bucket == [Table[c] EXCEPT !.count = @ + 1]
    <2>1. /\ c \in DOMAIN Table /\ Table[c] \in Buckets
          /\ age < Window /\ count < Limit /\ LetThrough(c, bucket)
        BY <1>0, <1>2, LimiterConstants DEF Count, Expired, TableInHand, Buckets
    <2>2. bucket = [age |-> age, count |-> count + 1]
        BY <2>1 DEF Buckets
    <2>3. age \in 0..Window /\ count \in Places /\ Limit \in Nat /\ Window \in Nat
        BY <2>1, RateLimiterAssumption, LimiterConstants DEF Buckets
    <2>4. age \in Ages /\ count + 1 \in Places
        BY <2>1, <2>3 DEF Ages, Places, Quota
    <2>5. /\ bucket \in [age : Ages, count : Places]
          /\ bucket.age = age /\ bucket.count = count + 1
        BY <2>2, <2>4
    <2>6. 1..bucket.count - 1 = 1..count
        BY <2>3, <2>5 DEF Places
    <2>7. \A k \in 1..count : \E a \in 0..age : <<a, k>> \in Past[c]
        BY <1>0, <2>1 DEF CountsRequests
    <2> HIDE DEF age, count, bucket
    <2> QED
        BY <2>1, <2>5, <2>6, <2>7, LetThroughAccounts
<1>3. CASE Tick
    BY <1>3, TickAccounts
<1>4. CASE UNCHANGED limiterVars \/ \E c \in Clients : TurnDown(c)
    BY <1>4 DEF limiterVars, TurnDown, Accounted, CountsRequests
<1>5. CASE Forget
    <2>1. DOMAIN buckets' = {}
        BY <1>5 DEF Forget
    <2> QED
        BY <2>1 DEF Accounted, CountsRequests
<1> QED
    BY <1>1, <1>2, <1>3, <1>4, <1>5 DEF LimiterNext

(***************************************************************************)
(* Who would be turned down now has had a quota's worth of requests let    *)
(* through since its window opened, no more and no fewer.                  *)
(***************************************************************************)
RefusalsAreEarned ==
    \A c \in Clients : ~Expired(c) /\ Table[c].count >= Limit =>
        Cardinality(InWindow(Table[c].age, Past[c])) = Quota

(***************************************************************************)
(* Nobody is refused for what others sent, for requests of an earlier      *)
(* window, or before the limit is reached.                                 *)
(***************************************************************************)
THEOREM NobodyIsRefusedEarly == LimiterSpec => []RefusalsAreEarned
<1>1. ASSUME LimiterInv, Accounted, NEW c \in Clients, ~Expired(c), Table[c].count >= Limit
      PROVE  Cardinality(InWindow(Table[c].age, Past[c])) = Quota
    <2> DEFINE age == Table[c].age  own == InWindow(age, Past[c])  places == {r[2] : r \in own}
               f == [r \in own |-> r[2]]
    <2>0. TableInHand(Table, Past, StillDue) /\ CountsRequests(Table, Past)
        BY <1>1, TableIsInHand, TableIsAccounted
    <2>1. /\ c \in DOMAIN Table /\ age < Window
          /\ Table[c] \in Buckets
          /\ Fits(age, Table[c].count, Past[c])
          /\ Past[c] \in SUBSET (Ages \X Places)
        BY <1>1, <2>0, LimiterConstants DEF Expired, TableInHand, Buckets
    <2>2. age \in 0..Window /\ Table[c].count \in Places /\ Limit \in Nat /\ Window \in Nat
        BY <2>1, RateLimiterAssumption, LimiterConstants DEF Buckets
    <2>3. Table[c].count = Quota /\ Quota \in Nat
        BY <1>1, <2>2 DEF Places, Quota
    <2>4. own \in SUBSET (Ages \X Places) /\ Cardinality(own) <= Quota
        BY <2>1, <2>3 DEF InWindow, Fits
    <2>5. IsFiniteSet(own) /\ Cardinality(own) \in Nat
        BY <2>4, RequestsAreFinite
    <2>6. ASSUME NEW k \in 1..Quota PROVE k \in places
        <3>1. PICK a \in 0..age : <<a, k>> \in Past[c]
            BY <2>0, <2>1, <2>3 DEF CountsRequests
        <3>2. <<a, k>> \in own
            BY <2>2, <3>1 DEF InWindow
        <3> QED
            BY <3>2
    <2>7. f \in Surjection(own, places)
        BY DEF Surjection
    <2> HIDE DEF own, places, f, age
    <2>8. IsFiniteSet(places) /\ Cardinality(places) <= Cardinality(own)
        BY <2>5, <2>7, FS_Surjection
    <2>9. Cardinality(1..Quota) = Quota /\ Cardinality(1..Quota) <= Cardinality(places)
        BY <2>3, <2>6, <2>8, FS_Interval, FS_Subset
    <2>10. Cardinality(places) \in Nat
        BY <2>8, FS_CardinalityType
    <2>11. Cardinality(own) = Quota
        BY <2>3, <2>4, <2>5, <2>8, <2>9, <2>10
    <2> QED
        BY <2>11 DEF own, age
<1>2. LimiterInv /\ Accounted => RefusalsAreEarned
    BY <1>1 DEF RefusalsAreEarned
<1>3. LimiterInit => Accounted
    <2> SUFFICES ASSUME LimiterInit PROVE Accounted
        OBVIOUS
    <2>1. DOMAIN buckets = {}
        BY DEF LimiterInit
    <2> QED
        BY <2>1 DEF Accounted, CountsRequests
<1> QED
    BY <1>2, <1>3, LimiterBegins, LimiterGoesOn, AccountGoesOn, PTL DEF LimiterSpec

-----------------------------------------------------------------------------
(***************************************************************************)
(* THE DEMO BATCH, for any batches of any size, and every draw.            *)
(***************************************************************************)

(***************************************************************************)
(* Answers that may be drawn for a target, and bands that touch.           *)
(***************************************************************************)
Aimed(target, a) == \E industry \in Industries : a \in Draws(target, industry)

Near(intended, band) == {intended, band} # {"hot", "cold"}

(***************************************************************************)
(* Where a batch is: how far its list is, what is drawn, and the leads it  *)
(* has made, numbered without a gap; only a batch that failed may have one *)
(* more than its list.                                                     *)
(***************************************************************************)
BatchInHand(b) ==
    /\ batch[b] \in {"idle", "building", "capturing", "shown", "error"}
    /\ wanted[b] \in Nat
    /\ listed[b] \in Seq(Bands)
    /\ Len(listed[b]) <= wanted[b]
    /\ batch[b] = "idle" => listed[b] = <<>>
    /\ batch[b] = "capturing" =>
          /\ Len(listed[b]) < wanted[b]
          /\ drawn[b].target \in Bands
          /\ Aimed(drawn[b].target, drawn[b].answers)
    /\ batch[b] = "shown" => Len(listed[b]) = wanted[b]
    /\ \/ Numbers(b) = 1..Len(listed[b])
       \/ /\ batch[b] = "error" /\ Len(listed[b]) < wanted[b]
          /\ Numbers(b) = 1..Len(listed[b]) + 1
    /\ \A lead \in made[b] :
          lead.number <= Len(listed[b]) => Near(listed[b][lead.number], lead.band)

BatchTypeOK ==
    /\ batch = [b \in Batches |-> batch[b]]
    /\ wanted = [b \in Batches |-> wanted[b]]
    /\ drawn = [b \in Batches |-> drawn[b]]
    /\ listed = [b \in Batches |-> listed[b]]
    /\ made = [b \in Batches |-> made[b]]

BatchInv == BatchTypeOK /\ \A b \in Batches : BatchInHand(b)
-----------------------------------------------------------------------------
(***************************************************************************)
(* Whatever quality and scenario ask for is a band.                        *)
(***************************************************************************)
LEMMA TargetsAreBands == AnyTarget \subseteq Bands
<1>1. ASSUME NEW q \in DOMAIN QualityWeights PROVE DOMAIN QualityWeights[q] = Bands
    BY DEF QualityWeights, Bands
<1>2. ASSUME NEW s \in DOMAIN ScenarioQuality PROVE ScenarioQuality[s] \in DOMAIN QualityWeights
    BY DEF ScenarioQuality, QualityWeights
<1> QED
    BY <1>1, <1>2 DEF AnyTarget, Targets, EffectiveQuality

(***************************************************************************)
(* The worst of the hot pools is warm.                                     *)
(***************************************************************************)
LEMMA HotAnswersScore ==
    ASSUME NEW a, Aimed("hot", a)
    PROVE  Temperature(a) \in {"hot", "warm"}
<1>1. PICK industry \in DOMAIN IndustryPoints : a \in Draws("hot", industry)
    BY DemoBatchAssumption DEF Aimed
<1>2. BudgetPoints[a.budget] \in 25..30
    BY <1>1 DEF Draws, Budgets, BudgetPoints
<1>3. VolumePoints[a.volume] \in 12..20
    BY <1>1 DEF Draws, Volumes, VolumePoints
<1>4. TimelinePoints[a.timeline] \in 15..20
    BY <1>1 DEF Draws, Timelines, TimelinePoints
<1>5. GoalPoints[a.goal] \in 10..15
    BY <1>1 DEF Draws, Goals, GoalPoints
<1>6. IndustryPoints[a.industry] \in 7..15
    BY <1>1 DEF Draws, IndustryPoints
<1>7. ~IsIncoherent(a)
    BY <1>1 DEF Draws, Budgets, IsIncoherent
<1>8. RawTotal(a) \in 50..100
    BY <1>2, <1>3, <1>4, <1>5, <1>6, <1>7 DEF RawTotal
<1> QED
    BY <1>8 DEF Temperature, Score, Clamped, Classify, MinScore, MaxScore, HotThreshold,
                WarmThreshold

(***************************************************************************)
(* The best of the cold pools is warm.                                     *)
(***************************************************************************)
LEMMA ColdAnswersScore ==
    ASSUME NEW a, Aimed("cold", a)
    PROVE  Temperature(a) \in {"cold", "warm"}
<1>1. PICK industry \in DOMAIN IndustryPoints : a \in Draws("cold", industry)
    BY DemoBatchAssumption DEF Aimed
<1>2. BudgetPoints[a.budget] \in 5..15
    BY <1>1 DEF Draws, Budgets, BudgetPoints
<1>3. VolumePoints[a.volume] \in 4..18
    BY <1>1 DEF Draws, Volumes, VolumePoints
<1>4. TimelinePoints[a.timeline] \in 2..8
    BY <1>1 DEF Draws, Timelines, TimelinePoints
<1>5. GoalPoints[a.goal] \in 8..15
    BY <1>1 DEF Draws, Goals, GoalPoints
<1>6. IndustryPoints[a.industry] \in 7..15
    BY <1>1 DEF Draws, IndustryPoints
<1>7. RawTotal(a) \in 0..79
    BY <1>2, <1>3, <1>4, <1>5, <1>6 DEF RawTotal, Penalty
<1> QED
    BY <1>7 DEF Temperature, Score, Clamped, Classify, MinScore, MaxScore, HotThreshold,
                WarmThreshold

(***************************************************************************)
(* Whatever is aimed for, the opposite is never hit.                       *)
(***************************************************************************)
LEMMA NeverOpposite ==
    ASSUME NEW target \in Bands, NEW a, Aimed(target, a)
    PROVE  Near(target, Temperature(a))
<1>1. Temperature(a) \in Bands
    BY DEF Temperature, Classify, Bands
<1>2. target = "hot" => Temperature(a) # "cold"
    BY HotAnswersScore
<1>3. target = "cold" => Temperature(a) # "hot"
    BY ColdAnswersScore
<1> QED
    BY <1>1, <1>2, <1>3 DEF Bands, Near

(***************************************************************************)
(* No batch was asked for.                                                 *)
(***************************************************************************)
LEMMA BatchBegins == BatchInit => BatchInv
<1> SUFFICES ASSUME BatchInit PROVE BatchInv
    OBVIOUS
<1>1. BatchTypeOK
    BY DEF BatchInit, BatchTypeOK
<1>2. ASSUME NEW b \in Batches PROVE BatchInHand(b)
    <2>1. /\ batch[b] = "idle" /\ wanted[b] = 0 /\ listed[b] = <<>> /\ made[b] = {}
        BY DEF BatchInit
    <2>2. Numbers(b) = {} /\ 1..Len(listed[b]) = {}
        BY <2>1 DEF Numbers
    <2> QED
        BY <2>1, <2>2 DEF BatchInHand
<1> QED
    BY <1>1, <1>2 DEF BatchInv

(***************************************************************************)
(* A step of one batch leaves the others as they are.                      *)
(***************************************************************************)
LEMMA OneBatchSteps ==
    ASSUME BatchInv, NEW b \in Batches, BatchTypeOK', BatchInHand(b)',
           \A d \in Batches \ {b} :
              /\ batch'[d] = batch[d] /\ wanted'[d] = wanted[d] /\ drawn'[d] = drawn[d]
              /\ listed'[d] = listed[d] /\ made'[d] = made[d]
    PROVE  BatchInv'
<1>1. ASSUME NEW d \in Batches PROVE BatchInHand(d)'
    <2>1. CASE d = b
        BY <2>1
    <2>2. CASE d # b
        BY <2>2 DEF BatchInv, BatchInHand, Numbers
    <2> QED
        BY <2>1, <2>2
<1> QED
    BY <1>1 DEF BatchInv

(***************************************************************************)
(* A request for a batch is refused or begins it.                          *)
(***************************************************************************)
LEMMA AskBatchKeeps ==
    ASSUME BatchInv, NEW b \in Batches, NEW count \in Counts, AskBatch(b, count)
    PROVE  BatchInv'
<1>1. BatchTypeOK'
    BY DEF BatchInv, BatchTypeOK, AskBatch, Turns
<1>2. /\ listed'[b] = listed[b] /\ made'[b] = made[b] /\ wanted'[b] = count
      /\ batch'[b] \in {"error", "building"}
      /\ batch[b] = "idle" /\ listed[b] = <<>> /\ count \in Nat
    BY DemoBatchAssumption DEF BatchInv, BatchTypeOK, BatchInHand, AskBatch, Turns
<1>3. Numbers(b)' = Numbers(b)
    BY <1>2 DEF Numbers
<1>4. BatchInHand(b)'
    BY <1>2, <1>3 DEF BatchInv, BatchInHand
<1>5. \A d \in Batches \ {b} :
          /\ batch'[d] = batch[d] /\ wanted'[d] = wanted[d] /\ drawn'[d] = drawn[d]
          /\ listed'[d] = listed[d] /\ made'[d] = made[d]
    BY DEF BatchInv, BatchTypeOK, AskBatch, Turns
<1> QED
    BY <1>1, <1>4, <1>5, OneBatchSteps

(***************************************************************************)
(* A lead is drawn while some are missing.                                 *)
(***************************************************************************)
LEMMA BuildKeeps ==
    ASSUME BatchInv, NEW b \in Batches, Build(b)
    PROVE  BatchInv'
<1>0. PICK target \in AnyTarget, industry \in Industries, misses \in {0, CoherenceAttempts} :
         \E a \in BuildPersona(target, industry, misses) :
            drawn' = [drawn EXCEPT ![b] = [target |-> target, answers |-> a]]
    BY DEF Build
<1>1. PICK a \in BuildPersona(target, industry, misses) :
            drawn' = [drawn EXCEPT ![b] = [target |-> target, answers |-> a]]
    BY <1>0
<1>2. target \in Bands /\ Aimed(target, a)
    BY TargetsAreBands DEF Aimed, BuildPersona
<1>3. BatchTypeOK'
    BY <1>1 DEF BatchInv, BatchTypeOK, Build, Turns
<1>4. /\ listed'[b] = listed[b] /\ made'[b] = made[b] /\ wanted'[b] = wanted[b]
      /\ batch'[b] = "capturing" /\ batch[b] = "building"
      /\ Len(listed[b]) < wanted[b]
      /\ drawn'[b].target = target /\ drawn'[b].answers = a
    BY <1>1 DEF BatchInv, BatchTypeOK, Build, Turns
<1>5. Numbers(b)' = Numbers(b)
    BY <1>4 DEF Numbers
<1>6. BatchInHand(b)'
    BY <1>2, <1>4, <1>5 DEF BatchInv, BatchInHand
<1>7. \A d \in Batches \ {b} :
          /\ batch'[d] = batch[d] /\ wanted'[d] = wanted[d] /\ drawn'[d] = drawn[d]
          /\ listed'[d] = listed[d] /\ made'[d] = made[d]
    BY <1>1 DEF BatchInv, BatchTypeOK, Build, Turns
<1> QED
    BY <1>3, <1>6, <1>7, OneBatchSteps

(***************************************************************************)
(* A batch is shown when none is missing.                                  *)
(***************************************************************************)
LEMMA ShowBatchKeeps ==
    ASSUME BatchInv, NEW b \in Batches, ShowBatch(b)
    PROVE  BatchInv'
<1>1. BatchTypeOK'
    BY DEF BatchInv, BatchTypeOK, ShowBatch, Turns
<1>2. /\ listed'[b] = listed[b] /\ made'[b] = made[b] /\ wanted'[b] = wanted[b]
      /\ batch'[b] = "shown" /\ batch[b] = "building" /\ Len(listed[b]) = wanted[b]
    BY DEF BatchInv, BatchTypeOK, ShowBatch, Turns
<1>3. Numbers(b)' = Numbers(b)
    BY <1>2 DEF Numbers
<1>4. BatchInHand(b)'
    BY <1>2, <1>3 DEF BatchInv, BatchInHand
<1>5. \A d \in Batches \ {b} :
          /\ batch'[d] = batch[d] /\ wanted'[d] = wanted[d] /\ drawn'[d] = drawn[d]
          /\ listed'[d] = listed[d] /\ made'[d] = made[d]
    BY DEF BatchInv, BatchTypeOK, ShowBatch, Turns
<1> QED
    BY <1>1, <1>4, <1>5, OneBatchSteps

(***************************************************************************)
(* The lead a capture stores carries the next number.                      *)
(***************************************************************************)
LEMMA StoredIsNext ==
    ASSUME BatchInv, NEW b \in Batches, batch[b] = "capturing"
    PROVE  /\ {lead.number : lead \in Stored(b)} = 1..Len(listed[b]) + 1
           /\ Len(listed[b]) \in Nat
           /\ \A lead \in Stored(b) : lead.number \in Nat /\ lead.number <= Len(listed[b]) + 1
           /\ \A lead \in Stored(b) :
                 lead \in made[b] \/ /\ lead.number = Len(listed[b]) + 1
                                     /\ lead.band = Temperature(drawn[b].answers)
<1> DEFINE n == Len(listed[b])
           new == [number |-> n + 1, band |-> Temperature(drawn[b].answers)]
<1>1. n \in Nat /\ Numbers(b) = 1..n
    BY DEF BatchInv, BatchInHand
<1>2. Stored(b) = made[b] \cup {new}
    BY DEF Stored
<1>3. {lead.number : lead \in Stored(b)} = Numbers(b) \cup {n + 1}
    <2>1. new.number = n + 1
        OBVIOUS
    <2> HIDE DEF new
    <2> QED
        BY <1>2, <2>1 DEF Numbers
<1>4. {lead.number : lead \in Stored(b)} = 1..n + 1
    BY <1>1, <1>3
<1>5. \A lead \in Stored(b) : lead.number \in 1..n + 1
    BY <1>4
<1> QED
    BY <1>1, <1>2, <1>4, <1>5

(***************************************************************************)
(* A lead is stored and listed.                                            *)
(***************************************************************************)
LEMMA CaptureKeeps ==
    ASSUME BatchInv, NEW b \in Batches, Capture(b)
    PROVE  BatchInv'
<1> DEFINE n == Len(listed[b])
<1>1. BatchTypeOK'
    BY DEF BatchInv, BatchTypeOK, Capture, Turns
<1>2. /\ listed'[b] = Append(listed[b], drawn[b].target) /\ made'[b] = Stored(b)
      /\ wanted'[b] = wanted[b]
      /\ batch'[b] = "building" /\ batch[b] = "capturing"
    BY DEF BatchInv, BatchTypeOK, Capture, Turns
<1>3. /\ listed[b] \in Seq(Bands) /\ n < wanted[b] /\ wanted[b] \in Nat /\ n \in Nat
      /\ drawn[b].target \in Bands
      /\ Aimed(drawn[b].target, drawn[b].answers)
      /\ \A lead \in made[b] :
            lead.number <= n => Near(listed[b][lead.number], lead.band)
    BY <1>2 DEF BatchInv, BatchInHand
<1>4. /\ listed'[b] \in Seq(Bands) /\ Len(listed'[b]) = n + 1
      /\ \A i \in 1..n : listed'[b][i] = listed[b][i]
      /\ listed'[b][n + 1] = drawn[b].target
    BY <1>2, <1>3
<1>5. Numbers(b)' = 1..n + 1
    BY <1>2, StoredIsNext DEF Numbers
<1>6. ASSUME NEW lead \in made'[b], lead.number <= n + 1
      PROVE  Near(listed'[b][lead.number], lead.band)
    <2>1. CASE lead \in made[b]
        <3>1. lead.number \in 1..n
            BY <1>2, <2>1 DEF BatchInv, BatchInHand, Numbers
        <3> QED
            BY <1>3, <1>4, <2>1, <3>1
    <2>2. CASE /\ lead.number = n + 1
               /\ lead.band = Temperature(drawn[b].answers)
        BY <1>3, <1>4, <2>2, NeverOpposite
    <2> QED
        BY <1>2, <2>1, <2>2, StoredIsNext
<1>7. BatchInHand(b)'
    <2>1. /\ Len(listed'[b]) <= wanted'[b]
          /\ Numbers(b)' = 1..Len(listed'[b])
        BY <1>2, <1>3, <1>4, <1>5
    <2>2. \A lead \in made'[b] :
             lead.number <= Len(listed'[b]) => Near(listed'[b][lead.number], lead.band)
        BY <1>4, <1>6
    <2> QED
        BY <1>2, <1>3, <1>4, <2>1, <2>2 DEF BatchInHand
<1>8. \A d \in Batches \ {b} :
          /\ batch'[d] = batch[d] /\ wanted'[d] = wanted[d] /\ drawn'[d] = drawn[d]
          /\ listed'[d] = listed[d] /\ made'[d] = made[d]
    BY DEF BatchInv, BatchTypeOK, Capture, Turns
<1> QED
    BY <1>1, <1>7, <1>8, OneBatchSteps

(***************************************************************************)
(* An error leaves a batch with what was committed.                        *)
(***************************************************************************)
LEMMA BatchFailsKeeps ==
    ASSUME BatchInv, NEW b \in Batches, BatchFails(b)
    PROVE  BatchInv'
<1> DEFINE n == Len(listed[b])
<1>1. BatchTypeOK'
    BY DEF BatchInv, BatchTypeOK, BatchFails, Turns
<1>2. /\ listed'[b] = listed[b] /\ wanted'[b] = wanted[b]
      /\ batch'[b] = "error" /\ batch[b] \in {"building", "capturing"}
      /\ \/ made'[b] = made[b]
         \/ batch[b] = "capturing" /\ made'[b] = Stored(b)
    BY DEF BatchInv, BatchTypeOK, BatchFails, Turns
<1>3. BatchInHand(b)
    BY DEF BatchInv
<1>4. ASSUME made'[b] = made[b] PROVE BatchInHand(b)'
    <2>1. Numbers(b)' = Numbers(b)
        BY <1>4 DEF Numbers
    <2> QED
        BY <1>2, <1>3, <1>4, <2>1 DEF BatchInHand
<1>5. ASSUME batch[b] = "capturing", made'[b] = Stored(b) PROVE BatchInHand(b)'
    <2>1. Numbers(b)' = 1..n + 1
        BY <1>5, StoredIsNext DEF Numbers
    <2>2. \A lead \in made'[b] : lead.number <= n => lead \in made[b]
        BY <1>5, StoredIsNext
    <2> QED
        BY <1>2, <1>3, <1>5, <2>1, <2>2 DEF BatchInHand
<1>6. \A d \in Batches \ {b} :
          /\ batch'[d] = batch[d] /\ wanted'[d] = wanted[d] /\ drawn'[d] = drawn[d]
          /\ listed'[d] = listed[d] /\ made'[d] = made[d]
    BY DEF BatchInv, BatchTypeOK, BatchFails, Turns
<1> QED
    BY <1>1, <1>2, <1>4, <1>5, <1>6, OneBatchSteps

(***************************************************************************)
(* BatchInv is inductive.                                                  *)
(***************************************************************************)
LEMMA BatchGoesOn == BatchInv /\ [BatchNext]_batchVars => BatchInv'
<1> SUFFICES ASSUME BatchInv, [BatchNext]_batchVars PROVE BatchInv'
    OBVIOUS
<1>1. ASSUME NEW b \in Batches, NEW count \in Counts, AskBatch(b, count) PROVE BatchInv'
    BY <1>1, AskBatchKeeps
<1>2. ASSUME NEW b \in Batches, Build(b) \/ ShowBatch(b) \/ Capture(b) \/ BatchFails(b)
      PROVE  BatchInv'
    BY <1>2, BuildKeeps, ShowBatchKeeps, CaptureKeeps, BatchFailsKeeps
<1>3. CASE UNCHANGED batchVars
    BY <1>3 DEF batchVars, BatchInv, BatchTypeOK, BatchInHand, Numbers
<1> QED
    BY <1>1, <1>2, <1>3 DEF BatchNext

(***************************************************************************)
(* What a batch leaves in the database is a prefix of it without a gap, at *)
(* most one lead longer than the answer would have listed, and the whole   *)
(* of it when it is shown.                                                 *)
(***************************************************************************)
THEOREM BatchesAreWholeOrPrefixes == BatchSpec => []BatchIsWholeOrAPrefix
<1>1. BatchInv => BatchIsWholeOrAPrefix
    <2> SUFFICES ASSUME BatchInv, NEW b \in Batches
                 PROVE  /\ \E n \in Len(listed[b]) .. wanted[b] : Numbers(b) = 1..n
                        /\ batch[b] = "shown" => Numbers(b) = 1..wanted[b]
        BY DEF BatchIsWholeOrAPrefix
    <2>1. BatchInHand(b) /\ Len(listed[b]) \in Nat
        BY DEF BatchInv, BatchInHand
    <2> QED
        BY <2>1 DEF BatchInHand
<1> QED
    BY <1>1, BatchBegins, BatchGoesOn, PTL DEF BatchSpec

(***************************************************************************)
(* No lead that was meant to be hot is stored as cold, nor the reverse.    *)
(***************************************************************************)
THEOREM BandsAreNeverOpposite == BatchSpec => []NeverTheOppositeBand
<1>1. BatchInv => NeverTheOppositeBand
    BY DEF BatchInv, BatchInHand, NeverTheOppositeBand, Near
<1> QED
    BY <1>1, BatchBegins, BatchGoesOn, PTL DEF BatchSpec
-----------------------------------------------------------------------------
(***************************************************************************)
(* RETRIES, for any cap of the backoff up to an hour, any number of        *)
(* attempts, and any status and Retry-After.                               *)
(***************************************************************************)
LEMMA LeastNatural ==
    ASSUME NEW T \in SUBSET Nat, T # {}
    PROVE  \E m \in T : \A k \in T : m <= k
<1> DEFINE R == OpToRel(<, Nat)
<1>1. IsWellFoundedOn(R, Nat)
    BY NatLessThanWellFounded
<1>2. \A x, y \in Nat : <<y, x>> \in R <=> y < x
    BY DEF OpToRel
<1> HIDE DEF R
<1>3. PICK m \in T : \A y \in T : ~ (<<y, m>> \in R)
    BY <1>1, WFMin
<1>4. ASSUME NEW k \in T PROVE m <= k
    <2>1. m \in Nat /\ k \in Nat /\ ~ (<<k, m>> \in R)
        BY <1>3
    <2>2. ~ (k < m)
        BY <1>2, <2>1
    <2> QED
        BY <2>1, <2>2
<1> QED
    BY <1>4

(***************************************************************************)
(* The powers of two as far as m.                                          *)
(***************************************************************************)
UpTo(m, g) ==
    /\ g \in [0..m -> Nat]
    /\ g[0] = 1
    /\ \A i \in 1..m : g[i] = 2 * g[i - 1]

(***************************************************************************)
(* They exist as far as one likes, for there is no least m where not.      *)
(***************************************************************************)
LEMMA EveryPrefix == \A m \in Nat : \E g : UpTo(m, g)
<1> DEFINE T == {m \in Nat : ~\E g : UpTo(m, g)}
<1> SUFFICES ASSUME T # {} PROVE FALSE
    OBVIOUS
<1>1. PICK m \in T : \A k \in T : m <= k
    BY LeastNatural
<1>2. m # 0
    <2> DEFINE g == [i \in 0..0 |-> 1]
    <2>1. UpTo(0, g)
        BY DEF UpTo
    <2> QED
        BY <2>1
<1>3. m - 1 \in Nat /\ m - 1 \notin T
    BY <1>1, <1>2
<1>4. PICK g : UpTo(m - 1, g)
    BY <1>3
<1> DEFINE h == [i \in 0..m |-> IF i = m THEN 2 * g[m - 1] ELSE g[i]]
<1>5. /\ h \in [0..m -> Nat] /\ h[0] = 1
      /\ \A i \in 1..m - 1 : h[i] = 2 * h[i - 1]
      /\ h[m] = 2 * h[m - 1]
    BY <1>3, <1>4 DEF UpTo
<1> HIDE DEF h
<1>6. m \in Nat /\ m # 0
    BY <1>2
<1>7. ASSUME NEW i \in 1..m PROVE h[i] = 2 * h[i - 1]
    <2>1. i = m \/ i \in 1..m - 1
        BY <1>6
    <2> QED
        BY <1>5, <2>1
<1>8. UpTo(m, h)
    BY <1>5, <1>7 DEF UpTo
<1> QED
    BY <1>1, <1>8

(***************************************************************************)
(* Two of them agree as far as both go.                                    *)
(***************************************************************************)
LEMMA PrefixesAgree ==
    ASSUME NEW m \in Nat, NEW n \in Nat, NEW g, NEW h, UpTo(m, g), UpTo(n, h)
    PROVE  \A i \in Nat : i <= m /\ i <= n => g[i] = h[i]
<1> DEFINE T == {i \in Nat : i <= m /\ i <= n /\ g[i] # h[i]}
<1> SUFFICES ASSUME T # {} PROVE FALSE
    OBVIOUS
<1>1. PICK i \in T : \A k \in T : i <= k
    BY LeastNatural
<1>2. i # 0
    BY DEF UpTo
<1>3. i - 1 \in Nat /\ g[i - 1] = h[i - 1]
    BY <1>1, <1>2
<1>4. g[i] = 2 * g[i - 1] /\ h[i] = 2 * h[i - 1]
    BY <1>2 DEF UpTo
<1> QED
    BY <1>3, <1>4

(***************************************************************************)
(* So Power, a choice of a function, is one, and doubles.                  *)
(***************************************************************************)
LEMMA PowersDouble ==
    /\ Power[0] = 1
    /\ \A n \in Nat : Power[n] \in Nat \ {0} /\ Power[n + 1] = 2 * Power[n]
<1> DEFINE Def(f) == [n \in Nat |-> IF n = 0 THEN 1 ELSE 2 * f[n - 1]]
           prefix == [n \in Nat |-> CHOOSE g : UpTo(n, g)]
           all == [n \in Nat |-> prefix[n][n]]
<1>1. \A n \in Nat : UpTo(n, prefix[n])
    BY EveryPrefix
<1> HIDE DEF prefix
<1>2. \A n \in Nat : all[n] \in Nat
    BY <1>1 DEF UpTo
<1>3. all[0] = 1
    BY <1>1 DEF UpTo
<1>4. ASSUME NEW n \in Nat, n # 0 PROVE all[n] = 2 * all[n - 1]
    <2>1. UpTo(n, prefix[n]) /\ UpTo(n - 1, prefix[n - 1]) /\ n - 1 \in Nat
        BY <1>1, <1>4
    <2>2. prefix[n][n] = 2 * prefix[n][n - 1]
        BY <1>4, <2>1 DEF UpTo
    <2>3. prefix[n][n - 1] = prefix[n - 1][n - 1]
        BY <2>1, PrefixesAgree
    <2> QED
        BY <2>1, <2>2, <2>3
<1> HIDE DEF all
<1>5. all = [n \in Nat |-> all[n]]
    BY DEF all
<1>6. all = Def(all)
    BY <1>3, <1>4, <1>5
<1>7. Power = CHOOSE f : f = Def(f)
    BY DEF Power, BaseBackoff
<1> HIDE DEF Def
<1>8. Power = Def(Power)
    BY <1>6, <1>7
<1>9. \A n \in Nat : Power[n] = IF n = 0 THEN 1 ELSE 2 * Power[n - 1]
    BY <1>8 DEF Def
<1>10. Power[0] = 1
    BY <1>9
<1> DEFINE T == {n \in Nat : Power[n] \notin Nat \ {0}}
<1>11. T = {}
    <2> SUFFICES ASSUME T # {} PROVE FALSE
        OBVIOUS
    <2>1. PICK n \in T : \A k \in T : n <= k
        BY LeastNatural
    <2>2. n # 0
        BY <1>10
    <2>3. n - 1 \in Nat /\ n - 1 \notin T
        BY <2>1, <2>2
    <2> QED
        BY <1>9, <2>2, <2>3
<1>12. \A n \in Nat : Power[n] \in Nat \ {0}
    BY <1>11
<1>13. ASSUME NEW n \in Nat PROVE Power[n + 1] = 2 * Power[n]
    BY <1>9
<1> QED
    BY <1>10, <1>12, <1>13

(***************************************************************************)
(* The longest wait after n attempts: capped, and the power until then.    *)
(***************************************************************************)
LEMMA CeilingBounds ==
    ASSUME NEW n \in Nat, n >= 1
    PROVE  /\ Ceiling(n) \in Nat /\ 2 <= Ceiling(n) /\ Ceiling(n) <= 3600
           /\ Ceiling(n) <= Power[n]
           /\ Power[n] <= MaxBackoff => Ceiling(n) = Power[n]
<1>1. n - 1 \in Nat /\ n = (n - 1) + 1
    OBVIOUS
<1>2. Power[n - 1] \in Nat \ {0} /\ Power[n] = 2 * Power[n - 1]
    BY <1>1, PowersDouble
<1> QED
    BY <1>2, RetryPolicyAssumption DEF Ceiling

(***************************************************************************)
(* The wait of an event that failed is within bounds: the cap of a Retry-  *)
(* After, and the backoff when nobody prescribed one.                      *)
(***************************************************************************)
RetryInv ==
    /\ tries \in Nat
    /\ fate = "failed" =>
          /\ tries >= 1
          /\ delay \in 1..RetryAfterCap
          /\ ~Told(answer) => delay <= Ceiling(tries)
    /\ RetryAfterIsHonoured

(***************************************************************************)
(* What an answer was taken for.                                           *)
(***************************************************************************)
LEMMA AnswersAreClassified ==
    ASSUME NEW status \in Codes, NEW header \in Headers
    PROVE  LET outcome == ClassifyResponse(status, header)
               told == Told([status |-> status, header |-> header]) IN
           /\ status \in TransientStatuses => outcome = Throttled(header)
           /\ ~told => outcome.retryAfter = {}
           /\ outcome.retryAfter = {} \/ outcome.retryAfter = {ClampedWait(Truncated(header.halves))}
<1>1. status \in Int
    BY RetryPolicyAssumption
<1> QED
    BY <1>1 DEF ClassifyResponse, Throttled, Raised, RetryAfter, Overflows, Told,
                TransientStatuses, PermanentStatuses

(***************************************************************************)
(* A Retry-After is clamped to an hour.                                    *)
(***************************************************************************)
LEMMA ClampedInRange ==
    ASSUME NEW n \in Int
    PROVE  /\ ClampedWait(n) \in 1..RetryAfterCap
           /\ n \in 1..RetryAfterCap => ClampedWait(n) = n
BY DEF ClampedWait, RetryAfterCap

(***************************************************************************)
(* The event is new.                                                       *)
(***************************************************************************)
LEMMA RetryBegins == RetryInit => RetryInv
BY DEF RetryInit, RetryInv, RetryAfterIsHonoured, NoAnswer, Word, TransientStatuses

(***************************************************************************)
(* The wait of an event that will be tried again.                          *)
(***************************************************************************)
LEMMA DelayInRange ==
    ASSUME RetryInv, tries' = tries + 1, NEW outcome, Resolve(outcome), fate' = "failed",
           \/ outcome.retryAfter = {}
           \/ \E n \in Int : outcome.retryAfter = {ClampedWait(n)}
    PROVE  /\ delay' \in 1..RetryAfterCap
           /\ outcome.retryAfter = {} =>
                 /\ delay' <= Ceiling(tries')
                 /\ Ceiling(tries') \div 2 <= delay'
           /\ outcome.retryAfter # {} => outcome.retryAfter = {delay'}
<1>1. tries' \in Nat /\ tries' >= 1
    BY DEF RetryInv
<1>2. delay' \in RetryDelay(outcome, tries')
    BY DEF Resolve
<1>3. CASE outcome.retryAfter = {}
    <2>1. /\ Ceiling(tries') \in Nat /\ 2 <= Ceiling(tries') /\ Ceiling(tries') <= 3600
        BY <1>1, CeilingBounds
    <2>2. delay' \in (Ceiling(tries') \div 2)..Ceiling(tries')
        BY <1>2, <1>3 DEF RetryDelay, ComputeBackoff
    <2> QED
        BY <1>3, <2>1, <2>2 DEF RetryAfterCap
<1>4. CASE outcome.retryAfter # {}
    BY <1>2, <1>4, ClampedInRange DEF RetryDelay
<1> QED
    BY <1>3, <1>4

(***************************************************************************)
(* An answer that prescribes a wait is obeyed.                             *)
(***************************************************************************)
LEMMA AskedIsWaited ==
    ASSUME NEW status \in TransientStatuses \cap Codes, NEW seconds \in 1..RetryAfterCap,
           Number(2 * seconds) \in Headers,
           Resolve(ClassifyResponse(status, Number(2 * seconds)))
    PROVE  \/ fate' = "failed" /\ delay' = seconds
           \/ fate' = "dead" /\ tries' >= MaxAttempts
<1> DEFINE header == Number(2 * seconds)
           outcome == ClassifyResponse(status, header)
<1>1. header.kind = "number" /\ header.halves = 2 * seconds
    BY DEF Number
<1>2. Truncated(2 * seconds) = seconds /\ ClampedWait(seconds) = seconds
    BY DEF Truncated, ClampedWait, RetryAfterCap
<1>3. outcome = Throttled(header)
    BY AnswersAreClassified
<1>4. outcome.kind = "transient" /\ outcome.retryAfter = {seconds}
    BY <1>1, <1>2, <1>3 DEF Throttled, Overflows, RetryAfter
<1>5. Resolve(outcome)
    OBVIOUS
<1> HIDE DEF outcome
<1> QED
    BY <1>4, <1>5 DEF Resolve, RetryDelay

(***************************************************************************)
(* A step keeps the invariant, and two waits that nobody prescribed grow.  *)
(***************************************************************************)
LEMMA AttemptKeeps ==
    ASSUME RetryInv, Attempt
    PROVE  /\ RetryInv'
           /\ /\ fate = "failed" /\ fate' = "failed"
              /\ ~Told(answer) /\ ~Told(answer')
              /\ Power[tries'] <= MaxBackoff
              => delay' >= delay
<1>1. tries \in Nat /\ tries' = tries + 1 /\ fate \in {"pending", "failed"}
    BY DEF RetryInv, Attempt
<1>2. ASSUME NEW outcome, Resolve(outcome),
             outcome.retryAfter = {} \/ \E n \in Int : outcome.retryAfter = {ClampedWait(n)},
             ~Told(answer') => outcome.retryAfter = {},
             RetryAfterIsHonoured'
      PROVE  /\ RetryInv'
             /\ /\ fate = "failed" /\ fate' = "failed"
                /\ ~Told(answer) /\ ~Told(answer')
                /\ Power[tries'] <= MaxBackoff
                => delay' >= delay
    <2>1. fate' = "failed" =>
              /\ delay' \in 1..RetryAfterCap
              /\ ~Told(answer') =>
                    delay' <= Ceiling(tries') /\ Ceiling(tries') \div 2 <= delay'
        BY <1>1, <1>2, DelayInRange
    <2>2. RetryInv'
        <3>1. tries' \in Nat /\ tries' >= 1
            BY <1>1
        <3> QED
            BY <1>2, <2>1, <3>1 DEF RetryInv, Told, Ceiling
    <2>3. ASSUME fate = "failed", fate' = "failed", ~Told(answer), ~Told(answer'),
                 Power[tries'] <= MaxBackoff
          PROVE  delay' >= delay
        <3>1. /\ Power[tries] \in Nat \ {0} /\ Power[tries'] = 2 * Power[tries]
            BY <1>1, PowersDouble
        <3>2. Power[tries] <= MaxBackoff /\ tries >= 1
            BY <2>3, <3>1, RetryPolicyAssumption DEF RetryInv
        <3>3. Ceiling(tries) = Power[tries] /\ Ceiling(tries') = 2 * Power[tries]
            BY <1>1, <2>3, <3>1, <3>2, CeilingBounds
        <3>4. delay <= Power[tries] /\ (2 * Power[tries]) \div 2 <= delay'
            BY <2>1, <2>3, <3>3 DEF RetryInv
        <3>5. delay \in Int /\ delay' \in Int
            BY <2>1, <2>3 DEF RetryInv
        <3> QED
            BY <3>1, <3>4, <3>5
    <2> QED
        BY <2>2, <2>3
<1>3. ASSUME NEW status \in Codes, NEW header \in Headers,
             Resolve(ClassifyResponse(status, header)),
             answer' = [status |-> status, header |-> header]
      PROVE  RetryAfterIsHonoured'
    <2>1. answer'.status = status /\ answer'.header = header
        BY <1>3
    <2>2. ASSUME NEW seconds \in 1..RetryAfterCap, status \in TransientStatuses,
                 header = Number(2 * seconds)
          PROVE  \/ fate' = "failed" /\ delay' = seconds
                 \/ fate' = "dead" /\ tries' >= MaxAttempts
        BY <1>3, <2>2, AskedIsWaited
    <2> QED
        BY <2>1, <2>2 DEF RetryAfterIsHonoured
<1>4. ASSUME NEW status \in Codes, NEW header \in Headers,
             Resolve(ClassifyResponse(status, header)),
             answer' = [status |-> status, header |-> header]
      PROVE  /\ RetryInv'
             /\ /\ fate = "failed" /\ fate' = "failed"
                /\ ~Told(answer) /\ ~Told(answer')
                /\ Power[tries'] <= MaxBackoff
                => delay' >= delay
    <2> DEFINE outcome == ClassifyResponse(status, header)
    <2>1. /\ outcome.retryAfter = {} \/ \E n \in Int : outcome.retryAfter = {ClampedWait(n)}
          /\ ~Told(answer') => outcome.retryAfter = {}
        <3>1. Truncated(header.halves) \in Int
            BY RetryPolicyAssumption DEF Truncated
        <3> QED
            BY <1>4, <3>1, AnswersAreClassified
    <2>2. Resolve(outcome) /\ RetryAfterIsHonoured'
        BY <1>3, <1>4
    <2> HIDE DEF outcome
    <2> QED
        BY <1>2, <2>1, <2>2
<1>5. ASSUME Resolve(ClassifyException), answer' = NoAnswer
      PROVE  /\ RetryInv'
             /\ /\ fate = "failed" /\ fate' = "failed"
                /\ ~Told(answer) /\ ~Told(answer')
                /\ Power[tries'] <= MaxBackoff
                => delay' >= delay
    <2>1. ClassifyException.retryAfter = {}
        BY DEF ClassifyException, Raised
    <2>2. RetryAfterIsHonoured'
        BY <1>5 DEF RetryAfterIsHonoured, NoAnswer, TransientStatuses
    <2> QED
        BY <1>2, <1>5, <2>1, <2>2
<1> QED
    BY <1>4, <1>5 DEF Attempt

(***************************************************************************)
(* RetryInv is inductive.                                                  *)
(***************************************************************************)
LEMMA RetryGoesOn == RetryInv /\ [RetryNext]_retryVars => RetryInv'
BY AttemptKeeps DEF RetryNext, retryVars, RetryInv, RetryAfterIsHonoured, Told, Ceiling

(***************************************************************************)
(* An event that will be tried again waits for a second at least and for   *)
(* an hour at most.                                                        *)
(***************************************************************************)
THEOREM RetryWaitsAreBounded == RetrySpec => []WaitsAreBounded
<1>1. RetryInv => WaitsAreBounded
    BY DEF RetryInv, WaitsAreBounded
<1> QED
    BY <1>1, RetryBegins, RetryGoesOn, PTL DEF RetrySpec

(***************************************************************************)
(* An answer that prescribes a wait within an hour is obeyed to the        *)
(* second, until the attempts are used up.                                 *)
(***************************************************************************)
THEOREM RetryAfterDecides == RetrySpec => []RetryAfterIsHonoured
<1>1. RetryInv => RetryAfterIsHonoured
    BY DEF RetryInv
<1> QED
    BY <1>1, RetryBegins, RetryGoesOn, PTL DEF RetrySpec

(***************************************************************************)
(* Of two failures in a row that prescribe nothing, the later is waited    *)
(* for no less, below the cap.                                             *)
(***************************************************************************)
THEOREM BackoffGrows == RetrySpec => WaitsNeverShrink
<1>1. RetryInv /\ [RetryNext]_retryVars =>
        [/\ fate = "failed" /\ fate' = "failed"
         /\ ~Told(answer) /\ ~Told(answer')
         /\ Power[tries'] <= MaxBackoff
         => delay' >= delay]_retryVars
    BY AttemptKeeps DEF RetryNext
<1> QED
    BY <1>1, RetryBegins, RetryGoesOn, PTL DEF RetrySpec, WaitsNeverShrink
-----------------------------------------------------------------------------
(***************************************************************************)
(* SCORING, for every form the schema accepts.                             *)
(***************************************************************************)

(***************************************************************************)
(* Clamping changes no order.                                              *)
(***************************************************************************)
LEMMA ClampingKeepsOrder ==
    ASSUME NEW m \in Int, NEW n \in Int, m <= n
    PROVE  Clamped(m) <= Clamped(n)
BY DEF Clamped, MinScore, MaxScore

(***************************************************************************)
(* The points of every form.                                               *)
(***************************************************************************)
LEMMA PointsAreIntegers ==
    ASSUME NEW a \in Answers
    PROVE  /\ BudgetPoints[a.budget] \in 5..30
           /\ VolumePoints[a.volume] \in 4..20
           /\ TimelinePoints[a.timeline] \in Int
           /\ GoalPoints[a.goal] \in Int
           /\ IndustryPoints[a.industry] \in Int
           /\ RawTotal(a) \in Int
<1>1. BudgetPoints[a.budget] \in 5..30
    BY DEF Answers, BudgetPoints
<1>2. VolumePoints[a.volume] \in 4..20
    BY DEF Answers, VolumePoints
<1>3. TimelinePoints[a.timeline] \in Int
    BY DEF Answers, TimelinePoints
<1>4. GoalPoints[a.goal] \in Int
    BY DEF Answers, GoalPoints
<1>5. IndustryPoints[a.industry] \in Int
    BY DEF Answers, IndustryPoints
<1> QED
    BY <1>1, <1>2, <1>3, <1>4, <1>5 DEF RawTotal, Penalty

(***************************************************************************)
(* The budget table follows the rank of its values.                        *)
(***************************************************************************)
LEMMA BudgetsAreOrdered ==
    ASSUME NEW b \in DOMAIN BudgetPoints, NEW c \in DOMAIN BudgetPoints,
           BudgetRank[b] >= BudgetRank[c]
    PROVE  /\ BudgetPoints[b] >= BudgetPoints[c]
           /\ b = "UNDER_2K" => c = "UNDER_2K"
BY DEF BudgetPoints, BudgetRank

(***************************************************************************)
(* The volume table follows the number of videos.                          *)
(***************************************************************************)
LEMMA VolumesAreOrdered ==
    ASSUME NEW v \in DOMAIN VolumePoints, NEW w \in DOMAIN VolumePoints,
           MinVideos[v] > MinVideos[w]
    PROVE  /\ VolumePoints[v] >= VolumePoints[w]
           /\ MinVideos[w] = 12 => VolumePoints[v] - VolumePoints[w] <= 8
           /\ MinVideos[w] >= IncoherentVolume => MinVideos[v] >= IncoherentVolume
BY DEF VolumePoints, MinVideos, IncoherentVolume

(***************************************************************************)
(* Two forms that differ in budget and volume only.                        *)
(***************************************************************************)
LEMMA TotalsDiffer ==
    ASSUME NEW a \in Answers, NEW c \in Answers,
           c.timeline = a.timeline, c.goal = a.goal, c.industry = a.industry
    PROVE  RawTotal(c) - RawTotal(a) =
              (BudgetPoints[c.budget] - BudgetPoints[a.budget])
                + (VolumePoints[c.volume] - VolumePoints[a.volume])
                + (IF IsIncoherent(c) THEN -10 ELSE 0) - (IF IsIncoherent(a) THEN -10 ELSE 0)
<1> DEFINE rest == TimelinePoints[a.timeline] + GoalPoints[a.goal] + IndustryPoints[a.industry]
           p == IF IsIncoherent(a) THEN -10 ELSE 0
           q == IF IsIncoherent(c) THEN -10 ELSE 0
<1>1. /\ BudgetPoints[a.budget] \in Int /\ VolumePoints[a.volume] \in Int
      /\ BudgetPoints[c.budget] \in Int /\ VolumePoints[c.volume] \in Int
      /\ TimelinePoints[a.timeline] \in Int /\ GoalPoints[a.goal] \in Int
      /\ IndustryPoints[a.industry] \in Int
    BY PointsAreIntegers
<1>2. p \in Int /\ q \in Int /\ rest \in Int
    BY <1>1
<1>3. RawTotal(a) = BudgetPoints[a.budget] + VolumePoints[a.volume] + rest + p
    BY <1>1, <1>2 DEF RawTotal, Penalty
<1>4. RawTotal(c) = BudgetPoints[c.budget] + VolumePoints[c.volume] + rest + q
    BY <1>1, <1>2 DEF RawTotal, Penalty
<1> HIDE DEF p, q, rest
<1>5. RawTotal(c) - RawTotal(a) =
          (BudgetPoints[c.budget] - BudgetPoints[a.budget])
            + (VolumePoints[c.volume] - VolumePoints[a.volume]) + q - p
    BY <1>1, <1>2, <1>3, <1>4
<1> QED
    BY <1>5 DEF p, q

(***************************************************************************)
(* The claim for every form.                                               *)
(***************************************************************************)
LEMMA MoreNeverCools == \A a \in Answers : NoColderWithMore(a)
<1> SUFFICES ASSUME NEW a \in Answers PROVE NoColderWithMore(a)
    OBVIOUS
<1>1. ASSUME NEW b \in DOMAIN BudgetPoints, BudgetRank[b] >= BudgetRank[a.budget]
      PROVE  Score([a EXCEPT !.budget = b]) >= Score(a)
    <2> DEFINE c == [a EXCEPT !.budget = b]
    <2>1. /\ c \in Answers /\ c.budget = b /\ c.volume = a.volume /\ c.timeline = a.timeline
          /\ c.goal = a.goal /\ c.industry = a.industry
        BY DEF Answers
    <2> HIDE DEF c
    <2>2. BudgetPoints[c.budget] >= BudgetPoints[a.budget]
        BY <1>1, <2>1, BudgetsAreOrdered DEF Answers
    <2>3. IsIncoherent(c) => IsIncoherent(a)
        BY <1>1, <2>1, BudgetsAreOrdered DEF Answers, IsIncoherent
    <2>3a. /\ BudgetPoints[a.budget] \in Int /\ BudgetPoints[c.budget] \in Int
          /\ VolumePoints[a.volume] \in Int /\ VolumePoints[c.volume] = VolumePoints[a.volume]
          /\ RawTotal(a) \in Int /\ RawTotal(c) \in Int
        BY <2>1, PointsAreIntegers
    <2>3b. RawTotal(c) - RawTotal(a) =
              (BudgetPoints[c.budget] - BudgetPoints[a.budget])
                + (VolumePoints[c.volume] - VolumePoints[a.volume])
                + (IF IsIncoherent(c) THEN -10 ELSE 0) - (IF IsIncoherent(a) THEN -10 ELSE 0)
        BY <2>1, TotalsDiffer
    <2>4. RawTotal(a) <= RawTotal(c)
        BY <2>2, <2>3, <2>3a, <2>3b
    <2>5. Clamped(RawTotal(a)) <= Clamped(RawTotal(c))
        BY <2>1, <2>4, PointsAreIntegers, ClampingKeepsOrder
    <2>6. Clamped(RawTotal(a)) \in Int /\ Clamped(RawTotal(c)) \in Int
        BY <2>1, PointsAreIntegers DEF Clamped, MinScore, MaxScore
    <2> QED
        BY <2>5, <2>6 DEF c, Score
<1>2. ASSUME NEW v \in DOMAIN VolumePoints, MinVideos[v] > MinVideos[a.volume]
      PROVE  LET more == [a EXCEPT !.volume = v] IN
             IF IsIncoherent(more) /\ ~ IsIncoherent(a)
             THEN MinVideos[a.volume] = 12 => Score(more) <= Score(a)
             ELSE Score(more) >= Score(a)
    <2> DEFINE c == [a EXCEPT !.volume = v]
    <2>1. /\ c \in Answers /\ c.budget = a.budget /\ c.volume = v /\ c.timeline = a.timeline
          /\ c.goal = a.goal /\ c.industry = a.industry
        BY DEF Answers
    <2> HIDE DEF c
    <2>2. /\ VolumePoints[c.volume] >= VolumePoints[a.volume]
          /\ MinVideos[a.volume] = 12 => VolumePoints[c.volume] - VolumePoints[a.volume] <= 8
          /\ IsIncoherent(a) => IsIncoherent(c)
        BY <1>2, <2>1, VolumesAreOrdered DEF Answers, IsIncoherent
    <2>3. ASSUME ~(IsIncoherent(c) /\ ~IsIncoherent(a)) PROVE RawTotal(a) <= RawTotal(c)
        BY <2>1, <2>2, <2>3, PointsAreIntegers, TotalsDiffer
    <2>4. ASSUME IsIncoherent(c), ~IsIncoherent(a), MinVideos[a.volume] = 12
          PROVE  RawTotal(c) <= RawTotal(a)
        BY <2>1, <2>2, <2>4, PointsAreIntegers, TotalsDiffer
    <2>5. /\ RawTotal(a) <= RawTotal(c) => Clamped(RawTotal(a)) <= Clamped(RawTotal(c))
          /\ RawTotal(c) <= RawTotal(a) => Clamped(RawTotal(c)) <= Clamped(RawTotal(a))
        BY <2>1, PointsAreIntegers, ClampingKeepsOrder
    <2>6. Clamped(RawTotal(a)) \in Int /\ Clamped(RawTotal(c)) \in Int
        BY <2>1, PointsAreIntegers DEF Clamped, MinScore, MaxScore
    <2>7. IF IsIncoherent(c) /\ ~ IsIncoherent(a)
          THEN MinVideos[a.volume] = 12 => Score(c) <= Score(a)
          ELSE Score(c) >= Score(a)
        BY <2>3, <2>4, <2>5, <2>6 DEF Score
    <2> QED
        BY <2>7 DEF c
<1> QED
    BY <1>1, <1>2 DEF NoColderWithMore

-----------------------------------------------------------------------------
(***************************************************************************)
(* THE FORM'S VALUES, for any texts, forms, campaigns and referrers: what  *)
(* an answer says about a form that the client's schema let through.       *)
(***************************************************************************)
(***************************************************************************)
(* What the tab remembers is cut, and of the last campaign it remembered;  *)
(* what was submitted passed the client's schema.                          *)
(***************************************************************************)
FormInHand ==
    /\ stash.chars \in 0..255
    /\ stash.torn \in BOOLEAN
    /\ stash.referrer \in Nat
    /\ stash.campaign = latest
    /\ ~stash.kept => latest = "none"
    /\ phase \in {"submitting", "error", "thanked"} => entered \in Forms /\ Passes(entered)

FormInv == FormInHand /\ EnquiryIsKept
-----------------------------------------------------------------------------
(***************************************************************************)
(* What is cut is no longer than its column.                               *)
(***************************************************************************)
LEMMA SlicesAreShort ==
    ASSUME NEW t \in Texts, NEW s \in Slices(t)
    PROVE  s.chars \in 0..255 /\ s.torn \in BOOLEAN
<1>1. t.chars \in Nat /\ t.pairs \in Nat
    BY LeadFormAssumption
<1>2. CASE Units(t) <= 255
    <2>1. s = [chars |-> t.chars, torn |-> FALSE]
        BY <1>2 DEF Slices
    <2>2. t.chars <= 255
        BY <1>1, <1>2 DEF Units
    <2> QED
        BY <1>1, <2>1, <2>2
<1>3. CASE ~(Units(t) <= 255)
    BY <1>3 DEF Slices
<1> QED
    BY <1>2, <1>3

(***************************************************************************)
(* The units that the client counts are no fewer than the characters that  *)
(* the server counts: what passes is within the server's limits.           *)
(***************************************************************************)
LEMMA PassedFormsFit ==
    ASSUME NEW form \in Forms, Passes(form)
    PROVE  /\ \A i \in Inputs : form.texts[i].chars \in Nat /\ form.texts[i].chars <= SchemaLimit[i]
           /\ \A i \in Required : form.texts[i].chars >= 1
           /\ form.email \in {"valid", "odd"}
           /\ form.scheme \in BOOLEAN
<1>1. /\ form.texts \in [Inputs -> Texts]
      /\ form.email \in {"valid", "odd", "wrong"} /\ form.scheme \in BOOLEAN
    BY LeadFormAssumption
<1>2. ASSUME NEW i \in Inputs
      PROVE  form.texts[i].chars \in Nat /\ form.texts[i].chars <= SchemaLimit[i]
    <2>1. form.texts[i].chars \in Nat /\ form.texts[i].pairs \in Nat
        BY <1>1, LeadFormAssumption
    <2>2. form.texts[i].chars + form.texts[i].pairs <= ClientLimit[i]
        BY DEF Passes, Units
    <2>3. ClientLimit[i] = SchemaLimit[i] /\ ClientLimit[i] \in Nat
        BY DEF ClientLimit, SchemaLimit, Inputs
    <2> QED
        BY <2>1, <2>2, <2>3
<1> QED
    BY <1>1, <1>2 DEF Passes

(***************************************************************************)
(* What the API's schema complains of, and the database refuses, in a form *)
(* that is on its way: the reasons, and nothing else.                      *)
(***************************************************************************)
LEMMA OnlyForAReason ==
    ASSUME FormInHand, phase = "submitting"
    PROVE  /\ IsMeaningful
           /\ Complaints = {} /\ FitsColumns <=> Reasons = {}
           /\ Complaints \cap (Inputs \cup {"email"}) = Reasons \cap {"email"}
<1>1. /\ \A i \in Inputs : entered.texts[i].chars \in Nat /\ entered.texts[i].chars <= SchemaLimit[i]
      /\ \A i \in Required : entered.texts[i].chars >= 1
      /\ entered.email \in {"valid", "odd"} /\ entered.scheme \in BOOLEAN
      /\ stash.chars \in 0..255 /\ stash.torn \in BOOLEAN /\ stash.referrer \in Nat
    BY PassedFormsFit DEF FormInHand
<1>2. IsMeaningful
    BY <1>1 DEF IsMeaningful, MaxMessageLength, SchemaLimit, Inputs
<1>3. Complaints = {e \in {"email"} : entered.email = "odd"}
                       \cup {a \in {"attribution.utm"} : stash.torn}
                       \cup {a \in {"attribution.referrer"} : stash.referrer > 1024}
    <2>1. {i \in Inputs : entered.texts[i].chars > SchemaLimit[i]} = {}
        <3>1. \A i \in Inputs : SchemaLimit[i] \in Nat
            BY DEF SchemaLimit, Inputs
        <3> QED
            BY <1>1, <3>1
    <2>2. {i \in Required : entered.texts[i].chars < 1} = {}
        <3>1. Required \subseteq Inputs
            BY DEF Required, Inputs
        <3> QED
            BY <1>1, <3>1
    <2>3. {e \in {"email"} : entered.email # "valid"} = {e \in {"email"} : entered.email = "odd"}
        BY <1>1
    <2>4. ~(stash.chars > 255)
        BY <1>1
    <2> QED
        BY <2>1, <2>2, <2>3, <2>4 DEF Complaints
<1>4. FitsColumns <=>
        /\ ~(~entered.scheme /\ entered.texts["website"].chars \in 505..512)
        /\ stash.referrer <= 1024
    <2>1. /\ Row.lengths["website"] = IF entered.texts["website"].chars > 0 /\ ~entered.scheme
                                      THEN entered.texts["website"].chars + 8
                                      ELSE entered.texts["website"].chars
          /\ \A i \in Inputs \ {"website"} : Row.lengths[i] = entered.texts[i].chars
        BY DEF Row, Prefix, Inputs
    <2>2. /\ \A i \in DOMAIN ColumnWidth : i \in Inputs
          /\ \A i \in DOMAIN ColumnWidth \ {"website"} : ColumnWidth[i] = SchemaLimit[i]
          /\ "website" \in DOMAIN ColumnWidth
          /\ ColumnWidth["website"] = 512 /\ SchemaLimit["website"] = 512 /\ "website" \in Inputs
        BY DEF ColumnWidth, SchemaLimit, Inputs
    <2>3. \A i \in DOMAIN ColumnWidth \ {"website"} : Row.lengths[i] <= ColumnWidth[i]
        BY <1>1, <2>1, <2>2
    <2>4. Row.lengths["website"] <= 512 <=>
             ~(~entered.scheme /\ entered.texts["website"].chars \in 505..512)
        BY <1>1, <2>1, <2>2
    <2> QED
        BY <1>1, <2>2, <2>3, <2>4 DEF FitsColumns
<1>5. "email" \notin Inputs /\ "attribution.utm" \notin Inputs /\ "attribution.referrer" \notin Inputs
    BY DEF Inputs
<1>6. Complaints \cap (Inputs \cup {"email"}) = Reasons \cap {"email"}
    BY <1>3, <1>5 DEF Reasons
<1>7. Complaints = {} /\ FitsColumns <=> Reasons = {}
    BY <1>1, <1>3, <1>4 DEF Reasons
<1> QED
    BY <1>2, <1>6, <1>7

(***************************************************************************)
(* Nobody has arrived.                                                     *)
(***************************************************************************)
LEMMA FormBegins == FormInit => FormInv
BY DEF FormInit, Nothing, FormInv, FormInHand, EnquiryIsKept

(***************************************************************************)
(* A visit with a campaign replaces what is remembered; one without does   *)
(* so only when nothing is.                                                *)
(***************************************************************************)
LEMMA ArrivalKeeps ==
    ASSUME FormInv, Mounted, NEW campaign \in Campaigns \cup {"none"}, NEW referrer \in Referrers,
           NEW slice, slice.chars \in 0..255, slice.torn \in BOOLEAN,
           CaptureAttribution(campaign, slice, referrer)
    PROVE  FormInv'
<1>1. phase' = "idle" /\ referrer \in Nat
    BY LeadFormAssumption DEF Mounted
<1>2. FormInHand'
    <2>1. CASE stash.kept /\ campaign = "none"
        BY <1>1, <2>1 DEF CaptureAttribution, FormInv, FormInHand
    <2>2. CASE ~(stash.kept /\ campaign = "none")
        BY <1>1, <2>2 DEF CaptureAttribution, FormInv, FormInHand
    <2> QED
        BY <2>1, <2>2
<1>3. EnquiryIsKept'
    BY <1>1 DEF EnquiryIsKept
<1> QED
    BY <1>2, <1>3 DEF FormInv

(***************************************************************************)
(* An answer is about the form and the attribution that were sent.         *)
(***************************************************************************)
LEMMA AnswerKeeps ==
    ASSUME FormInv, RefuseForm \/ FailToStore \/ StoreForm
    PROVE  FormInv'
<1>1. /\ phase = "submitting" /\ UNCHANGED <<stash, latest, entered>>
      /\ phase' \in {"error", "thanked"}
    BY DEF RefuseForm, FailToStore, StoreForm, ShowAnswer
<1>2. FormInHand'
    BY <1>1 DEF FormInv, FormInHand, Passes
<1>3. /\ IsMeaningful
      /\ Complaints = {} /\ FitsColumns <=> Reasons = {}
      /\ Complaints \cap (Inputs \cup {"email"}) = Reasons \cap {"email"}
    BY <1>1, OnlyForAReason DEF FormInv
<1>4. Reasons' = Reasons
    BY <1>1 DEF Reasons
<1>5. CASE RefuseForm
    <2>1. phase' = "error" /\ shown'.at = Complaints \cap (Inputs \cup {"email"}) /\ Complaints # {}
        BY <1>3, <1>5 DEF RefuseForm, ShowAnswer
    <2> QED
        BY <1>2, <1>3, <1>4, <2>1 DEF FormInv, EnquiryIsKept
<1>6. CASE FailToStore
    <2>1. phase' = "error" /\ shown'.at = {} /\ Complaints = {} /\ ~FitsColumns
        BY <1>6 DEF FailToStore, ShowAnswer
    <2> QED
        BY <1>2, <1>3, <1>4, <2>1 DEF FormInv, EnquiryIsKept
<1>7. CASE StoreForm
    <2>1. phase' = "thanked" /\ row' = Row /\ Complaints = {} /\ FitsColumns
        BY <1>7 DEF StoreForm
    <2>2. Reasons' = {}
        BY <1>3, <1>4, <2>1
    <2>3. row'.campaign = latest'
        BY <1>1, <2>1 DEF Row, FormInv, FormInHand
    <2>4. \A i \in Inputs \ {"website"} : row'.lengths[i] = entered'.texts[i].chars
        BY <1>1, <2>1 DEF Row
    <2>5. row'.lengths["website"] - entered'.texts["website"].chars \in {0, Prefix}
        <3>1. entered.texts["website"].chars \in Nat
            BY <1>1, PassedFormsFit DEF FormInv, FormInHand, Inputs
        <3>2. row'.lengths["website"] \in {entered.texts["website"].chars,
                                          entered.texts["website"].chars + 8}
            BY <2>1 DEF Row, Inputs, Prefix
        <3> QED
            BY <1>1, <3>1, <3>2 DEF Prefix
    <2> QED
        BY <1>2, <2>1, <2>2, <2>3, <2>4, <2>5 DEF FormInv, EnquiryIsKept
<1> QED
    BY <1>5, <1>6, <1>7

(***************************************************************************)
(* FormInv is inductive.                                                   *)
(***************************************************************************)
LEMMA FormGoesOn == FormInv /\ [FormNext]_formVars => FormInv'
<1> SUFFICES ASSUME FormInv, [FormNext]_formVars PROVE FormInv'
    OBVIOUS
<1>1. CASE ArriveByCampaign
    BY <1>1, ArrivalKeeps, SlicesAreShort DEF ArriveByCampaign
<1>2. CASE ArriveDirectly
    <2>1. PICK referrer \in Referrers :
              CaptureAttribution("none", [chars |-> 0, torn |-> FALSE], referrer)
        BY <1>2 DEF ArriveDirectly
    <2> DEFINE slice == [chars |-> 0, torn |-> FALSE]
    <2>2. slice.chars \in 0..255 /\ slice.torn \in BOOLEAN
        OBVIOUS
    <2> HIDE DEF slice
    <2> QED
        BY <1>2, <2>1, <2>2, ArrivalKeeps DEF ArriveDirectly, slice
<1>3. CASE ArriveUnremembered
    BY <1>3 DEF ArriveUnremembered, Mounted, FormInv, FormInHand, EnquiryIsKept
<1>4. ASSUME NEW form \in Forms, SubmitForm(form) PROVE FormInv'
    BY <1>4 DEF SubmitForm, FormInv, FormInHand, EnquiryIsKept, Passes
<1>5. CASE RefuseForm \/ FailToStore \/ StoreForm
    BY <1>5, AnswerKeeps
<1>6. CASE UNCHANGED formVars
    BY <1>6 DEF formVars, FormInv, FormInHand, EnquiryIsKept, Reasons, Passes
<1> QED
    BY <1>1, <1>2, <1>3, <1>4, <1>5, <1>6 DEF FormNext

(***************************************************************************)
(* Whatever is typed and whatever the tab remembers: a form that passed is *)
(* stored as it was entered, under the campaign of the last visit that     *)
(* carried one, unless one of four known disagreements refuses it.         *)
(***************************************************************************)
THEOREM EnquiriesAreKept == FormSpec => []EnquiryIsKept
<1>1. FormInv => EnquiryIsKept
    BY DEF FormInv
<1> QED
    BY <1>1, FormBegins, FormGoesOn, PTL DEF FormSpec

-----------------------------------------------------------------------------
(***************************************************************************)
(* MCBackend's behaviours: of each part, one of that part's own, whatever  *)
(* the others do.  What is proved of a part above holds of them.               *)
(***************************************************************************)
LEMMA PartsStep ==
    ASSUME [MCNext]_allVars
    PROVE  /\ [ContainerNext]_containerVars
           /\ [LimiterNext]_limiterVars
           /\ [BriefNext]_briefVars
           /\ [BatchNext]_batchVars
           /\ [RetryNext]_retryVars
           /\ [FormNext]_formVars
<1> USE DEF allVars
<1>1. CASE UNCHANGED allVars
    BY <1>1
<1>2. CASE MCNext
    BY <1>2 DEF MCNext
<1> QED
    BY <1>1, <1>2

(***************************************************************************)
(* A run's behaviour is, seen from each part, one of its own specification *)
(* (the container's without its fairness, which safety does not need).     *)
(***************************************************************************)
THEOREM PartsAreTheirOwn ==
    MCSpec => /\ ContainerInit /\ [][ContainerNext]_containerVars
              /\ LimiterSpec
              /\ BriefInit /\ [][BriefNext]_briefVars
              /\ BatchSpec
              /\ RetrySpec
              /\ FormSpec
<1>1. MCInit => /\ ContainerInit /\ LimiterInit /\ BriefInit /\ BatchInit /\ RetryInit
                /\ FormInit
    BY DEF MCInit
<1> QED
    BY <1>1, PartsStep, PTL DEF MCSpec, LimiterSpec, BatchSpec, RetrySpec, FormSpec

(***************************************************************************)
(* There are answers to score.                                             *)
(***************************************************************************)
LEMMA SomethingToScore == SomeAnswers \in Answers
<1>1. [budget |-> "UNDER_2K", volume |-> "FOUR", timeline |-> "IMMEDIATELY",
       goal |-> "SALES", industry |-> "DENTAL"] \in Answers
    BY DEF Answers, BudgetPoints, VolumePoints, TimelinePoints, GoalPoints, IndustryPoints
<1> QED
    BY <1>1 DEF SomeAnswers

(***************************************************************************)
(* No form that the schema accepts is scored colder for a larger budget,   *)
(* or for a larger volume where the coherence rule has nothing to say.     *)
(***************************************************************************)
THEOREM LargerIsNoColder == MCSpec => []MoreIsNeverColder
<1>1. MCInit => scored \in Answers
    BY SomethingToScore DEF MCInit
<1>2. scored \in Answers /\ [MCNext]_allVars => (scored \in Answers)'
    BY DEF MCNext, allVars
<1>3. scored \in Answers => MoreIsNeverColder
    BY MoreNeverCools DEF MoreIsNeverColder
<1> QED
    BY <1>1, <1>2, <1>3, PTL DEF MCSpec
-----------------------------------------------------------------------------
(***************************************************************************)
(* "... makes the clamp a safety net rather than a routine occurrence"     *)
(* (domain/leads/scoring.py): it is none at all, as no form that the       *)
(* schema accepts is clamped.  The best scores 100 exactly; the penalty is *)
(* for large volumes, whose points pay for it.                             *)
(***************************************************************************)
THEOREM ClampNeverBites == \A a \in Answers : Score(a) = RawTotal(a)
<1> SUFFICES ASSUME NEW a \in Answers PROVE Score(a) = RawTotal(a)
    OBVIOUS
<1>1. BudgetPoints[a.budget] \in 5..30 /\ VolumePoints[a.volume] \in 4..20
    BY PointsAreIntegers
<1>2. TimelinePoints[a.timeline] \in 2..20
    BY DEF Answers, TimelinePoints
<1>3. GoalPoints[a.goal] \in 8..15
    BY DEF Answers, GoalPoints
<1>4. IndustryPoints[a.industry] \in 7..15
    BY DEF Answers, IndustryPoints
<1>5. RawTotal(a) \in 0..100
    BY <1>1, <1>2, <1>3, <1>4 DEF RawTotal, Penalty
<1> QED
    BY <1>5 DEF Score, Clamped, MinScore, MaxScore
=============================================================================
