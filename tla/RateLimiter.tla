---------------------------- MODULE RateLimiter -----------------------------
(***************************************************************************)
(* The limiter of the public lead endpoint: a fixed window per client, in  *)
(* a table of the process that is cleared as a whole when it holds too     *)
(* many clients, and lost when the process ends.                           *)
(*                                                                         *)
(* Source: api/rate_limit.py (enforce_rate_limit).  Time passes in ticks,  *)
(* several to the second, because the wait a client is told is truncated   *)
(* to seconds; no age past the window is told apart.                       *)
(***************************************************************************)
EXTENDS Integers, FiniteSets

CONSTANTS
    Clients,        \* the identities clients are told apart by
    Limit,          \* rate_limit_requests
    WindowSeconds,  \* rate_limit_window_seconds
    TicksPerSecond, \* granularity of the clock
    MaxTracked      \* _MAX_TRACKED_CLIENTS

ASSUME RateLimiterAssumption ==
    /\ Limit \in Nat
    /\ WindowSeconds \in Nat \ {0}
    /\ TicksPerSecond \in Nat \ {0}
    /\ MaxTracked \in Nat

VARIABLES
    buckets,  \* _BUCKETS: of each client in it, the age of its window and its count
    let,      \* history: the requests let through since the table was last cleared and
              \* no longer ago than a window, each by its age and its place in its window
    due       \* history: ticks until a refused client comes back as told; NotDue: none will

limiterVars == <<buckets, let, due>>

Window == WindowSeconds * TicksPerSecond
NotDue == -1

(***************************************************************************)
(* The requests a window lets through: its first one is not refused.       *)
(***************************************************************************)
Quota == IF Limit < 1 THEN 1 ELSE Limit

LimiterInit ==
    /\ buckets = <<>>
    /\ let     = [c \in Clients |-> {}]
    /\ due     = [c \in Clients |-> NotDue]

Aged(requests) == {<<r[1] + 1, r[2]>> : r \in {q \in requests : q[1] + 1 < Window}}

Tick ==
    /\ buckets' = [c \in DOMAIN buckets |->
                      [buckets[c] EXCEPT !.age = IF @ < Window THEN @ + 1 ELSE @]]
    /\ let' = [c \in Clients |-> Aged(let[c])]
    /\ due' = [c \in Clients |-> IF due[c] > 0 THEN due[c] - 1 ELSE due[c]]

-----------------------------------------------------------------------------
Full == Cardinality(DOMAIN buckets) > MaxTracked

(***************************************************************************)
(* The table as a request finds it, and what is known of the past with it. *)
(***************************************************************************)
Table  == IF Full THEN <<>> ELSE buckets
Past   == IF Full THEN [c \in Clients |-> {}] ELSE let
StillDue == IF Full THEN [c \in Clients |-> NotDue] ELSE due

(***************************************************************************)
(* A client that is not in the table has a window that began long ago.     *)
(***************************************************************************)
Expired(c) == c \in DOMAIN Table => Table[c].age >= Window

LetThrough(c, bucket) ==
    /\ buckets' = [d \in DOMAIN Table \cup {c} |-> IF d = c THEN bucket ELSE Table[d]]
    /\ let'     = [Past EXCEPT ![c] = @ \cup {<<0, bucket.count>>}]

(***************************************************************************)
(* Variant: the request that opens a window is not counted in it.          *)
(***************************************************************************)
OpenUncounted(c) ==
    /\ Expired(c)
    /\ LetThrough(c, [age |-> 0, count |-> 0])
    /\ due' = [StillDue EXCEPT ![c] = NotDue]

(***************************************************************************)
(* The first of a window is let through whatever the limit is.             *)
(***************************************************************************)
Open(c) ==
    /\ Expired(c)
    /\ LetThrough(c, [age |-> 0, count |-> 1])
    /\ due' = [StillDue EXCEPT ![c] = NotDue]

Count(c) ==
    /\ ~Expired(c)
    /\ Table[c].count < Limit
    /\ LetThrough(c, [Table[c] EXCEPT !.count = @ + 1])
    /\ due' = StillDue

(***************************************************************************)
(* Variant: the seconds that have passed, not those that are left.         *)
(***************************************************************************)
RetrySecondsPassed(age) == age \div TicksPerSecond

RetrySeconds(age) ==
    LET left == (Window - age) \div TicksPerSecond
    IN  IF left < 1 THEN 1 ELSE left

(***************************************************************************)
(* Refused, with the seconds to wait truncated.                            *)
(***************************************************************************)
TurnDown(c) ==
    /\ ~Expired(c)
    /\ Table[c].count >= Limit
    /\ due' = [StillDue EXCEPT ![c] = (RetrySeconds(Table[c].age) + 1) * TicksPerSecond]
    /\ UNCHANGED <<buckets, let>>

(***************************************************************************)
(* The process is replaced.                                                *)
(***************************************************************************)
Forget ==
    /\ buckets' = <<>>
    /\ let'     = [c \in Clients |-> {}]
    /\ due'     = [c \in Clients |-> NotDue]

LimiterNext ==
    \/ Tick
    \/ \E c \in Clients : Open(c) \/ Count(c) \/ TurnDown(c)
    \/ Forget

LimiterSpec == LimiterInit /\ [][LimiterNext]_limiterVars
-----------------------------------------------------------------------------
(***************************************************************************)
(* Almost twice the limit: between two clears of the table, no client is   *)
(* let through more than 2 * Limit - 1 times within any window's length,   *)
(* wherever it starts; with a limit of zero, no more than once.            *)
(***************************************************************************)
SlidingBound == \A c \in Clients : Cardinality(let[c]) < 2 * Quota

(***************************************************************************)
(* "Please try again in n seconds": a client that waits for a second more  *)
(* than it was told is not refused for the window it was refused in.       *)
(***************************************************************************)
WaitingSuffices == \A c \in Clients : due[c] = 0 => Expired(c)
=============================================================================
