---------------------------- MODULE RetryPolicy ----------------------------
(***************************************************************************)
(* How long an event waits after a delivery that failed: what HubSpot's    *)
(* answer is taken for, its Retry-After header, and the backoff, over the  *)
(* attempts of one event.                                                  *)
(*                                                                         *)
(* Sources: infrastructure/hubspot/errors.py and client.py,                *)
(* application/errors.py; compute_backoff, retry_delay and _deliver in     *)
(* application/services/outbox_dispatcher.py.  Times are whole seconds; a  *)
(* header that is a number is given in halves of a second.                 *)
(***************************************************************************)
EXTENDS Integers

CONSTANTS
    MaxBackoff,   \* MAX_BACKOFF_SECONDS, 3600
    MaxAttempts,  \* outbox_max_attempts, 6
    Codes,        \* the statuses HubSpot answers with
    Headers       \* the Retry-After headers it sends

Kinds == {"none", "date", "nan", "inf", "number"}

ASSUME RetryPolicyAssumption ==
    /\ MaxBackoff \in 2..3600
    /\ MaxAttempts \in Nat
    /\ Codes \subseteq 100..599
    /\ Headers \subseteq [kind : Kinds, halves : Int]

VARIABLES
    tries,   \* the attempts of the event
    fate,    \* "pending", "failed", "processed" or "dead"
    delay,   \* how long it waits for the next attempt: next_attempt_at - now
    answer   \* history: the status and header of the last answer; 0 if none came

retryVars == <<tries, fate, delay, answer>>

BaseBackoff   == 2
RetryAfterCap == 3600

PermanentStatuses == {400, 401, 403, 404, 405, 422}
TransientStatuses == {408, 425, 429, 500, 502, 503, 504}

(***************************************************************************)
(* A Retry-After header: none, a date, a nan, an infinity or a number.     *)
(***************************************************************************)
Word(kind) == [kind |-> kind, halves |-> 0]
Number(n)  == [kind |-> "number", halves |-> n]

NoAnswer == [status |-> 0, header |-> Word("none")]

RetryInit == tries = 0 /\ fate = "pending" /\ delay = 0 /\ answer = NoAnswer

-----------------------------------------------------------------------------
(***************************************************************************)
(* Variant: only the upper end is clamped.                                 *)
(***************************************************************************)
ClampedWaitUpper(seconds) == IF seconds > RetryAfterCap THEN RetryAfterCap ELSE seconds

ClampedWait(seconds) ==
    IF seconds < 1 THEN 1 ELSE IF seconds > RetryAfterCap THEN RetryAfterCap ELSE seconds

Truncated(halves) == IF halves < 0 THEN -((-halves) \div 2) ELSE halves \div 2

(***************************************************************************)
(* _retry_after: the seconds asked for, if any.  float() refuses a date;   *)
(* int() of a nan raises the ValueError that is caught, int() of an        *)
(* infinity an OverflowError that is not.                                  *)
(***************************************************************************)
RetryAfter(header) ==
    IF header.kind = "number" THEN {ClampedWait(Truncated(header.halves))} ELSE {}

Overflows(header) == header.kind = "inf"

(***************************************************************************)
(* What upsert_contact ends with: "ok", or the exception it raises.        *)
(***************************************************************************)
Raised(kind) == [kind |-> kind, retryAfter |-> {}]

Throttled(header) ==
    IF Overflows(header)
    THEN Raised("unclassified")
    ELSE [kind |-> "transient", retryAfter |-> RetryAfter(header)]

(***************************************************************************)
(* Variant: a request that timed out at the provider is refused for good.  *)
(***************************************************************************)
ClassifyResponseHarsh(status, header) ==
    CASE status \in 200..299 -> Raised("ok")
      [] status \in PermanentStatuses \cup {408} -> Raised("permanent")
      [] status \in TransientStatuses \ {408} \/ status >= 500 -> Throttled(header)
      [] OTHER -> Raised("transient")

ClassifyResponse(status, header) ==
    CASE status \in 200..299 -> Raised("ok")
      [] status \in PermanentStatuses -> Raised("permanent")
      [] status \in TransientStatuses \/ status >= 500 -> Throttled(header)
      [] OTHER -> Raised("transient")

(***************************************************************************)
(* A timeout, a broken connection, anything httpx raises.                  *)
(***************************************************************************)
ClassifyException == Raised("transient")

Power[n \in Nat] == IF n = 0 THEN 1 ELSE BaseBackoff * Power[n - 1]

(***************************************************************************)
(* min(2 ** max(attempts, 1), MAX_BACKOFF_SECONDS)                         *)
(***************************************************************************)
Ceiling(attempts) ==
    LET exponent == IF attempts < 1 THEN 1 ELSE attempts
    IN  IF Power[exponent] > MaxBackoff THEN MaxBackoff ELSE Power[exponent]

(***************************************************************************)
(* Variant: full jitter, as the docstring calls it.                        *)
(***************************************************************************)
ComputeBackoffFull(attempts) == 0..Ceiling(attempts)

(***************************************************************************)
(* The delays compute_backoff may draw, to the second.                     *)
(***************************************************************************)
ComputeBackoff(attempts) == (Ceiling(attempts) \div 2)..Ceiling(attempts)

RetryDelay(outcome, attempts) ==
    IF outcome.retryAfter # {} THEN outcome.retryAfter ELSE ComputeBackoff(attempts)

-----------------------------------------------------------------------------
(***************************************************************************)
(* _deliver: the event is resolved by what the call came to.               *)
(***************************************************************************)
Resolve(outcome) ==
    \/ outcome.kind = "ok" /\ fate' = "processed" /\ delay' = 0
    \/ outcome.kind = "permanent" /\ fate' = "dead" /\ delay' = 0
    \/ /\ outcome.kind \notin {"ok", "permanent"}
       /\ \/ tries' >= MaxAttempts /\ fate' = "dead" /\ delay' = 0
          \/ /\ tries' < MaxAttempts
             /\ fate'  = "failed"
             /\ delay' \in RetryDelay(outcome, tries')

(***************************************************************************)
(* One attempt, claimed and delivered: upsert_contact is answered or not.  *)
(***************************************************************************)
Attempt ==
    /\ fate \in {"pending", "failed"}
    /\ tries' = tries + 1
    /\ \/ \E status \in Codes, header \in Headers :
            /\ Resolve(ClassifyResponse(status, header))
            /\ answer' = [status |-> status, header |-> header]
       \/ Resolve(ClassifyException) /\ answer' = NoAnswer

RetryNext == Attempt

RetrySpec == RetryInit /\ [][RetryNext]_retryVars
-----------------------------------------------------------------------------
(***************************************************************************)
(* "a malicious or malformed header should not park an event for a week":  *)
(* whatever the provider answered and at whatever attempt, an event that   *)
(* is to be tried again waits at least a second and at most an hour, after *)
(* an answer that nobody could classify, too.                              *)
(***************************************************************************)
WaitsAreBounded == fate = "failed" => delay \in 1..RetryAfterCap

(***************************************************************************)
(* "A provider that sent Retry-After gets to decide": after a throttled or *)
(* failed request (429, 408, 5xx) an event that has attempts left waits    *)
(* exactly the whole number of seconds asked, from a second to an hour,    *)
(* and one that has none left is the only one that is buried.              *)
(***************************************************************************)
RetryAfterIsHonoured ==
    LET asked == answer.header.halves \div 2 IN
    /\ answer.status \in TransientStatuses
    /\ answer.header = Number(2 * asked) /\ asked \in 1..RetryAfterCap
    => \/ fate = "failed" /\ delay = asked
       \/ fate = "dead" /\ tries >= MaxAttempts

Told(a) == a.header.kind = "number" /\ (a.status \in TransientStatuses \/ a.status >= 500)

(***************************************************************************)
(* "~2s, ~4s, ~8s ...": of two waits in a row that nobody prescribed the   *)
(* second is at least as long as the first, whatever the jitter draws, as  *)
(* long as the ceiling doubles.                                            *)
(***************************************************************************)
WaitsNeverShrink ==
    [][/\ fate = "failed" /\ fate' = "failed"
       /\ ~Told(answer) /\ ~Told(answer')
       /\ Power[tries'] <= MaxBackoff
       => delay' >= delay]_retryVars
=============================================================================
