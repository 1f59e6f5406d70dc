# Verification of Fluxframe Media's lead system

This directory is a TLA+ development of the program in `src/`: a website that
captures leads, scores them, moves them through a sales lifecycle and pushes
them into a CRM through a transactional outbox. It models the parts in which
several actors, crashes, retries and the order of things decide whether a lead
is lost, duplicated or misreported. TLC checks small instances, TLAPS proves
the main properties for every value of the constants. Every definition that
models code is tied to its lines in `PROJECT.json` ("map").

Paths below are relative to `src/backend/app/` unless they start with `src/`.

## 1. The system

### Components

| Component | State it keeps | Operations | Interacts with |
|---|---|---|---|
| Lead capture (`api/v1/leads.py`, `application/services/lead_service.py`) | none of its own | `capture_lead` | writes leads, timeline and outbox in one unit of work |
| Unit of work (`infrastructure/database/unit_of_work.py`, `repositories.py`, `mappers.py`) | session, identity map | enter, commit, rollback | PostgreSQL, READ COMMITTED, no row versions, unique index on `idempotency_key` |
| Lead aggregate (`domain/leads/`) | status, score, CRM columns, pending events | `capture`, `transition_to`, `rescore`, `mark_crm_*` | called by the services on a row they loaded |
| Lead service | none | `transition_status`, `rescore_lead` | dashboard requests |
| Outbox store (`infrastructure/database/outbox_store.py`) | table `outbox_events` | `claim_batch`, `mark_*`, `reclaim_stalled`, `replay` | dispatcher, producers |
| Dispatcher (`application/services/outbox_dispatcher.py`) | the batch of a pass | `dispatch_once`, `_deliver`, `replay` | store, handlers, clock |
| Worker (`workers/outbox_worker.py`) | its task, a stop event | `start`, `stop`, loop | one per backend process |
| CRM sync (`application/services/crm_sync_service.py`) | none | `sync_lead` | handler of `LeadCaptured`; HubSpot client; leads |
| HubSpot client (`infrastructure/hubspot/`) | none | `upsert_contact`, error classes | the CRM |
| Scoring (`domain/leads/scoring.py`) | none | `score_lead` | pure |
| Rate limiter (`api/rate_limit.py`) | per-client windows | `enforce_rate_limit` | capture endpoint |
| Sales brief (`application/services/sales_brief_service.py`, `infrastructure/ai/`) | timeline entry, `ai_runs` | `generate_for_lead` | the model provider |
| Demo generator (`application/services/demo_lead_service.py`, `application/demo/personas.py`) | none | `generate` | capture, one lead at a time; the scorer |
| Admin and dashboard API (`api/v1/admin.py`, `dashboard.py`) | none | dispatch, replay, reads, transitions | dispatcher, services, read models |
| Read models (`infrastructure/database/read_models.py`, `lead_query_service.py`) | none | list, counters, one lead's detail | the tables, one snapshot per statement |
| Start-up and shutdown (`main.py`), `src/scripts/start-combined.sh`, `src/railway.toml` | worker, engine, processes | lifespan, supervision, restart | all of the above |
| Booking form (`src/frontend/src/components/leads/book-call-form.tsx`, `lib/`) | form state, attribution of the tab | mount, submit, thank or show an error | the capture endpoint |
| Dashboard pages (`src/frontend/src/components/dashboard/`, `app/(internal)/`) | what is on the page, buttons | open, page, move, rescore, generate | the dashboard API through the proxy |

### How a lead travels

`POST /leads` looks for the idempotency key, lets the aggregate validate and
score itself, and commits the lead, two timeline entries and its events at once;
a second request with the key finds the lead (200) or meets the unique index
(409). A worker polls the outbox: it frees rows whose claim is older than
`stalled_after_seconds`, claims up to a batch of due rows with `FOR UPDATE SKIP
LOCKED`, and resolves them one by one: no handler, processed; handler returned,
processed; `CrmPermanentError`, dead; anything else, failed with a delay, or
dead when the attempts have run out. The handler of `LeadCaptured` reads the
lead, skips or calls the CRM outside any transaction, and records the outcome
in a unit of work of its own. Meanwhile the dashboard moves and rescores leads.

### What is hard

* **Interleaving.** Two backend processes poll the same table; an operator can
  force a pass; requests read, decide and write the same lead without a lock.
* **Stale state.** One clock reading per pass; outcomes written without looking
  at what the row has become; aggregates written back after others committed.
* **Crashes.** A process may stop between any two transactions; nobody records
  who holds a claim, only since when.
* **Delivery.** At-least-once: events are redelivered, a CRM call may have been
  applied although it timed out, a commit may go through unheard.
* **Time.** Stalled claims, backoffs, windows: ages compared with thresholds
  that nothing relates to how long the work takes.
* **Stale pages.** A browser shows what was committed when it was read, in two
  or three statements; buttons, links and counters act on it later.
* **Shutdown.** Two processes, a worker inside one of them, signals at any time,
  and a platform that decides by the exit code alone whether to restart.

`PROJECT.json` lists every hazard at its line under "hazards" with the
properties that watch it, or why none does yet.

### What makes each part correct

* Capture: one lead per key, whatever races; events exactly for stored leads; a
  retry is recognised; an answer never names a lead that is not the key's.
* Outbox: an event in flight belongs to one worker; a settled row stays
  settled; nothing is acknowledged without a delivery or buried without reason;
  everything is settled in the end; a crash-looping event is not retried for ever.
* Lead: the status follows the lifecycle, the timeline explains it, the CRM
  columns tell the truth about the CRM, and an established contact is not lost.
* Form: who is thanked has a lead stored, with what was entered and the campaign
  that led there; one impatient click does not send a second request; nobody is
  left with a form that sends for ever.
* Dashboard: paging misses no lead; a page's timeline explains its status; a
  button is refused only when somebody else moved the lead.
* Retries, limits, scores: waits honour the provider and grow to a cap; no
  window lets through twice the limit; more budget or volume cools no lead.
* Container: a crash is never reported as success; half a service does not stay
  up; nothing is closed under the worker.
* Brief and batch: `ai_runs`, timeline and answer agree; a batch that fails
  leaves its first leads, all of them.

## 2. The modules

| Module | What it is |
|---|---|
| `Outbox` | the table, the passes of the workers, replays and time |
| `Delivery` | what the outbox promises: an abstract specification without clock, attempts or rows |
| `OutboxProofs`, `OutboxRefinement` | theorems about `Outbox`; that it implements `Delivery` |
| `LeadCapture` | requests, the look for the key, the commit against the unique index |
| `IdempotentCapture` | what the endpoint promises a form: a key is captured once |
| `LeadCaptureProofs` | theorems about `LeadCapture`; that it implements `IdempotentCapture` |
| `LeadLifecycle` | the transition table and the state machine it promises |
| `LeadRow` | one lead's row and the units of work that race on it |
| `LeadRowProofs` | theorems about `LeadRow` |
| `RetryPolicy` | HubSpot's answers, `Retry-After`, the backoff, over the attempts of one event |
| `Scoring` | the scoring rules as operators over every combination of answers |
| `Personas` | the demo personas: weights, redraws and the band aimed for; on `Scoring` |
| `DemoBatch` | a batch of personas, one capture after the other; on `Personas` |
| `RateLimiter` | the window of each client, the table's clear, the seconds told |
| `SalesBrief` | a brief from the read to the record of the call |
| `Container` | supervisor script, backend lifespan, worker, platform |
| `LeadForm` | a form's values through the client's schema, the API's schema, the aggregate and the columns |
| `LeadList`, `LeadListProofs` | the dashboard's list and counters, read while captures go on; on `LeadCapture` and `Scoring`; theorems |
| `Website`, `WebsiteProofs` | booking forms in browsers, over `LeadCapture`; theorems |
| `LeadDesk`, `LeadDeskProofs` | tabs at one lead's page, over `LeadRow`; theorems |
| `MCOutbox`, `MCLeadCapture`, `MCLeadRow`, `MCLeadList` | instances for TLC |
| `MCBackend`, `BackendProofs` | the seven parts that share no state, side by side for TLC; theorems about each of them |

A definition whose comment starts with "Variant:" is a plausible slip of the
code, written above the definition it stands in for. No specification uses it:
put in place of that definition, it makes a property fail.

### Outbox

State: the columns `status`, `attempts`, `nextIn` (`next_attempt_at` relative to
now) and `claimAge` (how long ago `claimed_at` is); per worker the `phase` of
its pass, `passAge` (how long ago its clock was read), the records it `held`
with the attempts each showed (`seen`), the record in its hands and the
handler's `result`. Each statement of the store is a transaction and so one
action; between two of them anything may happen. `ReadClock`, `ReclaimStalled`,
`ClaimBatch` are the head of `dispatch_once`; `HandlerCall` and `HandlerReturns`
bracket a delivery; `SkipUnhandled`, `MarkProcessed`, `MarkDead`, `MarkFailed`
record outcomes; `Replay` is the operator; `Abandon` is every way a pass ends
early: the process dies, `stop()` cancels it, or the store raises. A pass an
operator forces with `POST /outbox/dispatch` is a pass of one more worker.

Times are relative to the clock, so behaviours need no bound on time: an age
stops counting when no comparison can tell it from an older one (`AgeCap`), and
a tick forgets ages that a row's status makes unreadable. A worker reads the
clock once (`passAge = 0`); its reclaim and its claim compare against that
reading however late they run, as the code does, and a claim is stamped with it.

`_set` and `replay` read a row and write it in one short transaction; they are
one action, which leaves out writes that slip in between those two statements.
`retry_delay` is the set `Delays`; what it computes is `RetryPolicy`.

### LeadCapture

A request is submitted with a key and a payload, turned away before the use case
(422, 429, 503), answered from the fast path (200), rejected by the aggregate
(422), or staged and committed: 201, 409 when the unique index finds another
lead, or 500, with the row stored (`CreateUnheard`) or not (`Fail`). 500 stands
for no answer too. The session does not flush on its own
(`infrastructure/database/engine.py`), so nothing is written before the commit. The lead a
request creates takes the request's name. `late` remembers which requests were
sent when their key was already stored. Forms, double clicks, retries and the
demo generator are all just requests.

### LeadRow

One row, because units of work on different leads share nothing. A unit of work
loads the row, decides on what it loaded, and commits; in between others commit.
`Written` is what the session's UPDATE does: `apply_lead_to_row` assigns every
column, but only those that differ from the loaded value are written. That is
what keeps rescores and synchronisations from undoing each other, and what
properties of overlapping units of work rest on. A sync closes its transaction
before the call and reads the row again to record the outcome. `SkipAnswers` is
what `_should_skip` may answer, both when the credential may be added or removed
between deliveries. Columns that never change after the capture are left out, and
the timeline entries of scores and CRM outcomes. The domain never deletes a
lead, so the `lead is None` branches are left out.

### RetryPolicy, Scoring, Personas, DemoBatch

`RetryPolicy` follows one event through its attempts: what an answer of HubSpot
is classified as, what `_retry_after` makes of the header (halves of a second,
because a fraction is truncated, and words for what is no number), and the wait
`Resolve` stores. The jitter is every delay between half the ceiling and the
ceiling. `Scoring` is the point tables and the rules on top of them, and the
state of a run is simply the answers that are scored. `Personas` says which
answers a persona may end up with, for the band it aims at: those of its tables
that score in it, or any of its tables when the redraws have run out. `DemoBatch`
keeps the summary it gathers (`listed`) apart from the leads that are in the
database (`made`), because a capture may be committed and not heard of.

### RateLimiter

The age of each window instead of its start, in ticks of which there are
`TicksPerSecond` to a second. `let` is the history the code does not keep: the
requests let through less than a window ago, by their age and their place in
their bucket, so that a bound over *any* window can be stated, not only over the
code's own. The clear of a full table happens inside the request that finds it
full. `due` remembers what a refused client was told.

### LeadForm

One form in one tab. A text is its length after trimming, in characters, with
the number of those that JavaScript counts twice (`Units`), because the client
counts UTF-16 code units where Python and PostgreSQL count characters. `stash`
is what `captureAttribution` remembers, `CaptureAttribution` when it replaces
it, `Slices` what `slice(0, 255)` may leave, half a pair included. `Passes` is
the client's schema, `Complaints` the API's, `IsMeaningful` the aggregate's own
check, `Row` what the validators make of the texts, `FitsColumns` what PostgreSQL
takes of it (SQLite takes everything); the three answers are `StoreForm`,
`RefuseForm` and `FailToStore`, and `ShowAnswer` keeps of a 422's fields those
the form has. Left out: the selects and the key, which both sides take from one
vocabulary; `landing_page`, which is a path of the site; what the validator of
addresses does to an address it takes; the control characters that Python strips
and JavaScript does not. One campaign stands for the five utm parameters.

### SalesBrief and Container

A request moves through `stage` from the read of the lead to its answer; the
timeline, `ai_runs` and the provider's bill are three sets that a failure may
leave in disagreement. `Container` has the script's position, both processes,
SIGTERMs on their way, the worker's task and what of the backend is open; a
crash is possible at every step, and the platform restarts on a non-zero code.

### LeadList, Website, LeadDesk

Each composes with the module of what it looks at. `LeadList` adds one reader to
`LeadCapture`: `COUNT`, `SELECT` and the counters are three steps, and
`createdAt` is when a capture read the clock, which is before its commit: a lead
may appear behind newer ones. The place of a lead on the list (`Rank`) is the
number of newer ones; two captures do not read the same instant.
`Website` adds forms to `LeadCapture`: a click sends a request, the button is
disabled by a later render, an answer or a broken connection settles one fetch,
and the endpoint's own actions run between all of these. `LeadDesk` adds tabs to
`LeadRow`: a page is the row and the timeline read one after the other, a button
drives one unit of work, and the refresh after it keeps the buttons disabled.
`moved`, `doubled`, `stored`, `shown` and `raced` are histories for properties.

## 3. The runs

| Run | Expect | What it shows |
|---|---|---|
| `outbox_exclusive` | pass | two workers, crashes, a replay, passes no longer than the threshold: exclusive delivery, settled rows stay, dead letters exhausted, `Delivery` implemented |
| `outbox_overlap` | pass | passes longer than the threshold: acknowledged means delivered, and everything is settled in the end |
| `outbox_overwritten` | violation | such a pass moves a processed event out of its terminal status |
| `outbox_crash_loop` | violation | a consumer that kills its worker is claimed beyond `max_attempts` |
| `leads_one_desk` | pass | one status request at a time among a rescore and two overlapping syncs |
| `leads_two_desks` | violation | two status requests: a lead leaves a terminal status |
| `leads_credential_removed` | violation | a redelivery rewrites `synced` to `skipped` |
| `capture_races` | pass | three requests, two forms and a reader of the list: one lead per key, events, retries, `IdempotentCapture` implemented, paging misses nothing, a quiet page agrees with itself |
| `capture_double_click` | violation | the loser of a double click is answered 409 |
| `website` | pass | two forms of a tab: thanked means stored, no impatient second click, every click is answered |
| `desk` | pass | two tabs at one lead: refusals are stale pages, pages are explained, own moves are shown, buttons come back |
| `backend` | pass | container, limiter, brief, batch, retries, form values and scorer: the properties of each |

A violation run shows a place where the code does not do what its own comments
or documents say; "findings" in `PROJECT.json` quotes the lines.

### Bounds and why they are enough

* Two workers are the least that overlap; two events the least of which one
  waits behind another, and one of them has no handler. Batches of two (exclusive)
  and of one (overlap) cover a batch that takes all and one that leaves work.
  They differ in `occurred_at`: the events of one lead that share it are
  `LeadCaptured` and `LeadMarkedHot`, and nothing consumes the second. `Batches`
  and the theorems allow ties.
* `MaxAttempts = 2` has a first attempt, a retry and a dead letter.
  `StalledAfter` is one or two ticks and `PassLimit` is below it (exclusive) or
  above it (overlap, and three times in `outbox_overwritten`, the ratio of
  20 deliveries of 45 seconds to 300 seconds).
* `MaxLag = 1` lets a claim use a stale clock reading. `MaxAbandons` and
  `MaxReplays` bound crashes and replays per behaviour; two crashes and a replay
  in `outbox_exclusive`. The liveness run has one crash and no replay.
* Leads: one desk, one rescorer and two syncs are one of each kind of writer and
  the pair of syncs a redelivery makes; `MaxMoves = 2` moves give a timeline with
  a joint. The rules have one version there: the score takes part in no property,
  a rescore matters for the columns it writes back.
* Capture: three requests of two forms are a race and a late retry of one form,
  or a race next to another form; payloads are hot, warm and invalid.
* The list: a page of one lead and two loads are a first page and a Next; three
  leads of which two match the filter push each other on. The two payloads lie
  on either side of the hot threshold.
* `website`: three requests of the one form that is submitted are a double click
  and a third attempt after an error; the other form is the reload. `desk`: two moves by two tabs are a move and a stale one;
  rescores and dispatches are unbounded.
* `backend`: two readiness attempts are the first and the last; one restart is
  one that is granted and one that is not. Three clients with a table of two
  fill it; a limit of two in a window of four ticks lets requests fall on every
  side of an edge. Three calls of a brief; batches of 0, 1, 3 and 4 leads with
  a maximum of 3. The two industries of the batch have the most and the fewest
  points, so that the bands lie furthest apart; the scorer takes all answers.
  `MaxBackoff` is scaled down to 20 seconds so that six attempts reach the cap
  (with the real hour they do not), and the statuses and headers have one on
  each side of every comparison. The texts of the form stand on both sides of
  every limit of every layer, three of them with a pair, the referrers on both
  sides of theirs; a form has one input of any length and short others, and two
  campaigns replace each other.
* A behaviour of `backend` is about one of its parts and leaves the others at
  rest: they share no variable, so nothing is lost.
* `CHECK_DEADLOCK FALSE` in the capture, website, desk and backend runs: their
  requests, batches, moves and restarts are finitely many, and the program they
  are of may have nothing left to do.

### Fairness

`outbox_overlap`: each worker's next step is taken if it stays possible (the
event loop runs its task, every CRM call and statement has a timeout) and time
passes. A worker that died is a worker idle again: the platform restarts the
process. Nobody is assumed to enqueue, crash or replay.

`website` (`SiteFairness`): a request is served, its answer or the failure of
its connection reaches the form, and the browser renders and navigates. Nobody
has to click, reload or leave. `desk` (`DeskSpec`): every load and every request
of a tab goes on until it is answered or fails; the proxy's fetches and the
statements end by themselves or by a timeout. `backend` (`ContainerFairness`):
the script goes on, and a process that was sent SIGTERM ends, as the shutdown
awaits nothing without a timeout. All of it is weak fairness.

### What the code does and its documents do not say

Met while modelling, and stated nowhere as a run of its own:

* `compute_backoff` says "full jitter"; it draws from the upper half of the
  range. Its cap of an hour is never reached with six attempts.
* A fractional `Retry-After` is truncated; `inf` raises `OverflowError`, which
  nothing classifies, so the attempt ends as an unexpected failure.
* "Every call is recorded in `ai_runs`" does not hold of an answer that cannot be
  decoded, of a brief that cannot be committed, of a crash, or of a recorder that
  fails: it only logs. `RunsTellTheTruth` is what does hold.
* `src/scripts/start-combined.sh` (116-117) says it exits non-zero; after a child
  that ended cleanly it exits 0, and `ON_FAILURE` does not restart it.
* "Clicking 'Qualified' twice must not error or double-log"
  (`test_lead_entity.py`, 230) holds of the events, which is what the test looks
  at. `transition_status` writes a timeline entry all the same, from the status to
  itself; no page offers that button, but one that is older than another's move to
  the same status does. `LeadRow` makes the entry, and `FollowsLifecycle`,
  `HistoryIsAPath` and `TimelineIsHonest` let it stand.
* `lead-actions.tsx` (6-8) says the UI cannot offer what the entity would reject;
  a page that is older than somebody else's move does. `RefusedOnlyIfMoved` is
  what does hold.
* A later campaign replaces the first one in `captureAttribution`, which runs
  only where the form is mounted; that a lead carries the last campaign the tab
  remembered (`EnquiryIsKept`) is what does hold.
* A website of 505 to 512 characters without a scheme passes validation, is
  prefixed, and no longer fits its column: 500 instead of 422, at every attempt.
* "Losing attribution must never break the form" (`lead-form-schema.ts`, 131) is
  kept where the storage fails, and not where the attribution itself is refused:
  a referrer of more than 1024 characters, which nobody cuts, or a utm parameter
  that `slice(0, 255)` cut between the halves of a pair, is a 422 about
  `attribution.*`, a field the form cannot show, and remains one for as long as
  the tab lives.
* ADR 0007 (45-47) says a corrected resubmission leaves the lead "updated"; the
  first values stay.
* The industry `OTHER` is said to score in the middle and has 8 of 7 to 15.
* When the loser of a double click is answered 409 after the winner's 201, its
  error enables the form again while the thank-you page is loading.
* A client that returns exactly after the seconds it was told may be refused
  again, as they were truncated; one second more suffices (`WaitingSuffices`).
* A limit of zero lets one request through per window.

## 4. The theorems

All are proved for any number of events, workers, requests and leads' units of
work, forms, desks, calls and restarts, with the assumption named in the module
(`OutboxAssumption`, `LeadRowAssumption`, `LeadCaptureAssumption` and those of
the modules on top of them), which TLC evaluates in every run.

* **Outbox.** `TypeCorrect` and `AcknowledgedWasDelivered` hold without further
  assumption. `DeliveryIsExclusive`, `SettledIsTerminal`,
  `DeadLettersAreExhausted` and `OutboxKeepsPromise` assume `Punctual`: no pass
  outlasts `stalled_after_seconds` and only dead letters are replayed, which the
  code does not enforce; `outbox_overwritten` shows what happens otherwise. The
  inductive invariant is `ClaimsInHand`: the row behind each record of a batch
  is in flight, stamped with the clock reading of the worker's pass, counts the
  attempts the record shows, and is in nobody else's batch. Exclusiveness alone
  is not inductive: it is the claim's age that keeps a reclaim away from it.
  `RecordsInHand` ties what a worker remembers to what happened.
  `ACrashCostsOneAttempt` says what counting attempts at the claim achieves: no
  row is handed out more than `max_attempts` times and once for each pass that
  was cut short. A bound on the count is not inductive; a row that can still be
  claimed has one delivery left (`UnclaimedHasOneLeft`), which a pass cut short
  keeps true of the rows it leaves behind by raising the bound. With no such
  pass it is the documented cap (`AttemptsAreCapped`), which
  `outbox_crash_loop` refutes in general. Two theorems are the safety half of
  `EventuallySettled` and hold without further assumption: `NoRowIsStranded` (by `AgesInv`: a row
  in flight has a claim age, and a pass that has yet to claim is young) says that
  time alone brings every row that is not settled back to a later pass, and
  `PassesGoOn` that no pass is left without a next step. The second needs that a
  batch exists (`BatchExists`: any set of events has its n oldest, by induction on
  n) and that records leave it oldest first (`DeliversOldest`).
* **Capture.** `IInv` adds to the properties that every lead was created by the
  request it is named after and that a late request can find its lead.
  `EventsOfLeads` needs the first (nobody creates twice), `RetryIsRecognised`
  the second. `CaptureKeepsPromise` maps a commit to `Capture`, an accepted
  answer to `Recall` and all other steps to stutters.
  `AnswersNeverMislead` is what each status promises the visitor, `ConfirmationsAgree`
  that the answers to one form agree, and `FirstValuesStay` that a corrected form
  changes nothing once the first is stored.
* **Lead row.** `CrmStatusNeverLies` and `ContactIsKept` hold for any overlap;
  the key is `ContactSeen`: whoever has loaded a contact id finds the row still
  has one. `StatusFollowsLifecycle` and `TimelineExplainsStatus` assume
  `OneDesk`, one status request at a time; `leads_two_desks` is why. So does
  `TerminalIsFinal`, the sentence of `lifecycle.py` that run refutes.
  `SyncedOnceIsEnough` is the claim that `leads_credential_removed` refutes,
  under `OneSync`: one synchronisation of the lead at a time, and a credential
  that stays. The code provides neither. Its invariant `SyncSees` says that a
  sync which found no contact id finds none until it records its answer.
  What survives any overlap of desks is `TimelineNeverLies`: `leads_two_desks` breaks the
  chain of entries, but each entry is a legal move from a status the lead really
  had, the events are the entries that changed it, and the last of them explains
  the status; the strengthening is that so is whatever a unit of work has loaded
  (`ReadsWereSo`). `OnlyStaleReadsBreakIt` names the one cause of an illegal step:
  a request that decides on a status that is no longer there.
  `OutcomesAreRecorded`, under `OneAtATime` (the first half of `OneSync`), is for
  the counter and the outcome of the CRM: a sync's second read and its write see
  the same columns (`SyncHolds`), though requests and rescores write the row in
  between. With two syncs the count may miss one, or go back.
* **Website.** `SiteIsACapture`: every step of the site is a step of
  `LeadCapture` or a stutter of it, so its invariant `IInv` is at hand.
  `ThankedIsStored` adds that a form waits only for requests it sent with its own
  key. `NoImpatientClick` rests on `OneAtATime`: a form that was not submitted
  twice before a render waits for one request at most, and only while it is
  submitting. The exception is the form that was: nothing but the rendered button
  keeps a form out of it.
* **Desk.** Without assumption on the other tabs. The invariant `DeskInv` says of
  what a tab has read (`SoFar`): as long as the timeline shows no move since, the
  row is as it was read. A move that changes the status is in the timeline
  (`OneMoveMore`, `SoFarStays`), which gives `RefusalsAreStale`; that the row is
  read before the timeline gives `PagesAreExplained`; that a refresh keeps the
  buttons disabled gives `OwnMovesAreShown`.
  `DesksKeepTimelineHonest` carries `TimelineNeverLies` over to the pages: all that a
  desk does to the row is a unit of work of `LeadRow` (`DeskStepsAreHonest`).
  `ButtonsAreNeverOrphaned` is the safety half of `ButtonsComeBack`; that the bound
  on the moves holds up no request that was sent is its invariant `RoomForMoves`,
  a count of the desks whose move is under way.
* **List.** `FollowingNextShowsAll` for any number of captures and loads and any
  page size the API takes. The invariant `ListInv` rests on one fact about the
  order: the rank of a stored lead never falls (`RanksOnlyGrow`), as a capture
  adds rows and none changes its `created_at`. So a lead that was there at the
  start and is within the rows read so far has been shown, and a total that says
  there is no next page leaves nothing to show. `PagesFill` counts the rows of a
  page: the ranks of a finite table without ties are 0 up to its size, which is
  what `QuietPagesAgree` needs, with `BandsAddUp` for the counters.
  `ReadingChangesNothing` is why `LeadCapture`'s invariant is at hand.
* **Container.** `CrashesAreReported` needs `CleanIsTheReason`: a script that is
  stopping unasked has seen a process end cleanly; `WorkerIsOutlived` is inductive as it stands.
* **Brief.** `RecordsAgree` needs `CallsInHand`: what a call that was not
  answered has left behind at each of its stages.
* **Limiter.** `SlidingWindowHolds` and `ToldWaitsSuffice`, for any limit, window,
  table and granularity of the clock. A bound on the number of requests within a
  window's length is far from inductive: it says nothing about when they may come.
  `Fits` does: of the requests of the bucket that is open there are no more than
  it counts; of older ones fewer than a quota, because the one that opened the
  bucket before is older than a window by the time this one opened.
  `LimiterHolds` adds the two up. `AgedIsNoMore` and `DisjointUnion` are the
  lemmas about cardinalities that every step needs. For the second theorem it is
  enough that a client is due no sooner than its bucket expires. The converse,
  `NobodyIsRefusedEarly`, needs that every place a bucket counts was given to a
  request of its window (`Accounted`), which no tick, prune or clear of the table
  undoes.
* **Batch.** `BatchesAreWholeOrPrefixes` follows a batch with `BatchInHand`: what it
  has made are the numbers up to the one it is at, `StoredIsNext` says that one
  capture adds the next. `BandsAreNeverOpposite` bounds the score of the answers
  each band draws from (`HotAnswersScore`, `ColdAnswersScore`), in every industry.
* **Retries.** For any statuses and headers and any cap up to the hour.
  `BackoffGrows` needs that powers of two grow (`PowersDouble`), and first that
  the recursive function `Power` is what it says (`EveryPrefix`), by induction
  from `LeastNatural`: a set of naturals that is not empty has a least element.
* **Form.** `EnquiriesAreKept`, for any texts, forms, campaigns and referrers.
  `OnlyForAReason` compares the layers: units are no fewer than characters, so
  what passes the client is within the server's limits, and complaints and
  columns that are too short are exactly the four reasons. `FormInHand` says that
  what the tab remembers is of the last campaign, and that nothing but a form
  that passed is on its way.
* **Scores.** `LargerIsNoColder`: the sums of two forms that differ in budget and
  volume differ by table entries that are in order (`TotalsDiffer`). `ClampNeverBites`
  is stronger than the comment it is about ("a safety net rather than a routine
  occurrence"): no form needs the clamp.
* **Side by side.** `PartsAreTheirOwn`: a behaviour of `MCBackend` is one of each
  part's own specification, so the theorems are about what the run checks.

`LeastNatural` stands in for the library's induction theorems, which take an
operator as a parameter and cannot be instantiated by the provers at hand.

### Only model-checked

`EventuallySettled`, `EveryClickIsAnswered`, `ButtonsComeBack` and
`HalfAServiceEnds`, as liveness under fairness is out of the prover's reach.
`DrawsLandInBand`, a comparison of weighted sums over fixed tables, is evaluated
for every industry and band: the check leaves no case out, and the sum is a fold
of an operator over a set, which the provers cannot unfold. What the violation runs show is refuted by TLC.

## 5. Not modelled, and the plan

Not modelled, because it keeps no state or only formats: the marketing site,
health and readiness probes, logging, middleware, error formatting, responses,
prompts and the brief's text, the names and wording of personas, the CRM's
property mapping, reasons beside a score, authentication. Migrations run once,
before the program. Settings give the constants their values; their validation
is left out.

Left out of what is modelled: SIGKILL after the platform's grace period and a
second `start()` of the worker; a tab that is closed with a request under way
(in `LeadDesk` and `LeadForm`; `Website` has it); `SalesBriefAction`'s own button; the Previous
link, page numbers typed by hand, and the list's filters other than temperature,
whose leads come and go.

What would come next, in this order:

1. `LeadPipeline`: captures, outbox and synchronisations of several leads
   composed, with "every stored lead is synced, skipped or dead-lettered" as its
   promise; two leads with one email; `"unknown"` contact ids. `Outbox`,
   `LeadCapture` and `LeadRow` are written for it; their state spaces multiply,
   so it needs an abstraction of the row's columns first.
2. Conditions under which a double click shows no error, and when `Punctual`
   follows from the batch size and the timeouts of the calls.
3. The filters of the list under status changes, on `LeadRow`.
