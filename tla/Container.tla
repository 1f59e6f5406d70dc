----------------------------- MODULE Container -----------------------------
(***************************************************************************)
(* The one container of the service: the script that starts the backend,   *)
(* waits until it answers, starts the frontend and then waits for either   *)
(* to end; the backend's start and shutdown around its outbox worker; and  *)
(* the platform, which restarts a container that failed.                   *)
(*                                                                         *)
(* Sources: scripts/start-combined.sh, app/main.py (lifespan),             *)
(* workers/outbox_worker.py (start, stop, _run), railway.toml and          *)
(* Dockerfile.  The script runs under `set -e`, as the container's first   *)
(* process: when it ends, everything does.                                 *)
(***************************************************************************)
EXTENDS Integers

CONSTANTS
    Attempts,  \* the attempts of the readiness loop, 60
    Retries    \* restartPolicyMaxRetries, 5

ASSUME ContainerAssumption == Attempts \in Nat \ {0} /\ Retries \in Nat

VARIABLES
    script,   \* "probing", "supervising", "stopping" (in its last wait) or "exited"
    attempt,  \* of the readiness loop
    code,     \* the exit code the script ends with; NoCode until it is known
    proc,     \* backend and frontend: "none", "booting", "up", "closing" or "gone"
    sent,     \* the processes that were sent SIGTERM
    ended,    \* history: how each ended: "not", "clean" or "crash" on its own, or "told"
    asked,    \* history: whether the platform asked the container to stop
    worker,   \* OutboxWorker: "none", "polling", "passing" or "cancelled"
    open,     \* the http client and the engine, while they are open
    restarts  \* the restarts used up

containerVars ==
    <<script, attempt, code, proc, sent, ended, asked, worker, open, restarts>>

Processes == {"backend", "frontend"}
NoCode == -1

Started ==
    [script   |-> "probing", attempt |-> 1, code |-> NoCode,
     proc     |-> [backend |-> "booting", frontend |-> "none"],
     ended    |-> [p \in Processes |-> "not"]]

ContainerInit ==
    /\ script = Started.script /\ attempt = Started.attempt /\ code = Started.code
    /\ proc = Started.proc /\ ended = Started.ended
    /\ sent = {} /\ asked = FALSE
    /\ worker = "none" /\ open = {}
    /\ restarts = 0

-----------------------------------------------------------------------------
(***************************************************************************)
(* lifespan up to its yield: the http client, the engine when there is a   *)
(* database, the worker when there is one and it is enabled.               *)
(***************************************************************************)
BootBackend ==
    /\ proc.backend = "booting"
    /\ proc' = [proc EXCEPT !.backend = "up"]
    /\ \/ worker' = "polling" /\ open' = {"http", "engine"}
       \/ worker' = "none" /\ open' \in {{"http"}, {"http", "engine"}}
    /\ UNCHANGED <<script, attempt, code, sent, ended, asked, restarts>>

(***************************************************************************)
(* _run: a pass, which uses the database and the CRM, and the sleep.       *)
(***************************************************************************)
BeginPass ==
    /\ worker = "polling"
    /\ worker' = "passing"
    /\ UNCHANGED <<script, attempt, code, proc, sent, ended, asked, open, restarts>>

EndPass ==
    /\ worker = "passing"
    /\ worker' = "polling"
    /\ UNCHANGED <<script, attempt, code, proc, sent, ended, asked, open, restarts>>

(***************************************************************************)
(* SIGTERM reaches a backend that is up: stop() sets the flag and cancels  *)
(* the task, wherever it is.                                               *)
(***************************************************************************)
BeginShutdown ==
    /\ proc.backend = "up" /\ "backend" \in sent
    /\ proc'   = [proc EXCEPT !.backend = "closing"]
    /\ worker' = IF worker = "none" THEN "none" ELSE "cancelled"
    /\ UNCHANGED <<script, attempt, code, sent, ended, asked, open, restarts>>

(***************************************************************************)
(* The awaited task ends where it was cancelled.                           *)
(***************************************************************************)
WorkerEnds ==
    /\ worker = "cancelled"
    /\ worker' = "none"
    /\ UNCHANGED <<script, attempt, code, proc, sent, ended, asked, open, restarts>>

(***************************************************************************)
(* Variant: the http client and the engine are closed without awaiting it. *)
(***************************************************************************)
CloseResourcesAtOnce ==
    /\ proc.backend = "closing"
    /\ \/ open' = open \ {"http"}
       \/ "http" \notin open /\ open' = {}
    /\ UNCHANGED <<script, attempt, code, proc, sent, ended, asked, worker, restarts>>

(***************************************************************************)
(* The rest of the `finally`: the http client, then the engine.            *)
(***************************************************************************)
CloseResources ==
    /\ proc.backend = "closing" /\ worker = "none"
    /\ \/ open' = open \ {"http"}
       \/ "http" \notin open /\ open' = {}
    /\ UNCHANGED <<script, attempt, code, proc, sent, ended, asked, worker, restarts>>

Alive(p) == proc[p] \in {"booting", "up", "closing"}

(***************************************************************************)
(* A process ends: crashed or by itself, at any time, or as it was told.   *)
(***************************************************************************)
Ends(p, how) ==
    /\ Alive(p)
    /\ how = "told" => p \in sent
    /\ how = "told" /\ p = "backend" => proc.backend # "up" /\ open = {}
    /\ proc'  = [proc EXCEPT ![p] = "gone"]
    /\ ended' = [ended EXCEPT ![p] = how]
    /\ IF p = "backend" THEN worker' = "none" /\ open' = {} ELSE UNCHANGED <<worker, open>>
    /\ UNCHANGED <<script, attempt, code, sent, asked, restarts>>

-----------------------------------------------------------------------------
(***************************************************************************)
(* The script ends: what is left of the container is killed with it.       *)
(***************************************************************************)
Exit(c) ==
    /\ script' = "exited"
    /\ code'   = c
    /\ proc'   = [p \in Processes |-> IF Alive(p) THEN "gone" ELSE proc[p]]
    /\ worker' = "none"
    /\ open'   = {}

(***************************************************************************)
(* One round of the readiness loop.  A backend that is up may still miss   *)
(* the answer; the last attempt gives up and does not wait for the backend.*)
(***************************************************************************)
ProbeReady ==
    /\ script = "probing" /\ proc.backend = "up"
    /\ script' = "supervising"
    /\ proc'   = [proc EXCEPT !.frontend = "up"]
    /\ UNCHANGED <<attempt, code, sent, ended, asked, worker, open, restarts>>

ProbeGone ==
    /\ script = "probing" /\ proc.backend = "gone"
    /\ Exit(1)
    /\ UNCHANGED <<attempt, sent, ended, asked, restarts>>

ProbeTimesOut ==
    /\ script = "probing" /\ Alive("backend") /\ attempt = Attempts
    /\ Exit(1)
    /\ sent' = sent \cup {"backend"}
    /\ UNCHANGED <<attempt, ended, asked, restarts>>

ProbeAgain ==
    /\ script = "probing" /\ Alive("backend") /\ attempt < Attempts
    /\ attempt' = attempt + 1
    /\ UNCHANGED <<script, code, proc, sent, ended, asked, worker, open, restarts>>

(***************************************************************************)
(* Variant: `wait` for both of them instead of `wait -n`.                  *)
(***************************************************************************)
SuperviseBoth ==
    /\ script = "supervising"
    /\ \A p \in Processes : proc[p] = "gone"
    /\ Exit(1)
    /\ UNCHANGED <<attempt, sent, ended, asked, restarts>>

(***************************************************************************)
(* Variant: `wait -n ... || true`, after which every end looks clean.      *)
(***************************************************************************)
SuperviseForgiving ==
    /\ script = "supervising"
    /\ \E p \in Processes : proc[p] = "gone"
    /\ script' = "stopping"
    /\ code'   = 0
    /\ sent'   = Processes
    /\ UNCHANGED <<attempt, proc, ended, asked, worker, open, restarts>>

(***************************************************************************)
(* `wait -n` returns for a process that ended.  A failing one ends the     *)
(* script there and then, by set -e, with its code; after one that ended   *)
(* cleanly the other is told to end and waited for.                        *)
(***************************************************************************)
Supervise ==
    /\ script = "supervising"
    /\ \E p \in Processes :
        /\ proc[p] = "gone"
        /\ \/ /\ ended[p] = "crash"
              /\ Exit(1)
              /\ UNCHANGED sent
           \/ /\ ended[p] # "crash"
              /\ script' = "stopping"
              /\ code'   = 0
              /\ sent'   = Processes
              /\ UNCHANGED <<proc, worker, open>>
    /\ UNCHANGED <<attempt, ended, asked, restarts>>

(***************************************************************************)
(* The trap: the platform stops the container, for a deployment, say.      *)
(***************************************************************************)
Shutdown ==
    /\ script \in {"probing", "supervising", "stopping"} /\ ~asked
    /\ asked'  = TRUE
    /\ script' = "stopping"
    /\ code'   = 0
    /\ sent'   = sent \cup {p \in Processes : proc[p] # "none"}
    /\ UNCHANGED <<attempt, proc, ended, worker, open, restarts>>

Finish ==
    /\ script = "stopping"
    /\ \A p \in Processes : ~Alive(p)
    /\ Exit(code)
    /\ UNCHANGED <<attempt, sent, ended, asked, restarts>>

(***************************************************************************)
(* ON_FAILURE: the platform starts a container that failed again.          *)
(***************************************************************************)
Restart ==
    /\ script = "exited" /\ code # 0 /\ restarts < Retries
    /\ script' = Started.script /\ attempt' = Started.attempt /\ code' = Started.code
    /\ proc' = Started.proc /\ ended' = Started.ended
    /\ sent' = {}
    /\ restarts' = restarts + 1
    /\ UNCHANGED <<asked, worker, open>>

-----------------------------------------------------------------------------
Script == ProbeReady \/ ProbeGone \/ ProbeTimesOut \/ ProbeAgain \/ Supervise \/ Finish

Closing == BeginShutdown \/ WorkerEnds \/ CloseResources

ContainerNext ==
    \/ BootBackend \/ BeginPass \/ EndPass \/ Closing
    \/ \E p \in Processes, how \in {"clean", "crash", "told"} : Ends(p, how)
    \/ Script \/ Shutdown \/ Restart

(***************************************************************************)
(* The script goes on; a process that is told to end does: nothing it      *)
(* awaits on the way is without a timeout.                                 *)
(***************************************************************************)
ContainerFairness ==
    /\ WF_containerVars(Script)
    /\ WF_containerVars(Closing)
    /\ \A p \in Processes : WF_containerVars(Ends(p, "told"))

ContainerSpec == ContainerInit /\ [][ContainerNext]_containerVars /\ ContainerFairness
-----------------------------------------------------------------------------
(***************************************************************************)
(* "If EITHER process exits, the container exits": a dead backend never    *)
(* stays beside a live frontend, nor the other way round.                  *)
(***************************************************************************)
HalfAServiceEnds ==
    (script = "supervising" /\ \E p \in Processes : proc[p] = "gone") ~> script = "exited"

(***************************************************************************)
(* "Exit non-zero so the platform treats this as a crash worth restarting",*)
(* as far as it is so: a container that was not asked to stop and says     *)
(* that it ended well had a process that ended well, of its own.           *)
(***************************************************************************)
CrashIsReported ==
    script = "exited" /\ ~asked /\ code = 0 => \E p \in Processes : ended[p] = "clean"

(***************************************************************************)
(* The worker never polls, delivers or unwinds over a client or a pool     *)
(* that was closed under it, however the shutdown meets a pass.            *)
(***************************************************************************)
ClosedWhenQuiet == worker # "none" => open = {"http", "engine"}
=============================================================================
