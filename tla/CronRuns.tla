------------------------------ MODULE CronRuns ------------------------------
(***************************************************************************)
(* Cron runs: CronService (src/controller/app/cron_service.py) on top of   *)
(* AgentJobQueue (module AgentJobs).                                       *)
(*                                                                         *)
(* A trigger takes its cron job's slot, creates a session only to run one  *)
(* agent job in, and queues that job with a callback that closes the       *)
(* session and frees the slot.  When queuing fails or is cancelled, the    *)
(* trigger does the same itself.  Every step of the queue is a step here,  *)
(* and the step that runs a callback is also its release.                  *)
(***************************************************************************)
EXTENDS AgentJobs

CONSTANTS
  CronJobs,
  CronOf,    \* the cron job each hosted agent job is a run of
  NoRun

ASSUME CronAssumption == CronOf \in [Hosted -> CronJobs] /\ NoRun \notin Jobs

VARIABLES
  slot,      \* _active_runs: the run (by its agent job) each cron job has in flight
  session    \* the session created for each hosted agent job

cronVars == <<slot, session>>
allVars == <<vars, cronVars>>

CronInit ==
  /\ Init
  /\ slot = [c \in CronJobs |-> NoRun]
  /\ session = [j \in Hosted |-> "none"]

-----------------------------------------------------------------------------
\* The scheduler, a webhook or a call fires a cron job: skipped while a run of it is in flight.
Fire(j) ==
  /\ proc = "up"
  /\ session[j] = "none"
  /\ slot[CronOf[j]] = NoRun
  /\ slot' = [slot EXCEPT ![CronOf[j]] = j]
  /\ session' = [session EXCEPT ![j] = "creating"]
  /\ UNCHANGED vars

CreateSession(j) ==
  /\ Serving
  /\ session[j] = "creating"
  /\ session' = [session EXCEPT ![j] = "open"]
  /\ UNCHANGED <<vars, slot>>

\* create_session refuses (the session limit), fails or is cancelled.
CreateSessionFails(j) ==
  /\ Serving
  /\ session[j] = "creating"
  /\ session' = [session EXCEPT ![j] = "failed"]
  /\ slot' = [slot EXCEPT ![CronOf[j]] = NoRun]
  /\ UNCHANGED vars

\* Faults: a release frees the slot whoever holds it; the trigger releases only what it withdrew.
ReleaseAnyRun(j) ==
  /\ slot' = [slot EXCEPT ![CronOf[j]] = NoRun]
  /\ session' = [session EXCEPT ![j] = IF @ = "open" THEN "closed" ELSE @]

ReleaseGivenUp(j) ==
  /\ Serving
  /\ session[j] = "open"
  /\ enqueue[j] = "given_up"
  /\ slot[CronOf[j]] = j
  /\ slot' = [slot EXCEPT ![CronOf[j]] = NoRun]
  /\ session' = [session EXCEPT ![j] = "closed"]
  /\ UNCHANGED vars

\* _release_run: only the call that still finds the run in the slot acts.
ReleaseRun(j) ==
  IF slot[CronOf[j]] = j
  THEN /\ slot' = [slot EXCEPT ![CronOf[j]] = NoRun]
       /\ session' = [session EXCEPT ![j] = "closed"]
  ELSE UNCHANGED cronVars

\* enqueue_run raised.
TriggerReleases(j) ==
  /\ Serving
  /\ enqueue[j] \in {"given_up", "refused"}
  /\ ReleaseRun(j)
  /\ UNCHANGED vars

\* A step of the queue; running a callback releases the run.  A run's job is queued once its
\* session is there.
QueueStep(j) ==
  /\ j \in Hosted /\ enqueue[j] = "none" => session[j] = "open"
  /\ Queuing(j) \/ Working(j) \/ Operating(j) \/ Requeue(j)
  /\ IF callback[j] = "set" /\ callback'[j] = "called" THEN ReleaseRun(j) ELSE UNCHANGED cronVars

\* shutdown may run several callbacks; the process is over with them.
CronShutdown(landed) ==
  /\ Shutdown(landed)
  /\ LET released == {j \in Hosted : callback[j] = "set" /\ callback'[j] = "called"
                                     /\ slot[CronOf[j]] = j}
     IN /\ slot' = [c \in CronJobs |-> IF slot[c] \in released THEN NoRun ELSE slot[c]]
        /\ session' = [j \in Hosted |-> IF j \in released THEN "closed" ELSE session[j]]

\* The slots and the sessions go with the process.
CronCrash ==
  /\ Crash
  /\ slot' = [c \in CronJobs |-> NoRun]
  /\ session' = [j \in Hosted |-> CASE session[j] = "creating" -> "failed"
                                    [] session[j] = "open" -> "closed"
                                    [] OTHER -> session[j]]

CronNext ==
  \/ \E j \in Hosted : Fire(j) \/ CreateSession(j) \/ CreateSessionFails(j) \/ TriggerReleases(j)
  \/ \E j \in Jobs : QueueStep(j)
  \/ \E landed \in SUBSET Jobs : CronShutdown(landed)
  \/ CronCrash
  \/ Startup /\ UNCHANGED cronVars

\* A trigger goes on once its session was created, which nothing bounds; the rest is the queue's fairness.
CronFairness ==
  \A j \in Hosted : /\ WF_allVars(TriggerReleases(j))
                    /\ WF_allVars(QueueStep(j) /\ (Create(j) \/ CreateFails(j)))

CronSpec == CronInit /\ [][CronNext]_allVars
CronFairSpec == CronSpec /\ Fairness /\ CronFairness

-----------------------------------------------------------------------------
CronTypeOK ==
  /\ slot \in [CronJobs -> Hosted \union {NoRun}]
  /\ session \in [Hosted -> {"none", "creating", "open", "closed", "failed"}]

\* _release_run: an open session of a run is the one its cron job's slot names.  Nothing else would
\* ever close it, so one the slot has lost holds a place under MAX_SESSIONS until the restart.
OpenIsHeld == \A j \in Hosted : session[j] = "open" => slot[CronOf[j]] = j

\* This process may yet begin, or go on with, the job's run.
CanRun(j) ==
  \/ task[j] \in AtWork
  \/ status[j] = "queued" /\ (Waits(j) \/ task[j] = "starting" \/ enqueue[j] = "created")

\* "so none is left on a closed session" (enqueue_run): while the process runs, a run's session is
\* closed only once its job can no longer run, whether the callback closes it or the trigger that
\* gave up.
ClosedAfterRun ==
  [][\A j \in Hosted :
       session[j] = "open" /\ session'[j] = "closed" /\ proc' = "up" => ~CanRun(j)']_allVars

\* No run keeps its slot, so that later fires are skipped until a restart ("the mark is cleared even
\* if the close fails"), unless its session's creation or a run that never ends holds it up.
SlotIsFreed ==
  \A j \in Hosted : []<>(slot[CronOf[j]] # j \/ session[j] = "creating" \/ HeldUp(j) \/ proc # "up")

\* The inductive invariant of the theorems (CronRuns_proofs): the slot names a run from its fire on.
CronInv ==
  /\ CronTypeOK
  /\ \A j \in Hosted : session[j] \in {"creating", "open"} => slot[CronOf[j]] = j

\* Its _enqueue call has raised, or is about to.
Raised == {"withdrawn", "given_up", "refused"}

\* A run under way is on record; no session outlives the process or its job's place in line; and a job
\* whose queuing raised, which its trigger is to release, does not run any more.
CloseInv ==
  /\ \A j \in Jobs : task[j] \in AtWork => status[j] \in {"running", "cancelling"}
  /\ proc = "down" => \A j \in Hosted : session[j] \notin {"creating", "open"}
  /\ \A j \in Hosted : session[j] \in {"none", "creating"} => enqueue[j] = "none"
  /\ \A j \in Hosted :
       session[j] = "open" /\ enqueue[j] \in Raised => ~CanRun(j)
=============================================================================
