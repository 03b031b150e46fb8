------------------------------ MODULE AgentJobs ------------------------------
(***************************************************************************)
(* Background agent jobs (src/controller/app/agent_jobs.py): AgentJobStore *)
(* keeps one record per job on disk, AgentJobQueue a bounded queue of ids  *)
(* and the workers that run them.                                          *)
(*                                                                         *)
(* A store operation is read-modify-write under the store's lock, so it is *)
(* one action; the wait for that lock, the audits and the run are the      *)
(* states a job's task can be cancelled in.  Three parties cancel it: an   *)
(* operator (cancel_job), the call that queued it and gave up (_withdraw), *)
(* and a shutdown.  A job queued for a session of its own is hosted: its   *)
(* on_finish callback closes that session (module CronRuns).               *)
(***************************************************************************)
EXTENDS Naturals, Sequences, FiniteSets

CONSTANTS
  Jobs,        \* the ids _enqueue ever makes; a resumed job is another one
  Hosted,      \* the jobs queued with an on_finish callback
  Workers,     \* worker_count
  QueueMax,    \* the queue's maxsize (100 in the code)
  CancelsMax,  \* bound: cancel_job calls on one job past the lookup that found no worker
  Faults       \* the steps at which a store or audit write may fail, or a withdrawal be cut off

FaultSteps == {"withdrawing", "starting", "started", "ending", "failing", "stopping"}

ASSUME JobsAssumption ==
  /\ Hosted \subseteq Jobs
  /\ Workers \in Nat \ {0}
  /\ QueueMax \in Nat \ {0}
  /\ CancelsMax \in Nat
  /\ Faults \subseteq FaultSteps

VARIABLES
  status,      \* AgentJobRecord.status on disk; "absent": no record
  queue,       \* AgentJobQueue.queue
  requeue,     \* what startup's re-queue task has still to put
  enqueue,     \* how far the _enqueue call of each job is
  task,        \* how far the task of each job in _running_tasks is
  reason,      \* _cancellation_reasons
  callback,    \* _on_finish: "set" until popped, "called", and "ran" when that is over; or "dropped"
  cancels,     \* cancel_job calls that found a live record and no worker
  proc,        \* the process: "up", "stopping" (shutdown), "down"
  ran          \* history: how often each job's run began, 2 = several

memory == <<queue, requeue, reason>>
vars == <<status, memory, enqueue, task, callback, cancels, proc, ran>>

-----------------------------------------------------------------------------
Statuses == {"absent", "queued", "running", "cancelling",
             "completed", "failed", "cancelled", "interrupted", "discarded"}

\* "created": the record has landed; "queued": on the queue, its audit still to write; "overfull":
\* the queue was full; "withdrawn": taken back, the call not raised yet; "lost": the process died.
Enqueuing == {"created", "queued", "overfull", "withdrawing", "withdrawn"}
EnqueueEnds == {"answered", "refused", "given_up", "lost"}

\* Waiting for start_queued; for the "started" audit; in the run; for the store's finish, of a run
\* that returned or that raised; for its finish_cancelled; in the finish callback.
TaskSteps == {"starting", "started", "running", "ending", "failing", "stopping", "closing"}
AtWork == {"started", "running", "ending", "failing"}

\* A finish callback still to be run, or not at its end yet.
Unsettled == {"set", "called"}

Busy == {j \in Jobs : task[j] # "none"}
Serving == proc \in {"up", "stopping"}

-----------------------------------------------------------------------------
Init ==
  /\ status = [j \in Jobs |-> "absent"]
  /\ queue = <<>>
  /\ requeue = {}
  /\ enqueue = [j \in Jobs |-> "none"]
  /\ task = [j \in Jobs |-> "none"]
  /\ reason = [j \in Jobs |-> "none"]
  /\ callback = [j \in Jobs |-> "none"]
  /\ cancels = [j \in Jobs |-> 0]
  /\ proc = "up"
  /\ ran = [j \in Jobs |-> 0]

Sets(j, s) == status' = [status EXCEPT ![j] = s]
Enqueues(j, s) == enqueue' = [enqueue EXCEPT ![j] = s]
Steps(j, s) == task' = [task EXCEPT ![j] = s]

\* Faults the properties are there to catch, each of one definition below: a stop is recorded
\* without its reason; a restart queues what was running.
StoppedByAnyone(j) == "interrupted"

ResettlesToQueued(j) ==
  CASE status[j] = "running" -> "queued"
    [] status[j] = "cancelling" -> "cancelled"
    [] OTHER -> status[j]

\* _process_job's finally: the task is in its finish callback, or over.
Left(j) == IF callback[j] = "set" THEN "closing" ELSE "none"
Popped(j) == IF callback[j] = "set" THEN "called" ELSE callback[j]

Leaves(j) ==
  /\ Steps(j, Left(j))
  /\ callback' = [callback EXCEPT ![j] = Popped(j)]

\* The statuses the store's writes leave.
Finished(j, verdict) ==
  CASE status[j] = "cancelling" -> "cancelled"
    [] status[j] \in {"cancelled", "discarded"} -> status[j]
    [] OTHER -> verdict

Stopped(j) == IF reason[j] = "user" THEN "cancelled" ELSE "interrupted"

\* task.cancel(): a task at work goes on to record its stop; one waiting to record that its run raised,
\* or that it stopped, never does; the close in a finish callback runs to its end.
Interrupts(j) ==
  \/ /\ task[j] \in {"started", "running", "ending"}
     /\ Steps(j, "stopping")
     /\ UNCHANGED callback
  \/ /\ task[j] \in {"failing", "stopping"}
     /\ Leaves(j)
  \/ /\ task[j] = "closing"
     /\ UNCHANGED <<task, callback>>

-----------------------------------------------------------------------------
(* _enqueue.                                                               *)

Create(j) ==
  /\ Serving
  /\ enqueue[j] = "none"
  /\ Sets(j, "queued")
  /\ Enqueues(j, "created")
  /\ UNCHANGED <<memory, task, callback, cancels, proc, ran>>

\* store.create raises, or is cancelled before its write began: there is no record.
CreateFails(j) ==
  /\ Serving
  /\ enqueue[j] = "none"
  /\ Enqueues(j, "refused")
  /\ UNCHANGED <<status, memory, task, callback, cancels, proc, ran>>

\* Cancelled during the record's write, which has landed: _withdraw.
CreateCancelled(j) ==
  /\ Serving
  /\ enqueue[j] = "created"
  /\ Enqueues(j, "withdrawing")
  /\ UNCHANGED <<status, memory, task, callback, cancels, proc, ran>>

\* The callback goes in with the id, before a worker can see it.
Put(j) ==
  /\ Serving
  /\ enqueue[j] = "created"
  /\ Len(queue) < QueueMax
  /\ queue' = Append(queue, j)
  /\ Enqueues(j, "queued")
  /\ callback' = [callback EXCEPT ![j] = IF j \in Hosted THEN "set" ELSE @]
  /\ UNCHANGED <<status, requeue, reason, task, cancels, proc, ran>>

PutFull(j) ==
  /\ Serving
  /\ enqueue[j] = "created"
  /\ Len(queue) >= QueueMax
  /\ Enqueues(j, "overfull")
  /\ UNCHANGED <<status, memory, task, callback, cancels, proc, ran>>

\* The record is written over as failed, whatever it says by now.
Refuse(j) ==
  /\ Serving
  /\ enqueue[j] = "overfull"
  /\ Sets(j, "failed")
  /\ Enqueues(j, "refused")
  /\ UNCHANGED <<memory, task, callback, cancels, proc, ran>>

\* The call is cancelled, or its write fails, before it has written that.
RefuseCancelled(j) ==
  /\ Serving
  /\ enqueue[j] = "overfull"
  /\ Enqueues(j, "given_up")
  /\ UNCHANGED <<status, memory, task, callback, cancels, proc, ran>>

Answer(j) ==
  /\ Serving
  /\ enqueue[j] = "queued"
  /\ Enqueues(j, "answered")
  /\ UNCHANGED <<status, memory, task, callback, cancels, proc, ran>>

\* The "enqueued" audit fails or is cancelled: a hosted job is taken back, another stays queued.
AuditCancelled(j) ==
  /\ Serving
  /\ enqueue[j] = "queued"
  /\ Enqueues(j, IF j \in Hosted THEN "withdrawing" ELSE "answered")
  /\ UNCHANGED <<status, memory, task, callback, cancels, proc, ran>>

\* A fault: only a job a worker holds is taken back.
WithdrawRunning(j) ==
  /\ Serving
  /\ enqueue[j] = "withdrawing"
  /\ Enqueues(j, "withdrawn")
  /\ IF status[j] \in {"running", "cancelling"} /\ task[j] \in TaskSteps \ {"closing"}
     THEN Interrupts(j) ELSE UNCHANGED <<task, callback>>
  /\ UNCHANGED <<status, memory, cancels, proc, ran>>

\* A fault: a job in its finish callback is stopped like a running one.
WithdrawFinishing(j) ==
  /\ Serving
  /\ enqueue[j] = "withdrawing"
  /\ Enqueues(j, "withdrawn")
  /\ IF status[j] = "queued"
     THEN Sets(j, "interrupted") /\ UNCHANGED <<reason, task, callback>>
     ELSE /\ UNCHANGED status
          /\ IF status[j] \in {"running", "cancelling"} /\ task[j] # "none"
             THEN /\ reason' = [reason EXCEPT ![j] = IF @ = "none" THEN "withdrawn" ELSE @]
                  /\ IF task[j] = "closing" THEN Steps(j, "none") /\ UNCHANGED callback
                     ELSE Interrupts(j)
             ELSE UNCHANGED <<reason, task, callback>>
  /\ UNCHANGED <<queue, requeue, cancels, proc, ran>>

\* _withdraw: a queued job is interrupted, a running one stopped, and a finished one left alone.
Withdraw(j) ==
  /\ Serving
  /\ enqueue[j] = "withdrawing"
  /\ Enqueues(j, "withdrawn")
  /\ IF status[j] = "queued"
     THEN Sets(j, "interrupted") /\ UNCHANGED <<reason, task, callback>>
     ELSE /\ UNCHANGED status
          /\ IF /\ status[j] \in {"running", "cancelling"}
                /\ task[j] \in TaskSteps \ {"closing"}
             THEN /\ reason' = [reason EXCEPT ![j] = IF @ = "none" THEN "withdrawn" ELSE @]
                  /\ Interrupts(j)
             ELSE UNCHANGED <<reason, task, callback>>
  /\ UNCHANGED <<queue, requeue, cancels, proc, ran>>

\* The store fails, or the call is cancelled again before the store's lock.
WithdrawFails(j) ==
  /\ Serving
  /\ enqueue[j] = "withdrawing"
  /\ "withdrawing" \in Faults
  /\ Enqueues(j, "withdrawn")
  /\ UNCHANGED <<status, memory, task, callback, cancels, proc, ran>>

\* The call raises: its task has stopped or has had its five seconds, and the callback is dropped.
GiveUp(j) ==
  /\ Serving
  /\ enqueue[j] = "withdrawn"
  /\ Enqueues(j, "given_up")
  /\ callback' = [callback EXCEPT ![j] = IF @ = "set" THEN "dropped" ELSE @]
  /\ UNCHANGED <<status, memory, task, cancels, proc, ran>>

-----------------------------------------------------------------------------
(* A worker and the task it runs a job in.                                 *)

\* A fault: a worker that was told to stop goes on serving the queue.
TakeWhileStopping(j) ==
  /\ Serving
  /\ queue # <<>>
  /\ j = Head(queue)
  /\ task[j] = "none"
  /\ Cardinality(Busy) < Workers
  /\ queue' = Tail(queue)
  /\ Steps(j, "starting")
  /\ UNCHANGED <<status, requeue, reason, enqueue, callback, cancels, proc, ran>>

Take(j) ==
  /\ proc = "up"
  /\ queue # <<>>
  /\ j = Head(queue)
  /\ task[j] = "none"
  /\ Cardinality(Busy) < Workers
  /\ queue' = Tail(queue)
  /\ Steps(j, "starting")
  /\ UNCHANGED <<status, requeue, reason, enqueue, callback, cancels, proc, ran>>

\* start_queued: only a queued record is started.
Start(j) ==
  /\ Serving
  /\ task[j] = "starting"
  /\ IF status[j] = "queued"
     THEN Sets(j, "running") /\ Steps(j, "started") /\ UNCHANGED callback
     ELSE Leaves(j) /\ UNCHANGED status
  /\ UNCHANGED <<memory, enqueue, cancels, proc, ran>>

\* The record cannot be read or started, or the "started" audit fails: an error the worker logs.
StartFails(j) ==
  /\ Serving
  /\ task[j] \in {"starting", "started"} \intersect Faults
  /\ Leaves(j)
  /\ UNCHANGED <<status, memory, enqueue, cancels, proc, ran>>

Begin(j) ==
  /\ Serving
  /\ task[j] = "started"
  /\ Steps(j, "running")
  /\ ran' = [ran EXCEPT ![j] = IF @ = 0 THEN 1 ELSE 2]
  /\ UNCHANGED <<status, memory, enqueue, callback, cancels, proc>>

\* The run returns, or raises.
RunEnds(j) ==
  /\ Serving
  /\ task[j] = "running"
  /\ \E how \in {"ending", "failing"} : Steps(j, how)
  /\ UNCHANGED <<status, memory, enqueue, callback, cancels, proc, ran>>

\* The store's finish; what a run that returned reports may be an error, too.
Verdicts(j) == IF task[j] = "ending" THEN {"completed", "failed"} ELSE {"failed"}

Finish(j) ==
  /\ Serving
  /\ task[j] \in {"ending", "failing"}
  /\ \E verdict \in Verdicts(j) : Sets(j, Finished(j, verdict))
  /\ Leaves(j)
  /\ UNCHANGED <<memory, enqueue, cancels, proc, ran>>

\* _record_stop.
Stop(j) ==
  /\ Serving
  /\ task[j] = "stopping"
  /\ Sets(j, Stopped(j))
  /\ Leaves(j)
  /\ UNCHANGED <<memory, enqueue, cancels, proc, ran>>

\* The store's write fails: that of a result is an error to record, any other the end of the task.
EndUnrecorded(j) ==
  /\ Serving
  /\ task[j] \in Faults
  /\ \/ task[j] = "ending" /\ Steps(j, "failing") /\ UNCHANGED callback
     \/ task[j] \in {"failing", "stopping"} /\ Leaves(j)
  /\ UNCHANGED <<status, memory, enqueue, cancels, proc, ran>>

\* The callback has closed the session, or logged that it could not.
Closed(j) ==
  /\ Serving
  /\ task[j] = "closing"
  /\ Steps(j, "none")
  /\ callback' = [callback EXCEPT ![j] = "ran"]
  /\ UNCHANGED <<status, memory, enqueue, cancels, proc, ran>>

-----------------------------------------------------------------------------
(* Operators.                                                              *)

\* request_cancel, and the lookup and cancel of the task that follow it without an await.
CancelJob(j) ==
  /\ proc = "up"
  /\ \/ /\ status[j] = "queued"
        /\ Sets(j, "cancelled")
        /\ UNCHANGED <<task, reason, callback, cancels>>
     \/ /\ status[j] \in {"running", "cancelling"}
        /\ task[j] # "none"
        /\ Sets(j, "cancelling")
        /\ reason' = [reason EXCEPT ![j] = "user"]
        /\ Interrupts(j)
        /\ UNCHANGED cancels
     \/ /\ status[j] \in {"running", "cancelling"}
        /\ task[j] = "none"
        /\ Sets(j, "cancelling")
        /\ cancels[j] < CancelsMax
        /\ cancels' = [cancels EXCEPT ![j] = @ + 1]
        /\ UNCHANGED <<task, reason, callback>>
  /\ UNCHANGED <<queue, requeue, enqueue, proc, ran>>

\* cancel_job with no worker to record the end: it does, over whatever the record says by now.
CancelUnworked(j) ==
  /\ Serving
  /\ cancels[j] > 0
  /\ cancels' = [cancels EXCEPT ![j] = @ - 1]
  /\ Sets(j, "interrupted")
  /\ UNCHANGED <<memory, enqueue, task, callback, proc, ran>>

\* A fault: a record being cancelled can be discarded.
DiscardUnlessRunning(j) ==
  /\ proc = "up"
  /\ status[j] \in Statuses \ {"absent", "running", "discarded"}
  /\ Sets(j, "discarded")
  /\ UNCHANGED <<memory, enqueue, task, callback, cancels, proc, ran>>

Discard(j) ==
  /\ proc = "up"
  /\ status[j] \in Statuses \ {"absent", "running", "cancelling", "discarded"}
  /\ Sets(j, "discarded")
  /\ UNCHANGED <<memory, enqueue, task, callback, cancels, proc, ran>>

-----------------------------------------------------------------------------
(* The process.                                                            *)

\* The re-queue task finds room for one more.
Requeue(j) ==
  /\ proc = "up"
  /\ j \in requeue
  /\ Len(queue) < QueueMax
  /\ requeue' = requeue \ {j}
  /\ queue' = Append(queue, j)
  /\ UNCHANGED <<status, reason, enqueue, task, callback, cancels, proc, ran>>

\* shutdown cancels the workers, and with them every task at once.  A cancellation does not stop a
\* store write already in its thread: landed is the set of tasks whose write is, and lands.  A task
\* whose result has landed records its stop over it all the same.
Shutdown(landed) ==
  /\ proc = "up"
  /\ landed \subseteq {j \in Jobs : task[j] \in {"starting", "ending", "failing", "stopping"}}
  /\ proc' = "stopping"
  /\ requeue' = {}
  /\ \E verdict \in {"completed", "failed"} :
       status' = [j \in Jobs |->
         IF j \notin landed THEN status[j]
         ELSE CASE task[j] = "starting" -> IF status[j] = "queued" THEN "running" ELSE status[j]
                [] task[j] = "ending" -> Finished(j, verdict)
                [] task[j] = "failing" -> Finished(j, "failed")
                [] task[j] = "stopping" -> Stopped(j)]
  /\ LET recording == {j \in Jobs : task[j] \in {"started", "running", "ending"}}
         leaving == {j \in Jobs : task[j] \in {"starting", "failing", "stopping"}}
     IN /\ task' = [j \in Jobs |-> IF j \in recording THEN "stopping"
                                   ELSE IF j \in leaving THEN Left(j) ELSE task[j]]
        /\ callback' = [j \in Jobs |-> IF j \in leaving THEN Popped(j) ELSE callback[j]]
  /\ UNCHANGED <<queue, reason, enqueue, cancels, ran>>

\* The process ends, or dies, wherever it is.
Crash ==
  /\ proc # "down"
  /\ proc' = "down"
  /\ queue' = <<>>
  /\ requeue' = {}
  /\ enqueue' = [j \in Jobs |-> IF enqueue[j] \in Enqueuing THEN "lost" ELSE enqueue[j]]
  /\ task' = [j \in Jobs |-> "none"]
  /\ reason' = [j \in Jobs |-> "none"]
  /\ callback' = [j \in Jobs |-> IF callback[j] \in Unsettled THEN "dropped" ELSE callback[j]]
  /\ cancels' = [j \in Jobs |-> 0]
  /\ UNCHANGED <<status, ran>>

\* startup: what was running is interrupted, what was being cancelled is cancelled, and what was
\* queued is put on the queue again.
Resettled(j) ==
  CASE status[j] = "running" -> "interrupted"
    [] status[j] = "cancelling" -> "cancelled"
    [] OTHER -> status[j]

Startup ==
  /\ proc = "down"
  /\ proc' = "up"
  /\ status' = [j \in Jobs |-> Resettled(j)]
  /\ requeue' = {j \in Jobs : status'[j] = "queued"}
  /\ UNCHANGED <<queue, reason, enqueue, task, callback, cancels, ran>>

-----------------------------------------------------------------------------
Queuing(j) ==
  \/ Create(j)
  \/ CreateFails(j)
  \/ CreateCancelled(j)
  \/ Put(j)
  \/ PutFull(j)
  \/ Refuse(j)
  \/ RefuseCancelled(j)
  \/ Answer(j)
  \/ AuditCancelled(j)
  \/ Withdraw(j)
  \/ WithdrawFails(j)
  \/ GiveUp(j)

Working(j) ==
  \/ Take(j)
  \/ Start(j)
  \/ StartFails(j)
  \/ Begin(j)
  \/ RunEnds(j)
  \/ Finish(j)
  \/ Stop(j)
  \/ EndUnrecorded(j)
  \/ Closed(j)

Operating(j) == CancelJob(j) \/ CancelUnworked(j) \/ Discard(j)

Next ==
  \/ \E j \in Jobs : Queuing(j) \/ Working(j) \/ Operating(j) \/ Requeue(j)
  \/ \E landed \in SUBSET Jobs : Shutdown(landed)
  \/ Crash
  \/ Startup

\* What a loop turn, a store write, an audit or a session's close (whose waits are bounded) is enough
\* for happens in the end.  The end of a run does not: an action on a page that never answers waits
\* for ever.  Nobody owes a cancel, a discard, a trigger's cancellation, a shutdown or a start.
Fairness ==
  \A j \in Jobs :
    /\ WF_vars(Put(j) \/ PutFull(j)) /\ WF_vars(Refuse(j)) /\ WF_vars(Answer(j))
    /\ WF_vars(Withdraw(j)) /\ WF_vars(GiveUp(j))
    /\ WF_vars(Take(j)) /\ WF_vars(Start(j)) /\ WF_vars(Begin(j))
    /\ WF_vars(Finish(j)) /\ WF_vars(Stop(j)) /\ WF_vars(Closed(j))
    /\ WF_vars(CancelUnworked(j)) /\ WF_vars(Requeue(j))

Spec == Init /\ [][Next]_vars
FairSpec == Spec /\ Fairness

-----------------------------------------------------------------------------
(* Properties.                                                             *)

TypeOK ==
  /\ status \in [Jobs -> Statuses]
  /\ queue \in Seq(Jobs) /\ Len(queue) <= QueueMax
  /\ requeue \subseteq Jobs
  /\ enqueue \in [Jobs -> {"none"} \union Enqueuing \union EnqueueEnds]
  /\ task \in [Jobs -> {"none"} \union TaskSteps]
  /\ reason \in [Jobs -> {"none", "user", "withdrawn"}]
  /\ callback \in [Jobs -> {"none", "set", "called", "ran", "dropped"}]
  /\ cancels \in [Jobs -> 0..CancelsMax]
  /\ proc \in {"up", "stopping", "down"}
  /\ ran \in [Jobs -> 0..2]

\* A run acts on web pages, so it is never repeated: whatever shutdowns, crashes, re-queues and
\* workers a job meets, its run begins at most once (start_queued, mark_running_interrupted).
StartedOnce == \A j \in Jobs : ran[j] <= 1

\* Once an operator's cancel_job has marked a record cancelling, no run of it begins, and it ends
\* cancelled or interrupted: a result the run was about to report is not recorded over the cancel.
CancelSticks ==
  [][\A j \in Jobs :
       /\ status[j] = "cancelling" => status'[j] \in {"cancelling", "cancelled", "interrupted"}
       /\ ran'[j] # ran[j] => status[j] = "running"]_vars

\* "An operator's cancel under way keeps its own" (_withdraw): while a worker has the job, a cancel
\* is never recorded as an interruption, whoever else stopped the job meanwhile, before or after.
CancelIsNotInterruption ==
  [][\A j \in Jobs :
       status[j] = "cancelling" /\ task[j] # "none" => status'[j] # "interrupted"]_vars

\* A record that reads running has a worker at it, so a cancel reaches the run, unless the call that
\* queued the job took it back; after a process died it reads so only until the next start.
RunningHasWorker ==
  \A j \in Jobs :
    proc = "up" /\ status[j] = "running" =>
      task[j] \in AtWork \union {"stopping"} \/ enqueue[j] \in {"withdrawn", "given_up"}

\* What may hold a job up for ever: its own run, or a run in every worker while it waits for one.
HeldUp(j) ==
  \/ task[j] = "running"
  \/ task[j] = "none" /\ Cardinality({k \in Jobs : task[k] = "running"}) = Workers

\* enqueue_run: "on_finish runs once the job reaches a terminal state, whatever that state is".  A
\* callback once registered is run to its end, or dropped by the caller that gave up, unless a run
\* that never ends holds its job up, or the process stops before a worker has taken the job.
CallbackSettles ==
  \A j \in Jobs :
    []<>(\/ callback[j] \notin Unsettled
         \/ HeldUp(j)
         \/ proc = "stopping" /\ task[j] = "none" /\ callback[j] = "set"
         \/ proc = "down")

\* A shutdown waits for its workers, and they stop: whatever their jobs were doing, none of them is
\* at a job for ever, a run that would never end by itself included, and none takes another job.
ShutdownSettles ==
  proc = "stopping" ~> proc = "down" \/ \A j \in Jobs : task[j] = "none"

\* What a test's comment says of a record left cancelling ("it ... read as live and could not be
\* discarded until the next restart", of a defect): a cancel in progress ends while the process runs,
\* without asking again.
CancellingSettles ==
  \A j \in Jobs : status[j] = "cancelling" ~> status[j] # "cancelling" \/ proc # "up"

\* What _enqueue says of a caller cancelled while it queues a job ("the next startup would run it
\* after its caller gave up on it"): once the call has raised, no run of the job is under way.
GivenUpNeverRuns ==
  \A j \in Hosted : enqueue[j] = "given_up" => task[j] \notin AtWork

-----------------------------------------------------------------------------
(* The abstract life of each job.                                          *)

LifeOf(j) ==
  CASE status[j] = "absent" -> "none"
    [] status[j] \in {"completed", "failed"} -> "done"
    [] status[j] \in {"cancelled", "interrupted"} -> "stopped"
    [] OTHER -> status[j]

Promised == INSTANCE JobLives WITH life <- [j \in Jobs |-> LifeOf(j)], begun <- ran

\* The queue, its workers, withdrawals, cancels, discards, shutdowns, crashes and starts together let
\* a job's record say nothing but one life, in which its run begins at most once (AgentJobStore's
\* guards on the status it finds, start_queued before any run).
ImplementsLives == Promised!LifeSpec

-----------------------------------------------------------------------------
(* The inductive invariant of the theorems (CronRuns_proofs).             *)

InQueue(j) == \E i \in 1..Len(queue) : queue[i] = j
Waits(j) == j \in requeue \/ InQueue(j)

\* No id waits twice: the queue has no duplicate, and none of what is still to be put on it again.
WaitsOnce ==
  /\ \A i, k \in 1..Len(queue) : queue[i] = queue[k] => i = k
  /\ \A j \in requeue : ~InQueue(j)

\* A job before its id is on the queue, or whose id never is, has no worker and no run.
NotYet(j) ==
  /\ enqueue[j] = "none" => status[j] = "absent"
  /\ enqueue[j] \in {"created", "overfull"} => status[j] # "absent"
  /\ enqueue[j] \in {"none", "created", "overfull"} => ~Waits(j) /\ task[j] = "none"
  /\ Waits(j) \/ task[j] = "starting" \/ enqueue[j] \in {"none", "created", "overfull"} =>
       status[j] \notin {"running", "cancelling"}
  /\ Waits(j) => task[j] = "none"
  /\ status[j] \in {"absent", "queued"} => ran[j] = 0 /\ task[j] \in {"none", "starting", "closing"}

\* A task that is to begin its run; one an operator stops; and a job whose worker was gone when its
\* cancel looked for it: no other ever takes it.
AtWorkOnce(j) ==
  /\ ran[j] <= 1
  /\ task[j] = "started" => ran[j] = 0 /\ status[j] = "running"
  /\ task[j] \in {"running", "ending", "failing"} => ran[j] = 1
  /\ status[j] = "cancelling" /\ task[j] \in AtWork \union {"stopping"} => reason[j] = "user"
  /\ cancels[j] > 0 => task[j] = "none" /\ ~Waits(j) /\ enqueue[j] \notin {"none", "created", "overfull"}
  /\ cancels[j] > 0 => status[j] \notin {"absent", "queued"}
  /\ callback[j] = "set" => j \in Hosted

\* Nothing in memory outlives the process.
DownIsEmpty ==
  proc = "down" =>
    /\ queue = <<>> /\ requeue = {}
    /\ \A j \in Jobs : task[j] = "none" /\ cancels[j] = 0 /\ enqueue[j] \notin Enqueuing

IInv ==
  /\ TypeOK
  /\ WaitsOnce
  /\ DownIsEmpty
  /\ \A j \in Jobs : NotYet(j) /\ AtWorkOnce(j)
=============================================================================
