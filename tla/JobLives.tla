------------------------------ MODULE JobLives ------------------------------
(***************************************************************************)
(* What the agent-job queue promises of a job, whatever queues it, cancels *)
(* it, or ends the process: its life goes one way, a run begins at most    *)
(* once and only while the job reads running, only a job whose run began   *)
(* is reported to have done it, a cancel in progress ends as a stop and as *)
(* nothing else, and what is over never comes back to life.                *)
(* AgentJobs implements this.                                              *)
(***************************************************************************)
EXTENDS Naturals

CONSTANT Jobs

VARIABLES
  life,     \* what the job's record says, as far as its reader can tell the cases apart
  begun     \* how many runs of it began

\* "done": it ran to its end, or was refused; "stopped": cancelled or interrupted.
Ends == {"done", "stopped", "discarded"}
Lives == {"none", "queued", "running", "cancelling"} \union Ends

LifeInit ==
  /\ life = [j \in Jobs |-> "none"]
  /\ begun = [j \in Jobs |-> 0]

\* The writes of the queue, each made of what the record says at the time.
MayRead(j, new) ==
  \/ life[j] = "none" /\ new = "queued"
  \/ life[j] = "queued" /\ new \in {"running"} \union Ends
  \/ life[j] = "running" /\ new \in {"cancelling", "stopped"}
  \/ life[j] = "running" /\ new = "done" /\ begun[j] = 1
  \/ life[j] = "cancelling" /\ new = "stopped"
  \/ life[j] \in Ends /\ new \in Ends

\* A store write moves one record; a shutdown and a start move several at once.
Advance ==
  /\ life' \in [Jobs -> Lives]
  /\ \A j \in Jobs : life'[j] # life[j] => MayRead(j, life'[j])
  /\ UNCHANGED begun

Begin(j) ==
  /\ life[j] = "running"
  /\ begun[j] = 0
  /\ begun' = [begun EXCEPT ![j] = 1]
  /\ UNCHANGED life

LifeNext == Advance \/ \E j \in Jobs : Begin(j)

LifeSpec == LifeInit /\ [][LifeNext]_<<life, begun>>
=============================================================================
