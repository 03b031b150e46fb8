-------------------------- MODULE CronRuns_proofs --------------------------
(* Theorems about AgentJobs, for every set of jobs, number of workers and size of the queue, and   *)
(* whichever of its store and audit writes may fail; then about CronRuns: the queue's own theorems *)
(* hold of it, the slots name the open runs, and none is closed under a job that may still run.    *)
EXTENDS CronRuns, TLAPS

-----------------------------------------------------------------------------
(* The queue (AgentJobs): nothing here rests on the constants or variables of CronRuns. *)

\* What a step of one job leaves another.
Alone(j) ==
  \A r \in Jobs \ {j} :
    /\ status'[r] = status[r] /\ enqueue'[r] = enqueue[r] /\ task'[r] = task[r]
    /\ reason'[r] = reason[r] /\ callback'[r] = callback[r]
    /\ cancels'[r] = cancels[r] /\ ran'[r] = ran[r]

LEMMA SameQueue ==
  ASSUME UNCHANGED <<queue, requeue>>
  PROVE  /\ WaitsOnce => WaitsOnce'
         /\ \A j \in Jobs : Waits(j)' <=> Waits(j)
  BY DEF WaitsOnce, Waits, InQueue

LEMMA PutWaits ==
  ASSUME queue \in Seq(Jobs), NEW j \in Jobs, queue' = Append(queue, j)
  PROVE  \A r \in Jobs : InQueue(r)' <=> InQueue(r) \/ r = j
<1>1. Len(queue') = Len(queue) + 1 /\ Len(queue) \in Nat
  OBVIOUS
<1>2. queue'[Len(queue) + 1] = j /\ \A i \in 1..Len(queue) : queue'[i] = queue[i]
  OBVIOUS
<1>3. QED
  BY <1>1, <1>2 DEF InQueue

LEMMA PutOnce ==
  ASSUME queue \in Seq(Jobs), NEW j \in Jobs, queue' = Append(queue, j), ~InQueue(j),
         \A i, k \in 1..Len(queue) : queue[i] = queue[k] => i = k
  PROVE  \A i, k \in 1..Len(queue') : queue'[i] = queue'[k] => i = k
<1>1. Len(queue') = Len(queue) + 1 /\ Len(queue) \in Nat
  OBVIOUS
<1>2. queue'[Len(queue) + 1] = j /\ \A i \in 1..Len(queue) : queue'[i] = queue[i]
  OBVIOUS
<1>3. QED
  BY <1>1, <1>2 DEF InQueue

LEMMA TakeWaits ==
  ASSUME queue \in Seq(Jobs), queue # <<>>, NEW j \in Jobs, j = Head(queue), queue' = Tail(queue),
         \A i, k \in 1..Len(queue) : queue[i] = queue[k] => i = k
  PROVE  /\ \A r \in Jobs : InQueue(r)' <=> InQueue(r) /\ r # j
         /\ \A i, k \in 1..Len(queue') : queue'[i] = queue'[k] => i = k
         /\ InQueue(j)
<1>1. Len(queue) \in Nat \ {0} /\ Len(queue') = Len(queue) - 1 /\ queue[1] = j
  OBVIOUS
<1>2. \A i \in 1..Len(queue') : queue'[i] = queue[i + 1]
  OBVIOUS
<1>3. InQueue(j)
  BY <1>1 DEF InQueue
<1>4. \A i, k \in 1..Len(queue') : queue'[i] = queue'[k] => i = k
  BY <1>1, <1>2
<1>5. ASSUME NEW r \in Jobs, InQueue(r)'
      PROVE  InQueue(r) /\ r # j
  <2>1. PICK i \in 1..Len(queue') : queue'[i] = r
    BY <1>5 DEF InQueue
  <2>2. i + 1 \in 1..Len(queue) /\ queue[i + 1] = r /\ i + 1 # 1
    BY <1>1, <1>2, <2>1
  <2>3. QED
    BY <1>1, <2>2 DEF InQueue
<1>6. ASSUME NEW r \in Jobs, InQueue(r), r # j
      PROVE  InQueue(r)'
  <2>1. PICK i \in 1..Len(queue) : queue[i] = r
    BY <1>6 DEF InQueue
  <2>2. i # 1
    BY <1>1, <1>6, <2>1
  <2>3. i - 1 \in 1..Len(queue') /\ queue'[i - 1] = r
    BY <1>1, <1>2, <2>1, <2>2
  <2>4. QED
    BY <2>3 DEF InQueue
<1>7. QED
  BY <1>3, <1>4, <1>5, <1>6

\* A step of one job is sound for all if it is for that job.
LEMMA Frame ==
  ASSUME IInv, NEW j \in Jobs, Alone(j), proc # "down", proc' = proc,
         TypeOK', WaitsOnce', NotYet(j)', AtWorkOnce(j)',
         \A r \in Jobs \ {j} : Waits(r)' <=> Waits(r)
  PROVE  IInv'
<1>1. ASSUME NEW r \in Jobs \ {j}
      PROVE  NotYet(r)' /\ AtWorkOnce(r)'
  <2>1. NotYet(r) /\ AtWorkOnce(r) /\ (Waits(r)' <=> Waits(r))
    BY <1>1 DEF IInv
  <2>2. NotYet(r)'
    BY <1>1, <2>1 DEF NotYet, Alone
  <2>3. AtWorkOnce(r)'
    BY <1>1, <2>1 DEF AtWorkOnce, Alone
  <2>4. QED
    BY <2>2, <2>3
<1>2. DownIsEmpty'
  BY DEF DownIsEmpty
<1>3. QED
  BY <1>1, <1>2 DEF IInv

LEMMA InvInit == Init => IInv
<1> SUFFICES ASSUME Init
             PROVE  IInv
  OBVIOUS
<1>1. TypeOK
  BY JobsAssumption DEF Init, TypeOK, Statuses, Enqueuing, EnqueueEnds, TaskSteps, FaultSteps
<1>2. WaitsOnce /\ DownIsEmpty /\ \A j \in Jobs : ~Waits(j)
  BY DEF Init, WaitsOnce, DownIsEmpty, Waits, InQueue
<1>3. \A j \in Jobs : NotYet(j) /\ AtWorkOnce(j)
  BY <1>2 DEF Init, NotYet, AtWorkOnce, AtWork
<1>4. QED
  BY <1>1, <1>2, <1>3 DEF IInv

LEMMA CreateKeeps ==
  ASSUME IInv, NEW j \in Jobs, Create(j)
  PROVE  IInv'
<1>0. TypeOK /\ WaitsOnce /\ NotYet(j) /\ AtWorkOnce(j)
  BY DEF IInv
<1>1. UNCHANGED <<queue, requeue, proc>> /\ proc # "down"
  BY DEF Create, memory, Serving
<1>2. WaitsOnce' /\ \A r \in Jobs : Waits(r)' <=> Waits(r)
  BY <1>0, <1>1, SameQueue
<1>3. TypeOK'
  BY <1>0, JobsAssumption DEF TypeOK, Create, memory, Sets, Enqueues, Statuses, Enqueuing, EnqueueEnds,
     TaskSteps, FaultSteps
<1>4. Alone(j)
  BY <1>0 DEF TypeOK, Alone, Create, memory, Sets, Enqueues
<1>5. NotYet(j)'
  BY <1>0, <1>2 DEF TypeOK, NotYet, AtWorkOnce, Create, memory, Sets, Enqueues, Statuses, AtWork, TaskSteps
<1>6. AtWorkOnce(j)'
  BY <1>0, <1>2 DEF TypeOK, NotYet, AtWorkOnce, Create, memory, Sets, Enqueues, Statuses, AtWork, TaskSteps
<1>7. QED
  BY <1>1, <1>2, <1>3, <1>4, <1>5, <1>6, Frame

LEMMA CreateFailsKeeps ==
  ASSUME IInv, NEW j \in Jobs, CreateFails(j)
  PROVE  IInv'
<1>0. TypeOK /\ WaitsOnce /\ NotYet(j) /\ AtWorkOnce(j)
  BY DEF IInv
<1>1. UNCHANGED <<queue, requeue, proc>> /\ proc # "down"
  BY DEF CreateFails, memory, Serving
<1>2. WaitsOnce' /\ \A r \in Jobs : Waits(r)' <=> Waits(r)
  BY <1>0, <1>1, SameQueue
<1>3. TypeOK'
  BY <1>0, JobsAssumption DEF TypeOK, CreateFails, memory, Enqueues, Statuses, Enqueuing, EnqueueEnds,
     TaskSteps, FaultSteps
<1>4. Alone(j)
  BY <1>0 DEF TypeOK, Alone, CreateFails, memory, Enqueues
<1>5. NotYet(j)'
  BY <1>0, <1>2 DEF TypeOK, NotYet, AtWorkOnce, CreateFails, memory, Enqueues, Statuses, AtWork, TaskSteps
<1>6. AtWorkOnce(j)'
  BY <1>0, <1>2 DEF TypeOK, NotYet, AtWorkOnce, CreateFails, memory, Enqueues, Statuses, AtWork, TaskSteps
<1>7. QED
  BY <1>1, <1>2, <1>3, <1>4, <1>5, <1>6, Frame

LEMMA CreateCancelledKeeps ==
  ASSUME IInv, NEW j \in Jobs, CreateCancelled(j)
  PROVE  IInv'
<1>0. TypeOK /\ WaitsOnce /\ NotYet(j) /\ AtWorkOnce(j)
  BY DEF IInv
<1>1. UNCHANGED <<queue, requeue, proc>> /\ proc # "down"
  BY DEF CreateCancelled, memory, Serving
<1>2. WaitsOnce' /\ \A r \in Jobs : Waits(r)' <=> Waits(r)
  BY <1>0, <1>1, SameQueue
<1>3. TypeOK'
  BY <1>0, JobsAssumption DEF TypeOK, CreateCancelled, memory, Enqueues, Statuses, Enqueuing, EnqueueEnds,
     TaskSteps, FaultSteps
<1>4. Alone(j)
  BY <1>0 DEF TypeOK, Alone, CreateCancelled, memory, Enqueues
<1>5. NotYet(j)'
  BY <1>0, <1>2 DEF TypeOK, NotYet, AtWorkOnce, CreateCancelled, memory, Enqueues, Statuses, AtWork, TaskSteps
<1>6. AtWorkOnce(j)'
  BY <1>0, <1>2 DEF TypeOK, NotYet, AtWorkOnce, CreateCancelled, memory, Enqueues, Statuses, AtWork, TaskSteps
<1>7. QED
  BY <1>1, <1>2, <1>3, <1>4, <1>5, <1>6, Frame

LEMMA PutFullKeeps ==
  ASSUME IInv, NEW j \in Jobs, PutFull(j)
  PROVE  IInv'
<1>0. TypeOK /\ WaitsOnce /\ NotYet(j) /\ AtWorkOnce(j)
  BY DEF IInv
<1>1. UNCHANGED <<queue, requeue, proc>> /\ proc # "down"
  BY DEF PutFull, memory, Serving
<1>2. WaitsOnce' /\ \A r \in Jobs : Waits(r)' <=> Waits(r)
  BY <1>0, <1>1, SameQueue
<1>3. TypeOK'
  BY <1>0, JobsAssumption DEF TypeOK, PutFull, memory, Enqueues, Statuses, Enqueuing, EnqueueEnds, TaskSteps,
     FaultSteps
<1>4. Alone(j)
  BY <1>0 DEF TypeOK, Alone, PutFull, memory, Enqueues
<1>5. NotYet(j)'
  BY <1>0, <1>2 DEF TypeOK, NotYet, AtWorkOnce, PutFull, memory, Enqueues, Statuses, AtWork, TaskSteps
<1>6. AtWorkOnce(j)'
  BY <1>0, <1>2 DEF TypeOK, NotYet, AtWorkOnce, PutFull, memory, Enqueues, Statuses, AtWork, TaskSteps
<1>7. QED
  BY <1>1, <1>2, <1>3, <1>4, <1>5, <1>6, Frame

LEMMA RefuseKeeps ==
  ASSUME IInv, NEW j \in Jobs, Refuse(j)
  PROVE  IInv'
<1>0. TypeOK /\ WaitsOnce /\ NotYet(j) /\ AtWorkOnce(j)
  BY DEF IInv
<1>1. UNCHANGED <<queue, requeue, proc>> /\ proc # "down"
  BY DEF Refuse, memory, Serving
<1>2. WaitsOnce' /\ \A r \in Jobs : Waits(r)' <=> Waits(r)
  BY <1>0, <1>1, SameQueue
<1>3. TypeOK'
  BY <1>0, JobsAssumption DEF TypeOK, Refuse, memory, Sets, Enqueues, Statuses, Enqueuing, EnqueueEnds,
     TaskSteps, FaultSteps
<1>4. Alone(j)
  BY <1>0 DEF TypeOK, Alone, Refuse, memory, Sets, Enqueues
<1>5. NotYet(j)'
  BY <1>0, <1>2 DEF TypeOK, NotYet, AtWorkOnce, Refuse, memory, Sets, Enqueues, Statuses, AtWork, TaskSteps
<1>6. AtWorkOnce(j)'
  BY <1>0, <1>2 DEF TypeOK, NotYet, AtWorkOnce, Refuse, memory, Sets, Enqueues, Statuses, AtWork, TaskSteps
<1>7. QED
  BY <1>1, <1>2, <1>3, <1>4, <1>5, <1>6, Frame

LEMMA RefuseCancelledKeeps ==
  ASSUME IInv, NEW j \in Jobs, RefuseCancelled(j)
  PROVE  IInv'
<1>0. TypeOK /\ WaitsOnce /\ NotYet(j) /\ AtWorkOnce(j)
  BY DEF IInv
<1>1. UNCHANGED <<queue, requeue, proc>> /\ proc # "down"
  BY DEF RefuseCancelled, memory, Serving
<1>2. WaitsOnce' /\ \A r \in Jobs : Waits(r)' <=> Waits(r)
  BY <1>0, <1>1, SameQueue
<1>3. TypeOK'
  BY <1>0, JobsAssumption DEF TypeOK, RefuseCancelled, memory, Enqueues, Statuses, Enqueuing, EnqueueEnds,
     TaskSteps, FaultSteps
<1>4. Alone(j)
  BY <1>0 DEF TypeOK, Alone, RefuseCancelled, memory, Enqueues
<1>5. NotYet(j)'
  BY <1>0, <1>2 DEF TypeOK, NotYet, AtWorkOnce, RefuseCancelled, memory, Enqueues, Statuses, AtWork, TaskSteps
<1>6. AtWorkOnce(j)'
  BY <1>0, <1>2 DEF TypeOK, NotYet, AtWorkOnce, RefuseCancelled, memory, Enqueues, Statuses, AtWork, TaskSteps
<1>7. QED
  BY <1>1, <1>2, <1>3, <1>4, <1>5, <1>6, Frame

LEMMA AnswerKeeps ==
  ASSUME IInv, NEW j \in Jobs, Answer(j)
  PROVE  IInv'
<1>0. TypeOK /\ WaitsOnce /\ NotYet(j) /\ AtWorkOnce(j)
  BY DEF IInv
<1>1. UNCHANGED <<queue, requeue, proc>> /\ proc # "down"
  BY DEF Answer, memory, Serving
<1>2. WaitsOnce' /\ \A r \in Jobs : Waits(r)' <=> Waits(r)
  BY <1>0, <1>1, SameQueue
<1>3. TypeOK'
  BY <1>0, JobsAssumption DEF TypeOK, Answer, memory, Enqueues, Statuses, Enqueuing, EnqueueEnds, TaskSteps,
     FaultSteps
<1>4. Alone(j)
  BY <1>0 DEF TypeOK, Alone, Answer, memory, Enqueues
<1>5. NotYet(j)'
  BY <1>0, <1>2 DEF TypeOK, NotYet, AtWorkOnce, Answer, memory, Enqueues, Statuses, AtWork, TaskSteps
<1>6. AtWorkOnce(j)'
  BY <1>0, <1>2 DEF TypeOK, NotYet, AtWorkOnce, Answer, memory, Enqueues, Statuses, AtWork, TaskSteps
<1>7. QED
  BY <1>1, <1>2, <1>3, <1>4, <1>5, <1>6, Frame

LEMMA AuditCancelledKeeps ==
  ASSUME IInv, NEW j \in Jobs, AuditCancelled(j)
  PROVE  IInv'
<1>0. TypeOK /\ WaitsOnce /\ NotYet(j) /\ AtWorkOnce(j)
  BY DEF IInv
<1>1. UNCHANGED <<queue, requeue, proc>> /\ proc # "down"
  BY DEF AuditCancelled, memory, Serving
<1>2. WaitsOnce' /\ \A r \in Jobs : Waits(r)' <=> Waits(r)
  BY <1>0, <1>1, SameQueue
<1>3. TypeOK'
  BY <1>0, JobsAssumption DEF TypeOK, AuditCancelled, memory, Enqueues, Statuses, Enqueuing, EnqueueEnds,
     TaskSteps, FaultSteps
<1>4. Alone(j)
  BY <1>0 DEF TypeOK, Alone, AuditCancelled, memory, Enqueues
<1>5. NotYet(j)'
  BY <1>0, <1>2 DEF TypeOK, NotYet, AtWorkOnce, AuditCancelled, memory, Enqueues, Statuses, AtWork, TaskSteps
<1>6. AtWorkOnce(j)'
  BY <1>0, <1>2 DEF TypeOK, NotYet, AtWorkOnce, AuditCancelled, memory, Enqueues, Statuses, AtWork, TaskSteps
<1>7. QED
  BY <1>1, <1>2, <1>3, <1>4, <1>5, <1>6, Frame

LEMMA WithdrawKeeps ==
  ASSUME IInv, NEW j \in Jobs, Withdraw(j)
  PROVE  IInv'
<1>0. TypeOK /\ WaitsOnce /\ NotYet(j) /\ AtWorkOnce(j)
  BY DEF IInv
<1>1. UNCHANGED <<queue, requeue, proc>> /\ proc # "down"
  BY DEF Withdraw, memory, Serving
<1>2. WaitsOnce' /\ \A r \in Jobs : Waits(r)' <=> Waits(r)
  BY <1>0, <1>1, SameQueue
<1>3. TypeOK'
  BY <1>0, JobsAssumption DEF TypeOK, Withdraw, memory, Sets, Enqueues, Interrupts, Leaves, Left, Popped, Steps,
     Statuses, Enqueuing, EnqueueEnds, TaskSteps, FaultSteps
<1>4. Alone(j)
  BY <1>0 DEF TypeOK, Alone, Withdraw, memory, Sets, Enqueues, Interrupts, Leaves, Left, Popped, Steps
<1>5. NotYet(j)'
  BY <1>0, <1>2 DEF TypeOK, NotYet, AtWorkOnce, Withdraw, memory, Sets, Enqueues, Interrupts, Leaves, Left,
     Popped, Steps, Statuses, AtWork, TaskSteps
<1>6. AtWorkOnce(j)'
  BY <1>0, <1>2 DEF TypeOK, NotYet, AtWorkOnce, Withdraw, memory, Sets, Enqueues, Interrupts, Leaves, Left,
     Popped, Steps, Statuses, AtWork, TaskSteps
<1>7. QED
  BY <1>1, <1>2, <1>3, <1>4, <1>5, <1>6, Frame

LEMMA WithdrawFailsKeeps ==
  ASSUME IInv, NEW j \in Jobs, WithdrawFails(j)
  PROVE  IInv'
<1>0. TypeOK /\ WaitsOnce /\ NotYet(j) /\ AtWorkOnce(j)
  BY DEF IInv
<1>1. UNCHANGED <<queue, requeue, proc>> /\ proc # "down"
  BY DEF WithdrawFails, memory, Serving
<1>2. WaitsOnce' /\ \A r \in Jobs : Waits(r)' <=> Waits(r)
  BY <1>0, <1>1, SameQueue
<1>3. TypeOK'
  BY <1>0, JobsAssumption DEF TypeOK, WithdrawFails, memory, Enqueues, Statuses, Enqueuing, EnqueueEnds,
     TaskSteps, FaultSteps
<1>4. Alone(j)
  BY <1>0 DEF TypeOK, Alone, WithdrawFails, memory, Enqueues
<1>5. NotYet(j)'
  BY <1>0, <1>2 DEF TypeOK, NotYet, AtWorkOnce, WithdrawFails, memory, Enqueues, Statuses, AtWork, TaskSteps
<1>6. AtWorkOnce(j)'
  BY <1>0, <1>2 DEF TypeOK, NotYet, AtWorkOnce, WithdrawFails, memory, Enqueues, Statuses, AtWork, TaskSteps
<1>7. QED
  BY <1>1, <1>2, <1>3, <1>4, <1>5, <1>6, Frame

LEMMA GiveUpKeeps ==
  ASSUME IInv, NEW j \in Jobs, GiveUp(j)
  PROVE  IInv'
<1>0. TypeOK /\ WaitsOnce /\ NotYet(j) /\ AtWorkOnce(j)
  BY DEF IInv
<1>1. UNCHANGED <<queue, requeue, proc>> /\ proc # "down"
  BY DEF GiveUp, memory, Serving
<1>2. WaitsOnce' /\ \A r \in Jobs : Waits(r)' <=> Waits(r)
  BY <1>0, <1>1, SameQueue
<1>3. TypeOK'
  BY <1>0, JobsAssumption DEF TypeOK, GiveUp, memory, Enqueues, Statuses, Enqueuing, EnqueueEnds, TaskSteps,
     FaultSteps
<1>4. Alone(j)
  BY <1>0 DEF TypeOK, Alone, GiveUp, memory, Enqueues
<1>5. NotYet(j)'
  BY <1>0, <1>2 DEF TypeOK, NotYet, AtWorkOnce, GiveUp, memory, Enqueues, Statuses, AtWork, TaskSteps
<1>6. AtWorkOnce(j)'
  BY <1>0, <1>2 DEF TypeOK, NotYet, AtWorkOnce, GiveUp, memory, Enqueues, Statuses, AtWork, TaskSteps
<1>7. QED
  BY <1>1, <1>2, <1>3, <1>4, <1>5, <1>6, Frame

LEMMA StartKeeps ==
  ASSUME IInv, NEW j \in Jobs, Start(j)
  PROVE  IInv'
<1>0. TypeOK /\ WaitsOnce /\ NotYet(j) /\ AtWorkOnce(j)
  BY DEF IInv
<1>1. UNCHANGED <<queue, requeue, proc>> /\ proc # "down"
  BY DEF Start, memory, Serving
<1>2. WaitsOnce' /\ \A r \in Jobs : Waits(r)' <=> Waits(r)
  BY <1>0, <1>1, SameQueue
<1>3. TypeOK'
  BY <1>0, JobsAssumption DEF TypeOK, Start, memory, Sets, Steps, Leaves, Left, Popped, Statuses, Enqueuing,
     EnqueueEnds, TaskSteps, FaultSteps
<1>4. Alone(j)
  BY <1>0 DEF TypeOK, Alone, Start, memory, Sets, Steps, Leaves, Left, Popped
<1>5. NotYet(j)'
  BY <1>0, <1>2 DEF TypeOK, NotYet, AtWorkOnce, Start, memory, Sets, Steps, Leaves, Left, Popped, Statuses,
     AtWork, TaskSteps
<1>6. AtWorkOnce(j)'
  BY <1>0, <1>2 DEF TypeOK, NotYet, AtWorkOnce, Start, memory, Sets, Steps, Leaves, Left, Popped, Statuses,
     AtWork, TaskSteps
<1>7. QED
  BY <1>1, <1>2, <1>3, <1>4, <1>5, <1>6, Frame

LEMMA StartFailsKeeps ==
  ASSUME IInv, NEW j \in Jobs, StartFails(j)
  PROVE  IInv'
<1>0. TypeOK /\ WaitsOnce /\ NotYet(j) /\ AtWorkOnce(j)
  BY DEF IInv
<1>1. UNCHANGED <<queue, requeue, proc>> /\ proc # "down"
  BY DEF StartFails, memory, Serving
<1>2. WaitsOnce' /\ \A r \in Jobs : Waits(r)' <=> Waits(r)
  BY <1>0, <1>1, SameQueue
<1>3. TypeOK'
  BY <1>0, JobsAssumption DEF TypeOK, StartFails, memory, Steps, Leaves, Left, Popped, Statuses, Enqueuing,
     EnqueueEnds, TaskSteps, FaultSteps
<1>4. Alone(j)
  BY <1>0 DEF TypeOK, Alone, StartFails, memory, Steps, Leaves, Left, Popped
<1>5. NotYet(j)'
  BY <1>0, <1>2 DEF TypeOK, NotYet, AtWorkOnce, StartFails, memory, Steps, Leaves, Left, Popped, Statuses,
     AtWork, TaskSteps
<1>6. AtWorkOnce(j)'
  BY <1>0, <1>2 DEF TypeOK, NotYet, AtWorkOnce, StartFails, memory, Steps, Leaves, Left, Popped, Statuses,
     AtWork, TaskSteps
<1>7. QED
  BY <1>1, <1>2, <1>3, <1>4, <1>5, <1>6, Frame

LEMMA BeginKeeps ==
  ASSUME IInv, NEW j \in Jobs, Begin(j)
  PROVE  IInv'
<1>0. TypeOK /\ WaitsOnce /\ NotYet(j) /\ AtWorkOnce(j)
  BY DEF IInv
<1>1. UNCHANGED <<queue, requeue, proc>> /\ proc # "down"
  BY DEF Begin, memory, Serving
<1>2. WaitsOnce' /\ \A r \in Jobs : Waits(r)' <=> Waits(r)
  BY <1>0, <1>1, SameQueue
<1>3. TypeOK'
  BY <1>0, JobsAssumption DEF TypeOK, Begin, memory, Steps, Statuses, Enqueuing, EnqueueEnds, TaskSteps,
     FaultSteps
<1>4. Alone(j)
  BY <1>0 DEF TypeOK, Alone, Begin, memory, Steps
<1>5. NotYet(j)'
  BY <1>0, <1>2 DEF TypeOK, NotYet, AtWorkOnce, Begin, memory, Steps, Statuses, AtWork, TaskSteps
<1>6. AtWorkOnce(j)'
  BY <1>0, <1>2 DEF TypeOK, NotYet, AtWorkOnce, Begin, memory, Steps, Statuses, AtWork, TaskSteps
<1>7. QED
  BY <1>1, <1>2, <1>3, <1>4, <1>5, <1>6, Frame

LEMMA RunEndsKeeps ==
  ASSUME IInv, NEW j \in Jobs, RunEnds(j)
  PROVE  IInv'
<1>0. TypeOK /\ WaitsOnce /\ NotYet(j) /\ AtWorkOnce(j)
  BY DEF IInv
<1>1. UNCHANGED <<queue, requeue, proc>> /\ proc # "down"
  BY DEF RunEnds, memory, Serving
<1>2. WaitsOnce' /\ \A r \in Jobs : Waits(r)' <=> Waits(r)
  BY <1>0, <1>1, SameQueue
<1>3. TypeOK'
  BY <1>0, JobsAssumption DEF TypeOK, RunEnds, memory, Steps, Statuses, Enqueuing, EnqueueEnds, TaskSteps,
     FaultSteps
<1>4. Alone(j)
  BY <1>0 DEF TypeOK, Alone, RunEnds, memory, Steps
<1>5. NotYet(j)'
  BY <1>0, <1>2 DEF TypeOK, NotYet, AtWorkOnce, RunEnds, memory, Steps, Statuses, AtWork, TaskSteps
<1>6. AtWorkOnce(j)'
  BY <1>0, <1>2 DEF TypeOK, NotYet, AtWorkOnce, RunEnds, memory, Steps, Statuses, AtWork, TaskSteps
<1>7. QED
  BY <1>1, <1>2, <1>3, <1>4, <1>5, <1>6, Frame

LEMMA FinishKeeps ==
  ASSUME IInv, NEW j \in Jobs, Finish(j)
  PROVE  IInv'
<1>0. TypeOK /\ WaitsOnce /\ NotYet(j) /\ AtWorkOnce(j)
  BY DEF IInv
<1>1. UNCHANGED <<queue, requeue, proc>> /\ proc # "down"
  BY DEF Finish, memory, Serving
<1>2. WaitsOnce' /\ \A r \in Jobs : Waits(r)' <=> Waits(r)
  BY <1>0, <1>1, SameQueue
<1>3. TypeOK'
  BY <1>0, JobsAssumption DEF TypeOK, Finish, memory, Sets, Steps, Leaves, Left, Popped, Finished, Verdicts,
     Statuses, Enqueuing, EnqueueEnds, TaskSteps, FaultSteps
<1>4. Alone(j)
  BY <1>0 DEF TypeOK, Alone, Finish, memory, Sets, Steps, Leaves, Left, Popped, Finished, Verdicts
<1>5. NotYet(j)'
  BY <1>0, <1>2 DEF TypeOK, NotYet, AtWorkOnce, Finish, memory, Sets, Steps, Leaves, Left, Popped, Finished,
     Verdicts, Statuses, AtWork, TaskSteps
<1>6. AtWorkOnce(j)'
  BY <1>0, <1>2 DEF TypeOK, NotYet, AtWorkOnce, Finish, memory, Sets, Steps, Leaves, Left, Popped, Finished,
     Verdicts, Statuses, AtWork, TaskSteps
<1>7. QED
  BY <1>1, <1>2, <1>3, <1>4, <1>5, <1>6, Frame

LEMMA StopKeeps ==
  ASSUME IInv, NEW j \in Jobs, Stop(j)
  PROVE  IInv'
<1>0. TypeOK /\ WaitsOnce /\ NotYet(j) /\ AtWorkOnce(j)
  BY DEF IInv
<1>1. UNCHANGED <<queue, requeue, proc>> /\ proc # "down"
  BY DEF Stop, memory, Serving
<1>2. WaitsOnce' /\ \A r \in Jobs : Waits(r)' <=> Waits(r)
  BY <1>0, <1>1, SameQueue
<1>3. TypeOK'
  BY <1>0, JobsAssumption DEF TypeOK, Stop, memory, Sets, Steps, Leaves, Left, Popped, Stopped, Statuses,
     Enqueuing, EnqueueEnds, TaskSteps, FaultSteps
<1>4. Alone(j)
  BY <1>0 DEF TypeOK, Alone, Stop, memory, Sets, Steps, Leaves, Left, Popped, Stopped
<1>5. NotYet(j)'
  BY <1>0, <1>2 DEF TypeOK, NotYet, AtWorkOnce, Stop, memory, Sets, Steps, Leaves, Left, Popped, Stopped,
     Statuses, AtWork, TaskSteps
<1>6. AtWorkOnce(j)'
  BY <1>0, <1>2 DEF TypeOK, NotYet, AtWorkOnce, Stop, memory, Sets, Steps, Leaves, Left, Popped, Stopped,
     Statuses, AtWork, TaskSteps
<1>7. QED
  BY <1>1, <1>2, <1>3, <1>4, <1>5, <1>6, Frame

LEMMA EndUnrecordedKeeps ==
  ASSUME IInv, NEW j \in Jobs, EndUnrecorded(j)
  PROVE  IInv'
<1>0. TypeOK /\ WaitsOnce /\ NotYet(j) /\ AtWorkOnce(j)
  BY DEF IInv
<1>1. UNCHANGED <<queue, requeue, proc>> /\ proc # "down"
  BY DEF EndUnrecorded, memory, Serving
<1>2. WaitsOnce' /\ \A r \in Jobs : Waits(r)' <=> Waits(r)
  BY <1>0, <1>1, SameQueue
<1>3. TypeOK'
  BY <1>0, JobsAssumption DEF TypeOK, EndUnrecorded, memory, Steps, Leaves, Left, Popped, Statuses, Enqueuing,
     EnqueueEnds, TaskSteps, FaultSteps
<1>4. Alone(j)
  BY <1>0 DEF TypeOK, Alone, EndUnrecorded, memory, Steps, Leaves, Left, Popped
<1>5. NotYet(j)'
  BY <1>0, <1>2 DEF TypeOK, NotYet, AtWorkOnce, EndUnrecorded, memory, Steps, Leaves, Left, Popped, Statuses,
     AtWork, TaskSteps
<1>6. AtWorkOnce(j)'
  BY <1>0, <1>2 DEF TypeOK, NotYet, AtWorkOnce, EndUnrecorded, memory, Steps, Leaves, Left, Popped, Statuses,
     AtWork, TaskSteps
<1>7. QED
  BY <1>1, <1>2, <1>3, <1>4, <1>5, <1>6, Frame

LEMMA ClosedKeeps ==
  ASSUME IInv, NEW j \in Jobs, Closed(j)
  PROVE  IInv'
<1>0. TypeOK /\ WaitsOnce /\ NotYet(j) /\ AtWorkOnce(j)
  BY DEF IInv
<1>1. UNCHANGED <<queue, requeue, proc>> /\ proc # "down"
  BY DEF Closed, memory, Serving
<1>2. WaitsOnce' /\ \A r \in Jobs : Waits(r)' <=> Waits(r)
  BY <1>0, <1>1, SameQueue
<1>3. TypeOK'
  BY <1>0, JobsAssumption DEF TypeOK, Closed, memory, Steps, Statuses, Enqueuing, EnqueueEnds, TaskSteps,
     FaultSteps
<1>4. Alone(j)
  BY <1>0 DEF TypeOK, Alone, Closed, memory, Steps
<1>5. NotYet(j)'
  BY <1>0, <1>2 DEF TypeOK, NotYet, AtWorkOnce, Closed, memory, Steps, Statuses, AtWork, TaskSteps
<1>6. AtWorkOnce(j)'
  BY <1>0, <1>2 DEF TypeOK, NotYet, AtWorkOnce, Closed, memory, Steps, Statuses, AtWork, TaskSteps
<1>7. QED
  BY <1>1, <1>2, <1>3, <1>4, <1>5, <1>6, Frame

LEMMA CancelJobKeeps ==
  ASSUME IInv, NEW j \in Jobs, CancelJob(j)
  PROVE  IInv'
<1>0. TypeOK /\ WaitsOnce /\ NotYet(j) /\ AtWorkOnce(j)
  BY DEF IInv
<1>1. UNCHANGED <<queue, requeue, proc>> /\ proc # "down"
  BY DEF CancelJob, memory, Serving
<1>2. WaitsOnce' /\ \A r \in Jobs : Waits(r)' <=> Waits(r)
  BY <1>0, <1>1, SameQueue
<1>3. TypeOK'
  <2>1. status' \in [Jobs -> Statuses]
    BY <1>0 DEF TypeOK, CancelJob, Sets, Statuses
  <2>2. task' \in [Jobs -> {"none"} \union TaskSteps]
        /\ callback' \in [Jobs -> {"none", "set", "called", "ran", "dropped"}]
    BY <1>0 DEF TypeOK, CancelJob, Interrupts, Leaves, Left, Popped, Steps, TaskSteps
  <2>3. reason' \in [Jobs -> {"none", "user", "withdrawn"}]
    BY <1>0 DEF TypeOK, CancelJob
  <2>4. cancels' \in [Jobs -> 0..CancelsMax]
    BY <1>0, JobsAssumption DEF TypeOK, CancelJob
  <2>5. QED
    BY <1>0, <2>1, <2>2, <2>3, <2>4 DEF TypeOK, CancelJob
<1>4. Alone(j)
  BY <1>0 DEF TypeOK, Alone, CancelJob, memory, Sets, Steps, Interrupts, Leaves, Left, Popped
<1>5. NotYet(j)'
  BY <1>0, <1>2 DEF TypeOK, NotYet, AtWorkOnce, CancelJob, memory, Sets, Steps, Interrupts, Leaves, Left,
     Popped, Statuses, AtWork, TaskSteps
<1>6. AtWorkOnce(j)'
  BY <1>0, <1>2 DEF TypeOK, NotYet, AtWorkOnce, CancelJob, memory, Sets, Steps, Interrupts, Leaves, Left,
     Popped, Statuses, AtWork, TaskSteps
<1>7. QED
  BY <1>1, <1>2, <1>3, <1>4, <1>5, <1>6, Frame

LEMMA CancelUnworkedKeeps ==
  ASSUME IInv, NEW j \in Jobs, CancelUnworked(j)
  PROVE  IInv'
<1>0. TypeOK /\ WaitsOnce /\ NotYet(j) /\ AtWorkOnce(j)
  BY DEF IInv
<1>1. UNCHANGED <<queue, requeue, proc>> /\ proc # "down"
  BY DEF CancelUnworked, memory, Serving
<1>2. WaitsOnce' /\ \A r \in Jobs : Waits(r)' <=> Waits(r)
  BY <1>0, <1>1, SameQueue
<1>3. TypeOK'
  BY <1>0, JobsAssumption DEF TypeOK, CancelUnworked, memory, Sets, Statuses, Enqueuing, EnqueueEnds, TaskSteps,
     FaultSteps
<1>4. Alone(j)
  BY <1>0 DEF TypeOK, Alone, CancelUnworked, memory, Sets
<1>5. NotYet(j)'
  BY <1>0, <1>2 DEF TypeOK, NotYet, AtWorkOnce, CancelUnworked, memory, Sets, Statuses, AtWork, TaskSteps
<1>6. AtWorkOnce(j)'
  BY <1>0, <1>2 DEF TypeOK, NotYet, AtWorkOnce, CancelUnworked, memory, Sets, Statuses, AtWork, TaskSteps
<1>7. QED
  BY <1>1, <1>2, <1>3, <1>4, <1>5, <1>6, Frame

LEMMA DiscardKeeps ==
  ASSUME IInv, NEW j \in Jobs, Discard(j)
  PROVE  IInv'
<1>0. TypeOK /\ WaitsOnce /\ NotYet(j) /\ AtWorkOnce(j)
  BY DEF IInv
<1>1. UNCHANGED <<queue, requeue, proc>> /\ proc # "down"
  BY DEF Discard, memory, Serving
<1>2. WaitsOnce' /\ \A r \in Jobs : Waits(r)' <=> Waits(r)
  BY <1>0, <1>1, SameQueue
<1>3. TypeOK'
  BY <1>0, JobsAssumption DEF TypeOK, Discard, memory, Sets, Statuses, Enqueuing, EnqueueEnds, TaskSteps,
     FaultSteps
<1>4. Alone(j)
  BY <1>0 DEF TypeOK, Alone, Discard, memory, Sets
<1>5. NotYet(j)'
  BY <1>0, <1>2 DEF TypeOK, NotYet, AtWorkOnce, Discard, memory, Sets, Statuses, AtWork, TaskSteps
<1>6. AtWorkOnce(j)'
  BY <1>0, <1>2 DEF TypeOK, NotYet, AtWorkOnce, Discard, memory, Sets, Statuses, AtWork, TaskSteps
<1>7. QED
  BY <1>1, <1>2, <1>3, <1>4, <1>5, <1>6, Frame

\* The steps that move an id: on to the queue, or off it to a worker.
LEMMA PutKeeps ==
  ASSUME IInv, NEW j \in Jobs, Put(j)
  PROVE  IInv'
<1>0. TypeOK /\ WaitsOnce /\ NotYet(j) /\ AtWorkOnce(j)
  BY DEF IInv
<1>1. /\ proc # "down" /\ proc' = proc /\ requeue' = requeue /\ queue' = Append(queue, j)
      /\ enqueue[j] = "created" /\ Len(queue) < QueueMax /\ queue \in Seq(Jobs)
  BY <1>0 DEF Put, Serving, TypeOK
<1>2. ~Waits(j) /\ task[j] = "none" /\ status[j] \notin {"running", "cancelling"}
  BY <1>0, <1>1 DEF NotYet
<1>3. \A r \in Jobs : InQueue(r)' <=> InQueue(r) \/ r = j
  BY <1>1, PutWaits
<1>4. WaitsOnce'
  <2>1. \A i, k \in 1..Len(queue') : queue'[i] = queue'[k] => i = k
    BY <1>0, <1>1, <1>2, PutOnce DEF WaitsOnce, Waits
  <2>2. \A r \in requeue' : ~InQueue(r)'
    BY <1>0, <1>1, <1>2, <1>3 DEF WaitsOnce, Waits, TypeOK
  <2>3. QED
    BY <2>1, <2>2 DEF WaitsOnce
<1>5. \A r \in Jobs \ {j} : Waits(r)' <=> Waits(r)
  BY <1>1, <1>3 DEF Waits
<1>6. TypeOK'
  <2>1. queue' \in Seq(Jobs) /\ Len(queue') <= QueueMax
    BY <1>1, JobsAssumption
  <2>2. QED
    BY <1>0, <2>1 DEF TypeOK, Put, Enqueues, Enqueuing, EnqueueEnds
<1>7. Alone(j)
  BY <1>0 DEF TypeOK, Alone, Put, Enqueues
<1>8. NotYet(j)'
  BY <1>0, <1>2 DEF TypeOK, NotYet, Put, Enqueues
<1>9. AtWorkOnce(j)'
  BY <1>0, <1>2 DEF TypeOK, AtWorkOnce, Put, Enqueues, AtWork
<1>10. QED
  BY <1>1, <1>4, <1>5, <1>6, <1>7, <1>8, <1>9, Frame

LEMMA RequeueKeeps ==
  ASSUME IInv, NEW j \in Jobs, Requeue(j)
  PROVE  IInv'
<1>0. TypeOK /\ WaitsOnce /\ NotYet(j) /\ AtWorkOnce(j)
  BY DEF IInv
<1>1. /\ proc # "down" /\ proc' = proc /\ j \in requeue /\ requeue' = requeue \ {j}
      /\ queue' = Append(queue, j) /\ Len(queue) < QueueMax /\ queue \in Seq(Jobs)
  BY <1>0 DEF Requeue, TypeOK
<1>2. Waits(j) /\ ~InQueue(j)
  BY <1>0, <1>1 DEF WaitsOnce, Waits
<1>3. \A r \in Jobs : InQueue(r)' <=> InQueue(r) \/ r = j
  BY <1>1, PutWaits
<1>4. WaitsOnce'
  <2>1. \A i, k \in 1..Len(queue') : queue'[i] = queue'[k] => i = k
    BY <1>0, <1>1, <1>2, PutOnce DEF WaitsOnce
  <2>2. \A r \in requeue' : ~InQueue(r)'
    BY <1>0, <1>1, <1>3 DEF WaitsOnce, TypeOK
  <2>3. QED
    BY <2>1, <2>2 DEF WaitsOnce
<1>5. \A r \in Jobs : Waits(r)' <=> Waits(r)
  BY <1>1, <1>2, <1>3 DEF Waits
<1>6. TypeOK'
  <2>1. queue' \in Seq(Jobs) /\ Len(queue') <= QueueMax
    BY <1>1, JobsAssumption
  <2>2. QED
    BY <1>0, <2>1 DEF TypeOK, Requeue
<1>7. Alone(j)
  BY DEF Alone, Requeue
<1>8. NotYet(j)' /\ AtWorkOnce(j)'
  BY <1>0, <1>5 DEF NotYet, AtWorkOnce, Requeue
<1>9. QED
  BY <1>1, <1>4, <1>5, <1>6, <1>7, <1>8, Frame

LEMMA TakeKeeps ==
  ASSUME IInv, NEW j \in Jobs, Take(j)
  PROVE  IInv'
<1>0. TypeOK /\ WaitsOnce /\ NotYet(j) /\ AtWorkOnce(j)
  BY DEF IInv
<1>1. /\ proc # "down" /\ proc' = proc /\ requeue' = requeue /\ queue # <<>> /\ j = Head(queue)
      /\ queue' = Tail(queue) /\ queue \in Seq(Jobs)
  BY <1>0 DEF Take, TypeOK
<1>2. /\ \A r \in Jobs : InQueue(r)' <=> InQueue(r) /\ r # j
      /\ \A i, k \in 1..Len(queue') : queue'[i] = queue'[k] => i = k
      /\ InQueue(j)
  BY <1>0, <1>1, TakeWaits DEF WaitsOnce
<1>3. Waits(j) /\ ~Waits(j)'
  BY <1>0, <1>1, <1>2 DEF Waits, WaitsOnce
<1>4. WaitsOnce'
  BY <1>0, <1>1, <1>2 DEF WaitsOnce, TypeOK
<1>5. \A r \in Jobs \ {j} : Waits(r)' <=> Waits(r)
  BY <1>1, <1>2 DEF Waits
<1>6. TypeOK'
  <2>1. queue' \in Seq(Jobs) /\ Len(queue') <= QueueMax
    BY <1>0, <1>1, JobsAssumption DEF TypeOK
  <2>2. QED
    BY <1>0, <2>1 DEF TypeOK, Take, Steps, TaskSteps
<1>7. Alone(j)
  BY <1>0 DEF TypeOK, Alone, Take, Steps
<1>8. NotYet(j)'
  BY <1>0, <1>3 DEF TypeOK, NotYet, Take, Steps
<1>9. AtWorkOnce(j)'
  BY <1>0, <1>3 DEF TypeOK, AtWorkOnce, NotYet, Take, Steps, AtWork
<1>10. QED
  BY <1>1, <1>4, <1>5, <1>6, <1>7, <1>8, <1>9, Frame

\* A shutdown moves every task at once, each as it would be moved alone.
LEMMA ShutdownKeeps ==
  ASSUME IInv, NEW landed \in SUBSET Jobs, Shutdown(landed)
  PROVE  IInv'
<1>0. TypeOK /\ WaitsOnce
  BY DEF IInv
<1>1. requeue' = {} /\ proc' = "stopping" /\ UNCHANGED <<queue, reason, enqueue, cancels, ran>>
  BY DEF Shutdown
<1>2. WaitsOnce' /\ \A r \in Jobs : Waits(r)' => Waits(r)
  BY <1>0, <1>1 DEF WaitsOnce, Waits, InQueue
<1>3. PICK verdict \in {"completed", "failed"} :
        status' = [j \in Jobs |->
          IF j \notin landed THEN status[j]
          ELSE CASE task[j] = "starting" -> IF status[j] = "queued" THEN "running" ELSE status[j]
                 [] task[j] = "ending" -> Finished(j, verdict)
                 [] task[j] = "failing" -> Finished(j, "failed")
                 [] task[j] = "stopping" -> Stopped(j)]
  BY DEF Shutdown
<1>4. \A j \in landed : task[j] \in {"starting", "ending", "failing", "stopping"}
  BY DEF Shutdown
<1>5. ASSUME NEW j \in Jobs
      PROVE  /\ status'[j] \in Statuses
             /\ j \notin landed => status'[j] = status[j]
             /\ j \in landed /\ task[j] = "starting" =>
                  status'[j] = IF status[j] = "queued" THEN "running" ELSE status[j]
             /\ j \in landed /\ task[j] \in {"ending", "failing", "stopping"} =>
                  status'[j] \notin {"running", "cancelling"}
             /\ status'[j] \in {"absent", "queued"} => status[j] = status'[j]
  <2>0. status[j] \in Statuses
    BY <1>0 DEF TypeOK
  <2>1. CASE j \notin landed
    BY <1>3, <2>0, <2>1
  <2>2. CASE j \in landed /\ task[j] = "starting"
    BY <1>3, <2>0, <2>2 DEF Statuses
  <2>3. CASE j \in landed /\ task[j] = "ending"
    <3>1. status'[j] = Finished(j, verdict)
      BY <1>3, <2>3
    <3>2. QED
      BY <2>0, <2>3, <3>1 DEF Statuses, Finished
  <2>4. CASE j \in landed /\ task[j] = "failing"
    <3>1. status'[j] = Finished(j, "failed")
      BY <1>3, <2>4
    <3>2. QED
      BY <2>0, <2>4, <3>1 DEF Statuses, Finished
  <2>5. CASE j \in landed /\ task[j] = "stopping"
    <3>1. status'[j] = Stopped(j)
      BY <1>3, <2>5
    <3>2. QED
      BY <2>5, <3>1 DEF Statuses, Stopped
  <2>6. QED
    BY <1>4, <2>1, <2>2, <2>3, <2>4, <2>5
<1>6. ASSUME NEW j \in Jobs
      PROVE  /\ task[j] \in {"started", "running", "ending"} =>
                  task'[j] = "stopping" /\ callback'[j] = callback[j]
             /\ task[j] \in {"starting", "failing", "stopping"} =>
                  task'[j] = Left(j) /\ callback'[j] = Popped(j)
             /\ task[j] \in {"none", "closing"} => task'[j] = task[j] /\ callback'[j] = callback[j]
  BY DEF Shutdown
<1>7. task' \in [Jobs -> {"none"} \union TaskSteps]
      /\ callback' \in [Jobs -> {"none", "set", "called", "ran", "dropped"}]
  <2>1. task' = [j \in Jobs |-> task'[j]] /\ callback' = [j \in Jobs |-> callback'[j]]
    BY DEF Shutdown
  <2>2. \A j \in Jobs : /\ task'[j] \in {"none"} \union TaskSteps
                        /\ callback'[j] \in {"none", "set", "called", "ran", "dropped"}
    BY <1>0, <1>6 DEF TypeOK, TaskSteps, Left, Popped
  <2>3. QED
    BY <2>1, <2>2
<1>8. TypeOK'
  <2>1. status' \in [Jobs -> Statuses]
    BY <1>3, <1>5
  <2>2. QED
    BY <1>0, <1>1, <1>7, <2>1 DEF TypeOK
<1>9. ASSUME NEW j \in Jobs
      PROVE  NotYet(j)' /\ AtWorkOnce(j)'
  <2>1. NotYet(j) /\ AtWorkOnce(j) /\ task[j] \in {"none"} \union TaskSteps
    BY <1>9 DEF IInv, TypeOK
  <2>2. /\ enqueue'[j] = enqueue[j] /\ ran'[j] = ran[j] /\ reason'[j] = reason[j] /\ cancels'[j] = cancels[j]
        /\ Waits(j)' => Waits(j)
    BY <1>1, <1>2
  <2>3. CASE task[j] \in {"none", "closing"}
    <3>1. status'[j] = status[j] /\ task'[j] = task[j] /\ callback'[j] = callback[j]
      BY <1>4, <1>5, <1>6, <2>3
    <3>2. QED
      BY <2>1, <2>2, <2>3, <3>1 DEF NotYet, AtWorkOnce
  <2>4. CASE task[j] \in {"started", "running", "ending"}
    <3>1. /\ task'[j] = "stopping" /\ callback'[j] = callback[j]
          /\ status'[j] \in {"absent", "queued"} => status[j] = status'[j]
          /\ status'[j] \in {"running", "cancelling"} => status'[j] = status[j]
      BY <1>4, <1>5, <1>6, <2>4
    <3>2. ~Waits(j) /\ enqueue[j] \notin {"none", "created", "overfull"} /\ ~(cancels[j] > 0)
      BY <2>1, <2>4 DEF NotYet, AtWorkOnce
    <3>3. NotYet(j)'
      BY <2>1, <2>2, <2>4, <3>1, <3>2 DEF NotYet
    <3>4. AtWorkOnce(j)'
      BY <2>1, <2>2, <2>4, <3>1, <3>2 DEF AtWorkOnce, AtWork
    <3>5. QED
      BY <3>3, <3>4
  <2>5. CASE task[j] \in {"starting", "failing", "stopping"}
    <3>1. /\ task'[j] \in {"none", "closing"}
          /\ callback'[j] # "set"
      BY <1>6, <2>5 DEF Left, Popped
    <3>2. /\ status'[j] \in {"absent", "queued"} => status[j] = status'[j]
          /\ task[j] # "starting" /\ status'[j] \in {"running", "cancelling"} => status'[j] = status[j]
          /\ task[j] = "starting" /\ status'[j] \in {"running", "cancelling"} =>
               status[j] \in {"queued", "running", "cancelling"}
      BY <1>5, <2>5
    <3>3. ~Waits(j) /\ enqueue[j] \notin {"none", "created", "overfull"} /\ ~(cancels[j] > 0)
      BY <2>1, <2>5 DEF NotYet, AtWorkOnce
    <3>4. NotYet(j)'
      BY <2>1, <2>2, <3>1, <3>2, <3>3 DEF NotYet
    <3>5. AtWorkOnce(j)'
      BY <2>1, <2>2, <3>1, <3>2, <3>3 DEF AtWorkOnce, AtWork
    <3>6. QED
      BY <3>4, <3>5
  <2>6. \/ task[j] \in {"none", "closing"}
        \/ task[j] \in {"started", "running", "ending"}
        \/ task[j] \in {"starting", "failing", "stopping"}
    BY <2>1 DEF TaskSteps
  <2>7. QED
    BY <2>3, <2>4, <2>5, <2>6
<1>10. DownIsEmpty'
  BY <1>1 DEF DownIsEmpty
<1>11. QED
  BY <1>2, <1>8, <1>9, <1>10 DEF IInv

LEMMA CrashKeeps ==
  ASSUME IInv, Crash
  PROVE  IInv'
<1>0. TypeOK
  BY DEF IInv
<1>1. TypeOK'
  BY <1>0, JobsAssumption DEF TypeOK, Crash, Enqueuing, EnqueueEnds
<1>2. queue' = <<>> /\ requeue' = {} /\ \A j \in Jobs : ~Waits(j)'
  BY DEF Crash, Waits, InQueue
<1>3. WaitsOnce' /\ DownIsEmpty'
  BY <1>0, <1>2 DEF WaitsOnce, DownIsEmpty, Crash, Enqueuing, TypeOK, EnqueueEnds
<1>4. ASSUME NEW j \in Jobs
      PROVE  NotYet(j)' /\ AtWorkOnce(j)'
  <2>1. NotYet(j) /\ AtWorkOnce(j)
    BY <1>4 DEF IInv
  <2>2. NotYet(j)'
    BY <1>0, <1>2, <1>4, <2>1 DEF NotYet, Crash, Enqueuing, TypeOK
  <2>3. AtWorkOnce(j)'
    BY <1>0, <1>2, <1>4, <2>1 DEF AtWorkOnce, Crash, AtWork, TypeOK
  <2>4. QED
    BY <2>2, <2>3
<1>5. QED
  BY <1>1, <1>3, <1>4 DEF IInv

LEMMA StartupKeeps ==
  ASSUME IInv, Startup
  PROVE  IInv'
<1>0. TypeOK
  BY DEF IInv
<1>1. /\ queue = <<>> /\ queue' = queue
      /\ \A j \in Jobs : task[j] = "none" /\ cancels[j] = 0 /\ enqueue[j] \notin Enqueuing
  BY DEF IInv, DownIsEmpty, Startup
<1>2. status' = [j \in Jobs |-> Resettled(j)] /\ requeue' = {j \in Jobs : status'[j] = "queued"}
  BY DEF Startup
<1>3. \A j \in Jobs : /\ status'[j] \in Statuses \ {"running", "cancelling"}
                      /\ status'[j] \in {"absent", "queued"} <=> status[j] \in {"absent", "queued"}
                      /\ status'[j] = "absent" <=> status[j] = "absent"
  BY <1>0, <1>2 DEF Resettled, TypeOK, Statuses
<1>4. TypeOK'
  BY <1>0, <1>2, <1>3 DEF TypeOK, Startup
<1>5. \A j \in Jobs : Waits(j)' => status'[j] = "queued"
  BY <1>1, <1>2 DEF Waits, InQueue
<1>6. WaitsOnce' /\ DownIsEmpty'
  BY <1>1 DEF WaitsOnce, DownIsEmpty, InQueue, Startup
<1>7. ASSUME NEW j \in Jobs
      PROVE  NotYet(j)' /\ AtWorkOnce(j)'
  <2>1. NotYet(j) /\ AtWorkOnce(j)
    BY <1>7 DEF IInv
  <2>2. NotYet(j)'
    BY <1>1, <1>3, <1>5, <1>7, <2>1 DEF NotYet, Startup, Enqueuing
  <2>3. AtWorkOnce(j)'
    BY <1>1, <1>3, <1>5, <1>7, <2>1 DEF AtWorkOnce, Startup, AtWork
  <2>4. QED
    BY <2>2, <2>3
<1>8. QED
  BY <1>4, <1>6, <1>7 DEF IInv

LEMMA UnchangedKeeps ==
  ASSUME IInv, UNCHANGED vars
  PROVE  IInv'
<1>1. \A j \in Jobs : Waits(j)' <=> Waits(j)
  BY SameQueue DEF vars, memory
<1>2. TypeOK' /\ WaitsOnce' /\ DownIsEmpty'
  BY SameQueue DEF IInv, TypeOK, DownIsEmpty, vars, memory
<1>3. \A j \in Jobs : NotYet(j)' /\ AtWorkOnce(j)'
  BY <1>1 DEF IInv, NotYet, AtWorkOnce, vars, memory
<1>4. QED
  BY <1>2, <1>3 DEF IInv

LEMMA InvStep ==
  ASSUME IInv, [Next]_vars
  PROVE  IInv'
<1>1. ASSUME NEW j \in Jobs, Queuing(j)
      PROVE  IInv'
  BY <1>1, PutKeeps, CreateKeeps, CreateFailsKeeps, CreateCancelledKeeps, PutFullKeeps, RefuseKeeps,
     RefuseCancelledKeeps, AnswerKeeps, AuditCancelledKeeps, WithdrawKeeps, WithdrawFailsKeeps, GiveUpKeeps
     DEF Queuing
<1>2. ASSUME NEW j \in Jobs, Working(j)
      PROVE  IInv'
  BY <1>2, TakeKeeps, StartKeeps, StartFailsKeeps, BeginKeeps, RunEndsKeeps, FinishKeeps, StopKeeps,
     EndUnrecordedKeeps, ClosedKeeps
     DEF Working
<1>3. ASSUME NEW j \in Jobs, Operating(j) \/ Requeue(j)
      PROVE  IInv'
  BY <1>3, CancelJobKeeps, CancelUnworkedKeeps, DiscardKeeps, RequeueKeeps DEF Operating
<1>4. QED
  BY <1>1, <1>2, <1>3, ShutdownKeeps, CrashKeeps, StartupKeeps, UnchangedKeeps DEF Next

\* The inductive invariant holds throughout: a job waits in one place only, and its record, its task and its
\* _enqueue agree on whether its run has begun.
THEOREM Invariance == Spec => []IInv
  BY InvInit, InvStep, PTL DEF Spec

\* Every variable keeps its type; the queue never exceeds its size.
THEOREM TypesHold == Spec => []TypeOK
<1>1. IInv => TypeOK
  BY DEF IInv
<1>2. QED
  BY <1>1, Invariance, PTL

\* No job's run ever begins twice, for any number of restarts, re-queues, workers and cancels.
THEOREM RunsBeginOnce == Spec => []StartedOnce
<1>1. IInv => StartedOnce
  BY DEF IInv, AtWorkOnce, StartedOnce
<1>2. QED
  BY <1>1, Invariance, PTL

\* What the two properties of a cancel ask of a step, for one job.
Steady(j) ==
  /\ status[j] = "cancelling" => status'[j] \in {"cancelling", "cancelled", "interrupted"}
  /\ status[j] = "cancelling" /\ task[j] # "none" => status'[j] # "interrupted"
  /\ ran'[j] # ran[j] => status[j] = "running"

LEMMA QuietIsSteady ==
  ASSUME UNCHANGED <<status, ran>>
  PROVE  \A j \in Jobs : Steady(j)
  BY DEF Steady

LEMMA OneIsSteady ==
  ASSUME IInv, NEW j \in Jobs,
         \/ Create(j) \/ Refuse(j) \/ Withdraw(j) \/ Start(j) \/ Begin(j) \/ Finish(j)
         \/ Stop(j) \/ CancelJob(j) \/ CancelUnworked(j) \/ Discard(j)
  PROVE  \A r \in Jobs : Steady(r)
<1>0. TypeOK /\ NotYet(j) /\ AtWorkOnce(j)
  BY DEF IInv
<1>1. CASE Create(j)
  <2>1. \A r \in Jobs \ {j} : status'[r] = status[r] /\ ran'[r] = ran[r]
    BY <1>0, <1>1 DEF TypeOK, Create, memory, Sets
  <2>2. Steady(j)
    BY <1>0, <1>1 DEF Steady, TypeOK, NotYet, AtWorkOnce, AtWork, Create, memory, Sets, Enqueues
  <2>3. QED
    BY <2>1, <2>2 DEF Steady
<1>2. CASE Refuse(j)
  <2>1. \A r \in Jobs \ {j} : status'[r] = status[r] /\ ran'[r] = ran[r]
    BY <1>0, <1>2 DEF TypeOK, Refuse, memory, Sets
  <2>2. Steady(j)
    BY <1>0, <1>2 DEF Steady, TypeOK, NotYet, AtWorkOnce, AtWork, Refuse, memory, Sets, Enqueues
  <2>3. QED
    BY <2>1, <2>2 DEF Steady
<1>3. CASE Withdraw(j)
  <2>1. \A r \in Jobs \ {j} : status'[r] = status[r] /\ ran'[r] = ran[r]
    BY <1>0, <1>3 DEF TypeOK, Withdraw, memory, Sets
  <2>2. Steady(j)
    BY <1>0, <1>3 DEF Steady, TypeOK, NotYet, AtWorkOnce, AtWork, Withdraw, memory, Sets, Enqueues, Interrupts,
       Leaves, Left, Popped, Steps
  <2>3. QED
    BY <2>1, <2>2 DEF Steady
<1>4. CASE Start(j)
  <2>1. \A r \in Jobs \ {j} : status'[r] = status[r] /\ ran'[r] = ran[r]
    BY <1>0, <1>4 DEF TypeOK, Start, memory, Sets
  <2>2. Steady(j)
    BY <1>0, <1>4 DEF Steady, TypeOK, NotYet, AtWorkOnce, AtWork, Start, memory, Sets, Steps, Leaves, Left,
       Popped
  <2>3. QED
    BY <2>1, <2>2 DEF Steady
<1>5. CASE Begin(j)
  <2>1. \A r \in Jobs \ {j} : status'[r] = status[r] /\ ran'[r] = ran[r]
    BY <1>0, <1>5 DEF TypeOK, Begin, memory
  <2>2. Steady(j)
    BY <1>0, <1>5 DEF Steady, TypeOK, NotYet, AtWorkOnce, AtWork, Begin, memory, Steps
  <2>3. QED
    BY <2>1, <2>2 DEF Steady
<1>6. CASE Finish(j)
  <2>1. \A r \in Jobs \ {j} : status'[r] = status[r] /\ ran'[r] = ran[r]
    BY <1>0, <1>6 DEF TypeOK, Finish, memory, Sets
  <2>2. Steady(j)
    BY <1>0, <1>6 DEF Steady, TypeOK, NotYet, AtWorkOnce, AtWork, Finish, memory, Sets, Steps, Leaves, Left,
       Popped, Finished, Verdicts
  <2>3. QED
    BY <2>1, <2>2 DEF Steady
<1>7. CASE Stop(j)
  <2>1. \A r \in Jobs \ {j} : status'[r] = status[r] /\ ran'[r] = ran[r]
    BY <1>0, <1>7 DEF TypeOK, Stop, memory, Sets
  <2>2. Steady(j)
    BY <1>0, <1>7 DEF Steady, TypeOK, NotYet, AtWorkOnce, AtWork, Stop, memory, Sets, Steps, Leaves, Left,
       Popped, Stopped
  <2>3. QED
    BY <2>1, <2>2 DEF Steady
<1>8. CASE CancelJob(j)
  <2>1. \A r \in Jobs \ {j} : status'[r] = status[r] /\ ran'[r] = ran[r]
    BY <1>0, <1>8 DEF TypeOK, CancelJob, memory, Sets
  <2>2. Steady(j)
    BY <1>0, <1>8 DEF Steady, TypeOK, NotYet, AtWorkOnce, AtWork, CancelJob, memory, Sets, Steps, Interrupts,
       Leaves, Left, Popped
  <2>3. QED
    BY <2>1, <2>2 DEF Steady
<1>9. CASE CancelUnworked(j)
  <2>1. \A r \in Jobs \ {j} : status'[r] = status[r] /\ ran'[r] = ran[r]
    BY <1>0, <1>9 DEF TypeOK, CancelUnworked, memory, Sets
  <2>2. Steady(j)
    BY <1>0, <1>9 DEF Steady, TypeOK, NotYet, AtWorkOnce, AtWork, CancelUnworked, memory, Sets
  <2>3. QED
    BY <2>1, <2>2 DEF Steady
<1>10. CASE Discard(j)
  <2>1. \A r \in Jobs \ {j} : status'[r] = status[r] /\ ran'[r] = ran[r]
    BY <1>0, <1>10 DEF TypeOK, Discard, memory, Sets
  <2>2. Steady(j)
    BY <1>0, <1>10 DEF Steady, TypeOK, NotYet, AtWorkOnce, AtWork, Discard, memory, Sets
  <2>3. QED
    BY <2>1, <2>2 DEF Steady
<1>11. QED
  BY <1>1, <1>2, <1>3, <1>4, <1>5, <1>6, <1>7, <1>8, <1>9, <1>10

LEMMA StepIsSteady ==
  ASSUME IInv, [Next]_vars
  PROVE  \A j \in Jobs : Steady(j)
<1>1. ASSUME NEW j \in Jobs, Queuing(j) \/ Working(j) \/ Operating(j) \/ Requeue(j)
      PROVE  \/ UNCHANGED <<status, ran>>
             \/ Create(j) \/ Refuse(j) \/ Withdraw(j) \/ Start(j) \/ Begin(j) \/ Finish(j)
             \/ Stop(j) \/ CancelJob(j) \/ CancelUnworked(j) \/ Discard(j)
  BY <1>1 DEF Queuing, Working, Operating, Requeue, CreateFails, CreateCancelled, PutFull, RefuseCancelled,
     Answer, AuditCancelled, WithdrawFails, GiveUp, StartFails, RunEnds, EndUnrecorded, Closed, Put, Take
<1>2. ASSUME NEW landed \in SUBSET Jobs, Shutdown(landed)
      PROVE  \A j \in Jobs : Steady(j)
  <2>1. ran' = ran
    BY <1>2 DEF Shutdown
  <2>2. ASSUME NEW j \in Jobs, status[j] = "cancelling"
        PROVE  status'[j] \in {"cancelling", "cancelled"} \/ (status'[j] = "interrupted" /\ task[j] = "none")
    <3>0. NotYet(j) /\ AtWorkOnce(j)
      BY <2>2 DEF IInv
    <3>1. \/ status'[j] = status[j] \/ status'[j] = Finished(j, "failed") \/ status'[j] = Finished(j, "completed")
          \/ (task[j] = "stopping" /\ status'[j] = Stopped(j))
      BY <1>2, <2>2 DEF Shutdown
    <3>2. QED
      BY <2>2, <3>0, <3>1 DEF Finished, Stopped, AtWorkOnce
  <2>3. QED
    BY <2>1, <2>2 DEF Steady
<1>3. ASSUME Startup
      PROVE  \A j \in Jobs : Steady(j)
  BY <1>3 DEF Startup, Resettled, Steady
<1>4. ASSUME Crash \/ UNCHANGED vars
      PROVE  UNCHANGED <<status, ran>>
  BY <1>4 DEF Crash, vars
<1>5. QED
  BY <1>1, <1>2, <1>3, <1>4, QuietIsSteady, OneIsSteady DEF Next

\* Once an operator's cancel is recorded, no run of the job begins and no result is written over it.
THEOREM CancelsStick == Spec => CancelSticks
<1>1. IInv /\ [Next]_vars =>
        [\A j \in Jobs :
           /\ status[j] = "cancelling" => status'[j] \in {"cancelling", "cancelled", "interrupted"}
           /\ ran'[j] # ran[j] => status[j] = "running"]_vars
  BY StepIsSteady DEF Steady
<1>2. QED
  BY <1>1, Invariance, PTL DEF Spec, CancelSticks

\* While a worker has the job, its cancel ends cancelled, whoever else stopped it before or after.
THEOREM CancelsAreNotInterruptions == Spec => CancelIsNotInterruption
<1>1. IInv /\ [Next]_vars =>
        [\A j \in Jobs :
           status[j] = "cancelling" /\ task[j] # "none" => status'[j] # "interrupted"]_vars
  BY StepIsSteady DEF Steady
<1>2. QED
  BY <1>1, Invariance, PTL DEF Spec, CancelIsNotInterruption

\* A step of the queue for one job touches no other.
LEMMA OneMoves ==
  ASSUME IInv, NEW j \in Jobs, Queuing(j) \/ Working(j) \/ Operating(j) \/ Requeue(j)
  PROVE  Alone(j) /\ \A r \in Jobs \ {j} : Waits(r)' <=> Waits(r)
<1>0. TypeOK /\ WaitsOnce
  BY DEF IInv
<1>1. CASE Put(j)
  <2>1. queue \in Seq(Jobs) /\ queue' = Append(queue, j) /\ requeue' = requeue
    BY <1>0, <1>1 DEF Put, TypeOK
  <2>2. \A r \in Jobs : InQueue(r)' <=> InQueue(r) \/ r = j
    BY <2>1, PutWaits
  <2>3. Alone(j)
    BY <1>0, <1>1 DEF TypeOK, Alone, Put, Enqueues
  <2>4. QED
    BY <2>1, <2>2, <2>3 DEF Waits
<1>2. CASE Requeue(j)
  <2>1. queue \in Seq(Jobs) /\ queue' = Append(queue, j) /\ requeue' = requeue \ {j}
    BY <1>0, <1>2 DEF Requeue, TypeOK
  <2>2. \A r \in Jobs : InQueue(r)' <=> InQueue(r) \/ r = j
    BY <2>1, PutWaits
  <2>3. Alone(j)
    BY <1>0, <1>2 DEF TypeOK, Alone, Requeue
  <2>4. QED
    BY <2>1, <2>2, <2>3 DEF Waits
<1>3. CASE Take(j)
  <2>1. queue \in Seq(Jobs) /\ queue # <<>> /\ j = Head(queue) /\ queue' = Tail(queue) /\ requeue' = requeue
    BY <1>0, <1>3 DEF Take, TypeOK
  <2>2. \A r \in Jobs : InQueue(r)' <=> InQueue(r) /\ r # j
    BY <1>0, <2>1, TakeWaits DEF WaitsOnce
  <2>3. Alone(j)
    BY <1>0, <1>3 DEF TypeOK, Alone, Take, Steps
  <2>4. QED
    BY <2>1, <2>2, <2>3 DEF Waits
<1>4. CASE Create(j) \/ CreateFails(j) \/ CreateCancelled(j) \/ PutFull(j) \/ Refuse(j)
             \/ RefuseCancelled(j) \/ Answer(j) \/ AuditCancelled(j) \/ WithdrawFails(j) \/ GiveUp(j)
  <2>1. Alone(j)
    BY <1>0, <1>4 DEF TypeOK, Alone, Create, CreateFails, CreateCancelled, PutFull, Refuse, RefuseCancelled,
       Answer, AuditCancelled, WithdrawFails, GiveUp, Enqueues, Sets, memory
  <2>2. UNCHANGED <<queue, requeue>>
    BY <1>4 DEF Create, CreateFails, CreateCancelled, PutFull, Refuse, RefuseCancelled, Answer, AuditCancelled,
       WithdrawFails, GiveUp, memory
  <2>3. QED
    BY <2>1, <2>2, SameQueue
<1>5. CASE Withdraw(j)
  <2>1. Alone(j)
    BY <1>0, <1>5 DEF TypeOK, Alone, Withdraw, Enqueues, Interrupts, Sets, Leaves, Steps, Left, Popped
  <2>2. UNCHANGED <<queue, requeue>>
    BY <1>5 DEF Withdraw, memory
  <2>3. QED
    BY <2>1, <2>2, SameQueue
<1>6. CASE Start(j) \/ StartFails(j) \/ Begin(j) \/ RunEnds(j)
  <2>1. Alone(j)
    BY <1>0, <1>6 DEF TypeOK, Alone, Start, StartFails, Begin, RunEnds, Leaves, Sets, Steps, memory, Left,
       Popped
  <2>2. UNCHANGED <<queue, requeue>>
    BY <1>6 DEF Start, StartFails, Begin, RunEnds, memory
  <2>3. QED
    BY <2>1, <2>2, SameQueue
<1>7. CASE Finish(j) \/ Stop(j) \/ EndUnrecorded(j) \/ Closed(j)
  <2>1. Alone(j)
    BY <1>0, <1>7 DEF TypeOK, Alone, Finish, Stop, EndUnrecorded, Closed, Leaves, Sets, memory, Left, Popped,
       Steps
  <2>2. UNCHANGED <<queue, requeue>>
    BY <1>7 DEF Finish, Stop, EndUnrecorded, Closed, memory
  <2>3. QED
    BY <2>1, <2>2, SameQueue
<1>8. CASE CancelJob(j)
  <2>1. Alone(j)
    BY <1>0, <1>8 DEF TypeOK, Alone, CancelJob, Interrupts, Sets, Leaves, Steps, Left, Popped
  <2>2. UNCHANGED <<queue, requeue>>
    BY <1>8 DEF CancelJob, memory
  <2>3. QED
    BY <2>1, <2>2, SameQueue
<1>9. CASE CancelUnworked(j) \/ Discard(j)
  <2>1. Alone(j)
    BY <1>0, <1>9 DEF TypeOK, Alone, CancelUnworked, Discard, Sets, memory
  <2>2. UNCHANGED <<queue, requeue>>
    BY <1>9 DEF CancelUnworked, Discard, memory
  <2>3. QED
    BY <2>1, <2>2, SameQueue
<1>10. QED
  BY <1>1, <1>2, <1>3, <1>4, <1>5, <1>6, <1>7, <1>8, <1>9 DEF Queuing, Working, Operating

\* What a step does to the record of one job, as its reader sees it.
LifeMoves(j) == LifeOf(j)' = LifeOf(j) \/ Promised!MayRead(j, LifeOf(j)')

\* The status a write finds and the one it leaves, in the words of the abstract life.
LEMMA WritesMayRead ==
  ASSUME TypeOK, NEW j \in Jobs,
         \/ status[j] = "absent" /\ status'[j] = "queued"
         \/ status[j] = "queued" /\ status'[j] \in Statuses \ {"absent", "cancelling"}
         \/ status[j] = "running" /\ status'[j] \in {"cancelling", "cancelled", "interrupted"}
         \/ status[j] = "running" /\ status'[j] \in {"completed", "failed"} /\ ran[j] = 1
         \/ status[j] = "cancelling" /\ status'[j] \in {"cancelled", "interrupted"}
         \/ /\ status[j] \in Statuses \ {"absent", "queued", "running", "cancelling"}
            /\ status'[j] \in Statuses \ {"absent", "queued", "running", "cancelling"}
         \/ status'[j] = status[j]
  PROVE  LifeMoves(j)
<1>1. Promised!MayRead(j, LifeOf(j)') <=>
        \/ LifeOf(j) = "none" /\ LifeOf(j)' = "queued"
        \/ LifeOf(j) = "queued" /\ LifeOf(j)' \in {"running", "done", "stopped", "discarded"}
        \/ LifeOf(j) = "running" /\ LifeOf(j)' \in {"cancelling", "stopped"}
        \/ LifeOf(j) = "running" /\ LifeOf(j)' = "done" /\ ran[j] = 1
        \/ LifeOf(j) = "cancelling" /\ LifeOf(j)' = "stopped"
        \/ /\ LifeOf(j) \in {"done", "stopped", "discarded"}
           /\ LifeOf(j)' \in {"done", "stopped", "discarded"}
  BY DEF Promised!MayRead, Promised!Ends
<1>2. QED
  BY <1>1 DEF LifeMoves, LifeOf, Statuses

LEMMA OneLife ==
  ASSUME IInv, NEW j \in Jobs, Queuing(j) \/ Working(j) \/ Operating(j) \/ Requeue(j)
  PROVE  /\ \A r \in Jobs : LifeMoves(r)
         /\ ran' = ran \/ Begin(j)
<1>0. TypeOK /\ NotYet(j) /\ AtWorkOnce(j)
  BY DEF IInv
<1>1. ran' = ran \/ Begin(j)
  BY DEF Queuing, Working, Operating, Requeue, Create, CreateFails, CreateCancelled, Put, PutFull, Refuse,
         RefuseCancelled, Answer, AuditCancelled, Withdraw, WithdrawFails, GiveUp, Take, Start, StartFails,
         RunEnds, Finish, Stop, EndUnrecorded, Closed, CancelJob, CancelUnworked, Discard
<1>2. \A r \in Jobs \ {j} : LifeMoves(r)
  BY OneMoves DEF Alone, LifeMoves, LifeOf
<1>3. LifeMoves(j)
  <2>1. CASE Create(j)
    BY <1>0, <2>1, WritesMayRead DEF TypeOK, NotYet, Create, Sets
  <2>2. CASE Refuse(j)
    BY <1>0, <2>2, WritesMayRead DEF TypeOK, NotYet, Refuse, Sets, Statuses
  <2>3. CASE Withdraw(j)
    BY <1>0, <2>3, WritesMayRead DEF TypeOK, Withdraw, Sets, Statuses
  <2>4. CASE Start(j)
    BY <1>0, <2>4, WritesMayRead DEF TypeOK, Start, Sets, Statuses
  <2>5. CASE Finish(j)
    BY <1>0, <2>5, WritesMayRead DEF TypeOK, NotYet, AtWorkOnce, Finish, Sets, Finished, Verdicts, Statuses
  <2>6. CASE Stop(j)
    BY <1>0, <2>6, WritesMayRead DEF TypeOK, NotYet, Stop, Sets, Stopped, Statuses
  <2>7. CASE CancelJob(j)
    BY <1>0, <2>7, WritesMayRead DEF TypeOK, CancelJob, Sets, Statuses
  <2>8. CASE CancelUnworked(j)
    BY <1>0, <2>8, WritesMayRead DEF TypeOK, AtWorkOnce, CancelUnworked, Sets, Statuses
  <2>9. CASE Discard(j)
    BY <1>0, <2>9, WritesMayRead DEF TypeOK, Discard, Sets, Statuses
  <2>10. CASE UNCHANGED status
    BY <2>10 DEF LifeMoves, LifeOf
  <2>11. \/ Create(j) \/ Refuse(j) \/ Withdraw(j) \/ Start(j) \/ Finish(j) \/ Stop(j)
         \/ CancelJob(j) \/ CancelUnworked(j) \/ Discard(j) \/ UNCHANGED status
    BY DEF Queuing, Working, Operating, Requeue, CreateFails, CreateCancelled, Put, PutFull, RefuseCancelled,
           Answer, AuditCancelled, WithdrawFails, GiveUp, Take, StartFails, Begin, RunEnds, EndUnrecorded, Closed
  <2>12. QED
    BY <2>1, <2>2, <2>3, <2>4, <2>5, <2>6, <2>7, <2>8, <2>9, <2>10, <2>11
<1>4. QED
  BY <1>1, <1>2, <1>3

\* A shutdown lets the writes already in a thread land, each over what its record said.
LEMMA ShutdownLives ==
  ASSUME IInv, NEW landed \in SUBSET Jobs, Shutdown(landed)
  PROVE  \A j \in Jobs : LifeMoves(j)
<1>1. ASSUME NEW j \in Jobs
      PROVE  LifeMoves(j)
  <2>0. TypeOK /\ NotYet(j) /\ AtWorkOnce(j)
    BY DEF IInv
  <2>1. \/ status'[j] = status[j]
        \/ task[j] = "starting" /\ status[j] = "queued" /\ status'[j] = "running"
        \/ /\ task[j] \in {"ending", "failing"}
           /\ \E verdict \in {"completed", "failed"} : status'[j] = Finished(j, verdict)
        \/ task[j] = "stopping" /\ status'[j] = Stopped(j)
    BY DEF Shutdown
  <2>2. QED
    BY <2>0, <2>1, WritesMayRead DEF TypeOK, NotYet, AtWorkOnce, Finished, Stopped, Statuses
<1>2. QED
  BY <1>1

LEMMA StepIsPromised ==
  ASSUME IInv, [Next]_vars
  PROVE  [Promised!LifeNext]_<<[j \in Jobs |-> LifeOf(j)], ran>>
<1>0. TypeOK /\ TypeOK'
  BY InvStep DEF IInv
<1>1. ASSUME \A j \in Jobs : LifeMoves(j), ran' = ran
      PROVE  Promised!Advance
  <2>1. \A j \in Jobs : LifeOf(j)' \in Promised!Lives
    BY <1>0 DEF TypeOK, Statuses, LifeOf, Promised!Lives, Promised!Ends
  <2>2. QED
    BY <1>1, <2>1 DEF LifeMoves, Promised!Advance
<1>2. ASSUME NEW j \in Jobs, Begin(j)
      PROVE  Promised!Begin(j)
  <2>1. status[j] = "running" /\ ran[j] = 0 /\ status' = status /\ ran' = [ran EXCEPT ![j] = 1]
    BY <1>0, <1>2 DEF IInv, AtWorkOnce, Begin, TypeOK
  <2>2. LifeOf(j) = "running" /\ \A r \in Jobs : LifeOf(r)' = LifeOf(r)
    BY <2>1 DEF LifeOf
  <2>3. QED
    BY <2>1, <2>2 DEF Promised!Begin
<1>3. ASSUME NEW j \in Jobs, Queuing(j) \/ Working(j) \/ Operating(j) \/ Requeue(j)
      PROVE  Promised!LifeNext
  BY <1>1, <1>2, <1>3, OneLife DEF Promised!LifeNext
<1>4. ASSUME NEW landed \in SUBSET Jobs, Shutdown(landed)
      PROVE  Promised!LifeNext
  BY <1>1, <1>4, ShutdownLives DEF Shutdown, Promised!LifeNext
<1>5. CASE Startup
  <2>1. \A j \in Jobs : LifeMoves(j)
    BY <1>0, <1>5, WritesMayRead DEF Startup, Resettled
  <2>2. QED
    BY <1>1, <1>5, <2>1 DEF Startup, Promised!LifeNext
<1>6. CASE Crash \/ UNCHANGED vars
  BY <1>6 DEF Crash, vars, LifeOf
<1>7. QED
  BY <1>3, <1>4, <1>5, <1>6 DEF Next

\* Whatever queues, withdraws, cancels or discards a job, and whatever shutdowns, crashes and starts it
\* meets, its record says one life only: it runs at most once and while it reads running, is reported
\* done only if its run began, and no write of a worker, an operator, a caller or a start (AgentJobStore's
\* read-modify-writes) brings it back to life or turns a cancel in progress into a result.
THEOREM LivesAreKept == Spec => ImplementsLives
<1>1. Init => Promised!LifeInit
  BY DEF Init, LifeOf, Promised!LifeInit
<1>2. IInv /\ [Next]_vars => [Promised!LifeNext]_<<[j \in Jobs |-> LifeOf(j)], ran>>
  BY StepIsPromised
<1>3. QED
  BY <1>1, <1>2, Invariance, PTL DEF Spec, ImplementsLives, Promised!LifeSpec

-----------------------------------------------------------------------------
(* The cron service (CronRuns).                                            *)

\* A step of the cron service is a step of the queue, or leaves the queue alone.
LEMMA CronStepsTheQueue ==
  ASSUME [CronNext]_allVars
  PROVE  [Next]_vars
<1>1. ASSUME NEW j \in Hosted, Fire(j) \/ CreateSession(j) \/ CreateSessionFails(j) \/ TriggerReleases(j)
      PROVE  UNCHANGED vars
  BY <1>1 DEF Fire, CreateSession, CreateSessionFails, TriggerReleases
<1>2. ASSUME NEW j \in Jobs, QueueStep(j)
      PROVE  Next
  BY <1>2 DEF QueueStep, Next
<1>3. ASSUME NEW landed \in SUBSET Jobs, CronShutdown(landed)
      PROVE  Next
  BY <1>3 DEF CronShutdown, Next
<1>4. CASE CronCrash
  BY <1>4 DEF CronCrash, Next
<1>5. CASE Startup /\ UNCHANGED cronVars
  BY <1>5 DEF Next
<1>6. CASE UNCHANGED allVars
  BY <1>6 DEF allVars
<1>7. QED
  BY <1>1, <1>2, <1>3, <1>4, <1>5, <1>6 DEF CronNext

\* The queue's own inductive invariant survives the cron service: each of its steps is one of the queue's, or
\* leaves the queue alone.
THEOREM CronInvariance == CronSpec => []IInv
<1>1. CronInit => IInv
  BY InvInit DEF CronInit
<1>2. IInv /\ [CronNext]_allVars => IInv'
  BY InvStep, CronStepsTheQueue
<1>3. QED
  BY <1>1, <1>2, PTL DEF CronSpec

\* Two runs of one cron job are never both in the slot.
LEMMA SlotHoldsOne ==
  ASSUME CronInv, NEW j \in Hosted, NEW r \in Hosted, r # j, slot[CronOf[j]] \in {j, NoRun},
         session[r] \in {"creating", "open"}
  PROVE  CronOf[r] # CronOf[j]
<1>1. slot[CronOf[r]] = r
  BY DEF CronInv
<1>2. r # NoRun
  BY CronAssumption, JobsAssumption
<1>3. QED
  BY <1>1, <1>2

LEMMA FireKeeps ==
  ASSUME CronInv, NEW j \in Hosted, Fire(j)
  PROVE  CronInv'
<1>0. CronTypeOK /\ CronOf[j] \in CronJobs
  BY CronAssumption DEF CronInv
<1>1. CronTypeOK'
  BY <1>0 DEF CronTypeOK, Fire
<1>2. ASSUME NEW r \in Hosted, session'[r] \in {"creating", "open"}
      PROVE  slot'[CronOf[r]] = r
  <2>1. CASE r = j
    BY <1>0, <2>1 DEF Fire, CronTypeOK
  <2>2. CASE r # j
    <3>1. session[r] = session'[r] /\ slot[CronOf[r]] = r
      BY <1>0, <1>2, <2>2 DEF Fire, CronTypeOK, CronInv
    <3>2. CronOf[r] # CronOf[j]
      BY <1>2, <2>2, <3>1, SlotHoldsOne DEF Fire
    <3>3. CronOf[r] \in CronJobs
      BY CronAssumption
    <3>4. QED
      BY <1>0, <3>1, <3>2, <3>3 DEF Fire, CronTypeOK
  <2>3. QED
    BY <2>1, <2>2
<1>3. QED
  BY <1>1, <1>2 DEF CronInv

\* A run that leaves its slot has its session closed, or never had one.
LEMMA FreeKeeps ==
  ASSUME CronInv, NEW j \in Hosted, NEW end \in {"closed", "failed"}, slot[CronOf[j]] = j,
         slot' = [slot EXCEPT ![CronOf[j]] = NoRun], session' = [session EXCEPT ![j] = end]
  PROVE  CronInv'
<1>0. CronTypeOK /\ CronOf[j] \in CronJobs
  BY CronAssumption DEF CronInv
<1>1. CronTypeOK'
  BY <1>0 DEF CronTypeOK
<1>2. ASSUME NEW r \in Hosted, session'[r] \in {"creating", "open"}
      PROVE  slot'[CronOf[r]] = r
  <2>1. r # j /\ session[r] = session'[r]
    BY <1>0, <1>2 DEF CronTypeOK
  <2>2. slot[CronOf[r]] = r /\ CronOf[r] \in CronJobs
    BY <1>2, <2>1, CronAssumption DEF CronInv
  <2>3. CronOf[r] # CronOf[j]
    BY <1>2, <2>1, SlotHoldsOne
  <2>4. QED
    BY <1>0, <2>2, <2>3 DEF CronTypeOK
<1>3. QED
  BY <1>1, <1>2 DEF CronInv

LEMMA QuietKeeps ==
  ASSUME CronInv, UNCHANGED cronVars
  PROVE  CronInv'
  BY DEF CronInv, CronTypeOK, cronVars

LEMMA ReleaseKeeps ==
  ASSUME CronInv, NEW j \in Hosted, ReleaseRun(j)
  PROVE  CronInv'
  BY FreeKeeps, QuietKeeps DEF ReleaseRun

LEMMA CronStep ==
  ASSUME IInv, CronInv, [CronNext]_allVars
  PROVE  CronInv'
<1>0. CronTypeOK
  BY DEF CronInv
<1>1. ASSUME NEW j \in Hosted, CreateSession(j)
      PROVE  CronInv'
  <2>1. CronTypeOK'
    BY <1>0, <1>1 DEF CronTypeOK, CreateSession
  <2>2. \A r \in Hosted : session'[r] \in {"creating", "open"} => session[r] \in {"creating", "open"}
    BY <1>0, <1>1 DEF CronTypeOK, CreateSession
  <2>3. QED
    BY <1>1, <2>1, <2>2 DEF CronInv, CreateSession
<1>2. ASSUME NEW j \in Hosted, CreateSessionFails(j)
      PROVE  CronInv'
  <2>1. slot[CronOf[j]] = j
    BY <1>2 DEF CronInv, CreateSessionFails
  <2>2. QED
    BY <1>2, <2>1, FreeKeeps DEF CreateSessionFails
<1>3. ASSUME NEW j \in Hosted, TriggerReleases(j)
      PROVE  CronInv'
  BY <1>3, ReleaseKeeps DEF TriggerReleases
<1>4. ASSUME NEW j \in Jobs, QueueStep(j)
      PROVE  CronInv'
  <2>1. callback[j] = "set" => j \in Hosted
    BY <1>4 DEF IInv, AtWorkOnce
  <2>2. QED
    BY <1>4, <2>1, ReleaseKeeps, QuietKeeps DEF QueueStep
<1>5. ASSUME NEW landed \in SUBSET Jobs, CronShutdown(landed)
      PROVE  CronInv'
  <2>1. PICK released \in SUBSET Hosted :
          /\ \A j \in released : slot[CronOf[j]] = j
          /\ slot' = [c \in CronJobs |-> IF slot[c] \in released THEN NoRun ELSE slot[c]]
          /\ session' = [j \in Hosted |-> IF j \in released THEN "closed" ELSE session[j]]
    BY <1>5 DEF CronShutdown
  <2>2. CronTypeOK'
    BY <1>0, <2>1 DEF CronTypeOK
  <2>3. ASSUME NEW r \in Hosted, session'[r] \in {"creating", "open"}
        PROVE  slot'[CronOf[r]] = r
    <3>1. r \notin released /\ session[r] = session'[r]
      BY <2>1, <2>3
    <3>2. slot[CronOf[r]] = r /\ CronOf[r] \in CronJobs
      BY <2>3, <3>1, CronAssumption DEF CronInv
    <3>3. QED
      BY <2>1, <3>1, <3>2
  <2>4. QED
    BY <2>2, <2>3 DEF CronInv
<1>6. CASE CronCrash
  <2>1. /\ slot' = [c \in CronJobs |-> NoRun]
        /\ session' \in [Hosted -> {"none", "closed", "failed"}]
    BY <1>0, <1>6 DEF CronCrash, CronTypeOK
  <2>2. QED
    BY <2>1 DEF CronInv, CronTypeOK
<1>7. CASE (Startup /\ UNCHANGED cronVars) \/ UNCHANGED allVars
  BY <1>7, QuietKeeps DEF allVars
<1>8. QED
  BY <1>1, <1>2, <1>3, <1>4, <1>5, <1>6, <1>7, FireKeeps DEF CronNext

\* The slots' inductive invariant holds throughout: what a slot of _active_runs, the trigger of its run and the
\* run's session may be together.
THEOREM SlotsAreSound == CronSpec => []CronInv
<1>1. CronInit => CronInv
  BY DEF CronInit, CronInv, CronTypeOK
<1>2. IInv /\ CronInv /\ [CronNext]_allVars => CronInv'
  BY CronStep
<1>3. QED
  BY <1>1, <1>2, CronInvariance, PTL DEF CronSpec

\* No session of a run is ever left open that its cron job's slot does not name: the release that is
\* to close it always finds it, whoever comes first of the callback, the trigger and a shutdown.
THEOREM OpenRunsAreHeld == CronSpec => []OpenIsHeld
<1>1. CronInv => OpenIsHeld
  BY DEF CronInv, OpenIsHeld
<1>2. QED
  BY <1>1, SlotsAreSound, PTL

\* The queue's guarantee survives the cron service on top of it: no run of it begins twice.
THEOREM CronRunsBeginOnce == CronSpec => []StartedOnce
<1>1. IInv => StartedOnce
  BY DEF IInv, AtWorkOnce, StartedOnce
<1>2. QED
  BY <1>1, CronInvariance, PTL

\* What a step of one job does to the run a cron trigger may wait for, or may have given up.
Closes(j) ==
  /\ task'[j] \in AtWork => status'[j] \in {"running", "cancelling"}
  /\ enqueue'[j] \in Raised /\ (enqueue[j] \in Raised => ~CanRun(j)) => ~CanRun(j)'
  /\ callback[j] = "set" /\ callback'[j] = "called" => ~CanRun(j)'
  /\ proc' = proc /\ proc # "down"

LEMMA OneCloses ==
  ASSUME IInv, CloseInv, "withdrawing" \notin Faults, NEW j \in Jobs,
         Queuing(j) \/ Working(j) \/ Operating(j) \/ Requeue(j)
  PROVE  Closes(j)
<1>0. /\ TypeOK /\ WaitsOnce /\ NotYet(j) /\ AtWorkOnce(j)
      /\ task[j] \in AtWork => status[j] \in {"running", "cancelling"}
  BY DEF IInv, CloseInv
<1> USE DEF Raised
<1>a. ASSUME UNCHANGED <<queue, requeue>>
      PROVE  Waits(j)' <=> Waits(j)
  BY <1>a, SameQueue
<1>1. CASE Create(j)
  <2>1. Waits(j)' <=> Waits(j)
    BY <1>a, <1>1 DEF Create, memory
  <2>2. QED
    BY <1>0, <1>1, <2>1 DEF TypeOK, NotYet, AtWorkOnce, Closes, CanRun, Serving, AtWork, TaskSteps, Create,
       Enqueues, Sets, memory
<1>2. CASE CreateFails(j)
  <2>1. Waits(j)' <=> Waits(j)
    BY <1>a, <1>2 DEF CreateFails, memory
  <2>2. QED
    BY <1>0, <1>2, <2>1 DEF TypeOK, NotYet, AtWorkOnce, Closes, CanRun, Serving, AtWork, TaskSteps, CreateFails,
       Enqueues, memory
<1>3. CASE CreateCancelled(j)
  <2>1. Waits(j)' <=> Waits(j)
    BY <1>a, <1>3 DEF CreateCancelled, memory
  <2>2. QED
    BY <1>0, <1>3, <2>1 DEF TypeOK, NotYet, AtWorkOnce, Closes, CanRun, Serving, AtWork, TaskSteps,
       CreateCancelled, Enqueues, memory
<1>4. CASE PutFull(j)
  <2>1. Waits(j)' <=> Waits(j)
    BY <1>a, <1>4 DEF PutFull, memory
  <2>2. QED
    BY <1>0, <1>4, <2>1 DEF TypeOK, NotYet, AtWorkOnce, Closes, CanRun, Serving, AtWork, TaskSteps, PutFull,
       Enqueues, memory
<1>5. CASE Refuse(j)
  <2>1. Waits(j)' <=> Waits(j)
    BY <1>a, <1>5 DEF Refuse, memory
  <2>2. QED
    BY <1>0, <1>5, <2>1 DEF TypeOK, NotYet, AtWorkOnce, Closes, CanRun, Serving, AtWork, TaskSteps, Refuse,
       Enqueues, Sets, memory
<1>6. CASE RefuseCancelled(j)
  <2>1. Waits(j)' <=> Waits(j)
    BY <1>a, <1>6 DEF RefuseCancelled, memory
  <2>2. QED
    BY <1>0, <1>6, <2>1 DEF TypeOK, NotYet, AtWorkOnce, Closes, CanRun, Serving, AtWork, TaskSteps,
       RefuseCancelled, Enqueues, memory
<1>7. CASE Answer(j)
  <2>1. Waits(j)' <=> Waits(j)
    BY <1>a, <1>7 DEF Answer, memory
  <2>2. QED
    BY <1>0, <1>7, <2>1 DEF TypeOK, NotYet, AtWorkOnce, Closes, CanRun, Serving, AtWork, TaskSteps, Answer,
       Enqueues, memory
<1>8. CASE AuditCancelled(j)
  <2>1. Waits(j)' <=> Waits(j)
    BY <1>a, <1>8 DEF AuditCancelled, memory
  <2>2. QED
    BY <1>0, <1>8, <2>1 DEF TypeOK, NotYet, AtWorkOnce, Closes, CanRun, Serving, AtWork, TaskSteps,
       AuditCancelled, Enqueues, memory
<1>9. CASE Withdraw(j)
  <2>1. Waits(j)' <=> Waits(j)
    BY <1>a, <1>9 DEF Withdraw
  <2>2. QED
    BY <1>0, <1>9, <2>1 DEF TypeOK, NotYet, AtWorkOnce, Closes, CanRun, Serving, AtWork, TaskSteps, Withdraw,
       Enqueues, Interrupts, Sets, Leaves, Steps, Left, Popped
<1>10. CASE GiveUp(j)
  <2>1. Waits(j)' <=> Waits(j)
    BY <1>a, <1>10 DEF GiveUp, memory
  <2>2. QED
    BY <1>0, <1>10, <2>1 DEF TypeOK, NotYet, AtWorkOnce, Closes, CanRun, Serving, AtWork, TaskSteps, GiveUp,
       Enqueues, memory
<1>11. CASE Start(j)
  <2>1. Waits(j)' <=> Waits(j)
    BY <1>a, <1>11 DEF Start, memory
  <2>2. QED
    BY <1>0, <1>11, <2>1 DEF TypeOK, NotYet, AtWorkOnce, Closes, CanRun, Serving, AtWork, TaskSteps, Start,
       Leaves, Sets, Steps, memory, Left, Popped
<1>12. CASE StartFails(j)
  <2>1. Waits(j)' <=> Waits(j)
    BY <1>a, <1>12 DEF StartFails, memory
  <2>2. QED
    BY <1>0, <1>12, <2>1 DEF TypeOK, NotYet, AtWorkOnce, Closes, CanRun, Serving, AtWork, TaskSteps, StartFails,
       Leaves, memory, Left, Popped, Steps
<1>13. CASE Begin(j)
  <2>1. Waits(j)' <=> Waits(j)
    BY <1>a, <1>13 DEF Begin, memory
  <2>2. QED
    BY <1>0, <1>13, <2>1 DEF TypeOK, NotYet, AtWorkOnce, Closes, CanRun, Serving, AtWork, TaskSteps, Begin,
       Steps, memory
<1>14. CASE RunEnds(j)
  <2>1. Waits(j)' <=> Waits(j)
    BY <1>a, <1>14 DEF RunEnds, memory
  <2>2. QED
    BY <1>0, <1>14, <2>1 DEF TypeOK, NotYet, AtWorkOnce, Closes, CanRun, Serving, AtWork, TaskSteps, RunEnds,
       Steps, memory
<1>15. CASE Finish(j)
  <2>1. Waits(j)' <=> Waits(j)
    BY <1>a, <1>15 DEF Finish, memory
  <2>2. QED
    BY <1>0, <1>15, <2>1 DEF TypeOK, NotYet, AtWorkOnce, Closes, CanRun, Serving, AtWork, TaskSteps, Finish,
       Finished, Leaves, Sets, Verdicts, memory, Left, Popped, Steps
<1>16. CASE Stop(j)
  <2>1. Waits(j)' <=> Waits(j)
    BY <1>a, <1>16 DEF Stop, memory
  <2>2. QED
    BY <1>0, <1>16, <2>1 DEF TypeOK, NotYet, AtWorkOnce, Closes, CanRun, Serving, AtWork, TaskSteps, Stop,
       Leaves, Sets, Stopped, memory, Left, Popped, Steps
<1>17. CASE EndUnrecorded(j)
  <2>1. Waits(j)' <=> Waits(j)
    BY <1>a, <1>17 DEF EndUnrecorded, memory
  <2>2. QED
    BY <1>0, <1>17, <2>1 DEF TypeOK, NotYet, AtWorkOnce, Closes, CanRun, Serving, AtWork, TaskSteps,
       EndUnrecorded, Leaves, Steps, memory, Left, Popped
<1>18. CASE Closed(j)
  <2>1. Waits(j)' <=> Waits(j)
    BY <1>a, <1>18 DEF Closed, memory
  <2>2. QED
    BY <1>0, <1>18, <2>1 DEF TypeOK, NotYet, AtWorkOnce, Closes, CanRun, Serving, AtWork, TaskSteps, Closed,
       Steps, memory
<1>19. CASE CancelJob(j)
  <2>1. Waits(j)' <=> Waits(j)
    BY <1>a, <1>19 DEF CancelJob
  <2>2. QED
    BY <1>0, <1>19, <2>1 DEF TypeOK, NotYet, AtWorkOnce, Closes, CanRun, Serving, AtWork, TaskSteps, CancelJob,
       Interrupts, Sets, Leaves, Steps, Left, Popped
<1>20. CASE CancelUnworked(j)
  <2>1. Waits(j)' <=> Waits(j)
    BY <1>a, <1>20 DEF CancelUnworked, memory
  <2>2. QED
    BY <1>0, <1>20, <2>1 DEF TypeOK, NotYet, AtWorkOnce, Closes, CanRun, Serving, AtWork, TaskSteps,
       CancelUnworked, Sets, memory
<1>21. CASE Discard(j)
  <2>1. Waits(j)' <=> Waits(j)
    BY <1>a, <1>21 DEF Discard, memory
  <2>2. QED
    BY <1>0, <1>21, <2>1 DEF TypeOK, NotYet, AtWorkOnce, Closes, CanRun, Serving, AtWork, TaskSteps, Discard,
       Sets, memory
<1>22. CASE Put(j)
  BY <1>0, <1>22 DEF TypeOK, NotYet, AtWorkOnce, Closes, CanRun, Serving, AtWork, TaskSteps, Put, Enqueues
<1>23. CASE Requeue(j)
  <2>1. Waits(j)
    BY <1>23 DEF Requeue, Waits
  <2>2. QED
    BY <1>0, <1>23, <2>1 DEF TypeOK, NotYet, AtWorkOnce, Closes, CanRun, Serving, AtWork, TaskSteps, Requeue
<1>24. CASE Take(j)
  <2>1. queue \in Seq(Jobs) /\ queue # <<>> /\ j = Head(queue) /\ queue' = Tail(queue)
    BY <1>0, <1>24 DEF Take, TypeOK
  <2>2. Waits(j)
    BY <1>0, <2>1, TakeWaits DEF WaitsOnce, Waits
  <2>3. QED
    BY <1>0, <1>24, <2>2 DEF TypeOK, NotYet, AtWorkOnce, Closes, CanRun, Serving, AtWork, TaskSteps, Take, Steps
<1>25. CASE WithdrawFails(j)
  BY <1>25 DEF WithdrawFails
<1>26. QED
  BY <1>1, <1>2, <1>3, <1>4, <1>5, <1>6, <1>7, <1>8, <1>9, <1>10, <1>11, <1>12, <1>13, <1>14, <1>15, <1>16,
     <1>17, <1>18, <1>19, <1>20, <1>21, <1>22, <1>23, <1>24, <1>25 DEF Queuing, Working, Operating

\* What a queue step's release leaves of the sessions.
LEMMA ReleaseCloses ==
  ASSUME CronTypeOK, NEW j \in Hosted, ReleaseRun(j) \/ UNCHANGED cronVars
  PROVE  /\ \A r \in Hosted \ {j} : session'[r] = session[r]
         /\ session'[j] \in {session[j], "closed"}
  BY CronAssumption DEF CronTypeOK, ReleaseRun, cronVars

LEMMA QueueStepCloses ==
  ASSUME IInv, CronInv, CloseInv, "withdrawing" \notin Faults, NEW j \in Jobs, QueueStep(j)
  PROVE  /\ CloseInv'
         /\ \A r \in Hosted : session[r] = "open" /\ session'[r] = "closed" => ~CanRun(r)'
<1>1. /\ Closes(j) /\ Alone(j) /\ \A r \in Jobs \ {j} : Waits(r)' <=> Waits(r)
  BY OneMoves, OneCloses DEF QueueStep
<1>2. callback[j] = "set" => j \in Hosted
  BY DEF IInv, AtWorkOnce
<1>3. /\ \A r \in Hosted \ {j} : session'[r] = session[r]
      /\ j \in Hosted => session'[j] \in {session[j], "closed"}
      /\ j \in Hosted /\ session'[j] # session[j] => callback[j] = "set" /\ callback'[j] = "called"
  <2>1. CASE callback[j] = "set" /\ callback'[j] = "called"
    BY <1>2, <2>1, ReleaseCloses DEF QueueStep, CronInv
  <2>2. CASE ~(callback[j] = "set" /\ callback'[j] = "called")
    BY <2>2 DEF QueueStep, cronVars
  <2>3. QED
    BY <2>1, <2>2
<1>4. \A r \in Jobs \ {j} : CanRun(r)' <=> CanRun(r)
  BY <1>1 DEF Alone, CanRun
<1>5. j \in Hosted => session[j] \notin {"none", "creating"}
  BY DEF QueueStep, CloseInv
<1>6. Hosted \subseteq Jobs
  BY JobsAssumption
<1>7. \A r \in Jobs : task'[r] \in AtWork => status'[r] \in {"running", "cancelling"}
  BY <1>1 DEF Closes, Alone, CloseInv
<1>8. proc' # "down"
  BY <1>1 DEF Closes
<1>9. \A r \in Hosted : session'[r] \in {"none", "creating"} => enqueue'[r] = "none"
  <2>1. ASSUME NEW r \in Hosted, session'[r] \in {"none", "creating"}
        PROVE  enqueue'[r] = "none"
    <3>1. r # j
      BY <1>3, <1>5, <2>1
    <3>2. QED
      BY <1>1, <1>3, <1>6, <2>1, <3>1 DEF Alone, CloseInv
  <2>2. QED
    BY <2>1
<1>10. ASSUME NEW r \in Hosted, session'[r] = "open", enqueue'[r] \in Raised
       PROVE  ~CanRun(r)'
  <2>1. session[r] = "open"
    BY <1>3, <1>10
  <2>2. CASE r = j
    BY <1>1, <1>10, <2>1, <2>2 DEF Closes, CloseInv
  <2>3. CASE r # j
    BY <1>1, <1>4, <1>6, <1>10, <2>1, <2>3 DEF Alone, CloseInv
  <2>4. QED
    BY <2>2, <2>3
<1>11. ASSUME NEW r \in Hosted, session[r] = "open", session'[r] = "closed"
       PROVE  ~CanRun(r)'
  <2>1. r = j /\ callback[j] = "set" /\ callback'[j] = "called"
    BY <1>3, <1>11
  <2>2. QED
    BY <1>1, <2>1 DEF Closes
<1>12. CloseInv'
  BY <1>7, <1>8, <1>9, <1>10 DEF CloseInv
<1>13. QED
  BY <1>11, <1>12

\* A step of the cron service that leaves the queue alone.
LEMMA ServiceCloses ==
  ASSUME CronInv, CloseInv, NEW j \in Hosted, UNCHANGED vars,
         Fire(j) \/ CreateSession(j) \/ CreateSessionFails(j) \/ TriggerReleases(j)
  PROVE  /\ CloseInv'
         /\ \A r \in Hosted : session[r] = "open" /\ session'[r] = "closed" => ~CanRun(r)'
<1>0. CronTypeOK
  BY DEF CronInv
<1>1. /\ UNCHANGED <<status, enqueue, task, proc>>
      /\ \A r \in Jobs : CanRun(r)' <=> CanRun(r)
  BY DEF vars, memory, CanRun, Waits, InQueue
<1>2. Hosted \subseteq Jobs
  BY JobsAssumption
<1>3. /\ proc # "down"
      /\ \A r \in Hosted \ {j} : session'[r] = session[r]
      /\ \/ session'[j] = session[j]
         \/ session[j] = "none" /\ session'[j] = "creating"
         \/ session[j] = "creating" /\ session'[j] \in {"open", "failed"}
         \/ session'[j] = "closed" /\ enqueue[j] \in Raised
  <2>1. CASE Fire(j) \/ CreateSession(j) \/ CreateSessionFails(j)
    BY <1>0, <2>1 DEF CronTypeOK, Serving, Fire, CreateSession, CreateSessionFails
  <2>2. CASE TriggerReleases(j)
    BY <1>0, <2>2, ReleaseCloses DEF Serving, TriggerReleases, Raised
  <2>3. QED
    BY <2>1, <2>2
<1>4. \A r \in Jobs : task'[r] \in AtWork => status'[r] \in {"running", "cancelling"}
  BY <1>1 DEF CloseInv
<1>5. \A r \in Hosted : session'[r] \in {"none", "creating"} => enqueue'[r] = "none"
  BY <1>1, <1>3 DEF CloseInv
<1>6. ASSUME NEW r \in Hosted, session'[r] = "open", enqueue'[r] \in Raised
      PROVE  ~CanRun(r)'
  <2>1. CASE session[r] = "open"
    BY <1>1, <1>2, <1>6, <2>1 DEF CloseInv
  <2>2. CASE session[r] = "creating"
    BY <1>1, <1>6, <2>2 DEF CloseInv, Raised
  <2>3. QED
    BY <1>3, <1>6, <2>1, <2>2
<1>7. ASSUME NEW r \in Hosted, session[r] = "open", session'[r] = "closed"
      PROVE  ~CanRun(r)'
  BY <1>1, <1>2, <1>3, <1>7 DEF CloseInv
<1>8. QED
  BY <1>1, <1>3, <1>4, <1>5, <1>6, <1>7 DEF CloseInv

\* The steps of the whole process: a shutdown, a crash and a start.
LEMMA ProcessCloses ==
  ASSUME IInv, CronInv, CloseInv,
         \/ \E landed \in SUBSET Jobs : CronShutdown(landed)
         \/ CronCrash
         \/ Startup /\ UNCHANGED cronVars
  PROVE  /\ CloseInv'
         /\ proc' = "up" => UNCHANGED session
<1>0. TypeOK /\ CronTypeOK /\ Hosted \subseteq Jobs
  BY JobsAssumption DEF IInv, CronInv
<1>1. ASSUME NEW landed \in SUBSET Jobs, CronShutdown(landed)
      PROVE  CloseInv' /\ proc' = "stopping"
  <2>1. /\ proc' = "stopping" /\ requeue' = {} /\ queue' = queue /\ enqueue' = enqueue
        /\ \A j \in Jobs : task'[j] \in {"stopping", "closing", "none"}
    BY <1>0, <1>1 DEF CronShutdown, Shutdown, Left, TypeOK, TaskSteps
  <2>2. ASSUME NEW j \in Jobs, status'[j] = "queued"
        PROVE  status[j] = "queued"
    BY <1>1, <2>2 DEF CronShutdown, Shutdown, Finished, Stopped
  <2>3. \A j \in Jobs : CanRun(j)' => CanRun(j)
    BY <2>1, <2>2 DEF CanRun, Waits, InQueue, AtWork
  <2>4. \A j \in Hosted : session'[j] \in {session[j], "closed"}
    BY <1>1 DEF CronShutdown
  <2>5. QED
    BY <1>0, <2>1, <2>3, <2>4 DEF CloseInv, AtWork
<1>2. ASSUME CronCrash
      PROVE  CloseInv' /\ proc' = "down"
  <2>1. /\ proc' = "down" /\ \A j \in Jobs : task'[j] = "none"
        /\ \A j \in Hosted : enqueue[j] = "none" => enqueue'[j] = "none"
    BY <1>0, <1>2 DEF CronCrash, Crash, Enqueuing
  <2>2. \A j \in Hosted : session'[j] \in {"none", "closed", "failed"}
                          /\ (session'[j] = "none" => session[j] = "none")
    BY <1>0, <1>2 DEF CronCrash, CronTypeOK
  <2>3. QED
    BY <1>0, <2>1, <2>2 DEF CloseInv, AtWork
<1>3. ASSUME Startup, UNCHANGED cronVars
      PROVE  CloseInv' /\ UNCHANGED session
  <2>1. /\ session' = session /\ enqueue' = enqueue /\ proc = "down" /\ proc' = "up"
        /\ \A j \in Jobs : task'[j] = "none"
    BY <1>3 DEF Startup, cronVars, IInv, DownIsEmpty
  <2>2. QED
    BY <1>0, <2>1 DEF CloseInv, AtWork
<1>4. QED
  BY <1>1, <1>2, <1>3

LEMMA CloseStep ==
  ASSUME IInv, CronInv, CloseInv, "withdrawing" \notin Faults, [CronNext]_allVars
  PROVE  /\ CloseInv'
         /\ \A j \in Hosted :
              session[j] = "open" /\ session'[j] = "closed" /\ proc' = "up" => ~CanRun(j)'
<1>1. CASE \E j \in Hosted : Fire(j) \/ CreateSession(j) \/ CreateSessionFails(j) \/ TriggerReleases(j)
  <2>1. PICK j \in Hosted : Fire(j) \/ CreateSession(j) \/ CreateSessionFails(j) \/ TriggerReleases(j)
    BY <1>1
  <2>2. UNCHANGED vars
    BY <2>1 DEF Fire, CreateSession, CreateSessionFails, TriggerReleases
  <2>3. QED
    BY <2>1, <2>2, ServiceCloses
<1>2. CASE \E j \in Jobs : QueueStep(j)
  BY <1>2, QueueStepCloses
<1>3. CASE \/ \E landed \in SUBSET Jobs : CronShutdown(landed)
           \/ CronCrash
           \/ Startup /\ UNCHANGED cronVars
  BY <1>3, ProcessCloses
<1>4. CASE UNCHANGED allVars
  <2>1. UNCHANGED <<status, enqueue, task, proc, session, queue, requeue>>
    BY <1>4 DEF allVars, vars, memory, cronVars
  <2>2. \A j \in Jobs : CanRun(j)' <=> CanRun(j)
    BY <2>1 DEF CanRun, Waits, InQueue
  <2>3. QED
    BY <2>1, <2>2, JobsAssumption DEF CloseInv
<1>5. QED
  BY <1>1, <1>2, <1>3, <1>4 DEF CronNext

\* As long as every withdrawal (_withdraw) that a job's caller begins is carried out, no run's session is
\* closed, by the finish callback or by the trigger that gave up, while this process may yet begin the
\* run's job or is at work on it: for any jobs, cron jobs, workers and queue size, and whichever other
\* store and audit writes fail.
THEOREM ClosesFollowRuns ==
  ASSUME "withdrawing" \notin Faults
  PROVE  CronSpec => ClosedAfterRun
<1>1. CronInit => CloseInv
  BY JobsAssumption DEF CronInit, Init, CloseInv, AtWork
<1>2. IInv /\ CronInv /\ CloseInv /\ [CronNext]_allVars =>
        /\ CloseInv'
        /\ [\A j \in Hosted :
              session[j] = "open" /\ session'[j] = "closed" /\ proc' = "up" => ~CanRun(j)']_allVars
  BY CloseStep
<1>3. QED
  BY <1>1, <1>2, CronInvariance, SlotsAreSound, PTL DEF CronSpec, ClosedAfterRun

\* The cron service is one use of the queue: every behaviour of the two together is one of the queue's.
THEOREM CronUsesTheQueue == CronSpec => Spec
<1>1. CronInit => Init
  BY DEF CronInit
<1>2. [CronNext]_allVars => [Next]_vars
  BY CronStepsTheQueue
<1>3. QED
  BY <1>1, <1>2, PTL DEF CronSpec, Spec

\* Hence a cron run's job, too, has the life the queue promises, and no fire runs it twice.
THEOREM CronLivesAreKept == CronSpec => ImplementsLives
  BY CronUsesTheQueue, LivesAreKept, PTL
=============================================================================
