--------------------------- MODULE ActionPipeline ---------------------------
(***************************************************************************)
(* The actions of one session and their records                            *)
(* (src/controller/app/actions/pipeline.py, action_records.py), with what  *)
(* else records on the session: a person's takeover                        *)
(* (browser/services/takeover.py) and the close (services/sessions.py).    *)
(*                                                                         *)
(* An action runs under the session lock and ends in one record, an        *)
(* actions.jsonl line, an audit entry and a receipt, which a task writes   *)
(* even when the action is cancelled meanwhile; each such task first waits *)
(* for the one before it, for a bounded time.  A takeover records the same *)
(* way without the lock; a close takes the lock, or goes ahead without it. *)
(* What the page shows, and the texts and codes of errors, are left out.   *)
(***************************************************************************)
EXTENDS Naturals, Sequences, FiniteSets, Functions

CONSTANTS
  Actions,
  Uploads,    \* the actions that mark their own effect, and say whether their change was made
  Takeovers,
  Close,
  PassedMax   \* bound: waits for an earlier record given up after RECORD_WAIT_SECONDS

Recorders == Actions \union Takeovers
Nobody == "nobody"
NoRecord == "no record"

ASSUME PipelineAssumption ==
  /\ Uploads \subseteq Actions /\ PassedMax \in Nat
  /\ Actions \intersect Takeovers = {}
  /\ NoRecord \notin Recorders /\ Nobody \notin Actions \union {Close} /\ Close \notin Actions

VARIABLES
  lock,        \* session.lock
  registered,  \* whether the session is in manager.sessions
  at,          \* each action's step, "ended" when its caller has its answer
  began,       \* operation_started, or an upload's began: its holds' effect is marked
  transferred, \* what an upload's change_made answers
  block,       \* witness_state.policy_block is set
  answer,      \* what the caller is to get, once its record is begun, or got
  pending,     \* session.pending_record
  record,      \* each record's task, and the record it waits for
  close,       \* the close: its step, and whether it holds the lock
  touched,     \* history: the page may have been changed by the action
  order,       \* history: the records in the order they were begun
  passed       \* history: waits given up

vars == <<lock, registered, at, began, transferred, block, answer, pending, record, close,
          touched, order, passed>>
actionVars == <<began, transferred, block, touched>>
recordVars == <<pending, record, order>>

Init ==
  /\ lock = Nobody
  /\ registered = TRUE
  /\ at = [a \in Actions |-> "queued"]
  /\ began = [a \in Actions |-> FALSE]
  /\ transferred = [a \in Actions |-> FALSE]
  /\ block = [a \in Actions |-> FALSE]
  /\ answer = [a \in Actions |-> "none"]
  /\ pending = NoRecord
  /\ record = [w \in Recorders |-> [at |-> "none", prev |-> NoRecord]]
  /\ close = [at |-> "none", locked |-> FALSE]
  /\ touched = [a \in Actions |-> FALSE]
  /\ order = <<>>
  /\ passed = {}

Over(w) == record[w].at \in {"written", "failed"}
Owed(a) == began[a] \/ block[a]

-----------------------------------------------------------------------------
(* write_record: the task of a record, whoever awaits it.                  *)

BeginRecord(w) ==
  /\ record' = [record EXCEPT ![w] = [at |-> "waiting", prev |-> pending]]
  /\ pending' = w
  /\ order' = Append(order, w)

\* Whether a wait for a record ends: it is over, or it was given up.
WaitEnds(w, by) ==
  \/ /\ w # NoRecord => Over(w)
     /\ passed' = passed
  \/ /\ w # NoRecord /\ ~Over(w)
     /\ passed' = passed \union {by}
     /\ Cardinality(passed') <= PassedMax

\* A fault: the session forgets its pending record whichever record ended.
ForgetAny(w) == NoRecord

Forget(w) == IF pending = w THEN NoRecord ELSE pending

StartWriting(w) ==
  /\ record[w].at = "waiting"
  /\ WaitEnds(record[w].prev, w)
  /\ record' = [record EXCEPT ![w].at = "writing"]
  /\ UNCHANGED <<lock, registered, at, actionVars, answer, pending, close, order>>

\* The three writes, one of which may raise.
EndWriting(w) ==
  /\ record[w].at = "writing"
  /\ \E end \in {"written", "failed"} : record' = [record EXCEPT ![w].at = end]
  /\ pending' = Forget(w)
  /\ UNCHANGED <<lock, registered, at, actionVars, answer, close, order, passed>>

-----------------------------------------------------------------------------
(* An action.                                                              *)

Step(a, next) == at' = [at EXCEPT ![a] = next]

\* Its caller gets its answer, and the lock is free.
End(a, said) ==
  /\ Step(a, "ended")
  /\ answer' = [answer EXCEPT ![a] = said]
  /\ lock' = IF lock = a THEN Nobody ELSE lock

\* A fault: an action runs on whatever session it was given.
MayRunAnyway == TRUE

\* The session is still registered, and its gate is live.
MayRun == registered

Enter(a) ==
  /\ at[a] = "queued"
  /\ lock = Nobody
  /\ \/ MayRun /\ lock' = a /\ Step(a, "entered") /\ UNCHANGED answer
     \/ End(a, "gone")
  /\ UNCHANGED <<registered, actionVars, recordVars, close, passed>>

\* It waits for the record before it, then prepares, which may fail.
Prepare(a) ==
  /\ at[a] = "entered"
  /\ WaitEnds(pending, a)
  /\ \/ Step(a, "prepared") /\ UNCHANGED <<lock, answer>>
     \/ End(a, "error")
  /\ UNCHANGED <<registered, actionVars, recordVars, close>>

\* Cancelled while it waits for the lock, for the closed page's grace or for a record.
CancelEarly(a) ==
  /\ at[a] \in {"queued", "entered"}
  /\ End(a, "cancelled")
  /\ UNCHANGED <<registered, actionVars, recordVars, close, passed>>

\* _execute refuses it: the page, the witness, or the approval it runs under.
Refuse(a) ==
  /\ at[a] = "prepared"
  /\ Step(a, "blocking")
  /\ block' = [block EXCEPT ![a] = TRUE]
  /\ UNCHANGED <<lock, registered, began, transferred, touched, answer, recordVars, close, passed>>

\* An error or a cancel before its effect: the remote witness, the gate.
FailEarly(a) ==
  /\ at[a] = "prepared"
  /\ Step(a, "interrupted")
  /\ UNCHANGED <<lock, registered, actionVars, answer, recordVars, close, passed>>

\* effect_started, then the operation; an upload marks its own.
StartOperation(a) ==
  /\ at[a] = "prepared"
  /\ Step(a, "operating")
  /\ began' = [began EXCEPT ![a] = a \notin Uploads]
  /\ UNCHANGED <<lock, registered, transferred, block, touched, answer, recordVars, close, passed>>

BeginTransfer(a) ==
  /\ at[a] = "operating" /\ a \in Uploads /\ ~began[a]
  /\ began' = [began EXCEPT ![a] = TRUE]
  /\ UNCHANGED <<lock, registered, at, transferred, block, touched, answer, recordVars, close, passed>>

\* The page is changed; an upload may know it, once set_input_files has returned.
Touch(a) ==
  /\ at[a] = "operating" /\ began[a] /\ ~transferred[a]
  /\ touched' = [touched EXCEPT ![a] = TRUE]
  /\ transferred' \in {transferred, [transferred EXCEPT ![a] = a \in Uploads]}
  /\ UNCHANGED <<lock, registered, at, began, block, answer, recordVars, close, passed>>

\* The operation, and what follows it, return.
Return(a) ==
  /\ at[a] = "operating" /\ began[a]
  /\ a \in Uploads => transferred[a]
  /\ Step(a, "reading")
  /\ UNCHANGED <<lock, registered, actionVars, answer, recordVars, close, passed>>

\* The page it led to is refused, or its navigation was stopped, or the upload's own check refuses.
BlockAfter(a) ==
  /\ at[a] = "operating"
  /\ Step(a, "blocking")
  /\ block' = [block EXCEPT ![a] = TRUE]
  /\ UNCHANGED <<lock, registered, began, transferred, touched, answer, recordVars, close, passed>>

\* A fault: a page failure fails the action, whatever it had done.
FailedAnyway(a) == "failingRetryable"

\* A page failure or a retryable error: not a failure once the change was made.
FailedRetryable(a) == IF transferred[a] THEN "reading" ELSE "failingRetryable"

Fail(a) ==
  /\ at[a] = "operating"
  /\ \E next \in {FailedRetryable(a), "failing"} : Step(a, next)
  /\ UNCHANGED <<lock, registered, actionVars, answer, recordVars, close, passed>>

\* A bot challenge: a person is asked for first, and that is recorded.
Challenge(a, t) ==
  /\ at[a] = "operating" /\ began[a]
  /\ a \in Uploads => transferred[a]
  /\ record[t].at = "none"
  /\ Step(a, "challenged")
  /\ BeginRecord(t)
  /\ UNCHANGED <<lock, registered, actionVars, answer, close, passed>>

Challenged(a) ==
  /\ at[a] = "challenged"
  /\ \E t \in Takeovers : record[t].at = "written"
  /\ Step(a, "failing")
  /\ UNCHANGED <<lock, registered, actionVars, answer, recordVars, close, passed>>

\* An unexpected error or a cancellation, in the operation, in the handling of what it came to, or in
\* the reading of the page after it.
Interrupt(a) ==
  /\ at[a] \in {"operating", "challenged", "blocking", "failing", "failingRetryable", "reading"}
  /\ Step(a, "interrupted")
  /\ UNCHANGED <<lock, registered, actionVars, answer, recordVars, close, passed>>

\* What its caller is told once the record is written.
Said == [reading |-> "ok", blocking |-> "blocked", failing |-> "failed", failingRetryable |-> "retryable",
         interrupted |-> "error"]

\* The action's record is begun: whatever ends the action from here on, nothing records it again.
Record(a) ==
  /\ at[a] \in DOMAIN Said
  /\ at[a] = "interrupted" => Owed(a)
  /\ BeginRecord(a)
  /\ Step(a, "recording")
  /\ answer' = [answer EXCEPT ![a] = Said[at[a]]]
  /\ UNCHANGED <<lock, registered, actionVars, close, passed>>

\* A fault: an action whose record could not be written is recorded as interrupted.
RecordedAgain(a) ==
  /\ at[a] = "recording" /\ Over(a)
  /\ IF record[a].at = "written" THEN End(a, answer[a]) ELSE Step(a, "interrupted") /\ UNCHANGED <<lock, answer>>
  /\ UNCHANGED <<registered, actionVars, recordVars, close, passed>>

\* The record is written, or was not, which is raised, as a failed persist of the session after it is.
Recorded(a) ==
  /\ at[a] = "recording" /\ Over(a)
  /\ (record[a].at = "written" /\ End(a, answer[a])) \/ End(a, "error")
  /\ UNCHANGED <<registered, actionVars, recordVars, close, passed>>

\* Cancelled while its record is written: the record finishes behind it.
CancelRecording(a) ==
  /\ at[a] = "recording"
  /\ End(a, "cancelled")
  /\ UNCHANGED <<registered, actionVars, recordVars, close, passed>>

\* _record_interrupted has nothing to record: the holder of its approval gives it back.
RaiseEarly(a) ==
  /\ at[a] = "interrupted"
  /\ ~Owed(a)
  /\ \E said \in {"error", "cancelled"} : End(a, said)
  /\ UNCHANGED <<registered, actionVars, recordVars, close, passed>>

-----------------------------------------------------------------------------
(* A takeover asked for by a caller, and the close.                        *)

RequestTakeover(t) ==
  /\ registered
  /\ record[t].at = "none"
  /\ BeginRecord(t)
  /\ UNCHANGED <<lock, registered, at, actionVars, answer, close, passed>>

\* _lock_for_close: the lock, or after its waits the context is closed and the close goes ahead.
CloseBegin ==
  /\ close.at = "none"
  /\ \/ lock = Nobody /\ lock' = Close /\ close' = [at |-> "waiting", locked |-> TRUE]
     \/ lock # Nobody /\ UNCHANGED lock /\ close' = [at |-> "waiting", locked |-> FALSE]
  /\ UNCHANGED <<registered, at, actionVars, answer, recordVars, passed>>

CloseWait ==
  /\ close.at = "waiting"
  /\ WaitEnds(pending, Close)
  /\ close' = [close EXCEPT !.at = "tearing down"]
  /\ UNCHANGED <<lock, registered, at, actionVars, answer, recordVars>>

TearDown ==
  /\ close.at = "tearing down"
  /\ registered' = FALSE
  /\ close' = [close EXCEPT !.at = "writing"]
  /\ UNCHANGED <<lock, at, actionVars, answer, recordVars, passed>>

\* Its audit entry, its receipt and the session's record; a failure among them is raised.
CloseEnd ==
  /\ close.at = "writing"
  /\ close' = [close EXCEPT !.at = "closed"]
  /\ lock' = IF close.locked THEN Nobody ELSE lock
  /\ UNCHANGED <<registered, at, actionVars, answer, recordVars, passed>>

-----------------------------------------------------------------------------
Acting(a) ==
  \/ Enter(a) \/ Prepare(a) \/ CancelEarly(a) \/ Refuse(a) \/ FailEarly(a) \/ StartOperation(a)
  \/ BeginTransfer(a) \/ Touch(a) \/ Return(a) \/ BlockAfter(a) \/ Fail(a) \/ Challenged(a)
  \/ Interrupt(a) \/ Record(a) \/ Recorded(a) \/ CancelRecording(a) \/ RaiseEarly(a)

Next ==
  \/ \E a \in Actions : Acting(a) \/ \E t \in Takeovers : Challenge(a, t)
  \/ \E t \in Takeovers : RequestTakeover(t)
  \/ \E w \in Recorders : StartWriting(w) \/ EndWriting(w)
  \/ CloseBegin \/ CloseWait \/ TearDown \/ CloseEnd

Spec == Init /\ [][Next]_vars

-----------------------------------------------------------------------------
TypeOK ==
  /\ lock \in Actions \union {Close, Nobody}
  /\ registered \in BOOLEAN
  /\ at \in [Actions -> DOMAIN Said \union {"queued", "entered", "prepared", "operating", "challenged",
                                          "recording", "ended"}]
  /\ began \in [Actions -> BOOLEAN] /\ transferred \in [Actions -> BOOLEAN]
  /\ block \in [Actions -> BOOLEAN] /\ touched \in [Actions -> BOOLEAN]
  /\ answer \in [Actions -> {"none", "ok", "blocked", "failed", "retryable", "error", "cancelled", "gone"}]
  /\ pending \in Recorders \union {NoRecord}
  /\ record \in [Recorders -> [at : {"none", "waiting", "writing", "written", "failed"},
                              prev : Recorders \union {NoRecord}]]
  /\ close \in [at : {"none", "waiting", "tearing down", "writing", "closed"}, locked : BOOLEAN]
  /\ order \in Seq(Recorders)
  /\ passed \subseteq Recorders \union {Close}
  \* Whoever is past the wait for the lock holds it, but for a close that gave the wait up.
  /\ \A a \in Actions : at[a] \notin {"queued", "ended"} <=> lock = a
  /\ lock = Close <=> close.locked /\ close.at \notin {"none", "closed"}

\* An action that may have changed the page, or was refused, ends in a record, and in one only: through
\* errors in the handling of errors, records that fail and cancellations at every step
\* (_record_interrupted, witness_state.recorded, write_record's shield).
RecordedOnce ==
  /\ IsInjective(order)
  /\ \A a \in Actions : at[a] = "ended" /\ Owed(a) => a \in Range(order)

\* An answer after which the action may be made again means that it was not made: an upload whose file
\* has gone in is never reported as a failure to retry, whichever of the steps after it raised (change_made).
RetryIsSafe ==
  \A a \in Actions : at[a] = "ended" /\ answer[a] = "retryable" => ~transferred[a]

Unfinished(w) == record[w].at \in {"waiting", "writing"}

\* "The two actions' lines, audit entries and receipts land in order" (pipeline.py:145): a record is not
\* written while one begun before it is unfinished, unless someone after that one gave up waiting.
RecordsInOrder ==
  \A i, j \in 1..Len(order) :
    i < j /\ Unfinished(order[i]) /\ record[order[j]].at # "waiting"
      => \E k \in (i + 1)..j : order[k] \in passed

\* "The close is recorded after it" (sessions.py:216): once a close that got the lock writes its own record,
\* no action has one unfinished or begins one, unless a wait was given up.
ClosedLast ==
  close.locked /\ close.at \in {"writing", "closed"} /\ passed = {}
    => \A a \in Actions : ~Unfinished(a)

-----------------------------------------------------------------------------
(* The inductive invariant of the theorems (ActionPipeline_proofs).        *)

Begun(w) == \E i \in 1..Len(order) : order[i] = w

\* Each record waits for the one begun before it, unless that one was over; the last is the pending
\* one until it is.
ChainSound ==
  /\ \A i, k \in 1..Len(order) : order[i] = order[k] => i = k
  /\ \A w \in Recorders : record[w].at # "none" <=> Begun(w)
  /\ \A i \in 1..Len(order) : i > 1 => record[order[i]].prev = order[i - 1] \/ Over(order[i - 1])
  /\ pending # NoRecord => Len(order) > 0 /\ pending = order[Len(order)]
  /\ pending = NoRecord /\ Len(order) > 0 => Over(order[Len(order)])

\* An action that has marked its effect, or was refused, is past its early ends, and its end is a record.
ActionSound(a) ==
  /\ Begun(a) => at[a] \in {"recording", "ended"}
  /\ at[a] = "recording" \/ (at[a] = "ended" /\ Owed(a)) => Begun(a)
  /\ Owed(a) => at[a] \notin {"queued", "entered", "prepared"}
  /\ touched[a] \/ transferred[a] => began[a]
  /\ at[a] = "failingRetryable" => ~transferred[a]
  /\ at[a] \in {"recording", "ended"} /\ answer[a] = "retryable" => ~transferred[a]

\* Whoever is past the wait for the lock holds it, but for a close that gave the wait up; a close that
\* holds it finds every record over, and no action enters a session that is gone.
CloseSound ==
  /\ close.at \in {"writing", "closed"} => ~registered
  /\ close.locked /\ close.at # "none" => \A a \in Actions : at[a] \in {"queued", "ended"}
  /\ (close.locked /\ close.at \in {"tearing down", "writing", "closed"} /\ passed = {}) =>
       \A a \in Actions : ~Unfinished(a)

IInv ==
  /\ TypeOK /\ ChainSound /\ RecordsInOrder /\ CloseSound
  /\ \A a \in Actions : ActionSound(a)
=============================================================================
