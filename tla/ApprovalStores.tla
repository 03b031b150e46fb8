--------------------------- MODULE ApprovalStores ---------------------------
(***************************************************************************)
(* The two stores behind an approval record: a JSON file for each record,  *)
(* always written, and a SQLite table, written and read while it is        *)
(* available (ApprovalStore.startup, _catch_sqlite_up and _write of        *)
(* src/controller/app/approvals.py; approval_backends.py).                 *)
(*                                                                         *)
(* Any store operation may fail, the process may die between any two of    *)
(* them, and a start finds SQLite usable or not.  Who decides and claims,  *)
(* and why, is module ApprovalClaims; here a claim is a write of           *)
(* "executed", and its effect the moment after which that must never read  *)
(* otherwise again.                                                        *)
(***************************************************************************)
EXTENDS Naturals

CONSTANTS
  Approvals,
  LastTime,    \* bound: the clock and the stamps stop here
  StepsBack,   \* whether the wall clock may be set back while the process is down
  None,        \* no record
  NoWrite

VARIABLES
  file,      \* FileApprovalStore's record of each approval, or None
  sqlite,    \* SQLiteApprovalStore's
  primary,   \* ApprovalStore._primary: the store reads come from
  proc,      \* "down"; a start "repairing" the file, then "copying" to SQLite; "running"
  askew,     \* approvals whose file record a logged failure left as it was, this process
  write,     \* the one write under way, under the store's lock, or NoWrite
  now,       \* the wall clock, in steps of the stamps' resolution
  told,      \* history: the record of the last write each approval's callers saw succeed
  loose,     \* history: what writes that landed somewhere, and were not seen to succeed, made it
  live,      \* claims this process holds whose action has not begun
  begun      \* history: approvals whose action has begun

stores == <<file, sqlite>>
process == <<primary, proc, askew>>
history == <<told, loose, begun>>
vars == <<stores, process, write, now, live, history>>

-----------------------------------------------------------------------------
Statuses == {"pending", "approved", "rejected", "executed"}
Records == [status : Statuses, at : 0..LastTime]
Writes == [of : Approvals, rec : Records, before : Records \union {None},
           step : {"file", "sqlite", "back"}]

ASSUME StoresAssumption ==
  /\ LastTime \in Nat /\ StepsBack \in BOOLEAN
  /\ None \notin Records /\ NoWrite \notin Writes

Idle == proc = "running" /\ write = NoWrite
Read(a) == IF primary = "sqlite" THEN sqlite[a] ELSE file[a]

\* _later_than: the clock, or one step past the record being changed.
LaterThan(at) == IF now > at THEN now ELSE at + 1

\* _undoes_a_final_decision: whether the file's record would turn SQLite's final one.
Undoes(kept, record) ==
  /\ record.status # kept.status
  /\ \/ kept.status = "executed"
     \/ kept.status = "rejected" /\ record.at <= kept.at

\* The file's records that differ: SQLite's is kept over the file's, or takes it.
Differ == {a \in Approvals : file[a] # None /\ file[a] # sqlite[a]}

\* A fault: only what SQLite lacks is copied.
ToCopyMissing == {a \in Differ : sqlite[a] = None}

ToRepair == {a \in Differ : sqlite[a] # None /\ Undoes(sqlite[a], file[a])} \ askew
ToCopy == {a \in Differ : sqlite[a] = None \/ ~Undoes(sqlite[a], file[a])}

-----------------------------------------------------------------------------
Init ==
  /\ file = [a \in Approvals |-> None]
  /\ sqlite = [a \in Approvals |-> None]
  /\ primary = "file"
  /\ proc = "down"
  /\ askew = {}
  /\ write = NoWrite
  /\ now = 0
  /\ told = [a \in Approvals |-> None]
  /\ loose = [a \in Approvals |-> {}]
  /\ live = {}
  /\ begun = {}

\* startup: SQLite opens and lists its records, or the process runs on the files alone.
StartOnBoth ==
  /\ proc = "down"
  /\ proc' = "repairing"
  /\ UNCHANGED <<stores, primary, askew, write, now, live, history>>

StartOnFiles ==
  /\ proc = "down"
  /\ proc' = "running"
  /\ UNCHANGED <<stores, primary, askew, write, now, live, history>>

\* _catch_sqlite_up, first half: SQLite's final record is written over the file's; a failure is
\* logged, and goes no further.
Repair(a) ==
  /\ proc = "repairing"
  /\ a \in ToRepair
  /\ file' = [file EXCEPT ![a] = sqlite[a]]
  /\ UNCHANGED <<sqlite, process, write, now, live, history>>

RepairFails(a) ==
  /\ proc = "repairing"
  /\ a \in ToRepair
  /\ askew' = askew \union {a}
  /\ UNCHANGED <<stores, primary, proc, write, now, live, history>>

Repaired ==
  /\ proc = "repairing"
  /\ ToRepair = {}
  /\ proc' = "copying"
  /\ UNCHANGED <<stores, primary, askew, write, now, live, history>>

\* _catch_sqlite_up, second half: SQLite takes the file's other records, and is primary after.
Copy(a) ==
  /\ proc = "copying"
  /\ a \in ToCopy
  /\ sqlite' = [sqlite EXCEPT ![a] = file[a]]
  /\ UNCHANGED <<file, process, write, now, live, history>>

CaughtUp ==
  /\ proc = "copying"
  /\ ToCopy = {}
  /\ proc' = "running"
  /\ primary' = "sqlite"
  /\ UNCHANGED <<stores, askew, write, now, live, history>>

\* A fault: the fall-back whatever was left unrepaired.
FallsBack ==
  /\ proc = "copying"
  /\ ToCopy # {}
  /\ proc' = "running"
  /\ UNCHANGED <<stores, primary, askew, write, now, live, history>>

\* SQLite fails a copy: the files, if every repair landed, or no start at all.
CopyFails ==
  /\ proc = "copying"
  /\ ToCopy # {}
  /\ proc' = IF askew = {} THEN "running" ELSE "down"
  /\ askew' = {}
  /\ UNCHANGED <<stores, primary, write, now, live, history>>

-----------------------------------------------------------------------------
(* Writes, one at a time under the lock.                                   *)

Begin(a, status, at) ==
  /\ at <= LastTime
  /\ write' = [of |-> a, rec |-> [status |-> status, at |-> at], before |-> sqlite[a],
               step |-> "file"]
  /\ UNCHANGED <<stores, process, now, live, history>>

Create(a) ==
  /\ Idle
  /\ file[a] = None /\ sqlite[a] = None
  /\ Begin(a, "pending", now)

Decide(a, verdict) ==
  /\ Idle
  /\ Read(a) # None
  /\ Read(a).status # "executed"
  /\ Begin(a, verdict, LaterThan(Read(a).at))

\* _mark_executed: a claim carries the clock's time, whatever the record it changes carries.
Claim(a) ==
  /\ Idle
  /\ Read(a) # None
  /\ Read(a).status = "approved"
  /\ Begin(a, "executed", now)

\* give_back of a claim whose action has not begun: approved, or an operator's waiting reject.
GiveBack(a, verdict) ==
  /\ Idle
  /\ a \in live
  /\ Begin(a, verdict, LaterThan(Read(a).at))

\* The caller sees the write succeed.
Succeeds ==
  /\ write' = NoWrite
  /\ told' = [told EXCEPT ![write.of] = write.rec]
  /\ loose' = [loose EXCEPT ![write.of] = {}]
  /\ live' = IF write.rec.status = "executed" THEN live \union {write.of} ELSE live \ {write.of}
  /\ askew' = askew \ {write.of}

\* The caller sees it fail: a give-back that failed leaves its claim spent.
Fails ==
  /\ write' = NoWrite
  /\ live' = live \ {write.of}

\* What a write left in the file counts as landed somewhere.
LeftBehind == [loose EXCEPT ![write.of] = @ \union {write.rec.status}]

FileLands ==
  /\ write # NoWrite /\ write.step = "file"
  /\ file' = [file EXCEPT ![write.of] = write.rec]
  /\ IF primary = "file"
     THEN Succeeds
     ELSE /\ write' = [write EXCEPT !.step = "sqlite"]
          /\ UNCHANGED <<told, loose, live, askew>>
  /\ UNCHANGED <<sqlite, primary, proc, now, begun>>

\* The file's write fails, or SQLite could not be asked what it holds: nothing has changed.
FileFails ==
  /\ write # NoWrite /\ write.step = "file"
  /\ Fails
  /\ UNCHANGED <<stores, process, now, history>>

SqliteLands ==
  /\ write # NoWrite /\ write.step = "sqlite"
  /\ sqlite' = [sqlite EXCEPT ![write.of] = write.rec]
  /\ Succeeds
  /\ UNCHANGED <<file, primary, proc, now, begun>>

\* A fault: the file keeps what SQLite refused.
SqliteRefuses ==
  /\ write # NoWrite /\ write.step = "sqlite"
  /\ Fails
  /\ UNCHANGED <<stores, process, now, history>>

SqliteFails ==
  /\ write # NoWrite /\ write.step = "sqlite"
  /\ write' = [write EXCEPT !.step = "back"]
  /\ UNCHANGED <<stores, process, now, live, history>>

\* _put_the_file_back: to what SQLite still holds, or removed; a failure is logged.
PutBack ==
  /\ write # NoWrite /\ write.step = "back"
  /\ file' = [file EXCEPT ![write.of] = write.before]
  /\ askew' = askew \ {write.of}
  /\ Fails
  /\ UNCHANGED <<sqlite, primary, proc, now, history>>

PutBackFails ==
  /\ write # NoWrite /\ write.step = "back"
  /\ askew' = askew \union {write.of}
  /\ loose' = LeftBehind
  /\ Fails
  /\ UNCHANGED <<stores, primary, proc, now, told, begun>>

-----------------------------------------------------------------------------
\* effect_started under an acknowledged claim.
BeginEffect(a) ==
  /\ proc = "running"
  /\ a \in live
  /\ ~ (write # NoWrite /\ write.of = a)
  /\ live' = live \ {a}
  /\ begun' = begun \union {a}
  /\ UNCHANGED <<stores, process, write, now, told, loose>>

Tick ==
  /\ now < LastTime
  /\ now' = now + 1
  /\ UNCHANGED <<stores, process, write, live, history>>

\* The process dies, wherever it is.  By the next start the clock has passed every stamp, unless
\* it was set back.
Stamps == {file[a].at : a \in {b \in Approvals : file[b] # None}}
            \union {sqlite[a].at : a \in {b \in Approvals : sqlite[b] # None}}

Crash ==
  /\ proc # "down"
  /\ proc' = "down"
  /\ primary' = "file"
  /\ askew' = {}
  /\ write' = NoWrite
  /\ live' = {}
  /\ \E t \in 0..LastTime :
       /\ \/ StepsBack /\ t <= now
          \/ t >= now /\ (\A s \in Stamps : t > s) /\ (t > now => t - 1 \in Stamps)
       /\ now' = t
  /\ loose' = IF write # NoWrite /\ write.step # "file" THEN LeftBehind ELSE loose
  /\ UNCHANGED <<stores, told, begun>>

Starting ==
  \/ StartOnBoth
  \/ StartOnFiles
  \/ \E a \in Approvals : Repair(a) \/ RepairFails(a) \/ Copy(a)
  \/ Repaired
  \/ CaughtUp
  \/ CopyFails

Changing(a) ==
  \/ Create(a)
  \/ \E verdict \in {"approved", "rejected"} : Decide(a, verdict) \/ GiveBack(a, verdict)
  \/ Claim(a)
  \/ BeginEffect(a)

Writing == FileLands \/ FileFails \/ SqliteLands \/ SqliteFails \/ PutBack \/ PutBackFails

Next ==
  \/ Starting
  \/ \E a \in Approvals : Changing(a)
  \/ Writing
  \/ Tick
  \/ Crash

Spec == Init /\ [][Next]_vars

-----------------------------------------------------------------------------
TypeOK ==
  /\ file \in [Approvals -> Records \union {None}]
  /\ sqlite \in [Approvals -> Records \union {None}]
  /\ primary \in {"file", "sqlite"}
  /\ proc \in {"down", "repairing", "copying", "running"}
  /\ askew \subseteq Approvals
  /\ write \in Writes \union {NoWrite}
  /\ now \in 0..LastTime
  /\ told \in [Approvals -> Records \union {None}]
  /\ loose \in [Approvals -> SUBSET Statuses]
  /\ live \subseteq Approvals
  /\ begun \subseteq Approvals

\* "A spend is final at a start" (_undoes_a_final_decision): once an action has begun under an
\* approval, every process that runs reads it executed, whatever crashed, failed to be written,
\* or was missing from SQLite at each start since.
SpendIsKept ==
  \A a \in begun : proc = "running" => Read(a) # None /\ Read(a).status = "executed"

\* _write and its put-back: with SQLite primary, and nothing under way, the file of a record says
\* what SQLite says, so a later start without SQLite reads the same; or a failure was logged.
StoresAgree ==
  Idle /\ primary = "sqlite" => \A a \in Approvals \ askew : file[a] = sqlite[a]

\* _write and _catch_sqlite_up: a caller reads the last write it was told had landed.  A start may
\* turn that only to a final record, or to one whose own write was cut off or could not be put
\* back; no record is ever lost.
ReadsTheLastWord ==
  Idle => \A a \in Approvals :
            \/ Read(a) = told[a]
            \/ Read(a) # None /\ Read(a).status \in {"executed", "rejected"} \union loose[a]

\* ApprovalStoresUntrusted: a start that has read SQLite's records never runs on a file store
\* where one of SQLite's final records is undone.
FallBackIsRepaired ==
  [][proc = "copying" /\ proc' = "running" /\ primary' = "file" =>
       \A a \in Approvals : file[a] # None /\ sqlite[a] # None => ~Undoes(sqlite[a], file[a])]_vars

-----------------------------------------------------------------------------
(* The inductive invariant of the theorems (ApprovalStores_proofs).        *)

WriteOf(a) == write # NoWrite /\ write.of = a
HalfWritten(a) == WriteOf(a) /\ write.step # "file"

\* A write under way: SQLite still holds what it held, and the file has the record, once written.
WriteSound ==
  write # NoWrite =>
    /\ proc = "running"
    /\ write.before = sqlite[write.of]
    /\ write.step # "file" => primary = "sqlite" /\ file[write.of] = write.rec

\* A start past its repairs, and a process on SQLite, know every record the file has wrong.
StoresSound ==
  /\ primary = "sqlite" \/ live # {} => proc = "running"
  /\ \A a \in live : Read(a) # None
  /\ \A a \in Approvals : file[a] = None => sqlite[a] = None
  /\ primary = "sqlite" => \A a \in Approvals \ askew : file[a] = sqlite[a] \/ HalfWritten(a)
  /\ proc = "copying" =>
       \A a \in Approvals \ askew : file[a] # None /\ sqlite[a] # None => ~Undoes(sqlite[a], file[a])

\* What a record may read, whichever store a start reads it from.
LastWord(record, a) ==
  \/ record = told[a]
  \/ record # None /\ record.status \in {"executed", "rejected"} \union loose[a]

WordsSound ==
  \A a \in Approvals :
    /\ LastWord(file[a], a) \/ HalfWritten(a)
    /\ primary = "sqlite" => LastWord(sqlite[a], a)

\* No start's repair or copy, and no read, turns a spent approval.
Spent(a) ==
  /\ file[a] # None /\ file[a].status = "executed"
  /\ sqlite[a] # None => ~Undoes(sqlite[a], file[a])
  /\ primary = "sqlite" => sqlite[a] # None /\ sqlite[a].status = "executed"

Older(record, t) == record # None => record.at < t

\* What a start finds is older than its clock, so a claim on the files alone is newer than all SQLite has.
ClockSound ==
  /\ proc # "running" => \A a \in Approvals : Older(file[a], now)
  /\ primary = "file" => \A a \in Approvals : Older(sqlite[a], now)
  /\ (write # NoWrite /\ write.rec.status = "executed" /\ primary = "file") =>
       Older(sqlite[write.of], write.rec.at)

SpendsSound ==
  /\ \A a \in live : WriteOf(a) \/ Spent(a)
  /\ \A a \in begun : ~WriteOf(a) /\ Spent(a) /\ a \notin live

IInv ==
  /\ TypeOK /\ WriteSound /\ StoresSound /\ WordsSound
  /\ ~StepsBack => ClockSound /\ SpendsSound
=============================================================================
