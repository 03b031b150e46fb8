----------------------- MODULE ApprovalStores_proofs -----------------------
(* Theorems about ApprovalStores, for every set of approvals and every bound of the clock. *)
EXTENDS ApprovalStores, TLAPS

LEMMA InvInit == Init => IInv
<1> SUFFICES ASSUME Init
             PROVE  IInv
  OBVIOUS
<1>1. TypeOK
  BY StoresAssumption DEF Init, TypeOK
<1>2. WriteSound /\ StoresSound /\ WordsSound
  BY DEF Init, WriteSound, StoresSound, WordsSound, LastWord
<1>3. ClockSound /\ SpendsSound
  BY DEF Init, ClockSound, SpendsSound, Older
<1>4. QED
  BY <1>1, <1>2, <1>3 DEF IInv

\* An executed record newer than SQLite's turns nothing at a start.
LEMMA NotUndone ==
  ASSUME NEW kept, NEW record, kept.at \in Nat, record.at \in Nat, kept.at < record.at, record.status = "executed"
  PROVE  ~Undoes(kept, record)
  BY DEF Undoes


LEMMA StartOnBothKeeps ==
  ASSUME IInv, StartOnBoth
  PROVE  IInv'
<1>0. TypeOK /\ WriteSound /\ StoresSound /\ WordsSound /\ (~StepsBack => ClockSound /\ SpendsSound)
  BY DEF IInv
<1>1. TypeOK'
  BY <1>0, StoresAssumption DEF TypeOK, Writes, Records, Statuses, StartOnBoth, stores, process, history
<1>2. WriteSound'
  BY <1>0, StoresAssumption DEF TypeOK, WriteSound, StartOnBoth, stores, process, history
<1>3. StoresSound'
  BY <1>0, StoresAssumption DEF TypeOK, StoresSound, Read, WriteSound, HalfWritten, WriteOf, Differ, ToRepair,
     ToCopy, StartOnBoth, stores, process, history
<1>4. WordsSound'
  BY <1>0, StoresAssumption DEF TypeOK, WordsSound, LastWord, StoresSound, WriteSound, HalfWritten, WriteOf,
     Differ, ToRepair, ToCopy, Undoes, StartOnBoth, stores, process, history
<1>5. ASSUME ~StepsBack PROVE ClockSound'
  BY <1>0, <1>5, StoresAssumption DEF TypeOK, ClockSound, WriteSound, Older, StoresSound, Records, Writes,
     Differ, ToRepair, ToCopy, StartOnBoth, stores, process, history
<1>6. ASSUME ~StepsBack PROVE SpendsSound'
  BY <1>0, <1>6, StoresAssumption DEF TypeOK, SpendsSound, Spent, WriteOf, ClockSound, WriteSound, StoresSound,
     Older, Differ, ToRepair, ToCopy, Undoes, Records, Writes, StartOnBoth, stores, process, history
<1>7. QED
  BY <1>1, <1>2, <1>3, <1>4, <1>5, <1>6 DEF IInv

LEMMA StartOnFilesKeeps ==
  ASSUME IInv, StartOnFiles
  PROVE  IInv'
<1>0. TypeOK /\ WriteSound /\ StoresSound /\ WordsSound /\ (~StepsBack => ClockSound /\ SpendsSound)
  BY DEF IInv
<1>1. TypeOK'
  BY <1>0, StoresAssumption DEF TypeOK, Writes, Records, Statuses, StartOnFiles, stores, process, history
<1>2. WriteSound'
  BY <1>0, StoresAssumption DEF TypeOK, WriteSound, StartOnFiles, stores, process, history
<1>3. StoresSound'
  BY <1>0, StoresAssumption DEF TypeOK, StoresSound, Read, WriteSound, HalfWritten, WriteOf, Differ, ToRepair,
     ToCopy, StartOnFiles, stores, process, history
<1>4. WordsSound'
  BY <1>0, StoresAssumption DEF TypeOK, WordsSound, LastWord, StoresSound, WriteSound, HalfWritten, WriteOf,
     Differ, ToRepair, ToCopy, Undoes, StartOnFiles, stores, process, history
<1>5. ASSUME ~StepsBack PROVE ClockSound'
  BY <1>0, <1>5, StoresAssumption DEF TypeOK, ClockSound, WriteSound, Older, StoresSound, Records, Writes,
     Differ, ToRepair, ToCopy, StartOnFiles, stores, process, history
<1>6. ASSUME ~StepsBack PROVE SpendsSound'
  BY <1>0, <1>6, StoresAssumption DEF TypeOK, SpendsSound, Spent, WriteOf, ClockSound, WriteSound, StoresSound,
     Older, Differ, ToRepair, ToCopy, Undoes, Records, Writes, StartOnFiles, stores, process, history
<1>7. QED
  BY <1>1, <1>2, <1>3, <1>4, <1>5, <1>6 DEF IInv

LEMMA RepairKeeps ==
  ASSUME IInv, NEW a \in Approvals, Repair(a)
  PROVE  IInv'
<1>0. TypeOK /\ WriteSound /\ StoresSound /\ WordsSound /\ (~StepsBack => ClockSound /\ SpendsSound)
  BY DEF IInv
<1>1. TypeOK'
  BY <1>0, StoresAssumption DEF TypeOK, Writes, Records, Statuses, Repair, stores, process, history
<1>2. WriteSound'
  BY <1>0, StoresAssumption DEF TypeOK, WriteSound, Repair, stores, process, history
<1>3. StoresSound'
  BY <1>0, StoresAssumption DEF TypeOK, StoresSound, Read, WriteSound, HalfWritten, WriteOf, Differ, ToRepair,
     ToCopy, Repair, stores, process, history
<1>4. WordsSound'
  BY <1>0, StoresAssumption DEF TypeOK, WordsSound, LastWord, StoresSound, WriteSound, HalfWritten, WriteOf,
     Differ, ToRepair, ToCopy, Undoes, Repair, stores, process, history
<1>5. ASSUME ~StepsBack PROVE ClockSound'
  BY <1>0, <1>5, StoresAssumption DEF TypeOK, ClockSound, WriteSound, Older, StoresSound, Records, Writes,
     Differ, ToRepair, ToCopy, Repair, stores, process, history
<1>6. ASSUME ~StepsBack PROVE SpendsSound'
  BY <1>0, <1>6, StoresAssumption DEF TypeOK, SpendsSound, Spent, WriteOf, ClockSound, WriteSound, StoresSound,
     Older, Differ, ToRepair, ToCopy, Undoes, Records, Writes, Repair, stores, process, history
<1>7. QED
  BY <1>1, <1>2, <1>3, <1>4, <1>5, <1>6 DEF IInv

LEMMA RepairFailsKeeps ==
  ASSUME IInv, NEW a \in Approvals, RepairFails(a)
  PROVE  IInv'
<1>0. TypeOK /\ WriteSound /\ StoresSound /\ WordsSound /\ (~StepsBack => ClockSound /\ SpendsSound)
  BY DEF IInv
<1>1. TypeOK'
  BY <1>0, StoresAssumption DEF TypeOK, Writes, Records, Statuses, RepairFails, stores, process, history
<1>2. WriteSound'
  BY <1>0, StoresAssumption DEF TypeOK, WriteSound, RepairFails, stores, process, history
<1>3. StoresSound'
  BY <1>0, StoresAssumption DEF TypeOK, StoresSound, Read, WriteSound, HalfWritten, WriteOf, Differ, ToRepair,
     ToCopy, RepairFails, stores, process, history
<1>4. WordsSound'
  BY <1>0, StoresAssumption DEF TypeOK, WordsSound, LastWord, StoresSound, WriteSound, HalfWritten, WriteOf,
     Differ, ToRepair, ToCopy, Undoes, RepairFails, stores, process, history
<1>5. ASSUME ~StepsBack PROVE ClockSound'
  BY <1>0, <1>5, StoresAssumption DEF TypeOK, ClockSound, WriteSound, Older, StoresSound, Records, Writes,
     Differ, ToRepair, ToCopy, RepairFails, stores, process, history
<1>6. ASSUME ~StepsBack PROVE SpendsSound'
  BY <1>0, <1>6, StoresAssumption DEF TypeOK, SpendsSound, Spent, WriteOf, ClockSound, WriteSound, StoresSound,
     Older, Differ, ToRepair, ToCopy, Undoes, Records, Writes, RepairFails, stores, process, history
<1>7. QED
  BY <1>1, <1>2, <1>3, <1>4, <1>5, <1>6 DEF IInv

LEMMA RepairedKeeps ==
  ASSUME IInv, Repaired
  PROVE  IInv'
<1>0. TypeOK /\ WriteSound /\ StoresSound /\ WordsSound /\ (~StepsBack => ClockSound /\ SpendsSound)
  BY DEF IInv
<1>1. TypeOK'
  BY <1>0, StoresAssumption DEF TypeOK, Writes, Records, Statuses, Repaired, stores, process, history
<1>2. WriteSound'
  BY <1>0, StoresAssumption DEF TypeOK, WriteSound, Repaired, stores, process, history
<1>3. StoresSound'
  <2>1. \A a \in Approvals \ askew : file[a] # None /\ sqlite[a] # None => ~Undoes(sqlite[a], file[a])
    <3>1. ASSUME NEW a \in Approvals \ askew, file[a] # None, sqlite[a] # None, Undoes(sqlite[a], file[a])
          PROVE  FALSE
      <4>1. file[a] # sqlite[a]
        BY <3>1 DEF Undoes
      <4>2. QED
        BY <3>1, <4>1 DEF Repaired, ToRepair, Differ
    <3>2. QED
      BY <3>1
  <2>2. UNCHANGED <<file, sqlite, primary, askew, write, live>> /\ proc = "repairing" /\ proc' = "copying"
    BY DEF Repaired, stores
  <2>3. QED
    BY <1>0, <2>1, <2>2 DEF StoresSound, HalfWritten, WriteOf, Read
<1>4. WordsSound'
  BY <1>0, StoresAssumption DEF TypeOK, WordsSound, LastWord, StoresSound, WriteSound, HalfWritten, WriteOf,
     Differ, ToRepair, ToCopy, Undoes, Repaired, stores, process, history
<1>5. ASSUME ~StepsBack PROVE ClockSound'
  BY <1>0, <1>5, StoresAssumption DEF TypeOK, ClockSound, WriteSound, Older, StoresSound, Records, Writes,
     Differ, ToRepair, ToCopy, Repaired, stores, process, history
<1>6. ASSUME ~StepsBack PROVE SpendsSound'
  BY <1>0, <1>6, StoresAssumption DEF TypeOK, SpendsSound, Spent, WriteOf, ClockSound, WriteSound, StoresSound,
     Older, Differ, ToRepair, ToCopy, Undoes, Records, Writes, Repaired, stores, process, history
<1>7. QED
  BY <1>1, <1>2, <1>3, <1>4, <1>5, <1>6 DEF IInv

LEMMA CopyKeeps ==
  ASSUME IInv, NEW a \in Approvals, Copy(a)
  PROVE  IInv'
<1>0. TypeOK /\ WriteSound /\ StoresSound /\ WordsSound /\ (~StepsBack => ClockSound /\ SpendsSound)
  BY DEF IInv
<1>1. TypeOK'
  BY <1>0, StoresAssumption DEF TypeOK, Writes, Records, Statuses, Copy, stores, process, history
<1>2. WriteSound'
  BY <1>0, StoresAssumption DEF TypeOK, WriteSound, Copy, stores, process, history
<1>3. StoresSound'
  <2>1. /\ UNCHANGED <<file, primary, proc, askew, write, live>> /\ proc = "copying" /\ file[a] # None
        /\ sqlite' = [sqlite EXCEPT ![a] = file[a]]
    BY DEF Copy, process, ToCopy, Differ
  <2>2. sqlite'[a] = file[a] /\ \A b \in Approvals \ {a} : sqlite'[b] = sqlite[b]
    BY <1>0, <2>1 DEF TypeOK
  <2>3. ~Undoes(file[a], file[a])
    BY DEF Undoes
  <2>4. primary = "file" /\ live = {}
    BY <1>0, <2>1 DEF StoresSound, TypeOK
  <2>5. QED
    BY <1>0, <2>1, <2>2, <2>3, <2>4 DEF StoresSound
<1>4. WordsSound'
  BY <1>0, StoresAssumption DEF TypeOK, WordsSound, LastWord, StoresSound, WriteSound, HalfWritten, WriteOf,
     Differ, ToRepair, ToCopy, Undoes, Copy, stores, process, history
<1>5. ASSUME ~StepsBack PROVE ClockSound'
  BY <1>0, <1>5, StoresAssumption DEF TypeOK, ClockSound, WriteSound, Older, StoresSound, Records, Writes,
     Differ, ToRepair, ToCopy, Copy, stores, process, history
<1>6. ASSUME ~StepsBack PROVE SpendsSound'
  BY <1>0, <1>6, StoresAssumption DEF TypeOK, SpendsSound, Spent, WriteOf, ClockSound, WriteSound, StoresSound,
     Older, Differ, ToRepair, ToCopy, Undoes, Records, Writes, Copy, stores, process, history
<1>7. QED
  BY <1>1, <1>2, <1>3, <1>4, <1>5, <1>6 DEF IInv

LEMMA CaughtUpKeeps ==
  ASSUME IInv, CaughtUp
  PROVE  IInv'
<1>0. TypeOK /\ WriteSound /\ StoresSound /\ WordsSound /\ (~StepsBack => ClockSound /\ SpendsSound)
  BY DEF IInv
<1>1. TypeOK'
  BY <1>0, StoresAssumption DEF TypeOK, Writes, Records, Statuses, CaughtUp, stores, process, history
<1>2. WriteSound'
  BY <1>0, StoresAssumption DEF TypeOK, WriteSound, CaughtUp, stores, process, history
<1>3. StoresSound'
  BY <1>0, StoresAssumption DEF TypeOK, StoresSound, Read, WriteSound, HalfWritten, WriteOf, Differ, ToRepair,
     ToCopy, CaughtUp, stores, process, history
<1>4. WordsSound'
  BY <1>0, StoresAssumption DEF TypeOK, WordsSound, LastWord, StoresSound, WriteSound, HalfWritten, WriteOf,
     Differ, ToRepair, ToCopy, Undoes, CaughtUp, stores, process, history
<1>5. ASSUME ~StepsBack PROVE ClockSound'
  BY <1>0, <1>5, StoresAssumption DEF TypeOK, ClockSound, WriteSound, Older, StoresSound, Records, Writes,
     Differ, ToRepair, ToCopy, CaughtUp, stores, process, history
<1>6. ASSUME ~StepsBack PROVE SpendsSound'
  BY <1>0, <1>6, StoresAssumption DEF TypeOK, SpendsSound, Spent, WriteOf, ClockSound, WriteSound, StoresSound,
     Older, Differ, ToRepair, ToCopy, Undoes, Records, Writes, CaughtUp, stores, process, history
<1>7. QED
  BY <1>1, <1>2, <1>3, <1>4, <1>5, <1>6 DEF IInv

LEMMA CopyFailsKeeps ==
  ASSUME IInv, CopyFails
  PROVE  IInv'
<1>0. TypeOK /\ WriteSound /\ StoresSound /\ WordsSound /\ (~StepsBack => ClockSound /\ SpendsSound)
  BY DEF IInv
<1>1. TypeOK'
  BY <1>0, StoresAssumption DEF TypeOK, Writes, Records, Statuses, CopyFails, stores, process, history
<1>2. WriteSound'
  BY <1>0, StoresAssumption DEF TypeOK, WriteSound, CopyFails, stores, process, history
<1>3. StoresSound'
  BY <1>0, StoresAssumption DEF TypeOK, StoresSound, Read, WriteSound, HalfWritten, WriteOf, Differ, ToRepair,
     ToCopy, CopyFails, stores, process, history
<1>4. WordsSound'
  BY <1>0, StoresAssumption DEF TypeOK, WordsSound, LastWord, StoresSound, WriteSound, HalfWritten, WriteOf,
     Differ, ToRepair, ToCopy, Undoes, CopyFails, stores, process, history
<1>5. ASSUME ~StepsBack PROVE ClockSound'
  BY <1>0, <1>5, StoresAssumption DEF TypeOK, ClockSound, WriteSound, Older, StoresSound, Records, Writes,
     Differ, ToRepair, ToCopy, CopyFails, stores, process, history
<1>6. ASSUME ~StepsBack PROVE SpendsSound'
  BY <1>0, <1>6, StoresAssumption DEF TypeOK, SpendsSound, Spent, WriteOf, ClockSound, WriteSound, StoresSound,
     Older, Differ, ToRepair, ToCopy, Undoes, Records, Writes, CopyFails, stores, process, history
<1>7. QED
  BY <1>1, <1>2, <1>3, <1>4, <1>5, <1>6 DEF IInv

LEMMA BeginEffectKeeps ==
  ASSUME IInv, NEW a \in Approvals, BeginEffect(a)
  PROVE  IInv'
<1>0. TypeOK /\ WriteSound /\ StoresSound /\ WordsSound /\ (~StepsBack => ClockSound /\ SpendsSound)
  BY DEF IInv
<1>1. TypeOK'
  BY <1>0, StoresAssumption DEF TypeOK, Writes, Records, Statuses, BeginEffect, stores, process, history
<1>2. WriteSound'
  BY <1>0, StoresAssumption DEF TypeOK, WriteSound, BeginEffect, stores, process, history
<1>3. StoresSound'
  BY <1>0, StoresAssumption DEF TypeOK, StoresSound, Read, WriteSound, HalfWritten, WriteOf, Differ, ToRepair,
     ToCopy, BeginEffect, stores, process, history
<1>4. WordsSound'
  BY <1>0, StoresAssumption DEF TypeOK, WordsSound, LastWord, StoresSound, WriteSound, HalfWritten, WriteOf,
     Differ, ToRepair, ToCopy, Undoes, BeginEffect, stores, process, history
<1>5. ASSUME ~StepsBack PROVE ClockSound'
  BY <1>0, <1>5, StoresAssumption DEF TypeOK, ClockSound, WriteSound, Older, StoresSound, Records, Writes,
     Differ, ToRepair, ToCopy, BeginEffect, stores, process, history
<1>6. ASSUME ~StepsBack PROVE SpendsSound'
  BY <1>0, <1>6, StoresAssumption DEF TypeOK, SpendsSound, Spent, WriteOf, ClockSound, WriteSound, StoresSound,
     Older, Differ, ToRepair, ToCopy, Undoes, Records, Writes, BeginEffect, stores, process, history
<1>7. QED
  BY <1>1, <1>2, <1>3, <1>4, <1>5, <1>6 DEF IInv

LEMMA FileFailsKeeps ==
  ASSUME IInv, FileFails
  PROVE  IInv'
<1>0. TypeOK /\ WriteSound /\ StoresSound /\ WordsSound /\ (~StepsBack => ClockSound /\ SpendsSound)
  BY DEF IInv
<1>1. TypeOK'
  BY <1>0, StoresAssumption DEF TypeOK, Writes, Records, Statuses, FileFails, stores, process, history, Fails
<1>2. WriteSound'
  BY <1>0, StoresAssumption DEF TypeOK, WriteSound, FileFails, stores, process, history, Fails
<1>3. StoresSound'
  BY <1>0, StoresAssumption DEF TypeOK, StoresSound, Read, WriteSound, HalfWritten, WriteOf, Differ, ToRepair,
     ToCopy, FileFails, stores, process, history, Fails
<1>4. WordsSound'
  BY <1>0, StoresAssumption DEF TypeOK, WordsSound, LastWord, StoresSound, WriteSound, HalfWritten, WriteOf,
     Differ, ToRepair, ToCopy, Undoes, FileFails, stores, process, history, Fails
<1>5. ASSUME ~StepsBack PROVE ClockSound'
  BY <1>0, <1>5, StoresAssumption DEF TypeOK, ClockSound, WriteSound, Older, StoresSound, Records, Writes,
     Differ, ToRepair, ToCopy, FileFails, stores, process, history, Fails
<1>6. ASSUME ~StepsBack PROVE SpendsSound'
  BY <1>0, <1>6, StoresAssumption DEF TypeOK, SpendsSound, Spent, WriteOf, ClockSound, WriteSound, StoresSound,
     Older, Differ, ToRepair, ToCopy, Undoes, Records, Writes, FileFails, stores, process, history, Fails
<1>7. QED
  BY <1>1, <1>2, <1>3, <1>4, <1>5, <1>6 DEF IInv

LEMMA SqliteLandsKeeps ==
  ASSUME IInv, SqliteLands
  PROVE  IInv'
<1>0. TypeOK /\ WriteSound /\ StoresSound /\ WordsSound /\ (~StepsBack => ClockSound /\ SpendsSound)
  BY DEF IInv
<1>1. TypeOK'
  BY <1>0, StoresAssumption DEF TypeOK, Writes, Records, Statuses, SqliteLands, stores, process, history,
     Succeeds
<1>2. WriteSound'
  BY <1>0, StoresAssumption DEF TypeOK, WriteSound, SqliteLands, stores, process, history, Succeeds
<1>3. StoresSound'
  <2>1. /\ file[write.of] = write.rec /\ write.of \in Approvals /\ write.rec # None
        /\ primary = "sqlite" /\ proc = "running"
    BY <1>0, StoresAssumption DEF SqliteLands, WriteSound, TypeOK, Writes
  <2>2. /\ sqlite'[write.of] = write.rec /\ \A b \in Approvals \ {write.of} : sqlite'[b] = sqlite[b]
        /\ UNCHANGED <<file, primary, proc>> /\ askew' = askew \ {write.of}
        /\ live' \subseteq live \union {write.of}
    BY <1>0, <2>1 DEF SqliteLands, Succeeds, TypeOK
  <2>3. \A b \in live' : Read(b)' # None
    BY <1>0, <2>1, <2>2 DEF StoresSound, Read, TypeOK
  <2>4. \A b \in Approvals \ askew' : file'[b] = sqlite'[b]
    BY <1>0, <2>1, <2>2 DEF StoresSound, HalfWritten, WriteOf
  <2>5. QED
    BY <1>0, <2>1, <2>2, <2>3, <2>4 DEF StoresSound
<1>4. WordsSound'
  BY <1>0, StoresAssumption DEF TypeOK, WordsSound, LastWord, StoresSound, WriteSound, HalfWritten, WriteOf,
     Differ, ToRepair, ToCopy, Undoes, SqliteLands, stores, process, history, Succeeds
<1>5. ASSUME ~StepsBack PROVE ClockSound'
  BY <1>0, <1>5, StoresAssumption DEF TypeOK, ClockSound, WriteSound, Older, StoresSound, Records, Writes,
     Differ, ToRepair, ToCopy, SqliteLands, stores, process, history, Succeeds
<1>6. ASSUME ~StepsBack PROVE SpendsSound'
  BY <1>0, <1>6, StoresAssumption DEF TypeOK, SpendsSound, Spent, WriteOf, ClockSound, WriteSound, StoresSound,
     Older, Differ, ToRepair, ToCopy, Undoes, Records, Writes, SqliteLands, stores, process, history, Succeeds
<1>7. QED
  BY <1>1, <1>2, <1>3, <1>4, <1>5, <1>6 DEF IInv

LEMMA SqliteFailsKeeps ==
  ASSUME IInv, SqliteFails
  PROVE  IInv'
<1>0. TypeOK /\ WriteSound /\ StoresSound /\ WordsSound /\ (~StepsBack => ClockSound /\ SpendsSound)
  BY DEF IInv
<1>a. /\ write' # NoWrite /\ write # NoWrite /\ write'.of = write.of /\ write.step # "file" /\ write'.step # "file"
      /\ UNCHANGED <<file, sqlite, primary, proc, askew, live, told, loose>>
  BY <1>0, StoresAssumption DEF SqliteFails, TypeOK, Writes, stores, process, history
<1>1. TypeOK'
  BY <1>0, StoresAssumption DEF TypeOK, Writes, Records, Statuses, SqliteFails, stores, process, history
<1>2. WriteSound'
  BY <1>0, StoresAssumption DEF TypeOK, WriteSound, SqliteFails, stores, process, history
<1>3. StoresSound'
  BY <1>0, <1>a DEF StoresSound, HalfWritten, WriteOf, Read
<1>4. WordsSound'
  BY <1>0, <1>a DEF WordsSound, LastWord, HalfWritten, WriteOf
<1>5. ASSUME ~StepsBack PROVE ClockSound'
  BY <1>0, <1>5, StoresAssumption DEF TypeOK, ClockSound, WriteSound, Older, StoresSound, Records, Writes,
     Differ, ToRepair, ToCopy, SqliteFails, stores, process, history
<1>6. ASSUME ~StepsBack PROVE SpendsSound'
  BY <1>0, <1>6, StoresAssumption DEF TypeOK, SpendsSound, Spent, WriteOf, ClockSound, WriteSound, StoresSound,
     Older, Differ, ToRepair, ToCopy, Undoes, Records, Writes, SqliteFails, stores, process, history
<1>7. QED
  BY <1>1, <1>2, <1>3, <1>4, <1>5, <1>6 DEF IInv

LEMMA PutBackKeeps ==
  ASSUME IInv, PutBack
  PROVE  IInv'
<1>0. TypeOK /\ WriteSound /\ StoresSound /\ WordsSound /\ (~StepsBack => ClockSound /\ SpendsSound)
  BY DEF IInv
<1>1. TypeOK'
  BY <1>0, StoresAssumption DEF TypeOK, Writes, Records, Statuses, PutBack, stores, process, history, Fails
<1>2. WriteSound'
  BY <1>0, StoresAssumption DEF TypeOK, WriteSound, PutBack, stores, process, history, Fails
<1>3. StoresSound'
  BY <1>0, StoresAssumption DEF TypeOK, StoresSound, Read, WriteSound, HalfWritten, WriteOf, Differ, ToRepair,
     ToCopy, PutBack, stores, process, history, Fails
<1>4. WordsSound'
  BY <1>0, StoresAssumption DEF TypeOK, WordsSound, LastWord, StoresSound, WriteSound, HalfWritten, WriteOf,
     Differ, ToRepair, ToCopy, Undoes, PutBack, stores, process, history, Fails
<1>5. ASSUME ~StepsBack PROVE ClockSound'
  BY <1>0, <1>5, StoresAssumption DEF TypeOK, ClockSound, WriteSound, Older, StoresSound, Records, Writes,
     Differ, ToRepair, ToCopy, PutBack, stores, process, history, Fails
<1>6. ASSUME ~StepsBack PROVE SpendsSound'
  BY <1>0, <1>6, StoresAssumption DEF TypeOK, SpendsSound, Spent, WriteOf, ClockSound, WriteSound, StoresSound,
     Older, Differ, ToRepair, ToCopy, Undoes, Records, Writes, PutBack, stores, process, history, Fails
<1>7. QED
  BY <1>1, <1>2, <1>3, <1>4, <1>5, <1>6 DEF IInv

LEMMA PutBackFailsKeeps ==
  ASSUME IInv, PutBackFails
  PROVE  IInv'
<1>0. TypeOK /\ WriteSound /\ StoresSound /\ WordsSound /\ (~StepsBack => ClockSound /\ SpendsSound)
  BY DEF IInv
<1>1. TypeOK'
  BY <1>0, StoresAssumption DEF TypeOK, Writes, Records, Statuses, PutBackFails, stores, process, history,
     Fails, LeftBehind
<1>2. WriteSound'
  BY <1>0, StoresAssumption DEF TypeOK, WriteSound, PutBackFails, stores, process, history, Fails, LeftBehind
<1>3. StoresSound'
  BY <1>0, StoresAssumption DEF TypeOK, StoresSound, Read, WriteSound, HalfWritten, WriteOf, Differ, ToRepair,
     ToCopy, PutBackFails, stores, process, history, Fails, LeftBehind
<1>4. WordsSound'
  BY <1>0, StoresAssumption DEF TypeOK, WordsSound, LastWord, StoresSound, WriteSound, HalfWritten, WriteOf,
     Differ, ToRepair, ToCopy, Undoes, PutBackFails, stores, process, history, Fails, LeftBehind
<1>5. ASSUME ~StepsBack PROVE ClockSound'
  BY <1>0, <1>5, StoresAssumption DEF TypeOK, ClockSound, WriteSound, Older, StoresSound, Records, Writes,
     Differ, ToRepair, ToCopy, PutBackFails, stores, process, history, Fails, LeftBehind
<1>6. ASSUME ~StepsBack PROVE SpendsSound'
  BY <1>0, <1>6, StoresAssumption DEF TypeOK, SpendsSound, Spent, WriteOf, ClockSound, WriteSound, StoresSound,
     Older, Differ, ToRepair, ToCopy, Undoes, Records, Writes, PutBackFails, stores, process, history, Fails,
     LeftBehind
<1>7. QED
  BY <1>1, <1>2, <1>3, <1>4, <1>5, <1>6 DEF IInv

LEMMA TickKeeps ==
  ASSUME IInv, Tick
  PROVE  IInv'
<1>0. TypeOK /\ WriteSound /\ StoresSound /\ WordsSound /\ (~StepsBack => ClockSound /\ SpendsSound)
  BY DEF IInv
<1>1. TypeOK'
  BY <1>0, StoresAssumption DEF TypeOK, Writes, Records, Statuses, Tick, stores, process, history
<1>2. WriteSound'
  BY <1>0, StoresAssumption DEF TypeOK, WriteSound, Tick, stores, process, history
<1>3. StoresSound'
  BY <1>0, StoresAssumption DEF TypeOK, StoresSound, Read, WriteSound, HalfWritten, WriteOf, Differ, ToRepair,
     ToCopy, Tick, stores, process, history
<1>4. WordsSound'
  BY <1>0, StoresAssumption DEF TypeOK, WordsSound, LastWord, StoresSound, WriteSound, HalfWritten, WriteOf,
     Differ, ToRepair, ToCopy, Undoes, Tick, stores, process, history
<1>5. ASSUME ~StepsBack PROVE ClockSound'
  BY <1>0, <1>5, StoresAssumption DEF TypeOK, ClockSound, WriteSound, Older, StoresSound, Records, Writes,
     Differ, ToRepair, ToCopy, Tick, stores, process, history
<1>6. ASSUME ~StepsBack PROVE SpendsSound'
  BY <1>0, <1>6, StoresAssumption DEF TypeOK, SpendsSound, Spent, WriteOf, ClockSound, WriteSound, StoresSound,
     Older, Differ, ToRepair, ToCopy, Undoes, Records, Writes, Tick, stores, process, history
<1>7. QED
  BY <1>1, <1>2, <1>3, <1>4, <1>5, <1>6 DEF IInv

LEMMA CrashKeeps ==
  ASSUME IInv, Crash
  PROVE  IInv'
<1>0. TypeOK /\ WriteSound /\ StoresSound /\ WordsSound /\ (~StepsBack => ClockSound /\ SpendsSound)
  BY DEF IInv
<1>1. TypeOK'
  BY <1>0, StoresAssumption DEF TypeOK, Writes, Records, Statuses, Crash, stores, process, history, LeftBehind,
     Stamps
<1>2. WriteSound'
  BY <1>0, StoresAssumption DEF TypeOK, WriteSound, Crash, stores, process, history, LeftBehind, Stamps
<1>3. StoresSound'
  BY <1>0, StoresAssumption DEF TypeOK, StoresSound, Read, WriteSound, HalfWritten, WriteOf, Differ, ToRepair,
     ToCopy, Crash, stores, process, history, LeftBehind, Stamps
<1>4. WordsSound'
  BY <1>0, StoresAssumption DEF TypeOK, WordsSound, LastWord, StoresSound, WriteSound, HalfWritten, WriteOf,
     Differ, ToRepair, ToCopy, Undoes, Crash, stores, process, history, LeftBehind, Stamps
<1>5. ASSUME ~StepsBack PROVE ClockSound'
  BY <1>0, <1>5, StoresAssumption DEF TypeOK, ClockSound, WriteSound, Older, StoresSound, Records, Writes,
     Differ, ToRepair, ToCopy, Crash, stores, process, history, LeftBehind, Stamps
<1>6. ASSUME ~StepsBack PROVE SpendsSound'
  BY <1>0, <1>6, StoresAssumption DEF TypeOK, SpendsSound, Spent, WriteOf, ClockSound, WriteSound, StoresSound,
     Older, Differ, ToRepair, ToCopy, Undoes, Records, Writes, Crash, stores, process, history, LeftBehind,
     Stamps
<1>7. QED
  BY <1>1, <1>2, <1>3, <1>4, <1>5, <1>6 DEF IInv

\* A write of any kind begins.
LEMMA BeginKeeps ==
  ASSUME IInv, NEW a \in Approvals, NEW status \in Statuses, NEW at \in Nat, Idle, Begin(a, status, at),
         ~StepsBack => a \notin begun,
         status = "executed" => at = now
  PROVE  IInv'
<1>0. TypeOK /\ WriteSound /\ StoresSound /\ WordsSound /\ (~StepsBack => ClockSound /\ SpendsSound)
  BY DEF IInv
<1>a. /\ write' \in Writes /\ write' # NoWrite
      /\ write'.of = a /\ write'.rec.status = status /\ write'.rec.at = at
      /\ write'.before = sqlite[a] /\ write'.step = "file"
  BY <1>0, StoresAssumption DEF TypeOK, Begin, Writes, Records
<1>b. write = NoWrite /\ proc = "running" /\ UNCHANGED <<stores, process, now, live, history>>
  BY DEF Idle, Begin
<1>1. TypeOK'
  BY <1>0, <1>a, <1>b DEF TypeOK, stores, process, history
<1>2. WriteSound'
  BY <1>0, <1>a, <1>b DEF WriteSound, stores, process
<1>3. StoresSound'
  BY <1>0, <1>a, <1>b DEF StoresSound, HalfWritten, WriteOf, Read, stores, process
<1>4. WordsSound'
  BY <1>0, <1>a, <1>b DEF WordsSound, LastWord, HalfWritten, WriteOf, stores, process, history
<1>5. ASSUME ~StepsBack PROVE ClockSound'
  BY <1>0, <1>5, <1>a, <1>b DEF ClockSound, Older, stores, process
<1>6. ASSUME ~StepsBack PROVE SpendsSound'
  BY <1>0, <1>6, <1>a, <1>b DEF SpendsSound, Spent, WriteOf, stores, process, history
<1>7. QED
  BY <1>1, <1>2, <1>3, <1>4, <1>5, <1>6 DEF IInv

\* Nothing is written of an approval whose action has begun.
LEMMA ChangesKeep ==
  ASSUME IInv, NEW a \in Approvals,
         \/ Create(a)
         \/ \E verdict \in {"approved", "rejected"} : Decide(a, verdict) \/ GiveBack(a, verdict)
         \/ Claim(a)
  PROVE  IInv'
<1>0. TypeOK /\ (~StepsBack => SpendsSound) /\ StoresSound
  BY DEF IInv
<1>1. ~StepsBack /\ a \in begun =>
        file[a] # None /\ Read(a) # None /\ Read(a).status = "executed" /\ a \notin live
  BY <1>0 DEF SpendsSound, Spent, Read, TypeOK
<1>2. Read(a) # None => Read(a).at \in Nat
  BY <1>0, StoresAssumption DEF TypeOK, Read, Records
<1>3. \A at \in Nat : LaterThan(at) \in Nat
  BY <1>0, StoresAssumption DEF TypeOK, LaterThan
<1>4. now \in Nat
  BY <1>0, StoresAssumption DEF TypeOK
<1>5. CASE Create(a)
  BY <1>1, <1>4, <1>5, BeginKeeps DEF Create, Statuses
<1>6. CASE \E verdict \in {"approved", "rejected"} : Decide(a, verdict)
  BY <1>1, <1>2, <1>3, <1>6, BeginKeeps DEF Decide, Statuses
<1>7. CASE \E verdict \in {"approved", "rejected"} : GiveBack(a, verdict)
  <2>1. PICK verdict \in {"approved", "rejected"} : GiveBack(a, verdict)
    BY <1>7
  <2>2. ~StepsBack => a \notin begun
    BY <1>1, <2>1 DEF GiveBack
  <2>3. LaterThan(Read(a).at) \in Nat
    BY <1>0, <1>2, <1>3, <2>1 DEF StoresSound, GiveBack
  <2>4. QED
    BY <2>1, <2>2, <2>3, BeginKeeps DEF GiveBack, Statuses
<1>8. CASE Claim(a)
  BY <1>1, <1>4, <1>8, BeginKeeps DEF Claim, Statuses
<1>9. QED
  BY <1>5, <1>6, <1>7, <1>8

LEMMA FileLandsKeeps ==
  ASSUME IInv, FileLands
  PROVE  IInv'
<1>0. TypeOK /\ WriteSound /\ StoresSound /\ WordsSound /\ (~StepsBack => ClockSound /\ SpendsSound)
  BY DEF IInv
<1>a. write \in Writes /\ write.of \in Approvals /\ write.rec \in Records /\ write.step = "file" /\ write # NoWrite
  BY <1>0 DEF FileLands, TypeOK, Writes
<1>b. file' = [file EXCEPT ![write.of] = write.rec] /\ UNCHANGED <<sqlite, primary, proc, now, begun>>
  BY DEF FileLands
<1>c. write.rec # None /\ proc = "running"
  BY <1>0, <1>a, StoresAssumption DEF WriteSound
<1>d. /\ primary = "file" => Succeeds
      /\ primary = "sqlite" => write' = [write EXCEPT !.step = "sqlite"] /\ UNCHANGED <<told, loose, live, askew>>
      /\ primary \in {"file", "sqlite"}
  BY <1>0 DEF FileLands, TypeOK
<1>8. CASE primary = "file"
  <2>0. Succeeds
    BY <1>8, <1>d
  <2>1. TypeOK'
    BY <1>0, <1>a, <1>b, <2>0 DEF TypeOK, Succeeds
  <2>2. WriteSound' /\ StoresSound'
    BY <1>0, <1>8, <1>a, <1>b, <1>c, <2>0 DEF TypeOK, Succeeds, WriteSound, StoresSound, Read
  <2>3. WordsSound'
    BY <1>0, <1>8, <1>a, <1>b, <2>0 DEF TypeOK, Succeeds, WordsSound, LastWord, HalfWritten, WriteOf
  <2>4. ASSUME ~StepsBack PROVE ClockSound'
    BY <1>0, <1>8, <1>b, <1>c, <2>0, <2>4 DEF Succeeds, ClockSound
  <2>5. ASSUME ~StepsBack PROVE SpendsSound'
    <3>1. ClockSound /\ SpendsSound
      BY <1>0, <2>5
    <3>2. write.of \notin begun
      BY <3>1, <1>a DEF SpendsSound, WriteOf
    <3>3. \A b \in Approvals \ {write.of} : Spent(b) => Spent(b)'
      BY <1>0, <1>b DEF Spent, TypeOK
    <3>4. ASSUME NEW b \in Approvals, b = write.of, write.rec.status = "executed"
          PROVE  Spent(b)'
      <4>1. file'[b] = write.rec /\ sqlite'[b] = sqlite[b] /\ primary' = "file"
        BY <1>0, <1>8, <1>b, <3>4 DEF TypeOK
      <4>2. sqlite[b] # None => sqlite[b].at < write.rec.at
        BY <1>8, <1>a, <3>1, <3>4 DEF ClockSound, Older
      <4>3. sqlite[b] # None => sqlite[b].at \in Nat
        BY <1>0, <3>4, StoresAssumption DEF TypeOK, Records
      <4>4. write.rec.at \in Nat
        BY <1>a, StoresAssumption DEF Records
      <4>5. sqlite[b] # None => ~Undoes(sqlite[b], write.rec)
        BY <3>4, <4>2, <4>3, <4>4, NotUndone
      <4>6. QED
        BY <1>c, <3>4, <4>1, <4>5 DEF Spent
    <3>5. /\ \A b \in live' : b = write.of => write.rec.status = "executed"
          /\ \A b \in live' : b # write.of => b \in live
          /\ write' = NoWrite
      BY <2>0 DEF Succeeds
    <3>6. ASSUME NEW b \in live'
          PROVE  Spent(b)'
      <4>1. CASE b = write.of
        BY <1>a, <3>4, <3>5, <3>6, <4>1
      <4>2. CASE b # write.of
        <5>1. b \in live /\ b \in Approvals
          BY <1>0, <3>5, <3>6, <4>2 DEF TypeOK
        <5>2. Spent(b)
          BY <3>1, <4>2, <5>1 DEF SpendsSound, WriteOf
        <5>3. QED
          BY <3>3, <4>2, <5>1, <5>2
      <4>3. QED
        BY <4>1, <4>2
    <3>7. \A b \in begun' : Spent(b)' /\ b \notin live'
      BY <1>0, <1>b, <3>1, <3>2, <3>3, <3>5 DEF SpendsSound, TypeOK
    <3>8. QED
      BY <1>b, <1>c, <3>5, <3>6, <3>7 DEF SpendsSound, WriteOf
  <2>6. QED
    BY <2>1, <2>2, <2>3, <2>4, <2>5 DEF IInv
<1>9. CASE primary = "sqlite"
  <2>0. /\ write' \in Writes /\ write' # NoWrite /\ write'.of = write.of /\ write'.rec = write.rec
        /\ write'.before = write.before /\ write'.step = "sqlite"
        /\ UNCHANGED <<told, loose, live, askew>>
    BY <1>9, <1>a, <1>d, StoresAssumption DEF Writes
  <2>1. TypeOK'
    BY <1>0, <1>a, <1>b, <2>0 DEF TypeOK
  <2>2. WriteSound'
    BY <1>0, <1>9, <1>a, <1>b, <1>c, <2>0 DEF TypeOK, WriteSound
  <2>3. StoresSound'
    BY <1>0, <1>9, <1>a, <1>b, <1>c, <2>0 DEF TypeOK, StoresSound, HalfWritten, WriteOf, Read
  <2>4. WordsSound'
    BY <1>0, <1>9, <1>a, <1>b, <2>0 DEF TypeOK, WordsSound, LastWord, HalfWritten, WriteOf
  <2>5. ASSUME ~StepsBack PROVE ClockSound'
    BY <1>0, <1>9, <1>b, <1>c, <2>0, <2>5 DEF ClockSound
  <2>6. ASSUME ~StepsBack PROVE SpendsSound'
    <3>1. SpendsSound
      BY <1>0, <2>6
    <3>2. \A b \in Approvals \ {write.of} : Spent(b) => Spent(b)'
      BY <1>0, <1>b DEF Spent, TypeOK
    <3>3. \A b \in Approvals : WriteOf(b)' <=> WriteOf(b)
      BY <1>a, <2>0 DEF WriteOf
    <3>4. QED
      BY <1>0, <1>a, <1>b, <1>c, <2>0, <3>1, <3>2, <3>3 DEF SpendsSound, TypeOK, WriteOf
  <2>7. QED
    BY <2>1, <2>2, <2>3, <2>4, <2>5, <2>6 DEF IInv
<1>10. QED
  BY <1>8, <1>9, <1>d

LEMMA UnchangedKeeps ==
  ASSUME IInv, UNCHANGED vars
  PROVE  IInv'
<1>0. UNCHANGED <<file, sqlite, primary, proc, askew, write, now, told, loose, live, begun>>
  BY DEF vars, stores, process, history
<1>1. TypeOK' /\ WriteSound' /\ StoresSound' /\ WordsSound'
  BY <1>0 DEF IInv, TypeOK, WriteSound, StoresSound, WordsSound, LastWord, HalfWritten, WriteOf, Read
<1>2. ~StepsBack => ClockSound' /\ SpendsSound'
  BY <1>0 DEF IInv, ClockSound, SpendsSound, Spent, Older, WriteOf
<1>3. QED
  BY <1>1, <1>2 DEF IInv

LEMMA InvStep ==
  ASSUME IInv, [Next]_vars
  PROVE  IInv'
<1>1. CASE Starting
  BY <1>1, StartOnBothKeeps, StartOnFilesKeeps, RepairKeeps, RepairFailsKeeps, RepairedKeeps, CopyKeeps,
     CaughtUpKeeps, CopyFailsKeeps
     DEF Starting
<1>2. ASSUME NEW a \in Approvals, Changing(a)
      PROVE  IInv'
  BY <1>2, ChangesKeep, BeginEffectKeeps DEF Changing
<1>3. CASE Writing
  BY <1>3, FileLandsKeeps, FileFailsKeeps, SqliteLandsKeeps, SqliteFailsKeeps, PutBackKeeps, PutBackFailsKeeps
     DEF Writing
<1>4. QED
  BY <1>1, <1>2, <1>3, TickKeeps, CrashKeeps, UnchangedKeeps DEF Next

\* The inductive invariant holds throughout: who wrote what where (_write, _catch_sqlite_up), what callers were
\* told of it and, while the clock is not set back, how the time stamps order it.
THEOREM Invariance == Spec => []IInv
  BY InvInit, InvStep, PTL DEF Spec

\* Every variable keeps its type; the stamps stay within the clock's bound.
THEOREM TypesHold == Spec => []TypeOK
<1>1. IInv => TypeOK
  BY DEF IInv
<1>2. QED
  BY <1>1, Invariance, PTL

\* A process on SQLite leaves the files saying the same, or has logged which record it could not put
\* back, for any sequence of failures and crashes, whatever the clock does.
THEOREM StoresDoAgree == Spec => []StoresAgree
<1>1. IInv => StoresAgree
  BY DEF IInv, StoresSound, StoresAgree, Idle, HalfWritten, WriteOf
<1>2. QED
  BY <1>1, Invariance, PTL

\* A caller reads the last write it was told of, or a final one, or one that was cut off.
THEOREM LastWordsAreRead == Spec => []ReadsTheLastWord
<1>1. IInv => ReadsTheLastWord
  BY DEF IInv, WordsSound, LastWord, ReadsTheLastWord, Idle, HalfWritten, WriteOf, Read, TypeOK
<1>2. QED
  BY <1>1, Invariance, PTL

\* An approval whose action has begun reads executed in every process after, for as long as the clock
\* is never set back while the process is down.
THEOREM SpendsAreKept ==
  ASSUME ~StepsBack
  PROVE  Spec => []SpendIsKept
<1>1. IInv => SpendIsKept
  BY DEF IInv, SpendsSound, Spent, SpendIsKept, Read, TypeOK
<1>2. QED
  BY <1>1, Invariance, PTL

\* A start that has read SQLite never runs on files that undo one of its final records.
THEOREM FallBacksAreRepaired == Spec => FallBackIsRepaired
<1>1. IInv /\ [Next]_vars =>
        [proc = "copying" /\ proc' = "running" /\ primary' = "file" =>
           \A a \in Approvals : file[a] # None /\ sqlite[a] # None => ~Undoes(sqlite[a], file[a])]_vars
  <2> SUFFICES ASSUME IInv, Next, proc = "copying", proc' = "running", primary' = "file"
               PROVE  \A a \in Approvals : file[a] # None /\ sqlite[a] # None => ~Undoes(sqlite[a], file[a])
    OBVIOUS
  <2>1. StoresSound /\ WriteSound
    BY DEF IInv
  <2>2. askew = {}
    BY <2>1 DEF Next, Starting, Changing, Writing, StartOnBoth, StartOnFiles, Repair, RepairFails, Repaired,
       Copy,
       CaughtUp, CopyFails, Create, Decide, Claim, GiveBack, Idle, BeginEffect, FileLands, FileFails, SqliteLands,
       SqliteFails, PutBack, PutBackFails, Tick, Crash, process, WriteSound
  <2>3. QED
    BY <2>1, <2>2 DEF StoresSound
<1>2. QED
  BY <1>1, Invariance, PTL DEF Spec, FallBackIsRepaired
=============================================================================
