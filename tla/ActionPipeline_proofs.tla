----------------------- MODULE ActionPipeline_proofs -----------------------
(* Theorems about ActionPipeline, for every set of actions, uploads and takeovers. *)
EXTENDS ActionPipeline, TLAPS

StepNames == {"reading", "blocking", "failing", "failingRetryable", "interrupted", "queued", "entered",
              "prepared", "operating", "challenged", "recording", "ended"}

LEMMA Steps ==
  /\ DOMAIN Said = {"reading", "blocking", "failing", "failingRetryable", "interrupted"}
  /\ DOMAIN Said \union {"queued", "entered", "prepared", "operating", "challenged", "recording", "ended"} = StepNames
  /\ \A step \in DOMAIN Said : /\ Said[step] \in {"ok", "blocked", "failed", "retryable", "error"}
                               /\ Said[step] = "retryable" => step = "failingRetryable"
  BY DEF Said, StepNames

\* TypeOK in two: what each variable holds, and who holds the lock.
Scalars ==
  /\ lock \in Actions \union {Close, Nobody}
  /\ registered \in BOOLEAN
  /\ at \in [Actions -> DOMAIN Said \union {"queued", "entered", "prepared", "operating", "challenged",
                                          "recording", "ended"}]
  /\ began \in [Actions -> BOOLEAN] /\ transferred \in [Actions -> BOOLEAN]
  /\ block \in [Actions -> BOOLEAN] /\ touched \in [Actions -> BOOLEAN]
  /\ answer \in [Actions -> {"none", "ok", "blocked", "failed", "retryable", "error", "cancelled", "gone"}]
  /\ pending \in Recorders \union {NoRecord}
  /\ record \in [Recorders -> [at : {"none", "waiting", "writing", "written", "failed"},
                              prev : Recorders \union {NoRecord}]]
  /\ close \in [at : {"none", "waiting", "tearing down", "writing", "closed"}, locked : BOOLEAN]
  /\ order \in Seq(Recorders)
  /\ passed \subseteq Recorders \union {Close}

LockSound ==
  /\ \A a \in Actions : at[a] \notin {"queued", "ended"} <=> lock = a
  /\ lock = Close <=> close.locked /\ close.at \notin {"none", "closed"}

LEMMA TypeParts == TypeOK <=> Scalars /\ LockSound
  BY DEF TypeOK, Scalars, LockSound

\* What a step of one action leaves another.
Alone(a) ==
  \A b \in Actions \ {a} :
    /\ at'[b] = at[b] /\ answer'[b] = answer[b]
    /\ began'[b] = began[b] /\ transferred'[b] = transferred[b]
    /\ block'[b] = block[b] /\ touched'[b] = touched[b]

LEMMA Frame ==
  ASSUME IInv, NEW a \in Actions, Alone(a), Scalars', LockSound', ChainSound', RecordsInOrder', CloseSound',
         ActionSound(a)', \A b \in Actions \ {a} : Begun(b)' <=> Begun(b)
  PROVE  IInv'
<1>1. ASSUME NEW b \in Actions \ {a}
      PROVE  ActionSound(b)'
  <2>1. ActionSound(b)
    BY <1>1 DEF IInv
  <2>2. QED
    BY <1>1, <2>1 DEF ActionSound, Owed, Alone
<1>2. TypeOK'
  BY DEF TypeOK, Scalars, LockSound
<1>3. QED
  BY <1>1, <1>2 DEF IInv

\* An action moves on with the lock, gives it back as it ends, or takes it when it is free.
LEMMA LockKept ==
  ASSUME TypeOK, NEW a \in Actions, Alone(a), close' = close,
         \/ at[a] \notin {"queued", "ended"} /\ at'[a] \notin {"queued", "ended"} /\ lock' = lock
         \/ at'[a] = "ended" /\ lock' = IF lock = a THEN Nobody ELSE lock
         \/ at'[a] \notin {"queued", "ended"} /\ lock = Nobody /\ lock' = a
  PROVE  LockSound'
<1>0. LockSound
  BY TypeParts
<1>1. ASSUME NEW b \in Actions
      PROVE  at'[b] \notin {"queued", "ended"} <=> lock' = b
  <2>1. CASE b = a
    BY <1>0, <2>1, PipelineAssumption DEF LockSound
  <2>2. CASE b # a
    BY <1>0, <1>1, <2>2, PipelineAssumption DEF LockSound, Alone
  <2>3. QED
    BY <2>1, <2>2
<1>2. lock' = Close <=> lock = Close
  BY <1>0, PipelineAssumption DEF LockSound
<1>3. QED
  BY <1>0, <1>1, <1>2 DEF LockSound

\* A close that holds the lock, or held it, meets no action at work.
LEMMA CloseKept ==
  ASSUME IInv, NEW a \in Actions, Alone(a), UNCHANGED <<recordVars, close, registered>>, passed \subseteq passed',
         close.locked /\ close.at # "none" => at'[a] \in {"queued", "ended"}
  PROVE  CloseSound'
<1>0. CloseSound
  BY DEF IInv
<1>1. close' = close /\ registered' = registered /\ record' = record
  BY DEF recordVars
<1>2. close'.at \in {"writing", "closed"} => ~registered'
  <2>1. close.at \in {"writing", "closed"} => ~registered
    BY <1>0 DEF CloseSound
  <2>2. registered \in BOOLEAN
    BY DEF IInv, TypeOK
  <2>3. QED
    BY <1>1, <2>1, <2>2
<1>3. close'.locked /\ close'.at # "none" => \A b \in Actions : at'[b] \in {"queued", "ended"}
  BY <1>0, <1>1 DEF CloseSound, Alone
<1>4. (close'.locked /\ close'.at \in {"tearing down", "writing", "closed"} /\ passed' = {}) =>
        \A b \in Actions : ~Unfinished(b)'
  BY <1>0, <1>1 DEF CloseSound, Unfinished
<1>5. QED
  BY <1>2, <1>3, <1>4 DEF CloseSound

\* A step that leaves the records alone.
LEMMA QuietChain ==
  ASSUME IInv, UNCHANGED recordVars, passed \subseteq passed'
  PROVE  ChainSound' /\ RecordsInOrder' /\ \A w \in Recorders : Begun(w)' <=> Begun(w)
<1>1. UNCHANGED <<pending, record, order>>
  BY DEF recordVars
<1>2. ChainSound' /\ \A w \in Recorders : Begun(w)' <=> Begun(w)
  BY <1>1 DEF IInv, ChainSound, Begun, Over
<1>3. RecordsInOrder'
  BY <1>1 DEF IInv, RecordsInOrder, Unfinished
<1>4. QED
  BY <1>2, <1>3

\* A record begun goes to the end of the chain, waiting for the last unless that is over.
LEMMA BeginChain ==
  ASSUME IInv, NEW w \in Recorders, record[w].at = "none", BeginRecord(w), passed' = passed
  PROVE  /\ ChainSound' /\ RecordsInOrder'
         /\ \A v \in Recorders : Begun(v)' <=> Begun(v) \/ v = w
<1>0. TypeOK /\ ChainSound /\ RecordsInOrder
  BY DEF IInv
<1> DEFINE n == Len(order)
<1>a. order \in Seq(Recorders) /\ order' = Append(order, w)
  BY <1>0 DEF TypeOK, BeginRecord
<1>1. /\ n \in Nat /\ order \in Seq(Recorders)
      /\ Len(order') = n + 1 /\ order'[n + 1] = w /\ \A i \in 1..n : order'[i] = order[i]
  BY <1>a
<1>2. \A i \in 1..n : order[i] \in Recorders
  BY <1>1
<1>3. /\ record'[w].at = "waiting" /\ record'[w].prev = pending /\ pending' = w
      /\ \A v \in Recorders \ {w} : record'[v] = record[v]
  BY <1>0 DEF TypeOK, BeginRecord
<1>4. ~Begun(w)
  BY <1>0 DEF ChainSound
<1>5. \A i \in 1..n : order[i] # w
  BY <1>4 DEF Begun
<1> HIDE DEF n
<1>6. \A v \in Recorders : Begun(v)' <=> Begun(v) \/ v = w
  BY <1>1 DEF Begun, n
<1>7. \A i, k \in 1..Len(order') : order'[i] = order'[k] => i = k
  BY <1>0, <1>1, <1>5 DEF ChainSound, n
<1>8. \A v \in Recorders : record'[v].at # "none" <=> Begun(v)'
  BY <1>0, <1>3, <1>6 DEF ChainSound
<1>9. ASSUME NEW i \in 1..Len(order'), i > 1
      PROVE  record'[order'[i]].prev = order'[i - 1] \/ record'[order'[i - 1]].at \in {"written", "failed"}
  <2>1. CASE i = n + 1
    <3>1. n \in 1..n /\ order'[i] = w /\ order'[i - 1] = order[n] /\ order[n] # w /\ order[n] \in Recorders
      BY <1>1, <1>2, <1>5, <1>9, <2>1
    <3>2. pending = order[n] \/ Over(order[n])
      BY <1>0, <1>1, <3>1 DEF ChainSound, n
    <3>3. Over(order[n]) => record'[order[n]].at \in {"written", "failed"}
      BY <1>3, <3>1 DEF Over
    <3>4. QED
      BY <1>3, <3>1, <3>2, <3>3
  <2>2. CASE i # n + 1
    <3>1. i \in 1..n /\ i - 1 \in 1..n
      BY <1>1, <1>9, <2>2
    <3>2. record[order[i]].prev = order[i - 1] \/ Over(order[i - 1])
      BY <1>0, <1>9, <3>1 DEF ChainSound, n
    <3>3. order'[i] = order[i] /\ order'[i - 1] = order[i - 1] /\ order[i] # w /\ order[i - 1] # w
      BY <1>1, <1>5, <3>1
    <3>4. record'[order[i]] = record[order[i]] /\ record'[order[i - 1]] = record[order[i - 1]]
      BY <1>2, <1>3, <3>1, <3>3
    <3>5. QED
      BY <3>2, <3>3, <3>4 DEF Over
  <2>3. QED
    BY <2>1, <2>2
<1>10. pending' # NoRecord /\ Len(order') > 0 /\ pending' = order'[Len(order')]
  BY <1>1, <1>3, PipelineAssumption
<1>11. ChainSound'
  BY <1>7, <1>8, <1>9, <1>10 DEF ChainSound, Over
<1>12. ASSUME NEW i \in 1..Len(order'), NEW j \in 1..Len(order'), i < j,
              record'[order'[i]].at \in {"waiting", "writing"}, record'[order'[j]].at # "waiting"
       PROVE  \E k \in (i + 1)..j : order'[k] \in passed'
  <2>1. j # n + 1
    BY <1>1, <1>3, <1>12
  <2>2. i \in 1..n /\ j \in 1..n
    BY <1>1, <1>12, <2>1
  <2>3. order'[i] = order[i] /\ order'[j] = order[j] /\ record'[order[i]] = record[order[i]]
        /\ record'[order[j]] = record[order[j]]
    BY <1>1, <1>2, <1>3, <1>5, <2>2
  <2>4. Unfinished(order[i]) /\ record[order[j]].at # "waiting"
    BY <1>12, <2>3 DEF Unfinished
  <2>a. PICK k \in (i + 1)..j : order[k] \in passed
    BY <1>0, <1>12, <2>2, <2>4 DEF RecordsInOrder, n
  <2>5. k \in 1..n
    BY <1>1, <2>2
  <2>6. QED
    BY <1>1, <2>5, <2>a
<1>13. RecordsInOrder'
  BY <1>12 DEF RecordsInOrder, Unfinished
<1>14. QED
  BY <1>6, <1>11, <1>13

LEMMA InvInit == Init => IInv
<1> SUFFICES ASSUME Init
             PROVE  IInv
  OBVIOUS
<1>1. Scalars
  BY Steps DEF Init, Scalars
<1>2. LockSound
  BY PipelineAssumption DEF Init, LockSound
<1>3. ChainSound /\ RecordsInOrder /\ \A w \in Recorders : ~Begun(w)
  BY DEF Init, ChainSound, RecordsInOrder, Begun
<1>4. CloseSound
  BY DEF Init, CloseSound
<1>5. \A a \in Actions : ActionSound(a)
  BY <1>3 DEF Init, ActionSound, Owed, Recorders
<1>6. QED
  BY <1>1, <1>2, <1>3, <1>4, <1>5, TypeParts DEF IInv


LEMMA EnterKeeps ==
  ASSUME IInv, NEW a \in Actions, Enter(a)
  PROVE  IInv'
<1>0. TypeOK /\ CloseSound /\ ActionSound(a)
  BY DEF IInv
<1>1. UNCHANGED <<recordVars, close, registered>> /\ passed \subseteq passed'
  BY DEF Enter
<1>2. ChainSound' /\ RecordsInOrder' /\ \A w \in Recorders : Begun(w)' <=> Begun(w)
  BY <1>1, QuietChain
<1>3. Scalars'
  BY <1>0, <1>1, Steps DEF Scalars, TypeOK, Enter, actionVars, Step, End, MayRun, recordVars
<1>4. Alone(a)
  BY <1>0 DEF TypeOK, Alone, Enter, actionVars, Step, End, MayRun
<1>5. \/ at'[a] = "ended" /\ lock' = IF lock = a THEN Nobody ELSE lock
      \/ registered /\ at'[a] \notin {"queued", "ended"} /\ lock = Nobody /\ lock' = a
  BY <1>0 DEF TypeOK, Enter, MayRun, Step, End
<1>6. LockSound'
  BY <1>0, <1>1, <1>4, <1>5, LockKept
<1>7. ActionSound(a)'
  BY <1>0, <1>2, Steps DEF Recorders, TypeOK, ActionSound, Owed, Enter, actionVars, Step, End, MayRun
<1>8. CloseSound'
  <2>1. CASE at'[a] = "ended"
    BY <1>1, <1>4, <2>1, CloseKept
  <2>2. CASE registered /\ lock = Nobody
    <3>1. close.at \notin {"writing", "closed"}
      BY <1>0, <2>2 DEF CloseSound
    <3>2. ~(close.locked /\ close.at \notin {"none", "closed"})
      BY <1>0, <2>2, PipelineAssumption DEF TypeOK
    <3>3. ~(close.locked /\ close.at # "none")
      BY <3>1, <3>2
    <3>4. QED
      BY <1>1, <1>4, <3>3, CloseKept
  <2>3. QED
    BY <1>5, <2>1, <2>2
<1>9. QED
  BY <1>2, <1>3, <1>4, <1>6, <1>7, <1>8, Frame DEF Recorders

LEMMA PrepareKeeps ==
  ASSUME IInv, NEW a \in Actions, Prepare(a)
  PROVE  IInv'
<1>0. TypeOK /\ CloseSound /\ ActionSound(a)
  BY DEF IInv
<1>1. UNCHANGED <<recordVars, close, registered>> /\ passed \subseteq passed'
  BY DEF Prepare, WaitEnds
<1>2. ChainSound' /\ RecordsInOrder' /\ \A w \in Recorders : Begun(w)' <=> Begun(w)
  BY <1>1, QuietChain
<1>3. Scalars'
  <2>1. passed' \subseteq Recorders \union {Close}
    BY <1>0 DEF TypeOK, Prepare, WaitEnds, Recorders
  <2>2. at' \in [Actions -> DOMAIN Said \union {"queued", "entered", "prepared", "operating", "challenged",
                                              "recording", "ended"}]
    BY <1>0 DEF TypeOK, Prepare, Step, End
  <2>3. /\ lock' \in Actions \union {Close, Nobody}
        /\ answer' \in [Actions -> {"none", "ok", "blocked", "failed", "retryable", "error", "cancelled", "gone"}]
    BY <1>0 DEF TypeOK, Prepare, End
  <2>4. UNCHANGED <<registered, began, transferred, block, touched, pending, record, order, close>>
    BY <1>1 DEF Prepare, actionVars, recordVars
  <2>5. QED
    BY <1>0, <2>1, <2>2, <2>3, <2>4 DEF Scalars, TypeOK
<1>4. Alone(a)
  BY <1>0 DEF TypeOK, Alone, Prepare, actionVars, Step, End, WaitEnds
<1>5. \/ at[a] \notin {"queued", "ended"} /\ at'[a] \notin {"queued", "ended"} /\ lock' = lock
      \/ at'[a] = "ended" /\ lock' = IF lock = a THEN Nobody ELSE lock
  BY <1>0 DEF TypeOK, Prepare, Step, End
<1>6. LockSound'
  BY <1>0, <1>1, <1>4, <1>5, LockKept
<1>7. ActionSound(a)'
  BY <1>0, <1>2, Steps DEF Recorders, TypeOK, ActionSound, Owed, Prepare, actionVars, Step, End, WaitEnds
<1>8. CloseSound'
  BY <1>0, <1>1, <1>4, <1>5, CloseKept DEF CloseSound
<1>9. QED
  BY <1>2, <1>3, <1>4, <1>6, <1>7, <1>8, Frame DEF Recorders

LEMMA CancelEarlyKeeps ==
  ASSUME IInv, NEW a \in Actions, CancelEarly(a)
  PROVE  IInv'
<1>0. TypeOK /\ CloseSound /\ ActionSound(a)
  BY DEF IInv
<1>1. UNCHANGED <<recordVars, close, registered>> /\ passed \subseteq passed'
  BY DEF CancelEarly
<1>2. ChainSound' /\ RecordsInOrder' /\ \A w \in Recorders : Begun(w)' <=> Begun(w)
  BY <1>1, QuietChain
<1>3. Scalars'
  BY <1>0, <1>1, Steps DEF Scalars, TypeOK, CancelEarly, actionVars, Step, End, recordVars
<1>4. Alone(a)
  BY <1>0 DEF TypeOK, Alone, CancelEarly, actionVars, Step, End
<1>5. at'[a] = "ended" /\ lock' = IF lock = a THEN Nobody ELSE lock
  BY <1>0 DEF TypeOK, CancelEarly, Step, End
<1>6. LockSound'
  BY <1>0, <1>1, <1>4, <1>5, LockKept
<1>7. ActionSound(a)'
  BY <1>0, <1>2, Steps DEF Recorders, TypeOK, ActionSound, Owed, CancelEarly, actionVars, Step, End
<1>8. CloseSound'
  BY <1>0, <1>1, <1>4, <1>5, CloseKept DEF CloseSound
<1>9. QED
  BY <1>2, <1>3, <1>4, <1>6, <1>7, <1>8, Frame DEF Recorders

LEMMA RefuseKeeps ==
  ASSUME IInv, NEW a \in Actions, Refuse(a)
  PROVE  IInv'
<1>0. TypeOK /\ CloseSound /\ ActionSound(a)
  BY DEF IInv
<1>1. UNCHANGED <<recordVars, close, registered>> /\ passed \subseteq passed'
  BY DEF Refuse
<1>2. ChainSound' /\ RecordsInOrder' /\ \A w \in Recorders : Begun(w)' <=> Begun(w)
  BY <1>1, QuietChain
<1>3. Scalars'
  BY <1>0, <1>1, Steps DEF Scalars, TypeOK, Refuse, actionVars, Step, recordVars
<1>4. Alone(a)
  BY <1>0 DEF TypeOK, Alone, Refuse, actionVars, Step
<1>5. at[a] \notin {"queued", "ended"} /\ at'[a] \notin {"queued", "ended"} /\ lock' = lock
  BY <1>0 DEF TypeOK, Refuse, Step
<1>6. LockSound'
  BY <1>0, <1>1, <1>4, <1>5, LockKept
<1>7. ActionSound(a)'
  BY <1>0, <1>2, Steps DEF Recorders, TypeOK, ActionSound, Owed, Refuse, actionVars, Step
<1>8. CloseSound'
  BY <1>0, <1>1, <1>4, <1>5, CloseKept DEF CloseSound
<1>9. QED
  BY <1>2, <1>3, <1>4, <1>6, <1>7, <1>8, Frame DEF Recorders

LEMMA FailEarlyKeeps ==
  ASSUME IInv, NEW a \in Actions, FailEarly(a)
  PROVE  IInv'
<1>0. TypeOK /\ CloseSound /\ ActionSound(a)
  BY DEF IInv
<1>1. UNCHANGED <<recordVars, close, registered>> /\ passed \subseteq passed'
  BY DEF FailEarly
<1>2. ChainSound' /\ RecordsInOrder' /\ \A w \in Recorders : Begun(w)' <=> Begun(w)
  BY <1>1, QuietChain
<1>3. Scalars'
  BY <1>0, <1>1, Steps DEF Scalars, TypeOK, FailEarly, actionVars, Step, recordVars
<1>4. Alone(a)
  BY <1>0 DEF TypeOK, Alone, FailEarly, actionVars, Step
<1>5. at[a] \notin {"queued", "ended"} /\ at'[a] \notin {"queued", "ended"} /\ lock' = lock
  BY <1>0 DEF TypeOK, FailEarly, Step
<1>6. LockSound'
  BY <1>0, <1>1, <1>4, <1>5, LockKept
<1>7. ActionSound(a)'
  BY <1>0, <1>2, Steps DEF Recorders, TypeOK, ActionSound, Owed, FailEarly, actionVars, Step
<1>8. CloseSound'
  BY <1>0, <1>1, <1>4, <1>5, CloseKept DEF CloseSound
<1>9. QED
  BY <1>2, <1>3, <1>4, <1>6, <1>7, <1>8, Frame DEF Recorders

LEMMA StartOperationKeeps ==
  ASSUME IInv, NEW a \in Actions, StartOperation(a)
  PROVE  IInv'
<1>0. TypeOK /\ CloseSound /\ ActionSound(a)
  BY DEF IInv
<1>1. UNCHANGED <<recordVars, close, registered>> /\ passed \subseteq passed'
  BY DEF StartOperation
<1>2. ChainSound' /\ RecordsInOrder' /\ \A w \in Recorders : Begun(w)' <=> Begun(w)
  BY <1>1, QuietChain
<1>3. Scalars'
  BY <1>0, <1>1, Steps DEF Scalars, TypeOK, StartOperation, actionVars, Step, recordVars
<1>4. Alone(a)
  BY <1>0 DEF TypeOK, Alone, StartOperation, actionVars, Step
<1>5. at[a] \notin {"queued", "ended"} /\ at'[a] \notin {"queued", "ended"} /\ lock' = lock
  BY <1>0 DEF TypeOK, StartOperation, Step
<1>6. LockSound'
  BY <1>0, <1>1, <1>4, <1>5, LockKept
<1>7. ActionSound(a)'
  BY <1>0, <1>2, Steps DEF Recorders, TypeOK, ActionSound, Owed, StartOperation, actionVars, Step
<1>8. CloseSound'
  BY <1>0, <1>1, <1>4, <1>5, CloseKept DEF CloseSound
<1>9. QED
  BY <1>2, <1>3, <1>4, <1>6, <1>7, <1>8, Frame DEF Recorders

LEMMA BeginTransferKeeps ==
  ASSUME IInv, NEW a \in Actions, BeginTransfer(a)
  PROVE  IInv'
<1>0. TypeOK /\ CloseSound /\ ActionSound(a)
  BY DEF IInv
<1>1. UNCHANGED <<recordVars, close, registered>> /\ passed \subseteq passed'
  BY DEF BeginTransfer
<1>2. ChainSound' /\ RecordsInOrder' /\ \A w \in Recorders : Begun(w)' <=> Begun(w)
  BY <1>1, QuietChain
<1>3. Scalars'
  BY <1>0, <1>1, Steps DEF Scalars, TypeOK, BeginTransfer, actionVars, recordVars
<1>4. Alone(a)
  BY <1>0 DEF TypeOK, Alone, BeginTransfer, actionVars
<1>5. at[a] \notin {"queued", "ended"} /\ at'[a] \notin {"queued", "ended"} /\ lock' = lock
  BY <1>0 DEF TypeOK, BeginTransfer
<1>6. LockSound'
  BY <1>0, <1>1, <1>4, <1>5, LockKept
<1>7. ActionSound(a)'
  BY <1>0, <1>2, Steps DEF Recorders, TypeOK, ActionSound, Owed, BeginTransfer, actionVars
<1>8. CloseSound'
  BY <1>0, <1>1, <1>4, <1>5, CloseKept DEF CloseSound
<1>9. QED
  BY <1>2, <1>3, <1>4, <1>6, <1>7, <1>8, Frame DEF Recorders

LEMMA TouchKeeps ==
  ASSUME IInv, NEW a \in Actions, Touch(a)
  PROVE  IInv'
<1>0. TypeOK /\ CloseSound /\ ActionSound(a)
  BY DEF IInv
<1>1. UNCHANGED <<recordVars, close, registered>> /\ passed \subseteq passed'
  BY DEF Touch
<1>2. ChainSound' /\ RecordsInOrder' /\ \A w \in Recorders : Begun(w)' <=> Begun(w)
  BY <1>1, QuietChain
<1>3. Scalars'
  <2>1. transferred' \in [Actions -> BOOLEAN]
    <3>1. CASE transferred' = transferred
      BY <1>0, <3>1 DEF TypeOK
    <3>2. CASE transferred' = [transferred EXCEPT ![a] = a \in Uploads]
      <4>1. (a \in Uploads) \in BOOLEAN
        OBVIOUS
      <4>2. transferred \in [Actions -> BOOLEAN]
        BY <1>0 DEF TypeOK
      <4>3. QED
        BY <3>2, <4>1, <4>2, Zenon
    <3>3. QED
      BY <3>1, <3>2 DEF Touch
  <2>2. touched' \in [Actions -> BOOLEAN]
    BY <1>0 DEF TypeOK, Touch
  <2>3. UNCHANGED <<lock, at, registered, began, block, answer, pending, record, order, close, passed>>
    BY DEF Touch, recordVars
  <2>4. QED
    BY <1>0, <2>1, <2>2, <2>3 DEF Scalars, TypeOK
<1>4. Alone(a)
  BY <1>0 DEF TypeOK, Alone, Touch, actionVars
<1>5. at[a] \notin {"queued", "ended"} /\ at'[a] \notin {"queued", "ended"} /\ lock' = lock
  BY <1>0 DEF TypeOK, Touch
<1>6. LockSound'
  BY <1>0, <1>1, <1>4, <1>5, LockKept
<1>7. ActionSound(a)'
  BY <1>0, <1>2, Steps DEF Recorders, TypeOK, ActionSound, Owed, Touch, actionVars
<1>8. CloseSound'
  BY <1>0, <1>1, <1>4, <1>5, CloseKept DEF CloseSound
<1>9. QED
  BY <1>2, <1>3, <1>4, <1>6, <1>7, <1>8, Frame DEF Recorders

LEMMA ReturnKeeps ==
  ASSUME IInv, NEW a \in Actions, Return(a)
  PROVE  IInv'
<1>0. TypeOK /\ CloseSound /\ ActionSound(a)
  BY DEF IInv
<1>1. UNCHANGED <<recordVars, close, registered>> /\ passed \subseteq passed'
  BY DEF Return
<1>2. ChainSound' /\ RecordsInOrder' /\ \A w \in Recorders : Begun(w)' <=> Begun(w)
  BY <1>1, QuietChain
<1>3. Scalars'
  BY <1>0, <1>1, Steps DEF Scalars, TypeOK, Return, actionVars, Step, recordVars
<1>4. Alone(a)
  BY <1>0 DEF TypeOK, Alone, Return, actionVars, Step
<1>5. at[a] \notin {"queued", "ended"} /\ at'[a] \notin {"queued", "ended"} /\ lock' = lock
  BY <1>0 DEF TypeOK, Return, Step
<1>6. LockSound'
  BY <1>0, <1>1, <1>4, <1>5, LockKept
<1>7. ActionSound(a)'
  BY <1>0, <1>2, Steps DEF Recorders, TypeOK, ActionSound, Owed, Return, actionVars, Step
<1>8. CloseSound'
  BY <1>0, <1>1, <1>4, <1>5, CloseKept DEF CloseSound
<1>9. QED
  BY <1>2, <1>3, <1>4, <1>6, <1>7, <1>8, Frame DEF Recorders

LEMMA BlockAfterKeeps ==
  ASSUME IInv, NEW a \in Actions, BlockAfter(a)
  PROVE  IInv'
<1>0. TypeOK /\ CloseSound /\ ActionSound(a)
  BY DEF IInv
<1>1. UNCHANGED <<recordVars, close, registered>> /\ passed \subseteq passed'
  BY DEF BlockAfter
<1>2. ChainSound' /\ RecordsInOrder' /\ \A w \in Recorders : Begun(w)' <=> Begun(w)
  BY <1>1, QuietChain
<1>3. Scalars'
  BY <1>0, <1>1, Steps DEF Scalars, TypeOK, BlockAfter, actionVars, Step, recordVars
<1>4. Alone(a)
  BY <1>0 DEF TypeOK, Alone, BlockAfter, actionVars, Step
<1>5. at[a] \notin {"queued", "ended"} /\ at'[a] \notin {"queued", "ended"} /\ lock' = lock
  BY <1>0 DEF TypeOK, BlockAfter, Step
<1>6. LockSound'
  BY <1>0, <1>1, <1>4, <1>5, LockKept
<1>7. ActionSound(a)'
  BY <1>0, <1>2, Steps DEF Recorders, TypeOK, ActionSound, Owed, BlockAfter, actionVars, Step
<1>8. CloseSound'
  BY <1>0, <1>1, <1>4, <1>5, CloseKept DEF CloseSound
<1>9. QED
  BY <1>2, <1>3, <1>4, <1>6, <1>7, <1>8, Frame DEF Recorders

LEMMA FailKeeps ==
  ASSUME IInv, NEW a \in Actions, Fail(a)
  PROVE  IInv'
<1>0. TypeOK /\ CloseSound /\ ActionSound(a)
  BY DEF IInv
<1>1. UNCHANGED <<recordVars, close, registered>> /\ passed \subseteq passed'
  BY DEF Fail
<1>2. ChainSound' /\ RecordsInOrder' /\ \A w \in Recorders : Begun(w)' <=> Begun(w)
  BY <1>1, QuietChain
<1>3. Scalars'
  <2>1. at' \in [Actions -> DOMAIN Said \union {"queued", "entered", "prepared", "operating", "challenged",
                                              "recording", "ended"}]
    <3>1. PICK next \in {FailedRetryable(a), "failing"} : at' = [at EXCEPT ![a] = next]
      BY DEF Fail, Step
    <3>2. next \in DOMAIN Said
      BY <3>1, Steps DEF FailedRetryable
    <3>3. QED
      BY <1>0, <3>1, <3>2 DEF TypeOK
  <2>2. UNCHANGED <<lock, registered, began, transferred, block, touched, answer, pending, record, order, close,
                  passed>>
    BY DEF Fail, actionVars, recordVars
  <2>3. QED
    BY <1>0, <2>1, <2>2 DEF Scalars, TypeOK
<1>4. Alone(a)
  BY <1>0 DEF TypeOK, Alone, Fail, actionVars, Step, FailedRetryable
<1>5. at[a] \notin {"queued", "ended"} /\ at'[a] \notin {"queued", "ended"} /\ lock' = lock
  BY <1>0 DEF TypeOK, Fail, Step, FailedRetryable
<1>6. LockSound'
  BY <1>0, <1>1, <1>4, <1>5, LockKept
<1>7. ActionSound(a)'
  BY <1>0, <1>2, Steps DEF Recorders, TypeOK, ActionSound, Owed, Fail, actionVars, Step, FailedRetryable
<1>8. CloseSound'
  BY <1>0, <1>1, <1>4, <1>5, CloseKept DEF CloseSound
<1>9. QED
  BY <1>2, <1>3, <1>4, <1>6, <1>7, <1>8, Frame DEF Recorders

LEMMA ChallengedKeeps ==
  ASSUME IInv, NEW a \in Actions, Challenged(a)
  PROVE  IInv'
<1>0. TypeOK /\ CloseSound /\ ActionSound(a)
  BY DEF IInv
<1>1. UNCHANGED <<recordVars, close, registered>> /\ passed \subseteq passed'
  BY DEF Challenged
<1>2. ChainSound' /\ RecordsInOrder' /\ \A w \in Recorders : Begun(w)' <=> Begun(w)
  BY <1>1, QuietChain
<1>3. Scalars'
  BY <1>0, <1>1, Steps DEF Scalars, TypeOK, Challenged, actionVars, Step, recordVars
<1>4. Alone(a)
  BY <1>0 DEF TypeOK, Alone, Challenged, actionVars, Step
<1>5. at[a] \notin {"queued", "ended"} /\ at'[a] \notin {"queued", "ended"} /\ lock' = lock
  BY <1>0 DEF TypeOK, Challenged, Step
<1>6. LockSound'
  BY <1>0, <1>1, <1>4, <1>5, LockKept
<1>7. ActionSound(a)'
  BY <1>0, <1>2, Steps DEF Recorders, TypeOK, ActionSound, Owed, Challenged, actionVars, Step
<1>8. CloseSound'
  BY <1>0, <1>1, <1>4, <1>5, CloseKept DEF CloseSound
<1>9. QED
  BY <1>2, <1>3, <1>4, <1>6, <1>7, <1>8, Frame DEF Recorders

LEMMA InterruptKeeps ==
  ASSUME IInv, NEW a \in Actions, Interrupt(a)
  PROVE  IInv'
<1>0. TypeOK /\ CloseSound /\ ActionSound(a)
  BY DEF IInv
<1>1. UNCHANGED <<recordVars, close, registered>> /\ passed \subseteq passed'
  BY DEF Interrupt
<1>2. ChainSound' /\ RecordsInOrder' /\ \A w \in Recorders : Begun(w)' <=> Begun(w)
  BY <1>1, QuietChain
<1>3. Scalars'
  BY <1>0, <1>1, Steps DEF Scalars, TypeOK, Interrupt, actionVars, Step, recordVars
<1>4. Alone(a)
  BY <1>0 DEF TypeOK, Alone, Interrupt, actionVars, Step
<1>5. at[a] \notin {"queued", "ended"} /\ at'[a] \notin {"queued", "ended"} /\ lock' = lock
  BY <1>0 DEF TypeOK, Interrupt, Step
<1>6. LockSound'
  BY <1>0, <1>1, <1>4, <1>5, LockKept
<1>7. ActionSound(a)'
  BY <1>0, <1>2, Steps DEF Recorders, TypeOK, ActionSound, Owed, Interrupt, actionVars, Step
<1>8. CloseSound'
  BY <1>0, <1>1, <1>4, <1>5, CloseKept DEF CloseSound
<1>9. QED
  BY <1>2, <1>3, <1>4, <1>6, <1>7, <1>8, Frame DEF Recorders

LEMMA RecordedKeeps ==
  ASSUME IInv, NEW a \in Actions, Recorded(a)
  PROVE  IInv'
<1>0. TypeOK /\ CloseSound /\ ActionSound(a)
  BY DEF IInv
<1>1. UNCHANGED <<recordVars, close, registered>> /\ passed \subseteq passed'
  BY DEF Recorded
<1>2. ChainSound' /\ RecordsInOrder' /\ \A w \in Recorders : Begun(w)' <=> Begun(w)
  BY <1>1, QuietChain
<1>3. Scalars'
  <2>1. PICK said \in {answer[a], "error"} : End(a, said)
    BY DEF Recorded
  <2>2. /\ lock' \in Actions \union {Close, Nobody}
        /\ at' \in [Actions -> DOMAIN Said \union {"queued", "entered", "prepared", "operating", "challenged",
                                                "recording", "ended"}]
        /\ answer' \in [Actions -> {"none", "ok", "blocked", "failed", "retryable", "error", "cancelled", "gone"}]
    BY <1>0, <2>1 DEF TypeOK, End, Step
  <2>3. UNCHANGED <<registered, began, transferred, block, touched, pending, record, order, close, passed>>
    BY DEF Recorded, actionVars, recordVars
  <2>4. QED
    BY <1>0, <2>2, <2>3 DEF Scalars, TypeOK
<1>4. Alone(a)
  BY <1>0 DEF TypeOK, Alone, Recorded, actionVars, Step, End
<1>5. at'[a] = "ended" /\ lock' = IF lock = a THEN Nobody ELSE lock
  BY <1>0 DEF TypeOK, Recorded, Step, End
<1>6. LockSound'
  BY <1>0, <1>1, <1>4, <1>5, LockKept
<1>7. ActionSound(a)'
  <2>1. at[a] = "recording" /\ at'[a] = "ended" /\ (answer'[a] = answer[a] \/ answer'[a] = "error")
    BY <1>0 DEF TypeOK, Recorded, End, Step
  <2>2. UNCHANGED <<began, transferred, block, touched>>
    BY DEF Recorded, actionVars
  <2>3. Begun(a)' <=> Begun(a)
    BY <1>2 DEF Recorders
  <2>4. QED
    BY <1>0, <2>1, <2>2, <2>3 DEF ActionSound, Owed
<1>8. CloseSound'
  BY <1>0, <1>1, <1>4, <1>5, CloseKept DEF CloseSound
<1>9. QED
  BY <1>2, <1>3, <1>4, <1>6, <1>7, <1>8, Frame DEF Recorders

LEMMA CancelRecordingKeeps ==
  ASSUME IInv, NEW a \in Actions, CancelRecording(a)
  PROVE  IInv'
<1>0. TypeOK /\ CloseSound /\ ActionSound(a)
  BY DEF IInv
<1>1. UNCHANGED <<recordVars, close, registered>> /\ passed \subseteq passed'
  BY DEF CancelRecording
<1>2. ChainSound' /\ RecordsInOrder' /\ \A w \in Recorders : Begun(w)' <=> Begun(w)
  BY <1>1, QuietChain
<1>3. Scalars'
  BY <1>0, <1>1, Steps DEF Scalars, TypeOK, CancelRecording, actionVars, Step, End, recordVars
<1>4. Alone(a)
  BY <1>0 DEF TypeOK, Alone, CancelRecording, actionVars, Step, End
<1>5. at'[a] = "ended" /\ lock' = IF lock = a THEN Nobody ELSE lock
  BY <1>0 DEF TypeOK, CancelRecording, Step, End
<1>6. LockSound'
  BY <1>0, <1>1, <1>4, <1>5, LockKept
<1>7. ActionSound(a)'
  BY <1>0, <1>2, Steps DEF Recorders, TypeOK, ActionSound, Owed, CancelRecording, actionVars, Step, End
<1>8. CloseSound'
  BY <1>0, <1>1, <1>4, <1>5, CloseKept DEF CloseSound
<1>9. QED
  BY <1>2, <1>3, <1>4, <1>6, <1>7, <1>8, Frame DEF Recorders

LEMMA RaiseEarlyKeeps ==
  ASSUME IInv, NEW a \in Actions, RaiseEarly(a)
  PROVE  IInv'
<1>0. TypeOK /\ CloseSound /\ ActionSound(a)
  BY DEF IInv
<1>1. UNCHANGED <<recordVars, close, registered>> /\ passed \subseteq passed'
  BY DEF RaiseEarly
<1>2. ChainSound' /\ RecordsInOrder' /\ \A w \in Recorders : Begun(w)' <=> Begun(w)
  BY <1>1, QuietChain
<1>3. Scalars'
  <2>1. PICK said \in {"error", "cancelled"} : End(a, said)
    BY DEF RaiseEarly
  <2>2. /\ lock' \in Actions \union {Close, Nobody}
        /\ at' \in [Actions -> DOMAIN Said \union {"queued", "entered", "prepared", "operating", "challenged",
                                                "recording", "ended"}]
        /\ answer' \in [Actions -> {"none", "ok", "blocked", "failed", "retryable", "error", "cancelled", "gone"}]
    BY <1>0, <2>1 DEF TypeOK, End, Step
  <2>3. UNCHANGED <<registered, began, transferred, block, touched, pending, record, order, close, passed>>
    BY DEF RaiseEarly, actionVars, recordVars
  <2>4. QED
    BY <1>0, <2>2, <2>3 DEF Scalars, TypeOK
<1>4. Alone(a)
  BY <1>0 DEF TypeOK, Alone, RaiseEarly, actionVars, Step, End
<1>5. at'[a] = "ended" /\ lock' = IF lock = a THEN Nobody ELSE lock
  BY <1>0 DEF TypeOK, RaiseEarly, Step, End
<1>6. LockSound'
  BY <1>0, <1>1, <1>4, <1>5, LockKept
<1>7. ActionSound(a)'
  BY <1>0, <1>2, Steps DEF Recorders, TypeOK, ActionSound, Owed, RaiseEarly, actionVars, Step, End
<1>8. CloseSound'
  BY <1>0, <1>1, <1>4, <1>5, CloseKept DEF CloseSound
<1>9. QED
  BY <1>2, <1>3, <1>4, <1>6, <1>7, <1>8, Frame DEF Recorders

\* The steps that begin a record: an action's own, and the takeovers'.
LEMMA RecordKeeps ==
  ASSUME IInv, NEW a \in Actions, Record(a)
  PROVE  IInv'
<1>0. TypeOK /\ CloseSound /\ ActionSound(a) /\ ChainSound
  BY DEF IInv
<1>a. at[a] \in DOMAIN Said /\ at[a] \notin {"queued", "ended", "recording"} /\ a \in Recorders
  BY Steps DEF Record, Recorders
<1>1. record[a].at = "none"
  BY <1>0, <1>a DEF ActionSound, ChainSound
<1>2. ChainSound' /\ RecordsInOrder' /\ \A v \in Recorders : Begun(v)' <=> Begun(v) \/ v = a
  BY <1>1, <1>a, BeginChain DEF Record
<1>3. Scalars'
  <2>1. /\ record' \in [Recorders -> [at : {"none", "waiting", "writing", "written", "failed"},
                                      prev : Recorders \union {NoRecord}]]
        /\ pending' \in Recorders \union {NoRecord} /\ order' \in Seq(Recorders)
    <3>1. record' = [record EXCEPT ![a] = [at |-> "waiting", prev |-> pending]] /\ pending' = a
          /\ order' = Append(order, a)
      BY DEF Record, BeginRecord
    <3>2. /\ record \in [Recorders -> [at : {"none", "waiting", "writing", "written", "failed"},
                                        prev : Recorders \union {NoRecord}]]
          /\ pending \in Recorders \union {NoRecord} /\ order \in Seq(Recorders)
      BY <1>0 DEF TypeOK
    <3>3. QED
      BY <1>a, <3>1, <3>2
  <2>2. Said[at[a]] \in {"none", "ok", "blocked", "failed", "retryable", "error", "cancelled", "gone"}
    BY <1>a, Steps
  <2>3. QED
    BY <1>0, <2>1, <2>2 DEF Scalars, TypeOK, Record, Step, actionVars
<1>4. LockSound'
  BY <1>0, <1>a DEF LockSound, TypeOK, Record, Step
<1>5. Alone(a)
  BY <1>0 DEF TypeOK, Alone, Record, Step, actionVars
<1>6. ActionSound(a)'
  <2>1. /\ at'[a] = "recording" /\ Begun(a)' /\ answer'[a] = Said[at[a]]
        /\ UNCHANGED <<began, transferred, block, touched>>
    BY <1>0, <1>2, <1>a DEF TypeOK, Record, Step, actionVars
  <2>2. answer'[a] = "retryable" => ~transferred[a]
    BY <1>0, <1>a, <2>1, Steps DEF ActionSound
  <2>3. QED
    BY <1>0, <2>1, <2>2 DEF ActionSound, Owed
<1>7. CloseSound'
  BY <1>0, <1>a DEF CloseSound, Record
<1>8. QED
  BY <1>2, <1>3, <1>4, <1>5, <1>6, <1>7, Frame DEF Recorders

LEMMA TakeoverRecord ==
  ASSUME IInv, NEW t \in Takeovers, record[t].at = "none", BeginRecord(t), passed' = passed,
         UNCHANGED <<close, registered>>
  PROVE  /\ ChainSound' /\ RecordsInOrder' /\ \A b \in Actions : Begun(b)' <=> Begun(b)
         /\ record' \in [Recorders -> [at : {"none", "waiting", "writing", "written", "failed"},
                                       prev : Recorders \union {NoRecord}]]
         /\ pending' \in Recorders \union {NoRecord} /\ order' \in Seq(Recorders)
         /\ \A b \in Actions : record'[b] = record[b]
<1>0. t \in Recorders /\ t \notin Actions /\ Actions \subseteq Recorders
  BY PipelineAssumption DEF Recorders
<1>1. ChainSound' /\ RecordsInOrder' /\ \A b \in Actions : Begun(b)' <=> Begun(b)
  BY <1>0, BeginChain
<1>2. TypeOK
  BY DEF IInv
<1>3. record' = [record EXCEPT ![t] = [at |-> "waiting", prev |-> pending]] /\ pending' = t
      /\ order' = Append(order, t)
  BY DEF BeginRecord
<1>4. /\ record \in [Recorders -> [at : {"none", "waiting", "writing", "written", "failed"},
                                    prev : Recorders \union {NoRecord}]]
      /\ pending \in Recorders \union {NoRecord} /\ order \in Seq(Recorders)
  BY <1>2 DEF TypeOK
<1>5. QED
  BY <1>0, <1>1, <1>3, <1>4

LEMMA ChallengeKeeps ==
  ASSUME IInv, NEW a \in Actions, NEW t \in Takeovers, Challenge(a, t)
  PROVE  IInv'
<1>0. TypeOK /\ CloseSound /\ ActionSound(a)
  BY DEF IInv
<1>1. record[t].at = "none" /\ BeginRecord(t) /\ UNCHANGED <<close, registered, lock, answer, actionVars, passed>>
  BY DEF Challenge
<1>2. /\ ChainSound' /\ RecordsInOrder' /\ \A b \in Actions : Begun(b)' <=> Begun(b)
      /\ record' \in [Recorders -> [at : {"none", "waiting", "writing", "written", "failed"},
                                    prev : Recorders \union {NoRecord}]]
      /\ pending' \in Recorders \union {NoRecord} /\ order' \in Seq(Recorders)
      /\ \A b \in Actions : record'[b] = record[b]
  BY <1>1, TakeoverRecord
<1>3. at[a] = "operating" /\ at' = [at EXCEPT ![a] = "challenged"]
  BY DEF Challenge, Step
<1>4. Scalars'
  BY <1>0, <1>1, <1>2, <1>3, Steps DEF Scalars, TypeOK, actionVars
<1>5. LockSound'
  BY <1>0, <1>1, <1>3 DEF LockSound, TypeOK
<1>6. Alone(a)
  BY <1>0, <1>1, <1>3 DEF TypeOK, Alone, actionVars
<1>7. ActionSound(a)'
  BY <1>0, <1>1, <1>2, <1>3 DEF TypeOK, ActionSound, Owed, actionVars
<1>8. CloseSound'
  BY <1>0, <1>1, <1>3 DEF CloseSound
<1>9. QED
  BY <1>2, <1>4, <1>5, <1>6, <1>7, <1>8, Frame

\* A step of nobody's action is sound for all.
LEMMA Apart ==
  ASSUME IInv, UNCHANGED <<at, answer, actionVars>>, Scalars', LockSound', ChainSound', RecordsInOrder', CloseSound',
         \A a \in Actions : Begun(a)' <=> Begun(a)
  PROVE  IInv'
<1>1. ASSUME NEW a \in Actions
      PROVE  ActionSound(a)'
  <2>1. ActionSound(a)
    BY <1>1 DEF IInv
  <2>2. QED
    BY <1>1, <2>1 DEF ActionSound, Owed, actionVars
<1>2. QED
  BY <1>1 DEF IInv, TypeOK, Scalars, LockSound

LEMMA RequestTakeoverKeeps ==
  ASSUME IInv, NEW t \in Takeovers, RequestTakeover(t)
  PROVE  IInv'
<1>0. TypeOK /\ CloseSound
  BY DEF IInv
<1>1. record[t].at = "none" /\ BeginRecord(t) /\ UNCHANGED <<at, close, registered, lock, answer, actionVars, passed>>
  BY DEF RequestTakeover
<1>2. /\ ChainSound' /\ RecordsInOrder' /\ \A b \in Actions : Begun(b)' <=> Begun(b)
      /\ record' \in [Recorders -> [at : {"none", "waiting", "writing", "written", "failed"},
                                    prev : Recorders \union {NoRecord}]]
      /\ pending' \in Recorders \union {NoRecord} /\ order' \in Seq(Recorders)
      /\ \A b \in Actions : record'[b] = record[b]
  BY <1>1, TakeoverRecord
<1>3. Scalars'
  BY <1>0, <1>1, <1>2 DEF Scalars, TypeOK, actionVars
<1>4. LockSound'
  BY <1>0, <1>1 DEF LockSound, TypeOK
<1>5. CloseSound'
  BY <1>0, <1>1, <1>2 DEF CloseSound, Unfinished
<1>6. QED
  BY <1>1, <1>2, <1>3, <1>4, <1>5, Apart

\* A record is written once the one before it is over, or its wait was given up: no unfinished one is
\* passed that someone after it did not pass knowingly.
LEMMA StartWritingKeeps ==
  ASSUME IInv, NEW w \in Recorders, StartWriting(w)
  PROVE  IInv'
<1>0. TypeOK /\ ChainSound /\ RecordsInOrder /\ CloseSound
  BY DEF IInv
<1>1. /\ record[w].at = "waiting" /\ UNCHANGED <<lock, registered, at, actionVars, answer, pending, close, order>>
      /\ passed \subseteq passed' /\ passed' \subseteq passed \union {w}
      /\ \/ record[w].prev # NoRecord => Over(record[w].prev)
         \/ w \in passed'
  BY DEF StartWriting, WaitEnds
<1>2. /\ record'[w].at = "writing" /\ record'[w].prev = record[w].prev
      /\ \A v \in Recorders \ {w} : record'[v] = record[v]
      /\ record' \in [Recorders -> [at : {"none", "waiting", "writing", "written", "failed"},
                                    prev : Recorders \union {NoRecord}]]
  BY <1>0 DEF TypeOK, StartWriting
<1>3. Scalars' /\ LockSound'
  BY <1>0, <1>1, <1>2 DEF Scalars, LockSound, TypeOK, actionVars
<1>4. \A v \in Recorders : (Over(v)' <=> Over(v)) /\ (Begun(v)' <=> Begun(v)) /\ record'[v].prev = record[v].prev
                          /\ (Unfinished(v)' <=> Unfinished(v)) /\ (record'[v].at = "none" <=> record[v].at = "none")
  BY <1>1, <1>2 DEF Over, Begun, Unfinished
<1>a. order \in Seq(Recorders)
  BY <1>0 DEF TypeOK
<1>5. order \in Seq(Recorders) /\ order' = order /\ \A i \in 1..Len(order) : order[i] \in Recorders
  BY <1>1, <1>a
<1>6. ChainSound'
  <2>1. \A i \in 1..Len(order) : i > 1 => i - 1 \in 1..Len(order)
    BY <1>5
  <2>2. Len(order) > 0 => Len(order) \in 1..Len(order)
    BY <1>5
  <2>3. \A i \in 1..Len(order) : i > 1 => record'[order[i]].prev = order[i - 1] \/ Over(order[i - 1])'
    BY <1>0, <1>1, <1>4, <1>5, <2>1 DEF ChainSound
  <2>4. pending = NoRecord /\ Len(order) > 0 => Over(order[Len(order)])'
    BY <1>0, <1>1, <1>4, <1>5, <2>2 DEF ChainSound
  <2>5. QED
    BY <1>0, <1>1, <1>4, <1>5, <2>3, <2>4 DEF ChainSound
<1>7. ASSUME NEW i \in 1..Len(order), NEW j \in 1..Len(order), i < j, Unfinished(order[i]),
             record'[order[j]].at # "waiting"
      PROVE  \E k \in (i + 1)..j : order[k] \in passed'
  <2>0. Len(order) \in Nat
    BY <1>5
  <2>1. CASE order[j] # w
    BY <1>0, <1>1, <1>2, <1>5, <1>7, <2>1 DEF RecordsInOrder
  <2>2. CASE order[j] = w /\ w \in passed'
    <3>1. j \in (i + 1)..j
      BY <1>7, <2>0
    <3>2. QED
      BY <2>2, <3>1
  <2>3. CASE order[j] = w /\ (record[w].prev # NoRecord => Over(record[w].prev))
    <3>1. j - 1 \in 1..Len(order) /\ j > 1 /\ order[j - 1] \in Recorders
      BY <1>5, <1>7, <2>0
    <3>2. Over(order[j - 1])
      BY <1>0, <1>7, <2>3, <3>1, PipelineAssumption DEF ChainSound
    <3>3. i # j - 1
      BY <1>7, <3>2 DEF Over, Unfinished
    <3>4. i < j - 1 /\ record[order[j - 1]].at # "waiting"
      BY <1>7, <2>0, <3>1, <3>2, <3>3 DEF Over
    <3>5. PICK k \in (i + 1)..(j - 1) : order[k] \in passed
      BY <1>0, <1>7, <3>1, <3>4 DEF RecordsInOrder
    <3>6. k \in (i + 1)..j
      BY <1>7, <2>0, <3>5
    <3>7. QED
      BY <1>1, <3>5, <3>6
  <2>4. QED
    BY <1>1, <2>1, <2>2, <2>3
<1>8. RecordsInOrder'
  BY <1>4, <1>5, <1>7 DEF RecordsInOrder
<1>9. CloseSound'
  BY <1>0, <1>1, <1>4 DEF CloseSound, Recorders
<1>10. QED
  BY <1>1, <1>3, <1>4, <1>6, <1>8, <1>9, Apart DEF Recorders

LEMMA EndWritingKeeps ==
  ASSUME IInv, NEW w \in Recorders, EndWriting(w)
  PROVE  IInv'
<1>0. TypeOK /\ ChainSound /\ RecordsInOrder /\ CloseSound
  BY DEF IInv
<1>1. /\ record[w].at = "writing" /\ UNCHANGED <<lock, registered, at, actionVars, answer, close, order, passed>>
      /\ pending' = IF pending = w THEN NoRecord ELSE pending
  BY DEF EndWriting, Forget
<1>2. /\ record'[w].at \in {"written", "failed"} /\ record'[w].prev = record[w].prev
      /\ \A v \in Recorders \ {w} : record'[v] = record[v]
      /\ record' \in [Recorders -> [at : {"none", "waiting", "writing", "written", "failed"},
                                    prev : Recorders \union {NoRecord}]]
  <2>1. PICK end \in {"written", "failed"} : record' = [record EXCEPT ![w].at = end]
    BY DEF EndWriting
  <2>2. record \in [Recorders -> [at : {"none", "waiting", "writing", "written", "failed"},
                                  prev : Recorders \union {NoRecord}]]
    BY <1>0 DEF TypeOK
  <2>3. QED
    BY <2>1, <2>2
<1>3. Scalars' /\ LockSound'
  BY <1>0, <1>1, <1>2 DEF Scalars, LockSound, TypeOK, actionVars
<1>4. /\ Over(w)'
      /\ \A v \in Recorders : (Over(v) => Over(v)') /\ (Begun(v)' <=> Begun(v)) /\ record'[v].prev = record[v].prev
                             /\ (Unfinished(v)' => Unfinished(v)) /\ (record'[v].at = "none" <=> record[v].at = "none")
                             /\ (record'[v].at = "waiting" <=> record[v].at = "waiting")
  BY <1>1, <1>2 DEF Over, Begun, Unfinished
<1>a. order \in Seq(Recorders)
  BY <1>0 DEF TypeOK
<1>5. order \in Seq(Recorders) /\ order' = order /\ \A i \in 1..Len(order) : order[i] \in Recorders
  BY <1>1, <1>a
<1>6. ChainSound'
  <2>1. \A i \in 1..Len(order) : i > 1 => i - 1 \in 1..Len(order)
    BY <1>5
  <2>2. Len(order) > 0 => Len(order) \in 1..Len(order)
    BY <1>5
  <2>3. \A i \in 1..Len(order) : i > 1 => record'[order[i]].prev = order[i - 1] \/ Over(order[i - 1])'
    BY <1>0, <1>4, <1>5, <2>1 DEF ChainSound
  <2>4. pending' = NoRecord /\ Len(order) > 0 => Over(order[Len(order)])'
    BY <1>0, <1>1, <1>4, <1>5, <2>2 DEF ChainSound
  <2>5. pending' # NoRecord => Len(order) > 0 /\ pending' = order[Len(order)]
    BY <1>0, <1>1 DEF ChainSound
  <2>6. QED
    BY <1>0, <1>1, <1>4, <1>5, <2>3, <2>4, <2>5 DEF ChainSound
<1>7. RecordsInOrder'
  BY <1>0, <1>1, <1>4, <1>5 DEF RecordsInOrder
<1>8. CloseSound'
  BY <1>0, <1>1, <1>4 DEF CloseSound, Recorders
<1>9. QED
  BY <1>1, <1>3, <1>4, <1>6, <1>7, <1>8, Apart DEF Recorders

\* Nothing is left of the chain when its last record is over and no wait was given up.
LEMMA ChainEnds ==
  ASSUME IInv, pending # NoRecord => Over(pending), passed = {}
  PROVE  \A a \in Actions : ~Unfinished(a)
<1>0. TypeOK /\ ChainSound /\ RecordsInOrder
  BY DEF IInv
<1> SUFFICES ASSUME NEW a \in Actions, Unfinished(a)
             PROVE  FALSE
  OBVIOUS
<1>1. Begun(a)
  BY <1>0 DEF ChainSound, Unfinished, Recorders
<1>2. PICK i \in 1..Len(order) : order[i] = a
  BY <1>1 DEF Begun
<1>a. order \in Seq(Recorders)
  BY <1>0 DEF TypeOK
<1>3. Len(order) \in 1..Len(order) /\ Len(order) \in Nat
  BY <1>2, <1>a
<1>4. Over(order[Len(order)])
  BY <1>0, <1>3 DEF ChainSound
<1>5. i # Len(order)
  BY <1>2, <1>4 DEF Over, Unfinished
<1>6. i < Len(order) /\ record[order[Len(order)]].at # "waiting"
  BY <1>2, <1>3, <1>4, <1>5 DEF Over
<1>7. \E k \in (i + 1)..Len(order) : order[k] \in passed
  BY <1>0, <1>2, <1>3, <1>6 DEF RecordsInOrder
<1>8. QED
  BY <1>7

LEMMA ClosingKeeps ==
  ASSUME IInv, CloseBegin \/ CloseWait \/ TearDown \/ CloseEnd
  PROVE  IInv'
<1>0. TypeOK /\ CloseSound
  BY DEF IInv
<1>1. UNCHANGED <<at, answer, actionVars, recordVars>> /\ passed \subseteq passed'
  BY DEF CloseBegin, CloseWait, TearDown, CloseEnd, WaitEnds
<1>2. ChainSound' /\ RecordsInOrder' /\ \A w \in Recorders : Begun(w)' <=> Begun(w)
  BY <1>1, QuietChain
<1>3. CASE CloseBegin
  <2>0. /\ close.at = "none" /\ close'.at = "waiting" /\ UNCHANGED <<registered, passed>>
        /\ close' \in [at : {"none", "waiting", "tearing down", "writing", "closed"}, locked : BOOLEAN]
        /\ \/ lock = Nobody /\ lock' = Close /\ close'.locked
           \/ lock # Nobody /\ lock' = lock /\ ~close'.locked
    <3>1. CASE lock = Nobody /\ lock' = Close /\ close' = [at |-> "waiting", locked |-> TRUE]
      <4>1. close'.at = "waiting" /\ close'.locked = TRUE
        BY <3>1
      <4>2. close' \in [at : {"none", "waiting", "tearing down", "writing", "closed"}, locked : BOOLEAN]
        BY <3>1
      <4>3. QED
        BY <1>3, <3>1, <4>1, <4>2 DEF CloseBegin
    <3>2. CASE lock # Nobody /\ lock' = lock /\ close' = [at |-> "waiting", locked |-> FALSE]
      <4>1. close'.at = "waiting" /\ close'.locked = FALSE
        BY <3>2
      <4>2. close' \in [at : {"none", "waiting", "tearing down", "writing", "closed"}, locked : BOOLEAN]
        BY <3>2
      <4>3. QED
        BY <1>3, <3>2, <4>1, <4>2 DEF CloseBegin
    <3>3. QED
      BY <1>3, <3>1, <3>2 DEF CloseBegin
  <2>1. Scalars'
    BY <1>0, <1>1, <2>0 DEF Scalars, TypeOK, actionVars, recordVars
  <2>2. LockSound
    BY <1>0, TypeParts
  <2>3. lock # Close /\ \A a \in Actions : a # Nobody /\ a # Close
    BY <2>0, <2>2, PipelineAssumption DEF LockSound
  <2>4. LockSound'
    BY <1>1, <2>0, <2>2, <2>3, PipelineAssumption DEF LockSound
  <2>5. CloseSound'
    BY <1>1, <2>0, <2>2, <2>3 DEF CloseSound, LockSound
  <2>6. QED
    BY <1>1, <1>2, <2>1, <2>4, <2>5, Apart DEF Recorders
<1>4. CASE CloseWait
  <2>0. /\ close.at = "waiting" /\ close'.at = "tearing down" /\ close'.locked = close.locked
        /\ close' \in [at : {"none", "waiting", "tearing down", "writing", "closed"}, locked : BOOLEAN]
        /\ passed' \subseteq passed \union {Close} /\ UNCHANGED <<lock, registered>>
        /\ (pending # NoRecord => Over(pending)) \/ passed' # {}
    BY <1>0, <1>4 DEF TypeOK, CloseWait, WaitEnds
  <2>1. Scalars'
    BY <1>0, <1>1, <2>0 DEF Scalars, TypeOK, actionVars, recordVars
  <2>2. LockSound'
    BY <1>0, <1>1, <2>0 DEF LockSound, TypeOK
  <2>3. passed' = {} => \A a \in Actions : ~Unfinished(a)
    BY <1>1, <2>0, ChainEnds
  <2>4. CloseSound'
    BY <1>0, <1>1, <2>0, <2>3 DEF CloseSound, Unfinished, recordVars
  <2>5. QED
    BY <1>1, <1>2, <2>1, <2>2, <2>4, Apart DEF Recorders
<1>5. CASE TearDown
  <2>0. /\ close.at = "tearing down" /\ close'.at = "writing" /\ close'.locked = close.locked
        /\ close' \in [at : {"none", "waiting", "tearing down", "writing", "closed"}, locked : BOOLEAN]
        /\ registered' = FALSE /\ UNCHANGED <<lock, passed>>
    BY <1>0, <1>5 DEF TypeOK, TearDown
  <2>1. Scalars'
    BY <1>0, <1>1, <2>0 DEF Scalars, TypeOK, actionVars, recordVars
  <2>2. LockSound'
    BY <1>0, <1>1, <2>0 DEF LockSound, TypeOK
  <2>3. CloseSound'
    BY <1>0, <1>1, <2>0 DEF CloseSound, Unfinished, recordVars
  <2>4. QED
    BY <1>1, <1>2, <2>1, <2>2, <2>3, Apart DEF Recorders
<1>6. CASE CloseEnd
  <2>0. /\ close.at = "writing" /\ close'.at = "closed" /\ close'.locked = close.locked
        /\ close' \in [at : {"none", "waiting", "tearing down", "writing", "closed"}, locked : BOOLEAN]
        /\ lock' = (IF close.locked THEN Nobody ELSE lock) /\ UNCHANGED <<registered, passed>>
    BY <1>0, <1>6 DEF TypeOK, CloseEnd
  <2>1. Scalars'
    BY <1>0, <1>1, <2>0 DEF Scalars, TypeOK, actionVars, recordVars
  <2>2. LockSound'
    <3>1. LockSound
      BY <1>0, TypeParts
    <3>2. \A a \in Actions : lock' = a <=> lock = a
      BY <2>0, <3>1, PipelineAssumption DEF LockSound
    <3>3. lock' # Close
      BY <2>0, <3>1, PipelineAssumption DEF LockSound
    <3>4. QED
      BY <1>1, <2>0, <3>1, <3>2, <3>3 DEF LockSound
  <2>3. CloseSound'
    BY <1>0, <1>1, <2>0 DEF CloseSound, Unfinished, recordVars
  <2>4. QED
    BY <1>1, <1>2, <2>1, <2>2, <2>3, Apart DEF Recorders
<1>7. QED
  BY <1>3, <1>4, <1>5, <1>6

LEMMA UnchangedKeeps ==
  ASSUME IInv, UNCHANGED vars
  PROVE  IInv'
<1>1. UNCHANGED <<at, answer, actionVars, recordVars, lock, registered, close, passed>>
  BY DEF vars, actionVars, recordVars
<1>2. ChainSound' /\ RecordsInOrder' /\ \A w \in Recorders : Begun(w)' <=> Begun(w)
  BY <1>1, QuietChain
<1>3. Scalars' /\ LockSound'
  BY <1>1 DEF IInv, TypeOK, Scalars, LockSound, actionVars, recordVars
<1>4. CloseSound'
  BY <1>1 DEF IInv, CloseSound, Unfinished, recordVars
<1>5. QED
  BY <1>1, <1>2, <1>3, <1>4, Apart DEF Recorders

LEMMA InvStep ==
  ASSUME IInv, [Next]_vars
  PROVE  IInv'
<1>1. ASSUME NEW a \in Actions, Acting(a)
      PROVE  IInv'
  BY <1>1, EnterKeeps, PrepareKeeps, CancelEarlyKeeps, RefuseKeeps, FailEarlyKeeps, StartOperationKeeps,
     BeginTransferKeeps, TouchKeeps, ReturnKeeps, BlockAfterKeeps, FailKeeps, ChallengedKeeps, InterruptKeeps,
     RecordKeeps, RecordedKeeps, CancelRecordingKeeps, RaiseEarlyKeeps
     DEF Acting
<1>2. QED
  BY <1>1, ChallengeKeeps, RequestTakeoverKeeps, StartWritingKeeps, EndWritingKeeps, ClosingKeeps,
     UnchangedKeeps
     DEF Next

\* The inductive invariant holds throughout: how the records chain (write_record, pending_record), what
\* each action owes (_record_interrupted) and what a close that got the lock may count on.
THEOREM Invariance == Spec => []IInv
  BY InvInit, InvStep, PTL DEF Spec

\* Every variable keeps its type, and whoever is past the wait for the session lock holds it, but for
\* a close that gave the wait up.
THEOREM TypesHold == Spec => []TypeOK
<1>1. IInv => TypeOK
  BY DEF IInv
<1>2. QED
  BY <1>1, Invariance, PTL

\* However an action ends, and whatever its records and its handlers fail at, what it owes is recorded,
\* and nothing twice.
THEOREM RecordsAreSingle == Spec => []RecordedOnce
<1>1. IInv => RecordedOnce
  <2> SUFFICES ASSUME IInv
               PROVE  RecordedOnce
    OBVIOUS
  <2>1. order \in Seq(Recorders)
    BY DEF IInv, TypeOK
  <2>2. DOMAIN order = 1..Len(order)
    BY <2>1
  <2>3. IsInjective(order)
    BY <2>2 DEF IInv, ChainSound, IsInjective
  <2>4. \A a \in Actions : Begun(a) => a \in Range(order)
    BY <2>2 DEF Begun, Range
  <2>5. QED
    BY <2>3, <2>4 DEF IInv, ActionSound, RecordedOnce
<1>2. QED
  BY <1>1, Invariance, PTL

\* An answer that invites a retry is never given for a change that was made.
THEOREM RetriesAreSafe == Spec => []RetryIsSafe
<1>1. IInv => RetryIsSafe
  BY DEF IInv, ActionSound, RetryIsSafe
<1>2. QED
  BY <1>1, Invariance, PTL

\* Records land in the order they were begun, for any number of actions and takeovers, but for those
\* that followed a wait given up.
THEOREM RecordsLandInOrder == Spec => []RecordsInOrder
<1>1. IInv => RecordsInOrder
  BY DEF IInv
<1>2. QED
  BY <1>1, Invariance, PTL

\* A close that holds the lock records itself after every action's record.
THEOREM CloseIsLast == Spec => []ClosedLast
<1>1. IInv => ClosedLast
  BY DEF IInv, CloseSound, ClosedLast
<1>2. QED
  BY <1>1, Invariance, PTL
=============================================================================
