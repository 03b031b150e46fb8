------------------------ MODULE RequestGates_proofs ------------------------
(* Theorems about RequestGates, for every set of sessions and any number of gates and browsers. *)
EXTENDS RequestGates, TLAPS

GateStates == {"none", "attaching", "live", "lost", "detached"}
GateRec == [state : GateStates, deliberate : BOOLEAN, dict : Gates]
CreateSteps ==
  {"none", "reserved", "acquired", "attaching", "gated", "opened", "owned", "listed", "active", "failed"}
CreateRec(m, b) == [at : CreateSteps, gate : 0..m, browser : 0..b, registered : BOOLEAN]
ContainSteps == {"none", "spawned", "require", "attaching", "closing", "disconnecting", "done"}
ContainRec == [at : ContainSteps, todo : SUBSET Sessions, failed : SUBSET Sessions]

LEMMA Types ==
  ASSUME TypeOK
  PROVE  /\ gate \in [Gates -> GateRec]
         /\ create \in [Sessions -> CreateRec(made, browser)]
         /\ contain \in [Gates -> ContainRec]
         /\ made \in Nat /\ made <= GatesMax /\ GatesMax \in Nat /\ browser \in Nat /\ registered \in 0..made
BY GatesAssumption DEF TypeOK, GateRec, GateStates, CreateRec, CreateSteps, ContainRec, ContainSteps

\* What the updates of the actions make of a gate, a create and a containment.
LEMMA GateState ==
  ASSUME NEW f \in [Gates -> GateRec], NEW g \in Gates, NEW x \in GateStates
  PROVE  [f EXCEPT ![g].state = x] \in [Gates -> GateRec]
<1>1. f[g] \in GateRec
  OBVIOUS
<1>2. [f[g] EXCEPT !.state = x] \in GateRec
  BY <1>1 DEF GateRec
<1>3. [f EXCEPT ![g].state = x] = [f EXCEPT ![g] = [f[g] EXCEPT !.state = x]]
  OBVIOUS
<1>4. QED
  BY <1>2, <1>3

LEMMA GateMeant ==
  ASSUME NEW f \in [Gates -> GateRec], NEW g \in Gates, NEW x \in BOOLEAN
  PROVE  [f EXCEPT ![g].deliberate = x] \in [Gates -> GateRec]
<1>1. f[g] \in GateRec
  OBVIOUS
<1>2. [f[g] EXCEPT !.deliberate = x] \in GateRec
  BY <1>1 DEF GateRec
<1>3. [f EXCEPT ![g].deliberate = x] = [f EXCEPT ![g] = [f[g] EXCEPT !.deliberate = x]]
  OBVIOUS
<1>4. QED
  BY <1>2, <1>3

LEMMA GatesEnd ==
  ASSUME NEW f \in [Gates -> GateRec], NEW x \in GateStates
  PROVE  [h \in Gates |-> IF f[h].state = "live" THEN [f[h] EXCEPT !.state = x] ELSE f[h]]
           \in [Gates -> GateRec]
<1>1. ASSUME NEW h \in Gates
      PROVE  f[h] \in GateRec /\ [f[h] EXCEPT !.state = x] \in GateRec
  <2>1. f[h] \in GateRec
    OBVIOUS
  <2>2. QED
    BY <2>1 DEF GateRec
<1>2. QED
  BY <1>1

LEMMA CreateGrows ==
  ASSUME NEW m \in Nat, NEW n \in Nat, m <= n, NEW b \in Nat, NEW c \in Nat, b <= c
  PROVE  CreateRec(m, b) \subseteq CreateRec(n, c)
  BY DEF CreateRec

LEMMA CreateAt ==
  ASSUME NEW m, NEW b, NEW f \in [Sessions -> CreateRec(m, b)], NEW s \in Sessions, NEW x \in CreateSteps
  PROVE  [f EXCEPT ![s].at = x] \in [Sessions -> CreateRec(m, b)]
<1>1. f[s] \in CreateRec(m, b)
  OBVIOUS
<1>2. [f[s] EXCEPT !.at = x] \in CreateRec(m, b)
  BY <1>1 DEF CreateRec
<1>3. [f EXCEPT ![s].at = x] = [f EXCEPT ![s] = [f[s] EXCEPT !.at = x]]
  OBVIOUS
<1>4. QED
  BY <1>2, <1>3

LEMMA CreateGate ==
  ASSUME NEW m, NEW b, NEW f \in [Sessions -> CreateRec(m, b)], NEW s \in Sessions,
         NEW x \in CreateSteps, NEW y \in 0..m
  PROVE  [f EXCEPT ![s].at = x, ![s].gate = y] \in [Sessions -> CreateRec(m, b)]
<1>1. f[s] \in CreateRec(m, b)
  OBVIOUS
<1>2. [f[s] EXCEPT !.at = x, !.gate = y] \in CreateRec(m, b)
  BY <1>1 DEF CreateRec
<1>3. [f EXCEPT ![s].at = x, ![s].gate = y] = [f EXCEPT ![s] = [f[s] EXCEPT !.at = x, !.gate = y]]
  OBVIOUS
<1>4. QED
  BY <1>2, <1>3

LEMMA CreateBrowser ==
  ASSUME NEW m, NEW b, NEW f \in [Sessions -> CreateRec(m, b)], NEW s \in Sessions,
         NEW x \in CreateSteps, NEW y \in 0..b
  PROVE  [f EXCEPT ![s].at = x, ![s].browser = y] \in [Sessions -> CreateRec(m, b)]
<1>1. f[s] \in CreateRec(m, b)
  OBVIOUS
<1>2. [f[s] EXCEPT !.at = x, !.browser = y] \in CreateRec(m, b)
  BY <1>1 DEF CreateRec
<1>3. [f EXCEPT ![s].at = x, ![s].browser = y] = [f EXCEPT ![s] = [f[s] EXCEPT !.at = x, !.browser = y]]
  OBVIOUS
<1>4. QED
  BY <1>2, <1>3

LEMMA CreateRegistered ==
  ASSUME NEW m, NEW b, NEW f \in [Sessions -> CreateRec(m, b)], NEW s \in Sessions, NEW x \in CreateSteps
  PROVE  [f EXCEPT ![s].at = x, ![s].registered = TRUE] \in [Sessions -> CreateRec(m, b)]
<1>1. f[s] \in CreateRec(m, b)
  OBVIOUS
<1>2. [f[s] EXCEPT !.at = x, !.registered = TRUE] \in CreateRec(m, b)
  BY <1>1 DEF CreateRec
<1>3. [f EXCEPT ![s].at = x, ![s].registered = TRUE] = [f EXCEPT ![s] = [f[s] EXCEPT !.at = x, !.registered = TRUE]]
  OBVIOUS
<1>4. QED
  BY <1>2, <1>3

LEMMA ContainAt ==
  ASSUME NEW f \in [Gates -> ContainRec], NEW g \in Gates, NEW x \in ContainSteps
  PROVE  [f EXCEPT ![g].at = x] \in [Gates -> ContainRec]
  BY DEF ContainRec

LEMMA ContainCloses ==
  ASSUME NEW f \in [Gates -> ContainRec], NEW g \in Gates, NEW s \in Sessions, NEW b
  PROVE  [f EXCEPT ![g].todo = @ \ {s}, ![g].failed = IF b THEN @ \union {s} ELSE @] \in [Gates -> ContainRec]
<1>1. f[g] \in ContainRec
  OBVIOUS
<1> DEFINE todo == f[g].todo \ {s}
           failed == IF b THEN f[g].failed \union {s} ELSE f[g].failed
<1>2. todo \in SUBSET Sessions /\ failed \in SUBSET Sessions
  BY <1>1 DEF ContainRec
<1>3. [f EXCEPT ![g].todo = @ \ {s}, ![g].failed = IF b THEN @ \union {s} ELSE @]
        = [f EXCEPT ![g] = [f[g] EXCEPT !.todo = todo, !.failed = failed]]
  OBVIOUS
<1> HIDE DEF todo, failed
<1>4. [f[g] EXCEPT !.todo = todo, !.failed = failed] \in ContainRec
  BY <1>1, <1>2 DEF ContainRec
<1>5. QED
  BY <1>3, <1>4

LEMMA InvInit == Init => IInv
<1> SUFFICES ASSUME Init
             PROVE  IInv
  OBVIOUS
<1>1. TypeOK
  <2>1. gate \in [Gates -> GateRec]
    BY DEF Init, GateRec, GateStates
  <2>2. create \in [Sessions -> CreateRec(made, browser)]
    BY DEF Init, CreateRec, CreateSteps, NoGate
  <2>3. contain \in [Gates -> ContainRec]
    BY DEF Init, ContainRec, ContainSteps
  <2>4. QED
    BY <2>1, <2>2, <2>3, GatesAssumption
       DEF Init, TypeOK, GateRec, GateStates, CreateRec, CreateSteps, ContainRec, ContainSteps, NoGate
<1>2. OneAttach /\ AttachSound /\ LiveSound /\ SwapSound /\ OpenIsOwned
  <2>1. \A g \in Gates : gate[g].state \in {"live", "none"} /\ ~gate[g].deliberate
    BY DEF Init
  <2>2. made # 0 => made \in Gates
    BY GatesAssumption DEF Init, Gates
  <2>3. ~Attaching
    BY <2>1, <2>2 DEF Attaching
  <2>4. OneAttach /\ AttachSound /\ SwapSound /\ OpenIsOwned
    BY <2>3 DEF Init, OneAttach, AttachSound, SwapSound, OpenIsOwned
  <2>5. LiveSound
    BY <2>1 DEF Init, LiveSound
  <2>6. QED
    BY <2>4, <2>5
<1>3. ASSUME NEW s \in Sessions
      PROVE  CreateSound(s) /\ Watched(s)
  BY <1>3 DEF Init, CreateSound, Watched, Ungated
<1>4. QED
  BY <1>1, <1>2, <1>3 DEF IInv


\* One lemma per outcome of each action: its guard and its updates keep the invariant.
LEMMA ReserveStep ==
  ASSUME IInv, NEW s \in Sessions,
         create[s].at = "none",
         create' = [create EXCEPT ![s].at = "reserved"],
         UNCHANGED <<browser, connected, swap, registered, made, gate, owned, context, listed, contain>>
  PROVE  IInv'
<1>0. TypeOK /\ OneAttach /\ AttachSound /\ LiveSound /\ SwapSound /\ OpenIsOwned /\ GatesAssumption
  BY GatesAssumption DEF IInv
<1>a. \A r \in Sessions : CreateSound(r)
  BY DEF IInv
<1>b. /\ gate \in [Gates -> GateRec] /\ create \in [Sessions -> CreateRec(made, browser)]
      /\ contain \in [Gates -> ContainRec] /\ made \in Nat /\ made <= GatesMax /\ GatesMax \in Nat
      /\ browser \in Nat /\ registered \in 0..made
  BY <1>0, Types
<1>c. create \in [Sessions -> CreateRec(made', browser')]
  BY <1>b
<1>1. TypeOK'
  <2>1. /\ browser' \in 1..BrowsersMax /\ connected' \in BOOLEAN /\ swap' \in {"idle", "connecting", "closing"}
        /\ made' \in 0..GatesMax /\ registered' \in 0..made'
    BY <1>0 DEF TypeOK, SwapSound, Gates, NoGate
  <2>2. gate' \in [Gates -> GateRec]
    BY <1>b
  <2>3. owned' \in [Gates -> SUBSET Sessions] /\ context' \in [Sessions -> {"none", "open", "closed"}]
    BY <1>0 DEF TypeOK, SwapSound, Gates, NoGate
  <2>4. create' \in [Sessions -> CreateRec(made', browser')]
    BY <1>0, <1>b, <1>c, CreateAt DEF TypeOK, GateStates, CreateSteps, ContainSteps, Attaching, NoGate, Gates
  <2>5. listed' \subseteq {r \in Sessions : create'[r].at \in {"listed", "active"}}
    BY <1>0 DEF TypeOK, SwapSound, Gates, NoGate
  <2>6. contain' \in [Gates -> ContainRec]
    BY <1>b
  <2>7. /\ \A h \in Gates : gate'[h].state = "attaching" => h = made'
        /\ \A h \in Gates : gate'[h].state = "live" => h = registered'
    BY <1>0 DEF TypeOK, SwapSound, Gates, NoGate, AttachSound, LiveSound, Attaching
  <2>8. QED
    BY <2>1, <2>2, <2>3, <2>4, <2>5, <2>6, <2>7 DEF TypeOK, GateRec, GateStates, CreateRec, CreateSteps,
       ContainRec, ContainSteps
<1>2. OneAttach'
  BY <1>0 DEF TypeOK, OneAttach, Attaching, NoGate, Gates
<1>3. AttachSound'
  BY <1>0, <1>a DEF TypeOK, OneAttach, AttachSound, CreateSound, Attaching, Here, NoGate, Gates
<1>4. LiveSound'
  BY <1>0 DEF TypeOK, AttachSound, LiveSound, Attaching, Here, NoGate, Gates
<1>5. SwapSound'
  BY <1>0, <1>a DEF TypeOK, SwapSound, CreateSound, NoGate
<1>6. OpenIsOwned'
  BY <1>0, <1>a DEF TypeOK, OpenIsOwned, OneAttach, AttachSound, CreateSound, Attaching, Here, NoGate, Gates
<1>7. \A r \in Sessions : CreateSound(r)'
  BY <1>0, <1>a DEF TypeOK, OneAttach, AttachSound, CreateSound, Attaching, Here, NoGate, Gates
<1>8. ASSUME ~LossWhileEnding, NEW r \in Sessions, Ungated(r)'
      PROVE  \E h \in Gates : /\ contain'[h].at = "spawned" \/ r \in contain'[h].todo
                             /\ gate'[h].dict = gate'[create'[r].gate].dict
  <2>1. Watched(r) /\ CreateSound(r)
    BY <1>8, <1>a DEF IInv
  <2>2. QED
    BY <1>0, <1>8, <2>1 DEF TypeOK, Watched, Ungated, CreateSound, LiveSound, Here, NoGate, Gates
<1>9. QED
  BY <1>1, <1>2, <1>3, <1>4, <1>5, <1>6, <1>7, <1>8 DEF IInv, Watched

LEMMA AcquireHereStep ==
  ASSUME IInv, NEW s \in Sessions,
         create[s].at = "reserved", swap = "idle", connected,
         create' = [create EXCEPT ![s].at = "acquired", ![s].browser = browser],
         UNCHANGED <<browser, connected, swap, registered, made, gate, owned, context, listed, contain>>
  PROVE  IInv'
<1>0. TypeOK /\ OneAttach /\ AttachSound /\ LiveSound /\ SwapSound /\ OpenIsOwned /\ GatesAssumption
  BY GatesAssumption DEF IInv
<1>a. \A r \in Sessions : CreateSound(r)
  BY DEF IInv
<1>b. /\ gate \in [Gates -> GateRec] /\ create \in [Sessions -> CreateRec(made, browser)]
      /\ contain \in [Gates -> ContainRec] /\ made \in Nat /\ made <= GatesMax /\ GatesMax \in Nat
      /\ browser \in Nat /\ registered \in 0..made
  BY <1>0, Types
<1>c. create \in [Sessions -> CreateRec(made', browser')]
  BY <1>b
<1>1. TypeOK'
  <2>1. /\ browser' \in 1..BrowsersMax /\ connected' \in BOOLEAN /\ swap' \in {"idle", "connecting", "closing"}
        /\ made' \in 0..GatesMax /\ registered' \in 0..made'
    BY <1>0 DEF TypeOK, SwapSound, Gates, NoGate
  <2>2. gate' \in [Gates -> GateRec]
    BY <1>b
  <2>3. owned' \in [Gates -> SUBSET Sessions] /\ context' \in [Sessions -> {"none", "open", "closed"}]
    BY <1>0 DEF TypeOK, SwapSound, Gates, NoGate
  <2>4. create' \in [Sessions -> CreateRec(made', browser')]
    <3>1. "acquired" \in CreateSteps
      BY DEF CreateSteps
    <3>2. browser \in 0..browser'
      BY <1>0, <1>b
    <3>3. QED
      BY <1>c, <3>1, <3>2, CreateBrowser
  <2>5. listed' \subseteq {r \in Sessions : create'[r].at \in {"listed", "active"}}
    BY <1>0 DEF TypeOK, SwapSound, Gates, NoGate
  <2>6. contain' \in [Gates -> ContainRec]
    BY <1>b
  <2>7. /\ \A h \in Gates : gate'[h].state = "attaching" => h = made'
        /\ \A h \in Gates : gate'[h].state = "live" => h = registered'
    BY <1>0 DEF TypeOK, SwapSound, Gates, NoGate, AttachSound, LiveSound, Attaching
  <2>8. QED
    BY <2>1, <2>2, <2>3, <2>4, <2>5, <2>6, <2>7 DEF TypeOK, GateRec, GateStates, CreateRec, CreateSteps,
       ContainRec, ContainSteps
<1>2. OneAttach'
  BY <1>0 DEF TypeOK, OneAttach, Attaching, NoGate, Gates
<1>3. AttachSound'
  BY <1>0, <1>a DEF TypeOK, OneAttach, AttachSound, CreateSound, Attaching, Here, NoGate, Gates
<1>4. LiveSound'
  BY <1>0 DEF TypeOK, AttachSound, LiveSound, Attaching, Here, NoGate, Gates
<1>5. SwapSound'
  BY <1>0, <1>a DEF TypeOK, SwapSound, CreateSound, NoGate
<1>6. OpenIsOwned'
  BY <1>0, <1>a DEF TypeOK, OpenIsOwned, OneAttach, AttachSound, CreateSound, Attaching, Here, NoGate, Gates
<1>7. \A r \in Sessions : CreateSound(r)'
  BY <1>0, <1>a DEF TypeOK, OneAttach, AttachSound, CreateSound, Attaching, Here, NoGate, Gates
<1>8. ASSUME ~LossWhileEnding, NEW r \in Sessions, Ungated(r)'
      PROVE  \E h \in Gates : /\ contain'[h].at = "spawned" \/ r \in contain'[h].todo
                             /\ gate'[h].dict = gate'[create'[r].gate].dict
  <2>1. Watched(r) /\ CreateSound(r)
    BY <1>8, <1>a DEF IInv
  <2>2. QED
    BY <1>0, <1>8, <2>1 DEF TypeOK, Watched, Ungated, CreateSound, LiveSound, Here, NoGate, Gates
<1>9. QED
  BY <1>1, <1>2, <1>3, <1>4, <1>5, <1>6, <1>7, <1>8 DEF IInv, Watched

\* What a browser newly connected to makes of the gates.
LEMMA NewGate ==
  ASSUME gate \in [Gates -> GateRec], made \in Nat, made <= GatesMax, GatesMax \in Nat, TypeOK, LockFree, AttachNew
  PROVE  /\ gate' \in [Gates -> GateRec] /\ made' \in Nat /\ made <= made' /\ made' <= GatesMax
         /\ registered' \in 0..made'
         /\ \A h \in Gates : gate'[h].state # "attaching"
         /\ \A h \in Gates : gate'[h].state = "live" => h = registered' /\ ~gate'[h].deliberate
<1>1. /\ Ended("detached") \in [Gates -> GateRec]
      /\ \A h \in Gates : Ended("detached")[h].state \notin {"attaching", "live"}
  <2>1. "detached" \in GateStates
    BY DEF GateStates
  <2>2. Ended("detached") \in [Gates -> GateRec]
    BY <2>1, GatesEnd DEF Ended
  <2>3. ASSUME NEW h \in Gates
        PROVE  Ended("detached")[h].state \notin {"attaching", "live"}
    <3>1. gate[h] \in GateRec /\ gate[h].state # "attaching"
      BY <2>3 DEF LockFree
    <3>2. QED
      BY <3>1 DEF Ended, GateRec
  <2>4. QED
    BY <2>2, <2>3
<1>2. CASE made < GatesMax /\ made' = made + 1 /\ registered' = made + 1
           /\ gate' = [Ended("detached") EXCEPT ![made + 1] =
                         [state |-> "live", deliberate |-> FALSE, dict |-> made + 1]]
  <2>1. made + 1 \in Gates
    BY <1>2 DEF Gates
  <2>2. [state |-> "live", deliberate |-> FALSE, dict |-> made + 1] \in GateRec
    BY <2>1 DEF GateRec, GateStates
  <2>3. QED
    BY <1>1, <1>2, <2>1, <2>2
<1>3. CASE made' = made /\ registered' = NoGate /\ gate' = Ended("detached")
  BY <1>1, <1>3 DEF NoGate
<1>4. QED
  BY <1>2, <1>3 DEF AttachNew

LEMMA AcquireNextStep ==
  ASSUME IInv, NEW s \in Sessions,
         create[s].at = "reserved", swap = "idle", ~connected, browser < BrowsersMax, LockFree, AttachNew,
         browser' = browser + 1,
         connected' = TRUE,
         create' = [create EXCEPT ![s].at = "acquired", ![s].browser = browser + 1],
         UNCHANGED <<swap, owned, context, listed, contain>>
  PROVE  IInv'
<1>0. TypeOK /\ OneAttach /\ AttachSound /\ LiveSound /\ SwapSound /\ OpenIsOwned /\ GatesAssumption
  BY GatesAssumption DEF IInv
<1>a. \A r \in Sessions : CreateSound(r)
  BY DEF IInv
<1>b. /\ gate \in [Gates -> GateRec] /\ create \in [Sessions -> CreateRec(made, browser)]
      /\ contain \in [Gates -> ContainRec] /\ made \in Nat /\ made <= GatesMax /\ GatesMax \in Nat
      /\ browser \in Nat /\ registered \in 0..made
  BY <1>0, Types
<1>n. /\ gate' \in [Gates -> GateRec] /\ made' \in Nat /\ made <= made' /\ made' <= GatesMax
      /\ registered' \in 0..made'
      /\ \A h \in Gates : gate'[h].state # "attaching"
      /\ \A h \in Gates : gate'[h].state = "live" => h = registered' /\ ~gate'[h].deliberate
  BY <1>0, <1>b, NewGate
<1>o. ~Attaching /\ ~Attaching'
  <2>1. made # 0 => made \in Gates
    BY <1>b DEF Gates
  <2>2. made' # 0 => made' \in Gates
    BY <1>n DEF Gates, NoGate
  <2>3. QED
    BY <2>1, <2>2, <1>n DEF Attaching, LockFree
<1>m. /\ \A r \in Sessions : create[r].at # "attaching"
      /\ \A h \in Gates : contain[h].at # "attaching"
  BY <1>0, <1>o DEF OneAttach
<1>c. create \in [Sessions -> CreateRec(made', browser')]
  BY <1>b, <1>n, CreateGrows
<1>d. /\ create'[s].at = "acquired" /\ create'[s].registered = create[s].registered /\ ~create[s].registered
      /\ \A r \in Sessions \ {s} : create'[r] = create[r] /\ create[r].browser # browser'
  BY <1>a, <1>b DEF CreateRec, CreateSound
<1>e. \A r \in Sessions : Here(r)' => r = s
  BY <1>d DEF Here
<1>1. TypeOK'
  <2>1. /\ browser' \in 1..BrowsersMax /\ connected' \in BOOLEAN /\ swap' \in {"idle", "connecting", "closing"}
        /\ made' \in 0..GatesMax /\ registered' \in 0..made'
    BY <1>0, <1>b, <1>n DEF TypeOK, SwapSound
  <2>2. owned' \in [Gates -> SUBSET Sessions] /\ context' \in [Sessions -> {"none", "open", "closed"}]
    BY <1>0 DEF TypeOK
  <2>3. create' \in [Sessions -> CreateRec(made', browser')]
    <3>1. "acquired" \in CreateSteps
      BY DEF CreateSteps
    <3>2. browser + 1 \in 0..browser'
      BY <1>0, <1>b
    <3>3. QED
      BY <1>c, <3>1, <3>2, CreateBrowser
  <2>4. listed' \subseteq {r \in Sessions : create'[r].at \in {"listed", "active"}}
    BY <1>0 DEF TypeOK
  <2>5. contain' \in [Gates -> ContainRec]
    BY <1>b
  <2>6. QED
    BY <1>n, <2>1, <2>2, <2>3, <2>4, <2>5 DEF TypeOK, GateRec, GateStates, CreateRec, CreateSteps, ContainRec,
       ContainSteps
<1>2. OneAttach'
  BY <1>d, <1>m DEF OneAttach
<1>3. AttachSound'
  BY <1>d, <1>m, <1>o DEF AttachSound
<1>4. LiveSound'
  BY <1>n DEF LiveSound
<1>5. SwapSound'
  BY DEF SwapSound
<1>6. OpenIsOwned'
  BY <1>d, <1>e DEF OpenIsOwned
<1>7. \A r \in Sessions : CreateSound(r)'
  BY <1>a, <1>d, <1>e DEF CreateSound
<1>8. \A r \in Sessions : ~Ungated(r)'
  BY <1>d, <1>e DEF Ungated
<1>9. QED
  BY <1>1, <1>2, <1>3, <1>4, <1>5, <1>6, <1>7, <1>8 DEF IInv, Watched

LEMMA AcquireFailsStep ==
  ASSUME IInv, NEW s \in Sessions,
         create[s].at = "reserved",
         create' = [create EXCEPT ![s].at = "failed"],
         UNCHANGED <<browser, connected, swap, registered, made, gate, owned, context, listed, contain>>
  PROVE  IInv'
<1>0. TypeOK /\ OneAttach /\ AttachSound /\ LiveSound /\ SwapSound /\ OpenIsOwned /\ GatesAssumption
  BY GatesAssumption DEF IInv
<1>a. \A r \in Sessions : CreateSound(r)
  BY DEF IInv
<1>b. /\ gate \in [Gates -> GateRec] /\ create \in [Sessions -> CreateRec(made, browser)]
      /\ contain \in [Gates -> ContainRec] /\ made \in Nat /\ made <= GatesMax /\ GatesMax \in Nat
      /\ browser \in Nat /\ registered \in 0..made
  BY <1>0, Types
<1>c. create \in [Sessions -> CreateRec(made', browser')]
  BY <1>b
<1>1. TypeOK'
  <2>1. /\ browser' \in 1..BrowsersMax /\ connected' \in BOOLEAN /\ swap' \in {"idle", "connecting", "closing"}
        /\ made' \in 0..GatesMax /\ registered' \in 0..made'
    BY <1>0 DEF TypeOK, SwapSound, Gates, NoGate
  <2>2. gate' \in [Gates -> GateRec]
    BY <1>b
  <2>3. owned' \in [Gates -> SUBSET Sessions] /\ context' \in [Sessions -> {"none", "open", "closed"}]
    BY <1>0 DEF TypeOK, SwapSound, Gates, NoGate
  <2>4. create' \in [Sessions -> CreateRec(made', browser')]
    BY <1>0, <1>b, <1>c, CreateAt DEF TypeOK, GateStates, CreateSteps, ContainSteps, Attaching, NoGate, Gates
  <2>5. listed' \subseteq {r \in Sessions : create'[r].at \in {"listed", "active"}}
    BY <1>0 DEF TypeOK, SwapSound, Gates, NoGate
  <2>6. contain' \in [Gates -> ContainRec]
    BY <1>b
  <2>7. /\ \A h \in Gates : gate'[h].state = "attaching" => h = made'
        /\ \A h \in Gates : gate'[h].state = "live" => h = registered'
    BY <1>0 DEF TypeOK, SwapSound, Gates, NoGate, AttachSound, LiveSound, Attaching
  <2>8. QED
    BY <2>1, <2>2, <2>3, <2>4, <2>5, <2>6, <2>7 DEF TypeOK, GateRec, GateStates, CreateRec, CreateSteps,
       ContainRec, ContainSteps
<1>2. OneAttach'
  BY <1>0 DEF TypeOK, OneAttach, Attaching, NoGate, Gates
<1>3. AttachSound'
  BY <1>0, <1>a DEF TypeOK, OneAttach, AttachSound, CreateSound, Attaching, Here, NoGate, Gates
<1>4. LiveSound'
  BY <1>0 DEF TypeOK, AttachSound, LiveSound, Attaching, Here, NoGate, Gates
<1>5. SwapSound'
  BY <1>0, <1>a DEF TypeOK, SwapSound, CreateSound, NoGate
<1>6. OpenIsOwned'
  BY <1>0, <1>a DEF TypeOK, OpenIsOwned, OneAttach, AttachSound, CreateSound, Attaching, Here, NoGate, Gates
<1>7. \A r \in Sessions : CreateSound(r)'
  BY <1>0, <1>a DEF TypeOK, OneAttach, AttachSound, CreateSound, Attaching, Here, NoGate, Gates
<1>8. ASSUME ~LossWhileEnding, NEW r \in Sessions, Ungated(r)'
      PROVE  \E h \in Gates : /\ contain'[h].at = "spawned" \/ r \in contain'[h].todo
                             /\ gate'[h].dict = gate'[create'[r].gate].dict
  <2>1. Watched(r) /\ CreateSound(r)
    BY <1>8, <1>a DEF IInv
  <2>2. QED
    BY <1>0, <1>8, <2>1 DEF TypeOK, Watched, Ungated, CreateSound, LiveSound, Here, NoGate, Gates
<1>9. QED
  BY <1>1, <1>2, <1>3, <1>4, <1>5, <1>6, <1>7, <1>8 DEF IInv, Watched

LEMMA RequireLiveStep ==
  ASSUME IInv, NEW s \in Sessions,
         create[s].at = "acquired", LockFree, Here(s), Live(registered),
         create' = [create EXCEPT ![s].at = "gated", ![s].gate = registered],
         UNCHANGED <<browser, connected, swap, registered, made, gate, owned, context, listed, contain>>
  PROVE  IInv'
<1>0. TypeOK /\ OneAttach /\ AttachSound /\ LiveSound /\ SwapSound /\ OpenIsOwned /\ GatesAssumption
  BY GatesAssumption DEF IInv
<1>a. \A r \in Sessions : CreateSound(r)
  BY DEF IInv
<1>b. /\ gate \in [Gates -> GateRec] /\ create \in [Sessions -> CreateRec(made, browser)]
      /\ contain \in [Gates -> ContainRec] /\ made \in Nat /\ made <= GatesMax /\ GatesMax \in Nat
      /\ browser \in Nat /\ registered \in 0..made
  BY <1>0, Types
<1>c. create \in [Sessions -> CreateRec(made', browser')]
  BY <1>b
<1>1. TypeOK'
  <2>1. /\ browser' \in 1..BrowsersMax /\ connected' \in BOOLEAN /\ swap' \in {"idle", "connecting", "closing"}
        /\ made' \in 0..GatesMax /\ registered' \in 0..made'
    BY <1>0 DEF TypeOK, SwapSound, Gates, NoGate, LockFree, Live, Here
  <2>2. gate' \in [Gates -> GateRec]
    BY <1>b
  <2>3. owned' \in [Gates -> SUBSET Sessions] /\ context' \in [Sessions -> {"none", "open", "closed"}]
    BY <1>0 DEF TypeOK, SwapSound, Gates, NoGate, LockFree, Live, Here
  <2>4. create' \in [Sessions -> CreateRec(made', browser')]
    <3>1. "gated" \in CreateSteps
      BY DEF CreateSteps
    <3>2. registered \in 0..made'
      BY <1>0, <1>b
    <3>3. QED
      BY <1>c, <3>1, <3>2, CreateGate
  <2>5. listed' \subseteq {r \in Sessions : create'[r].at \in {"listed", "active"}}
    BY <1>0 DEF TypeOK, SwapSound, Gates, NoGate, LockFree, Live, Here
  <2>6. contain' \in [Gates -> ContainRec]
    BY <1>b
  <2>7. /\ \A h \in Gates : gate'[h].state = "attaching" => h = made'
        /\ \A h \in Gates : gate'[h].state = "live" => h = registered'
    BY <1>0 DEF TypeOK, SwapSound, Gates, NoGate, LockFree, Live, Here, AttachSound, LiveSound, Attaching
  <2>8. QED
    BY <2>1, <2>2, <2>3, <2>4, <2>5, <2>6, <2>7 DEF TypeOK, GateRec, GateStates, CreateRec, CreateSteps,
       ContainRec, ContainSteps
<1>2. OneAttach'
  BY <1>0 DEF TypeOK, OneAttach, Attaching, NoGate, Gates, LockFree, Live, Here
<1>3. AttachSound'
  BY <1>0, <1>a DEF TypeOK, OneAttach, AttachSound, CreateSound, Attaching, Here, NoGate, Gates, LockFree, Live
<1>4. LiveSound'
  BY <1>0 DEF TypeOK, AttachSound, LiveSound, Attaching, Here, NoGate, Gates, LockFree, Live
<1>5. SwapSound'
  BY <1>0, <1>a DEF TypeOK, SwapSound, CreateSound, NoGate, LockFree, Live, Here
<1>6. OpenIsOwned'
  BY <1>0, <1>a DEF TypeOK, OpenIsOwned, OneAttach, AttachSound, CreateSound, Attaching, Here, NoGate, Gates,
     LockFree, Live
<1>7. \A r \in Sessions : CreateSound(r)'
  <2>1. ASSUME NEW r \in Sessions \ {s}
        PROVE  CreateSound(r)'
    BY <1>0, <1>a, <1>b, <2>1 DEF CreateSound, CreateRec, Here
  <2>2. CreateSound(s)'
    <3>1. create'[s].at = "gated" /\ create'[s].gate = registered /\ create'[s].registered = create[s].registered
      BY <1>b DEF CreateRec
    <3>2. ~create[s].registered /\ registered # NoGate
      BY <1>a DEF CreateSound, Live
    <3>3. QED
      BY <3>1, <3>2 DEF CreateSound, Here
  <2>3. QED
    BY <2>1, <2>2
<1>8. ASSUME ~LossWhileEnding, NEW r \in Sessions, Ungated(r)'
      PROVE  \E h \in Gates : /\ contain'[h].at = "spawned" \/ r \in contain'[h].todo
                             /\ gate'[h].dict = gate'[create'[r].gate].dict
  <2>1. Watched(r) /\ CreateSound(r)
    BY <1>8, <1>a DEF IInv
  <2>2. QED
    BY <1>0, <1>8, <2>1 DEF TypeOK, Watched, Ungated, CreateSound, LiveSound, Here, NoGate, Gates, LockFree,
       Live
<1>9. QED
  BY <1>1, <1>2, <1>3, <1>4, <1>5, <1>6, <1>7, <1>8 DEF IInv, Watched

LEMMA RequireStartStep ==
  ASSUME IInv, NEW s \in Sessions,
         create[s].at = "acquired", LockFree, Here(s), ~Live(registered), made < GatesMax,
         made' = made + 1,
         gate' = [gate EXCEPT ![made + 1] = [state |-> "attaching", deliberate |-> FALSE, dict |-> DictOf(made + 1)]],
         create' = [create EXCEPT ![s].at = "attaching"],
         UNCHANGED <<browser, connected, swap, registered, owned, context, listed, contain>>
  PROVE  IInv'
<1>0. TypeOK /\ OneAttach /\ AttachSound /\ LiveSound /\ SwapSound /\ OpenIsOwned /\ GatesAssumption
  BY GatesAssumption DEF IInv
<1>a. \A r \in Sessions : CreateSound(r)
  BY DEF IInv
<1>b. /\ gate \in [Gates -> GateRec] /\ create \in [Sessions -> CreateRec(made, browser)]
      /\ contain \in [Gates -> ContainRec] /\ made \in Nat /\ made <= GatesMax /\ GatesMax \in Nat
      /\ browser \in Nat /\ registered \in 0..made
  BY <1>0, Types
<1>c. create \in [Sessions -> CreateRec(made', browser')]
  BY <1>b, CreateGrows DEF CreateRec, Gates
<1>1. TypeOK'
  <2>1. /\ browser' \in 1..BrowsersMax /\ connected' \in BOOLEAN /\ swap' \in {"idle", "connecting", "closing"}
        /\ made' \in 0..GatesMax /\ registered' \in 0..made'
    BY <1>0 DEF TypeOK, SwapSound, Gates, NoGate, LockFree, Live, Here, DictOf
  <2>2. gate' \in [Gates -> GateRec]
    BY <1>0, <1>b DEF GateRec, TypeOK, GateStates, CreateSteps, ContainSteps, Attaching, NoGate, Gates,
       LockFree, Live, Here, DictOf
  <2>3. owned' \in [Gates -> SUBSET Sessions] /\ context' \in [Sessions -> {"none", "open", "closed"}]
    BY <1>0 DEF TypeOK, SwapSound, Gates, NoGate, LockFree, Live, Here, DictOf
  <2>4. create' \in [Sessions -> CreateRec(made', browser')]
    BY <1>0, <1>b, <1>c, CreateAt DEF GateRec, TypeOK, GateStates, CreateSteps, ContainSteps, Attaching, NoGate,
       Gates, LockFree, Live, Here, DictOf
  <2>5. listed' \subseteq {r \in Sessions : create'[r].at \in {"listed", "active"}}
    BY <1>0 DEF TypeOK, SwapSound, Gates, NoGate, LockFree, Live, Here, DictOf
  <2>6. contain' \in [Gates -> ContainRec]
    BY <1>b
  <2>7. /\ \A h \in Gates : gate'[h].state = "attaching" => h = made'
        /\ \A h \in Gates : gate'[h].state = "live" => h = registered'
    BY <1>0 DEF TypeOK, SwapSound, Gates, NoGate, LockFree, Live, Here, DictOf, AttachSound, LiveSound,
       Attaching
  <2>8. QED
    BY <2>1, <2>2, <2>3, <2>4, <2>5, <2>6, <2>7 DEF TypeOK, GateRec, GateStates, CreateRec, CreateSteps,
       ContainRec, ContainSteps
<1>2. OneAttach'
  BY <1>0 DEF TypeOK, OneAttach, Attaching, NoGate, Gates, LockFree, Live, Here, DictOf
<1>3. AttachSound'
  BY <1>0, <1>a, SMTT(30) DEF TypeOK, OneAttach, AttachSound, CreateSound, Attaching, Here, NoGate, Gates,
     LockFree, Live, DictOf
<1>4. LiveSound'
  BY <1>0 DEF TypeOK, AttachSound, LiveSound, Attaching, Here, NoGate, Gates, LockFree, Live, DictOf
<1>5. SwapSound'
  BY <1>0, <1>a DEF TypeOK, SwapSound, CreateSound, NoGate, LockFree, Live, Here, DictOf
<1>6. OpenIsOwned'
  BY <1>0, <1>a DEF TypeOK, OpenIsOwned, OneAttach, AttachSound, CreateSound, Attaching, Here, NoGate, Gates,
     LockFree, Live, DictOf
<1>7. \A r \in Sessions : CreateSound(r)'
  BY <1>0, <1>a, SMTT(30) DEF TypeOK, OneAttach, AttachSound, CreateSound, Attaching, Here, NoGate, Gates,
     LockFree, Live, DictOf
<1>8. ASSUME ~LossWhileEnding, NEW r \in Sessions, Ungated(r)'
      PROVE  \E h \in Gates : /\ contain'[h].at = "spawned" \/ r \in contain'[h].todo
                             /\ gate'[h].dict = gate'[create'[r].gate].dict
  <2>1. Watched(r) /\ CreateSound(r)
    BY <1>8, <1>a DEF IInv
  <2>2. QED
    BY <1>0, <1>8, <2>1 DEF TypeOK, Watched, Ungated, CreateSound, LiveSound, Here, NoGate, Gates, LockFree,
       Live, DictOf
<1>9. QED
  BY <1>1, <1>2, <1>3, <1>4, <1>5, <1>6, <1>7, <1>8 DEF IInv, Watched

LEMMA RequireFailsStep ==
  ASSUME IInv, NEW s \in Sessions,
         create[s].at = "acquired", LockFree,
         create' = [create EXCEPT ![s].at = "failed"],
         UNCHANGED <<browser, connected, swap, registered, made, gate, owned, context, listed, contain>>
  PROVE  IInv'
<1>0. TypeOK /\ OneAttach /\ AttachSound /\ LiveSound /\ SwapSound /\ OpenIsOwned /\ GatesAssumption
  BY GatesAssumption DEF IInv
<1>a. \A r \in Sessions : CreateSound(r)
  BY DEF IInv
<1>b. /\ gate \in [Gates -> GateRec] /\ create \in [Sessions -> CreateRec(made, browser)]
      /\ contain \in [Gates -> ContainRec] /\ made \in Nat /\ made <= GatesMax /\ GatesMax \in Nat
      /\ browser \in Nat /\ registered \in 0..made
  BY <1>0, Types
<1>c. create \in [Sessions -> CreateRec(made', browser')]
  BY <1>b
<1>1. TypeOK'
  <2>1. /\ browser' \in 1..BrowsersMax /\ connected' \in BOOLEAN /\ swap' \in {"idle", "connecting", "closing"}
        /\ made' \in 0..GatesMax /\ registered' \in 0..made'
    BY <1>0 DEF TypeOK, SwapSound, Gates, NoGate, LockFree
  <2>2. gate' \in [Gates -> GateRec]
    BY <1>b
  <2>3. owned' \in [Gates -> SUBSET Sessions] /\ context' \in [Sessions -> {"none", "open", "closed"}]
    BY <1>0 DEF TypeOK, SwapSound, Gates, NoGate, LockFree
  <2>4. create' \in [Sessions -> CreateRec(made', browser')]
    BY <1>0, <1>b, <1>c, CreateAt DEF TypeOK, GateStates, CreateSteps, ContainSteps, Attaching, NoGate, Gates,
       LockFree
  <2>5. listed' \subseteq {r \in Sessions : create'[r].at \in {"listed", "active"}}
    BY <1>0 DEF TypeOK, SwapSound, Gates, NoGate, LockFree
  <2>6. contain' \in [Gates -> ContainRec]
    BY <1>b
  <2>7. /\ \A h \in Gates : gate'[h].state = "attaching" => h = made'
        /\ \A h \in Gates : gate'[h].state = "live" => h = registered'
    BY <1>0 DEF TypeOK, SwapSound, Gates, NoGate, LockFree, AttachSound, LiveSound, Attaching
  <2>8. QED
    BY <2>1, <2>2, <2>3, <2>4, <2>5, <2>6, <2>7 DEF TypeOK, GateRec, GateStates, CreateRec, CreateSteps,
       ContainRec, ContainSteps
<1>2. OneAttach'
  BY <1>0 DEF TypeOK, OneAttach, Attaching, NoGate, Gates, LockFree
<1>3. AttachSound'
  BY <1>0, <1>a DEF TypeOK, OneAttach, AttachSound, CreateSound, Attaching, Here, NoGate, Gates, LockFree
<1>4. LiveSound'
  BY <1>0 DEF TypeOK, AttachSound, LiveSound, Attaching, Here, NoGate, Gates, LockFree
<1>5. SwapSound'
  BY <1>0, <1>a DEF TypeOK, SwapSound, CreateSound, NoGate, LockFree
<1>6. OpenIsOwned'
  BY <1>0, <1>a DEF TypeOK, OpenIsOwned, OneAttach, AttachSound, CreateSound, Attaching, Here, NoGate, Gates,
     LockFree
<1>7. \A r \in Sessions : CreateSound(r)'
  BY <1>0, <1>a, SMTT(30) DEF TypeOK, OneAttach, AttachSound, CreateSound, Attaching, Here, NoGate, Gates,
     LockFree
<1>8. ASSUME ~LossWhileEnding, NEW r \in Sessions, Ungated(r)'
      PROVE  \E h \in Gates : /\ contain'[h].at = "spawned" \/ r \in contain'[h].todo
                             /\ gate'[h].dict = gate'[create'[r].gate].dict
  <2>1. Watched(r) /\ CreateSound(r)
    BY <1>8, <1>a DEF IInv
  <2>2. QED
    BY <1>0, <1>8, <2>1 DEF TypeOK, Watched, Ungated, CreateSound, LiveSound, Here, NoGate, Gates, LockFree
<1>9. QED
  BY <1>1, <1>2, <1>3, <1>4, <1>5, <1>6, <1>7, <1>8 DEF IInv, Watched

LEMMA AttachedLiveStep ==
  ASSUME IInv, NEW s \in Sessions,
         create[s].at = "attaching", Here(s), Attaching,
         registered' = made,
         gate' = [gate EXCEPT ![made].state = "live"],
         create' = [create EXCEPT ![s].at = "gated", ![s].gate = made],
         UNCHANGED <<browser, connected, swap, made, owned, context, listed, contain>>
  PROVE  IInv'
<1>0. TypeOK /\ OneAttach /\ AttachSound /\ LiveSound /\ SwapSound /\ OpenIsOwned /\ GatesAssumption
  BY GatesAssumption DEF IInv
<1>a. \A r \in Sessions : CreateSound(r)
  BY DEF IInv
<1>b. /\ gate \in [Gates -> GateRec] /\ create \in [Sessions -> CreateRec(made, browser)]
      /\ contain \in [Gates -> ContainRec] /\ made \in Nat /\ made <= GatesMax /\ GatesMax \in Nat
      /\ browser \in Nat /\ registered \in 0..made
  BY <1>0, Types
<1>c. create \in [Sessions -> CreateRec(made', browser')]
  BY <1>b
<1>d. made \in Gates /\ made # NoGate /\ \A h \in Gates : gate'[h].dict = gate[h].dict
  BY <1>0, <1>b DEF TypeOK, Attaching, Gates, NoGate, GateRec
<1>e. ASSUME NEW r \in Sessions, Here(r), registered # NoGate
      PROVE  gate[made].dict = gate[registered].dict
  BY <1>0, <1>e DEF AttachSound, Here
<1>f. /\ create'[s].at = "gated" /\ create'[s].gate = made /\ create'[s].registered = create[s].registered
      /\ ~create[s].registered /\ create'[s].browser = create[s].browser
      /\ \A r \in Sessions \ {s} : create'[r] = create[r]
  BY <1>a, <1>b DEF CreateRec, CreateSound
<1>g. \A r \in Sessions : create[r].gate \in 0..made
  BY <1>b DEF CreateRec
<1>1. TypeOK'
  <2>1. /\ browser' \in 1..BrowsersMax /\ connected' \in BOOLEAN /\ swap' \in {"idle", "connecting", "closing"}
        /\ made' \in 0..GatesMax /\ registered' \in 0..made'
    BY <1>0 DEF TypeOK, SwapSound, Gates, NoGate, Attaching, Here
  <2>2. gate' \in [Gates -> GateRec]
    BY <1>0, <1>b, GateState DEF TypeOK, GateStates, CreateSteps, ContainSteps, Attaching, NoGate, Gates, Here
  <2>3. owned' \in [Gates -> SUBSET Sessions] /\ context' \in [Sessions -> {"none", "open", "closed"}]
    BY <1>0 DEF TypeOK, SwapSound, Gates, NoGate, Attaching, Here
  <2>4. create' \in [Sessions -> CreateRec(made', browser')]
    <3>1. "gated" \in CreateSteps
      BY DEF CreateSteps
    <3>2. made \in 0..made'
      BY <1>0, <1>b
    <3>3. QED
      BY <1>c, <3>1, <3>2, CreateGate
  <2>5. listed' \subseteq {r \in Sessions : create'[r].at \in {"listed", "active"}}
    BY <1>0 DEF TypeOK, SwapSound, Gates, NoGate, Attaching, Here
  <2>6. contain' \in [Gates -> ContainRec]
    BY <1>b
  <2>7. /\ \A h \in Gates : gate'[h].state = "attaching" => h = made'
        /\ \A h \in Gates : gate'[h].state = "live" => h = registered'
    BY <1>0 DEF TypeOK, SwapSound, Gates, NoGate, Attaching, Here, AttachSound, LiveSound
  <2>8. QED
    BY <2>1, <2>2, <2>3, <2>4, <2>5, <2>6, <2>7 DEF TypeOK, GateRec, GateStates, CreateRec, CreateSteps,
       ContainRec, ContainSteps
<1>2. OneAttach'
  BY <1>0 DEF TypeOK, OneAttach, Attaching, NoGate, Gates, Here
<1>3. AttachSound'
  BY <1>0, <1>a DEF TypeOK, OneAttach, AttachSound, CreateSound, Attaching, Here, NoGate, Gates
<1>4. LiveSound'
  BY <1>0 DEF TypeOK, AttachSound, LiveSound, Attaching, Here, NoGate, Gates
<1>5. SwapSound'
  BY <1>0, <1>a DEF TypeOK, SwapSound, CreateSound, NoGate, Attaching, Here
<1>6. OpenIsOwned'
  <2> SUFFICES ASSUME NEW r \in Sessions \ {s}, context[r] = "open", create[r].registered, Here(r)
               PROVE  r \in owned[gate[made].dict]
    BY <1>d, <1>f DEF OpenIsOwned, Here
  <2>1. registered # NoGate
    BY <1>a DEF CreateSound
  <2>2. QED
    BY <1>0, <1>e, <2>1 DEF OpenIsOwned
<1>7. \A r \in Sessions : CreateSound(r)'
  <2>1. ASSUME NEW r \in Sessions \ {s}
        PROVE  CreateSound(r)'
    <3>1. CreateSound(r) /\ create'[r] = create[r]
      BY <1>a, <1>f, <2>1
    <3>2. Here(r)' <=> Here(r)
      BY <3>1 DEF Here
    <3>3. create[r].gate # NoGate => create[r].gate \in Gates
      BY <1>b, <1>d, <1>g, <2>1 DEF Gates, NoGate
    <3>4. CASE Here(r) /\ registered # NoGate
      <4>1. gate[made].dict = gate[registered].dict
        BY <1>e, <2>1, <3>4
      <4>2. QED
        BY <1>d, <3>1, <3>2, <3>3, <3>4, <4>1 DEF CreateSound
    <3>5. CASE ~(Here(r) /\ registered # NoGate)
      BY <1>d, <3>1, <3>2, <3>3, <3>5 DEF CreateSound
    <3>6. QED
      BY <3>4, <3>5
  <2>2. CreateSound(s)'
    BY <1>d, <1>f DEF CreateSound
  <2>3. QED
    BY <2>1, <2>2
<1>8. ASSUME ~LossWhileEnding, NEW r \in Sessions, Ungated(r)'
      PROVE  \E h \in Gates : /\ contain'[h].at = "spawned" \/ r \in contain'[h].todo
                             /\ gate'[h].dict = gate'[create'[r].gate].dict
  <2>1. Watched(r) /\ CreateSound(r)
    BY <1>8, <1>a DEF IInv
  <2>2. QED
    BY <1>0, <1>8, <2>1 DEF TypeOK, Watched, Ungated, CreateSound, LiveSound, Here, NoGate, Gates, Attaching
<1>9. QED
  BY <1>1, <1>2, <1>3, <1>4, <1>5, <1>6, <1>7, <1>8 DEF IInv, Watched

LEMMA AttachedNotStep ==
  ASSUME IInv, NEW s \in Sessions,
         create[s].at = "attaching", Attaching,
         gate' = [gate EXCEPT ![made].state = "detached"],
         create' = [create EXCEPT ![s].at = "failed"],
         UNCHANGED <<browser, connected, swap, registered, made, owned, context, listed, contain>>
  PROVE  IInv'
<1>0. TypeOK /\ OneAttach /\ AttachSound /\ LiveSound /\ SwapSound /\ OpenIsOwned /\ GatesAssumption
  BY GatesAssumption DEF IInv
<1>a. \A r \in Sessions : CreateSound(r)
  BY DEF IInv
<1>b. /\ gate \in [Gates -> GateRec] /\ create \in [Sessions -> CreateRec(made, browser)]
      /\ contain \in [Gates -> ContainRec] /\ made \in Nat /\ made <= GatesMax /\ GatesMax \in Nat
      /\ browser \in Nat /\ registered \in 0..made
  BY <1>0, Types
<1>c. create \in [Sessions -> CreateRec(made', browser')]
  BY <1>b
<1>1. TypeOK'
  <2>1. /\ browser' \in 1..BrowsersMax /\ connected' \in BOOLEAN /\ swap' \in {"idle", "connecting", "closing"}
        /\ made' \in 0..GatesMax /\ registered' \in 0..made'
    BY <1>0 DEF TypeOK, SwapSound, Gates, NoGate, Attaching
  <2>2. gate' \in [Gates -> GateRec]
    BY <1>0, <1>b, GateState DEF TypeOK, GateStates, CreateSteps, ContainSteps, Attaching, NoGate, Gates
  <2>3. owned' \in [Gates -> SUBSET Sessions] /\ context' \in [Sessions -> {"none", "open", "closed"}]
    BY <1>0 DEF TypeOK, SwapSound, Gates, NoGate, Attaching
  <2>4. create' \in [Sessions -> CreateRec(made', browser')]
    BY <1>0, <1>b, <1>c, CreateAt DEF TypeOK, GateStates, CreateSteps, ContainSteps, Attaching, NoGate, Gates
  <2>5. listed' \subseteq {r \in Sessions : create'[r].at \in {"listed", "active"}}
    BY <1>0 DEF TypeOK, SwapSound, Gates, NoGate, Attaching
  <2>6. contain' \in [Gates -> ContainRec]
    BY <1>b
  <2>7. /\ \A h \in Gates : gate'[h].state = "attaching" => h = made'
        /\ \A h \in Gates : gate'[h].state = "live" => h = registered'
    BY <1>0 DEF TypeOK, SwapSound, Gates, NoGate, Attaching, AttachSound, LiveSound
  <2>8. QED
    BY <2>1, <2>2, <2>3, <2>4, <2>5, <2>6, <2>7 DEF TypeOK, GateRec, GateStates, CreateRec, CreateSteps,
       ContainRec, ContainSteps
<1>2. OneAttach'
  BY <1>0 DEF TypeOK, OneAttach, Attaching, NoGate, Gates
<1>3. AttachSound'
  BY <1>0, <1>a DEF TypeOK, OneAttach, AttachSound, CreateSound, Attaching, Here, NoGate, Gates
<1>4. LiveSound'
  BY <1>0 DEF TypeOK, AttachSound, LiveSound, Attaching, Here, NoGate, Gates
<1>5. SwapSound'
  BY <1>0, <1>a DEF TypeOK, SwapSound, CreateSound, NoGate, Attaching
<1>6. OpenIsOwned'
  BY <1>0, <1>a DEF TypeOK, OpenIsOwned, OneAttach, AttachSound, CreateSound, Attaching, Here, NoGate, Gates
<1>7. \A r \in Sessions : CreateSound(r)'
  BY <1>0, <1>a DEF TypeOK, OneAttach, AttachSound, CreateSound, Attaching, Here, NoGate, Gates
<1>8. ASSUME ~LossWhileEnding, NEW r \in Sessions, Ungated(r)'
      PROVE  \E h \in Gates : /\ contain'[h].at = "spawned" \/ r \in contain'[h].todo
                             /\ gate'[h].dict = gate'[create'[r].gate].dict
  <2>1. Watched(r) /\ CreateSound(r)
    BY <1>8, <1>a DEF IInv
  <2>2. QED
    BY <1>0, <1>8, <2>1 DEF TypeOK, Watched, Ungated, CreateSound, LiveSound, Here, NoGate, Gates, Attaching
<1>9. QED
  BY <1>1, <1>2, <1>3, <1>4, <1>5, <1>6, <1>7, <1>8 DEF IInv, Watched

LEMMA OpenedStep ==
  ASSUME IInv, NEW s \in Sessions,
         create[s].at = "gated", Here(s),
         create' = [create EXCEPT ![s].at = "opened"],
         context' = [context EXCEPT ![s] = "open"],
         UNCHANGED <<browser, connected, swap, registered, made, gate, owned, listed, contain>>
  PROVE  IInv'
<1>0. TypeOK /\ OneAttach /\ AttachSound /\ LiveSound /\ SwapSound /\ OpenIsOwned /\ GatesAssumption
  BY GatesAssumption DEF IInv
<1>a. \A r \in Sessions : CreateSound(r)
  BY DEF IInv
<1>b. /\ gate \in [Gates -> GateRec] /\ create \in [Sessions -> CreateRec(made, browser)]
      /\ contain \in [Gates -> ContainRec] /\ made \in Nat /\ made <= GatesMax /\ GatesMax \in Nat
      /\ browser \in Nat /\ registered \in 0..made
  BY <1>0, Types
<1>c. create \in [Sessions -> CreateRec(made', browser')]
  BY <1>b
<1>1. TypeOK'
  <2>1. /\ browser' \in 1..BrowsersMax /\ connected' \in BOOLEAN /\ swap' \in {"idle", "connecting", "closing"}
        /\ made' \in 0..GatesMax /\ registered' \in 0..made'
    BY <1>0 DEF TypeOK, SwapSound, Gates, NoGate, Here
  <2>2. gate' \in [Gates -> GateRec]
    BY <1>b
  <2>3. owned' \in [Gates -> SUBSET Sessions] /\ context' \in [Sessions -> {"none", "open", "closed"}]
    BY <1>0 DEF TypeOK, SwapSound, Gates, NoGate, Here
  <2>4. create' \in [Sessions -> CreateRec(made', browser')]
    BY <1>0, <1>b, <1>c, CreateAt DEF TypeOK, GateStates, CreateSteps, ContainSteps, Attaching, NoGate, Gates,
       Here
  <2>5. listed' \subseteq {r \in Sessions : create'[r].at \in {"listed", "active"}}
    BY <1>0 DEF TypeOK, SwapSound, Gates, NoGate, Here
  <2>6. contain' \in [Gates -> ContainRec]
    BY <1>b
  <2>7. /\ \A h \in Gates : gate'[h].state = "attaching" => h = made'
        /\ \A h \in Gates : gate'[h].state = "live" => h = registered'
    BY <1>0 DEF TypeOK, SwapSound, Gates, NoGate, Here, AttachSound, LiveSound, Attaching
  <2>8. QED
    BY <2>1, <2>2, <2>3, <2>4, <2>5, <2>6, <2>7 DEF TypeOK, GateRec, GateStates, CreateRec, CreateSteps,
       ContainRec, ContainSteps
<1>2. OneAttach'
  BY <1>0 DEF TypeOK, OneAttach, Attaching, NoGate, Gates, Here
<1>3. AttachSound'
  BY <1>0, <1>a DEF TypeOK, OneAttach, AttachSound, CreateSound, Attaching, Here, NoGate, Gates
<1>4. LiveSound'
  BY <1>0 DEF TypeOK, AttachSound, LiveSound, Attaching, Here, NoGate, Gates
<1>5. SwapSound'
  BY <1>0, <1>a DEF TypeOK, SwapSound, CreateSound, NoGate, Here
<1>6. OpenIsOwned'
  <2> SUFFICES ASSUME NEW r \in Sessions, context'[r] = "open", create'[r].registered, Here(r)', registered # NoGate
               PROVE  r \in owned[gate[registered].dict]
    BY DEF OpenIsOwned
  <2>1. create'[r].registered = create[r].registered /\ create'[r].browser = create[r].browser
    BY <1>b DEF CreateRec
  <2>2. create[r].registered /\ Here(r)
    BY <2>1 DEF Here
  <2>3. r # s
    BY <1>a, <2>2 DEF CreateSound
  <2>4. context[r] = "open"
    BY <1>0, <2>3 DEF TypeOK
  <2>5. QED
    BY <1>0, <2>2, <2>4 DEF OpenIsOwned
<1>7. \A r \in Sessions : CreateSound(r)'
  BY <1>0, <1>a DEF TypeOK, OneAttach, AttachSound, CreateSound, Attaching, Here, NoGate, Gates
<1>8. ASSUME ~LossWhileEnding, NEW r \in Sessions, Ungated(r)'
      PROVE  \E h \in Gates : /\ contain'[h].at = "spawned" \/ r \in contain'[h].todo
                             /\ gate'[h].dict = gate'[create'[r].gate].dict
  <2>1. Watched(r) /\ CreateSound(r)
    BY <1>8, <1>a DEF IInv
  <2>2. QED
    BY <1>0, <1>8, <2>1 DEF TypeOK, Watched, Ungated, CreateSound, LiveSound, Here, NoGate, Gates
<1>9. QED
  BY <1>1, <1>2, <1>3, <1>4, <1>5, <1>6, <1>7, <1>8 DEF IInv, Watched

LEMMA OpenFailsStep ==
  ASSUME IInv, NEW s \in Sessions,
         create[s].at = "gated",
         create' = [create EXCEPT ![s].at = "failed"],
         UNCHANGED <<browser, connected, swap, registered, made, gate, owned, context, listed, contain>>
  PROVE  IInv'
<1>0. TypeOK /\ OneAttach /\ AttachSound /\ LiveSound /\ SwapSound /\ OpenIsOwned /\ GatesAssumption
  BY GatesAssumption DEF IInv
<1>a. \A r \in Sessions : CreateSound(r)
  BY DEF IInv
<1>b. /\ gate \in [Gates -> GateRec] /\ create \in [Sessions -> CreateRec(made, browser)]
      /\ contain \in [Gates -> ContainRec] /\ made \in Nat /\ made <= GatesMax /\ GatesMax \in Nat
      /\ browser \in Nat /\ registered \in 0..made
  BY <1>0, Types
<1>c. create \in [Sessions -> CreateRec(made', browser')]
  BY <1>b
<1>1. TypeOK'
  <2>1. /\ browser' \in 1..BrowsersMax /\ connected' \in BOOLEAN /\ swap' \in {"idle", "connecting", "closing"}
        /\ made' \in 0..GatesMax /\ registered' \in 0..made'
    BY <1>0 DEF TypeOK, SwapSound, Gates, NoGate
  <2>2. gate' \in [Gates -> GateRec]
    BY <1>b
  <2>3. owned' \in [Gates -> SUBSET Sessions] /\ context' \in [Sessions -> {"none", "open", "closed"}]
    BY <1>0 DEF TypeOK, SwapSound, Gates, NoGate
  <2>4. create' \in [Sessions -> CreateRec(made', browser')]
    BY <1>0, <1>b, <1>c, CreateAt DEF TypeOK, GateStates, CreateSteps, ContainSteps, Attaching, NoGate, Gates
  <2>5. listed' \subseteq {r \in Sessions : create'[r].at \in {"listed", "active"}}
    BY <1>0 DEF TypeOK, SwapSound, Gates, NoGate
  <2>6. contain' \in [Gates -> ContainRec]
    BY <1>b
  <2>7. /\ \A h \in Gates : gate'[h].state = "attaching" => h = made'
        /\ \A h \in Gates : gate'[h].state = "live" => h = registered'
    BY <1>0 DEF TypeOK, SwapSound, Gates, NoGate, AttachSound, LiveSound, Attaching
  <2>8. QED
    BY <2>1, <2>2, <2>3, <2>4, <2>5, <2>6, <2>7 DEF TypeOK, GateRec, GateStates, CreateRec, CreateSteps,
       ContainRec, ContainSteps
<1>2. OneAttach'
  BY <1>0 DEF TypeOK, OneAttach, Attaching, NoGate, Gates
<1>3. AttachSound'
  BY <1>0, <1>a DEF TypeOK, OneAttach, AttachSound, CreateSound, Attaching, Here, NoGate, Gates
<1>4. LiveSound'
  BY <1>0 DEF TypeOK, AttachSound, LiveSound, Attaching, Here, NoGate, Gates
<1>5. SwapSound'
  BY <1>0, <1>a DEF TypeOK, SwapSound, CreateSound, NoGate
<1>6. OpenIsOwned'
  BY <1>0, <1>a DEF TypeOK, OpenIsOwned, OneAttach, AttachSound, CreateSound, Attaching, Here, NoGate, Gates
<1>7. \A r \in Sessions : CreateSound(r)'
  BY <1>0, <1>a DEF TypeOK, OneAttach, AttachSound, CreateSound, Attaching, Here, NoGate, Gates
<1>8. ASSUME ~LossWhileEnding, NEW r \in Sessions, Ungated(r)'
      PROVE  \E h \in Gates : /\ contain'[h].at = "spawned" \/ r \in contain'[h].todo
                             /\ gate'[h].dict = gate'[create'[r].gate].dict
  <2>1. Watched(r) /\ CreateSound(r)
    BY <1>8, <1>a DEF IInv
  <2>2. QED
    BY <1>0, <1>8, <2>1 DEF TypeOK, Watched, Ungated, CreateSound, LiveSound, Here, NoGate, Gates
<1>9. QED
  BY <1>1, <1>2, <1>3, <1>4, <1>5, <1>6, <1>7, <1>8 DEF IInv, Watched

LEMMA RegisterContextStep ==
  ASSUME IInv, NEW s \in Sessions,
         create[s].at = "opened", Live(create[s].gate), Here(s),
         owned' = [owned EXCEPT ![gate[create[s].gate].dict] = @ \union {s}],
         create' = [create EXCEPT ![s].at = "owned", ![s].registered = TRUE],
         UNCHANGED <<browser, connected, swap, registered, made, gate, context, listed, contain>>
  PROVE  IInv'
<1>0. TypeOK /\ OneAttach /\ AttachSound /\ LiveSound /\ SwapSound /\ OpenIsOwned /\ GatesAssumption
  BY GatesAssumption DEF IInv
<1>a. \A r \in Sessions : CreateSound(r)
  BY DEF IInv
<1>b. /\ gate \in [Gates -> GateRec] /\ create \in [Sessions -> CreateRec(made, browser)]
      /\ contain \in [Gates -> ContainRec] /\ made \in Nat /\ made <= GatesMax /\ GatesMax \in Nat
      /\ browser \in Nat /\ registered \in 0..made
  BY <1>0, Types
<1>c. create \in [Sessions -> CreateRec(made', browser')]
  BY <1>b
<1>1. TypeOK'
  <2>1. /\ browser' \in 1..BrowsersMax /\ connected' \in BOOLEAN /\ swap' \in {"idle", "connecting", "closing"}
        /\ made' \in 0..GatesMax /\ registered' \in 0..made'
    BY <1>0 DEF TypeOK, SwapSound, Gates, NoGate, Live, Here
  <2>2. gate' \in [Gates -> GateRec]
    BY <1>b
  <2>3. owned' \in [Gates -> SUBSET Sessions] /\ context' \in [Sessions -> {"none", "open", "closed"}]
    BY <1>0 DEF TypeOK, SwapSound, Gates, NoGate, Live, Here
  <2>4. create' \in [Sessions -> CreateRec(made', browser')]
    <3>1. "owned" \in CreateSteps
      BY DEF CreateSteps
    <3>2. QED
      BY <1>c, <3>1, CreateRegistered
  <2>5. listed' \subseteq {r \in Sessions : create'[r].at \in {"listed", "active"}}
    BY <1>0 DEF TypeOK, SwapSound, Gates, NoGate, Live, Here
  <2>6. contain' \in [Gates -> ContainRec]
    BY <1>b
  <2>7. /\ \A h \in Gates : gate'[h].state = "attaching" => h = made'
        /\ \A h \in Gates : gate'[h].state = "live" => h = registered'
    BY <1>0 DEF TypeOK, SwapSound, Gates, NoGate, Live, Here, AttachSound, LiveSound, Attaching
  <2>8. QED
    BY <2>1, <2>2, <2>3, <2>4, <2>5, <2>6, <2>7 DEF TypeOK, GateRec, GateStates, CreateRec, CreateSteps,
       ContainRec, ContainSteps
<1>2. OneAttach'
  BY <1>0 DEF TypeOK, OneAttach, Attaching, NoGate, Gates, Live, Here
<1>3. AttachSound'
  BY <1>0, <1>a DEF TypeOK, OneAttach, AttachSound, CreateSound, Attaching, Here, NoGate, Gates, Live
<1>4. LiveSound'
  BY <1>0 DEF TypeOK, AttachSound, LiveSound, Attaching, Here, NoGate, Gates, Live
<1>5. SwapSound'
  BY <1>0, <1>a DEF TypeOK, SwapSound, CreateSound, NoGate, Live, Here
<1>6. OpenIsOwned'
  <2> SUFFICES ASSUME NEW r \in Sessions, context[r] = "open", create'[r].registered, Here(r)', registered # NoGate
               PROVE  r \in owned'[gate[registered].dict]
    BY DEF OpenIsOwned, Here
  <2>1. gate[registered].dict = gate[create[s].gate].dict
    BY <1>a DEF CreateSound
  <2>2. registered \in Gates /\ gate[registered].dict \in Gates
    BY <1>b DEF NoGate, Gates, GateRec
  <2>3. owned'[gate[registered].dict] = owned[gate[registered].dict] \union {s}
    BY <1>0, <2>1, <2>2 DEF TypeOK
  <2>4. r # s => create[r].registered /\ Here(r)
    BY <1>b DEF Here
  <2>5. QED
    BY <1>0, <2>3, <2>4 DEF OpenIsOwned
<1>7. \A r \in Sessions : CreateSound(r)'
  BY <1>0, <1>a DEF TypeOK, OneAttach, AttachSound, CreateSound, Attaching, Here, NoGate, Gates, Live
<1>8. ASSUME ~LossWhileEnding, NEW r \in Sessions, Ungated(r)'
      PROVE  \E h \in Gates : /\ contain'[h].at = "spawned" \/ r \in contain'[h].todo
                             /\ gate'[h].dict = gate'[create'[r].gate].dict
  <2>1. Watched(r) /\ CreateSound(r)
    BY <1>8, <1>a DEF IInv
  <2>2. QED
    BY <1>0, <1>8, <2>1 DEF TypeOK, Watched, Ungated, CreateSound, LiveSound, Here, NoGate, Gates, Live
<1>9. QED
  BY <1>1, <1>2, <1>3, <1>4, <1>5, <1>6, <1>7, <1>8 DEF IInv, Watched

LEMMA ListSessionStep ==
  ASSUME IInv, NEW s \in Sessions,
         create[s].at = "owned",
         create' = [create EXCEPT ![s].at = "listed"],
         listed' = listed \union {s},
         UNCHANGED <<browser, connected, swap, registered, made, gate, owned, context, contain>>
  PROVE  IInv'
<1>0. TypeOK /\ OneAttach /\ AttachSound /\ LiveSound /\ SwapSound /\ OpenIsOwned /\ GatesAssumption
  BY GatesAssumption DEF IInv
<1>a. \A r \in Sessions : CreateSound(r)
  BY DEF IInv
<1>b. /\ gate \in [Gates -> GateRec] /\ create \in [Sessions -> CreateRec(made, browser)]
      /\ contain \in [Gates -> ContainRec] /\ made \in Nat /\ made <= GatesMax /\ GatesMax \in Nat
      /\ browser \in Nat /\ registered \in 0..made
  BY <1>0, Types
<1>c. create \in [Sessions -> CreateRec(made', browser')]
  BY <1>b
<1>1. TypeOK'
  <2>1. /\ browser' \in 1..BrowsersMax /\ connected' \in BOOLEAN /\ swap' \in {"idle", "connecting", "closing"}
        /\ made' \in 0..GatesMax /\ registered' \in 0..made'
    BY <1>0 DEF TypeOK, SwapSound, Gates, NoGate
  <2>2. gate' \in [Gates -> GateRec]
    BY <1>b
  <2>3. owned' \in [Gates -> SUBSET Sessions] /\ context' \in [Sessions -> {"none", "open", "closed"}]
    BY <1>0 DEF TypeOK, SwapSound, Gates, NoGate
  <2>4. create' \in [Sessions -> CreateRec(made', browser')]
    BY <1>0, <1>b, <1>c, CreateAt DEF TypeOK, GateStates, CreateSteps, ContainSteps, Attaching, NoGate, Gates
  <2>5. listed' \subseteq {r \in Sessions : create'[r].at \in {"listed", "active"}}
    BY <1>0 DEF TypeOK, SwapSound, Gates, NoGate
  <2>6. contain' \in [Gates -> ContainRec]
    BY <1>b
  <2>7. /\ \A h \in Gates : gate'[h].state = "attaching" => h = made'
        /\ \A h \in Gates : gate'[h].state = "live" => h = registered'
    BY <1>0 DEF TypeOK, SwapSound, Gates, NoGate, AttachSound, LiveSound, Attaching
  <2>8. QED
    BY <2>1, <2>2, <2>3, <2>4, <2>5, <2>6, <2>7 DEF TypeOK, GateRec, GateStates, CreateRec, CreateSteps,
       ContainRec, ContainSteps
<1>2. OneAttach'
  BY <1>0 DEF TypeOK, OneAttach, Attaching, NoGate, Gates
<1>3. AttachSound'
  BY <1>0, <1>a DEF TypeOK, OneAttach, AttachSound, CreateSound, Attaching, Here, NoGate, Gates
<1>4. LiveSound'
  BY <1>0 DEF TypeOK, AttachSound, LiveSound, Attaching, Here, NoGate, Gates
<1>5. SwapSound'
  BY <1>0, <1>a DEF TypeOK, SwapSound, CreateSound, NoGate
<1>6. OpenIsOwned'
  BY <1>0, <1>a DEF TypeOK, OpenIsOwned, OneAttach, AttachSound, CreateSound, Attaching, Here, NoGate, Gates
<1>7. \A r \in Sessions : CreateSound(r)'
  BY <1>0, <1>a DEF TypeOK, OneAttach, AttachSound, CreateSound, Attaching, Here, NoGate, Gates
<1>8. ASSUME ~LossWhileEnding, NEW r \in Sessions, Ungated(r)'
      PROVE  \E h \in Gates : /\ contain'[h].at = "spawned" \/ r \in contain'[h].todo
                             /\ gate'[h].dict = gate'[create'[r].gate].dict
  <2>1. Watched(r) /\ CreateSound(r)
    BY <1>8, <1>a DEF IInv
  <2>2. QED
    BY <1>0, <1>8, <2>1 DEF TypeOK, Watched, Ungated, CreateSound, LiveSound, Here, NoGate, Gates
<1>9. QED
  BY <1>1, <1>2, <1>3, <1>4, <1>5, <1>6, <1>7, <1>8 DEF IInv, Watched

LEMMA HandOutStep ==
  ASSUME IInv, NEW s \in Sessions,
         create[s].at = "listed", Live(create[s].gate),
         create' = [create EXCEPT ![s].at = "active"],
         UNCHANGED <<browser, connected, swap, registered, made, gate, owned, context, listed, contain>>
  PROVE  IInv'
<1>0. TypeOK /\ OneAttach /\ AttachSound /\ LiveSound /\ SwapSound /\ OpenIsOwned /\ GatesAssumption
  BY GatesAssumption DEF IInv
<1>a. \A r \in Sessions : CreateSound(r)
  BY DEF IInv
<1>b. /\ gate \in [Gates -> GateRec] /\ create \in [Sessions -> CreateRec(made, browser)]
      /\ contain \in [Gates -> ContainRec] /\ made \in Nat /\ made <= GatesMax /\ GatesMax \in Nat
      /\ browser \in Nat /\ registered \in 0..made
  BY <1>0, Types
<1>c. create \in [Sessions -> CreateRec(made', browser')]
  BY <1>b
<1>1. TypeOK'
  <2>1. /\ browser' \in 1..BrowsersMax /\ connected' \in BOOLEAN /\ swap' \in {"idle", "connecting", "closing"}
        /\ made' \in 0..GatesMax /\ registered' \in 0..made'
    BY <1>0 DEF TypeOK, SwapSound, Gates, NoGate, Live
  <2>2. gate' \in [Gates -> GateRec]
    BY <1>b
  <2>3. owned' \in [Gates -> SUBSET Sessions] /\ context' \in [Sessions -> {"none", "open", "closed"}]
    BY <1>0 DEF TypeOK, SwapSound, Gates, NoGate, Live
  <2>4. create' \in [Sessions -> CreateRec(made', browser')]
    BY <1>0, <1>b, <1>c, CreateAt DEF TypeOK, GateStates, CreateSteps, ContainSteps, Attaching, NoGate, Gates,
       Live
  <2>5. listed' \subseteq {r \in Sessions : create'[r].at \in {"listed", "active"}}
    BY <1>0 DEF TypeOK, SwapSound, Gates, NoGate, Live
  <2>6. contain' \in [Gates -> ContainRec]
    BY <1>b
  <2>7. /\ \A h \in Gates : gate'[h].state = "attaching" => h = made'
        /\ \A h \in Gates : gate'[h].state = "live" => h = registered'
    BY <1>0 DEF TypeOK, SwapSound, Gates, NoGate, Live, AttachSound, LiveSound, Attaching
  <2>8. QED
    BY <2>1, <2>2, <2>3, <2>4, <2>5, <2>6, <2>7 DEF TypeOK, GateRec, GateStates, CreateRec, CreateSteps,
       ContainRec, ContainSteps
<1>2. OneAttach'
  BY <1>0 DEF TypeOK, OneAttach, Attaching, NoGate, Gates, Live
<1>3. AttachSound'
  BY <1>0, <1>a DEF TypeOK, OneAttach, AttachSound, CreateSound, Attaching, Here, NoGate, Gates, Live
<1>4. LiveSound'
  BY <1>0 DEF TypeOK, AttachSound, LiveSound, Attaching, Here, NoGate, Gates, Live
<1>5. SwapSound'
  BY <1>0, <1>a DEF TypeOK, SwapSound, CreateSound, NoGate, Live
<1>6. OpenIsOwned'
  BY <1>0, <1>a DEF TypeOK, OpenIsOwned, OneAttach, AttachSound, CreateSound, Attaching, Here, NoGate, Gates,
     Live
<1>7. \A r \in Sessions : CreateSound(r)'
  BY <1>0, <1>a DEF TypeOK, OneAttach, AttachSound, CreateSound, Attaching, Here, NoGate, Gates, Live
<1>8. ASSUME ~LossWhileEnding, NEW r \in Sessions, Ungated(r)'
      PROVE  \E h \in Gates : /\ contain'[h].at = "spawned" \/ r \in contain'[h].todo
                             /\ gate'[h].dict = gate'[create'[r].gate].dict
  <2>1. Watched(r) /\ CreateSound(r)
    BY <1>8, <1>a DEF IInv
  <2>2. QED
    BY <1>0, <1>8, <2>1 DEF TypeOK, Watched, Ungated, CreateSound, LiveSound, Here, NoGate, Gates, Live
<1>9. QED
  BY <1>1, <1>2, <1>3, <1>4, <1>5, <1>6, <1>7, <1>8 DEF IInv, Watched

LEMMA RollBackClosedStep ==
  ASSUME IInv, NEW s \in Sessions,
         create[s].at \in {"opened", "owned", "listed"},
         owned' = [d \in Gates |-> owned[d] \ {s}],
         create' = [create EXCEPT ![s].at = "failed"],
         context' = [context EXCEPT ![s] = "closed"],
         listed' = listed \ {s},
         UNCHANGED <<browser, connected, swap, registered, made, gate, contain>>
  PROVE  IInv'
<1>0. TypeOK /\ OneAttach /\ AttachSound /\ LiveSound /\ SwapSound /\ OpenIsOwned /\ GatesAssumption
  BY GatesAssumption DEF IInv
<1>a. \A r \in Sessions : CreateSound(r)
  BY DEF IInv
<1>b. /\ gate \in [Gates -> GateRec] /\ create \in [Sessions -> CreateRec(made, browser)]
      /\ contain \in [Gates -> ContainRec] /\ made \in Nat /\ made <= GatesMax /\ GatesMax \in Nat
      /\ browser \in Nat /\ registered \in 0..made
  BY <1>0, Types
<1>c. create \in [Sessions -> CreateRec(made', browser')]
  BY <1>b
<1>1. TypeOK'
  <2>1. /\ browser' \in 1..BrowsersMax /\ connected' \in BOOLEAN /\ swap' \in {"idle", "connecting", "closing"}
        /\ made' \in 0..GatesMax /\ registered' \in 0..made'
    BY <1>0 DEF TypeOK, SwapSound, Gates, NoGate
  <2>2. gate' \in [Gates -> GateRec]
    BY <1>b
  <2>3. owned' \in [Gates -> SUBSET Sessions] /\ context' \in [Sessions -> {"none", "open", "closed"}]
    BY <1>0 DEF TypeOK, SwapSound, Gates, NoGate
  <2>4. create' \in [Sessions -> CreateRec(made', browser')]
    BY <1>0, <1>b, <1>c, CreateAt DEF TypeOK, GateStates, CreateSteps, ContainSteps, Attaching, NoGate, Gates
  <2>5. listed' \subseteq {r \in Sessions : create'[r].at \in {"listed", "active"}}
    BY <1>0 DEF TypeOK, SwapSound, Gates, NoGate
  <2>6. contain' \in [Gates -> ContainRec]
    BY <1>b
  <2>7. /\ \A h \in Gates : gate'[h].state = "attaching" => h = made'
        /\ \A h \in Gates : gate'[h].state = "live" => h = registered'
    BY <1>0 DEF TypeOK, SwapSound, Gates, NoGate, AttachSound, LiveSound, Attaching
  <2>8. QED
    BY <2>1, <2>2, <2>3, <2>4, <2>5, <2>6, <2>7 DEF TypeOK, GateRec, GateStates, CreateRec, CreateSteps,
       ContainRec, ContainSteps
<1>2. OneAttach'
  BY <1>0 DEF TypeOK, OneAttach, Attaching, NoGate, Gates
<1>3. AttachSound'
  BY <1>0, <1>a DEF TypeOK, OneAttach, AttachSound, CreateSound, Attaching, Here, NoGate, Gates
<1>4. LiveSound'
  BY <1>0 DEF TypeOK, AttachSound, LiveSound, Attaching, Here, NoGate, Gates
<1>5. SwapSound'
  BY <1>0, <1>a DEF TypeOK, SwapSound, CreateSound, NoGate
<1>6. OpenIsOwned'
  BY <1>0, <1>a DEF TypeOK, OpenIsOwned, OneAttach, AttachSound, CreateSound, Attaching, Here, NoGate, Gates
<1>7. \A r \in Sessions : CreateSound(r)'
  BY <1>0, <1>a DEF TypeOK, OneAttach, AttachSound, CreateSound, Attaching, Here, NoGate, Gates
<1>8. ASSUME ~LossWhileEnding, NEW r \in Sessions, Ungated(r)'
      PROVE  \E h \in Gates : /\ contain'[h].at = "spawned" \/ r \in contain'[h].todo
                             /\ gate'[h].dict = gate'[create'[r].gate].dict
  <2>1. Watched(r) /\ CreateSound(r)
    BY <1>8, <1>a DEF IInv
  <2>2. QED
    BY <1>0, <1>8, <2>1 DEF TypeOK, Watched, Ungated, CreateSound, LiveSound, Here, NoGate, Gates
<1>9. QED
  BY <1>1, <1>2, <1>3, <1>4, <1>5, <1>6, <1>7, <1>8 DEF IInv, Watched

LEMMA RollBackOpenStep ==
  ASSUME IInv, NEW s \in Sessions,
         create[s].at \in {"opened", "owned", "listed"},
         create' = [create EXCEPT ![s].at = "failed"],
         listed' = listed \ {s},
         UNCHANGED <<browser, connected, swap, registered, made, gate, owned, context, contain>>
  PROVE  IInv'
<1>0. TypeOK /\ OneAttach /\ AttachSound /\ LiveSound /\ SwapSound /\ OpenIsOwned /\ GatesAssumption
  BY GatesAssumption DEF IInv
<1>a. \A r \in Sessions : CreateSound(r)
  BY DEF IInv
<1>b. /\ gate \in [Gates -> GateRec] /\ create \in [Sessions -> CreateRec(made, browser)]
      /\ contain \in [Gates -> ContainRec] /\ made \in Nat /\ made <= GatesMax /\ GatesMax \in Nat
      /\ browser \in Nat /\ registered \in 0..made
  BY <1>0, Types
<1>c. create \in [Sessions -> CreateRec(made', browser')]
  BY <1>b
<1>1. TypeOK'
  <2>1. /\ browser' \in 1..BrowsersMax /\ connected' \in BOOLEAN /\ swap' \in {"idle", "connecting", "closing"}
        /\ made' \in 0..GatesMax /\ registered' \in 0..made'
    BY <1>0 DEF TypeOK, SwapSound, Gates, NoGate
  <2>2. gate' \in [Gates -> GateRec]
    BY <1>b
  <2>3. owned' \in [Gates -> SUBSET Sessions] /\ context' \in [Sessions -> {"none", "open", "closed"}]
    BY <1>0 DEF TypeOK, SwapSound, Gates, NoGate
  <2>4. create' \in [Sessions -> CreateRec(made', browser')]
    BY <1>0, <1>b, <1>c, CreateAt DEF TypeOK, GateStates, CreateSteps, ContainSteps, Attaching, NoGate, Gates
  <2>5. listed' \subseteq {r \in Sessions : create'[r].at \in {"listed", "active"}}
    BY <1>0 DEF TypeOK, SwapSound, Gates, NoGate
  <2>6. contain' \in [Gates -> ContainRec]
    BY <1>b
  <2>7. /\ \A h \in Gates : gate'[h].state = "attaching" => h = made'
        /\ \A h \in Gates : gate'[h].state = "live" => h = registered'
    BY <1>0 DEF TypeOK, SwapSound, Gates, NoGate, AttachSound, LiveSound, Attaching
  <2>8. QED
    BY <2>1, <2>2, <2>3, <2>4, <2>5, <2>6, <2>7 DEF TypeOK, GateRec, GateStates, CreateRec, CreateSteps,
       ContainRec, ContainSteps
<1>2. OneAttach'
  BY <1>0 DEF TypeOK, OneAttach, Attaching, NoGate, Gates
<1>3. AttachSound'
  BY <1>0, <1>a DEF TypeOK, OneAttach, AttachSound, CreateSound, Attaching, Here, NoGate, Gates
<1>4. LiveSound'
  BY <1>0 DEF TypeOK, AttachSound, LiveSound, Attaching, Here, NoGate, Gates
<1>5. SwapSound'
  BY <1>0, <1>a DEF TypeOK, SwapSound, CreateSound, NoGate
<1>6. OpenIsOwned'
  BY <1>0, <1>a DEF TypeOK, OpenIsOwned, OneAttach, AttachSound, CreateSound, Attaching, Here, NoGate, Gates
<1>7. \A r \in Sessions : CreateSound(r)'
  BY <1>0, <1>a DEF TypeOK, OneAttach, AttachSound, CreateSound, Attaching, Here, NoGate, Gates
<1>8. ASSUME ~LossWhileEnding, NEW r \in Sessions, Ungated(r)'
      PROVE  \E h \in Gates : /\ contain'[h].at = "spawned" \/ r \in contain'[h].todo
                             /\ gate'[h].dict = gate'[create'[r].gate].dict
  <2>1. Watched(r) /\ CreateSound(r)
    BY <1>8, <1>a DEF IInv
  <2>2. QED
    BY <1>0, <1>8, <2>1 DEF TypeOK, Watched, Ungated, CreateSound, LiveSound, Here, NoGate, Gates
<1>9. QED
  BY <1>1, <1>2, <1>3, <1>4, <1>5, <1>6, <1>7, <1>8 DEF IInv, Watched

LEMMA CloseClosedStep ==
  ASSUME IInv, NEW s \in Sessions,
         create[s].at = "active",
         owned' = [d \in Gates |-> owned[d] \ {s}],
         context' = [context EXCEPT ![s] = "closed"],
         listed' = listed \ {s},
         UNCHANGED <<browser, connected, swap, registered, made, gate, create, contain>>
  PROVE  IInv'
<1>0. TypeOK /\ OneAttach /\ AttachSound /\ LiveSound /\ SwapSound /\ OpenIsOwned /\ GatesAssumption
  BY GatesAssumption DEF IInv
<1>a. \A r \in Sessions : CreateSound(r)
  BY DEF IInv
<1>b. /\ gate \in [Gates -> GateRec] /\ create \in [Sessions -> CreateRec(made, browser)]
      /\ contain \in [Gates -> ContainRec] /\ made \in Nat /\ made <= GatesMax /\ GatesMax \in Nat
      /\ browser \in Nat /\ registered \in 0..made
  BY <1>0, Types
<1>c. create \in [Sessions -> CreateRec(made', browser')]
  BY <1>b
<1>1. TypeOK'
  <2>1. /\ browser' \in 1..BrowsersMax /\ connected' \in BOOLEAN /\ swap' \in {"idle", "connecting", "closing"}
        /\ made' \in 0..GatesMax /\ registered' \in 0..made'
    BY <1>0 DEF TypeOK, SwapSound, Gates, NoGate
  <2>2. gate' \in [Gates -> GateRec]
    BY <1>b
  <2>3. owned' \in [Gates -> SUBSET Sessions] /\ context' \in [Sessions -> {"none", "open", "closed"}]
    BY <1>0 DEF TypeOK, SwapSound, Gates, NoGate
  <2>4. create' \in [Sessions -> CreateRec(made', browser')]
    BY <1>b, <1>c
  <2>5. listed' \subseteq {r \in Sessions : create'[r].at \in {"listed", "active"}}
    BY <1>0 DEF TypeOK, SwapSound, Gates, NoGate
  <2>6. contain' \in [Gates -> ContainRec]
    BY <1>b
  <2>7. /\ \A h \in Gates : gate'[h].state = "attaching" => h = made'
        /\ \A h \in Gates : gate'[h].state = "live" => h = registered'
    BY <1>0 DEF TypeOK, SwapSound, Gates, NoGate, AttachSound, LiveSound, Attaching
  <2>8. QED
    BY <2>1, <2>2, <2>3, <2>4, <2>5, <2>6, <2>7 DEF TypeOK, GateRec, GateStates, CreateRec, CreateSteps,
       ContainRec, ContainSteps
<1>2. OneAttach'
  BY <1>0 DEF TypeOK, OneAttach, Attaching, NoGate, Gates
<1>3. AttachSound'
  BY <1>0, <1>a DEF TypeOK, OneAttach, AttachSound, CreateSound, Attaching, Here, NoGate, Gates
<1>4. LiveSound'
  BY <1>0 DEF TypeOK, AttachSound, LiveSound, Attaching, Here, NoGate, Gates
<1>5. SwapSound'
  BY <1>0, <1>a DEF TypeOK, SwapSound, CreateSound, NoGate
<1>6. OpenIsOwned'
  <2> SUFFICES ASSUME NEW r \in Sessions, context'[r] = "open", create[r].registered, Here(r), registered # NoGate
               PROVE  r \in owned'[gate[registered].dict]
    BY DEF OpenIsOwned, Here
  <2>1. r # s /\ context[r] = "open"
    BY <1>0 DEF TypeOK
  <2>2. registered \in Gates /\ gate[registered].dict \in Gates
    BY <1>0, <1>b DEF TypeOK, NoGate, Gates, GateRec
  <2>3. r \in owned[gate[registered].dict]
    BY <1>0, <2>1 DEF OpenIsOwned
  <2>4. QED
    BY <2>1, <2>2, <2>3
<1>7. \A r \in Sessions : CreateSound(r)'
  BY <1>0, <1>a DEF TypeOK, OneAttach, AttachSound, CreateSound, Attaching, Here, NoGate, Gates
<1>8. ASSUME ~LossWhileEnding, NEW r \in Sessions, Ungated(r)'
      PROVE  \E h \in Gates : /\ contain'[h].at = "spawned" \/ r \in contain'[h].todo
                             /\ gate'[h].dict = gate'[create'[r].gate].dict
  <2>1. Watched(r) /\ CreateSound(r)
    BY <1>8, <1>a DEF IInv
  <2>2. QED
    BY <1>0, <1>8, <2>1 DEF TypeOK, Watched, Ungated, CreateSound, LiveSound, Here, NoGate, Gates
<1>9. QED
  BY <1>1, <1>2, <1>3, <1>4, <1>5, <1>6, <1>7, <1>8 DEF IInv, Watched

LEMMA CloseOpenStep ==
  ASSUME IInv, NEW s \in Sessions,
         create[s].at = "active",
         listed' = listed \ {s},
         UNCHANGED <<browser, connected, swap, registered, made, gate, owned, create, context, contain>>
  PROVE  IInv'
<1>0. TypeOK /\ OneAttach /\ AttachSound /\ LiveSound /\ SwapSound /\ OpenIsOwned /\ GatesAssumption
  BY GatesAssumption DEF IInv
<1>a. \A r \in Sessions : CreateSound(r)
  BY DEF IInv
<1>b. /\ gate \in [Gates -> GateRec] /\ create \in [Sessions -> CreateRec(made, browser)]
      /\ contain \in [Gates -> ContainRec] /\ made \in Nat /\ made <= GatesMax /\ GatesMax \in Nat
      /\ browser \in Nat /\ registered \in 0..made
  BY <1>0, Types
<1>c. create \in [Sessions -> CreateRec(made', browser')]
  BY <1>b
<1>1. TypeOK'
  <2>1. /\ browser' \in 1..BrowsersMax /\ connected' \in BOOLEAN /\ swap' \in {"idle", "connecting", "closing"}
        /\ made' \in 0..GatesMax /\ registered' \in 0..made'
    BY <1>0 DEF TypeOK, SwapSound, Gates, NoGate
  <2>2. gate' \in [Gates -> GateRec]
    BY <1>b
  <2>3. owned' \in [Gates -> SUBSET Sessions] /\ context' \in [Sessions -> {"none", "open", "closed"}]
    BY <1>0 DEF TypeOK, SwapSound, Gates, NoGate
  <2>4. create' \in [Sessions -> CreateRec(made', browser')]
    BY <1>b, <1>c
  <2>5. listed' \subseteq {r \in Sessions : create'[r].at \in {"listed", "active"}}
    BY <1>0 DEF TypeOK, SwapSound, Gates, NoGate
  <2>6. contain' \in [Gates -> ContainRec]
    BY <1>b
  <2>7. /\ \A h \in Gates : gate'[h].state = "attaching" => h = made'
        /\ \A h \in Gates : gate'[h].state = "live" => h = registered'
    BY <1>0 DEF TypeOK, SwapSound, Gates, NoGate, AttachSound, LiveSound, Attaching
  <2>8. QED
    BY <2>1, <2>2, <2>3, <2>4, <2>5, <2>6, <2>7 DEF TypeOK, GateRec, GateStates, CreateRec, CreateSteps,
       ContainRec, ContainSteps
<1>2. OneAttach'
  BY <1>0 DEF TypeOK, OneAttach, Attaching, NoGate, Gates
<1>3. AttachSound'
  BY <1>0, <1>a DEF TypeOK, OneAttach, AttachSound, CreateSound, Attaching, Here, NoGate, Gates
<1>4. LiveSound'
  BY <1>0 DEF TypeOK, AttachSound, LiveSound, Attaching, Here, NoGate, Gates
<1>5. SwapSound'
  BY <1>0, <1>a DEF TypeOK, SwapSound, CreateSound, NoGate
<1>6. OpenIsOwned'
  BY <1>0, <1>a DEF TypeOK, OpenIsOwned, OneAttach, AttachSound, CreateSound, Attaching, Here, NoGate, Gates
<1>7. \A r \in Sessions : CreateSound(r)'
  BY <1>0, <1>a DEF TypeOK, OneAttach, AttachSound, CreateSound, Attaching, Here, NoGate, Gates
<1>8. ASSUME ~LossWhileEnding, NEW r \in Sessions, Ungated(r)'
      PROVE  \E h \in Gates : /\ contain'[h].at = "spawned" \/ r \in contain'[h].todo
                             /\ gate'[h].dict = gate'[create'[r].gate].dict
  <2>1. Watched(r) /\ CreateSound(r)
    BY <1>8, <1>a DEF IInv
  <2>2. QED
    BY <1>0, <1>8, <2>1 DEF TypeOK, Watched, Ungated, CreateSound, LiveSound, Here, NoGate, Gates
<1>9. QED
  BY <1>1, <1>2, <1>3, <1>4, <1>5, <1>6, <1>7, <1>8 DEF IInv, Watched

LEMMA LoseGateStep ==
  ASSUME IInv, NEW g \in Gates,
         connected, gate[g].state = "live", LossWhileEnding \/ \A h \in Gates : contain[h].at # "disconnecting",
         gate' = [gate EXCEPT ![g].state = "lost"],
         contain' = Spawned(g),
         UNCHANGED <<browser, connected, swap, registered, made, owned, create, context, listed>>
  PROVE  IInv'
<1>0. TypeOK /\ OneAttach /\ AttachSound /\ LiveSound /\ SwapSound /\ OpenIsOwned /\ GatesAssumption
  BY GatesAssumption DEF IInv
<1>a. \A r \in Sessions : CreateSound(r)
  BY DEF IInv
<1>b. /\ gate \in [Gates -> GateRec] /\ create \in [Sessions -> CreateRec(made, browser)]
      /\ contain \in [Gates -> ContainRec] /\ made \in Nat /\ made <= GatesMax /\ GatesMax \in Nat
      /\ browser \in Nat /\ registered \in 0..made
  BY <1>0, Types
<1>c. create \in [Sessions -> CreateRec(made', browser')]
  BY <1>b
<1>1. TypeOK'
  <2>1. /\ browser' \in 1..BrowsersMax /\ connected' \in BOOLEAN /\ swap' \in {"idle", "connecting", "closing"}
        /\ made' \in 0..GatesMax /\ registered' \in 0..made'
    BY <1>0 DEF TypeOK, SwapSound, Gates, NoGate, Spawned
  <2>2. gate' \in [Gates -> GateRec]
    BY <1>0, <1>b, GateState DEF ContainRec, TypeOK, GateStates, CreateSteps, ContainSteps, Attaching, NoGate,
       Gates, Spawned
  <2>3. owned' \in [Gates -> SUBSET Sessions] /\ context' \in [Sessions -> {"none", "open", "closed"}]
    BY <1>0 DEF TypeOK, SwapSound, Gates, NoGate, Spawned
  <2>4. create' \in [Sessions -> CreateRec(made', browser')]
    BY <1>b, <1>c
  <2>5. listed' \subseteq {r \in Sessions : create'[r].at \in {"listed", "active"}}
    BY <1>0 DEF TypeOK, SwapSound, Gates, NoGate, Spawned
  <2>6. contain' \in [Gates -> ContainRec]
    BY <1>0, <1>b, ContainAt DEF ContainRec, TypeOK, GateStates, CreateSteps, ContainSteps, Attaching, NoGate,
       Gates, Spawned
  <2>7. /\ \A h \in Gates : gate'[h].state = "attaching" => h = made'
        /\ \A h \in Gates : gate'[h].state = "live" => h = registered'
    BY <1>0 DEF TypeOK, SwapSound, Gates, NoGate, Spawned, AttachSound, LiveSound, Attaching
  <2>8. QED
    BY <2>1, <2>2, <2>3, <2>4, <2>5, <2>6, <2>7 DEF TypeOK, GateRec, GateStates, CreateRec, CreateSteps,
       ContainRec, ContainSteps
<1>2. OneAttach'
  BY <1>0 DEF TypeOK, OneAttach, Attaching, NoGate, Gates, Spawned
<1>3. AttachSound'
  BY <1>0, <1>a DEF TypeOK, OneAttach, AttachSound, CreateSound, Attaching, Here, NoGate, Gates, Spawned
<1>4. LiveSound'
  BY <1>0 DEF TypeOK, AttachSound, LiveSound, Attaching, Here, NoGate, Gates, Spawned
<1>5. SwapSound'
  BY <1>0, <1>a DEF TypeOK, SwapSound, CreateSound, NoGate, Spawned
<1>6. OpenIsOwned'
  BY <1>0, <1>a DEF TypeOK, OpenIsOwned, OneAttach, AttachSound, CreateSound, Attaching, Here, NoGate, Gates,
     Spawned
<1>7. \A r \in Sessions : CreateSound(r)'
  BY <1>0, <1>a DEF TypeOK, OneAttach, AttachSound, CreateSound, Attaching, Here, NoGate, Gates, Spawned
<1>8. ASSUME ~LossWhileEnding, NEW r \in Sessions, Ungated(r)'
      PROVE  \E h \in Gates : /\ contain'[h].at = "spawned" \/ r \in contain'[h].todo
                             /\ gate'[h].dict = gate'[create'[r].gate].dict
  <2>1. Watched(r) /\ CreateSound(r)
    BY <1>8, <1>a DEF IInv
  <2>2. QED
    BY <1>0, <1>8, <2>1 DEF TypeOK, Watched, Ungated, CreateSound, LiveSound, Here, NoGate, Gates, Spawned
<1>9. QED
  BY <1>1, <1>2, <1>3, <1>4, <1>5, <1>6, <1>7, <1>8 DEF IInv, Watched

LEMMA ContainBeginsStep ==
  ASSUME IInv, NEW g \in Gates,
         contain[g].at = "spawned", OnBrowser(g),
         contain' = [contain EXCEPT ![g] = [at |-> "require", todo |-> ToClose(g), failed |-> {}]],
         UNCHANGED <<browser, connected, swap, registered, made, gate, owned, create, context, listed>>
  PROVE  IInv'
<1>0. TypeOK /\ OneAttach /\ AttachSound /\ LiveSound /\ SwapSound /\ OpenIsOwned /\ GatesAssumption
  BY GatesAssumption DEF IInv
<1>a. \A r \in Sessions : CreateSound(r)
  BY DEF IInv
<1>b. /\ gate \in [Gates -> GateRec] /\ create \in [Sessions -> CreateRec(made, browser)]
      /\ contain \in [Gates -> ContainRec] /\ made \in Nat /\ made <= GatesMax /\ GatesMax \in Nat
      /\ browser \in Nat /\ registered \in 0..made
  BY <1>0, Types
<1>c. create \in [Sessions -> CreateRec(made', browser')]
  BY <1>b
<1>1. TypeOK'
  <2>1. /\ browser' \in 1..BrowsersMax /\ connected' \in BOOLEAN /\ swap' \in {"idle", "connecting", "closing"}
        /\ made' \in 0..GatesMax /\ registered' \in 0..made'
    BY <1>0 DEF TypeOK, SwapSound, Gates, NoGate, OnBrowser, ToClose
  <2>2. gate' \in [Gates -> GateRec]
    BY <1>b
  <2>3. owned' \in [Gates -> SUBSET Sessions] /\ context' \in [Sessions -> {"none", "open", "closed"}]
    BY <1>0 DEF TypeOK, SwapSound, Gates, NoGate, OnBrowser, ToClose
  <2>4. create' \in [Sessions -> CreateRec(made', browser')]
    BY <1>b, <1>c
  <2>5. listed' \subseteq {r \in Sessions : create'[r].at \in {"listed", "active"}}
    BY <1>0 DEF TypeOK, SwapSound, Gates, NoGate, OnBrowser, ToClose
  <2>6. contain' \in [Gates -> ContainRec]
    BY <1>0, <1>b DEF ContainRec, TypeOK, GateStates, CreateSteps, ContainSteps, Attaching, NoGate, Gates,
       OnBrowser, ToClose
  <2>7. /\ \A h \in Gates : gate'[h].state = "attaching" => h = made'
        /\ \A h \in Gates : gate'[h].state = "live" => h = registered'
    BY <1>0 DEF TypeOK, SwapSound, Gates, NoGate, OnBrowser, ToClose, AttachSound, LiveSound, Attaching
  <2>8. QED
    BY <2>1, <2>2, <2>3, <2>4, <2>5, <2>6, <2>7 DEF TypeOK, GateRec, GateStates, CreateRec, CreateSteps,
       ContainRec, ContainSteps
<1>2. OneAttach'
  BY <1>0 DEF TypeOK, OneAttach, Attaching, NoGate, Gates, OnBrowser, ToClose
<1>3. AttachSound'
  BY <1>0, <1>a DEF TypeOK, OneAttach, AttachSound, CreateSound, Attaching, Here, NoGate, Gates, OnBrowser,
     ToClose
<1>4. LiveSound'
  BY <1>0 DEF TypeOK, AttachSound, LiveSound, Attaching, Here, NoGate, Gates, OnBrowser, ToClose
<1>5. SwapSound'
  BY <1>0, <1>a DEF TypeOK, SwapSound, CreateSound, NoGate, OnBrowser, ToClose
<1>6. OpenIsOwned'
  BY <1>0, <1>a DEF TypeOK, OpenIsOwned, OneAttach, AttachSound, CreateSound, Attaching, Here, NoGate, Gates,
     OnBrowser, ToClose
<1>7. \A r \in Sessions : CreateSound(r)'
  BY <1>0, <1>a DEF TypeOK, OneAttach, AttachSound, CreateSound, Attaching, Here, NoGate, Gates, OnBrowser,
     ToClose
<1>8. ASSUME ~LossWhileEnding, NEW r \in Sessions, Ungated(r)'
      PROVE  \E h \in Gates : /\ contain'[h].at = "spawned" \/ r \in contain'[h].todo
                             /\ gate'[h].dict = gate'[create'[r].gate].dict
  <2>1. Watched(r) /\ CreateSound(r)
    BY <1>8, <1>a DEF IInv
  <2>2. QED
    BY <1>0, <1>8, <2>1 DEF TypeOK, Watched, Ungated, CreateSound, LiveSound, Here, NoGate, Gates, OnBrowser,
       ToClose
<1>9. QED
  BY <1>1, <1>2, <1>3, <1>4, <1>5, <1>6, <1>7, <1>8 DEF IInv, Watched

LEMMA ContainNoneStep ==
  ASSUME IInv, NEW g \in Gates,
         contain[g].at = "spawned", ~OnBrowser(g),
         contain' = [contain EXCEPT ![g].at = "done"],
         UNCHANGED <<browser, connected, swap, registered, made, gate, owned, create, context, listed>>
  PROVE  IInv'
<1>0. TypeOK /\ OneAttach /\ AttachSound /\ LiveSound /\ SwapSound /\ OpenIsOwned /\ GatesAssumption
  BY GatesAssumption DEF IInv
<1>a. \A r \in Sessions : CreateSound(r)
  BY DEF IInv
<1>b. /\ gate \in [Gates -> GateRec] /\ create \in [Sessions -> CreateRec(made, browser)]
      /\ contain \in [Gates -> ContainRec] /\ made \in Nat /\ made <= GatesMax /\ GatesMax \in Nat
      /\ browser \in Nat /\ registered \in 0..made
  BY <1>0, Types
<1>c. create \in [Sessions -> CreateRec(made', browser')]
  BY <1>b
<1>1. TypeOK'
  <2>1. /\ browser' \in 1..BrowsersMax /\ connected' \in BOOLEAN /\ swap' \in {"idle", "connecting", "closing"}
        /\ made' \in 0..GatesMax /\ registered' \in 0..made'
    BY <1>0 DEF TypeOK, SwapSound, Gates, NoGate, OnBrowser
  <2>2. gate' \in [Gates -> GateRec]
    BY <1>b
  <2>3. owned' \in [Gates -> SUBSET Sessions] /\ context' \in [Sessions -> {"none", "open", "closed"}]
    BY <1>0 DEF TypeOK, SwapSound, Gates, NoGate, OnBrowser
  <2>4. create' \in [Sessions -> CreateRec(made', browser')]
    BY <1>b, <1>c
  <2>5. listed' \subseteq {r \in Sessions : create'[r].at \in {"listed", "active"}}
    BY <1>0 DEF TypeOK, SwapSound, Gates, NoGate, OnBrowser
  <2>6. contain' \in [Gates -> ContainRec]
    BY <1>0, <1>b, ContainAt DEF TypeOK, GateStates, CreateSteps, ContainSteps, Attaching, NoGate, Gates,
       OnBrowser
  <2>7. /\ \A h \in Gates : gate'[h].state = "attaching" => h = made'
        /\ \A h \in Gates : gate'[h].state = "live" => h = registered'
    BY <1>0 DEF TypeOK, SwapSound, Gates, NoGate, OnBrowser, AttachSound, LiveSound, Attaching
  <2>8. QED
    BY <2>1, <2>2, <2>3, <2>4, <2>5, <2>6, <2>7 DEF TypeOK, GateRec, GateStates, CreateRec, CreateSteps,
       ContainRec, ContainSteps
<1>2. OneAttach'
  BY <1>0 DEF TypeOK, OneAttach, Attaching, NoGate, Gates, OnBrowser
<1>3. AttachSound'
  BY <1>0, <1>a DEF TypeOK, OneAttach, AttachSound, CreateSound, Attaching, Here, NoGate, Gates, OnBrowser
<1>4. LiveSound'
  BY <1>0 DEF TypeOK, AttachSound, LiveSound, Attaching, Here, NoGate, Gates, OnBrowser
<1>5. SwapSound'
  BY <1>0, <1>a DEF TypeOK, SwapSound, CreateSound, NoGate, OnBrowser
<1>6. OpenIsOwned'
  BY <1>0, <1>a DEF TypeOK, OpenIsOwned, OneAttach, AttachSound, CreateSound, Attaching, Here, NoGate, Gates,
     OnBrowser
<1>7. \A r \in Sessions : CreateSound(r)'
  BY <1>0, <1>a DEF TypeOK, OneAttach, AttachSound, CreateSound, Attaching, Here, NoGate, Gates, OnBrowser
<1>8. ASSUME ~LossWhileEnding, NEW r \in Sessions, Ungated(r)'
      PROVE  \E h \in Gates : /\ contain'[h].at = "spawned" \/ r \in contain'[h].todo
                             /\ gate'[h].dict = gate'[create'[r].gate].dict
  <2>1. Watched(r) /\ CreateSound(r)
    BY <1>8, <1>a DEF IInv
  <2>2. QED
    BY <1>0, <1>8, <2>1 DEF TypeOK, Watched, Ungated, CreateSound, LiveSound, Here, NoGate, Gates, OnBrowser
<1>9. QED
  BY <1>1, <1>2, <1>3, <1>4, <1>5, <1>6, <1>7, <1>8 DEF IInv, Watched

LEMMA ContainStartStep ==
  ASSUME IInv, NEW g \in Gates,
         contain[g].at = "require", LockFree, OnBrowser(g), ~Live(registered), made < GatesMax,
         made' = made + 1,
         gate' = [gate EXCEPT ![made + 1] = [state |-> "attaching", deliberate |-> FALSE, dict |-> DictOf(made + 1)]],
         contain' = [contain EXCEPT ![g].at = "attaching"],
         UNCHANGED <<browser, connected, swap, registered, owned, create, context, listed>>
  PROVE  IInv'
<1>0. TypeOK /\ OneAttach /\ AttachSound /\ LiveSound /\ SwapSound /\ OpenIsOwned /\ GatesAssumption
  BY GatesAssumption DEF IInv
<1>a. \A r \in Sessions : CreateSound(r)
  BY DEF IInv
<1>b. /\ gate \in [Gates -> GateRec] /\ create \in [Sessions -> CreateRec(made, browser)]
      /\ contain \in [Gates -> ContainRec] /\ made \in Nat /\ made <= GatesMax /\ GatesMax \in Nat
      /\ browser \in Nat /\ registered \in 0..made
  BY <1>0, Types
<1>c. create \in [Sessions -> CreateRec(made', browser')]
  BY <1>b, CreateGrows DEF CreateRec, Gates
<1>d. /\ registered # NoGate /\ registered \in Gates /\ made + 1 \in Gates /\ registered # made + 1 /\ g \in Gates
      /\ \A h \in Gates : gate'[h].dict = IF h = made + 1 THEN gate[registered].dict ELSE gate[h].dict
      /\ \A h \in Gates : /\ contain'[h].todo = contain[h].todo
                          /\ contain[h].at = "spawned" => contain'[h].at = "spawned"
  BY <1>0, <1>b DEF TypeOK, NoGate, Gates, OnBrowser, DictOf, GateRec, ContainRec
<1>e. \A r \in Sessions : create[r].gate \in 0..made
  BY <1>b DEF CreateRec
<1>1. TypeOK'
  <2>1. /\ browser' \in 1..BrowsersMax /\ connected' \in BOOLEAN /\ swap' \in {"idle", "connecting", "closing"}
        /\ made' \in 0..GatesMax /\ registered' \in 0..made'
    BY <1>0 DEF TypeOK, SwapSound, Gates, NoGate, LockFree, Live, OnBrowser, DictOf
  <2>2. gate' \in [Gates -> GateRec]
    BY <1>0, <1>b DEF GateRec, TypeOK, GateStates, CreateSteps, ContainSteps, Attaching, NoGate, Gates,
       LockFree, Live, OnBrowser, DictOf
  <2>3. owned' \in [Gates -> SUBSET Sessions] /\ context' \in [Sessions -> {"none", "open", "closed"}]
    BY <1>0 DEF TypeOK, SwapSound, Gates, NoGate, LockFree, Live, OnBrowser, DictOf
  <2>4. create' \in [Sessions -> CreateRec(made', browser')]
    BY <1>b, <1>c
  <2>5. listed' \subseteq {r \in Sessions : create'[r].at \in {"listed", "active"}}
    BY <1>0 DEF TypeOK, SwapSound, Gates, NoGate, LockFree, Live, OnBrowser, DictOf
  <2>6. contain' \in [Gates -> ContainRec]
    BY <1>0, <1>b, ContainAt DEF GateRec, TypeOK, GateStates, CreateSteps, ContainSteps, Attaching, NoGate,
       Gates, LockFree, Live, OnBrowser, DictOf
  <2>7. /\ \A h \in Gates : gate'[h].state = "attaching" => h = made'
        /\ \A h \in Gates : gate'[h].state = "live" => h = registered'
    BY <1>0 DEF TypeOK, SwapSound, Gates, NoGate, LockFree, Live, OnBrowser, DictOf, AttachSound, LiveSound,
       Attaching
  <2>8. QED
    BY <2>1, <2>2, <2>3, <2>4, <2>5, <2>6, <2>7 DEF TypeOK, GateRec, GateStates, CreateRec, CreateSteps,
       ContainRec, ContainSteps
<1>2. OneAttach'
  BY <1>0, SMTT(30) DEF TypeOK, OneAttach, Attaching, NoGate, Gates, LockFree, Live, OnBrowser, DictOf
<1>3. AttachSound'
  BY <1>0, <1>a, SMTT(30) DEF TypeOK, OneAttach, AttachSound, CreateSound, Attaching, Here, NoGate, Gates,
     LockFree, Live, OnBrowser, DictOf
<1>4. LiveSound'
  BY <1>0 DEF TypeOK, AttachSound, LiveSound, Attaching, Here, NoGate, Gates, LockFree, Live, OnBrowser, DictOf
<1>5. SwapSound'
  BY <1>0, <1>a DEF TypeOK, SwapSound, CreateSound, NoGate, LockFree, Live, OnBrowser, DictOf
<1>6. OpenIsOwned'
  BY <1>0, <1>d DEF OpenIsOwned, Here
<1>7. \A r \in Sessions : CreateSound(r)'
  BY <1>0, <1>a DEF TypeOK, OneAttach, AttachSound, CreateSound, Attaching, Here, NoGate, Gates, LockFree, Live,
     OnBrowser, DictOf
<1>8. ASSUME ~LossWhileEnding, NEW r \in Sessions, Ungated(r)'
      PROVE  \E h \in Gates : /\ contain'[h].at = "spawned" \/ r \in contain'[h].todo
                             /\ gate'[h].dict = gate'[create'[r].gate].dict
  <2>1. Watched(r) /\ CreateSound(r) /\ Ungated(r)
    <3>1. create[r].gate # made + 1 /\ create[r].gate # NoGate => create[r].gate \in Gates
      BY <1>b, <1>e DEF Gates, NoGate
    <3>2. CreateSound(r) /\ Watched(r)
      BY <1>8, <1>a DEF IInv
    <3>3. create[r].gate # NoGate /\ create[r].gate # made + 1
      BY <1>8, <1>b, <1>e, <3>2 DEF Ungated, CreateSound
    <3>4. QED
      BY <1>8, <1>b, <3>1, <3>2, <3>3 DEF Ungated, Here
  <2>2. gate[registered].dict = gate[create[r].gate].dict /\ create[r].gate # NoGate
    BY <2>1 DEF CreateSound, Ungated
  <2>3. create[r].gate \in Gates /\ create[r].gate # made + 1
    BY <1>b, <1>d, <1>e, <2>2 DEF Gates, NoGate
  <2>4. PICK h \in Gates : /\ contain[h].at = "spawned" \/ r \in contain[h].todo
                          /\ gate[h].dict = gate[create[r].gate].dict
    BY <2>1 DEF Watched
  <2>5. gate'[h].dict = gate'[create'[r].gate].dict
    BY <1>d, <2>2, <2>3, <2>4
  <2>6. QED
    BY <1>d, <2>4, <2>5
<1>9. QED
  BY <1>1, <1>2, <1>3, <1>4, <1>5, <1>6, <1>7, <1>8 DEF IInv, Watched

LEMMA ContainGoOnStep ==
  ASSUME IInv, NEW g \in Gates,
         contain[g].at = "require",
         contain' = [contain EXCEPT ![g].at = "closing"],
         UNCHANGED <<browser, connected, swap, registered, made, gate, owned, create, context, listed>>
  PROVE  IInv'
<1>0. TypeOK /\ OneAttach /\ AttachSound /\ LiveSound /\ SwapSound /\ OpenIsOwned /\ GatesAssumption
  BY GatesAssumption DEF IInv
<1>a. \A r \in Sessions : CreateSound(r)
  BY DEF IInv
<1>b. /\ gate \in [Gates -> GateRec] /\ create \in [Sessions -> CreateRec(made, browser)]
      /\ contain \in [Gates -> ContainRec] /\ made \in Nat /\ made <= GatesMax /\ GatesMax \in Nat
      /\ browser \in Nat /\ registered \in 0..made
  BY <1>0, Types
<1>c. create \in [Sessions -> CreateRec(made', browser')]
  BY <1>b
<1>1. TypeOK'
  <2>1. /\ browser' \in 1..BrowsersMax /\ connected' \in BOOLEAN /\ swap' \in {"idle", "connecting", "closing"}
        /\ made' \in 0..GatesMax /\ registered' \in 0..made'
    BY <1>0 DEF TypeOK, SwapSound, Gates, NoGate
  <2>2. gate' \in [Gates -> GateRec]
    BY <1>b
  <2>3. owned' \in [Gates -> SUBSET Sessions] /\ context' \in [Sessions -> {"none", "open", "closed"}]
    BY <1>0 DEF TypeOK, SwapSound, Gates, NoGate
  <2>4. create' \in [Sessions -> CreateRec(made', browser')]
    BY <1>b, <1>c
  <2>5. listed' \subseteq {r \in Sessions : create'[r].at \in {"listed", "active"}}
    BY <1>0 DEF TypeOK, SwapSound, Gates, NoGate
  <2>6. contain' \in [Gates -> ContainRec]
    BY <1>0, <1>b, ContainAt DEF TypeOK, GateStates, CreateSteps, ContainSteps, Attaching, NoGate, Gates
  <2>7. /\ \A h \in Gates : gate'[h].state = "attaching" => h = made'
        /\ \A h \in Gates : gate'[h].state = "live" => h = registered'
    BY <1>0 DEF TypeOK, SwapSound, Gates, NoGate, AttachSound, LiveSound, Attaching
  <2>8. QED
    BY <2>1, <2>2, <2>3, <2>4, <2>5, <2>6, <2>7 DEF TypeOK, GateRec, GateStates, CreateRec, CreateSteps,
       ContainRec, ContainSteps
<1>2. OneAttach'
  BY <1>0 DEF TypeOK, OneAttach, Attaching, NoGate, Gates
<1>3. AttachSound'
  BY <1>0, <1>a DEF TypeOK, OneAttach, AttachSound, CreateSound, Attaching, Here, NoGate, Gates
<1>4. LiveSound'
  BY <1>0 DEF TypeOK, AttachSound, LiveSound, Attaching, Here, NoGate, Gates
<1>5. SwapSound'
  BY <1>0, <1>a DEF TypeOK, SwapSound, CreateSound, NoGate
<1>6. OpenIsOwned'
  BY <1>0, <1>a DEF TypeOK, OpenIsOwned, OneAttach, AttachSound, CreateSound, Attaching, Here, NoGate, Gates
<1>7. \A r \in Sessions : CreateSound(r)'
  BY <1>0, <1>a DEF TypeOK, OneAttach, AttachSound, CreateSound, Attaching, Here, NoGate, Gates
<1>8. ASSUME ~LossWhileEnding, NEW r \in Sessions, Ungated(r)'
      PROVE  \E h \in Gates : /\ contain'[h].at = "spawned" \/ r \in contain'[h].todo
                             /\ gate'[h].dict = gate'[create'[r].gate].dict
  <2>1. Watched(r) /\ CreateSound(r)
    BY <1>8, <1>a DEF IInv
  <2>2. QED
    BY <1>0, <1>8, <2>1 DEF TypeOK, Watched, Ungated, CreateSound, LiveSound, Here, NoGate, Gates
<1>9. QED
  BY <1>1, <1>2, <1>3, <1>4, <1>5, <1>6, <1>7, <1>8 DEF IInv, Watched

LEMMA ContainLiveStep ==
  ASSUME IInv, NEW g \in Gates,
         contain[g].at = "attaching", OnBrowser(g), Attaching,
         registered' = made,
         gate' = [gate EXCEPT ![made].state = "live"],
         contain' = [contain EXCEPT ![g].at = "closing"],
         UNCHANGED <<browser, connected, swap, made, owned, create, context, listed>>
  PROVE  IInv'
<1>0. TypeOK /\ OneAttach /\ AttachSound /\ LiveSound /\ SwapSound /\ OpenIsOwned /\ GatesAssumption
  BY GatesAssumption DEF IInv
<1>a. \A r \in Sessions : CreateSound(r)
  BY DEF IInv
<1>b. /\ gate \in [Gates -> GateRec] /\ create \in [Sessions -> CreateRec(made, browser)]
      /\ contain \in [Gates -> ContainRec] /\ made \in Nat /\ made <= GatesMax /\ GatesMax \in Nat
      /\ browser \in Nat /\ registered \in 0..made
  BY <1>0, Types
<1>c. create \in [Sessions -> CreateRec(made', browser')]
  BY <1>b
<1>1. TypeOK'
  <2>1. /\ browser' \in 1..BrowsersMax /\ connected' \in BOOLEAN /\ swap' \in {"idle", "connecting", "closing"}
        /\ made' \in 0..GatesMax /\ registered' \in 0..made'
    BY <1>0 DEF TypeOK, SwapSound, Gates, NoGate, Attaching, OnBrowser
  <2>2. gate' \in [Gates -> GateRec]
    BY <1>0, <1>b, GateState DEF TypeOK, GateStates, CreateSteps, ContainSteps, Attaching, NoGate, Gates,
       OnBrowser
  <2>3. owned' \in [Gates -> SUBSET Sessions] /\ context' \in [Sessions -> {"none", "open", "closed"}]
    BY <1>0 DEF TypeOK, SwapSound, Gates, NoGate, Attaching, OnBrowser
  <2>4. create' \in [Sessions -> CreateRec(made', browser')]
    BY <1>b, <1>c
  <2>5. listed' \subseteq {r \in Sessions : create'[r].at \in {"listed", "active"}}
    BY <1>0 DEF TypeOK, SwapSound, Gates, NoGate, Attaching, OnBrowser
  <2>6. contain' \in [Gates -> ContainRec]
    BY <1>0, <1>b, ContainAt DEF TypeOK, GateStates, CreateSteps, ContainSteps, Attaching, NoGate, Gates,
       OnBrowser
  <2>7. /\ \A h \in Gates : gate'[h].state = "attaching" => h = made'
        /\ \A h \in Gates : gate'[h].state = "live" => h = registered'
    BY <1>0 DEF TypeOK, SwapSound, Gates, NoGate, Attaching, OnBrowser, AttachSound, LiveSound
  <2>8. QED
    BY <2>1, <2>2, <2>3, <2>4, <2>5, <2>6, <2>7 DEF TypeOK, GateRec, GateStates, CreateRec, CreateSteps,
       ContainRec, ContainSteps
<1>2. OneAttach'
  BY <1>0 DEF TypeOK, OneAttach, Attaching, NoGate, Gates, OnBrowser
<1>3. AttachSound'
  BY <1>0, <1>a DEF TypeOK, OneAttach, AttachSound, CreateSound, Attaching, Here, NoGate, Gates, OnBrowser
<1>4. LiveSound'
  BY <1>0 DEF TypeOK, AttachSound, LiveSound, Attaching, Here, NoGate, Gates, OnBrowser
<1>5. SwapSound'
  BY <1>0, <1>a DEF TypeOK, SwapSound, CreateSound, NoGate, Attaching, OnBrowser
<1>6. OpenIsOwned'
  BY <1>0, <1>a DEF TypeOK, OpenIsOwned, OneAttach, AttachSound, CreateSound, Attaching, Here, NoGate, Gates,
     OnBrowser
<1>7. \A r \in Sessions : CreateSound(r)'
  BY <1>0, <1>a DEF TypeOK, OneAttach, AttachSound, CreateSound, Attaching, Here, NoGate, Gates, OnBrowser
<1>8. ASSUME ~LossWhileEnding, NEW r \in Sessions, Ungated(r)'
      PROVE  \E h \in Gates : /\ contain'[h].at = "spawned" \/ r \in contain'[h].todo
                             /\ gate'[h].dict = gate'[create'[r].gate].dict
  <2>1. \A h \in Gates : /\ gate'[h].dict = gate[h].dict
                         /\ contain'[h].todo = contain[h].todo
                         /\ (contain[h].at = "spawned" => contain'[h].at = "spawned")
                         /\ (gate'[h].state = "lost" => gate[h].state = "lost")
    BY <1>b DEF GateRec, ContainRec, Attaching
  <2>2. Watched(r) /\ CreateSound(r)
    BY <1>8, <1>a DEF IInv
  <2>3. create'[r] = create[r] /\ create[r].at = "active" /\ r \in listed /\ Here(r)
    BY <1>8, <1>b DEF Ungated, Here, CreateRec, CreateSteps
  <2>4. create[r].gate \in Gates
    BY <1>a, <1>b, <2>3 DEF Ungated, CreateSound, CreateRec, NoGate, Gates
  <2>5. Ungated(r)
    BY <1>8, <2>1, <2>3, <2>4 DEF Ungated
  <2>6. QED
    BY <2>1, <2>2, <2>3, <2>4, <2>5 DEF Watched
<1>9. QED
  BY <1>1, <1>2, <1>3, <1>4, <1>5, <1>6, <1>7, <1>8 DEF IInv, Watched

LEMMA ContainNotStep ==
  ASSUME IInv, NEW g \in Gates,
         contain[g].at = "attaching", Attaching,
         gate' = [gate EXCEPT ![made].state = "detached"],
         contain' = [contain EXCEPT ![g].at = "closing"],
         UNCHANGED <<browser, connected, swap, registered, made, owned, create, context, listed>>
  PROVE  IInv'
<1>0. TypeOK /\ OneAttach /\ AttachSound /\ LiveSound /\ SwapSound /\ OpenIsOwned /\ GatesAssumption
  BY GatesAssumption DEF IInv
<1>a. \A r \in Sessions : CreateSound(r)
  BY DEF IInv
<1>b. /\ gate \in [Gates -> GateRec] /\ create \in [Sessions -> CreateRec(made, browser)]
      /\ contain \in [Gates -> ContainRec] /\ made \in Nat /\ made <= GatesMax /\ GatesMax \in Nat
      /\ browser \in Nat /\ registered \in 0..made
  BY <1>0, Types
<1>c. create \in [Sessions -> CreateRec(made', browser')]
  BY <1>b
<1>1. TypeOK'
  <2>1. /\ browser' \in 1..BrowsersMax /\ connected' \in BOOLEAN /\ swap' \in {"idle", "connecting", "closing"}
        /\ made' \in 0..GatesMax /\ registered' \in 0..made'
    BY <1>0 DEF TypeOK, SwapSound, Gates, NoGate, Attaching
  <2>2. gate' \in [Gates -> GateRec]
    BY <1>0, <1>b, GateState DEF TypeOK, GateStates, CreateSteps, ContainSteps, Attaching, NoGate, Gates
  <2>3. owned' \in [Gates -> SUBSET Sessions] /\ context' \in [Sessions -> {"none", "open", "closed"}]
    BY <1>0 DEF TypeOK, SwapSound, Gates, NoGate, Attaching
  <2>4. create' \in [Sessions -> CreateRec(made', browser')]
    BY <1>b, <1>c
  <2>5. listed' \subseteq {r \in Sessions : create'[r].at \in {"listed", "active"}}
    BY <1>0 DEF TypeOK, SwapSound, Gates, NoGate, Attaching
  <2>6. contain' \in [Gates -> ContainRec]
    BY <1>0, <1>b, ContainAt DEF TypeOK, GateStates, CreateSteps, ContainSteps, Attaching, NoGate, Gates
  <2>7. /\ \A h \in Gates : gate'[h].state = "attaching" => h = made'
        /\ \A h \in Gates : gate'[h].state = "live" => h = registered'
    BY <1>0 DEF TypeOK, SwapSound, Gates, NoGate, Attaching, AttachSound, LiveSound
  <2>8. QED
    BY <2>1, <2>2, <2>3, <2>4, <2>5, <2>6, <2>7 DEF TypeOK, GateRec, GateStates, CreateRec, CreateSteps,
       ContainRec, ContainSteps
<1>2. OneAttach'
  BY <1>0 DEF TypeOK, OneAttach, Attaching, NoGate, Gates
<1>3. AttachSound'
  BY <1>0, <1>a DEF TypeOK, OneAttach, AttachSound, CreateSound, Attaching, Here, NoGate, Gates
<1>4. LiveSound'
  BY <1>0 DEF TypeOK, AttachSound, LiveSound, Attaching, Here, NoGate, Gates
<1>5. SwapSound'
  BY <1>0, <1>a DEF TypeOK, SwapSound, CreateSound, NoGate, Attaching
<1>6. OpenIsOwned'
  BY <1>0, <1>a DEF TypeOK, OpenIsOwned, OneAttach, AttachSound, CreateSound, Attaching, Here, NoGate, Gates
<1>7. \A r \in Sessions : CreateSound(r)'
  BY <1>0, <1>a DEF TypeOK, OneAttach, AttachSound, CreateSound, Attaching, Here, NoGate, Gates
<1>8. ASSUME ~LossWhileEnding, NEW r \in Sessions, Ungated(r)'
      PROVE  \E h \in Gates : /\ contain'[h].at = "spawned" \/ r \in contain'[h].todo
                             /\ gate'[h].dict = gate'[create'[r].gate].dict
  <2>1. \A h \in Gates : /\ gate'[h].dict = gate[h].dict
                         /\ contain'[h].todo = contain[h].todo
                         /\ (contain[h].at = "spawned" => contain'[h].at = "spawned")
                         /\ (gate'[h].state = "lost" => gate[h].state = "lost")
    BY <1>b DEF GateRec, ContainRec, Attaching
  <2>2. Watched(r) /\ CreateSound(r)
    BY <1>8, <1>a DEF IInv
  <2>3. create'[r] = create[r] /\ create[r].at = "active" /\ r \in listed /\ Here(r)
    BY <1>8, <1>b DEF Ungated, Here, CreateRec, CreateSteps
  <2>4. create[r].gate \in Gates
    BY <1>a, <1>b, <2>3 DEF Ungated, CreateSound, CreateRec, NoGate, Gates
  <2>5. Ungated(r)
    BY <1>8, <2>1, <2>3, <2>4 DEF Ungated
  <2>6. QED
    BY <2>1, <2>2, <2>3, <2>4, <2>5 DEF Watched
<1>9. QED
  BY <1>1, <1>2, <1>3, <1>4, <1>5, <1>6, <1>7, <1>8 DEF IInv, Watched

LEMMA ContainClosedStep ==
  ASSUME IInv, NEW g \in Gates, NEW s \in Sessions, NEW raised \in BOOLEAN,
         contain[g].at = "closing", s \in contain[g].todo,
         owned' = [d \in Gates |-> owned[d] \ {s}],
         context' = [context EXCEPT ![s] = "closed"],
         listed' = listed \ {s},
         contain' = [contain EXCEPT ![g].todo = @ \ {s},
                                       ![g].failed = IF raised \/ s \in owned'[gate[g].dict] THEN @ \union {s} ELSE @],
         UNCHANGED <<browser, connected, swap, registered, made, gate, create>>
  PROVE  IInv'
<1>0. TypeOK /\ OneAttach /\ AttachSound /\ LiveSound /\ SwapSound /\ OpenIsOwned /\ GatesAssumption
  BY GatesAssumption DEF IInv
<1>a. \A r \in Sessions : CreateSound(r)
  BY DEF IInv
<1>b. /\ gate \in [Gates -> GateRec] /\ create \in [Sessions -> CreateRec(made, browser)]
      /\ contain \in [Gates -> ContainRec] /\ made \in Nat /\ made <= GatesMax /\ GatesMax \in Nat
      /\ browser \in Nat /\ registered \in 0..made
  BY <1>0, Types
<1>c. create \in [Sessions -> CreateRec(made', browser')]
  BY <1>b
<1>d. \A h \in Gates : contain'[h].at = contain[h].at
  BY <1>b DEF ContainRec
<1>1. TypeOK'
  <2>1. /\ browser' \in 1..BrowsersMax /\ connected' \in BOOLEAN /\ swap' \in {"idle", "connecting", "closing"}
        /\ made' \in 0..GatesMax /\ registered' \in 0..made'
    BY <1>0 DEF TypeOK, SwapSound, Gates, NoGate
  <2>2. gate' \in [Gates -> GateRec]
    BY <1>b
  <2>3. owned' \in [Gates -> SUBSET Sessions] /\ context' \in [Sessions -> {"none", "open", "closed"}]
    BY <1>0 DEF TypeOK, SwapSound, Gates, NoGate
  <2>4. create' \in [Sessions -> CreateRec(made', browser')]
    BY <1>b, <1>c
  <2>5. listed' \subseteq {r \in Sessions : create'[r].at \in {"listed", "active"}}
    BY <1>0 DEF TypeOK, SwapSound, Gates, NoGate
  <2>6. contain' \in [Gates -> ContainRec]
    BY <1>0, <1>b, ContainCloses DEF TypeOK, GateStates, CreateSteps, ContainSteps, Attaching, NoGate, Gates
  <2>7. /\ \A h \in Gates : gate'[h].state = "attaching" => h = made'
        /\ \A h \in Gates : gate'[h].state = "live" => h = registered'
    BY <1>0 DEF TypeOK, SwapSound, Gates, NoGate, AttachSound, LiveSound, Attaching
  <2>8. QED
    BY <2>1, <2>2, <2>3, <2>4, <2>5, <2>6, <2>7 DEF TypeOK, GateRec, GateStates, CreateRec, CreateSteps,
       ContainRec, ContainSteps
<1>2. OneAttach'
  BY <1>0 DEF TypeOK, OneAttach, Attaching, NoGate, Gates
<1>3. AttachSound'
  BY <1>0, <1>a DEF TypeOK, OneAttach, AttachSound, CreateSound, Attaching, Here, NoGate, Gates
<1>4. LiveSound'
  <2> SUFFICES ASSUME NEW h \in Gates, gate[h].state = "live"
               PROVE  /\ connected
                      /\ gate[h].deliberate =>
                           \E k \in Gates : contain'[k].at = "disconnecting" /\ gate[k].dict = gate[h].dict
    BY DEF LiveSound
  <2>1. connected
    BY <1>0 DEF LiveSound
  <2>2. ASSUME gate[h].deliberate
        PROVE  \E k \in Gates : contain[k].at = "disconnecting" /\ gate[k].dict = gate[h].dict
    BY <1>0, <2>2 DEF LiveSound
  <2>3. QED
    BY <1>d, <2>1, <2>2
<1>5. SwapSound'
  BY <1>0, <1>a DEF TypeOK, SwapSound, CreateSound, NoGate
<1>6. OpenIsOwned'
  <2> SUFFICES ASSUME NEW r \in Sessions, context'[r] = "open", create[r].registered, Here(r), registered # NoGate
               PROVE  r \in owned'[gate[registered].dict]
    BY DEF OpenIsOwned, Here
  <2>1. r # s /\ context[r] = "open"
    BY <1>0 DEF TypeOK
  <2>2. registered \in Gates /\ gate[registered].dict \in Gates
    BY <1>0, <1>b DEF TypeOK, NoGate, Gates, GateRec
  <2>3. r \in owned[gate[registered].dict]
    BY <1>0, <2>1 DEF OpenIsOwned
  <2>4. QED
    BY <2>1, <2>2, <2>3
<1>7. \A r \in Sessions : CreateSound(r)'
  BY <1>0, <1>a DEF TypeOK, OneAttach, AttachSound, CreateSound, Attaching, Here, NoGate, Gates
<1>8. ASSUME ~LossWhileEnding, NEW r \in Sessions, Ungated(r)'
      PROVE  \E h \in Gates : /\ contain'[h].at = "spawned" \/ r \in contain'[h].todo
                             /\ gate'[h].dict = gate'[create'[r].gate].dict
  <2>1. Ungated(r) /\ r # s
    BY <1>8 DEF Ungated, Here
  <2>2. PICK h \in Gates : /\ contain[h].at = "spawned" \/ r \in contain[h].todo
                           /\ gate[h].dict = gate[create[r].gate].dict
    BY <1>8, <2>1 DEF IInv, Watched
  <2>3. r \in contain[h].todo => r \in contain'[h].todo
    BY <1>b, <2>1 DEF ContainRec
  <2>4. QED
    BY <1>d, <2>2, <2>3
<1>9. QED
  BY <1>1, <1>2, <1>3, <1>4, <1>5, <1>6, <1>7, <1>8 DEF IInv, Watched

LEMMA ContainLeftStep ==
  ASSUME IInv, NEW g \in Gates, NEW s \in Sessions, NEW raised \in BOOLEAN,
         contain[g].at = "closing", s \in contain[g].todo,
         listed' = listed \ {s},
         contain' = [contain EXCEPT ![g].todo = @ \ {s},
                                       ![g].failed = IF raised \/ s \in owned'[gate[g].dict] THEN @ \union {s} ELSE @],
         UNCHANGED <<browser, connected, swap, registered, made, gate, owned, create, context>>
  PROVE  IInv'
<1>0. TypeOK /\ OneAttach /\ AttachSound /\ LiveSound /\ SwapSound /\ OpenIsOwned /\ GatesAssumption
  BY GatesAssumption DEF IInv
<1>a. \A r \in Sessions : CreateSound(r)
  BY DEF IInv
<1>b. /\ gate \in [Gates -> GateRec] /\ create \in [Sessions -> CreateRec(made, browser)]
      /\ contain \in [Gates -> ContainRec] /\ made \in Nat /\ made <= GatesMax /\ GatesMax \in Nat
      /\ browser \in Nat /\ registered \in 0..made
  BY <1>0, Types
<1>c. create \in [Sessions -> CreateRec(made', browser')]
  BY <1>b
<1>d. \A h \in Gates : contain'[h].at = contain[h].at
  BY <1>b DEF ContainRec
<1>1. TypeOK'
  <2>1. /\ browser' \in 1..BrowsersMax /\ connected' \in BOOLEAN /\ swap' \in {"idle", "connecting", "closing"}
        /\ made' \in 0..GatesMax /\ registered' \in 0..made'
    BY <1>0 DEF TypeOK, SwapSound, Gates, NoGate
  <2>2. gate' \in [Gates -> GateRec]
    BY <1>b
  <2>3. owned' \in [Gates -> SUBSET Sessions] /\ context' \in [Sessions -> {"none", "open", "closed"}]
    BY <1>0 DEF TypeOK, SwapSound, Gates, NoGate
  <2>4. create' \in [Sessions -> CreateRec(made', browser')]
    BY <1>b, <1>c
  <2>5. listed' \subseteq {r \in Sessions : create'[r].at \in {"listed", "active"}}
    BY <1>0 DEF TypeOK, SwapSound, Gates, NoGate
  <2>6. contain' \in [Gates -> ContainRec]
    BY <1>0, <1>b, ContainCloses DEF TypeOK, GateStates, CreateSteps, ContainSteps, Attaching, NoGate, Gates
  <2>7. /\ \A h \in Gates : gate'[h].state = "attaching" => h = made'
        /\ \A h \in Gates : gate'[h].state = "live" => h = registered'
    BY <1>0 DEF TypeOK, SwapSound, Gates, NoGate, AttachSound, LiveSound, Attaching
  <2>8. QED
    BY <2>1, <2>2, <2>3, <2>4, <2>5, <2>6, <2>7 DEF TypeOK, GateRec, GateStates, CreateRec, CreateSteps,
       ContainRec, ContainSteps
<1>2. OneAttach'
  BY <1>0 DEF TypeOK, OneAttach, Attaching, NoGate, Gates
<1>3. AttachSound'
  BY <1>0, <1>a DEF TypeOK, OneAttach, AttachSound, CreateSound, Attaching, Here, NoGate, Gates
<1>4. LiveSound'
  <2> SUFFICES ASSUME NEW h \in Gates, gate[h].state = "live"
               PROVE  /\ connected
                      /\ gate[h].deliberate =>
                           \E k \in Gates : contain'[k].at = "disconnecting" /\ gate[k].dict = gate[h].dict
    BY DEF LiveSound
  <2>1. connected
    BY <1>0 DEF LiveSound
  <2>2. ASSUME gate[h].deliberate
        PROVE  \E k \in Gates : contain[k].at = "disconnecting" /\ gate[k].dict = gate[h].dict
    BY <1>0, <2>2 DEF LiveSound
  <2>3. QED
    BY <1>d, <2>1, <2>2
<1>5. SwapSound'
  BY <1>0, <1>a DEF TypeOK, SwapSound, CreateSound, NoGate
<1>6. OpenIsOwned'
  BY <1>0, <1>a DEF TypeOK, OpenIsOwned, OneAttach, AttachSound, CreateSound, Attaching, Here, NoGate, Gates
<1>7. \A r \in Sessions : CreateSound(r)'
  BY <1>0, <1>a DEF TypeOK, OneAttach, AttachSound, CreateSound, Attaching, Here, NoGate, Gates
<1>8. ASSUME ~LossWhileEnding, NEW r \in Sessions, Ungated(r)'
      PROVE  \E h \in Gates : /\ contain'[h].at = "spawned" \/ r \in contain'[h].todo
                             /\ gate'[h].dict = gate'[create'[r].gate].dict
  <2>1. Ungated(r) /\ r # s
    BY <1>8 DEF Ungated, Here
  <2>2. PICK h \in Gates : /\ contain[h].at = "spawned" \/ r \in contain[h].todo
                           /\ gate[h].dict = gate[create[r].gate].dict
    BY <1>8, <2>1 DEF IInv, Watched
  <2>3. r \in contain[h].todo => r \in contain'[h].todo
    BY <1>b, <2>1 DEF ContainRec
  <2>4. QED
    BY <1>d, <2>2, <2>3
<1>9. QED
  BY <1>1, <1>2, <1>3, <1>4, <1>5, <1>6, <1>7, <1>8 DEF IInv, Watched

LEMMA ContainDoneStep ==
  ASSUME IInv, NEW g \in Gates,
         contain[g].at \in {"closing", "disconnecting"}, contain[g].at = "disconnecting" => ~OnBrowser(g),
         contain' = [contain EXCEPT ![g].at = "done"],
         UNCHANGED <<browser, connected, swap, registered, made, gate, owned, create, context, listed>>
  PROVE  IInv'
<1>0. TypeOK /\ OneAttach /\ AttachSound /\ LiveSound /\ SwapSound /\ OpenIsOwned /\ GatesAssumption
  BY GatesAssumption DEF IInv
<1>a. \A r \in Sessions : CreateSound(r)
  BY DEF IInv
<1>b. /\ gate \in [Gates -> GateRec] /\ create \in [Sessions -> CreateRec(made, browser)]
      /\ contain \in [Gates -> ContainRec] /\ made \in Nat /\ made <= GatesMax /\ GatesMax \in Nat
      /\ browser \in Nat /\ registered \in 0..made
  BY <1>0, Types
<1>c. create \in [Sessions -> CreateRec(made', browser')]
  BY <1>b
<1>1. TypeOK'
  <2>1. /\ browser' \in 1..BrowsersMax /\ connected' \in BOOLEAN /\ swap' \in {"idle", "connecting", "closing"}
        /\ made' \in 0..GatesMax /\ registered' \in 0..made'
    BY <1>0 DEF TypeOK, SwapSound, Gates, NoGate, OnBrowser
  <2>2. gate' \in [Gates -> GateRec]
    BY <1>b
  <2>3. owned' \in [Gates -> SUBSET Sessions] /\ context' \in [Sessions -> {"none", "open", "closed"}]
    BY <1>0 DEF TypeOK, SwapSound, Gates, NoGate, OnBrowser
  <2>4. create' \in [Sessions -> CreateRec(made', browser')]
    BY <1>b, <1>c
  <2>5. listed' \subseteq {r \in Sessions : create'[r].at \in {"listed", "active"}}
    BY <1>0 DEF TypeOK, SwapSound, Gates, NoGate, OnBrowser
  <2>6. contain' \in [Gates -> ContainRec]
    BY <1>0, <1>b, ContainAt DEF TypeOK, GateStates, CreateSteps, ContainSteps, Attaching, NoGate, Gates,
       OnBrowser
  <2>7. /\ \A h \in Gates : gate'[h].state = "attaching" => h = made'
        /\ \A h \in Gates : gate'[h].state = "live" => h = registered'
    BY <1>0 DEF TypeOK, SwapSound, Gates, NoGate, OnBrowser, AttachSound, LiveSound, Attaching
  <2>8. QED
    BY <2>1, <2>2, <2>3, <2>4, <2>5, <2>6, <2>7 DEF TypeOK, GateRec, GateStates, CreateRec, CreateSteps,
       ContainRec, ContainSteps
<1>2. OneAttach'
  BY <1>0 DEF TypeOK, OneAttach, Attaching, NoGate, Gates, OnBrowser
<1>3. AttachSound'
  BY <1>0, <1>a DEF TypeOK, OneAttach, AttachSound, CreateSound, Attaching, Here, NoGate, Gates, OnBrowser
<1>4. LiveSound'
  BY <1>0 DEF TypeOK, AttachSound, LiveSound, Attaching, Here, NoGate, Gates, OnBrowser
<1>5. SwapSound'
  BY <1>0, <1>a DEF TypeOK, SwapSound, CreateSound, NoGate, OnBrowser
<1>6. OpenIsOwned'
  BY <1>0, <1>a DEF TypeOK, OpenIsOwned, OneAttach, AttachSound, CreateSound, Attaching, Here, NoGate, Gates,
     OnBrowser
<1>7. \A r \in Sessions : CreateSound(r)'
  BY <1>0, <1>a DEF TypeOK, OneAttach, AttachSound, CreateSound, Attaching, Here, NoGate, Gates, OnBrowser
<1>8. ASSUME ~LossWhileEnding, NEW r \in Sessions, Ungated(r)'
      PROVE  \E h \in Gates : /\ contain'[h].at = "spawned" \/ r \in contain'[h].todo
                             /\ gate'[h].dict = gate'[create'[r].gate].dict
  <2>1. Watched(r) /\ CreateSound(r)
    BY <1>8, <1>a DEF IInv
  <2>2. QED
    BY <1>0, <1>8, <2>1 DEF TypeOK, Watched, Ungated, CreateSound, LiveSound, Here, NoGate, Gates, OnBrowser
<1>9. QED
  BY <1>1, <1>2, <1>3, <1>4, <1>5, <1>6, <1>7, <1>8 DEF IInv, Watched

LEMMA EndMeantStep ==
  ASSUME IInv, NEW g \in Gates,
         contain[g].at = "closing", OnBrowser(g),
         gate' = [gate EXCEPT ![registered].deliberate = TRUE],
         contain' = [contain EXCEPT ![g].at = "disconnecting"],
         UNCHANGED <<browser, connected, swap, registered, made, owned, create, context, listed>>
  PROVE  IInv'
<1>0. TypeOK /\ OneAttach /\ AttachSound /\ LiveSound /\ SwapSound /\ OpenIsOwned /\ GatesAssumption
  BY GatesAssumption DEF IInv
<1>a. \A r \in Sessions : CreateSound(r)
  BY DEF IInv
<1>b. /\ gate \in [Gates -> GateRec] /\ create \in [Sessions -> CreateRec(made, browser)]
      /\ contain \in [Gates -> ContainRec] /\ made \in Nat /\ made <= GatesMax /\ GatesMax \in Nat
      /\ browser \in Nat /\ registered \in 0..made
  BY <1>0, Types
<1>c. create \in [Sessions -> CreateRec(made', browser')]
  BY <1>b
<1>1. TypeOK'
  <2>1. /\ browser' \in 1..BrowsersMax /\ connected' \in BOOLEAN /\ swap' \in {"idle", "connecting", "closing"}
        /\ made' \in 0..GatesMax /\ registered' \in 0..made'
    BY <1>0 DEF TypeOK, SwapSound, Gates, NoGate, OnBrowser
  <2>2. gate' \in [Gates -> GateRec]
    BY <1>0, <1>b, GateMeant DEF TypeOK, GateStates, CreateSteps, ContainSteps, Attaching, NoGate, Gates,
       OnBrowser
  <2>3. owned' \in [Gates -> SUBSET Sessions] /\ context' \in [Sessions -> {"none", "open", "closed"}]
    BY <1>0 DEF TypeOK, SwapSound, Gates, NoGate, OnBrowser
  <2>4. create' \in [Sessions -> CreateRec(made', browser')]
    BY <1>b, <1>c
  <2>5. listed' \subseteq {r \in Sessions : create'[r].at \in {"listed", "active"}}
    BY <1>0 DEF TypeOK, SwapSound, Gates, NoGate, OnBrowser
  <2>6. contain' \in [Gates -> ContainRec]
    BY <1>0, <1>b, ContainAt DEF TypeOK, GateStates, CreateSteps, ContainSteps, Attaching, NoGate, Gates,
       OnBrowser
  <2>7. /\ \A h \in Gates : gate'[h].state = "attaching" => h = made'
        /\ \A h \in Gates : gate'[h].state = "live" => h = registered'
    BY <1>0 DEF TypeOK, SwapSound, Gates, NoGate, OnBrowser, AttachSound, LiveSound, Attaching
  <2>8. QED
    BY <2>1, <2>2, <2>3, <2>4, <2>5, <2>6, <2>7 DEF TypeOK, GateRec, GateStates, CreateRec, CreateSteps,
       ContainRec, ContainSteps
<1>2. OneAttach'
  BY <1>0 DEF TypeOK, OneAttach, Attaching, NoGate, Gates, OnBrowser
<1>3. AttachSound'
  BY <1>0, <1>a DEF TypeOK, OneAttach, AttachSound, CreateSound, Attaching, Here, NoGate, Gates, OnBrowser
<1>4. LiveSound'
  BY <1>0 DEF TypeOK, AttachSound, LiveSound, Attaching, Here, NoGate, Gates, OnBrowser
<1>5. SwapSound'
  BY <1>0, <1>a DEF TypeOK, SwapSound, CreateSound, NoGate, OnBrowser
<1>6. OpenIsOwned'
  BY <1>0, <1>a, SMTT(30) DEF TypeOK, OpenIsOwned, OneAttach, AttachSound, CreateSound, Attaching, Here, NoGate,
     Gates, OnBrowser
<1>7. \A r \in Sessions : CreateSound(r)'
  BY <1>0, <1>a DEF TypeOK, OneAttach, AttachSound, CreateSound, Attaching, Here, NoGate, Gates, OnBrowser
<1>8. ASSUME ~LossWhileEnding, NEW r \in Sessions, Ungated(r)'
      PROVE  \E h \in Gates : /\ contain'[h].at = "spawned" \/ r \in contain'[h].todo
                             /\ gate'[h].dict = gate'[create'[r].gate].dict
  <2>1. \A h \in Gates : /\ gate'[h].dict = gate[h].dict
                         /\ contain'[h].todo = contain[h].todo
                         /\ (contain[h].at = "spawned" => contain'[h].at = "spawned")
                         /\ (gate'[h].state = "lost" => gate[h].state = "lost")
    BY <1>b DEF GateRec, ContainRec
  <2>2. Watched(r) /\ CreateSound(r)
    BY <1>8, <1>a DEF IInv
  <2>3. create'[r] = create[r] /\ create[r].at = "active" /\ r \in listed /\ Here(r)
    BY <1>8, <1>b DEF Ungated, Here, CreateRec, CreateSteps
  <2>4. create[r].gate \in Gates
    BY <1>a, <1>b, <2>3 DEF Ungated, CreateSound, CreateRec, NoGate, Gates
  <2>5. Ungated(r)
    BY <1>8, <2>1, <2>3, <2>4 DEF Ungated
  <2>6. QED
    BY <2>1, <2>2, <2>3, <2>4, <2>5 DEF Watched
<1>9. QED
  BY <1>1, <1>2, <1>3, <1>4, <1>5, <1>6, <1>7, <1>8 DEF IInv, Watched

LEMMA EndFailsStep ==
  ASSUME IInv, NEW g \in Gates,
         contain[g].at = "disconnecting", OnBrowser(g),
         gate' = [gate EXCEPT ![registered].deliberate = FALSE],
         contain' = [contain EXCEPT ![g].at = "done"],
         UNCHANGED <<browser, connected, swap, registered, made, owned, create, context, listed>>
  PROVE  IInv'
<1>0. TypeOK /\ OneAttach /\ AttachSound /\ LiveSound /\ SwapSound /\ OpenIsOwned /\ GatesAssumption
  BY GatesAssumption DEF IInv
<1>a. \A r \in Sessions : CreateSound(r)
  BY DEF IInv
<1>b. /\ gate \in [Gates -> GateRec] /\ create \in [Sessions -> CreateRec(made, browser)]
      /\ contain \in [Gates -> ContainRec] /\ made \in Nat /\ made <= GatesMax /\ GatesMax \in Nat
      /\ browser \in Nat /\ registered \in 0..made
  BY <1>0, Types
<1>c. create \in [Sessions -> CreateRec(made', browser')]
  BY <1>b
<1>1. TypeOK'
  <2>1. /\ browser' \in 1..BrowsersMax /\ connected' \in BOOLEAN /\ swap' \in {"idle", "connecting", "closing"}
        /\ made' \in 0..GatesMax /\ registered' \in 0..made'
    BY <1>0 DEF TypeOK, SwapSound, Gates, NoGate, OnBrowser
  <2>2. gate' \in [Gates -> GateRec]
    BY <1>0, <1>b, GateMeant DEF TypeOK, GateStates, CreateSteps, ContainSteps, Attaching, NoGate, Gates,
       OnBrowser
  <2>3. owned' \in [Gates -> SUBSET Sessions] /\ context' \in [Sessions -> {"none", "open", "closed"}]
    BY <1>0 DEF TypeOK, SwapSound, Gates, NoGate, OnBrowser
  <2>4. create' \in [Sessions -> CreateRec(made', browser')]
    BY <1>b, <1>c
  <2>5. listed' \subseteq {r \in Sessions : create'[r].at \in {"listed", "active"}}
    BY <1>0 DEF TypeOK, SwapSound, Gates, NoGate, OnBrowser
  <2>6. contain' \in [Gates -> ContainRec]
    BY <1>0, <1>b, ContainAt DEF TypeOK, GateStates, CreateSteps, ContainSteps, Attaching, NoGate, Gates,
       OnBrowser
  <2>7. /\ \A h \in Gates : gate'[h].state = "attaching" => h = made'
        /\ \A h \in Gates : gate'[h].state = "live" => h = registered'
    BY <1>0 DEF TypeOK, SwapSound, Gates, NoGate, OnBrowser, AttachSound, LiveSound, Attaching
  <2>8. QED
    BY <2>1, <2>2, <2>3, <2>4, <2>5, <2>6, <2>7 DEF TypeOK, GateRec, GateStates, CreateRec, CreateSteps,
       ContainRec, ContainSteps
<1>2. OneAttach'
  BY <1>0 DEF TypeOK, OneAttach, Attaching, NoGate, Gates, OnBrowser
<1>3. AttachSound'
  BY <1>0, <1>a DEF TypeOK, OneAttach, AttachSound, CreateSound, Attaching, Here, NoGate, Gates, OnBrowser
<1>4. LiveSound'
  BY <1>0 DEF TypeOK, AttachSound, LiveSound, Attaching, Here, NoGate, Gates, OnBrowser
<1>5. SwapSound'
  BY <1>0, <1>a DEF TypeOK, SwapSound, CreateSound, NoGate, OnBrowser
<1>6. OpenIsOwned'
  BY <1>0, <1>a, SMTT(30) DEF TypeOK, OpenIsOwned, OneAttach, AttachSound, CreateSound, Attaching, Here, NoGate,
     Gates, OnBrowser
<1>7. \A r \in Sessions : CreateSound(r)'
  BY <1>0, <1>a DEF TypeOK, OneAttach, AttachSound, CreateSound, Attaching, Here, NoGate, Gates, OnBrowser
<1>8. ASSUME ~LossWhileEnding, NEW r \in Sessions, Ungated(r)'
      PROVE  \E h \in Gates : /\ contain'[h].at = "spawned" \/ r \in contain'[h].todo
                             /\ gate'[h].dict = gate'[create'[r].gate].dict
  <2>1. /\ \A h \in Gates : gate'[h].dict = gate[h].dict /\ gate'[h].state = gate[h].state
        /\ \A h \in Gates : /\ contain'[h].todo = contain[h].todo
                            /\ contain[h].at = "spawned" => contain'[h].at = "spawned"
    BY <1>b DEF GateRec, ContainRec
  <2>2. create[r].gate \in Gates
    BY <1>8, <1>a, <1>b DEF Ungated, CreateSound, NoGate, Gates, CreateRec
  <2>3. Ungated(r)
    BY <1>8, <2>1, <2>2 DEF Ungated, Here
  <2>4. PICK h \in Gates : /\ contain[h].at = "spawned" \/ r \in contain[h].todo
                           /\ gate[h].dict = gate[create[r].gate].dict
    BY <1>8, <2>3 DEF IInv, Watched
  <2>5. QED
    BY <2>1, <2>2, <2>4
<1>9. QED
  BY <1>1, <1>2, <1>3, <1>4, <1>5, <1>6, <1>7, <1>8 DEF IInv, Watched

LEMMA DisconnectedStep ==
  ASSUME IInv, NEW g \in Gates,
         contain[g].at = "disconnecting", OnBrowser(g),
         connected' = FALSE,
         registered' = NoGate,
         gate' = [h \in Gates |-> IF gate[h].state = "live" THEN [gate[h] EXCEPT !.state = "detached"] ELSE gate[h]],
         owned' = [d \in Gates |-> owned[d] \ {r \in Sessions : Here(r) /\ context[r] = "open"}],
         context' = [r \in Sessions |-> IF Here(r) /\ context[r] = "open" THEN "closed" ELSE context[r]],
         contain' = [IF Live(registered) THEN Spawned(registered) ELSE contain EXCEPT ![g].at = "done"],
         UNCHANGED <<browser, swap, made, create, listed>>
  PROVE  IInv'
<1>0. TypeOK /\ OneAttach /\ AttachSound /\ LiveSound /\ SwapSound /\ OpenIsOwned /\ GatesAssumption
  BY GatesAssumption DEF IInv
<1>a. \A r \in Sessions : CreateSound(r)
  BY DEF IInv
<1>b. /\ gate \in [Gates -> GateRec] /\ create \in [Sessions -> CreateRec(made, browser)]
      /\ contain \in [Gates -> ContainRec] /\ made \in Nat /\ made <= GatesMax /\ GatesMax \in Nat
      /\ browser \in Nat /\ registered \in 0..made
  BY <1>0, Types
<1>c. create \in [Sessions -> CreateRec(made', browser')]
  BY <1>b
<1>d. registered \in Gates /\ g \in Gates
  BY <1>0, <1>b DEF TypeOK, OnBrowser, NoGate, Gates
<1> DEFINE base == IF Live(registered) THEN Spawned(registered) ELSE contain
<1>e. base \in [Gates -> ContainRec]
  <2>1. Spawned(registered) \in [Gates -> ContainRec]
    <3>1. "spawned" \in ContainSteps
      BY DEF ContainSteps
    <3>2. QED
      BY <1>b, <1>d, <3>1, ContainAt DEF Spawned
  <2>2. QED
    BY <1>b, <2>1
<1>f. \A h \in Gates : base[h].at = contain[h].at \/ base[h].at = "spawned"
  BY <1>b, <1>d DEF Spawned, ContainRec
<1> HIDE DEF base
<1>g. contain' = [base EXCEPT ![g].at = "done"]
  BY DEF base
<1>h. \A h \in Gates : gate'[h].state # "live" /\ (gate'[h].state = "attaching" <=> gate[h].state = "attaching")
                      /\ gate'[h].dict = gate[h].dict /\ gate'[h].deliberate = gate[h].deliberate
  BY <1>b DEF GateRec
<1>i. \A h \in Gates : contain'[h].at = "attaching" => contain[h].at = "attaching"
  BY <1>e, <1>f, <1>g, <1>d DEF ContainRec
<1>1. TypeOK'
  <2>1. /\ browser' \in 1..BrowsersMax /\ connected' \in BOOLEAN /\ swap' \in {"idle", "connecting", "closing"}
        /\ made' \in 0..GatesMax /\ registered' \in 0..made'
    <3>1. /\ browser' \in 1..BrowsersMax /\ swap' \in {"idle", "connecting", "closing"} /\ made' \in 0..GatesMax
      BY <1>0 DEF TypeOK
    <3>2. connected' \in BOOLEAN
      BY Zenon
    <3>3. registered' \in 0..made'
      <4>1. made' = made /\ 0 \in 0..made
        BY <1>b
      <4>2. registered' = 0
        BY DEF NoGate
      <4>3. QED
        BY <4>1, <4>2
    <3>4. QED
      BY <3>1, <3>2, <3>3
  <2>2. gate' \in [Gates -> GateRec]
    BY <1>0, <1>b, GatesEnd DEF ContainRec, TypeOK, GateStates, CreateSteps, ContainSteps, Attaching, NoGate,
       Gates, Live, Here, OnBrowser, Spawned
  <2>3. owned' \in [Gates -> SUBSET Sessions] /\ context' \in [Sessions -> {"none", "open", "closed"}]
    BY <1>0 DEF TypeOK, SwapSound, Gates, NoGate, Live, Here, OnBrowser, Spawned
  <2>4. create' \in [Sessions -> CreateRec(made', browser')]
    BY <1>b, <1>c
  <2>5. listed' \subseteq {r \in Sessions : create'[r].at \in {"listed", "active"}}
    BY <1>0 DEF TypeOK, SwapSound, Gates, NoGate, Live, Here, OnBrowser, Spawned
  <2>6. contain' \in [Gates -> ContainRec]
    <3>1. "done" \in ContainSteps
      BY DEF ContainSteps
    <3>2. QED
      <4>1. [base EXCEPT ![g].at = "done"] \in [Gates -> ContainRec]
        BY <1>d, <1>e, <3>1, ContainAt
      <4>2. QED
        BY <1>g, <4>1, Zenon
  <2>7. /\ \A h \in Gates : gate'[h].state = "attaching" => h = made'
        /\ \A h \in Gates : gate'[h].state = "live" => h = registered'
    BY <1>0 DEF TypeOK, SwapSound, Gates, NoGate, Live, Here, OnBrowser, Spawned, AttachSound, LiveSound,
       Attaching
  <2>8. QED
    BY <2>1, <2>2, <2>3, <2>4, <2>5, <2>6, <2>7 DEF TypeOK, GateRec, GateStates, CreateRec, CreateSteps,
       ContainRec, ContainSteps
<1>2. OneAttach'
  <2>1. made \in Gates \/ made = 0
    BY <1>b, <1>0 DEF TypeOK, Gates
  <2>2. Attaching => Attaching'
    BY <1>h, <2>1 DEF Attaching
  <2>3. QED
    BY <1>0, <1>i, <2>2 DEF OneAttach
<1>3. AttachSound'
  <2>1. made \in Gates \/ made = 0
    BY <1>b, <1>0 DEF TypeOK, Gates
  <2>2. Attaching' => Attaching /\ made \in Gates
    BY <1>h, <2>1 DEF Attaching
  <2>3. Attaching' => (\A h \in Gates : gate'[h].state # "live") /\ ~gate'[made].deliberate /\ registered' # made
    BY <1>0, <1>h, <2>2 DEF AttachSound, Attaching, NoGate
  <2>4. \A h \in Gates : contain'[h].at = "attaching" => gate'[made].dict = gate'[h].dict
    BY <1>0, <1>h, <1>i, <2>1 DEF AttachSound, OneAttach, Attaching
  <2>5. QED
    BY <2>3, <2>4 DEF AttachSound, Attaching, Here, NoGate
<1>4. LiveSound'
  BY <1>0 DEF TypeOK, AttachSound, LiveSound, Attaching, Here, NoGate, Gates, Live, OnBrowser, Spawned
<1>5. SwapSound'
  BY <1>0, <1>a DEF TypeOK, SwapSound, CreateSound, NoGate, Live, Here, OnBrowser, Spawned
<1>6. OpenIsOwned'
  BY <1>0, <1>a DEF TypeOK, OpenIsOwned, OneAttach, AttachSound, CreateSound, Attaching, Here, NoGate, Gates,
     Live, OnBrowser, Spawned
<1>7. \A r \in Sessions : CreateSound(r)'
  BY <1>0, <1>a DEF TypeOK, OneAttach, AttachSound, CreateSound, Attaching, Here, NoGate, Gates, Live,
     OnBrowser, Spawned
<1>8. ASSUME ~LossWhileEnding, NEW r \in Sessions, Ungated(r)'
      PROVE  \E h \in Gates : /\ contain'[h].at = "spawned" \/ r \in contain'[h].todo
                             /\ gate'[h].dict = gate'[create'[r].gate].dict
  <2>1. Watched(r) /\ CreateSound(r)
    BY <1>8, <1>a DEF IInv
  <2>2. QED
    BY <1>0, <1>8, <2>1 DEF TypeOK, Watched, Ungated, CreateSound, LiveSound, Here, NoGate, Gates, Live,
       OnBrowser, Spawned
<1>9. QED
  BY <1>1, <1>2, <1>3, <1>4, <1>5, <1>6, <1>7, <1>8 DEF IInv, Watched

LEMMA BrowserDiesStep ==
  ASSUME IInv,
         connected,
         connected' = FALSE,
         gate' = [h \in Gates |-> IF gate[h].state = "live" THEN [gate[h] EXCEPT !.state = "lost"] ELSE gate[h]],
         owned' = [d \in Gates |-> owned[d] \ {r \in Sessions : Here(r) /\ context[r] = "open"}],
         context' = [r \in Sessions |-> IF Here(r) /\ context[r] = "open" THEN "closed" ELSE context[r]],
         contain' = IF Live(registered) THEN Spawned(registered) ELSE contain,
         UNCHANGED <<browser, swap, registered, made, create, listed>>
  PROVE  IInv'
<1>0. TypeOK /\ OneAttach /\ AttachSound /\ LiveSound /\ SwapSound /\ OpenIsOwned /\ GatesAssumption
  BY GatesAssumption DEF IInv
<1>a. \A r \in Sessions : CreateSound(r)
  BY DEF IInv
<1>b. /\ gate \in [Gates -> GateRec] /\ create \in [Sessions -> CreateRec(made, browser)]
      /\ contain \in [Gates -> ContainRec] /\ made \in Nat /\ made <= GatesMax /\ GatesMax \in Nat
      /\ browser \in Nat /\ registered \in 0..made
  BY <1>0, Types
<1>c. create \in [Sessions -> CreateRec(made', browser')]
  BY <1>b
<1>1. TypeOK'
  <2>1. /\ browser' \in 1..BrowsersMax /\ connected' \in BOOLEAN /\ swap' \in {"idle", "connecting", "closing"}
        /\ made' \in 0..GatesMax /\ registered' \in 0..made'
    BY <1>0 DEF TypeOK, SwapSound, Gates, NoGate, Live, Here, Spawned
  <2>2. gate' \in [Gates -> GateRec]
    BY <1>0, <1>b, GatesEnd DEF ContainRec, TypeOK, GateStates, CreateSteps, ContainSteps, Attaching, NoGate,
       Gates, Live, Here, Spawned
  <2>3. owned' \in [Gates -> SUBSET Sessions] /\ context' \in [Sessions -> {"none", "open", "closed"}]
    BY <1>0 DEF TypeOK, SwapSound, Gates, NoGate, Live, Here, Spawned
  <2>4. create' \in [Sessions -> CreateRec(made', browser')]
    BY <1>b, <1>c
  <2>5. listed' \subseteq {r \in Sessions : create'[r].at \in {"listed", "active"}}
    BY <1>0 DEF TypeOK, SwapSound, Gates, NoGate, Live, Here, Spawned
  <2>6. contain' \in [Gates -> ContainRec]
    <3>1. CASE Live(registered)
      <4>1. registered \in Gates
        BY <1>0, <1>b, <3>1 DEF TypeOK, Live, NoGate, Gates
      <4>2. QED
        BY <1>b, <3>1, <4>1, ContainAt DEF Spawned, ContainSteps
    <3>2. CASE ~Live(registered)
      BY <1>b, <3>2
    <3>3. QED
      BY <3>1, <3>2
  <2>7. /\ \A h \in Gates : gate'[h].state = "attaching" => h = made'
        /\ \A h \in Gates : gate'[h].state = "live" => h = registered'
    BY <1>0 DEF TypeOK, SwapSound, Gates, NoGate, Live, Here, Spawned, AttachSound, LiveSound, Attaching
  <2>8. QED
    BY <2>1, <2>2, <2>3, <2>4, <2>5, <2>6, <2>7 DEF TypeOK, GateRec, GateStates, CreateRec, CreateSteps,
       ContainRec, ContainSteps
<1>2. OneAttach'
  BY <1>0 DEF TypeOK, OneAttach, Attaching, NoGate, Gates, Live, Here, Spawned
<1>3. AttachSound'
  BY <1>0, <1>a DEF TypeOK, OneAttach, AttachSound, CreateSound, Attaching, Here, NoGate, Gates, Live, Spawned
<1>4. LiveSound'
  BY <1>0 DEF TypeOK, AttachSound, LiveSound, Attaching, Here, NoGate, Gates, Live, Spawned
<1>5. SwapSound'
  BY <1>0, <1>a DEF TypeOK, SwapSound, CreateSound, NoGate, Live, Here, Spawned
<1>6. OpenIsOwned'
  BY <1>0, <1>a DEF TypeOK, OpenIsOwned, OneAttach, AttachSound, CreateSound, Attaching, Here, NoGate, Gates,
     Live, Spawned
<1>7. \A r \in Sessions : CreateSound(r)'
  BY <1>0, <1>a DEF TypeOK, OneAttach, AttachSound, CreateSound, Attaching, Here, NoGate, Gates, Live, Spawned
<1>8. ASSUME ~LossWhileEnding, NEW r \in Sessions, Ungated(r)'
      PROVE  \E h \in Gates : /\ contain'[h].at = "spawned" \/ r \in contain'[h].todo
                             /\ gate'[h].dict = gate'[create'[r].gate].dict
  <2>1. Watched(r) /\ CreateSound(r)
    BY <1>8, <1>a DEF IInv
  <2>2. QED
    BY <1>0, <1>8, <2>1 DEF TypeOK, Watched, Ungated, CreateSound, LiveSound, Here, NoGate, Gates, Live, Spawned
<1>9. QED
  BY <1>1, <1>2, <1>3, <1>4, <1>5, <1>6, <1>7, <1>8 DEF IInv, Watched

LEMMA SwapBeginStep ==
  ASSUME IInv,
         swap = "idle", InUse = {}, browser < BrowsersMax,
         swap' = "connecting",
         UNCHANGED <<browser, connected, registered, made, gate, owned, create, context, listed, contain>>
  PROVE  IInv'
<1>0. TypeOK /\ OneAttach /\ AttachSound /\ LiveSound /\ SwapSound /\ OpenIsOwned /\ GatesAssumption
  BY GatesAssumption DEF IInv
<1>a. \A r \in Sessions : CreateSound(r)
  BY DEF IInv
<1>b. /\ gate \in [Gates -> GateRec] /\ create \in [Sessions -> CreateRec(made, browser)]
      /\ contain \in [Gates -> ContainRec] /\ made \in Nat /\ made <= GatesMax /\ GatesMax \in Nat
      /\ browser \in Nat /\ registered \in 0..made
  BY <1>0, Types
<1>c. create \in [Sessions -> CreateRec(made', browser')]
  BY <1>b
<1>1. TypeOK'
  <2>1. /\ browser' \in 1..BrowsersMax /\ connected' \in BOOLEAN /\ swap' \in {"idle", "connecting", "closing"}
        /\ made' \in 0..GatesMax /\ registered' \in 0..made'
    BY <1>0 DEF TypeOK, SwapSound, Gates, NoGate, InUse
  <2>2. gate' \in [Gates -> GateRec]
    BY <1>b
  <2>3. owned' \in [Gates -> SUBSET Sessions] /\ context' \in [Sessions -> {"none", "open", "closed"}]
    BY <1>0 DEF TypeOK, SwapSound, Gates, NoGate, InUse
  <2>4. create' \in [Sessions -> CreateRec(made', browser')]
    BY <1>b, <1>c
  <2>5. listed' \subseteq {r \in Sessions : create'[r].at \in {"listed", "active"}}
    BY <1>0 DEF TypeOK, SwapSound, Gates, NoGate, InUse
  <2>6. contain' \in [Gates -> ContainRec]
    BY <1>b
  <2>7. /\ \A h \in Gates : gate'[h].state = "attaching" => h = made'
        /\ \A h \in Gates : gate'[h].state = "live" => h = registered'
    BY <1>0 DEF TypeOK, SwapSound, Gates, NoGate, InUse, AttachSound, LiveSound, Attaching
  <2>8. QED
    BY <2>1, <2>2, <2>3, <2>4, <2>5, <2>6, <2>7 DEF TypeOK, GateRec, GateStates, CreateRec, CreateSteps,
       ContainRec, ContainSteps
<1>2. OneAttach'
  BY <1>0 DEF TypeOK, OneAttach, Attaching, NoGate, Gates, InUse
<1>3. AttachSound'
  BY <1>0, <1>a DEF TypeOK, OneAttach, AttachSound, CreateSound, Attaching, Here, NoGate, Gates, InUse
<1>4. LiveSound'
  BY <1>0 DEF TypeOK, AttachSound, LiveSound, Attaching, Here, NoGate, Gates, InUse
<1>5. SwapSound'
  BY <1>0, <1>a DEF TypeOK, SwapSound, CreateSound, NoGate, InUse
<1>6. OpenIsOwned'
  BY <1>0, <1>a DEF TypeOK, OpenIsOwned, OneAttach, AttachSound, CreateSound, Attaching, Here, NoGate, Gates,
     InUse
<1>7. \A r \in Sessions : CreateSound(r)'
  BY <1>0, <1>a DEF TypeOK, OneAttach, AttachSound, CreateSound, Attaching, Here, NoGate, Gates, InUse
<1>8. ASSUME ~LossWhileEnding, NEW r \in Sessions, Ungated(r)'
      PROVE  \E h \in Gates : /\ contain'[h].at = "spawned" \/ r \in contain'[h].todo
                             /\ gate'[h].dict = gate'[create'[r].gate].dict
  <2>1. Watched(r) /\ CreateSound(r)
    BY <1>8, <1>a DEF IInv
  <2>2. QED
    BY <1>0, <1>8, <2>1 DEF TypeOK, Watched, Ungated, CreateSound, LiveSound, Here, NoGate, Gates, InUse
<1>9. QED
  BY <1>1, <1>2, <1>3, <1>4, <1>5, <1>6, <1>7, <1>8 DEF IInv, Watched

LEMMA SwapFailsStep ==
  ASSUME IInv,
         swap = "connecting",
         swap' = "idle",
         UNCHANGED <<browser, connected, registered, made, gate, owned, create, context, listed, contain>>
  PROVE  IInv'
<1>0. TypeOK /\ OneAttach /\ AttachSound /\ LiveSound /\ SwapSound /\ OpenIsOwned /\ GatesAssumption
  BY GatesAssumption DEF IInv
<1>a. \A r \in Sessions : CreateSound(r)
  BY DEF IInv
<1>b. /\ gate \in [Gates -> GateRec] /\ create \in [Sessions -> CreateRec(made, browser)]
      /\ contain \in [Gates -> ContainRec] /\ made \in Nat /\ made <= GatesMax /\ GatesMax \in Nat
      /\ browser \in Nat /\ registered \in 0..made
  BY <1>0, Types
<1>c. create \in [Sessions -> CreateRec(made', browser')]
  BY <1>b
<1>1. TypeOK'
  <2>1. /\ browser' \in 1..BrowsersMax /\ connected' \in BOOLEAN /\ swap' \in {"idle", "connecting", "closing"}
        /\ made' \in 0..GatesMax /\ registered' \in 0..made'
    BY <1>0 DEF TypeOK, SwapSound, Gates, NoGate
  <2>2. gate' \in [Gates -> GateRec]
    BY <1>b
  <2>3. owned' \in [Gates -> SUBSET Sessions] /\ context' \in [Sessions -> {"none", "open", "closed"}]
    BY <1>0 DEF TypeOK, SwapSound, Gates, NoGate
  <2>4. create' \in [Sessions -> CreateRec(made', browser')]
    BY <1>b, <1>c
  <2>5. listed' \subseteq {r \in Sessions : create'[r].at \in {"listed", "active"}}
    BY <1>0 DEF TypeOK, SwapSound, Gates, NoGate
  <2>6. contain' \in [Gates -> ContainRec]
    BY <1>b
  <2>7. /\ \A h \in Gates : gate'[h].state = "attaching" => h = made'
        /\ \A h \in Gates : gate'[h].state = "live" => h = registered'
    BY <1>0 DEF TypeOK, SwapSound, Gates, NoGate, AttachSound, LiveSound, Attaching
  <2>8. QED
    BY <2>1, <2>2, <2>3, <2>4, <2>5, <2>6, <2>7 DEF TypeOK, GateRec, GateStates, CreateRec, CreateSteps,
       ContainRec, ContainSteps
<1>2. OneAttach'
  BY <1>0 DEF TypeOK, OneAttach, Attaching, NoGate, Gates
<1>3. AttachSound'
  BY <1>0, <1>a DEF TypeOK, OneAttach, AttachSound, CreateSound, Attaching, Here, NoGate, Gates
<1>4. LiveSound'
  BY <1>0 DEF TypeOK, AttachSound, LiveSound, Attaching, Here, NoGate, Gates
<1>5. SwapSound'
  BY <1>0, <1>a DEF TypeOK, SwapSound, CreateSound, NoGate
<1>6. OpenIsOwned'
  BY <1>0, <1>a DEF TypeOK, OpenIsOwned, OneAttach, AttachSound, CreateSound, Attaching, Here, NoGate, Gates
<1>7. \A r \in Sessions : CreateSound(r)'
  BY <1>0, <1>a DEF TypeOK, OneAttach, AttachSound, CreateSound, Attaching, Here, NoGate, Gates
<1>8. ASSUME ~LossWhileEnding, NEW r \in Sessions, Ungated(r)'
      PROVE  \E h \in Gates : /\ contain'[h].at = "spawned" \/ r \in contain'[h].todo
                             /\ gate'[h].dict = gate'[create'[r].gate].dict
  <2>1. Watched(r) /\ CreateSound(r)
    BY <1>8, <1>a DEF IInv
  <2>2. QED
    BY <1>0, <1>8, <2>1 DEF TypeOK, Watched, Ungated, CreateSound, LiveSound, Here, NoGate, Gates
<1>9. QED
  BY <1>1, <1>2, <1>3, <1>4, <1>5, <1>6, <1>7, <1>8 DEF IInv, Watched

LEMMA SwapEndStep ==
  ASSUME IInv,
         swap = "connecting", LockFree, AttachNew,
         browser' = browser + 1,
         connected' = TRUE,
         swap' = "closing",
         UNCHANGED <<owned, create, context, listed, contain>>
  PROVE  IInv'
<1>0. TypeOK /\ OneAttach /\ AttachSound /\ LiveSound /\ SwapSound /\ OpenIsOwned /\ GatesAssumption
  BY GatesAssumption DEF IInv
<1>a. \A r \in Sessions : CreateSound(r)
  BY DEF IInv
<1>b. /\ gate \in [Gates -> GateRec] /\ create \in [Sessions -> CreateRec(made, browser)]
      /\ contain \in [Gates -> ContainRec] /\ made \in Nat /\ made <= GatesMax /\ GatesMax \in Nat
      /\ browser \in Nat /\ registered \in 0..made
  BY <1>0, Types
<1>n. /\ gate' \in [Gates -> GateRec] /\ made' \in Nat /\ made <= made' /\ made' <= GatesMax
      /\ registered' \in 0..made'
      /\ \A h \in Gates : gate'[h].state # "attaching"
      /\ \A h \in Gates : gate'[h].state = "live" => h = registered' /\ ~gate'[h].deliberate
  BY <1>0, <1>b, NewGate
<1>o. ~Attaching /\ ~Attaching'
  <2>1. made # 0 => made \in Gates
    BY <1>b DEF Gates
  <2>2. made' # 0 => made' \in Gates
    BY <1>n DEF Gates, NoGate
  <2>3. QED
    BY <2>1, <2>2, <1>n DEF Attaching, LockFree
<1>m. /\ \A r \in Sessions : create[r].at # "attaching"
      /\ \A h \in Gates : contain[h].at # "attaching"
  BY <1>0, <1>o DEF OneAttach
<1>c. create \in [Sessions -> CreateRec(made', browser')]
  BY <1>b, <1>n, CreateGrows
<1>e. \A r \in Sessions : ~Here(r)'
  BY <1>b DEF Here, CreateRec
<1>1. TypeOK'
  <2>1. /\ browser' \in 1..BrowsersMax /\ connected' \in BOOLEAN /\ swap' \in {"idle", "connecting", "closing"}
        /\ made' \in 0..GatesMax /\ registered' \in 0..made'
    BY <1>0, <1>b, <1>n DEF TypeOK, SwapSound
  <2>2. owned' \in [Gates -> SUBSET Sessions] /\ context' \in [Sessions -> {"none", "open", "closed"}]
    BY <1>0 DEF TypeOK
  <2>3. create' \in [Sessions -> CreateRec(made', browser')]
    BY <1>c
  <2>4. listed' \subseteq {r \in Sessions : create'[r].at \in {"listed", "active"}}
    BY <1>0 DEF TypeOK
  <2>5. contain' \in [Gates -> ContainRec]
    BY <1>b
  <2>6. QED
    BY <1>n, <2>1, <2>2, <2>3, <2>4, <2>5 DEF TypeOK, GateRec, GateStates, CreateRec, CreateSteps, ContainRec,
       ContainSteps
<1>2. OneAttach'
  BY <1>m DEF OneAttach
<1>3. AttachSound'
  BY <1>m, <1>o DEF AttachSound
<1>4. LiveSound'
  BY <1>n DEF LiveSound
<1>5. SwapSound'
  BY DEF SwapSound
<1>6. OpenIsOwned'
  BY <1>e DEF OpenIsOwned
<1>7. \A r \in Sessions : CreateSound(r)'
  BY <1>a, <1>e DEF CreateSound
<1>8. \A r \in Sessions : ~Ungated(r)'
  BY <1>e DEF Ungated
<1>9. QED
  BY <1>1, <1>2, <1>3, <1>4, <1>5, <1>6, <1>7, <1>8 DEF IInv, Watched

\* Whatever goes with the browser before, none of it is on the one there is now.
LEMMA ClosePreviousStep ==
  ASSUME IInv, ClosePrevious
  PROVE  IInv'
<1>0. TypeOK /\ OneAttach /\ AttachSound /\ LiveSound /\ OpenIsOwned
  BY DEF IInv
<1>a. \A r \in Sessions : CreateSound(r)
  BY DEF IInv
<1>b. /\ gate \in [Gates -> GateRec] /\ registered \in 0..made /\ made <= GatesMax /\ browser \in Nat
      /\ made \in Nat /\ GatesMax \in Nat
  BY <1>0, Types
<1>c. /\ swap' = "idle"
      /\ UNCHANGED <<browser, connected, registered, made, gate, create, listed, contain>>
  BY DEF ClosePrevious, gateVars
<1>d. /\ owned' \in [Gates -> SUBSET Sessions] /\ context' \in [Sessions -> {"none", "open", "closed"}]
      /\ \A r \in Sessions : context'[r] = "open" => context[r] = "open"
      /\ \A r \in Sessions, d \in Gates : create[r].browser = browser /\ r \in owned[d] => r \in owned'[d]
  BY <1>0, <1>b DEF TypeOK, ClosePrevious
<1>1. TypeOK'
  BY <1>0, <1>c, <1>d DEF TypeOK
<1>2. OneAttach' /\ AttachSound' /\ LiveSound' /\ SwapSound'
  BY <1>0, <1>c DEF OneAttach, AttachSound, LiveSound, SwapSound, Attaching, Here
<1>3. OpenIsOwned'
  <2> SUFFICES ASSUME NEW r \in Sessions, context[r] = "open", create[r].registered, Here(r), registered # NoGate
               PROVE  r \in owned'[gate[registered].dict]
    BY <1>c, <1>d DEF OpenIsOwned, Here
  <2>1. registered \in Gates /\ gate[registered].dict \in Gates
    BY <1>b DEF NoGate, Gates, GateRec
  <2>2. QED
    BY <1>0, <1>d, <2>1 DEF OpenIsOwned, Here
<1>4. \A r \in Sessions : CreateSound(r)'
  BY <1>a, <1>c DEF CreateSound, Here
<1>5. ~LossWhileEnding => \A r \in Sessions : Watched(r)'
  BY <1>c DEF IInv, Watched, Ungated, Here
<1>6. QED
  BY <1>1, <1>2, <1>3, <1>4, <1>5 DEF IInv

-----------------------------------------------------------------------------
LEMMA CreatingKeeps ==
  ASSUME IInv, NEW s \in Sessions, Creating(s)
  PROVE  IInv'
<1>1. CASE Reserve(s)
  BY <1>1, ReserveStep DEF Reserve, At, browserVars, gateVars
<1>2. CASE AcquireBrowser(s)
  BY <1>2, AcquireHereStep, AcquireNextStep DEF AcquireBrowser, gateVars
<1>3. CASE AcquireFails(s)
  BY <1>3, AcquireFailsStep DEF AcquireFails, At, browserVars, gateVars
<1>4. CASE RequireGate(s)
  BY <1>4, RequireLiveStep, RequireStartStep, RequireFailsStep DEF RequireGate, StartAttach, At, browserVars,
     gateVars
<1>5. CASE CreateAttached(s)
  BY <1>5, AttachedLiveStep, AttachedNotStep DEF CreateAttached, AttachDone, AttachFails, At, browserVars
<1>6. CASE OpenContext(s)
  BY <1>6, OpenedStep, OpenFailsStep DEF OpenContext, At, browserVars, gateVars
<1>7. CASE RegisterContext(s)
  BY <1>7, RegisterContextStep DEF RegisterContext, browserVars, gateVars
<1>8. CASE ListSession(s)
  BY <1>8, ListSessionStep DEF ListSession, At, browserVars, gateVars
<1>9. CASE HandOut(s)
  BY <1>9, HandOutStep DEF HandOut, At, browserVars, gateVars
<1>10. CASE RollBack(s)
  BY <1>10, RollBackClosedStep, RollBackOpenStep DEF RollBack, CloseContext, At, browserVars, gateVars
<1>11. QED
  BY <1>1, <1>2, <1>3, <1>4, <1>5, <1>6, <1>7, <1>8, <1>9, <1>10 DEF Creating

LEMMA CloseKeeps ==
  ASSUME IInv, NEW s \in Sessions, Close(s)
  PROVE  IInv'
  BY CloseClosedStep, CloseOpenStep DEF Close, CloseContext, browserVars, gateVars

LEMMA ContainingKeeps ==
  ASSUME IInv, NEW g \in Gates, Containing(g)
  PROVE  IInv'
<1>1. CASE ContainBegin(g)
  BY <1>1, ContainBeginsStep, ContainNoneStep DEF ContainBegin, browserVars, gateVars
<1>2. CASE ContainRequire(g)
  BY <1>2, ContainStartStep, ContainGoOnStep DEF ContainRequire, StartAttach, browserVars, gateVars
<1>3. CASE ContainAttached(g)
  BY <1>3, ContainLiveStep, ContainNotStep DEF ContainAttached, AttachDone, AttachFails, browserVars
<1>4. ASSUME NEW s \in Sessions, ContainClose(g, s)
      PROVE  IInv'
  BY <1>4, ContainClosedStep, ContainLeftStep DEF ContainClose, CloseContext, browserVars, gateVars
<1>5. CASE ContainEnd(g)
  BY <1>5, ContainDoneStep, EndMeantStep DEF ContainEnd, Ending, OnBrowser, browserVars
<1>6. CASE Disconnect(g)
  BY <1>6, DisconnectedStep, ContainDoneStep DEF Disconnect, Ended, ContextsGone
<1>7. CASE DisconnectFails(g)
  BY <1>7, EndFailsStep DEF DisconnectFails, Ending, OnBrowser, browserVars
<1>8. QED
  BY <1>1, <1>2, <1>3, <1>4, <1>5, <1>6, <1>7 DEF Containing

LEMMA OthersKeep ==
  ASSUME IInv, (\E g \in Gates : LoseGate(g)) \/ BrowserDies \/ SwapBegin \/ SwapFails \/ SwapEnd \/ ClosePrevious
  PROVE  IInv'
<1>1. ASSUME NEW g \in Gates, LoseGate(g)
      PROVE  IInv'
  BY <1>1, LoseGateStep DEF LoseGate, browserVars
<1>2. CASE BrowserDies
  BY <1>2, BrowserDiesStep DEF BrowserDies, Ended, ContextsGone
<1>3. CASE SwapBegin
  BY <1>3, SwapBeginStep DEF SwapBegin, gateVars
<1>4. CASE SwapFails
  BY <1>4, SwapFailsStep DEF SwapFails, gateVars
<1>5. CASE SwapEnd
  BY <1>5, SwapEndStep DEF SwapEnd
<1>6. QED
  BY <1>1, <1>2, <1>3, <1>4, <1>5, ClosePreviousStep

LEMMA UnchangedKeeps ==
  ASSUME IInv, UNCHANGED vars
  PROVE  IInv'
  BY DEF vars, IInv, TypeOK, OneAttach, AttachSound, LiveSound, SwapSound, OpenIsOwned, CreateSound, Watched,
         Ungated, Attaching, Here

LEMMA InvStep ==
  ASSUME IInv, [Next]_vars
  PROVE  IInv'
  BY CreatingKeeps, CloseKeeps, ContainingKeeps, OthersKeep, UnchangedKeeps DEF Next

\* The inductive invariant holds throughout: who holds the gates' lock, which contexts a gate and its
\* replacement share, and which containment answers for which session.
THEOREM Invariance == Spec => []IInv
  BY InvInit, InvStep, PTL DEF Spec

\* Every variable keeps its type; gates are attached one at a time, and only the registered one is live.
THEOREM TypesHold == Spec => []TypeOK
<1>1. IInv => TypeOK
  BY DEF IInv
<1>2. QED
  BY <1>1, Invariance, PTL

\* Every session its caller has on a lost gate is on some containment's list, or will be, for as long as
\* no gate ends on its own while a containment closes its browser.
THEOREM LossesAreWatched ==
  ASSUME ~LossWhileEnding
  PROVE  Spec => []LostIsWatched
<1>1. IInv => LostIsWatched
  BY DEF IInv, LostIsWatched, Watched
<1>2. QED
  BY <1>1, Invariance, PTL

\* An open context that was registered is its browser's gate's, through any number of replacements.
THEOREM OpenOnesAreOwned == Spec => []OpenIsOwned
<1>1. IInv => OpenIsOwned
  BY DEF IInv
<1>2. QED
  BY <1>1, Invariance, PTL

\* A browser is swapped for another with nobody on it.
THEOREM SwapsEndNoSession == Spec => SwapEndsNoSession
<1>1. IInv /\ [Next]_vars => [swap = "connecting" /\ browser' # browser =>
                               \A s \in Sessions : create[s].browser = browser =>
                                 s \notin listed /\ create[s].at \in {"listed", "active", "failed"}]_vars
  BY DEF IInv, SwapSound
<1>2. QED
  BY <1>1, Invariance, PTL DEF Spec, SwapEndsNoSession
=============================================================================
