---------------------- MODULE SessionLifecycle_proofs ----------------------
(* Theorems about SessionLifecycle, for every set of sessions, closers and savers, and every limit. *)
EXTENDS SessionLifecycle, FiniteSetTheorems, TLAPS

\* All of IInv but the limit, whose sets are counted apart.
Held == TypeOK /\ PlacesAreHeld /\ CreatesHave /\ ClosesHave /\ CloseIsRecorded

\* The store's refusal: a closed record stays closed, and a record closed is.
LEMMA UpsertKeeps ==
  ASSUME TypeOK, NEW s \in Sessions, NEW status \in {"active", "closed"}
  PROVE  /\ Upserted(s, status) \in [Sessions -> {"none", "active", "interrupted", "closed"}]
         /\ \A r \in Sessions : record[r] = "closed" => Upserted(s, status)[r] = "closed"
         /\ status = "closed" => Upserted(s, status)[s] = "closed"
  BY DEF TypeOK, Upserted

LEMMA InvInit == Init => IInv
<1> SUFFICES ASSUME Init
             PROVE  IInv
  OBVIOUS
<1>1. TypeOK
  BY DEF Init, TypeOK
<1>2. IsFiniteSet(live) /\ IsFiniteSet(reserved) /\ LimitHolds
  <2>1. Cardinality(live) = 0 /\ Cardinality(reserved) = 0 /\ IsFiniteSet(live) /\ IsFiniteSet(reserved)
    BY FS_EmptySet DEF Init
  <2>2. QED
    BY <2>1, LifecycleAssumption DEF LimitHolds
<1>3. PlacesAreHeld /\ CreatesHave /\ ClosesHave /\ CloseIsRecorded
  BY DEF Init, PlacesAreHeld, CreatesHave, ClosesHave, CloseIsRecorded, CloseSteps, PastCheck
<1>4. QED
  BY <1>1, <1>2, <1>3 DEF IInv

\* Each step of a create.
LEMMA CreatingKeeps ==
  ASSUME Held, NEW s \in Sessions, Creating(s)
  PROVE  Held'
<1>0. TypeOK /\ PlacesAreHeld /\ CreatesHave /\ ClosesHave /\ CloseIsRecorded
  BY DEF Held
<1> USE LifecycleAssumption
<1>1. CASE CheckLimit(s)
  <2>1. TypeOK'
    BY <1>0, <1>1 DEF TypeOK, PlacesAreHeld, CreatesHave, CheckLimit, Creates, resources, closing, CreateSteps,
       CreateEnds
  <2>2. PlacesAreHeld'
    BY <1>0, <1>1 DEF TypeOK, PlacesAreHeld, CreatesHave, CheckLimit, Creates, resources, closing, CreateSteps,
       CreateEnds
  <2>3. CreatesHave'
    BY <1>0, <1>1 DEF TypeOK, PlacesAreHeld, CreatesHave, CheckLimit, Creates, resources, closing, CreateSteps,
       CreateEnds
  <2>4. ClosesHave' /\ CloseIsRecorded'
    BY <1>0, <1>1 DEF TypeOK, ClosesHave, CloseIsRecorded, CloseSteps, PastCheck, CheckLimit, Creates,
       resources, closing, CreateSteps, CreateEnds
  <2>5. QED
    BY <2>1, <2>2, <2>3, <2>4 DEF Held
<1>2. CASE RefuseCreate(s)
  <2>1. TypeOK'
    BY <1>0, <1>2 DEF TypeOK, PlacesAreHeld, CreatesHave, RefuseCreate, Creates, resources, closing,
       CreateSteps, CreateEnds
  <2>2. PlacesAreHeld'
    BY <1>0, <1>2 DEF TypeOK, PlacesAreHeld, CreatesHave, RefuseCreate, Creates, resources, closing,
       CreateSteps, CreateEnds
  <2>3. CreatesHave'
    BY <1>0, <1>2 DEF TypeOK, PlacesAreHeld, CreatesHave, RefuseCreate, Creates, resources, closing,
       CreateSteps, CreateEnds
  <2>4. ClosesHave' /\ CloseIsRecorded'
    BY <1>0, <1>2 DEF TypeOK, ClosesHave, CloseIsRecorded, CloseSteps, PastCheck, RefuseCreate, Creates,
       resources, closing, CreateSteps, CreateEnds
  <2>5. QED
    BY <2>1, <2>2, <2>3, <2>4 DEF Held
<1>3. CASE Reserve(s)
  <2>1. TypeOK'
    BY <1>0, <1>3 DEF TypeOK, PlacesAreHeld, CreatesHave, Reserve, Creates, resources, closing, CreateSteps,
       CreateEnds
  <2>2. PlacesAreHeld'
    BY <1>0, <1>3 DEF TypeOK, PlacesAreHeld, CreatesHave, Reserve, Creates, resources, closing, CreateSteps,
       CreateEnds
  <2>3. CreatesHave'
    BY <1>0, <1>3 DEF TypeOK, PlacesAreHeld, CreatesHave, Reserve, Creates, resources, closing, CreateSteps,
       CreateEnds
  <2>4. ClosesHave' /\ CloseIsRecorded'
    BY <1>0, <1>3 DEF TypeOK, ClosesHave, CloseIsRecorded, CloseSteps, PastCheck, Reserve, Creates, resources,
       closing, CreateSteps, CreateEnds
  <2>5. QED
    BY <2>1, <2>2, <2>3, <2>4 DEF Held
<1>4. CASE OpenContext(s)
  <2>1. TypeOK'
    BY <1>0, <1>4 DEF TypeOK, PlacesAreHeld, CreatesHave, OpenContext, Creates, resources, closing, CreateSteps,
       CreateEnds
  <2>2. PlacesAreHeld'
    BY <1>0, <1>4 DEF TypeOK, PlacesAreHeld, CreatesHave, OpenContext, Creates, resources, closing, CreateSteps,
       CreateEnds
  <2>3. CreatesHave'
    BY <1>0, <1>4 DEF TypeOK, PlacesAreHeld, CreatesHave, OpenContext, Creates, resources, closing, CreateSteps,
       CreateEnds
  <2>4. ClosesHave' /\ CloseIsRecorded'
    BY <1>0, <1>4 DEF TypeOK, ClosesHave, CloseIsRecorded, CloseSteps, PastCheck, OpenContext, Creates,
       resources, closing, CreateSteps, CreateEnds
  <2>5. QED
    BY <2>1, <2>2, <2>3, <2>4 DEF Held
<1>5. CASE Register(s)
  <2>1. TypeOK'
    BY <1>0, <1>5 DEF TypeOK, PlacesAreHeld, CreatesHave, Register, Creates, resources, closing, CreateSteps,
       CreateEnds
  <2>2. PlacesAreHeld'
    BY <1>0, <1>5 DEF TypeOK, PlacesAreHeld, CreatesHave, Register, Creates, resources, closing, CreateSteps,
       CreateEnds
  <2>3. CreatesHave'
    BY <1>0, <1>5 DEF TypeOK, PlacesAreHeld, CreatesHave, Register, Creates, resources, closing, CreateSteps,
       CreateEnds
  <2>4. ClosesHave' /\ CloseIsRecorded'
    BY <1>0, <1>5 DEF TypeOK, ClosesHave, CloseIsRecorded, CloseSteps, PastCheck, Register, Creates, resources,
       closing, CreateSteps, CreateEnds
  <2>5. QED
    BY <2>1, <2>2, <2>3, <2>4 DEF Held
<1>6. CASE LoadPage(s)
  <2>1. TypeOK'
    BY <1>0, <1>6 DEF TypeOK, PlacesAreHeld, CreatesHave, LoadPage, Creates, resources, closing, CreateSteps,
       CreateEnds
  <2>2. PlacesAreHeld'
    BY <1>0, <1>6 DEF TypeOK, PlacesAreHeld, CreatesHave, LoadPage, Creates, resources, closing, CreateSteps,
       CreateEnds
  <2>3. CreatesHave'
    BY <1>0, <1>6 DEF TypeOK, PlacesAreHeld, CreatesHave, LoadPage, Creates, resources, closing, CreateSteps,
       CreateEnds
  <2>4. ClosesHave' /\ CloseIsRecorded'
    BY <1>0, <1>6 DEF TypeOK, ClosesHave, CloseIsRecorded, CloseSteps, PastCheck, LoadPage, Creates, resources,
       closing, CreateSteps, CreateEnds
  <2>5. QED
    BY <2>1, <2>2, <2>3, <2>4 DEF Held
<1>7. CASE PageLoads(s)
  <2>1. TypeOK'
    BY <1>0, <1>7 DEF TypeOK, PlacesAreHeld, CreatesHave, PageLoads, Creates, resources, closing, CreateSteps,
       CreateEnds, Onward
  <2>2. PlacesAreHeld'
    BY <1>0, <1>7 DEF TypeOK, PlacesAreHeld, CreatesHave, PageLoads, Creates, resources, closing, CreateSteps,
       CreateEnds, Onward
  <2>3. CreatesHave'
    BY <1>0, <1>7 DEF TypeOK, PlacesAreHeld, CreatesHave, PageLoads, Creates, resources, closing, CreateSteps,
       CreateEnds, Onward
  <2>4. ClosesHave' /\ CloseIsRecorded'
    BY <1>0, <1>7 DEF TypeOK, ClosesHave, CloseIsRecorded, CloseSteps, PastCheck, PageLoads, Creates, resources,
       closing, CreateSteps, CreateEnds, Onward
  <2>5. QED
    BY <2>1, <2>2, <2>3, <2>4 DEF Held
<1>8. CASE PageFails(s)
  <2>1. TypeOK'
    BY <1>0, <1>8 DEF TypeOK, PlacesAreHeld, CreatesHave, PageFails, Creates, resources, closing, CreateSteps,
       CreateEnds
  <2>2. PlacesAreHeld'
    BY <1>0, <1>8 DEF TypeOK, PlacesAreHeld, CreatesHave, PageFails, Creates, resources, closing, CreateSteps,
       CreateEnds
  <2>3. CreatesHave'
    BY <1>0, <1>8 DEF TypeOK, PlacesAreHeld, CreatesHave, PageFails, Creates, resources, closing, CreateSteps,
       CreateEnds
  <2>4. ClosesHave' /\ CloseIsRecorded'
    BY <1>0, <1>8 DEF TypeOK, ClosesHave, CloseIsRecorded, CloseSteps, PastCheck, PageFails, Creates, resources,
       closing, CreateSteps, CreateEnds
  <2>5. QED
    BY <2>1, <2>2, <2>3, <2>4 DEF Held
<1>9. CASE SkipPage(s)
  <2>1. TypeOK'
    BY <1>0, <1>9 DEF TypeOK, PlacesAreHeld, CreatesHave, SkipPage, Creates, resources, closing, CreateSteps,
       CreateEnds, Onward
  <2>2. PlacesAreHeld'
    BY <1>0, <1>9 DEF TypeOK, PlacesAreHeld, CreatesHave, SkipPage, Creates, resources, closing, CreateSteps,
       CreateEnds, Onward
  <2>3. CreatesHave'
    BY <1>0, <1>9 DEF TypeOK, PlacesAreHeld, CreatesHave, SkipPage, Creates, resources, closing, CreateSteps,
       CreateEnds, Onward
  <2>4. ClosesHave' /\ CloseIsRecorded'
    BY <1>0, <1>9 DEF TypeOK, ClosesHave, CloseIsRecorded, CloseSteps, PastCheck, SkipPage, Creates, resources,
       closing, CreateSteps, CreateEnds, Onward
  <2>5. QED
    BY <2>1, <2>2, <2>3, <2>4 DEF Held
<1>10. CASE TunnelUp(s)
  <2>1. TypeOK'
    BY <1>0, <1>10 DEF TypeOK, PlacesAreHeld, CreatesHave, TunnelUp, Creates, resources, closing, CreateSteps,
       CreateEnds
  <2>2. PlacesAreHeld'
    BY <1>0, <1>10 DEF TypeOK, PlacesAreHeld, CreatesHave, TunnelUp, Creates, resources, closing, CreateSteps,
       CreateEnds
  <2>3. CreatesHave'
    BY <1>0, <1>10 DEF TypeOK, PlacesAreHeld, CreatesHave, TunnelUp, Creates, resources, closing, CreateSteps,
       CreateEnds
  <2>4. ClosesHave' /\ CloseIsRecorded'
    BY <1>0, <1>10 DEF TypeOK, ClosesHave, CloseIsRecorded, CloseSteps, PastCheck, TunnelUp, Creates, resources,
       closing, CreateSteps, CreateEnds
  <2>5. QED
    BY <2>1, <2>2, <2>3, <2>4 DEF Held
<1>11. CASE TunnelFails(s)
  <2>1. TypeOK'
    BY <1>0, <1>11 DEF TypeOK, PlacesAreHeld, CreatesHave, TunnelFails, Creates, resources, closing,
       CreateSteps, CreateEnds
  <2>2. PlacesAreHeld'
    BY <1>0, <1>11 DEF TypeOK, PlacesAreHeld, CreatesHave, TunnelFails, Creates, resources, closing,
       CreateSteps, CreateEnds
  <2>3. CreatesHave'
    BY <1>0, <1>11 DEF TypeOK, PlacesAreHeld, CreatesHave, TunnelFails, Creates, resources, closing,
       CreateSteps, CreateEnds
  <2>4. ClosesHave' /\ CloseIsRecorded'
    BY <1>0, <1>11 DEF TypeOK, ClosesHave, CloseIsRecorded, CloseSteps, PastCheck, TunnelFails, Creates,
       resources, closing, CreateSteps, CreateEnds
  <2>5. QED
    BY <2>1, <2>2, <2>3, <2>4 DEF Held
<1>12. CASE RecordCreate(s)
  <2>1. TypeOK'
    BY <1>0, <1>12 DEF TypeOK, PlacesAreHeld, CreatesHave, RecordCreate, Creates, resources, closing,
       CreateSteps, CreateEnds
  <2>2. PlacesAreHeld'
    BY <1>0, <1>12 DEF TypeOK, PlacesAreHeld, CreatesHave, RecordCreate, Creates, resources, closing,
       CreateSteps, CreateEnds
  <2>3. CreatesHave'
    BY <1>0, <1>12 DEF TypeOK, PlacesAreHeld, CreatesHave, RecordCreate, Creates, resources, closing,
       CreateSteps, CreateEnds
  <2>4. ClosesHave' /\ CloseIsRecorded'
    BY <1>0, <1>12 DEF TypeOK, ClosesHave, CloseIsRecorded, CloseSteps, PastCheck, RecordCreate, Creates,
       resources, closing, CreateSteps, CreateEnds
  <2>5. QED
    BY <2>1, <2>2, <2>3, <2>4 DEF Held
<1>13. CASE SaveCreate(s)
  <2>1. TypeOK'
    BY <1>0, <1>13, UpsertKeeps DEF TypeOK, PlacesAreHeld, CreatesHave, SaveCreate, Creates, resources, closing,
       CreateSteps, CreateEnds
  <2>2. PlacesAreHeld'
    BY <1>0, <1>13 DEF TypeOK, PlacesAreHeld, CreatesHave, SaveCreate, Creates, resources, closing, CreateSteps,
       CreateEnds
  <2>3. CreatesHave'
    BY <1>0, <1>13 DEF TypeOK, PlacesAreHeld, CreatesHave, SaveCreate, Creates, resources, closing, CreateSteps,
       CreateEnds
  <2>4. ClosesHave' /\ CloseIsRecorded'
    BY <1>0, <1>13, UpsertKeeps DEF TypeOK, ClosesHave, CloseIsRecorded, CloseSteps, PastCheck, SaveCreate,
       Creates, resources, closing, CreateSteps, CreateEnds
  <2>5. QED
    BY <2>1, <2>2, <2>3, <2>4 DEF Held
<1>14. CASE CreateRaises(s)
  <2>1. TypeOK'
    BY <1>0, <1>14, UpsertKeeps DEF TypeOK, PlacesAreHeld, CreatesHave, CreateRaises, Creates, resources,
       closing, CreateSteps, CreateEnds
  <2>2. PlacesAreHeld'
    BY <1>0, <1>14 DEF TypeOK, PlacesAreHeld, CreatesHave, CreateRaises, Creates, resources, closing,
       CreateSteps, CreateEnds
  <2>3. CreatesHave'
    BY <1>0, <1>14 DEF TypeOK, PlacesAreHeld, CreatesHave, CreateRaises, Creates, resources, closing,
       CreateSteps, CreateEnds
  <2>4. ClosesHave' /\ CloseIsRecorded'
    BY <1>0, <1>14, UpsertKeeps DEF TypeOK, ClosesHave, CloseIsRecorded, CloseSteps, PastCheck, CreateRaises,
       Creates, resources, closing, CreateSteps, CreateEnds
  <2>5. QED
    BY <2>1, <2>2, <2>3, <2>4 DEF Held
<1>15. CASE Unregister(s)
  <2>1. TypeOK'
    BY <1>0, <1>15 DEF TypeOK, PlacesAreHeld, CreatesHave, Unregister, Creates, resources, closing, CreateSteps,
       CreateEnds
  <2>2. PlacesAreHeld'
    BY <1>0, <1>15 DEF TypeOK, PlacesAreHeld, CreatesHave, Unregister, Creates, resources, closing, CreateSteps,
       CreateEnds
  <2>3. CreatesHave'
    BY <1>0, <1>15 DEF TypeOK, PlacesAreHeld, CreatesHave, Unregister, Creates, resources, closing, CreateSteps,
       CreateEnds
  <2>4. ClosesHave' /\ CloseIsRecorded'
    BY <1>0, <1>15 DEF TypeOK, ClosesHave, CloseIsRecorded, CloseSteps, PastCheck, Unregister, Creates,
       resources, closing, CreateSteps, CreateEnds
  <2>5. QED
    BY <2>1, <2>2, <2>3, <2>4 DEF Held
<1>16. CASE Undo(s)
  <2>1. TypeOK'
    BY <1>0, <1>16 DEF TypeOK, PlacesAreHeld, CreatesHave, Undo, Creates, resources, closing, CreateSteps,
       CreateEnds
  <2>2. PlacesAreHeld'
    BY <1>0, <1>16 DEF TypeOK, PlacesAreHeld, CreatesHave, Undo, Creates, resources, closing, CreateSteps,
       CreateEnds
  <2>3. CreatesHave'
    BY <1>0, <1>16 DEF TypeOK, PlacesAreHeld, CreatesHave, Undo, Creates, resources, closing, CreateSteps,
       CreateEnds
  <2>4. ClosesHave' /\ CloseIsRecorded'
    BY <1>0, <1>16 DEF TypeOK, ClosesHave, CloseIsRecorded, CloseSteps, PastCheck, Undo, Creates, resources,
       closing, CreateSteps, CreateEnds
  <2>5. QED
    BY <2>1, <2>2, <2>3, <2>4 DEF Held
<1>17. CASE Forget(s)
  <2>1. TypeOK'
    BY <1>0, <1>17, UpsertKeeps DEF TypeOK, PlacesAreHeld, CreatesHave, Forget, Creates, resources, closing,
       CreateSteps, CreateEnds
  <2>2. PlacesAreHeld'
    BY <1>0, <1>17 DEF TypeOK, PlacesAreHeld, CreatesHave, Forget, Creates, resources, closing, CreateSteps,
       CreateEnds
  <2>3. CreatesHave'
    BY <1>0, <1>17 DEF TypeOK, PlacesAreHeld, CreatesHave, Forget, Creates, resources, closing, CreateSteps,
       CreateEnds
  <2>4. ClosesHave' /\ CloseIsRecorded'
    BY <1>0, <1>17, UpsertKeeps DEF TypeOK, ClosesHave, CloseIsRecorded, CloseSteps, PastCheck, Forget, Creates,
       resources, closing, CreateSteps, CreateEnds
  <2>5. QED
    BY <2>1, <2>2, <2>3, <2>4 DEF Held
<1>18. QED
  BY <1>1, <1>2, <1>3, <1>4, <1>5, <1>6, <1>7, <1>8, <1>9, <1>10, <1>11, <1>12, <1>13, <1>14, <1>15, <1>16,
     <1>17 DEF Creating

\* Each step of a close.
LEMMA ClosingKeeps ==
  ASSUME Held, NEW c \in Closers, ClosingOf(c)
  PROVE  Held'
<1>0. TypeOK /\ PlacesAreHeld /\ CreatesHave /\ ClosesHave /\ CloseIsRecorded
  BY DEF Held
<1>a. closer[c] \in CloseSteps => closes[c] \in Sessions
  BY <1>0 DEF ClosesHave
<1> USE LifecycleAssumption
<1>1. CASE TakeLock(c)
  <2>1. closes[c] \in Sessions
    BY <1>a, <1>1 DEF TakeLock, CloseSteps, PastCheck
  <2>2. TypeOK'
    BY <1>0, <2>1, <1>1 DEF TypeOK, TakeLock, resources, closing, CloseSteps, PastCheck, Closing, Returned,
       Missed, Unlocked
  <2>3. PlacesAreHeld' /\ CreatesHave'
    BY <1>0, <2>1, <1>1 DEF TypeOK, PlacesAreHeld, CreatesHave, TakeLock, resources, closing, CloseSteps,
       PastCheck, Closing, Returned, Missed, Unlocked
  <2>4. ClosesHave' /\ CloseIsRecorded'
    BY <1>0, <2>1, <1>1 DEF TypeOK, ClosesHave, CloseIsRecorded, TakeLock, resources, closing, CloseSteps,
       PastCheck, Closing, Returned, Missed, Unlocked
  <2>5. QED
    BY <2>2, <2>3, <2>4 DEF Held
<1>2. CASE ForceContext(c)
  <2>1. closes[c] \in Sessions
    BY <1>a, <1>2 DEF ForceContext, CloseSteps, PastCheck
  <2>2. TypeOK'
    BY <1>0, <2>1, <1>2 DEF TypeOK, ForceContext, resources, closing, CloseSteps, PastCheck, Closing, Returned,
       Missed, Unlocked
  <2>3. PlacesAreHeld' /\ CreatesHave'
    BY <1>0, <2>1, <1>2 DEF TypeOK, PlacesAreHeld, CreatesHave, ForceContext, resources, closing, CloseSteps,
       PastCheck, Closing, Returned, Missed, Unlocked
  <2>4. ClosesHave' /\ CloseIsRecorded'
    BY <1>0, <2>1, <1>2 DEF TypeOK, ClosesHave, CloseIsRecorded, ForceContext, resources, closing, CloseSteps,
       PastCheck, Closing, Returned, Missed, Unlocked
  <2>5. QED
    BY <2>2, <2>3, <2>4 DEF Held
<1>3. CASE GoWithoutLock(c)
  <2>1. closes[c] \in Sessions
    BY <1>a, <1>3 DEF GoWithoutLock, CloseSteps, PastCheck
  <2>2. TypeOK'
    BY <1>0, <2>1, <1>3 DEF TypeOK, GoWithoutLock, resources, closing, CloseSteps, PastCheck, Closing, Returned,
       Missed, Unlocked
  <2>3. PlacesAreHeld' /\ CreatesHave'
    BY <1>0, <2>1, <1>3 DEF TypeOK, PlacesAreHeld, CreatesHave, GoWithoutLock, resources, closing, CloseSteps,
       PastCheck, Closing, Returned, Missed, Unlocked
  <2>4. ClosesHave' /\ CloseIsRecorded'
    BY <1>0, <2>1, <1>3 DEF TypeOK, ClosesHave, CloseIsRecorded, GoWithoutLock, resources, closing, CloseSteps,
       PastCheck, Closing, Returned, Missed, Unlocked
  <2>5. QED
    BY <2>2, <2>3, <2>4 DEF Held
<1>4. CASE ReleaseTunnel(c)
  <2>1. closes[c] \in Sessions
    BY <1>a, <1>4 DEF ReleaseTunnel, CloseSteps, PastCheck
  <2>2. TypeOK'
    BY <1>0, <2>1, <1>4 DEF TypeOK, ReleaseTunnel, resources, closing, CloseSteps, PastCheck, Closing, Returned,
       Missed, Unlocked
  <2>3. PlacesAreHeld' /\ CreatesHave'
    BY <1>0, <2>1, <1>4 DEF TypeOK, PlacesAreHeld, CreatesHave, ReleaseTunnel, resources, closing, CloseSteps,
       PastCheck, Closing, Returned, Missed, Unlocked
  <2>4. ClosesHave' /\ CloseIsRecorded'
    BY <1>0, <2>1, <1>4 DEF TypeOK, ClosesHave, CloseIsRecorded, ReleaseTunnel, resources, closing, CloseSteps,
       PastCheck, Closing, Returned, Missed, Unlocked
  <2>5. QED
    BY <2>2, <2>3, <2>4 DEF Held
<1>5. CASE TearDown(c)
  <2>1. closes[c] \in Sessions
    BY <1>a, <1>5 DEF TearDown, CloseSteps, PastCheck
  <2>2. TypeOK'
    BY <1>0, <2>1, <1>5 DEF TypeOK, TearDown, resources, closing, CloseSteps, PastCheck, Closing, Returned,
       Missed, Unlocked
  <2>3. PlacesAreHeld' /\ CreatesHave'
    BY <1>0, <2>1, <1>5 DEF TypeOK, PlacesAreHeld, CreatesHave, TearDown, resources, closing, CloseSteps,
       PastCheck, Closing, Returned, Missed, Unlocked
  <2>4. ClosesHave' /\ CloseIsRecorded'
    BY <1>0, <2>1, <1>5 DEF TypeOK, ClosesHave, CloseIsRecorded, TearDown, resources, closing, CloseSteps,
       PastCheck, Closing, Returned, Missed, Unlocked
  <2>5. QED
    BY <2>2, <2>3, <2>4 DEF Held
<1>6. CASE SummaryFails(c)
  <2>1. closes[c] \in Sessions
    BY <1>a, <1>6 DEF SummaryFails, CloseSteps, PastCheck
  <2>2. TypeOK'
    BY <1>0, <2>1, <1>6, UpsertKeeps DEF TypeOK, SummaryFails, resources, closing, CloseSteps, PastCheck,
       Closing, Returned, Missed, Unlocked
  <2>3. PlacesAreHeld' /\ CreatesHave'
    BY <1>0, <2>1, <1>6 DEF TypeOK, PlacesAreHeld, CreatesHave, SummaryFails, resources, closing, CloseSteps,
       PastCheck, Closing, Returned, Missed, Unlocked
  <2>4. ClosesHave' /\ CloseIsRecorded'
    BY <1>0, <2>1, <1>6, UpsertKeeps DEF TypeOK, ClosesHave, CloseIsRecorded, SummaryFails, resources, closing,
       CloseSteps, PastCheck, Closing, Returned, Missed, Unlocked
  <2>5. QED
    BY <2>2, <2>3, <2>4 DEF Held
<1>7. CASE TearDownUnsummed(c)
  <2>1. closes[c] \in Sessions
    BY <1>a, <1>7 DEF TearDownUnsummed, CloseSteps, PastCheck
  <2>2. TypeOK'
    BY <1>0, <2>1, <1>7 DEF TypeOK, TearDownUnsummed, resources, closing, CloseSteps, PastCheck, Closing,
       Returned, Missed, Unlocked
  <2>3. PlacesAreHeld' /\ CreatesHave'
    BY <1>0, <2>1, <1>7 DEF TypeOK, PlacesAreHeld, CreatesHave, TearDownUnsummed, resources, closing,
       CloseSteps, PastCheck, Closing, Returned, Missed, Unlocked
  <2>4. ClosesHave' /\ CloseIsRecorded'
    BY <1>0, <2>1, <1>7 DEF TypeOK, ClosesHave, CloseIsRecorded, TearDownUnsummed, resources, closing,
       CloseSteps, PastCheck, Closing, Returned, Missed, Unlocked
  <2>5. QED
    BY <2>2, <2>3, <2>4 DEF Held
<1>8. CASE AuditClose(c)
  <2>1. closes[c] \in Sessions
    BY <1>a, <1>8 DEF AuditClose, CloseSteps, PastCheck
  <2>2. TypeOK'
    BY <1>0, <2>1, <1>8 DEF TypeOK, AuditClose, resources, closing, CloseSteps, PastCheck, Closing, Returned,
       Missed, Unlocked
  <2>3. PlacesAreHeld' /\ CreatesHave'
    BY <1>0, <2>1, <1>8 DEF TypeOK, PlacesAreHeld, CreatesHave, AuditClose, resources, closing, CloseSteps,
       PastCheck, Closing, Returned, Missed, Unlocked
  <2>4. ClosesHave' /\ CloseIsRecorded'
    BY <1>0, <2>1, <1>8 DEF TypeOK, ClosesHave, CloseIsRecorded, AuditClose, resources, closing, CloseSteps,
       PastCheck, Closing, Returned, Missed, Unlocked
  <2>5. QED
    BY <2>2, <2>3, <2>4 DEF Held
<1>9. CASE RecordClose(c)
  <2>1. closes[c] \in Sessions
    BY <1>a, <1>9 DEF RecordClose, CloseSteps, PastCheck
  <2>2. TypeOK'
    BY <1>0, <2>1, <1>9, UpsertKeeps DEF TypeOK, RecordClose, resources, closing, CloseSteps, PastCheck,
       Closing, Returned, Missed, Unlocked
  <2>3. PlacesAreHeld' /\ CreatesHave'
    BY <1>0, <2>1, <1>9 DEF TypeOK, PlacesAreHeld, CreatesHave, RecordClose, resources, closing, CloseSteps,
       PastCheck, Closing, Returned, Missed, Unlocked
  <2>4. ClosesHave' /\ CloseIsRecorded'
    BY <1>0, <2>1, <1>9, UpsertKeeps DEF TypeOK, ClosesHave, CloseIsRecorded, RecordClose, resources, closing,
       CloseSteps, PastCheck, Closing, Returned, Missed, Unlocked
  <2>5. QED
    BY <2>2, <2>3, <2>4 DEF Held
<1>10. CASE \E s \in Sessions : CallClose(c, s)
  <2>1. PICK s \in Sessions : CallClose(c, s)
    BY <1>10
  <2>2. TypeOK'
    BY <1>0, <2>1 DEF TypeOK, CallClose, resources, CloseSteps, PastCheck
  <2>3. PlacesAreHeld' /\ CreatesHave'
    BY <1>0, <2>1 DEF PlacesAreHeld, CreatesHave, CallClose, resources
  <2>4. ClosesHave' /\ CloseIsRecorded'
    BY <1>0, <2>1 DEF TypeOK, ClosesHave, CloseIsRecorded, CallClose, resources, CloseSteps, PastCheck
  <2>5. QED
    BY <2>2, <2>3, <2>4 DEF Held
<1>11. QED
  BY <1>1, <1>2, <1>3, <1>4, <1>5, <1>6, <1>7, <1>8, <1>9, <1>10 DEF ClosingOf

\* Actions, persists and a restart.
LEMMA OthersKeep ==
  ASSUME Held,
         \/ \E s \in Sessions : ActionStarts(s) \/ ActionEnds(s)
         \/ \E k \in Savers : Saving(k)
         \/ Restart
         \/ UNCHANGED vars
  PROVE  Held'
<1>0. TypeOK /\ PlacesAreHeld /\ CreatesHave /\ ClosesHave /\ CloseIsRecorded
  BY DEF Held
<1>1. CASE \E s \in Sessions : ActionStarts(s) \/ ActionEnds(s)
  <2>1. PICK s \in Sessions : ActionStarts(s) \/ ActionEnds(s)
    BY <1>1
  <2>2. TypeOK'
    BY <1>0, <2>1 DEF TypeOK, ActionStarts, ActionEnds, resources, closing
  <2>3. PlacesAreHeld' /\ CreatesHave' /\ ClosesHave' /\ CloseIsRecorded'
    BY <1>0, <2>1 DEF PlacesAreHeld, CreatesHave, ClosesHave, CloseIsRecorded, ActionStarts, ActionEnds,
                      resources, closing
  <2>4. QED
    BY <2>2, <2>3 DEF Held
<1>2. CASE \E k \in Savers : Saving(k)
  <2>1. PICK k \in Savers : Saving(k)
    BY <1>2
  <2>2. CASE \E s \in Sessions : SaveLooks(k, s)
    <3>1. TypeOK'
      BY <1>0, <2>2 DEF TypeOK, SaveLooks, resources, closing
    <3>2. PlacesAreHeld' /\ CreatesHave' /\ ClosesHave' /\ CloseIsRecorded'
      BY <1>0, <2>2 DEF PlacesAreHeld, CreatesHave, ClosesHave, CloseIsRecorded, SaveLooks, resources, closing
    <3>3. QED
      BY <3>1, <3>2 DEF Held
  <2>3. CASE SaveLands(k)
    <3>0. saves[k] \in Sessions
      BY <1>0, <2>3 DEF TypeOK, SaveLands
    <3>1. TypeOK'
      BY <1>0, <2>3, <3>0, UpsertKeeps DEF TypeOK, SaveLands, resources, closing
    <3>2. PlacesAreHeld' /\ CreatesHave'
      BY <1>0, <2>3 DEF PlacesAreHeld, CreatesHave, SaveLands, resources, closing
    <3>3. ClosesHave' /\ CloseIsRecorded'
      BY <1>0, <2>3, <3>0, UpsertKeeps DEF TypeOK, ClosesHave, CloseIsRecorded, CloseSteps, PastCheck,
         SaveLands,
                                           resources, closing
    <3>4. QED
      BY <3>1, <3>2, <3>3 DEF Held
  <2>4. QED
    BY <2>1, <2>2, <2>3 DEF Saving
<1>3. CASE Restart
  <2>1. TypeOK'
    BY <1>0, <1>3 DEF TypeOK, Restart, CreateSteps, CreateEnds, CloseSteps, PastCheck
  <2>2. PlacesAreHeld' /\ CreatesHave'
    BY <1>0, <1>3 DEF TypeOK, PlacesAreHeld, CreatesHave, Restart, CreateSteps, CreateEnds
  <2>3. ClosesHave' /\ CloseIsRecorded'
    BY <1>0, <1>3 DEF TypeOK, ClosesHave, CloseIsRecorded, Restart, CloseSteps, PastCheck
  <2>4. QED
    BY <2>1, <2>2, <2>3 DEF Held
<1>4. CASE UNCHANGED vars
  BY <1>0, <1>4 DEF Held, TypeOK, PlacesAreHeld, CreatesHave, ClosesHave, CloseIsRecorded, vars, resources,
     closing
<1>5. QED
  BY <1>1, <1>2, <1>3, <1>4

\* A step frees places, or takes one after finding room (Reserve), or turns a reserved one into a session.
LEMMA PlacesMove ==
  ASSUME Held, [Next]_vars
  PROVE  \/ live' \subseteq live /\ reserved' \subseteq reserved
         \/ Room /\ live' = live /\ \E s \in Sessions : reserved' = reserved \union {s}
         \/ \E s \in reserved \ live : live' = live \union {s} /\ reserved' = reserved \ {s}
<1>0. TypeOK /\ PlacesAreHeld
  BY DEF Held
<1>1. ASSUME NEW s \in Sessions, Creating(s)
      PROVE  \/ live' \subseteq live /\ reserved' \subseteq reserved
             \/ Reserve(s) /\ Room
             \/ Register(s)
  BY <1>1 DEF Creating, CheckLimit, RefuseCreate, Reserve, OpenContext, Register, LoadPage, PageLoads,
     PageFails, SkipPage, TunnelUp, TunnelFails, RecordCreate, SaveCreate, CreateRaises, Unregister, Undo,
     Forget
<1>2. ASSUME NEW c \in Closers, ClosingOf(c)
      PROVE  live' \subseteq live /\ reserved' \subseteq reserved
  BY <1>2 DEF ClosingOf, CallClose, TakeLock, ForceContext, GoWithoutLock, ReleaseTunnel, TearDown,
     SummaryFails, TearDownUnsummed, AuditClose, RecordClose, Closing, Missed, Returned
<1>3. ASSUME NEW k \in Savers, Saving(k)
      PROVE  live' \subseteq live /\ reserved' \subseteq reserved
  BY <1>3 DEF Saving, SaveLooks, SaveLands
<1>4. ASSUME NEW s \in Sessions, ActionStarts(s) \/ ActionEnds(s)
      PROVE  live' \subseteq live /\ reserved' \subseteq reserved
  BY <1>4 DEF ActionStarts, ActionEnds
<1>5. ASSUME Restart \/ UNCHANGED vars
      PROVE  live' \subseteq live /\ reserved' \subseteq reserved
  BY <1>5 DEF Restart, vars
<1>6. ASSUME NEW s \in Sessions, Reserve(s), Room
      PROVE  live' = live /\ reserved' = reserved \union {s}
  BY <1>6 DEF Reserve
<1>7. ASSUME NEW s \in Sessions, Register(s)
      PROVE  s \in reserved \ live /\ live' = live \union {s} /\ reserved' = reserved \ {s}
  BY <1>0, <1>7 DEF Register, PlacesAreHeld, TypeOK
<1>8. QED
  BY <1>1, <1>2, <1>3, <1>4, <1>5, <1>6, <1>7 DEF Next

LEMMA LimitKept ==
  ASSUME IInv, [Next]_vars
  PROVE  IsFiniteSet(live') /\ IsFiniteSet(reserved') /\ LimitHolds'
<1>0. /\ IsFiniteSet(live) /\ IsFiniteSet(reserved)
      /\ Cardinality(live) \in Nat /\ Cardinality(reserved) \in Nat
      /\ Cardinality(live) + Cardinality(reserved) <= MaxSessions
      /\ MaxSessions \in Nat
  BY FS_CardinalityType, LifecycleAssumption DEF IInv, LimitHolds
<1>1. CASE live' \subseteq live /\ reserved' \subseteq reserved
  <2>1. /\ IsFiniteSet(live') /\ IsFiniteSet(reserved')
        /\ Cardinality(live') <= Cardinality(live) /\ Cardinality(reserved') <= Cardinality(reserved)
    BY <1>0, <1>1, FS_Subset
  <2>2. Cardinality(live') \in Nat /\ Cardinality(reserved') \in Nat
    BY <2>1, FS_CardinalityType
  <2>3. QED
    BY <1>0, <2>1, <2>2 DEF LimitHolds
<1>2. CASE Room /\ live' = live /\ \E s \in Sessions : reserved' = reserved \union {s}
  <2>1. PICK s \in Sessions : reserved' = reserved \union {s}
    BY <1>2
  <2>2. /\ IsFiniteSet(reserved')
        /\ Cardinality(reserved') = Cardinality(reserved) \/ Cardinality(reserved') = Cardinality(reserved) + 1
    BY <1>0, <2>1, FS_AddElement
  <2>3. QED
    BY <1>0, <1>2, <2>2 DEF Room, LimitHolds
<1>3. CASE \E s \in reserved \ live : live' = live \union {s} /\ reserved' = reserved \ {s}
  <2>1. PICK s \in reserved \ live : live' = live \union {s} /\ reserved' = reserved \ {s}
    BY <1>3
  <2>2. IsFiniteSet(live') /\ Cardinality(live') = Cardinality(live) + 1
    BY <1>0, <2>1, FS_AddElement
  <2>3. IsFiniteSet(reserved') /\ Cardinality(reserved') = Cardinality(reserved) - 1
    BY <1>0, <2>1, FS_RemoveElement
  <2>4. QED
    BY <1>0, <2>2, <2>3 DEF LimitHolds
<1>4. QED
  BY <1>1, <1>2, <1>3, PlacesMove DEF IInv, Held

LEMMA InvStep ==
  ASSUME IInv, [Next]_vars
  PROVE  IInv'
<1>1. Held
  BY DEF IInv, Held
<1>2. Held'
  BY <1>1, CreatingKeeps, ClosingKeeps, OthersKeep DEF Next
<1>3. QED
  BY <1>2, LimitKept DEF IInv, Held

\* The inductive invariant holds throughout: which places are held (create's reservation and the registry),
\* and what each create and each close has of its session at each of its awaits.
THEOREM Invariance == Spec => []IInv
  BY InvInit, InvStep, PTL DEF Spec

\* Every variable keeps its type, and no session is counted both as live and as being created.
THEOREM TypesHold == Spec => []TypeOK
<1>1. IInv => TypeOK
  BY DEF IInv
<1>2. QED
  BY <1>1, Invariance, PTL

\* MAX_SESSIONS holds for any number of concurrent creates, closes and restarts: the second look and
\* the reservation are one step, and a registration moves a place instead of taking one.
THEOREM LimitIsKept == Spec => []LimitHolds
<1>1. IInv => LimitHolds
  BY DEF IInv
<1>2. QED
  BY <1>1, Invariance, PTL

\* cleanup_failed leaves nothing of a create, wherever it failed and whoever was closing the session.
THEOREM FailuresAreUndone == Spec => []FailedLeavesNothing
<1>1. IInv => FailedLeavesNothing
  BY DEF IInv, PlacesAreHeld, CreatesHave, FailedLeavesNothing
<1>2. QED
  BY <1>1, Invariance, PTL

\* The record of a session whose close ended is closed, for good.
THEOREM ClosesAreRecorded == Spec => []CloseIsRecorded
<1>1. IInv => CloseIsRecorded
  BY DEF IInv
<1>2. QED
  BY <1>1, Invariance, PTL
=============================================================================
