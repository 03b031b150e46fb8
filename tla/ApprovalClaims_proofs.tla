------------------------ MODULE ApprovalClaims_proofs ------------------------
(* Theorems about ApprovalClaims, for every set of approvals, holds and tasks. *)
EXTENDS ApprovalClaims, TLAPS

\* The types, step by step: no action reads the records of an approval it does not name.
LEMMA TypeInit == Init => TypeOK
  BY ApprovalAssumption DEF Init, TypeOK, Statuses, Deciders, Phases, Verdicts

LEMMA DecidingTypes ==
  ASSUME TypeOK, NEW a \in Approvals, Deciding(a)
  PROVE  TypeOK'
<1>1. CASE RequestNew(a)
  BY <1>1 DEF TypeOK, RequestNew, holdVars, made, Statuses
<1>2. CASE RequestSame(a)
  BY <1>2 DEF TypeOK, RequestSame, holdVars, made
<1>3. ASSUME NEW verdict \in Verdicts, NEW by \in {"operator", "agent"}, Decide(a, verdict, by)
      PROVE  TypeOK'
  BY <1>3 DEF TypeOK, Decide, MayDecide, holdVars, made, Statuses, Deciders, Verdicts
<1>4. CASE DeferReject(a)
  BY <1>4 DEF TypeOK, DeferReject, DecidableClaim, record, made, Verdicts
<1>5. CASE WithdrawReject(a)
  BY <1>5 DEF TypeOK, WithdrawReject, DecidableClaim, record, made, Verdicts
<1>6. CASE TtlPasses(a)
  BY <1>6 DEF TypeOK, TtlPasses, holdVars, made
<1>7. CASE TextAgesOut(a)
  BY <1>7 DEF TypeOK, TextAgesOut, holdVars, made
<1>8. QED
  BY <1>1, <1>2, <1>3, <1>4, <1>5, <1>6, <1>7 DEF Deciding

LEMMA RunningTypes ==
  ASSUME TypeOK, NEW t \in Tasks, Running(t)
  PROVE  TypeOK'
<1>1. ASSUME NEW a \in Approvals, NEW h \in Holds, NEW m \in BOOLEAN, NEW c \in BOOLEAN,
             Claim(t, a, h, m, c)
      PROVE  TypeOK'
  BY <1>1 DEF TypeOK, Claim, Statuses, Phases
<1>2. CASE BeginEffect(t)
  BY <1>2 DEF TypeOK, BeginEffect, record, made
<1>3. CASE Refuse(t)
  BY <1>3 DEF TypeOK, Refuse, record, made
<1>4. ASSUME NEW u \in Tasks, Spawn(t, u)
      PROVE  TypeOK'
  BY <1>4 DEF TypeOK, Spawn, record, holdVars, made
<1>5. CASE Finish(t)
  BY <1>5 DEF TypeOK, Finish, record, holdVars, made
<1>6. QED
  BY <1>1, <1>2, <1>3, <1>4, <1>5 DEF Running

LEMMA SettlingTypes ==
  ASSUME TypeOK, UsedHasApproval, NEW h \in Holds, Settling(h)
  PROVE  TypeOK'
<1>0. phase[h] # "unused" => on[h] \in Approvals /\ owner[h] \in Tasks
  BY DEF UsedHasApproval
<1>1. ASSUME NEW how \in Endings, End(h, how)
      PROVE  TypeOK'
  <2>1. phase[h] # "unused"
    BY <1>1 DEF End, Active
  <2>2. CASE GivesBack(h, how)
    BY <1>1, <2>2, <2>1 DEF TypeOK, End, made, Phases, OwnWay
  <2>3. CASE ~GivesBack(h, how)
    <3>1. ReleaseHold(h, TRUE) /\ UNCHANGED ownWay
      BY <1>1, <2>3 DEF End
    <3>2. UNCHANGED <<status, decider, lapsed, made, effect, refused, rejection, begun, word>>
      BY <1>1 DEF End
    <3>3. claims' \in [Approvals -> Holds \union {NoHold}] /\ phase' \in [Holds -> Phases]
      BY <3>1 DEF TypeOK, ReleaseHold, Revoked, Phases
    <3>4. kept' \in [Approvals -> BOOLEAN]
      BY <3>1 DEF TypeOK, ReleaseHold
    <3>5. carried' \in [Tasks -> SUBSET Holds]
      BY <3>1, <1>0, <2>1 DEF TypeOK, ReleaseHold
    <3>6. QED
      BY <3>1, <3>2, <3>3, <3>4, <3>5 DEF TypeOK, made
  <2>4. QED
    BY <2>2, <2>3
<1>2. CASE WriteGiveBack(h)
  <2>1. CASE rejection[h]
    BY <1>0, <1>2, <2>1 DEF TypeOK, WriteGiveBack, made, Phases, Statuses, Deciders
  <2>2. CASE ~rejection[h]
    BY <1>2, <2>2 DEF TypeOK, WriteGiveBack, made, Phases, Statuses, Deciders
  <2>3. QED
    BY <2>1, <2>2
<1>3. CASE NoGiveBack(h)
  BY <1>3 DEF TypeOK, NoGiveBack, record, made, Phases
<1>4. CASE Release(h)
  BY <1>4, <1>0 DEF TypeOK, Release, ReleaseHold, Revoked, made, Phases
<1>5. QED
  BY <1>1, <1>2, <1>3, <1>4 DEF Settling

LEMMA RestartTypes == TypeOK /\ Restart => TypeOK'
  BY DEF TypeOK, Restart, Phases, made

LEMMA StutterTypes == TypeOK /\ UNCHANGED vars => TypeOK'
  BY DEF TypeOK, vars, record, holdVars, made

-----------------------------------------------------------------------------
(* The inductive invariant, action by action.  Each lemma has a step for every part of IInv the  *)
(* action can disturb, and one for the parts that do not mention what it changes.                *)

LEMMA InvInit == Init => IInv
<1>1. Init => TypeOK
  BY TypeInit
<1>2. SUFFICES ASSUME Init PROVE IInv
  OBVIOUS
<1>3. /\ ClaimsAreOpen /\ OpenIsExecuted /\ WrittenIsDecided /\ UnusedIsBlank /\ UsedHasApproval
      /\ EffectIsSpent /\ BegunByEffect /\ BegunOnce /\ RejectionIsDecidable /\ GivingBackMay
      /\ RejectWaits /\ RejectStands /\ WordIsOnDecided /\ OperatorsWordStands /\ ArgumentsHeld
  BY <1>2, ApprovalAssumption
     DEF Init, WordIsOnDecided, OperatorsWordStands, Verdicts, ClaimsAreOpen, OpenIsExecuted, WrittenIsDecided,
    UnusedIsBlank, UsedHasApproval, EffectIsSpent, BegunByEffect, BegunOnce, RejectionIsDecidable,
    GivingBackMay, RejectWaits, RejectStands, ArgumentsHeld
<1>4. QED
  BY <1>1, <1>2, <1>3 DEF IInv

LEMMA RequestNewKeeps ==
  ASSUME IInv, NEW a \in Approvals, RequestNew(a)
  PROVE  IInv'
<1>1. TypeOK'
  BY DecidingTypes DEF IInv, Deciding, Verdicts
<1>2. OpenIsExecuted'
  BY ApprovalAssumption DEF IInv, TypeOK, Open, Active, OpenIsExecuted, RequestNew, holdVars, made
<1>3. WrittenIsDecided'
  BY DEF IInv, WrittenIsDecided, RequestNew, TypeOK, Verdicts, holdVars, made
<1>4. EffectIsSpent'
  BY ApprovalAssumption DEF IInv, TypeOK, Open, Active, EffectIsSpent, OpenIsExecuted, RequestNew,
    holdVars, made
<1>5. RejectWaits'
  BY ApprovalAssumption DEF IInv, TypeOK, Open, Active, RejectWaits, RejectStands, RequestNew,
    holdVars, made
<1>6. RejectStands'
  BY ApprovalAssumption DEF IInv, TypeOK, Open, Active, RejectStands, RejectWaits, OpenIsExecuted,
    RequestNew, holdVars, made
<1>7. ArgumentsHeld'
  BY ApprovalAssumption DEF IInv, TypeOK, ArgumentsHeld, RequestNew, Swept, holdVars, made
<1>8. ClaimsAreOpen' /\ UnusedIsBlank' /\ UsedHasApproval' /\ BegunByEffect' /\ BegunOnce'
      /\ RejectionIsDecidable' /\ GivingBackMay'
  BY DEF IInv, Open, Active, ClaimsAreOpen, UnusedIsBlank, UsedHasApproval, BegunByEffect,
    BegunOnce, RejectionIsDecidable, GivingBackMay, RequestNew, holdVars, made
<1>9. WordIsOnDecided' /\ OperatorsWordStands'
  BY DEF IInv, WordIsOnDecided, OperatorsWordStands, RequestNew, TypeOK, Verdicts
<1>10. QED
  BY <1>1, <1>2, <1>3, <1>4, <1>5, <1>6, <1>7, <1>8, <1>9 DEF IInv

LEMMA RequestSameKeeps ==
  ASSUME IInv, NEW a \in Approvals, RequestSame(a)
  PROVE  IInv'
<1>1. TypeOK'
  BY DecidingTypes DEF IInv, Deciding, Verdicts
<1>2. ArgumentsHeld'
  BY ApprovalAssumption DEF IInv, TypeOK, ArgumentsHeld, RequestSame, Swept, holdVars, made
<1>3. ClaimsAreOpen' /\ OpenIsExecuted' /\ WrittenIsDecided' /\ UnusedIsBlank'
      /\ UsedHasApproval' /\ EffectIsSpent' /\ BegunByEffect' /\ BegunOnce'
      /\ RejectionIsDecidable' /\ GivingBackMay' /\ RejectWaits' /\ RejectStands'
  BY DEF IInv, Open, Active, ClaimsAreOpen, OpenIsExecuted, WrittenIsDecided, UnusedIsBlank,
    UsedHasApproval, EffectIsSpent, BegunByEffect, BegunOnce, RejectionIsDecidable, GivingBackMay,
    RejectWaits, RejectStands, RequestSame, holdVars, made
<1>4. WordIsOnDecided' /\ OperatorsWordStands'
  BY DEF IInv, WordIsOnDecided, OperatorsWordStands, RequestSame
<1>5. QED
  BY <1>1, <1>2, <1>3, <1>4 DEF IInv

LEMMA DecideKeeps ==
  ASSUME IInv, NEW a \in Approvals, NEW verdict \in Verdicts, NEW by \in {"operator", "agent"},
         Decide(a, verdict, by)
  PROVE  IInv'
<1>1. TypeOK'
  BY DecidingTypes DEF IInv, Deciding, Verdicts
<1>2. OpenIsExecuted'
  BY ApprovalAssumption DEF IInv, TypeOK, Open, Active, OpenIsExecuted, Decide, MayDecide, Verdicts,
    holdVars, made
<1>3. WrittenIsDecided'
  BY ApprovalAssumption DEF IInv, TypeOK, Open, Active, WrittenIsDecided, OpenIsExecuted, Decide, MayDecide,
    Verdicts, holdVars, made
<1>4. EffectIsSpent'
  BY ApprovalAssumption DEF IInv, TypeOK, Open, Active, EffectIsSpent, OpenIsExecuted, Decide, MayDecide,
    Verdicts, holdVars, made
<1>5. RejectWaits'
  BY ApprovalAssumption DEF IInv, TypeOK, Open, Active, RejectWaits, RejectStands, Decide, MayDecide,
    Verdicts, holdVars, made
<1>6. RejectStands'
  BY ApprovalAssumption DEF IInv, TypeOK, Open, Active, RejectStands, RejectWaits, OpenIsExecuted,
    Decide, MayDecide, Verdicts, holdVars, made
<1>7. ArgumentsHeld'
  BY ApprovalAssumption DEF IInv, TypeOK, ArgumentsHeld, Decide, MayDecide, Bound, Verdicts, holdVars, made
<1>8. ClaimsAreOpen' /\ UnusedIsBlank' /\ UsedHasApproval' /\ BegunByEffect' /\ BegunOnce'
      /\ RejectionIsDecidable' /\ GivingBackMay'
  BY DEF IInv, Open, Active, ClaimsAreOpen, UnusedIsBlank, UsedHasApproval, BegunByEffect,
    BegunOnce, RejectionIsDecidable, GivingBackMay, Decide, MayDecide, Verdicts, holdVars, made
<1>9. WordIsOnDecided' /\ OperatorsWordStands'
  BY DEF IInv, WordIsOnDecided, OperatorsWordStands, Decide, TypeOK, MayDecide, Verdicts
<1>10. QED
  BY <1>1, <1>2, <1>3, <1>4, <1>5, <1>6, <1>7, <1>8, <1>9 DEF IInv

LEMMA DeferRejectKeeps ==
  ASSUME IInv, NEW a \in Approvals, DeferReject(a)
  PROVE  IInv'
<1>1. TypeOK'
  BY DecidingTypes DEF IInv, Deciding, Verdicts
<1>2. UnusedIsBlank'
  BY ApprovalAssumption DEF IInv, TypeOK, Open, Active, UnusedIsBlank, ClaimsAreOpen, DeferReject,
    DecidableClaim, record, made
<1>3. RejectionIsDecidable'
  BY ApprovalAssumption DEF IInv, TypeOK, Open, Active, RejectionIsDecidable, UnusedIsBlank,
    DeferReject, DecidableClaim, record, made
<1>4. RejectWaits'
  BY ApprovalAssumption DEF IInv, TypeOK, ClaimsAreOpen, RejectWaits, DeferReject, DecidableClaim,
    record, made
<1>5. RejectStands'
  <2>1. claims[a] \in Holds /\ on[claims[a]] = a /\ ~effect[claims[a]]
    BY DEF IInv, TypeOK, ClaimsAreOpen, DeferReject, DecidableClaim
  <2>2. \A g \in Holds : effect[g] => on[g] # a
    BY <2>1, ApprovalAssumption DEF IInv, EffectIsSpent, OpenIsExecuted, ClaimsAreOpen
  <2>3. begun[a] = 0
    BY <2>2 DEF IInv, BegunByEffect, TypeOK
  <2> QED
   BY <2>1, <2>3 DEF IInv, TypeOK, RejectStands, DeferReject, DecidableClaim, record, made
<1>6. ClaimsAreOpen' /\ OpenIsExecuted' /\ WrittenIsDecided' /\ UsedHasApproval'
      /\ EffectIsSpent' /\ BegunByEffect' /\ BegunOnce' /\ GivingBackMay'
      /\ ArgumentsHeld'
  BY DEF IInv, Open, Active, ClaimsAreOpen, OpenIsExecuted, WrittenIsDecided, UsedHasApproval,
    EffectIsSpent, BegunByEffect, BegunOnce, GivingBackMay, ArgumentsHeld, DeferReject,
    DecidableClaim, record, made
<1>7. WordIsOnDecided' /\ OperatorsWordStands'
  BY DEF IInv, WordIsOnDecided, OperatorsWordStands, DeferReject, TypeOK, DecidableClaim, record, Verdicts
<1>8. QED
  BY <1>1, <1>2, <1>3, <1>4, <1>5, <1>6, <1>7 DEF IInv

LEMMA WithdrawRejectKeeps ==
  ASSUME IInv, NEW a \in Approvals, WithdrawReject(a)
  PROVE  IInv'
<1>1. TypeOK'
  BY DecidingTypes DEF IInv, Deciding, Verdicts
<1>2. UnusedIsBlank'
  BY ApprovalAssumption DEF IInv, TypeOK, Open, Active, UnusedIsBlank, ClaimsAreOpen,
    WithdrawReject, DecidableClaim, record, made
<1>3. RejectionIsDecidable'
  BY ApprovalAssumption DEF IInv, TypeOK, Open, Active, RejectionIsDecidable, UnusedIsBlank,
    WithdrawReject, DecidableClaim, record, made
<1>4. RejectWaits'
  BY DEF IInv, TypeOK, ClaimsAreOpen, RejectWaits, WithdrawReject, DecidableClaim, record, made
<1>5. RejectStands'
  BY DEF IInv, TypeOK, RejectStands, ClaimsAreOpen, OpenIsExecuted, Open, RejectWaits, WithdrawReject,
       DecidableClaim, record, made
<1>6. ClaimsAreOpen' /\ OpenIsExecuted' /\ WrittenIsDecided' /\ UsedHasApproval'
      /\ EffectIsSpent' /\ BegunByEffect' /\ BegunOnce' /\ GivingBackMay'
      /\ ArgumentsHeld'
  BY DEF IInv, Open, Active, ClaimsAreOpen, OpenIsExecuted, WrittenIsDecided, UsedHasApproval,
    EffectIsSpent, BegunByEffect, BegunOnce, GivingBackMay, ArgumentsHeld, WithdrawReject,
    DecidableClaim, record, made
<1>7. WordIsOnDecided' /\ OperatorsWordStands'
  BY DEF IInv, WordIsOnDecided, OperatorsWordStands, WithdrawReject, TypeOK, DecidableClaim, record, Verdicts
<1>8. QED
  BY <1>1, <1>2, <1>3, <1>4, <1>5, <1>6, <1>7 DEF IInv

LEMMA TtlPassesKeeps ==
  ASSUME IInv, NEW a \in Approvals, TtlPasses(a)
  PROVE  IInv'
<1>1. TypeOK'
  BY DecidingTypes DEF IInv, Deciding, Verdicts
<1>2. ClaimsAreOpen' /\ OpenIsExecuted' /\ WrittenIsDecided' /\ UnusedIsBlank'
      /\ UsedHasApproval' /\ EffectIsSpent' /\ BegunByEffect' /\ BegunOnce'
      /\ RejectionIsDecidable' /\ GivingBackMay' /\ RejectWaits' /\ RejectStands'
      /\ ArgumentsHeld'
  BY DEF IInv, Open, Active, ClaimsAreOpen, OpenIsExecuted, WrittenIsDecided, UnusedIsBlank,
    UsedHasApproval, EffectIsSpent, BegunByEffect, BegunOnce, RejectionIsDecidable, GivingBackMay,
    RejectWaits, RejectStands, ArgumentsHeld, TtlPasses, holdVars, made
<1>3. WordIsOnDecided' /\ OperatorsWordStands'
  BY DEF IInv, WordIsOnDecided, OperatorsWordStands, TtlPasses
<1>4. QED
  BY <1>1, <1>2, <1>3 DEF IInv

LEMMA TextAgesOutKeeps ==
  ASSUME IInv, NEW a \in Approvals, TextAgesOut(a)
  PROVE  IInv'
<1>1. TypeOK'
  BY DecidingTypes DEF IInv, Deciding, Verdicts
<1>2. ArgumentsHeld'
  BY ApprovalAssumption DEF IInv, TypeOK, Open, Active, ArgumentsHeld, OpenIsExecuted,
    ClaimsAreOpen, UsedHasApproval, TextAgesOut, holdVars, made
<1>3. ClaimsAreOpen' /\ OpenIsExecuted' /\ WrittenIsDecided' /\ UnusedIsBlank'
      /\ UsedHasApproval' /\ EffectIsSpent' /\ BegunByEffect' /\ BegunOnce'
      /\ RejectionIsDecidable' /\ GivingBackMay' /\ RejectWaits' /\ RejectStands'
  BY DEF IInv, Open, Active, ClaimsAreOpen, OpenIsExecuted, WrittenIsDecided, UnusedIsBlank,
    UsedHasApproval, EffectIsSpent, BegunByEffect, BegunOnce, RejectionIsDecidable, GivingBackMay,
    RejectWaits, RejectStands, TextAgesOut, holdVars, made
<1>4. WordIsOnDecided' /\ OperatorsWordStands'
  BY DEF IInv, WordIsOnDecided, OperatorsWordStands, TextAgesOut
<1>5. QED
  BY <1>1, <1>2, <1>3, <1>4 DEF IInv

LEMMA ClaimKeeps ==
  ASSUME IInv, NEW t \in Tasks, NEW a \in Approvals, NEW h \in Holds, NEW m \in BOOLEAN,
         NEW c \in BOOLEAN, Claim(t, a, h, m, c)
  PROVE  IInv'
<1>1. TypeOK'
  BY RunningTypes DEF IInv, Running, Verdicts
<1>2. ClaimsAreOpen'
  BY ApprovalAssumption DEF IInv, TypeOK, Open, Active, ClaimsAreOpen, Claim
<1>3. OpenIsExecuted'
  BY ApprovalAssumption DEF IInv, TypeOK, Open, Active, OpenIsExecuted, Claim
<1>4. WrittenIsDecided'
  BY ApprovalAssumption DEF IInv, TypeOK, Open, Active, WrittenIsDecided, OpenIsExecuted, Claim
<1>5. UnusedIsBlank'
  BY ApprovalAssumption DEF IInv, TypeOK, Open, Active, UnusedIsBlank, ClaimsAreOpen, Claim
<1>6. UsedHasApproval'
  BY ApprovalAssumption DEF IInv, TypeOK, Open, Active, UsedHasApproval, Claim
<1>7. EffectIsSpent'
  BY ApprovalAssumption DEF IInv, TypeOK, Open, Active, EffectIsSpent, OpenIsExecuted, Claim
<1>8. BegunByEffect'
  BY ApprovalAssumption DEF IInv, TypeOK, Open, Active, BegunByEffect, UnusedIsBlank, Claim
<1>9. RejectionIsDecidable'
  BY ApprovalAssumption DEF IInv, TypeOK, Open, Active, RejectionIsDecidable, UnusedIsBlank, Claim
<1>10. GivingBackMay'
  BY ApprovalAssumption DEF IInv, TypeOK, Open, Active, GivingBackMay, UnusedIsBlank, Claim
<1>11. RejectWaits'
  <2>1. word[a] # "rejected" /\ ~rejection[h]
    BY DEF IInv, OperatorsWordStands, UnusedIsBlank, Verdicts, Claim
  <2>2. \A b \in Approvals \ {a} : claims'[b] = claims[b] /\ status'[b] = status[b]
    BY DEF IInv, TypeOK, Claim
  <2>3. claims'[a] = h /\ rejection' = rejection /\ word' = word
    BY DEF IInv, TypeOK, Claim
  <2>4. QED
    BY <2>1, <2>2, <2>3 DEF IInv, RejectWaits
<1>12. RejectStands'
  BY DEF IInv, TypeOK, RejectStands, ClaimsAreOpen, UnusedIsBlank, Claim
<1>13. ArgumentsHeld'
  BY ApprovalAssumption DEF IInv, TypeOK, Open, Active, ArgumentsHeld, OpenIsExecuted,
    ClaimsAreOpen, UsedHasApproval, Claim
<1>14. BegunOnce'
  BY DEF IInv, Open, Active, BegunOnce, Claim
<1>15. WordIsOnDecided' /\ OperatorsWordStands'
  BY DEF IInv, WordIsOnDecided, OperatorsWordStands, Claim, TypeOK, Verdicts
<1>16. QED
  BY <1>1, <1>2, <1>3, <1>4, <1>5, <1>6, <1>7, <1>8, <1>9, <1>10, <1>11, <1>12, <1>13, <1>14, <1>15 DEF IInv

LEMMA BeginEffectKeeps ==
  ASSUME IInv, NEW t \in Tasks, BeginEffect(t)
  PROVE  IInv'
<1>1. TypeOK'
  BY RunningTypes DEF IInv, Running, Verdicts
<1>2. UnusedIsBlank'
  BY ApprovalAssumption DEF IInv, TypeOK, Open, Active, UnusedIsBlank, ClaimsAreOpen, BeginEffect,
    MayBegin, record, made
<1>3. EffectIsSpent'
  BY ApprovalAssumption DEF IInv, TypeOK, Open, Active, EffectIsSpent, OpenIsExecuted,
    BeginEffect, MayBegin, record, made
<1>4. BegunByEffect'
  <2>1. \A h \in carried[t] : h \in Holds /\ on[h] \in Approvals
   BY DEF BeginEffect, MayBegin, IInv, TypeOK, OpenIsExecuted, Active
  <2>2. ASSUME NEW a \in Approvals PROVE (begun[a] > 0 <=> \E h \in Holds : effect[h] /\ on[h] = a)' 
    <3>1. CASE \E h \in carried[t] : on[h] = a
     <4>1. begun'[a] > 0
       BY <3>1 DEF BeginEffect, IInv, TypeOK
     <4>2. \E h \in Holds : effect'[h] /\ on'[h] = a
       BY <3>1, <2>1 DEF BeginEffect, IInv, TypeOK, made
     <4> QED BY <4>1, <4>2
    <3>2. CASE ~ \E h \in carried[t] : on[h] = a
     <4>1. begun'[a] = begun[a]
       BY <3>2 DEF BeginEffect, IInv, TypeOK
     <4>2. \A h \in Holds : on[h] = a => (effect'[h] <=> effect[h])
       BY <3>2 DEF BeginEffect, IInv, TypeOK
     <4> QED BY <4>1, <4>2 DEF IInv, BegunByEffect, BeginEffect, made
    <3> QED BY <3>1, <3>2
  <2> QED BY <2>2 DEF BegunByEffect
<1>5. BegunOnce'
  <2>1. ASSUME NEW a \in Approvals \ ToolCalls PROVE begun'[a] <= 1 
    <3>1. CASE \E h \in carried[t] : on[h] = a
      <4>1. PICK h \in carried[t] : on[h] = a
        BY <3>1
      <4>2. h \in Holds /\ Active(h) /\ ~effect[h] /\ claims[a] = h /\ status[a] = "executed"
        BY <4>1, <2>1 DEF BeginEffect, MayBegin, Active, IInv, TypeOK, OpenIsExecuted
      <4>3. \A g \in Holds : effect[g] => on[g] # a
        BY <4>2, ApprovalAssumption DEF IInv, EffectIsSpent, OpenIsExecuted
      <4>4. begun[a] = 0
        BY <4>3, <2>1 DEF IInv, BegunByEffect, TypeOK
      <4> QED BY <4>4 DEF BeginEffect, IInv, TypeOK
    <3>2. CASE ~ \E h \in carried[t] : on[h] = a
       BY <3>2 DEF BeginEffect, IInv, BegunOnce, TypeOK
    <3> QED BY <3>1, <3>2
  <2> QED BY <2>1 DEF BegunOnce
<1>6. RejectionIsDecidable'
  BY ApprovalAssumption DEF IInv, TypeOK, Open, Active, RejectionIsDecidable, UnusedIsBlank,
    BeginEffect, MayBegin, record, made
<1>7. GivingBackMay'
  BY ApprovalAssumption DEF IInv, TypeOK, Open, Active, GivingBackMay, UnusedIsBlank, BeginEffect,
    MayBegin, record, made
<1>8. RejectStands'
  BY ApprovalAssumption DEF IInv, TypeOK, Open, Active, RejectStands, RejectWaits, OpenIsExecuted,
    BeginEffect, MayBegin, record, made
<1>9. ClaimsAreOpen' /\ OpenIsExecuted' /\ WrittenIsDecided' /\ UsedHasApproval'
      /\ RejectWaits' /\ ArgumentsHeld'
  BY DEF IInv, Open, Active, ClaimsAreOpen, OpenIsExecuted, WrittenIsDecided, UsedHasApproval,
    RejectWaits, ArgumentsHeld, BeginEffect, MayBegin, record, made
<1>10. WordIsOnDecided' /\ OperatorsWordStands'
  BY DEF IInv, WordIsOnDecided, OperatorsWordStands, BeginEffect, record
<1>11. QED
  BY <1>1, <1>2, <1>3, <1>4, <1>5, <1>6, <1>7, <1>8, <1>9, <1>10 DEF IInv

LEMMA RefuseKeeps ==
  ASSUME IInv, NEW t \in Tasks, Refuse(t)
  PROVE  IInv'
<1>1. TypeOK'
  BY RunningTypes DEF IInv, Running, Verdicts
<1>2. ClaimsAreOpen' /\ OpenIsExecuted' /\ WrittenIsDecided' /\ UnusedIsBlank'
      /\ UsedHasApproval' /\ EffectIsSpent' /\ BegunByEffect' /\ BegunOnce'
      /\ RejectionIsDecidable' /\ GivingBackMay' /\ RejectWaits' /\ RejectStands'
      /\ ArgumentsHeld'
  BY DEF IInv, Open, Active, ClaimsAreOpen, OpenIsExecuted, WrittenIsDecided, UnusedIsBlank,
    UsedHasApproval, EffectIsSpent, BegunByEffect, BegunOnce, RejectionIsDecidable, GivingBackMay,
    RejectWaits, RejectStands, ArgumentsHeld, Refuse, record, made
<1>3. WordIsOnDecided' /\ OperatorsWordStands'
  BY DEF IInv, WordIsOnDecided, OperatorsWordStands, Refuse, record
<1>4. QED
  BY <1>1, <1>2, <1>3 DEF IInv

LEMMA SpawnKeeps ==
  ASSUME IInv, NEW t \in Tasks, NEW u \in Tasks, Spawn(t, u)
  PROVE  IInv'
<1>1. TypeOK'
  BY RunningTypes DEF IInv, Running, Verdicts
<1>2. UnusedIsBlank'
  BY ApprovalAssumption DEF IInv, TypeOK, Open, Active, UnusedIsBlank, ClaimsAreOpen, Spawn,
    record, holdVars, made
<1>3. ClaimsAreOpen' /\ OpenIsExecuted' /\ WrittenIsDecided' /\ UsedHasApproval'
      /\ EffectIsSpent' /\ BegunByEffect' /\ BegunOnce' /\ RejectionIsDecidable'
      /\ GivingBackMay' /\ RejectWaits' /\ RejectStands' /\ ArgumentsHeld'
  BY DEF IInv, Open, Active, ClaimsAreOpen, OpenIsExecuted, WrittenIsDecided, UsedHasApproval,
    EffectIsSpent, BegunByEffect, BegunOnce, RejectionIsDecidable, GivingBackMay, RejectWaits,
    RejectStands, ArgumentsHeld, Spawn, record, holdVars, made
<1>4. WordIsOnDecided' /\ OperatorsWordStands'
  BY DEF IInv, WordIsOnDecided, OperatorsWordStands, Spawn, record
<1>5. QED
  BY <1>1, <1>2, <1>3, <1>4 DEF IInv

LEMMA FinishKeeps ==
  ASSUME IInv, NEW t \in Tasks, Finish(t)
  PROVE  IInv'
<1>1. TypeOK'
  BY RunningTypes DEF IInv, Running, Verdicts
<1>2. UnusedIsBlank'
  BY ApprovalAssumption DEF IInv, TypeOK, Open, Active, UnusedIsBlank, ClaimsAreOpen, Finish,
    record, holdVars, made
<1>3. ClaimsAreOpen' /\ OpenIsExecuted' /\ WrittenIsDecided' /\ UsedHasApproval'
      /\ EffectIsSpent' /\ BegunByEffect' /\ BegunOnce' /\ RejectionIsDecidable'
      /\ GivingBackMay' /\ RejectWaits' /\ RejectStands' /\ ArgumentsHeld'
  BY DEF IInv, Open, Active, ClaimsAreOpen, OpenIsExecuted, WrittenIsDecided, UsedHasApproval,
    EffectIsSpent, BegunByEffect, BegunOnce, RejectionIsDecidable, GivingBackMay, RejectWaits,
    RejectStands, ArgumentsHeld, Finish, record, holdVars, made
<1>4. WordIsOnDecided' /\ OperatorsWordStands'
  BY DEF IInv, WordIsOnDecided, OperatorsWordStands, Finish, record
<1>5. QED
  BY <1>1, <1>2, <1>3, <1>4 DEF IInv

LEMMA EndKeeps ==
  ASSUME IInv, NEW h \in Holds, NEW how \in Endings, End(h, how)
  PROVE  IInv'
<1>1. TypeOK'
  BY SettlingTypes DEF IInv, Settling, Verdicts
<1>2. ClaimsAreOpen'
  BY ApprovalAssumption DEF IInv, TypeOK, Open, Active, ClaimsAreOpen, End, GivesBack, OwnWay,
    ReleaseHold, Revoked, made
<1>3. OpenIsExecuted'
  BY ApprovalAssumption DEF IInv, TypeOK, Open, Active, OpenIsExecuted, End, GivesBack, OwnWay,
    ReleaseHold, Revoked, made
<1>4. WrittenIsDecided'
  BY ApprovalAssumption DEF IInv, TypeOK, Open, Active, WrittenIsDecided, OpenIsExecuted, End,
    GivesBack, OwnWay, ReleaseHold, Revoked, made
<1>5. UnusedIsBlank'
  <2>1. phase[h] = "running"
    BY DEF End, Active
  <2>2. \A g \in Holds : phase'[g] = "unused" => g # h /\ phase[g] = "unused"
    BY <2>1 DEF End, ReleaseHold, Revoked, IInv, TypeOK
  <2>4. \A t \in Tasks : carried'[t] \subseteq carried[t]
    BY DEF End, ReleaseHold, Revoked, IInv, TypeOK
  <2> QED
    BY <2>2, <2>4 DEF IInv, UnusedIsBlank, End
<1>6. UsedHasApproval'
  BY ApprovalAssumption DEF IInv, TypeOK, Open, Active, UsedHasApproval, End, GivesBack, OwnWay,
    ReleaseHold, Revoked, made
<1>7. EffectIsSpent'
  BY ApprovalAssumption DEF IInv, TypeOK, Open, Active, EffectIsSpent, OpenIsExecuted, End,
    GivesBack, OwnWay, ReleaseHold, Revoked, made
<1>8. GivingBackMay'
  BY ApprovalAssumption DEF IInv, TypeOK, Open, Active, GivingBackMay, UnusedIsBlank, End,
    GivesBack, OwnWay, ReleaseHold, Revoked, made
<1>9. RejectWaits'
  BY ApprovalAssumption DEF IInv, TypeOK, Open, Active, RejectWaits, RejectStands, End, GivesBack,
    OwnWay, ReleaseHold, Revoked, made
<1>10. RejectStands'
  BY ApprovalAssumption DEF IInv, TypeOK, Open, Active, RejectStands, RejectWaits, OpenIsExecuted,
    End, GivesBack, OwnWay, ReleaseHold, Revoked, made
<1>11. ArgumentsHeld'
  <2>0. on[h] \in Approvals /\ status[on[h]] = "executed" /\ claims[on[h]] = h /\ status' = status
    BY DEF End, Active, IInv, OpenIsExecuted
  <2>1. ASSUME NEW a \in ToolCalls, a # on[h] \/ GivesBack(h, how)
        PROVE  kept'[a] = kept[a] /\ claims'[a] = claims[a]
    BY <2>0, <2>1, ApprovalAssumption DEF End, ReleaseHold, Revoked, IInv, TypeOK
  <2>2. ~GivesBack(h, how) => claims'[on[h]] = NoHold
    BY <2>0 DEF End, ReleaseHold, Revoked, IInv, TypeOK
  <2>3. QED
    BY <2>0, <2>1, <2>2 DEF IInv, ArgumentsHeld
<1>12. BegunByEffect' /\ BegunOnce' /\ RejectionIsDecidable'
  BY DEF IInv, Open, Active, BegunByEffect, BegunOnce, RejectionIsDecidable, End, GivesBack,
    OwnWay, ReleaseHold, Revoked, made
<1>13. WordIsOnDecided' /\ OperatorsWordStands'
  BY DEF IInv, WordIsOnDecided, OperatorsWordStands, End
<1>14. QED
  BY <1>1, <1>2, <1>3, <1>4, <1>5, <1>6, <1>7, <1>8, <1>9, <1>10, <1>11, <1>12, <1>13 DEF IInv

LEMMA WriteGiveBackKeeps ==
  ASSUME IInv, NEW h \in Holds, WriteGiveBack(h)
  PROVE  IInv'
<1>1. TypeOK'
  BY SettlingTypes DEF IInv, Settling, Verdicts
<1>2. ClaimsAreOpen'
  BY ApprovalAssumption DEF IInv, TypeOK, Open, Active, ClaimsAreOpen, WriteGiveBack, Verdicts,
    made
<1>3. OpenIsExecuted'
  BY ApprovalAssumption DEF IInv, TypeOK, Open, Active, OpenIsExecuted, WriteGiveBack, Verdicts,
    made
<1>4. WrittenIsDecided'
  BY ApprovalAssumption DEF IInv, TypeOK, Open, Active, WrittenIsDecided, OpenIsExecuted,
    WriteGiveBack, Verdicts, made
<1>5. UnusedIsBlank'
  BY ApprovalAssumption DEF IInv, TypeOK, Open, Active, UnusedIsBlank, ClaimsAreOpen,
    WriteGiveBack, Verdicts, made
<1>6. UsedHasApproval'
  BY ApprovalAssumption DEF IInv, TypeOK, Open, Active, UsedHasApproval, WriteGiveBack, Verdicts,
    made
<1>7. EffectIsSpent'
  BY ApprovalAssumption DEF IInv, TypeOK, Open, Active, EffectIsSpent, OpenIsExecuted,
    WriteGiveBack, Verdicts, made
<1>8. GivingBackMay'
  BY ApprovalAssumption DEF IInv, TypeOK, Open, Active, GivingBackMay, UnusedIsBlank,
    WriteGiveBack, Verdicts, made
<1>9. RejectWaits'
  BY ApprovalAssumption DEF IInv, TypeOK, Open, Active, RejectWaits, RejectStands, WriteGiveBack,
    Verdicts, made
<1>10. RejectStands'
  BY ApprovalAssumption DEF IInv, TypeOK, Open, Active, RejectStands, RejectWaits, OpenIsExecuted,
    WriteGiveBack, Verdicts, made
<1>11. ArgumentsHeld'
  BY ApprovalAssumption DEF IInv, TypeOK, Open, Active, ArgumentsHeld, OpenIsExecuted,
    ClaimsAreOpen, UsedHasApproval, WriteGiveBack, Verdicts, made
<1>12. BegunByEffect' /\ BegunOnce' /\ RejectionIsDecidable'
  BY DEF IInv, Open, Active, BegunByEffect, BegunOnce, RejectionIsDecidable, WriteGiveBack,
    Verdicts, made
<1>13. WordIsOnDecided' /\ OperatorsWordStands'
  BY ApprovalAssumption DEF IInv, WordIsOnDecided, OperatorsWordStands, WriteGiveBack, TypeOK, OpenIsExecuted,
       RejectWaits, Verdicts
<1>14. QED
  BY <1>1, <1>2, <1>3, <1>4, <1>5, <1>6, <1>7, <1>8, <1>9, <1>10, <1>11, <1>12, <1>13 DEF IInv

LEMMA NoGiveBackKeeps ==
  ASSUME IInv, NEW h \in Holds, NoGiveBack(h)
  PROVE  IInv'
<1>1. TypeOK'
  BY SettlingTypes DEF IInv, Settling, Verdicts
<1>2. ClaimsAreOpen'
  BY ApprovalAssumption DEF IInv, TypeOK, Open, Active, ClaimsAreOpen, NoGiveBack, record, made
<1>3. OpenIsExecuted'
  BY ApprovalAssumption DEF IInv, TypeOK, Open, Active, OpenIsExecuted, NoGiveBack, record, made
<1>4. WrittenIsDecided'
  BY ApprovalAssumption DEF IInv, TypeOK, Open, Active, WrittenIsDecided, OpenIsExecuted,
    NoGiveBack, record, made
<1>5. UnusedIsBlank'
  BY ApprovalAssumption DEF IInv, TypeOK, Open, Active, UnusedIsBlank, ClaimsAreOpen, NoGiveBack,
    record, made
<1>6. UsedHasApproval'
  BY ApprovalAssumption DEF IInv, TypeOK, Open, Active, UsedHasApproval, NoGiveBack, record, made
<1>7. EffectIsSpent'
  BY ApprovalAssumption DEF IInv, TypeOK, Open, Active, EffectIsSpent, OpenIsExecuted, NoGiveBack,
    record, made
<1>8. GivingBackMay'
  BY ApprovalAssumption DEF IInv, TypeOK, Open, Active, GivingBackMay, UnusedIsBlank, NoGiveBack,
    record, made
<1>9. RejectStands'
  BY ApprovalAssumption DEF IInv, TypeOK, Open, Active, RejectStands, RejectWaits, OpenIsExecuted,
    NoGiveBack, record, made
<1>10. BegunByEffect' /\ BegunOnce' /\ RejectionIsDecidable' /\ RejectWaits'
      /\ ArgumentsHeld'
  BY DEF IInv, Open, Active, BegunByEffect, BegunOnce, RejectionIsDecidable, RejectWaits,
    ArgumentsHeld, NoGiveBack, record, made
<1>11. WordIsOnDecided' /\ OperatorsWordStands'
  BY DEF IInv, WordIsOnDecided, OperatorsWordStands, NoGiveBack, record
<1>12. QED
  BY <1>1, <1>2, <1>3, <1>4, <1>5, <1>6, <1>7, <1>8, <1>9, <1>10, <1>11 DEF IInv

LEMMA ReleaseKeeps ==
  ASSUME IInv, NEW h \in Holds, Release(h)
  PROVE  IInv'
<1>1. TypeOK'
  BY SettlingTypes DEF IInv, Settling, Verdicts
<1>2. ClaimsAreOpen'
  BY ApprovalAssumption DEF IInv, TypeOK, Open, Active, ClaimsAreOpen, Release, ReleaseHold, Revoked, made
<1>3. OpenIsExecuted'
  BY ApprovalAssumption DEF IInv, TypeOK, Open, Active, OpenIsExecuted, Release, ReleaseHold, Revoked, made
<1>4. WrittenIsDecided'
  BY ApprovalAssumption DEF IInv, TypeOK, Open, Active, WrittenIsDecided, OpenIsExecuted, Release,
    ReleaseHold, Revoked, made
<1>5. UnusedIsBlank'
  BY ApprovalAssumption DEF IInv, TypeOK, Open, Active, UnusedIsBlank, ClaimsAreOpen, Release,
    ReleaseHold, Revoked, made
<1>6. UsedHasApproval'
  BY ApprovalAssumption DEF IInv, TypeOK, Open, Active, UsedHasApproval, Release, ReleaseHold, Revoked,
    made
<1>7. EffectIsSpent'
  BY ApprovalAssumption DEF IInv, TypeOK, Open, Active, EffectIsSpent, OpenIsExecuted, Release,
    ReleaseHold, Revoked, made
<1>8. GivingBackMay'
  BY ApprovalAssumption DEF IInv, TypeOK, Open, Active, GivingBackMay, UnusedIsBlank, Release,
    ReleaseHold, Revoked, made
<1>9. RejectWaits'
  BY ApprovalAssumption DEF IInv, TypeOK, Open, Active, RejectWaits, RejectStands, Release,
    ReleaseHold, Revoked, made
<1>10. RejectStands'
  BY DEF IInv, TypeOK, Open, Active, RejectStands, RejectWaits, ClaimsAreOpen, OpenIsExecuted, WrittenIsDecided,
       UsedHasApproval, Verdicts, Release, ReleaseHold, Revoked, made
<1>11. ArgumentsHeld'
  BY ApprovalAssumption DEF IInv, TypeOK, Open, Active, ArgumentsHeld, OpenIsExecuted,
    ClaimsAreOpen, UsedHasApproval, Release, ReleaseHold, Revoked, made
<1>12. BegunByEffect' /\ BegunOnce' /\ RejectionIsDecidable'
  BY DEF IInv, Open, Active, BegunByEffect, BegunOnce, RejectionIsDecidable, Release, ReleaseHold, Revoked,
    made
<1>13. WordIsOnDecided' /\ OperatorsWordStands'
  BY DEF IInv, WordIsOnDecided, OperatorsWordStands, Release
<1>14. QED
  BY <1>1, <1>2, <1>3, <1>4, <1>5, <1>6, <1>7, <1>8, <1>9, <1>10, <1>11, <1>12, <1>13 DEF IInv

LEMMA RestartKeeps ==
  ASSUME IInv, Restart
  PROVE  IInv'
<1>1. TypeOK'
  BY RestartTypes DEF IInv
<1>2. ClaimsAreOpen'
  BY ApprovalAssumption DEF IInv, TypeOK, Open, Active, ClaimsAreOpen, Restart, made
<1>3. OpenIsExecuted'
  BY ApprovalAssumption DEF IInv, TypeOK, Open, Active, OpenIsExecuted, Restart, made
<1>4. WrittenIsDecided'
  BY ApprovalAssumption DEF IInv, TypeOK, Open, Active, WrittenIsDecided, OpenIsExecuted, Restart,
    made
<1>5. UnusedIsBlank'
  BY ApprovalAssumption DEF IInv, TypeOK, Open, Active, UnusedIsBlank, ClaimsAreOpen, Restart,
    made
<1>6. UsedHasApproval'
  BY ApprovalAssumption DEF IInv, TypeOK, Open, Active, UsedHasApproval, Restart, made
<1>7. EffectIsSpent'
  BY ApprovalAssumption DEF IInv, TypeOK, Open, Active, EffectIsSpent, OpenIsExecuted, Restart,
    made
<1>8. GivingBackMay'
  BY ApprovalAssumption DEF IInv, TypeOK, Open, Active, GivingBackMay, UnusedIsBlank, Restart,
    made
<1>9. RejectWaits'
  BY ApprovalAssumption DEF IInv, TypeOK, Open, Active, RejectWaits, RejectStands, Restart, made
<1>10. RejectStands'
  BY DEF IInv, TypeOK, Open, Active, RejectStands, ClaimsAreOpen, Restart, made
<1>11. ArgumentsHeld'
  BY ApprovalAssumption DEF IInv, TypeOK, ArgumentsHeld, Restart, Swept
<1>12. BegunByEffect' /\ BegunOnce' /\ RejectionIsDecidable'
  BY DEF IInv, Open, Active, BegunByEffect, BegunOnce, RejectionIsDecidable, Restart, made
<1>13. WordIsOnDecided' /\ OperatorsWordStands'
  BY DEF IInv, WordIsOnDecided, OperatorsWordStands, Restart
<1>14. QED
  BY <1>1, <1>2, <1>3, <1>4, <1>5, <1>6, <1>7, <1>8, <1>9, <1>10, <1>11, <1>12, <1>13 DEF IInv

LEMMA InvNext == IInv /\ [Next]_vars => IInv'
<1>1. SUFFICES ASSUME IInv, [Next]_vars PROVE IInv'
  OBVIOUS
<1>2. ASSUME NEW a \in Approvals, Deciding(a) PROVE IInv'
  BY <1>1, <1>2, RequestNewKeeps, RequestSameKeeps, DecideKeeps, DeferRejectKeeps,
    WithdrawRejectKeeps, TtlPassesKeeps, TextAgesOutKeeps DEF Deciding
<1>3. ASSUME NEW t \in Tasks, Running(t) PROVE IInv'
  BY <1>1, <1>3, ClaimKeeps, BeginEffectKeeps, RefuseKeeps, SpawnKeeps, FinishKeeps DEF Running
<1>4. ASSUME NEW h \in Holds, Settling(h) PROVE IInv'
  BY <1>1, <1>4, EndKeeps, WriteGiveBackKeeps, NoGiveBackKeeps, ReleaseKeeps DEF Settling
<1>5. CASE Restart
  BY <1>1, <1>5, RestartKeeps
<1>6. CASE UNCHANGED vars
  <2>1. TypeOK'
    BY <1>1, <1>6, StutterTypes DEF IInv
  <2>2. /\ ClaimsAreOpen' /\ OpenIsExecuted' /\ WrittenIsDecided' /\ UnusedIsBlank'
        /\ UsedHasApproval' /\ EffectIsSpent' /\ BegunByEffect' /\ BegunOnce'
        /\ RejectionIsDecidable' /\ GivingBackMay' /\ RejectWaits' /\ RejectStands'
        /\ WordIsOnDecided' /\ OperatorsWordStands' /\ ArgumentsHeld'
    BY <1>1, <1>6 DEF IInv, ClaimsAreOpen, OpenIsExecuted, WrittenIsDecided, UnusedIsBlank,
      UsedHasApproval, EffectIsSpent, BegunByEffect, BegunOnce, RejectionIsDecidable,
      GivingBackMay, RejectWaits, RejectStands, WordIsOnDecided,
      OperatorsWordStands, ArgumentsHeld, Open, vars, record, holdVars,
      made
  <2>3. QED
    BY <2>1, <2>2 DEF IInv
<1>7. QED
  BY <1>1, <1>2, <1>3, <1>4, <1>5, <1>6 DEF Next

\* The inductive invariant holds in every reachable state.
THEOREM Invariance == Spec => []IInv
<1>1. Init => IInv
  BY InvInit
<1>2. IInv /\ [Next]_vars => IInv'
  BY InvNext
<1>3. QED
  BY <1>1, <1>2, PTL DEF Spec

\* Every value stays in its type, whatever the constants.
THEOREM TypesHold == Spec => []TypeOK
  BY Invariance, PTL DEF IInv

\* effect_started is the one place an effect begins, and a begun hold keeps its approval.
LEMMA OtherStepsBeginNothing ==
  ASSUME IInv, [Next]_vars, ~ \E t \in Tasks : BeginEffect(t)
  PROVE  /\ effect' = effect
         /\ \A k \in Holds : effect[k] => on'[k] = on[k]
<1>1. ASSUME NEW a \in Approvals, Deciding(a) PROVE effect' = effect /\ on' = on
  BY <1>1 DEF Deciding, RequestNew, RequestSame, Decide, MayDecide, DeferReject, WithdrawReject, TtlPasses,
    TextAgesOut, holdVars, made
<1>2. ASSUME NEW h \in Holds, Settling(h) PROVE effect' = effect /\ on' = on
  BY <1>2 DEF Settling, End, WriteGiveBack, NoGiveBack, Release, made
<1>3. CASE Restart \/ UNCHANGED vars
  BY <1>3 DEF Restart, vars, holdVars, made
<1>4. ASSUME NEW t \in Tasks, Running(t)
      PROVE  effect' = effect /\ \A k \in Holds : effect[k] => on'[k] = on[k]
  <2>1. ASSUME NEW a \in Approvals, NEW h \in Holds, NEW m \in BOOLEAN, NEW c \in BOOLEAN,
               Claim(t, a, h, m, c)
        PROVE  effect' = effect /\ \A k \in Holds : effect[k] => on'[k] = on[k]
    BY <2>1 DEF Claim, IInv, TypeOK, UnusedIsBlank
  <2>2. CASE Refuse(t) \/ Finish(t) \/ \E u \in Tasks : Spawn(t, u)
    BY <2>2 DEF Refuse, Finish, Spawn, holdVars, made
  <2>3. QED
    BY <1>4, <2>1, <2>2 DEF Running
<1>5. QED
  BY <1>1, <1>2, <1>3, <1>4 DEF Next

\* claim_execution and effect_started: one execution's effect per approval, one effect per action
\* approval.
THEOREM OneEffect == Spec => []OneEffectPerApproval
<1>1. Init => OneEffectPerApproval
  BY DEF Init, OneEffectPerApproval
<1>2. IInv /\ IInv' /\ OneEffectPerApproval /\ [Next]_vars => OneEffectPerApproval'
  <2>1. SUFFICES ASSUME IInv, IInv', OneEffectPerApproval, [Next]_vars
                 PROVE  OneEffectPerApproval'
    OBVIOUS
  <2>2. ASSUME NEW h \in Holds, NEW g \in Holds, effect'[h], effect'[g], on'[h] = on'[g]
        PROVE  h = g
    <3>1. CASE \E t \in Tasks : BeginEffect(t)
      <4>1. PICK t \in Tasks : BeginEffect(t)
        BY <3>1
      <4>2. ASSUME NEW k \in Holds, effect'[k], ~effect[k]
            PROVE  claims[on[k]] = k /\ on[k] \in Approvals
        BY <2>1, <4>1, <4>2 DEF BeginEffect, MayBegin, Active, IInv, TypeOK, OpenIsExecuted
      <4>3. ASSUME NEW k \in Holds, effect[k]
            PROVE  claims[on[k]] \in {k, NoHold}
        BY <2>1, <4>3 DEF IInv, EffectIsSpent, OpenIsExecuted
      <4>4. on[h] = on[g]
        BY <2>2, <4>1 DEF BeginEffect, made
      <4>5. CASE effect[h] /\ effect[g]
        BY <2>1, <4>4, <4>5 DEF OneEffectPerApproval
      <4>6. CASE ~(effect[h] /\ effect[g])
        BY <2>2, <4>2, <4>3, <4>4, <4>6, ApprovalAssumption
      <4>7. QED
        BY <4>5, <4>6
    <3>2. CASE ~ \E t \in Tasks : BeginEffect(t)
      <4>1. /\ effect' = effect
            /\ \A k \in Holds : effect[k] => on'[k] = on[k]
        BY <2>1, <3>2, OtherStepsBeginNothing
      <4>2. QED
        BY <2>1, <2>2, <4>1 DEF OneEffectPerApproval
    <3>3. QED
      BY <3>1, <3>2
  <2>3. QED
    BY <2>1, <2>2 DEF IInv, BegunOnce, OneEffectPerApproval
<1>3. QED
  BY <1>1, <1>2, Invariance, PTL DEF Spec

\* claim_execution: what runs under an approval is the claim the store knows for it.
THEOREM RunningClaimed == Spec => []RunningIsTheClaim
<1>1. IInv => RunningIsTheClaim
  BY DEF IInv, OpenIsExecuted, RunningIsTheClaim, Active
<1>2. QED
  BY <1>1, Invariance, PTL

\* decide, give_back and release_execution: an accepted reject stands until an operator approves.
THEOREM RejectsStand == Spec => []RejectStands
  BY Invariance, PTL DEF IInv

\* create_or_reuse_pending, give_back, release_execution and the restart: what takes a tool call's
\* arguments away, and in which states.
LEMMA ArgumentsLost ==
  ASSUME IInv, [Next]_vars, NEW a \in ToolCalls, kept[a], ~kept'[a]
  PROVE  \/ status[a] = "rejected" /\ lapsed[a]
         \/ status[a] = "executed" /\ claims'[a] = NoHold
<1>0. a \in Approvals /\ a \notin Sensitive
  BY ApprovalAssumption
<1>1. ASSUME NEW b \in Approvals, Deciding(b) PROVE a \in Swept
  BY <1>0, <1>1 DEF Deciding, RequestNew, RequestSame, Decide, DeferReject, WithdrawReject,
    TtlPasses, TextAgesOut, record, IInv, TypeOK
<1>2. ASSUME NEW t \in Tasks, Running(t) PROVE FALSE
  BY <1>2 DEF Running, Claim, BeginEffect, Refuse, Spawn, Finish, record
<1>3. ASSUME NEW h \in Holds, Settling(h)
      PROVE  status[a] = "executed" /\ claims'[a] = NoHold
  <2>1. ASSUME NEW how \in Endings, End(h, how)
        PROVE  status[a] = "executed" /\ claims'[a] = NoHold
    <3>1. /\ phase[h] = "running" /\ on[h] \in Approvals
          /\ status[on[h]] = "executed" /\ claims[on[h]] = h
      BY <2>1 DEF End, Active, IInv, OpenIsExecuted
    <3>2. ReleaseHold(h, TRUE)
      BY <2>1 DEF End
    <3>3. on[h] = a
      BY <1>0, <3>1, <3>2 DEF ReleaseHold, IInv, TypeOK
    <3>4. QED
      BY <1>0, <3>1, <3>2, <3>3 DEF ReleaseHold, Revoked, IInv, TypeOK
  <2>2. CASE WriteGiveBack(h)
    BY <1>0, <2>2 DEF WriteGiveBack, IInv, TypeOK, OpenIsExecuted
  <2>3. CASE NoGiveBack(h)
    BY <2>3 DEF NoGiveBack, record
  <2>4. CASE Release(h)
    <3>1. phase[h] = "unwritten" /\ on[h] = a
      BY <1>0, <2>4 DEF Release, ReleaseHold, IInv, TypeOK, UsedHasApproval
    <3>2. status[a] = "executed" /\ claims[a] = h
      BY <3>1 DEF IInv, OpenIsExecuted
    <3>3. QED
      BY <1>0, <2>4, <3>1, <3>2 DEF Release, ReleaseHold, Revoked, IInv, TypeOK
  <2>5. QED
    BY <1>3, <2>1, <2>2, <2>3, <2>4 DEF Settling
<1>4. CASE Restart
  BY <1>0, <1>4 DEF Restart, Swept, IInv, TypeOK
<1>5. CASE UNCHANGED vars
  BY <1>5 DEF vars, record
<1>6. QED
  BY <1>1, <1>2, <1>3, <1>4, <1>5 DEF Next, Swept

\* _sweep_arguments and the finally of held_for_execution: what may still be approved or run keeps
\* its arguments, a rejected call's until its rejection is past the TTL.
THEOREM ArgumentsStay == Spec => ArgumentsUntilFinal
<1>1. IInv => ArgumentsHeld
  BY DEF IInv
<1>2. IInv /\ [Next]_vars =>
        \A a \in ToolCalls :
          kept[a] /\ ~kept'[a] =>
            \/ status[a] = "rejected" /\ lapsed[a]
            \/ status[a] = "executed" /\ claims'[a] = NoHold
  BY ArgumentsLost
<1>3. QED
  BY <1>1, <1>2, Invariance, PTL DEF Spec, ArgumentsUntilFinal

\* give_back, under the store's lock, is the one write that takes a record out of "executed".
LEMMA OnlyGiveBackUnspends ==
  ASSUME IInv, [Next]_vars, NEW a \in Approvals, status[a] = "executed", status'[a] # "executed"
  PROVE  \E h \in Holds : WriteGiveBack(h) /\ on[h] = a
<1>1. ASSUME NEW b \in Approvals, Deciding(b) PROVE FALSE
  <2>1. CASE RequestNew(b)
    BY <2>1 DEF IInv, TypeOK, RequestNew
  <2>2. ASSUME NEW verdict \in Verdicts, NEW by \in {"operator", "agent"}, Decide(b, verdict, by)
        PROVE  FALSE
    BY <2>2 DEF IInv, TypeOK, Decide, MayDecide
  <2>3. CASE RequestSame(b) \/ DeferReject(b) \/ WithdrawReject(b) \/ TtlPasses(b) \/ TextAgesOut(b)
    BY <2>3 DEF RequestSame, DeferReject, WithdrawReject, TtlPasses, TextAgesOut, record
  <2>4. QED
    BY <1>1, <2>1, <2>2, <2>3 DEF Deciding
<1>2. ASSUME NEW t \in Tasks, Running(t) PROVE FALSE
  BY <1>2 DEF Running, IInv, TypeOK, Claim, BeginEffect, Refuse, Spawn, Finish, record
<1>3. ASSUME NEW h \in Holds, Settling(h) PROVE WriteGiveBack(h) /\ on[h] = a
  <2>1. WriteGiveBack(h)
    BY <1>3 DEF Settling, End, NoGiveBack, Release, record
  <2>2. on[h] = a
    BY <2>1 DEF WriteGiveBack, IInv, TypeOK
  <2>3. QED
    BY <2>1, <2>2
<1>4. CASE Restart \/ UNCHANGED vars
  BY <1>4 DEF Restart, vars, record
<1>5. QED
  BY <1>1, <1>2, <1>3, <1>4 DEF Next

\* decide, give_back and the restart: a spent approval never reads anything but executed again.
THEOREM SpentStaysSpent == Spec => SpentIsFinal
<1>1. IInv /\ [Next]_vars =>
        \A a \in Approvals :
          status[a] = "executed" /\ (claims[a] = NoHold \/ effect[claims[a]])
            => status'[a] = "executed"
  <2>1. SUFFICES ASSUME IInv, [Next]_vars, NEW a \in Approvals, status[a] = "executed",
                        claims[a] = NoHold \/ effect[claims[a]], status'[a] # "executed"
                 PROVE  FALSE
    OBVIOUS
  <2>2. PICK h \in Holds : WriteGiveBack(h) /\ on[h] = a
    BY <2>1, OnlyGiveBackUnspends
  <2>3. claims[a] = h /\ ~effect[h]
    BY <2>1, <2>2 DEF IInv, WriteGiveBack, OpenIsExecuted, GivingBackMay
  <2>4. QED
    BY <2>1, <2>3, ApprovalAssumption
<1>2. QED
  BY <1>1, Invariance, PTL DEF Spec, SpentIsFinal

\* effect_started: nothing begins under an approval an operator has the last word on and rejected.
THEOREM NoEffectOnceRejected == Spec => NoEffectAfterReject
<1>1. IInv /\ [Next]_vars =>
        \A a \in Approvals : begun'[a] # begun[a] => word[a] # "rejected" /\ status[a] = "executed"
  <2>0. SUFFICES ASSUME IInv, [Next]_vars, NEW a \in Approvals, begun'[a] # begun[a]
                 PROVE  word[a] # "rejected" /\ status[a] = "executed"
    OBVIOUS
  <2>1. PICK t \in Tasks : BeginEffect(t)
    <3>1. ASSUME NEW b \in Approvals, Deciding(b) PROVE FALSE
      BY <2>0, <3>1 DEF Deciding, RequestNew, RequestSame, Decide, MayDecide, DeferReject, WithdrawReject,
        TtlPasses, TextAgesOut
    <3>2. ASSUME NEW h \in Holds, Settling(h) PROVE FALSE
      BY <2>0, <3>2 DEF Settling, End, WriteGiveBack, NoGiveBack, Release
    <3>3. CASE Restart \/ UNCHANGED vars
      BY <2>0, <3>3 DEF Restart, vars
    <3>4. ASSUME NEW t \in Tasks, Running(t) PROVE BeginEffect(t)
      BY <2>0, <3>4 DEF Running, Claim, Refuse, Spawn, Finish
    <3>5. QED
      BY <2>0, <3>1, <3>2, <3>3, <3>4 DEF Next
  <2>2. PICK h \in carried[t] : on[h] = a
    BY <2>0, <2>1 DEF BeginEffect, IInv, TypeOK
  <2>3. Active(h) /\ ~rejection[h] /\ h \in Holds
    BY <2>1, <2>2, <2>0 DEF BeginEffect, MayBegin, IInv, TypeOK
  <2>4. status[a] = "executed" /\ claims[a] = h
    BY <2>0, <2>2, <2>3 DEF IInv, OpenIsExecuted, Active
  <2>5. word[a] # "rejected"
    BY <2>0, <2>3, <2>4, ApprovalAssumption DEF IInv, RejectWaits
  <2>6. QED
    BY <2>4, <2>5
<1>2. QED
  BY <1>1, Invariance, PTL DEF Spec, NoEffectAfterReject

\* decide and give_back: what an operator has decided reads as they last decided it, through
\* deferral, withdrawal, give-back, restart and whatever agents decide.
THEOREM OperatorStands == Spec => []OperatorsWordStands
  BY Invariance, PTL DEF IInv

-----------------------------------------------------------------------------
(* Claims, effects, give-backs and restarts implement one-use grants:      *)
(* every behaviour of ApprovalClaims is one of ApprovalGrants, each record *)
(* and its claim read as GrantOf.  First, what a grant depends on.         *)

\* The record, its claim, and two facts about the hold of that claim make a grant.
LEMMA GrantStays ==
  ASSUME NEW a \in Approvals,
         status'[a] = status[a], begun'[a] = begun[a], claims'[a] = claims[a],
         claims[a] # NoHold => /\ phase'[claims[a]] = "unwritten" <=> phase[claims[a]] = "unwritten"
                               /\ rejection'[claims[a]] = rejection[claims[a]]
  PROVE  GrantOf(a)' = GrantOf(a)
BY DEF GrantOf

\* A begun effect is spent: its record is executed, and its claim gone or begun.
LEMMA BegunIsSpent ==
  ASSUME IInv, NEW a \in Approvals, begun[a] > 0
  PROVE  status[a] = "executed" /\ (claims[a] = NoHold \/ effect[claims[a]])
<1>1. PICK h \in Holds : effect[h] /\ on[h] = a
  BY DEF IInv, BegunByEffect
<1>2. QED
  BY <1>1 DEF IInv, EffectIsSpent, OpenIsExecuted

\* A record that is not executed reads as its status says.
LEMMA UnclaimedGrant ==
  ASSUME NEW a \in Approvals
  PROVE  /\ status[a] = "absent" => GrantOf(a) = "none"
         /\ status[a] = "pending" => GrantOf(a) = "asked"
         /\ status[a] = "approved" => GrantOf(a) = "granted"
         /\ status[a] = "rejected" => GrantOf(a) = "denied"
BY DEF GrantOf

\* The claim of an action not begun is a grant, or a denial while a reject waits on it.
LEMMA ClaimedGrant ==
  ASSUME IInv, NEW a \in Approvals, status[a] = "executed", claims[a] # NoHold, ~effect[claims[a]],
         phase[claims[a]] # "unwritten"
  PROVE  /\ begun[a] = 0
         /\ GrantOf(a) = IF rejection[claims[a]] THEN "denied" ELSE "granted"
<1>1. begun[a] = 0
  BY BegunIsSpent DEF IInv, TypeOK
<1>2. QED
  BY <1>1 DEF GrantOf

-----------------------------------------------------------------------------
(* Steps of the grants.                                                    *)

LEMMA Stutters ==
  ASSUME \A a \in Approvals : GrantOf(a)' = GrantOf(a)
  PROVE  [Grants!GrantNext]_([a \in Approvals |-> GrantOf(a)])
OBVIOUS

LEMMA Asks ==
  ASSUME NEW a \in Approvals, GrantOf(a) = "none", GrantOf(a)' = "asked",
         \A b \in Approvals \ {a} : GrantOf(b)' = GrantOf(b)
  PROVE  Grants!GrantNext
<1>1. Grants!Ask(a)
  BY DEF Grants!Ask
<1>2. QED
  BY <1>1 DEF Grants!GrantNext

LEMMA Settles ==
  ASSUME NEW a \in Approvals, GrantOf(a) \in {"asked", "granted", "denied"},
         GrantOf(a)' \in {"granted", "denied"},
         \A b \in Approvals \ {a} : GrantOf(b)' = GrantOf(b)
  PROVE  Grants!GrantNext
<1>1. Grants!Settle(a, "granted") \/ Grants!Settle(a, "denied")
  BY DEF Grants!Settle
<1>2. QED
  BY <1>1 DEF Grants!GrantNext

LEMMA Uses ==
  ASSUME NEW S \in SUBSET Approvals, \A a \in S : GrantOf(a) = "granted" /\ GrantOf(a)' = "used",
         \A b \in Approvals \ S : GrantOf(b)' = GrantOf(b)
  PROVE  Grants!GrantNext
<1>1. Grants!Use(S)
  BY DEF Grants!Use
<1>2. QED
  BY <1>1 DEF Grants!GrantNext

LEMMA Forfeits ==
  ASSUME NEW S \in SUBSET Approvals,
         \A a \in S : GrantOf(a) \in {"granted", "denied"} /\ GrantOf(a)' = "forfeited",
         \A b \in Approvals \ S : GrantOf(b)' = GrantOf(b)
  PROVE  Grants!GrantNext
<1>1. Grants!Forfeit(S)
  BY DEF Grants!Forfeit
<1>2. QED
  BY <1>1 DEF Grants!GrantNext

LEMMA ForfeitsOne ==
  ASSUME NEW a \in Approvals, GrantOf(a) \in {"granted", "denied"}, GrantOf(a)' = "forfeited",
         \A b \in Approvals \ {a} : GrantOf(b)' = GrantOf(b)
  PROVE  Grants!GrantNext
<1>1. {a} \in SUBSET Approvals
  OBVIOUS
<1>2. QED
  BY <1>1, Forfeits

-----------------------------------------------------------------------------
(* Every step of ApprovalClaims is one of the grants, or none.             *)

\* A step that leaves the records, the claims, the phases and the waiting rejects alone.
LEMMA QuietStep ==
  ASSUME UNCHANGED <<status, claims, phase, rejection, begun>>
  PROVE  [Grants!GrantNext]_([a \in Approvals |-> GrantOf(a)])
<1>1. \A a \in Approvals : GrantOf(a)' = GrantOf(a)
  BY GrantStays
<1>2. QED
  BY <1>1, Stutters

\* decide, on a record no action holds.
LEMMA DecideStep ==
  ASSUME IInv, NEW a \in Approvals, NEW verdict \in Verdicts, NEW by \in {"operator", "agent"},
         Decide(a, verdict, by)
  PROVE  Grants!GrantNext
<1>1. GrantOf(a) \in {"asked", "granted", "denied"}
  BY UnclaimedGrant DEF Decide, MayDecide
<1>2. status'[a] = verdict
  BY DEF Decide, IInv, TypeOK
<1>3. GrantOf(a)' \in {"granted", "denied"}
  BY <1>2 DEF Verdicts, GrantOf
<1>4. \A b \in Approvals \ {a} : GrantOf(b)' = GrantOf(b)
  BY GrantStays DEF Decide, IInv, TypeOK, holdVars
<1>5. QED
  BY <1>1, <1>3, <1>4, Settles

\* create_or_reuse_pending.
LEMMA RequestStep ==
  ASSUME IInv, NEW a \in Approvals, RequestNew(a)
  PROVE  Grants!GrantNext
<1>1. GrantOf(a) = "none"
  BY UnclaimedGrant DEF RequestNew
<1>2. status'[a] = "pending"
  BY DEF RequestNew, IInv, TypeOK
<1>3. GrantOf(a)' = "asked"
  BY <1>2 DEF GrantOf
<1>4. \A b \in Approvals \ {a} : GrantOf(b)' = GrantOf(b)
  BY GrantStays DEF RequestNew, IInv, TypeOK, holdVars
<1>5. QED
  BY <1>1, <1>3, <1>4, Asks

\* decide, on a claimed record: it turns the grant, unless the give-back has already failed.
LEMMA DecideClaimedStep ==
  ASSUME IInv, NEW a \in Approvals, DeferReject(a) \/ WithdrawReject(a)
  PROVE  [Grants!GrantNext]_([b \in Approvals |-> GrantOf(b)])
<1>1. /\ status[a] = "executed" /\ claims[a] # NoHold /\ claims[a] \in Holds
      /\ on[claims[a]] = a /\ ~effect[claims[a]]
      /\ UNCHANGED <<status, claims, phase, begun>>
  BY DEF DeferReject, WithdrawReject, DecidableClaim, IInv, TypeOK, ClaimsAreOpen, record
<1>2. \A h \in Holds \ {claims[a]} : rejection'[h] = rejection[h]
  BY DEF DeferReject, WithdrawReject, IInv, TypeOK
<1>3. ASSUME NEW b \in Approvals, b # a PROVE GrantOf(b)' = GrantOf(b)
  <2>1. claims[b] # NoHold => claims[b] \in Holds \ {claims[a]}
    BY <1>1, <1>3 DEF IInv, TypeOK, ClaimsAreOpen
  <2>2. QED
    BY <1>1, <1>2, <2>1, GrantStays
<1>4. CASE phase[claims[a]] = "unwritten"
  <2>1. GrantOf(a)' = GrantOf(a)
    BY <1>1, <1>4 DEF GrantOf
  <2>2. QED
    BY <1>3, <2>1, Stutters
<1>5. CASE phase[claims[a]] # "unwritten"
  <2>1. GrantOf(a) \in {"granted", "denied"} /\ begun[a] = 0
    BY <1>1, <1>5, ClaimedGrant
  <2>2. GrantOf(a)' \in {"granted", "denied"}
    BY <1>1, <1>5, <2>1 DEF GrantOf
  <2>3. QED
    BY <1>3, <2>1, <2>2, Settles
<1>6. QED
  BY <1>4, <1>5

\* claim_execution: what was granted stays so until the action begins.
LEMMA ClaimStep ==
  ASSUME IInv, NEW t \in Tasks, NEW a \in Approvals, NEW h \in Holds, NEW m \in BOOLEAN,
         NEW c \in BOOLEAN, Claim(t, a, h, m, c)
  PROVE  [Grants!GrantNext]_([b \in Approvals |-> GrantOf(b)])
<1>1. GrantOf(a) = "granted"
  BY UnclaimedGrant DEF Claim
<1>2. /\ status'[a] = "executed" /\ claims'[a] = h /\ phase'[h] = "running"
      /\ ~rejection'[h] /\ begun'[a] = begun[a] /\ h # NoHold
  BY ApprovalAssumption DEF Claim, IInv, TypeOK, UnusedIsBlank
<1>3. begun[a] = 0
  BY BegunIsSpent DEF Claim, IInv, TypeOK
<1>4. GrantOf(a)' = "granted"
  BY <1>2, <1>3 DEF GrantOf
<1>5. ASSUME NEW b \in Approvals, b # a PROVE GrantOf(b)' = GrantOf(b)
  <2>1. claims[b] # h
    BY ApprovalAssumption DEF Claim, IInv, ClaimsAreOpen, Open
  <2>2. status'[b] = status[b] /\ claims'[b] = claims[b] /\ begun' = begun /\ rejection' = rejection
    BY <1>5 DEF Claim, IInv, TypeOK
  <2>3. claims[b] # NoHold => phase'[claims[b]] = phase[claims[b]]
    BY <2>1 DEF Claim, IInv, TypeOK
  <2>4. QED
    BY <2>2, <2>3, GrantStays
<1>6. QED
  BY <1>1, <1>4, <1>5, Stutters

\* effect_started: every approval the task's holds are on is used, all of them or none.
LEMMA BeginEffectStep ==
  ASSUME IInv, NEW t \in Tasks, BeginEffect(t)
  PROVE  Grants!GrantNext
<1> DEFINE S == {a \in Approvals : begun[a] = 0 /\ \E h \in carried[t] : on[h] = a}
<1>1. UNCHANGED <<status, claims, phase, rejection>>
  BY DEF BeginEffect, record
<1>2. ASSUME NEW a \in Approvals, \E h \in carried[t] : on[h] = a
      PROVE  status[a] = "executed" /\ claims[a] # NoHold /\ phase[claims[a]] = "running"
             /\ ~rejection[claims[a]] /\ begun'[a] > 0
  <2>1. PICK h \in carried[t] : on[h] = a
    BY <1>2
  <2>2. h \in Holds /\ Active(h) /\ ~rejection[h]
    BY <2>1 DEF BeginEffect, MayBegin, IInv, TypeOK
  <2>3. status[a] = "executed" /\ claims[a] = h
    BY <2>1, <2>2 DEF IInv, OpenIsExecuted, Active
  <2>4. begun'[a] > 0
    BY <2>1 DEF BeginEffect, IInv, TypeOK
  <2>5. QED
    BY <2>2, <2>3, <2>4, ApprovalAssumption DEF Active
<1>3. \A a \in S : GrantOf(a) = "granted"
  BY <1>2 DEF GrantOf
<1>4. \A a \in Approvals : (\E h \in carried[t] : on[h] = a) => GrantOf(a)' = "used"
  BY <1>1, <1>2 DEF GrantOf
<1>5. ASSUME NEW a \in Approvals \ S PROVE GrantOf(a)' = GrantOf(a)
  <2>1. CASE \E h \in carried[t] : on[h] = a
    <3>1. begun[a] > 0
      BY <1>5, <2>1 DEF IInv, TypeOK
    <3>2. GrantOf(a) = "used"
      BY <1>2, <2>1, <3>1 DEF GrantOf
    <3>3. QED
      BY <1>4, <2>1, <3>2
  <2>2. CASE ~ \E h \in carried[t] : on[h] = a
    <3>1. begun'[a] = begun[a]
      BY <2>2 DEF BeginEffect
    <3>2. QED
      BY <1>1, <3>1, GrantStays
  <2>3. QED
    BY <2>1, <2>2
<1>6. S \in SUBSET Approvals
  OBVIOUS
<1>7. QED
  BY <1>3, <1>4, <1>5, <1>6, Uses

\* The block's exit: what it does not give back and did not use is forfeited.
LEMMA EndStep ==
  ASSUME IInv, NEW h \in Holds, NEW how \in Endings, End(h, how)
  PROVE  [Grants!GrantNext]_([a \in Approvals |-> GrantOf(a)])
<1>0. PICK a \in Approvals : on[h] = a
  BY DEF End, Active, IInv, OpenIsExecuted
<1>1. /\ on[h] = a /\ status[a] = "executed" /\ claims[a] = h /\ phase[h] = "running"
      /\ h # NoHold /\ UNCHANGED <<status, begun, rejection>>
  BY <1>0, ApprovalAssumption DEF End, Active, IInv, OpenIsExecuted
<1>2. ASSUME NEW b \in Approvals, b # a PROVE GrantOf(b)' = GrantOf(b)
  <2>1. claims[b] # h
    BY <1>1, <1>2 DEF IInv, ClaimsAreOpen
  <2>2. claims'[b] = claims[b] /\ (claims[b] # NoHold => phase'[claims[b]] = phase[claims[b]])
    BY <1>2, <2>1 DEF End, ReleaseHold, Revoked, IInv, TypeOK
  <2>3. QED
    BY <1>1, <2>2, GrantStays
<1>3. CASE GivesBack(h, how)
  <2>1. claims' = claims /\ phase'[h] = "giving_back"
    BY <1>3 DEF End, IInv, TypeOK
  <2>2. GrantOf(a)' = GrantOf(a)
    BY <1>1, <2>1, GrantStays
  <2>3. QED
    BY <1>2, <2>2, Stutters
<1>4. CASE ~GivesBack(h, how)
  <2>1. claims'[a] = NoHold
    BY <1>1, <1>4 DEF End, ReleaseHold, Revoked, IInv, TypeOK
  <2>2. CASE begun[a] > 0
    <3>1. GrantOf(a) = "used" /\ GrantOf(a)' = "used"
      BY <1>1, <2>2 DEF GrantOf
    <3>2. QED
      BY <1>2, <3>1, Stutters
  <2>3. CASE ~(begun[a] > 0)
    <3>1. GrantOf(a) \in {"granted", "denied"} /\ GrantOf(a)' = "forfeited"
      BY <1>1, <2>1, <2>3 DEF GrantOf
    <3>2. QED
      BY <1>2, <3>1, ForfeitsOne
  <2>4. QED
    BY <2>2, <2>3
<1>5. QED
  BY <1>3, <1>4

\* give_back: the record reads again what the grant was all the while.
LEMMA WriteGiveBackStep ==
  ASSUME IInv, NEW h \in Holds, WriteGiveBack(h)
  PROVE  [Grants!GrantNext]_([a \in Approvals |-> GrantOf(a)])
<1>0. PICK a \in Approvals : on[h] = a
  BY DEF WriteGiveBack, IInv, OpenIsExecuted
<1>1. /\ on[h] = a /\ status[a] = "executed" /\ claims[a] = h /\ phase[h] = "giving_back"
      /\ ~effect[h] /\ h # NoHold /\ UNCHANGED <<claims, rejection, begun>>
  BY <1>0, ApprovalAssumption DEF WriteGiveBack, IInv, OpenIsExecuted, GivingBackMay
<1>2. GrantOf(a) = IF rejection[h] THEN "denied" ELSE "granted"
  BY <1>1, ClaimedGrant
<1>3. status'[a] = IF rejection[h] THEN "rejected" ELSE "approved"
  BY <1>1 DEF WriteGiveBack, IInv, TypeOK
<1>4. GrantOf(a)' = GrantOf(a)
  BY <1>2, <1>3 DEF GrantOf
<1>5. ASSUME NEW b \in Approvals, b # a PROVE GrantOf(b)' = GrantOf(b)
  <2>1. claims[b] # h
    BY <1>1, <1>5 DEF IInv, ClaimsAreOpen
  <2>2. status'[b] = status[b] /\ (claims[b] # NoHold => phase'[claims[b]] = phase[claims[b]])
    BY <1>1, <1>5, <2>1 DEF WriteGiveBack, IInv, TypeOK
  <2>3. QED
    BY <1>1, <2>2, GrantStays
<1>6. QED
  BY <1>4, <1>5, Stutters

\* A give-back that is not written forfeits the grant.
LEMMA NoGiveBackStep ==
  ASSUME IInv, NEW h \in Holds, NoGiveBack(h)
  PROVE  Grants!GrantNext
<1>0. PICK a \in Approvals : on[h] = a
  BY DEF NoGiveBack, IInv, OpenIsExecuted
<1>1. /\ on[h] = a /\ status[a] = "executed" /\ claims[a] = h /\ phase[h] = "giving_back"
      /\ ~effect[h] /\ h # NoHold /\ phase'[h] = "unwritten"
      /\ UNCHANGED <<status, claims, rejection, begun>>
  BY <1>0, ApprovalAssumption DEF NoGiveBack, record, IInv, TypeOK, OpenIsExecuted, GivingBackMay
<1>2. GrantOf(a) \in {"granted", "denied"} /\ begun[a] = 0
  BY <1>1, ClaimedGrant
<1>3. GrantOf(a)' = "forfeited"
  BY <1>1, <1>2 DEF GrantOf
<1>4. ASSUME NEW b \in Approvals, b # a PROVE GrantOf(b)' = GrantOf(b)
  <2>1. claims[b] # h
    BY <1>1, <1>4 DEF IInv, ClaimsAreOpen
  <2>2. claims[b] # NoHold => phase'[claims[b]] = phase[claims[b]]
    BY <2>1 DEF NoGiveBack, IInv, TypeOK
  <2>3. QED
    BY <1>1, <2>2, GrantStays
<1>5. QED
  BY <1>2, <1>3, <1>4, ForfeitsOne

\* release_execution: the grant has gone its way before.
LEMMA ReleaseStep ==
  ASSUME IInv, NEW h \in Holds, Release(h)
  PROVE  [Grants!GrantNext]_([a \in Approvals |-> GrantOf(a)])
<1>0. PICK a \in Approvals : on[h] = a
  BY DEF Release, IInv, TypeOK, UsedHasApproval
<1>1. UNCHANGED <<status, begun, rejection>>
  BY DEF Release
<1>2. ASSUME NEW b \in Approvals, claims[b] # h PROVE GrantOf(b)' = GrantOf(b)
  <2>1. claims'[b] = claims[b] /\ (claims[b] # NoHold => phase'[claims[b]] = phase[claims[b]])
    BY <1>2 DEF Release, ReleaseHold, Revoked, IInv, TypeOK
  <2>2. QED
    BY <1>1, <2>1, GrantStays
<1>3. ASSUME NEW b \in Approvals, claims[b] = h PROVE GrantOf(b)' = GrantOf(b)
  <2>1. on[h] = b /\ h # NoHold
    BY <1>3, ApprovalAssumption DEF IInv, ClaimsAreOpen
  <2>2. CASE phase[h] = "written"
    <3>1. status[b] \in {"approved", "rejected"}
      BY <1>3, <2>1, <2>2 DEF IInv, WrittenIsDecided, Verdicts
    <3>2. QED
      BY <1>1, <3>1 DEF GrantOf
  <2>3. CASE phase[h] = "unwritten"
    <3>1. status[b] = "executed" /\ ~effect[h] /\ claims'[b] = NoHold
      BY <1>3, <2>1, <2>3 DEF Release, ReleaseHold, Revoked, IInv, TypeOK, OpenIsExecuted, GivingBackMay
    <3>2. begun[b] = 0
      BY <1>3, <2>1, <3>1, BegunIsSpent DEF IInv, TypeOK
    <3>3. GrantOf(b) = "forfeited" /\ GrantOf(b)' = "forfeited"
      BY <1>1, <1>3, <2>3, <3>1, <3>2 DEF GrantOf
    <3>4. QED
      BY <3>3
  <2>4. QED
    BY <2>2, <2>3 DEF Release
<1>4. QED
  BY <1>2, <1>3, Stutters

\* A restart forfeits, at once, what was claimed and not begun.
LEMMA RestartStep ==
  ASSUME IInv, Restart
  PROVE  Grants!GrantNext
<1> DEFINE S == {a \in Approvals : /\ status[a] = "executed" /\ ~(begun[a] > 0)
                                   /\ ~(claims[a] = NoHold \/ phase[claims[a]] = "unwritten")}
<1>1. /\ UNCHANGED <<status, begun, rejection>>
      /\ \A a \in Approvals : claims'[a] = NoHold
  BY DEF Restart, record
<1>2. \A a \in S : GrantOf(a) \in {"granted", "denied"} /\ GrantOf(a)' = "forfeited"
  BY <1>1 DEF GrantOf
<1>3. ASSUME NEW a \in Approvals \ S PROVE GrantOf(a)' = GrantOf(a)
  <2>1. status[a] \in Statuses
    BY DEF IInv, TypeOK
  <2>2. CASE status[a] # "executed"
    BY <1>1, <2>1, <2>2 DEF GrantOf, Statuses
  <2>3. CASE status[a] = "executed"
    BY <1>1, <1>3, <2>3 DEF GrantOf
  <2>4. QED
    BY <2>2, <2>3
<1>4. S \in SUBSET Approvals
  OBVIOUS
<1>5. QED
  BY <1>2, <1>3, <1>4, Forfeits

LEMMA EveryStep ==
  ASSUME IInv, [Next]_vars
  PROVE  [Grants!GrantNext]_([a \in Approvals |-> GrantOf(a)])
<1>1. ASSUME NEW a \in Approvals, Deciding(a)
      PROVE  [Grants!GrantNext]_([b \in Approvals |-> GrantOf(b)])
  <2>1. ASSUME NEW verdict \in Verdicts, NEW by \in {"operator", "agent"}, Decide(a, verdict, by)
        PROVE  Grants!GrantNext
    BY <2>1, DecideStep
  <2>2. CASE RequestNew(a)
    BY <2>2, RequestStep
  <2>3. CASE DeferReject(a) \/ WithdrawReject(a)
    BY <2>3, DecideClaimedStep
  <2>4. CASE RequestSame(a) \/ TtlPasses(a) \/ TextAgesOut(a)
    <3>1. UNCHANGED <<status, claims, phase, rejection, begun>>
      BY <2>4 DEF RequestSame, TtlPasses, TextAgesOut, holdVars
    <3>2. QED
      BY <3>1, QuietStep
  <2>5. QED
    BY <1>1, <2>1, <2>2, <2>3, <2>4 DEF Deciding
<1>2. ASSUME NEW t \in Tasks, Running(t)
      PROVE  [Grants!GrantNext]_([b \in Approvals |-> GrantOf(b)])
  <2>1. ASSUME NEW a \in Approvals, NEW h \in Holds, NEW m \in BOOLEAN, NEW c \in BOOLEAN,
               Claim(t, a, h, m, c)
        PROVE  [Grants!GrantNext]_([b \in Approvals |-> GrantOf(b)])
    BY <2>1, ClaimStep
  <2>2. CASE BeginEffect(t)
    BY <2>2, BeginEffectStep
  <2>3. CASE Refuse(t) \/ Finish(t) \/ \E u \in Tasks : Spawn(t, u)
    <3>1. UNCHANGED <<status, claims, phase, rejection, begun>>
      BY <2>3 DEF Refuse, Finish, Spawn, record, holdVars
    <3>2. QED
      BY <3>1, QuietStep
  <2>4. QED
    BY <1>2, <2>1, <2>2, <2>3 DEF Running
<1>3. ASSUME NEW h \in Holds, Settling(h)
      PROVE  [Grants!GrantNext]_([b \in Approvals |-> GrantOf(b)])
  <2>1. ASSUME NEW how \in Endings, End(h, how)
        PROVE  [Grants!GrantNext]_([b \in Approvals |-> GrantOf(b)])
    BY <2>1, EndStep
  <2>2. QED
    BY <1>3, <2>1, WriteGiveBackStep, NoGiveBackStep, ReleaseStep DEF Settling
<1>4. CASE UNCHANGED vars
  <2>1. UNCHANGED <<status, claims, phase, rejection, begun>>
    BY <1>4 DEF vars, record, holdVars
  <2>2. QED
    BY <2>1, QuietStep
<1>5. QED
  BY <1>1, <1>2, <1>3, <1>4, RestartStep DEF Next

\* Claims, effects, give-backs, late decisions and restarts implement one-use grants.
THEOREM Refinement == Spec => ImplementsGrants
<1>1. Init => Grants!GrantInit
  BY DEF Init, Grants!GrantInit, GrantOf
<1>2. IInv /\ [Next]_vars => [Grants!GrantNext]_([a \in Approvals |-> GrantOf(a)])
  BY EveryStep
<1>3. QED
  BY <1>1, <1>2, Invariance, PTL DEF Spec, ImplementsGrants, Grants!GrantSpec
=============================================================================
