SPECIFICATION FairSpec
CONSTANTS
  a1 = a1
  a2 = a2
  h1 = h1
  h2 = h2
  h3 = h3
  t1 = t1
  t2 = t2
  Approvals = {a1}
  Holds = {h1, h2}
  Tasks = {t1, t2}
  ToolCalls = {}
  Sensitive = {a1}
  ActionOf <- OneAction
  NoHold = NoHold
INVARIANTS
  OneEffectPerApproval
  RunningIsTheClaim
  RejectStands
PROPERTIES
  NoEffectAfterReject
  SpentIsFinal
  GiveBackSettles
CHECK_DEADLOCK FALSE
