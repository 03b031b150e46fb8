--------------------------- MODULE ApprovalClaims ---------------------------
(***************************************************************************)
(* Approvals and the executions that claim them.                           *)
(*                                                                         *)
(* ApprovalStore (src/controller/app/approvals.py) keeps one record per    *)
(* approval; held_for_execution (approval_execution.py) claims a record    *)
(* for the action it runs, marks the moment the action may change          *)
(* something, and gives the approval back when it was refused before that. *)
(* Operators and agents decide approvals meanwhile.                        *)
(*                                                                         *)
(* Every change of a record is made under the store's one lock, so it is   *)
(* one action here; what a hold's owner and its child tasks do to the hold *)
(* itself takes no lock and interleaves with it.  What a record write      *)
(* survives (two stores, a crash between them) is module ApprovalStores.   *)
(***************************************************************************)
EXTENDS Naturals

CONSTANTS
  Approvals,   \* the approval ids an agent ever asks for
  Holds,       \* one per successful claim; bounds how many claims a run makes
  Tasks,       \* asyncio tasks that run actions: callers, and the children they create
  ToolCalls,   \* the approvals with origin "tool_call" (the others: "action")
  Sensitive,   \* the action approvals whose text is kept in memory only
  ActionOf,    \* the action an approval asks for, as _operator_rejected compares it
  NoHold

ASSUME ApprovalAssumption ==
  /\ ToolCalls \subseteq Approvals
  /\ Sensitive \subseteq Approvals \ ToolCalls
  /\ ActionOf \in [Approvals -> {ActionOf[a] : a \in Approvals}]
  /\ NoHold \notin Holds
  /\ NoHold \notin Approvals \union Tasks

VARIABLES
  status,       \* ApprovalRecord.status; "absent": not asked for yet
  decider,      \* ApprovalRecord.decided_via
  lapsed,       \* whether approval_ttl has passed since decided_at
  kept,         \* whether the arguments, or the sensitive text, are still held
  claims,       \* ApprovalStore._claims
  phase,        \* how far the block of a hold is; hold.active is "running"
  on,           \* hold.approval_id
  owner,        \* the task whose held_for_execution made the hold
  within,       \* the blocks of the same task this hold's block is nested in
  mayGiveBack,  \* hold.may_give_back
  cancelled,    \* hold.claim_cancelled
  effect,       \* hold.effect
  refused,      \* hold.refusal is set
  rejection,    \* hold.rejection is set: an operator's reject waits on the claim
  ownWay,       \* hold.gives_back_on_its_own
  carried,      \* the holds in each task's context (_HELD_APPROVALS)
  begun,        \* history: effects begun under an approval: 0, 1, 2 = several
  word          \* history: the last decision of an operator the store accepted

record == <<status, decider, lapsed, kept>>
made == <<on, owner, within, mayGiveBack, cancelled>>
holdVars == <<phase, made, effect, refused, rejection, ownWay>>
vars == <<record, claims, holdVars, carried, begun, word>>

-----------------------------------------------------------------------------
Statuses == {"absent", "pending", "approved", "rejected", "executed"}
Deciders == {"nobody", "operator", "agent"}
Verdicts == {"approved", "rejected"}
Endings  == {"return", "refusal", "cancelled", "error"}

\* "running" until the block ends; "giving_back" until the record is written, "written" or
\* "unwritten" after, until the hold is released; then "returned" or "spent"; "lost" to a restart.
Phases == {"unused", "running", "giving_back", "written", "unwritten", "returned", "spent", "lost"}

Active(h) == phase[h] = "running"
Open(h)   == phase[h] \in {"running", "giving_back", "written", "unwritten"}

\* What an approve needs still to be there: a tool call's arguments, a sensitive text.
Bound == ToolCalls \union Sensitive

Origin(a) == IF a \in ToolCalls THEN "tool_call" ELSE "action"

\* A task whose own block has ended, or never started its body, runs nothing more in it.
Runs(t) == \A h \in Holds : owner[h] = t /\ Open(h) => Active(h) /\ ~cancelled[h]

OperatorRejected(a) ==
  \E b \in Approvals : ActionOf[b] = ActionOf[a] /\ status[b] = "rejected" /\ decider[b] # "agent"

-----------------------------------------------------------------------------
(* Faults the properties are there to catch: each stands for one definition below, gone wrong.    *)

\* A decision reaches a claim whose action has begun.
DecidableOnceBegun(a) ==
  /\ status[a] = "executed"
  /\ claims[a] # NoHold
  /\ mayGiveBack[claims[a]]

\* The sweep takes the arguments of a rejected call at once, not a TTL after.
SweptOnceRejected == {a \in ToolCalls : status[a] = "rejected"}

\* A decision replaces whatever the record reads, a spent one's too.
DecidesAnything(a, verdict, by) ==
  /\ status[a] # "absent"
  /\ by = "agent" => status[a] = "pending"

\* The effect begins under a hold already released, under one a reject waits on, or again.
BeginsReleased(h) == ~rejection[h] /\ ~(effect[h] /\ on[h] \notin ToolCalls)
BeginsRejected(h) == Active(h) /\ ~(effect[h] /\ on[h] \notin ToolCalls)
BeginsAgain(h)    == Active(h) /\ ~rejection[h]

\* The released hold's claim is dropped by its approval's id, whichever claim that is now.
RevokedById(h) == [claims EXCEPT ![on[h]] = NoHold]

-----------------------------------------------------------------------------
\* The claim a decision on an executed record is put on: not begun, and given back on a refusal.
DecidableClaim(a) ==
  /\ status[a] = "executed"
  /\ claims[a] # NoHold
  /\ mayGiveBack[claims[a]]
  /\ ~effect[claims[a]]

\* A withdrawal the operator is told of leaves the reject waiting on the claim.
WithdrawUnheard(a) ==
  /\ DecidableClaim(a)
  /\ rejection[claims[a]]
  /\ word' = [word EXCEPT ![a] = "approved"]
  /\ UNCHANGED <<record, claims, holdVars, carried, begun>>

-----------------------------------------------------------------------------
Init ==
  /\ status  = [a \in Approvals |-> "absent"]
  /\ decider = [a \in Approvals |-> "nobody"]
  /\ lapsed  = [a \in Approvals |-> FALSE]
  /\ kept    = [a \in Approvals |-> FALSE]
  /\ claims  = [a \in Approvals |-> NoHold]
  /\ phase   = [h \in Holds |-> "unused"]
  /\ on      = [h \in Holds |-> NoHold]
  /\ owner   = [h \in Holds |-> NoHold]
  /\ within  = [h \in Holds |-> {}]
  /\ mayGiveBack = [h \in Holds |-> FALSE]
  /\ cancelled = [h \in Holds |-> FALSE]
  /\ effect  = [h \in Holds |-> FALSE]
  /\ refused = [h \in Holds |-> FALSE]
  /\ rejection = [h \in Holds |-> FALSE]
  /\ ownWay  = [h \in Holds |-> FALSE]
  /\ carried = [t \in Tasks |-> {}]
  /\ begun   = [a \in Approvals |-> 0]
  /\ word    = [a \in Approvals |-> "nothing"]

\* _sweep_arguments at a create: a tool call's, once its rejection is older than the TTL.
Swept == {a \in ToolCalls : status[a] = "rejected" /\ lapsed[a]}

\* create_or_reuse_pending: a new record, unless the same action already waits.
RequestNew(a) ==
  /\ status[a] = "absent"
  /\ \A b \in Approvals :
       ~ (status[b] = "pending" /\ ActionOf[b] = ActionOf[a] /\ Origin(b) = Origin(a))
  /\ status' = [status EXCEPT ![a] = "pending"]
  /\ kept'   = [b \in Approvals |-> IF b = a THEN TRUE ELSE kept[b] /\ b \notin Swept]
  /\ UNCHANGED <<decider, lapsed, claims, holdVars, carried, begun, word>>

\* create_or_reuse_pending: the pending record of the same action, its text held again.
RequestSame(a) ==
  /\ status[a] = "pending"
  /\ kept' = [b \in Approvals |-> IF b = a THEN kept[a] \/ a \in Sensitive
                                           ELSE kept[b] /\ b \notin Swept]
  /\ UNCHANGED <<status, decider, lapsed, claims, holdVars, carried, begun, word>>

\* An operator may change their mind until the action runs; an agent overturns no decision.
MayDecide(a, verdict, by) ==
  /\ status[a] \in {"pending", "approved", "rejected"}
  /\ by = "agent" => status[a] = "pending"
  /\ by = "agent" /\ verdict = "approved" => ~OperatorRejected(a)

\* decide on a record no action holds.
Decide(a, verdict, by) ==
  /\ MayDecide(a, verdict, by)
  /\ verdict = "approved" => a \notin Bound \/ kept[a]
  /\ status'  = [status EXCEPT ![a] = verdict]
  /\ decider' = [decider EXCEPT ![a] = by]
  /\ lapsed'  = [lapsed EXCEPT ![a] = FALSE]
  /\ kept'    = [kept EXCEPT ![a] = @ /\ ~(verdict = "rejected" /\ a \in Sensitive)]
  /\ word'    = [word EXCEPT ![a] = IF by = "operator" THEN verdict ELSE @]
  /\ UNCHANGED <<claims, holdVars, carried, begun>>

\* decide on a claimed record: an operator's reject waits on the claim ("deferred").
DeferReject(a) ==
  /\ DecidableClaim(a)
  /\ rejection' = [rejection EXCEPT ![claims[a]] = TRUE]
  /\ word' = [word EXCEPT ![a] = "rejected"]
  /\ UNCHANGED <<record, claims, phase, made, effect, refused,
                 ownWay, carried, begun>>

\* decide on a claimed record: an operator's approve takes the waiting reject back ("withdrawn...").
WithdrawReject(a) ==
  /\ DecidableClaim(a)
  /\ rejection[claims[a]]
  /\ rejection' = [rejection EXCEPT ![claims[a]] = FALSE]
  /\ word' = [word EXCEPT ![a] = "approved"]
  /\ UNCHANGED <<record, claims, phase, made, effect, refused,
                 ownWay, carried, begun>>

-----------------------------------------------------------------------------
(* An execution: claim, run, end, give back, release.                      *)

\* claim_execution, and the synchronous start of held_for_execution.  An inner layer whose task
\* holds the approval already claims nothing; c: the caller was cancelled during the write.
Claim(t, a, h, m, c) ==
  /\ Runs(t)
  /\ phase[h] = "unused"
  /\ \A g \in carried[t] : ~(on[g] = a /\ Active(g))
  /\ status[a] = "approved"
  /\ ~lapsed[a]
  /\ status' = [status EXCEPT ![a] = "executed"]
  /\ claims' = [claims EXCEPT ![a] = h]
  /\ phase' = [phase EXCEPT ![h] = "running"]
  /\ on' = [on EXCEPT ![h] = a]
  /\ owner' = [owner EXCEPT ![h] = t]
  /\ within' = [within EXCEPT ![h] = {g \in Holds : owner[g] = t /\ Open(g)}]
  /\ mayGiveBack' = [mayGiveBack EXCEPT ![h] = m]
  /\ cancelled' = [cancelled EXCEPT ![h] = c]
  /\ carried' = [carried EXCEPT ![t] = {g \in @ : on[g] # a} \union {h}]
  /\ UNCHANGED <<decider, lapsed, kept, effect, refused, rejection, ownWay, begun, word>>

\* effect_started, when it passes: every hold the task carries is active, without a waiting
\* reject, and, for an action approval, not used yet; all of them are spent from here on.
MayBegin(h) == Active(h) /\ ~rejection[h] /\ ~(effect[h] /\ on[h] \notin ToolCalls)

BeginEffect(t) ==
  /\ Runs(t)
  /\ carried[t] # {}
  /\ \A h \in carried[t] : MayBegin(h)
  /\ effect' = [h \in Holds |-> effect[h] \/ h \in carried[t]]
  /\ begun' = [a \in Approvals |-> IF \E h \in carried[t] : on[h] = a
                                   THEN IF begun[a] = 0 THEN 1 ELSE 2
                                   ELSE begun[a]]
  /\ UNCHANGED <<record, claims, phase, made, refused, rejection,
                 ownWay, carried, word>>

\* refused_before_effect: the action pipeline raised before any change, for a reason of its own
\* or because effect_started refused (its refusal is recorded before anything is awaited).
Refuse(t) ==
  /\ Runs(t)
  /\ \E h \in carried[t] : Active(h) /\ ~effect[h]
  /\ refused' = [h \in Holds |-> refused[h] \/ (h \in carried[t] /\ Active(h) /\ ~effect[h])]
  /\ UNCHANGED <<record, claims, phase, made, effect, rejection,
                 ownWay, carried, begun, word>>

\* asyncio's create_task, called inside the block: the new task starts with a copy of its parent's
\* context, the holds in _HELD_APPROVALS with it.
Spawn(t, u) ==
  /\ Runs(t)
  /\ t # u
  /\ carried[t] # {}
  /\ carried[u] = {}
  /\ carried' = [carried EXCEPT ![u] = carried[t]]
  /\ UNCHANGED <<record, claims, holdVars, begun, word>>

\* asyncio's: a task ends, its own blocks done, and its context with it.  Its name may then stand
\* for another caller.
Finish(t) ==
  /\ carried[t] # {}
  /\ \A h \in Holds : owner[h] = t => ~Open(h)
  /\ carried' = [carried EXCEPT ![t] = {}]
  /\ UNCHANGED <<record, claims, holdVars, begun, word>>

OwnWay(h, how) ==
  /\ mayGiveBack[h]
  /\ ~effect[h]
  /\ how = "cancelled" \/ (how = "refusal" /\ refused[h])

GivesBack(h, how) ==
  /\ mayGiveBack[h]
  /\ ~effect[h]
  /\ rejection[h] \/ OwnWay(h, how)

\* revoke_execution: the claim goes, unless a later one of the same approval replaced it.
Revoked(h) == [claims EXCEPT ![on[h]] = IF @ = h THEN NoHold ELSE @]

\* release_execution and what follows it in the block's finally: a spent approval loses its text
\* or arguments.  The audit event for a reject that waited on it in vain is left out.
ReleaseHold(h, spent) ==
  LET a == on[h]
  IN /\ phase' = [phase EXCEPT ![h] = IF spent THEN "spent" ELSE "returned"]
     /\ claims' = Revoked(h)
     /\ carried' = [carried EXCEPT ![owner[h]] = @ \ {h}]
     /\ kept' = [kept EXCEPT ![a] = @ /\ ~spent]

\* The block ends; blocks nest, so the task's inner ones have ended before.  The hold is revoked
\* before the give-back awaits anything, and stays in the claims until it is released.
End(h, how) ==
  /\ Active(h)
  /\ \A g \in Holds : Open(g) => h \notin within[g]
  /\ how = "refusal" => refused[h]
  /\ cancelled[h] => how = "cancelled"
  /\ \/ /\ GivesBack(h, how)
        /\ phase' = [phase EXCEPT ![h] = "giving_back"]
        /\ ownWay' = [ownWay EXCEPT ![h] = OwnWay(h, how)]
        /\ UNCHANGED <<claims, carried, kept>>
     \/ /\ ~GivesBack(h, how)
        /\ ReleaseHold(h, TRUE)
        /\ UNCHANGED ownWay
  /\ UNCHANGED <<status, decider, lapsed, made, effect, refused,
                 rejection, begun, word>>

\* ApprovalStore.give_back, under the lock.  Without a reject waiting now, and with an ending that
\* gives nothing back by itself, the record stays executed; so it does when the write fails.
WriteGiveBack(h) ==
  /\ phase[h] = "giving_back"
  /\ rejection[h] \/ ownWay[h]
  /\ phase' = [phase EXCEPT ![h] = "written"]
  /\ LET a == on[h]
     IN IF rejection[h]
        THEN /\ status' = [status EXCEPT ![a] = "rejected"]
             /\ decider' = [decider EXCEPT ![a] = "operator"]
             /\ lapsed' = [lapsed EXCEPT ![a] = FALSE]
             /\ kept' = [kept EXCEPT ![a] = @ /\ a \notin Sensitive]
        ELSE /\ status' = [status EXCEPT ![a] = "approved"]
             /\ UNCHANGED <<decider, lapsed, kept>>
  /\ UNCHANGED <<claims, made, effect, refused, rejection, ownWay, carried, begun, word>>

NoGiveBack(h) ==
  /\ phase[h] = "giving_back"
  /\ phase' = [phase EXCEPT ![h] = "unwritten"]
  /\ UNCHANGED <<record, claims, made, effect, refused, rejection, ownWay, carried,
                 begun, word>>

\* A fault: only what was written back is released.
ReleaseIfWritten(h) ==
  /\ phase[h] = "written"
  /\ ReleaseHold(h, FALSE)
  /\ UNCHANGED <<status, decider, lapsed, made, effect, refused, rejection, ownWay, begun, word>>

\* The give-back's block leaves, its audit written: the finally of held_for_execution.
Release(h) ==
  /\ phase[h] \in {"written", "unwritten"}
  /\ ReleaseHold(h, phase[h] = "unwritten")
  /\ UNCHANGED <<status, decider, lapsed, made, effect, refused, rejection, ownWay, begun, word>>

-----------------------------------------------------------------------------
(* Time, and the process.                                                  *)

TtlPasses(a) ==
  /\ status[a] \in {"approved", "rejected", "executed"}
  /\ ~lapsed[a]
  /\ lapsed' = [lapsed EXCEPT ![a] = TRUE]
  /\ UNCHANGED <<status, decider, kept, claims, holdVars, carried, begun, word>>

\* SENSITIVE_TEXT_RETENTION passes; _prune_sensitive_texts.
TextAgesOut(a) ==
  /\ a \in Sensitive
  /\ kept[a]
  /\ kept' = [kept EXCEPT ![a] = FALSE]
  /\ UNCHANGED <<status, decider, lapsed, claims, holdVars, carried, begun, word>>

\* The process dies, or stops, and starts again.  Records last; claims, contexts and sensitive
\* texts were its memory; the startup sweep removes the arguments of what is spent.
Restart ==
  /\ \E a \in Approvals : status[a] # "absent"
  /\ claims' = [a \in Approvals |-> NoHold]
  /\ phase' = [h \in Holds |-> IF Open(h) THEN "lost" ELSE phase[h]]
  /\ carried' = [t \in Tasks |-> {}]
  /\ kept' = [a \in Approvals |-> /\ kept[a]
                                  /\ a \notin Sensitive \union Swept
                                  /\ status[a] # "executed"]
  /\ UNCHANGED <<status, decider, lapsed, made, effect, refused, rejection, ownWay,
                 begun, word>>

-----------------------------------------------------------------------------
Deciding(a) ==
  \/ RequestNew(a)
  \/ RequestSame(a)
  \/ \E verdict \in Verdicts, by \in {"operator", "agent"} : Decide(a, verdict, by)
  \/ DeferReject(a)
  \/ WithdrawReject(a)
  \/ TtlPasses(a)
  \/ TextAgesOut(a)

Running(t) ==
  \/ \E a \in Approvals, h \in Holds, m, c \in BOOLEAN : Claim(t, a, h, m, c)
  \/ BeginEffect(t)
  \/ Refuse(t)
  \/ \E u \in Tasks : Spawn(t, u)
  \/ Finish(t)

Settling(h) ==
  \/ \E how \in Endings : End(h, how)
  \/ WriteGiveBack(h)
  \/ NoGiveBack(h)
  \/ Release(h)

Next ==
  \/ \E a \in Approvals : Deciding(a)
  \/ \E t \in Tasks : Running(t)
  \/ \E h \in Holds : Settling(h)
  \/ Restart

\* Once its block has ended, a give-back is not waiting for anyone: its write takes the lock, which
\* every holder leaves, and runs to its end through cancellations (_run_through).  A body may run
\* as long as it likes, and no decision is ever owed.
Fairness == \A h \in Holds : WF_vars(WriteGiveBack(h) \/ NoGiveBack(h)) /\ WF_vars(Release(h))

Spec == Init /\ [][Next]_vars
FairSpec == Spec /\ Fairness

-----------------------------------------------------------------------------
(* Properties.                                                             *)

TypeOK ==
  /\ status \in [Approvals -> Statuses]
  /\ decider \in [Approvals -> Deciders]
  /\ lapsed \in [Approvals -> BOOLEAN]
  /\ kept \in [Approvals -> BOOLEAN]
  /\ claims \in [Approvals -> Holds \union {NoHold}]
  /\ phase \in [Holds -> Phases]
  /\ on \in [Holds -> Approvals \union {NoHold}]
  /\ owner \in [Holds -> Tasks \union {NoHold}]
  /\ within \in [Holds -> SUBSET Holds]
  /\ mayGiveBack \in [Holds -> BOOLEAN]
  /\ cancelled \in [Holds -> BOOLEAN]
  /\ effect \in [Holds -> BOOLEAN]
  /\ refused \in [Holds -> BOOLEAN]
  /\ rejection \in [Holds -> BOOLEAN]
  /\ ownWay \in [Holds -> BOOLEAN]
  /\ carried \in [Tasks -> SUBSET Holds]
  /\ begun \in [Approvals -> 0..2]
  /\ word \in [Approvals -> {"nothing"} \union Verdicts]

\* "An approval authorizes one action" (claim_execution): across refusals, give-backs, retries,
\* child tasks that outlive their holder and restarts, at most one execution ever begins its
\* effect under an approval, and under an action approval it begins one effect only.
OneEffectPerApproval ==
  /\ \A h, g \in Holds : effect[h] /\ effect[g] /\ on[h] = on[g] => h = g
  /\ \A a \in Approvals \ ToolCalls : begun[a] <= 1

\* Every running execution is the one claim the store knows for its approval, and the record is
\* marked executed: a second caller is refused, and a decision always finds the claim it is about.
RunningIsTheClaim ==
  \A h \in Holds : Active(h) => status[on[h]] = "executed" /\ claims[on[h]] = h

\* A reject the store accepted is never undone by anything but an operator's approve: the record
\* never reads approved again, and while it reads executed nothing has begun under it and the
\* reject waits on the claim, or its hold was released without effect or died with the process.
RejectStands ==
  \A a \in Approvals :
    word[a] = "rejected" =>
      \/ status[a] = "rejected"
      \/ /\ status[a] = "executed"
         /\ begun[a] = 0
         /\ \E h \in Holds :
              /\ on[h] = a
              /\ rejection[h]
              /\ (claims[a] = h \/ phase[h] \in {"spent", "lost"})

\* No effect begins under an approval whose last accepted operator's word is a reject, wherever
\* that reject was kept (the record, a claim, a claim being given back).
NoEffectAfterReject ==
  [][\A a \in Approvals : begun'[a] # begun[a] => word[a] # "rejected" /\ status[a] = "executed"]_vars

\* A record that is executed with no claim left, or whose claim has begun, stays executed: no
\* decision, give-back, straggler or restart makes a spent approval usable again.
SpentIsFinal ==
  [][\A a \in Approvals :
       status[a] = "executed" /\ (claims[a] = NoHold \/ effect[claims[a]])
         => status'[a] = "executed"]_vars

\* A record an operator has decided reads as they last decided it, however the action went in
\* between: a reject deferred onto a claim, withdrawn from it, given back or lost with the process,
\* an agent deciding at the same time.  A reject it reads is the operator's own.
OperatorsWordStands ==
  \A a \in Approvals :
    status[a] \in Verdicts /\ word[a] # "nothing" =>
      /\ status[a] = word[a]
      /\ word[a] = "rejected" => decider[a] = "operator"

\* What may still be approved without another decision, or run, has its arguments.
ArgumentsHeld ==
  \A a \in ToolCalls :
    (\/ status[a] \in {"pending", "approved"}
     \/ status[a] = "executed" /\ claims[a] # NoHold)
       => kept[a]

\* A tool call's arguments are readable as long as its approval can still be approved or run, so
\* the operator can read what they approve: they are lost with the last claim of an executed
\* record, or to the sweep once a rejection is past the TTL, and never before.  (A record rejected
\* again after that sweep is a fresh rejection without them, and can no longer be approved.)
ArgumentsUntilFinal ==
  /\ []ArgumentsHeld
  /\ [][\A a \in ToolCalls :
          kept[a] /\ ~kept'[a] =>
            \/ status[a] = "rejected" /\ lapsed[a]
            \/ status[a] = "executed" /\ claims'[a] = NoHold]_vars

\* A block that ended to give its approval back does not leave the claim behind: it is released
\* (given back, or spent) or lost with the process.
GiveBackSettles ==
  \A h \in Holds : phase[h] = "giving_back" ~> phase[h] \in {"returned", "spent", "lost"}

\* What the docstring of decide promises of an agent's approve ("the same action requested anew is
\* a new approval, and it stays the operator's to decide"): an agent's approve never lands on an
\* action whose last accepted operator's word, on whatever approval asked for it, is a reject.
AgentCannotAskAround ==
  [][\A a, b \in Approvals :
       (/\ status[a] = "pending"
        /\ status'[a] = "approved"
        /\ ActionOf[a] = ActionOf[b]
        /\ word[b] = "rejected")
          => decider'[a] = "operator"]_vars

-----------------------------------------------------------------------------
(* The abstract approval each record and its claim stand for.              *)

GrantOf(a) ==
  CASE status[a] = "absent" -> "none"
    [] status[a] = "pending" -> "asked"
    [] status[a] = "approved" -> "granted"
    [] status[a] = "rejected" -> "denied"
    [] status[a] = "executed" ->
         IF begun[a] > 0 THEN "used"
         ELSE IF claims[a] = NoHold \/ phase[claims[a]] = "unwritten" THEN "forfeited"
         ELSE IF rejection[claims[a]] THEN "denied" ELSE "granted"

Grants == INSTANCE ApprovalGrants WITH grant <- [a \in Approvals |-> GrantOf(a)]

\* Claims, effects, give-backs and restarts together behave as one-use grants.
ImplementsGrants == Grants!GrantSpec

-----------------------------------------------------------------------------
(* The inductive invariant behind the safety properties.                   *)

\* A claim the store knows is open and is about the approval it is kept under.
ClaimsAreOpen ==
  \A a \in Approvals : claims[a] # NoHold => on[claims[a]] = a /\ Open(claims[a])

\* Until its hold is written back or released, the record of a claim stays executed.
OpenIsExecuted ==
  \A h \in Holds :
    phase[h] \in {"running", "giving_back", "unwritten"} =>
      on[h] \in Approvals /\ status[on[h]] = "executed" /\ claims[on[h]] = h

\* A claim whose give-back is written reads as a verdict until a later claim replaces it.
WrittenIsDecided ==
  \A h \in Holds :
    phase[h] = "written" =>
      on[h] \in Approvals /\ (claims[on[h]] = h => status[on[h]] \in Verdicts)

UnusedIsBlank ==
  \A h \in Holds :
    phase[h] = "unused" =>
      ~effect[h] /\ ~rejection[h] /\ \A t \in Tasks : h \notin carried[t]

UsedHasApproval == \A h \in Holds : phase[h] # "unused" => on[h] \in Approvals /\ owner[h] \in Tasks

\* An effect is begun only while running, and never given back.
EffectIsSpent ==
  \A h \in Holds :
    effect[h] =>
      /\ on[h] \in Approvals
      /\ status[on[h]] = "executed"
      /\ phase[h] \in {"running", "spent", "lost"}
      /\ phase[h] # "running" => claims[on[h]] = NoHold

BegunByEffect ==
  \A a \in Approvals : begun[a] > 0 <=> \E h \in Holds : effect[h] /\ on[h] = a

BegunOnce == \A a \in Approvals \ ToolCalls : begun[a] <= 1

RejectionIsDecidable == \A h \in Holds : rejection[h] => mayGiveBack[h] /\ ~effect[h]

GivingBackMay ==
  \A h \in Holds : phase[h] \in {"giving_back", "unwritten"} => mayGiveBack[h] /\ ~effect[h]

\* While a claim is there the accepted reject is the one waiting on it.
RejectWaits ==
  \A a \in Approvals :
    status[a] = "executed" /\ claims[a] # NoHold => (rejection[claims[a]] <=> word[a] = "rejected")

\* An operator is heard only on what was asked for, and an undecided record has no word.
WordIsOnDecided == \A a \in Approvals : status[a] \in {"absent", "pending"} => word[a] = "nothing"

IInv ==
  /\ TypeOK
  /\ ClaimsAreOpen
  /\ OpenIsExecuted
  /\ WrittenIsDecided
  /\ UnusedIsBlank
  /\ UsedHasApproval
  /\ EffectIsSpent
  /\ BegunByEffect
  /\ BegunOnce
  /\ RejectionIsDecidable
  /\ GivingBackMay
  /\ RejectWaits
  /\ RejectStands
  /\ WordIsOnDecided
  /\ OperatorsWordStands
  /\ ArgumentsHeld

=============================================================================
