--------------------------- MODULE SessionLifecycle ---------------------------
(***************************************************************************)
(* Live browser sessions: create, close, and the record that follows them  *)
(* (src/controller/app/browser/services/session_creation.py, sessions.py,  *)
(* session_tunnel.py; session_store.py).                                   *)
(*                                                                         *)
(* A create and a close are long: each awaits the browser many times, and  *)
(* a session can be listed, acted on, closed and persisted by others from  *)
(* the moment it is registered, which is well before its create returns.   *)
(* One session lock orders an action, the load of the start URL and a      *)
(* close, but a close goes ahead without it rather than wait for ever.     *)
(***************************************************************************)
EXTENDS Integers, FiniteSets

CONSTANTS
  Sessions,     \* the ids create ever makes; none is made twice
  Tunnelled,    \* those on a browser of their own with a takeover tunnel
  Busy,         \* those an action may be run on (bounds the interleavings)
  Gated,        \* whether pre-request blocking is on: a browser closed has no live gate
  Closers,      \* close_session calls: operators, containment of a lost gate, shutdown
  Savers,       \* persists of a live session: an action's, a download's, a tab's
  MaxSessions,
  Nobody

ASSUME LifecycleAssumption ==
  /\ Tunnelled \union Busy \subseteq Sessions
  /\ Gated \in BOOLEAN
  /\ MaxSessions \in Nat \ {0}
  /\ Nobody \notin Sessions \union Closers

VARIABLES
  create,    \* how far the create of each session is
  reserved,  \* the creates that hold a place and are not registered: _reserved counts them
  live,      \* manager.sessions
  open,      \* sessions whose browser context is open
  strays,    \* contexts open on a shared browser that no create got: by the session they were opened for
  lock,      \* who holds session.lock: "free", "create", "action" or a closer
  tunnels,   \* sessions with session.tunnel set whose autossh runs
  closer,    \* how far each close call is
  closes,    \* the session it closes
  saves,     \* the session each persist is about to write, past its look at the registry
  record,    \* SessionRecord.status on disk; "none": no record
  shut       \* history: the sessions a close of which has ended, with its answer or its summary's error

resources == <<open, tunnels, strays>>
closing == <<closer, closes, shut>>
vars == <<create, reserved, live, lock, resources, closing, saves, record>>

-----------------------------------------------------------------------------
\* "opening": counted, not registered; from "registered" (the created hook) on, others see it; "loading" holds
\* the lock; "failing" has raised; "undoing" is the rollback past the registry.
CreateSteps == {"checked", "opening", "registered", "loading", "tunnelling", "recording", "saving",
                "failing", "undoing", "forgetting"}
CreateEnds == {"made", "failed", "over"}

\* "waiting" for the lock; "forcing": the context closed to get it; "closing": past the check that the session is
\* still registered; "released": its tunnel is; "torn": its resources are; "unsummed": recorded closed, and torn next.
PastCheck == {"closing", "released", "torn", "audited", "unsummed"}
CloseSteps == {"waiting", "forcing"} \union PastCheck

\* check_limit.
Room == Cardinality(live) + Cardinality(reserved) < MaxSessions

-----------------------------------------------------------------------------
Init ==
  /\ create = [s \in Sessions |-> "none"]
  /\ reserved = {}
  /\ live = {}
  /\ open = {}
  /\ strays = {}
  /\ lock = [s \in Sessions |-> "free"]
  /\ tunnels = {}
  /\ closer = [c \in Closers |-> "idle"]
  /\ closes = [c \in Closers |-> Nobody]
  /\ saves = [k \in Savers |-> Nobody]
  /\ record = [s \in Sessions |-> "none"]
  /\ shut = {}

Creates(s, step) == create' = [create EXCEPT ![s] = step]

-----------------------------------------------------------------------------
(* create.                                                                 *)

\* The first check, before the profile and memory reads are awaited.
CheckLimit(s) ==
  /\ create[s] = "none"
  /\ Creates(s, IF Room THEN "checked" ELSE "over")
  /\ UNCHANGED <<reserved, live, lock, resources, closing, saves, record>>

\* A fault: the place is taken on the first check alone.
ReserveOnce(s) ==
  /\ create[s] = "checked"
  /\ Creates(s, "opening")
  /\ reserved' = reserved \union {s}
  /\ UNCHANGED <<live, lock, resources, closing, saves, record>>

\* The second check, and the place it takes with no await between.
Reserve(s) ==
  /\ create[s] = "checked"
  /\ IF Room
     THEN Creates(s, "opening") /\ reserved' = reserved \union {s}
     ELSE Creates(s, "over") /\ UNCHANGED reserved
  /\ UNCHANGED <<live, lock, resources, closing, saves, record>>

\* A read refuses the profile, the state or the memory: nothing was taken yet.
RefuseCreate(s) ==
  /\ create[s] = "checked"
  /\ Creates(s, "over")
  /\ UNCHANGED <<reserved, live, lock, resources, closing, saves, record>>

\* The browser, its gate and new_context.
OpenContext(s) ==
  /\ create[s] = "opening"
  /\ s \notin open
  /\ open' = open \union {s}
  /\ UNCHANGED <<create, reserved, live, lock, tunnels, strays, closing, saves, record>>

\* The session is registered, and counted there from here on.
Register(s) ==
  /\ create[s] = "opening"
  /\ s \in open
  /\ live' = live \union {s}
  /\ reserved' = reserved \ {s}
  /\ Creates(s, "registered")
  /\ UNCHANGED <<lock, resources, closing, saves, record>>

\* The load of a start URL, under the session's lock.
LoadPage(s) ==
  /\ create[s] = "registered"
  /\ lock[s] = "free"
  /\ lock' = [lock EXCEPT ![s] = "create"]
  /\ Creates(s, "loading")
  /\ UNCHANGED <<reserved, live, resources, closing, saves, record>>

Onward(s) == IF s \in Tunnelled THEN "tunnelling" ELSE "recording"

PageLoads(s) ==
  /\ create[s] = "loading"
  /\ s \in open
  /\ lock' = [lock EXCEPT ![s] = "free"]
  /\ Creates(s, Onward(s))
  /\ UNCHANGED <<reserved, live, resources, closing, saves, record>>

PageFails(s) ==
  /\ create[s] = "loading"
  /\ lock' = [lock EXCEPT ![s] = "free"]
  /\ Creates(s, "failing")
  /\ UNCHANGED <<reserved, live, resources, closing, saves, record>>

\* No start URL.
SkipPage(s) ==
  /\ create[s] = "registered"
  /\ Creates(s, Onward(s))
  /\ UNCHANGED <<reserved, live, lock, resources, closing, saves, record>>

\* IsolatedSessionTunnelBroker.provision: autossh ran on through its grace period, and session.tunnel is set; the
\* check of the gate follows without an await, and finds it gone with the browser a close tore down.
TunnelUp(s) ==
  /\ create[s] = "tunnelling"
  /\ tunnels' = tunnels \union {s}
  /\ Creates(s, IF Gated /\ s \notin live THEN "failing" ELSE "recording")
  /\ UNCHANGED <<reserved, live, lock, open, strays, closing, saves, record>>

\* No port, or autossh ended: the session goes on without a tunnel.
TunnelFails(s) ==
  /\ create[s] = "tunnelling"
  /\ Creates(s, IF Gated /\ s \notin live THEN "failing" ELSE "recording")
  /\ UNCHANGED <<reserved, live, lock, resources, closing, saves, record>>

\* _persist_session: not for a session that is not registered (any more).
RecordCreate(s) ==
  /\ create[s] = "recording"
  /\ Creates(s, IF s \in live THEN "saving" ELSE "made")
  /\ UNCHANGED <<reserved, live, lock, resources, closing, saves, record>>

\* A fault: the last write wins.
UpsertedAnyway(s, status) == [record EXCEPT ![s] = status]

\* The store's upsert refuses any other status over a closed record.
Upserted(s, status) ==
  [record EXCEPT ![s] = IF status # "closed" /\ @ = "closed" THEN @ ELSE status]

SaveCreate(s) ==
  /\ create[s] = "saving"
  /\ record' = Upserted(s, "active")
  /\ Creates(s, "made")
  /\ UNCHANGED <<reserved, live, lock, resources, closing, saves>>

\* Anything a create awaits may raise, or be cancelled: the caller gave up, or the process is stopping.  An autossh
\* in its grace period is stopped by provision itself (_abort_starting); a write under way lands first; a new_context
\* under way may end all the same, and its context is then nobody's, unless it goes with a browser of the session's own.
CreateRaises(s) ==
  /\ create[s] \in {"opening", "registered", "tunnelling", "recording", "saving"}
  /\ Creates(s, "failing")
  /\ \/ UNCHANGED record
     \/ create[s] = "saving" /\ record' = Upserted(s, "active")
  /\ \/ UNCHANGED strays
     \/ create[s] = "opening" /\ s \notin open \union Tunnelled /\ strays' = strays \union {s}
  /\ UNCHANGED <<reserved, live, lock, open, tunnels, closing, saves>>

\* cleanup_failed, a task of its own: the registry first, without an await.
Unregister(s) ==
  /\ create[s] = "failing"
  /\ live' = live \ {s}
  /\ Creates(s, "undoing")
  /\ UNCHANGED <<reserved, lock, resources, closing, saves, record>>

\* A fault: the rollback leaves the tunnel.
UndoContext(s) ==
  /\ create[s] = "undoing"
  /\ open' = open \ {s}
  /\ Creates(s, "forgetting")
  /\ UNCHANGED <<reserved, live, lock, tunnels, strays, closing, saves, record>>

\* The tunnels, the context, the browser and the runtime, each bounded.
Undo(s) ==
  /\ create[s] = "undoing"
  /\ tunnels' = tunnels \ {s}
  /\ open' = open \ {s}
  /\ Creates(s, "forgetting")
  /\ UNCHANGED <<reserved, live, lock, strays, closing, saves, record>>

\* The record is closed, if the create got that far, and a place still reserved is given back.
Forget(s) ==
  /\ create[s] = "forgetting"
  /\ record' = IF record[s] = "none" THEN record ELSE Upserted(s, "closed")
  /\ reserved' = reserved \ {s}
  /\ Creates(s, "failed")
  /\ UNCHANGED <<live, lock, resources, closing, saves>>

-----------------------------------------------------------------------------
(* close, one protected unit, and what else uses a live session.           *)

Closing(c, step) == closer' = [closer EXCEPT ![c] = step] /\ UNCHANGED <<closes, shut>>
Returned(c) ==
  /\ closer' = [closer EXCEPT ![c] = "ended"]
  /\ closes' = [closes EXCEPT ![c] = Nobody]

\* SessionNotFoundError: the session was closed meanwhile.
Missed(c) == Returned(c) /\ UNCHANGED shut

Unlocked(c) == [s \in Sessions |-> IF lock[s] = c THEN "free" ELSE lock[s]]

CallClose(c, s) ==
  /\ closer[c] = "idle"
  /\ s \in live
  /\ closer' = [closer EXCEPT ![c] = "waiting"]
  /\ closes' = [closes EXCEPT ![c] = s]
  /\ UNCHANGED <<create, reserved, live, lock, resources, shut, saves, record>>

\* _lock_for_close got the lock; a session another close has ended meanwhile is left alone.
TakeLock(c) ==
  /\ closer[c] \in {"waiting", "forcing"}
  /\ lock[closes[c]] = "free"
  /\ IF closes[c] \in live
     THEN lock' = [lock EXCEPT ![closes[c]] = c] /\ Closing(c, "closing")
     ELSE UNCHANGED lock /\ Missed(c)
  /\ UNCHANGED <<create, reserved, live, resources, saves, record>>

\* CLOSE_LOCK_WAIT_SECONDS pass: closing the context fails what an action or a load waits for.
ForceContext(c) ==
  /\ closer[c] = "waiting"
  /\ lock[closes[c]] # "free"
  /\ open' = open \ {closes[c]}
  /\ Closing(c, "forcing")
  /\ UNCHANGED <<create, reserved, live, lock, tunnels, strays, saves, record>>

\* A fault: the close waits for the lock, however long.
GoOnceUnlocked(c) ==
  /\ closer[c] = "forcing"
  /\ lock[closes[c]] = "free"
  /\ IF closes[c] \in live THEN Closing(c, "closing") ELSE Missed(c)
  /\ UNCHANGED <<create, reserved, live, lock, resources, saves, record>>

\* They pass again: the close goes ahead without the lock.
GoWithoutLock(c) ==
  /\ closer[c] = "forcing"
  /\ lock[closes[c]] # "free"
  /\ IF closes[c] \in live THEN Closing(c, "closing") ELSE Missed(c)
  /\ UNCHANGED <<create, reserved, live, lock, resources, saves, record>>

\* session.tunnel, as it is now.
ReleaseTunnel(c) ==
  /\ closer[c] = "closing"
  /\ tunnels' = tunnels \ {closes[c]}
  /\ Closing(c, "released")
  /\ UNCHANGED <<create, reserved, live, lock, open, strays, saves, record>>

\* The resources, whatever fails among them, then the registry, and the locals of the close.
TearDown(c) ==
  /\ closer[c] = "released"
  /\ open' = open \ {closes[c]}
  /\ live' = live \ {closes[c]}
  /\ Closing(c, "torn")
  /\ UNCHANGED <<create, reserved, lock, tunnels, strays, saves, record>>

\* The summary cannot be made: the record is closed without one, then the rest as above.
SummaryFails(c) ==
  /\ closer[c] = "released"
  /\ record' = Upserted(closes[c], "closed")
  /\ Closing(c, "unsummed")
  /\ UNCHANGED <<create, reserved, live, lock, resources, saves>>

TearDownUnsummed(c) ==
  /\ closer[c] = "unsummed"
  /\ open' = open \ {closes[c]}
  /\ live' = live \ {closes[c]}
  /\ lock' = Unlocked(c)
  /\ Returned(c)
  /\ shut' = shut \union {closes[c]}
  /\ UNCHANGED <<create, reserved, tunnels, strays, saves, record>>

\* The audit event and the receipt.
AuditClose(c) ==
  /\ closer[c] = "torn"
  /\ Closing(c, "audited")
  /\ UNCHANGED <<create, reserved, live, lock, resources, saves, record>>

\* The record, made from the summary of before, and the lock given back.
RecordClose(c) ==
  /\ closer[c] = "audited"
  /\ record' = Upserted(closes[c], "closed")
  /\ lock' = Unlocked(c)
  /\ Returned(c)
  /\ shut' = shut \union {closes[c]}
  /\ UNCHANGED <<create, reserved, live, resources, saves>>

\* BrowserActionPipeline.run takes the lock, and ends when its page answers, or its context is closed.
ActionStarts(s) ==
  /\ s \in live \intersect Busy
  /\ lock[s] = "free"
  /\ lock' = [lock EXCEPT ![s] = "action"]
  /\ UNCHANGED <<create, reserved, live, resources, closing, saves, record>>

ActionEnds(s) ==
  /\ lock[s] = "action"
  /\ lock' = [lock EXCEPT ![s] = "free"]
  /\ UNCHANGED <<create, reserved, live, resources, closing, saves, record>>

\* persist: a session gone before its summary is made, or by then, is not written.
SaveLooks(k, s) ==
  /\ saves[k] = Nobody
  /\ s \in live
  /\ saves' = [saves EXCEPT ![k] = s]
  /\ UNCHANGED <<create, reserved, live, lock, resources, closing, record>>

SaveLands(k) ==
  /\ saves[k] # Nobody
  /\ record' = Upserted(saves[k], "active")
  /\ saves' = [saves EXCEPT ![k] = Nobody]
  /\ UNCHANGED <<create, reserved, live, lock, resources, closing>>

\* The process dies, and starts: every session is gone, and what reads active is interrupted.
Restart ==
  /\ \E s \in Sessions : create[s] # "none"
  /\ create' = [s \in Sessions |-> IF create[s] \in CreateSteps THEN "over" ELSE create[s]]
  /\ reserved' = {}
  /\ live' = {}
  /\ open' = {}
  /\ strays' = {}
  /\ lock' = [s \in Sessions |-> "free"]
  /\ tunnels' = {}
  /\ closer' = [c \in Closers |-> IF closer[c] \in CloseSteps THEN "ended" ELSE closer[c]]
  /\ closes' = [c \in Closers |-> Nobody]
  /\ saves' = [k \in Savers |-> Nobody]
  /\ record' = [s \in Sessions |-> IF record[s] = "active" THEN "interrupted" ELSE record[s]]
  /\ UNCHANGED shut

-----------------------------------------------------------------------------
Creating(s) ==
  \/ CheckLimit(s) \/ RefuseCreate(s) \/ Reserve(s) \/ OpenContext(s) \/ Register(s)
  \/ LoadPage(s) \/ PageLoads(s) \/ PageFails(s) \/ SkipPage(s)
  \/ TunnelUp(s) \/ TunnelFails(s)
  \/ RecordCreate(s) \/ SaveCreate(s)
  \/ CreateRaises(s) \/ Unregister(s) \/ Undo(s) \/ Forget(s)

ClosingOf(c) ==
  \/ \E s \in Sessions : CallClose(c, s)
  \/ TakeLock(c) \/ ForceContext(c) \/ GoWithoutLock(c)
  \/ ReleaseTunnel(c) \/ TearDown(c) \/ SummaryFails(c) \/ TearDownUnsummed(c) \/ AuditClose(c) \/ RecordClose(c)

Saving(k) == (\E s \in Sessions : SaveLooks(k, s)) \/ SaveLands(k)

Next ==
  \/ \E s \in Sessions : Creating(s) \/ ActionStarts(s) \/ ActionEnds(s)
  \/ \E c \in Closers : ClosingOf(c)
  \/ \E k \in Savers : Saving(k)
  \/ Restart

\* Every step of a close is bounded by a timeout of its own (CLOSE_LOCK_WAIT_SECONDS, TEARDOWN_STEP_TIMEOUT_SECONDS)
\* or is a write that ends, and the close is a task no caller's cancel stops.  Nothing else is assumed to end: an action
\* may hold the lock for ever, a page may never answer.
Fairness ==
  \A c \in Closers :
    WF_vars(\/ TakeLock(c) \/ ForceContext(c) \/ GoWithoutLock(c)
            \/ ReleaseTunnel(c) \/ TearDown(c) \/ SummaryFails(c) \/ TearDownUnsummed(c)
            \/ AuditClose(c) \/ RecordClose(c))

Spec == Init /\ [][Next]_vars
FairSpec == Spec /\ Fairness

-----------------------------------------------------------------------------
(* Properties.                                                             *)

TypeOK ==
  /\ create \in [Sessions -> {"none"} \union CreateSteps \union CreateEnds]
  /\ reserved \subseteq Sessions \ live
  /\ live \subseteq Sessions
  /\ open \union strays \subseteq Sessions
  /\ lock \in [Sessions -> {"free", "create", "action"} \union Closers]
  /\ tunnels \subseteq Sessions
  /\ closer \in [Closers -> {"idle", "ended"} \union CloseSteps]
  /\ closes \in [Closers -> Sessions \union {Nobody}]
  /\ saves \in [Savers -> Sessions \union {Nobody}]
  /\ record \in [Sessions -> {"none", "active", "interrupted", "closed"}]
  /\ shut \subseteq Sessions

\* "Concurrent creates all passed the check and MAX_SESSIONS was exceeded" (BrowserSessionService): live sessions and
\* creates past the check together never exceed it, whatever interleaves, fails or is closed meanwhile.
LimitHolds == Cardinality(live) + Cardinality(reserved) <= MaxSessions

\* cleanup_failed: a create that failed leaves no session, no open context of those it got, no tunnel and no place
\* taken, wherever it failed, and whoever was closing it meanwhile.
FailedLeavesNothing ==
  \A s \in Sessions :
    create[s] = "failed" => s \notin live \union open \union tunnels \union reserved

\* close goes ahead "rather than leave the session - and its MAX_SESSIONS slot - stuck until restart": a close that
\* was called ends, whoever holds the lock and for however long.
CloseSettles ==
  \A c \in Closers : closer[c] = "waiting" ~> closer[c] = "ended"

\* DurableSessionStore._upsert_locked, "a session never reopens": a close that ended, with its answer or with the
\* error of its summary, has left the record closed, and no late persist of an action, a download or the create
\* itself, no other close and no later start turns it.
CloseIsRecorded == \A s \in shut : record[s] = "closed"

\* What _close's comment says a second close must not do ("wrote a second close to the audit log and witness chain").
ClosedOnce ==
  \A c, d \in Closers : closer[c] \in PastCheck /\ closer[d] \in PastCheck /\ closes[c] = closes[d] => c = d

\* A session that is gone, with nobody at work on it, has no tunnel left running.
NoTunnelLeft ==
  \A s \in Sessions :
    (/\ s \notin live
     /\ create[s] \notin CreateSteps
     /\ \A c \in Closers : closes[c] = s => closer[c] \notin CloseSteps)
       => s \notin tunnels

\* What create's handler says of itself ("a cancelled create [...] also closes the context"): false of a context whose
\* create was cancelled while it was being opened.
NoStray == \A s \in Sessions : create[s] = "failed" => s \notin strays

-----------------------------------------------------------------------------
(* The inductive invariant of the theorems (SessionLifecycle_proofs).      *)

\* A place reserved is that of a create before its registration, or of the rollback of one.
PlacesAreHeld ==
  \A s \in Sessions :
    /\ create[s] = "opening" => s \in reserved
    /\ s \in reserved => create[s] \in {"opening", "failing", "undoing", "forgetting"}

\* What a session has, by how far its create is: the rollback has taken it by the time it ends.
CreatesHave ==
  \A s \in Sessions :
    /\ s \in live => create[s] \in {"registered", "loading", "tunnelling", "recording", "saving", "failing", "made"}
    /\ s \in open => create[s] \notin {"none", "checked", "over", "forgetting", "failed"}
    /\ s \in tunnels => create[s] \in {"recording", "saving", "failing", "undoing", "made"}

\* A close at work has a session, and one whose summary failed has written its record.
ClosesHave ==
  \A c \in Closers :
    /\ closer[c] \in CloseSteps => closes[c] \in Sessions
    /\ closer[c] = "unsummed" => record[closes[c]] = "closed"

IInv ==
  /\ TypeOK
  /\ IsFiniteSet(live) /\ IsFiniteSet(reserved)
  /\ PlacesAreHeld
  /\ CreatesHave
  /\ ClosesHave
  /\ LimitHolds
  /\ CloseIsRecorded
=============================================================================
