---------------------------- MODULE RequestGates ----------------------------
(***************************************************************************)
(* The pre-request gate of the shared browser: how it is attached, lost,   *)
(* replaced and contained (src/controller/app/browser/request_gate.py,     *)
(* request_gates.py, services/runtime.py), and the steps of a session's    *)
(* create and close that meet it (services/session_creation.py,            *)
(* services/sessions.py).                                                  *)
(*                                                                         *)
(* A gate is a CDP session of its own and can end at any time.  Sessions   *)
(* are created, closed, rolled back and contained meanwhile, and an        *)
(* operator may swap the browser (cdp_attach).  A browser is a generation: *)
(* one that disconnected is never used again.  What a page requests is not *)
(* here, nor are isolated sessions, which have a browser each.             *)
(***************************************************************************)
EXTENDS Naturals, FiniteSets

CONSTANTS
  Sessions,
  GatesMax,       \* bound: gates attached; past it every attach fails
  BrowsersMax,    \* bound: browsers connected to
  LossWhileEnding \* whether a gate may end on its own while its browser is being closed

ASSUME GatesAssumption == GatesMax \in Nat /\ BrowsersMax \in Nat \ {0} /\ LossWhileEnding \in BOOLEAN

Gates == 1..GatesMax
NoGate == 0

VARIABLES
  browser,     \* manager.browser, by generation
  connected,   \* whether it is still connected
  swap,        \* cdp_attach: "idle", or "connecting" and then "closing" the one before, the browser lock held
  registered,  \* RequestGates._gates: the browser's gate, NoGate if none
  made,        \* gates attached, or tried, so far
  gate,        \* each gate: [state, deliberate, dict]; dict names the _owned it shares
  owned,       \* each _owned dict: the sessions whose context it holds
  create,      \* each session's create: its step, the gate and the browser it got, whether it registered
  context,     \* each session's browser context: "none", "open", "closed"
  listed,      \* manager.sessions
  contain      \* each gate's containment: [at, todo, failed]

vars == <<browser, connected, swap, registered, made, gate, owned, create, context, listed, contain>>
gateVars == <<registered, made, gate>>
browserVars == <<browser, connected, swap>>

\* The first browser's gate attached when it was connected to, or did not.
Init ==
  /\ browser = 1 /\ connected = TRUE
  /\ swap = "idle"
  /\ made \in {0, 1} /\ made <= GatesMax /\ registered = made
  /\ gate = [g \in Gates |-> [state |-> IF g = made THEN "live" ELSE "none", deliberate |-> FALSE, dict |-> g]]
  /\ owned = [g \in Gates |-> {}]
  /\ create = [s \in Sessions |-> [at |-> "none", gate |-> NoGate, browser |-> 0, registered |-> FALSE]]
  /\ context = [s \in Sessions |-> "none"]
  /\ listed = {}
  /\ contain = [g \in Gates |-> [at |-> "none", todo |-> {}, failed |-> {}]]

Live(g) == g # NoGate /\ gate[g].state = "live"

LockFree == \A g \in Gates : gate[g].state # "attaching"
Here(s) == connected /\ create[s].browser = browser
Owns(g, s) == s \in owned[gate[g].dict]
At(s, step) == [create EXCEPT ![s].at = step]

-----------------------------------------------------------------------------
(* A gate: RequestGates.require under its lock, RequestGate.attach.        *)

\* A fault: a replacement starts with nothing owned.
OwnDict(g) == g

\* A replacement shares what the registered gate owned.
DictOf(g) == IF registered = NoGate THEN g ELSE gate[registered].dict

\* require finds no live gate: it starts one.
StartAttach ==
  /\ made < GatesMax
  /\ made' = made + 1
  /\ gate' = [gate EXCEPT ![made + 1] = [state |-> "attaching", deliberate |-> FALSE,
                                         dict |-> DictOf(made + 1)]]
  /\ registered' = registered

Attaching == made # 0 /\ gate[made].state = "attaching"

AttachDone ==
  /\ Attaching
  /\ gate' = [gate EXCEPT ![made].state = "live"]
  /\ registered' = made
  /\ made' = made

\* It timed out, raised, or its session closed while it attached: the one before stays registered.
AttachFails ==
  /\ Attaching
  /\ gate' = [gate EXCEPT ![made].state = "detached"]
  /\ UNCHANGED <<registered, made>>

\* What every gate of a browser that ends comes to.
Ended(after) ==
  [g \in Gates |-> IF gate[g].state = "live" THEN [gate[g] EXCEPT !.state = after] ELSE gate[g]]

\* A browser connected to gets its gate before it is anyone's (request_gates.attach); an attach that fails is logged.
\* The gate of the one before, if it is still attached, is released on purpose.
AttachNew ==
  \/ /\ made < GatesMax
     /\ made' = made + 1 /\ registered' = made + 1
     /\ gate' = [Ended("detached") EXCEPT ![made + 1] = [state |-> "live", deliberate |-> FALSE, dict |-> made + 1]]
  \/ /\ made' = made /\ registered' = NoGate
     /\ gate' = Ended("detached")

\* _on_close of a live gate nobody ends on purpose: gate_lost spawns its containment.
Spawned(g) == IF gate[g].deliberate THEN contain ELSE [contain EXCEPT ![g].at = "spawned"]

LoseGate(g) ==
  /\ connected
  /\ gate[g].state = "live"
  /\ LossWhileEnding \/ \A h \in Gates : contain[h].at # "disconnecting"
  /\ gate' = [gate EXCEPT ![g].state = "lost"]
  /\ contain' = Spawned(g)
  /\ UNCHANGED <<browserVars, registered, made, owned, create, context, listed>>

\* Its contexts close with a browser, and each close is heard (forget_context).
ContextsGone ==
  /\ context' = [s \in Sessions |-> IF Here(s) /\ context[s] = "open" THEN "closed" ELSE context[s]]
  /\ owned' = [d \in Gates |-> owned[d] \ {s \in Sessions : Here(s) /\ context[s] = "open"}]

\* The browser disconnects on its own; its gate's containment will find nothing to contain.
BrowserDies ==
  /\ connected
  /\ connected' = FALSE
  /\ ContextsGone
  /\ gate' = Ended("lost")
  /\ contain' = IF Live(registered) THEN Spawned(registered) ELSE contain
  /\ UNCHANGED <<browser, swap, registered, made, create, listed>>

-----------------------------------------------------------------------------
(* create_session.                                                         *)

Reserve(s) ==
  /\ create[s].at = "none"
  /\ create' = At(s, "reserved")
  /\ UNCHANGED <<browserVars, gateVars, owned, context, listed, contain>>

\* ensure_browser under the browser lock: a disconnected one is released and another connected.
AcquireBrowser(s) ==
  /\ create[s].at = "reserved"
  /\ swap = "idle"
  /\ \/ /\ connected
        /\ create' = [create EXCEPT ![s].at = "acquired", ![s].browser = browser]
        /\ UNCHANGED <<browser, connected, gateVars>>
     \/ /\ ~connected /\ browser < BrowsersMax
        /\ LockFree
        /\ browser' = browser + 1 /\ connected' = TRUE
        /\ AttachNew
        /\ create' = [create EXCEPT ![s].at = "acquired", ![s].browser = browser + 1]
  /\ UNCHANGED <<swap, owned, context, listed, contain>>

\* The browser cannot be had.
AcquireFails(s) ==
  /\ create[s].at = "reserved"
  /\ swap = "idle"
  /\ ~connected
  /\ create' = At(s, "failed")
  /\ UNCHANGED <<browserVars, gateVars, owned, context, listed, contain>>

RequireGate(s) ==
  /\ create[s].at = "acquired"
  /\ LockFree
  /\ \/ /\ Here(s) /\ Live(registered)
        /\ create' = [create EXCEPT ![s].at = "gated", ![s].gate = registered]
        /\ UNCHANGED gateVars
     \/ /\ Here(s) /\ ~Live(registered)
        /\ StartAttach
        /\ create' = At(s, "attaching")
     \/ /\ ~Here(s) \/ (made = GatesMax /\ ~Live(registered))
        /\ create' = At(s, "failed")
        /\ UNCHANGED gateVars
  /\ UNCHANGED <<browserVars, owned, context, listed, contain>>

CreateAttached(s) ==
  /\ create[s].at = "attaching"
  /\ \/ /\ Here(s)
        /\ AttachDone
        /\ create' = [create EXCEPT ![s].at = "gated", ![s].gate = made]
     \/ /\ AttachFails
        /\ create' = At(s, "failed")
  /\ UNCHANGED <<browserVars, owned, context, listed, contain>>

OpenContext(s) ==
  /\ create[s].at = "gated"
  /\ \/ /\ Here(s)
        /\ context' = [context EXCEPT ![s] = "open"]
        /\ create' = At(s, "opened")
     \/ /\ create' = At(s, "failed")
        /\ UNCHANGED context
  /\ UNCHANGED <<browserVars, gateVars, owned, listed, contain>>

\* register_context, which a gate that is not live refuses.
RegisterContext(s) ==
  /\ create[s].at = "opened"
  /\ Live(create[s].gate)
  /\ Here(s)
  /\ owned' = [owned EXCEPT ![gate[create[s].gate].dict] = @ \union {s}]
  /\ create' = [create EXCEPT ![s].at = "owned", ![s].registered = TRUE]
  /\ UNCHANGED <<browserVars, gateVars, context, listed, contain>>

ListSession(s) ==
  /\ create[s].at = "owned"
  /\ listed' = listed \union {s}
  /\ create' = At(s, "listed")
  /\ UNCHANGED <<browserVars, gateVars, owned, context, contain>>

\* A fault: the session is handed out whatever became of its gate.
HandOutAnyway(s) ==
  /\ create[s].at = "listed"
  /\ create' = At(s, "active")
  /\ UNCHANGED <<browserVars, gateVars, owned, context, listed, contain>>

\* The gate the create registered with is still live: the session is handed out.
HandOut(s) ==
  /\ create[s].at = "listed"
  /\ Live(create[s].gate)
  /\ create' = At(s, "active")
  /\ UNCHANGED <<browserVars, gateVars, owned, context, listed, contain>>

\* A context.close() that works is heard and its context forgotten; one that fails or times out
\* leaves the context open and owned.
CloseContext(s) ==
  \/ /\ context[s] = "open"
     /\ context' = [context EXCEPT ![s] = "closed"]
     /\ owned' = [d \in Gates |-> owned[d] \ {s}]
  \/ UNCHANGED <<context, owned>>

\* cleanup_failed: a step failed, the create was cancelled, or its gate was lost.
RollBack(s) ==
  /\ create[s].at \in {"opened", "owned", "listed"}
  /\ create' = At(s, "failed")
  /\ listed' = listed \ {s}
  /\ CloseContext(s)
  /\ UNCHANGED <<browserVars, gateVars, contain>>

\* close_session by a caller.
Close(s) ==
  /\ s \in listed /\ create[s].at = "active"
  /\ listed' = listed \ {s}
  /\ CloseContext(s)
  /\ UNCHANGED <<browserVars, gateVars, create, contain>>

-----------------------------------------------------------------------------
(* _contain_lost_gate.                                                     *)

\* The sessions on the lost gate's browser, at the moment the task first runs.
ToClose(g) == {s \in listed : create[s].browser = browser}

OnBrowser(g) == connected /\ registered # NoGate /\ gate[registered].dict = gate[g].dict

ContainBegin(g) ==
  /\ contain[g].at = "spawned"
  /\ contain' = IF OnBrowser(g)
                THEN [contain EXCEPT ![g] = [at |-> "require", todo |-> ToClose(g), failed |-> {}]]
                ELSE [contain EXCEPT ![g].at = "done"]
  /\ UNCHANGED <<browserVars, gateVars, owned, create, context, listed>>

\* _reattach, before any close: found live, started, or not to be had.
ContainRequire(g) ==
  /\ contain[g].at = "require"
  /\ LockFree
  /\ \/ /\ OnBrowser(g) /\ ~Live(registered)
        /\ StartAttach
        /\ contain' = [contain EXCEPT ![g].at = "attaching"]
     \/ /\ ~OnBrowser(g) \/ Live(registered) \/ made = GatesMax
        /\ contain' = [contain EXCEPT ![g].at = "closing"]
        /\ UNCHANGED gateVars
  /\ UNCHANGED <<browserVars, owned, create, context, listed>>

ContainAttached(g) ==
  /\ contain[g].at = "attaching"
  /\ (OnBrowser(g) /\ AttachDone) \/ AttachFails
  /\ contain' = [contain EXCEPT ![g].at = "closing"]
  /\ UNCHANGED <<browserVars, owned, create, context, listed>>

\* close_session, or SessionNotFoundError when its caller closed it first; a context still owned
\* did not close, and a close that raises counts as failed whatever it closed.
ContainClose(g, s) ==
  /\ contain[g].at = "closing"
  /\ s \in contain[g].todo
  /\ IF s \in listed THEN CloseContext(s) ELSE UNCHANGED <<context, owned>>
  /\ listed' = listed \ {s}
  /\ \E raised \in BOOLEAN :
       /\ raised => s \in listed
       /\ contain' = [contain EXCEPT ![g].todo = @ \ {s},
                                     ![g].failed = IF raised \/ s \in owned'[gate[g].dict] THEN @ \union {s} ELSE @]
  /\ UNCHANGED <<browserVars, gateVars, create>>

Ending(on) ==
  IF registered = NoGate THEN UNCHANGED gate
  ELSE gate' = [gate EXCEPT ![registered].deliberate = on]

\* _end_survivors: with nothing failed it is over; otherwise the browser is about to be disconnected.
ContainEnd(g) ==
  /\ contain[g].at = "closing"
  /\ contain[g].todo = {}
  /\ \/ /\ contain[g].failed = {} \/ ~OnBrowser(g)
        /\ contain' = [contain EXCEPT ![g].at = "done"]
        /\ UNCHANGED gate
     \/ /\ contain[g].failed # {} /\ OnBrowser(g)
        /\ contain' = [contain EXCEPT ![g].at = "disconnecting"]
        /\ Ending(TRUE)
  /\ UNCHANGED <<browserVars, registered, made, owned, create, context, listed>>

Disconnect(g) ==
  /\ contain[g].at = "disconnecting"
  /\ IF OnBrowser(g)
     THEN /\ connected' = FALSE
          /\ contain' = [IF Live(registered) THEN Spawned(registered) ELSE contain EXCEPT ![g].at = "done"]
          /\ gate' = Ended("detached")
          /\ registered' = NoGate
          /\ ContextsGone
     ELSE /\ contain' = [contain EXCEPT ![g].at = "done"]
          /\ UNCHANGED <<connected, gate, registered, context, owned>>
  /\ UNCHANGED <<browser, swap, made, create, listed>>

\* A fault: the gate is not told that its browser goes on.
DisconnectFailsUntold(g) ==
  /\ contain[g].at = "disconnecting"
  /\ OnBrowser(g)
  /\ contain' = [contain EXCEPT ![g].at = "done"]
  /\ UNCHANGED <<browserVars, gateVars, owned, create, context, listed>>

DisconnectFails(g) ==
  /\ contain[g].at = "disconnecting"
  /\ OnBrowser(g)
  /\ contain' = [contain EXCEPT ![g].at = "done"]
  /\ Ending(FALSE)
  /\ UNCHANGED <<browserVars, registered, made, owned, create, context, listed>>

-----------------------------------------------------------------------------
(* cdp_attach.                                                             *)

\* A fault: only the sessions that have started are counted.
ListedInUse == listed

\* _sessions_on_shared_browser: those that have started, and every create still on its way.
InUse ==
  listed
    \union {s \in Sessions : create[s].at \in {"reserved", "acquired", "attaching", "gated", "opened", "owned"}}

SwapBegin ==
  /\ swap = "idle"
  /\ InUse = {}
  /\ browser < BrowsersMax
  /\ swap' = "connecting"
  /\ UNCHANGED <<browser, connected, gateVars, owned, create, context, listed, contain>>

SwapFails ==
  /\ swap = "connecting"
  /\ swap' = "idle"
  /\ UNCHANGED <<browser, connected, gateVars, owned, create, context, listed, contain>>

\* The new browser is connected, its gate attached, and the old one's gate released: nobody is on that one, so a loss of
\* its gate meanwhile has nothing to contain.
SwapEnd ==
  /\ swap = "connecting"
  /\ LockFree
  /\ swap' = "closing"
  /\ browser' = browser + 1 /\ connected' = TRUE
  /\ AttachNew
  /\ UNCHANGED <<owned, create, context, listed, contain>>

\* _close_previous_browser: what a close or a rollback had left open there goes with it, unless its close fails.
ClosePrevious ==
  LET left == {s \in Sessions : create[s].browser = browser - 1 /\ context[s] = "open"}
  IN /\ swap = "closing"
     /\ swap' = "idle"
     /\ \/ /\ context' = [s \in Sessions |-> IF s \in left THEN "closed" ELSE context[s]]
           /\ owned' = [d \in Gates |-> owned[d] \ left]
        \/ UNCHANGED <<context, owned>>
     /\ UNCHANGED <<browser, connected, gateVars, create, listed, contain>>

-----------------------------------------------------------------------------
Creating(s) ==
  \/ Reserve(s) \/ AcquireBrowser(s) \/ AcquireFails(s) \/ RequireGate(s) \/ CreateAttached(s)
  \/ OpenContext(s) \/ RegisterContext(s) \/ ListSession(s) \/ HandOut(s) \/ RollBack(s)

Containing(g) ==
  \/ ContainBegin(g) \/ ContainRequire(g) \/ ContainAttached(g)
  \/ (\E s \in Sessions : ContainClose(g, s))
  \/ ContainEnd(g) \/ Disconnect(g) \/ DisconnectFails(g)

Next ==
  \/ \E s \in Sessions : Creating(s) \/ Close(s)
  \/ \E g \in Gates : LoseGate(g) \/ Containing(g)
  \/ BrowserDies
  \/ SwapBegin \/ SwapFails \/ SwapEnd \/ ClosePrevious

Spec == Init /\ [][Next]_vars

\* A spawned task runs, an attach and each of its closes are bounded by their timeouts.
Fairness ==
  /\ \A g \in Gates : WF_vars(Containing(g))
  /\ \A s \in Sessions : WF_vars(CreateAttached(s))

FairSpec == Spec /\ Fairness

-----------------------------------------------------------------------------
TypeOK ==
  /\ browser \in 1..BrowsersMax /\ connected \in BOOLEAN
  /\ swap \in {"idle", "connecting", "closing"}
  /\ made \in 0..GatesMax /\ registered \in 0..made
  /\ gate \in [Gates -> [state : {"none", "attaching", "live", "lost", "detached"},
                         deliberate : BOOLEAN, dict : Gates]]
  /\ owned \in [Gates -> SUBSET Sessions]
  /\ create \in [Sessions -> [at : {"none", "reserved", "acquired", "attaching", "gated", "opened", "owned",
                                  "listed", "active", "failed"},
                              gate : 0..made, browser : 0..browser, registered : BOOLEAN]]
  /\ context \in [Sessions -> {"none", "open", "closed"}]
  /\ listed \subseteq {s \in Sessions : create[s].at \in {"listed", "active"}}
  /\ contain \in [Gates -> [at : {"none", "spawned", "require", "attaching", "closing", "disconnecting", "done"},
                            todo : SUBSET Sessions, failed : SUBSET Sessions]]
  \* Gates are attached one at a time, and only the registered one is live.
  /\ \A g \in Gates : gate[g].state = "attaching" => g = made
  /\ \A g \in Gates : gate[g].state = "live" => g = registered

\* A session its caller has, on a browser that still runs, whose gate ended on its own.
Ungated(s) ==
  /\ create[s].at = "active" /\ s \in listed /\ Here(s)
  /\ gate[create[s].gate].state = "lost"

\* At every moment some containment answers for an ungated session: not yet begun, so it will list it,
\* or with it still to close (request_gate.py _on_close, runtime.py _contain_lost_gate; the last look
\* at the gate in create is what keeps a session that was starting from falling between).
LostIsWatched ==
  \A s \in Sessions : Ungated(s) =>
    \E g \in Gates : contain[g].at = "spawned" \/ s \in contain[g].todo

\* Whatever context a create registered is gated by the browser's registered gate for as long as it is
\* open: through losses, replacements, and closes that failed (inherit_from, forget_context).
OpenIsOwned ==
  \A s \in Sessions :
    context[s] = "open" /\ create[s].registered /\ Here(s) /\ registered # NoGate
      => s \in owned[gate[registered].dict]

\* "If the gate detaches on its own, the controller attaches a replacement, then closes every session on
\* that browser" (docs/deployment.md:690): an ungated session is closed, or its browser ends.
LossIsContained == \A s \in Sessions : Ungated(s) ~> ~Ungated(s)

\* cdp_attach never ends a session: when it replaces the browser, none that is listed, or has got the
\* old browser and is still on its way, is left on it (runtime.py cdp_attach, ensure_browser).
SwapEndsNoSession ==
  [][swap = "connecting" /\ browser' # browser =>
       \A s \in Sessions : create[s].browser = browser =>
         s \notin listed /\ create[s].at \in {"listed", "active", "failed"}]_vars

-----------------------------------------------------------------------------
(* The inductive invariant of the theorems (RequestGates_proofs).          *)

\* The gates' lock: whoever awaits an attach holds it, and one is under way.
OneAttach ==
  /\ \A s, r \in Sessions : create[s].at = "attaching" /\ create[r].at = "attaching" => s = r
  /\ \A g, h \in Gates : contain[g].at = "attaching" /\ contain[h].at = "attaching" => g = h
  /\ \A s \in Sessions, g \in Gates : ~(create[s].at = "attaching" /\ contain[g].at = "attaching")
  /\ (\E s \in Sessions : create[s].at = "attaching") \/ (\E g \in Gates : contain[g].at = "attaching")
       => Attaching

\* A replacement is attached where no gate is live, and for the contexts of the one it replaces.
AttachSound ==
  /\ Attaching => /\ \A g \in Gates : gate[g].state # "live"
                  /\ ~gate[made].deliberate /\ registered # made
  /\ \A s \in Sessions : create[s].at = "attaching" /\ Here(s) /\ registered # NoGate
                           => gate[made].dict = gate[registered].dict
  /\ \A g \in Gates : contain[g].at = "attaching" => gate[made].dict = gate[g].dict

\* A live gate's browser is connected, and if its end is meant, someone is about to end it.
LiveSound ==
  \A g \in Gates : gate[g].state = "live" =>
    /\ connected
    /\ gate[g].deliberate =>
         \E h \in Gates : contain[h].at = "disconnecting" /\ gate[h].dict = gate[g].dict

\* A create that got its gate goes on with whichever gate its browser has after it.
CreateSound(s) ==
  /\ create[s].at \in {"none", "reserved"} => create[s].browser = 0
  /\ create[s].registered => create[s].at \in {"owned", "listed", "active", "failed"}
  /\ create[s].at \in {"gated", "opened", "owned", "listed", "active"} \/ create[s].registered =>
       /\ create[s].gate # NoGate
       /\ Here(s) => registered # NoGate /\ gate[registered].dict = gate[create[s].gate].dict

\* While the browser is swapped, nobody has the old one.
SwapSound ==
  swap = "connecting" =>
    /\ browser < BrowsersMax
    /\ \A s \in Sessions : create[s].browser = browser =>
         s \notin listed /\ create[s].at \in {"listed", "active", "failed"}

\* LostIsWatched, by a containment that will find itself on the session's browser.
Watched(s) ==
  Ungated(s) => \E g \in Gates : /\ contain[g].at = "spawned" \/ s \in contain[g].todo
                                 /\ gate[g].dict = gate[create[s].gate].dict

IInv ==
  /\ TypeOK /\ OneAttach /\ AttachSound /\ LiveSound /\ SwapSound /\ OpenIsOwned
  /\ \A s \in Sessions : CreateSound(s)
  /\ ~LossWhileEnding => \A s \in Sessions : Watched(s)
=============================================================================
