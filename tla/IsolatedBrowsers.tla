-------------------------- MODULE IsolatedBrowsers --------------------------
(***************************************************************************)
(* The containers, networks and directories of isolated sessions           *)
(* (src/controller/app/session_isolation.py, docker_ephemeral mode with a  *)
(* network per session, ISOLATED_BROWSER_KEEP_CONTAINERS off), and the     *)
(* create and close that provision and release them.                       *)
(*                                                                         *)
(* Both run in worker threads that a cancellation of their caller stops    *)
(* only while they are queued; every call to the Docker daemon may fail,   *)
(* one that creates or joins something after it has done so.  A controller *)
(* that dies, in a sweep of its start too, leaves everything on the        *)
(* daemon, its own place on the networks included when its container is    *)
(* restarted, and the next start sweeps it.                                *)
(***************************************************************************)
EXTENDS Naturals, FiniteSets

CONSTANTS
  Sessions,
  Subnets,    \* the daemon's address pool
  CrashesMax  \* bound: controller deaths

NoNet == "no network"

ASSUME IsolationAssumption == CrashesMax \in Nat /\ NoNet \notin Subnets

VARIABLES
  container,  \* each session's container: "none", "up", or "apart": up, and off its network
  network,    \* each session's network: its subnet, NoNet if there is none
  attached,   \* the networks the controller's container is on
  dirs,       \* the sessions whose profile and downloads directories exist
  tracked,    \* _session_subnets
  job,        \* each session's worker thread: its step, whether it has a network, a container problem
  owner,      \* each session: "none", "creating", "live", "releasing", "over"
  phase,      \* the controller: "up", or the part of startup it is in
  crashes,
  failed,     \* history: the sessions one of whose daemon calls, or whose last mkdir, failed
  cut,        \* history: the sessions whose create was cancelled while its thread provisioned
  unlisted    \* history: the networks there were when a start could not list them

vars == <<container, network, attached, dirs, tracked, job, owner, phase, crashes, failed, cut, unlisted>>
daemonVars == <<container, network, attached>>
runVars == <<phase, crashes, unlisted>>

Idle == [at |-> "idle", net |-> FALSE, problem |-> FALSE]

Init ==
  /\ container = [s \in Sessions |-> "none"]
  /\ network = [s \in Sessions |-> NoNet]
  /\ attached = {}
  /\ dirs = {}
  /\ tracked = [s \in Sessions |-> NoNet]
  /\ job = [s \in Sessions |-> Idle]
  /\ owner = [s \in Sessions |-> "none"]
  /\ phase = "up" /\ crashes = 0
  /\ failed = {} /\ cut = {} /\ unlisted = {}

At(s, step) == phase = "up" /\ job[s].at = step
Go(s, step) == job' = [job EXCEPT ![s].at = step]
Fails(s) == failed' = failed \union {s}
Free == {n \in Subnets : \A s \in Sessions : network[s] # n}
\* Nothing holds an endpoint on the session's network.
Removable(s) == s \notin attached /\ container[s] # "up"
Forgotten(s) == [tracked EXCEPT ![s] = NoNet]

-----------------------------------------------------------------------------
(* _provision_container_sync.                                              *)

Provision(s) ==
  /\ phase = "up" /\ owner[s] = "none"
  /\ owner' = [owner EXCEPT ![s] = "creating"]
  /\ Go(s, "dirs")
  /\ UNCHANGED <<daemonVars, dirs, tracked, runVars, failed, cut>>

\* The thread is over, and so is the create that awaits it, if it still does.
ThreadEnds(s) ==
  /\ job' = [job EXCEPT ![s] = Idle]
  /\ owner' = [owner EXCEPT ![s] = "over"]

\* A thread still queued is cancelled with its create, and never runs.
CancelQueued(s) ==
  /\ At(s, "dirs") /\ owner[s] = "creating"
  /\ ThreadEnds(s)
  /\ UNCHANGED <<daemonVars, dirs, tracked, runVars, failed, cut>>

\* What comes before the try is not undone: a second mkdir that fails leaves the directory of the first.
MakeDirs(s) ==
  /\ At(s, "dirs")
  /\ \/ dirs' = dirs \union {s} /\ Go(s, "network") /\ UNCHANGED <<owner, failed>>
     \/ UNCHANGED <<dirs, failed>> /\ ThreadEnds(s)
     \/ dirs' = dirs \union {s} /\ ThreadEnds(s) /\ Fails(s)
  /\ UNCHANGED <<daemonVars, tracked, runVars, cut>>

\* Its network is created; or the pool is exhausted; or the answer is lost.
CreateNetwork(s) ==
  /\ At(s, "network")
  /\ \/ \E n \in Free :
          /\ network' = [network EXCEPT ![s] = n]
          /\ \/ job' = [job EXCEPT ![s].at = "track", ![s].net = TRUE] /\ UNCHANGED failed
             \/ Go(s, "undo container") /\ Fails(s)
     \/ Go(s, "undo container") /\ UNCHANGED <<network, failed>>
  /\ UNCHANGED <<container, attached, dirs, tracked, owner, runVars, cut>>

\* A fault: an entry for the same subnet is not dropped.
TrackOnly(s) ==
  /\ At(s, "track")
  /\ tracked' = [tracked EXCEPT ![s] = network[s]]
  /\ Go(s, "join")
  /\ UNCHANGED <<daemonVars, dirs, owner, runVars, failed, cut>>

\* Docker hands a subnet out again once its network is gone: another entry for it is stale.  A network
\* that reports no subnet is refused.
Track(s) ==
  /\ At(s, "track")
  /\ \/ /\ tracked' = [r \in Sessions |-> IF r = s THEN network[s]
                                       ELSE IF tracked[r] = network[s] THEN NoNet ELSE tracked[r]]
        /\ Go(s, "join")
     \/ Go(s, "undo container") /\ UNCHANGED tracked
  /\ UNCHANGED <<daemonVars, dirs, owner, runVars, failed, cut>>

Join(s) ==
  /\ At(s, "join")
  /\ \/ attached' = attached \union {s} /\ Go(s, "run") /\ UNCHANGED failed
     \/ attached' \in {attached, attached \union {s}} /\ Go(s, "undo container") /\ Fails(s)
  /\ UNCHANGED <<container, network, dirs, tracked, owner, runVars, cut>>

\* containers.run, a create and a start.
Run(s) ==
  /\ At(s, "run")
  /\ \/ container' = [container EXCEPT ![s] = "up"] /\ Go(s, "ready") /\ UNCHANGED failed
     \/ /\ container' \in {container, [container EXCEPT ![s] = "up"]}
        /\ Go(s, "undo container") /\ Fails(s)
  /\ UNCHANGED <<network, attached, dirs, tracked, owner, runVars, cut>>

\* The rollback: the container is looked up and removed, or it may still be there.
UndoContainer(s) ==
  /\ At(s, "undo container")
  /\ \/ /\ container' = [container EXCEPT ![s] = "none"]
        /\ Go(s, "undo network") /\ UNCHANGED failed
     \/ /\ job' = [job EXCEPT ![s].at = "undo network", ![s].problem = TRUE]
        /\ Fails(s) /\ UNCHANGED container
  /\ UNCHANGED <<network, attached, dirs, tracked, owner, runVars, cut>>

\* A fault: the controller is taken off the network in its own books whatever the daemon says.
LeaveAnyway(s) ==
  /\ attached' \in {attached, attached \ {s}}
  /\ tracked' = Forgotten(s)
  /\ IF s \in attached' THEN Fails(s) ELSE UNCHANGED failed

\* The controller is disconnected, and forgets the subnet; or it may still be on the network.
Leave(s) ==
  \/ attached' = attached \ {s} /\ tracked' = Forgotten(s) /\ UNCHANGED failed
  \/ UNCHANGED <<attached, tracked>> /\ Fails(s)

\* _remove_session_network: leave, then remove, which a leftover endpoint stops.
LeaveNetwork(s, next) ==
  /\ Leave(s)
  /\ Go(s, next)
  /\ UNCHANGED <<container, network, dirs, owner, runVars, cut>>

RemoveNetwork(s, next) ==
  /\ \/ /\ Removable(s)
        /\ network' = [network EXCEPT ![s] = NoNet]
        /\ tracked' = Forgotten(s)
        /\ UNCHANGED failed
     \/ Fails(s) /\ UNCHANGED <<network, tracked>>
  /\ Go(s, next)
  /\ UNCHANGED <<container, attached, dirs, owner, runVars, cut>>

UndoNetwork(s) ==
  /\ At(s, "undo network")
  /\ IF job[s].net THEN LeaveNetwork(s, "undo network removal")
     ELSE Go(s, "undo dirs") /\ UNCHANGED <<daemonVars, dirs, tracked, owner, runVars, failed, cut>>

UndoNetworkRemoval(s) ==
  /\ At(s, "undo network removal")
  /\ RemoveNetwork(s, "undo dirs")

\* A fault: the directories are removed under whatever container there is.
RemoveDirsAnyway(s) ==
  \/ dirs' = dirs \ {s} /\ UNCHANGED failed
  \/ UNCHANGED dirs /\ Fails(s)

\* Emptied and removed, unless a container may have them mounted; what cannot be removed stays.
RemoveDirs(s) ==
  \/ ~job[s].problem /\ dirs' = dirs \ {s} /\ UNCHANGED failed
  \/ UNCHANGED dirs /\ Fails(s)

UndoDirs(s) ==
  /\ At(s, "undo dirs")
  /\ RemoveDirs(s)
  /\ ThreadEnds(s)
  /\ UNCHANGED <<daemonVars, tracked, runVars, cut>>

-----------------------------------------------------------------------------
(* provision, the rest of it, and the session.                             *)

\* The thread's result has nobody to go to once its create was cancelled.
Abandoned(s) ==
  /\ At(s, "ready") /\ s \in cut
  /\ ThreadEnds(s)
  /\ UNCHANGED <<daemonVars, dirs, tracked, runVars, failed, cut>>

\* The endpoint appears, the controller connects, and the session is live.
Ready(s) ==
  /\ At(s, "ready") /\ owner[s] = "creating" /\ s \notin cut
  /\ owner' = [owner EXCEPT ![s] = "live"]
  /\ job' = [job EXCEPT ![s] = Idle]
  /\ UNCHANGED <<daemonVars, dirs, tracked, runVars, failed, cut>>

\* A fault: only an error of the wait is handled, and a cancelled one releases nothing.
GiveUpUnreleased(s) ==
  /\ At(s, "ready") /\ owner[s] = "creating" /\ s \notin cut
  /\ ThreadEnds(s)
  /\ UNCHANGED <<daemonVars, dirs, tracked, runVars, failed, cut>>

\* It does not, or the create is cancelled or fails later: released by provision, by
\* acquire_session_browser or by the create's rollback.
GiveUp(s) ==
  /\ At(s, "ready") /\ owner[s] = "creating" /\ s \notin cut
  /\ owner' = [owner EXCEPT ![s] = "releasing"]
  /\ Go(s, "release container")
  /\ UNCHANGED <<daemonVars, dirs, tracked, runVars, failed, cut>>

\* The create is cancelled while its thread runs, which goes on.
CancelCreate(s) ==
  /\ phase = "up" /\ owner[s] = "creating"
  /\ job[s].at # "ready"
  /\ owner' = [owner EXCEPT ![s] = "over"]
  /\ cut' = cut \union {s}
  /\ UNCHANGED <<daemonVars, dirs, tracked, job, runVars, failed>>

\* close_session comes to the runtime.
Release(s) ==
  /\ phase = "up" /\ owner[s] = "live"
  /\ owner' = [owner EXCEPT ![s] = "releasing"]
  /\ Go(s, "release container")
  /\ UNCHANGED <<daemonVars, dirs, tracked, runVars, failed, cut>>

-----------------------------------------------------------------------------
(* _release_sync.                                                          *)

\* The lookup raises, which ends the release; or the container is removed, or cannot be.
ReleaseContainer(s) ==
  /\ At(s, "release container")
  /\ \/ ThreadEnds(s) /\ Fails(s) /\ UNCHANGED container
     \/ /\ container' = [container EXCEPT ![s] = "none"]
        /\ Go(s, "release lookup") /\ UNCHANGED <<owner, failed>>
     \/ /\ job' = [job EXCEPT ![s].at = "release lookup", ![s].problem = TRUE]
        /\ Fails(s) /\ UNCHANGED <<container, owner>>
  /\ UNCHANGED <<network, attached, dirs, tracked, runVars, cut>>

\* The network's lookup raises too; a container that could not be removed is taken off it.
ReleaseLookup(s) ==
  /\ At(s, "release lookup")
  /\ \/ ThreadEnds(s) /\ Fails(s) /\ UNCHANGED container
     \/ /\ Go(s, IF network[s] = NoNet THEN "release dirs" ELSE "release network")
        /\ IF job[s].problem
           THEN container' \in {container, [container EXCEPT ![s] = IF @ = "up" THEN "apart" ELSE @]}
           ELSE UNCHANGED container
        /\ UNCHANGED <<owner, failed>>
  /\ UNCHANGED <<network, attached, dirs, tracked, runVars, cut>>

ReleaseNetwork(s) ==
  /\ At(s, "release network")
  /\ LeaveNetwork(s, "release network removal")

ReleaseNetworkRemoval(s) ==
  /\ At(s, "release network removal")
  /\ RemoveNetwork(s, "release dirs")

ReleaseDirs(s) ==
  /\ At(s, "release dirs")
  /\ RemoveDirs(s)
  /\ ThreadEnds(s)
  /\ UNCHANGED <<daemonVars, tracked, runVars, cut>>

-----------------------------------------------------------------------------
(* The controller dies and starts, and what an operator does by hand.      *)

\* The process is gone with its threads and its subnets.  Its container is restarted, and is still on the
\* networks of on, or is a new one.
Dies(on) ==
  /\ crashes < CrashesMax
  /\ crashes' = crashes + 1
  /\ phase' = "sweeping containers"
  /\ attached' \in {on, {}}
  /\ tracked' = [s \in Sessions |-> NoNet]
  /\ job' = [s \in Sessions |-> Idle]
  /\ owner' = [s \in Sessions |-> IF owner[s] = "none" THEN "none" ELSE "over"]
  /\ UNCHANGED <<failed, cut, unlisted>>

Crash ==
  /\ phase = "up"
  /\ Dies(attached)
  /\ UNCHANGED <<container, network, dirs>>

\* Every container goes but those of kept, and then every directory but theirs and those of left.
ContainersSwept(kept, left) ==
  /\ kept \subseteq {s \in Sessions : container[s] # "none"}
  /\ container' = [s \in Sessions |-> IF s \in kept THEN container[s] ELSE "none"]
  /\ dirs' = dirs \intersect (kept \union left)

\* _reap_orphaned_containers: the list may fail, and then nothing is removed; some removals may.
SweepContainers ==
  /\ phase = "sweeping containers"
  /\ phase' = "sweeping networks"
  /\ \/ UNCHANGED <<container, dirs>> /\ failed' = failed \union Sessions
     \/ \E kept \in SUBSET Sessions, left \in SUBSET dirs :
          /\ ContainersSwept(kept, left)
          /\ failed' = failed \union kept \union left
  /\ UNCHANGED <<network, attached, tracked, job, owner, crashes, cut, unlisted>>

\* The controller dies with part of them removed.
CrashInContainers ==
  /\ phase = "sweeping containers"
  /\ \E kept \in SUBSET Sessions, left \in SUBSET dirs : ContainersSwept(kept, left)
  /\ Dies(attached)
  /\ UNCHANGED network

Networks == {s \in Sessions : network[s] # NoNet}

\* Every network is left but those of stay, where the controller is not or its disconnect raised, and removed
\* but those of kept.
NetworksSwept(stay, kept) ==
  /\ Networks \ attached \subseteq stay
  /\ {s \in Networks : s \in stay \intersect attached \/ container[s] = "up"} \subseteq kept
  /\ network' = [s \in Sessions |-> IF s \in kept THEN network[s] ELSE NoNet]

\* _reap_orphaned_networks: each one is tracked first, until it is left or removed; the list may fail.
SweepNetworks ==
  /\ phase = "sweeping networks"
  /\ phase' = "up"
  /\ \/ /\ unlisted' = unlisted \union Networks /\ failed' = failed \union Networks
        /\ UNCHANGED <<network, attached, tracked>>
     \/ \E stay, kept \in SUBSET Networks :
          /\ NetworksSwept(stay, kept)
          /\ attached' = attached \ (Networks \ stay)
          /\ tracked' = [s \in Sessions |-> IF s \in stay \intersect kept THEN network[s] ELSE NoNet]
          /\ failed' = failed \union kept
          /\ UNCHANGED unlisted
  /\ UNCHANGED <<container, dirs, job, owner, crashes, cut>>

\* The controller dies with part of them left or removed.
CrashInNetworks ==
  /\ phase = "sweeping networks"
  /\ \E stay, kept \in SUBSET Networks :
       NetworksSwept(stay, kept) /\ Dies(attached \ (Networks \ stay))
  /\ UNCHANGED <<container, dirs>>

\* docker network rm of a leftover.
RemovedByHand(s) ==
  /\ phase = "up" /\ owner[s] = "over" /\ job[s] = Idle
  /\ network[s] # NoNet /\ Removable(s)
  /\ network' = [network EXCEPT ![s] = NoNet]
  /\ UNCHANGED <<container, attached, dirs, tracked, job, owner, runVars, failed, cut>>

-----------------------------------------------------------------------------
Provisioning(s) ==
  \/ Provision(s) \/ CancelQueued(s) \/ MakeDirs(s) \/ CreateNetwork(s) \/ Track(s) \/ Join(s) \/ Run(s)
  \/ UndoContainer(s) \/ UndoNetwork(s) \/ UndoNetworkRemoval(s) \/ UndoDirs(s)
  \/ Abandoned(s) \/ Ready(s) \/ GiveUp(s) \/ CancelCreate(s)

Releasing(s) ==
  \/ Release(s) \/ ReleaseContainer(s) \/ ReleaseLookup(s) \/ ReleaseNetwork(s)
  \/ ReleaseNetworkRemoval(s) \/ ReleaseDirs(s)

Next ==
  \/ \E s \in Sessions : Provisioning(s) \/ Releasing(s) \/ RemovedByHand(s)
  \/ Crash \/ SweepContainers \/ CrashInContainers \/ SweepNetworks \/ CrashInNetworks

Spec == Init /\ [][Next]_vars

-----------------------------------------------------------------------------
Steps == {"idle", "dirs", "network", "track", "join", "run", "ready", "undo container", "undo network",
          "undo network removal", "undo dirs", "release container", "release lookup", "release network",
          "release network removal", "release dirs"}
Threads == [at : Steps, net : BOOLEAN, problem : BOOLEAN]

TypeOK ==
  /\ container \in [Sessions -> {"none", "up", "apart"}]
  /\ network \in [Sessions -> Subnets \union {NoNet}]
  /\ attached \subseteq Sessions
  /\ dirs \subseteq Sessions
  /\ tracked \in [Sessions -> Subnets \union {NoNet}]
  /\ job \in [Sessions -> Threads]
  /\ owner \in [Sessions -> {"none", "creating", "live", "releasing", "over"}]
  /\ phase \in {"up", "sweeping containers", "sweeping networks"}
  /\ crashes \in 0..CrashesMax
  /\ failed \subseteq Sessions /\ cut \subseteq Sessions /\ unlisted \subseteq Sessions

\* While the controller answers requests, the peers on every session network it is on are refused: that
\* network's subnet is tracked (peer_is_in_session_network), but for one a start could not list.
PeersRefused ==
  phase = "up" => \A s \in attached : tracked[s] = network[s] \/ s \in unlisted

\* A subnet is tracked for one network: a stale entry goes when its subnet is handed out again.
OneNetworkPerSubnet ==
  \A s, r \in Sessions : tracked[s] = tracked[r] /\ tracked[s] # NoNet => s = r

\* "The container may still run with the profile and downloads mounted": they are never removed under it,
\* by a rollback, a release or a sweep (session_isolation.py:561, 858).
KeptWhileMounted == \A s \in Sessions : container[s] # "none" => s \in dirs

Left(s) == container[s] # "none" \/ network[s] # NoNet \/ s \in dirs \/ s \in attached

\* A session that is over, none of whose calls failed, has left nothing behind, whichever step its
\* create failed at, whoever released it, and whatever death of the controller came between.
NothingLeft ==
  \A s \in Sessions :
    phase = "up" /\ owner[s] = "over" /\ job[s] = Idle /\ s \notin failed \union cut => ~Left(s)

\* "BaseException so a cancelled create also closes the context and releases the isolated runtime"
\* (session_creation.py:287), said of every cancelled create.
CancelledLeavesNothing ==
  \A s \in Sessions :
    phase = "up" /\ owner[s] = "over" /\ job[s] = Idle /\ s \notin failed => ~Left(s)
-----------------------------------------------------------------------------
(* The inductive invariant of IsolatedBrowsers_proofs.                     *)

\* A start finds no thread of the process before.
ThreadsEnd == phase # "up" => \A s \in Sessions : job[s].at = "idle"

\* Two networks do not share a subnet.
SubnetsDiffer == \A s, r \in Sessions : network[s] = network[r] /\ network[s] # NoNet => s = r

Working(s) == job[s].at \in {"track", "join", "run", "ready"}
Undoing(s) == job[s].at \in {"undo network", "undo network removal", "undo dirs", "release lookup",
                             "release network", "release network removal", "release dirs"}

\* What a session and its thread have at each step.
Has(s) ==
  /\ owner[s] = "none" => job[s].at = "idle"
  /\ owner[s] = "none" \/ job[s].at \in {"dirs", "network"} => network[s] = NoNet /\ container[s] = "none"
  /\ s \in attached => network[s] # NoNet
  /\ job[s].at = "network" \/ Working(s) => s \in dirs
  /\ Working(s) => network[s] # NoNet /\ job[s].net
  /\ job[s].at = "track" => s \notin attached
  /\ job[s].at = "join" => tracked[s] = network[s]
  /\ Undoing(s) /\ ~job[s].problem => container[s] = "none"

\* What a session none of whose calls failed has left, at each step.
Leaves(s) ==
  /\ owner[s] = "none" \/ job[s].at = "dirs" => s \notin dirs
  /\ job[s].at \in {"undo container", "undo network"} /\ ~job[s].net => network[s] = NoNet
  /\ ~job[s].problem
  /\ job[s].at \in {"undo network removal", "release network removal"} => s \notin attached
  /\ job[s].at \in {"undo dirs", "release dirs"} => network[s] = NoNet
  /\ phase = "sweeping networks" => container[s] = "none" /\ s \notin dirs
  /\ phase = "up" /\ owner[s] = "over" /\ job[s].at = "idle" /\ s \notin cut => ~Left(s)

Sound(s) ==
  /\ Has(s)
  /\ s \notin failed => Leaves(s)
  /\ phase = "up" /\ s \in attached => tracked[s] = network[s] \/ s \in unlisted
  /\ container[s] # "none" => s \in dirs

IInv ==
  /\ TypeOK /\ ThreadsEnd /\ SubnetsDiffer /\ OneNetworkPerSubnet
  /\ \A s \in Sessions : Sound(s)
=============================================================================
