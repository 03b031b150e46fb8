----------------------- MODULE IsolatedBrowsers_proofs -----------------------
(* Theorems about IsolatedBrowsers, for every set of sessions and pool of subnets. *)
EXTENDS IsolatedBrowsers, TLAPS

LEMMA IdleIsThread == Idle \in Threads
  BY DEF Idle, Threads, Steps

LEMMA IdleStep == Idle.at = "idle" /\ Idle.net = FALSE /\ Idle.problem = FALSE
  BY DEF Idle

LEMMA StepNames ==
  /\ {"idle", "dirs", "network", "track", "join", "run", "ready"} \subseteq Steps
  /\ {"undo container", "undo network", "undo network removal", "undo dirs"} \subseteq Steps
  /\ {"release container", "release lookup", "release network", "release network removal",
       "release dirs"} \subseteq Steps
  BY DEF Steps

\* A thread goes to its next step, and keeps what it knows.
LEMMA Moves ==
  ASSUME TypeOK, NEW s \in Sessions, NEW step \in Steps, Go(s, step)
  PROVE  /\ job' \in [Sessions -> Threads]
         /\ job'[s].at = step /\ job'[s].net = job[s].net /\ job'[s].problem = job[s].problem
         /\ \A r \in Sessions \ {s} : job'[r] = job[r]
  BY DEF TypeOK, Go, Threads

\* What a step of one session leaves another: all it has, and its subnet tracked if it was.
Same(r) ==
  /\ container'[r] = container[r] /\ network'[r] = network[r]
  /\ job'[r] = job[r] /\ owner'[r] = owner[r] /\ phase' = phase
  /\ r \in attached' <=> r \in attached
  /\ r \in dirs' <=> r \in dirs
  /\ r \in failed' <=> r \in failed
  /\ r \in cut' <=> r \in cut
  /\ r \in unlisted' <=> r \in unlisted
  /\ tracked[r] = network[r] => tracked'[r] = network'[r]

LEMMA Frame ==
  ASSUME IInv, NEW s \in Sessions, phase = "up",
         \A r \in Sessions \ {s} : Same(r),
         TypeOK', Sound(s)', phase' = "up", SubnetsDiffer', OneNetworkPerSubnet'
  PROVE  IInv'
<1>1. ASSUME NEW r \in Sessions \ {s}
      PROVE  Sound(r)'
  <2>1. Sound(r) /\ Same(r)
    BY <1>1 DEF IInv
  <2>2. Has(r)'
    BY <2>1 DEF Same, Sound, Has, Working, Undoing
  <2>3. r \notin failed' => Leaves(r)'
    BY <2>1 DEF Same, Sound, Leaves, Left
  <2>4. QED
    BY <2>1, <2>2, <2>3 DEF Same, Sound
<1>2. ThreadsEnd'
  BY DEF ThreadsEnd
<1>3. QED
  BY <1>1, <1>2 DEF IInv

LEMMA InvInit == Init => IInv
<1> SUFFICES ASSUME Init
             PROVE  IInv
  OBVIOUS
<1>1. TypeOK
  BY IsolationAssumption, IdleIsThread DEF Init, TypeOK
<1>2. ThreadsEnd /\ SubnetsDiffer /\ OneNetworkPerSubnet
  BY DEF Init, ThreadsEnd, SubnetsDiffer, OneNetworkPerSubnet
<1>3. ASSUME NEW s \in Sessions
      PROVE  Sound(s)
  <2>1. job[s].at = "idle" /\ ~job[s].net /\ ~job[s].problem
    BY IdleStep DEF Init
  <2>2. QED
    BY <2>1 DEF Init, Sound, Has, Leaves, Left, Working, Undoing
<1>4. QED
  BY <1>1, <1>2, <1>3 DEF IInv

LEMMA ProvisionKeeps ==
  ASSUME IInv, NEW s \in Sessions, Provision(s)
  PROVE  IInv'
<1>0. TypeOK /\ Sound(s)
  BY DEF IInv
<1>1. phase = "up" /\ phase' = "up" /\ \A r \in Sessions \ {s} : Same(r)
  BY DEF IInv, TypeOK, SubnetsDiffer, Sound, Has, Working, Same, Provision, Go, daemonVars, runVars
<1>2. TypeOK' /\ Sound(s)'
  <2>1. job'[s].at = "dirs" /\ job'[s].net = job[s].net /\ job'[s].problem = job[s].problem
    BY <1>0, IdleStep, Moves, StepNames DEF TypeOK, Provision, daemonVars, runVars
  <2>2. TypeOK'
    BY <1>0, IdleIsThread, IdleStep, IsolationAssumption, Moves, StepNames DEF TypeOK, Threads, Provision,
       daemonVars, runVars
  <2>3. Has(s)' /\ (container'[s] # "none" => s \in dirs')
    BY <1>0, <1>1, <2>1, IdleStep DEF TypeOK, Sound, Has, Working, Undoing, Provision, daemonVars, runVars
  <2>4. s \notin failed' => Leaves(s)'
    BY <1>0, <1>1, <2>1, IdleStep DEF TypeOK, Sound, Has, Leaves, Left, Working, Undoing, Provision, daemonVars,
       runVars
  <2>5. s \in attached' => tracked'[s] = network'[s] \/ s \in unlisted'
    BY <1>0 DEF TypeOK, Sound, Has, Provision, daemonVars, runVars
  <2>6. QED
    BY <2>2, <2>3, <2>4, <2>5 DEF Sound
<1>3. SubnetsDiffer'
  <2> SUFFICES ASSUME NEW p \in Sessions, NEW r \in Sessions, network'[p] = network'[r], network'[p] # NoNet
               PROVE  p = r
    BY DEF SubnetsDiffer
  <2>1. QED
    BY <1>0, IsolationAssumption DEF IInv, TypeOK, SubnetsDiffer, Provision, Go, daemonVars, runVars
<1>4. OneNetworkPerSubnet'
  <2> SUFFICES ASSUME NEW p \in Sessions, NEW r \in Sessions, tracked'[p] = tracked'[r], tracked'[p] # NoNet
               PROVE  p = r
    BY DEF OneNetworkPerSubnet
  <2>1. QED
    BY <1>0 DEF IInv, TypeOK, OneNetworkPerSubnet, Provision, Go, daemonVars, runVars
<1>5. QED
  BY <1>1, <1>2, <1>3, <1>4, Frame

LEMMA CancelQueuedKeeps ==
  ASSUME IInv, NEW s \in Sessions, CancelQueued(s)
  PROVE  IInv'
<1>0. TypeOK /\ Sound(s)
  BY DEF IInv
<1>1. phase = "up" /\ phase' = "up" /\ \A r \in Sessions \ {s} : Same(r)
  BY DEF IInv, TypeOK, SubnetsDiffer, Sound, Has, Working, Same, CancelQueued, At, ThreadEnds, daemonVars, runVars
<1>2. TypeOK' /\ Sound(s)'
  <2>1. job'[s].at = "idle" /\ ~job'[s].net /\ ~job'[s].problem
    BY <1>0, IdleStep, Moves, StepNames DEF TypeOK, CancelQueued, At, ThreadEnds, daemonVars, runVars
  <2>2. TypeOK'
    BY <1>0, IdleIsThread, IdleStep, IsolationAssumption, Moves, StepNames DEF TypeOK, Threads, CancelQueued, At,
       ThreadEnds, daemonVars, runVars
  <2>3. Has(s)' /\ (container'[s] # "none" => s \in dirs')
    BY <1>0, <1>1, <2>1, IdleStep DEF TypeOK, Sound, Has, Working, Undoing, CancelQueued, At, ThreadEnds,
       daemonVars, runVars
  <2>4. s \notin failed' => Leaves(s)'
    BY <1>0, <1>1, <2>1, IdleStep DEF TypeOK, Sound, Has, Leaves, Left, Working, Undoing, CancelQueued, At,
       ThreadEnds, daemonVars, runVars
  <2>5. s \in attached' => tracked'[s] = network'[s] \/ s \in unlisted'
    BY <1>0 DEF TypeOK, Sound, Has, CancelQueued, At, ThreadEnds, daemonVars, runVars
  <2>6. QED
    BY <2>2, <2>3, <2>4, <2>5 DEF Sound
<1>3. SubnetsDiffer'
  <2> SUFFICES ASSUME NEW p \in Sessions, NEW r \in Sessions, network'[p] = network'[r], network'[p] # NoNet
               PROVE  p = r
    BY DEF SubnetsDiffer
  <2>1. QED
    BY <1>0, IsolationAssumption DEF IInv, TypeOK, SubnetsDiffer, CancelQueued, At, ThreadEnds, daemonVars, runVars
<1>4. OneNetworkPerSubnet'
  <2> SUFFICES ASSUME NEW p \in Sessions, NEW r \in Sessions, tracked'[p] = tracked'[r], tracked'[p] # NoNet
               PROVE  p = r
    BY DEF OneNetworkPerSubnet
  <2>1. QED
    BY <1>0 DEF IInv, TypeOK, OneNetworkPerSubnet, CancelQueued, At, ThreadEnds, daemonVars, runVars
<1>5. QED
  BY <1>1, <1>2, <1>3, <1>4, Frame

LEMMA MakeDirsKeeps ==
  ASSUME IInv, NEW s \in Sessions, MakeDirs(s)
  PROVE  IInv'
<1>0. TypeOK /\ Sound(s) /\ job[s].at = "dirs"
  BY DEF IInv, MakeDirs, At
<1>1. phase = "up" /\ phase' = "up" /\ \A r \in Sessions \ {s} : Same(r)
  BY DEF IInv, TypeOK, Same, MakeDirs, At, Go, Fails, ThreadEnds, daemonVars, runVars
<1>2. TypeOK' /\ Sound(s)'
  <2>. UNCHANGED <<container, network, attached, tracked, phase, crashes, cut, unlisted>>
    BY DEF MakeDirs, daemonVars, runVars
  <2>1. CASE dirs' = dirs \union {s} /\ Go(s, "network") /\ UNCHANGED <<owner, failed>>
    <3>1. job'[s].at = "network" /\ job'[s].net = job[s].net /\ job'[s].problem = job[s].problem
      BY <1>0, <2>1, Moves, StepNames
    <3>2. TypeOK'
      BY <1>0, <2>1, Moves, StepNames DEF TypeOK
    <3>3. Has(s)' /\ (container'[s] # "none" => s \in dirs')
      BY <1>0, <2>1, <3>1 DEF Sound, Has, Working, Undoing
    <3>4. s \notin failed' => Leaves(s)'
      BY <1>0, <1>1, <2>1, <3>1 DEF Sound, Has, Leaves, Working, Undoing
    <3>5. QED
      BY <1>0, <1>1, <3>2, <3>3, <3>4 DEF Sound
  <2>2. CASE /\ ThreadEnds(s)
             /\ \/ UNCHANGED <<dirs, failed>>
                \/ dirs' = dirs \union {s} /\ Fails(s)
    <3>1. /\ job'[s].at = "idle" /\ ~job'[s].net /\ ~job'[s].problem
          /\ owner'[s] = "over"
      BY <1>0, <2>2, IdleStep DEF TypeOK, ThreadEnds
    <3>2. TypeOK'
      BY <1>0, <2>2, IdleIsThread DEF TypeOK, ThreadEnds, Fails
    <3>3. Has(s)' /\ (container'[s] # "none" => s \in dirs')
      BY <1>0, <2>2, <3>1 DEF Sound, Has, Working, Undoing
    <3>4. s \notin failed' => Leaves(s)'
      BY <1>0, <1>1, <2>2, <3>1 DEF Sound, Has, Leaves, Left, Fails
    <3>5. QED
      BY <1>0, <1>1, <3>2, <3>3, <3>4 DEF Sound
  <2>3. QED
    BY <2>1, <2>2 DEF MakeDirs
<1>3. SubnetsDiffer' /\ OneNetworkPerSubnet'
  BY DEF IInv, SubnetsDiffer, OneNetworkPerSubnet, MakeDirs, daemonVars
<1>4. QED
  BY <1>1, <1>2, <1>3, Frame

LEMMA CreateNetworkKeeps ==
  ASSUME IInv, NEW s \in Sessions, CreateNetwork(s)
  PROVE  IInv'
<1>0. TypeOK /\ Sound(s)
  BY DEF IInv
<1>1. phase = "up" /\ phase' = "up" /\ \A r \in Sessions \ {s} : Same(r)
  BY DEF IInv, TypeOK, SubnetsDiffer, Sound, Has, Working, Same, CreateNetwork, At, Go, Fails, Free, runVars
<1>2. TypeOK' /\ Sound(s)'
  <2>. /\ job[s].at = "network"
       /\ UNCHANGED <<container, attached, dirs, tracked, owner, phase, cut, unlisted, crashes>>
    BY DEF CreateNetwork, At, Go, Fails, Free, runVars
  <2>1. ASSUME NEW n \in Free, network' = [network EXCEPT ![s] = n],
               job' = [job EXCEPT ![s].at = "track", ![s].net = TRUE],
               failed' = failed
        PROVE  TypeOK' /\ Sound(s)'
    <3>1. job'[s].at = "track" /\ job'[s].net /\ job'[s].problem = job[s].problem
      <4>1. job[s] \in Threads /\ job'[s] = [job[s] EXCEPT !.at = "track", !.net = TRUE]
        BY <1>0, <2>1 DEF TypeOK
      <4>2. QED
        BY <4>1 DEF Threads
    <3>2. TypeOK'
      BY <1>0, <2>1, Moves, StepNames, IdleIsThread DEF TypeOK, Threads, Fails, Free
    <3>3. Has(s)' /\ (container'[s] # "none" => s \in dirs')
      BY <1>0, <2>1, IsolationAssumption, <3>1 DEF TypeOK, Sound, Has, Working, Undoing, Fails, Free
    <3>4. s \notin failed' => Leaves(s)'
      BY <1>0, <2>1, IsolationAssumption, <3>1 DEF TypeOK, Sound, Has, Leaves, Left, Working, Undoing, Fails,
         Free
    <3>5. s \in attached' => tracked'[s] = network'[s] \/ s \in unlisted'
      BY <1>0, <2>1, IsolationAssumption, <1>1 DEF TypeOK, Sound, Has, Working, Fails, Free
    <3>6. QED
      BY <3>2, <3>3, <3>4, <3>5 DEF Sound
  <2>2. ASSUME NEW n \in Free, network' = [network EXCEPT ![s] = n],
               Go(s, "undo container"),
               Fails(s)
        PROVE  TypeOK' /\ Sound(s)'
    <3>1. job'[s].at = "undo container" /\ job'[s].net = job[s].net /\ job'[s].problem = job[s].problem
      BY <1>0, <2>2, Moves, StepNames
    <3>2. TypeOK'
      BY <1>0, <2>2, Moves, StepNames, IdleIsThread DEF TypeOK, Fails, Free
    <3>3. Has(s)' /\ (container'[s] # "none" => s \in dirs')
      BY <1>0, <2>2, IsolationAssumption, <3>1 DEF TypeOK, Sound, Has, Working, Undoing, Fails, Free
    <3>4. s \notin failed' => Leaves(s)'
      BY <1>0, <2>2, IsolationAssumption, <3>1 DEF TypeOK, Sound, Has, Leaves, Left, Working, Undoing, Fails,
         Free
    <3>5. s \in attached' => tracked'[s] = network'[s] \/ s \in unlisted'
      BY <1>0, <2>2, IsolationAssumption, <1>1 DEF TypeOK, Sound, Has, Working, Fails, Free
    <3>6. QED
      BY <3>2, <3>3, <3>4, <3>5 DEF Sound
  <2>3. ASSUME Go(s, "undo container"),
               network' = network,
               failed' = failed
        PROVE  TypeOK' /\ Sound(s)'
    <3>1. job'[s].at = "undo container" /\ job'[s].net = job[s].net /\ job'[s].problem = job[s].problem
      BY <1>0, <2>3, Moves, StepNames
    <3>2. TypeOK'
      BY <1>0, <2>3, Moves, StepNames, IdleIsThread DEF TypeOK, Fails, Free
    <3>3. Has(s)' /\ (container'[s] # "none" => s \in dirs')
      BY <1>0, <2>3, IsolationAssumption, <3>1 DEF TypeOK, Sound, Has, Working, Undoing, Fails, Free
    <3>4. s \notin failed' => Leaves(s)'
      BY <1>0, <2>3, IsolationAssumption, <3>1 DEF TypeOK, Sound, Has, Leaves, Left, Working, Undoing, Fails,
         Free
    <3>5. s \in attached' => tracked'[s] = network'[s] \/ s \in unlisted'
      BY <1>0, <2>3, IsolationAssumption, <1>1 DEF TypeOK, Sound, Has, Working, Fails, Free
    <3>6. QED
      BY <3>2, <3>3, <3>4, <3>5 DEF Sound
  <2>4. QED
    BY <2>1, <2>2, <2>3 DEF CreateNetwork, runVars
<1>3. SubnetsDiffer'
  <2> SUFFICES ASSUME NEW p \in Sessions, NEW r \in Sessions, network'[p] = network'[r], network'[p] # NoNet
               PROVE  p = r
    BY DEF SubnetsDiffer
  <2>1. CASE network' = network
    BY <2>1 DEF IInv, SubnetsDiffer
  <2>2. ASSUME NEW n \in Free, network' = [network EXCEPT ![s] = n]
        PROVE  p = r
    BY <1>0, <2>2 DEF TypeOK, IInv, SubnetsDiffer, Free
  <2>3. QED
    BY <2>1, <2>2 DEF CreateNetwork
<1>4. OneNetworkPerSubnet'
  <2> SUFFICES ASSUME NEW p \in Sessions, NEW r \in Sessions, tracked'[p] = tracked'[r], tracked'[p] # NoNet
               PROVE  p = r
    BY DEF OneNetworkPerSubnet
  <2>1. QED
    BY <1>0 DEF IInv, TypeOK, OneNetworkPerSubnet, CreateNetwork, At, Go, Fails, Free, runVars
<1>5. QED
  BY <1>1, <1>2, <1>3, <1>4, Frame

LEMMA TrackKeeps ==
  ASSUME IInv, NEW s \in Sessions, Track(s)
  PROVE  IInv'
<1>0. TypeOK /\ Sound(s)
  BY DEF IInv
<1>1. phase = "up" /\ phase' = "up" /\ \A r \in Sessions \ {s} : Same(r)
  <2>1. job[s].at = "track" /\ network[s] # NoNet /\ phase = "up" /\ phase' = "up"
    BY <1>0 DEF Sound, Has, Working, Track, At, runVars
  <2>2. ASSUME NEW r \in Sessions \ {s}
        PROVE  Same(r)
    <3>1. job'[r] = job[r]
      BY <1>0, <2>2, Moves, StepNames DEF Track
    <3>2. network[s] # network[r]
      BY <2>1, <2>2 DEF IInv, SubnetsDiffer
    <3>3. tracked[r] = network[r] => tracked'[r] = network[r]
      BY <1>0, <2>2, <3>2 DEF TypeOK, Track
    <3>4. QED
      BY <3>1, <3>3 DEF Same, Track, daemonVars, runVars
  <2>3. QED
    BY <2>1, <2>2
<1>2. TypeOK' /\ Sound(s)'
  <2>. /\ job[s].at = "track"
       /\ UNCHANGED <<container, network, attached, dirs, owner, phase, cut, unlisted, failed, crashes>>
    BY DEF Track, At, Go, daemonVars, runVars
  <2>1. ASSUME tracked' = [r \in Sessions |-> IF r = s THEN network[s]
                                           ELSE IF tracked[r] = network[s] THEN NoNet ELSE tracked[r]],
               Go(s, "join")
        PROVE  TypeOK' /\ Sound(s)'
    <3>1. job'[s].at = "join" /\ job'[s].net = job[s].net /\ job'[s].problem = job[s].problem
      BY <1>0, <2>1, Moves, StepNames
    <3>2. TypeOK'
      BY <1>0, <2>1, Moves, StepNames, IdleIsThread DEF TypeOK
    <3>3. Has(s)' /\ (container'[s] # "none" => s \in dirs')
      BY <1>0, <2>1, IsolationAssumption, <3>1 DEF TypeOK, Sound, Has, Working, Undoing
    <3>4. s \notin failed' => Leaves(s)'
      BY <1>0, <2>1, IsolationAssumption, <3>1 DEF TypeOK, Sound, Has, Leaves, Left, Working, Undoing
    <3>5. s \in attached' => tracked'[s] = network'[s] \/ s \in unlisted'
      BY <1>0, <2>1, IsolationAssumption, <1>1 DEF TypeOK, Sound, Has, Working
    <3>6. QED
      BY <3>2, <3>3, <3>4, <3>5 DEF Sound
  <2>2. ASSUME Go(s, "undo container"),
               tracked' = tracked
        PROVE  TypeOK' /\ Sound(s)'
    <3>1. job'[s].at = "undo container" /\ job'[s].net = job[s].net /\ job'[s].problem = job[s].problem
      BY <1>0, <2>2, Moves, StepNames
    <3>2. TypeOK'
      BY <1>0, <2>2, Moves, StepNames, IdleIsThread DEF TypeOK
    <3>3. Has(s)' /\ (container'[s] # "none" => s \in dirs')
      BY <1>0, <2>2, IsolationAssumption, <3>1 DEF TypeOK, Sound, Has, Working, Undoing
    <3>4. s \notin failed' => Leaves(s)'
      BY <1>0, <2>2, IsolationAssumption, <3>1 DEF TypeOK, Sound, Has, Leaves, Left, Working, Undoing
    <3>5. s \in attached' => tracked'[s] = network'[s] \/ s \in unlisted'
      BY <1>0, <2>2, IsolationAssumption, <1>1 DEF TypeOK, Sound, Has, Working
    <3>6. QED
      BY <3>2, <3>3, <3>4, <3>5 DEF Sound
  <2>3. QED
    BY <2>1, <2>2 DEF Track, daemonVars, runVars
<1>3. SubnetsDiffer'
  <2> SUFFICES ASSUME NEW p \in Sessions, NEW r \in Sessions, network'[p] = network'[r], network'[p] # NoNet
               PROVE  p = r
    BY DEF SubnetsDiffer
  <2>1. QED
    BY <1>0, IsolationAssumption DEF IInv, TypeOK, SubnetsDiffer, Track, At, Go, daemonVars, runVars
<1>4. OneNetworkPerSubnet'
  <2> SUFFICES ASSUME NEW p \in Sessions, NEW r \in Sessions, tracked'[p] = tracked'[r], tracked'[p] # NoNet
               PROVE  p = r
    BY DEF OneNetworkPerSubnet
  <2>1. CASE tracked' = tracked
    BY <2>1 DEF IInv, OneNetworkPerSubnet
  <2>2. CASE tracked' = [r1 \in Sessions |-> IF r1 = s THEN network[s]
                                           ELSE IF tracked[r1] = network[s] THEN NoNet ELSE tracked[r1]]
    BY <2>2 DEF IInv, OneNetworkPerSubnet
  <2>3. QED
    BY <2>1, <2>2 DEF Track
<1>5. QED
  BY <1>1, <1>2, <1>3, <1>4, Frame

LEMMA JoinKeeps ==
  ASSUME IInv, NEW s \in Sessions, Join(s)
  PROVE  IInv'
<1>0. TypeOK /\ Sound(s)
  BY DEF IInv
<1>1. phase = "up" /\ phase' = "up" /\ \A r \in Sessions \ {s} : Same(r)
  BY DEF IInv, TypeOK, SubnetsDiffer, Sound, Has, Working, Same, Join, At, Go, Fails, runVars
<1>2. TypeOK' /\ Sound(s)'
  <2>. /\ job[s].at = "join"
       /\ UNCHANGED <<container, network, dirs, tracked, owner, phase, cut, unlisted, crashes>>
    BY DEF Join, At, Go, Fails, runVars
  <2>1. ASSUME attached' = attached \union {s},
               Go(s, "run"),
               failed' = failed
        PROVE  TypeOK' /\ Sound(s)'
    <3>1. job'[s].at = "run" /\ job'[s].net = job[s].net /\ job'[s].problem = job[s].problem
      BY <1>0, <2>1, Moves, StepNames
    <3>2. TypeOK'
      BY <1>0, <2>1, Moves, StepNames, IdleIsThread DEF TypeOK, Fails
    <3>3. Has(s)' /\ (container'[s] # "none" => s \in dirs')
      BY <1>0, <2>1, IsolationAssumption, <3>1 DEF TypeOK, Sound, Has, Working, Undoing, Fails
    <3>4. s \notin failed' => Leaves(s)'
      BY <1>0, <2>1, IsolationAssumption, <3>1 DEF TypeOK, Sound, Has, Leaves, Left, Working, Undoing, Fails
    <3>5. s \in attached' => tracked'[s] = network'[s] \/ s \in unlisted'
      BY <1>0, <2>1, IsolationAssumption, <1>1 DEF TypeOK, Sound, Has, Working, Fails
    <3>6. QED
      BY <3>2, <3>3, <3>4, <3>5 DEF Sound
  <2>2. ASSUME attached' \in {attached, attached \union {s}},
               Go(s, "undo container"),
               Fails(s)
        PROVE  TypeOK' /\ Sound(s)'
    <3>1. job'[s].at = "undo container" /\ job'[s].net = job[s].net /\ job'[s].problem = job[s].problem
      BY <1>0, <2>2, Moves, StepNames
    <3>2. TypeOK'
      BY <1>0, <2>2, Moves, StepNames, IdleIsThread DEF TypeOK, Fails
    <3>3. Has(s)' /\ (container'[s] # "none" => s \in dirs')
      BY <1>0, <2>2, IsolationAssumption, <3>1 DEF TypeOK, Sound, Has, Working, Undoing, Fails
    <3>4. s \notin failed' => Leaves(s)'
      BY <1>0, <2>2, IsolationAssumption, <3>1 DEF TypeOK, Sound, Has, Leaves, Left, Working, Undoing, Fails
    <3>5. s \in attached' => tracked'[s] = network'[s] \/ s \in unlisted'
      BY <1>0, <2>2, IsolationAssumption, <1>1 DEF TypeOK, Sound, Has, Working, Fails
    <3>6. QED
      BY <3>2, <3>3, <3>4, <3>5 DEF Sound
  <2>3. QED
    BY <2>1, <2>2 DEF Join, runVars
<1>3. SubnetsDiffer'
  <2> SUFFICES ASSUME NEW p \in Sessions, NEW r \in Sessions, network'[p] = network'[r], network'[p] # NoNet
               PROVE  p = r
    BY DEF SubnetsDiffer
  <2>1. QED
    BY <1>0, IsolationAssumption DEF IInv, TypeOK, SubnetsDiffer, Join, At, Go, Fails, runVars
<1>4. OneNetworkPerSubnet'
  <2> SUFFICES ASSUME NEW p \in Sessions, NEW r \in Sessions, tracked'[p] = tracked'[r], tracked'[p] # NoNet
               PROVE  p = r
    BY DEF OneNetworkPerSubnet
  <2>1. QED
    BY <1>0 DEF IInv, TypeOK, OneNetworkPerSubnet, Join, At, Go, Fails, runVars
<1>5. QED
  BY <1>1, <1>2, <1>3, <1>4, Frame

LEMMA RunKeeps ==
  ASSUME IInv, NEW s \in Sessions, Run(s)
  PROVE  IInv'
<1>0. TypeOK /\ Sound(s)
  BY DEF IInv
<1>1. phase = "up" /\ phase' = "up" /\ \A r \in Sessions \ {s} : Same(r)
  BY DEF IInv, TypeOK, SubnetsDiffer, Sound, Has, Working, Same, Run, At, Go, Fails, runVars
<1>2. TypeOK' /\ Sound(s)'
  <2>. /\ job[s].at = "run"
       /\ UNCHANGED <<network, attached, dirs, tracked, owner, phase, cut, unlisted, crashes>>
    BY DEF Run, At, Go, Fails, runVars
  <2>1. ASSUME container' = [container EXCEPT ![s] = "up"],
               Go(s, "ready"),
               failed' = failed
        PROVE  TypeOK' /\ Sound(s)'
    <3>1. job'[s].at = "ready" /\ job'[s].net = job[s].net /\ job'[s].problem = job[s].problem
      BY <1>0, <2>1, Moves, StepNames
    <3>2. TypeOK'
      BY <1>0, <2>1, Moves, StepNames, IdleIsThread DEF TypeOK, Fails
    <3>3. Has(s)' /\ (container'[s] # "none" => s \in dirs')
      BY <1>0, <2>1, IsolationAssumption, <3>1 DEF TypeOK, Sound, Has, Working, Undoing, Fails
    <3>4. s \notin failed' => Leaves(s)'
      BY <1>0, <2>1, IsolationAssumption, <3>1 DEF TypeOK, Sound, Has, Leaves, Left, Working, Undoing, Fails
    <3>5. s \in attached' => tracked'[s] = network'[s] \/ s \in unlisted'
      BY <1>0, <2>1, IsolationAssumption, <1>1 DEF TypeOK, Sound, Has, Working, Fails
    <3>6. QED
      BY <3>2, <3>3, <3>4, <3>5 DEF Sound
  <2>2. ASSUME container' \in {container, [container EXCEPT ![s] = "up"]},
               Go(s, "undo container"),
               Fails(s)
        PROVE  TypeOK' /\ Sound(s)'
    <3>1. job'[s].at = "undo container" /\ job'[s].net = job[s].net /\ job'[s].problem = job[s].problem
      BY <1>0, <2>2, Moves, StepNames
    <3>2. TypeOK'
      BY <1>0, <2>2, Moves, StepNames, IdleIsThread DEF TypeOK, Fails
    <3>3. Has(s)' /\ (container'[s] # "none" => s \in dirs')
      BY <1>0, <2>2, IsolationAssumption, <3>1 DEF TypeOK, Sound, Has, Working, Undoing, Fails
    <3>4. s \notin failed' => Leaves(s)'
      BY <1>0, <2>2, IsolationAssumption, <3>1 DEF TypeOK, Sound, Has, Leaves, Left, Working, Undoing, Fails
    <3>5. s \in attached' => tracked'[s] = network'[s] \/ s \in unlisted'
      BY <1>0, <2>2, IsolationAssumption, <1>1 DEF TypeOK, Sound, Has, Working, Fails
    <3>6. QED
      BY <3>2, <3>3, <3>4, <3>5 DEF Sound
  <2>3. QED
    BY <2>1, <2>2 DEF Run, runVars
<1>3. SubnetsDiffer'
  <2> SUFFICES ASSUME NEW p \in Sessions, NEW r \in Sessions, network'[p] = network'[r], network'[p] # NoNet
               PROVE  p = r
    BY DEF SubnetsDiffer
  <2>1. QED
    BY <1>0, IsolationAssumption DEF IInv, TypeOK, SubnetsDiffer, Run, At, Go, Fails, runVars
<1>4. OneNetworkPerSubnet'
  <2> SUFFICES ASSUME NEW p \in Sessions, NEW r \in Sessions, tracked'[p] = tracked'[r], tracked'[p] # NoNet
               PROVE  p = r
    BY DEF OneNetworkPerSubnet
  <2>1. QED
    BY <1>0 DEF IInv, TypeOK, OneNetworkPerSubnet, Run, At, Go, Fails, runVars
<1>5. QED
  BY <1>1, <1>2, <1>3, <1>4, Frame

LEMMA UndoContainerKeeps ==
  ASSUME IInv, NEW s \in Sessions, UndoContainer(s)
  PROVE  IInv'
<1>0. TypeOK /\ Sound(s)
  BY DEF IInv
<1>1. phase = "up" /\ phase' = "up" /\ \A r \in Sessions \ {s} : Same(r)
  BY DEF IInv, TypeOK, SubnetsDiffer, Sound, Has, Working, Same, UndoContainer, At, Go, Fails, runVars
<1>2. TypeOK' /\ Sound(s)'
  <2>. /\ job[s].at = "undo container"
       /\ UNCHANGED <<network, attached, dirs, tracked, owner, phase, cut, unlisted, crashes>>
    BY DEF UndoContainer, At, Go, Fails, runVars
  <2>1. ASSUME container' = [container EXCEPT ![s] = "none"],
               Go(s, "undo network"),
               failed' = failed
        PROVE  TypeOK' /\ Sound(s)'
    <3>1. job'[s].at = "undo network" /\ job'[s].net = job[s].net /\ job'[s].problem = job[s].problem
      BY <1>0, <2>1, Moves, StepNames
    <3>2. TypeOK'
      BY <1>0, <2>1, Moves, StepNames, IdleIsThread DEF TypeOK, Fails
    <3>3. Has(s)' /\ (container'[s] # "none" => s \in dirs')
      BY <1>0, <2>1, IsolationAssumption, <3>1 DEF TypeOK, Sound, Has, Working, Undoing, Fails
    <3>4. s \notin failed' => Leaves(s)'
      BY <1>0, <2>1, IsolationAssumption, <3>1 DEF TypeOK, Sound, Has, Leaves, Left, Working, Undoing, Fails
    <3>5. s \in attached' => tracked'[s] = network'[s] \/ s \in unlisted'
      BY <1>0, <2>1, IsolationAssumption, <1>1 DEF TypeOK, Sound, Has, Working, Fails
    <3>6. QED
      BY <3>2, <3>3, <3>4, <3>5 DEF Sound
  <2>2. ASSUME job' = [job EXCEPT ![s].at = "undo network", ![s].problem = TRUE],
               Fails(s),
               container' = container
        PROVE  TypeOK' /\ Sound(s)'
    <3>1. job'[s].at = "undo network" /\ job'[s].net = job[s].net /\ job'[s].problem
      <4>1. job[s] \in Threads /\ job'[s] = [job[s] EXCEPT !.at = "undo network", !.problem = TRUE]
        BY <1>0, <2>2 DEF TypeOK
      <4>2. QED
        BY <4>1 DEF Threads
    <3>2. TypeOK'
      BY <1>0, <2>2, Moves, StepNames, IdleIsThread DEF TypeOK, Threads, Fails
    <3>3. Has(s)' /\ (container'[s] # "none" => s \in dirs')
      BY <1>0, <2>2, IsolationAssumption, <3>1 DEF TypeOK, Sound, Has, Working, Undoing, Fails
    <3>4. s \notin failed' => Leaves(s)'
      BY <1>0, <2>2, IsolationAssumption, <3>1 DEF TypeOK, Sound, Has, Leaves, Left, Working, Undoing, Fails
    <3>5. s \in attached' => tracked'[s] = network'[s] \/ s \in unlisted'
      BY <1>0, <2>2, IsolationAssumption, <1>1 DEF TypeOK, Sound, Has, Working, Fails
    <3>6. QED
      BY <3>2, <3>3, <3>4, <3>5 DEF Sound
  <2>3. QED
    BY <2>1, <2>2 DEF UndoContainer, runVars
<1>3. SubnetsDiffer'
  <2> SUFFICES ASSUME NEW p \in Sessions, NEW r \in Sessions, network'[p] = network'[r], network'[p] # NoNet
               PROVE  p = r
    BY DEF SubnetsDiffer
  <2>1. QED
    BY <1>0, IsolationAssumption DEF IInv, TypeOK, SubnetsDiffer, UndoContainer, At, Go, Fails, runVars
<1>4. OneNetworkPerSubnet'
  <2> SUFFICES ASSUME NEW p \in Sessions, NEW r \in Sessions, tracked'[p] = tracked'[r], tracked'[p] # NoNet
               PROVE  p = r
    BY DEF OneNetworkPerSubnet
  <2>1. QED
    BY <1>0 DEF IInv, TypeOK, OneNetworkPerSubnet, UndoContainer, At, Go, Fails, runVars
<1>5. QED
  BY <1>1, <1>2, <1>3, <1>4, Frame

LEMMA UndoNetworkKeeps ==
  ASSUME IInv, NEW s \in Sessions, UndoNetwork(s)
  PROVE  IInv'
<1>0. TypeOK /\ Sound(s)
  BY DEF IInv
<1>1. phase = "up" /\ phase' = "up" /\ \A r \in Sessions \ {s} : Same(r)
  <2>1. phase = "up" /\ phase' = "up"
    BY DEF UndoNetwork, At, LeaveNetwork, runVars
  <2>2. ASSUME NEW r \in Sessions \ {s}
        PROVE  Same(r)
    <3>1. job'[r] = job[r]
      BY <1>0, <2>2, Moves, StepNames DEF TypeOK, UndoNetwork, LeaveNetwork, ThreadEnds
    <3>2. tracked'[r] = tracked[r]
      BY <1>0, <2>2 DEF TypeOK, UndoNetwork, LeaveNetwork, Leave, Forgotten
    <3>3. container'[r] = container[r] /\ owner'[r] = owner[r]
      BY <1>0, <2>2 DEF TypeOK, UndoNetwork, LeaveNetwork, ThreadEnds, daemonVars
    <3>4. QED
      BY <1>0, <2>1, <2>2, <3>1, <3>2, <3>3 DEF Same, UndoNetwork, LeaveNetwork, Leave, Fails, daemonVars,
         runVars
  <2>3. QED
    BY <2>1, <2>2
<1>2. TypeOK' /\ Sound(s)'
  <2>. /\ job[s].at = "undo network"
       /\ UNCHANGED <<container, network, dirs, owner, phase, cut, unlisted, crashes>>
    BY DEF UndoNetwork, At, Go, Fails, Leave, LeaveNetwork, Forgotten, daemonVars, runVars
  <2>1. ASSUME job[s].net,
               attached' = attached \ {s},
               tracked' = Forgotten(s),
               failed' = failed,
               Go(s, "undo network removal")
        PROVE  TypeOK' /\ Sound(s)'
    <3>1. job'[s].at = "undo network removal" /\ job'[s].net = job[s].net /\ job'[s].problem = job[s].problem
      BY <1>0, <2>1, Moves, StepNames
    <3>2. TypeOK'
      BY <1>0, <2>1, Moves, StepNames, IdleIsThread DEF TypeOK, Fails, Forgotten
    <3>3. Has(s)' /\ (container'[s] # "none" => s \in dirs')
      BY <1>0, <2>1, IsolationAssumption, <3>1 DEF TypeOK, Sound, Has, Working, Undoing, Fails, Forgotten
    <3>4. s \notin failed' => Leaves(s)'
      BY <1>0, <2>1, IsolationAssumption, <3>1 DEF TypeOK, Sound, Has, Leaves, Left, Working, Undoing, Fails,
         Forgotten
    <3>5. s \in attached' => tracked'[s] = network'[s] \/ s \in unlisted'
      BY <1>0, <2>1, IsolationAssumption, <1>1 DEF TypeOK, Sound, Has, Working, Fails, Forgotten
    <3>6. QED
      BY <3>2, <3>3, <3>4, <3>5 DEF Sound
  <2>2. ASSUME job[s].net,
               UNCHANGED <<attached, tracked>>,
               Fails(s),
               Go(s, "undo network removal")
        PROVE  TypeOK' /\ Sound(s)'
    <3>1. job'[s].at = "undo network removal" /\ job'[s].net = job[s].net /\ job'[s].problem = job[s].problem
      BY <1>0, <2>2, Moves, StepNames
    <3>2. TypeOK'
      BY <1>0, <2>2, Moves, StepNames, IdleIsThread DEF TypeOK, Fails, Forgotten
    <3>3. Has(s)' /\ (container'[s] # "none" => s \in dirs')
      BY <1>0, <2>2, IsolationAssumption, <3>1 DEF TypeOK, Sound, Has, Working, Undoing, Fails, Forgotten
    <3>4. s \notin failed' => Leaves(s)'
      BY <1>0, <2>2, IsolationAssumption, <3>1 DEF TypeOK, Sound, Has, Leaves, Left, Working, Undoing, Fails,
         Forgotten
    <3>5. s \in attached' => tracked'[s] = network'[s] \/ s \in unlisted'
      BY <1>0, <2>2, IsolationAssumption, <1>1 DEF TypeOK, Sound, Has, Working, Fails, Forgotten
    <3>6. QED
      BY <3>2, <3>3, <3>4, <3>5 DEF Sound
  <2>3. ASSUME ~job[s].net,
               Go(s, "undo dirs"),
               failed' = failed,
               UNCHANGED <<attached, tracked>>
        PROVE  TypeOK' /\ Sound(s)'
    <3>1. job'[s].at = "undo dirs" /\ job'[s].net = job[s].net /\ job'[s].problem = job[s].problem
      BY <1>0, <2>3, Moves, StepNames
    <3>2. TypeOK'
      BY <1>0, <2>3, Moves, StepNames, IdleIsThread DEF TypeOK, Fails, Forgotten
    <3>3. Has(s)' /\ (container'[s] # "none" => s \in dirs')
      BY <1>0, <2>3, IsolationAssumption, <3>1 DEF TypeOK, Sound, Has, Working, Undoing, Fails, Forgotten
    <3>4. s \notin failed' => Leaves(s)'
      BY <1>0, <2>3, IsolationAssumption, <3>1 DEF TypeOK, Sound, Has, Leaves, Left, Working, Undoing, Fails,
         Forgotten
    <3>5. s \in attached' => tracked'[s] = network'[s] \/ s \in unlisted'
      BY <1>0, <2>3, IsolationAssumption, <1>1 DEF TypeOK, Sound, Has, Working, Fails, Forgotten
    <3>6. QED
      BY <3>2, <3>3, <3>4, <3>5 DEF Sound
  <2>4. QED
    BY <2>1, <2>2, <2>3 DEF UndoNetwork, Leave, LeaveNetwork, daemonVars, runVars
<1>3. SubnetsDiffer'
  <2> SUFFICES ASSUME NEW p \in Sessions, NEW r \in Sessions, network'[p] = network'[r], network'[p] # NoNet
               PROVE  p = r
    BY DEF SubnetsDiffer
  <2>1. QED
    BY <1>0, IsolationAssumption DEF IInv, TypeOK, SubnetsDiffer, UndoNetwork, At, Go, Fails, Leave,
       LeaveNetwork, Forgotten, daemonVars, runVars
<1>4. OneNetworkPerSubnet'
  <2> SUFFICES ASSUME NEW p \in Sessions, NEW r \in Sessions, tracked'[p] = tracked'[r], tracked'[p] # NoNet
               PROVE  p = r
    BY DEF OneNetworkPerSubnet
  <2>1. QED
    BY <1>0 DEF IInv, TypeOK, OneNetworkPerSubnet, UndoNetwork, At, Go, Fails, Leave, LeaveNetwork, Forgotten,
       daemonVars, runVars
<1>5. QED
  BY <1>1, <1>2, <1>3, <1>4, Frame

LEMMA UndoNetworkRemovalKeeps ==
  ASSUME IInv, NEW s \in Sessions, UndoNetworkRemoval(s)
  PROVE  IInv'
<1>0. TypeOK /\ Sound(s)
  BY DEF IInv
<1>1. phase = "up" /\ phase' = "up" /\ \A r \in Sessions \ {s} : Same(r)
  BY DEF IInv, TypeOK, SubnetsDiffer, Sound, Has, Working, Same, UndoNetworkRemoval, At, Go, Fails,
     RemoveNetwork, Removable, Forgotten, runVars
<1>2. TypeOK' /\ Sound(s)'
  <2>. /\ job[s].at = "undo network removal"
       /\ UNCHANGED <<container, attached, dirs, owner, phase, cut, unlisted, crashes>>
    BY DEF UndoNetworkRemoval, At, Go, Fails, RemoveNetwork, Removable, Forgotten, runVars
  <2>1. ASSUME Removable(s),
               network' = [network EXCEPT ![s] = NoNet],
               tracked' = Forgotten(s),
               failed' = failed,
               Go(s, "undo dirs")
        PROVE  TypeOK' /\ Sound(s)'
    <3>1. job'[s].at = "undo dirs" /\ job'[s].net = job[s].net /\ job'[s].problem = job[s].problem
      BY <1>0, <2>1, Moves, StepNames
    <3>2. TypeOK'
      BY <1>0, <2>1, Moves, StepNames, IdleIsThread DEF TypeOK, Fails, Removable, Forgotten
    <3>3. Has(s)' /\ (container'[s] # "none" => s \in dirs')
      BY <1>0, <2>1, IsolationAssumption, <3>1 DEF TypeOK, Sound, Has, Working, Undoing, Fails, Removable,
         Forgotten
    <3>4. s \notin failed' => Leaves(s)'
      BY <1>0, <2>1, IsolationAssumption, <3>1 DEF TypeOK, Sound, Has, Leaves, Left, Working, Undoing, Fails,
         Removable, Forgotten
    <3>5. s \in attached' => tracked'[s] = network'[s] \/ s \in unlisted'
      BY <1>0, <2>1, IsolationAssumption, <1>1 DEF TypeOK, Sound, Has, Working, Fails, Removable, Forgotten
    <3>6. QED
      BY <3>2, <3>3, <3>4, <3>5 DEF Sound
  <2>2. ASSUME Fails(s),
               UNCHANGED <<network, tracked>>,
               Go(s, "undo dirs")
        PROVE  TypeOK' /\ Sound(s)'
    <3>1. job'[s].at = "undo dirs" /\ job'[s].net = job[s].net /\ job'[s].problem = job[s].problem
      BY <1>0, <2>2, Moves, StepNames
    <3>2. TypeOK'
      BY <1>0, <2>2, Moves, StepNames, IdleIsThread DEF TypeOK, Fails, Removable, Forgotten
    <3>3. Has(s)' /\ (container'[s] # "none" => s \in dirs')
      BY <1>0, <2>2, IsolationAssumption, <3>1 DEF TypeOK, Sound, Has, Working, Undoing, Fails, Removable,
         Forgotten
    <3>4. s \notin failed' => Leaves(s)'
      BY <1>0, <2>2, IsolationAssumption, <3>1 DEF TypeOK, Sound, Has, Leaves, Left, Working, Undoing, Fails,
         Removable, Forgotten
    <3>5. s \in attached' => tracked'[s] = network'[s] \/ s \in unlisted'
      BY <1>0, <2>2, IsolationAssumption, <1>1 DEF TypeOK, Sound, Has, Working, Fails, Removable, Forgotten
    <3>6. QED
      BY <3>2, <3>3, <3>4, <3>5 DEF Sound
  <2>3. QED
    BY <2>1, <2>2 DEF UndoNetworkRemoval, RemoveNetwork, runVars
<1>3. SubnetsDiffer'
  <2> SUFFICES ASSUME NEW p \in Sessions, NEW r \in Sessions, network'[p] = network'[r], network'[p] # NoNet
               PROVE  p = r
    BY DEF SubnetsDiffer
  <2>1. QED
    BY <1>0, IsolationAssumption DEF IInv, TypeOK, SubnetsDiffer, UndoNetworkRemoval, At, Go, Fails,
       RemoveNetwork, Removable, Forgotten, runVars
<1>4. OneNetworkPerSubnet'
  <2> SUFFICES ASSUME NEW p \in Sessions, NEW r \in Sessions, tracked'[p] = tracked'[r], tracked'[p] # NoNet
               PROVE  p = r
    BY DEF OneNetworkPerSubnet
  <2>1. QED
    BY <1>0 DEF IInv, TypeOK, OneNetworkPerSubnet, UndoNetworkRemoval, At, Go, Fails, RemoveNetwork, Removable,
       Forgotten, runVars
<1>5. QED
  BY <1>1, <1>2, <1>3, <1>4, Frame

LEMMA UndoDirsKeeps ==
  ASSUME IInv, NEW s \in Sessions, UndoDirs(s)
  PROVE  IInv'
<1>0. TypeOK /\ Sound(s)
  BY DEF IInv
<1>1. phase = "up" /\ phase' = "up" /\ \A r \in Sessions \ {s} : Same(r)
  BY DEF IInv, TypeOK, SubnetsDiffer, Sound, Has, Working, Same, UndoDirs, At, Fails, RemoveDirs, ThreadEnds,
     daemonVars, runVars
<1>2. TypeOK' /\ Sound(s)'
  <2>. /\ job[s].at = "undo dirs"
       /\ UNCHANGED <<container, network, attached, tracked, phase, cut, unlisted, crashes>>
    BY DEF UndoDirs, At, Fails, RemoveDirs, ThreadEnds, daemonVars, runVars
  <2>1. ASSUME ~job[s].problem,
               dirs' = dirs \ {s},
               failed' = failed,
               ThreadEnds(s)
        PROVE  TypeOK' /\ Sound(s)'
    <3>1. job'[s].at = "idle" /\ ~job'[s].net /\ ~job'[s].problem
      BY <1>0, <2>1, IdleStep DEF TypeOK, ThreadEnds
    <3>2. TypeOK'
      BY <1>0, <2>1, Moves, StepNames, IdleIsThread DEF TypeOK, Fails, ThreadEnds
    <3>3. Has(s)' /\ (container'[s] # "none" => s \in dirs')
      BY <1>0, <2>1, IsolationAssumption, <3>1 DEF TypeOK, Sound, Has, Working, Undoing, Fails, ThreadEnds
    <3>4. s \notin failed' => Leaves(s)'
      BY <1>0, <2>1, IsolationAssumption, <3>1 DEF TypeOK, Sound, Has, Leaves, Left, Working, Undoing, Fails,
         ThreadEnds
    <3>5. s \in attached' => tracked'[s] = network'[s] \/ s \in unlisted'
      BY <1>0, <2>1, IsolationAssumption, <1>1 DEF TypeOK, Sound, Has, Working, Fails, ThreadEnds
    <3>6. QED
      BY <3>2, <3>3, <3>4, <3>5 DEF Sound
  <2>2. ASSUME dirs' = dirs,
               Fails(s),
               ThreadEnds(s)
        PROVE  TypeOK' /\ Sound(s)'
    <3>1. job'[s].at = "idle" /\ ~job'[s].net /\ ~job'[s].problem
      BY <1>0, <2>2, IdleStep DEF TypeOK, ThreadEnds
    <3>2. TypeOK'
      BY <1>0, <2>2, Moves, StepNames, IdleIsThread DEF TypeOK, Fails, ThreadEnds
    <3>3. Has(s)' /\ (container'[s] # "none" => s \in dirs')
      BY <1>0, <2>2, IsolationAssumption, <3>1 DEF TypeOK, Sound, Has, Working, Undoing, Fails, ThreadEnds
    <3>4. s \notin failed' => Leaves(s)'
      BY <1>0, <2>2, IsolationAssumption, <3>1 DEF TypeOK, Sound, Has, Leaves, Left, Working, Undoing, Fails,
         ThreadEnds
    <3>5. s \in attached' => tracked'[s] = network'[s] \/ s \in unlisted'
      BY <1>0, <2>2, IsolationAssumption, <1>1 DEF TypeOK, Sound, Has, Working, Fails, ThreadEnds
    <3>6. QED
      BY <3>2, <3>3, <3>4, <3>5 DEF Sound
  <2>3. QED
    BY <2>1, <2>2 DEF UndoDirs, RemoveDirs, daemonVars, runVars
<1>3. SubnetsDiffer'
  <2> SUFFICES ASSUME NEW p \in Sessions, NEW r \in Sessions, network'[p] = network'[r], network'[p] # NoNet
               PROVE  p = r
    BY DEF SubnetsDiffer
  <2>1. QED
    BY <1>0, IsolationAssumption DEF IInv, TypeOK, SubnetsDiffer, UndoDirs, At, Fails, RemoveDirs, ThreadEnds,
       daemonVars, runVars
<1>4. OneNetworkPerSubnet'
  <2> SUFFICES ASSUME NEW p \in Sessions, NEW r \in Sessions, tracked'[p] = tracked'[r], tracked'[p] # NoNet
               PROVE  p = r
    BY DEF OneNetworkPerSubnet
  <2>1. QED
    BY <1>0 DEF IInv, TypeOK, OneNetworkPerSubnet, UndoDirs, At, Fails, RemoveDirs, ThreadEnds, daemonVars,
       runVars
<1>5. QED
  BY <1>1, <1>2, <1>3, <1>4, Frame

LEMMA AbandonedKeeps ==
  ASSUME IInv, NEW s \in Sessions, Abandoned(s)
  PROVE  IInv'
<1>0. TypeOK /\ Sound(s)
  BY DEF IInv
<1>1. phase = "up" /\ phase' = "up" /\ \A r \in Sessions \ {s} : Same(r)
  BY DEF IInv, TypeOK, SubnetsDiffer, Sound, Has, Working, Same, Abandoned, At, ThreadEnds, daemonVars, runVars
<1>2. TypeOK' /\ Sound(s)'
  <2>1. job'[s].at = "idle" /\ ~job'[s].net /\ ~job'[s].problem
    BY <1>0, IdleStep, Moves, StepNames DEF TypeOK, Abandoned, At, ThreadEnds, daemonVars, runVars
  <2>2. TypeOK'
    BY <1>0, IdleIsThread, IdleStep, IsolationAssumption, Moves, StepNames DEF TypeOK, Threads, Abandoned, At,
       ThreadEnds, daemonVars, runVars
  <2>3. Has(s)' /\ (container'[s] # "none" => s \in dirs')
    BY <1>0, <1>1, <2>1, IdleStep DEF TypeOK, Sound, Has, Working, Undoing, Abandoned, At, ThreadEnds,
       daemonVars, runVars
  <2>4. s \notin failed' => Leaves(s)'
    BY <1>0, <1>1, <2>1, IdleStep DEF TypeOK, Sound, Has, Leaves, Left, Working, Undoing, Abandoned, At,
       ThreadEnds, daemonVars, runVars
  <2>5. s \in attached' => tracked'[s] = network'[s] \/ s \in unlisted'
    BY <1>0 DEF TypeOK, Sound, Has, Abandoned, At, ThreadEnds, daemonVars, runVars
  <2>6. QED
    BY <2>2, <2>3, <2>4, <2>5 DEF Sound
<1>3. SubnetsDiffer'
  <2> SUFFICES ASSUME NEW p \in Sessions, NEW r \in Sessions, network'[p] = network'[r], network'[p] # NoNet
               PROVE  p = r
    BY DEF SubnetsDiffer
  <2>1. QED
    BY <1>0, IsolationAssumption DEF IInv, TypeOK, SubnetsDiffer, Abandoned, At, ThreadEnds, daemonVars, runVars
<1>4. OneNetworkPerSubnet'
  <2> SUFFICES ASSUME NEW p \in Sessions, NEW r \in Sessions, tracked'[p] = tracked'[r], tracked'[p] # NoNet
               PROVE  p = r
    BY DEF OneNetworkPerSubnet
  <2>1. QED
    BY <1>0 DEF IInv, TypeOK, OneNetworkPerSubnet, Abandoned, At, ThreadEnds, daemonVars, runVars
<1>5. QED
  BY <1>1, <1>2, <1>3, <1>4, Frame

LEMMA ReadyKeeps ==
  ASSUME IInv, NEW s \in Sessions, Ready(s)
  PROVE  IInv'
<1>0. TypeOK /\ Sound(s)
  BY DEF IInv
<1>1. phase = "up" /\ phase' = "up" /\ \A r \in Sessions \ {s} : Same(r)
  BY DEF IInv, TypeOK, SubnetsDiffer, Sound, Has, Working, Same, Ready, At, daemonVars, runVars
<1>2. TypeOK' /\ Sound(s)'
  <2>1. job'[s].at = "idle" /\ ~job'[s].net /\ ~job'[s].problem
    BY <1>0, IdleStep, Moves, StepNames DEF TypeOK, Ready, At, daemonVars, runVars
  <2>2. TypeOK'
    BY <1>0, IdleIsThread, IdleStep, IsolationAssumption, Moves, StepNames DEF TypeOK, Threads, Ready, At,
       daemonVars, runVars
  <2>3. Has(s)' /\ (container'[s] # "none" => s \in dirs')
    BY <1>0, <1>1, <2>1, IdleStep DEF TypeOK, Sound, Has, Working, Undoing, Ready, At, daemonVars, runVars
  <2>4. s \notin failed' => Leaves(s)'
    BY <1>0, <1>1, <2>1, IdleStep DEF TypeOK, Sound, Has, Leaves, Left, Working, Undoing, Ready, At, daemonVars,
       runVars
  <2>5. s \in attached' => tracked'[s] = network'[s] \/ s \in unlisted'
    BY <1>0 DEF TypeOK, Sound, Has, Ready, At, daemonVars, runVars
  <2>6. QED
    BY <2>2, <2>3, <2>4, <2>5 DEF Sound
<1>3. SubnetsDiffer'
  <2> SUFFICES ASSUME NEW p \in Sessions, NEW r \in Sessions, network'[p] = network'[r], network'[p] # NoNet
               PROVE  p = r
    BY DEF SubnetsDiffer
  <2>1. QED
    BY <1>0, IsolationAssumption DEF IInv, TypeOK, SubnetsDiffer, Ready, At, daemonVars, runVars
<1>4. OneNetworkPerSubnet'
  <2> SUFFICES ASSUME NEW p \in Sessions, NEW r \in Sessions, tracked'[p] = tracked'[r], tracked'[p] # NoNet
               PROVE  p = r
    BY DEF OneNetworkPerSubnet
  <2>1. QED
    BY <1>0 DEF IInv, TypeOK, OneNetworkPerSubnet, Ready, At, daemonVars, runVars
<1>5. QED
  BY <1>1, <1>2, <1>3, <1>4, Frame

LEMMA GiveUpKeeps ==
  ASSUME IInv, NEW s \in Sessions, GiveUp(s)
  PROVE  IInv'
<1>0. TypeOK /\ Sound(s)
  BY DEF IInv
<1>1. phase = "up" /\ phase' = "up" /\ \A r \in Sessions \ {s} : Same(r)
  BY DEF IInv, TypeOK, SubnetsDiffer, Sound, Has, Working, Same, GiveUp, At, Go, daemonVars, runVars
<1>2. TypeOK' /\ Sound(s)'
  <2>1. job'[s].at = "release container" /\ job'[s].net = job[s].net /\ job'[s].problem = job[s].problem
    BY <1>0, IdleStep, Moves, StepNames DEF TypeOK, GiveUp, At, daemonVars, runVars
  <2>2. TypeOK'
    BY <1>0, IdleIsThread, IdleStep, IsolationAssumption, Moves, StepNames DEF TypeOK, Threads, GiveUp, At,
       daemonVars, runVars
  <2>3. Has(s)' /\ (container'[s] # "none" => s \in dirs')
    BY <1>0, <1>1, <2>1, IdleStep DEF TypeOK, Sound, Has, Working, Undoing, GiveUp, At, daemonVars, runVars
  <2>4. s \notin failed' => Leaves(s)'
    BY <1>0, <1>1, <2>1, IdleStep DEF TypeOK, Sound, Has, Leaves, Left, Working, Undoing, GiveUp, At,
       daemonVars, runVars
  <2>5. s \in attached' => tracked'[s] = network'[s] \/ s \in unlisted'
    BY <1>0 DEF TypeOK, Sound, Has, GiveUp, At, daemonVars, runVars
  <2>6. QED
    BY <2>2, <2>3, <2>4, <2>5 DEF Sound
<1>3. SubnetsDiffer'
  <2> SUFFICES ASSUME NEW p \in Sessions, NEW r \in Sessions, network'[p] = network'[r], network'[p] # NoNet
               PROVE  p = r
    BY DEF SubnetsDiffer
  <2>1. QED
    BY <1>0, IsolationAssumption DEF IInv, TypeOK, SubnetsDiffer, GiveUp, At, Go, daemonVars, runVars
<1>4. OneNetworkPerSubnet'
  <2> SUFFICES ASSUME NEW p \in Sessions, NEW r \in Sessions, tracked'[p] = tracked'[r], tracked'[p] # NoNet
               PROVE  p = r
    BY DEF OneNetworkPerSubnet
  <2>1. QED
    BY <1>0 DEF IInv, TypeOK, OneNetworkPerSubnet, GiveUp, At, Go, daemonVars, runVars
<1>5. QED
  BY <1>1, <1>2, <1>3, <1>4, Frame

LEMMA CancelCreateKeeps ==
  ASSUME IInv, NEW s \in Sessions, CancelCreate(s)
  PROVE  IInv'
<1>0. TypeOK /\ Sound(s)
  BY DEF IInv
<1>1. phase = "up" /\ phase' = "up" /\ \A r \in Sessions \ {s} : Same(r)
  BY DEF IInv, TypeOK, SubnetsDiffer, Sound, Has, Working, Same, CancelCreate, daemonVars, runVars
<1>2. TypeOK' /\ Sound(s)'
  <2>1. TypeOK'
    BY <1>0, IdleIsThread, IdleStep, IsolationAssumption, Moves, StepNames DEF TypeOK, Threads, CancelCreate,
       daemonVars, runVars
  <2>2. Sound(s)'
    BY <1>0 DEF TypeOK, Sound, Has, Leaves, Left, Working, Undoing, Threads, CancelCreate, daemonVars, runVars
  <2>3. QED
    BY <2>1, <2>2
<1>3. SubnetsDiffer'
  <2> SUFFICES ASSUME NEW p \in Sessions, NEW r \in Sessions, network'[p] = network'[r], network'[p] # NoNet
               PROVE  p = r
    BY DEF SubnetsDiffer
  <2>1. QED
    BY <1>0, IsolationAssumption DEF IInv, TypeOK, SubnetsDiffer, CancelCreate, daemonVars, runVars
<1>4. OneNetworkPerSubnet'
  <2> SUFFICES ASSUME NEW p \in Sessions, NEW r \in Sessions, tracked'[p] = tracked'[r], tracked'[p] # NoNet
               PROVE  p = r
    BY DEF OneNetworkPerSubnet
  <2>1. QED
    BY <1>0 DEF IInv, TypeOK, OneNetworkPerSubnet, CancelCreate, daemonVars, runVars
<1>5. QED
  BY <1>1, <1>2, <1>3, <1>4, Frame

LEMMA ReleaseKeeps ==
  ASSUME IInv, NEW s \in Sessions, Release(s)
  PROVE  IInv'
<1>0. TypeOK /\ Sound(s)
  BY DEF IInv
<1>1. phase = "up" /\ phase' = "up" /\ \A r \in Sessions \ {s} : Same(r)
  BY DEF IInv, TypeOK, SubnetsDiffer, Sound, Has, Working, Same, Release, Go, daemonVars, runVars
<1>2. TypeOK' /\ Sound(s)'
  <2>1. job'[s].at = "release container" /\ job'[s].net = job[s].net /\ job'[s].problem = job[s].problem
    BY <1>0, IdleStep, Moves, StepNames DEF TypeOK, Release, daemonVars, runVars
  <2>2. TypeOK'
    BY <1>0, IdleIsThread, IdleStep, IsolationAssumption, Moves, StepNames DEF TypeOK, Threads, Release,
       daemonVars, runVars
  <2>3. Has(s)' /\ (container'[s] # "none" => s \in dirs')
    BY <1>0, <1>1, <2>1, IdleStep DEF TypeOK, Sound, Has, Working, Undoing, Release, daemonVars, runVars
  <2>4. s \notin failed' => Leaves(s)'
    BY <1>0, <1>1, <2>1, IdleStep DEF TypeOK, Sound, Has, Leaves, Left, Working, Undoing, Release, daemonVars,
       runVars
  <2>5. s \in attached' => tracked'[s] = network'[s] \/ s \in unlisted'
    BY <1>0 DEF TypeOK, Sound, Has, Release, daemonVars, runVars
  <2>6. QED
    BY <2>2, <2>3, <2>4, <2>5 DEF Sound
<1>3. SubnetsDiffer'
  <2> SUFFICES ASSUME NEW p \in Sessions, NEW r \in Sessions, network'[p] = network'[r], network'[p] # NoNet
               PROVE  p = r
    BY DEF SubnetsDiffer
  <2>1. QED
    BY <1>0, IsolationAssumption DEF IInv, TypeOK, SubnetsDiffer, Release, Go, daemonVars, runVars
<1>4. OneNetworkPerSubnet'
  <2> SUFFICES ASSUME NEW p \in Sessions, NEW r \in Sessions, tracked'[p] = tracked'[r], tracked'[p] # NoNet
               PROVE  p = r
    BY DEF OneNetworkPerSubnet
  <2>1. QED
    BY <1>0 DEF IInv, TypeOK, OneNetworkPerSubnet, Release, Go, daemonVars, runVars
<1>5. QED
  BY <1>1, <1>2, <1>3, <1>4, Frame

LEMMA ReleaseContainerKeeps ==
  ASSUME IInv, NEW s \in Sessions, ReleaseContainer(s)
  PROVE  IInv'
<1>0. TypeOK /\ Sound(s)
  BY DEF IInv
<1>1. phase = "up" /\ phase' = "up" /\ \A r \in Sessions \ {s} : Same(r)
  BY DEF IInv, TypeOK, SubnetsDiffer, Sound, Has, Working, Same, ReleaseContainer, At, Go, Fails, ThreadEnds,
     runVars
<1>2. TypeOK' /\ Sound(s)'
  <2>. /\ job[s].at = "release container"
       /\ UNCHANGED <<network, attached, dirs, tracked, phase, cut, unlisted, crashes>>
    BY DEF ReleaseContainer, At, Go, Fails, ThreadEnds, runVars
  <2>1. ASSUME ThreadEnds(s),
               Fails(s),
               container' = container
        PROVE  TypeOK' /\ Sound(s)'
    <3>1. job'[s].at = "idle" /\ ~job'[s].net /\ ~job'[s].problem
      BY <1>0, <2>1, IdleStep DEF TypeOK, ThreadEnds
    <3>2. TypeOK'
      BY <1>0, <2>1, Moves, StepNames, IdleIsThread DEF TypeOK, Fails, ThreadEnds
    <3>3. Has(s)' /\ (container'[s] # "none" => s \in dirs')
      BY <1>0, <2>1, IsolationAssumption, <3>1 DEF TypeOK, Sound, Has, Working, Undoing, Fails, ThreadEnds
    <3>4. s \notin failed' => Leaves(s)'
      BY <1>0, <2>1, IsolationAssumption, <3>1 DEF TypeOK, Sound, Has, Leaves, Left, Working, Undoing, Fails,
         ThreadEnds
    <3>5. s \in attached' => tracked'[s] = network'[s] \/ s \in unlisted'
      BY <1>0, <2>1, IsolationAssumption, <1>1 DEF TypeOK, Sound, Has, Working, Fails, ThreadEnds
    <3>6. QED
      BY <3>2, <3>3, <3>4, <3>5 DEF Sound
  <2>2. ASSUME container' = [container EXCEPT ![s] = "none"],
               Go(s, "release lookup"),
               UNCHANGED <<owner, failed>>
        PROVE  TypeOK' /\ Sound(s)'
    <3>1. job'[s].at = "release lookup" /\ job'[s].net = job[s].net /\ job'[s].problem = job[s].problem
      BY <1>0, <2>2, Moves, StepNames
    <3>2. TypeOK'
      BY <1>0, <2>2, Moves, StepNames, IdleIsThread DEF TypeOK, Fails, ThreadEnds
    <3>3. Has(s)' /\ (container'[s] # "none" => s \in dirs')
      BY <1>0, <2>2, IsolationAssumption, <3>1 DEF TypeOK, Sound, Has, Working, Undoing, Fails, ThreadEnds
    <3>4. s \notin failed' => Leaves(s)'
      BY <1>0, <2>2, IsolationAssumption, <3>1 DEF TypeOK, Sound, Has, Leaves, Left, Working, Undoing, Fails,
         ThreadEnds
    <3>5. s \in attached' => tracked'[s] = network'[s] \/ s \in unlisted'
      BY <1>0, <2>2, IsolationAssumption, <1>1 DEF TypeOK, Sound, Has, Working, Fails, ThreadEnds
    <3>6. QED
      BY <3>2, <3>3, <3>4, <3>5 DEF Sound
  <2>3. ASSUME job' = [job EXCEPT ![s].at = "release lookup", ![s].problem = TRUE],
               Fails(s),
               UNCHANGED <<container, owner>>
        PROVE  TypeOK' /\ Sound(s)'
    <3>1. job'[s].at = "release lookup" /\ job'[s].net = job[s].net /\ job'[s].problem
      <4>1. job[s] \in Threads /\ job'[s] = [job[s] EXCEPT !.at = "release lookup", !.problem = TRUE]
        BY <1>0, <2>3 DEF TypeOK
      <4>2. QED
        BY <4>1 DEF Threads
    <3>2. TypeOK'
      BY <1>0, <2>3, Moves, StepNames, IdleIsThread DEF TypeOK, Threads, Fails, ThreadEnds
    <3>3. Has(s)' /\ (container'[s] # "none" => s \in dirs')
      BY <1>0, <2>3, IsolationAssumption, <3>1 DEF TypeOK, Sound, Has, Working, Undoing, Fails, ThreadEnds
    <3>4. s \notin failed' => Leaves(s)'
      BY <1>0, <2>3, IsolationAssumption, <3>1 DEF TypeOK, Sound, Has, Leaves, Left, Working, Undoing, Fails,
         ThreadEnds
    <3>5. s \in attached' => tracked'[s] = network'[s] \/ s \in unlisted'
      BY <1>0, <2>3, IsolationAssumption, <1>1 DEF TypeOK, Sound, Has, Working, Fails, ThreadEnds
    <3>6. QED
      BY <3>2, <3>3, <3>4, <3>5 DEF Sound
  <2>4. QED
    BY <2>1, <2>2, <2>3 DEF ReleaseContainer, runVars
<1>3. SubnetsDiffer'
  <2> SUFFICES ASSUME NEW p \in Sessions, NEW r \in Sessions, network'[p] = network'[r], network'[p] # NoNet
               PROVE  p = r
    BY DEF SubnetsDiffer
  <2>1. QED
    BY <1>0, IsolationAssumption DEF IInv, TypeOK, SubnetsDiffer, ReleaseContainer, At, Go, Fails, ThreadEnds,
       runVars
<1>4. OneNetworkPerSubnet'
  <2> SUFFICES ASSUME NEW p \in Sessions, NEW r \in Sessions, tracked'[p] = tracked'[r], tracked'[p] # NoNet
               PROVE  p = r
    BY DEF OneNetworkPerSubnet
  <2>1. QED
    BY <1>0 DEF IInv, TypeOK, OneNetworkPerSubnet, ReleaseContainer, At, Go, Fails, ThreadEnds, runVars
<1>5. QED
  BY <1>1, <1>2, <1>3, <1>4, Frame

LEMMA ReleaseLookupKeeps ==
  ASSUME IInv, NEW s \in Sessions, ReleaseLookup(s)
  PROVE  IInv'
<1>0. TypeOK /\ Sound(s)
  BY DEF IInv
<1>1. phase = "up" /\ phase' = "up" /\ \A r \in Sessions \ {s} : Same(r)
  <2>1. phase = "up" /\ phase' = "up"
    BY DEF ReleaseLookup, At, LeaveNetwork, runVars
  <2>2. ASSUME NEW r \in Sessions \ {s}
        PROVE  Same(r)
    <3>1. job'[r] = job[r]
      BY <1>0, <2>2, Moves, StepNames DEF TypeOK, ReleaseLookup, LeaveNetwork, ThreadEnds
    <3>2. tracked'[r] = tracked[r]
      BY <1>0, <2>2 DEF TypeOK, ReleaseLookup, LeaveNetwork, Leave, Forgotten
    <3>3. container'[r] = container[r] /\ owner'[r] = owner[r]
      BY <1>0, <2>2 DEF TypeOK, ReleaseLookup, LeaveNetwork, ThreadEnds, daemonVars
    <3>4. QED
      BY <1>0, <2>1, <2>2, <3>1, <3>2, <3>3 DEF Same, ReleaseLookup, LeaveNetwork, Leave, Fails, daemonVars,
         runVars
  <2>3. QED
    BY <2>1, <2>2
<1>2. TypeOK' /\ Sound(s)'
  <2>. /\ job[s].at = "release lookup"
       /\ UNCHANGED <<network, attached, dirs, tracked, phase, cut, unlisted, crashes>>
    BY DEF ReleaseLookup, At, Go, Fails, ThreadEnds, runVars
  <2>1. ASSUME ThreadEnds(s),
               Fails(s),
               container' = container
        PROVE  TypeOK' /\ Sound(s)'
    <3>1. job'[s].at = "idle" /\ ~job'[s].net /\ ~job'[s].problem
      BY <1>0, <2>1, IdleStep DEF TypeOK, ThreadEnds
    <3>2. TypeOK'
      BY <1>0, <2>1, Moves, StepNames, IdleIsThread DEF TypeOK, Fails, ThreadEnds
    <3>3. Has(s)' /\ (container'[s] # "none" => s \in dirs')
      BY <1>0, <2>1, IsolationAssumption, <3>1 DEF TypeOK, Sound, Has, Working, Undoing, Fails, ThreadEnds
    <3>4. s \notin failed' => Leaves(s)'
      BY <1>0, <2>1, IsolationAssumption, <3>1 DEF TypeOK, Sound, Has, Leaves, Left, Working, Undoing, Fails,
         ThreadEnds
    <3>5. s \in attached' => tracked'[s] = network'[s] \/ s \in unlisted'
      BY <1>0, <2>1, IsolationAssumption, <1>1 DEF TypeOK, Sound, Has, Working, Fails, ThreadEnds
    <3>6. QED
      BY <3>2, <3>3, <3>4, <3>5 DEF Sound
  <2>2. ASSUME network[s] = NoNet,
               Go(s, "release dirs"),
               IF job[s].problem 
                 THEN container' \in {container, [container EXCEPT ![s] = IF @ = "up" THEN "apart" ELSE @]} 
                 ELSE container' = container,
               UNCHANGED <<owner, failed>>
        PROVE  TypeOK' /\ Sound(s)'
    <3>1. job'[s].at = "release dirs" /\ job'[s].net = job[s].net /\ job'[s].problem = job[s].problem
      BY <1>0, <2>2, Moves, StepNames
    <3>2. TypeOK'
      <4>1. container' \in [Sessions -> {"none", "up", "apart"}]
        BY <1>0, <2>2 DEF TypeOK
      <4>2. QED
        BY <1>0, <2>2, <4>1, Moves, StepNames DEF TypeOK
    <3>3. Has(s)' /\ (container'[s] # "none" => s \in dirs')
      BY <1>0, <2>2, IsolationAssumption, <3>1 DEF TypeOK, Sound, Has, Working, Undoing, Fails, ThreadEnds
    <3>4. s \notin failed' => Leaves(s)'
      BY <1>0, <2>2, IsolationAssumption, <3>1 DEF TypeOK, Sound, Has, Leaves, Left, Working, Undoing, Fails,
         ThreadEnds
    <3>5. s \in attached' => tracked'[s] = network'[s] \/ s \in unlisted'
      BY <1>0, <2>2, IsolationAssumption, <1>1 DEF TypeOK, Sound, Has, Working, Fails, ThreadEnds
    <3>6. QED
      BY <3>2, <3>3, <3>4, <3>5 DEF Sound
  <2>3. ASSUME network[s] # NoNet,
               Go(s, "release network"),
               IF job[s].problem 
                 THEN container' \in {container, [container EXCEPT ![s] = IF @ = "up" THEN "apart" ELSE @]} 
                 ELSE container' = container,
               UNCHANGED <<owner, failed>>
        PROVE  TypeOK' /\ Sound(s)'
    <3>1. job'[s].at = "release network" /\ job'[s].net = job[s].net /\ job'[s].problem = job[s].problem
      BY <1>0, <2>3, Moves, StepNames
    <3>2. TypeOK'
      <4>1. container' \in [Sessions -> {"none", "up", "apart"}]
        BY <1>0, <2>3 DEF TypeOK
      <4>2. QED
        BY <1>0, <2>3, <4>1, Moves, StepNames DEF TypeOK
    <3>3. Has(s)' /\ (container'[s] # "none" => s \in dirs')
      BY <1>0, <2>3, IsolationAssumption, <3>1 DEF TypeOK, Sound, Has, Working, Undoing, Fails, ThreadEnds
    <3>4. s \notin failed' => Leaves(s)'
      BY <1>0, <2>3, IsolationAssumption, <3>1 DEF TypeOK, Sound, Has, Leaves, Left, Working, Undoing, Fails,
         ThreadEnds
    <3>5. s \in attached' => tracked'[s] = network'[s] \/ s \in unlisted'
      BY <1>0, <2>3, IsolationAssumption, <1>1 DEF TypeOK, Sound, Has, Working, Fails, ThreadEnds
    <3>6. QED
      BY <3>2, <3>3, <3>4, <3>5 DEF Sound
  <2>4. QED
    BY <2>1, <2>2, <2>3 DEF ReleaseLookup, runVars
<1>3. SubnetsDiffer'
  <2> SUFFICES ASSUME NEW p \in Sessions, NEW r \in Sessions, network'[p] = network'[r], network'[p] # NoNet
               PROVE  p = r
    BY DEF SubnetsDiffer
  <2>1. QED
    BY <1>0, IsolationAssumption DEF IInv, TypeOK, SubnetsDiffer, ReleaseLookup, At, Go, Fails, ThreadEnds,
       runVars
<1>4. OneNetworkPerSubnet'
  <2> SUFFICES ASSUME NEW p \in Sessions, NEW r \in Sessions, tracked'[p] = tracked'[r], tracked'[p] # NoNet
               PROVE  p = r
    BY DEF OneNetworkPerSubnet
  <2>1. QED
    BY <1>0 DEF IInv, TypeOK, OneNetworkPerSubnet, ReleaseLookup, At, Go, Fails, ThreadEnds, runVars
<1>5. QED
  BY <1>1, <1>2, <1>3, <1>4, Frame

LEMMA ReleaseNetworkKeeps ==
  ASSUME IInv, NEW s \in Sessions, ReleaseNetwork(s)
  PROVE  IInv'
<1>0. TypeOK /\ Sound(s)
  BY DEF IInv
<1>1. phase = "up" /\ phase' = "up" /\ \A r \in Sessions \ {s} : Same(r)
  BY DEF IInv, TypeOK, SubnetsDiffer, Sound, Has, Working, Same, ReleaseNetwork, At, Go, Fails, Leave,
     LeaveNetwork, Forgotten, runVars
<1>2. TypeOK' /\ Sound(s)'
  <2>. /\ job[s].at = "release network"
       /\ UNCHANGED <<container, network, dirs, owner, phase, cut, unlisted, crashes>>
    BY DEF ReleaseNetwork, At, Go, Fails, Leave, LeaveNetwork, Forgotten, runVars
  <2>1. ASSUME attached' = attached \ {s},
               tracked' = Forgotten(s),
               failed' = failed,
               Go(s, "release network removal")
        PROVE  TypeOK' /\ Sound(s)'
    <3>1. job'[s].at = "release network removal" /\ job'[s].net = job[s].net /\ job'[s].problem = job[s].problem
      BY <1>0, <2>1, Moves, StepNames
    <3>2. TypeOK'
      BY <1>0, <2>1, Moves, StepNames, IdleIsThread DEF TypeOK, Fails, Forgotten
    <3>3. Has(s)' /\ (container'[s] # "none" => s \in dirs')
      BY <1>0, <2>1, IsolationAssumption, <3>1 DEF TypeOK, Sound, Has, Working, Undoing, Fails, Forgotten
    <3>4. s \notin failed' => Leaves(s)'
      BY <1>0, <2>1, IsolationAssumption, <3>1 DEF TypeOK, Sound, Has, Leaves, Left, Working, Undoing, Fails,
         Forgotten
    <3>5. s \in attached' => tracked'[s] = network'[s] \/ s \in unlisted'
      BY <1>0, <2>1, IsolationAssumption, <1>1 DEF TypeOK, Sound, Has, Working, Fails, Forgotten
    <3>6. QED
      BY <3>2, <3>3, <3>4, <3>5 DEF Sound
  <2>2. ASSUME UNCHANGED <<attached, tracked>>,
               Fails(s),
               Go(s, "release network removal")
        PROVE  TypeOK' /\ Sound(s)'
    <3>1. job'[s].at = "release network removal" /\ job'[s].net = job[s].net /\ job'[s].problem = job[s].problem
      BY <1>0, <2>2, Moves, StepNames
    <3>2. TypeOK'
      BY <1>0, <2>2, Moves, StepNames, IdleIsThread DEF TypeOK, Fails, Forgotten
    <3>3. Has(s)' /\ (container'[s] # "none" => s \in dirs')
      BY <1>0, <2>2, IsolationAssumption, <3>1 DEF TypeOK, Sound, Has, Working, Undoing, Fails, Forgotten
    <3>4. s \notin failed' => Leaves(s)'
      BY <1>0, <2>2, IsolationAssumption, <3>1 DEF TypeOK, Sound, Has, Leaves, Left, Working, Undoing, Fails,
         Forgotten
    <3>5. s \in attached' => tracked'[s] = network'[s] \/ s \in unlisted'
      BY <1>0, <2>2, IsolationAssumption, <1>1 DEF TypeOK, Sound, Has, Working, Fails, Forgotten
    <3>6. QED
      BY <3>2, <3>3, <3>4, <3>5 DEF Sound
  <2>3. QED
    BY <2>1, <2>2 DEF ReleaseNetwork, Leave, LeaveNetwork, runVars
<1>3. SubnetsDiffer'
  <2> SUFFICES ASSUME NEW p \in Sessions, NEW r \in Sessions, network'[p] = network'[r], network'[p] # NoNet
               PROVE  p = r
    BY DEF SubnetsDiffer
  <2>1. QED
    BY <1>0, IsolationAssumption DEF IInv, TypeOK, SubnetsDiffer, ReleaseNetwork, At, Go, Fails, Leave,
       LeaveNetwork, Forgotten, runVars
<1>4. OneNetworkPerSubnet'
  <2> SUFFICES ASSUME NEW p \in Sessions, NEW r \in Sessions, tracked'[p] = tracked'[r], tracked'[p] # NoNet
               PROVE  p = r
    BY DEF OneNetworkPerSubnet
  <2>1. QED
    BY <1>0 DEF IInv, TypeOK, OneNetworkPerSubnet, ReleaseNetwork, At, Go, Fails, Leave, LeaveNetwork,
       Forgotten, runVars
<1>5. QED
  BY <1>1, <1>2, <1>3, <1>4, Frame

LEMMA ReleaseNetworkRemovalKeeps ==
  ASSUME IInv, NEW s \in Sessions, ReleaseNetworkRemoval(s)
  PROVE  IInv'
<1>0. TypeOK /\ Sound(s)
  BY DEF IInv
<1>1. phase = "up" /\ phase' = "up" /\ \A r \in Sessions \ {s} : Same(r)
  BY DEF IInv, TypeOK, SubnetsDiffer, Sound, Has, Working, Same, ReleaseNetworkRemoval, At, Go, Fails,
     RemoveNetwork, Removable, Forgotten, runVars
<1>2. TypeOK' /\ Sound(s)'
  <2>. /\ job[s].at = "release network removal"
       /\ UNCHANGED <<container, attached, dirs, owner, phase, cut, unlisted, crashes>>
    BY DEF ReleaseNetworkRemoval, At, Go, Fails, RemoveNetwork, Removable, Forgotten, runVars
  <2>1. ASSUME Removable(s),
               network' = [network EXCEPT ![s] = NoNet],
               tracked' = Forgotten(s),
               failed' = failed,
               Go(s, "release dirs")
        PROVE  TypeOK' /\ Sound(s)'
    <3>1. job'[s].at = "release dirs" /\ job'[s].net = job[s].net /\ job'[s].problem = job[s].problem
      BY <1>0, <2>1, Moves, StepNames
    <3>2. TypeOK'
      BY <1>0, <2>1, Moves, StepNames, IdleIsThread DEF TypeOK, Fails, Removable, Forgotten
    <3>3. Has(s)' /\ (container'[s] # "none" => s \in dirs')
      BY <1>0, <2>1, IsolationAssumption, <3>1 DEF TypeOK, Sound, Has, Working, Undoing, Fails, Removable,
         Forgotten
    <3>4. s \notin failed' => Leaves(s)'
      BY <1>0, <2>1, IsolationAssumption, <3>1 DEF TypeOK, Sound, Has, Leaves, Left, Working, Undoing, Fails,
         Removable, Forgotten
    <3>5. s \in attached' => tracked'[s] = network'[s] \/ s \in unlisted'
      BY <1>0, <2>1, IsolationAssumption, <1>1 DEF TypeOK, Sound, Has, Working, Fails, Removable, Forgotten
    <3>6. QED
      BY <3>2, <3>3, <3>4, <3>5 DEF Sound
  <2>2. ASSUME Fails(s),
               UNCHANGED <<network, tracked>>,
               Go(s, "release dirs")
        PROVE  TypeOK' /\ Sound(s)'
    <3>1. job'[s].at = "release dirs" /\ job'[s].net = job[s].net /\ job'[s].problem = job[s].problem
      BY <1>0, <2>2, Moves, StepNames
    <3>2. TypeOK'
      BY <1>0, <2>2, Moves, StepNames, IdleIsThread DEF TypeOK, Fails, Removable, Forgotten
    <3>3. Has(s)' /\ (container'[s] # "none" => s \in dirs')
      BY <1>0, <2>2, IsolationAssumption, <3>1 DEF TypeOK, Sound, Has, Working, Undoing, Fails, Removable,
         Forgotten
    <3>4. s \notin failed' => Leaves(s)'
      BY <1>0, <2>2, IsolationAssumption, <3>1 DEF TypeOK, Sound, Has, Leaves, Left, Working, Undoing, Fails,
         Removable, Forgotten
    <3>5. s \in attached' => tracked'[s] = network'[s] \/ s \in unlisted'
      BY <1>0, <2>2, IsolationAssumption, <1>1 DEF TypeOK, Sound, Has, Working, Fails, Removable, Forgotten
    <3>6. QED
      BY <3>2, <3>3, <3>4, <3>5 DEF Sound
  <2>3. QED
    BY <2>1, <2>2 DEF ReleaseNetworkRemoval, RemoveNetwork, runVars
<1>3. SubnetsDiffer'
  <2> SUFFICES ASSUME NEW p \in Sessions, NEW r \in Sessions, network'[p] = network'[r], network'[p] # NoNet
               PROVE  p = r
    BY DEF SubnetsDiffer
  <2>1. QED
    BY <1>0, IsolationAssumption DEF IInv, TypeOK, SubnetsDiffer, ReleaseNetworkRemoval, At, Go, Fails,
       RemoveNetwork, Removable, Forgotten, runVars
<1>4. OneNetworkPerSubnet'
  <2> SUFFICES ASSUME NEW p \in Sessions, NEW r \in Sessions, tracked'[p] = tracked'[r], tracked'[p] # NoNet
               PROVE  p = r
    BY DEF OneNetworkPerSubnet
  <2>1. QED
    BY <1>0 DEF IInv, TypeOK, OneNetworkPerSubnet, ReleaseNetworkRemoval, At, Go, Fails, RemoveNetwork,
       Removable, Forgotten, runVars
<1>5. QED
  BY <1>1, <1>2, <1>3, <1>4, Frame

LEMMA ReleaseDirsKeeps ==
  ASSUME IInv, NEW s \in Sessions, ReleaseDirs(s)
  PROVE  IInv'
<1>0. TypeOK /\ Sound(s)
  BY DEF IInv
<1>1. phase = "up" /\ phase' = "up" /\ \A r \in Sessions \ {s} : Same(r)
  BY DEF IInv, TypeOK, SubnetsDiffer, Sound, Has, Working, Same, ReleaseDirs, At, Fails, RemoveDirs, ThreadEnds,
     daemonVars, runVars
<1>2. TypeOK' /\ Sound(s)'
  <2>. /\ job[s].at = "release dirs"
       /\ UNCHANGED <<container, network, attached, tracked, phase, cut, unlisted, crashes>>
    BY DEF ReleaseDirs, At, Fails, RemoveDirs, ThreadEnds, daemonVars, runVars
  <2>1. ASSUME ~job[s].problem,
               dirs' = dirs \ {s},
               failed' = failed,
               ThreadEnds(s)
        PROVE  TypeOK' /\ Sound(s)'
    <3>1. job'[s].at = "idle" /\ ~job'[s].net /\ ~job'[s].problem
      BY <1>0, <2>1, IdleStep DEF TypeOK, ThreadEnds
    <3>2. TypeOK'
      BY <1>0, <2>1, Moves, StepNames, IdleIsThread DEF TypeOK, Fails, ThreadEnds
    <3>3. Has(s)' /\ (container'[s] # "none" => s \in dirs')
      BY <1>0, <2>1, IsolationAssumption, <3>1 DEF TypeOK, Sound, Has, Working, Undoing, Fails, ThreadEnds
    <3>4. s \notin failed' => Leaves(s)'
      BY <1>0, <2>1, IsolationAssumption, <3>1 DEF TypeOK, Sound, Has, Leaves, Left, Working, Undoing, Fails,
         ThreadEnds
    <3>5. s \in attached' => tracked'[s] = network'[s] \/ s \in unlisted'
      BY <1>0, <2>1, IsolationAssumption, <1>1 DEF TypeOK, Sound, Has, Working, Fails, ThreadEnds
    <3>6. QED
      BY <3>2, <3>3, <3>4, <3>5 DEF Sound
  <2>2. ASSUME dirs' = dirs,
               Fails(s),
               ThreadEnds(s)
        PROVE  TypeOK' /\ Sound(s)'
    <3>1. job'[s].at = "idle" /\ ~job'[s].net /\ ~job'[s].problem
      BY <1>0, <2>2, IdleStep DEF TypeOK, ThreadEnds
    <3>2. TypeOK'
      BY <1>0, <2>2, Moves, StepNames, IdleIsThread DEF TypeOK, Fails, ThreadEnds
    <3>3. Has(s)' /\ (container'[s] # "none" => s \in dirs')
      BY <1>0, <2>2, IsolationAssumption, <3>1 DEF TypeOK, Sound, Has, Working, Undoing, Fails, ThreadEnds
    <3>4. s \notin failed' => Leaves(s)'
      BY <1>0, <2>2, IsolationAssumption, <3>1 DEF TypeOK, Sound, Has, Leaves, Left, Working, Undoing, Fails,
         ThreadEnds
    <3>5. s \in attached' => tracked'[s] = network'[s] \/ s \in unlisted'
      BY <1>0, <2>2, IsolationAssumption, <1>1 DEF TypeOK, Sound, Has, Working, Fails, ThreadEnds
    <3>6. QED
      BY <3>2, <3>3, <3>4, <3>5 DEF Sound
  <2>3. QED
    BY <2>1, <2>2 DEF ReleaseDirs, RemoveDirs, daemonVars, runVars
<1>3. SubnetsDiffer'
  <2> SUFFICES ASSUME NEW p \in Sessions, NEW r \in Sessions, network'[p] = network'[r], network'[p] # NoNet
               PROVE  p = r
    BY DEF SubnetsDiffer
  <2>1. QED
    BY <1>0, IsolationAssumption DEF IInv, TypeOK, SubnetsDiffer, ReleaseDirs, At, Fails, RemoveDirs,
       ThreadEnds, daemonVars, runVars
<1>4. OneNetworkPerSubnet'
  <2> SUFFICES ASSUME NEW p \in Sessions, NEW r \in Sessions, tracked'[p] = tracked'[r], tracked'[p] # NoNet
               PROVE  p = r
    BY DEF OneNetworkPerSubnet
  <2>1. QED
    BY <1>0 DEF IInv, TypeOK, OneNetworkPerSubnet, ReleaseDirs, At, Fails, RemoveDirs, ThreadEnds, daemonVars,
       runVars
<1>5. QED
  BY <1>1, <1>2, <1>3, <1>4, Frame

LEMMA RemovedByHandKeeps ==
  ASSUME IInv, NEW s \in Sessions, RemovedByHand(s)
  PROVE  IInv'
<1>0. TypeOK /\ Sound(s)
  BY DEF IInv
<1>1. phase = "up" /\ phase' = "up" /\ \A r \in Sessions \ {s} : Same(r)
  BY DEF IInv, TypeOK, SubnetsDiffer, Sound, Has, Working, Same, RemovedByHand, Removable, runVars
<1>2. TypeOK' /\ Sound(s)'
  <2>1. job' = job
    BY <1>0, IdleStep, Moves, StepNames DEF TypeOK, RemovedByHand, Removable, runVars
  <2>2. TypeOK'
    BY <1>0, IdleIsThread, IdleStep, IsolationAssumption, Moves, StepNames DEF TypeOK, Threads, RemovedByHand,
       Removable, runVars
  <2>3. Has(s)' /\ (container'[s] # "none" => s \in dirs')
    BY <1>0, <1>1, <2>1, IdleStep DEF TypeOK, Sound, Has, Working, Undoing, RemovedByHand, Removable, runVars
  <2>4. s \notin failed' => Leaves(s)'
    BY <1>0, <1>1, <2>1, IdleStep DEF TypeOK, Sound, Has, Leaves, Left, Working, Undoing, RemovedByHand,
       Removable, runVars
  <2>5. s \in attached' => tracked'[s] = network'[s] \/ s \in unlisted'
    BY <1>0 DEF TypeOK, Sound, Has, RemovedByHand, Removable, runVars
  <2>6. QED
    BY <2>2, <2>3, <2>4, <2>5 DEF Sound
<1>3. SubnetsDiffer'
  <2> SUFFICES ASSUME NEW p \in Sessions, NEW r \in Sessions, network'[p] = network'[r], network'[p] # NoNet
               PROVE  p = r
    BY DEF SubnetsDiffer
  <2>1. QED
    BY <1>0, IsolationAssumption DEF IInv, TypeOK, SubnetsDiffer, RemovedByHand, Removable, runVars
<1>4. OneNetworkPerSubnet'
  <2> SUFFICES ASSUME NEW p \in Sessions, NEW r \in Sessions, tracked'[p] = tracked'[r], tracked'[p] # NoNet
               PROVE  p = r
    BY DEF OneNetworkPerSubnet
  <2>1. QED
    BY <1>0 DEF IInv, TypeOK, OneNetworkPerSubnet, RemovedByHand, Removable, runVars
<1>5. QED
  BY <1>1, <1>2, <1>3, <1>4, Frame

\* A death keeps the invariant, whatever of the daemon's a sweep had removed by then.
LEMMA DeathKeeps ==
  ASSUME IInv, NEW on, Dies(on),
         container' \in [Sessions -> {"none", "up", "apart"}], dirs' \subseteq Sessions,
         network' \in [Sessions -> Subnets \union {NoNet}], on \subseteq attached,
         \A s \in Sessions :
           /\ container'[s] \in {container[s], "none"}
           /\ network'[s] \in {network[s], NoNet}
           /\ s \in dirs' => s \in dirs
           /\ s \in on => network'[s] # NoNet
           /\ container'[s] # "none" => s \in dirs'
  PROVE  IInv'
<1>1. \A s \in Sessions : job'[s].at = "idle" /\ ~job'[s].net /\ ~job'[s].problem
  BY IdleStep DEF Dies
<1>2. TypeOK'
  <2>1. crashes' \in 0..CrashesMax
    <3>1. crashes \in 0..CrashesMax /\ crashes < CrashesMax /\ crashes' = crashes + 1
      BY DEF IInv, TypeOK, Dies
    <3>2. CrashesMax \in Nat
      BY IsolationAssumption
    <3>3. QED
      BY <3>1, <3>2
  <2>2. owner' \in [Sessions -> {"none", "creating", "live", "releasing", "over"}]
    BY DEF IInv, TypeOK, Dies
  <2>3. job' \in [Sessions -> Threads] /\ tracked' \in [Sessions -> Subnets \union {NoNet}]
    BY IdleIsThread DEF Dies
  <2>4. QED
    BY <2>1, <2>2, <2>3 DEF IInv, TypeOK, Dies
<1>3. ThreadsEnd' /\ SubnetsDiffer' /\ OneNetworkPerSubnet'
  BY <1>1 DEF IInv, ThreadsEnd, SubnetsDiffer, OneNetworkPerSubnet, Dies
<1>4. ASSUME NEW s \in Sessions
      PROVE  Sound(s)'
  <2>1. Sound(s) /\ job'[s].at = "idle" /\ ~job'[s].net /\ ~job'[s].problem
    BY <1>1 DEF IInv
  <2>2. /\ (owner'[s] = "none") = (owner[s] = "none")
        /\ s \in attached' => network'[s] # NoNet
        /\ phase' = "sweeping containers" /\ failed' = failed
    BY DEF Dies
  <2>3. Has(s)'
    BY <2>1, <2>2 DEF Sound, Has, Working, Undoing
  <2>4. s \notin failed' => Leaves(s)'
    BY <2>1, <2>2 DEF Sound, Leaves
  <2>5. QED
    BY <2>2, <2>3, <2>4 DEF Sound
<1>5. QED
  BY <1>2, <1>3, <1>4 DEF IInv

LEMMA CrashKeeps ==
  ASSUME IInv, Crash
  PROVE  IInv'
<1>1. \A s \in Sessions : Sound(s)
  BY DEF IInv
<1>2. QED
  BY <1>1, DeathKeeps DEF IInv, TypeOK, Sound, Has, Crash

LEMMA CrashInContainersKeeps ==
  ASSUME IInv, CrashInContainers
  PROVE  IInv'
<1>1. PICK kept \in SUBSET Sessions, left \in SUBSET dirs : ContainersSwept(kept, left)
  BY DEF CrashInContainers
<1>2. /\ TypeOK /\ \A s \in Sessions : Sound(s)
      /\ Dies(attached) /\ network' = network
  BY DEF IInv, CrashInContainers
<1>3. \A s \in Sessions :
        /\ container'[s] = IF s \in kept THEN container[s] ELSE "none"
        /\ s \in dirs' => s \in dirs
        /\ s \in attached => network'[s] # NoNet
        /\ container'[s] # "none" => s \in dirs'
  BY <1>1, <1>2 DEF ContainersSwept, Sound, Has
<1>4. container' \in [Sessions -> {"none", "up", "apart"}] /\ dirs' \subseteq Sessions
  BY <1>1, <1>2 DEF ContainersSwept, TypeOK
<1>5. QED
  BY <1>2, <1>3, <1>4, DeathKeeps DEF TypeOK

LEMMA CrashInNetworksKeeps ==
  ASSUME IInv, CrashInNetworks
  PROVE  IInv'
<1>1. PICK stay \in SUBSET Networks, kept \in SUBSET Networks :
        NetworksSwept(stay, kept) /\ Dies(attached \ (Networks \ stay))
  BY DEF CrashInNetworks
<1>2. /\ TypeOK /\ \A s \in Sessions : Sound(s)
      /\ UNCHANGED <<container, dirs>>
  BY DEF IInv, CrashInNetworks
<1>3. \A s \in Sessions :
        /\ network'[s] \in {network[s], NoNet}
        /\ s \in attached \ (Networks \ stay) => network'[s] # NoNet
  BY <1>1, <1>2 DEF NetworksSwept, Networks, Sound, Has
<1>4. network' \in [Sessions -> Subnets \union {NoNet}]
  BY <1>1, <1>2 DEF NetworksSwept, TypeOK
<1>5. \A s \in Sessions : container[s] # "none" => s \in dirs
  BY <1>2 DEF Sound
<1>6. QED
  BY <1>1, <1>2, <1>3, <1>4, <1>5, DeathKeeps DEF TypeOK

LEMMA SweepContainersKeeps ==
  ASSUME IInv, SweepContainers
  PROVE  IInv'
<1>0. /\ \A s \in Sessions : job[s].at = "idle" /\ Sound(s)
      /\ TypeOK /\ phase = "sweeping containers" /\ phase' = "sweeping networks"
      /\ UNCHANGED <<network, attached, tracked, job, owner, crashes, cut, unlisted>>
  BY DEF IInv, ThreadsEnd, SweepContainers
<1>1. ThreadsEnd' /\ SubnetsDiffer' /\ OneNetworkPerSubnet'
  BY <1>0 DEF IInv, ThreadsEnd, SubnetsDiffer, OneNetworkPerSubnet
<1>2. CASE UNCHANGED <<container, dirs>> /\ failed' = failed \union Sessions
  <2>1. TypeOK'
    BY <1>0, <1>2 DEF TypeOK
  <2>2. \A s \in Sessions : Sound(s)'
    BY <1>0, <1>2 DEF Sound, Has, Working, Undoing
  <2>3. QED
    BY <1>1, <2>1, <2>2 DEF IInv
<1>3. ASSUME NEW kept \in SUBSET Sessions, NEW left \in SUBSET dirs,
             kept \subseteq {s \in Sessions : container[s] # "none"},
             container' = [s \in Sessions |-> IF s \in kept THEN container[s] ELSE "none"],
             dirs' = dirs \intersect (kept \union left),
             failed' = failed \union kept \union left
      PROVE  IInv'
  <2>1. TypeOK'
    BY <1>0, <1>3 DEF TypeOK
  <2>2. ASSUME NEW s \in Sessions
        PROVE  Sound(s)'
    <3>1. container'[s] = IF s \in kept THEN container[s] ELSE "none"
      BY <1>3
    <3>2. Has(s)' /\ (container'[s] # "none" => s \in dirs')
      BY <1>0, <1>3, <3>1 DEF Sound, Has, Working, Undoing
    <3>3. s \notin failed' => Leaves(s)'
      BY <1>0, <1>3, <3>1 DEF Sound, Leaves, Left, Undoing
    <3>4. QED
      BY <1>0, <3>2, <3>3 DEF Sound
  <2>3. QED
    BY <1>1, <2>1, <2>2 DEF IInv
<1>4. QED
  BY <1>2, <1>3 DEF SweepContainers, ContainersSwept

LEMMA SweepNetworksKeeps ==
  ASSUME IInv, SweepNetworks
  PROVE  IInv'
<1> DEFINE nets == {s \in Sessions : network[s] # NoNet}
<1>0. /\ \A s \in Sessions : job[s].at = "idle" /\ Sound(s)
      /\ TypeOK /\ phase = "sweeping networks" /\ phase' = "up"
      /\ UNCHANGED <<container, dirs, job, owner, crashes, cut>>
  BY DEF IInv, ThreadsEnd, SweepNetworks
<1>1. ThreadsEnd'
  BY <1>0 DEF ThreadsEnd
<1>2. CASE /\ unlisted' = unlisted \union nets /\ failed' = failed \union nets
           /\ UNCHANGED <<network, attached, tracked>>
  <2>1. TypeOK' /\ SubnetsDiffer' /\ OneNetworkPerSubnet'
    BY <1>0, <1>2 DEF IInv, TypeOK, SubnetsDiffer, OneNetworkPerSubnet
  <2>2. ASSUME NEW s \in Sessions
        PROVE  Sound(s)'
    <3>1. Has(s)' /\ (s \notin failed' => Leaves(s)')
      BY <1>0, <1>2 DEF Sound, Has, Leaves, Left, Working, Undoing
    <3>2. s \in attached' => s \in unlisted'
      BY <1>0, <1>2 DEF Sound, Has
    <3>3. QED
      BY <1>0, <3>1, <3>2 DEF Sound
  <2>3. QED
    BY <1>1, <2>1, <2>2 DEF IInv
<1>3. ASSUME NEW stay \in SUBSET nets, NEW kept \in SUBSET nets,
             nets \ attached \subseteq stay,
             {s \in nets : s \in stay \intersect attached \/ container[s] = "up"} \subseteq kept,
             attached' = attached \ (nets \ stay),
             network' = [s \in Sessions |-> IF s \in kept THEN network[s] ELSE NoNet],
             tracked' = [s \in Sessions |-> IF s \in stay \intersect kept THEN network[s] ELSE NoNet],
             failed' = failed \union kept,
             unlisted' = unlisted
      PROVE  IInv'
  <2>1. TypeOK'
    BY <1>0, <1>3 DEF TypeOK
  <2>2. SubnetsDiffer' /\ OneNetworkPerSubnet'
    BY <1>0, <1>3 DEF IInv, TypeOK, SubnetsDiffer, OneNetworkPerSubnet
  <2>3. ASSUME NEW s \in Sessions
        PROVE  Sound(s)'
    <3>1. /\ network'[s] = IF s \in kept THEN network[s] ELSE NoNet
          /\ s \in kept => network[s] # NoNet
          /\ s \in attached' => s \in attached /\ s \in kept /\ tracked'[s] = network'[s]
      BY <1>0, <1>3 DEF Sound, Has
    <3>2. Has(s)'
      BY <1>0, <3>1 DEF Sound, Has, Working, Undoing
    <3>3. s \notin failed' => Leaves(s)'
      BY <1>0, <1>3, <3>1 DEF Sound, Has, Leaves, Left, Undoing
    <3>4. QED
      BY <1>0, <3>1, <3>2, <3>3 DEF Sound
  <2>4. QED
    BY <1>1, <2>1, <2>2, <2>3 DEF IInv
<1>4. QED
  BY <1>2, <1>3 DEF SweepNetworks, NetworksSwept, Networks

LEMMA InvNext == IInv /\ [Next]_vars => IInv'
<1> SUFFICES ASSUME IInv, [Next]_vars
             PROVE  IInv'
  OBVIOUS
<1>1. ASSUME NEW s \in Sessions, Provisioning(s)
      PROVE  IInv'
  BY <1>1, ProvisionKeeps, CancelQueuedKeeps, MakeDirsKeeps, CreateNetworkKeeps, TrackKeeps, JoinKeeps, RunKeeps,
     UndoContainerKeeps, UndoNetworkKeeps, UndoNetworkRemovalKeeps, UndoDirsKeeps, AbandonedKeeps,
     ReadyKeeps, GiveUpKeeps,
     CancelCreateKeeps DEF Provisioning
<1>2. ASSUME NEW s \in Sessions, Releasing(s)
      PROVE  IInv'
  BY <1>2, ReleaseKeeps, ReleaseContainerKeeps, ReleaseLookupKeeps, ReleaseNetworkKeeps,
     ReleaseNetworkRemovalKeeps, ReleaseDirsKeeps DEF Releasing
<1>3. CASE UNCHANGED vars
  <2>1. ASSUME NEW s \in Sessions
        PROVE  Sound(s)'
    <3>1. Sound(s)
      BY DEF IInv
    <3>2. QED
      BY <1>3, <3>1 DEF Sound, Has, Leaves, Left, Working, Undoing, vars
  <2>2. (TypeOK /\ ThreadsEnd /\ SubnetsDiffer /\ OneNetworkPerSubnet)'
    BY <1>3 DEF IInv, TypeOK, ThreadsEnd, SubnetsDiffer, OneNetworkPerSubnet, vars
  <2>3. QED
    BY <2>1, <2>2 DEF IInv
<1>4. QED
  BY <1>1, <1>2, <1>3, RemovedByHandKeeps, CrashKeeps, CrashInContainersKeeps, CrashInNetworksKeeps,
     SweepContainersKeeps, SweepNetworksKeeps DEF Next

\* The inductive invariant holds in every reachable state.
THEOREM Invariance == Spec => []IInv
<1>1. QED
  BY InvInit, InvNext, PTL DEF Spec

\* Every variable keeps its type.
THEOREM TypesHold == Spec => []TypeOK
<1>1. IInv => TypeOK
  BY DEF IInv
<1>2. QED
  BY Invariance, <1>1, PTL

\* peer_is_in_session_network refuses the peers of every network the controller is on, but for those a start
\* could not list.
THEOREM PeersAreRefused == Spec => []PeersRefused
<1>1. IInv => PeersRefused
  BY DEF IInv, TypeOK, Sound, PeersRefused
<1>2. QED
  BY Invariance, <1>1, PTL

\* _track_session_subnets leaves one network to a subnet, however often Docker hands it out.
THEOREM OneNetworkEach == Spec => []OneNetworkPerSubnet
<1>1. IInv => OneNetworkPerSubnet
  BY DEF IInv
<1>2. QED
  BY Invariance, <1>1, PTL

\* No rollback, release or sweep removes directories a container may still have mounted.
THEOREM MountsAreKept == Spec => []KeptWhileMounted
<1>1. IInv => KeptWhileMounted
  BY DEF IInv, Sound, KeptWhileMounted
<1>2. QED
  BY Invariance, <1>1, PTL

\* A session none of whose calls failed leaves no container, network, attachment or directory behind.
THEOREM NothingIsLeft == Spec => []NothingLeft
<1>1. IInv => NothingLeft
  BY IdleStep DEF IInv, Sound, Leaves, NothingLeft
<1>2. QED
  BY Invariance, <1>1, PTL
=============================================================================
