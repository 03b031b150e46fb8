# auto-browser: the controller, specified

auto-browser lets agents drive real browsers through a controller
(`src/controller/app`, Python, asyncio, one process) while a human approves
what they do. This directory holds TLA+ specifications of the controller's
stateful core, TLC configurations that check them on small instances, and
proofs, checked by TLAPS, of what matters most.

Read it in this order: the inventory says what the system consists of; *The
modules* says how each specification corresponds to the code; *The runs* what
is checked, with which bounds and under which fairness; *The proofs* what holds
for every value of the constants; *Disagreements* where the code and its own
docs, comments and tests part ways; *Not modelled* and *Plan* what is left.
`PROJECT.json` has the same in machine-readable form: the lines each definition
stands for, a mutation of the code each property catches, and the hazards,
each at its line.

## Inventory

Paths are relative to `src/controller/app`.

| Component | State it keeps | Operations | What makes it correct |
|---|---|---|---|
| Approvals (`approvals.py`, `approval_execution.py`) | one record per approval; the claims (`_claims`) and holds of executions; texts and arguments kept outside the record | request, list, decide, claim, effect, refuse, give back, release, sweep | one approval is one action; a reject is never lost or overtaken; a spent approval is never usable again |
| Approval stores (`approvals.py`, `approval_backends.py`) | a JSON file per record and a SQLite table | write through both, put back, catch up at start, fall back to the files | no spend and no acknowledged decision is undone by a crash, a failed write or a start on one store |
| Agent jobs (`agent_jobs.py`) | a record per job on disk, a bounded queue, worker tasks, finish callbacks, cancellation reasons | enqueue, withdraw, run, cancel, discard, resume, shutdown, startup | a run begins at most once; a cancel sticks and reads as one; a callback is always settled |
| Cron (`cron_service.py`) | jobs on disk, the run in flight of each (`_active_runs`) | schedule, trigger, release, remove | one run at a time; its session closed exactly when its job cannot run any more; the slot always freed |
| Sessions (`browser_manager.py`, `browser/services/sessions.py`, `session_creation.py`) | the registry, the reserved places, each session's lock, context, tunnel and runtime | create with rollback, list, persist, close, shutdown | the limit holds; a failed create leaves nothing; a close ends whatever is stuck; a closed session stays closed |
| Session store (`session_store.py`) | a file copy, and in some deployments a Redis copy, of each record | upsert, list, mark interrupted at start | "a session never reopens" |
| Session tunnels (`session_tunnel.py`) | the autossh processes, ports, heartbeat and status files | provision, release, shutdown | no tunnel outlives its session; no port is given twice |
| Isolation provisioner, sandbox (`session_isolation.py`, `browser_sandbox.py`) | a container, a network and two directories per session; the subnets whose peers are refused | provision with rollback, release, sweep at start | the peers of session networks are refused; no directory goes from under a container; a session leaves nothing on the daemon |
| Action pipeline, records (`actions/pipeline.py`, `action_records.py`) | the session lock, `pending_record`, the metrics | run an action, record its end | one record for every effect, in the order of the actions; no answer invites a retry of what was done; the close is recorded last |
| Request gates, provenance (`browser/request_gate*.py`, `page_provenance.py`, `window_births.py`) | the gate of each browser, the contexts it owns, the containment of a lost one | attach, replace, contain, swap the browser | no session its caller has stays on a lost gate; an open context always has an owner |
| Takeover, tabs, uploads, auth profiles, remote access (`browser/services/*`) | the active tab, staged files, profiles on disk | browser calls, most of them under the session's lock | an action acts on the tab it was asked for; a takeover's record comes after the action's before it |
| Observation, diagnostics (`browser/services/*`) | caches of page reads | read, summarize | reads are of the page acted on |
| Orchestrator, providers (`orchestrator.py`, `providers/`) | the steps of one run | step, run | an agent job's run |
| Tool gateway (`tool_gateway.py`) | tool schemas, governed calls | call, with an approval where one is due | a governed call is claimed like an action |
| MCP transport (`mcp_transport.py`, `mcp_stdio.py`) | the session table, its caps, its file | initialize, call, stream, delete, evict, reload | the caps hold; the session evicted is not in use |
| Event bus (`events.py`) | a bounded queue per subscriber | publish, subscribe, drop | a stream ends when its session does |
| Rate limits (`rate_limits.py`) | a sliding window per caller, a bounded table of them | check | no more than the limit in any window |
| Witness (`witness*.py`) | the hash chain, its anchor, its signatures | append, set a torn tail aside, anchor, migrate, verify | a chain verifies after any crash; one that lost an acknowledged receipt does not; nothing written is dropped |
| Harness (`harness/`) | runs, attempts and verdicts on disk | start, iterate, judge | attempts are bounded and judged once |
| Mesh (`mesh/`) | peers, delegations, the nonce cache | delegate, accept | an envelope is accepted once |
| Audit, webhooks (`audit.py`, `webhooks.py`) | an append-only log, a delivery queue | append, deliver | ordering and bounded retries |
| Maintenance (`maintenance.py`) | none | sweep files and containers | what is in use stays |
| Authentication, ownership, policies (`auth_*.py`, `api_token.py`, `session_ownership.py`, ...) | tokens and shares | decide one request | per-request decisions |
| PII, stealth, OCR, CDP | none to speak of | data transformation | input/output functions |
| Startup, routes (`main.py`, `startup/`, `routes/`) | wiring | start in order, stop in reverse | see the restarts of each module |
| Clients, browser node, scripts (`client/`, `integrations/`, `browser-node/`, ... beside `controller/`) | outside the process | call the controller, start its containers | |

### How the parts interact

* One asyncio loop: a component's state changes atomically between two
  `await`s. Everything hard happens across them: state read before an await
  and used after it, and a cancellation delivered at one.
* A tool call or REST request runs an **action** through the pipeline, under
  the session's lock. When the action needs approval, `held_for_execution`
  **claims** the approval around it, and the pipeline tells the hold when the
  action may change something (`effect_started`) or was refused before it did
  (`refused_before_effect`). Holds travel to child tasks in a context variable.
* A **cron trigger** creates a session, queues an **agent job** in it and
  leaves a callback that closes the session; a trigger cancelled while it
  queues withdraws the job and closes the session itself.
* A **session close** is called by operators, by finish callbacks, by the
  containment of a lost gate and by a shutdown. It competes with actions and
  with the create's own page load for the session's lock.
* At a start (`main.py`, `lifespan`) the browser manager, the job queue, cron
  and maintenance start in this order, and stop in reverse: a job re-queued at
  a start finds the sessions of before gone and their records interrupted.

### What is hard here

Give-backs that await a write after their hold has ended; decisions that arrive
while an action is claimed; two record stores with no common transaction; a
cancel, a withdrawal, a discard and a shutdown that meet one job; a callback
that two parties may owe; a limit checked, awaited on and used; a close that may
not wait for ever for a lock whose holder may; writes that land after the close
they saw coming; a record that finishes behind a cancelled action while the next
one starts; a gate that ends while its sessions are being created, closed and
moved to its replacement; threads that provision containers for a caller that
has gone; a receipt on disk whose anchor is not. `PROJECT.json` lists them (`hazards`), each with its line and
with the properties that would catch it going wrong, or why none does yet.

## The modules

`ApprovalGrants` and `JobLives` are abstract specifications, which `ApprovalClaims`
and `AgentJobs` implement; `CronRuns` composes a cron service with `AgentJobs`. The other modules stand by
themselves, and what ties them together is stated in each: a claim's record
write, atomic in `ApprovalClaims`, is taken apart in `ApprovalStores`; the marks
by which a hold learns of its effect (`effect_started`, `refused`) are steps of
`ActionPipeline`; the gate check of a create, a guard in `SessionLifecycle`, is
`HandOut` of `RequestGates`; the runtime that a create and a close acquire and
release there is `IsolatedBrowsers`. `MC*`
modules only declare model values, constant functions and symmetry sets.

Definitions commented "A fault" are no part of any specification: each is a
plausible bug in the definition next to it (a dropped guard, a lost reset),
kept so that every property can be seen to fail when the code goes wrong in
that way.

### ApprovalClaims, ApprovalGrants

*State.* Per approval, the record (`status`, `decider`, and whether
`approval_ttl` has passed: `lapsed`), whether its arguments or sensitive text
are still held (`kept`), and the claim the store knows (`claims`). Per hold
(one per successful claim) the fields of `ExecutionHold`, and `phase`: how far
its `held_for_execution` block is. Per task, the holds its context carries. Two
history variables say how often an effect began under an approval (`begun`)
and which operator's decision was accepted last (`word`).

*Actions.* Every change of a record is made under the store's lock and is one
action: `RequestNew`/`RequestSame` (`create_or_reuse_pending`, with its sweep of
old arguments), `Decide`, `DeferReject`, `WithdrawReject` (three branches of
`decide`), `Claim` (`claim_execution` and the start of the block),
`WriteGiveBack`/`NoGiveBack` (`give_back`). What a block does between them takes
no lock and interleaves with all that: `BeginEffect` (`effect_started`, for
every hold of the context at once), `Refuse`, `Spawn`/`Finish` (a child task
that copies the context), `End` (the block's exit by return, refusal,
cancellation or error: it deactivates the hold and either releases it or goes on
to the give-back), `Release`. `TtlPasses`, `TextAgesOut` and `Restart` (a crash
at any point; claims, contexts and texts are lost, records are not) are the
environment. A hold's block may be nested in one of the same task (a governed
tool call whose action needs its own approval), and an approval may be claimed
with or without the right to give it back.

*Abstraction.* An action compared by `_operator_rejected` is a value of
`ActionOf`; the times of a record are the one bit `lapsed`; ids, wording and
audit events are left out, that of a reject which came too late included. `Spawn`
and `Finish` are asyncio's: a task starts with a copy of its parent's context, and
ends with it.

`ApprovalGrants` says what all this promises: an approval is asked, granted or
denied any number of times, and then used or forfeited, once. Several may be
used by one effect, together or not at all. `GrantOf` maps a record, its claim
and what waits on it to a grant.

### ApprovalStores

*State.* `file` and `sqlite` hold a record (status and time stamp) per approval;
`primary` says which is read; `proc` the process, with a start's two passes
(`repairing`, `copying`); `write` is the one write under way and the store it is
at; `askew` the approvals for which a failure was logged. `told` and `loose`
are history: what callers were told had been written, and what writes not seen
to succeed left somewhere.

*Actions.* `StartOnBoth`/`StartOnFiles`, `Repair`/`RepairFails`/`Repaired`,
`Copy`/`CopyFails`/`CaughtUp`/`FallsBack` (`startup`, `_catch_sqlite_up`);
`Create`, `Decide`, `Claim`, `GiveBack` begin a write, and `FileLands`,
`FileFails`, `SqliteLands`, `SqliteFails`, `PutBack`, `PutBackFails` are its
steps (`_write`); `Crash` may happen between any two. `Tick` moves the clock,
and with `StepsBack` a crash may set it back.

### AgentJobs, JobLives, CronRuns

*State.* `status` is the record on disk; `queue`, `requeue`, `reason`,
`callback` (a finish callback is called, and then over) are the queue's memory; `enqueue` and `task` say how far the
`_enqueue` call and the worker task of each job are, one value for each await at
which it can be cancelled; `cancels` counts the `cancel_job` calls that found no
worker and are about to record that. `ran` is history.

*Actions.* `Create` ... `GiveUp` are `_enqueue` and `_withdraw`, with the
cancellation or failure that each await allows; `Take` ... `Closed` are the
worker loop and `_process_job`; `CancelJob`, `CancelUnworked` and `Discard` the
operators'; `Shutdown` cancels every task at once, while writes already in a
thread (`landed`) land all the same, and a stop is recorded over a result that did; `Crash` and `Startup` end and begin a
process. `Interrupts` is what `task.cancel()` does at each step of a task.

`JobLives` says what the queue promises of a job: it is queued once, its run begins
once and only while its record reads running, it is reported done only if its run
began (or it was refused), a cancel in progress ends as a stop, and what is over
stays over. `LifeOf` maps a record's status to a stage of that life; it tells
neither completed from failed nor cancelled from interrupted apart. An end may
still replace another: `finish_cancelled` writes over whatever it finds, and a
shutdown between a result and its return makes an interruption of it.

`CronRuns` adds the slot of each cron job and the session of each run. `Fire`,
`CreateSession`, `CreateSessionFails` and `TriggerReleases` are `_run_job_now`;
every step of the queue is a step of the composition, and the one that runs a
finish callback also releases the run.

### SessionLifecycle

*State.* `create` and `closer`: how far each create and each close call is, one
value per await. `live` (the registry), `reserved` (creates counted against the
limit and not registered yet), `open` (contexts), `strays` (contexts the browser
opened for a create that was cancelled while it awaited them), `lock`, `tunnels`, and
`record`, the file copy of the session record. `saves` are persists past their
look at the registry and not yet written. `shut` is history.

*Actions.* `CheckLimit` ... `SaveCreate` are `create`; `CreateRaises` is an
exception or cancellation at any of its awaits, and `Unregister`, `Undo`,
`Forget` the rollback. `CallClose`, `TakeLock`, `ForceContext`, `GoWithoutLock`
are `close` and `_lock_for_close`; `ReleaseTunnel`, `TearDown`, `AuditClose`,
`RecordClose`, and for a summary that fails `SummaryFails` and
`TearDownUnsummed`, are `_close_locked`. A close is shielded from its caller's
cancellation (`_run_to_completion`), so no action cancels it. `ActionStarts` and
`ActionEnds` are the pipeline as the lock sees it; `SaveLooks` and `SaveLands`
are `persist`; `Restart` is a crash and the next start, which marks active
records interrupted.

### ActionPipeline

*State.* One session: its `lock`, whether it is `registered`, its
`pending` record. Per action, its step (`at`, one value for each stretch of `run`
whose errors go the same way), whether its effect is marked (`began`), what an
upload's `change_made` answers (`transferred`), whether it was refused (`block`)
and what its caller is told (`answer`). Per recorder (an action or a takeover)
the task of its record and the record that task waits for. `close` is the
session's close. `touched`, `order` and `passed` are history: whether the page
may have been changed, in which order records were begun, who gave a wait up.

*Actions.* `Enter`, `Prepare`, `CancelEarly` come to the operation; `Refuse`,
`FailEarly`, `StartOperation`, `BeginTransfer`, `Touch`, `Return`, `BlockAfter`,
`Fail`, `Challenge`, `Challenged` are `_execute` and what it may come to;
`Interrupt` is an unexpected error or a cancellation, in the handlers too;
`Record`, `Recorded`, `CancelRecording`, `RaiseEarly` the ends of `run`
(`_record_interrupted` included). `BeginRecord`, `StartWriting`, `EndWriting` are
`write_record`, whose wait for the record before it `WaitEnds` says:
it is over, or `RECORD_WAIT_SECONDS` have passed. `RequestTakeover` records with
no lock; `CloseBegin` to `CloseEnd` are the close as the records see it.

*Abstraction.* Which action it is, what the page shows and how an error is worded
are left out; the operation is whether the page may have been changed, and
whether the code knows it. A write of the three that make a record may fail.

### WitnessChain

*State.* One scope's files: the complete records of the `chain`, how it ends
(`tail`), the `anchor`, the mark of a migrated root. `append` is the one append at
work, `reader` a verify. A record is the sequence of receipts its hash commits to,
which is all a hash chain is good for: two records are linked if one is the
other with a receipt more.

*Actions.* `Start` (with `MigrateChain`) and `MarkRoot` are `startup`;
`SetAsideTornTail`, `ReadHead`, `WriteReceipt`, `WriteAnchor` the steps of an
append, `SetAsideFails`, `HeadUnreadable`, `WriteFails`, `AnchorFails` their failures; `ReadChain`
and `CompareToAnchor` a verify, which takes no lock. `Crash` may come anywhere
and leave a write half done. `LoseRecords`, `SpoilRecord` and `LoseAnchor` are
damage from outside, once.

### RequestGates

*State.* The shared browser by generation, `swap` (an operator's `cdp_attach`),
the gate `registered` for it; each gate with the set of contexts it owns, which a
replacement shares (`dict`); each session's create and context; `listed`, the
registry; and for each lost gate its containment, with what is still to close and
what would not.

*Actions.* `Reserve` ... `HandOut` and `RollBack` are the steps of a create that
meet the gate; `RequireGate`, `StartAttach`, `AttachDone`, `AttachFails` are
`require` and `attach`, and `AttachNew` the attach of a browser just connected to; `LoseGate` and `BrowserDies` the losses, each with the
containment `_on_close` spawns; `ContainBegin` ... `DisconnectFails` are
`_contain_lost_gate` and `_end_survivors`; `SwapBegin`, `SwapFails`, `SwapEnd` and
`ClosePrevious` are `cdp_attach`. `LossWhileEnding` says whether a gate may end on its own while a
containment closes its browser, which is where the run `loss_unheard` parts ways
with the documentation.

### IsolatedBrowsers

*State.* What the daemon has of each session (`container`, `network`, and the
networks the controller is on, `attached`), its directories, the subnets
`peer_is_in_session_network` refuses (`tracked`), the worker thread of each
session (`job`), who it works for (`owner`), and the part of a start the controller is in
(`phase`). `failed`, `cut` and `unlisted` are history: sessions one of whose
daemon calls, or whose last `mkdir`, failed, creates cancelled under their thread,
networks a start could not list.

*Actions.* `Provision` ... `Run` are `_provision_container_sync` call by call,
`UndoContainer` ... `UndoDirs` its rollback, which does not cover `MakeDirs`;
`CancelQueued` cancels a thread that has not run, `CancelCreate` leaves one that
does to go on; `Ready`, `GiveUp`, `Abandoned` are what becomes of its result; `Release` ... `ReleaseDirs` are
`_release_sync`. Every call may fail, and one that creates or joins something may
fail after it did. `Crash` leaves everything on the daemon; `SweepContainers` and
`SweepNetworks` are the next start, and in `CrashInContainers` and `CrashInNetworks`
the controller dies with part of that done; `RemovedByHand` is an operator's
`docker network rm`, after which a subnet may be handed out again.

## The runs

All twelve are in `PROJECT.json`; `tlc -config <cfg> <module>` repeats one.
Runs whose specification may really come to rest (no approval ever has to be
decided, a session's actions are over, the crashes and receipts run out) switch
the deadlock check off; the job, cron and session runs keep it on: there, a
process can always crash and start.

| Run | What it shows |
|---|---|
| `claims` | One approval with a sensitive text, two claims, two tasks. `OneEffectPerApproval`, `RunningIsTheClaim`, `RejectStands`, `NoEffectAfterReject`, `SpentIsFinal`: through give-backs, retries, children that outlive their parent, decisions at any point and restarts, an approval is one action, and a reject the operator was told of is kept. `GiveBackSettles`: a block that gives back lets its claim go. |
| `nested` | A tool call's approval and an action's, of the same action, in nested blocks of one task. `OperatorsWordStands`: a decided record reads as its operator last decided it, though the word was deferred onto a claim, withdrawn from it or given back in between; `ArgumentsUntilFinal`: what may still be approved or run has its arguments, a rejected call until its TTL; `ImplementsGrants`: every behaviour is one of the abstract one-use grants. |
| `stores` | Two approvals in both stores. `SpendIsKept`, `StoresAgree`, `ReadsTheLastWord`, `FallBackIsRepaired`: no failed write, put-back, crash or partial catch-up undoes a begun action's record or a word a caller was given, while the clock does not go back. |
| `jobs` | Two hosted jobs, two workers, a queue of one. `StartedOnce`, `CancelIsNotInterruption`, the refinement of the abstract lives (`ImplementsLives`), and under fairness `CallbackSettles` (a finish callback is run to its end, unless a run that never ends holds its job up) and `ShutdownSettles` (a shutdown's workers stop, such a run included). |
| `cron` | The same queue under a cron job fired twice. `OpenIsHeld`, `ClosedAfterRun`: no session is lost from its slot or closed under a job that can still run; `SlotIsFreed`: no run blocks the next for good, unless its session's creation or a run never ends. |
| `sessions` | Two creates under a limit of one, two closes, an action that may never end, a late persist. `LimitHolds`, `FailedLeavesNothing` (of what the create got), `CloseIsRecorded`, and `CloseSettles` under fairness. |
| `actions` | An action, an upload, a takeover and a close of one session. `RecordedOnce`, `RetryIsSafe`, `RecordsInOrder`, `ClosedLast`: whatever fails or is cancelled, each effect has one record, records land in order and before the close's, and nobody is told to repeat what was done. |
| `witness` | Four receipts after a legacy chain, failing writes, two crashes, one damage. `PassMeansWhole`: a verify that passes read every acknowledged receipt; `AckedVerifies`: an append puts chain and anchor in agreement, whatever came before; `OnlyGrows`. |
| `gates` | Two sessions, two gates, two browsers. `LostIsWatched`, `OpenIsOwned`, `SwapEndsNoSession`, and `LossIsContained` under fairness. |
| `isolated` | Two isolated sessions on two subnets, every daemon call failing, two deaths of the controller, in a start too. `PeersRefused`, `OneNetworkPerSubnet`, `KeptWhileMounted`, `NothingLeft`. |
| `loss_unheard`, `provision_cancelled` | Each checks one sentence of the repository that the code does not keep; see *Disagreements*. |

### Bounds, and why they are enough

* *Claims.* An approval is claimed at most once per hold, so two holds are what
  a give-back, a retry and a straggler of the first need. Nothing in the claim
  protocol counts holds, and the safety properties of this run are proved for
  any number of approvals, holds and tasks. `nested` has two approvals of one
  action since that is the only way two records bear on each other
  (`_operator_rejected`, a reused pending record, one effect under two holds).
* *Stores.* `LastTime = 3` gives four instants: a decision, a later one, a spend
  and one stamp past the clock (`_later_than`). Approvals share no state but the
  process and the one write, so two of them show every way a catch-up can stop
  between records. They are interchangeable (symmetry; the run has no liveness).
* *Jobs.* Two jobs on a queue of one: the second finds it full. Two workers run
  them at once. One cancel past the lookup (`CancelsMax`) races a start of the
  worker; more would repeat it. `Faults` names the awaits at which a store or
  audit write may fail. `jobs` has those of a withdrawal, a start and a result;
  `cron` has those after a start, where a failure may cost a callback.
* *Cron.* Two runs of one cron job, since slots of different cron jobs share
  nothing. A queue of one: the second run finds it full when the first was taken
  back and its id still waits, and its trigger may give up before the refusal is
  written.
* *Sessions.* A limit of one and two creates is the smallest limit exceeded by
  a race. One session has a tunnel and may be acted on, the other neither. Two
  closes are what it takes for one to pass the other; both may also close both
  sessions. `Gated` is the default deployment: pre-request blocking on.
* *Actions.* One action that marks its effect before it operates and one upload
  that marks its own are the two ways through the pipeline; a takeover is what
  records with no lock. `PassedMax = 1`: one wait given up shows what it may and
  what it may not excuse. The four properties are proved for any number.
* *Witness.* Four receipts and a legacy one: one cut or torn, the next to be
  chained to what is left, and one to be anchored before and after. Two crashes
  are one between the receipt and its anchor and one before that is mended.
  Damage happens once: a chain and its anchor both lost are, as the documentation
  says, a new chain. Receipts are interchangeable (symmetry).
* *Gates.* Two gates are a lost one and its replacement, two browsers the one
  swapped or ended and the next; past `GatesMax` every attach fails, which is one
  of the cases. With two sessions, one may close or be created while the other
  is contained.
* *Isolated.* Two sessions and two subnets: a subnet is handed out again while
  the other is still in use. Two crashes: a start that fails to clean up, and the
  next. Sessions and subnets are interchangeable; the four properties are proved
  for any number.
* History counters saturate (`begun` and `ran` at 2, "several").

### Fairness, and why the code justifies it

* *Give-backs* (`ApprovalClaims`): the write of a give-back takes the store's
  lock, which no holder keeps across anything but file and SQLite writes, and
  runs through cancellations (`_run_through`); the release follows in a
  `finally`. Nobody owes a decision, an effect or the end of an action.
* *Jobs*: a worker takes what is queued, a task's next store write or audit
  comes, and a finish callback, whose close is bounded, ends. A run need not: an
  action on a page that never answers waits for ever (`_lock_for_close` says so).
  `CallbackSettles` and `SlotIsFreed` therefore except a job whose own run goes on, or
  that waits while every worker has one that does (`HeldUp`); a shutdown cancels such a
  run, so `ShutdownSettles` does not. No cancel, discard, shutdown or start is owed.
* *Cron*: a trigger goes on once its session is created, and releases what it gave
  up. That the creation ends is not assumed.
* *Sessions*: a close's own steps, and nothing else. Each is bounded by a
  timeout of its own (`CLOSE_LOCK_WAIT_SECONDS`,
  `TEARDOWN_STEP_TIMEOUT_SECONDS`) or is a write to a local file. An action or a
  page load may hold the lock for ever; that is what `CloseSettles` is about.
* *Gates*: a spawned containment runs, and each of its steps ends: an attach has a
  timeout, and so has each close it makes. No create, close or swap is owed, but
  a create that holds the gates' lock for its attach gives it back.

## The proofs

`ApprovalClaims_proofs` proves, for every set of approvals, holds and tasks that
satisfies `ApprovalAssumption` (tool calls and sensitive actions are disjoint
sets of approvals; the null value is none of them), that

* `TypesHold`, `OneEffect`, `RunningClaimed`, `RejectsStand`, `OperatorStands`:
  `TypeOK`, `OneEffectPerApproval`, `RunningIsTheClaim`, `RejectStands` and
  `OperatorsWordStands` are invariants of `Spec`;
* `SpentStaysSpent`, `NoEffectOnceRejected`: every step satisfies `SpentIsFinal` and
  `NoEffectAfterReject`;
* `ArgumentsStay`: `ArgumentsUntilFinal`, which is both: what is approved, pending
  or under a claim has its arguments (`ArgumentsHeld`), and no step takes them
  from any record, a rejected one included, but the last claim of an executed one and
  the sweep of a rejection past the TTL. The second half cannot be an invariant of
  rejected records: one rejected anew after its sweep has a fresh TTL and no
  arguments, and `decide` refuses its approve for that;
* `Refinement`: `Spec` implements `ApprovalGrants`, for the same constants.

None of these invariants is inductive. That one approval has one effect, for instance,
needs that two holds of one approval are never active together; which holds
because an open hold keeps its record `executed` (`OpenIsExecuted`) and is the
claim the store knows, so that no second `Claim` finds the record approved; and
this survives a give-back, whose record is a verdict again while its hold is not
yet released and a new claim may replace it (`WrittenIsDecided`,
`ClaimsAreOpen`). A begun effect pins all of it: its hold never gives back and
its record has no later claim (`EffectIsSpent`, `GivingBackMay`), which is also
why a late reject finds nothing to be put on. `RejectWaits` says where an
accepted reject is while the record reads executed, and that a claim waits on no
other; with `WordIsOnDecided` that carries the operator's word through every
execution back to the record (`OperatorsWordStands`). `IInv` is the conjunction of
these and of the properties themselves; the module shows that `Init` implies it
and that every action keeps it, an action at a time and under it a conjunct at a
time, and derives the rest. `UnusedIsBlank` and `UsedHasApproval` tie a hold's
fields to its phase.

The refinement rests on all of this. A lemma for each action shows the step of
the grants it is: a decision settles one, a claim and a written give-back change
none (the record moves, and the grant it stands for does not), an effect uses the
grants of all the holds it runs under, an unwritten give-back or an ending with
nothing to give back forfeits one, and a restart forfeits all that were claimed and
not begun. `IInv` is needed for nearly each: that a begun effect's record has no
live claim but its own (`BegunIsSpent`), and that a claim about to be written back
is the claim the store knows.

The other proof modules follow the same plan: an inductive invariant `IInv` in the
component's module (checked by TLC before it was proved), a frame lemma that says
what a step of one session, job or approval leaves the others, one lemma per
action, and the theorems. Each holds for every value of the constants that
satisfies the module's named `ASSUME`.

* `ApprovalStores_proofs` (`SpendsAreKept`, `StoresDoAgree`, `LastWordsAreRead`,
  `FallBacksAreRepaired`). The invariant says of the write under way where it has
  landed and what it replaces (`WriteSound`), of each record that the stores agree
  or why they do not (`StoresSound`), and where the last word a caller was told
  of is (`WordsSound`). `SpendsAreKept` alone assumes `~StepsBack`, and needs what
  that buys: what a start finds is older than its clock, so that a claim made on
  the files alone is newer than anything SQLite holds of it and wins the next
  catch-up (`ClockSound`, `SpendsSound`). Without the assumption it is false:
  *Disagreements*, 4.
* `CronRuns_proofs` has the queue's theorems first (`RunsBeginOnce`, `CancelsStick`,
  `CancelsAreNotInterruptions`, of `AgentJobs`' own `Spec`). That a run begins once
  rests on a job being in one place only: in the queue once, or about to be put
  there, or with one task (`WaitsOnce`, `AtWorkOnce`), and on a record that says so
  before it begins (`NotYet`). `LivesAreKept` is the refinement of `JobLives`:
  `OneMoves` shows that a step of one job leaves every other job's record alone,
  `OneLife` that what it finds in its own record and what it writes there are a
  move of the abstract life (`WritesMayRead`), `ShutdownLives` the same of the writes a
  shutdown lets land, each over what its own job's record said. `IInv` is needed
  where a write takes the status it replaces for granted: a task past its start never
  finds its record queued, and a result is only ever about to be written of a run that began.
  Then the cron service: `CronUsesTheQueue` shows `CronSpec => Spec`, each step of
  the composition being a step of the queue or leaving it alone, so `CronRunsBeginOnce`,
  `CronLivesAreKept` and all else proved of the queue hold of it. `OpenRunsAreHeld`
  adds the slots' invariant `CronInv`. `ClosesFollowRuns`
  (`ClosedAfterRun`) adds `CloseInv`: a job whose `_enqueue` raised while its session
  is open cannot run any more, since a withdrawal found it queued and interrupted it,
  or found it at work and stopped it, and since a job the full queue refused has no
  place in it. It assumes that a withdrawal is carried out (`"withdrawing" \notin Faults`,
  as in the run): one whose store write fails leaves the job to run, and its trigger
  closes the session all the same.
* `SessionLifecycle_proofs` (`LimitIsKept`, `FailuresAreUndone`,
  `ClosesAreRecorded`). `LimitHolds` is about a cardinality; its proof says that a
  step frees places, takes one after finding room, or turns a reserved place into a
  session, and leaves arithmetic to those three. `CreatesHave` and `ClosesHave`
  say what a create and a close have of the session at each step.
* `ActionPipeline_proofs` (`RecordsAreSingle`, `RetriesAreSafe`,
  `RecordsLandInOrder`, `CloseIsLast`). Each record waits for the one begun before
  it unless that was over (`ChainSound`), so that none passes an unfinished one
  but by a wait given up; what an action owes at each step is `ActionSound`; and a
  close that got the lock has met every action at its end (`CloseSound`).
* `IsolatedBrowsers_proofs` (`PeersAreRefused`, `OneNetworkEach`, `MountsAreKept`,
  `NothingIsLeft`). The invariant says, session by session, what there is at each
  step of a provision, a rollback, a release and a start (`Has`), and what a
  session none of whose calls failed has left (`Leaves`).
* `RequestGates_proofs` (`LossesAreWatched`, `OpenOnesAreOwned`,
  `SwapsEndNoSession`), with a lemma for each outcome of an action. The gates' lock
  lets one attach through at a time (`OneAttach`), a replacement shares the
  contexts of the gate it replaces (`AttachSound`), so a create goes on with
  whichever gate its browser has (`CreateSound`), and the containment that answers
  for an ungated session shares them too, hence finds itself on the session's
  browser (`Watched`). `LossesAreWatched` assumes `~LossWhileEnding`: without it
  it is false, *Disagreements*, 1.

* `WitnessChain_proofs` (`PassesAreWhole`, `AcksVerify`, `ChainsOnlyGrow`). Here the
  invariant has to say what a chain is still good for after it was damaged. While
  it is whole, its records are linked, as long as their place in it, and the
  last one commits to every acknowledged receipt; the anchor is a record of it
  (`WholeSound`). After a cut or a spoilt record, a readable record still commits to
  whatever the readable records before it do, and a chain whose links are unbroken
  has a record for each receipt it commits to (`ChainSound`); so a verify that passes
  owes only what the anchor commits to. That is every acknowledged receipt, or the
  chain has parted from its anchor for good (`Forked`): neither its end nor the
  place the anchor names is the anchored receipt, `_next_anchor_count` therefore
  leaves the anchor alone, and no later record can be the anchored one because it
  commits to a receipt the anchor does not (`AppendSound`). What two linked chains
  share is thus carried step by step by the invariant, and no induction over a
  chain is needed.

Only model-checked: what holds under fairness (`GiveBackSettles`,
`CallbackSettles`, `ShutdownSettles`, `SlotIsFreed`, `CloseSettles`, `LossIsContained`: TLAPS proves
no `ENABLED`). Every other property of a passing run has its theorem.

## Disagreements

The first two are runs of `PROJECT.json`, which quotes the sentence each refutes
(`findings`). The others are configurations kept beside them, one for each
further disagreement: TLC ends each with a counterexample.

1. `loss_unheard` (`MCRequestGatesUnheard.cfg`): while the containment of a lost
   gate closes the browser because a session would not close, the gate that
   replaced it is marked as ended on purpose. If it ends on its own during that
   close, nobody is told; and if the close then fails, the mark is cleared and the
   browser goes on, with sessions on a gate that is gone and no containment for
   them. docs/deployment.md says every session on that browser is closed.
2. `provision_cancelled` (`MCIsolatedBrowsersCancelled.cfg`): a create cancelled
   while its thread provisions raises past the rollback; the thread goes on, and
   what it makes is tracked by nothing until the next start. A comment in
   `provision` names this outcome as what the rollback prevents.
3. `MCApprovalAskAround.cfg`: `decide` promises that the same action requested anew "stays
   the operator's to decide" after an operator's reject. While that reject waits
   on a live claim its record reads `executed`, `_operator_rejected` does not see
   it, and an agent's approve of the new approval goes through.
4. `MCApprovalClockBack.cfg`: a claim stamps its record with the wall clock as it is, unlike
   a decision or a give-back, which are stamped later than what they change. With
   the clock set back, a spend made on the files alone can carry an earlier time
   than a rejection SQLite holds; the next start keeps the rejection, which an
   operator may approve, and the action runs again.
5. `MCAgentJobsCancelling.cfg`: a cancel that meets a task already recording its stop or its
   failure ends the task and leaves the record `cancelling` with no worker. A
   test names the same outcome as a defect.
6. `MCAgentJobsGivenUp.cfg`: `_enqueue` marks a job refused by a full queue `failed` with an
   await a cancellation can stop; the record stays `queued` and the next start
   runs it, which a comment in `_enqueue` says must not happen.
7. `MCSessionClosedTwice.cfg`: a second close goes ahead without the lock after two waits,
   also when the lock is held by a close that is still tearing down. Both then
   release, audit and witness the session, the thing a comment in `_close` says
   the check under the lock prevents.
8. `MCSessionTunnelLeft.cfg`: a close during the tunnel's grace period finds `session.tunnel`
   unset and releases nothing. When the grace period ends while that close is
   still tearing the session down, the create sets the tunnel, still finds its
   gate, and goes on; the close removes the session, and autossh runs on with
   nobody to stop it. (Once the close is done and pre-request blocking is on, the
   create's check of the gate fails and its rollback releases the tunnel.)
9. `MCWitnessVerifyRace.cfg`: a verify reads the chain and then the anchor, with
   no lock. Receipts appended in between make the anchor count more than was
   read, and the verify answers "truncated", whose reason says that receipts
   have been removed from the end. None was; a second verify passes.
10. `MCSessionStrayContext.cfg`: the handler in `create` catches `BaseException` "so a
   cancelled create also closes the context". One cancelled while it awaits
   `browser.new_context()` has no context to close; the browser opens it all the
   same, and on the shared browser nobody knows of it. (`FailedLeavesNothing` is
   about the contexts a create got.)

## Not modelled

* *In modelled components.* Checkpoints of a job (no status changes) and
  `resume_job` (one more enqueue, of a new id). Cron's schedules, its job store
  and its quarantine. Fork and shadow browse (creates by another name).
  Teardown steps that fail one by one (each is caught and logged). The audit of a
  reject that came too late. A release of an isolated session cancelled while its
  thread is still queued. The loss of a browser's gate between its replacement by
  `cdp_attach` and its close: no session is on it. Failing writes
  of a close's audit, receipt or record, and the Redis copy of a session record.
  Ports, files, heartbeat and lock of the tunnel broker. The drain of records at
  a shutdown. The gates of isolated sessions (a browser and a gate each, which
  nobody shares), the requests a gate lets pass, and the provenance of pages and
  windows. Host-network mode and kept containers of the provisioner. Signatures,
  keys and the remote mirror of receipts, and checkpoints over several scopes.
* *Components with state of their own, left out.* The MCP session table, the event
  bus, the rate limiter, the harness's attempt loop and the mesh's nonce cache:
  each is a table or a queue changed in one synchronous step, which its unit
  tests reach; the hazards they have are listed.
* *Components with none.* See `components` in `PROJECT.json` for each one's
  reason: calls to Docker, the browser or a provider; data transformation (PII,
  observation); decisions on one request (authentication, ownership, policies);
  routes, schemas, HTML and scripts for the page; code outside the controller
  process.

The definitions stand for some 4,000 of the 54,000 lines of implementation: the
parts where several tasks, threads, processes or failures meet. Most of the rest
is what each page action does, HTTP routes and schemas, dashboards, scripts run
in pages, provider adapters, clients and release tooling, where a model would
restate the code and check nothing that a test does not.

## Plan

1. *Done*: `ApprovalClaims` with `ApprovalGrants`, `ApprovalStores`, `AgentJobs`,
   `CronRuns`, `SessionLifecycle`, `ActionPipeline`, `WitnessChain`,
   `RequestGates`, `IsolatedBrowsers`; a theorem for every property of a passing
   run that needs no fairness.
2. `SessionRecords`: the store with its Redis copy and failing writes; "a session
   never reopens" as the abstract specification both copies implement.
3. `TunnelBroker`, and the drain of records at a shutdown in `ActionPipeline`.
4. `McpSessions` (caps, eviction, reload), `EventBus` (full queues, the close
   event), the harness's attempt loop.
