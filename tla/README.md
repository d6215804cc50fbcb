# A TLA+ model of rdashboard's privileged control plane

rdashboard is a dashboard that deploys, backs up, rolls back and observes projects on one host.
A browser-facing process accepts signed mutations; root-owned processes execute them. Source comes
from a broker that owns a local Git repository, builds run as leased jobs in transient units, and
everything that can damage a project goes through durable journals. The promise that runs through
the code is the same everywhere: a process may die between any two writes, a call may have acted
although it failed, and what is on disk must then lead to one legal continuation or to a state that
waits for an operator (`PLAN.md`). This directory models that promise component by component,
checks it with TLC on small instances and proves the core of it for every instance with TLAPS.

Paths below are relative to the repository root; line numbers are in `PROJECT.json` (`map`).

## 1. Inventory

| Component | State it keeps | Operations | Talks to |
|---|---|---|---|
| Operation contract (`src/domain/operation.rs`, `states.rs`) | none (tables) | phase list per kind, mutation boundary, required locks | everything below |
| Executor phase journal (`src/store/security.rs`) | per attempt and phase one row `intent → observed → verified → committed` or `needs_reconcile`; rollback seals; source-gate proofs, rejections, trust mark | one SQLite transaction each | executor |
| Write fences (`src/store/security.rs`) | fence row per project, drain identity, backup boundary, one epoch counter | begin/observe/release/reconcile | executor, managed application |
| Controller projection (`src/controller.rs`) | phase, result, block and projected receipts of each operation | commit receipt, block, retry, cancel, fail, roll back, reconcile | executor, browser |
| Durable executor and coordinator (`src/executor.rs`) | a gate per project, projects recovered in this process; resource owners | `advance_once`, `begin_rollback`, `recover_*`, sweep, cancel, fail, retry | all of the above, broker, adapters |
| Adapters (`src/adapter*.rs`, `src/fence_*.rs`, `src/backup_adapter`, `src/rimg_adapter`) | job directories with the files of one unit per step; backup chain; grant | bind, authorise, spawn, wait, terminate, observe | systemd, the application, the backup provider |
| Deploy driver (`src/deploy_driver.rs`, `src/kamal_adapter`, `src/installed_*.rs`) | intents, accepted mutations, release-state document | prepare, accept, scan, drive, roll back, commit release | executor socket, Docker |
| Source broker (`src/source.rs`, `src/installed_source.rs`) | accepted head and attestation, ref-update journal, webhook queue, outbox, tickets, epochs | observe, accept, recover, hold/release ticket, acknowledge | Git adapter, executor, dispatcher |
| Git adapter (`src/source/git_repository.rs`) | canonical repository with two refs and keep markers, staging repositories | fetch, promote, compare-and-swap, reconcile | remote, operator's repack |
| Source delivery (`src/source_*_socket.rs`, `src/source_delivery.rs`, source binaries) | exported archives and manifests; admitted attempts | ingress, drain, reconcile, export, poll, admit, acknowledge | GitHub, broker, scheduler |
| Workflow scheduler (`src/scheduler.rs`, `src/store/control.rs`, `src/worker_socket.rs`) | heads, triggers, requests, attempts, nodes, leases, receipts, bindings, locks, cursor | admit, claim, renew, expire, receipt, cleanup, reduce | dispatcher, workers |
| Worker and launcher (`src/workflow_*.rs`, `src/operation_state.rs`) | launch journal, units, operation state; assignments in memory | execute, launch, wait, clean up, report, restart | scheduler, systemd |
| Preparation store (`src/preparation.rs`, `src/dependency_fetch.rs`, `src/cargo_prefetch.rs`) | content-addressed entries, pins, access records, stages | open, reserve, evict, materialise, seal, commit, pin | worker, egress service |
| Image handoff (`src/rootless_oci*.rs`, `src/oci_handoff.rs`, `src/build/*`) | staging and result of a build, published archives, manifests, private copies, bundles | prepare, promote, publish, copy, load | launcher, root executor |
| Self update (`src/self_update*.rs`, `src/self_release_build.rs`) | handoff directory, release store, update journal, two links, database backups | stage, back up, stop, switch, start, commit, restore | services, operator's recovery tool |
| Native releases (`src/titanium.rs`, `src/native_release.rs`) | registry of immutable trees, roots, activation journal, views, link | publish, pin, activate, roll back, collect | systemd |
| Notification outbox (`src/store/notifications.rs`, `src/notification_delivery.rs`) | outbox rows with lease and duplicate flag | enqueue, claim, submit, poll, complete | controller, gateway |
| Metrics, integrations, observer; browser surface | samples; none | collect, roll up; HTTP | not modelled (section 7) |

What is hard here is not any single transaction but what lies between two of them:

- a crash after any write, with only journals, refs, links and files left;
- outside calls (Git, Docker, systemd, the broker, a gateway) that fail without saying whether they acted;
- units that outlive the process that started them;
- cancelling, failing, cleaning up and superseding, which do not wait for the call under way;
- two writers of which one has only reserved or prepared something;
- answers, acknowledgements, webhooks and leases that are lost, late or repeated;
- eviction, repacking and garbage collection between any two steps of a user of the store;
- a newer head arriving between any two steps of an older delivery.

`PROJECT.json` lists these under `hazards`, each at its line and with the properties aimed at it.

## 2. Modules

| Module | Models | State ↔ code |
|---|---|---|
| `OperationContract` | phase lists and predicates | constants: `Attempts`, `ProjectOf`, `KindOf`, `SequenceOf` are the authorised operations |
| `PhaseJournal` | phase rows, seals, source proofs | `journal` = `executor_phase_journal.status`, `takeover` = rollback takeover row, `proof`, `rejection`, `trust` = source-gate tables |
| `WriteFence` (extends it) | fences, identities, epochs | `fence`, `drain`, `boundary`, `epoch` = tables; `held` = what the application reports (external) |
| `DurableController` | `control.sqlite` projection | `ctl[a]` = operation row plus its transitions |
| `DurableExecution` (composes the four) | executor and coordinator | `thr[p]` = the call inside p's gate and its program point; `recovered`, `owner` = resource tables; `effect` = the managed world; `ticket` = the broker |
| `AdapterJobs` | bound phases carried out by units | `spec`, `grant`, `chain` = tables; `job[x]` = files of a step and its unit; `rimg` = the application: mode, writers, data |
| `DeployDriver` | from a request to the served release | `intent`, `accepted`, `journal`, `release` = durable; `scan` = the worker's place; `unit`, `docker` = the world |
| `SourceGate` | abstract: heads move forward, one at a time, never under a ticket | `head`, `sequence`, `holder` |
| `SourceBroker` | ledger, ref, webhooks, outbox, tickets of a project | tables of the ledger; `broker[e]` = the process of epoch e and its program point; `ref` = Git |
| `SourceRepository` | canonical and staging repositories | refs, `objects`, `keeper` = keep marker, `staging`; `fetcher` = holder of the fetch lock |
| `SourceDelivery` | push to admitted attempt, over lossy calls | `rows` = outbox, `archives`/`manifests` = export directory, `disp` = dispatcher, `loop` = the broker's loop |
| `WorkflowScheduler` | the workflow half of `control.sqlite` | `db` = the tables; `queue` is the order of the candidate query |
| `WorkflowLaunch` | a lease on worker and launcher | `rec` = launch journal; `starter`, `waiter`, `cleaner` = threads; `unit` = systemd; `os` = operation state; `worker` = task; `lease` = the scheduler's view |
| `PreparationStore` | content-addressed inputs | `entry`, `access`, `pin`, `evicting` = directories; `prep[t]` = a preparation's place |
| `ImageHandoff` | build output to release bundle | `result`, `stagings`, `requestFile`, `files[k][l]` = directory entries with their link state |
| `SelfUpdate` | rdashboard replacing itself | `records` = journal, `current`/`lkg` = links, `wrote[d]` = whose writes a database holds |
| `NativeRelease` | Titanium registry and activator | `tree`, `known`, `rootOf`, `candRoots` = registry; `journaled`, `view`, `served` = activator |
| `NotificationOutbox` | notifier service | `notices` = rows; `courier` = delivery loop; `messages` = what the gateway made of them |
| `*Proofs` | theorems (section 4) | |
| `MC*` | instances for TLC | |

An action of `PhaseJournal`, `WriteFence`, `DurableController` and the broker's ledger is one
immediate SQLite transaction: it happens or it does not, and an error return is a step that does not
happen. The modules with processes (`DurableExecution`, `SourceBroker`, `WorkflowLaunch`,
`DeployDriver`, `SelfUpdate`, `NativeRelease`, …) cut the code at exactly these transactions, at
file operations that become visible (rename, link, unlink) and at calls to the outside; crashes and
failing calls can happen at every cut. Stores behind one lock have one step per locked operation, and
the states a crash can leave half way are outcomes of that step.

`WorkflowScheduler` has one variable, the database. Each transaction is an operator from a database
to a database that sets `err` where the code returns a `StoreError`; a call is the set of databases
it may leave, without the failed ones. So a poll expires, reduces and claims, and an error in the
first part takes the rest with it. Time is relative: a lease carries the ticks left to its expiry and
deadline. The order of leases that expire together is free (their IDs are random).

Abstract specifications and refinement:

- `WriteFence` implements `PhaseJournal`: proved (`FenceImplementsJournal`).
- `DurableExecution` takes only steps of `WriteFence` on journal and fence: checked
  (`FollowsFenceProtocol`, a conjunct of `ExecutionSteps`) and proved (`ExecFollowsFence`), so what is proved of
  `WriteFence` holds of the composed executor (`ExecKeepsFencePromises`).
- `SourceBroker` implements `SourceGate` with `head ↦ ledger.head`, `sequence ↦ ledger.att.seq`,
  `holder ↦ ticket.attempt`: checked (`ImplementsSourceGate`) and proved (`BrokerImplementsGate`). `SourceGate` is what
  `DurableExecution`'s ticket relies on and what `SourceDelivery` takes as one step.

Abstractions:

- digests, tokens, signatures and times are left out or relative; an effect of another intent is
  `"foreign"`, a fence nobody issued belongs to `Foreign`;
- one fence row per project (an earlier row is released and never read again);
- blocks nothing retries (divergent source, invalid attestation, operator hold) are one block;
- validation of descriptors, manifests and file trees has its outcomes only;
- an attempt has one source proof and a sequence one attestation (the broker signs one per sequence), so a
  proof is refused for being too old and never for being malformed or another operation's;
- releases, commits and bundles are numbers or model values; a commit's history is a relation.

Where a step is coarser than the code, or a check is left out (each keeps the outcomes the properties look at):

| Definition | What is merged or left out |
|---|---|
| `WorkflowScheduler.ClaimNext` | a claim's reductions are the action of a poll; the policy digest is no part of the request key |
| `WorkflowLaunch.FinishCleanup` | data removal and the journal's record are one step; a crash between them looks like a crash before, since cleanup runs again and finds nothing. The toolchain root is removed in a step of its own |
| `WorkflowLaunch.ExecuteAssignment` | the adapters a worker serves are the constant `Dispatched`; others fail with `unsupported_worker_adapter`. The worker of this commit dispatches verification and native builds; the run adds image builds, which the launcher serves |
| `SourceBroker.ProcessCandidate` | the bound of 4 retries: another round is a step that is free to happen |
| `SourceDelivery.Fresh` | rows before the newest do not expire; a reconciliation that is deferred, not ready or diverged is a round that does nothing |
| `PreparationStore.ScanUsage` | entries are counted, not their sidecar files, bytes and inodes |
| `AdapterJobs.CommitPhase` | the backup chain and the receipt are one step (a chain already bound is compared, so a crash between them repeats it) |
| `AdapterJobs.ReleaseAuthority` | a project that was never installed (bootstrap) and the fence of health check and soak |
| `AdapterJobs.TerminateUnit` | an error of `try_wait` is a wait that failed |
| `AdapterJobs.ObserveFence` | a fence unit that died is observed like one that ended; what the application reports decides |
| `DeployDriver.StartUnit` | lock, permit and start are one step; the repeated source check and `already_deployed` are left out |
| `SelfUpdate.BackupState` | of each candidate the backup of its newest operation is kept, which a new operation starts empty; the code keeps one directory per operation UUID and reads an older one never again |
| `NativeRelease.Closure` | `DependsOn` is transitive (`NativeAssumption`), so what an artifact depends on is read off; the code follows the manifests |
| `NativeRelease.CollectGarbage` | the sweep is one step; it holds the registry lock |
| `NativeRelease.FinalizeActivation` | checks that always hold where it is called; the model allows more |

The operators named under `mutants` in `PROJECT.json` are plausible wrong versions of the definition
after them. No specification uses them; they show that the properties would notice.

Two history variables weaken a property where the code knows it cannot do better. `escaped`
(`WorkflowLaunch`): units the launcher gave up after systemd refused to stop or show them. `overtaken`
(`DeployDriver`): a deploy that began while an earlier success was not yet in the document (section 6).

## 3. Runs

| Run | Instance | Question |
|---|---|---|
| `write_fence` | a stateful deploy and a base backup on one project, 3 epochs, 1 outside change | the inductive invariant of journal and fence, agreement with the application, freezing after a seal, foreign fences |
| `stateful_deploy` | one stateful deploy with a bound base backup, 2 faults, 1 outside change, earlier trust 0 or 2 | the whole executor under crashes: `ExecutionSafety` (projection, receipts with effect, writers out, lock, source held, sealed rollback, result) and `ExecutionSteps` (nothing after the end, fence protocol, trust) |
| `convergence` | the same without bound backup and outside change, fair | every operation ends or waits for an operator; resources return |
| `scheduled_delivery` | two heads of one project, one announced twice; VPS worker, accelerator, executor; retried nodes | supersession, locking, expiry, late receipts and verification before mutation, in every order |
| `shared_workers` | a delivery with two verification shards and the shadow run of a self-update (weights 1 and 2) on two VPS workers, up to the reservation; a self-update's delivery is left to the proofs | output on one host, one shard at a time, shadow runs that leave no trace, fair turns |
| `lease_liveness` | two heads with a serial stateful graph, leases of two ticks, fair | every lease ends; nobody waits forever |
| `stores` | broker: root with two children, 2 webhooks, 1 direct push, 2 epochs, 2 interferences; repositories: two projects, 1 fault; preparation: two that share dependencies, capacity 3; handoff: two builds, 3 faults | what the build side keeps stays whole, the ref follows the ledger, webhooks are kept, the broker implements `SourceGate` |
| `launch` | four leases (two verifications of one node, a native and an image build), 2 worker slots, 1 unit at a time, a journal of 2 records, 2 faults, fair | a job runs once, cleaned means stopped, success is real, closed leaves nothing, every lease settles unless the journal is full |
| `host` | jobs of every release class, 1 fault; two deploys of three bundles, 2 faults; three dashboard releases, two services and databases, 1 record kept, 1 fault; two native releases sharing a library, 1 crash | done means done, migration has its exact backup, always served, the document names what is served, no release reads newer state, what is served is whole |
| `arrivals` | two pushes, 1 expiry, 2 faults; three notices of two texts for an outbox of two rows, 2 faults; fair | the newest head becomes an attempt with its archive; notices settle and duplicates are flagged |
| `bound_backup`, `expiry_batch` | small fair instances | findings (section 6) |

`stores`, `host` and `arrivals` hold components that share no state. Their MC module starts every
component and lets the first state choose, in `mover`, which one takes all steps; the state counts
add up instead of multiplying, and each component is checked exactly as if it were alone. For the broker
`mover` is also a set of callers, so that every pair of concerns that touches the same tables is
explored without all of them at once. In `host` releases of the dashboard are built between
operations only (`BuildsBetween`): an operation reads the handoff directory when it begins.

A property that is a conjunction (`ExecutionSafety`, `SchedulerSafety`, `SharingSafety`,
`StoreIsSound`, `OutboxIsHonest`, …) has its parts as named definitions above it, and the parts have mutants.

Bounds. `MaxEpoch` 3: one attempt reserves a boundary and a drain identity, so 3 leaves room for a
second fence. `MaxFaults` 2: a fault during the recovery from a fault; 1 where one fault already stops
in the middle of every sequence and the instance is otherwise too large (jobs, self-update,
repositories). `MaxTampers` 1: set or clear, at any moment. `EarlierTrust` {0, 2} with sequence 1: a
fresh proof and one that is too old. `MaxSequence`, `MaxPushes` 2: an update over an update. `MaxPendingWebhooks`,
`Batch`, `Retention` 1, `Capacity` 3, `OutboxLimit` 2 with three notices, launch records 2 with four leases and
self-update records 1 with two candidates make the limits bite: rows are pruned, a third notice is refused, and
a launch meets a full journal. Two texts let a repeated event differ from the one enqueued first. Scheduler: `MaxGenerations` leases
per node (2 where a node may be retried, so that a late receipt meets a newer lease), `MaxOverdue` 1
lets leases that expired at different times meet in one call. The theorems remove the bounds for what
they cover. Deadlock checking is off: operations may be finished and bounded counters run out.

Fairness, and why the code justifies it:

- `DurableExecution`: a call inside the gate runs to its end; a project is recovered before it is
  used; a driver calls again for every operation it owns (loops of `backup_driver.rs`, `deploy_driver.rs`), with strong
  fairness because a competitor can hold the gate in between; a sealed rollback is asked for again.
  Nothing is assumed of operators, failures, retries of disk reservations or the sweep.
- `WorkflowScheduler`: time passes; polls expire, reduce and claim (`workflow_worker.rs`, `run_until`).
  Nothing is assumed of a worker that holds a lease.
- `WorkflowLaunch`: systemd restarts the launcher; some thread of the launcher and some task of the
  worker go on, none in particular; units end (`RuntimeMaxSec`); leases nobody renews expire.
- `SourceDelivery`: the loop, its reconcile tick and the dispatcher's poll run on timers, and systemd
  restarts both. Nothing is assumed of GitHub, webhooks, exports or answers.
- `NotificationOutbox`: loop, timers and service manager go on, and the gateway settles what it took.

## 4. Proofs

Everything below is proved for every value of the constants: any number of attempts, projects,
pushes, builds, notices, releases, requests, faults and outside changes.

**Journal and fence** (`WriteFenceProofs`):

- `JournalTypeCorrect`, `ReceiptsArePrefix`, `AtMostOneOpenRow`, `RecoveryFollowsCutOver`,
  `SealIsExact`, and the action properties `SealFreezesForward`, `TrustAscends`;
- `FenceInvariant`, `FenceTypeCorrect`, `ReleaseIsSafe`, `FenceFollowsBackup`, `EpochsAreUnique`,
  `JournalAgreesWithApplication`, and the action properties `FencesAscend`, `ForeignFenceSafe`,
  `ForwardStaysFrozen`;
- `FenceImplementsJournal`: initial states and steps of `WriteFence` are those of `PhaseJournal` or
  leave the journal alone, so the journal theorems hold of the fence protocol.

Assumptions: `AttemptAssumption` (every attempt has a project, a kind and a positive sequence),
`TrustAssumption` and `FenceAssumption` (foreign holders are no attempts).

`JournalInv` is type and the four invariants; it is inductive. The argument rests on one lemma: all
transactions but `begin_phase_intent` and the seal move an open row on (`OpenRowMovesOn`), which can
only shrink the open rows and grow the receipts. The freeze is the delicate part, because rejecting a
source proof does not look at the seal. It is safe because `SealNamesOpenRow` leaves only a health
check or soak open behind a seal, and a proof is rejected only on an open admission phase.

`FenceInv` adds two facts to the fence properties: `FreeFence` (without an active row the application
holds no attempt's fence) and `DrainIsNewest` (a reserved drain identity is newer than the fence row it
will replace), both needed for epochs. `ReleaseHasEvidence` needs `FenceAfterBackup`: a fence row's
attempt belongs to the row's project, so the guard of the rollback looks at the right row. Epochs are
argued with three lemmas: a slot takes the next epoch, no slot takes one, or the drain identity hands
its epoch over.

**Execution** (`DurableExecutionProofs`, assumption `ExecutionAssumption`: a bound backup backs up, the
fault bound is a number): `ExecutionSafe`, the action properties of `ExecutionStepsHold`,
`ExecFollowsFence` (initial states and steps of the coordinator are those of `WriteFence` or leave
journal and fence alone) and `ExecKeepsFencePromises`, which carries the fence theorems over.

`ExecutionSafety` speaks of what is stored; it is not inductive, because a call inside the gate has
read part of it and acts on that later. `ExecInv` adds `FenceInv` and, for each attempt, how projection and rows go
together (`AttemptInv`: before a seal both end at the current phase, after it only the sealed receipt and that of the
current recovery phase may be missing, an ended operation has the rows of its end) and what it
holds (`LinkInv`: lock, source, fence row); for each project, that a reservation or fence has a running
owner (`ProjectInv`); and for the call inside each gate, what it knows at its step (`CallInv`). Cancelling
and rollback requests do not wait for the gate, so `CallInv` may only speak of what they leave alone. The proof has one lemma
per action and part of the invariant; each action changes one attempt, one project and one call.

**Build side** (`WorkflowLaunchProofs`, assumption `JobsAssumption`: `NoJob` is no lease):
`LaunchesOnce`, `CleanedMeansStopped`, `RunningOwnsState`, `ClosedIsClean`, `SuccessIsEarned`, and the
action property `ClosedLeaseIsFinal`, which is stated there only. `LaunchInv` is the types, that a
compiled state in use is not removed (`StateKept`), and for each lease: starting and cleaning up
exclude each other (`LockInv`), a process is started once and from an accepted record (`StartInv`), a
recorded end happened (`EndInv`), whose the compiled state is and that no process outlives its
cleanup (`HoldInv`), and what worker and scheduler may conclude from an answer (`LeaseInv`,
`ReceiptInv`). Actions of one lease go through one frame lemma (`OneJob`); a crash or restart of
launcher or worker is argued for all leases at once. `SuccessIsReal` needs `UsableInv` besides: what
the state's record says of its last release, and the verdict a cleanup is about to write, speak of
completed nodes. An earlier form asked that the node of a recorded success is among the completed
ones ever after. The proof attempt refuted it: a failed node that is retried after its terminal record
was pruned starts a new record, and TLC found the behaviour on a larger instance. What the code
promises is said of the moment the verdict is formed, and that is what the property states now.

**Source broker** (`SourceBrokerProofs`, assumptions `BeforeIsStrict`: ancestry is a strict order, and
`BrokerAssumption`: no commit or attempt is the missing one, pushed and first heads are commits, the epoch bound is a number):
`RefIsExplained`, `TicketHoldsHead`, `NewestIsOffered`, `WebhooksStayKept` and `BrokerImplementsGate`. `BrokerInv` says that the
journal's row is the next head, goes forward from the ledger's and bars the ticket (`JournalInv`); that
a process on its way to move the ref is the journal's (`ProcessInv`); and where the ref is (`RefInv`).
The hard case is the superseded process that was already allowed its compare-and-swap. `Overtaken`
says why it is harmless: either its head is the ledger's or an ancestor of it (`Passed`), so the
ref is never again what it would replace, because ancestry is strict; or its row is still in the journal and the process
that superseded it is down or recovering, and recovery cannot but carry on with that very row. Accepting a head
turns the second into the first (`PassedStays`). In the refinement, accepting a head is `Advance`,
a live check `Hold`, giving a ticket back `Release`, and every other step stutters. The outbox is argued with operators alone
(`FewerOffers`, `PruneOffers`, `EnqueueOffers`): rows are settled or forgotten, and the one that is
written or revived is of the ledger's head. `WebhooksStayKept` adds `WebhookInv`: a call of the current
process works on the oldest webhook of its batch and writes down what the delivery came to, and from
the end of its recovery on whoever waits is marked, or the loop that cleared the marker has another round to
make: a read that fails right after the clear leaves it unset (`source.rs:3199`), and only the loop that
repeats the drain makes up for it.

**Delivery** (also `SourceBrokerProofs`, assumption `DeliveryAssumption`: the bounds are numbers):
`AcknowledgedIsAdmitted`. `DeliveryInv` adds that at most one row is pending and that the row the
dispatcher is about to acknowledge is covered by an admitted attempt. Accepting a head settles no row
as delivered and the set of attempts only grows, so every step but the acknowledgement is an instance
of one lemma (`GrowingAdmission`).

**Image handoff** (`StoreProofs`, assumption `HandoffAssumption`: `NoBuild` is no lease):
`ResultsAreWhole` and `NamesFollowArchives`. `HandoffInv` says what each process relies on between
its steps: the launcher that there is no result while it prepares and that a validated staging directory
is still complete when it promotes (`KeeperKnows`), the two publishing sides that the archive is whole
when the name that stands for it is written (`HandKnows`).

**Source repository** (`StoreProofs`, assumption `RepositoryAssumption`: parents are commits of the same
project): `CanonicalRefsAreWhole` and `StagingIsExplained`, with the two leftovers of section 6 as exceptions. `RepoInv` keeps the object store closed
under parents, says what a staged pack lacks and what holds the rest (`StagedPack`), that a keep marker is of
the pack that is staged (`MarkerOfStaging`), and what the fetch knows at its step (`FetcherKnows`). A
repack may drop all that neither refs nor markers hold, so the proof is about the gap between
promoting a pack and writing the ref; a history is defined as the least closed set, which
needs no induction over the graph.

**Preparation store** (`StoreProofs`, assumption `PrepAssumption`: finitely many preparations, a positive
capacity, and keys of different roles differ, since the kind is part of the key's digest,
`preparation.rs:84`): `PinnedInputsStayWhole` and `PreparationStoreSound`. `PrepInv` says what a
preparation knows where it stands (`RowSound`: it staged under a reservation, nothing is under the key
it produces), that a key lock has one holder, that stages are reserved and that dependency snapshots
are exact, sealed or not. The capacity is argued with cardinalities: an eviction frees before a stage takes.

**Notifications** (`StoreProofs`, assumption `NotifyAssumption`: keys are numbers):
`OutboxStaysHonest`. `NotifyInv` says how much is known of a key's messages: by a row nobody is sending
(`RowKnows`: without the flag none, or exactly the one it names), by a row claimed with its message
(`SendingKnows`, which survives the death of the process) and by the claim under way (`ClaimKnows`, ahead
of the row by the one message the call made). A row found in `sending` without a message knows
nothing, which is why claiming it has to set the flag. `veiled` is the set of keys the gateway took and answered
408 or 5xx (section 6): of them the theorem says that what is recorded as delivered was sent, not that it was sent once.

**Native releases** (`HostProofs`, assumption `NativeAssumption`): `ServedReleaseIsWhole`. `NatInv`: the
releases the roots protect are whole (`ProtectedAreWhole`), where the roots stand while a journal is
there (`RootsFollowJournal`), which release link and process are of in each phase
(`LinkFollowsPhase`), and that the activator's memory agrees with the journal (`ActivatorKnows`).

**Adapter jobs** (`HostProofs`): `CommittedPhasesAreDone` and the action property `MigrationIsBackedUp`.
`JobInv` says what the files of a step tell about its unit (`FilesSound`), that steps start in order and of
reached phases only, that one unit at most runs, that a copy is what its steps made it, that the application stays fenced from
the cut-over copy to the end (`FencedSinceCutover`), what a commit persisted and that a breaking
migration has used its grant.

**Deploy units** (`HostProofs`, assumption `DeployAssumption`: bundles are ordered): `ReleasesAreAlwaysServed`
and `DocumentNamesTheServed`. `DeployInv` has the order of intents and document, that receipts come
in the order of the plans behind their units (`ReceiptsFollow`), that the lock follows the attempt,
and, the heart of it, `UnitPoint`: at which of its commands a bootstrap, deploy or rollback
unit stands and what it has made of Docker by then. A unit killed anywhere
leaves a Docker from which the same unit starts again at a point of the invariant.

**Self-update** (`SelfUpdateProofs`, assumption `SelfUpdateAssumption`: release 0 is the first):
`OldReleaseReadsOldState`. `SelfInv` says that one operation at most is pending and which release the
link names in each of its phases (`PendingInv`), that no database and no backup holds anything newer
than a pending operation may go back to (`StateInv`), and of the commands that are left (`WorkInv`):
before a link is switched every service is stopped, and before it goes back every database that is too
new has been put back while all services were down (`LinkSafe`). A crash drops the commands that are left and
the phase computes them anew; the lemmas about programs are stated on positions, not by induction.

**Workflow scheduler** (`WorkflowSchedulerProofs`, assumptions `SchedulerAssumption`: sizes and bounds, and
`PolicyAssumption`: what `validate_executor_mutation_graph`, `validate_release_dependencies` and
`validate_self_update_handoff_graph` ask of a policy): `SchedulerIsSafe`, `SharingIsSafe` and
`StepsAreSafe`. The invariant is one predicate on the database, `Good`. Of each attempt it says,
`RowSound`, what its columns may be together, that a node is leased exactly when its newest lease is
active, that a node which was ever ready has its dependencies done, what attempt state and node
states say of each other, and which worker's leases may use compiled state; across attempts, who
holds the mutation lock (`LockOK`, `LockedOK`), that of the live attempts of one project and mode at most
one has not begun to mutate (`OneFresh`) and that every request is in the queue (`Queued`). A transaction
either leaves the database `Good` or rolls back with an error, and there is one lemma per helper the
transactions share (advance, fail, supersede, complete, expire one, claim one). Expiry and claim
loop over all leases and candidates: instead of an induction the proof takes the first
position at which the running result would be unsound (`Least`) and refutes it. For `StepsAreSafe` the
same lemmas also relate the database before and after. What no worker takes part in only settles
(`Settled`): it closes leases, each with a debt of its worker, and no node succeeds. A call of a worker
keeps (`Kept`) nodes that succeeded, closed leases and mutations that began, and a node succeeds only in a
lease that runs and is not overdue. A claim may also grant, to its own worker (`Grants`). Every call but the
cleanup receipt is an expiry followed by its own transaction, so the step is a settling followed by one of these;
because settling takes no debt away, a worker that owed a receipt before the call is given nothing after it.

Each inductive invariant was checked by TLC before it was proved: `FenceInv` is an invariant of the run
`write_fence`; `LaunchInv` (and `UsableInv` with three leases of which one is a retry, 159,000
states), `BrokerInv`, `WebhookInv` (1.8 million) and the invariants of the stores and the host hold in
every state of the instances of `MCWorkflowLaunch.cfg`, `MCStores.cfg` and `MCHost.cfg`, and of larger
ones; `Good` holds in every state of the scheduler's three passing runs; `RepoInv` 4.5 million states, `PrepInv` 1.9, `NatInv` 1.4, `JobInv` 0.75, `DeployInv` with three
requests 8.5, `SelfInv` 1.1.

Only model-checked: `DurableController`; the scheduler's fairness of turns, `TurnsAreShared`; and all liveness.

## 5. Plan

1. done: executor core (`OperationContract` … `DurableExecution`), `WorkflowScheduler`.
2. done: source broker, repository and delivery; worker and launcher; preparation store; image
   handoff; adapter jobs and deploy driver; self-update; native releases; notification outbox.
3. done: proofs of journal, fence, execution (with the refinement of the fence protocol), build side,
   source broker (with `SourceGate`), delivery, repository, preparation store, image handoff, notifications,
   native releases, adapter jobs, deploy units, self-update and workflow scheduler. Next: `TurnsAreShared`.
4. Composition next: `SourceDelivery` with `WorkflowScheduler` (admission and supersession), and
   `WorkflowLaunch` with the scheduler's leases in place of its own `lease`.
5. Not begun: tab leases and browser request deduplication, disk-reservation bytes, metric rollups.

## 6. Disagreements between code and documents

With a run:

- `bound_backup`: `begin_backup_boundary` accepts only a row at its intent, but is called on every
  execution of a bound base backup. Interrupted between observation and receipt, the operation is
  refused forever: it neither continues nor asks for an operator.
- `expiry_batch`: expiry reads the overdue leases first and closes them one by one. If the first is at
  its execution deadline it fails the attempt, which revokes the second; the second is then "corrupt" and
  the whole batch rolls back, on this and every later call, for every project.

Stated in a module and listed as a hazard; adding the name to the configuration given makes TLC print
the behaviour:

- `WriteFence!MissingFenceBlocks` (`MCWriteFence.cfg`): `PLAN.md:320` says a missing owner blocks
  mutation as `needs_reconcile`; the executor acquires a fence it has as held again when the application
  reports none, and goes on.
- `WorkflowScheduler!PollsAreAnswered` (`MCDelivery.cfg` with `Policy <- ShardedProject`, `Deliveries <- OneShadow`,
  `Timeout` and `MaxGenerations <- RetriedShards`): completing an attempt
  requires the cleanup receipts of all its leases, those of an accelerator that has gone included; in
  shadow mode the failing reduction rejects every poll, the one that would hand out the cleanup too.
- `DeployDriver!RollsBackToServed` (`MCHost.cfg`): `deploy/systemd/README.md:1040` says a failed
  candidate routes back to the exact old bundle. The rollback goes to the release of the document, and
  between the terminal receipt of a deploy and `commit_succeeded_release` that is the one before.
- `SelfUpdate!UnresolvedCanBeClosed` (`MCHost.cfg` with `SuMaxFaults = 2`): `SELF_UPDATE.md:85` says an
  unresolved record blocks newer candidates until the root recovery path closes it. `restore-lkg`
  demands that the record's previous release is last-known-good, but `commit_release` sets that link
  to the release before the running one, so after one committed update the path refuses.
- `NativeRelease!RollbackReplayable` (`MCHost.cfg`): `deploy/systemd/README.md:424` says every phase is
  replayable. After a crash between the registry's commit and the removal of the journal, an
  unhealthy probe turns to a rollback the registry refuses, because its current release has moved on.

- `NotificationOutbox!AmbiguousIsFlagged` (`MCNotices.cfg`): `PLAN.md:767` and `:774` say a timeout after
  acceptance is `delivery_unknown` and a later success never plain `delivered`. A call that breaks off is
  treated so; an answer 408 or 5xx is retried without the flag (`notification_delivery.rs:490`), although a
  gateway or a proxy before it can give it after acceptance, and the row ends as `delivered` with two messages.

Exceptions of properties, where no document promises more than the code does:

- `EveryLeaseSettles`: no record of the launch journal is ever pruned, and a full journal refuses both a launch
  and a cleanup (`workflow_launcher.rs:1073`, `:1205`). A lease that was granted and never launched is then owed
  for ever.
- `LeftoversAreExplained`: `staged_pack` recognises a pack by its names, and `core.fsync=reference` leaves
  packs unsynced (`git_repository.rs:854`, `:2301`). A staged pack of which a power failure took bytes is
  promoted again by each fetch, fails each time (`:1084`) and is not cleared. The same holds of an
  `index-pack` killed between its marker and its pack.
- `WebhooksAreKept`: while a drain that failed after clearing the marker has its next round to make
  (`bin/rdashboard-source.rs:583`), a waiting webhook is not marked.
- `OutboxIsHonest`: a row that version 1 was sending with an error code is copied by the migration
  (`store/notifications.rs:593`) into a shape the reader refuses (`notifications.rs:138`), until it is claimed.
- `ForeignFenceUntouched` allows the missing fence above, `DocumentIsServed` the deploy that overtakes an
  unwritten success, `CleanedIsStopped` and `ClosedLeavesNothing` units the launcher lost sight of.

Smaller observations without a promise to compare with: a shard the accelerator lost after the VPS
bound the attempt's compiled state is no consumer of that binding; superseding an attempt shows its
cleanup as complete when an earlier lost lease has none; a Git call that fails leaves its intent and
the project's updates are refused until the broker restarts; settled notifications are never deleted,
so the outbox ends at `BacklogFull`; a request file that was not yet made read-only keeps the launcher's
image store from opening; and the circular wait of a half-done give-back (hazards).

## 7. Not modelled

- Metrics, integrations, observer: each collector owns its tables, nothing acts on a lost sample.
- Browser surface: routing, assertions, rendering, server-sent events; no durable state of its own.
- `phase6.rs` gates, `build_attestation.rs`, descriptor and tree validation, cryptography: pure
  checks, present as outcomes (accepted, rejected).
- `notification_planner.rs`: nothing outside the tests calls it.
- Byte accounting of disk reservations (`DiskShort` is every outcome of it) and tab leases.
- Liveness, `ENABLED` and what recursive definitions compute are out of the prover's reach and stay with TLC.
