---------------------------- MODULE DurableExecution ----------------------------
(* The durable coordinator: it drives attempts phase by phase through the      *)
(* controller's projection, the executor's journal, the execution resources,   *)
(* the source broker and the managed world, and must survive a crash between   *)
(* any two of those writes.                                                    *)
(* Source: src/src/executor.rs (DurableExecutor, DurableCoordinator), with the *)
(* transactions of PhaseJournal, WriteFence and DurableController.             *)
(*                                                                             *)
(* A project has one execution gate, so at most one coordinator call is inside *)
(* it: thr[p] is that call, with the step it is at (pc), its attempt and, while *)
(* it gives resources back, the error it will report (why).  A step is one     *)
(* transaction or one call to the outside.  Cancelling, failing and retrying   *)
(* do not take the gate for their controller transaction.                      *)
EXTENDS WriteFence, DurableController

CONSTANTS Bound,      \* attempts whose base backup has an authorised phase spec
          MaxFaults   \* bound on crashes and failing outside calls

ASSUME ExecutionAssumption ==
  /\ Bound \subseteq {a \in Attempts : InPlan(KindOf[a], "backing_up")}
  /\ MaxFaults \in Nat

VARIABLES
  thr,        \* thr[p]: the coordinator call inside p's execution gate
  recovered,  \* projects whose security recovery succeeded in this process
  owner,      \* owner[r]: attempt that owns execution resource r
  effect,     \* effect[a][k]: what the managed world shows for the phase row
  ticket,     \* ticket[p]: attempt the broker holds p's source still for
  faults      \* crashes and failed outside calls so far

execVars == <<thr, recovered, owner, effect, ticket, faults>>
allVars  == <<vars, ctl, execVars>>

Globals   == {<<"global", "build">>, <<"global", "heavy_io">>, <<"global", "registry">>}
Disk(p)   == <<"disk", p>>
Lock(p)   == <<"lock", p>>
Resources == Globals \cup {Disk(p) : p \in Projects} \cup {Lock(p) : p \in Projects}
Build     == <<"global", "build">>
HeavyIo   == <<"global", "heavy_io">>
Registry  == <<"global", "registry">>

Effects == {"absent", "applied", "foreign"}
Idle    == [pc |-> "idle", a |-> NoAttempt, why |-> "none"]

PCs == {"idle", "intent", "compensate", "compensated", "disk", "acquire",
        "identity", "apply", "admit", "prove", "unadmit", "unprove",
        "unapply", "untake", "uncompensate", "suspend", "source_settle", "effect", "observe",
        "verify", "commit", "complete", "tidy", "soaked", "project", "cleanup",
        "to_reconcile", "refresh", "unblock", "fence_begin", "fence_set",
        "fence_seen", "unset_begin", "unset", "unset_seen",
        "recovered", "reconcile", "reconcile_tidy", "reconcile_commit",
        "takeover", "to_rollback"}

Whys == {"none", "superseded", "broker_unavailable", "source_hold", "trust",
         "recover", "sweep", "rollback"}

ExecInit ==
  /\ Init
  /\ ControllerInit
  /\ thr = [p \in Projects |-> Idle]
  /\ recovered = {}
  /\ owner = [r \in Resources |-> NoAttempt]
  /\ effect = [a \in Attempts |-> [k \in Keys |-> "absent"]]
  /\ ticket = [p \in Projects |-> NoAttempt]
  /\ faults = 0

--------------------------------------------------------------------------------
At(p, pc)    == thr[p].pc = pc
Goto(p, pc)  == thr' = [thr EXCEPT ![p].pc = pc]
Return(p)    == thr' = [thr EXCEPT ![p] = Idle]
Enter(p, a, pc, why) == thr' = [thr EXCEPT ![p] = [pc |-> pc, a |-> a, why |-> why]]
GoWhy(p, pc, why) == thr' = [thr EXCEPT ![p].pc = pc, ![p].why = why]

PhaseOf(a) == ctl[a].phase
Fault      == faults < MaxFaults /\ faults' = faults + 1

(* The resource an operation needs for one phase only.                         *)
PhaseResource(phase) ==
  CASE phase \in {"testing", "building"} -> <<Build>>
    [] phase \in {"backing_up", "cutover_snapshotting", "migrating"} -> <<HeavyIo>>
    [] OTHER -> <<>>

(* Acquired in this order after the disk reservation.                          *)
Wanted(p, phase) ==
  (IF RequiresRegistry(phase) THEN <<Registry>> ELSE <<>>)
  \o (IF RequiresProjectLock(phase) THEN <<Lock(p)>> ELSE <<>>)
  \o PhaseResource(phase)

Listed(s) == {s[i] : i \in DOMAIN s}

Missing(p, a) == {r \in Listed(Wanted(p, PhaseOf(a))) : owner[r] # a}

Owned(a, s) == {r \in Listed(s) : owner[r] = a}

(* The first resource of a list that is in a set.                              *)
FirstIn(s, set) ==
  s[CHOOSE i \in DOMAIN s : s[i] \in set /\ \A j \in DOMAIN s : j < i => s[j] \notin set]

AdmissionNow(a)  == PhaseOf(a) = AdmissionPhase(KindOf[a])
(* Mutant: the source may move again right after the admitted phase.           *)
CompletesAtAdmission(a) == PhaseOf(a) = AdmissionPhase(KindOf[a])

CompletionNow(a) == PhaseOf(a) = CompletionPhase(KindOf[a])
NeedsIdentity(a) ==
  \/ a \in Bound /\ PhaseOf(a) = "backing_up"
  \/ IsStateful(KindOf[a]) /\ PhaseOf(a) = "draining"

RetryableBlock(a) == ctl[a].block \in {"none", "broker_unavailable"}

--------------------------------------------------------------------------------
(* Entering the gate: advance_once.                                            *)
AdvanceOnce(p, a) ==
  /\ At(p, "idle") /\ p \in recovered /\ ProjectOf[a] = p
  /\ \/ /\ ~Running(a)
        /\ \E r \in Resources : owner[r] = a
        /\ Enter(p, a, "cleanup", "none")
     \/ /\ Running(a) /\ PhaseOf(a) = "reconciliation"
        /\ Enter(p, a, "reconcile", "none")
     \/ /\ Running(a) /\ PhaseOf(a) # "reconciliation" /\ RetryableBlock(a)
        /\ Enter(p, a, IF PhaseOf(a) = "cutover_snapshotting" THEN "refresh"
                       ELSE "intent", "none")
  /\ UNCHANGED <<vars, ctl, recovered, owner, effect, ticket, faults>>

(* Validate the start, find a finished receipt, or persist the intent.         *)
PersistIntent(p) ==
  LET a == thr[p].a
      branch == BranchOf(a)
      status == journal[a][KeyOf(a)]
  IN /\ At(p, "intent")
     /\ \/ /\ \/ ~PhasePrerequisites(a, branch, PhaseOf(a))
              \/ /\ branch = "rollback_recovery" /\ PhaseOf(a) = "rollback"
                 /\ ~RollbackFenceAvailable(p, a)
              \/ status = "none" /\ UncommittedConflict(a, branch)
           /\ Return(p) /\ UNCHANGED journalVars
        \/ /\ PhasePrerequisites(a, branch, PhaseOf(a))
           /\ branch = "rollback_recovery" /\ PhaseOf(a) = "rollback" =>
                RollbackFenceAvailable(p, a)
           /\ \/ status = "committed" /\ Goto(p, "complete") /\ UNCHANGED journalVars
              \/ BeginPhaseIntent(a, branch, PhaseOf(a)) /\ Goto(p, "disk")
              \/ status = "needs_reconcile" /\ Goto(p, "compensate") /\ UNCHANGED journalVars
              \/ /\ status \in {"intent", "observed", "verified"}
                 /\ Goto(p, "disk") /\ UNCHANGED journalVars
     /\ UNCHANGED <<fenceVars, ctl, recovered, owner, effect, ticket, faults>>

(* A rejected proof is compensated before the phase may run again: nothing was *)
(* applied, the ticket is given back, then the row is reopened.                *)
CompensateRejected(p) ==
  LET a == thr[p].a
      clean == rejection[a] = "abort_pending" /\ effect[a][KeyOf(a)] = "absent"
  IN /\ At(p, "compensate")
     /\ \/ clean /\ Goto(p, "untake") /\ UNCHANGED faults
        \/ ~clean /\ Goto(p, "to_reconcile") /\ UNCHANGED faults
        \/ clean /\ Fault /\ Goto(p, "to_reconcile")
     /\ UNCHANGED <<vars, ctl, recovered, owner, effect, ticket>>

ReopenRejected(p) ==
  /\ At(p, "compensated")
  /\ CompensateSourceGateRejection(thr[p].a)
  /\ Goto(p, "disk")
  /\ UNCHANGED <<fenceVars, ctl, recovered, owner, effect, ticket, faults>>

--------------------------------------------------------------------------------
(* Resources, one transaction each.  A busy resource ends the call; what was   *)
(* acquired stays with the attempt.                                            *)
ReserveDisk(p) ==
  LET a == thr[p].a
  IN /\ At(p, "disk")
     /\ \/ /\ ~RequiresDisk(PhaseOf(a)) \/ owner[Disk(p)] = a
           /\ Goto(p, "acquire") /\ UNCHANGED owner
        \/ /\ RequiresDisk(PhaseOf(a)) /\ owner[Disk(p)] = NoAttempt
           /\ ProjectResourceAllowed(p, a)
           /\ owner' = [owner EXCEPT ![Disk(p)] = a]
           /\ Goto(p, "acquire")
        \/ /\ RequiresDisk(PhaseOf(a)) /\ owner[Disk(p)] # a
           /\ owner[Disk(p)] # NoAttempt \/ ~ProjectResourceAllowed(p, a)
           /\ Return(p) /\ UNCHANGED owner
     /\ UNCHANGED <<vars, ctl, recovered, effect, ticket, faults>>

(* The filesystem is too full, which is checked on every entry: the operation  *)
(* is blocked if it has not mutated yet, otherwise the call just fails.        *)
DiskShort(p) ==
  LET a == thr[p].a
  IN /\ At(p, "disk") /\ RequiresDisk(PhaseOf(a))
     /\ Fault
     /\ IF Running(a) /\ ~HasCommittedMutation(a)
        THEN SetDiskBlock(a) ELSE UNCHANGED ctl
     /\ Return(p)
     /\ UNCHANGED <<vars, recovered, owner, effect, ticket>>

AcquireResource(p) ==
  LET a == thr[p].a
      next == FirstIn(Wanted(p, PhaseOf(a)), Missing(p, a))
  IN /\ At(p, "acquire")
     /\ \/ /\ Missing(p, a) = {}
           /\ Goto(p, IF NeedsIdentity(a) THEN "identity" ELSE "apply")
           /\ UNCHANGED owner
        \/ /\ Missing(p, a) # {} /\ owner[next] = NoAttempt
           /\ next = Lock(p) => ProjectResourceAllowed(p, a)
           /\ owner' = [owner EXCEPT ![next] = a]
           /\ UNCHANGED thr
        \/ /\ Missing(p, a) # {}
           /\ \/ owner[next] # NoAttempt
              \/ next = Lock(p) /\ ~ProjectResourceAllowed(p, a)
           /\ Return(p) /\ UNCHANGED owner
     /\ UNCHANGED <<vars, ctl, recovered, effect, ticket, faults>>

(* A bound base backup and a stateful drain first reserve their epoch.         *)
PrepareIdentity(p) ==
  LET a == thr[p].a
      backup == PhaseOf(a) = "backing_up"
      can == owner[Lock(p)] = a
             /\ IF backup THEN CanBeginBackupBoundary(p, a)
                ELSE CanBeginDrainIdentity(p, a)
      mine == IF backup THEN boundary[p].attempt = a ELSE drain[p].attempt = a
  IN /\ At(p, "identity")
     /\ \/ can /\ mine /\ Goto(p, "apply") /\ UNCHANGED fenceVars
        \/ /\ can /\ ~mine
           /\ IF backup THEN BeginBackupBoundary(p, a) ELSE BeginDrainIdentity(p, a)
           /\ Goto(p, "apply")
        \/ ~can /\ Return(p) /\ UNCHANGED fenceVars
     /\ UNCHANGED <<journalVars, ctl, recovered, owner, effect, ticket, faults>>

--------------------------------------------------------------------------------
(* Look before acting: an effect that is already there is not applied again.   *)
ObserveBeforeEffect(p) ==
  LET a == thr[p].a
      seen == effect[a][KeyOf(a)]
  IN /\ At(p, "apply")
     /\ \/ /\ seen = "absent" /\ UNCHANGED journalVars
           /\ Goto(p, IF AdmissionNow(a) THEN "admit" ELSE "effect")
        \/ /\ seen = "applied" /\ UNCHANGED journalVars
           /\ Goto(p, "observe")
        \/ /\ seen = "foreign"
           /\ MarkPhaseNeedsReconcile(a, BranchOf(a), PhaseOf(a))
           /\ Goto(p, "to_reconcile")
     /\ UNCHANGED <<fenceVars, ctl, recovered, owner, effect, ticket, faults>>

(* The broker vouches for the source and holds it still with a ticket.  An     *)
(* error may hide that the ticket was taken.  A source whose successor was     *)
(* already proved is superseded; only a broker that lost its own history would *)
(* vouch for it.                                                               *)
CheckLive(p) ==
  LET a == thr[p].a
      take == ticket[p] \in {NoAttempt, a}
  IN /\ At(p, "admit")
     /\ \/ /\ take
           /\ ticket' = [ticket EXCEPT ![p] = a]
           /\ Goto(p, "prove")
           /\ IF TrustRegressed(a) THEN Fault ELSE UNCHANGED faults
        \/ /\ TrustRegressed(a)
           /\ GoWhy(p, "unadmit", "superseded") /\ UNCHANGED <<ticket, faults>>
        \/ /\ IF take THEN Fault ELSE UNCHANGED faults
           /\ \E why \in {"superseded", "broker_unavailable", "source_hold"} :
                GoWhy(p, "unadmit", why)
           /\ \/ UNCHANGED ticket
              \/ take /\ ticket' = [ticket EXCEPT ![p] = a]
     /\ UNCHANGED <<vars, ctl, recovered, owner, effect>>

RecordProof(p) ==
  LET a == thr[p].a
  IN /\ At(p, "prove")
     /\ \/ RecordSourceGateProof(a) /\ Goto(p, "effect")
        \/ RejectSourceGateProof(a) /\ GoWhy(p, "unprove", "trust")
     /\ UNCHANGED <<fenceVars, ctl, recovered, owner, effect, ticket, faults>>

(* Giving the ticket back.  If the broker does not answer, the attempt keeps   *)
(* everything it owns and stays retryable.                                     *)
AbortLive(p) ==
  LET a == thr[p].a
  IN /\ thr[p].pc \in {"unadmit", "unprove", "unapply", "untake"}
     /\ \/ /\ ticket' = [ticket EXCEPT ![p] = IF @ = a THEN NoAttempt ELSE @]
           /\ CASE At(p, "unadmit") -> Goto(p, "suspend")
                [] At(p, "unprove") -> Goto(p, "uncompensate")
                [] At(p, "untake")  -> Goto(p, "compensated")
                [] OTHER            -> Return(p)
           /\ UNCHANGED <<ctl, faults>>
        \/ /\ Fault
           /\ SetSourceBlock(a, "broker_unavailable")
           /\ Return(p) /\ UNCHANGED ticket
     /\ UNCHANGED <<vars, recovered, owner, effect>>

CompensateProof(p) ==
  /\ At(p, "uncompensate")
  /\ CompensateSourceGateRejection(thr[p].a)
  /\ Goto(p, "suspend")
  /\ UNCHANGED <<fenceVars, ctl, recovered, owner, effect, ticket, faults>>

(* Nothing was mutated: give every resource back, one transaction each.        *)
SuspendOrder(p, phase) == PhaseResource(phase) \o <<Disk(p), Registry, Lock(p)>>

Suspend(p) ==
  LET a == thr[p].a
      order == SuspendOrder(p, PhaseOf(a))
      mine == Owned(a, order)
  IN /\ At(p, "suspend")
     /\ IF mine = {}
        THEN Goto(p, "source_settle") /\ UNCHANGED owner
        ELSE owner' = [owner EXCEPT ![FirstIn(order, mine)] = NoAttempt] /\ UNCHANGED thr
     /\ UNCHANGED <<vars, ctl, recovered, effect, ticket, faults>>

SettleSource(p) ==
  LET a == thr[p].a
      why == thr[p].why
  IN /\ At(p, "source_settle")
     /\ \/ why = "superseded" /\ SupersedeSourceAttempt(a) /\ Goto(p, "cleanup")
        \/ why = "trust" /\ UNCHANGED ctl /\ Return(p)
        \/ /\ why \in {"broker_unavailable", "source_hold"}
           /\ SetSourceBlock(a, why) /\ Return(p)
     /\ UNCHANGED <<vars, recovered, owner, effect, ticket, faults>>

--------------------------------------------------------------------------------
(* The effect itself.  It may fail before it acted, fail without an answer to  *)
(* the question whether it acted, or succeed; what others put in its place     *)
(* meanwhile stays.                                                            *)
ApplyEffect(p) ==
  LET a == thr[p].a
      k == KeyOf(a)
  IN /\ At(p, "effect")
     /\ \/ /\ effect' = [effect EXCEPT ![a][k] = IF @ = "foreign" THEN @ ELSE "applied"]
           /\ Goto(p, "observe")
           /\ UNCHANGED <<journalVars, ticket, faults>>
        \/ /\ Fault /\ UNCHANGED <<effect, journalVars, ticket>>
           /\ IF AdmissionNow(a) THEN Goto(p, "unapply") ELSE Return(p)
        \/ /\ Fault /\ UNCHANGED ticket
           /\ \E e \in Effects : effect' = [effect EXCEPT ![a][k] = e]
           /\ MarkPhaseNeedsReconcile(a, BranchOf(a), PhaseOf(a))
           /\ Goto(p, "to_reconcile")
     /\ UNCHANGED <<fenceVars, ctl, recovered, owner>>

ProofStored(a) ==
  AdmissionNow(a) \/ (IsStateful(KindOf[a]) /\ PhaseOf(a) = "draining") => proof[a]

(* Mutant: whatever is observed is taken for the effect.                       *)
AnyEffectWillDo(a) == ProofStored(a)

(* What is observed is this intent's effect, on the proof that admitted it.    *)
EffectProven(a) == ProofStored(a) /\ effect[a][KeyOf(a)] = "applied"

ObserveEffect(p) ==
  LET a == thr[p].a
      k == KeyOf(a)
  IN /\ At(p, "observe")
     /\ \/ /\ EffectProven(a) /\ journal[a][k] = "intent" /\ UNCHANGED faults
           /\ RecordPhaseObservation(a, BranchOf(a), PhaseOf(a))
           /\ Goto(p, "verify")
        \/ /\ EffectProven(a) /\ journal[a][k] # "intent"
           /\ Goto(p, "verify") /\ UNCHANGED <<journalVars, faults>>
        \/ /\ IF EffectProven(a) THEN Fault ELSE UNCHANGED faults
           /\ MarkPhaseNeedsReconcile(a, BranchOf(a), PhaseOf(a))
           /\ Goto(p, "to_reconcile")
     /\ UNCHANGED <<fenceVars, ctl, recovered, owner, effect, ticket>>

(* Mutant: the projection does not wait for the receipt.                       *)
VerifyAndProject(p) ==
  /\ At(p, "verify") /\ MarkPhaseVerified(thr[p].a, BranchOf(thr[p].a), PhaseOf(thr[p].a))
  /\ Goto(p, "complete")
  /\ UNCHANGED <<fenceVars, ctl, recovered, owner, effect, ticket, faults>>

Verify(p) ==
  LET a == thr[p].a
  IN /\ At(p, "verify")
     /\ \/ MarkPhaseVerified(a, BranchOf(a), PhaseOf(a))
        \/ journal[a][KeyOf(a)] = "verified" /\ UNCHANGED journalVars
     /\ Goto(p, "commit")
     /\ UNCHANGED <<fenceVars, ctl, recovered, owner, effect, ticket, faults>>

(* Mutant: the receipt of a bound backup leaves its boundary reserved.         *)
CommitOnly(p) ==
  /\ At(p, "commit") /\ CommitPhaseReceipt(thr[p].a, BranchOf(thr[p].a), PhaseOf(thr[p].a))
  /\ Goto(p, "complete")
  /\ UNCHANGED <<fenceVars, ctl, recovered, owner, effect, ticket, faults>>


Commit(p) ==
  LET a == thr[p].a
  IN /\ At(p, "commit")
     /\ IF a \in Bound /\ PhaseOf(a) = "backing_up"
        THEN CommitBackupAndCloseBoundary(p, a)
        ELSE CommitPhaseReceipt(a, BranchOf(a), PhaseOf(a)) /\ UNCHANGED fenceVars
     /\ Goto(p, "complete")
     /\ UNCHANGED <<ctl, recovered, owner, effect, ticket, faults>>

(* The receipt that ends the source's standstill gives the ticket back.        *)
CompleteLive(p) ==
  LET a == thr[p].a
  IN /\ At(p, "complete")
     /\ \/ /\ ticket' = [ticket EXCEPT ![p] =
                IF CompletionNow(a) /\ @ = a THEN NoAttempt ELSE @]
           /\ Goto(p, "tidy") /\ UNCHANGED faults
        \/ /\ CompletionNow(a) /\ Fault
           /\ Goto(p, "to_reconcile") /\ UNCHANGED ticket
     /\ UNCHANGED <<vars, ctl, recovered, owner, effect>>

(* Mutant: the deploy lock goes back after every phase.                        *)
TidyWithLock(p, phase) == PhaseResource(phase) \o <<Lock(p)>>

(* Give back what the phase used one phase long.                               *)
TidyOrder(p, phase) ==
  PhaseResource(phase) \o (IF phase = "deploying" THEN <<Registry>> ELSE <<>>)

Tidy(p) ==
  LET a == thr[p].a
      order == TidyOrder(p, IF At(p, "tidy") THEN PhaseOf(a) ELSE ctl[a].from)
      mine == Owned(a, order)
  IN /\ thr[p].pc \in {"tidy", "reconcile_tidy"}
     /\ IF mine = {}
        THEN /\ Goto(p, IF At(p, "reconcile_tidy") THEN "reconcile_commit"
                        ELSE IF PhaseOf(a) = "soaking" THEN "soaked" ELSE "project")
             /\ UNCHANGED owner
        ELSE owner' = [owner EXCEPT ![FirstIn(order, mine)] = NoAttempt] /\ UNCHANGED thr
     /\ UNCHANGED <<vars, ctl, recovered, effect, ticket, faults>>

(* After a soak the attempt's own fence is released before the projection.     *)
AfterSoak(p) ==
  /\ At(p, "soaked")
  /\ \/ ~ActiveFence(p) /\ Goto(p, "project")
     \/ ActiveFence(p) /\ fence[p].attempt = thr[p].a /\ Goto(p, "unset_begin")
     \/ ActiveFence(p) /\ fence[p].attempt # thr[p].a /\ Return(p)
  /\ UNCHANGED <<vars, ctl, recovered, owner, effect, ticket, faults>>

ProjectReceipt(p) ==
  LET a == thr[p].a
  IN /\ At(p, "project")
     /\ \/ /\ CommitReceipt(a)
           /\ IF ctl'[a].result # "running" THEN Goto(p, "cleanup") ELSE Return(p)
        \/ /\ ~Running(a) /\ KeyOf(a) \notin ctl[a].projected
           /\ Return(p) /\ UNCHANGED ctl
     /\ UNCHANGED <<vars, recovered, owner, effect, ticket, faults>>

(* A finished operation gives everything back, one transaction each.           *)
(* Mutant: the deploy lock is forgotten.                                       *)
CleanupKeepsLock(p, phase) == <<Disk(p), Registry>> \o PhaseResource(phase)

CleanupOrder(p, phase) == <<Lock(p), Disk(p), Registry>> \o PhaseResource(phase)

Cleanup(p) ==
  LET a == thr[p].a
      order == CleanupOrder(p, PhaseOf(a))
      mine == Owned(a, order)
  IN /\ At(p, "cleanup")
     /\ IF mine = {} THEN Return(p) /\ UNCHANGED owner
        ELSE owner' = [owner EXCEPT ![FirstIn(order, mine)] = NoAttempt] /\ UNCHANGED thr
     /\ UNCHANGED <<vars, ctl, recovered, effect, ticket, faults>>

ToReconcile(p) ==
  LET a == thr[p].a
  IN /\ At(p, "to_reconcile")
     /\ IF Running(a) THEN MarkNeedsReconcile(a) ELSE UNCHANGED ctl
     /\ Return(p)
     /\ UNCHANGED <<vars, recovered, owner, effect, ticket, faults>>

--------------------------------------------------------------------------------
(* Before the cut-over snapshot: ask the broker again, then take the fence.    *)
Refresh(p) ==
  LET a == thr[p].a
      mine == fence[p].attempt = a /\ fence[p].state = "held"
  IN /\ At(p, "refresh")
     /\ \/ mine /\ Goto(p, "unblock") /\ UNCHANGED <<ctl, ticket, faults>>
        \/ /\ ActiveFence(p) /\ ~mine
           /\ Goto(p, "to_reconcile") /\ UNCHANGED <<ctl, ticket, faults>>
        \/ /\ ~ActiveFence(p) /\ ticket[p] \in {NoAttempt, a}
           /\ ticket' = [ticket EXCEPT ![p] = a]
           /\ Goto(p, IF proof[a] THEN "unblock" ELSE "to_reconcile")
           /\ UNCHANGED <<ctl, faults>>
        \/ /\ ~ActiveFence(p)
           /\ IF ticket[p] \in {NoAttempt, a} THEN Fault ELSE UNCHANGED faults
           /\ SetCutoverSourceBlock(a) /\ Return(p) /\ UNCHANGED ticket
        \/ /\ ~ActiveFence(p) /\ Fault
           /\ Goto(p, "to_reconcile") /\ UNCHANGED <<ctl, ticket>>
     /\ UNCHANGED <<vars, recovered, owner, effect>>

Unblock(p) ==
  /\ At(p, "unblock")
  /\ ClearCutoverSourceBlock(thr[p].a)
  /\ Goto(p, "fence_begin")
  /\ UNCHANGED <<vars, recovered, owner, effect, ticket, faults>>

Recovering(p) == thr[p].why \in {"recover", "sweep"}

(* The journal row first, then the application, then what it reports.          *)
PersistFenceIntent(p) ==
  LET a == thr[p].a
      can == owner[Lock(p)] = a /\ CanBeginFenceAcquire(p, a)
  IN /\ At(p, "fence_begin")
     /\ \/ can /\ ActiveFence(p) /\ Goto(p, "fence_set") /\ UNCHANGED fenceVars
        \/ can /\ BeginFenceAcquire(p, a) /\ Goto(p, "fence_set")
        \/ ~can /\ Return(p) /\ UNCHANGED fenceVars
     /\ UNCHANGED <<journalVars, ctl, recovered, owner, effect, ticket, faults>>

SetFence(p) ==
  /\ At(p, "fence_set")
  /\ \/ AcquireFence(p) /\ Goto(p, "fence_seen")
     \/ held[p] = LeaseOf(p) /\ Goto(p, "fence_seen") /\ UNCHANGED fenceVars
     \/ held[p] \notin {NoLease, LeaseOf(p)} /\ ReconcileFence(p) /\ Return(p)
  /\ UNCHANGED <<journalVars, ctl, recovered, owner, effect, ticket, faults>>

(* Where an observed fence leads: into the phase, or on with the recovery.     *)
FenceSeen(p) ==
  /\ At(p, "fence_seen")
  /\ ReconcileFence(p)
  /\ IF ReconciledFence(p).state # "held" THEN Return(p)
     ELSE Goto(p, IF Recovering(p) THEN "recovered" ELSE "intent")
  /\ UNCHANGED <<journalVars, ctl, recovered, owner, effect, ticket, faults>>

ReleaseKey(p) == IF Recovering(p) THEN fence[p].receipt ELSE KeyOf(thr[p].a)

PersistReleaseIntent(p) ==
  LET a == thr[p].a
      can == CanBeginFenceRelease(p, a, ReleaseKey(p))
  IN /\ At(p, "unset_begin")
     /\ \/ can /\ BeginFenceRelease(p, a, ReleaseKey(p)) /\ Goto(p, "unset")
        \/ /\ can /\ fence[p].state # "held"
           /\ Goto(p, "unset") /\ UNCHANGED fenceVars
        \/ ~can /\ Return(p) /\ UNCHANGED fenceVars
     /\ UNCHANGED <<journalVars, ctl, recovered, owner, effect, ticket, faults>>

UnsetFence(p) ==
  /\ At(p, "unset")
  /\ \/ held[p] = NoLease /\ Goto(p, "unset_seen") /\ UNCHANGED fenceVars
     \/ ReleaseFence(p) /\ Goto(p, "unset_seen")
     \/ held[p] \notin {NoLease, LeaseOf(p)} /\ ReconcileFence(p) /\ Return(p)
  /\ UNCHANGED <<journalVars, ctl, recovered, owner, effect, ticket, faults>>

UnsetSeen(p) ==
  /\ At(p, "unset_seen")
  /\ ReconcileFence(p)
  /\ IF ReconciledFence(p).state # "released" THEN Return(p)
     ELSE Goto(p, IF Recovering(p) THEN "recovered" ELSE "project")
  /\ UNCHANGED <<journalVars, ctl, recovered, owner, effect, ticket, faults>>

--------------------------------------------------------------------------------
(* Security recovery of a project: finish what its fence row asks for, then    *)
(* compare the application with the journal once more.  Until then nothing of  *)
(* the project may be executed.  The sweep over active fences does the first   *)
(* half only, and keeps the project executable if it was.                      *)
RecoveryEntry(p) ==
  CASE fence[p].state \in {"acquire_intent", "held"} -> "fence_begin"
    [] fence[p].state = "release_intent" -> "unset_begin"
    [] OTHER -> "recovered"

Recover(p) ==
  /\ At(p, "idle")
  /\ fence[p].state # "needs_reconcile"
  /\ \/ p \notin recovered /\ Enter(p, fence[p].attempt, RecoveryEntry(p), "recover")
     \/ /\ p \in recovered /\ ActiveFence(p)
        /\ Enter(p, fence[p].attempt, RecoveryEntry(p), "sweep")
  /\ recovered' = recovered \ {p}
  /\ UNCHANGED <<vars, ctl, owner, effect, ticket, faults>>

Recovered(p) ==
  LET blocked == ReconciledFence(p).state = "needs_reconcile"
  IN /\ At(p, "recovered")
     /\ IF thr[p].why = "recover"
        THEN /\ ReconcileFence(p)
             /\ recovered' = IF blocked THEN recovered ELSE recovered \cup {p}
        ELSE recovered' = recovered \cup {p} /\ UNCHANGED fenceVars
     /\ Return(p)
     /\ UNCHANGED <<journalVars, ctl, owner, effect, ticket, faults>>

--------------------------------------------------------------------------------
(* An operation that needs reconciliation only because the broker did not take *)
(* its ticket back continues once the broker does.                             *)
Reconcile(p) ==
  LET a == thr[p].a
      kind == KindOf[a]
      stuck == ctl[a].from = "none" \/ ctl[a].from # CompletionPhase(kind)
      evidence == /\ Committed(a, CompletionPhase(kind))
                  /\ Committed(a, AdmissionPhase(kind))
                  /\ proof[a]
  IN /\ At(p, "reconcile")
     /\ \/ /\ stuck
           /\ IF thr[p].why = "rollback" THEN Goto(p, "takeover") ELSE Return(p)
           /\ UNCHANGED <<ticket, faults>>
        \/ ~stuck /\ ~evidence /\ Return(p) /\ UNCHANGED <<ticket, faults>>
        \/ /\ ~stuck /\ evidence /\ UNCHANGED faults
           /\ ticket' = [ticket EXCEPT ![p] = IF @ = a THEN NoAttempt ELSE @]
           /\ Goto(p, "reconcile_tidy")
        \/ ~stuck /\ evidence /\ Fault /\ Return(p) /\ UNCHANGED ticket
     /\ UNCHANGED <<vars, ctl, recovered, owner, effect>>

ReconcileCommit(p) ==
  /\ At(p, "reconcile_commit")
  /\ CommitReconciledReceipt(thr[p].a)
  /\ IF thr[p].why = "rollback" THEN Goto(p, "takeover") ELSE Return(p)
  /\ UNCHANGED <<vars, recovered, owner, effect, ticket, faults>>

(* The operator's rollback: sealed in the executor's journal before the        *)
(* controller shows it.                                                        *)
RequestRollback(p, a) ==
  /\ At(p, "idle") /\ p \in recovered /\ ProjectOf[a] = p
  /\ PhaseOf(a) = "reconciliation" \/ RollbackTransition(a)
  /\ Running(a)
  /\ Enter(p, a, IF PhaseOf(a) = "reconciliation" THEN "reconcile" ELSE "takeover",
           "rollback")
  /\ UNCHANGED <<vars, ctl, recovered, owner, effect, ticket, faults>>

(* Mutant: the controller shows the rollback first.                            *)
ShowUnsealed(p) ==
  /\ At(p, "takeover") /\ RollbackTransition(thr[p].a) /\ Goto(p, "to_rollback")
  /\ UNCHANGED <<vars, ctl, recovered, owner, effect, ticket, faults>>

SealRollback(p) ==
  LET a == thr[p].a
      valid == RollbackTransition(a) /\ RollbackFenceAvailable(p, a)
  IN /\ At(p, "takeover")
     /\ \/ valid /\ BeginRollbackTakeover(a) /\ Goto(p, "to_rollback")
        \/ /\ valid /\ takeover[a] # "none"
           /\ Goto(p, "to_rollback") /\ UNCHANGED journalVars
        \/ /\ ~valid \/ (takeover[a] = "none" /\ ForwardSnapshot(a) = "none")
           /\ Return(p) /\ UNCHANGED journalVars
     /\ UNCHANGED <<fenceVars, ctl, recovered, owner, effect, ticket, faults>>

ShowRollback(p) ==
  /\ At(p, "to_rollback")
  /\ BeginRollback(thr[p].a)
  /\ Return(p)
  /\ UNCHANGED <<vars, recovered, owner, effect, ticket, faults>>

--------------------------------------------------------------------------------
(* Outside the gate.  The resources are given back by a later call.            *)
EndOperation(a) ==
  /\ ProjectOf[a] \in recovered
  /\ CancelBeforeMutation(a) \/ FailAttempt(a)
  /\ UNCHANGED <<vars, execVars>>

RetryDiskReservation(a) ==
  /\ ProjectOf[a] \in recovered
  /\ ClearDiskBlock(a)
  /\ UNCHANGED <<vars, execVars>>

(* A store transaction fails: the call ends with nothing of it written.        *)
StoreFails(p) ==
  /\ thr[p].pc \notin {"idle", "unadmit", "unprove", "unapply", "untake", "complete"}
  /\ Fault
  /\ Return(p)
  /\ UNCHANGED <<vars, ctl, recovered, owner, effect, ticket>>

(* The process dies: what is in memory is lost.                                *)
Crash ==
  /\ Fault
  /\ thr' = [p \in Projects |-> Idle]
  /\ recovered' = {}
  /\ UNCHANGED <<vars, ctl, owner, effect, ticket>>

(* Somebody else changes what the current phase is about to change.            *)
ForeignEffect(a) ==
  /\ Running(a) /\ PhaseOf(a) \in Phases
  /\ effect[a][KeyOf(a)] = "absent"
  /\ Fault
  /\ effect' = [effect EXCEPT ![a][KeyOf(a)] = "foreign"]
  /\ UNCHANGED <<vars, ctl, thr, recovered, owner, ticket>>

Tamper(p) ==
  /\ TamperFence(p)
  /\ UNCHANGED <<journalVars, ctl, execVars>>

--------------------------------------------------------------------------------
(* One step of the call inside p's gate.                                       *)
PhaseStep(p) ==
  \/ PersistIntent(p)      \/ CompensateRejected(p) \/ ReopenRejected(p)
  \/ ReserveDisk(p)        \/ DiskShort(p)          \/ AcquireResource(p)
  \/ PrepareIdentity(p)    \/ ObserveBeforeEffect(p)
  \/ CheckLive(p)          \/ RecordProof(p)        \/ AbortLive(p)
  \/ CompensateProof(p)    \/ Suspend(p)            \/ SettleSource(p)
  \/ ApplyEffect(p)        \/ ObserveEffect(p)      \/ Verify(p)
  \/ Commit(p)             \/ CompleteLive(p)       \/ Tidy(p)
  \/ AfterSoak(p)          \/ ProjectReceipt(p)     \/ Cleanup(p)
  \/ ToReconcile(p)

GuardStep(p) ==
  \/ Refresh(p)            \/ Unblock(p)            \/ PersistFenceIntent(p)
  \/ SetFence(p)           \/ FenceSeen(p)          \/ PersistReleaseIntent(p)
  \/ UnsetFence(p)         \/ UnsetSeen(p)          \/ Recovered(p)
  \/ Reconcile(p)          \/ ReconcileCommit(p)    \/ SealRollback(p)
  \/ ShowRollback(p)

GateStep(p) == PhaseStep(p) \/ GuardStep(p)

ExecNext ==
  \/ \E p \in Projects :
       \/ GateStep(p)
       \/ Recover(p)
       \/ StoreFails(p)
       \/ Tamper(p)
       \/ \E a \in Attempts : AdvanceOnce(p, a) \/ RequestRollback(p, a)
  \/ \E a \in Attempts :
       EndOperation(a) \/ RetryDiskReservation(a) \/ ForeignEffect(a)
  \/ Crash

(* A call inside the gate runs to its end, a project is recovered, a driver    *)
(* calls again for every attempt it is responsible for, and it asks again for  *)
(* a rollback it has sealed.  Nothing is assumed of operators, of failures or  *)
(* of the sweep.                                                               *)
Fairness ==
  /\ \A p \in Projects :
       /\ WF_allVars(GateStep(p) /\ faults' = faults)
       /\ WF_allVars(Recover(p) /\ p \notin recovered)
  /\ \A a \in Attempts :
       /\ SF_allVars(AdvanceOnce(ProjectOf[a], a))
       /\ SF_allVars(takeover[a] # "none" /\ RequestRollback(ProjectOf[a], a))

ExecSpec == ExecInit /\ [][ExecNext]_allVars

FairSpec == ExecSpec /\ Fairness

--------------------------------------------------------------------------------
Threads == [pc : PCs, a : Holders \cup {NoAttempt}, why : Whys]

ExecTypeOK ==
  /\ TypeOK
  /\ ControllerTypeOK
  /\ thr \in [Projects -> Threads]
  /\ recovered \subseteq Projects
  /\ owner \in [Resources -> Attempts \cup {NoAttempt}]
  /\ effect \in [Attempts -> [Keys -> Effects]]
  /\ ticket \in [Projects -> Attempts \cup {NoAttempt}]
  /\ faults \in Nat

(* The projection never runs ahead of the receipts, and lags behind by at most *)
(* the receipt of the current phase (or of the one left for reconciliation, or *)
(* the forward receipt a rollback sealed).                                     *)
ProjectionFollowsReceipts ==
  \A a \in Attempts :
    /\ \A k \in ctl[a].projected : Committed(a, k)
    /\ \A k \in Keys : Committed(a, k) /\ k \notin ctl[a].projected =>
         \/ k \in {takeover[a], ctl[a].from}
         \/ ctl[a].phase # "reconciliation" /\ k = KeyOf(a)

(* A receipt is proof of the effect its phase was meant to have.               *)
ReceiptHasEffect ==
  \A a \in Attempts : \A k \in Keys : Committed(a, k) => effect[a][k] = "applied"

(* Writers are out from the cut-over snapshot until the receipt that makes     *)
(* their return safe, on either branch.                                        *)
WritersExcluded ==
  tampers = 0 => \A a \in Attempts :
    /\ IsStateful(KindOf[a])
    /\ effect[a]["cutover_snapshotting"] = "applied"
    /\ ~Committed(a, IF takeover[a] = "none" THEN "soaking"
                     ELSE "rollback_recovery_soaking")
    => held[ProjectOf[a]].attempt = a

(* An attempt that mutated and is not finished owns the project's deploy lock, *)
(* and so does whoever has an identity or a fence on it.                       *)
MutationHoldsLock ==
  /\ \A a \in Attempts :
       Running(a) /\ (\E k \in Keys : MutatingKey(k) /\ effect[a][k] = "applied")
         => owner[Lock(ProjectOf[a])] = a
  /\ \A p \in Projects :
       /\ Reserved(drain[p]) => owner[Lock(p)] = drain[p].attempt
       /\ fence[p].state \in {"acquire_intent", "held", "release_intent"} =>
            owner[Lock(p)] = fence[p].attempt

(* From the admitted effect to the receipt that ends the standstill, the       *)
(* broker holds the source still for the attempt, on a stored proof.           *)
SourceHeldStill ==
  \A a \in Attempts :
    /\ IsDeploy(KindOf[a])
    /\ effect[a][AdmissionPhase(KindOf[a])] = "applied"
    => /\ proof[a]
       /\ ~Committed(a, CompletionPhase(KindOf[a])) => ticket[ProjectOf[a]] = a

(* The controller shows a rollback, and the rollback branch has rows, only     *)
(* once the executor has sealed the forward branch.                            *)
RollbackSealedFirst ==
  \A a \in Attempts :
    ctl[a].mode = "rollback" \/ (\E k \in RecoveryKeys : journal[a][k] # "none")
      => takeover[a] # "none"

(* The release is never both kept and rolled back: with a sealed rollback no   *)
(* operation succeeds, and a success has the whole plan's receipts.            *)
ResultMatchesBranch ==
  \A a \in Attempts :
    /\ ctl[a].result = "succeeded" =>
         takeover[a] = "none" /\ \A k \in Phases : InPlan(KindOf[a], k) => Committed(a, k)
    /\ ctl[a].result = "rolled_back" /\ KindOf[a] # "code_rollback" =>
         Committed(a, "rollback_recovery_soaking")

(* What every state of an execution satisfies: the parts above.                *)
ExecutionSafety ==
  /\ ExecTypeOK
  /\ ProjectionFollowsReceipts
  /\ ReceiptHasEffect
  /\ WritersExcluded
  /\ MutationHoldsLock
  /\ SourceHeldStill
  /\ RollbackSealedFirst
  /\ ResultMatchesBranch

(* Nothing is mutated for an operation that is over, although cancelling does  *)
(* not wait for the call inside the gate.                                      *)
NothingAfterEnd ==
  [][\A a \in Attempts : ~Running(a) =>
       \A k \in Keys : MutatingKey(k) => effect'[a][k] = effect[a][k]]_allVars

(* The executor uses the journal only as the fence protocol says.              *)
FollowsFenceProtocol == [][Next]_vars

(* What every step of an execution keeps to: both of these, and no proof older *)
(* than one stored before.                                                     *)
ExecutionSteps == NothingAfterEnd /\ FollowsFenceProtocol /\ TrustNeverRegresses

(* A finished operation gives back every resource, also when its call died.    *)
ResourcesReturn ==
  \A a \in Attempts : ~Running(a) ~> \A r \in Resources : owner[r] # a

OperatorNeeded(a) ==
  \/ Running(a) /\ (PhaseOf(a) = "reconciliation" \/ ~RetryableBlock(a))
  \/ fence[ProjectOf[a]].state = "needs_reconcile"

(* PLAN.md: recovery converges to one legal continuation or to a state that    *)
(* waits for an operator.                                                      *)
Converges ==
  \A a \in Attempts : <>(~Running(a) \/ \E b \in Attempts : OperatorNeeded(b))

(* Every operation ends or waits for an operator, and what ended keeps nothing. *)
ConvergesAndReturns == Converges /\ ResourcesReturn
================================================================================
