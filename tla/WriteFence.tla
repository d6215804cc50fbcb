------------------------------- MODULE WriteFence -------------------------------
(* The write fence of a project: the executor's fence journal, the epoch       *)
(* identities reserved before it (base-backup boundary and drain identity),    *)
(* and the fence the managed application really holds.  A fence follows        *)
(*   acquire_intent -> held -> release_intent -> released                      *)
(* and any observation that does not fit stops in needs_reconcile.             *)
(* Source: src/src/store/security.rs (journal), the fence calls of             *)
(* src/src/executor.rs; the application's own fence store is external.         *)
(*                                                                             *)
(* Abstraction: the random token of a lease stands and falls with its epoch;   *)
(* an application fence the executor never issued is one of the Foreign        *)
(* holders.  A project keeps the latest row only: an earlier row is released   *)
(* and is never read again.                                                    *)
EXTENDS PhaseJournal

CONSTANTS Foreign,   \* fence holders the executor never authorised
          MaxEpoch,  \* bound on the epoch counter
          MaxTampers \* bound on outside changes to an application's fence

ASSUME FenceAssumption ==
  /\ Foreign \cap Attempts = {}
  /\ NoAttempt \notin Foreign
  /\ MaxEpoch \in Nat
  /\ MaxTampers \in Nat

VARIABLES
  fence,     \* fence[p]: latest fence journal row of p
  drain,     \* drain[p]: reserved drain identity of p
  boundary,  \* boundary[p]: reserved base-backup boundary of p
  epoch,     \* last epoch the executor handed out
  held,      \* held[p]: the fence the application of p reports
  tampers    \* outside changes to an application's fence so far

fenceVars == <<fence, drain, boundary, epoch, held, tampers>>

Holders == Attempts \cup Foreign

FenceStates == {"none", "acquire_intent", "held", "release_intent", "released",
                "needs_reconcile"}

NoFence == [state |-> "none", attempt |-> NoAttempt, epoch |-> 0, receipt |-> "none"]
NoLease == [attempt |-> NoAttempt, epoch |-> 0]

Lease(a, e) == [attempt |-> a, epoch |-> e]

FenceInit ==
  /\ fence = [p \in Projects |-> NoFence]
  /\ drain = [p \in Projects |-> NoLease]
  /\ boundary = [p \in Projects |-> NoLease]
  /\ epoch = 0
  /\ held = [p \in Projects |-> NoLease]
  /\ tampers = 0

--------------------------------------------------------------------------------
ActiveFence(p) == fence[p].state \notin {"none", "released"}
LeaseOf(p)     == Lease(fence[p].attempt, fence[p].epoch)
Reserved(l)    == l # NoLease

(* A project lock or disk reservation is refused while another attempt has a   *)
(* fence, drain identity or backup boundary on the project.                    *)
ProjectResourceAllowed(p, a) ==
  /\ ActiveFence(p) => fence[p].attempt = a
  /\ Reserved(drain[p]) => drain[p].attempt = a
  /\ Reserved(boundary[p]) => boundary[p].attempt = a

FencePhaseReceipts(a) == Committed(a, "backing_up") /\ Committed(a, "draining")

(* The receipts that make it safe to let writers in again, for the branch the  *)
(* attempt is on when the release is requested.                                *)
ReleaseSafe(a, k) ==
  /\ Committed(a, k)
  /\ IF takeover[a] = "none" THEN k \in {"soaking", "rollback"}
     ELSE k = "rollback_recovery_soaking"

(* Mutant: a fence the attempt already released is not noticed.                *)
RollbackAfterRelease(p, a) ==
  ActiveFence(p) => fence[p].attempt = a /\ fence[p].state = "held"

RollbackFenceAvailable(p, a) ==
  IF ActiveFence(p) THEN fence[p].attempt = a /\ fence[p].state = "held"
  ELSE ~(fence[p].state = "released" /\ fence[p].attempt = a)

--------------------------------------------------------------------------------
(* One counter serves boundaries, drain identities and fences.                 *)
ReusedEpoch == epoch   \* mutant: the counter is read but not advanced
NextEpoch   == epoch + 1

(* Reservations.  Replays of a reservation by its own attempt change nothing.  *)
CanBeginBackupBoundary(p, a) ==
  /\ journal[a]["backing_up"] = "intent"
  /\ ~ActiveFence(p) /\ ~Reserved(drain[p])
  /\ Reserved(boundary[p]) => boundary[p].attempt = a

BeginBackupBoundary(p, a) ==
  /\ CanBeginBackupBoundary(p, a)
  /\ ~Reserved(boundary[p])
  /\ epoch < MaxEpoch
  /\ epoch' = NextEpoch
  /\ boundary' = [boundary EXCEPT ![p] = Lease(a, NextEpoch)]
  /\ UNCHANGED <<fence, drain, held, tampers>>

(* The receipt of a bound base backup closes its boundary in one transaction.  *)
CommitBackupAndCloseBoundary(p, a) ==
  /\ boundary[p].attempt = a
  /\ CommitPhaseReceipt(a, "primary", "backing_up")
  /\ boundary' = [boundary EXCEPT ![p] = NoLease]
  /\ UNCHANGED <<fence, drain, epoch, held, tampers>>

CanBeginDrainIdentity(p, a) ==
  /\ Committed(a, "backing_up")
  /\ ~ActiveFence(p) /\ ~Reserved(boundary[p])
  /\ Reserved(drain[p]) => drain[p].attempt = a

BeginDrainIdentity(p, a) ==
  /\ CanBeginDrainIdentity(p, a)
  /\ ~Reserved(drain[p])
  /\ epoch < MaxEpoch
  /\ epoch' = NextEpoch
  /\ drain' = [drain EXCEPT ![p] = Lease(a, NextEpoch)]
  /\ UNCHANGED <<fence, boundary, held, tampers>>

--------------------------------------------------------------------------------
(* A second acquire by the holder is a replay; the drain identity, if any, is  *)
(* promoted with its epoch, otherwise a fresh epoch is used.                   *)
(* Mutant: the base backup and the drain are taken for granted.                *)
AcquireWithoutReceipts(p, a) ==
  IF ActiveFence(p) THEN fence[p].attempt = a /\ fence[p].state \in {"acquire_intent", "held"}
  ELSE Reserved(drain[p]) => drain[p].attempt = a

CanBeginFenceAcquire(p, a) ==
  /\ FencePhaseReceipts(a)
  /\ IF ActiveFence(p)
     THEN fence[p].attempt = a /\ fence[p].state \in {"acquire_intent", "held"}
     ELSE Reserved(drain[p]) => drain[p].attempt = a

BeginFenceAcquire(p, a) ==
  /\ CanBeginFenceAcquire(p, a)
  /\ ~ActiveFence(p)
  /\ IF Reserved(drain[p])
     THEN /\ fence' = [fence EXCEPT ![p] =
                [state |-> "acquire_intent", attempt |-> a,
                 epoch |-> drain[p].epoch, receipt |-> "none"]]
          /\ drain' = [drain EXCEPT ![p] = NoLease]
          /\ epoch' = epoch
     ELSE /\ epoch < MaxEpoch
          /\ fence' = [fence EXCEPT ![p] =
                [state |-> "acquire_intent", attempt |-> a,
                 epoch |-> NextEpoch, receipt |-> "none"]]
          /\ epoch' = NextEpoch
          /\ drain' = drain
  /\ UNCHANGED <<boundary, held, tampers>>

(* The application takes the fence: only when it reports none.                 *)
(* Mutant: whatever the application reports is overwritten.                    *)
AcquireOverForeign(p) ==
  /\ fence[p].state \in {"acquire_intent", "held"}
  /\ held' = [held EXCEPT ![p] = LeaseOf(p)]
  /\ UNCHANGED <<fence, drain, boundary, epoch, tampers>>

AcquireFence(p) ==
  /\ fence[p].state \in {"acquire_intent", "held"}
  /\ held[p] = NoLease
  /\ held' = [held EXCEPT ![p] = LeaseOf(p)]
  /\ UNCHANGED <<fence, drain, boundary, epoch, tampers>>

(* Mutant: any soak receipt will do, whatever branch the attempt is on.        *)
ReleaseOnAnySoak(p, a, k) ==
  /\ Committed(a, k) /\ k \in {"soaking", "rollback_recovery_soaking"}
  /\ fence[p].attempt = a /\ fence[p].state = "held"

(* Mutant: a release that was interrupted cannot be repeated.                  *)
ReleaseOnlyOnce(p, a, k) ==
  ReleaseSafe(a, k) /\ fence[p].attempt = a /\ fence[p].state = "held"

CanBeginFenceRelease(p, a, k) ==
  /\ ReleaseSafe(a, k)
  /\ fence[p].attempt = a
  /\ \/ fence[p].state = "held"
     \/ fence[p].state \in {"release_intent", "released"} /\ fence[p].receipt = k

BeginFenceRelease(p, a, k) ==
  /\ CanBeginFenceRelease(p, a, k)
  /\ fence[p].state = "held"
  /\ fence' = [fence EXCEPT ![p].state = "release_intent", ![p].receipt = k]
  /\ UNCHANGED <<drain, boundary, epoch, held, tampers>>

(* The application lets go of the fence: only of the lease it was asked for.   *)
ReleaseFence(p) ==
  /\ fence[p].state = "release_intent"
  /\ held[p] = LeaseOf(p)
  /\ held' = [held EXCEPT ![p] = NoLease]
  /\ UNCHANGED <<fence, drain, boundary, epoch, tampers>>

--------------------------------------------------------------------------------
(* Mutant: a requested release is believed, not observed.                      *)
ReleaseBelieved(p) ==
  [fence[p] EXCEPT !.state = IF @ = "release_intent" THEN "released"
                             ELSE IF held[p] = LeaseOf(p) THEN "held" ELSE @]

(* What a row becomes when the application's fence is observed.                *)
ReconciledFence(p) ==
  LET f == fence[p]
      safe == Committed(f.attempt, f.receipt)
  IN IF ~ActiveFence(p)
     THEN IF held[p] = NoLease THEN f
          ELSE [state |-> "needs_reconcile", attempt |-> held[p].attempt,
                epoch |-> held[p].epoch, receipt |-> "none"]
     ELSE IF f.state \in {"acquire_intent", "held"} /\ held[p] = LeaseOf(p)
          THEN [f EXCEPT !.state = "held"]
     ELSE IF f.state = "release_intent" /\ safe /\ held[p] = LeaseOf(p) THEN f
     ELSE IF f.state = "release_intent" /\ safe /\ held[p] = NoLease
          THEN [f EXCEPT !.state = "released"]
     ELSE [f EXCEPT !.state = "needs_reconcile"]

ReconcileFence(p) ==
  /\ fence' = [fence EXCEPT ![p] = ReconciledFence(p)]
  /\ UNCHANGED <<drain, boundary, epoch, held, tampers>>

(* Somebody else sets a fence in the application, or clears one.               *)
TamperFence(p) ==
  /\ tampers < MaxTampers
  /\ tampers' = tampers + 1
  /\ held' \in {[held EXCEPT ![p] = l] :
                  l \in {NoLease} \cup {Lease(x, 0) : x \in Foreign}}
  /\ held' # held
  /\ UNCHANGED <<fence, drain, boundary, epoch>>

--------------------------------------------------------------------------------
Init == JournalInit /\ FenceInit

JournalStep ==
  \E a \in Attempts :
    \/ \E branch \in Branches : \E phase \in BranchPhases(branch) :
         \/ BeginPhaseIntent(a, branch, phase)
         \/ RecordPhaseObservation(a, branch, phase)
         \/ MarkPhaseVerified(a, branch, phase)
         \/ /\ phase = "backing_up" => boundary[ProjectOf[a]].attempt # a
            /\ CommitPhaseReceipt(a, branch, phase)
         \/ MarkPhaseNeedsReconcile(a, branch, phase)
    \/ RecordSourceGateProof(a)
    \/ RejectSourceGateProof(a)
    \/ CompensateSourceGateRejection(a)
    \/ RollbackFenceAvailable(ProjectOf[a], a) /\ BeginRollbackTakeover(a)

(* The executor observes an acquisition only after the application confirmed   *)
(* it: from then on the fence can be missing only because of others.           *)
ObservationDue(p) ==
  fence[p].state \in {"acquire_intent", "held"} /\ held[p] = NoLease => tampers > 0

(* A fence is sought, kept and released by attempts of its own project.        *)
FenceStep ==
  \E p \in Projects :
    \/ \E a \in {x \in Attempts : ProjectOf[x] = p} :
         \/ BeginBackupBoundary(p, a)
         \/ BeginDrainIdentity(p, a)
         \/ BeginFenceAcquire(p, a)
         \/ \E k \in Keys : BeginFenceRelease(p, a, k)
    \/ AcquireFence(p)
    \/ ReleaseFence(p)
    \/ ObservationDue(p) /\ ReconcileFence(p)
    \/ TamperFence(p)

CloseBoundaryStep ==
  \E a \in Attempts : CommitBackupAndCloseBoundary(ProjectOf[a], a)

Next ==
  \/ JournalStep /\ UNCHANGED fenceVars
  \/ FenceStep /\ UNCHANGED journalVars
  \/ CloseBoundaryStep

vars == <<journalVars, fenceVars>>

Spec == Init /\ [][Next]_vars

--------------------------------------------------------------------------------
FenceRow == [state : FenceStates, attempt : Holders \cup {NoAttempt},
             epoch : Nat, receipt : Keys \cup {"none"}]
LeaseRow == [attempt : Holders \cup {NoAttempt}, epoch : Nat]

TypeOK ==
  /\ JournalTypeOK
  /\ fence \in [Projects -> FenceRow]
  /\ drain \in [Projects -> LeaseRow]
  /\ boundary \in [Projects -> LeaseRow]
  /\ epoch \in Nat
  /\ held \in [Projects -> LeaseRow]
  /\ tampers \in Nat

(* Writers return only on release-safe evidence: a fence whose release was     *)
(* requested has a committed receipt of the branch its attempt ended on -- a   *)
(* forward soak never frees the fence of an attempt whose rollback is sealed.  *)
ReleaseHasEvidence ==
  \A p \in Projects : fence[p].state \in {"release_intent", "released"} =>
    /\ fence[p].attempt \in Attempts
    /\ ReleaseSafe(fence[p].attempt, fence[p].receipt)

(* A fence is journalled as acquired only for an attempt whose base backup and *)
(* drain are committed.                                                        *)
FenceAfterBackup ==
  \A p \in Projects :
    fence[p].state \in {"acquire_intent", "held", "release_intent", "released"} =>
      /\ fence[p].attempt \in Attempts
      /\ ProjectOf[fence[p].attempt] = p
      /\ FencePhaseReceipts(fence[p].attempt)

(* Where an epoch can be in use, and which one is.                             *)
Slots == {"fence", "drain", "boundary"}

InUse(p, slot) ==
  CASE slot = "fence" -> fence[p].attempt \in Attempts
    [] slot = "drain" -> Reserved(drain[p])
    [] slot = "boundary" -> Reserved(boundary[p])

EpochOf(p, slot) ==
  CASE slot = "fence" -> fence[p].epoch
    [] slot = "drain" -> drain[p].epoch
    [] slot = "boundary" -> boundary[p].epoch

(* No two identities in use, of one project or of two, share an epoch, and     *)
(* none is above the counter.                                                  *)
EpochsUnique ==
  \A p, q \in Projects : \A s, t \in Slots : InUse(p, s) =>
    /\ EpochOf(p, s) \in 1 .. epoch
    /\ InUse(q, t) /\ (p # q \/ s # t) => EpochOf(p, s) # EpochOf(q, t)

(* A fence a project takes later has a higher epoch than every fence it had    *)
(* before, so the application can tell a stale holder from the current one.    *)
EpochsAscend ==
  [][\A p \in Projects :
       fence'[p].state = "acquire_intent" /\ fence[p].state # "acquire_intent" =>
         fence'[p].epoch > fence[p].epoch]_vars

(* As long as nobody else touches the application's fence, the journal never   *)
(* says "held" of a fence the application does not hold, never loses one, and  *)
(* never has to stop for reconciliation -- whatever crashes in between.        *)
JournalMatchesApplication ==
  tampers = 0 => \A p \in Projects :
    CASE fence[p].state = "held" -> held[p] = LeaseOf(p)
      [] fence[p].state \in {"none", "released"} -> held[p] = NoLease
      [] fence[p].state \in {"acquire_intent", "release_intent"} ->
           held[p] \in {NoLease, LeaseOf(p)}
      [] OTHER -> FALSE

(* A project without an active fence row has either no row yet or a released   *)
(* one, and the application then holds no fence of an attempt.                 *)
FreeFence ==
  \A p \in Projects :
    /\ fence[p].state = "none" => fence[p] = NoFence
    /\ ~ActiveFence(p) => held[p].attempt \notin Attempts

(* A reserved drain identity is newer than the fence it will follow, and no    *)
(* fence is taken beside it.                                                   *)
DrainIsNewest ==
  \A p \in Projects : Reserved(drain[p]) /\ fence[p].state # "needs_reconcile" =>
    ~ActiveFence(p) /\ fence[p].epoch < drain[p].epoch

(* The inductive invariant of the fence.                                       *)
FenceInv ==
  /\ JournalInv
  /\ TypeOK
  /\ FenceAfterBackup
  /\ ReleaseHasEvidence
  /\ FreeFence
  /\ DrainIsNewest
  /\ EpochsUnique

(* The executor never overwrites or clears an application fence that is not    *)
(* the lease it journalled, and clears its own only with evidence.             *)
ForeignFenceUntouched ==
  [][tampers' = tampers => \A p \in Projects : held'[p] # held[p] =>
       \/ held[p] = NoLease /\ held'[p] = LeaseOf(p) /\ ActiveFence(p)
       \/ /\ held[p] = LeaseOf(p) /\ held'[p] = NoLease
          /\ fence[p].attempt \in Attempts
          /\ ReleaseSafe(fence[p].attempt, fence[p].receipt)]_vars

(* PLAN.md: a fence that is missing where the journal has it held blocks the   *)
(* project as needs_reconcile; it is not put back.                             *)
MissingFenceBlocks ==
  [][\A p \in Projects : fence[p].state = "held" /\ held[p] = NoLease =>
       held'[p] # LeaseOf(p)]_vars
================================================================================
