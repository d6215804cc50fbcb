------------------------------ MODULE PhaseJournal ------------------------------
(* The phase part of the executor's root-owned journal (security.sqlite):      *)
(* per attempt and phase one row that walks                                    *)
(*   intent -> observed -> verified -> committed                               *)
(* or stops in needs_reconcile, the seal that hands an attempt over to its     *)
(* rollback branch, and the source-gate proofs with their rejections.          *)
(* Every action is one immediate SQLite transaction of                         *)
(* src/src/store/security.rs; a transaction that returns an error is a step    *)
(* that does not happen.                                                       *)
(*                                                                             *)
(* Abstraction: digests are left out.  A phase intent is a function of the     *)
(* attempt's authorisation and of the evidence projected before the phase, so  *)
(* the intent an attempt presents for a phase never changes; an effect of      *)
(* another intent is what the environment of DurableExecution calls foreign.   *)
EXTENDS OperationContract

CONSTANT EarlierTrust   \* source sequences earlier operations may have proved

ASSUME TrustAssumption == EarlierTrust \subseteq Nat

VARIABLES
  journal,    \* journal[a][k]: status of the row (a, k)
  takeover,   \* takeover[a]: forward phase a rollback sealed, or "none"
  proof,      \* proof[a]: a source-gate proof is stored for a's admission phase
  rejection,  \* rejection[a]: state of a's rejected source-gate proof
  trust       \* trust[p]: highest source sequence ever proved for p

journalVars == <<journal, takeover, proof, rejection, trust>>

Statuses == {"none", "intent", "observed", "verified", "committed",
             "needs_reconcile"}

RejectionStates == {"none", "abort_pending", "compensated"}

JournalInit ==
  /\ journal = [a \in Attempts |-> [k \in Keys |-> "none"]]
  /\ takeover = [a \in Attempts |-> "none"]
  /\ proof = [a \in Attempts |-> FALSE]
  /\ rejection = [a \in Attempts |-> "none"]
  /\ trust \in [Projects -> EarlierTrust]

--------------------------------------------------------------------------------
Committed(a, k)   == journal[a][k] = "committed"
Uncommitted(a, k) == journal[a][k] \notin {"none", "committed"}

(* Mutant: the earlier phases of the plan are not looked at.                   *)
SkipsEarlierPhases(a, phase) == takeover[a] = "none" /\ InPlan(KindOf[a], phase)

(* Every earlier phase of the plan is committed and nothing outside the plan   *)
(* up to this phase is.                                                        *)
PrimaryPrerequisites(a, phase) ==
  /\ takeover[a] = "none"
  /\ InPlan(KindOf[a], phase)
  /\ \A q \in PhasesBefore[KindOf[a]][phase] : Committed(a, q)
  /\ \A k \in Keys : Committed(a, k) =>
       k \in PhasesBefore[KindOf[a]][phase] \cup {phase}

(* Mutant: the recovery phases may start in any order.                         *)
RecoveryOutOfOrder(a, phase) == RecoveryAllowed(KindOf[a]) /\ Committed(a, "deploying")

RecoveryPrerequisites(a, phase) ==
  LET kind == KindOf[a]
      before == CASE phase = "rollback" -> {}
                  [] phase = "health_checking" -> {"rollback_recovery"}
                  [] OTHER -> {"rollback_recovery",
                               "rollback_recovery_health_checking"}
  IN /\ RecoveryAllowed(kind)
     /\ \A r \in Phases : Committed(a, r) =>
          \A q \in PhasesBefore[kind][r] : Committed(a, q)
     /\ Committed(a, "deploying")
     /\ \A k \in before : Committed(a, k)
     /\ \A k \in Keys : Committed(a, k) =>
          \/ k \in Phases /\ InPlan(kind, k)
          \/ k \in before \cup {StorageKey("rollback_recovery", phase)}

PhasePrerequisites(a, branch, phase) ==
  IF branch = "primary" THEN PrimaryPrerequisites(a, phase)
  ELSE RecoveryPrerequisites(a, phase)

(* Mutant: only rows that stopped count as open.                               *)
SeesStoppedRowsOnly(a, branch) == \E k \in Keys : journal[a][k] = "needs_reconcile"

(* Another row of the attempt is still open; the forward row a rollback        *)
(* sealed does not count for the rollback branch.                              *)
UncommittedConflict(a, branch) ==
  \E k \in Keys :
    /\ Uncommitted(a, k)
    /\ ~(branch = "rollback_recovery" /\ k = takeover[a])

(* Mutant: the forward branch keeps writing after the seal.                    *)
ForwardStillOpen(a, branch) == TRUE

BranchNotTakenOver(a, branch) == branch = "primary" => takeover[a] = "none"

SetStatus(a, k, status) ==
  journal' = [journal EXCEPT ![a] = [@ EXCEPT ![k] = status]]

--------------------------------------------------------------------------------
BeginPhaseIntent(a, branch, phase) ==
  LET k == StorageKey(branch, phase)
  IN /\ journal[a][k] = "none"
     /\ ~UncommittedConflict(a, branch)
     /\ PhasePrerequisites(a, branch, phase)
     /\ SetStatus(a, k, "intent")
     /\ UNCHANGED <<takeover, proof, rejection, trust>>

(* The observation matches the intent; a replay finds the row advanced.        *)
RecordPhaseObservation(a, branch, phase) ==
  LET k == StorageKey(branch, phase)
  IN /\ BranchNotTakenOver(a, branch)
     /\ journal[a][k] = "intent"
     /\ SetStatus(a, k, "observed")
     /\ UNCHANGED <<takeover, proof, rejection, trust>>

MarkPhaseVerified(a, branch, phase) ==
  LET k == StorageKey(branch, phase)
  IN /\ BranchNotTakenOver(a, branch)
     /\ journal[a][k] = "observed"
     /\ SetStatus(a, k, "verified")
     /\ UNCHANGED <<takeover, proof, rejection, trust>>

CommitPhaseReceipt(a, branch, phase) ==
  LET k == StorageKey(branch, phase)
  IN /\ BranchNotTakenOver(a, branch)
     /\ journal[a][k] = "verified"
     /\ SetStatus(a, k, "committed")
     /\ UNCHANGED <<takeover, proof, rejection, trust>>

MarkPhaseNeedsReconcile(a, branch, phase) ==
  LET k == StorageKey(branch, phase)
  IN /\ BranchNotTakenOver(a, branch)
     /\ Uncommitted(a, k)
     /\ SetStatus(a, k, "needs_reconcile")
     /\ UNCHANGED <<takeover, proof, rejection, trust>>

--------------------------------------------------------------------------------
(* Source-gate proofs.  The proof of an attempt is bound to its own sequence;  *)
(* a project never accepts a proof older than one it accepted before.  The     *)
(* broker signs one attestation per sequence, so a sequence stands for its     *)
(* attestation; a proof that is malformed or names another operation is not an *)
(* input here: an attempt has one proof.                                       *)
(* Mutant: off by one.                                                         *)
TrustRegressedByTwo(a) == trust[ProjectOf[a]] > SequenceOf[a] + 1

TrustRegressed(a) == trust[ProjectOf[a]] > SequenceOf[a]

RecordSourceGateProof(a) ==
  /\ IsDeploy(KindOf[a])
  /\ journal[a][AdmissionPhase(KindOf[a])] = "intent"
  /\ ~TrustRegressed(a)
  /\ proof' = [proof EXCEPT ![a] = TRUE]
  /\ trust' = [trust EXCEPT ![ProjectOf[a]] = SequenceOf[a]]
  /\ UNCHANGED <<journal, takeover, rejection>>

RejectSourceGateProof(a) ==
  /\ IsDeploy(KindOf[a])
  /\ journal[a][AdmissionPhase(KindOf[a])] = "intent"
  /\ TrustRegressed(a)
  /\ SetStatus(a, AdmissionPhase(KindOf[a]), "needs_reconcile")
  /\ rejection' = [rejection EXCEPT ![a] = "abort_pending"]
  /\ UNCHANGED <<takeover, proof, trust>>

CompensateSourceGateRejection(a) ==
  /\ IsDeploy(KindOf[a])
  /\ takeover[a] = "none"
  /\ rejection[a] = "abort_pending"
  /\ journal[a][AdmissionPhase(KindOf[a])] = "needs_reconcile"
  /\ SetStatus(a, AdmissionPhase(KindOf[a]), "intent")
  /\ rejection' = [rejection EXCEPT ![a] = "compensated"]
  /\ proof' = [proof EXCEPT ![a] = FALSE]
  /\ UNCHANGED <<takeover, trust>>

--------------------------------------------------------------------------------
(* Sealing a rollback.  The one open forward row, if there is one, must be the *)
(* candidate's health check or soak; otherwise the last committed row from the *)
(* deploy on is sealed.                                                        *)
OpenForward(a) == {k \in Phases : Uncommitted(a, k)}

LastCommittedForward(a) ==
  IF Committed(a, "soaking") THEN "soaking"
  ELSE IF Committed(a, "health_checking") THEN "health_checking"
  ELSE IF Committed(a, "deploying") THEN "deploying" ELSE "none"

(* Mutant: the open row is ignored.                                            *)
SealsLastReceipt(a) == LastCommittedForward(a)

ForwardSnapshot(a) ==
  IF OpenForward(a) = {} THEN LastCommittedForward(a)
  ELSE IF OpenForward(a) = {"health_checking"} THEN "health_checking"
  ELSE IF OpenForward(a) = {"soaking"} THEN "soaking" ELSE "none"

BeginRollbackTakeover(a) ==
  /\ takeover[a] = "none"
  /\ ForwardSnapshot(a) # "none"
  /\ takeover' = [takeover EXCEPT ![a] = ForwardSnapshot(a)]
  /\ UNCHANGED <<journal, proof, rejection, trust>>

--------------------------------------------------------------------------------
JournalNext ==
  \E a \in Attempts :
    \/ \E branch \in Branches : \E phase \in BranchPhases(branch) :
         \/ BeginPhaseIntent(a, branch, phase)
         \/ RecordPhaseObservation(a, branch, phase)
         \/ MarkPhaseVerified(a, branch, phase)
         \/ CommitPhaseReceipt(a, branch, phase)
         \/ MarkPhaseNeedsReconcile(a, branch, phase)
    \/ RecordSourceGateProof(a)
    \/ RejectSourceGateProof(a)
    \/ CompensateSourceGateRejection(a)
    \/ BeginRollbackTakeover(a)

JournalSpec == JournalInit /\ [][JournalNext]_journalVars

--------------------------------------------------------------------------------
JournalTypeOK ==
  /\ journal \in [Attempts -> [Keys -> Statuses]]
  /\ takeover \in [Attempts -> Phases \cup {"none"}]
  /\ proof \in [Attempts -> BOOLEAN]
  /\ rejection \in [Attempts -> RejectionStates]
  /\ trust \in [Projects -> Nat]

(* A row of a phase exists only after every earlier phase of the plan has its  *)
(* receipt: no crash, retry, rejection or rollback leaves a gap.               *)
ReceiptsFormPrefix ==
  \A a \in Attempts : \A r \in Phases : journal[a][r] # "none" =>
    \A q \in PhasesBefore[KindOf[a]][r] : Committed(a, q)

(* At most one row of an attempt is open, apart from the forward row its       *)
(* rollback sealed.                                                            *)
OneOpenRow ==
  \A a \in Attempts : \A k \in Keys : Uncommitted(a, k) =>
    \A l \in Keys : Uncommitted(a, l) /\ k # l =>
      takeover[a] # "none" /\ takeover[a] \in {k, l}

(* The rollback branch has rows only for a deploy that was cut over and may    *)
(* return to its previous release, and they follow one another.                *)
RecoveryInOrder ==
  \A a \in Attempts :
    /\ \A k \in RecoveryKeys : journal[a][k] # "none" =>
         RecoveryAllowed(KindOf[a]) /\ Committed(a, "deploying")
    /\ journal[a]["rollback_recovery_health_checking"] # "none" =>
         Committed(a, "rollback_recovery")
    /\ journal[a]["rollback_recovery_soaking"] # "none" =>
         Committed(a, "rollback_recovery_health_checking")

(* A seal leaves at most the candidate's health check or soak open, and that   *)
(* row is the one it names.                                                    *)
SealNamesOpenRow ==
  \A a \in Attempts : takeover[a] # "none" =>
    /\ takeover[a] \in {"deploying", "health_checking", "soaking"}
    /\ \A k \in Phases : Uncommitted(a, k) =>
         k = takeover[a] /\ k # "deploying"

(* The inductive invariant.  The type and the seal are needed for the freeze,  *)
(* the other parts are inductive beside them.                                  *)
JournalInv ==
  /\ JournalTypeOK
  /\ ReceiptsFormPrefix
  /\ OneOpenRow
  /\ RecoveryInOrder
  /\ SealNamesOpenRow

(* Once sealed, the forward rows never change again, and a receipt is never    *)
(* withdrawn.                                                                  *)
ForwardFrozen ==
  [][\A a \in Attempts :
       /\ takeover[a] # "none" =>
            takeover'[a] = takeover[a]
            /\ \A k \in Phases : journal'[a][k] = journal[a][k]
       /\ \A k \in Keys : Committed(a, k) => journal'[a][k] = "committed"]_journalVars

(* A proof older than the project's high-water mark is never stored.           *)
TrustNeverRegresses ==
  [][\A p \in Projects : trust'[p] >= trust[p]]_journalVars
================================================================================
