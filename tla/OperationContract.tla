--------------------------- MODULE OperationContract ---------------------------
(* The static contract of a privileged operation: its phases, the ordered     *)
(* phase list each kind of operation must follow, and the classification of   *)
(* phases the executor and the controller consult.                            *)
(* Source: src/src/domain/operation.rs, src/src/domain/states.rs and the      *)
(* phase predicates of src/src/executor.rs.                                   *)
EXTENDS Naturals, Sequences

(* An operation kind together with its release class.                         *)
Kinds == {"code_only", "stateful_compatible", "stateful_breaking",
          "code_rollback", "backup_only"}

CONSTANTS Attempts,    \* operation attempts
          Projects,    \* managed projects
          NoAttempt,   \* nobody
          ProjectOf,   \* the project an attempt is bound to
          KindOf,      \* the kind of an attempt
          SequenceOf   \* the source sequence an attempt was admitted with

ASSUME AttemptAssumption ==
  /\ NoAttempt \notin Attempts
  /\ ProjectOf \in [Attempts -> Projects]
  /\ KindOf \in [Attempts -> Kinds]
  /\ SequenceOf \in [Attempts -> Nat \ {0}]

Phases == {"queued", "syncing_source", "verifying_source", "testing",
           "building", "preflight", "backing_up", "draining",
           "cutover_snapshotting", "migrating", "deploying",
           "health_checking", "soaking", "rollback"}

(* The controller also shows a phase that is never executed.                  *)
ShownPhases == Phases \cup {"reconciliation"}

CodeOnlyPhases ==
  <<"queued", "syncing_source", "verifying_source", "testing", "building",
    "preflight", "deploying", "health_checking", "soaking">>

StatefulPhases ==
  <<"queued", "syncing_source", "verifying_source", "testing", "building",
    "preflight", "backing_up", "draining", "cutover_snapshotting",
    "migrating", "deploying", "health_checking", "soaking">>

CodeRollbackPhases ==
  <<"queued", "preflight", "rollback", "health_checking", "soaking">>

BackupOnlyPhases == <<"queued", "preflight", "backing_up">>

(* The list of a rollback of a deploy that went wrong after its cut-over.     *)
RecoveryPhases == <<"rollback", "health_checking", "soaking">>

IsStateful(kind) == kind \in {"stateful_compatible", "stateful_breaking"}
IsDeploy(kind)   == kind = "code_only" \/ IsStateful(kind)

RequiredPhases(kind) ==
  CASE kind = "code_only"     -> CodeOnlyPhases
    [] IsStateful(kind)       -> StatefulPhases
    [] kind = "code_rollback" -> CodeRollbackPhases
    [] kind = "backup_only"   -> BackupOnlyPhases

(* A deploy whose class lets a failed release return to the previous code.    *)
RecoveryAllowed(kind) == kind \in {"code_only", "stateful_compatible"}

InPlan(kind, phase) ==
  \E i \in DOMAIN RequiredPhases(kind) : RequiredPhases(kind)[i] = phase

(* The phases of a plan that come before a phase of it.                        *)
PhasesBefore ==
  [kind \in Kinds |-> [phase \in Phases |->
    {q \in Phases : \E i, j \in DOMAIN RequiredPhases(kind) :
       /\ i < j
       /\ RequiredPhases(kind)[i] = q
       /\ RequiredPhases(kind)[j] = phase}]]

CrossesMutationBoundary(phase) ==
  phase \in {"backing_up", "draining", "cutover_snapshotting", "migrating",
             "deploying", "health_checking", "soaking", "rollback",
             "reconciliation"}

--------------------------------------------------------------------------------
(* Journal keys.  A phase has one journal row per branch: the forward          *)
(* ("primary") run, and the rollback of a deploy that was already cut over.    *)
Branches == {"primary", "rollback_recovery"}

RecoveryKeys == {"rollback_recovery", "rollback_recovery_health_checking",
                 "rollback_recovery_soaking"}

Keys == Phases \cup RecoveryKeys

StorageKey(branch, phase) ==
  IF branch = "primary" THEN phase
  ELSE CASE phase = "rollback"        -> "rollback_recovery"
         [] phase = "health_checking" -> "rollback_recovery_health_checking"
         [] OTHER                     -> "rollback_recovery_soaking"

(* The phases a branch can run.                                                *)
BranchPhases(branch) ==
  IF branch = "primary" THEN Phases ELSE {"rollback", "health_checking", "soaking"}

--------------------------------------------------------------------------------
(* What a phase needs before it may touch the world.                           *)
RequiresDisk(phase) ==
  phase \in {"testing", "building", "preflight", "backing_up",
             "cutover_snapshotting", "migrating", "deploying",
             "health_checking", "soaking", "rollback"}

RequiresProjectLock(phase) ==
  phase \in {"preflight", "backing_up", "draining", "cutover_snapshotting",
             "migrating", "deploying", "health_checking", "soaking", "rollback"}

RequiresRegistry(phase) == phase \in {"building", "deploying"}

(* The phase at which the broker must vouch for the source, and the phase      *)
(* whose receipt ends the broker's ticket ("none": the kind needs no ticket).  *)
AdmissionPhase(kind) ==
  IF kind = "code_only" THEN "deploying"
  ELSE IF IsStateful(kind) THEN "backing_up" ELSE "none"

CompletionPhase(kind) ==
  IF kind = "code_only" THEN "deploying"
  ELSE IF IsStateful(kind) THEN "cutover_snapshotting" ELSE "none"
================================================================================
