--------------------------- MODULE DurableController ---------------------------
(* The controller's projection of an operation (control.sqlite): the phase,    *)
(* result and blocking reason an operator sees, and the receipts projected so  *)
(* far.  Every action is one transaction of src/src/controller.rs.             *)
(*                                                                             *)
(* Abstraction: the list of transitions is kept as the set of projected        *)
(* receipts and the phase reconciliation was entered from; the source blocks   *)
(* nothing retries (divergence, invalid attestation, operator hold) are one.   *)
EXTENDS OperationContract

VARIABLE ctl   \* ctl[a]: projection of attempt a

Results == {"running", "succeeded", "rolled_back", "failed", "cancelled",
            "superseded"}
Blocks  == {"none", "disk_reserve", "broker_unavailable", "source_hold",
            "security_invalid"}
Modes   == {"none", "rollback", "reconciliation"}

ControllerInit ==
  ctl = [a \in Attempts |->
          [phase |-> "queued", result |-> "running", block |-> "none",
           mode |-> "none", from |-> "none", projected |-> {}]]

--------------------------------------------------------------------------------
Running(a)  == ctl[a].result = "running"
BranchOf(a) == IF ctl[a].mode = "rollback" THEN "rollback_recovery" ELSE "primary"
KeyOf(a)    == StorageKey(BranchOf(a), ctl[a].phase)

MutatingKey(k) == CrossesMutationBoundary(k) \/ k \in RecoveryKeys

HasCommittedMutation(a) == \E k \in ctl[a].projected : MutatingKey(k)

(* Mutant: a finished rollback is reported like a finished deploy.             *)
RollbackSucceeds(c, kind, phase, recovering) ==
  LET plan == IF recovering THEN RecoveryPhases ELSE RequiredPhases(kind)
      i    == CHOOSE n \in DOMAIN plan : plan[n] = phase
  IN IF i < Len(plan) THEN [c EXCEPT !.phase = plan[i + 1], !.block = "none"]
     ELSE [c EXCEPT !.phase = phase, !.block = "none", !.result = "succeeded"]

(* The state a receipt of `phase` leads to: the next phase of the list, or,    *)
(* after the last one, the terminal result.                                    *)
AfterReceipt(c, kind, phase, recovering) ==
  LET plan == IF recovering THEN RecoveryPhases ELSE RequiredPhases(kind)
      i    == CHOOSE n \in DOMAIN plan : plan[n] = phase
  IN IF i < Len(plan)
     THEN [c EXCEPT !.phase = plan[i + 1], !.block = "none"]
     ELSE [c EXCEPT !.phase = phase, !.block = "none",
                    !.result = IF recovering \/ kind = "code_rollback"
                               THEN "rolled_back" ELSE "succeeded"]

Set(a, c) == ctl' = [ctl EXCEPT ![a] = c]

--------------------------------------------------------------------------------
(* A receipt projected before is a replay and changes nothing.                 *)
CommitReceipt(a) ==
  /\ Running(a) \/ KeyOf(a) \in ctl[a].projected
  /\ Set(a, IF KeyOf(a) \in ctl[a].projected THEN ctl[a]
            ELSE [AfterReceipt(ctl[a], KindOf[a], ctl[a].phase,
                               ctl[a].mode = "rollback")
                    EXCEPT !.projected = @ \cup {KeyOf(a)}])

(* The receipt of the phase that was left for reconciliation.                  *)
CommitReconciledReceipt(a) ==
  /\ Running(a)
  /\ ctl[a].phase = "reconciliation" /\ ctl[a].mode = "reconciliation"
  /\ Set(a, [AfterReceipt(ctl[a], KindOf[a], ctl[a].from, FALSE)
               EXCEPT !.projected = @ \cup {ctl[a].from}, !.mode = "none",
                      !.from = "none"])

MarkNeedsReconcile(a) ==
  /\ Running(a)
  /\ ctl[a].phase # "reconciliation"
  /\ Set(a, [ctl[a] EXCEPT !.phase = "reconciliation", !.from = ctl[a].phase,
                           !.mode = "reconciliation", !.block = "security_invalid"])

(* An operator may send a deploy back once its cut-over is projected.          *)
RollbackTransition(a) ==
  \/ ctl[a].mode = "rollback" /\ ctl[a].phase = "rollback" /\ Running(a)
  \/ /\ ctl[a].mode # "rollback" /\ Running(a)
     /\ CrossesMutationBoundary(ctl[a].phase)
     /\ "deploying" \in ctl[a].projected
     /\ RecoveryAllowed(KindOf[a])

BeginRollback(a) ==
  /\ RollbackTransition(a)
  /\ Set(a, IF ctl[a].mode = "rollback" THEN ctl[a]
            ELSE [ctl[a] EXCEPT !.phase = "rollback", !.block = "none",
                                !.mode = "rollback", !.from = "none"])

--------------------------------------------------------------------------------
(* A block is set only before the first projected mutation, and does not hide  *)
(* an earlier one, except the one that is retried anyway.                      *)
SetPreMutationBlock(a, reason) ==
  /\ Running(a) /\ ~HasCommittedMutation(a)
  /\ Set(a, IF ctl[a].block \in {"none", "broker_unavailable"}
            THEN [ctl[a] EXCEPT !.block = reason] ELSE ctl[a])

SetSourceBlock(a, reason) ==
  /\ reason \in {"broker_unavailable", "source_hold"}
  /\ IsDeploy(KindOf[a])
  /\ SetPreMutationBlock(a, reason)

SetDiskBlock(a) == SetPreMutationBlock(a, "disk_reserve")

ClearDiskBlock(a) ==
  /\ Running(a) /\ ~HasCommittedMutation(a)
  /\ ctl[a].block = "disk_reserve"
  /\ Set(a, [ctl[a] EXCEPT !.block = "none"])

CutoverRetry(a) ==
  Running(a) /\ ctl[a].phase = "cutover_snapshotting" /\ IsStateful(KindOf[a])

SetCutoverSourceBlock(a) ==
  /\ CutoverRetry(a)
  /\ ctl[a].block \in {"none", "broker_unavailable"}
  /\ Set(a, [ctl[a] EXCEPT !.block = "broker_unavailable"])

ClearCutoverSourceBlock(a) ==
  /\ CutoverRetry(a)
  /\ ctl[a].block \in {"none", "broker_unavailable"}
  /\ Set(a, [ctl[a] EXCEPT !.block = "none"])

--------------------------------------------------------------------------------
SupersedeSourceAttempt(a) ==
  /\ IF Running(a)
     THEN /\ IsDeploy(KindOf[a]) /\ ~HasCommittedMutation(a)
          /\ Set(a, [ctl[a] EXCEPT !.result = "superseded", !.block = "none"])
     ELSE Set(a, ctl[a])

(* Mutant: an operation can be ended at any time.                              *)
EndAnyTime(a, result) ==
  Running(a) /\ Set(a, [ctl[a] EXCEPT !.result = result, !.block = "none"])

(* Cancelling and failing are refused from the first mutating phase on.        *)
EndBeforeMutation(a, result) ==
  /\ Running(a)
  /\ ~CrossesMutationBoundary(ctl[a].phase)
  /\ Set(a, [ctl[a] EXCEPT !.result = result, !.block = "none"])

FailAttempt(a)          == EndBeforeMutation(a, "failed")
CancelBeforeMutation(a) == EndBeforeMutation(a, "cancelled")

ControllerTypeOK ==
  ctl \in [Attempts -> [phase : ShownPhases, result : Results, block : Blocks,
                        mode : Modes, from : Phases \cup {"none"},
                        projected : SUBSET Keys]]
================================================================================
