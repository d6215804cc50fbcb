---------------------------- MODULE WriteFenceProofs ----------------------------
(* The safety of the journal and of the write fence, for any number of        *)
(* attempts, projects and outside changes, and for every bound on the epochs.  *)
EXTENDS WriteFence, PhaseJournal, TLAPS

--------------------------------------------------------------------------------
(* The journal                                                                 *)

(* Forward and recovery rows have different keys.                              *)
LEMMA KeysDisjoint ==
  /\ Phases \cap RecoveryKeys = {}
  /\ Keys = Phases \cup RecoveryKeys
  /\ "none" \notin Keys
BY DEF Phases, RecoveryKeys, Keys

(* The key of a phase on a branch.                                             *)
LEMMA StorageKeyType ==
  ASSUME NEW branch \in Branches, NEW phase \in BranchPhases(branch)
  PROVE  /\ branch = "primary" => StorageKey(branch, phase) = phase /\ phase \in Phases
         /\ branch # "primary" => StorageKey(branch, phase) \in RecoveryKeys
         /\ StorageKey(branch, phase) \in Keys
BY DEF Branches, BranchPhases, StorageKey, RecoveryKeys, Keys

(* Only a deploy is admitted by the source, at a forward phase that is not one *)
(* of those a rollback can find open.                                          *)
LEMMA AdmissionPhaseType ==
  ASSUME NEW a \in Attempts, IsDeploy(KindOf[a])
  PROVE  /\ AdmissionPhase(KindOf[a]) \in {"deploying", "backing_up"}
         /\ AdmissionPhase(KindOf[a]) \in Phases
BY DEF AdmissionPhase, IsDeploy, IsStateful, Phases

(* Plans are made of phases.                                                   *)
LEMMA PhasesBeforeType ==
  PhasesBefore \in [Kinds -> [Phases -> SUBSET Phases]]
BY DEF PhasesBefore

(* An empty journal satisfies the invariant.                                   *)
LEMMA JournalInitInv == JournalInit => JournalInv
<1> SUFFICES ASSUME JournalInit PROVE JournalInv
  OBVIOUS
<1>1. JournalTypeOK
  <2>1. journal \in [Attempts -> [Keys -> Statuses]]
    BY DEF JournalInit, Statuses
  <2>2. trust \in [Projects -> Nat]
    BY TrustAssumption DEF JournalInit
  <2> QED
    BY <2>1, <2>2 DEF JournalInit, JournalTypeOK, RejectionStates
<1>2. \A a \in Attempts, k \in Keys : journal[a][k] = "none" /\ takeover[a] = "none"
  BY DEF JournalInit
<1>3. ReceiptsFormPrefix
  BY <1>2, KeysDisjoint DEF ReceiptsFormPrefix
<1>4. OneOpenRow
  BY <1>2 DEF OneOpenRow, Uncommitted
<1>5. RecoveryInOrder
  BY <1>2 DEF RecoveryInOrder, Keys, RecoveryKeys
<1>6. SealNamesOpenRow
  BY DEF JournalInit, SealNamesOpenRow
<1> QED
  BY <1>1, <1>3, <1>4, <1>5, <1>6 DEF JournalInv

(* Writing a status changes one row and no other.                              *)
LEMMA SetStatusRow ==
  ASSUME JournalTypeOK, NEW a \in Attempts, NEW k \in Keys,
         NEW status \in Statuses, SetStatus(a, k, status)
  PROVE  /\ journal' \in [Attempts -> [Keys -> Statuses]]
         /\ \A b \in Attempts, l \in Keys :
              journal'[b][l] = IF b = a /\ l = k THEN status ELSE journal[b][l]
BY DEF JournalTypeOK, SetStatus

(* Moving an open row on, whatever its new status, keeps the invariant: the    *)
(* rows that exist stay the same, receipts only grow, open rows only shrink.   *)
LEMMA OpenRowMovesOn ==
  ASSUME JournalInv, NEW a \in Attempts, NEW k \in Keys,
         NEW status \in Statuses, status # "none",
         Uncommitted(a, k), SetStatus(a, k, status), takeover' = takeover
  PROVE  /\ ReceiptsFormPrefix'
         /\ OneOpenRow'
         /\ RecoveryInOrder'
         /\ SealNamesOpenRow'
<1>1. \A b \in Attempts, l \in Keys :
        journal'[b][l] = IF b = a /\ l = k THEN status ELSE journal[b][l]
  BY SetStatusRow DEF JournalInv
<1>2. \A b \in Attempts, l \in Keys :
        /\ journal'[b][l] # "none" => journal[b][l] # "none"
        /\ Committed(b, l) => journal'[b][l] = "committed"
        /\ Uncommitted(b, l)' => Uncommitted(b, l)
  BY <1>1 DEF Committed, Uncommitted
<1>3. ReceiptsFormPrefix'
  BY <1>2, KeysDisjoint, PhasesBeforeType, AttemptAssumption
     DEF JournalInv, ReceiptsFormPrefix, Committed
<1>4. OneOpenRow'
  BY <1>2 DEF JournalInv, OneOpenRow
<1>5. RecoveryInOrder'
  BY <1>2 DEF JournalInv, RecoveryInOrder, Committed, Keys, RecoveryKeys, Phases
<1>6. SealNamesOpenRow'
  BY <1>2, KeysDisjoint DEF JournalInv, SealNamesOpenRow
<1> QED
  BY <1>3, <1>4, <1>5, <1>6

(* A new row is written only where the plan, or the rollback, has come to.     *)
LEMMA NewRow ==
  ASSUME JournalInv, NEW a \in Attempts, NEW branch \in Branches,
         NEW phase \in BranchPhases(branch), BeginPhaseIntent(a, branch, phase)
  PROVE  JournalInv'
<1> DEFINE k == StorageKey(branch, phase)
<1>1. /\ k \in Keys
      /\ branch = "primary" => k = phase /\ phase \in Phases
      /\ branch # "primary" => k \in RecoveryKeys
  BY StorageKeyType
<1>2. /\ SetStatus(a, k, "intent")
      /\ journal[a][k] = "none"
      /\ UNCHANGED <<takeover, proof, rejection, trust>>
      /\ PhasePrerequisites(a, branch, phase)
      /\ ~UncommittedConflict(a, branch)
  BY DEF BeginPhaseIntent
<1> HIDE DEF k
<1>3. /\ journal' \in [Attempts -> [Keys -> Statuses]]
      /\ \A b \in Attempts, l \in Keys :
           journal'[b][l] = IF b = a /\ l = k THEN "intent" ELSE journal[b][l]
  <2>1. "intent" \in Statuses
    BY DEF Statuses
  <2> QED
    BY <1>1, <1>2, <2>1, SetStatusRow DEF JournalInv
<1>4. JournalTypeOK'
  BY <1>2, <1>3 DEF JournalInv, JournalTypeOK
<1>5. \A b \in Attempts, l \in Keys : Committed(b, l)' <=> Committed(b, l)
  BY <1>2, <1>3 DEF Committed
<1>6. ReceiptsFormPrefix'
  <2> SUFFICES ASSUME NEW b \in Attempts, NEW r \in Phases,
                      journal'[b][r] # "none",
                      NEW q \in PhasesBefore[KindOf[b]][r]
               PROVE  Committed(b, q)'
    BY DEF ReceiptsFormPrefix
  <2>1. q \in Keys /\ r \in Keys
    BY PhasesBeforeType, AttemptAssumption, KeysDisjoint
  <2>2. CASE b = a /\ r = k
    <3>1. branch = "primary" /\ r = phase
      BY <1>1, <2>2, KeysDisjoint
    <3>2. Committed(a, q)
      BY <1>2, <2>2, <3>1 DEF PhasePrerequisites, PrimaryPrerequisites
    <3> QED
      BY <1>5, <2>1, <2>2, <3>2
  <2>3. CASE ~(b = a /\ r = k)
    <3>1. Committed(b, q)
      BY <1>3, <2>1, <2>3 DEF JournalInv, ReceiptsFormPrefix
    <3> QED
      BY <1>5, <2>1, <3>1
  <2> QED
    BY <2>2, <2>3
<1>7. OneOpenRow'
  <2> SUFFICES ASSUME NEW b \in Attempts, NEW l \in Keys, NEW m \in Keys,
                      Uncommitted(b, l)', Uncommitted(b, m)', l # m
               PROVE  takeover'[b] # "none" /\ takeover'[b] \in {l, m}
    BY DEF OneOpenRow
  <2>1. CASE b # a \/ (l # k /\ m # k)
    <3>1. Uncommitted(b, l) /\ Uncommitted(b, m)
      BY <1>3, <2>1 DEF Uncommitted
    <3> QED
      BY <1>2, <3>1 DEF JournalInv, OneOpenRow
  <2>2. CASE b = a /\ l = k
    <3>1. Uncommitted(a, m)
      BY <1>3, <2>2 DEF Uncommitted
    <3> QED
      BY <1>2, <2>2, <3>1, KeysDisjoint DEF UncommittedConflict
  <2>3. CASE b = a /\ m = k
    <3>1. Uncommitted(a, l)
      BY <1>3, <2>3 DEF Uncommitted
    <3> QED
      BY <1>2, <2>3, <3>1, KeysDisjoint DEF UncommittedConflict
  <2> QED
    BY <2>1, <2>2, <2>3
<1>8. RecoveryInOrder'
  <2>1. CASE branch = "primary"
    <3>1. \A b \in Attempts, l \in RecoveryKeys : journal'[b][l] = journal[b][l]
      BY <1>1, <1>3, <2>1, KeysDisjoint
    <3> QED
      BY <1>5, <3>1 DEF JournalInv, RecoveryInOrder, Keys, RecoveryKeys, Phases
  <2>2. CASE branch # "primary"
    <3>1. RecoveryPrerequisites(a, phase)
      BY <1>2, <2>2 DEF PhasePrerequisites
    <3>2. /\ phase = "rollback" => k = "rollback_recovery"
          /\ phase = "health_checking" => k = "rollback_recovery_health_checking"
          /\ phase = "soaking" => k = "rollback_recovery_soaking"
          /\ phase \in {"rollback", "health_checking", "soaking"}
      BY <2>2 DEF k, StorageKey, BranchPhases
    <3>3. /\ RecoveryAllowed(KindOf[a])
          /\ Committed(a, "deploying")
          /\ k = "rollback_recovery_health_checking" => Committed(a, "rollback_recovery")
          /\ k = "rollback_recovery_soaking" =>
               Committed(a, "rollback_recovery_health_checking")
      BY <3>1, <3>2 DEF RecoveryPrerequisites
    <3> QED
      BY <1>3, <1>5, <3>3 DEF JournalInv, RecoveryInOrder, Keys, RecoveryKeys, Phases
  <2> QED
    BY <2>1, <2>2
<1>9. SealNamesOpenRow'
  <2> SUFFICES ASSUME NEW b \in Attempts, takeover'[b] # "none"
               PROVE  /\ takeover'[b] \in {"deploying", "health_checking", "soaking"}
                      /\ \A l \in Phases : Uncommitted(b, l)' =>
                           l = takeover'[b] /\ l # "deploying"
    BY DEF SealNamesOpenRow
  <2>1. b = a => k \notin Phases
    BY <1>1, <1>2, KeysDisjoint DEF PhasePrerequisites, PrimaryPrerequisites, Branches
  <2>2. \A l \in Phases : Uncommitted(b, l)' => Uncommitted(b, l)
    BY <1>3, <2>1, KeysDisjoint DEF Uncommitted
  <2> QED
    BY <1>2, <2>2 DEF JournalInv, SealNamesOpenRow
<1> QED
  BY <1>4, <1>6, <1>7, <1>8, <1>9 DEF JournalInv

(* Sealing a rollback changes no row, and finds at most the health check or    *)
(* the soak open.                                                              *)
LEMMA Seal ==
  ASSUME JournalInv, NEW a \in Attempts, BeginRollbackTakeover(a)
  PROVE  JournalInv'
<1>1. /\ takeover[a] = "none"
      /\ ForwardSnapshot(a) # "none"
      /\ takeover' = [takeover EXCEPT ![a] = ForwardSnapshot(a)]
      /\ UNCHANGED <<journal, proof, rejection, trust>>
  BY DEF BeginRollbackTakeover
<1>2. /\ ForwardSnapshot(a) \in {"deploying", "health_checking", "soaking"}
      /\ \A k \in Phases : Uncommitted(a, k) =>
           k = ForwardSnapshot(a) /\ k # "deploying"
  BY <1>1 DEF ForwardSnapshot, OpenForward, LastCommittedForward
<1>3. takeover \in [Attempts -> Phases \cup {"none"}]
  BY DEF JournalInv, JournalTypeOK
<1>4. \A b \in Attempts : takeover'[b] = IF b = a THEN ForwardSnapshot(a) ELSE takeover[b]
  BY <1>1, <1>3
<1>5. JournalTypeOK'
  <2>1. ForwardSnapshot(a) \in Phases
    BY <1>2 DEF Phases
  <2> QED
    BY <1>1, <2>1 DEF JournalInv, JournalTypeOK
<1>6. ReceiptsFormPrefix' /\ RecoveryInOrder'
  BY <1>1 DEF JournalInv, ReceiptsFormPrefix, RecoveryInOrder, Committed
<1>7. OneOpenRow'
  BY <1>1, <1>4 DEF JournalInv, OneOpenRow, Uncommitted
<1>8. SealNamesOpenRow'
  BY <1>1, <1>2, <1>4 DEF JournalInv, SealNamesOpenRow, Uncommitted
<1> QED
  BY <1>5, <1>6, <1>7, <1>8 DEF JournalInv

(* Every transaction of a phase but the first, and both transactions on a      *)
(* rejected proof, move an open row on.  A transaction of the forward branch   *)
(* does not find a seal; the admission phase is never the sealed row.          *)
LEMMA RowStep ==
  ASSUME JournalInv, NEW a \in Attempts,
         \/ \E branch \in Branches : \E phase \in BranchPhases(branch) :
              \/ RecordPhaseObservation(a, branch, phase)
              \/ MarkPhaseVerified(a, branch, phase)
              \/ CommitPhaseReceipt(a, branch, phase)
              \/ MarkPhaseNeedsReconcile(a, branch, phase)
         \/ RejectSourceGateProof(a)
         \/ CompensateSourceGateRejection(a)
  PROVE  \E k \in Keys, status \in Statuses \ {"none"} :
           /\ Uncommitted(a, k)
           /\ SetStatus(a, k, status)
           /\ takeover' = takeover
           /\ takeover[a] # "none" => k \notin Phases
           /\ proof' \in [Attempts -> BOOLEAN]
           /\ rejection' \in [Attempts -> RejectionStates]
           /\ trust' = trust
<1> USE DEF Statuses
<1>0. proof \in [Attempts -> BOOLEAN] /\ rejection \in [Attempts -> RejectionStates]
  BY DEF JournalInv, JournalTypeOK
<1>1. ASSUME NEW branch \in Branches, NEW phase \in BranchPhases(branch),
             \/ RecordPhaseObservation(a, branch, phase)
             \/ MarkPhaseVerified(a, branch, phase)
             \/ CommitPhaseReceipt(a, branch, phase)
             \/ MarkPhaseNeedsReconcile(a, branch, phase)
      PROVE  \E k \in Keys, status \in Statuses \ {"none"} :
               /\ Uncommitted(a, k)
               /\ SetStatus(a, k, status)
               /\ UNCHANGED <<takeover, proof, rejection, trust>>
               /\ takeover[a] # "none" => k \notin Phases
  <2> DEFINE k == StorageKey(branch, phase)
  <2>1. k \in Keys /\ (branch # "primary" => k \in RecoveryKeys)
    BY StorageKeyType
  <2>2. BranchNotTakenOver(a, branch) /\ Uncommitted(a, k)
        /\ UNCHANGED <<takeover, proof, rejection, trust>>
    BY <1>1 DEF RecordPhaseObservation, MarkPhaseVerified, CommitPhaseReceipt,
                MarkPhaseNeedsReconcile, Uncommitted
  <2>3. \E status \in Statuses \ {"none"} : SetStatus(a, k, status)
    BY <1>1 DEF RecordPhaseObservation, MarkPhaseVerified, CommitPhaseReceipt,
                MarkPhaseNeedsReconcile
  <2>4. takeover[a] # "none" => k \notin Phases
    BY <2>1, <2>2, KeysDisjoint DEF BranchNotTakenOver
  <2> HIDE DEF k
  <2> QED
    BY <2>1, <2>2, <2>3, <2>4
<1>2. CASE RejectSourceGateProof(a)
  <2> DEFINE k == AdmissionPhase(KindOf[a])
  <2>1. k \in {"deploying", "backing_up"} /\ k \in Phases /\ k \in Keys
    BY <1>2, AdmissionPhaseType, KeysDisjoint DEF RejectSourceGateProof
  <2>2. /\ Uncommitted(a, k)
        /\ SetStatus(a, k, "needs_reconcile")
        /\ UNCHANGED <<takeover, proof, trust>>
        /\ rejection' = [rejection EXCEPT ![a] = "abort_pending"]
    BY <1>2 DEF RejectSourceGateProof, Uncommitted
  <2>3. takeover[a] = "none"
    BY <2>1, <2>2 DEF JournalInv, SealNamesOpenRow
  <2>4. rejection' \in [Attempts -> RejectionStates]
    BY <1>0, <2>2 DEF RejectionStates
  <2> HIDE DEF k
  <2> QED
    BY <1>0, <2>1, <2>2, <2>3, <2>4
<1>3. CASE CompensateSourceGateRejection(a)
  <2> DEFINE k == AdmissionPhase(KindOf[a])
  <2>1. k \in Keys
    BY <1>3, AdmissionPhaseType, KeysDisjoint DEF CompensateSourceGateRejection
  <2>2. /\ Uncommitted(a, k)
        /\ SetStatus(a, k, "intent")
        /\ UNCHANGED <<takeover, trust>>
        /\ takeover[a] = "none"
        /\ rejection' = [rejection EXCEPT ![a] = "compensated"]
        /\ proof' = [proof EXCEPT ![a] = FALSE]
    BY <1>3 DEF CompensateSourceGateRejection, Uncommitted
  <2>3. rejection' \in [Attempts -> RejectionStates] /\ proof' \in [Attempts -> BOOLEAN]
    BY <1>0, <2>2 DEF RejectionStates
  <2> HIDE DEF k
  <2> QED
    BY <2>1, <2>2, <2>3
<1> HIDE DEF Statuses
<1>4. ASSUME NEW branch \in Branches, NEW phase \in BranchPhases(branch),
             \/ RecordPhaseObservation(a, branch, phase)
             \/ MarkPhaseVerified(a, branch, phase)
             \/ CommitPhaseReceipt(a, branch, phase)
             \/ MarkPhaseNeedsReconcile(a, branch, phase)
      PROVE  \E k \in Keys, status \in Statuses \ {"none"} :
               /\ Uncommitted(a, k)
               /\ SetStatus(a, k, status)
               /\ takeover' = takeover
               /\ takeover[a] # "none" => k \notin Phases
               /\ proof' \in [Attempts -> BOOLEAN]
               /\ rejection' \in [Attempts -> RejectionStates]
               /\ trust' = trust
  BY <1>0, <1>1, <1>4
<1> QED
  BY <1>2, <1>3, <1>4

(* What one transaction on one attempt does to the invariant, to the rows that *)
(* are final, and to the trust mark.                                           *)
LEMMA JournalStepSafe ==
  ASSUME JournalInv, [JournalNext]_journalVars
  PROVE  /\ JournalInv'
         /\ \A a \in Attempts :
              /\ takeover[a] # "none" =>
                   takeover'[a] = takeover[a]
                   /\ \A k \in Phases : journal'[a][k] = journal[a][k]
              /\ \A k \in Keys : Committed(a, k) => journal'[a][k] = "committed"
         /\ \A p \in Projects : trust'[p] >= trust[p]
<1> DEFINE Frozen ==
      \A b \in Attempts :
        /\ takeover[b] # "none" =>
             takeover'[b] = takeover[b]
             /\ \A k \in Phases : journal'[b][k] = journal[b][k]
        /\ \A k \in Keys : Committed(b, k) => journal'[b][k] = "committed"
<1> DEFINE Ascends == \A p \in Projects : trust'[p] >= trust[p]
<1>0. JournalTypeOK
  BY DEF JournalInv
<1>1. trust \in [Projects -> Nat]
  BY <1>0 DEF JournalTypeOK
<1>2. CASE UNCHANGED journalVars
  <2>1. JournalInv'
    BY <1>2 DEF JournalInv, JournalTypeOK, ReceiptsFormPrefix, OneOpenRow,
                RecoveryInOrder, SealNamesOpenRow, Committed, Uncommitted, journalVars
  <2> QED
    BY <1>1, <1>2, <2>1 DEF journalVars, Committed
<1>3. ASSUME NEW a \in Attempts,
             \/ \E branch \in Branches : \E phase \in BranchPhases(branch) :
                  \/ RecordPhaseObservation(a, branch, phase)
                  \/ MarkPhaseVerified(a, branch, phase)
                  \/ CommitPhaseReceipt(a, branch, phase)
                  \/ MarkPhaseNeedsReconcile(a, branch, phase)
             \/ RejectSourceGateProof(a)
             \/ CompensateSourceGateRejection(a)
      PROVE  JournalInv' /\ Frozen /\ Ascends
  <2>1. PICK k \in Keys, status \in Statuses \ {"none"} :
               /\ Uncommitted(a, k)
               /\ SetStatus(a, k, status)
               /\ takeover' = takeover
               /\ takeover[a] # "none" => k \notin Phases
               /\ proof' \in [Attempts -> BOOLEAN]
               /\ rejection' \in [Attempts -> RejectionStates]
               /\ trust' = trust
    BY <1>3, RowStep
  <2>2. /\ journal' \in [Attempts -> [Keys -> Statuses]]
        /\ \A b \in Attempts, l \in Keys :
             journal'[b][l] = IF b = a /\ l = k THEN status ELSE journal[b][l]
    BY <1>0, <2>1, SetStatusRow
  <2>3. JournalTypeOK'
    BY <1>0, <2>1, <2>2 DEF JournalTypeOK
  <2>4. JournalInv'
    BY <2>1, <2>3, OpenRowMovesOn DEF JournalInv
  <2>5. Frozen
    BY <2>1, <2>2, KeysDisjoint DEF Committed, Uncommitted
  <2>6. Ascends
    BY <1>1, <2>1
  <2> QED
    BY <2>4, <2>5, <2>6
<1>4. ASSUME NEW a \in Attempts, NEW branch \in Branches,
             NEW phase \in BranchPhases(branch), BeginPhaseIntent(a, branch, phase)
      PROVE  JournalInv' /\ Frozen /\ Ascends
  <2> DEFINE k == StorageKey(branch, phase)
  <2>1. /\ k \in Keys
        /\ branch # "primary" => k \in RecoveryKeys
        /\ "intent" \in Statuses
    BY StorageKeyType DEF Statuses
  <2>2. /\ SetStatus(a, k, "intent")
        /\ journal[a][k] = "none"
        /\ UNCHANGED <<takeover, trust>>
        /\ branch = "primary" => takeover[a] = "none"
    BY <1>4 DEF BeginPhaseIntent, PhasePrerequisites, PrimaryPrerequisites
  <2> HIDE DEF k
  <2>3. \A b \in Attempts, l \in Keys :
          journal'[b][l] = IF b = a /\ l = k THEN "intent" ELSE journal[b][l]
    BY <1>0, <2>1, <2>2, SetStatusRow
  <2>4. Frozen
    BY <2>1, <2>2, <2>3, KeysDisjoint DEF Committed
  <2>5. JournalInv'
    BY <1>4, NewRow
  <2> QED
    BY <1>1, <2>2, <2>4, <2>5
<1>5. ASSUME NEW a \in Attempts, RecordSourceGateProof(a)
      PROVE  JournalInv' /\ Frozen /\ Ascends
  <2>1. ProjectOf[a] \in Projects /\ SequenceOf[a] \in Nat
    BY AttemptAssumption
  <2>2. /\ trust' = [trust EXCEPT ![ProjectOf[a]] = SequenceOf[a]]
        /\ ~(trust[ProjectOf[a]] > SequenceOf[a])
        /\ proof' = [proof EXCEPT ![a] = TRUE]
        /\ UNCHANGED <<journal, takeover, rejection>>
    BY <1>5 DEF RecordSourceGateProof, TrustRegressed
  <2>3. JournalTypeOK'
    BY <1>0, <2>1, <2>2 DEF JournalTypeOK
  <2>4. JournalInv'
    BY <2>2, <2>3 DEF JournalInv, ReceiptsFormPrefix, OneOpenRow, RecoveryInOrder,
                      SealNamesOpenRow, Committed, Uncommitted
  <2>5. Frozen
    BY <2>2 DEF Committed
  <2>6. Ascends
    BY <1>1, <2>1, <2>2
  <2> QED
    BY <2>4, <2>5, <2>6
<1>6. ASSUME NEW a \in Attempts, BeginRollbackTakeover(a)
      PROVE  JournalInv' /\ Frozen /\ Ascends
  <2>1. JournalInv'
    BY <1>6, Seal
  <2>2. /\ takeover[a] = "none"
        /\ takeover' = [takeover EXCEPT ![a] = ForwardSnapshot(a)]
        /\ UNCHANGED <<journal, trust>>
    BY <1>6 DEF BeginRollbackTakeover
  <2>3. Frozen
    BY <1>0, <2>2 DEF JournalTypeOK, Committed
  <2> QED
    BY <1>1, <2>1, <2>2, <2>3
<1> QED
  BY <1>2, <1>3, <1>4, <1>5, <1>6 DEF JournalNext

(* The rows, seals, proofs, rejections and trust marks of the journal keep     *)
(* their form, and the whole inductive invariant holds in every state.         *)
THEOREM JournalInvariant == JournalSpec => []JournalInv
<1>1. JournalInit => JournalInv
  BY JournalInitInv
<1>2. JournalInv /\ [JournalNext]_journalVars => JournalInv'
  BY JournalStepSafe
<1> QED
  BY <1>1, <1>2, PTL DEF JournalSpec

(* The journal's type, for every set of attempts.                              *)
THEOREM JournalTypeCorrect == JournalSpec => []JournalTypeOK
<1>1. JournalInv => JournalTypeOK
  BY DEF JournalInv
<1> QED
  BY <1>1, JournalInvariant, PTL

(* begin_phase_intent's prerequisites leave no gap in the receipts of a plan,  *)
(* whatever reconciliation, rejection or rollback happens in between.          *)
THEOREM ReceiptsArePrefix == JournalSpec => []ReceiptsFormPrefix
<1>1. JournalInv => ReceiptsFormPrefix
  BY DEF JournalInv
<1> QED
  BY <1>1, JournalInvariant, PTL

(* An attempt never has two open rows but for the one its rollback sealed.     *)
THEOREM AtMostOneOpenRow == JournalSpec => []OneOpenRow
<1>1. JournalInv => OneOpenRow
  BY DEF JournalInv
<1> QED
  BY <1>1, JournalInvariant, PTL

(* The rollback branch follows a cut-over and its rows follow one another.     *)
THEOREM RecoveryFollowsCutOver == JournalSpec => []RecoveryInOrder
<1>1. JournalInv => RecoveryInOrder
  BY DEF JournalInv
<1> QED
  BY <1>1, JournalInvariant, PTL

(* begin_rollback_takeover names the one forward row that can still be open.   *)
THEOREM SealIsExact == JournalSpec => []SealNamesOpenRow
<1>1. JournalInv => SealNamesOpenRow
  BY DEF JournalInv
<1> QED
  BY <1>1, JournalInvariant, PTL

(* No transaction changes a forward row after the seal or withdraws a receipt. *)
THEOREM SealFreezesForward == JournalSpec => ForwardFrozen
<1>1. JournalInv /\ [JournalNext]_journalVars =>
        [\A a \in Attempts :
           /\ takeover[a] # "none" =>
                takeover'[a] = takeover[a]
                /\ \A k \in Phases : journal'[a][k] = journal[a][k]
           /\ \A k \in Keys : Committed(a, k) => journal'[a][k] = "committed"]_journalVars
  BY JournalStepSafe
<1> QED
  BY <1>1, JournalInvariant, PTL DEF JournalSpec, ForwardFrozen

(* The trust mark of record_source_gate_proof never goes back.                 *)
THEOREM TrustAscends == JournalSpec => TrustNeverRegresses
<1>1. JournalInv /\ [JournalNext]_journalVars =>
        [\A p \in Projects : trust'[p] >= trust[p]]_journalVars
  BY JournalStepSafe
<1> QED
  BY <1>1, JournalInvariant, PTL DEF JournalSpec, TrustNeverRegresses

--------------------------------------------------------------------------------
(* The fence                                                                   *)

(* No fence, no reservation and no epoch: the invariant holds at the start.    *)
LEMMA FenceInitInv == Init => FenceInv /\ JournalMatchesApplication
<1> SUFFICES ASSUME Init PROVE FenceInv /\ JournalMatchesApplication
  OBVIOUS
<1>1. JournalInv
  BY JournalInitInv DEF Init
<1>2. \A p \in Projects : /\ fence[p] = NoFence
                          /\ drain[p] = NoLease
                          /\ boundary[p] = NoLease
                          /\ held[p] = NoLease
  BY DEF Init, FenceInit
<1>3. TypeOK
  <2>1. NoFence \in FenceRow /\ NoLease \in LeaseRow
    BY DEF NoFence, NoLease, FenceRow, LeaseRow, FenceStates
  <2> QED
    BY <1>1, <2>1 DEF TypeOK, Init, FenceInit, JournalInv
<1>4. FenceAfterBackup /\ ReleaseHasEvidence
  BY <1>2 DEF FenceAfterBackup, ReleaseHasEvidence, NoFence
<1>5. FreeFence /\ DrainIsNewest /\ EpochsUnique
  BY <1>2, AttemptAssumption
     DEF FreeFence, DrainIsNewest, EpochsUnique, InUse, Slots, Reserved, NoFence, NoLease
<1>6. JournalMatchesApplication
  BY <1>2 DEF JournalMatchesApplication, NoFence
<1> QED
  BY <1>1, <1>3, <1>4, <1>5, <1>6 DEF FenceInv

(* The parts of the invariant that read no journal row.                        *)
LEMMA FenceFrame ==
  ASSUME FenceInv, UNCHANGED fenceVars
  PROVE  FreeFence' /\ DrainIsNewest' /\ EpochsUnique'
<1>1. /\ fence' = fence /\ drain' = drain /\ boundary' = boundary
      /\ epoch' = epoch /\ held' = held
  BY DEF fenceVars
<1>2. FreeFence' /\ DrainIsNewest'
  BY <1>1 DEF FenceInv, FreeFence, DrainIsNewest, ActiveFence, Reserved
<1>3. \A p \in Projects, s \in Slots :
        (InUse(p, s)' <=> InUse(p, s)) /\ EpochOf(p, s)' = EpochOf(p, s)
  BY <1>1 DEF InUse, EpochOf, Reserved
<1>4. EpochsUnique'
  BY <1>1, <1>3 DEF FenceInv, EpochsUnique
<1> QED
  BY <1>2, <1>4

(* A journal transaction leaves the evidence of a release alone: receipts stay *)
(* and RollbackFenceAvailable keeps a seal away from a fence being released.   *)
LEMMA JournalSide ==
  ASSUME FenceInv, JournalStep, UNCHANGED fenceVars
  PROVE  FenceInv'
<1>1. JournalNext
  BY DEF JournalStep, JournalNext
<1>2. /\ JournalInv'
      /\ \A a \in Attempts, k \in Keys : Committed(a, k) => Committed(a, k)'
  BY <1>1, JournalStepSafe DEF FenceInv, Committed
<1>3. TypeOK'
  BY <1>2 DEF FenceInv, TypeOK, JournalInv, fenceVars
<1>4. FenceAfterBackup'
  BY <1>2 DEF FenceInv, FenceAfterBackup, FencePhaseReceipts, fenceVars, Keys, Phases
<1>5. ReleaseHasEvidence'
  <2> SUFFICES ASSUME NEW p \in Projects,
                      fence[p].state \in {"release_intent", "released"}
               PROVE  /\ fence[p].attempt \in Attempts
                      /\ ReleaseSafe(fence[p].attempt, fence[p].receipt)'
    BY DEF ReleaseHasEvidence, fenceVars
  <2> DEFINE b == fence[p].attempt
             k == fence[p].receipt
  <2>1. /\ b \in Attempts
        /\ ProjectOf[b] = p
        /\ ReleaseSafe(b, k)
    BY DEF FenceInv, FenceAfterBackup, ReleaseHasEvidence
  <2>2. k \in Keys /\ journal'[b][k] = "committed"
    BY <1>2, <2>1 DEF Committed, ReleaseSafe, Keys, Phases, RecoveryKeys
  <2>3. takeover'[b] = takeover[b]
    <3>1. ~RollbackFenceAvailable(p, b)
      BY DEF RollbackFenceAvailable, ActiveFence
    <3>2. ASSUME NEW a \in Attempts, BeginRollbackTakeover(a),
                 RollbackFenceAvailable(ProjectOf[a], a)
          PROVE  takeover'[b] = takeover[b]
      <4>1. a # b
        BY <2>1, <3>1, <3>2
      <4>2. takeover' = [takeover EXCEPT ![a] = ForwardSnapshot(a)]
        BY <3>2 DEF BeginRollbackTakeover
      <4> QED
        BY <2>1, <4>1, <4>2 DEF FenceInv, JournalInv, JournalTypeOK
    <3>3. \/ takeover' = takeover
          \/ \E a \in Attempts : /\ RollbackFenceAvailable(ProjectOf[a], a)
                                 /\ BeginRollbackTakeover(a)
      BY DEF JournalStep, BeginPhaseIntent, RecordPhaseObservation, MarkPhaseVerified,
             CommitPhaseReceipt, MarkPhaseNeedsReconcile, RecordSourceGateProof,
             RejectSourceGateProof, CompensateSourceGateRejection
    <3> QED
      BY <3>2, <3>3
  <2> QED
    BY <2>1, <2>2, <2>3 DEF ReleaseSafe, fenceVars, Committed
<1> QED
  BY <1>2, <1>3, <1>4, <1>5, FenceFrame DEF FenceInv

--------------------------------------------------------------------------------
(* The next three facts are all that a fence step needs to know of epochs: a   *)
(* slot takes the next one, no slot takes any, or the drain identity hands its *)
(* own to the fence.                                                           *)
LEMMA FreshEpoch ==
  ASSUME FenceInv, NEW p \in Projects, NEW slot \in Slots, epoch' = epoch + 1,
         EpochOf(p, slot)' = epoch + 1,
         \A q \in Projects, t \in Slots : q # p \/ t # slot =>
           (InUse(q, t)' <=> InUse(q, t)) /\ EpochOf(q, t)' = EpochOf(q, t)
  PROVE  EpochsUnique'
<1>1. epoch \in Nat /\ EpochsUnique
  BY DEF FenceInv, TypeOK
<1>2. \A q \in Projects, t \in Slots : InUse(q, t) => EpochOf(q, t) \in 1 .. epoch
  BY <1>1 DEF EpochsUnique
<1> QED
  BY <1>1, <1>2 DEF EpochsUnique

(* No identity is added: the epochs in use stay apart.                         *)
LEMMA NoNewEpoch ==
  ASSUME FenceInv, epoch' = epoch,
         \A q \in Projects, t \in Slots : InUse(q, t)' =>
           InUse(q, t) /\ EpochOf(q, t)' = EpochOf(q, t)
  PROVE  EpochsUnique'
BY DEF FenceInv, EpochsUnique

(* The drain identity gives its epoch up to the fence that replaces it.        *)
LEMMA PromotedEpoch ==
  ASSUME FenceInv, epoch' = epoch, NEW p \in Projects,
         InUse(p, "drain"), ~InUse(p, "drain")',
         EpochOf(p, "fence")' = EpochOf(p, "drain"),
         \A q \in Projects, t \in Slots : q # p \/ t = "boundary" =>
           (InUse(q, t)' <=> InUse(q, t)) /\ EpochOf(q, t)' = EpochOf(q, t)
  PROVE  EpochsUnique'
BY DEF FenceInv, EpochsUnique, Slots

(* While a fence is free, its row is not newer than the counter.               *)
LEMMA FreeRowIsOld ==
  ASSUME FenceInv, NEW p \in Projects, ~ActiveFence(p)
  PROVE  fence[p].epoch \in Nat /\ fence[p].epoch <= epoch
<1>1. fence[p].epoch \in Nat /\ epoch \in Nat
  BY DEF FenceInv, TypeOK, FenceRow
<1>2. CASE fence[p].state = "none"
  BY <1>1, <1>2 DEF FenceInv, FreeFence, NoFence
<1>3. CASE fence[p].state = "released"
  <2>1. fence[p].attempt \in Attempts
    BY <1>3 DEF FenceInv, FenceAfterBackup
  <2>2. InUse(p, "fence") /\ EpochOf(p, "fence") = fence[p].epoch
    BY <2>1 DEF InUse, EpochOf
  <2> QED
    BY <1>1, <2>2 DEF FenceInv, EpochsUnique, Slots
<1> QED
  BY <1>2, <1>3 DEF ActiveFence

(* The journal part of the invariant when only the fence moves.                *)
LEMMA FenceSide ==
  ASSUME FenceInv, UNCHANGED journalVars
  PROVE  JournalInv' /\ JournalTypeOK'
<1>1. JournalInv'
  BY JournalStepSafe DEF FenceInv
<1> QED
  BY <1>1 DEF JournalInv

(* begin_backup_boundary reserves the next epoch and touches no fence.         *)
LEMMA BoundaryReserved ==
  ASSUME FenceInv, UNCHANGED journalVars, NEW p \in Projects, NEW a \in Attempts,
         BeginBackupBoundary(p, a)
  PROVE  FenceInv'
<1>1. /\ epoch' = epoch + 1
      /\ boundary' = [boundary EXCEPT ![p] = Lease(a, epoch + 1)]
      /\ UNCHANGED <<fence, drain, held, tampers>>
  BY DEF BeginBackupBoundary, NextEpoch
<1>2. TypeOK
  BY DEF FenceInv
<1>3. Lease(a, epoch + 1) \in LeaseRow
  BY <1>2 DEF Lease, LeaseRow, Holders, TypeOK
<1>4. TypeOK'
  BY <1>1, <1>2, <1>3, FenceSide DEF TypeOK
<1>5. FenceAfterBackup' /\ ReleaseHasEvidence'
  BY <1>1 DEF FenceInv, FenceAfterBackup, ReleaseHasEvidence, FencePhaseReceipts,
              ReleaseSafe, Committed, journalVars
<1>6. FreeFence' /\ DrainIsNewest'
  BY <1>1 DEF FenceInv, FreeFence, DrainIsNewest, ActiveFence, Reserved
<1>7. EpochsUnique'
  <2>1. \A q \in Projects, t \in Slots : q # p \/ t # "boundary" =>
          (InUse(q, t)' <=> InUse(q, t)) /\ EpochOf(q, t)' = EpochOf(q, t)
    BY <1>1, <1>2 DEF InUse, EpochOf, Slots, Reserved, TypeOK
  <2>2. EpochOf(p, "boundary")' = epoch + 1
    BY <1>1, <1>2 DEF EpochOf, Lease, TypeOK
  <2> QED
    BY <1>1, <2>1, <2>2, FreshEpoch DEF Slots
<1> QED
  BY <1>4, <1>5, <1>6, <1>7, FenceSide DEF FenceInv

(* begin_drain_identity reserves an epoch newer than the free row.             *)
LEMMA DrainReserved ==
  ASSUME FenceInv, UNCHANGED journalVars, NEW p \in Projects, NEW a \in Attempts,
         BeginDrainIdentity(p, a)
  PROVE  FenceInv'
<1>1. /\ epoch' = epoch + 1
      /\ drain' = [drain EXCEPT ![p] = Lease(a, epoch + 1)]
      /\ UNCHANGED <<fence, boundary, held, tampers>>
      /\ ~ActiveFence(p)
  BY DEF BeginDrainIdentity, CanBeginDrainIdentity, NextEpoch
<1>2. TypeOK
  BY DEF FenceInv
<1>3. Lease(a, epoch + 1) \in LeaseRow
  BY <1>2 DEF Lease, LeaseRow, Holders, TypeOK
<1>4. TypeOK'
  BY <1>1, <1>2, <1>3, FenceSide DEF TypeOK
<1>5. FenceAfterBackup' /\ ReleaseHasEvidence'
  BY <1>1 DEF FenceInv, FenceAfterBackup, ReleaseHasEvidence, FencePhaseReceipts,
              ReleaseSafe, Committed, journalVars
<1>6. FreeFence'
  BY <1>1 DEF FenceInv, FreeFence, ActiveFence
<1>7. DrainIsNewest'
  <2>1. fence[p].epoch \in Nat /\ fence[p].epoch <= epoch /\ epoch \in Nat
    BY <1>1, <1>2, FreeRowIsOld DEF TypeOK
  <2>2. \A q \in Projects : drain'[q] = IF q = p THEN Lease(a, epoch + 1) ELSE drain[q]
    BY <1>1, <1>2 DEF TypeOK
  <2> QED
    BY <1>1, <2>1, <2>2 DEF FenceInv, DrainIsNewest, ActiveFence, Reserved, Lease
<1>8. EpochsUnique'
  <2>1. \A q \in Projects, t \in Slots : q # p \/ t # "drain" =>
          (InUse(q, t)' <=> InUse(q, t)) /\ EpochOf(q, t)' = EpochOf(q, t)
    BY <1>1, <1>2 DEF InUse, EpochOf, Slots, Reserved, TypeOK
  <2>2. EpochOf(p, "drain")' = epoch + 1
    BY <1>1, <1>2 DEF EpochOf, Lease, TypeOK
  <2> QED
    BY <1>1, <2>1, <2>2, FreshEpoch DEF Slots
<1> QED
  BY <1>4, <1>5, <1>6, <1>7, <1>8, FenceSide DEF FenceInv

(* Taking the fence: its epoch is the drain identity's or the next one, and in *)
(* both cases higher than that of the row it replaces.                         *)
LEMMA FenceTaken ==
  ASSUME FenceInv, UNCHANGED journalVars, NEW p \in Projects, NEW a \in Attempts,
         ProjectOf[a] = p, BeginFenceAcquire(p, a)
  PROVE  /\ FenceInv'
         /\ \A q \in Projects : q # p => fence'[q] = fence[q]
         /\ fence'[p].state = "acquire_intent"
         /\ fence'[p].epoch > fence[p].epoch
         /\ ~ActiveFence(p)
         /\ UNCHANGED <<held, tampers>>
<1> DEFINE e == IF Reserved(drain[p]) THEN drain[p].epoch ELSE epoch + 1
           row == [state |-> "acquire_intent", attempt |-> a, epoch |-> e,
                   receipt |-> "none"]
<1>1. /\ ~ActiveFence(p)
      /\ FencePhaseReceipts(a)
      /\ UNCHANGED <<boundary, held, tampers>>
      /\ fence' = [fence EXCEPT ![p] = row]
  BY DEF BeginFenceAcquire, CanBeginFenceAcquire, NextEpoch
<1>2. \/ /\ Reserved(drain[p])
         /\ drain' = [drain EXCEPT ![p] = NoLease]
         /\ epoch' = epoch
      \/ /\ ~Reserved(drain[p])
         /\ drain' = drain
         /\ epoch' = epoch + 1
  BY DEF BeginFenceAcquire, NextEpoch
<1>3. TypeOK
  BY DEF FenceInv
<1>4. drain[p].epoch \in Nat /\ epoch \in Nat /\ drain \in [Projects -> LeaseRow]
  BY <1>3 DEF TypeOK, LeaseRow
<1>5. fence[p].epoch \in Nat /\ fence[p].epoch <= epoch
  BY <1>1, FreeRowIsOld
<1>6. e \in Nat /\ e > fence[p].epoch
  <2>1. Reserved(drain[p]) => fence[p].epoch < drain[p].epoch
    BY <1>1 DEF FenceInv, DrainIsNewest, ActiveFence
  <2> QED
    BY <1>4, <1>5, <2>1
<1> HIDE DEF e
<1>7. row \in FenceRow
  BY <1>6 DEF FenceRow, FenceStates, Holders
<1>8. \A q \in Projects : fence'[q] = IF q = p THEN row ELSE fence[q]
  BY <1>1, <1>3 DEF TypeOK
<1>9. \A q \in Projects : drain'[q] = IF q = p /\ Reserved(drain[p]) THEN NoLease ELSE drain[q]
  BY <1>2, <1>4
<1>10. TypeOK'
  <2>1. NoLease \in LeaseRow
    BY DEF NoLease, LeaseRow
  <2>2. fence' \in [Projects -> FenceRow]
    BY <1>1, <1>3, <1>7 DEF TypeOK
  <2>3. drain' \in [Projects -> LeaseRow] /\ epoch' \in Nat
    BY <1>2, <1>4, <2>1
  <2> QED
    BY <1>1, <1>3, <2>2, <2>3, FenceSide DEF TypeOK
<1>11. FenceAfterBackup'
  BY <1>1, <1>8 DEF FenceInv, FenceAfterBackup, FencePhaseReceipts, Committed, journalVars
<1>12. ReleaseHasEvidence'
  BY <1>8 DEF FenceInv, ReleaseHasEvidence, ReleaseSafe, Committed, journalVars
<1>13. FreeFence'
  BY <1>1, <1>8 DEF FenceInv, FreeFence, ActiveFence
<1>14. DrainIsNewest'
  <2>1. ~Reserved(drain'[p])
    BY <1>9 DEF Reserved
  <2> QED
    BY <1>8, <1>9, <2>1 DEF FenceInv, DrainIsNewest, ActiveFence, Reserved
<1>15. EpochsUnique'
  <2>1. \A q \in Projects, t \in Slots : q # p \/ t = "boundary" =>
          (InUse(q, t)' <=> InUse(q, t)) /\ EpochOf(q, t)' = EpochOf(q, t)
    BY <1>1, <1>8, <1>9 DEF InUse, EpochOf, Slots, Reserved
  <2>2. EpochOf(p, "fence")' = e
    BY <1>8 DEF EpochOf
  <2>3. CASE Reserved(drain[p])
    <3>1. InUse(p, "drain") /\ ~InUse(p, "drain")' /\ EpochOf(p, "drain") = e
      BY <2>3, <1>9 DEF InUse, EpochOf, Reserved, e
    <3> QED
      BY <1>2, <2>1, <2>2, <2>3, <3>1, PromotedEpoch
  <2>4. CASE ~Reserved(drain[p])
    <3>1. e = epoch + 1 /\ epoch' = epoch + 1
      BY <1>2, <2>4 DEF e
    <3>2. (InUse(p, "drain")' <=> InUse(p, "drain"))
          /\ EpochOf(p, "drain")' = EpochOf(p, "drain")
      BY <1>9, <2>4 DEF InUse, EpochOf, Reserved
    <3>3. \A q \in Projects, t \in Slots : q # p \/ t # "fence" =>
          (InUse(q, t)' <=> InUse(q, t)) /\ EpochOf(q, t)' = EpochOf(q, t)
      BY <2>1, <3>2 DEF Slots
    <3> QED
      BY <2>2, <3>1, <3>3, FreshEpoch DEF Slots
  <2> QED
    BY <2>3, <2>4
<1> QED
  BY <1>1, <1>6, <1>8, <1>10, <1>11, <1>12, <1>13, <1>14, <1>15, FenceSide DEF FenceInv

(* begin_fence_release moves a held row on, with its evidence.                 *)
LEMMA ReleaseRequested ==
  ASSUME FenceInv, UNCHANGED journalVars, NEW p \in Projects, NEW a \in Attempts,
         NEW k \in Keys, BeginFenceRelease(p, a, k)
  PROVE  FenceInv'
<1>1. /\ ReleaseSafe(a, k)
      /\ fence[p].attempt = a
      /\ fence[p].state = "held"
      /\ fence' = [fence EXCEPT ![p].state = "release_intent", ![p].receipt = k]
      /\ UNCHANGED <<drain, boundary, epoch, held, tampers>>
  BY DEF BeginFenceRelease, CanBeginFenceRelease
<1>2. TypeOK
  BY DEF FenceInv
<1>3. fence \in [Projects -> FenceRow]
  BY <1>2 DEF TypeOK
<1>4. /\ \A q \in Projects : q # p => fence'[q] = fence[q]
      /\ fence'[p].state = "release_intent"
      /\ fence'[p].receipt = k
      /\ fence'[p].attempt = a
      /\ fence'[p].epoch = fence[p].epoch
      /\ fence' \in [Projects -> FenceRow]
  BY ZenonT(60), <1>1, <1>3 DEF FenceRow, FenceStates
<1>5. TypeOK'
  BY <1>1, <1>2, <1>4, FenceSide DEF TypeOK
<1>6. FenceAfterBackup'
  BY <1>1, <1>4 DEF FenceInv, FenceAfterBackup, FencePhaseReceipts, Committed, journalVars
<1>7. ReleaseHasEvidence'
  BY <1>1, <1>4 DEF FenceInv, ReleaseHasEvidence, ReleaseSafe, Committed, journalVars
<1>8. FreeFence' /\ DrainIsNewest'
  BY <1>1, <1>4 DEF FenceInv, FreeFence, DrainIsNewest, ActiveFence, Reserved
<1>9. EpochsUnique'
  <2>1. \A q \in Projects, t \in Slots : InUse(q, t)' =>
          InUse(q, t) /\ EpochOf(q, t)' = EpochOf(q, t)
    BY <1>1, <1>4 DEF InUse, EpochOf, Slots, Reserved
  <2> QED
    BY <1>1, <2>1, NoNewEpoch
<1> QED
  BY <1>5, <1>6, <1>7, <1>8, <1>9, FenceSide DEF FenceInv

(* What happens in the application leaves the journal alone; a lease of an     *)
(* attempt appears there only under an active row.                             *)
LEMMA ApplicationMoved ==
  ASSUME FenceInv, UNCHANGED journalVars, NEW p \in Projects,
         AcquireFence(p) \/ ReleaseFence(p) \/ TamperFence(p)
  PROVE  FenceInv'
<1>1. UNCHANGED <<fence, drain, boundary, epoch>>
  BY DEF AcquireFence, ReleaseFence, TamperFence
<1>2. TypeOK
  BY DEF FenceInv
<1>3. PICK l \in LeaseRow : /\ held' = [held EXCEPT ![p] = l]
                            /\ ~ActiveFence(p) => l.attempt \notin Attempts
  <2>1. NoLease \in LeaseRow /\ NoLease.attempt \notin Attempts
    BY AttemptAssumption DEF NoLease, LeaseRow
  <2>2. CASE AcquireFence(p)
    <3>1. held' = [held EXCEPT ![p] = LeaseOf(p)] /\ ActiveFence(p)
      BY <2>2 DEF AcquireFence, ActiveFence
    <3>2. LeaseOf(p) \in LeaseRow
      BY <1>2 DEF LeaseOf, Lease, LeaseRow, TypeOK, FenceRow
    <3> QED
      BY <3>1, <3>2
  <2>3. CASE ReleaseFence(p)
    BY <2>1, <2>3 DEF ReleaseFence
  <2>4. CASE TamperFence(p)
    <3>1. \A y \in Foreign : Lease(y, 0) \in LeaseRow /\ Lease(y, 0).attempt \notin Attempts
      BY FenceAssumption DEF Lease, LeaseRow, Holders
    <3> QED
      BY <2>1, <2>4, <3>1 DEF TamperFence
  <2> QED
    BY <2>2, <2>3, <2>4
<1>4. tampers' \in Nat
  BY <1>2 DEF TypeOK, AcquireFence, ReleaseFence, TamperFence
<1>5. TypeOK'
  BY <1>1, <1>2, <1>3, <1>4, FenceSide DEF TypeOK
<1>6. FenceAfterBackup' /\ ReleaseHasEvidence'
  BY <1>1 DEF FenceInv, FenceAfterBackup, ReleaseHasEvidence, FencePhaseReceipts,
              ReleaseSafe, Committed, journalVars
<1>7. FreeFence'
  BY <1>1, <1>2, <1>3 DEF FenceInv, FreeFence, ActiveFence, TypeOK
<1>8. DrainIsNewest'
  BY <1>1 DEF FenceInv, DrainIsNewest, ActiveFence, Reserved
<1>9. EpochsUnique'
  <2>1. \A q \in Projects, t \in Slots : InUse(q, t)' =>
          InUse(q, t) /\ EpochOf(q, t)' = EpochOf(q, t)
    BY <1>1 DEF InUse, EpochOf, Slots, Reserved
  <2> QED
    BY <1>1, <2>1, NoNewEpoch
<1> QED
  BY <1>5, <1>6, <1>7, <1>8, <1>9, FenceSide DEF FenceInv

(* An observation confirms the row, moves it on with evidence, or stops it; a  *)
(* fence nobody journalled stops the project under its own holder.             *)
LEMMA ObservedRow ==
  ASSUME FenceInv, NEW p \in Projects
  PROVE  LET f == fence[p]
             r == ReconciledFence(p)
         IN /\ r \in FenceRow
            /\ \/ r = f
               \/ /\ ~ActiveFence(p)
                  /\ r.state = "needs_reconcile"
                  /\ r.attempt \notin Attempts
               \/ /\ ActiveFence(p)
                  /\ r.attempt = f.attempt /\ r.epoch = f.epoch /\ r.receipt = f.receipt
                  /\ \/ r.state = "needs_reconcile"
                     \/ r.state = "held" /\ f.state \in {"acquire_intent", "held"}
                     \/ r.state = "released" /\ f.state = "release_intent" /\ held[p] = NoLease
<1>1. fence[p] \in FenceRow /\ held[p] \in LeaseRow
  BY DEF FenceInv, TypeOK
<1>2. CASE ~ActiveFence(p)
  <2>1. held[p].attempt \notin Attempts
    BY <1>2 DEF FenceInv, FreeFence
  <2> QED
    BY <1>1, <1>2, <2>1 DEF ReconciledFence, FenceRow, LeaseRow, FenceStates
<1>3. CASE ActiveFence(p)
  BY <1>1, <1>3 DEF ReconciledFence, FenceRow, FenceStates
<1> QED
  BY <1>2, <1>3

(* reconcile_fence keeps the invariant whatever the application reports.       *)
LEMMA FenceObserved ==
  ASSUME FenceInv, UNCHANGED journalVars, NEW p \in Projects, ReconcileFence(p)
  PROVE  FenceInv'
<1> DEFINE r == ReconciledFence(p)
<1>1. /\ fence' = [fence EXCEPT ![p] = r]
      /\ UNCHANGED <<drain, boundary, epoch, held, tampers>>
  BY DEF ReconcileFence
<1>2. /\ r \in FenceRow
      /\ \/ r = fence[p]
         \/ /\ ~ActiveFence(p)
            /\ r.state = "needs_reconcile"
            /\ r.attempt \notin Attempts
         \/ /\ ActiveFence(p)
            /\ r.attempt = fence[p].attempt
            /\ r.epoch = fence[p].epoch
            /\ r.receipt = fence[p].receipt
            /\ \/ r.state = "needs_reconcile"
               \/ r.state = "held" /\ fence[p].state \in {"acquire_intent", "held"}
               \/ r.state = "released" /\ fence[p].state = "release_intent" /\ held[p] = NoLease
  BY ObservedRow
<1> HIDE DEF r
<1>3. TypeOK
  BY DEF FenceInv
<1>4. \A q \in Projects : fence'[q] = IF q = p THEN r ELSE fence[q]
  BY <1>1, <1>3 DEF TypeOK
<1>5. TypeOK'
  BY <1>1, <1>2, <1>3, FenceSide DEF TypeOK
<1>6. FenceAfterBackup'
  BY <1>2, <1>4 DEF FenceInv, FenceAfterBackup, FencePhaseReceipts, Committed, journalVars
<1>7. ReleaseHasEvidence'
  BY <1>2, <1>4 DEF FenceInv, ReleaseHasEvidence, ReleaseSafe, Committed, journalVars
<1>8. FreeFence'
  <2>1. NoLease.attempt \notin Attempts
    BY AttemptAssumption DEF NoLease
  <2> QED
    BY <1>1, <1>2, <1>4, <2>1 DEF FenceInv, FreeFence, ActiveFence
<1>9. DrainIsNewest'
  BY <1>1, <1>2, <1>4 DEF FenceInv, DrainIsNewest, ActiveFence, Reserved
<1>10. EpochsUnique'
  <2>1. \A q \in Projects, t \in Slots : InUse(q, t)' =>
          InUse(q, t) /\ EpochOf(q, t)' = EpochOf(q, t)
    BY <1>1, <1>2, <1>4 DEF InUse, EpochOf, Slots, Reserved
  <2> QED
    BY <1>1, <2>1, NoNewEpoch
<1> QED
  BY <1>5, <1>6, <1>7, <1>8, <1>9, <1>10, FenceSide DEF FenceInv

(* The receipt of a bound base backup and the end of its boundary.             *)
LEMMA BoundaryClosed ==
  ASSUME FenceInv, NEW a \in Attempts, CommitBackupAndCloseBoundary(ProjectOf[a], a)
  PROVE  FenceInv'
<1> DEFINE p == ProjectOf[a]
<1>1. /\ CommitPhaseReceipt(a, "primary", "backing_up")
      /\ boundary' = [boundary EXCEPT ![p] = NoLease]
      /\ UNCHANGED <<fence, drain, epoch, held, tampers>>
  BY DEF CommitBackupAndCloseBoundary
<1>2. JournalNext /\ takeover' = takeover
  BY <1>1 DEF JournalNext, Branches, BranchPhases, Phases, CommitPhaseReceipt
<1>3. /\ JournalInv'
      /\ \A b \in Attempts, k \in Keys : Committed(b, k) => Committed(b, k)'
  BY <1>2, JournalStepSafe DEF FenceInv, Committed
<1>4. TypeOK
  BY DEF FenceInv
<1>5. TypeOK'
  <2>1. NoLease \in LeaseRow
    BY DEF NoLease, LeaseRow
  <2> QED
    BY <1>1, <1>3, <1>4, <2>1 DEF TypeOK, JournalInv
<1>6. FenceAfterBackup'
  BY <1>1, <1>3 DEF FenceInv, FenceAfterBackup, FencePhaseReceipts, Keys, Phases
<1>7. ReleaseHasEvidence'
  BY <1>1, <1>2, <1>3
     DEF FenceInv, ReleaseHasEvidence, ReleaseSafe, Committed, Keys, Phases, RecoveryKeys
<1>8. FreeFence' /\ DrainIsNewest'
  BY <1>1 DEF FenceInv, FreeFence, DrainIsNewest, ActiveFence, Reserved
<1>9. EpochsUnique'
  <2>1. \A q \in Projects : boundary'[q] = NoLease \/ boundary'[q] = boundary[q]
    BY <1>1, <1>4 DEF TypeOK
  <2>2. \A q \in Projects, t \in Slots : InUse(q, t)' =>
          InUse(q, t) /\ EpochOf(q, t)' = EpochOf(q, t)
    BY <1>1, <2>1 DEF InUse, EpochOf, Slots, Reserved
  <2> QED
    BY <1>1, <2>2, NoNewEpoch
<1> QED
  BY <1>3, <1>5, <1>6, <1>7, <1>8, <1>9 DEF FenceInv

(* Every step of the fence and of the journal keeps the invariant.             *)
LEMMA FenceStepSafe ==
  ASSUME FenceInv, [Next]_vars
  PROVE  FenceInv'
<1>1. CASE JournalStep /\ UNCHANGED fenceVars
  BY <1>1, JournalSide
<1>2. CASE FenceStep /\ UNCHANGED journalVars
  BY <1>2, BoundaryReserved, DrainReserved, FenceTaken, ReleaseRequested,
     ApplicationMoved, FenceObserved DEF FenceStep
<1>3. CASE CloseBoundaryStep
  BY <1>3, BoundaryClosed DEF CloseBoundaryStep
<1>4. CASE UNCHANGED vars
  <2>1. UNCHANGED journalVars /\ UNCHANGED fenceVars
    BY <1>4 DEF vars
  <2>2. JournalInv' /\ JournalTypeOK'
    BY <2>1, FenceSide
  <2>3. TypeOK'
    BY <2>1, <2>2 DEF FenceInv, TypeOK, fenceVars
  <2>4. FenceAfterBackup' /\ ReleaseHasEvidence'
    BY <2>1 DEF FenceInv, FenceAfterBackup, ReleaseHasEvidence, FencePhaseReceipts,
                ReleaseSafe, Committed, journalVars, fenceVars
  <2> QED
    BY <2>1, <2>2, <2>3, <2>4, FenceFrame DEF FenceInv
<1> QED
  BY <1>1, <1>2, <1>3, <1>4 DEF Next

--------------------------------------------------------------------------------
(* The journal's row and the application's fence agree at p.                   *)
Agrees(p) ==
  CASE fence[p].state = "held" -> held[p] = LeaseOf(p)
    [] fence[p].state \in {"none", "released"} -> held[p] = NoLease
    [] fence[p].state \in {"acquire_intent", "release_intent"} ->
         held[p] \in {NoLease, LeaseOf(p)}
    [] OTHER -> FALSE

(* Without outside changes every step keeps journal and application in         *)
(* agreement.                                                                  *)
LEMMA AgreementKept ==
  ASSUME FenceInv, JournalMatchesApplication, [Next]_vars
  PROVE  JournalMatchesApplication'
<1> SUFFICES ASSUME tampers' = 0, NEW q \in Projects
             PROVE  Agrees(q)'
  BY DEF JournalMatchesApplication, Agrees
<1>0. TypeOK /\ ReleaseHasEvidence
  BY DEF FenceInv
<1>1. fence \in [Projects -> FenceRow] /\ held \in [Projects -> LeaseRow] /\ tampers \in Nat
  BY <1>0 DEF TypeOK
<1>2. ASSUME tampers = 0 PROVE Agrees(q)
  BY <1>2 DEF JournalMatchesApplication, Agrees
<1>3. CASE fence' = fence /\ held' = held /\ tampers' = tampers
  BY <1>2, <1>3 DEF Agrees, LeaseOf
<1>4. ASSUME NEW p \in Projects, NEW a \in Attempts, BeginFenceAcquire(p, a)
      PROVE  Agrees(q)'
  <2>1. /\ ~ActiveFence(p) /\ tampers' = tampers /\ held' = held
        /\ q # p => fence'[q] = fence[q]
        /\ q = p => fence'[p].state = "acquire_intent"
    BY <1>1, <1>4 DEF BeginFenceAcquire
  <2> QED
    BY <1>2, <2>1 DEF Agrees, ActiveFence, LeaseOf
<1>5. ASSUME NEW p \in Projects, NEW a \in Attempts, NEW k \in Keys,
             BeginFenceRelease(p, a, k)
      PROVE  Agrees(q)'
  <2>1. /\ fence[p].state = "held" /\ tampers' = tampers /\ held' = held
        /\ q # p => fence'[q] = fence[q]
        /\ q = p => /\ fence'[p].state = "release_intent"
                    /\ fence'[p].attempt = fence[p].attempt
                    /\ fence'[p].epoch = fence[p].epoch
    BY <1>1, <1>5 DEF BeginFenceRelease, FenceRow
  <2> QED
    BY <1>2, <2>1 DEF Agrees, LeaseOf
<1>6. ASSUME NEW p \in Projects, AcquireFence(p)
      PROVE  Agrees(q)'
  <2>1. /\ fence[p].state \in {"acquire_intent", "held"}
        /\ tampers' = tampers /\ fence' = fence
        /\ held'[q] = IF q = p THEN LeaseOf(p) ELSE held[q]
    BY <1>1, <1>6 DEF AcquireFence
  <2> QED
    BY <1>2, <2>1 DEF Agrees, LeaseOf
<1>7. ASSUME NEW p \in Projects, ReleaseFence(p)
      PROVE  Agrees(q)'
  <2>1. /\ fence[p].state = "release_intent"
        /\ tampers' = tampers /\ fence' = fence
        /\ held'[q] = IF q = p THEN NoLease ELSE held[q]
    BY <1>1, <1>7 DEF ReleaseFence
  <2> QED
    BY <1>2, <2>1 DEF Agrees, LeaseOf
<1>8. ASSUME NEW p \in Projects, ObservationDue(p), ReconcileFence(p)
      PROVE  Agrees(q)'
  <2>1. /\ tampers' = tampers /\ held' = held
        /\ fence'[q] = IF q = p THEN ReconciledFence(p) ELSE fence[q]
    BY <1>1, <1>8 DEF ReconcileFence
  <2>2. CASE q # p
    BY <1>2, <2>1, <2>2 DEF Agrees, LeaseOf
  <2>3. CASE q = p
    <3>1. tampers = 0
      BY <2>1
    <3>2. fence[p].state = "release_intent" => Committed(fence[p].attempt, fence[p].receipt)
      BY <1>0 DEF ReleaseHasEvidence, ReleaseSafe
    <3>3. \/ ReconciledFence(p) = fence[p]
          \/ /\ ReconciledFence(p) = [fence[p] EXCEPT !.state = "held"]
             /\ held[p] = LeaseOf(p)
          \/ /\ ReconciledFence(p) = [fence[p] EXCEPT !.state = "released"]
             /\ held[p] = NoLease
      BY <1>2, <1>8, <2>3, <3>1, <3>2
         DEF ReconciledFence, ObservationDue, ActiveFence, Agrees
    <3>4. fence[p] \in FenceRow
      BY <1>1
    <3> QED
      BY <1>2, <2>1, <2>3, <3>1, <3>3, <3>4 DEF Agrees, LeaseOf, FenceRow
  <2> QED
    BY <2>2, <2>3
<1>9. ASSUME NEW p \in Projects, TamperFence(p)
      PROVE  Agrees(q)'
  BY <1>1, <1>9 DEF TamperFence
<1>10. CASE JournalStep /\ UNCHANGED fenceVars
  BY <1>3, <1>10 DEF fenceVars
<1>11. CASE FenceStep /\ UNCHANGED journalVars
  BY <1>3, <1>4, <1>5, <1>6, <1>7, <1>8, <1>9, <1>11
     DEF FenceStep, BeginBackupBoundary, BeginDrainIdentity
<1>12. CASE CloseBoundaryStep
  BY <1>3, <1>12 DEF CloseBoundaryStep, CommitBackupAndCloseBoundary
<1>13. CASE UNCHANGED vars
  BY <1>3, <1>13 DEF vars, fenceVars
<1> QED
  BY <1>10, <1>11, <1>12, <1>13 DEF Next

(* A row enters acquire_intent only when the fence is taken, with a higher     *)
(* epoch than the row before it.                                               *)
LEMMA EpochAscends ==
  ASSUME FenceInv, [Next]_vars, NEW q \in Projects,
         fence'[q].state = "acquire_intent", fence[q].state # "acquire_intent"
  PROVE  fence'[q].epoch > fence[q].epoch
<1>1. fence \in [Projects -> FenceRow]
  BY DEF FenceInv, TypeOK
<1>2. ASSUME fence' = fence PROVE FALSE
  BY <1>2
<1>3. CASE JournalStep /\ UNCHANGED fenceVars
  BY <1>2, <1>3 DEF fenceVars
<1>4. CASE FenceStep /\ UNCHANGED journalVars
  <2>1. ASSUME NEW p \in Projects, NEW a \in Attempts, ProjectOf[a] = p,
               BeginFenceAcquire(p, a)
        PROVE  fence'[q].epoch > fence[q].epoch
    BY <1>4, <2>1, FenceTaken
  <2>2. ASSUME NEW p \in Projects, NEW a \in Attempts, NEW k \in Keys,
               BeginFenceRelease(p, a, k)
        PROVE  FALSE
    BY <1>1, <2>2 DEF BeginFenceRelease, FenceRow
  <2>3. ASSUME NEW p \in Projects, ReconcileFence(p)
        PROVE  FALSE
    <3>1. fence'[q] = IF q = p THEN ReconciledFence(p) ELSE fence[q]
      BY <1>1, <2>3 DEF ReconcileFence
    <3>2. ReconciledFence(p) = fence[p] \/ ReconciledFence(p).state # "acquire_intent"
      BY ObservedRow
    <3> QED
      BY <3>1, <3>2
  <2>4. ASSUME NEW p \in Projects,
               \/ \E a \in Attempts : BeginBackupBoundary(p, a) \/ BeginDrainIdentity(p, a)
               \/ AcquireFence(p) \/ ReleaseFence(p) \/ TamperFence(p)
        PROVE  fence' = fence
    BY <2>4 DEF BeginBackupBoundary, BeginDrainIdentity, AcquireFence, ReleaseFence,
                TamperFence
  <2> QED
    BY <1>2, <1>4, <2>1, <2>2, <2>3, <2>4 DEF FenceStep
<1>5. CASE CloseBoundaryStep
  BY <1>2, <1>5 DEF CloseBoundaryStep, CommitBackupAndCloseBoundary
<1>6. CASE UNCHANGED vars
  BY <1>2, <1>6 DEF vars, fenceVars
<1> QED
  BY <1>3, <1>4, <1>5, <1>6 DEF Next

(* The executor sets the lease it journalled where there was none, or clears   *)
(* it on evidence.                                                             *)
LEMMA OnlyOwnLease ==
  ASSUME FenceInv, [Next]_vars, tampers' = tampers, NEW q \in Projects,
         held'[q] # held[q]
  PROVE  \/ held[q] = NoLease /\ held'[q] = LeaseOf(q) /\ ActiveFence(q)
         \/ /\ held[q] = LeaseOf(q) /\ held'[q] = NoLease
            /\ fence[q].attempt \in Attempts
            /\ ReleaseSafe(fence[q].attempt, fence[q].receipt)
<1>1. held \in [Projects -> LeaseRow] /\ tampers \in Nat /\ ReleaseHasEvidence
  BY DEF FenceInv, TypeOK
<1>2. ASSUME held' = held PROVE FALSE
  BY <1>2
<1>3. PICK p \in Projects : AcquireFence(p) \/ ReleaseFence(p)
  <2>1. CASE JournalStep /\ UNCHANGED fenceVars
    BY <1>2, <2>1 DEF fenceVars
  <2>2. CASE FenceStep /\ UNCHANGED journalVars
    <3>1. ASSUME NEW p \in Projects, TamperFence(p) PROVE FALSE
      BY <1>1, <3>1 DEF TamperFence
    <3> QED
      BY <1>2, <2>2, <3>1 DEF FenceStep, BeginBackupBoundary, BeginDrainIdentity,
         BeginFenceAcquire, BeginFenceRelease, ReconcileFence
  <2>3. CASE CloseBoundaryStep
    BY <1>2, <2>3 DEF CloseBoundaryStep, CommitBackupAndCloseBoundary
  <2>4. CASE UNCHANGED vars
    BY <1>2, <2>4 DEF vars, fenceVars
  <2> QED
    BY <2>1, <2>2, <2>3, <2>4 DEF Next
<1>4. q = p
  BY <1>1, <1>3 DEF AcquireFence, ReleaseFence
<1>5. CASE AcquireFence(p)
  BY <1>1, <1>4, <1>5 DEF AcquireFence, ActiveFence
<1>6. CASE ReleaseFence(p)
  BY <1>1, <1>4, <1>6 DEF ReleaseFence, ReleaseHasEvidence
<1> QED
  BY <1>3, <1>5, <1>6

--------------------------------------------------------------------------------
(* The inductive invariant holds in every state, and so does the agreement of  *)
(* journal and application.                                                    *)
THEOREM FenceInvariant == Spec => [](FenceInv /\ JournalMatchesApplication)
<1>1. Init => FenceInv /\ JournalMatchesApplication
  BY FenceInitInv
<1>2. FenceInv /\ JournalMatchesApplication /\ [Next]_vars =>
        (FenceInv /\ JournalMatchesApplication)'
  BY FenceStepSafe, AgreementKept
<1> QED
  BY <1>1, <1>2, PTL DEF Spec

(* The types of the fence journal and of the application's fence.              *)
THEOREM FenceTypeCorrect == Spec => []TypeOK
<1>1. FenceInv => TypeOK
  BY DEF FenceInv
<1> QED
  BY <1>1, FenceInvariant, PTL

(* begin_fence_release and the rollback guard let writers in again only with a *)
(* receipt of the branch the attempt ended on.                                 *)
THEOREM ReleaseIsSafe == Spec => []ReleaseHasEvidence
<1>1. FenceInv => ReleaseHasEvidence
  BY DEF FenceInv
<1> QED
  BY <1>1, FenceInvariant, PTL

(* begin_fence_acquire fences only behind a base backup and a drain.           *)
THEOREM FenceFollowsBackup == Spec => []FenceAfterBackup
<1>1. FenceInv => FenceAfterBackup
  BY DEF FenceInv
<1> QED
  BY <1>1, FenceInvariant, PTL

(* The one epoch counter gives every identity in use an epoch of its own.      *)
THEOREM EpochsAreUnique == Spec => []EpochsUnique
<1>1. FenceInv => EpochsUnique
  BY DEF FenceInv
<1> QED
  BY <1>1, FenceInvariant, PTL

(* Without outside changes the journal and the application never disagree, so  *)
(* reconcile_fence never has to stop the project.                              *)
THEOREM JournalAgreesWithApplication == Spec => []JournalMatchesApplication
BY FenceInvariant, PTL

(* A later fence of a project has a higher epoch.                              *)
THEOREM FencesAscend == Spec => EpochsAscend
<1>1. FenceInv /\ [Next]_vars =>
        [\A p \in Projects :
           fence'[p].state = "acquire_intent" /\ fence[p].state # "acquire_intent" =>
             fence'[p].epoch > fence[p].epoch]_vars
  BY EpochAscends
<1> QED
  BY <1>1, FenceInvariant, PTL DEF Spec, EpochsAscend

(* The executor's fence calls change no fence that is not the journalled one.  *)
THEOREM ForeignFenceSafe == Spec => ForeignFenceUntouched
<1>1. FenceInv /\ [Next]_vars =>
        [tampers' = tampers => \A p \in Projects : held'[p] # held[p] =>
           \/ held[p] = NoLease /\ held'[p] = LeaseOf(p) /\ ActiveFence(p)
           \/ /\ held[p] = LeaseOf(p) /\ held'[p] = NoLease
              /\ fence[p].attempt \in Attempts
              /\ ReleaseSafe(fence[p].attempt, fence[p].receipt)]_vars
  BY OnlyOwnLease
<1> QED
  BY <1>1, FenceInvariant, PTL DEF Spec, ForeignFenceUntouched

(* The fence protocol uses the phase journal only through the journal's own    *)
(* transactions: commit_backup_receipt_and_close_boundary is a receipt, the    *)
(* other fence transactions leave the rows alone.                              *)
THEOREM FenceImplementsJournal == Spec => JournalSpec
<1>1. Init => JournalInit
  BY DEF Init
<1>2. ASSUME [Next]_vars PROVE [JournalNext]_journalVars
  <2>1. CASE JournalStep /\ UNCHANGED fenceVars
    BY <2>1 DEF JournalStep, JournalNext
  <2>2. CASE FenceStep /\ UNCHANGED journalVars
    BY <2>2
  <2>3. CASE CloseBoundaryStep
    <3>1. PICK a \in Attempts : CommitPhaseReceipt(a, "primary", "backing_up")
      BY <2>3 DEF CloseBoundaryStep, CommitBackupAndCloseBoundary
    <3>2. "primary" \in Branches /\ "backing_up" \in BranchPhases("primary")
      BY DEF Branches, BranchPhases, Phases
    <3> QED
      BY <3>1, <3>2 DEF JournalNext
  <2>4. CASE UNCHANGED vars
    BY <2>4 DEF vars
  <2> QED
    BY <1>2, <2>1, <2>2, <2>3, <2>4 DEF Next
<1> QED
  BY <1>1, <1>2, PTL DEF Spec, JournalSpec

(* With fences as without: a sealed forward branch never changes again and no  *)
(* receipt is withdrawn.                                                       *)
THEOREM ForwardStaysFrozen == Spec => ForwardFrozen
BY FenceImplementsJournal, SealFreezesForward, PTL
================================================================================
