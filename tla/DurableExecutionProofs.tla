------------------------- MODULE DurableExecutionProofs -------------------------
(* The executor and coordinator for every number of attempts and projects: the *)
(* inductive invariant of an execution, that it follows the fence protocol,    *)
(* and the safety properties that rest on both.                                *)
EXTENDS DurableExecution, WriteFenceProofs

--------------------------------------------------------------------------------
(* What the invariant says of one attempt by itself.                           *)

(* The phase of the plan the forward run has reached.                          *)
ForwardPhase(a) ==
  IF ctl[a].mode = "reconciliation" THEN ctl[a].from ELSE ctl[a].phase

(* The phases of the plan before it.                                           *)
Before(a) == PhasesBefore[KindOf[a]][ForwardPhase(a)]

(* How the mode, the phase shown and the phase left for reconciliation go      *)
(* together.                                                                   *)
ShownShape(a) ==
  /\ ctl[a].mode = "none" => ctl[a].phase \in Phases /\ ctl[a].from = "none"
  /\ ctl[a].mode = "rollback" =>
       ctl[a].phase \in {"rollback", "health_checking", "soaking"} /\ ctl[a].from = "none"
  /\ ctl[a].mode = "reconciliation" =>
       ctl[a].phase = "reconciliation" /\ ctl[a].from \in Phases

(* Before a seal the projection and the rows end at the current phase.         *)
ForwardRun(a) ==
  takeover[a] = "none" =>
    /\ ctl[a].mode # "rollback"
    /\ InPlan(KindOf[a], ForwardPhase(a))
    /\ Before(a) \subseteq ctl[a].projected
    /\ ctl[a].projected \subseteq
         Before(a) \cup (IF Running(a) THEN {} ELSE {ForwardPhase(a)})
    /\ \A k \in Keys : journal[a][k] # "none" => k \in Before(a) \cup {ForwardPhase(a)}

(* After it only the sealed receipt and that of the current recovery phase can *)
(* be missing from the projection.                                             *)
SealedRun(a) ==
  takeover[a] # "none" =>
    /\ RecoveryAllowed(KindOf[a])
    /\ "deploying" \in ctl[a].projected
    /\ \A k \in Phases : Committed(a, k) /\ k \notin ctl[a].projected => k = takeover[a]
    /\ \A k \in RecoveryKeys : Committed(a, k) /\ k \notin ctl[a].projected =>
         ctl[a].mode = "rollback" /\ k = KeyOf(a)
    /\ ctl[a].mode = "none" => Running(a) /\ ctl[a].phase \in {"health_checking", "soaking"}
    /\ ctl[a].mode = "reconciliation" =>
         Running(a) /\ ctl[a].from \in {"rollback", "health_checking", "soaking"}
    /\ ctl[a].result \in {"running", "rolled_back"}

(* Rows belong to the plan, receipts and effects to rows.                      *)
RowsExplained(a) ==
  /\ \A k \in Phases : journal[a][k] # "none" => InPlan(KindOf[a], k)
  /\ \A k \in ctl[a].projected : Committed(a, k)
  /\ \A k \in Keys :
       /\ journal[a][k] \in {"observed", "verified", "committed"} => effect[a][k] = "applied"
       /\ effect[a][k] = "applied" => journal[a][k] # "none"
  /\ rejection[a] = "abort_pending" =>
       /\ IsDeploy(KindOf[a])
       /\ journal[a][AdmissionPhase(KindOf[a])] = "needs_reconcile"
  /\ ctl[a].mode = "rollback" \/ (\E k \in RecoveryKeys : journal[a][k] # "none")
       => takeover[a] # "none"

(* How an operation can have ended.                                            *)
EndedRun(a) ==
  /\ ctl[a].result \in {"cancelled", "failed", "superseded"} =>
       /\ takeover[a] = "none" /\ ctl[a].mode = "none"
       /\ CrossesMutationBoundary(ctl[a].phase) => ctl[a].phase = AdmissionPhase(KindOf[a])
  /\ ctl[a].result = "succeeded" =>
       takeover[a] = "none" /\ \A k \in Phases : InPlan(KindOf[a], k) => Committed(a, k)
  /\ ctl[a].result = "rolled_back" /\ KindOf[a] # "code_rollback" =>
       Committed(a, "rollback_recovery_soaking")

AttemptInv(a) ==
  ShownShape(a) /\ ForwardRun(a) /\ SealedRun(a) /\ RowsExplained(a) /\ EndedRun(a)

--------------------------------------------------------------------------------
(* What it says of an attempt and its project.                                 *)
HoldsLock(a) ==
  Running(a) /\ (\E k \in Keys : MutatingKey(k) /\ effect[a][k] = "applied")
    => owner[Lock(ProjectOf[a])] = a

(* From the admitted effect to the completion receipt the source stands still. *)
HoldsSource(a) ==
  /\ IsDeploy(KindOf[a])
  /\ effect[a][AdmissionPhase(KindOf[a])] = "applied"
  => /\ proof[a]
     /\ ~Committed(a, CompletionPhase(KindOf[a])) => ticket[ProjectOf[a]] = a

(* A cut-over snapshot that was begun keeps its fence row.                     *)
HoldsFence(a) ==
  tampers = 0 /\ Running(a) /\ journal[a]["cutover_snapshotting"] # "none" =>
    /\ fence[ProjectOf[a]].attempt = a
    /\ fence[ProjectOf[a]].state \in {"held", "release_intent", "released"}

LinkInv(a) == HoldsLock(a) /\ HoldsSource(a) /\ HoldsFence(a)

(* Reservations and fences belong to running attempts that own the lock.       *)
DrainOwned(p) ==
  Reserved(drain[p]) =>
    /\ drain[p].attempt \in Attempts
    /\ ProjectOf[drain[p].attempt] = p
    /\ IsStateful(KindOf[drain[p].attempt])
    /\ Running(drain[p].attempt)
    /\ Committed(drain[p].attempt, "backing_up")
    /\ journal[drain[p].attempt]["cutover_snapshotting"] = "none"
    /\ owner[Lock(p)] = drain[p].attempt

(* A fence that is sought, held or being released has a running owner.         *)
FenceOwned(p) ==
  fence[p].state \in {"acquire_intent", "held", "release_intent"} =>
    Running(fence[p].attempt) /\ owner[Lock(p)] = fence[p].attempt

(* Only a bound base backup reserves a boundary.                               *)
BoundaryBound(p) == Reserved(boundary[p]) => boundary[p].attempt \in Bound

ProjectInv(p) == DrainOwned(p) /\ FenceOwned(p) /\ BoundaryBound(p)

--------------------------------------------------------------------------------
(* What it says of the call inside a project's gate.                           *)
FencePCs == {"fence_begin", "fence_set", "fence_seen", "unset_begin", "unset", "unset_seen"}

(* The steps that work on the row of the current phase.                        *)
WorkPCs == {"intent", "compensate", "compensated", "disk", "acquire", "identity",
            "apply", "admit", "prove", "unadmit", "unprove", "unapply", "untake",
            "uncompensate", "suspend", "source_settle", "effect", "observe",
            "verify", "commit", "complete", "tidy", "soaked", "project",
            "to_reconcile", "refresh", "unblock"}

InPhase(t) == t.pc \in WorkPCs \/ (t.pc \in FencePCs /\ t.why \notin {"recover", "sweep"})

(* The status of the current row while the call is at a step.                  *)
RowAt(pc) ==
  CASE pc \in {"disk", "acquire", "identity", "apply", "observe"} ->
         {"intent", "observed", "verified"}
    [] pc \in {"admit", "prove", "unadmit", "effect", "unapply", "suspend",
               "source_settle"} -> {"intent"}
    [] pc \in {"compensate", "untake", "compensated", "unprove", "uncompensate"} ->
         {"needs_reconcile"}
    [] pc = "verify" -> {"observed", "verified"}
    [] pc = "commit" -> {"verified"}
    [] pc \in {"complete", "tidy", "soaked", "project", "unset_begin", "unset",
               "unset_seen"} -> {"committed"}
    [] OTHER -> Statuses

(* Steps at which the current effect is not there yet, and those of an         *)
(* admission.                                                                  *)
Untouched == {"admit", "prove", "unadmit", "unprove", "uncompensate", "suspend",
              "source_settle", "effect", "unapply", "untake", "compensated"}

Admitting == {"admit", "prove", "unadmit", "unprove", "uncompensate", "suspend",
              "source_settle", "unapply"}

(* Whose call it is.                                                           *)
CallBound(p, t) ==
  /\ t.pc \notin {"idle", "recovered"} => t.a \in Attempts /\ ProjectOf[t.a] = p
  /\ t.pc = "recovered" => t.why \in {"recover", "sweep"}
  /\ t.why \in {"recover", "sweep"} => t.pc \in FencePCs \cup {"recovered"}

(* A call inside a phase works for the phase the controller shows; what it     *)
(* mutates belongs to an operation that has not ended.                         *)
CallInPhase(p, t) ==
  InPhase(t) =>
    /\ ctl[t.a].mode # "reconciliation"
    /\ Running(t.a) \/ ~CrossesMutationBoundary(PhaseOf(t.a))
    /\ t.pc # "intent" /\ ctl[t.a].mode = "none" => takeover[t.a] = "none"
    /\ journal[t.a][KeyOf(t.a)] \in RowAt(t.pc)
    /\ t.pc \in {"soaked", "unset_begin", "unset", "unset_seen"} =>
         PhaseOf(t.a) = "soaking"
    /\ t.pc \in {"refresh", "unblock", "fence_begin", "fence_set", "fence_seen"} =>
         PhaseOf(t.a) = "cutover_snapshotting"

(* What an admission has and has not done so far.                              *)
CallAdmits(p, t) ==
  /\ t.pc \in Untouched => effect[t.a][KeyOf(t.a)] # "applied"
  /\ t.pc \in Admitting => AdmissionNow(t.a)
  /\ t.pc \in {"untake", "compensated"} => rejection[t.a] = "abort_pending"
  /\ t.pc = "prove" => ticket[p] = t.a
  /\ t.pc = "effect" /\ AdmissionNow(t.a) => ticket[p] = t.a /\ proof[t.a]

(* A call about to mutate owns the deploy lock.                                *)
CallOwns(p, t) ==
  /\ t.pc \in {"identity", "apply", "admit", "prove", "effect"}
     /\ RequiresProjectLock(PhaseOf(t.a)) => owner[Lock(p)] = t.a
  /\ t.pc = "identity" => NeedsIdentity(t.a)

(* What a call at the fence knows of the fence row.                            *)
CallFences(p, t) ==
  /\ \/ t.pc \in {"fence_set", "fence_seen"}
     \/ t.pc = "fence_begin" /\ t.why \in {"recover", "sweep"}
     => fence[p].attempt = t.a /\ fence[p].state \in {"acquire_intent", "held"}
  /\ t.pc = "unset_begin" /\ t.why \in {"recover", "sweep"} =>
       fence[p].attempt = t.a /\ fence[p].state = "release_intent"
  /\ t.pc \in {"unset", "unset_seen"} =>
       fence[p].attempt = t.a /\ fence[p].state \in {"release_intent", "released"}
  /\ t.pc \in {"fence_seen", "recovered"} => ObservationDue(p)
  /\ t.pc = "intent" /\ PhaseOf(t.a) = "cutover_snapshotting" =>
       fence[p].attempt = t.a /\ fence[p].state = "held"
  /\ t.pc = "project" /\ PhaseOf(t.a) = "soaking" => ~ActiveFence(p)

(* What a call knows that cleans up, reconciles or shows a rollback.           *)
CallEnds(p, t) ==
  /\ t.pc = "cleanup" => ~Running(t.a)
  /\ t.pc = "reconcile" => ctl[t.a].mode = "reconciliation"
  /\ t.pc \in {"reconcile_tidy", "reconcile_commit"} =>
       /\ ctl[t.a].mode = "reconciliation"
       /\ ctl[t.a].from = CompletionPhase(KindOf[t.a])
       /\ Committed(t.a, ctl[t.a].from)
  /\ t.pc = "to_rollback" => takeover[t.a] # "none"
  /\ t.pc = "to_reconcile" /\ ctl[t.a].mode = "rollback" => ~Committed(t.a, KeyOf(t.a))

CallInv(p, t) ==
  /\ CallBound(p, t)
  /\ CallInPhase(p, t)
  /\ CallAdmits(p, t)
  /\ CallOwns(p, t)
  /\ CallFences(p, t)
  /\ CallEnds(p, t)

(* The inductive invariant of an execution.                                    *)
ExecInv ==
  /\ ExecTypeOK
  /\ FenceInv
  /\ JournalMatchesApplication
  /\ \A a \in Attempts : AttemptInv(a) /\ LinkInv(a)
  /\ \A p \in Projects : ProjectInv(p) /\ CallInv(p, thr[p])

--------------------------------------------------------------------------------
(* How long the plans are.                                                   *)
LEMMA PlanTypes ==
  /\ DOMAIN CodeOnlyPhases = 1 .. 9 /\ Len(CodeOnlyPhases) = 9
  /\ DOMAIN StatefulPhases = 1 .. 13 /\ Len(StatefulPhases) = 13
  /\ DOMAIN CodeRollbackPhases = 1 .. 5 /\ Len(CodeRollbackPhases) = 5
  /\ DOMAIN BackupOnlyPhases = 1 .. 3 /\ Len(BackupOnlyPhases) = 3
BY DEF CodeOnlyPhases, StatefulPhases, CodeRollbackPhases, BackupOnlyPhases

(* Every kind has one of four plans.                                         *)
LEMMA PlanCases ==
  ASSUME NEW kind \in Kinds
  PROVE  /\ kind = "code_only" => RequiredPhases(kind) = CodeOnlyPhases
         /\ IsStateful(kind) => RequiredPhases(kind) = StatefulPhases
         /\ kind = "code_rollback" => RequiredPhases(kind) = CodeRollbackPhases
         /\ kind = "backup_only" => RequiredPhases(kind) = BackupOnlyPhases
         /\ kind = "code_only" \/ IsStateful(kind) \/ kind = "code_rollback" \/ kind = "backup_only"
<1>1. CASE kind = "code_only"
  BY <1>1 DEF RequiredPhases, IsStateful
<1>2. CASE kind = "stateful_compatible"
  BY <1>2 DEF RequiredPhases, IsStateful
<1>3. CASE kind = "stateful_breaking"
  BY <1>3 DEF RequiredPhases, IsStateful
<1>4. CASE kind = "code_rollback"
  BY <1>4 DEF RequiredPhases, IsStateful
<1>5. CASE kind = "backup_only"
  BY <1>5 DEF RequiredPhases, IsStateful
<1> QED
  BY <1>1, <1>2, <1>3, <1>4, <1>5 DEF Kinds

(* A plan lists phases, and none twice.                                      *)
LEMMA PlanInjective ==
  ASSUME NEW kind \in Kinds
  PROVE  /\ RequiredPhases(kind) \in Seq(Phases)
         /\ \A i, j \in DOMAIN RequiredPhases(kind) :
              RequiredPhases(kind)[i] = RequiredPhases(kind)[j] => i = j
<1>1. \A i, j \in 1 .. 13 : StatefulPhases[i] = StatefulPhases[j] => i = j
  BY DEF StatefulPhases
<1>2. \A i, j \in 1 .. 9 : CodeOnlyPhases[i] = CodeOnlyPhases[j] => i = j
  BY DEF CodeOnlyPhases
<1>3. \A i, j \in 1 .. 5 : CodeRollbackPhases[i] = CodeRollbackPhases[j] => i = j
  BY DEF CodeRollbackPhases
<1>4. \A i, j \in 1 .. 3 : BackupOnlyPhases[i] = BackupOnlyPhases[j] => i = j
  BY DEF BackupOnlyPhases
<1>5. /\ StatefulPhases \in Seq(Phases) /\ CodeOnlyPhases \in Seq(Phases)
      /\ CodeRollbackPhases \in Seq(Phases) /\ BackupOnlyPhases \in Seq(Phases)
  BY DEF StatefulPhases, CodeOnlyPhases, CodeRollbackPhases, BackupOnlyPhases, Phases
<1>6. RequiredPhases(kind) \in {StatefulPhases, CodeOnlyPhases, CodeRollbackPhases,
                                BackupOnlyPhases}
  BY PlanCases
<1> QED
  BY ZenonT(60), <1>1, <1>2, <1>3, <1>4, <1>5, <1>6, PlanTypes

(* The phases before the one at a position are those at lower positions.     *)
LEMMA BeforeIndex ==
  ASSUME NEW kind \in Kinds, NEW i \in DOMAIN RequiredPhases(kind)
  PROVE  /\ InPlan(kind, RequiredPhases(kind)[i])
         /\ RequiredPhases(kind)[i] \in Phases
         /\ PhasesBefore[kind][RequiredPhases(kind)[i]] =
              {q \in Phases : \E h \in DOMAIN RequiredPhases(kind) :
                                 h < i /\ RequiredPhases(kind)[h] = q}
<1> DEFINE plan == RequiredPhases(kind)
<1>1. plan \in Seq(Phases) /\ \A h, j \in DOMAIN plan : plan[h] = plan[j] => h = j
  BY PlanInjective
<1>2. PhasesBefore[kind][plan[i]] =
        {q \in Phases : \E h, j \in DOMAIN plan : h < j /\ plan[h] = q /\ plan[j] = plan[i]}
  BY <1>1 DEF PhasesBefore
<1>3. InPlan(kind, plan[i])
  BY DEF InPlan
<1> HIDE DEF plan
<1>4. \A q \in Phases : (\E h, j \in DOMAIN plan : h < j /\ plan[h] = q /\ plan[j] = plan[i])
                         <=> (\E h \in DOMAIN plan : h < i /\ plan[h] = q)
  <2> SUFFICES ASSUME NEW q \in Phases
               PROVE  (\E h, j \in DOMAIN plan : h < j /\ plan[h] = q /\ plan[j] = plan[i])
                      <=> (\E h \in DOMAIN plan : h < i /\ plan[h] = q)
    OBVIOUS
  <2>1. ASSUME NEW h \in DOMAIN plan, NEW j \in DOMAIN plan, h < j, plan[h] = q,
               plan[j] = plan[i]
        PROVE  h < i /\ plan[h] = q
    <3>1. j = i
      BY <1>1, <2>1 DEF plan
    <3> QED
      BY <2>1, <3>1
  <2> QED
    BY <2>1 DEF plan
<1> QED
  BY <1>1, <1>2, <1>3, <1>4 DEF plan


(* The order of a stateful plan from its base backup on.                     *)
LEMMA StatefulOrder ==
  ASSUME NEW kind \in Kinds, IsStateful(kind)
  PROVE  /\ InPlan(kind, "backing_up") /\ InPlan(kind, "cutover_snapshotting")
         /\ PhasesBefore[kind]["backing_up"] =
              {"queued", "syncing_source", "verifying_source", "testing", "building",
               "preflight"}
         /\ PhasesBefore[kind]["draining"] = PhasesBefore[kind]["backing_up"] \cup {"backing_up"}
         /\ PhasesBefore[kind]["cutover_snapshotting"] =
              PhasesBefore[kind]["draining"] \cup {"draining"}
         /\ PhasesBefore[kind]["migrating"] =
              PhasesBefore[kind]["cutover_snapshotting"] \cup {"cutover_snapshotting"}
         /\ PhasesBefore[kind]["deploying"] = PhasesBefore[kind]["migrating"] \cup {"migrating"}
         /\ PhasesBefore[kind]["health_checking"] =
              PhasesBefore[kind]["deploying"] \cup {"deploying"}
         /\ PhasesBefore[kind]["soaking"] =
              PhasesBefore[kind]["health_checking"] \cup {"health_checking"}
<1>1. RequiredPhases(kind) = StatefulPhases
  BY PlanCases
<1> DEFINE P(i) == {q \in Phases : \E h \in 1 .. 13 : h < i /\ StatefulPhases[h] = q}
<1>2. ASSUME NEW i \in 1 .. 13
      PROVE  PhasesBefore[kind][StatefulPhases[i]] = P(i) /\ InPlan(kind, StatefulPhases[i])
  <2>1. i \in DOMAIN RequiredPhases(kind)
    BY <1>1, PlanTypes
  <2>2. DOMAIN RequiredPhases(kind) = 1 .. 13
    BY <1>1, PlanTypes
  <2>3. /\ InPlan(kind, RequiredPhases(kind)[i])
        /\ PhasesBefore[kind][RequiredPhases(kind)[i]] =
              {q \in Phases : \E h \in DOMAIN RequiredPhases(kind) :
                                 h < i /\ RequiredPhases(kind)[h] = q}
    BY <2>1, BeforeIndex
  <2> QED
    BY <1>1, <2>2, <2>3
<1>3. \A i \in 1 .. 12 : P(i + 1) = P(i) \cup {StatefulPhases[i]}
  BY DEF StatefulPhases, Phases
<1>4. P(7) = {"queued", "syncing_source", "verifying_source", "testing", "building",
               "preflight"}
  BY DEF StatefulPhases, Phases
<1>5. /\ StatefulPhases[7] = "backing_up" /\ StatefulPhases[8] = "draining"
      /\ StatefulPhases[9] = "cutover_snapshotting" /\ StatefulPhases[10] = "migrating"
      /\ StatefulPhases[11] = "deploying" /\ StatefulPhases[12] = "health_checking"
      /\ StatefulPhases[13] = "soaking"
  BY DEF StatefulPhases
<1> HIDE DEF P
<1> QED
  BY <1>2, <1>3, <1>4, <1>5

(* The order of a code-only plan from its deploy on.                         *)
LEMMA CodeOnlyOrder ==
  /\ InPlan("code_only", "deploying")
  /\ PhasesBefore["code_only"]["deploying"] =
       {"queued", "syncing_source", "verifying_source", "testing", "building", "preflight"}
  /\ PhasesBefore["code_only"]["health_checking"] =
       PhasesBefore["code_only"]["deploying"] \cup {"deploying"}
  /\ PhasesBefore["code_only"]["soaking"] =
       PhasesBefore["code_only"]["health_checking"] \cup {"health_checking"}
<1>1. RequiredPhases("code_only") = CodeOnlyPhases /\ "code_only" \in Kinds
  BY PlanCases DEF Kinds
<1> DEFINE P(i) == {q \in Phases : \E h \in 1 .. 9 : h < i /\ CodeOnlyPhases[h] = q}
<1>2. ASSUME NEW i \in 1 .. 9
      PROVE  /\ PhasesBefore["code_only"][CodeOnlyPhases[i]] = P(i)
             /\ InPlan("code_only", CodeOnlyPhases[i])
  <2>1. i \in DOMAIN RequiredPhases("code_only")
    BY <1>1, PlanTypes
  <2>2. DOMAIN RequiredPhases("code_only") = 1 .. 9
    BY <1>1, PlanTypes
  <2>3. /\ InPlan("code_only", RequiredPhases("code_only")[i])
        /\ PhasesBefore["code_only"][RequiredPhases("code_only")[i]] =
              {q \in Phases : \E h \in DOMAIN RequiredPhases("code_only") :
                                 h < i /\ RequiredPhases("code_only")[h] = q}
    BY <1>1, <2>1, BeforeIndex
  <2> QED
    BY <1>1, <2>2, <2>3
<1>3. \A i \in 1 .. 8 : P(i + 1) = P(i) \cup {CodeOnlyPhases[i]}
  BY DEF CodeOnlyPhases, Phases
<1>4. P(7) = {"queued", "syncing_source", "verifying_source", "testing", "building",
               "preflight"}
  BY DEF CodeOnlyPhases, Phases
<1>5. /\ CodeOnlyPhases[7] = "deploying" /\ CodeOnlyPhases[8] = "health_checking"
      /\ CodeOnlyPhases[9] = "soaking"
  BY DEF CodeOnlyPhases
<1> HIDE DEF P
<1> QED
  BY <1>2, <1>3, <1>4, <1>5

(* Which kinds have which phase; no phase precedes itself.                   *)
LEMMA PlanMembers ==
  ASSUME NEW kind \in Kinds, NEW q, InPlan(kind, q)
  PROVE  /\ q \in Phases
         /\ q \notin PhasesBefore[kind][q]
         /\ q \in {"draining", "cutover_snapshotting", "migrating"} => IsStateful(kind)
         /\ q = "rollback" => kind = "code_rollback"
         /\ q = "deploying" => IsDeploy(kind)
<1>1. q \in Phases
  BY PlanInjective DEF InPlan
<1>2. q \notin PhasesBefore[kind][q]
  BY <1>1, PlanInjective, PlanTypes, PlanCases DEF PhasesBefore
<1>3. /\ \A i \in 1 .. 13 : StatefulPhases[i] # "rollback"
      /\ \A i \in 1 .. 9 : CodeOnlyPhases[i] \notin
           {"draining", "cutover_snapshotting", "migrating", "rollback"}
      /\ \A i \in 1 .. 5 : CodeRollbackPhases[i] \notin
           {"draining", "cutover_snapshotting", "migrating", "deploying"}
      /\ \A i \in 1 .. 3 : BackupOnlyPhases[i] \notin
           {"draining", "cutover_snapshotting", "migrating", "rollback", "deploying"}
  BY DEF StatefulPhases, CodeOnlyPhases, CodeRollbackPhases, BackupOnlyPhases
<1> QED
  BY <1>1, <1>2, <1>3, PlanCases, PlanTypes DEF InPlan, IsDeploy

(* Where a receipt leads: to another phase, or to the end.                     *)
Onward(c, next) == [c EXCEPT !.phase = next, !.block = "none"]
Ending(c, phase, result) == [c EXCEPT !.phase = phase, !.block = "none", !.result = result]
(* The receipt of a forward phase, and what the last one leads to.             *)
AfterForward(c, kind, phase) == AfterReceipt(c, kind, phase, FALSE)
EndResult(kind) == IF kind = "code_rollback" THEN "rolled_back" ELSE "succeeded"

(* A projected receipt leads to the next phase of the plan, or ends it.      *)
LEMMA PlanAdvances ==
  ASSUME NEW kind \in Kinds, NEW phase, InPlan(kind, phase), NEW c
  PROVE  \/ \E next \in Phases :
              /\ InPlan(kind, next)
              /\ PhasesBefore[kind][next] = PhasesBefore[kind][phase] \cup {phase}
              /\ AfterForward(c, kind, phase) = Onward(c, next)
         \/ /\ \A q \in Phases : InPlan(kind, q) => q \in PhasesBefore[kind][phase] \cup {phase}
            /\ phase = "soaking" \/ kind = "backup_only"
            /\ AfterForward(c, kind, phase) =
                 Ending(c, phase, EndResult(kind))
<1> DEFINE plan == RequiredPhases(kind)
           i == CHOOSE n \in DOMAIN plan : plan[n] = phase
<1>1. i \in DOMAIN plan /\ plan[i] = phase
  BY DEF InPlan
<1>2. plan \in Seq(Phases) /\ \A h, j \in DOMAIN plan : plan[h] = plan[j] => h = j
  BY PlanInjective
<1>3. DOMAIN plan = 1 .. Len(plan) /\ Len(plan) \in Nat
  BY <1>2
<1>4. phase \in Phases
  BY <1>1, <1>2
<1>5. AfterForward(c, kind, phase) =
        IF i < Len(plan) THEN Onward(c, plan[i + 1])
        ELSE Ending(c, phase, EndResult(kind))
  BY DEF AfterForward, AfterReceipt, Onward, Ending, EndResult
<1> HIDE DEF i
<1>6. CASE i < Len(plan)
  <2>1. i + 1 \in DOMAIN plan /\ plan[i + 1] \in Phases /\ InPlan(kind, plan[i + 1])
    BY <1>1, <1>2, <1>3, <1>6 DEF InPlan
  <2>2. PhasesBefore[kind][phase] = {q \in Phases : \E h \in DOMAIN plan : h < i /\ plan[h] = q}
    BY <1>1, <1>2, <1>4 DEF PhasesBefore
  <2>3. PhasesBefore[kind][plan[i + 1]] =
          {q \in Phases : \E h \in DOMAIN plan : h < i + 1 /\ plan[h] = q}
    BY <1>1, <1>2, <2>1 DEF PhasesBefore
  <2>4. \A h \in DOMAIN plan : h < i + 1 <=> h < i \/ h = i
    BY <1>1, <1>3
  <2> HIDE DEF plan
  <2>5. PhasesBefore[kind][plan[i + 1]] = PhasesBefore[kind][phase] \cup {phase}
    BY <1>1, <1>4, <2>2, <2>3, <2>4
  <2> QED
    BY <1>5, <1>6, <2>1, <2>5
<1>7. CASE ~(i < Len(plan))
  <2>1. i = Len(plan)
    BY <1>1, <1>3, <1>7
  <2>2. \A q \in Phases : InPlan(kind, q) => q \in PhasesBefore[kind][phase] \cup {phase}
    <3> SUFFICES ASSUME NEW q \in Phases, InPlan(kind, q), q # phase
                 PROVE  q \in PhasesBefore[kind][phase]
      OBVIOUS
    <3>1. PICK h \in DOMAIN plan : plan[h] = q
      BY DEF InPlan
    <3>2. h < i
      BY <1>1, <1>3, <2>1, <3>1
    <3> QED
      BY <1>1, <1>4, <3>1, <3>2 DEF PhasesBefore
  <2>3. phase = "soaking" \/ kind = "backup_only"
    <3>1. /\ StatefulPhases[13] = "soaking" /\ CodeOnlyPhases[9] = "soaking"
          /\ CodeRollbackPhases[5] = "soaking"
      BY DEF StatefulPhases, CodeOnlyPhases, CodeRollbackPhases
    <3> QED
      BY <1>1, <2>1, <3>1, PlanCases, PlanTypes
  <2> QED
    BY <1>5, <1>7, <2>2, <2>3
<1> QED
  BY <1>6, <1>7

(* Nothing was mutated before a phase that mutates nothing, nor before the     *)
(* phase the source is admitted at.                                            *)
LEMMA NothingMutatedBefore ==
  ASSUME NEW kind \in Kinds, NEW f, InPlan(kind, f),
         CrossesMutationBoundary(f) => f = AdmissionPhase(kind)
  PROVE  \A q \in PhasesBefore[kind][f] : ~CrossesMutationBoundary(q)
<1>1. f \in Phases
  BY PlanMembers
<1>2. CASE f = AdmissionPhase(kind)
  <2>1. (kind = "code_only" /\ f = "deploying") \/ (IsStateful(kind) /\ f = "backing_up")
    BY <1>1, <1>2 DEF AdmissionPhase, Phases
  <2>2. PhasesBefore[kind][f] =
          {"queued", "syncing_source", "verifying_source", "testing", "building", "preflight"}
    BY <2>1, StatefulOrder, CodeOnlyOrder
  <2> QED
    BY <2>2 DEF CrossesMutationBoundary
<1>3. CASE ~CrossesMutationBoundary(f)
  <2>1. PICK i \in DOMAIN RequiredPhases(kind) : RequiredPhases(kind)[i] = f
    BY DEF InPlan
  <2>2. \A h \in DOMAIN RequiredPhases(kind) :
          h < i => ~CrossesMutationBoundary(RequiredPhases(kind)[h])
    <3>1. \A h, j \in 1 .. 13 : h < j /\ ~CrossesMutationBoundary(StatefulPhases[j])
                                => ~CrossesMutationBoundary(StatefulPhases[h])
      BY DEF StatefulPhases, CrossesMutationBoundary
    <3>2. \A h, j \in 1 .. 9 : h < j /\ ~CrossesMutationBoundary(CodeOnlyPhases[j])
                                => ~CrossesMutationBoundary(CodeOnlyPhases[h])
      BY DEF CodeOnlyPhases, CrossesMutationBoundary
    <3>3. \A h, j \in 1 .. 5 : h < j /\ ~CrossesMutationBoundary(CodeRollbackPhases[j])
                                => ~CrossesMutationBoundary(CodeRollbackPhases[h])
      BY DEF CodeRollbackPhases, CrossesMutationBoundary
    <3>4. \A h, j \in 1 .. 3 : h < j /\ ~CrossesMutationBoundary(BackupOnlyPhases[j])
                                => ~CrossesMutationBoundary(BackupOnlyPhases[h])
      BY DEF BackupOnlyPhases, CrossesMutationBoundary
    <3>5. RequiredPhases(kind) \in {StatefulPhases, CodeOnlyPhases, CodeRollbackPhases,
                                    BackupOnlyPhases}
      BY PlanCases
    <3> QED
      BY <1>3, <2>1, <3>1, <3>2, <3>3, <3>4, <3>5, PlanTypes
  <2> QED
    BY <2>1, <2>2, BeforeIndex
<1> QED
  BY <1>2, <1>3

(* What comes after the deploy of a release that may be rolled back.           *)
LEMMA AfterDeploy ==
  ASSUME NEW kind \in Kinds, RecoveryAllowed(kind), NEW f, InPlan(kind, f),
         "deploying" \in PhasesBefore[kind][f]
  PROVE  /\ f \in {"health_checking", "soaking"}
         /\ f = "health_checking" => "soaking" \notin PhasesBefore[kind][f]
<1>1. PICK i \in DOMAIN RequiredPhases(kind) : RequiredPhases(kind)[i] = f
  BY DEF InPlan
<1>2. PICK h \in DOMAIN RequiredPhases(kind) : h < i /\ RequiredPhases(kind)[h] = "deploying"
  BY <1>1, BeforeIndex
<1>3. CASE kind = "code_only"
  <2>1. RequiredPhases(kind) = CodeOnlyPhases /\ DOMAIN CodeOnlyPhases = 1 .. 9
    BY <1>3, PlanCases, PlanTypes
  <2>2. f \in {"health_checking", "soaking"}
    BY <1>1, <1>2, <2>1 DEF CodeOnlyPhases
  <2> QED
    BY <1>3, <2>2, CodeOnlyOrder
<1>4. CASE IsStateful(kind)
  <2>1. RequiredPhases(kind) = StatefulPhases /\ DOMAIN StatefulPhases = 1 .. 13
    BY <1>4, PlanCases, PlanTypes
  <2>2. f \in {"health_checking", "soaking"}
    BY <1>1, <1>2, <2>1 DEF StatefulPhases
  <2> QED
    BY <1>4, <2>2, StatefulOrder
<1> QED
  BY <1>3, <1>4 DEF RecoveryAllowed, IsStateful

--------------------------------------------------------------------------------
(* Frames: what a step leaves alone keeps its part of the invariant.  What      *)
(* blocks an attempt is no part of it.                                         *)
LocalSame(b) ==
  /\ ctl'[b].phase = ctl[b].phase
  /\ ctl'[b].result = ctl[b].result
  /\ ctl'[b].mode = ctl[b].mode
  /\ ctl'[b].from = ctl[b].from
  /\ ctl'[b].projected = ctl[b].projected
  /\ journal'[b] = journal[b]
  /\ takeover'[b] = takeover[b]
  /\ proof'[b] = proof[b]
  /\ rejection'[b] = rejection[b]
  /\ effect'[b] = effect[b]

(* The same for a project.                                                     *)
SiteSame(q) ==
  /\ fence'[q] = fence[q]
  /\ drain'[q] = drain[q]
  /\ boundary'[q] = boundary[q]
  /\ held'[q] = held[q]
  /\ ticket'[q] = ticket[q]
  /\ owner'[Lock(q)] = owner[Lock(q)]

(* An attempt nothing happened to.                                             *)
LEMMA AttemptFrame ==
  ASSUME NEW b \in Attempts, LocalSame(b), AttemptInv(b)
  PROVE  AttemptInv(b)'
<1> USE DEF LocalSame
<1>1. /\ ForwardPhase(b)' = ForwardPhase(b) /\ Before(b)' = Before(b)
      /\ (Running(b)' <=> Running(b)) /\ KeyOf(b)' = KeyOf(b)
      /\ \A k : Committed(b, k)' <=> Committed(b, k)
  BY DEF ForwardPhase, Before, Running, KeyOf, BranchOf, Committed
<1>2. ShownShape(b)' /\ EndedRun(b)'
  BY <1>1 DEF AttemptInv, ShownShape, EndedRun
<1>3. ForwardRun(b)'
  BY <1>1 DEF AttemptInv, ForwardRun
<1>4. SealedRun(b)'
  BY <1>1 DEF AttemptInv, SealedRun
<1>5. RowsExplained(b)'
  BY <1>1 DEF AttemptInv, RowsExplained
<1> QED
  BY <1>2, <1>3, <1>4, <1>5 DEF AttemptInv

(* Its project can change around it as long as what it holds stays its own.    *)
LEMMA LinkFrame ==
  ASSUME NEW b \in Attempts, LocalSame(b), LinkInv(b),
         owner[Lock(ProjectOf[b])] = b => owner'[Lock(ProjectOf[b])] = b,
         ticket[ProjectOf[b]] = b => ticket'[ProjectOf[b]] = b,
         tampers' = 0 => tampers = 0,
         /\ tampers' = 0 /\ Running(b) /\ journal[b]["cutover_snapshotting"] # "none"
         /\ fence[ProjectOf[b]].attempt = b
         /\ fence[ProjectOf[b]].state \in {"held", "release_intent", "released"}
         => /\ fence'[ProjectOf[b]].attempt = b
            /\ fence'[ProjectOf[b]].state \in {"held", "release_intent", "released"}
  PROVE  LinkInv(b)'
<1> USE DEF LocalSame
<1>1. HoldsLock(b)'
  BY DEF LinkInv, HoldsLock, Running
<1>2. HoldsSource(b)'
  BY DEF LinkInv, HoldsSource, Committed
<1>3. HoldsFence(b)'
  BY DEF LinkInv, HoldsFence, Running
<1> QED
  BY <1>1, <1>2, <1>3 DEF LinkInv

(* A call whose attempt nothing happened to, and that keeps what it needs.     *)
LEMMA CallKept ==
  ASSUME NEW q \in Projects, NEW t, CallInv(q, t),
         fence'[q] = fence[q], held'[q] = held[q],
         t.pc \notin {"idle", "recovered"} => LocalSame(t.a),
         tampers > 0 => tampers' > 0,
         t.pc \in {"prove", "effect"} /\ ticket[q] = t.a => ticket'[q] = t.a,
         /\ t.pc \in {"identity", "apply", "admit", "prove", "effect"}
         /\ owner[Lock(q)] = t.a
         => owner'[Lock(q)] = t.a
  PROVE  CallInv(q, t)'
<1>1. CallBound(q, t)'
  BY DEF CallInv, CallBound
<1>2. ObservationDue(q) => ObservationDue(q)'
  BY DEF ObservationDue
<1>3. CASE t.pc \in {"idle", "recovered"}
  <2>1. ~InPhase(t)
    BY <1>3 DEF InPhase, WorkPCs, FencePCs
  <2>2. CallInPhase(q, t)'
    BY <2>1 DEF CallInPhase
  <2>3. CallAdmits(q, t)' /\ CallOwns(q, t)' /\ CallEnds(q, t)'
    BY <1>3 DEF CallAdmits, CallOwns, CallEnds, Untouched, Admitting
  <2>4. CallFences(q, t)'
    BY <1>2, <1>3 DEF CallFences, CallInv
  <2> QED
    BY <1>1, <2>2, <2>3, <2>4 DEF CallInv
<1>4. CASE t.pc \notin {"idle", "recovered"}
  <2>1. /\ (Running(t.a)' <=> Running(t.a)) /\ KeyOf(t.a)' = KeyOf(t.a)
        /\ PhaseOf(t.a)' = PhaseOf(t.a)
        /\ (AdmissionNow(t.a)' <=> AdmissionNow(t.a))
        /\ (NeedsIdentity(t.a)' <=> NeedsIdentity(t.a))
        /\ \A k : Committed(t.a, k)' <=> Committed(t.a, k)
    BY <1>4 DEF LocalSame, Running, KeyOf, BranchOf, Committed, PhaseOf, AdmissionNow,
                NeedsIdentity
  <2>2. CallInPhase(q, t)'
    BY <1>4, <2>1 DEF CallInv, CallInPhase, LocalSame
  <2>3. CallAdmits(q, t)'
    BY <1>4, <2>1 DEF CallInv, CallAdmits, LocalSame
  <2>4. CallOwns(q, t)'
    BY <1>4, <2>1 DEF CallInv, CallOwns
  <2>5. CallEnds(q, t)'
    BY <1>4, <2>1 DEF CallInv, CallEnds, LocalSame
  <2>6. CallFences(q, t)'
    BY <1>2, <1>4, <2>1 DEF CallInv, CallFences, ActiveFence
  <2> QED
    BY <1>1, <2>2, <2>3, <2>4, <2>5, <2>6 DEF CallInv
<1> QED
  BY <1>3, <1>4

(* A call whose attempt and project nothing happened to.                       *)
LEMMA CallFrame ==
  ASSUME NEW q \in Projects, NEW t, CallInv(q, t), SiteSame(q),
         t.pc \notin {"idle", "recovered"} => LocalSame(t.a),
         tampers > 0 => tampers' > 0
  PROVE  CallInv(q, t)'
BY CallKept DEF SiteSame

(* A project none of whose identities moved, and whose attempts go on.         *)
LEMMA ProjectFrame ==
  ASSUME FenceInv, NEW q \in Projects, ProjectInv(q), SiteSame(q),
         \A b \in Attempts : ProjectOf[b] = q => LocalSame(b)
  PROVE  ProjectInv(q)'
<1>1. fence[q].state \in {"acquire_intent", "held", "release_intent"} =>
        fence[q].attempt \in Attempts /\ ProjectOf[fence[q].attempt] = q
  BY DEF FenceInv, FenceAfterBackup
<1>2. DrainOwned(q)'
  BY DEF ProjectInv, DrainOwned, SiteSame, LocalSame, Reserved, Running, Committed
<1>3. FenceOwned(q)'
  BY <1>1 DEF ProjectInv, FenceOwned, SiteSame, LocalSame, Running
<1>4. BoundaryBound(q)'
  BY DEF ProjectInv, BoundaryBound, SiteSame, Reserved
<1> QED
  BY <1>2, <1>3, <1>4 DEF ProjectInv

--------------------------------------------------------------------------------
(* What one step has to show: it follows the fence protocol, keeps the types,  *)
(* and keeps the four parts of the invariant.                                  *)
HostTypes ==
  /\ ControllerTypeOK
  /\ thr \in [Projects -> Threads]
  /\ recovered \subseteq Projects
  /\ owner \in [Resources -> Attempts \cup {NoAttempt}]
  /\ effect \in [Attempts -> [Keys -> Effects]]
  /\ ticket \in [Projects -> Attempts \cup {NoAttempt}]
  /\ faults \in Nat

Parts ==
  /\ \A a \in Attempts : AttemptInv(a) /\ LinkInv(a)
  /\ \A p \in Projects : ProjectInv(p) /\ CallInv(p, thr[p])

Safe == [Next]_vars /\ HostTypes' /\ Parts'

(* The invariant taken apart.                                                  *)
LEMMA InvParts ==
  ASSUME ExecInv
  PROVE  HostTypes /\ Parts /\ FenceInv /\ JournalMatchesApplication
BY DEF ExecInv, ExecTypeOK, HostTypes, Parts

(* A step that is safe keeps the invariant.                                    *)
LEMMA SafeKeepsInv ==
  ASSUME ExecInv, Safe
  PROVE  ExecInv'
<1>1. FenceInv' /\ JournalMatchesApplication'
  BY InvParts, FenceStepSafe, AgreementKept DEF Safe
<1>2. TypeOK'
  BY <1>1 DEF FenceInv
<1> QED
  BY <1>1, <1>2 DEF Safe, ExecInv, ExecTypeOK, HostTypes, Parts

(* Locks are resources, each project's its own.                                *)
LEMMA Locks ==
  /\ \A p \in Projects : Lock(p) \in Resources /\ Disk(p) \in Resources
  /\ \A p, q \in Projects : Lock(p) = Lock(q) => p = q
  /\ \A p, q \in Projects : Lock(p) # Disk(q)
  /\ \A p \in Projects : Lock(p) \notin {Build, HeavyIo, Registry}
BY DEF Lock, Disk, Resources, Build, HeavyIo, Registry

(* How the steps of a call move it.                                            *)
LEMMA CallMoves ==
  ASSUME HostTypes, NEW p \in Projects
  PROVE  /\ \A pc \in PCs : Goto(p, pc) =>
              /\ thr' \in [Projects -> Threads]
              /\ thr'[p].pc = pc /\ thr'[p].a = thr[p].a /\ thr'[p].why = thr[p].why
              /\ \A q \in Projects : q # p => thr'[q] = thr[q]
         /\ \A pc \in PCs, why \in Whys : GoWhy(p, pc, why) =>
              /\ thr' \in [Projects -> Threads]
              /\ thr'[p].pc = pc /\ thr'[p].a = thr[p].a /\ thr'[p].why = why
              /\ \A q \in Projects : q # p => thr'[q] = thr[q]
         /\ \A pc \in PCs, why \in Whys, a \in Holders \cup {NoAttempt} :
              Enter(p, a, pc, why) =>
                /\ thr' \in [Projects -> Threads]
                /\ thr'[p].pc = pc /\ thr'[p].a = a /\ thr'[p].why = why
                /\ \A q \in Projects : q # p => thr'[q] = thr[q]
         /\ Return(p) =>
              /\ thr' \in [Projects -> Threads]
              /\ thr'[p] = Idle
              /\ \A q \in Projects : q # p => thr'[q] = thr[q]
<1>1. thr \in [Projects -> Threads] /\ thr[p] \in Threads
  BY DEF HostTypes
<1>2. \A pc \in PCs : [thr[p] EXCEPT !.pc = pc] \in Threads
  BY <1>1 DEF Threads
<1>3. \A pc \in PCs, why \in Whys : [thr[p] EXCEPT !.pc = pc, !.why = why] \in Threads
  BY <1>1 DEF Threads
<1>4. \A pc \in PCs, why \in Whys, a \in Holders \cup {NoAttempt} :
        [pc |-> pc, a |-> a, why |-> why] \in Threads
  BY DEF Threads
<1>5. Idle \in Threads
  BY DEF Idle, Threads, PCs, Whys
<1>6. ASSUME NEW pc \in PCs, Goto(p, pc)
      PROVE  /\ thr' \in [Projects -> Threads]
             /\ thr'[p].pc = pc /\ thr'[p].a = thr[p].a /\ thr'[p].why = thr[p].why
             /\ \A q \in Projects : q # p => thr'[q] = thr[q]
  BY <1>1, <1>2, <1>6 DEF Goto, Threads
<1>7. ASSUME NEW pc \in PCs, NEW why \in Whys, GoWhy(p, pc, why)
      PROVE  /\ thr' \in [Projects -> Threads]
             /\ thr'[p].pc = pc /\ thr'[p].a = thr[p].a /\ thr'[p].why = why
             /\ \A q \in Projects : q # p => thr'[q] = thr[q]
  BY <1>1, <1>3, <1>7 DEF GoWhy, Threads
<1>8. ASSUME NEW pc \in PCs, NEW why \in Whys, NEW a \in Holders \cup {NoAttempt},
             Enter(p, a, pc, why)
      PROVE  /\ thr' \in [Projects -> Threads]
             /\ thr'[p].pc = pc /\ thr'[p].a = a /\ thr'[p].why = why
             /\ \A q \in Projects : q # p => thr'[q] = thr[q]
  BY <1>1, <1>4, <1>8 DEF Enter
<1>9. Return(p) => /\ thr' \in [Projects -> Threads]
                   /\ thr'[p] = Idle
                   /\ \A q \in Projects : q # p => thr'[q] = thr[q]
  BY <1>1, <1>5 DEF Return
<1> QED
  BY <1>6, <1>7, <1>8, <1>9

(* A call that returned satisfies its part of the invariant.                   *)
LEMMA IdleCall ==
  ASSUME NEW p \in Projects
  PROVE  CallInv(p, Idle) /\ CallInv(p, Idle)'
<1>1. Idle.pc = "idle" /\ Idle.why = "none"
  BY DEF Idle
<1>2. ~InPhase(Idle)
  BY <1>1 DEF InPhase, WorkPCs, FencePCs
<1>3. CallBound(p, Idle) /\ CallInPhase(p, Idle) /\ CallBound(p, Idle)' /\ CallInPhase(p, Idle)'
  BY <1>1, <1>2 DEF CallBound, CallInPhase
<1>4. CallAdmits(p, Idle) /\ CallAdmits(p, Idle)' /\ CallOwns(p, Idle) /\ CallOwns(p, Idle)'
  BY <1>1 DEF CallAdmits, CallOwns, Untouched, Admitting
<1>5. CallFences(p, Idle) /\ CallFences(p, Idle)' /\ CallEnds(p, Idle) /\ CallEnds(p, Idle)'
  BY <1>1 DEF CallFences, CallEnds
<1> QED
  BY <1>3, <1>4, <1>5 DEF CallInv

(* The row a call expects at each of its steps.                                *)
LEMMA RowAtStep ==
  /\ \A pc \in {"disk", "acquire", "identity", "apply", "observe"} :
       RowAt(pc) = {"intent", "observed", "verified"}
  /\ \A pc \in {"admit", "prove", "unadmit", "effect", "unapply", "suspend",
                "source_settle"} : RowAt(pc) = {"intent"}
  /\ \A pc \in {"compensate", "untake", "compensated", "unprove", "uncompensate"} :
       RowAt(pc) = {"needs_reconcile"}
  /\ RowAt("verify") = {"observed", "verified"}
  /\ RowAt("commit") = {"verified"}
  /\ \A pc \in {"complete", "tidy", "soaked", "project", "unset_begin", "unset",
                "unset_seen"} : RowAt(pc) = {"committed"}
  /\ \A pc \in {"intent", "to_reconcile", "refresh", "unblock", "fence_begin",
                "fence_set", "fence_seen"} : RowAt(pc) = Statuses
BY DEF RowAt

(* The call inside p's gate moves and its project may change around the other  *)
(* attempts, as long as what these hold stays theirs.                          *)
LEMMA GateFrame ==
  ASSUME ExecInv, NEW p \in Projects, NEW a \in Attempts, ProjectOf[a] = p,
         \A b \in Attempts : b # a => LocalSame(b),
         \A q \in Projects : q # p => thr'[q] = thr[q] /\ SiteSame(q),
         tampers' = tampers,
         \A b \in Attempts : b # a /\ owner[Lock(p)] = b => owner'[Lock(p)] = b,
         \A b \in Attempts : b # a /\ ticket[p] = b => ticket'[p] = b,
         \A b \in Attempts :
           /\ b # a /\ ProjectOf[b] = p /\ tampers = 0 /\ Running(b)
           /\ journal[b]["cutover_snapshotting"] # "none"
           /\ fence[p].attempt = b
           /\ fence[p].state \in {"held", "release_intent", "released"}
           => /\ fence'[p].attempt = b
              /\ fence'[p].state \in {"held", "release_intent", "released"},
         AttemptInv(a)', LinkInv(a)', ProjectInv(p)', CallInv(p, thr[p])'
  PROVE  Parts'
<1>1. HostTypes /\ Parts /\ FenceInv
  BY InvParts
<1>2. ASSUME NEW b \in Attempts, b # a PROVE AttemptInv(b)' /\ LinkInv(b)'
  <2>1. AttemptInv(b) /\ LinkInv(b) /\ LocalSame(b) /\ ProjectOf[b] \in Projects
    BY <1>1, <1>2, AttemptAssumption DEF Parts
  <2>2. AttemptInv(b)'
    BY <2>1, AttemptFrame
  <2>3. CASE ProjectOf[b] = p
    <3>1. /\ owner[Lock(ProjectOf[b])] = b => owner'[Lock(ProjectOf[b])] = b
          /\ ticket[ProjectOf[b]] = b => ticket'[ProjectOf[b]] = b
          /\ tampers' = 0 => tampers = 0
      BY <1>2, <2>3
    <3>2. /\ tampers' = 0 /\ Running(b) /\ journal[b]["cutover_snapshotting"] # "none"
          /\ fence[ProjectOf[b]].attempt = b
          /\ fence[ProjectOf[b]].state \in {"held", "release_intent", "released"}
          => /\ fence'[ProjectOf[b]].attempt = b
             /\ fence'[ProjectOf[b]].state \in {"held", "release_intent", "released"}
      BY <1>2, <2>3
    <3> QED
      BY <2>1, <3>1, <3>2, <2>2, LinkFrame
  <2>4. CASE ProjectOf[b] # p
    <3>1. SiteSame(ProjectOf[b])
      BY <2>1, <2>4
    <3>2. LinkInv(b)'
      BY <2>1, <3>1, LinkFrame DEF SiteSame
    <3> QED
      BY <2>2, <3>2
  <2> QED
    BY <2>2, <2>3, <2>4
<1>3. ASSUME NEW q \in Projects, q # p PROVE ProjectInv(q)' /\ CallInv(q, thr[q])'
  <2>1. ProjectInv(q) /\ CallInv(q, thr[q]) /\ SiteSame(q) /\ thr'[q] = thr[q]
    BY <1>1, <1>3 DEF Parts
  <2>2. ProjectInv(q)'
    BY <1>1, <1>3, <2>1, ProjectFrame
  <2>3. thr[q].pc \notin {"idle", "recovered"} => LocalSame(thr[q].a)
    BY <1>3, <2>1 DEF CallInv, CallBound
  <2>4. ASSUME NEW t, t = thr[q] PROVE CallInv(q, t)'
    BY <2>1, <2>3, <2>4, CallFrame
  <2> QED
    BY <2>1, <2>2, <2>4
<1> QED
  BY <1>2, <1>3 DEF Parts

(* Only the call moves.                                                        *)
LEMMA QuietStep ==
  ASSUME ExecInv, NEW p \in Projects, UNCHANGED <<vars, ctl, owner, effect, ticket>>,
         thr' \in [Projects -> Threads], recovered' \subseteq Projects, faults' \in Nat,
         \A q \in Projects : q # p => thr'[q] = thr[q],
         NEW t, t = thr'[p], CallInv(p, t)
  PROVE  Safe
<1>1. HostTypes /\ Parts /\ FenceInv
  BY InvParts
<1>2. HostTypes'
  BY <1>1 DEF HostTypes, ControllerTypeOK
<1>3. /\ \A b \in Attempts : LocalSame(b)
      /\ \A q \in Projects : SiteSame(q)
      /\ tampers' = tampers
  BY DEF LocalSame, SiteSame, vars, journalVars, fenceVars
<1>4. \A b \in Attempts : AttemptInv(b)' /\ LinkInv(b)'
  <2> SUFFICES ASSUME NEW b \in Attempts PROVE AttemptInv(b)' /\ LinkInv(b)'
    OBVIOUS
  <2>1. AttemptInv(b) /\ LinkInv(b) /\ LocalSame(b) /\ SiteSame(ProjectOf[b])
    BY <1>1, <1>3, AttemptAssumption DEF Parts
  <2> QED
    BY <1>3, <2>1, AttemptFrame, LinkFrame DEF SiteSame
<1>5. \A q \in Projects : ProjectInv(q)'
  BY <1>1, <1>3, ProjectFrame DEF Parts
<1>6. ASSUME NEW q \in Projects, NEW u, CallInv(q, u) PROVE CallInv(q, u)'
  <2>1. u.pc \notin {"idle", "recovered"} => LocalSame(u.a)
    BY <1>3, <1>6 DEF CallInv, CallBound
  <2> QED
    BY <1>3, <1>6, <2>1, CallFrame
<1>7. ASSUME NEW q \in Projects PROVE CallInv(q, thr[q])'
  <2>1. \E u : u = thr'[q] /\ CallInv(q, u)
    BY <1>1, <1>7 DEF Parts
  <2>2. PICK u : u = thr'[q] /\ CallInv(q, u)
    BY <2>1
  <2>3. CallInv(q, u)'
    BY <1>6, <2>2
  <2> QED
    BY <2>2, <2>3
<1>8. Parts'
  BY <1>4, <1>5, <1>7 DEF Parts
<1> QED
  BY <1>2, <1>8 DEF Safe

(* A call that returns and changes nothing else.                               *)
LEMMA QuietReturn ==
  ASSUME ExecInv, NEW p \in Projects, UNCHANGED <<vars, ctl, owner, effect, ticket>>,
         Return(p), recovered' \subseteq Projects, faults' \in Nat
  PROVE  Safe
<1>1. /\ thr' \in [Projects -> Threads]
      /\ thr'[p] = Idle
      /\ \A q \in Projects : q # p => thr'[q] = thr[q]
  BY InvParts, CallMoves
<1> QED
  BY <1>1, IdleCall, QuietStep

(* A call that goes on and changes nothing else.                               *)
LEMMA QuietMove ==
  ASSUME ExecInv, NEW p \in Projects, UNCHANGED <<vars, ctl, owner, effect, ticket>>,
         recovered' \subseteq Projects, faults' \in Nat,
         thr' \in [Projects -> Threads],
         \A q \in Projects : q # p => thr'[q] = thr[q],
         NEW pc, NEW a, NEW why, thr'[p].pc = pc, thr'[p].a = a, thr'[p].why = why,
         \A t : t.pc = pc /\ t.a = a /\ t.why = why => CallInv(p, t)
  PROVE  Safe
<1>1. CallInv(p, [pc |-> pc, a |-> a, why |-> why])
  OBVIOUS
<1>2. thr'[p] = [pc |-> pc, a |-> a, why |-> why]
  BY DEF Threads
<1> QED
  BY <1>1, <1>2, QuietStep

(* The fault counter keeps its type.                                           *)
LEMMA FaultType ==
  ASSUME HostTypes, Fault \/ UNCHANGED faults
  PROVE  faults' \in Nat
BY DEF HostTypes, Fault

(* Entering the gate, for a phase, a reconciliation or what is left to clean.  *)
LEMMA AdvanceOnceSafe ==
  ASSUME ExecInv, NEW p \in Projects, NEW a \in Attempts, AdvanceOnce(p, a)
  PROVE  Safe
<1>1. HostTypes /\ AttemptInv(a) /\ FenceInv
  BY InvParts DEF Parts
<1>2. /\ ProjectOf[a] = p /\ a \in Holders
      /\ UNCHANGED <<vars, ctl, owner, effect, ticket>>
      /\ recovered' \subseteq Projects /\ faults' \in Nat
  BY <1>1 DEF AdvanceOnce, HostTypes, Holders
<1>3. "none" \in Whys /\ \A pc \in {"cleanup", "reconcile", "refresh", "intent"} : pc \in PCs
  BY DEF Whys, PCs
<1>4. ASSUME NEW pc \in {"cleanup", "reconcile", "refresh", "intent"}, Enter(p, a, pc, "none"),
             \A t : t.pc = pc /\ t.a = a /\ t.why = "none" => CallInv(p, t)
      PROVE  Safe
  <2>1. /\ thr' \in [Projects -> Threads]
        /\ thr'[p].pc = pc /\ thr'[p].a = a /\ thr'[p].why = "none"
        /\ \A q \in Projects : q # p => thr'[q] = thr[q]
    BY <1>1, <1>2, <1>3, <1>4, CallMoves
  <2> QED
    BY <1>2, <1>4, <2>1, QuietMove
<1>5. CASE ~Running(a) /\ Enter(p, a, "cleanup", "none")
  <2>1. \A t : t.pc = "cleanup" /\ t.a = a /\ t.why = "none" => CallInv(p, t)
    BY <1>2, <1>5 DEF CallInv, CallBound, CallInPhase, InPhase, WorkPCs, FencePCs,
       CallAdmits, CallOwns, CallFences, CallEnds, Untouched, Admitting
  <2> QED
    BY <1>4, <1>5, <2>1
<1>6. CASE PhaseOf(a) = "reconciliation" /\ Enter(p, a, "reconcile", "none")
  <2>1. ctl[a].mode = "reconciliation"
    BY <1>1, <1>6 DEF AttemptInv, ShownShape, PhaseOf, HostTypes, ControllerTypeOK, Modes, Phases
  <2>2. \A t : t.pc = "reconcile" /\ t.a = a /\ t.why = "none" => CallInv(p, t)
    BY <1>2, <2>1 DEF CallInv, CallBound, CallInPhase, InPhase, WorkPCs, FencePCs,
       CallAdmits, CallOwns, CallFences, CallEnds, Untouched, Admitting
  <2> QED
    BY <1>4, <1>6, <2>2
<1>7. CASE /\ Running(a) /\ PhaseOf(a) # "reconciliation"
           /\ Enter(p, a, IF PhaseOf(a) = "cutover_snapshotting" THEN "refresh"
                          ELSE "intent", "none")
  <2>1. ctl[a].mode # "reconciliation"
    BY <1>1, <1>7 DEF AttemptInv, ShownShape, PhaseOf
  <2>2. KeyOf(a) \in Keys /\ journal[a][KeyOf(a)] \in Statuses
    BY <1>1, <2>1 DEF AttemptInv, ShownShape, KeyOf, BranchOf, StorageKey, HostTypes,
       ControllerTypeOK, Modes, Keys, RecoveryKeys, FenceInv, JournalInv, JournalTypeOK
  <2>3. CASE PhaseOf(a) = "cutover_snapshotting"
    <3>1. takeover[a] = "none"
      BY <1>1, <2>1, <2>3 DEF AttemptInv, SealedRun, ShownShape, PhaseOf, HostTypes,
         ControllerTypeOK, Modes
    <3>2. \A t : t.pc = "refresh" /\ t.a = a /\ t.why = "none" => CallInv(p, t)
      BY <1>2, <1>7, <2>1, <2>2, <2>3, <3>1, RowAtStep
         DEF CallInv, CallBound, CallInPhase, InPhase, WorkPCs, FencePCs,
         CallAdmits, CallOwns, CallFences, CallEnds, Untouched, Admitting
    <3> QED
      BY <1>4, <1>7, <2>3, <3>2
  <2>4. CASE PhaseOf(a) # "cutover_snapshotting"
    <3>1. \A t : t.pc = "intent" /\ t.a = a /\ t.why = "none" => CallInv(p, t)
      BY <1>2, <1>7, <2>1, <2>2, <2>4, RowAtStep
         DEF CallInv, CallBound, CallInPhase, InPhase, WorkPCs, FencePCs,
         CallAdmits, CallOwns, CallFences, CallEnds, Untouched, Admitting
    <3> QED
      BY <1>4, <1>7, <2>4, <3>1
  <2> QED
    BY <2>3, <2>4
<1> QED
  BY <1>5, <1>6, <1>7 DEF AdvanceOnce

(* The same for a call that steps on with its attempt, and for one that enters. *)
LEMMA QuietGoto ==
  ASSUME ExecInv, NEW p \in Projects, UNCHANGED <<vars, ctl, recovered, owner, effect, ticket>>,
         Fault \/ UNCHANGED faults, NEW pc \in PCs, Goto(p, pc),
         \A t : t.pc = pc /\ t.a = thr[p].a /\ t.why = thr[p].why => CallInv(p, t)
  PROVE  Safe
<1>1. HostTypes /\ faults' \in Nat /\ recovered' \subseteq Projects
  BY InvParts, FaultType DEF HostTypes
<1>2. /\ thr' \in [Projects -> Threads]
      /\ thr'[p].pc = pc /\ thr'[p].a = thr[p].a /\ thr'[p].why = thr[p].why
      /\ \A q \in Projects : q # p => thr'[q] = thr[q]
  BY <1>1, CallMoves
<1> QED
  BY <1>1, <1>2, QuietMove

(* A call that enters the gate.                                                *)
LEMMA QuietEnter ==
  ASSUME ExecInv, NEW p \in Projects, UNCHANGED <<vars, ctl, owner, effect, ticket, faults>>,
         recovered' \subseteq Projects, NEW pc \in PCs, NEW a \in Holders \cup {NoAttempt},
         NEW why \in Whys, Enter(p, a, pc, why),
         \A t : t.pc = pc /\ t.a = a /\ t.why = why => CallInv(p, t)
  PROVE  Safe
<1>1. HostTypes /\ faults' \in Nat
  BY InvParts DEF HostTypes
<1>2. /\ thr' \in [Projects -> Threads]
      /\ thr'[p].pc = pc /\ thr'[p].a = a /\ thr'[p].why = why
      /\ \A q \in Projects : q # p => thr'[q] = thr[q]
  BY <1>1, CallMoves
<1> QED
  BY <1>1, <1>2, QuietMove

(* The call's own facts, and those of its attempt.                             *)
LEMMA CallFacts ==
  ASSUME ExecInv, NEW p \in Projects, thr[p].pc \notin {"idle", "recovered"}
  PROVE  /\ HostTypes /\ FenceInv /\ JournalMatchesApplication
         /\ CallInv(p, thr[p]) /\ ProjectInv(p)
         /\ thr[p].a \in Attempts /\ ProjectOf[thr[p].a] = p
         /\ KindOf[thr[p].a] \in Kinds
         /\ AttemptInv(thr[p].a) /\ LinkInv(thr[p].a)
<1>1. HostTypes /\ Parts /\ FenceInv /\ JournalMatchesApplication
  BY InvParts
<1>2. CallInv(p, thr[p]) /\ ProjectInv(p)
  BY <1>1 DEF Parts
<1>3. thr[p].a \in Attempts /\ ProjectOf[thr[p].a] = p
  BY <1>2 DEF CallInv, CallBound
<1> QED
  BY <1>1, <1>2, <1>3, AttemptAssumption DEF Parts

(* An operator asks for a rollback.                                            *)
LEMMA RequestRollbackSafe ==
  ASSUME ExecInv, NEW p \in Projects, NEW a \in Attempts, RequestRollback(p, a)
  PROVE  Safe
<1>1. HostTypes /\ AttemptInv(a)
  BY InvParts DEF Parts
<1>2. /\ ProjectOf[a] = p /\ a \in Holders \cup {NoAttempt}
      /\ UNCHANGED <<vars, ctl, owner, effect, ticket, faults>>
      /\ recovered' \subseteq Projects
      /\ "rollback" \in Whys /\ "reconcile" \in PCs /\ "takeover" \in PCs
  BY <1>1 DEF RequestRollback, HostTypes, Holders, Whys, PCs
<1>3. CASE PhaseOf(a) = "reconciliation"
  <2>1. Enter(p, a, "reconcile", "rollback")
    BY <1>3 DEF RequestRollback
  <2>2. ctl[a].mode = "reconciliation"
    BY <1>1, <1>3 DEF AttemptInv, ShownShape, PhaseOf, HostTypes, ControllerTypeOK, Modes, Phases
  <2>3. \A t : t.pc = "reconcile" /\ t.a = a /\ t.why = "rollback" => CallInv(p, t)
    BY <1>2, <2>2 DEF CallInv, CallBound, CallInPhase, InPhase, WorkPCs, FencePCs,
       CallAdmits, CallOwns, CallFences, CallEnds, Untouched, Admitting
  <2> QED
    BY <1>2, <2>1, <2>3, QuietEnter
<1>4. CASE PhaseOf(a) # "reconciliation"
  <2>1. Enter(p, a, "takeover", "rollback")
    BY <1>4 DEF RequestRollback
  <2>2. \A t : t.pc = "takeover" /\ t.a = a /\ t.why = "rollback" => CallInv(p, t)
    BY <1>2 DEF CallInv, CallBound, CallInPhase, InPhase, WorkPCs, FencePCs,
       CallAdmits, CallOwns, CallFences, CallEnds, Untouched, Admitting
  <2> QED
    BY <1>2, <2>1, <2>2, QuietEnter
<1> QED
  BY <1>3, <1>4

(* A rejected proof is looked at before anything is given back.                *)
LEMMA CompensateRejectedSafe ==
  ASSUME ExecInv, NEW p \in Projects, CompensateRejected(p)
  PROVE  Safe
<1> DEFINE a == thr[p].a
<1>1. thr[p].pc = "compensate"
  BY DEF CompensateRejected, At
<1>2. /\ HostTypes /\ CallInv(p, thr[p])
      /\ a \in Attempts /\ ProjectOf[a] = p
  BY <1>1, CallFacts
<1>3. /\ UNCHANGED <<vars, ctl, recovered, owner, effect, ticket>>
      /\ Fault \/ UNCHANGED faults
      /\ "untake" \in PCs /\ "to_reconcile" \in PCs
  BY DEF CompensateRejected, PCs
<1>4. /\ ctl[a].mode # "reconciliation"
      /\ Running(a) \/ ~CrossesMutationBoundary(PhaseOf(a))
      /\ ctl[a].mode = "none" => takeover[a] = "none"
      /\ journal[a][KeyOf(a)] = "needs_reconcile"
      /\ thr[p].why \notin {"recover", "sweep"}
  BY <1>1, <1>2, RowAtStep DEF CallInv, CallBound, CallInPhase, InPhase, WorkPCs, FencePCs
<1>5. CASE Goto(p, "to_reconcile")
  <2>1. \A t : t.pc = "to_reconcile" /\ t.a = a /\ t.why = thr[p].why => CallInv(p, t)
    BY <1>2, <1>4, RowAtStep DEF CallInv, CallBound, CallInPhase, InPhase, WorkPCs, FencePCs,
       CallAdmits, CallOwns, CallFences, CallEnds, Untouched, Admitting, Statuses, Committed
  <2> QED
    BY <1>3, <1>5, <2>1, QuietGoto
<1>6. CASE /\ rejection[a] = "abort_pending" /\ effect[a][KeyOf(a)] = "absent"
           /\ Goto(p, "untake")
  <2>1. \A t : t.pc = "untake" /\ t.a = a /\ t.why = thr[p].why => CallInv(p, t)
    BY <1>2, <1>4, <1>6, RowAtStep DEF CallInv, CallBound, CallInPhase, InPhase, WorkPCs,
       FencePCs, CallAdmits, CallOwns, CallFences, CallEnds, Untouched, Admitting
  <2> QED
    BY <1>3, <1>6, <2>1, QuietGoto
<1> QED
  BY <1>5, <1>6 DEF CompensateRejected

(* After a soak: the fence of the attempt is released before the projection.   *)
LEMMA AfterSoakSafe ==
  ASSUME ExecInv, NEW p \in Projects, AfterSoak(p)
  PROVE  Safe
<1> DEFINE a == thr[p].a
<1>1. thr[p].pc = "soaked"
  BY DEF AfterSoak, At
<1>2. /\ HostTypes /\ CallInv(p, thr[p])
      /\ a \in Attempts /\ ProjectOf[a] = p
  BY <1>1, CallFacts
<1>3. /\ UNCHANGED <<vars, ctl, recovered, owner, effect, ticket, faults>>
      /\ "project" \in PCs /\ "unset_begin" \in PCs
      /\ faults' \in Nat /\ recovered' \subseteq Projects
  BY <1>2 DEF AfterSoak, PCs, HostTypes
<1>4. /\ ctl[a].mode # "reconciliation"
      /\ Running(a) \/ ~CrossesMutationBoundary(PhaseOf(a))
      /\ ctl[a].mode = "none" => takeover[a] = "none"
      /\ journal[a][KeyOf(a)] = "committed"
      /\ PhaseOf(a) = "soaking"
      /\ thr[p].why \notin {"recover", "sweep"}
  BY <1>1, <1>2, RowAtStep DEF CallInv, CallBound, CallInPhase, InPhase, WorkPCs, FencePCs
<1>5. CASE ~ActiveFence(p) /\ Goto(p, "project")
  <2>1. \A t : t.pc = "project" /\ t.a = a /\ t.why = thr[p].why => CallInv(p, t)
    BY <1>2, <1>4, <1>5, RowAtStep DEF CallInv, CallBound, CallInPhase, InPhase, WorkPCs,
       FencePCs, CallAdmits, CallOwns, CallFences, CallEnds, Untouched, Admitting
  <2> QED
    BY <1>3, <1>5, <2>1, QuietGoto
<1>6. CASE Goto(p, "unset_begin")
  <2>1. \A t : t.pc = "unset_begin" /\ t.a = a /\ t.why = thr[p].why => CallInv(p, t)
    BY <1>2, <1>4, RowAtStep DEF CallInv, CallBound, CallInPhase, InPhase, WorkPCs,
       FencePCs, CallAdmits, CallOwns, CallFences, CallEnds, Untouched, Admitting
  <2> QED
    BY <1>3, <1>6, <2>1, QuietGoto
<1>7. CASE Return(p)
  BY <1>3, <1>7, QuietReturn
<1> QED
  BY <1>5, <1>6, <1>7 DEF AfterSoak

(* Recovery and the sweep start from the fence row.                            *)
LEMMA RecoverSafe ==
  ASSUME ExecInv, NEW p \in Projects, Recover(p)
  PROVE  Safe
<1> DEFINE f == fence[p]
<1>1. HostTypes /\ FenceInv
  BY InvParts
<1>2. f \in FenceRow /\ f.attempt \in Holders \cup {NoAttempt}
  BY <1>1 DEF FenceInv, TypeOK, FenceRow
<1>3. /\ UNCHANGED <<vars, ctl, owner, effect, ticket, faults>>
      /\ recovered' \subseteq Projects
      /\ f.state # "needs_reconcile"
  BY <1>1 DEF Recover, HostTypes
<1>4. PICK why \in {"recover", "sweep"} : Enter(p, f.attempt, RecoveryEntry(p), why)
  BY DEF Recover
<1>5. why \in Whys
  BY <1>4 DEF Whys
<1>6. CASE f.state \in {"acquire_intent", "held"}
  <2>1. RecoveryEntry(p) = "fence_begin" /\ "fence_begin" \in PCs
    BY <1>6 DEF RecoveryEntry, PCs
  <2>2. f.attempt \in Attempts /\ ProjectOf[f.attempt] = p
    BY <1>1, <1>6 DEF FenceInv, FenceAfterBackup
  <2>3. \A t : t.pc = "fence_begin" /\ t.a = f.attempt /\ t.why = why => CallInv(p, t)
    BY <1>6, <2>2 DEF CallInv, CallBound, CallInPhase, InPhase, WorkPCs, FencePCs,
       CallAdmits, CallOwns, CallFences, CallEnds, Untouched, Admitting
  <2> QED
    BY <1>2, <1>3, <1>4, <1>5, <2>1, <2>3, QuietEnter
<1>7. CASE f.state = "release_intent"
  <2>1. RecoveryEntry(p) = "unset_begin" /\ "unset_begin" \in PCs
    BY <1>7 DEF RecoveryEntry, PCs
  <2>2. f.attempt \in Attempts /\ ProjectOf[f.attempt] = p
    BY <1>1, <1>7 DEF FenceInv, FenceAfterBackup
  <2>3. \A t : t.pc = "unset_begin" /\ t.a = f.attempt /\ t.why = why => CallInv(p, t)
    BY <1>7, <2>2 DEF CallInv, CallBound, CallInPhase, InPhase, WorkPCs, FencePCs,
       CallAdmits, CallOwns, CallFences, CallEnds, Untouched, Admitting
  <2> QED
    BY <1>2, <1>3, <1>4, <1>5, <2>1, <2>3, QuietEnter
<1>8. CASE f.state \notin {"acquire_intent", "held", "release_intent"}
  <2>1. RecoveryEntry(p) = "recovered" /\ "recovered" \in PCs
    BY <1>8 DEF RecoveryEntry, PCs
  <2>2. ObservationDue(p)
    BY <1>8 DEF ObservationDue
  <2>3. \A t : t.pc = "recovered" /\ t.a = f.attempt /\ t.why = why => CallInv(p, t)
    BY <2>2 DEF CallInv, CallBound, CallInPhase, InPhase, WorkPCs, FencePCs,
       CallAdmits, CallOwns, CallFences, CallEnds, Untouched, Admitting
  <2> QED
    BY <1>2, <1>3, <1>4, <1>5, <2>1, <2>3, QuietEnter
<1> QED
  BY <1>6, <1>7, <1>8

(* A transaction that fails ends the call with nothing written.                *)
LEMMA StoreFailsSafe ==
  ASSUME ExecInv, NEW p \in Projects, StoreFails(p)
  PROVE  Safe
<1>1. HostTypes
  BY InvParts
<1>2. faults' \in Nat /\ recovered' \subseteq Projects
  BY <1>1, FaultType DEF StoreFails, HostTypes
<1> QED
  BY <1>2, QuietReturn DEF StoreFails

(* A crash forgets every call and keeps what was written.                      *)
LEMMA CrashSafe ==
  ASSUME ExecInv, Crash
  PROVE  Safe
<1>1. HostTypes /\ Parts /\ FenceInv
  BY InvParts
<1>2. UNCHANGED <<vars, ctl, owner, effect, ticket>> /\ \A q \in Projects : thr'[q] = Idle
  BY DEF Crash
<1>3. HostTypes'
  <2>1. Idle \in Threads
    BY DEF Idle, Threads, PCs, Whys
  <2> QED
    BY <1>1, <2>1, FaultType DEF HostTypes, ControllerTypeOK, Crash
<1>4. /\ \A b \in Attempts : LocalSame(b)
      /\ \A q \in Projects : SiteSame(q)
      /\ tampers' = tampers
  BY <1>2 DEF LocalSame, SiteSame, vars, journalVars, fenceVars
<1>5. \A b \in Attempts : AttemptInv(b)' /\ LinkInv(b)'
  <2> SUFFICES ASSUME NEW b \in Attempts PROVE AttemptInv(b)' /\ LinkInv(b)'
    OBVIOUS
  <2>1. AttemptInv(b) /\ LinkInv(b) /\ LocalSame(b) /\ SiteSame(ProjectOf[b])
    BY <1>1, <1>4, AttemptAssumption DEF Parts
  <2> QED
    BY <1>4, <2>1, AttemptFrame, LinkFrame DEF SiteSame
<1>6. \A q \in Projects : ProjectInv(q)'
  BY <1>1, <1>4, ProjectFrame DEF Parts
<1>7. \A q \in Projects : CallInv(q, thr[q])'
  BY <1>2, IdleCall
<1> QED
  BY <1>2, <1>3, <1>5, <1>6, <1>7 DEF Safe, Parts

--------------------------------------------------------------------------------
(* Steps that give or take a ticket, a resource or a block.                    *)

(* A call stays what it is or goes on, as a record.                            *)
LEMMA CallRecord ==
  ASSUME NEW p \in Projects, thr' \in [Projects -> Threads],
         NEW pc, NEW a, NEW why, thr'[p].pc = pc, thr'[p].a = a, thr'[p].why = why,
         \A t : t.pc = pc /\ t.a = a /\ t.why = why => CallInv(p, t)'
  PROVE  CallInv(p, thr[p])'
<1>1. CallInv(p, [pc |-> pc, a |-> a, why |-> why])'
  OBVIOUS
<1>2. thr'[p] = [pc |-> pc, a |-> a, why |-> why]
  BY DEF Threads
<1> QED
  BY <1>1, <1>2

(* A call that returned, in the next state.                                    *)
LEMMA ReturnedCall ==
  ASSUME HostTypes, NEW p \in Projects, Return(p)
  PROVE  /\ thr' \in [Projects -> Threads]
         /\ CallInv(p, thr[p])'
         /\ \A q \in Projects : q # p => thr'[q] = thr[q]
BY CallMoves, IdleCall

(* Only the ticket of the call's project moves, and only between its attempt   *)
(* and nobody.                                                                 *)
LEMMA TicketStep ==
  ASSUME ExecInv, NEW p \in Projects, NEW a \in Attempts, ProjectOf[a] = p,
         UNCHANGED <<vars, ctl, recovered, owner, effect>>, Fault \/ UNCHANGED faults,
         NEW x \in Attempts \cup {NoAttempt}, ticket' = [ticket EXCEPT ![p] = x],
         x = ticket[p] \/ ticket[p] \in {a, NoAttempt}, HoldsSource(a)',
         thr' \in [Projects -> Threads], CallInv(p, thr[p])',
         \A q \in Projects : q # p => thr'[q] = thr[q]
  PROVE  Safe
<1>1. HostTypes /\ Parts /\ FenceInv
  BY InvParts
<1>2. /\ ticket' \in [Projects -> Attempts \cup {NoAttempt}]
      /\ ticket'[p] = x /\ \A q \in Projects : q # p => ticket'[q] = ticket[q]
  BY <1>1 DEF HostTypes
<1>3. HostTypes'
  BY <1>1, <1>2, FaultType DEF HostTypes, ControllerTypeOK
<1>4. /\ \A b \in Attempts : LocalSame(b)
      /\ \A q \in Projects : q # p => SiteSame(q)
      /\ tampers' = tampers
  BY <1>2 DEF LocalSame, SiteSame, vars, journalVars, fenceVars
<1>5. UNCHANGED <<fence, drain, boundary, held>>
  BY DEF vars, fenceVars
<1>6. AttemptInv(a)'
  BY <1>1, <1>4, AttemptFrame DEF Parts
<1>7. LinkInv(a)'
  <2>1. LinkInv(a) /\ LocalSame(a) /\ Running(a)' = Running(a)
    BY <1>1, <1>4 DEF Parts, Running
  <2> QED
    BY <1>4, <1>5, <2>1 DEF LinkInv, HoldsLock, HoldsFence, Running, LocalSame
<1>8. ProjectInv(p)'
  <2>1. ProjectInv(p)
    BY <1>1 DEF Parts
  <2> QED
    BY <2>1, <1>5 DEF ProjectInv, DrainOwned, FenceOwned, BoundaryBound, Running, Committed,
       Reserved, vars, journalVars
<1>9. \A b \in Attempts : b # a /\ ticket[p] = b => ticket'[p] = b
  BY <1>2, AttemptAssumption
<1>10. Parts'
  BY <1>4, <1>5, <1>6, <1>7, <1>8, <1>9, GateFrame
<1> QED
  BY <1>3, <1>10 DEF Safe

(* Only what blocks the call's attempt changes.                                *)
LEMMA BlockStep ==
  ASSUME ExecInv, NEW p \in Projects, UNCHANGED <<vars, recovered, owner, effect, ticket>>,
         Fault \/ UNCHANGED faults, ControllerTypeOK', \A b \in Attempts : LocalSame(b),
         thr' \in [Projects -> Threads], CallInv(p, thr[p])',
         \A q \in Projects : q # p => thr'[q] = thr[q]
  PROVE  Safe
<1>1. HostTypes /\ Parts /\ FenceInv
  BY InvParts
<1>3. HostTypes'
  BY <1>1, FaultType DEF HostTypes
<1>4. (\A q \in Projects : SiteSame(q)) /\ tampers' = tampers
  BY DEF SiteSame, vars, fenceVars
<1>5. ASSUME NEW b \in Attempts PROVE AttemptInv(b)' /\ LinkInv(b)'
  <2>1. AttemptInv(b) /\ LinkInv(b) /\ LocalSame(b) /\ SiteSame(ProjectOf[b])
    BY <1>1, <1>4, AttemptAssumption DEF Parts
  <2> QED
    BY <1>4, <2>1, AttemptFrame, LinkFrame DEF SiteSame
<1>6. \A q \in Projects : ProjectInv(q)'
  BY <1>1, <1>4, ProjectFrame DEF Parts
<1>7. ASSUME NEW q \in Projects, q # p PROVE CallInv(q, thr[q])'
  <2>1. CallInv(q, thr[q]) /\ SiteSame(q) /\ thr'[q] = thr[q]
    BY <1>1, <1>4, <1>7 DEF Parts
  <2>2. thr[q].pc \notin {"idle", "recovered"} => LocalSame(thr[q].a)
    BY <1>7, <2>1 DEF CallInv, CallBound
  <2>3. ASSUME NEW t, t = thr[q] PROVE CallInv(q, t)'
    BY <1>4, <2>1, <2>2, <2>3, CallFrame
  <2> QED
    BY <2>1, <2>3
<1> QED
  BY <1>3, <1>5, <1>6, <1>7 DEF Safe, Parts

(* Only one resource changes hands, and the lock is given up only by an attempt *)
(* that has nothing to protect with it.                                        *)
LEMMA OwnerStep ==
  ASSUME ExecInv, NEW p \in Projects, NEW a \in Attempts, ProjectOf[a] = p,
         UNCHANGED <<vars, ctl, recovered, effect, ticket, faults>>,
         NEW r \in Resources, NEW x \in {a, NoAttempt}, owner' = [owner EXCEPT ![r] = x],
         owner[r] \in {a, NoAttempt},
         \A q \in Projects : r = Lock(q) => q = p,
         r = Lock(p) /\ x = NoAttempt =>
           /\ Running(a) => \A k \in Keys : MutatingKey(k) => effect[a][k] # "applied"
           /\ Reserved(drain[p]) => drain[p].attempt # a
           /\ fence[p].state \in {"acquire_intent", "held", "release_intent"} =>
                fence[p].attempt # a,
         thr' \in [Projects -> Threads], CallInv(p, thr[p])',
         \A q \in Projects : q # p => thr'[q] = thr[q]
  PROVE  Safe
<1>1. HostTypes /\ Parts /\ FenceInv
  BY InvParts
<1>2. /\ owner' \in [Resources -> Attempts \cup {NoAttempt}]
      /\ owner'[r] = x /\ \A s \in Resources : s # r => owner'[s] = owner[s]
  BY <1>1 DEF HostTypes
<1>3. HostTypes'
  BY <1>1, <1>2, FaultType DEF HostTypes, ControllerTypeOK
<1>4. \A q \in Projects : q # p => owner'[Lock(q)] = owner[Lock(q)]
  BY <1>2, Locks
<1>5. /\ \A b \in Attempts : LocalSame(b)
      /\ \A q \in Projects : q # p => SiteSame(q)
      /\ tampers' = tampers
      /\ UNCHANGED <<fence, drain, boundary, held>>
  BY <1>4 DEF LocalSame, SiteSame, vars, journalVars, fenceVars
<1>6. \A b \in Attempts : b # a /\ owner[Lock(p)] = b => owner'[Lock(p)] = b
  BY <1>2, Locks, AttemptAssumption
<1>7. AttemptInv(a)'
  BY <1>1, <1>5, AttemptFrame DEF Parts
<1>8. owner[Lock(p)] = a => owner'[Lock(p)] = a \/ (r = Lock(p) /\ x = NoAttempt)
  BY <1>2, Locks
<1>9. LinkInv(a)'
  <2>1. LinkInv(a) /\ LocalSame(a)
    BY <1>1, <1>5 DEF Parts
  <2>2. HoldsLock(a)'
    BY <1>8, <2>1 DEF LinkInv, HoldsLock, Running, LocalSame
  <2> QED
    BY <1>5, <2>1, <2>2 DEF LinkInv, HoldsSource, HoldsFence, Running, LocalSame, Committed
<1>10. ProjectInv(p)'
  <2>1. ProjectInv(p) /\ UNCHANGED <<journal, ctl>>
    BY <1>1 DEF Parts, vars, journalVars
  <2>2. DrainOwned(p)'
    BY <1>5, <1>6, <1>8, <2>1 DEF ProjectInv, DrainOwned, Running, Committed, Reserved
  <2>3. fence[p].state \in {"acquire_intent", "held", "release_intent"} =>
          fence[p].attempt \in Attempts
    BY <1>1 DEF FenceInv, FenceAfterBackup
  <2>4. FenceOwned(p)'
    BY <1>5, <1>6, <1>8, <2>1, <2>3 DEF ProjectInv, FenceOwned, Running
  <2> QED
    BY <1>5, <2>1, <2>2, <2>4 DEF ProjectInv, BoundaryBound, Reserved
<1>11. Parts'
  BY <1>5, <1>6, <1>7, <1>9, <1>10, GateFrame
<1> QED
  BY <1>3, <1>11 DEF Safe

--------------------------------------------------------------------------------
(* The call goes on while its attempt and its project's fence stay the same.   *)
LEMMA KeptCall ==
  ASSUME ExecInv, NEW p \in Projects, NEW pc \in PCs, NEW why \in Whys,
         (Goto(p, pc) /\ why = thr[p].why) \/ GoWhy(p, pc, why),
         UNCHANGED vars, \A b \in Attempts : LocalSame(b),
         \A t : t.pc = pc /\ t.a = thr[p].a /\ t.why = why => CallInv(p, t),
         pc \in {"prove", "effect"} /\ ticket[p] = thr[p].a => ticket'[p] = thr[p].a,
         /\ pc \in {"identity", "apply", "admit", "prove", "effect"}
         /\ owner[Lock(p)] = thr[p].a
         => owner'[Lock(p)] = thr[p].a
  PROVE  /\ thr' \in [Projects -> Threads]
         /\ CallInv(p, thr[p])'
         /\ \A q \in Projects : q # p => thr'[q] = thr[q]
<1>1. /\ thr' \in [Projects -> Threads]
      /\ thr'[p].pc = pc /\ thr'[p].a = thr[p].a /\ thr'[p].why = why
      /\ \A q \in Projects : q # p => thr'[q] = thr[q]
  BY InvParts, CallMoves
<1>2. ASSUME NEW t, t.pc = pc, t.a = thr[p].a, t.why = why PROVE CallInv(p, t)'
  <2>1. CallInv(p, t)
    BY <1>2
  <2>2. t.pc \notin {"idle", "recovered"} => LocalSame(t.a)
    BY <2>1 DEF CallInv, CallBound
  <2>3. fence' = fence /\ held' = held /\ tampers' = tampers
    BY DEF vars, fenceVars
  <2>4. /\ t.pc \in {"prove", "effect"} /\ ticket[p] = t.a => ticket'[p] = t.a
        /\ t.pc \in {"identity", "apply", "admit", "prove", "effect"} /\ owner[Lock(p)] = t.a
           => owner'[Lock(p)] = t.a
    BY <1>2
  <2> QED
    BY <2>1, <2>2, <2>3, <2>4, CallKept
<1>3. \A t : t.pc = pc /\ t.a = thr[p].a /\ t.why = why => CallInv(p, t)'
  BY <1>2
<1> QED
  BY <1>1, <1>3, CallRecord

(* The same with nothing but the call changing.                                *)
LEMMA QuietWhy ==
  ASSUME ExecInv, NEW p \in Projects, UNCHANGED <<vars, ctl, recovered, owner, effect, ticket>>,
         Fault \/ UNCHANGED faults, NEW pc \in PCs, NEW why \in Whys, GoWhy(p, pc, why),
         \A t : t.pc = pc /\ t.a = thr[p].a /\ t.why = why => CallInv(p, t)
  PROVE  Safe
<1>1. HostTypes /\ faults' \in Nat /\ recovered' \subseteq Projects
  BY InvParts, FaultType DEF HostTypes
<1>2. /\ thr' \in [Projects -> Threads]
      /\ thr'[p].pc = pc /\ thr'[p].a = thr[p].a /\ thr'[p].why = why
      /\ \A q \in Projects : q # p => thr'[q] = thr[q]
  BY <1>1, CallMoves
<1> QED
  BY <1>1, <1>2, QuietMove

(* While the broker is asked to vouch for the source nothing was mutated yet.  *)
LEMMA AdmissionClean ==
  ASSUME ExecInv, NEW p \in Projects, NEW a, a = thr[p].a,
         thr[p].pc \in Admitting \cup {"untake", "compensated"}
  PROVE  /\ ctl[a].mode = "none" /\ takeover[a] = "none"
         /\ IsDeploy(KindOf[a])
         /\ PhaseOf(a) = AdmissionPhase(KindOf[a])
         /\ KeyOf(a) = AdmissionPhase(KindOf[a])
         /\ effect[a][AdmissionPhase(KindOf[a])] # "applied"
         /\ \A k \in Keys : MutatingKey(k) => effect[a][k] # "applied"
         /\ Reserved(drain[p]) => drain[p].attempt # a
         /\ fence[p].state \in {"acquire_intent", "held", "release_intent"} =>
              fence[p].attempt # a
<1> DEFINE adm == AdmissionPhase(KindOf[a])
<1>1. thr[p].pc \notin {"idle", "recovered"}
  BY DEF Admitting
<1>2. /\ HostTypes /\ FenceInv /\ CallInv(p, thr[p]) /\ ProjectInv(p)
      /\ a \in Attempts /\ ProjectOf[a] = p /\ KindOf[a] \in Kinds
      /\ AttemptInv(a) /\ LinkInv(a)
  BY <1>1, CallFacts
<1>3. /\ ctl[a].mode # "reconciliation"
      /\ ctl[a].mode = "none" => takeover[a] = "none"
      /\ journal[a][KeyOf(a)] \in {"intent", "needs_reconcile"}
      /\ effect[a][KeyOf(a)] # "applied"
      /\ thr[p].pc \in Admitting => AdmissionNow(a)
      /\ thr[p].pc \notin Admitting => rejection[a] = "abort_pending"
                                        /\ journal[a][KeyOf(a)] = "needs_reconcile"
  BY <1>2, RowAtStep DEF CallInv, CallInPhase, InPhase, WorkPCs, CallAdmits, Admitting, Untouched
<1>4. adm \in {"deploying", "backing_up", "none"} /\ (adm # "none" => IsDeploy(KindOf[a]))
  BY DEF AdmissionPhase, IsDeploy
<1>5. ctl[a].mode \in {"none", "rollback"} /\ ctl[a].phase \in Phases
  BY <1>2, <1>3 DEF AttemptInv, ShownShape, HostTypes, ControllerTypeOK, Modes, Phases
<1>6. /\ ctl[a].mode = "none" => KeyOf(a) = PhaseOf(a)
      /\ ctl[a].mode = "rollback" => PhaseOf(a) \in {"rollback", "health_checking", "soaking"}
      /\ ctl[a].mode = "rollback" => takeover[a] # "none"
  BY <1>2 DEF AttemptInv, ShownShape, RowsExplained, KeyOf, BranchOf, StorageKey, PhaseOf
<1>8. ASSUME thr[p].pc \notin Admitting
      PROVE  ctl[a].mode = "none" /\ IsDeploy(KindOf[a]) /\ KeyOf(a) = adm
  <2>1. /\ rejection[a] = "abort_pending" /\ journal[a][KeyOf(a)] = "needs_reconcile"
        /\ IsDeploy(KindOf[a]) /\ journal[a][adm] = "needs_reconcile"
    BY <1>2, <1>3, <1>8 DEF AttemptInv, RowsExplained
  <2>2. adm \in {"deploying", "backing_up"} /\ adm \in Phases /\ adm \in Keys
    BY <2>1 DEF AdmissionPhase, IsDeploy, Phases, Keys, IsStateful
  <2>3. Uncommitted(a, adm)
    BY <2>1 DEF Uncommitted
  <2>4. ctl[a].mode = "none"
    <3>1. SealNamesOpenRow
      BY <1>2 DEF FenceInv, JournalInv
    <3>2. takeover[a] # "none" => adm = takeover[a] /\ adm # "deploying"
                                  /\ takeover[a] \in {"deploying", "health_checking", "soaking"}
      BY <1>2, <2>2, <2>3, <3>1 DEF SealNamesOpenRow
    <3> QED
      BY <1>5, <1>6, <2>2, <3>2
  <2>5. KeyOf(a) = PhaseOf(a) /\ takeover[a] = "none" /\ KeyOf(a) \in Keys
    BY <1>3, <1>5, <1>6, <2>4 DEF PhaseOf, Keys
  <2>6. Uncommitted(a, KeyOf(a))
    BY <2>1 DEF Uncommitted
  <2>7. KeyOf(a) = adm
    BY <1>2, <2>2, <2>3, <2>5, <2>6 DEF FenceInv, JournalInv, OneOpenRow
  <2> QED
    BY <1>3, <2>1, <2>4, <2>5, <2>7
<1>9. /\ ctl[a].mode = "none" /\ takeover[a] = "none" /\ IsDeploy(KindOf[a])
      /\ PhaseOf(a) = adm /\ KeyOf(a) = adm /\ effect[a][adm] # "applied"
  <2>1. CASE thr[p].pc \in Admitting
    <3>1. PhaseOf(a) = adm
      BY <1>3, <2>1 DEF AdmissionNow
    <3>2. ctl[a].mode = "none" /\ adm # "none"
      BY <1>4, <1>5, <1>6, <3>1 DEF PhaseOf, Phases
    <3> QED
      BY <1>3, <1>4, <1>6, <3>1, <3>2
  <2>2. CASE thr[p].pc \notin Admitting
    BY SMTT(60), <1>8, <2>2, <1>6, <1>3
  <2> QED
    BY <2>1, <2>2
<1>10. /\ adm \in {"deploying", "backing_up"} /\ InPlan(KindOf[a], adm)
       /\ \A k \in Keys : journal[a][k] # "none" => k \in PhasesBefore[KindOf[a]][adm] \cup {adm}
       /\ \A k \in Keys : effect[a][k] = "applied" => journal[a][k] # "none"
  BY <1>2, <1>4, <1>9 DEF AttemptInv, ForwardRun, RowsExplained, ForwardPhase, Before, PhaseOf,
     AdmissionPhase, IsDeploy
<1>11. \A q \in PhasesBefore[KindOf[a]][adm] : ~CrossesMutationBoundary(q) /\ q \in Phases
  <2>1. \A q \in PhasesBefore[KindOf[a]][adm] : ~CrossesMutationBoundary(q)
    BY <1>2, <1>10, NothingMutatedBefore
  <2>2. adm \in Phases
    BY <1>10 DEF Phases
  <2>3. PhasesBefore[KindOf[a]][adm] \subseteq Phases
    BY <1>2, <2>2 DEF PhasesBefore
  <2> QED
    BY <2>1, <2>3
<1>12. \A k \in Keys : MutatingKey(k) => effect[a][k] # "applied"
  BY <1>9, <1>10, <1>11 DEF MutatingKey, Phases, RecoveryKeys
<1>13. ~Committed(a, "draining") /\ (IsStateful(KindOf[a]) => ~Committed(a, "backing_up"))
  <2>1. "draining" \in Keys /\ "backing_up" \in Keys
    BY DEF Keys, Phases
  <2>2. CrossesMutationBoundary("draining")
    BY DEF CrossesMutationBoundary
  <2>3. IsStateful(KindOf[a]) => adm = "backing_up"
    BY DEF AdmissionPhase, IsStateful
  <2> QED
    BY <1>3, <1>9, <1>10, <1>11, <2>1, <2>2, <2>3 DEF Committed
<1>14. Reserved(drain[p]) => drain[p].attempt # a
  BY <1>2, <1>13 DEF ProjectInv, DrainOwned
<1>15. fence[p].state \in {"acquire_intent", "held", "release_intent"} => fence[p].attempt # a
  BY <1>2, <1>13 DEF FenceInv, FenceAfterBackup, FencePhaseReceipts
<1> QED
  BY <1>9, <1>12, <1>14, <1>15

--------------------------------------------------------------------------------
(* Steps that ask the broker for the ticket or give it back.                   *)

(* A transaction that sets or clears what blocks an attempt.                   *)
LEMMA BlockOnly ==
  ASSUME HostTypes, NEW a \in Attempts, NEW reason \in Blocks, UNCHANGED <<vars, effect>>,
         \/ ctl' = ctl
         \/ ctl' = [ctl EXCEPT ![a] = ctl[a]]
         \/ ctl' = [ctl EXCEPT ![a] = [ctl[a] EXCEPT !.block = reason]]
  PROVE  ControllerTypeOK' /\ \A b \in Attempts : LocalSame(b)
<1>1. UNCHANGED <<journal, takeover, proof, rejection>>
  BY DEF vars, journalVars
<1> DEFINE Row == [phase : ShownPhases, result : Results, block : Blocks, mode : Modes,
                   from : Phases \cup {"none"}, projected : SUBSET Keys]
           c == [ctl[a] EXCEPT !.block = reason]
<1>2. ctl \in [Attempts -> Row]
  BY DEF HostTypes, ControllerTypeOK
<1>3. /\ c \in Row /\ c.phase = ctl[a].phase /\ c.result = ctl[a].result
      /\ c.mode = ctl[a].mode /\ c.from = ctl[a].from /\ c.projected = ctl[a].projected
  BY <1>2
<1> HIDE DEF c
<1>4. \/ \A b \in Attempts : ctl'[b] = ctl[b]
      \/ ctl'[a] = c /\ \A b \in Attempts : b # a => ctl'[b] = ctl[b]
  BY <1>2 DEF c
<1>5. ctl' \in [Attempts -> Row]
  <2> HIDE DEF Row
  <2> QED
    BY <1>2, <1>3 DEF c
<1>6. \A b \in Attempts : /\ ctl'[b].phase = ctl[b].phase /\ ctl'[b].result = ctl[b].result
                          /\ ctl'[b].mode = ctl[b].mode /\ ctl'[b].from = ctl[b].from
                          /\ ctl'[b].projected = ctl[b].projected
  BY <1>3, <1>4
<1> QED
  BY <1>1, <1>5, <1>6 DEF LocalSame, ControllerTypeOK

(* The call ends by setting or clearing a block of its attempt.                *)
LEMMA BlockedReturn ==
  ASSUME ExecInv, NEW p \in Projects, NEW a \in Attempts, NEW reason \in Blocks,
         UNCHANGED <<vars, recovered, owner, effect, ticket>>, Fault \/ UNCHANGED faults,
         \/ ctl' = ctl
         \/ ctl' = [ctl EXCEPT ![a] = ctl[a]]
         \/ ctl' = [ctl EXCEPT ![a] = [ctl[a] EXCEPT !.block = reason]],
         Return(p)
  PROVE  Safe
<1>1. HostTypes
  BY InvParts
<1>2. ControllerTypeOK' /\ \A b \in Attempts : LocalSame(b)
  BY <1>1, BlockOnly
<1>3. /\ thr' \in [Projects -> Threads] /\ CallInv(p, thr[p])'
      /\ \A q \in Projects : q # p => thr'[q] = thr[q]
  BY <1>1, ReturnedCall
<1> QED
  BY <1>2, <1>3, BlockStep

(* The broker vouches for the source and holds it still, or does not.          *)
LEMMA CheckLiveSafe ==
  ASSUME ExecInv, NEW p \in Projects, CheckLive(p)
  PROVE  Safe
<1> SUFFICES ASSUME NEW a, a = thr[p].a PROVE Safe
  OBVIOUS
<1>1. thr[p].pc = "admit"
  BY DEF CheckLive, At
<1>2. /\ HostTypes /\ CallInv(p, thr[p]) /\ LinkInv(a)
      /\ a \in Attempts /\ ProjectOf[a] = p
  BY <1>1, CallFacts
<1>3. /\ UNCHANGED <<vars, ctl, recovered, owner, effect>> /\ (Fault \/ UNCHANGED faults)
      /\ "prove" \in PCs /\ "unadmit" \in PCs /\ thr[p].why \in Whys
      /\ \A why \in {"superseded", "broker_unavailable", "source_hold"} : why \in Whys
  BY <1>2 DEF CheckLive, PCs, Whys, HostTypes, Threads
<1>4. /\ ctl[a].mode # "reconciliation"
      /\ Running(a) \/ ~CrossesMutationBoundary(PhaseOf(a))
      /\ ctl[a].mode = "none" => takeover[a] = "none"
      /\ journal[a][KeyOf(a)] = "intent"
      /\ thr[p].why \notin {"recover", "sweep"}
      /\ AdmissionNow(a) /\ effect[a][KeyOf(a)] # "applied"
      /\ RequiresProjectLock(PhaseOf(a)) => owner[Lock(p)] = a
  BY <1>1, <1>2, RowAtStep DEF CallInv, CallBound, CallInPhase, InPhase, WorkPCs, FencePCs,
     CallAdmits, CallOwns, Admitting, Untouched
<1>5. \A b \in Attempts : LocalSame(b)
  BY <1>3 DEF LocalSame, vars, journalVars
<1>6. /\ effect[a][AdmissionPhase(KindOf[a])] # "applied"
      /\ HoldsSource(a)'
  <2>1. effect[a][AdmissionPhase(KindOf[a])] # "applied"
    BY <1>1, AdmissionClean DEF Admitting
  <2> QED
    BY <1>3, <2>1 DEF HoldsSource
<1>7. \A why : why \notin {"recover", "sweep"} =>
        \A t : t.pc = "unadmit" /\ t.a = a /\ t.why = why => CallInv(p, t)
  BY <1>2, <1>4, RowAtStep DEF CallInv, CallBound, CallInPhase, InPhase, WorkPCs, FencePCs,
     CallAdmits, CallOwns, CallFences, CallEnds, Untouched, Admitting
<1>8. ASSUME NEW why \in {"superseded", "broker_unavailable", "source_hold"},
             GoWhy(p, "unadmit", why), UNCHANGED ticket
      PROVE  Safe
  BY <1>3, <1>7, <1>8, QuietWhy
<1>9. ASSUME NEW why \in {"superseded", "broker_unavailable", "source_hold"},
             GoWhy(p, "unadmit", why), ticket[p] \in {NoAttempt, a},
             ticket' = [ticket EXCEPT ![p] = a]
      PROVE  Safe
  <2>1. \A t : t.pc = "unadmit" /\ t.a = a /\ t.why = why => CallInv(p, t)
    BY <1>7, <1>9
  <2>2. /\ thr' \in [Projects -> Threads] /\ CallInv(p, thr[p])'
        /\ \A q \in Projects : q # p => thr'[q] = thr[q]
    BY <1>3, <1>5, <1>9, <2>1, KeptCall
  <2> QED
    BY <1>2, <1>3, <1>6, <1>9, <2>2, TicketStep
<1>10. CASE /\ ticket[p] \in {NoAttempt, a} /\ ticket' = [ticket EXCEPT ![p] = a]
            /\ Goto(p, "prove")
  <2>1. ticket'[p] = a
    BY <1>2, <1>10 DEF HostTypes
  <2>2. ASSUME NEW t, t.pc = "prove", t.a = a, t.why = thr[p].why PROVE CallInv(p, t)'
    <3>1. /\ KeyOf(a)' = KeyOf(a) /\ PhaseOf(a)' = PhaseOf(a) /\ Running(a)' = Running(a)
          /\ AdmissionNow(a)' = AdmissionNow(a) /\ UNCHANGED <<journal, takeover, rejection, proof>>
      BY <1>3 DEF KeyOf, BranchOf, PhaseOf, Running, AdmissionNow, vars, journalVars
    <3> QED
      BY <1>2, <1>3, <1>4, <2>1, <2>2, <3>1, RowAtStep
         DEF CallInv, CallBound, CallInPhase, InPhase, WorkPCs,
         FencePCs, CallAdmits, CallOwns, CallFences, CallEnds, Untouched, Admitting
  <2>3. /\ thr' \in [Projects -> Threads]
        /\ thr'[p].pc = "prove" /\ thr'[p].a = a /\ thr'[p].why = thr[p].why
        /\ \A q \in Projects : q # p => thr'[q] = thr[q]
    BY <1>2, <1>3, <1>10, CallMoves
  <2>4. \A t : t.pc = "prove" /\ t.a = a /\ t.why = thr[p].why => CallInv(p, t)'
    BY <2>2
  <2>5. CallInv(p, thr[p])'
    BY <2>3, <2>4, CallRecord
  <2> QED
    BY <1>2, <1>3, <1>6, <1>10, <2>3, <2>5, TicketStep
<1> QED
  BY <1>8, <1>9, <1>10 DEF CheckLive

(* Giving the ticket back; a broker that does not answer blocks the attempt.   *)
LEMMA AbortLiveSafe ==
  ASSUME ExecInv, NEW p \in Projects, AbortLive(p)
  PROVE  Safe
<1> SUFFICES ASSUME NEW a, a = thr[p].a PROVE Safe
  OBVIOUS
<1> DEFINE x == IF ticket[p] = a THEN NoAttempt ELSE ticket[p]
<1>1. thr[p].pc \in {"unadmit", "unprove", "unapply", "untake"}
  BY DEF AbortLive
<1>2. /\ HostTypes /\ CallInv(p, thr[p]) /\ LinkInv(a)
      /\ a \in Attempts /\ ProjectOf[a] = p
  BY <1>1, CallFacts
<1>3. /\ UNCHANGED <<vars, recovered, owner, effect>> /\ (Fault \/ UNCHANGED faults)
      /\ {"suspend", "uncompensate", "compensated"} \subseteq PCs /\ thr[p].why \in Whys
      /\ "broker_unavailable" \in Blocks
  BY <1>2 DEF AbortLive, PCs, Blocks, HostTypes, Threads
<1>4. CASE SetSourceBlock(a, "broker_unavailable") /\ Return(p) /\ UNCHANGED ticket
  <2>1. \/ ctl' = [ctl EXCEPT ![a] = ctl[a]]
        \/ ctl' = [ctl EXCEPT ![a] = [ctl[a] EXCEPT !.block = "broker_unavailable"]]
    BY <1>4 DEF SetSourceBlock, SetPreMutationBlock, Set
  <2> QED
    BY <1>2, <1>3, <1>4, <2>1, BlockedReturn
<1>5. CASE /\ ticket' = [ticket EXCEPT ![p] = IF @ = a THEN NoAttempt ELSE @]
           /\ CASE At(p, "unadmit") -> Goto(p, "suspend")
                [] At(p, "unprove") -> Goto(p, "uncompensate")
                [] At(p, "untake")  -> Goto(p, "compensated")
                [] OTHER            -> Return(p)
           /\ UNCHANGED <<ctl, faults>>
  <2>1. /\ ticket' = [ticket EXCEPT ![p] = x] /\ x \in Attempts \cup {NoAttempt}
        /\ x = ticket[p] \/ ticket[p] \in {a, NoAttempt}
    BY <1>2, <1>5 DEF HostTypes
  <2>2. HoldsSource(a)' /\ effect[a][KeyOf(a)] # "applied"
    <3>1. effect[a][AdmissionPhase(KindOf[a])] # "applied" /\ effect[a][KeyOf(a)] # "applied"
      <4>1. thr[p].pc \in Admitting \cup {"untake", "compensated"}
        BY <1>1 DEF Admitting
      <4> QED
        BY <4>1, AdmissionClean
    <3> QED
      BY <1>3, <3>1 DEF HoldsSource
  <2>3. \A b \in Attempts : LocalSame(b)
    BY <1>3, <1>5 DEF LocalSame, vars, journalVars
  <2>4. /\ ctl[a].mode # "reconciliation"
        /\ Running(a) \/ ~CrossesMutationBoundary(PhaseOf(a))
        /\ ctl[a].mode = "none" => takeover[a] = "none"
        /\ thr[p].why \notin {"recover", "sweep"}
        /\ thr[p].pc = "unadmit" => journal[a][KeyOf(a)] = "intent"
        /\ thr[p].pc \in {"unprove", "untake"} => journal[a][KeyOf(a)] = "needs_reconcile"
        /\ thr[p].pc \in {"unadmit", "unprove"} => AdmissionNow(a)
        /\ thr[p].pc = "untake" => rejection[a] = "abort_pending"
    BY <1>1, <1>2, RowAtStep DEF CallInv, CallBound, CallInPhase, InPhase, WorkPCs, FencePCs,
       CallAdmits, Admitting
  <2>5. ASSUME NEW pc \in {"suspend", "uncompensate", "compensated"}, Goto(p, pc),
               \A t : t.pc = pc /\ t.a = a /\ t.why = thr[p].why => CallInv(p, t)
        PROVE  Safe
    <3>1. /\ thr' \in [Projects -> Threads] /\ CallInv(p, thr[p])'
          /\ \A q \in Projects : q # p => thr'[q] = thr[q]
      BY <1>3, <2>3, <2>5, KeptCall
    <3> QED
      BY <1>2, <1>3, <1>5, <2>1, <2>2, <3>1, TicketStep
  <2>6. CASE thr[p].pc = "unadmit"
    <3>1. Goto(p, "suspend")
      BY <1>5, <2>6 DEF At
    <3>2. \A t : t.pc = "suspend" /\ t.a = a /\ t.why = thr[p].why => CallInv(p, t)
      BY <1>2, <2>2, <2>4, <2>6, RowAtStep DEF CallInv, CallBound, CallInPhase, InPhase, WorkPCs,
         FencePCs, CallAdmits, CallOwns, CallFences, CallEnds, Untouched, Admitting
    <3> QED
      BY <2>5, <3>1, <3>2
  <2>7. CASE thr[p].pc = "unprove"
    <3>1. Goto(p, "uncompensate")
      BY <1>5, <2>7 DEF At
    <3>2. \A t : t.pc = "uncompensate" /\ t.a = a /\ t.why = thr[p].why => CallInv(p, t)
      BY <1>2, <2>2, <2>4, <2>7, RowAtStep DEF CallInv, CallBound, CallInPhase, InPhase, WorkPCs,
         FencePCs, CallAdmits, CallOwns, CallFences, CallEnds, Untouched, Admitting
    <3> QED
      BY <2>5, <3>1, <3>2
  <2>8. CASE thr[p].pc = "untake"
    <3>1. Goto(p, "compensated")
      BY <1>5, <2>8 DEF At
    <3>2. \A t : t.pc = "compensated" /\ t.a = a /\ t.why = thr[p].why => CallInv(p, t)
      BY <1>2, <2>2, <2>4, <2>8, RowAtStep DEF CallInv, CallBound, CallInPhase, InPhase, WorkPCs,
         FencePCs, CallAdmits, CallOwns, CallFences, CallEnds, Untouched, Admitting
    <3> QED
      BY <2>5, <3>1, <3>2
  <2>9. CASE thr[p].pc = "unapply"
    <3>1. Return(p)
      BY <1>5, <2>9 DEF At
    <3>2. /\ thr' \in [Projects -> Threads] /\ CallInv(p, thr[p])'
          /\ \A q \in Projects : q # p => thr'[q] = thr[q]
      BY <1>2, <3>1, ReturnedCall
    <3> QED
      BY <1>2, <1>3, <1>5, <2>1, <2>2, <3>2, TicketStep
  <2> QED
    BY <1>1, <2>6, <2>7, <2>8, <2>9
<1> QED
  BY <1>4, <1>5 DEF AbortLive


(* The receipt that ends the standstill gives the ticket back.                 *)
LEMMA CompleteLiveSafe ==
  ASSUME ExecInv, NEW p \in Projects, CompleteLive(p)
  PROVE  Safe
<1> SUFFICES ASSUME NEW a, a = thr[p].a PROVE Safe
  OBVIOUS
<1> DEFINE x == IF CompletionNow(a) /\ ticket[p] = a THEN NoAttempt ELSE ticket[p]
<1>1. thr[p].pc = "complete"
  BY DEF CompleteLive, At
<1>2. /\ HostTypes /\ CallInv(p, thr[p]) /\ AttemptInv(a) /\ LinkInv(a)
      /\ a \in Attempts /\ ProjectOf[a] = p
  BY <1>1, CallFacts
<1>3. /\ UNCHANGED <<vars, ctl, recovered, owner, effect>> /\ (Fault \/ UNCHANGED faults)
      /\ {"tidy", "to_reconcile"} \subseteq PCs /\ thr[p].why \in Whys
  BY <1>2 DEF CompleteLive, PCs, HostTypes, Threads
<1>4. /\ ctl[a].mode # "reconciliation"
      /\ Running(a) \/ ~CrossesMutationBoundary(PhaseOf(a))
      /\ ctl[a].mode = "none" => takeover[a] = "none"
      /\ journal[a][KeyOf(a)] = "committed"
      /\ thr[p].why \notin {"recover", "sweep"}
  BY <1>1, <1>2, RowAtStep DEF CallInv, CallBound, CallInPhase, InPhase, WorkPCs, FencePCs
<1>5. CompletionNow(a) => ctl[a].mode = "none" /\ Committed(a, CompletionPhase(KindOf[a]))
  <2>1. CompletionPhase(KindOf[a]) \in {"deploying", "cutover_snapshotting", "none"}
    BY DEF CompletionPhase
  <2>2. ctl[a].mode \in {"none", "rollback"}
    BY <1>2, <1>4 DEF HostTypes, ControllerTypeOK, Modes
  <2>3. ctl[a].mode = "rollback" => PhaseOf(a) \in {"rollback", "health_checking", "soaking"}
    BY <1>2 DEF AttemptInv, ShownShape, PhaseOf
  <2>4. ctl[a].mode = "none" => KeyOf(a) = PhaseOf(a)
    BY DEF KeyOf, BranchOf, StorageKey, PhaseOf
  <2> QED
    BY <1>4, <2>1, <2>2, <2>3, <2>4 DEF CompletionNow, Committed
<1>6. \A b \in Attempts : LocalSame(b)
  BY <1>3 DEF LocalSame, vars, journalVars
<1>7. CASE /\ ticket' = [ticket EXCEPT ![p] = IF CompletionNow(a) /\ @ = a THEN NoAttempt ELSE @]
           /\ Goto(p, "tidy")
  <2>1. /\ ticket' = [ticket EXCEPT ![p] = x] /\ x \in Attempts \cup {NoAttempt}
        /\ x = ticket[p] \/ ticket[p] \in {a, NoAttempt}
        /\ ticket'[p] = x
    BY <1>2, <1>7 DEF HostTypes
  <2>2. HoldsSource(a)'
    <3>1. HoldsSource(a) /\ UNCHANGED <<journal, proof, effect>>
      BY <1>2, <1>3 DEF LinkInv, vars, journalVars
    <3> QED
      BY <1>2, <1>5, <2>1, <3>1 DEF HoldsSource, Committed
  <2>3. \A t : t.pc = "tidy" /\ t.a = a /\ t.why = thr[p].why => CallInv(p, t)
    BY <1>2, <1>4, RowAtStep DEF CallInv, CallBound, CallInPhase, InPhase, WorkPCs, FencePCs,
       CallAdmits, CallOwns, CallFences, CallEnds, Untouched, Admitting
  <2>4. /\ thr' \in [Projects -> Threads] /\ CallInv(p, thr[p])'
        /\ \A q \in Projects : q # p => thr'[q] = thr[q]
    BY <1>3, <1>6, <1>7, <2>3, KeptCall
  <2> QED
    BY <1>2, <1>3, <2>1, <2>2, <2>4, TicketStep
<1>8. CASE CompletionNow(a) /\ Goto(p, "to_reconcile") /\ UNCHANGED ticket
  <2>1. \A t : t.pc = "to_reconcile" /\ t.a = a /\ t.why = thr[p].why => CallInv(p, t)
    BY <1>2, <1>4, <1>5, <1>8, RowAtStep
       DEF CallInv, CallBound, CallInPhase, InPhase, WorkPCs, FencePCs, Statuses,
       CallAdmits, CallOwns, CallFences, CallEnds, Untouched, Admitting
  <2> QED
    BY <1>3, <1>8, <2>1, QuietGoto
<1> QED
  BY <1>7, <1>8 DEF CompleteLive

(* Before the cut-over snapshot the broker is asked once more.                 *)
LEMMA RefreshSafe ==
  ASSUME ExecInv, NEW p \in Projects, Refresh(p)
  PROVE  Safe
<1> SUFFICES ASSUME NEW a, a = thr[p].a PROVE Safe
  OBVIOUS
<1>1. thr[p].pc = "refresh"
  BY DEF Refresh, At
<1>2. /\ HostTypes /\ CallInv(p, thr[p]) /\ AttemptInv(a) /\ LinkInv(a) /\ FenceInv
      /\ a \in Attempts /\ ProjectOf[a] = p
  BY <1>1, CallFacts
<1>3. /\ UNCHANGED <<vars, recovered, owner, effect>> /\ (Fault \/ UNCHANGED faults)
      /\ {"unblock", "to_reconcile"} \subseteq PCs /\ thr[p].why \in Whys
      /\ "broker_unavailable" \in Blocks
  BY <1>2 DEF Refresh, PCs, HostTypes, Threads, Blocks
<1>4. /\ ctl[a].mode # "reconciliation"
      /\ Running(a) \/ ~CrossesMutationBoundary(PhaseOf(a))
      /\ ctl[a].mode = "none" => takeover[a] = "none"
      /\ journal[a][KeyOf(a)] \in Statuses
      /\ PhaseOf(a) = "cutover_snapshotting"
      /\ thr[p].why \notin {"recover", "sweep"}
  BY <1>1, <1>2, RowAtStep DEF CallInv, CallBound, CallInPhase, InPhase, WorkPCs, FencePCs
<1>5. ctl[a].mode = "none"
  BY <1>2, <1>4 DEF HostTypes, ControllerTypeOK, Modes, AttemptInv, ShownShape, PhaseOf
<1>6. ASSUME NEW pc \in {"unblock", "to_reconcile"}
      PROVE  \A t : t.pc = pc /\ t.a = a /\ t.why = thr[p].why => CallInv(p, t)
  BY <1>2, <1>4, <1>5, <1>6, RowAtStep
     DEF CallInv, CallBound, CallInPhase, InPhase, WorkPCs, FencePCs,
     CallAdmits, CallOwns, CallFences, CallEnds, Untouched, Admitting
<1>7. ASSUME NEW pc \in {"unblock", "to_reconcile"}, Goto(p, pc), UNCHANGED <<ctl, ticket>>
      PROVE  Safe
  BY <1>3, <1>6, <1>7, QuietGoto
<1>8. ASSUME NEW pc \in {"unblock", "to_reconcile"}, Goto(p, pc), UNCHANGED ctl,
             ticket[p] \in {NoAttempt, a}, ticket' = [ticket EXCEPT ![p] = a]
      PROVE  Safe
  <2>1. \A b \in Attempts : LocalSame(b)
    BY <1>3, <1>8 DEF LocalSame, vars, journalVars
  <2>2. \A t : t.pc = pc /\ t.a = a /\ t.why = thr[p].why => CallInv(p, t)
    BY <1>6
  <2>3. /\ thr' \in [Projects -> Threads] /\ CallInv(p, thr[p])'
        /\ \A q \in Projects : q # p => thr'[q] = thr[q]
    BY <1>3, <1>8, <2>1, <2>2, KeptCall
  <2>4. HoldsSource(a)'
    <3>1. HoldsSource(a) /\ UNCHANGED <<journal, proof, effect>> /\ ticket'[p] = a
      BY <1>2, <1>3, <1>8 DEF LinkInv, vars, journalVars, HostTypes
    <3> QED
      BY <1>2, <3>1 DEF HoldsSource, Committed
  <2> QED
    BY <1>2, <1>3, <1>8, <2>3, <2>4, TicketStep
<1>9. CASE SetCutoverSourceBlock(a) /\ Return(p) /\ UNCHANGED ticket
  <2>1. ctl' = [ctl EXCEPT ![a] = [ctl[a] EXCEPT !.block = "broker_unavailable"]]
    BY <1>9 DEF SetCutoverSourceBlock, Set
  <2> QED
    BY <1>2, <1>3, <1>9, <2>1, BlockedReturn
<1>10. \/ \E pc \in {"unblock", "to_reconcile"} : Goto(p, pc) /\ UNCHANGED <<ctl, ticket>>
       \/ \E pc \in {"unblock", "to_reconcile"} :
            /\ Goto(p, pc) /\ UNCHANGED ctl
            /\ ticket[p] \in {NoAttempt, a} /\ ticket' = [ticket EXCEPT ![p] = a]
       \/ SetCutoverSourceBlock(a) /\ Return(p) /\ UNCHANGED ticket
  BY DEF Refresh
<1> QED
  BY <1>7, <1>8, <1>9, <1>10

(* Once the broker is asked, a cut-over is no longer held up by it.            *)
LEMMA UnblockSafe ==
  ASSUME ExecInv, NEW p \in Projects, Unblock(p)
  PROVE  Safe
<1> SUFFICES ASSUME NEW a, a = thr[p].a PROVE Safe
  OBVIOUS
<1>1. thr[p].pc = "unblock"
  BY DEF Unblock, At
<1>2. /\ HostTypes /\ CallInv(p, thr[p]) /\ a \in Attempts /\ ProjectOf[a] = p
  BY <1>1, CallFacts
<1>3. /\ UNCHANGED <<vars, recovered, owner, effect, ticket, faults>>
      /\ "fence_begin" \in PCs /\ thr[p].why \in Whys /\ "none" \in Blocks
      /\ Goto(p, "fence_begin")
      /\ ctl' = [ctl EXCEPT ![a] = [ctl[a] EXCEPT !.block = "none"]]
  BY <1>2 DEF Unblock, ClearCutoverSourceBlock, Set, PCs, HostTypes, Threads, Blocks
<1>4. /\ ctl[a].mode # "reconciliation"
      /\ Running(a) \/ ~CrossesMutationBoundary(PhaseOf(a))
      /\ ctl[a].mode = "none" => takeover[a] = "none"
      /\ journal[a][KeyOf(a)] \in Statuses
      /\ PhaseOf(a) = "cutover_snapshotting"
      /\ thr[p].why \notin {"recover", "sweep"}
  BY <1>1, <1>2, RowAtStep DEF CallInv, CallBound, CallInPhase, InPhase, WorkPCs, FencePCs
<1>5. \A t : t.pc = "fence_begin" /\ t.a = a /\ t.why = thr[p].why => CallInv(p, t)
  BY <1>2, <1>4, RowAtStep DEF CallInv, CallBound, CallInPhase, InPhase, WorkPCs, FencePCs,
     CallAdmits, CallOwns, CallFences, CallEnds, Untouched, Admitting
<1>6. ControllerTypeOK' /\ \A b \in Attempts : LocalSame(b)
  BY <1>2, <1>3, BlockOnly
<1>7. /\ thr' \in [Projects -> Threads] /\ CallInv(p, thr[p])'
      /\ \A q \in Projects : q # p => thr'[q] = thr[q]
  BY <1>3, <1>5, <1>6, KeptCall
<1> QED
  BY <1>3, <1>6, <1>7, BlockStep

(* A disk that is too full blocks an attempt that has not mutated.             *)
LEMMA DiskShortSafe ==
  ASSUME ExecInv, NEW p \in Projects, DiskShort(p)
  PROVE  Safe
<1> SUFFICES ASSUME NEW a, a = thr[p].a PROVE Safe
  OBVIOUS
<1>1. thr[p].pc = "disk"
  BY DEF DiskShort, At
<1>2. HostTypes /\ a \in Attempts
  BY <1>1, CallFacts
<1>3. /\ UNCHANGED <<vars, recovered, owner, effect, ticket>> /\ Fault /\ Return(p)
      /\ "disk_reserve" \in Blocks
  BY DEF DiskShort, Blocks
<1>4. \/ ctl' = ctl
      \/ ctl' = [ctl EXCEPT ![a] = ctl[a]]
      \/ ctl' = [ctl EXCEPT ![a] = [ctl[a] EXCEPT !.block = "disk_reserve"]]
  BY DEF DiskShort, SetDiskBlock, SetPreMutationBlock, Set
<1> QED
  BY <1>2, <1>3, <1>4, BlockedReturn

(* An operator lets an attempt try the disk again; no call is involved.        *)
LEMMA RetryDiskReservationSafe ==
  ASSUME ExecInv, NEW a \in Attempts, RetryDiskReservation(a)
  PROVE  Safe
<1>1. HostTypes /\ Parts
  BY InvParts
<1>2. PICK p \in Projects : p = ProjectOf[a]
  BY AttemptAssumption
<1>3. /\ UNCHANGED <<vars, recovered, owner, effect, ticket, faults, thr>> /\ "none" \in Blocks
      /\ ctl' = [ctl EXCEPT ![a] = [ctl[a] EXCEPT !.block = "none"]]
  BY DEF RetryDiskReservation, execVars, Blocks, ClearDiskBlock, Set
<1>4. ControllerTypeOK' /\ \A b \in Attempts : LocalSame(b)
  BY <1>1, <1>3, BlockOnly
<1>5. thr' \in [Projects -> Threads] /\ \A q \in Projects : thr'[q] = thr[q]
  BY <1>1, <1>3 DEF HostTypes
<1>6. CallInv(p, thr[p])'
  <2>1. PICK t : t = thr[p]
    OBVIOUS
  <2>2. CallInv(p, t) /\ SiteSame(p) /\ tampers' = tampers
    BY <1>1, <1>3, <2>1 DEF Parts, SiteSame, vars, fenceVars
  <2>3. t.pc \notin {"idle", "recovered"} => LocalSame(t.a)
    BY <1>4, <2>2 DEF CallInv, CallBound
  <2>4. CallInv(p, t)'
    BY <2>2, <2>3, CallFrame
  <2> QED
    BY <1>3, <2>1, <2>4
<1> QED
  BY <1>3, <1>4, <1>5, <1>6, BlockStep

(* A reconciliation that only waited for the broker goes on when it answers.   *)
LEMMA ReconcileSafe ==
  ASSUME ExecInv, NEW p \in Projects, Reconcile(p)
  PROVE  Safe
<1> SUFFICES ASSUME NEW a, a = thr[p].a PROVE Safe
  OBVIOUS
<1> DEFINE x == IF ticket[p] = a THEN NoAttempt ELSE ticket[p]
<1>1. thr[p].pc = "reconcile"
  BY DEF Reconcile, At
<1>2. /\ HostTypes /\ CallInv(p, thr[p]) /\ AttemptInv(a) /\ LinkInv(a)
      /\ a \in Attempts /\ ProjectOf[a] = p
  BY <1>1, CallFacts
<1>3. /\ UNCHANGED <<vars, ctl, recovered, owner, effect>> /\ (Fault \/ UNCHANGED faults)
      /\ {"takeover", "reconcile_tidy"} \subseteq PCs /\ thr[p].why \in Whys
      /\ faults' \in Nat /\ recovered' \subseteq Projects
  <2>1. UNCHANGED <<vars, ctl, recovered, owner, effect>> /\ (Fault \/ UNCHANGED faults)
    BY DEF Reconcile
  <2> QED
    BY <1>2, <2>1, FaultType DEF PCs, HostTypes, Threads
<1>4. ctl[a].mode = "reconciliation" /\ thr[p].why \notin {"recover", "sweep"}
  BY <1>1, <1>2 DEF CallInv, CallEnds, CallBound, FencePCs
<1>5. \A b \in Attempts : LocalSame(b)
  BY <1>3 DEF LocalSame, vars, journalVars
<1>6. CASE Goto(p, "takeover") /\ UNCHANGED ticket
  <2>1. \A t : t.pc = "takeover" /\ t.a = a /\ t.why = thr[p].why => CallInv(p, t)
    BY <1>2, <1>4 DEF CallInv, CallBound, CallInPhase, InPhase, WorkPCs, FencePCs,
       CallAdmits, CallOwns, CallFences, CallEnds, Untouched, Admitting
  <2> QED
    BY <1>3, <1>6, <2>1, QuietGoto
<1>7. CASE Return(p) /\ UNCHANGED ticket
  BY <1>3, <1>7, QuietReturn
<1>8. CASE /\ ctl[a].from = CompletionPhase(KindOf[a])
           /\ Committed(a, CompletionPhase(KindOf[a]))
           /\ ticket' = [ticket EXCEPT ![p] = IF @ = a THEN NoAttempt ELSE @]
           /\ Goto(p, "reconcile_tidy")
  <2>1. /\ ticket' = [ticket EXCEPT ![p] = x] /\ x \in Attempts \cup {NoAttempt}
        /\ x = ticket[p] \/ ticket[p] \in {a, NoAttempt}
    BY <1>2, <1>8 DEF HostTypes
  <2>2. HoldsSource(a)'
    <3>1. HoldsSource(a) /\ UNCHANGED <<journal, proof, effect>>
      BY <1>2, <1>3 DEF LinkInv, vars, journalVars
    <3> QED
      BY <1>8, <3>1 DEF HoldsSource, Committed
  <2>3. \A t : t.pc = "reconcile_tidy" /\ t.a = a /\ t.why = thr[p].why => CallInv(p, t)
    BY <1>2, <1>4, <1>8 DEF CallInv, CallBound, CallInPhase, InPhase, WorkPCs, FencePCs,
       CallAdmits, CallOwns, CallFences, CallEnds, Untouched, Admitting
  <2>4. /\ thr' \in [Projects -> Threads] /\ CallInv(p, thr[p])'
        /\ \A q \in Projects : q # p => thr'[q] = thr[q]
    BY <1>3, <1>5, <1>8, <2>3, KeptCall
  <2> QED
    BY <1>2, <1>3, <2>1, <2>2, <2>4, TicketStep
<1> QED
  BY <1>6, <1>7, <1>8 DEF Reconcile

--------------------------------------------------------------------------------
(* The lists resources are taken and given back in.                            *)
ShortLists == {s \in Seq(Resources) : Len(s) \in 0 .. 4}

(* The first of a list that is in a set of its members is in the set.          *)
LEMMA FirstIsIn ==
  ASSUME NEW s \in ShortLists, NEW set, set \subseteq Listed(s), set # {}
  PROVE  FirstIn(s, set) \in set
<1>1. s \in Seq(Resources) /\ DOMAIN s = 1 .. Len(s) /\ Len(s) \in 0 .. 4
  BY DEF ShortLists
<1>2. PICK i \in DOMAIN s : s[i] \in set
  BY DEF Listed
<1>3. \E n \in DOMAIN s : s[n] \in set /\ \A j \in DOMAIN s : j < n => s[j] \notin set
  <2>1. i \in 1 .. 4
    BY <1>1, <1>2
  <2>2. ASSUME NEW n \in 1 .. 4, \A m \in 1 .. 4 : m < n => m \notin DOMAIN s \/ s[m] \notin set,
               n \in DOMAIN s, s[n] \in set
        PROVE  \E m \in DOMAIN s : s[m] \in set /\ \A j \in DOMAIN s : j < m => s[j] \notin set
    BY <1>1, <2>2
  <2> DEFINE In(n) == n \in DOMAIN s /\ s[n] \in set
  <2>3. In(1) \/ (~In(1) /\ In(2)) \/ (~In(1) /\ ~In(2) /\ In(3))
        \/ (~In(1) /\ ~In(2) /\ ~In(3) /\ In(4))
    BY <1>2, <2>1
  <2> QED
    BY <2>2, <2>3
<1> QED
  BY <1>3 DEF FirstIn

(* Lists put together.                                                         *)
LEMMA Joined ==
  ASSUME NEW s \in Seq(Resources), NEW t \in Seq(Resources)
  PROVE  /\ s \o t \in Seq(Resources) /\ Len(s \o t) = Len(s) + Len(t)
         /\ Listed(s \o t) = Listed(s) \cup Listed(t)
<1>1. /\ s \o t \in Seq(Resources) /\ Len(s \o t) = Len(s) + Len(t)
      /\ \A i \in 1 .. Len(s) + Len(t) :
           (s \o t)[i] = IF i <= Len(s) THEN s[i] ELSE t[i - Len(s)]
  OBVIOUS
<1>2. DOMAIN s = 1 .. Len(s) /\ DOMAIN t = 1 .. Len(t) /\ Len(s) \in Nat /\ Len(t) \in Nat
      /\ DOMAIN (s \o t) = 1 .. Len(s) + Len(t)
  BY <1>1
<1>3. ASSUME NEW x \in Listed(s \o t) PROVE x \in Listed(s) \cup Listed(t)
  <2>1. PICK i \in 1 .. Len(s) + Len(t) : x = (s \o t)[i]
    BY <1>2, <1>3 DEF Listed
  <2>2. i <= Len(s) => i \in DOMAIN s /\ x = s[i]
    BY <1>1, <1>2, <2>1
  <2>3. ~(i <= Len(s)) => i - Len(s) \in DOMAIN t /\ x = t[i - Len(s)]
    BY <1>1, <1>2, <2>1
  <2> QED
    BY <2>2, <2>3 DEF Listed
<1>4. ASSUME NEW x \in Listed(s) PROVE x \in Listed(s \o t)
  <2>1. PICK i \in 1 .. Len(s) : x = s[i]
    BY <1>2, <1>4 DEF Listed
  <2>2. i \in DOMAIN (s \o t) /\ x = (s \o t)[i]
    BY <1>1, <1>2, <2>1
  <2> QED
    BY <2>2 DEF Listed
<1>5. ASSUME NEW x \in Listed(t) PROVE x \in Listed(s \o t)
  <2>1. PICK i \in 1 .. Len(t) : x = t[i]
    BY <1>2, <1>5 DEF Listed
  <2>2. i + Len(s) \in 1 .. Len(s) + Len(t) /\ ~(i + Len(s) <= Len(s)) /\ i + Len(s) - Len(s) = i
    BY <1>2, <2>1
  <2>3. i + Len(s) \in DOMAIN (s \o t) /\ x = (s \o t)[i + Len(s)]
    BY <1>1, <1>2, <2>1, <2>2
  <2> QED
    BY <2>3 DEF Listed
<1> QED
  BY <1>1, <1>3, <1>4, <1>5

(* What the lists hold.                                                        *)
LEMMA ResourceLists ==
  ASSUME NEW p \in Projects, NEW phase
  PROVE  /\ Wanted(p, phase) \in ShortLists
         /\ Listed(Wanted(p, phase)) \subseteq {Build, HeavyIo, Registry, Lock(p)}
         /\ RequiresProjectLock(phase) => Lock(p) \in Listed(Wanted(p, phase))
         /\ SuspendOrder(p, phase) \in ShortLists
         /\ Listed(SuspendOrder(p, phase)) \subseteq {Build, HeavyIo, Registry, Disk(p), Lock(p)}
         /\ TidyOrder(p, phase) \in ShortLists
         /\ Listed(TidyOrder(p, phase)) \subseteq {Build, HeavyIo, Registry}
         /\ CleanupOrder(p, phase) \in ShortLists
         /\ Listed(CleanupOrder(p, phase)) \subseteq {Build, HeavyIo, Registry, Disk(p), Lock(p)}
<1>1. {Build, HeavyIo, Registry, Disk(p), Lock(p)} \subseteq Resources
  BY DEF Build, HeavyIo, Registry, Disk, Lock, Resources, Globals
<1>2. /\ \A r \in Resources : <<r>> \in Seq(Resources) /\ Len(<<r>>) = 1 /\ Listed(<<r>>) = {r}
      /\ << >> \in Seq(Resources) /\ Len(<< >>) = 0 /\ Listed(<< >>) = {}
  <2>1. ASSUME NEW r \in Resources
        PROVE  <<r>> \in Seq(Resources) /\ Len(<<r>>) = 1 /\ Listed(<<r>>) = {r}
    <3>1. DOMAIN <<r>> = {1} /\ <<r>>[1] = r
      OBVIOUS
    <3> QED
      BY <3>1 DEF Listed
  <2> QED
    BY <2>1 DEF Listed
<1>3. /\ PhaseResource(phase) \in Seq(Resources) /\ Len(PhaseResource(phase)) \in {0, 1}
      /\ Listed(PhaseResource(phase)) \subseteq {Build, HeavyIo}
  <2>1. PhaseResource(phase) \in {<<Build>>, <<HeavyIo>>, << >>}
    BY DEF PhaseResource
  <2>2. Build \in Resources /\ HeavyIo \in Resources
    BY <1>1
  <2>3. CASE PhaseResource(phase) = <<Build>>
    BY <1>2, <2>2, <2>3
  <2>4. CASE PhaseResource(phase) = <<HeavyIo>>
    BY <1>2, <2>2, <2>4
  <2>5. CASE PhaseResource(phase) = << >>
    BY <1>2, <2>5
  <2> QED
    BY <2>1, <2>3, <2>4, <2>5
<1>4. ASSUME NEW r1 \in Resources, NEW r2 \in Resources, NEW r3 \in Resources
      PROVE  /\ <<r1, r2, r3>> \in Seq(Resources) /\ Len(<<r1, r2, r3>>) = 3
             /\ Listed(<<r1, r2, r3>>) = {r1, r2, r3}
  <2>1. DOMAIN <<r1, r2, r3>> = 1 .. 3
    OBVIOUS
  <2>2. <<r1, r2, r3>>[1] = r1 /\ <<r1, r2, r3>>[2] = r2 /\ <<r1, r2, r3>>[3] = r3
    OBVIOUS
  <2>3. Listed(<<r1, r2, r3>>) = {r1, r2, r3}
    BY <2>1, <2>2 DEF Listed
  <2> QED
    BY <2>3
<1>5. /\ Wanted(p, phase) \in ShortLists
      /\ Listed(Wanted(p, phase)) \subseteq {Build, HeavyIo, Registry, Lock(p)}
      /\ RequiresProjectLock(phase) => Lock(p) \in Listed(Wanted(p, phase))
  <2>1. PICK s : s = (IF RequiresRegistry(phase) THEN <<Registry>> ELSE << >>)
    OBVIOUS
  <2>2. PICK t : t = (IF RequiresProjectLock(phase) THEN <<Lock(p)>> ELSE << >>)
    OBVIOUS
  <2>3. /\ s \in Seq(Resources) /\ Len(s) \in {0, 1} /\ Listed(s) \subseteq {Registry}
        /\ t \in Seq(Resources) /\ Len(t) \in {0, 1} /\ Listed(t) \subseteq {Lock(p)}
        /\ RequiresProjectLock(phase) => Lock(p) \in Listed(t)
    BY <1>1, <1>2, <2>1, <2>2
  <2>4. /\ s \o t \in Seq(Resources) /\ Len(s \o t) = Len(s) + Len(t)
        /\ Listed(s \o t) = Listed(s) \cup Listed(t)
    BY <2>3, Joined
  <2>5. PICK u : u = s \o t
    OBVIOUS
  <2>6. PICK v : v = PhaseResource(phase)
    OBVIOUS
  <2>7. /\ u \o v \in Seq(Resources) /\ Len(u \o v) = Len(u) + Len(v)
        /\ Listed(u \o v) = Listed(u) \cup Listed(v)
    BY <1>3, <2>4, <2>5, <2>6, Joined
  <2>8. Wanted(p, phase) = u \o v
    BY <2>1, <2>2, <2>5, <2>6 DEF Wanted
  <2>9. Len(u \o v) \in 0 .. 4
    <3>1. PICK i \in {0, 1} : i = Len(s)
      BY <2>3
    <3>2. PICK j \in {0, 1} : j = Len(t)
      BY <2>3
    <3>3. PICK k \in {0, 1} : k = Len(v)
      BY <1>3, <2>6
    <3>4. Len(u \o v) = i + j + k
      BY <3>1, <3>2, <3>3, <2>4, <2>5, <2>7
    <3>5. \A x, y, z \in {0, 1} : x + y \in 0 .. 2 /\ x + y + z \in 0 .. 4
      <4>1. \A x, y \in {0, 1} : x + y \in 0 .. 2
        OBVIOUS
      <4>2. \A w \in 0 .. 2, z \in {0, 1} : w + z \in 0 .. 4
        OBVIOUS
      <4> QED
        BY <4>1, <4>2
    <3> QED
      BY <3>1, <3>2, <3>3, <3>4, <3>5
  <2> QED
    BY <1>3, <2>3, <2>4, <2>5, <2>6, <2>7, <2>8, <2>9 DEF ShortLists
<1>6. /\ SuspendOrder(p, phase) \in ShortLists
      /\ Listed(SuspendOrder(p, phase)) \subseteq {Build, HeavyIo, Registry, Disk(p), Lock(p)}
  <2>1. PICK s : s = PhaseResource(phase)
    OBVIOUS
  <2>2. PICK t : t = <<Disk(p), Registry, Lock(p)>>
    OBVIOUS
  <2>3. t \in Seq(Resources) /\ Len(t) = 3 /\ Listed(t) = {Disk(p), Registry, Lock(p)}
    BY <1>1, <1>4, <2>2
  <2>4. /\ s \o t \in Seq(Resources) /\ Len(s \o t) = Len(s) + Len(t)
        /\ Listed(s \o t) = Listed(s) \cup Listed(t)
    BY <1>3, <2>1, <2>3, Joined
  <2>5. SuspendOrder(p, phase) = s \o t
    BY <2>1, <2>2 DEF SuspendOrder
  <2>6. Len(s \o t) \in 0 .. 4
    <3>1. PICK i \in {0, 1, 3} : i = Len(s)
      BY <1>3, <2>1, <2>3
    <3>2. PICK j \in {0, 1, 3} : j = Len(t)
      BY <1>3, <2>1, <2>3
    <3>3. i \in {0, 1} \/ j \in {0, 1}
      BY <1>3, <2>1, <2>3, <3>1, <3>2
    <3>4. Len(s \o t) = i + j
      BY <2>4, <3>1, <3>2
    <3>5. i + j \in 0 .. 4
      BY SMTT(60), <3>1, <3>2, <3>3
    <3> QED
      BY <3>4, <3>5
  <2> QED
    BY <1>3, <2>1, <2>3, <2>4, <2>5, <2>6 DEF ShortLists
<1>7. /\ TidyOrder(p, phase) \in ShortLists
      /\ Listed(TidyOrder(p, phase)) \subseteq {Build, HeavyIo, Registry}
  <2>1. PICK s : s = PhaseResource(phase)
    OBVIOUS
  <2>2. PICK t : t = (IF phase = "deploying" THEN <<Registry>> ELSE << >>)
    OBVIOUS
  <2>3. t \in Seq(Resources) /\ Len(t) \in {0, 1} /\ Listed(t) \subseteq {Registry}
    BY <1>1, <1>2, <2>2
  <2>4. /\ s \o t \in Seq(Resources) /\ Len(s \o t) = Len(s) + Len(t)
        /\ Listed(s \o t) = Listed(s) \cup Listed(t)
    BY <1>3, <2>1, <2>3, Joined
  <2>5. TidyOrder(p, phase) = s \o t
    BY <2>1, <2>2 DEF TidyOrder
  <2>6. Len(s \o t) \in 0 .. 4
    <3>1. PICK i \in {0, 1, 3} : i = Len(s)
      BY <1>3, <2>1, <2>3
    <3>2. PICK j \in {0, 1, 3} : j = Len(t)
      BY <1>3, <2>1, <2>3
    <3>3. i \in {0, 1} \/ j \in {0, 1}
      BY <1>3, <2>1, <2>3, <3>1, <3>2
    <3>4. Len(s \o t) = i + j
      BY <2>4, <3>1, <3>2
    <3>5. i + j \in 0 .. 4
      BY SMTT(60), <3>1, <3>2, <3>3
    <3> QED
      BY <3>4, <3>5
  <2> QED
    BY <1>3, <2>1, <2>3, <2>4, <2>5, <2>6 DEF ShortLists
<1>8. /\ CleanupOrder(p, phase) \in ShortLists
      /\ Listed(CleanupOrder(p, phase)) \subseteq {Build, HeavyIo, Registry, Disk(p), Lock(p)}
  <2>1. PICK t : t = PhaseResource(phase)
    OBVIOUS
  <2>2. PICK s : s = <<Lock(p), Disk(p), Registry>>
    OBVIOUS
  <2>3. s \in Seq(Resources) /\ Len(s) = 3 /\ Listed(s) = {Disk(p), Registry, Lock(p)}
    BY <1>1, <1>4, <2>2
  <2>4. /\ s \o t \in Seq(Resources) /\ Len(s \o t) = Len(s) + Len(t)
        /\ Listed(s \o t) = Listed(s) \cup Listed(t)
    BY <1>3, <2>1, <2>3, Joined
  <2>5. CleanupOrder(p, phase) = s \o t
    BY <2>1, <2>2 DEF CleanupOrder
  <2>6. Len(s \o t) \in 0 .. 4
    <3>1. PICK i \in {0, 1, 3} : i = Len(s)
      BY <1>3, <2>1, <2>3
    <3>2. PICK j \in {0, 1, 3} : j = Len(t)
      BY <1>3, <2>1, <2>3
    <3>3. i \in {0, 1} \/ j \in {0, 1}
      BY <1>3, <2>1, <2>3, <3>1, <3>2
    <3>4. Len(s \o t) = i + j
      BY <2>4, <3>1, <3>2
    <3>5. i + j \in 0 .. 4
      BY SMTT(60), <3>1, <3>2, <3>3
    <3> QED
      BY <3>4, <3>5
  <2> QED
    BY <1>3, <2>1, <2>3, <2>4, <2>5, <2>6 DEF ShortLists
<1> QED
  BY <1>5, <1>6, <1>7, <1>8

--------------------------------------------------------------------------------
(* Steps that take or give back a resource.                                    *)

(* A call that stays where it is while its attempt stays the same.             *)
LEMMA UnmovedCall ==
  ASSUME ExecInv, NEW p \in Projects, UNCHANGED <<thr, vars>>, \A b \in Attempts : LocalSame(b),
         thr[p].pc \in {"prove", "effect"} => ticket'[p] = ticket[p],
         thr[p].pc \in {"identity", "apply", "admit", "prove", "effect"} =>
           owner'[Lock(p)] = owner[Lock(p)]
  PROVE  /\ thr' \in [Projects -> Threads] /\ CallInv(p, thr[p])'
         /\ \A q \in Projects : q # p => thr'[q] = thr[q]
<1>1. HostTypes /\ Parts
  BY InvParts
<1>2. PICK t : t = thr[p]
  OBVIOUS
<1>3. CallInv(p, t) /\ fence' = fence /\ held' = held /\ tampers' = tampers
  BY <1>1, <1>2 DEF Parts, vars, fenceVars
<1>4. t.pc \notin {"idle", "recovered"} => LocalSame(t.a)
  BY <1>3 DEF CallInv, CallBound
<1>5. CallInv(p, t)'
  BY <1>2, <1>3, <1>4, CallKept
<1> QED
  BY <1>1, <1>2, <1>5 DEF HostTypes

(* Reserving the disk.                                                         *)
LEMMA ReserveDiskSafe ==
  ASSUME ExecInv, NEW p \in Projects, ReserveDisk(p)
  PROVE  Safe
<1> SUFFICES ASSUME NEW a, a = thr[p].a PROVE Safe
  OBVIOUS
<1>1. thr[p].pc = "disk"
  BY DEF ReserveDisk, At
<1>2. /\ HostTypes /\ CallInv(p, thr[p]) /\ a \in Attempts /\ ProjectOf[a] = p
  BY <1>1, CallFacts
<1>3. /\ UNCHANGED <<vars, ctl, recovered, effect, ticket, faults>>
      /\ "acquire" \in PCs /\ thr[p].why \in Whys
      /\ faults' \in Nat /\ recovered' \subseteq Projects
  BY <1>2 DEF ReserveDisk, PCs, HostTypes, Threads
<1>4. /\ ctl[a].mode # "reconciliation"
      /\ Running(a) \/ ~CrossesMutationBoundary(PhaseOf(a))
      /\ ctl[a].mode = "none" => takeover[a] = "none"
      /\ journal[a][KeyOf(a)] \in {"intent", "observed", "verified"}
      /\ thr[p].why \notin {"recover", "sweep"}
  BY <1>1, <1>2, RowAtStep DEF CallInv, CallBound, CallInPhase, InPhase, WorkPCs, FencePCs
<1>5. \A t : t.pc = "acquire" /\ t.a = a /\ t.why = thr[p].why => CallInv(p, t)
  BY <1>2, <1>4, RowAtStep DEF CallInv, CallBound, CallInPhase, InPhase, WorkPCs, FencePCs,
     CallAdmits, CallOwns, CallFences, CallEnds, Untouched, Admitting
<1>6. CASE Goto(p, "acquire") /\ UNCHANGED owner
  BY <1>3, <1>5, <1>6, QuietGoto
<1>7. CASE Return(p) /\ UNCHANGED owner
  BY <1>3, <1>7, QuietReturn
<1>8. CASE /\ owner[Disk(p)] = NoAttempt /\ owner' = [owner EXCEPT ![Disk(p)] = a]
           /\ Goto(p, "acquire")
  <2>1. \A b \in Attempts : LocalSame(b)
    BY <1>3 DEF LocalSame, vars, journalVars
  <2>2. /\ thr' \in [Projects -> Threads] /\ CallInv(p, thr[p])'
        /\ \A q \in Projects : q # p => thr'[q] = thr[q]
    BY <1>3, <1>5, <1>8, <2>1, KeptCall
  <2>3. Disk(p) \in Resources /\ \A q \in Projects : Disk(p) # Lock(q)
    BY Locks
  <2> QED
    BY <1>2, <1>3, <1>8, <2>2, <2>3, OwnerStep
<1> QED
  BY <1>6, <1>7, <1>8 DEF ReserveDisk

(* Acquiring what the phase wants, one resource after the other.               *)
LEMMA AcquireResourceSafe ==
  ASSUME ExecInv, NEW p \in Projects, AcquireResource(p)
  PROVE  Safe
<1> SUFFICES ASSUME NEW a, a = thr[p].a PROVE Safe
  OBVIOUS
<1>1. thr[p].pc = "acquire"
  BY DEF AcquireResource, At
<1>2. /\ HostTypes /\ CallInv(p, thr[p]) /\ a \in Attempts /\ ProjectOf[a] = p
  BY <1>1, CallFacts
<1>3. /\ UNCHANGED <<vars, ctl, recovered, effect, ticket, faults>>
      /\ "identity" \in PCs /\ "apply" \in PCs /\ thr[p].why \in Whys
      /\ faults' \in Nat /\ recovered' \subseteq Projects
  BY <1>2 DEF AcquireResource, PCs, HostTypes, Threads
<1>4. /\ ctl[a].mode # "reconciliation"
      /\ Running(a) \/ ~CrossesMutationBoundary(PhaseOf(a))
      /\ ctl[a].mode = "none" => takeover[a] = "none"
      /\ journal[a][KeyOf(a)] \in {"intent", "observed", "verified"}
      /\ thr[p].why \notin {"recover", "sweep"}
  BY <1>1, <1>2, RowAtStep DEF CallInv, CallBound, CallInPhase, InPhase, WorkPCs, FencePCs
<1>5. CASE /\ Missing(p, a) = {} /\ UNCHANGED owner
           /\ Goto(p, IF NeedsIdentity(a) THEN "identity" ELSE "apply")
  <2>1. RequiresProjectLock(PhaseOf(a)) => owner[Lock(p)] = a
    BY <1>5, ResourceLists DEF Missing
  <2>2. ASSUME NEW pc \in {"identity", "apply"}, pc = "identity" => NeedsIdentity(a)
        PROVE  \A t : t.pc = pc /\ t.a = a /\ t.why = thr[p].why => CallInv(p, t)
    BY <1>2, <1>4, <2>1, <2>2, RowAtStep
       DEF CallInv, CallBound, CallInPhase, InPhase, WorkPCs, FencePCs,
       CallAdmits, CallOwns, CallFences, CallEnds, Untouched, Admitting
  <2>3. PICK pc \in {"identity", "apply"} : Goto(p, pc) /\ (pc = "identity" => NeedsIdentity(a))
    BY <1>5
  <2>4. \A t : t.pc = pc /\ t.a = a /\ t.why = thr[p].why => CallInv(p, t)
    BY <2>2, <2>3
  <2> QED
    BY <1>3, <1>5, <2>3, <2>4, QuietGoto
<1>6. CASE Return(p) /\ UNCHANGED owner
  BY <1>3, <1>6, QuietReturn
<1>7. ASSUME NEW next, next = FirstIn(Wanted(p, PhaseOf(a)), Missing(p, a)),
             Missing(p, a) # {}, owner[next] = NoAttempt,
             owner' = [owner EXCEPT ![next] = a], UNCHANGED thr
      PROVE  Safe
  <2>1. /\ Wanted(p, PhaseOf(a)) \in ShortLists
        /\ Missing(p, a) \subseteq Listed(Wanted(p, PhaseOf(a)))
    BY ResourceLists DEF Missing
  <2>2. next \in Missing(p, a)
    BY <1>7, <2>1, FirstIsIn
  <2>3. next \in {Build, HeavyIo, Registry, Lock(p)}
    BY <2>1, <2>2, ResourceLists
  <2>4. next \in Resources /\ \A q \in Projects : next = Lock(q) => q = p
    BY <2>3, Locks DEF Resources, Globals, Build, HeavyIo, Registry
  <2>5. \A b \in Attempts : LocalSame(b)
    BY <1>3 DEF LocalSame, vars, journalVars
  <2>6. /\ thr' \in [Projects -> Threads] /\ CallInv(p, thr[p])'
        /\ \A q \in Projects : q # p => thr'[q] = thr[q]
    BY <1>1, <1>3, <1>7, <2>5, UnmovedCall
  <2>7. a # NoAttempt
    BY <1>2, AttemptAssumption
  <2> QED
    BY ZenonT(60), <1>2, <1>3, <1>7, <2>4, <2>6, <2>7, OwnerStep
<1>8. \/ /\ Missing(p, a) = {} /\ UNCHANGED owner
         /\ Goto(p, IF NeedsIdentity(a) THEN "identity" ELSE "apply")
      \/ Return(p) /\ UNCHANGED owner
      \/ \E next : /\ next = FirstIn(Wanted(p, PhaseOf(a)), Missing(p, a))
                   /\ Missing(p, a) # {} /\ owner[next] = NoAttempt
                   /\ owner' = [owner EXCEPT ![next] = a] /\ UNCHANGED thr
  BY DEF AcquireResource
<1> QED
  BY <1>5, <1>6, <1>7, <1>8

(* An attempt the source did not admit gives everything back.                  *)
LEMMA SuspendSafe ==
  ASSUME ExecInv, NEW p \in Projects, Suspend(p)
  PROVE  Safe
<1> SUFFICES ASSUME NEW a, a = thr[p].a PROVE Safe
  OBVIOUS
<1>1. thr[p].pc = "suspend"
  BY DEF Suspend, At
<1>2. /\ HostTypes /\ CallInv(p, thr[p]) /\ a \in Attempts /\ ProjectOf[a] = p
  BY <1>1, CallFacts
<1>3. /\ UNCHANGED <<vars, ctl, recovered, effect, ticket, faults>>
      /\ "source_settle" \in PCs /\ thr[p].why \in Whys
  BY <1>2 DEF Suspend, PCs, HostTypes, Threads
<1>4. /\ ctl[a].mode # "reconciliation"
      /\ Running(a) \/ ~CrossesMutationBoundary(PhaseOf(a))
      /\ ctl[a].mode = "none" => takeover[a] = "none"
      /\ journal[a][KeyOf(a)] = "intent"
      /\ thr[p].why \notin {"recover", "sweep"}
      /\ effect[a][KeyOf(a)] # "applied" /\ AdmissionNow(a)
  BY <1>1, <1>2, RowAtStep DEF CallInv, CallBound, CallInPhase, InPhase, WorkPCs, FencePCs,
     CallAdmits, Untouched, Admitting
<1>5. CASE Goto(p, "source_settle") /\ UNCHANGED owner
  <2>1. \A t : t.pc = "source_settle" /\ t.a = a /\ t.why = thr[p].why => CallInv(p, t)
    BY <1>2, <1>4, RowAtStep DEF CallInv, CallBound, CallInPhase, InPhase, WorkPCs, FencePCs,
       CallAdmits, CallOwns, CallFences, CallEnds, Untouched, Admitting
  <2> QED
    BY <1>3, <1>5, <2>1, QuietGoto
<1>6. ASSUME NEW r, r = FirstIn(SuspendOrder(p, PhaseOf(a)), Owned(a, SuspendOrder(p, PhaseOf(a)))),
             Owned(a, SuspendOrder(p, PhaseOf(a))) # {},
             owner' = [owner EXCEPT ![r] = NoAttempt], UNCHANGED thr
      PROVE  Safe
  <2>1. /\ SuspendOrder(p, PhaseOf(a)) \in ShortLists
        /\ Owned(a, SuspendOrder(p, PhaseOf(a))) \subseteq Listed(SuspendOrder(p, PhaseOf(a)))
    BY ResourceLists DEF Owned
  <2>2. r \in Owned(a, SuspendOrder(p, PhaseOf(a)))
    BY <1>6, <2>1, FirstIsIn
  <2>3. r \in {Build, HeavyIo, Registry, Disk(p), Lock(p)} /\ owner[r] = a
    BY <2>1, <2>2, ResourceLists DEF Owned
  <2>4. r \in Resources /\ \A q \in Projects : r = Lock(q) => q = p
    BY <2>3, Locks DEF Resources, Globals, Build, HeavyIo, Registry
  <2>5. \A b \in Attempts : LocalSame(b)
    BY <1>3 DEF LocalSame, vars, journalVars
  <2>6. /\ thr' \in [Projects -> Threads] /\ CallInv(p, thr[p])'
        /\ \A q \in Projects : q # p => thr'[q] = thr[q]
    BY <1>1, <1>3, <1>6, <2>5, UnmovedCall
  <2>7. /\ \A k \in Keys : MutatingKey(k) => effect[a][k] # "applied"
        /\ Reserved(drain[p]) => drain[p].attempt # a
        /\ fence[p].state \in {"acquire_intent", "held", "release_intent"} =>
             fence[p].attempt # a
    BY <1>1, AdmissionClean DEF Admitting
  <2> QED
    BY <1>2, <1>3, <1>6, <2>3, <2>4, <2>6, <2>7, OwnerStep
<1> QED
  BY <1>5, <1>6 DEF Suspend

(* A committed phase gives back what it used one phase long.                   *)
LEMMA TidySafe ==
  ASSUME ExecInv, NEW p \in Projects, Tidy(p)
  PROVE  Safe
<1> SUFFICES ASSUME NEW a, a = thr[p].a PROVE Safe
  OBVIOUS
<1>1. thr[p].pc \in {"tidy", "reconcile_tidy"}
  BY DEF Tidy
<1>2. /\ HostTypes /\ CallInv(p, thr[p]) /\ a \in Attempts /\ ProjectOf[a] = p
  BY <1>1, CallFacts
<1>3. /\ UNCHANGED <<vars, ctl, recovered, effect, ticket, faults>>
      /\ {"reconcile_commit", "soaked", "project"} \subseteq PCs /\ thr[p].why \in Whys
  BY <1>2 DEF Tidy, PCs, HostTypes, Threads
<1>4. thr[p].why \notin {"recover", "sweep"}
  BY <1>1, <1>2 DEF CallInv, CallBound, FencePCs
<1>5. CASE Goto(p, "reconcile_commit") /\ UNCHANGED owner /\ thr[p].pc = "reconcile_tidy"
  <2>1. /\ ctl[a].mode = "reconciliation" /\ ctl[a].from = CompletionPhase(KindOf[a])
        /\ Committed(a, ctl[a].from)
    BY <1>2, <1>5 DEF CallInv, CallEnds
  <2>2. \A t : t.pc = "reconcile_commit" /\ t.a = a /\ t.why = thr[p].why => CallInv(p, t)
    BY <1>2, <1>4, <2>1 DEF CallInv, CallBound, CallInPhase, InPhase, WorkPCs, FencePCs,
       CallAdmits, CallOwns, CallFences, CallEnds, Untouched, Admitting
  <2> QED
    BY <1>3, <1>5, <2>2, QuietGoto
<1>6. ASSUME NEW pc \in {"soaked", "project"}, Goto(p, pc), UNCHANGED owner, thr[p].pc = "tidy",
             pc = "soaked" <=> PhaseOf(a) = "soaking"
      PROVE  Safe
  <2>1. /\ ctl[a].mode # "reconciliation"
        /\ Running(a) \/ ~CrossesMutationBoundary(PhaseOf(a))
        /\ ctl[a].mode = "none" => takeover[a] = "none"
        /\ journal[a][KeyOf(a)] = "committed"
    BY <1>2, <1>6, RowAtStep DEF CallInv, CallInPhase, InPhase, WorkPCs
  <2>2. \A t : t.pc = pc /\ t.a = a /\ t.why = thr[p].why => CallInv(p, t)
    BY <1>2, <1>4, <1>6, <2>1, RowAtStep
       DEF CallInv, CallBound, CallInPhase, InPhase, WorkPCs, FencePCs,
       CallAdmits, CallOwns, CallFences, CallEnds, Untouched, Admitting
  <2> QED
    BY <1>3, <1>6, <2>2, QuietGoto
<1>7. ASSUME NEW phase, NEW r, r = FirstIn(TidyOrder(p, phase), Owned(a, TidyOrder(p, phase))),
             Owned(a, TidyOrder(p, phase)) # {},
             owner' = [owner EXCEPT ![r] = NoAttempt], UNCHANGED thr
      PROVE  Safe
  <2>1. /\ TidyOrder(p, phase) \in ShortLists
        /\ Owned(a, TidyOrder(p, phase)) \subseteq Listed(TidyOrder(p, phase))
    BY ResourceLists DEF Owned
  <2>2. r \in Owned(a, TidyOrder(p, phase))
    BY <1>7, <2>1, FirstIsIn
  <2>3. r \in {Build, HeavyIo, Registry} /\ owner[r] = a
    BY <2>1, <2>2, ResourceLists DEF Owned
  <2>4. /\ r \in Resources /\ r # Lock(p)
        /\ \A q \in Projects : r = Lock(q) => q = p
    BY <2>3, Locks DEF Resources, Globals, Build, HeavyIo, Registry
  <2>5. \A b \in Attempts : LocalSame(b)
    BY <1>3 DEF LocalSame, vars, journalVars
  <2>6. /\ thr' \in [Projects -> Threads] /\ CallInv(p, thr[p])'
        /\ \A q \in Projects : q # p => thr'[q] = thr[q]
    BY <1>1, <1>3, <1>7, <2>5, UnmovedCall
  <2> QED
    BY ZenonT(60), <1>2, <1>3, <1>7, <2>3, <2>4, <2>6, OwnerStep
<1>8. \/ Goto(p, "reconcile_commit") /\ UNCHANGED owner /\ thr[p].pc = "reconcile_tidy"
      \/ \E pc \in {"soaked", "project"} :
           /\ Goto(p, pc) /\ UNCHANGED owner /\ thr[p].pc = "tidy"
           /\ pc = "soaked" <=> PhaseOf(a) = "soaking"
      \/ \E phase, r : /\ r = FirstIn(TidyOrder(p, phase), Owned(a, TidyOrder(p, phase)))
                       /\ Owned(a, TidyOrder(p, phase)) # {}
                       /\ owner' = [owner EXCEPT ![r] = NoAttempt] /\ UNCHANGED thr
  BY <1>1 DEF Tidy, At
<1> QED
  BY <1>5, <1>6, <1>7, <1>8

(* A finished attempt gives everything back.                                   *)
LEMMA CleanupSafe ==
  ASSUME ExecInv, NEW p \in Projects, Cleanup(p)
  PROVE  Safe
<1> SUFFICES ASSUME NEW a, a = thr[p].a PROVE Safe
  OBVIOUS
<1>1. thr[p].pc = "cleanup"
  BY DEF Cleanup, At
<1>2. /\ HostTypes /\ CallInv(p, thr[p]) /\ ProjectInv(p) /\ a \in Attempts /\ ProjectOf[a] = p
  BY <1>1, CallFacts
<1>3. /\ UNCHANGED <<vars, ctl, recovered, effect, ticket, faults>>
      /\ faults' \in Nat /\ recovered' \subseteq Projects
  BY <1>2 DEF Cleanup, HostTypes
<1>4. ~Running(a)
  BY <1>1, <1>2 DEF CallInv, CallEnds
<1>5. CASE Return(p) /\ UNCHANGED owner
  BY <1>3, <1>5, QuietReturn
<1>6. ASSUME NEW r, r = FirstIn(CleanupOrder(p, PhaseOf(a)), Owned(a, CleanupOrder(p, PhaseOf(a)))),
             Owned(a, CleanupOrder(p, PhaseOf(a))) # {},
             owner' = [owner EXCEPT ![r] = NoAttempt], UNCHANGED thr
      PROVE  Safe
  <2>1. /\ CleanupOrder(p, PhaseOf(a)) \in ShortLists
        /\ Owned(a, CleanupOrder(p, PhaseOf(a))) \subseteq Listed(CleanupOrder(p, PhaseOf(a)))
    BY ResourceLists DEF Owned
  <2>2. r \in Owned(a, CleanupOrder(p, PhaseOf(a)))
    BY <1>6, <2>1, FirstIsIn
  <2>3. r \in {Build, HeavyIo, Registry, Disk(p), Lock(p)} /\ owner[r] = a
    BY <2>1, <2>2, ResourceLists DEF Owned
  <2>4. r \in Resources /\ \A q \in Projects : r = Lock(q) => q = p
    BY <2>3, Locks DEF Resources, Globals, Build, HeavyIo, Registry
  <2>5. \A b \in Attempts : LocalSame(b)
    BY <1>3 DEF LocalSame, vars, journalVars
  <2>6. /\ thr' \in [Projects -> Threads] /\ CallInv(p, thr[p])'
        /\ \A q \in Projects : q # p => thr'[q] = thr[q]
    BY <1>1, <1>3, <1>6, <2>5, UnmovedCall
  <2>7. /\ Reserved(drain[p]) => drain[p].attempt # a
        /\ fence[p].state \in {"acquire_intent", "held", "release_intent"} =>
             fence[p].attempt # a
    BY <1>2, <1>4 DEF ProjectInv, DrainOwned, FenceOwned
  <2> QED
    BY ZenonT(60), <1>2, <1>3, <1>4, <1>6, <2>3, <2>4, <2>6, <2>7, OwnerStep
<1> QED
  BY <1>5, <1>6 DEF Cleanup

--------------------------------------------------------------------------------
(* Steps that write the journal row of the current phase, its effect, or both. *)
LEMMA RowWritten ==
  ASSUME ExecInv, NEW p \in Projects, NEW a \in Attempts, ProjectOf[a] = p,
         NEW k \in Keys, k = KeyOf(a), NEW s \in Statuses \ {"none"}, [Next]_vars,
         \A b \in Attempts, m \in Keys :
           journal'[b][m] = IF b = a /\ m = k THEN s ELSE journal[b][m],
         UNCHANGED <<takeover, fence, drain, held, tampers, ctl, recovered, owner, ticket>>,
         Fault \/ UNCHANGED faults,
         boundary'[p] \in {boundary[p], NoLease},
         \A q \in Projects : q # p => boundary'[q] = boundary[q],
         \A b \in Attempts : b # a => proof'[b] = proof[b] /\ rejection'[b] = rejection[b],
         effect' \in [Attempts -> [Keys -> Effects]],
         \A b \in Attempts, m \in Keys : b # a \/ m # k => effect'[b][m] = effect[b][m],
         ctl[a].mode # "reconciliation",
         takeover[a] # "none" => ctl[a].mode = "rollback",
         Committed(a, k) => s = "committed",
         s \in {"observed", "verified", "committed"} => effect'[a][k] = "applied",
         HoldsSource(a)', HoldsLock(a)',
         rejection'[a] = "abort_pending" =>
           IsDeploy(KindOf[a]) /\ journal'[a][AdmissionPhase(KindOf[a])] = "needs_reconcile",
         journal[a][k] = "none" /\ k = "cutover_snapshotting" =>
           fence[p].attempt = a /\ fence[p].state = "held",
         thr' \in [Projects -> Threads], CallInv(p, thr[p])',
         \A q \in Projects : q # p => thr'[q] = thr[q]
  PROVE  Safe
<1>1. HostTypes /\ Parts /\ FenceInv /\ FenceInv'
  BY InvParts, FenceStepSafe
<1>2. HostTypes'
  BY <1>1, FaultType DEF HostTypes, ControllerTypeOK
<1>3. /\ journal \in [Attempts -> [Keys -> Statuses]]
      /\ journal' \in [Attempts -> [Keys -> Statuses]]
      /\ effect \in [Attempts -> [Keys -> Effects]]
  BY <1>1 DEF FenceInv, JournalInv, JournalTypeOK, HostTypes
<1>4. \A b \in Attempts : b # a => LocalSame(b)
  <2> SUFFICES ASSUME NEW b \in Attempts, b # a PROVE LocalSame(b)
    OBVIOUS
  <2>1. journal'[b] = journal[b]
    BY <1>3
  <2>2. effect'[b] = effect[b]
    BY <1>3
  <2> QED
    BY <2>1, <2>2 DEF LocalSame
<1>5. \A q \in Projects : q # p => SiteSame(q)
  BY DEF SiteSame
<1>6. /\ AttemptInv(a) /\ LinkInv(a) /\ ProjectInv(p) /\ KindOf[a] \in Kinds
  BY <1>1, AttemptAssumption DEF Parts
<1>7. /\ ctl[a].mode \in {"none", "rollback"}
      /\ ctl[a].mode = "none" => k = ctl[a].phase /\ k \in Phases /\ ForwardPhase(a) = k
      /\ ctl[a].mode = "rollback" => k \in RecoveryKeys /\ takeover[a] # "none"
  BY <1>1, <1>6 DEF HostTypes, ControllerTypeOK, Modes, AttemptInv, ShownShape, KeyOf, BranchOf,
     StorageKey, RecoveryKeys, ForwardPhase, RowsExplained
<1>8. /\ ForwardPhase(a)' = ForwardPhase(a) /\ Before(a)' = Before(a)
      /\ Running(a)' = Running(a) /\ KeyOf(a)' = KeyOf(a)
  BY DEF ForwardPhase, Before, Running, KeyOf, BranchOf
<1>9. /\ \A m \in Keys : m # k => journal'[a][m] = journal[a][m] /\ effect'[a][m] = effect[a][m]
      /\ journal'[a][k] = s /\ s # "none"
      /\ \A m \in Keys : Committed(a, m) => Committed(a, m)'
      /\ \A m \in Keys : m # k => (Committed(a, m)' <=> Committed(a, m))
  BY <1>3 DEF Committed
<1>10. Phases \cap RecoveryKeys = {} /\ Phases \subseteq Keys /\ RecoveryKeys \subseteq Keys
  BY KeysDisjoint
<1>11. AttemptInv(a)'
  <2>1. ShownShape(a)'
    BY <1>6 DEF AttemptInv, ShownShape
  <2>2. ForwardRun(a)'
    BY <1>6, <1>7, <1>8, <1>9 DEF AttemptInv, ForwardRun
  <2>3. SealedRun(a)'
    BY <1>6, <1>7, <1>8, <1>9, <1>10 DEF AttemptInv, SealedRun
  <2>4. RowsExplained(a)'
    <3>1. \A m \in Phases : journal'[a][m] # "none" => InPlan(KindOf[a], m)
      BY <1>6, <1>7, <1>9, <1>10 DEF AttemptInv, RowsExplained, ForwardRun
    <3>2. \A m \in ctl[a].projected : m \in Keys /\ Committed(a, m)'
      BY <1>1, <1>6, <1>9 DEF AttemptInv, RowsExplained, HostTypes, ControllerTypeOK
    <3>3. \A m \in Keys :
            /\ journal'[a][m] \in {"observed", "verified", "committed"} => effect'[a][m] = "applied"
            /\ effect'[a][m] = "applied" => journal'[a][m] # "none"
      BY <1>6, <1>9 DEF AttemptInv, RowsExplained
    <3>4. ctl[a].mode = "rollback" \/ (\E m \in RecoveryKeys : journal'[a][m] # "none")
            => takeover[a] # "none"
      BY <1>6, <1>7, <1>9, <1>10 DEF AttemptInv, RowsExplained
    <3> QED
      BY <3>1, <3>2, <3>3, <3>4 DEF RowsExplained
  <2>5. EndedRun(a)'
    BY <1>6, <1>9, <1>10 DEF AttemptInv, EndedRun, RecoveryKeys
  <2> QED
    BY <2>1, <2>2, <2>3, <2>4, <2>5 DEF AttemptInv
<1>12. LinkInv(a)'
  <2>1. "cutover_snapshotting" \in Keys
    BY DEF Keys, Phases
  <2>2. HoldsFence(a)'
    BY <1>6, <1>8, <1>9, <2>1 DEF LinkInv, HoldsFence
  <2> QED
    BY <2>2 DEF LinkInv
<1>13. ProjectInv(p)'
  <2>1. "cutover_snapshotting" \in Keys /\ "backing_up" \in Keys
    BY DEF Keys, Phases
  <2>2. FenceOwned(p)' /\ BoundaryBound(p)'
    BY <1>6 DEF ProjectInv, FenceOwned, BoundaryBound, Running, Reserved
  <2>3. ASSUME Reserved(drain[p]) PROVE DrainOwned(p)'
    <3>1. PICK d \in Attempts : d = drain[p].attempt
      BY <1>6, <2>3 DEF ProjectInv, DrainOwned
    <3>2. /\ ProjectOf[d] = p /\ IsStateful(KindOf[d]) /\ Running(d) /\ owner[Lock(p)] = d
          /\ Committed(d, "backing_up") /\ journal[d]["cutover_snapshotting"] = "none"
      BY <1>6, <2>3, <3>1 DEF ProjectInv, DrainOwned
    <3>3. ~(d = a /\ k = "cutover_snapshotting")
      BY <1>1, <2>3, <3>2 DEF FenceInv, DrainIsNewest, ActiveFence
    <3>4. Committed(d, "backing_up")' /\ journal'[d]["cutover_snapshotting"] = "none"
      BY <1>9, <2>1, <3>2, <3>3 DEF Committed
    <3> QED
      BY <3>1, <3>2, <3>4 DEF DrainOwned, Running
  <2>4. DrainOwned(p)'
    BY <2>3 DEF DrainOwned, Reserved
  <2> QED
    BY <2>2, <2>4 DEF ProjectInv
<1>14. Parts'
  BY <1>4, <1>5, <1>11, <1>12, <1>13, GateFrame
<1> QED
  BY <1>2, <1>14 DEF Safe


(* The call at its next step inside the phase, when only rows, effects,        *)
(* proofs, tickets or resources changed.                                       *)
LEMMA PhaseCall ==
  ASSUME NEW p \in Projects, NEW a \in Attempts, ProjectOf[a] = p,
         NEW pc \in WorkPCs, NEW why, why \notin {"recover", "sweep"},
         UNCHANGED <<ctl, takeover, fence, held, tampers>>,
         ctl[a].mode # "reconciliation",
         Running(a) \/ ~CrossesMutationBoundary(PhaseOf(a)),
         pc # "intent" /\ ctl[a].mode = "none" => takeover[a] = "none",
         journal'[a][KeyOf(a)] \in RowAt(pc),
         pc = "soaked" => PhaseOf(a) = "soaking",
         pc \in {"refresh", "unblock"} => PhaseOf(a) = "cutover_snapshotting",
         pc \in Untouched => effect'[a][KeyOf(a)] # "applied",
         pc \in Admitting => AdmissionNow(a),
         pc \in {"untake", "compensated"} => rejection'[a] = "abort_pending",
         pc = "prove" => ticket'[p] = a,
         pc = "effect" /\ AdmissionNow(a) => ticket'[p] = a /\ proof'[a],
         pc \in {"identity", "apply", "admit", "prove", "effect"}
           /\ RequiresProjectLock(PhaseOf(a)) => owner'[Lock(p)] = a,
         pc = "identity" => NeedsIdentity(a),
         pc = "intent" /\ PhaseOf(a) = "cutover_snapshotting" =>
           fence[p].attempt = a /\ fence[p].state = "held",
         pc = "project" /\ PhaseOf(a) = "soaking" => ~ActiveFence(p),
         pc = "to_reconcile" /\ ctl[a].mode = "rollback" =>
           journal'[a][KeyOf(a)] # "committed"
  PROVE  \A t : t.pc = pc /\ t.a = a /\ t.why = why => CallInv(p, t)'
<1> SUFFICES ASSUME NEW t, t.pc = pc, t.a = a, t.why = why PROVE CallInv(p, t)'
  OBVIOUS
<1>1. /\ KeyOf(a)' = KeyOf(a) /\ PhaseOf(a)' = PhaseOf(a) /\ Running(a)' = Running(a)
      /\ AdmissionNow(a)' = AdmissionNow(a) /\ NeedsIdentity(a)' = NeedsIdentity(a)
      /\ ActiveFence(p)' = ActiveFence(p)
  BY DEF KeyOf, BranchOf, PhaseOf, Running, AdmissionNow, NeedsIdentity, ActiveFence
<1>2. /\ pc \notin FencePCs /\ pc \notin {"idle", "recovered", "cleanup", "reconcile",
           "reconcile_tidy", "reconcile_commit", "to_rollback"}
  BY DEF FencePCs, WorkPCs
<1>3. CallBound(p, t)'
  BY <1>2 DEF CallBound
<1>4. CallInPhase(p, t)'
  BY <1>1, <1>2 DEF CallInPhase, FencePCs
<1>5. CallAdmits(p, t)'
  BY <1>1 DEF CallAdmits
<1>6. CallOwns(p, t)'
  BY <1>1 DEF CallOwns
<1>7. CallFences(p, t)'
  BY <1>1, <1>2 DEF CallFences, FencePCs
<1>8. CallEnds(p, t)'
  BY <1>1, <1>2 DEF CallEnds, Committed
<1> QED
  BY <1>3, <1>4, <1>5, <1>6, <1>7, <1>8 DEF CallInv

(* The key of the phase a call is in.                                          *)
LEMMA CurrentKey ==
  ASSUME ExecInv, NEW a \in Attempts, ctl[a].mode # "reconciliation"
  PROVE  /\ BranchOf(a) \in Branches /\ PhaseOf(a) \in BranchPhases(BranchOf(a))
         /\ KeyOf(a) = StorageKey(BranchOf(a), PhaseOf(a)) /\ KeyOf(a) \in Keys
         /\ ctl[a].mode = "none" => KeyOf(a) = PhaseOf(a) /\ BranchOf(a) = "primary"
         /\ ctl[a].mode # "none" => /\ KeyOf(a) \in RecoveryKeys
                                    /\ BranchOf(a) = "rollback_recovery"
                                    /\ takeover[a] # "none"
<1>1. HostTypes /\ AttemptInv(a)
  BY InvParts DEF Parts
<1>2. ctl[a].mode \in {"none", "rollback"}
  BY <1>1 DEF HostTypes, ControllerTypeOK, Modes
<1>3. CASE ctl[a].mode = "none"
  BY <1>1, <1>3 DEF AttemptInv, ShownShape, BranchOf, Branches, PhaseOf, BranchPhases, KeyOf,
     StorageKey, Keys
<1>4. CASE ctl[a].mode = "rollback"
  BY <1>1, <1>4 DEF AttemptInv, ShownShape, RowsExplained, BranchOf, Branches, PhaseOf,
     BranchPhases, KeyOf, StorageKey, Keys, RecoveryKeys
<1> QED
  BY <1>2, <1>3, <1>4

(* The journal transactions of a phase are steps of the fence protocol.        *)
LEMMA PhaseStepFollows ==
  ASSUME ExecInv, NEW a \in Attempts, ctl[a].mode # "reconciliation", UNCHANGED fenceVars,
         \/ BeginPhaseIntent(a, BranchOf(a), PhaseOf(a))
         \/ RecordPhaseObservation(a, BranchOf(a), PhaseOf(a))
         \/ MarkPhaseVerified(a, BranchOf(a), PhaseOf(a))
         \/ /\ CommitPhaseReceipt(a, BranchOf(a), PhaseOf(a))
            /\ PhaseOf(a) = "backing_up" => boundary[ProjectOf[a]].attempt # a
         \/ MarkPhaseNeedsReconcile(a, BranchOf(a), PhaseOf(a))
         \/ RecordSourceGateProof(a)
         \/ RejectSourceGateProof(a)
         \/ CompensateSourceGateRejection(a)
  PROVE  Next
<1>1. BranchOf(a) \in Branches /\ PhaseOf(a) \in BranchPhases(BranchOf(a))
  BY CurrentKey
<1>2. JournalStep
  BY <1>1 DEF JournalStep
<1> QED
  BY <1>2 DEF Next

(* A transaction on the current row, after which the call goes on.             *)
LEMMA RowMove ==
  ASSUME ExecInv, NEW p \in Projects, NEW a \in Attempts, ProjectOf[a] = p, a = thr[p].a,
         ctl[a].mode # "reconciliation", NEW s \in Statuses \ {"none"}, [Next]_vars,
         SetStatus(a, KeyOf(a), s),
         UNCHANGED <<takeover, proof, rejection, fence, drain, held, tampers>>,
         UNCHANGED <<ctl, recovered, owner, effect, ticket>>, Fault \/ UNCHANGED faults,
         boundary'[p] \in {boundary[p], NoLease},
         \A q \in Projects : q # p => boundary'[q] = boundary[q],
         takeover[a] # "none" => ctl[a].mode = "rollback",
         ~Committed(a, KeyOf(a)),
         s \in {"observed", "verified", "committed"} => effect[a][KeyOf(a)] = "applied",
         journal[a][KeyOf(a)] # "needs_reconcile" \/ s = "needs_reconcile",
         journal[a][KeyOf(a)] = "none" /\ KeyOf(a) = "cutover_snapshotting" =>
           fence[p].attempt = a /\ fence[p].state = "held",
         NEW pc \in PCs, Goto(p, pc),
         journal'[a][KeyOf(a)] = s =>
           \A t : t.pc = pc /\ t.a = a /\ t.why = thr[p].why => CallInv(p, t)'
  PROVE  Safe
<1>1. HostTypes /\ FenceInv /\ AttemptInv(a) /\ LinkInv(a) /\ JournalTypeOK
  BY InvParts DEF Parts, FenceInv, TypeOK
<1>2. PICK k \in Keys : k = KeyOf(a)
  BY CurrentKey
<1>3. \A b \in Attempts, m \in Keys :
        journal'[b][m] = IF b = a /\ m = k THEN s ELSE journal[b][m]
  BY <1>1, <1>2, SetStatusRow
<1>4. journal'[a][KeyOf(a)] = s
  BY <1>2, <1>3
<1>5. /\ thr' \in [Projects -> Threads]
      /\ thr'[p].pc = pc /\ thr'[p].a = a /\ thr'[p].why = thr[p].why
      /\ \A q \in Projects : q # p => thr'[q] = thr[q]
  BY <1>1, CallMoves
<1>6. \A t : t.pc = pc /\ t.a = a /\ t.why = thr[p].why => CallInv(p, t)'
  BY <1>4
<1>7. CallInv(p, thr[p])'
  BY <1>5, <1>6, CallRecord
<1>8. HoldsLock(a)'
  BY <1>1 DEF LinkInv, HoldsLock, Running
<1>9. HoldsSource(a)'
  <2>1. IsDeploy(KindOf[a]) => CompletionPhase(KindOf[a]) \in Keys
    BY DEF IsDeploy, CompletionPhase, Keys, Phases
  <2>2. IsDeploy(KindOf[a]) /\ Committed(a, CompletionPhase(KindOf[a])) =>
          Committed(a, CompletionPhase(KindOf[a]))'
    BY <1>2, <1>3, <2>1 DEF Committed
  <2> QED
    BY <1>1, <2>2 DEF LinkInv, HoldsSource
<1>10. rejection'[a] = "abort_pending" =>
         IsDeploy(KindOf[a]) /\ journal'[a][AdmissionPhase(KindOf[a])] = "needs_reconcile"
  <2> SUFFICES ASSUME rejection[a] = "abort_pending"
               PROVE  /\ IsDeploy(KindOf[a])
                      /\ journal'[a][AdmissionPhase(KindOf[a])] = "needs_reconcile"
    OBVIOUS
  <2>1. IsDeploy(KindOf[a]) /\ journal[a][AdmissionPhase(KindOf[a])] = "needs_reconcile"
    BY <1>1 DEF AttemptInv, RowsExplained
  <2>2. AdmissionPhase(KindOf[a]) \in Keys
    BY <2>1, AdmissionPhaseType DEF Keys
  <2> QED
    BY <1>2, <1>3, <2>1, <2>2
<1>11. effect' \in [Attempts -> [Keys -> Effects]]
  BY <1>1 DEF HostTypes
<1>12. /\ Committed(a, k) => s = "committed"
       /\ s \in {"observed", "verified", "committed"} => effect'[a][k] = "applied"
       /\ journal[a][k] = "none" /\ k = "cutover_snapshotting" =>
            fence[p].attempt = a /\ fence[p].state = "held"
       /\ \A b \in Attempts, m \in Keys : b # a \/ m # k => effect'[b][m] = effect[b][m]
  BY <1>2
<1> QED
  BY SMTT(60), <1>2, <1>3, <1>5, <1>7, <1>8, <1>9, <1>10, <1>11, <1>12, RowWritten


(* What a call inside a phase knows.                                           *)
LEMMA PhaseFacts ==
  ASSUME ExecInv, NEW p \in Projects, thr[p].pc \in WorkPCs, NEW a, a = thr[p].a
  PROVE  /\ a \in Attempts /\ ProjectOf[a] = p /\ AttemptInv(a) /\ LinkInv(a)
         /\ HostTypes /\ FenceInv /\ ProjectInv(p) /\ CallInv(p, thr[p])
         /\ ctl[a].mode # "reconciliation"
         /\ Running(a) \/ ~CrossesMutationBoundary(PhaseOf(a))
         /\ thr[p].pc # "intent" /\ takeover[a] # "none" => ctl[a].mode = "rollback"
         /\ journal[a][KeyOf(a)] \in RowAt(thr[p].pc)
         /\ thr[p].why \notin {"recover", "sweep"} /\ thr[p].why \in Whys
<1>1. thr[p].pc \notin {"idle", "recovered"} /\ thr[p].pc \notin FencePCs
  BY DEF WorkPCs, FencePCs
<1>2. /\ a \in Attempts /\ ProjectOf[a] = p /\ AttemptInv(a) /\ LinkInv(a)
      /\ HostTypes /\ FenceInv /\ ProjectInv(p) /\ CallInv(p, thr[p])
  BY <1>1, CallFacts
<1>3. /\ ctl[a].mode # "reconciliation"
      /\ Running(a) \/ ~CrossesMutationBoundary(PhaseOf(a))
      /\ thr[p].pc # "intent" /\ ctl[a].mode = "none" => takeover[a] = "none"
      /\ journal[a][KeyOf(a)] \in RowAt(thr[p].pc)
  BY <1>2 DEF CallInv, CallInPhase, InPhase
<1>4. thr[p].why \notin {"recover", "sweep"} /\ thr[p].why \in Whys
  BY <1>1, <1>2 DEF CallInv, CallBound, HostTypes, Threads
<1>5. ctl[a].mode \in Modes
  BY <1>2 DEF HostTypes, ControllerTypeOK
<1> QED
  BY <1>2, <1>3, <1>4, <1>5 DEF Modes

(* The intent of a phase is persisted where the plan has come to.              *)
LEMMA PersistIntentSafe ==
  ASSUME ExecInv, NEW p \in Projects, PersistIntent(p)
  PROVE  Safe
<1> SUFFICES ASSUME NEW a, a = thr[p].a PROVE Safe
  OBVIOUS
<1>1. thr[p].pc = "intent" /\ thr[p].pc \in WorkPCs
  BY DEF PersistIntent, At, WorkPCs
<1>2. /\ a \in Attempts /\ ProjectOf[a] = p /\ HostTypes /\ CallInv(p, thr[p])
      /\ ctl[a].mode # "reconciliation"
      /\ Running(a) \/ ~CrossesMutationBoundary(PhaseOf(a))
      /\ thr[p].why \notin {"recover", "sweep"}
  BY <1>1, PhaseFacts
<1>3. /\ UNCHANGED <<fenceVars, ctl, recovered, owner, effect, ticket, faults>>
      /\ {"disk", "complete", "compensate"} \subseteq PCs
      /\ {"disk", "complete", "compensate"} \subseteq WorkPCs
      /\ faults' \in Nat /\ recovered' \subseteq Projects
  BY <1>2 DEF PersistIntent, PCs, WorkPCs, HostTypes
<1>4. /\ KeyOf(a) \in Keys /\ KeyOf(a) = StorageKey(BranchOf(a), PhaseOf(a))
      /\ ctl[a].mode = "none" => BranchOf(a) = "primary"
      /\ ctl[a].mode # "none" => ctl[a].mode = "rollback"
  BY <1>2, CurrentKey DEF HostTypes, ControllerTypeOK, Modes
<1>5. PhasePrerequisites(a, BranchOf(a), PhaseOf(a)) /\ ctl[a].mode = "none"
        => takeover[a] = "none"
  BY <1>4 DEF PhasePrerequisites, PrimaryPrerequisites
<1>6. CASE Return(p) /\ UNCHANGED journalVars
  BY <1>3, <1>6, QuietReturn DEF vars
<1>7. ASSUME NEW pc \in {"disk", "complete", "compensate"}, Goto(p, pc), UNCHANGED journalVars,
             PhasePrerequisites(a, BranchOf(a), PhaseOf(a)), journal[a][KeyOf(a)] \in RowAt(pc)
      PROVE  Safe
  <2>1. \A t : t.pc = pc /\ t.a = a /\ t.why = thr[p].why => CallInv(p, t)
    BY <1>2, <1>5, <1>7 DEF CallInv, CallBound, CallInPhase, InPhase, WorkPCs, FencePCs,
       CallAdmits, CallOwns, CallFences, CallEnds, Untouched, Admitting
  <2> QED
    BY <1>3, <1>7, <2>1, QuietGoto DEF vars
<1>8. CASE /\ PhasePrerequisites(a, BranchOf(a), PhaseOf(a))
           /\ BeginPhaseIntent(a, BranchOf(a), PhaseOf(a)) /\ Goto(p, "disk")
  <2>1. /\ journal[a][KeyOf(a)] = "none" /\ SetStatus(a, KeyOf(a), "intent")
        /\ UNCHANGED <<takeover, proof, rejection, trust>>
    BY <1>4, <1>8 DEF BeginPhaseIntent
  <2>2. [Next]_vars
    BY <1>2, <1>3, <1>8, PhaseStepFollows
  <2>3. KeyOf(a) = "cutover_snapshotting" => PhaseOf(a) = "cutover_snapshotting"
    BY <1>2, CurrentKey DEF RecoveryKeys
  <2>4. KeyOf(a) = "cutover_snapshotting" => fence[p].attempt = a /\ fence[p].state = "held"
    BY <1>1, <1>2, <2>3 DEF CallInv, CallFences
  <2>5. UNCHANGED <<fence, drain, boundary, held, tampers>>
    BY <1>3 DEF fenceVars
  <2>6. ASSUME journal'[a][KeyOf(a)] = "intent"
        PROVE  \A t : t.pc = "disk" /\ t.a = a /\ t.why = thr[p].why => CallInv(p, t)'
    <3>1. "disk" \in WorkPCs /\ "intent" \in RowAt("disk")
          /\ "disk" \notin Untouched \cup Admitting
      BY RowAtStep DEF WorkPCs, Untouched, Admitting
    <3> QED
      BY <1>2, <1>3, <1>5, <1>8, <2>1, <2>5, <2>6, <3>1, PhaseCall
  <2>7. takeover[a] # "none" => ctl[a].mode = "rollback"
    BY <1>4, <1>5, <1>8
  <2>8. "intent" \in Statuses \ {"none"} /\ ~Committed(a, KeyOf(a))
    BY <2>1 DEF Statuses, Committed
  <2> QED
    BY <1>2, <1>3, <1>8, <2>1, <2>2, <2>4, <2>5, <2>6, <2>7, <2>8, RowMove
<1>9. \/ Return(p) /\ UNCHANGED journalVars
      \/ /\ PhasePrerequisites(a, BranchOf(a), PhaseOf(a))
         /\ BeginPhaseIntent(a, BranchOf(a), PhaseOf(a)) /\ Goto(p, "disk")
      \/ \E pc \in {"disk", "complete", "compensate"} :
           /\ Goto(p, pc) /\ UNCHANGED journalVars
           /\ PhasePrerequisites(a, BranchOf(a), PhaseOf(a)) /\ journal[a][KeyOf(a)] \in RowAt(pc)
  BY RowAtStep DEF PersistIntent
<1> QED
  BY <1>6, <1>7, <1>8, <1>9

(* What is already there is not applied again.                                 *)
LEMMA ObserveBeforeEffectSafe ==
  ASSUME ExecInv, NEW p \in Projects, ObserveBeforeEffect(p)
  PROVE  Safe
<1> SUFFICES ASSUME NEW a, a = thr[p].a PROVE Safe
  OBVIOUS
<1>1. thr[p].pc = "apply" /\ thr[p].pc \in WorkPCs
  BY DEF ObserveBeforeEffect, At, WorkPCs
<1>2. /\ a \in Attempts /\ ProjectOf[a] = p /\ HostTypes /\ CallInv(p, thr[p]) /\ AttemptInv(a)
      /\ ctl[a].mode # "reconciliation"
      /\ Running(a) \/ ~CrossesMutationBoundary(PhaseOf(a))
      /\ takeover[a] # "none" => ctl[a].mode = "rollback"
      /\ journal[a][KeyOf(a)] \in {"intent", "observed", "verified"}
      /\ thr[p].why \notin {"recover", "sweep"}
  BY <1>1, PhaseFacts, RowAtStep
<1>3. /\ UNCHANGED <<fenceVars, ctl, recovered, owner, effect, ticket, faults>>
      /\ {"admit", "effect", "observe", "to_reconcile"} \subseteq PCs
  BY DEF ObserveBeforeEffect, PCs
<1>4. KeyOf(a) \in Keys /\ KeyOf(a) = StorageKey(BranchOf(a), PhaseOf(a))
  BY <1>2, CurrentKey
<1>5. RequiresProjectLock(PhaseOf(a)) => owner[Lock(p)] = a
  BY <1>1, <1>2 DEF CallInv, CallOwns
<1>6. CASE /\ effect[a][KeyOf(a)] = "absent" /\ UNCHANGED journalVars
           /\ Goto(p, IF AdmissionNow(a) THEN "admit" ELSE "effect")
  <2>1. journal[a][KeyOf(a)] = "intent"
    BY <1>2, <1>4, <1>6 DEF AttemptInv, RowsExplained
  <2>2. PICK pc \in {"admit", "effect"} : Goto(p, pc) /\ (pc = "admit" <=> AdmissionNow(a))
    BY <1>6
  <2>3. \A t : t.pc = pc /\ t.a = a /\ t.why = thr[p].why => CallInv(p, t)
    BY <1>2, <1>5, <1>6, <2>1, <2>2, RowAtStep
       DEF CallInv, CallBound, CallInPhase, InPhase, WorkPCs, FencePCs,
       CallAdmits, CallOwns, CallFences, CallEnds, Untouched, Admitting
  <2> QED
    BY <1>3, <1>6, <2>2, <2>3, QuietGoto DEF vars
<1>7. CASE Goto(p, "observe") /\ UNCHANGED journalVars
  <2>1. \A t : t.pc = "observe" /\ t.a = a /\ t.why = thr[p].why => CallInv(p, t)
    BY <1>2, RowAtStep DEF CallInv, CallBound, CallInPhase, InPhase, WorkPCs, FencePCs,
       CallAdmits, CallOwns, CallFences, CallEnds, Untouched, Admitting
  <2> QED
    BY <1>3, <1>7, <2>1, QuietGoto DEF vars
<1>8. CASE MarkPhaseNeedsReconcile(a, BranchOf(a), PhaseOf(a)) /\ Goto(p, "to_reconcile")
  <2>1. SetStatus(a, KeyOf(a), "needs_reconcile") /\ UNCHANGED <<takeover, proof, rejection>>
    BY <1>4, <1>8 DEF MarkPhaseNeedsReconcile
  <2>2. [Next]_vars
    BY <1>2, <1>3, <1>8, PhaseStepFollows
  <2>3. UNCHANGED <<fence, drain, boundary, held, tampers>>
    BY <1>3 DEF fenceVars
  <2>4. ASSUME journal'[a][KeyOf(a)] = "needs_reconcile"
        PROVE  \A t : t.pc = "to_reconcile" /\ t.a = a /\ t.why = thr[p].why => CallInv(p, t)'
    <3>1. "to_reconcile" \in WorkPCs /\ "needs_reconcile" \in RowAt("to_reconcile")
          /\ "to_reconcile" \notin Untouched \cup Admitting
      BY RowAtStep DEF WorkPCs, Statuses, Untouched, Admitting
    <3> QED
      BY <1>2, <1>3, <2>1, <2>3, <2>4, <3>1, PhaseCall
  <2>5. "needs_reconcile" \in Statuses \ {"none"} /\ ~Committed(a, KeyOf(a))
    BY <1>2 DEF Statuses, Committed
  <2> QED
    BY <1>2, <1>3, <1>8, <2>1, <2>2, <2>3, <2>4, <2>5, RowMove
<1> QED
  BY <1>6, <1>7, <1>8 DEF ObserveBeforeEffect

(* Only the effect of this intent, on its proof, is taken for observed.        *)
LEMMA ObserveEffectSafe ==
  ASSUME ExecInv, NEW p \in Projects, ObserveEffect(p)
  PROVE  Safe
<1> SUFFICES ASSUME NEW a, a = thr[p].a PROVE Safe
  OBVIOUS
<1>1. thr[p].pc = "observe" /\ thr[p].pc \in WorkPCs
  BY DEF ObserveEffect, At, WorkPCs
<1>2. /\ a \in Attempts /\ ProjectOf[a] = p /\ HostTypes /\ CallInv(p, thr[p]) /\ AttemptInv(a)
      /\ ctl[a].mode # "reconciliation"
      /\ Running(a) \/ ~CrossesMutationBoundary(PhaseOf(a))
      /\ takeover[a] # "none" => ctl[a].mode = "rollback"
      /\ journal[a][KeyOf(a)] \in {"intent", "observed", "verified"}
      /\ thr[p].why \notin {"recover", "sweep"}
  BY <1>1, PhaseFacts, RowAtStep
<1>3. /\ UNCHANGED <<fenceVars, ctl, recovered, owner, effect, ticket>>
      /\ (Fault \/ UNCHANGED faults)
      /\ {"verify", "to_reconcile"} \subseteq PCs
  BY DEF ObserveEffect, PCs
<1>4. KeyOf(a) \in Keys /\ KeyOf(a) = StorageKey(BranchOf(a), PhaseOf(a))
  BY <1>2, CurrentKey
<1>5. UNCHANGED <<fence, drain, boundary, held, tampers>>
  BY <1>3 DEF fenceVars
<1>6. CASE /\ EffectProven(a) /\ RecordPhaseObservation(a, BranchOf(a), PhaseOf(a))
           /\ Goto(p, "verify")
  <2>1. /\ SetStatus(a, KeyOf(a), "observed") /\ UNCHANGED <<takeover, proof, rejection>>
        /\ effect[a][KeyOf(a)] = "applied"
    BY <1>4, <1>6 DEF RecordPhaseObservation, EffectProven
  <2>2. [Next]_vars
    BY <1>2, <1>3, <1>6, PhaseStepFollows
  <2>3. ASSUME journal'[a][KeyOf(a)] = "observed"
        PROVE  \A t : t.pc = "verify" /\ t.a = a /\ t.why = thr[p].why => CallInv(p, t)'
    <3>1. "verify" \in WorkPCs /\ "observed" \in RowAt("verify")
          /\ "verify" \notin Untouched \cup Admitting
      BY RowAtStep DEF WorkPCs, Untouched, Admitting
    <3> QED
      BY <1>2, <1>3, <1>5, <2>1, <2>3, <3>1, PhaseCall
  <2>4. "observed" \in Statuses \ {"none"} /\ ~Committed(a, KeyOf(a))
    BY <1>2 DEF Statuses, Committed
  <2> QED
    BY <1>2, <1>3, <1>5, <1>6, <2>1, <2>2, <2>3, <2>4, RowMove
<1>7. CASE Goto(p, "verify") /\ UNCHANGED journalVars /\ journal[a][KeyOf(a)] # "intent"
  <2>1. \A t : t.pc = "verify" /\ t.a = a /\ t.why = thr[p].why => CallInv(p, t)
    BY <1>2, <1>7, RowAtStep DEF CallInv, CallBound, CallInPhase, InPhase, WorkPCs, FencePCs,
       CallAdmits, CallOwns, CallFences, CallEnds, Untouched, Admitting
  <2> QED
    BY <1>3, <1>7, <2>1, QuietGoto DEF vars
<1>8. CASE MarkPhaseNeedsReconcile(a, BranchOf(a), PhaseOf(a)) /\ Goto(p, "to_reconcile")
  <2>1. SetStatus(a, KeyOf(a), "needs_reconcile") /\ UNCHANGED <<takeover, proof, rejection>>
    BY <1>4, <1>8 DEF MarkPhaseNeedsReconcile
  <2>2. [Next]_vars
    BY <1>2, <1>3, <1>8, PhaseStepFollows
  <2>3. ASSUME journal'[a][KeyOf(a)] = "needs_reconcile"
        PROVE  \A t : t.pc = "to_reconcile" /\ t.a = a /\ t.why = thr[p].why => CallInv(p, t)'
    <3>1. "to_reconcile" \in WorkPCs /\ "needs_reconcile" \in RowAt("to_reconcile")
          /\ "to_reconcile" \notin Untouched \cup Admitting
      BY RowAtStep DEF WorkPCs, Statuses, Untouched, Admitting
    <3> QED
      BY <1>2, <1>3, <1>5, <2>1, <2>3, <3>1, PhaseCall
  <2>4. "needs_reconcile" \in Statuses \ {"none"} /\ ~Committed(a, KeyOf(a))
    BY <1>2 DEF Statuses, Committed
  <2> QED
    BY <1>2, <1>3, <1>5, <1>8, <2>1, <2>2, <2>3, <2>4, RowMove
<1> QED
  BY <1>6, <1>7, <1>8 DEF ObserveEffect

(* The observation is verified.                                                *)
LEMMA VerifySafe ==
  ASSUME ExecInv, NEW p \in Projects, Verify(p)
  PROVE  Safe
<1> SUFFICES ASSUME NEW a, a = thr[p].a PROVE Safe
  OBVIOUS
<1>1. thr[p].pc = "verify" /\ thr[p].pc \in WorkPCs
  BY DEF Verify, At, WorkPCs
<1>2. /\ a \in Attempts /\ ProjectOf[a] = p /\ HostTypes /\ CallInv(p, thr[p]) /\ AttemptInv(a)
      /\ ctl[a].mode # "reconciliation"
      /\ Running(a) \/ ~CrossesMutationBoundary(PhaseOf(a))
      /\ takeover[a] # "none" => ctl[a].mode = "rollback"
      /\ journal[a][KeyOf(a)] \in {"observed", "verified"}
      /\ thr[p].why \notin {"recover", "sweep"}
  BY <1>1, PhaseFacts, RowAtStep
<1>3. /\ UNCHANGED <<fenceVars, ctl, recovered, owner, effect, ticket, faults>>
      /\ "commit" \in PCs /\ Goto(p, "commit")
  BY DEF Verify, PCs
<1>4. KeyOf(a) \in Keys /\ KeyOf(a) = StorageKey(BranchOf(a), PhaseOf(a))
  BY <1>2, CurrentKey
<1>5. UNCHANGED <<fence, drain, boundary, held, tampers>>
  BY <1>3 DEF fenceVars
<1>6. CASE MarkPhaseVerified(a, BranchOf(a), PhaseOf(a))
  <2>1. /\ SetStatus(a, KeyOf(a), "verified") /\ UNCHANGED <<takeover, proof, rejection>>
        /\ journal[a][KeyOf(a)] = "observed"
    BY <1>4, <1>6 DEF MarkPhaseVerified
  <2>2. [Next]_vars
    BY <1>2, <1>3, <1>6, PhaseStepFollows
  <2>3. ASSUME journal'[a][KeyOf(a)] = "verified"
        PROVE  \A t : t.pc = "commit" /\ t.a = a /\ t.why = thr[p].why => CallInv(p, t)'
    <3>1. "commit" \in WorkPCs /\ "verified" \in RowAt("commit")
          /\ "commit" \notin Untouched \cup Admitting
      BY RowAtStep DEF WorkPCs, Untouched, Admitting
    <3> QED
      BY <1>2, <1>3, <1>5, <2>1, <2>3, <3>1, PhaseCall
  <2>4. "verified" \in Statuses \ {"none"} /\ ~Committed(a, KeyOf(a))
    BY <1>2 DEF Statuses, Committed
  <2>5. effect[a][KeyOf(a)] = "applied"
    BY <1>2, <1>4, <2>1 DEF AttemptInv, RowsExplained
  <2> QED
    BY <1>2, <1>3, <1>5, <2>1, <2>2, <2>3, <2>4, <2>5, RowMove
<1>7. CASE UNCHANGED journalVars /\ journal[a][KeyOf(a)] = "verified"
  <2>1. \A t : t.pc = "commit" /\ t.a = a /\ t.why = thr[p].why => CallInv(p, t)
    BY <1>2, <1>7, RowAtStep DEF CallInv, CallBound, CallInPhase, InPhase, WorkPCs, FencePCs,
       CallAdmits, CallOwns, CallFences, CallEnds, Untouched, Admitting
  <2> QED
    BY <1>3, <1>7, <2>1, QuietGoto DEF vars
<1> QED
  BY <1>6, <1>7 DEF Verify

(* The receipt; that of a bound base backup closes its boundary.               *)
LEMMA CommitSafe ==
  ASSUME ExecInv, NEW p \in Projects, Commit(p)
  PROVE  Safe
<1> SUFFICES ASSUME NEW a, a = thr[p].a PROVE Safe
  OBVIOUS
<1>1. thr[p].pc = "commit" /\ thr[p].pc \in WorkPCs
  BY DEF Commit, At, WorkPCs
<1>2. /\ a \in Attempts /\ ProjectOf[a] = p /\ HostTypes /\ CallInv(p, thr[p]) /\ AttemptInv(a)
      /\ FenceInv /\ ProjectInv(p)
      /\ ctl[a].mode # "reconciliation"
      /\ Running(a) \/ ~CrossesMutationBoundary(PhaseOf(a))
      /\ takeover[a] # "none" => ctl[a].mode = "rollback"
      /\ journal[a][KeyOf(a)] = "verified"
      /\ thr[p].why \notin {"recover", "sweep"}
  BY <1>1, PhaseFacts, RowAtStep
<1>3. /\ UNCHANGED <<ctl, recovered, owner, effect, ticket, faults>>
      /\ "complete" \in PCs /\ Goto(p, "complete")
  BY DEF Commit, PCs
<1>4. KeyOf(a) \in Keys /\ KeyOf(a) = StorageKey(BranchOf(a), PhaseOf(a))
      /\ (PhaseOf(a) = "backing_up" => KeyOf(a) = "backing_up" /\ BranchOf(a) = "primary")
  <2>1. KeyOf(a) \in Keys /\ KeyOf(a) = StorageKey(BranchOf(a), PhaseOf(a))
        /\ PhaseOf(a) \in BranchPhases(BranchOf(a))
        /\ (ctl[a].mode = "none" => KeyOf(a) = PhaseOf(a) /\ BranchOf(a) = "primary")
        /\ (ctl[a].mode # "none" => BranchOf(a) = "rollback_recovery")
    BY <1>2, CurrentKey
  <2> QED
    BY <2>1 DEF BranchPhases
<1>5. /\ SetStatus(a, KeyOf(a), "committed") /\ UNCHANGED <<takeover, proof, rejection>>
      /\ UNCHANGED <<fence, drain, held, tampers>> /\ [Next]_vars
      /\ boundary'[p] \in {boundary[p], NoLease}
      /\ \A q \in Projects : q # p => boundary'[q] = boundary[q]
  <2>1. CASE a \in Bound /\ PhaseOf(a) = "backing_up"
    <3>1. CommitBackupAndCloseBoundary(p, a)
      BY <2>1 DEF Commit
    <3>2. CommitPhaseReceipt(a, "primary", "backing_up") /\ UNCHANGED <<fence, drain, held, tampers>>
          /\ boundary' = [boundary EXCEPT ![p] = NoLease]
      BY <3>1 DEF CommitBackupAndCloseBoundary
    <3>3. [Next]_vars
      BY <1>2, <3>1 DEF Next, CloseBoundaryStep
    <3>4. StorageKey("primary", "backing_up") = "backing_up"
      BY DEF StorageKey
    <3>5. SetStatus(a, KeyOf(a), "committed") /\ UNCHANGED <<takeover, proof, rejection>>
      BY <1>4, <2>1, <3>2, <3>4 DEF CommitPhaseReceipt
    <3>6. boundary \in [Projects -> LeaseRow]
      BY <1>2 DEF FenceInv, TypeOK
    <3> QED
      BY <3>2, <3>3, <3>5, <3>6
  <2>2. CASE ~(a \in Bound /\ PhaseOf(a) = "backing_up")
    <3>1. CommitPhaseReceipt(a, BranchOf(a), PhaseOf(a)) /\ UNCHANGED fenceVars
      BY <2>2 DEF Commit
    <3>2. PhaseOf(a) = "backing_up" => boundary[ProjectOf[a]].attempt # a
      BY <1>2, <2>2, AttemptAssumption DEF ProjectInv, BoundaryBound, Reserved, NoLease
    <3>3. [Next]_vars
      BY <1>2, <3>1, <3>2, PhaseStepFollows
    <3> QED
      BY <1>4, <3>1, <3>3 DEF CommitPhaseReceipt, fenceVars
  <2> QED
    BY <2>1, <2>2
<1>6. ASSUME journal'[a][KeyOf(a)] = "committed"
      PROVE  \A t : t.pc = "complete" /\ t.a = a /\ t.why = thr[p].why => CallInv(p, t)'
  <2>1. "complete" \in WorkPCs /\ "committed" \in RowAt("complete")
        /\ "complete" \notin Untouched \cup Admitting
    BY RowAtStep DEF WorkPCs, Untouched, Admitting
  <2> QED
    BY <1>2, <1>3, <1>5, <1>6, <2>1, PhaseCall
<1>7. "committed" \in Statuses \ {"none"} /\ ~Committed(a, KeyOf(a))
  BY <1>2 DEF Statuses, Committed
<1>8. effect[a][KeyOf(a)] = "applied"
  BY <1>2, <1>4 DEF AttemptInv, RowsExplained
<1> QED
  BY <1>2, <1>3, <1>5, <1>6, <1>7, <1>8, RowMove

(* A rejected proof whose ticket was given back is compensated: the row is     *)
(* reopened and the call goes on.                                              *)
LEMMA Reopened ==
  ASSUME ExecInv, NEW p \in Projects, NEW a, a = thr[p].a,
         thr[p].pc \in {"compensated", "uncompensate"}, CompensateSourceGateRejection(a),
         UNCHANGED <<fenceVars, ctl, recovered, owner, effect, ticket, faults>>,
         NEW pc \in {"disk", "suspend"}, Goto(p, pc)
  PROVE  Safe
<1>1. thr[p].pc \in WorkPCs /\ thr[p].pc \in Admitting \cup {"untake", "compensated"}
      /\ thr[p].pc # "intent"
  BY DEF WorkPCs, Admitting
<1>2. /\ a \in Attempts /\ ProjectOf[a] = p /\ HostTypes /\ FenceInv /\ LinkInv(a)
      /\ ctl[a].mode # "reconciliation"
      /\ Running(a) \/ ~CrossesMutationBoundary(PhaseOf(a))
      /\ takeover[a] # "none" => ctl[a].mode = "rollback"
      /\ thr[p].why \notin {"recover", "sweep"}
  BY <1>1, PhaseFacts
<1>3. PICK k \in Keys : k = KeyOf(a)
  BY <1>2, CurrentKey
<1>4. /\ k = AdmissionPhase(KindOf[a]) /\ PhaseOf(a) = AdmissionPhase(KindOf[a])
      /\ effect[a][k] # "applied"
  BY <1>1, <1>3, AdmissionClean
<1>5. /\ SetStatus(a, k, "intent") /\ takeover' = takeover
      /\ rejection' = [rejection EXCEPT ![a] = "compensated"]
      /\ proof' = [proof EXCEPT ![a] = FALSE]
      /\ journal[a][k] = "needs_reconcile"
  BY <1>4 DEF CompensateSourceGateRejection
<1>6. JournalTypeOK /\ "intent" \in Statuses \ {"none"}
  BY <1>2 DEF FenceInv, TypeOK, Statuses
<1>7. \A b \in Attempts, m \in Keys :
        journal'[b][m] = IF b = a /\ m = k THEN "intent" ELSE journal[b][m]
  BY <1>2, <1>5, <1>6, SetStatusRow
<1>8. /\ rejection'[a] = "compensated"
      /\ \A b \in Attempts : b # a => proof'[b] = proof[b] /\ rejection'[b] = rejection[b]
  BY <1>2, <1>5, <1>6 DEF JournalTypeOK
<1>9. [Next]_vars
  BY <1>2, PhaseStepFollows
<1>10. UNCHANGED <<fence, drain, boundary, held, tampers>>
  BY DEF fenceVars
<1>11. /\ thr' \in [Projects -> Threads]
       /\ thr'[p].pc = pc /\ thr'[p].a = a /\ thr'[p].why = thr[p].why
       /\ \A q \in Projects : q # p => thr'[q] = thr[q]
  <2>1. pc \in PCs
    BY DEF PCs
  <2> QED
    BY <1>2, <2>1, CallMoves
<1>12. \A t : t.pc = pc /\ t.a = a /\ t.why = thr[p].why => CallInv(p, t)'
  <2>1. /\ pc \in WorkPCs /\ "intent" \in RowAt(pc) /\ AdmissionNow(a)
        /\ pc \notin {"intent", "soaked", "refresh", "unblock", "untake", "compensated", "prove",
                      "effect", "identity", "apply", "admit", "project", "to_reconcile"}
    BY <1>4, RowAtStep DEF WorkPCs, AdmissionNow
  <2>2. journal'[a][KeyOf(a)] = "intent" /\ effect'[a][KeyOf(a)] # "applied"
    BY <1>2, <1>3, <1>4, <1>7
  <2> QED
    BY <1>2, <1>5, <1>10, <2>1, <2>2, PhaseCall
<1>13. CallInv(p, thr[p])'
  BY <1>11, <1>12, CallRecord
<1>14. HoldsSource(a)' /\ HoldsLock(a)'
  BY <1>2, <1>4 DEF LinkInv, HoldsSource, HoldsLock, Running
<1>15. effect' \in [Attempts -> [Keys -> Effects]]
  BY <1>2 DEF HostTypes
<1>16. ~Committed(a, k) /\ boundary' = boundary /\ effect' = effect /\ journal[a][k] # "none"
  BY <1>5, <1>10 DEF Committed
<1>17. PICK s \in Statuses \ {"none"} : s = "intent"
  BY <1>6
<1>18. /\ Committed(a, k) => s = "committed"
       /\ s \in {"observed", "verified", "committed"} => effect'[a][k] = "applied"
       /\ boundary'[p] \in {boundary[p], NoLease}
       /\ \A q \in Projects : q # p => boundary'[q] = boundary[q]
       /\ \A b \in Attempts, m \in Keys : b # a \/ m # k => effect'[b][m] = effect[b][m]
       /\ rejection'[a] = "abort_pending" =>
            IsDeploy(KindOf[a]) /\ journal'[a][AdmissionPhase(KindOf[a])] = "needs_reconcile"
       /\ journal[a][k] = "none" /\ k = "cutover_snapshotting" =>
            fence[p].attempt = a /\ fence[p].state = "held"
       /\ UNCHANGED <<takeover, fence, drain, held, tampers, ctl, recovered, owner, ticket>>
       /\ \A b \in Attempts, m \in Keys :
            journal'[b][m] = IF b = a /\ m = k THEN s ELSE journal[b][m]
  BY <1>5, <1>7, <1>8, <1>10, <1>16, <1>17
<1> QED
  BY ZenonT(60), <1>2, <1>3, <1>8, <1>9, <1>11, <1>13, <1>14, <1>15, <1>18, RowWritten

(* The row of a rejected proof is reopened before the phase runs again.        *)
LEMMA ReopenRejectedSafe ==
  ASSUME ExecInv, NEW p \in Projects, ReopenRejected(p)
  PROVE  Safe
<1> SUFFICES ASSUME NEW a, a = thr[p].a PROVE Safe
  OBVIOUS
<1> QED
  BY Reopened DEF ReopenRejected, At

(* The same before the call gives its resources back.                          *)
LEMMA CompensateProofSafe ==
  ASSUME ExecInv, NEW p \in Projects, CompensateProof(p)
  PROVE  Safe
<1> SUFFICES ASSUME NEW a, a = thr[p].a PROVE Safe
  OBVIOUS
<1> QED
  BY Reopened DEF CompensateProof, At

(* The proof is stored, or it is rejected as older than one stored before.     *)
LEMMA RecordProofSafe ==
  ASSUME ExecInv, NEW p \in Projects, RecordProof(p)
  PROVE  Safe
<1> SUFFICES ASSUME NEW a, a = thr[p].a PROVE Safe
  OBVIOUS
<1>1. thr[p].pc = "prove" /\ thr[p].pc \in WorkPCs /\ thr[p].pc \in Admitting
  BY DEF RecordProof, At, WorkPCs, Admitting
<1>2. /\ a \in Attempts /\ ProjectOf[a] = p /\ HostTypes /\ FenceInv /\ LinkInv(a) /\ AttemptInv(a)
      /\ CallInv(p, thr[p])
      /\ ctl[a].mode # "reconciliation"
      /\ Running(a) \/ ~CrossesMutationBoundary(PhaseOf(a))
      /\ takeover[a] # "none" => ctl[a].mode = "rollback"
      /\ thr[p].why \notin {"recover", "sweep"} /\ thr[p].why \in Whys
      /\ journal[a][KeyOf(a)] = "intent"
  BY <1>1, PhaseFacts, RowAtStep
<1>3. PICK k \in Keys : k = KeyOf(a)
  BY <1>2, CurrentKey
<1>4. /\ k = AdmissionPhase(KindOf[a]) /\ PhaseOf(a) = AdmissionPhase(KindOf[a])
      /\ effect[a][k] # "applied" /\ ticket[p] = a
      /\ (RequiresProjectLock(PhaseOf(a)) => owner[Lock(p)] = a)
  BY <1>1, <1>2, <1>3, AdmissionClean DEF CallInv, CallAdmits, CallOwns
<1>5. UNCHANGED <<fenceVars, ctl, recovered, owner, effect, ticket, faults>>
  BY DEF RecordProof
<1>6. JournalTypeOK /\ {"intent", "needs_reconcile"} \subseteq Statuses \ {"none"}
      /\ AdmissionNow(a)
  BY <1>2, <1>4 DEF FenceInv, TypeOK, Statuses, AdmissionNow
<1>7. UNCHANGED <<fence, drain, boundary, held, tampers>>
  BY <1>5 DEF fenceVars
<1>8. HoldsSource(a)' /\ HoldsLock(a)'
  BY <1>2, <1>4, <1>5 DEF LinkInv, HoldsSource, HoldsLock, Running
<1>9. effect' \in [Attempts -> [Keys -> Effects]]
  BY <1>2, <1>5 DEF HostTypes
<1>10. CASE RecordSourceGateProof(a) /\ Goto(p, "effect")
  <2>1. UNCHANGED <<journal, takeover, rejection>> /\ proof' = [proof EXCEPT ![a] = TRUE]
    BY <1>10 DEF RecordSourceGateProof
  <2>2. /\ proof'[a] = TRUE
        /\ \A b \in Attempts : b # a => proof'[b] = proof[b] /\ rejection'[b] = rejection[b]
    BY <1>2, <1>6, <2>1 DEF JournalTypeOK
  <2>3. [Next]_vars
    BY <1>2, <1>5, <1>10, PhaseStepFollows
  <2>4. /\ thr' \in [Projects -> Threads]
        /\ thr'[p].pc = "effect" /\ thr'[p].a = a /\ thr'[p].why = thr[p].why
        /\ \A q \in Projects : q # p => thr'[q] = thr[q]
    <3>1. "effect" \in PCs
      BY DEF PCs
    <3> QED
      BY <1>2, <1>10, <3>1, CallMoves
  <2>5. \A t : t.pc = "effect" /\ t.a = a /\ t.why = thr[p].why => CallInv(p, t)'
    <3>1. "effect" \in WorkPCs /\ "intent" \in RowAt("effect") /\ "effect" \notin Admitting
      BY RowAtStep DEF WorkPCs, Admitting
    <3>2. journal'[a][KeyOf(a)] = "intent" /\ effect'[a][KeyOf(a)] # "applied"
          /\ ticket'[p] = a /\ proof'[a] /\ owner' = owner
      BY <1>2, <1>3, <1>4, <1>5, <2>1, <2>2
    <3> QED
      BY SMTT(60), <1>2, <1>4, <1>5, <1>7, <2>1, <3>1, <3>2, PhaseCall
  <2>6. CallInv(p, thr[p])'
    BY <2>4, <2>5, CallRecord
  <2>7. \A b \in Attempts, m \in Keys :
          journal'[b][m] = IF b = a /\ m = k THEN "intent" ELSE journal[b][m]
    BY <1>2, <1>3, <2>1
  <2>8. rejection'[a] # "abort_pending"
    <3>1. rejection[a] # "abort_pending"
      BY <1>2, <1>3, <1>4 DEF AttemptInv, RowsExplained
    <3> QED
      BY <2>1, <3>1
  <2>9. ~Committed(a, k) /\ boundary' = boundary /\ effect' = effect /\ journal[a][k] # "none"
    BY <1>2, <1>3, <1>5, <1>7 DEF Committed
  <2>10. PICK s \in Statuses \ {"none"} : s = "intent"
    BY <1>6
  <2>11. /\ Committed(a, k) => s = "committed"
         /\ s \in {"observed", "verified", "committed"} => effect'[a][k] = "applied"
         /\ boundary'[p] \in {boundary[p], NoLease}
         /\ \A q \in Projects : q # p => boundary'[q] = boundary[q]
         /\ \A b \in Attempts, m \in Keys : b # a \/ m # k => effect'[b][m] = effect[b][m]
         /\ journal[a][k] = "none" /\ k = "cutover_snapshotting" =>
              fence[p].attempt = a /\ fence[p].state = "held"
         /\ UNCHANGED <<takeover, fence, drain, held, tampers, ctl, recovered, owner, ticket>>
         /\ \A b \in Attempts, m \in Keys :
              journal'[b][m] = IF b = a /\ m = k THEN s ELSE journal[b][m]
    BY <1>5, <1>7, <2>1, <2>7, <2>9, <2>10
  <2> QED
    BY SMTT(60), <1>2, <1>3, <1>5, <1>8, <1>9, <2>2, <2>3, <2>4, <2>6, <2>8, <2>11, RowWritten
<1>11. CASE RejectSourceGateProof(a) /\ GoWhy(p, "unprove", "trust")
  <2>1. /\ UNCHANGED <<takeover, proof>> /\ SetStatus(a, k, "needs_reconcile") /\ IsDeploy(KindOf[a])
        /\ rejection' = [rejection EXCEPT ![a] = "abort_pending"]
    BY <1>4, <1>11 DEF RejectSourceGateProof
  <2>2. \A b \in Attempts : b # a => proof'[b] = proof[b] /\ rejection'[b] = rejection[b]
    BY <1>2, <1>6, <2>1 DEF JournalTypeOK
  <2>3. [Next]_vars
    BY <1>2, <1>5, <1>11, PhaseStepFollows
  <2>4. /\ thr' \in [Projects -> Threads]
        /\ thr'[p].pc = "unprove" /\ thr'[p].a = a /\ thr'[p].why = "trust"
        /\ \A q \in Projects : q # p => thr'[q] = thr[q]
    <3>1. "unprove" \in PCs /\ "trust" \in Whys
      BY DEF PCs, Whys
    <3> QED
      BY <1>2, <1>11, <3>1, CallMoves
  <2>5. \A b \in Attempts, m \in Keys :
          journal'[b][m] = IF b = a /\ m = k THEN "needs_reconcile" ELSE journal[b][m]
    BY <1>2, <1>6, <2>1, SetStatusRow
  <2>6. \A t : t.pc = "unprove" /\ t.a = a /\ t.why = "trust" => CallInv(p, t)'
    <3>1. "unprove" \in WorkPCs /\ "needs_reconcile" \in RowAt("unprove")
      BY RowAtStep DEF WorkPCs
    <3>2. journal'[a][KeyOf(a)] = "needs_reconcile" /\ effect'[a][KeyOf(a)] # "applied"
      BY <1>2, <1>3, <1>4, <1>5, <2>5
    <3> QED
      BY <1>2, <1>4, <1>5, <1>6, <1>7, <2>1, <3>1, <3>2, PhaseCall
  <2>7. CallInv(p, thr[p])'
    BY <2>4, <2>6, CallRecord
  <2>8. journal'[a][AdmissionPhase(KindOf[a])] = "needs_reconcile"
    BY <1>2, <1>4, <2>5
  <2> QED
    BY ZenonT(60), <1>2, <1>3, <1>5, <1>6, <1>7, <1>8, <1>9, <2>1, <2>2, <2>3, <2>4, <2>5, <2>7, <2>8, RowWritten
       DEF Committed
<1> QED
  BY <1>10, <1>11 DEF RecordProof

(* The effect of the current row is written: its attempt owns the lock, and an *)
(* admitted one has its ticket and its proof.                                  *)
EffectStep(p, a, s, e, pc) ==
  /\ [Next]_vars /\ (Fault \/ UNCHANGED faults)
  /\ \A b \in Attempts, m \in Keys :
       journal'[b][m] = IF b = a /\ m = KeyOf(a) THEN s ELSE journal[b][m]
  /\ UNCHANGED <<fenceVars, ctl, recovered, owner, ticket, takeover, proof, rejection>>
  /\ effect' = [effect EXCEPT ![a][KeyOf(a)] = e]
  /\ Goto(p, pc)

LEMMA EffectWritten ==
  ASSUME ExecInv, NEW p \in Projects, NEW a, a = thr[p].a, thr[p].pc = "effect",
         NEW s \in {"intent", "needs_reconcile"}, NEW e \in Effects,
         NEW pc \in {"observe", "to_reconcile"}, s \in RowAt(pc), EffectStep(p, a, s, e, pc)
  PROVE  Safe
<1> SUFFICES ASSUME [Next]_vars, Fault \/ UNCHANGED faults,
                    \A b \in Attempts, m \in Keys :
                      journal'[b][m] = IF b = a /\ m = KeyOf(a) THEN s ELSE journal[b][m],
                    UNCHANGED <<fenceVars, ctl, recovered, owner, ticket, takeover, proof, rejection>>,
                    effect' = [effect EXCEPT ![a][KeyOf(a)] = e],
                    Goto(p, pc)
             PROVE  Safe
  BY DEF EffectStep
<1>1. thr[p].pc \in WorkPCs
  BY DEF WorkPCs
<1>2. /\ a \in Attempts /\ ProjectOf[a] = p /\ HostTypes /\ FenceInv /\ LinkInv(a) /\ AttemptInv(a)
      /\ CallInv(p, thr[p])
      /\ ctl[a].mode # "reconciliation"
      /\ Running(a) \/ ~CrossesMutationBoundary(PhaseOf(a))
      /\ takeover[a] # "none" => ctl[a].mode = "rollback"
      /\ thr[p].why \notin {"recover", "sweep"} /\ thr[p].why \in Whys
      /\ journal[a][KeyOf(a)] = "intent"
  BY <1>1, PhaseFacts, RowAtStep
<1>3. PICK k \in Keys : k = KeyOf(a)
  BY <1>2, CurrentKey
<1>4. /\ effect' \in [Attempts -> [Keys -> Effects]]
      /\ \A b \in Attempts, m \in Keys : b # a \/ m # k => effect'[b][m] = effect[b][m]
  <2>1. effect \in [Attempts -> [Keys -> Effects]]
    BY <1>2 DEF HostTypes
  <2> QED
    BY <1>2, <1>3, <2>1
<1>5. UNCHANGED <<fence, drain, boundary, held, tampers>>
  BY DEF fenceVars
<1>6. /\ ctl[a].mode = "none" => k = PhaseOf(a) /\ PhaseOf(a) \in Phases
      /\ ctl[a].mode # "none" => /\ k \in RecoveryKeys
                                 /\ PhaseOf(a) \in {"rollback", "health_checking", "soaking"}
  <2>1. BranchOf(a) \in Branches /\ PhaseOf(a) \in BranchPhases(BranchOf(a))
        /\ (ctl[a].mode = "none" => k = PhaseOf(a) /\ BranchOf(a) = "primary")
        /\ (ctl[a].mode # "none" => k \in RecoveryKeys /\ BranchOf(a) = "rollback_recovery")
    BY <1>2, <1>3, CurrentKey
  <2> QED
    BY <2>1 DEF BranchPhases
<1>7. MutatingKey(k) => owner[Lock(p)] = a
  <2>1. MutatingKey(k) => RequiresProjectLock(PhaseOf(a))
    BY <1>6 DEF MutatingKey, CrossesMutationBoundary, RequiresProjectLock, Phases, RecoveryKeys
  <2> QED
    BY <1>2, <2>1 DEF CallInv, CallOwns
<1>8. HoldsLock(a)'
  <2>1. ASSUME Running(a), NEW m \in Keys, MutatingKey(m), effect'[a][m] = "applied"
        PROVE  owner[Lock(p)] = a
    BY <1>2, <1>4, <1>7, <2>1 DEF LinkInv, HoldsLock
  <2> QED
    BY <1>2, <2>1 DEF HoldsLock, Running
<1>9. HoldsSource(a)'
  <2> SUFFICES ASSUME IsDeploy(KindOf[a]), effect'[a][AdmissionPhase(KindOf[a])] = "applied"
               PROVE  proof[a] /\ (~Committed(a, CompletionPhase(KindOf[a]))' => ticket[p] = a)
    BY <1>2 DEF HoldsSource
  <2>1. AdmissionPhase(KindOf[a]) \in Phases /\ AdmissionPhase(KindOf[a]) \in Keys
        /\ AdmissionPhase(KindOf[a]) \notin RecoveryKeys
    BY <1>2, AdmissionPhaseType, KeysDisjoint
  <2>2. CASE k = AdmissionPhase(KindOf[a])
    <3>1. AdmissionNow(a)
      BY <1>6, <2>1, <2>2 DEF AdmissionNow
    <3> QED
      BY <1>2, <3>1 DEF CallInv, CallAdmits
  <2>3. CASE k # AdmissionPhase(KindOf[a])
    <3>1. effect[a][AdmissionPhase(KindOf[a])] = "applied"
      BY <1>2, <1>4, <2>1, <2>3
    <3>2. proof[a] /\ (~Committed(a, CompletionPhase(KindOf[a])) => ticket[p] = a)
      BY <1>2, <3>1 DEF LinkInv, HoldsSource
    <3>3. CompletionPhase(KindOf[a]) \in Keys
      BY DEF IsDeploy, CompletionPhase, Keys, Phases
    <3>4. Committed(a, CompletionPhase(KindOf[a])) => Committed(a, CompletionPhase(KindOf[a]))'
      BY <1>2, <1>3, <3>3 DEF Committed
    <3> QED
      BY <3>2, <3>4
  <2> QED
    BY <2>2, <2>3
<1>10. rejection'[a] = "abort_pending" =>
         IsDeploy(KindOf[a]) /\ journal'[a][AdmissionPhase(KindOf[a])] = "needs_reconcile"
  <2> SUFFICES ASSUME rejection[a] = "abort_pending"
               PROVE  /\ IsDeploy(KindOf[a])
                      /\ journal'[a][AdmissionPhase(KindOf[a])] = "needs_reconcile"
    OBVIOUS
  <2>1. IsDeploy(KindOf[a]) /\ journal[a][AdmissionPhase(KindOf[a])] = "needs_reconcile"
    BY <1>2 DEF AttemptInv, RowsExplained
  <2>2. AdmissionPhase(KindOf[a]) \in Keys
    BY <1>2, <2>1, AdmissionPhaseType DEF Keys
  <2> QED
    BY <1>2, <1>3, <2>1, <2>2
<1>11. /\ thr' \in [Projects -> Threads]
       /\ thr'[p].pc = pc /\ thr'[p].a = a /\ thr'[p].why = thr[p].why
       /\ \A q \in Projects : q # p => thr'[q] = thr[q]
  <2>1. pc \in PCs
    BY DEF PCs
  <2> QED
    BY <1>2, <2>1, CallMoves
<1>12. \A t : t.pc = pc /\ t.a = a /\ t.why = thr[p].why => CallInv(p, t)'
  <2>1. /\ pc \in WorkPCs /\ pc \notin Untouched \cup Admitting
        /\ pc \notin {"intent", "soaked", "refresh", "unblock", "untake", "compensated", "prove",
                      "effect", "identity", "apply", "admit", "project"}
    BY DEF WorkPCs, Untouched, Admitting
  <2>2. journal'[a][KeyOf(a)] = s /\ s # "committed"
    BY <1>2, <1>3
  <2> QED
    BY <1>2, <1>5, <2>1, <2>2, PhaseCall
<1>13. CallInv(p, thr[p])'
  BY <1>11, <1>12, CallRecord
<1>14. /\ s \in Statuses \ {"none"}
       /\ Committed(a, k) => s = "committed"
       /\ s \in {"observed", "verified", "committed"} => effect'[a][k] = "applied"
       /\ boundary'[p] \in {boundary[p], NoLease}
       /\ \A q \in Projects : q # p => boundary'[q] = boundary[q]
       /\ journal[a][k] # "none"
       /\ UNCHANGED <<takeover, fence, drain, held, tampers, ctl, recovered, owner, ticket>>
       /\ \A b \in Attempts : b # a => proof'[b] = proof[b] /\ rejection'[b] = rejection[b]
       /\ \A b \in Attempts, m \in Keys :
            journal'[b][m] = IF b = a /\ m = k THEN s ELSE journal[b][m]
  BY <1>2, <1>3, <1>5 DEF Statuses, Committed
<1> QED
  BY SMTT(60), <1>2, <1>3, <1>4, <1>8, <1>9, <1>10, <1>11, <1>13, <1>14, RowWritten

LEMMA ApplyEffectSafe ==
  ASSUME ExecInv, NEW p \in Projects, ApplyEffect(p)
  PROVE  Safe
<1> SUFFICES ASSUME NEW a, a = thr[p].a PROVE Safe
  OBVIOUS
<1>1. thr[p].pc = "effect" /\ thr[p].pc \in WorkPCs
  BY DEF ApplyEffect, At, WorkPCs
<1>2. /\ a \in Attempts /\ ProjectOf[a] = p /\ HostTypes /\ FenceInv
      /\ CallInv(p, thr[p])
      /\ ctl[a].mode # "reconciliation"
      /\ Running(a) \/ ~CrossesMutationBoundary(PhaseOf(a))
      /\ takeover[a] # "none" => ctl[a].mode = "rollback"
      /\ thr[p].why \notin {"recover", "sweep"}
      /\ journal[a][KeyOf(a)] = "intent"
  BY <1>1, PhaseFacts, RowAtStep
<1>3. /\ UNCHANGED <<fenceVars, ctl, recovered, owner, ticket>>
      /\ (Fault \/ UNCHANGED faults)
      /\ {"unapply", "observe", "to_reconcile"} \subseteq PCs
      /\ "intent" \in RowAt("observe") /\ "needs_reconcile" \in RowAt("to_reconcile")
  BY RowAtStep DEF ApplyEffect, PCs, Statuses
<1>4. KeyOf(a) \in Keys /\ KeyOf(a) = StorageKey(BranchOf(a), PhaseOf(a))
  BY <1>2, CurrentKey
<1>5. CASE /\ effect' = [effect EXCEPT ![a][KeyOf(a)] = IF @ = "foreign" THEN @ ELSE "applied"]
           /\ Goto(p, "observe") /\ UNCHANGED journalVars
  <2>1. PICK e \in Effects : effect' = [effect EXCEPT ![a][KeyOf(a)] = e]
    BY <1>5 DEF Effects
  <2>2. UNCHANGED <<journal, takeover, proof, rejection>> /\ [Next]_vars
    BY <1>3, <1>5 DEF journalVars, vars
  <2>3. \A b \in Attempts, m \in Keys :
          journal'[b][m] = IF b = a /\ m = KeyOf(a) THEN "intent" ELSE journal[b][m]
    BY <1>2, <2>2
  <2>4. PICK s \in {"intent", "needs_reconcile"}, pc \in {"observe", "to_reconcile"} :
          s = "intent" /\ pc = "observe"
    OBVIOUS
  <2>5. EffectStep(p, a, s, e, pc)
    BY <1>3, <1>5, <2>1, <2>2, <2>3, <2>4 DEF EffectStep
  <2> QED
    BY <1>1, <1>3, <2>4, <2>5, EffectWritten
<1>6. CASE /\ Fault /\ UNCHANGED <<effect, journalVars>>
           /\ IF AdmissionNow(a) THEN Goto(p, "unapply") ELSE Return(p)
  <2>1. CASE AdmissionNow(a)
    <3>1. \A t : t.pc = "unapply" /\ t.a = a /\ t.why = thr[p].why => CallInv(p, t)
      BY <1>1, <1>2, <2>1, RowAtStep DEF CallInv, CallBound, CallInPhase, InPhase, WorkPCs,
         FencePCs, CallAdmits, CallOwns, CallFences, CallEnds, Untouched, Admitting
    <3> QED
      BY <1>3, <1>6, <2>1, <3>1, QuietGoto DEF vars
  <2>2. CASE ~AdmissionNow(a)
    <3>1. recovered' \subseteq Projects /\ faults' \in Nat
      BY <1>2, <1>3, FaultType DEF HostTypes
    <3> QED
      BY <1>3, <1>6, <2>2, <3>1, QuietReturn DEF vars
  <2> QED
    BY <2>1, <2>2
<1>7. CASE /\ \E e \in Effects : effect' = [effect EXCEPT ![a][KeyOf(a)] = e]
           /\ MarkPhaseNeedsReconcile(a, BranchOf(a), PhaseOf(a)) /\ Goto(p, "to_reconcile")
  <2>1. PICK e \in Effects : effect' = [effect EXCEPT ![a][KeyOf(a)] = e]
    BY <1>7
  <2>2. SetStatus(a, KeyOf(a), "needs_reconcile") /\ UNCHANGED <<takeover, proof, rejection>>
    BY <1>4, <1>7 DEF MarkPhaseNeedsReconcile
  <2>3. [Next]_vars
    BY <1>2, <1>3, <1>7, PhaseStepFollows
  <2>4. \A b \in Attempts, m \in Keys :
          journal'[b][m] = IF b = a /\ m = KeyOf(a) THEN "needs_reconcile" ELSE journal[b][m]
    <3>1. JournalTypeOK /\ "needs_reconcile" \in Statuses
      BY <1>2 DEF FenceInv, TypeOK, Statuses
    <3> QED
      BY <1>2, <1>4, <2>2, <3>1, SetStatusRow
  <2>5. PICK s \in {"intent", "needs_reconcile"}, pc \in {"observe", "to_reconcile"} :
          s = "needs_reconcile" /\ pc = "to_reconcile"
    OBVIOUS
  <2>6. EffectStep(p, a, s, e, pc)
    BY <1>3, <1>7, <2>1, <2>2, <2>3, <2>4, <2>5 DEF EffectStep
  <2> QED
    BY <1>1, <1>3, <2>5, <2>6, EffectWritten
<1> QED
  BY <1>5, <1>6, <1>7 DEF ApplyEffect

(* Somebody else puts something in the place of the current effect.            *)
LEMMA ForeignEffectSafe ==
  ASSUME ExecInv, NEW a \in Attempts, ForeignEffect(a)
  PROVE  Safe
<1> SUFFICES ASSUME NEW p \in Projects, ProjectOf[a] = p PROVE Safe
  BY AttemptAssumption
<1>1. HostTypes /\ Parts /\ FenceInv
  BY InvParts
<1>2. /\ UNCHANGED <<vars, ctl, thr, recovered, owner, ticket>> /\ Fault
      /\ effect[a][KeyOf(a)] = "absent" /\ PhaseOf(a) \in Phases
      /\ effect' = [effect EXCEPT ![a][KeyOf(a)] = "foreign"]
  BY DEF ForeignEffect
<1>3. AttemptInv(a) /\ LinkInv(a) /\ ProjectInv(p) /\ CallInv(p, thr[p])
  BY <1>1 DEF Parts
<1>4. ctl[a].mode # "reconciliation"
  BY <1>2, <1>3 DEF AttemptInv, ShownShape, PhaseOf, Phases
<1>5. PICK k \in Keys : k = KeyOf(a)
  BY <1>4, CurrentKey
<1>6. /\ effect' \in [Attempts -> [Keys -> Effects]]
      /\ \A b \in Attempts, m \in Keys :
           effect'[b][m] = IF b = a /\ m = k THEN "foreign" ELSE effect[b][m]
  <2>1. effect \in [Attempts -> [Keys -> Effects]] /\ "foreign" \in Effects
    BY <1>1 DEF HostTypes, Effects
  <2> QED
    BY <1>2, <1>5, <2>1
<1>7. HostTypes'
  BY <1>1, <1>2, <1>6, FaultType DEF HostTypes, ControllerTypeOK
<1>8. /\ \A m \in Keys : effect'[a][m] = "applied" <=> effect[a][m] = "applied"
      /\ UNCHANGED <<journal, takeover, proof, rejection, fence, drain, boundary, held, tampers>>
  BY <1>2, <1>5, <1>6 DEF vars, journalVars, fenceVars
<1>9. \A b \in Attempts : b # a => LocalSame(b)
  <2> SUFFICES ASSUME NEW b \in Attempts, b # a PROVE LocalSame(b)
    OBVIOUS
  <2>1. effect'[b] = effect[b]
    BY <1>1, <1>6 DEF HostTypes
  <2> QED
    BY <1>2, <1>8, <2>1 DEF LocalSame
<1>10. \A q \in Projects : SiteSame(q)
  BY <1>2, <1>8 DEF SiteSame
<1>11. /\ ForwardPhase(a)' = ForwardPhase(a) /\ Before(a)' = Before(a)
       /\ Running(a)' = Running(a) /\ KeyOf(a)' = KeyOf(a) /\ PhaseOf(a)' = PhaseOf(a)
       /\ AdmissionNow(a)' = AdmissionNow(a) /\ NeedsIdentity(a)' = NeedsIdentity(a)
       /\ ActiveFence(p)' = ActiveFence(p)
       /\ \A m : Committed(a, m)' = Committed(a, m)
  BY <1>2, <1>8 DEF ForwardPhase, Before, Running, KeyOf, BranchOf, PhaseOf, AdmissionNow,
     NeedsIdentity, ActiveFence, Committed
<1>12. AttemptInv(a)'
  <2>1. ShownShape(a)' /\ ForwardRun(a)' /\ EndedRun(a)'
    BY <1>2, <1>3, <1>8, <1>11 DEF AttemptInv, ShownShape, ForwardRun, EndedRun
  <2>2. SealedRun(a)'
    BY <1>2, <1>3, <1>8, <1>11 DEF AttemptInv, SealedRun
  <2>3. RowsExplained(a)'
    BY <1>2, <1>3, <1>8, <1>11 DEF AttemptInv, RowsExplained
  <2> QED
    BY <2>1, <2>2, <2>3 DEF AttemptInv
<1>13. LinkInv(a)'
  <2>1. HoldsLock(a)' /\ HoldsFence(a)'
    BY <1>2, <1>3, <1>8, <1>11 DEF LinkInv, HoldsLock, HoldsFence
  <2>2. HoldsSource(a)'
    <3>1. IsDeploy(KindOf[a]) => AdmissionPhase(KindOf[a]) \in Keys
      BY AdmissionPhaseType DEF Keys
    <3> QED
      BY <1>2, <1>3, <1>8, <1>11, <3>1 DEF LinkInv, HoldsSource
  <2> QED
    BY <2>1, <2>2 DEF LinkInv
<1>14. ProjectInv(p)'
  BY <1>2, <1>3, <1>8 DEF ProjectInv, DrainOwned, FenceOwned, BoundaryBound, Running, Committed
<1>15. CallInv(p, thr[p])'
  <2>1. PICK t : t = thr[p] /\ t = thr'[p] /\ CallInv(p, t)
    BY <1>2, <1>3
  <2>2. CASE t.pc \in {"idle", "recovered"} \/ t.a # a
    <3>1. t.pc \notin {"idle", "recovered"} => LocalSame(t.a)
      BY <1>9, <2>1, <2>2 DEF CallInv, CallBound
    <3>2. CallInv(p, t)'
      BY <1>8, <1>10, <2>1, <3>1, CallFrame
    <3> QED
      BY <2>1, <3>2
  <2>3. CASE t.pc \notin {"idle", "recovered"} /\ t.a = a
    <3>1. CallBound(p, t)' /\ CallInPhase(p, t)' /\ CallOwns(p, t)' /\ CallEnds(p, t)'
      BY <1>2, <1>8, <1>11, <2>1, <2>3 DEF CallInv, CallBound, CallInPhase, CallOwns, CallEnds
    <3>2. CallAdmits(p, t)'
      BY <1>2, <1>5, <1>8, <1>11, <2>1, <2>3 DEF CallInv, CallAdmits
    <3>3. CallFences(p, t)'
      BY <1>2, <1>8, <1>11, <2>1, <2>3 DEF CallInv, CallFences, ObservationDue
    <3>4. CallInv(p, t)'
      BY <3>1, <3>2, <3>3 DEF CallInv
    <3> QED
      BY <2>1, <3>4
  <2> QED
    BY <2>2, <2>3
<1>16. Parts'
  BY <1>2, <1>8, <1>9, <1>10, <1>12, <1>13, <1>14, <1>15, GateFrame
<1> QED
  BY <1>2, <1>7, <1>16 DEF Safe

--------------------------------------------------------------------------------
(* Steps that write the projection of an attempt.                              *)
Projections ==
  [phase : ShownPhases, result : Results, block : Blocks, mode : Modes,
   from : Phases \cup {"none"}, projected : SUBSET Keys]

(* The projection of one attempt is replaced.                                  *)
LEMMA Projected ==
  ASSUME ControllerTypeOK, NEW a \in Attempts, NEW c, Set(a, c)
  PROVE  /\ ctl[a] \in Projections
         /\ ctl'[a] = c
         /\ \A b \in Attempts : b # a => ctl'[b] = ctl[b]
         /\ c \in Projections => ControllerTypeOK'
         /\ c = ctl[a] => ctl' = ctl
BY DEF ControllerTypeOK, Set, Projections

(* Only the projection of one attempt changes.  It never runs again once it    *)
(* ended, and it ends without a reservation or a fence.                        *)
LEMMA ProjectionStep ==
  ASSUME ExecInv, NEW p \in Projects, NEW a \in Attempts, ProjectOf[a] = p,
         UNCHANGED <<vars, recovered, owner, effect, ticket>>, Fault \/ UNCHANGED faults,
         NEW c \in Projections, Set(a, c),
         c.result = "running" => Running(a),
         c.result # "running" =>
           /\ Reserved(drain[p]) => drain[p].attempt # a
           /\ fence[p].state \in {"acquire_intent", "held", "release_intent"} =>
                fence[p].attempt # a,
         AttemptInv(a)', CallInv(p, thr[p])', thr' \in [Projects -> Threads],
         \A q \in Projects : q # p => thr'[q] = thr[q]
  PROVE  Safe
<1>1. HostTypes /\ Parts /\ FenceInv
  BY InvParts
<1>2. /\ ctl'[a] = c /\ \A b \in Attempts : b # a => ctl'[b] = ctl[b]
      /\ ControllerTypeOK'
  BY <1>1, Projected DEF HostTypes
<1>3. HostTypes'
  BY <1>1, <1>2, FaultType DEF HostTypes
<1>4. UNCHANGED <<journal, takeover, proof, rejection, fence, drain, boundary, held, tampers>>
  BY DEF vars, journalVars, fenceVars
<1>5. \A b \in Attempts : b # a => LocalSame(b)
  BY <1>2, <1>4 DEF LocalSame
<1>6. \A q \in Projects : SiteSame(q)
  BY <1>4 DEF SiteSame
<1>7. AttemptInv(a) /\ LinkInv(a) /\ ProjectInv(p)
  BY <1>1 DEF Parts
<1>8. Running(a)' => Running(a)
  BY <1>2 DEF Running
<1>9. LinkInv(a)'
  BY <1>4, <1>7, <1>8 DEF LinkInv, HoldsLock, HoldsSource, HoldsFence, Committed
<1>10. ProjectInv(p)'
  <2>1. ASSUME NEW b \in Attempts, Running(b), ~Running(b)' PROVE b = a /\ c.result # "running"
    BY <1>2, <2>1 DEF Running
  <2>2. DrainOwned(p)'
    BY <1>4, <1>7, <2>1 DEF ProjectInv, DrainOwned, Committed, Reserved
  <2>3. fence[p].state \in {"acquire_intent", "held", "release_intent"} =>
          fence[p].attempt \in Attempts
    BY <1>1 DEF FenceInv, FenceAfterBackup
  <2>4. FenceOwned(p)'
    BY <1>4, <1>7, <2>1, <2>3 DEF ProjectInv, FenceOwned
  <2> QED
    BY <1>4, <1>7, <2>2, <2>4 DEF ProjectInv, BoundaryBound, Reserved
<1>11. Parts'
  BY <1>4, <1>5, <1>6, <1>9, <1>10, GateFrame
<1> QED
  BY <1>3, <1>11 DEF Safe

(* An operation that ends before it mutated keeps its rows and receipts.       *)
LEMMA EndedEarly ==
  ASSUME ExecInv, NEW a \in Attempts, Running(a), ctl[a].mode = "none", takeover[a] = "none",
         CrossesMutationBoundary(ctl[a].phase) => ctl[a].phase = AdmissionPhase(KindOf[a]),
         UNCHANGED <<vars, effect>>, NEW result \in {"cancelled", "failed", "superseded"},
         Set(a, [ctl[a] EXCEPT !.result = result, !.block = "none"])
  PROVE  /\ AttemptInv(a)'
         /\ [ctl[a] EXCEPT !.result = result, !.block = "none"] \in Projections
<1>1. AttemptInv(a) /\ ControllerTypeOK
  BY InvParts DEF Parts, HostTypes
<1>2. ctl[a] \in Projections /\ ctl'[a] = [ctl[a] EXCEPT !.result = result, !.block = "none"]
  BY <1>1, Projected
<1>3. [ctl[a] EXCEPT !.result = result, !.block = "none"] \in Projections
  BY <1>2 DEF Projections, Results, Blocks
<1>4. /\ ctl'[a].phase = ctl[a].phase /\ ctl'[a].mode = ctl[a].mode
      /\ ctl'[a].from = ctl[a].from /\ ctl'[a].projected = ctl[a].projected
      /\ ctl'[a].result = result
  BY <1>2 DEF Projections
<1>5. UNCHANGED <<journal, takeover, proof, rejection>>
  BY DEF vars, journalVars
<1>6. /\ ForwardPhase(a)' = ForwardPhase(a) /\ Before(a)' = Before(a)
      /\ ~Running(a)' /\ \A k : Committed(a, k)' = Committed(a, k)
  BY <1>4, <1>5 DEF ForwardPhase, Before, Running, Committed
<1>7. ShownShape(a)' /\ SealedRun(a)' /\ EndedRun(a)'
  BY <1>1, <1>4, <1>5 DEF AttemptInv, ShownShape, SealedRun, EndedRun
<1>8. ForwardRun(a)'
  BY <1>1, <1>4, <1>5, <1>6 DEF AttemptInv, ForwardRun
<1>9. RowsExplained(a)'
  BY <1>1, <1>4, <1>5, <1>6 DEF AttemptInv, RowsExplained
<1> QED
  BY <1>3, <1>7, <1>8, <1>9 DEF AttemptInv

(* A superseded source ends the attempt, a hold or a missing broker blocks it. *)
LEMMA SettleSourceSafe ==
  ASSUME ExecInv, NEW p \in Projects, SettleSource(p)
  PROVE  Safe
<1> SUFFICES ASSUME NEW a, a = thr[p].a PROVE Safe
  OBVIOUS
<1>1. thr[p].pc = "source_settle" /\ thr[p].pc \in WorkPCs /\ thr[p].pc \in Admitting
  BY DEF SettleSource, At, WorkPCs, Admitting
<1>2. /\ a \in Attempts /\ ProjectOf[a] = p /\ HostTypes
      /\ thr[p].why \notin {"recover", "sweep"}
  BY <1>1, PhaseFacts
<1>3. /\ UNCHANGED <<vars, recovered, owner, effect, ticket, faults>> /\ "cleanup" \in PCs
      /\ recovered' \subseteq Projects /\ faults' \in Nat
  BY <1>2 DEF SettleSource, PCs, HostTypes
<1>4. /\ ctl[a].mode = "none" /\ takeover[a] = "none"
      /\ ctl[a].phase = AdmissionPhase(KindOf[a])
      /\ Reserved(drain[p]) => drain[p].attempt # a
      /\ fence[p].state \in {"acquire_intent", "held", "release_intent"} => fence[p].attempt # a
  BY <1>1, AdmissionClean DEF PhaseOf
<1>5. CASE SupersedeSourceAttempt(a) /\ Goto(p, "cleanup")
  <2>1. /\ thr' \in [Projects -> Threads]
        /\ thr'[p].pc = "cleanup" /\ thr'[p].a = a /\ thr'[p].why = thr[p].why
        /\ \A q \in Projects : q # p => thr'[q] = thr[q]
    BY <1>2, <1>3, <1>5, CallMoves
  <2>2. CASE Running(a)
    <3>1. PICK c : /\ c = [ctl[a] EXCEPT !.result = "superseded", !.block = "none"]
                   /\ Set(a, c)
      BY <1>5, <2>2 DEF SupersedeSourceAttempt
    <3>2. AttemptInv(a)' /\ c \in Projections
      BY <1>2, <1>3, <1>4, <2>2, <3>1, EndedEarly
    <3>3. c.result = "superseded" /\ ctl'[a] = c
      BY <1>2, <3>1, <3>2, Projected DEF Projections, HostTypes
    <3>4. \A t : t.pc = "cleanup" /\ t.a = a /\ t.why = thr[p].why => CallInv(p, t)'
      BY <1>2, <3>3 DEF CallInv, CallBound, CallInPhase, InPhase, WorkPCs, FencePCs,
         CallAdmits, CallOwns, CallFences, CallEnds, Untouched, Admitting, Running
    <3>5. CallInv(p, thr[p])'
      BY <2>1, <3>4, CallRecord
    <3> QED
      BY <1>2, <1>3, <1>4, <2>1, <3>1, <3>2, <3>3, <3>5, ProjectionStep
  <2>3. CASE ~Running(a)
    <3>1. ctl' = ctl
      BY <1>2, <1>5, <2>3, Projected DEF SupersedeSourceAttempt, HostTypes
    <3>2. \A t : t.pc = "cleanup" /\ t.a = a /\ t.why = thr[p].why => CallInv(p, t)
      BY <1>2, <2>3 DEF CallInv, CallBound, CallInPhase, InPhase, WorkPCs, FencePCs,
         CallAdmits, CallOwns, CallFences, CallEnds, Untouched, Admitting
    <3> QED
      BY <1>3, <1>5, <3>1, <3>2, QuietGoto
  <2> QED
    BY <2>2, <2>3
<1>6. CASE UNCHANGED ctl /\ Return(p)
  BY <1>3, <1>6, QuietReturn
<1>7. CASE \E why \in {"broker_unavailable", "source_hold"} : SetSourceBlock(a, why) /\ Return(p)
  <2>1. PICK why \in {"broker_unavailable", "source_hold"} : SetSourceBlock(a, why)
    BY <1>7
  <2>2. why \in Blocks
    BY DEF Blocks
  <2>3. \/ ctl' = [ctl EXCEPT ![a] = ctl[a]]
        \/ ctl' = [ctl EXCEPT ![a] = [ctl[a] EXCEPT !.block = why]]
    BY <2>1 DEF SetSourceBlock, SetPreMutationBlock, Set
  <2> QED
    BY <1>2, <1>3, <1>7, <2>2, <2>3, BlockedReturn
<1> QED
  BY <1>5, <1>6, <1>7 DEF SettleSource

(* Cancelling and failing, outside the gate and beside the call inside it.     *)
LEMMA EndOperationSafe ==
  ASSUME ExecInv, NEW a \in Attempts, EndOperation(a)
  PROVE  Safe
<1> SUFFICES ASSUME NEW p \in Projects, ProjectOf[a] = p PROVE Safe
  BY AttemptAssumption
<1>1. HostTypes /\ Parts /\ FenceInv
  BY InvParts
<1>2. PICK result \in {"cancelled", "failed"} : EndBeforeMutation(a, result)
  BY DEF EndOperation, CancelBeforeMutation, FailAttempt
<1>3. UNCHANGED <<vars, thr, recovered, owner, effect, ticket, faults>>
  BY DEF EndOperation, execVars
<1>4. PICK c : c = [ctl[a] EXCEPT !.result = result, !.block = "none"] /\ Set(a, c)
  BY <1>2 DEF EndBeforeMutation
<1>5. Running(a) /\ ~CrossesMutationBoundary(ctl[a].phase)
  BY <1>2 DEF EndBeforeMutation
<1>6. AttemptInv(a) /\ ProjectInv(p) /\ CallInv(p, thr[p]) /\ KindOf[a] \in Kinds
  BY <1>1, AttemptAssumption DEF Parts
<1>7. ctl[a].mode = "none" /\ takeover[a] = "none"
  BY <1>1, <1>5, <1>6 DEF AttemptInv, ShownShape, SealedRun, CrossesMutationBoundary, HostTypes,
     ControllerTypeOK, Modes
<1>8. AttemptInv(a)' /\ c \in Projections
  BY <1>2, <1>3, <1>4, <1>5, <1>7, EndedEarly
<1>9. ctl'[a] = c /\ c.result = result /\ c.phase = ctl[a].phase /\ c.mode = ctl[a].mode
      /\ c.from = ctl[a].from /\ c.projected = ctl[a].projected
  BY <1>1, <1>4, Projected DEF HostTypes, Projections
<1>10. ~Committed(a, "backing_up")
  <2>1. InPlan(KindOf[a], ctl[a].phase)
        /\ (\A k \in Keys : journal[a][k] # "none" =>
              k \in PhasesBefore[KindOf[a]][ctl[a].phase] \cup {ctl[a].phase})
    BY <1>6, <1>7 DEF AttemptInv, ForwardRun, ForwardPhase, Before
  <2>2. \A q \in PhasesBefore[KindOf[a]][ctl[a].phase] : ~CrossesMutationBoundary(q)
    BY <1>5, <1>6, <2>1, NothingMutatedBefore
  <2>3. "backing_up" \in Keys /\ CrossesMutationBoundary("backing_up")
    BY DEF Keys, Phases, CrossesMutationBoundary
  <2> QED
    BY <1>5, <2>1, <2>2, <2>3 DEF Committed
<1>11. /\ Reserved(drain[p]) => drain[p].attempt # a
       /\ fence[p].state \in {"acquire_intent", "held", "release_intent"} => fence[p].attempt # a
  BY <1>1, <1>6, <1>10 DEF ProjectInv, DrainOwned, FenceInv, FenceAfterBackup, FencePhaseReceipts
<1>12. UNCHANGED <<journal, takeover, proof, rejection, fence, drain, boundary, held, tampers>>
  BY <1>3 DEF vars, journalVars, fenceVars
<1>13. CallInv(p, thr[p])'
  <2>1. PICK t : t = thr[p] /\ t = thr'[p] /\ CallInv(p, t)
    BY <1>3, <1>6
  <2>2. CASE t.pc \in {"idle", "recovered"} \/ t.a # a
    <3>1. t.pc \notin {"idle", "recovered"} => LocalSame(t.a)
      BY <1>1, <1>3, <1>4, <1>12, <2>1, <2>2, Projected DEF CallInv, CallBound, LocalSame, HostTypes
    <3>2. SiteSame(p)
      BY <1>3, <1>12 DEF SiteSame
    <3>3. CallInv(p, t)'
      BY <1>12, <2>1, <3>1, <3>2, CallFrame
    <3> QED
      BY <2>1, <3>3
  <2>3. CASE t.pc \notin {"idle", "recovered"} /\ t.a = a
    <3>1. /\ KeyOf(a)' = KeyOf(a) /\ PhaseOf(a)' = PhaseOf(a)
          /\ AdmissionNow(a)' = AdmissionNow(a) /\ NeedsIdentity(a)' = NeedsIdentity(a)
          /\ ActiveFence(p)' = ActiveFence(p)
          /\ \A m : Committed(a, m)' = Committed(a, m)
      BY <1>9, <1>12 DEF KeyOf, BranchOf, PhaseOf, AdmissionNow, NeedsIdentity, ActiveFence, Committed
    <3>2. ~CrossesMutationBoundary(PhaseOf(a)) /\ ~Running(a)'
      BY <1>2, <1>5, <1>9 DEF PhaseOf, Running
    <3>3. CallBound(p, t)' /\ CallInPhase(p, t)' /\ CallOwns(p, t)' /\ CallEnds(p, t)'
      BY <1>3, <1>9, <1>12, <2>1, <2>3, <3>1, <3>2
         DEF CallInv, CallBound, CallInPhase, CallOwns, CallEnds
    <3>4. CallAdmits(p, t)'
      BY <1>3, <1>12, <2>1, <2>3, <3>1 DEF CallInv, CallAdmits
    <3>5. CallFences(p, t)'
      BY <1>3, <1>12, <2>1, <2>3, <3>1 DEF CallInv, CallFences, ObservationDue
    <3>6. CallInv(p, t)'
      BY <3>3, <3>4, <3>5 DEF CallInv
    <3> QED
      BY <2>1, <3>6
  <2> QED
    BY <2>2, <2>3
<1>14. thr' \in [Projects -> Threads] /\ \A q \in Projects : q # p => thr'[q] = thr[q]
  BY <1>1, <1>3 DEF HostTypes
<1>15. c.result # "running"
  BY <1>2, <1>9
<1> QED
  BY <1>3, <1>4, <1>8, <1>11, <1>13, <1>14, <1>15, ProjectionStep

(* An open or lost phase is shown as needing reconciliation.                   *)
LEMMA ToReconcileSafe ==
  ASSUME ExecInv, NEW p \in Projects, ToReconcile(p)
  PROVE  Safe
<1> SUFFICES ASSUME NEW a, a = thr[p].a PROVE Safe
  OBVIOUS
<1>1. thr[p].pc = "to_reconcile" /\ thr[p].pc \in WorkPCs
  BY DEF ToReconcile, At, WorkPCs
<1>2. /\ a \in Attempts /\ ProjectOf[a] = p /\ HostTypes /\ AttemptInv(a) /\ CallInv(p, thr[p])
      /\ ctl[a].mode # "reconciliation"
      /\ takeover[a] # "none" => ctl[a].mode = "rollback"
  BY <1>1, PhaseFacts
<1>3. /\ UNCHANGED <<vars, recovered, owner, effect, ticket, faults>> /\ Return(p)
      /\ recovered' \subseteq Projects /\ faults' \in Nat
  BY <1>2 DEF ToReconcile, HostTypes
<1>4. CASE ~Running(a)
  BY <1>3, <1>4, QuietReturn DEF ToReconcile
<1>5. CASE Running(a)
  <2>1. PICK c : /\ c = [ctl[a] EXCEPT !.phase = "reconciliation", !.from = ctl[a].phase,
                                        !.mode = "reconciliation", !.block = "security_invalid"]
                 /\ Set(a, c)
    BY <1>5 DEF ToReconcile, MarkNeedsReconcile
  <2>2. ctl[a] \in Projections /\ ctl'[a] = c
    BY <1>2, <2>1, Projected DEF HostTypes
  <2>3. ctl[a].phase \in Phases /\ ctl[a].mode \in {"none", "rollback"}
    BY <1>2, <2>2 DEF AttemptInv, ShownShape, Projections, Modes, Phases
  <2>4. /\ c \in Projections
        /\ c.phase = "reconciliation" /\ c.from = ctl[a].phase /\ c.mode = "reconciliation"
        /\ c.projected = ctl[a].projected /\ c.result = "running"
    BY <1>5, <2>1, <2>2, <2>3 DEF Projections, ShownPhases, Modes, Blocks, Running
  <2>5. UNCHANGED <<journal, takeover, proof, rejection, effect>>
    BY <1>3 DEF vars, journalVars
  <2>6. Running(a)' /\ \A k : Committed(a, k)' = Committed(a, k)
    BY <2>2, <2>4, <2>5 DEF Running, Committed
  <2>7. AttemptInv(a)'
    <3>1. ShownShape(a)' /\ EndedRun(a)'
      BY <2>2, <2>3, <2>4 DEF ShownShape, EndedRun
    <3>2. ForwardRun(a)'
      <4>1. takeover[a] = "none" => ctl[a].mode = "none"
        BY <1>2, <2>3 DEF AttemptInv, ForwardRun
      <4>2. ctl[a].mode = "none" => ForwardPhase(a)' = ForwardPhase(a) /\ Before(a)' = Before(a)
        BY <2>2, <2>4 DEF ForwardPhase, Before
      <4> QED
        BY <1>2, <1>5, <2>2, <2>4, <2>5, <2>6, <4>1, <4>2 DEF AttemptInv, ForwardRun
    <3>3. SealedRun(a)'
      <4> SUFFICES ASSUME takeover[a] # "none" PROVE SealedRun(a)'
        BY <2>5 DEF SealedRun
      <4>1. ctl[a].mode = "rollback" /\ ~Committed(a, KeyOf(a))
            /\ ctl[a].phase \in {"rollback", "health_checking", "soaking"}
        BY <1>1, <1>2 DEF CallInv, CallEnds, AttemptInv, ShownShape
      <4> QED
        BY <1>2, <2>2, <2>4, <2>5, <2>6, <4>1 DEF AttemptInv, SealedRun
    <3>4. RowsExplained(a)'
      BY <1>2, <2>2, <2>4, <2>5, <2>6 DEF AttemptInv, RowsExplained
    <3> QED
      BY <3>1, <3>2, <3>3, <3>4 DEF AttemptInv
  <2>8. /\ thr' \in [Projects -> Threads] /\ CallInv(p, thr[p])'
        /\ \A q \in Projects : q # p => thr'[q] = thr[q]
    BY <1>2, <1>3, ReturnedCall
  <2> QED
    BY <1>2, <1>3, <1>5, <2>1, <2>4, <2>7, <2>8, ProjectionStep
<1> QED
  BY <1>4, <1>5

(* The controller shows a rollback that is sealed.                             *)
LEMMA ShowRollbackSafe ==
  ASSUME ExecInv, NEW p \in Projects, ShowRollback(p)
  PROVE  Safe
<1> SUFFICES ASSUME NEW a, a = thr[p].a PROVE Safe
  OBVIOUS
<1>1. thr[p].pc = "to_rollback"
  BY DEF ShowRollback, At
<1>2. /\ a \in Attempts /\ ProjectOf[a] = p /\ HostTypes /\ AttemptInv(a) /\ CallInv(p, thr[p])
  BY <1>1, CallFacts
<1>3. /\ UNCHANGED <<vars, recovered, owner, effect, ticket, faults>> /\ Return(p)
      /\ recovered' \subseteq Projects /\ faults' \in Nat /\ BeginRollback(a)
  BY <1>2 DEF ShowRollback, HostTypes
<1>4. takeover[a] # "none"
  BY <1>1, <1>2 DEF CallInv, CallEnds
<1>5. CASE ctl[a].mode = "rollback"
  <2>1. ctl' = ctl
    BY <1>2, <1>3, <1>5, Projected DEF BeginRollback, HostTypes
  <2> QED
    BY <1>3, <2>1, QuietReturn
<1>6. CASE ctl[a].mode # "rollback"
  <2>1. PICK c : /\ c = [ctl[a] EXCEPT !.phase = "rollback", !.block = "none",
                                        !.mode = "rollback", !.from = "none"]
                 /\ Set(a, c)
    BY <1>3, <1>6 DEF BeginRollback
  <2>2. ctl[a] \in Projections /\ ctl'[a] = c /\ Running(a)
    BY <1>2, <1>3, <1>6, <2>1, Projected DEF HostTypes, BeginRollback, RollbackTransition
  <2>3. /\ c \in Projections
        /\ c.phase = "rollback" /\ c.from = "none" /\ c.mode = "rollback"
        /\ c.projected = ctl[a].projected /\ c.result = "running"
    <3>1. "rollback" \in ShownPhases /\ "rollback" \in Modes /\ "none" \in Blocks
      BY DEF ShownPhases, Phases, Modes, Blocks
    <3> QED
      BY ZenonT(60), <2>1, <2>2, <3>1 DEF Projections, Running
  <2>4. UNCHANGED <<journal, takeover, proof, rejection, effect>>
    BY <1>3 DEF vars, journalVars
  <2>5. Running(a)' /\ \A k : Committed(a, k)' = Committed(a, k)
    BY <2>2, <2>3, <2>4 DEF Running, Committed
  <2>6. AttemptInv(a)'
    <3>1. ShownShape(a)' /\ EndedRun(a)' /\ ForwardRun(a)'
      BY <1>4, <2>2, <2>3, <2>4 DEF ShownShape, EndedRun, ForwardRun
    <3>2. SealedRun(a)'
      BY <1>2, <1>4, <1>6, <2>2, <2>3, <2>4, <2>5 DEF AttemptInv, SealedRun
    <3>3. RowsExplained(a)'
      BY <1>2, <1>4, <2>2, <2>3, <2>4, <2>5 DEF AttemptInv, RowsExplained
    <3> QED
      BY <3>1, <3>2, <3>3 DEF AttemptInv
  <2>7. /\ thr' \in [Projects -> Threads] /\ CallInv(p, thr[p])'
        /\ \A q \in Projects : q # p => thr'[q] = thr[q]
    BY <1>2, <1>3, ReturnedCall
  <2> QED
    BY <1>2, <1>3, <2>1, <2>2, <2>3, <2>6, <2>7, ProjectionStep
<1> QED
  BY <1>5, <1>6

(* The receipt of a recovery phase.                                            *)
AfterRecovery(c, kind, phase) == AfterReceipt(c, kind, phase, TRUE)

(* A receipt of the rollback branch leads to its next phase, or ends it.       *)
LEMMA RecoveryAdvances ==
  ASSUME NEW kind, NEW c, NEW phase \in {"rollback", "health_checking", "soaking"}
  PROVE  \/ /\ phase # "soaking"
            /\ \E next \in {"health_checking", "soaking"} :
                 AfterRecovery(c, kind, phase) = Onward(c, next)
         \/ /\ phase = "soaking"
            /\ AfterRecovery(c, kind, phase) = Ending(c, phase, "rolled_back")
<1> DEFINE i == CHOOSE n \in DOMAIN RecoveryPhases : RecoveryPhases[n] = phase
<1>1. /\ DOMAIN RecoveryPhases = 1 .. 3 /\ Len(RecoveryPhases) = 3
      /\ RecoveryPhases[1] = "rollback" /\ RecoveryPhases[2] = "health_checking"
      /\ RecoveryPhases[3] = "soaking"
  BY DEF RecoveryPhases
<1>2. \E n \in 1 .. 3 : RecoveryPhases[n] = phase
  BY <1>1
<1>3. i \in 1 .. 3 /\ RecoveryPhases[i] = phase
  BY <1>1, <1>2
<1>4. AfterRecovery(c, kind, phase) =
        IF i < Len(RecoveryPhases)
        THEN Onward(c, RecoveryPhases[i + 1]) ELSE Ending(c, phase, "rolled_back")
  BY DEF AfterRecovery, AfterReceipt, Onward, Ending
<1> HIDE DEF i
<1>5. i \in {1, 2, 3}
  BY <1>3
<1>6. CASE i = 3
  <2>1. phase = "soaking" /\ ~(i < Len(RecoveryPhases))
    BY <1>1, <1>3, <1>6
  <2>2. AfterRecovery(c, kind, phase) =
          Ending(c, phase, "rolled_back")
    BY <1>4, <2>1, Zenon
  <2> QED
    BY <2>1, <2>2, Zenon
<1>7. CASE i = 1
  <2>1. phase = "rollback" /\ i < Len(RecoveryPhases) /\ RecoveryPhases[i + 1] = "health_checking"
    BY <1>1, <1>3, <1>7
  <2>2. AfterRecovery(c, kind, phase) =
          Onward(c, "health_checking")
    BY <1>4, <2>1, Zenon
  <2>3. phase # "soaking"
    BY <2>1
  <2> QED
    BY <2>2, <2>3, Zenon
<1>8. CASE i = 2
  <2>1. phase = "health_checking" /\ i < Len(RecoveryPhases) /\ RecoveryPhases[i + 1] = "soaking"
    BY <1>1, <1>3, <1>8
  <2>2. AfterRecovery(c, kind, phase) = Onward(c, "soaking")
    BY <1>4, <2>1, Zenon
  <2>3. phase # "soaking"
    BY <2>1
  <2> QED
    BY <2>2, <2>3, Zenon
<1> QED
  BY <1>5, <1>6, <1>7, <1>8

(* A receipt joins the projection, which leaves reconciliation if it was in it. *)
Receipted(c, k) == [c EXCEPT !.projected = @ \cup {k}, !.mode = "none", !.from = "none"]

(* The fields of a projection that goes on or ends, and of one that is joined. *)
LEMMA ProjectionFields ==
  ASSUME NEW c \in Projections
  PROVE  /\ \A ph \in ShownPhases :
              /\ Onward(c, ph) \in Projections
              /\ Onward(c, ph).phase = ph /\ Onward(c, ph).result = c.result
              /\ Onward(c, ph).mode = c.mode /\ Onward(c, ph).from = c.from
              /\ Onward(c, ph).projected = c.projected
         /\ \A ph \in ShownPhases, r \in Results :
              /\ Ending(c, ph, r) \in Projections
              /\ Ending(c, ph, r).phase = ph /\ Ending(c, ph, r).result = r
              /\ Ending(c, ph, r).mode = c.mode /\ Ending(c, ph, r).from = c.from
              /\ Ending(c, ph, r).projected = c.projected
         /\ \A k \in Keys :
              /\ Receipted(c, k) \in Projections
              /\ Receipted(c, k).phase = c.phase /\ Receipted(c, k).result = c.result
              /\ Receipted(c, k).mode = "none" /\ Receipted(c, k).from = "none"
              /\ Receipted(c, k).projected = c.projected \cup {k}
<1>1. "none" \in Blocks /\ "none" \in Modes
  BY DEF Blocks, Modes
<1>2. ASSUME NEW ph \in ShownPhases
      PROVE  /\ Onward(c, ph) \in Projections
             /\ Onward(c, ph).phase = ph /\ Onward(c, ph).result = c.result
             /\ Onward(c, ph).mode = c.mode /\ Onward(c, ph).from = c.from
             /\ Onward(c, ph).projected = c.projected
  BY <1>1 DEF Onward, Projections
<1>3. ASSUME NEW ph \in ShownPhases, NEW r \in Results
      PROVE  /\ Ending(c, ph, r) \in Projections
             /\ Ending(c, ph, r).phase = ph /\ Ending(c, ph, r).result = r
             /\ Ending(c, ph, r).mode = c.mode /\ Ending(c, ph, r).from = c.from
             /\ Ending(c, ph, r).projected = c.projected
  BY <1>1 DEF Ending, Projections
<1>4. ASSUME NEW k \in Keys
      PROVE  /\ Receipted(c, k) \in Projections
             /\ Receipted(c, k).phase = c.phase /\ Receipted(c, k).result = c.result
             /\ Receipted(c, k).mode = "none" /\ Receipted(c, k).from = "none"
             /\ Receipted(c, k).projected = c.projected \cup {k}
  <2>1. c.projected \cup {k} \in SUBSET Keys
    BY DEF Projections
  <2> QED
    BY <1>1, <2>1 DEF Receipted, Projections
<1> QED
  BY <1>2, <1>3, <1>4

(* The projection of a receipt: the next phase of the plan, or its end.        *)
LEMMA ForwardReceipt ==
  ASSUME ExecInv, NEW a \in Attempts, Running(a), takeover[a] = "none",
         Committed(a, ForwardPhase(a)), UNCHANGED <<vars, effect>>,
         NEW c, c = Receipted(AfterForward(ctl[a], KindOf[a], ForwardPhase(a)), ForwardPhase(a)),
         Set(a, c)
  PROVE  /\ AttemptInv(a)' /\ c \in Projections /\ c.mode = "none"
         /\ \/ c.result = "running"
            \/ /\ ForwardPhase(a) = "soaking" \/ KindOf[a] = "backup_only"
               /\ c.result \in {"succeeded", "rolled_back"}
<1>1. AttemptInv(a) /\ ControllerTypeOK /\ KindOf[a] \in Kinds
  BY InvParts, AttemptAssumption DEF Parts, HostTypes
<1>2. ctl[a] \in Projections /\ ctl'[a] = c
  BY <1>1, Projected
<1>3. PICK f, kind, c0 : f = ForwardPhase(a) /\ kind = KindOf[a] /\ c0 = ctl[a]
  OBVIOUS
<1>4. /\ kind \in Kinds /\ InPlan(kind, f) /\ f \in Phases /\ f \in Keys /\ f \in ShownPhases
      /\ Before(a) \subseteq c0.projected /\ c0.projected \subseteq Before(a)
      /\ \A k \in Keys : journal[a][k] # "none" => k \in Before(a) \cup {f}
      /\ Before(a) = PhasesBefore[kind][f] /\ c0 \in Projections /\ c0.result = "running"
  <2>1. /\ kind \in Kinds /\ InPlan(kind, f)
        /\ Before(a) \subseteq c0.projected /\ c0.projected \subseteq Before(a)
        /\ \A k \in Keys : journal[a][k] # "none" => k \in Before(a) \cup {f}
        /\ Before(a) = PhasesBefore[kind][f] /\ c0 \in Projections /\ c0.result = "running"
    BY <1>1, <1>2, <1>3 DEF AttemptInv, ForwardRun, Before, Running
  <2>2. f \in Phases
    BY <2>1, PlanMembers
  <2> QED
    BY <2>1, <2>2 DEF Keys, ShownPhases
<1>5. UNCHANGED <<journal, takeover, proof, rejection, effect>>
  BY DEF vars, journalVars
<1>6. \A k : Committed(a, k)' = Committed(a, k)
  BY <1>5 DEF Committed
<1>7. \A k \in c0.projected \cup {f} : Committed(a, k)
  BY <1>1, <1>3 DEF AttemptInv, RowsExplained
<1>8. ASSUME c.mode = "none", c.from = "none", c.projected = c0.projected \cup {f}
      PROVE  RowsExplained(a)'
  BY <1>1, <1>2, <1>3, <1>5, <1>6, <1>7, <1>8 DEF AttemptInv, RowsExplained
<1>9. c = Receipted(AfterForward(c0, kind, f), f)
  BY <1>3
<1>10. ASSUME NEW next \in Phases, InPlan(kind, next),
              PhasesBefore[kind][next] = PhasesBefore[kind][f] \cup {f},
              AfterForward(c0, kind, f) = Onward(c0, next)
       PROVE  AttemptInv(a)' /\ c \in Projections /\ c.mode = "none" /\ c.result = "running"
  <2>1. next \in ShownPhases
    BY DEF ShownPhases
  <2>2. PICK c1 : c1 = Onward(c0, next) /\ c = Receipted(c1, f)
    BY <1>9, <1>10
  <2>3. /\ c1 \in Projections /\ c1.phase = next /\ c1.result = c0.result
        /\ c1.projected = c0.projected
    BY <1>4, <2>1, <2>2, ProjectionFields
  <2>4. /\ c \in Projections /\ c.phase = next /\ c.mode = "none" /\ c.from = "none"
        /\ c.projected = c0.projected \cup {f} /\ c.result = "running"
    <3>1. /\ Receipted(c1, f) \in Projections
          /\ Receipted(c1, f).phase = c1.phase /\ Receipted(c1, f).result = c1.result
          /\ Receipted(c1, f).mode = "none" /\ Receipted(c1, f).from = "none"
          /\ Receipted(c1, f).projected = c1.projected \cup {f}
      BY <1>4, <2>3, ProjectionFields
    <3> QED
      BY <1>4, <2>2, <2>3, <3>1
  <2>5. ForwardPhase(a)' = next /\ Before(a)' = Before(a) \cup {f} /\ Running(a)'
    BY <1>2, <1>3, <1>4, <1>10, <2>4 DEF ForwardPhase, Before, Running
  <2>6. ShownShape(a)' /\ EndedRun(a)' /\ SealedRun(a)'
    BY <1>2, <1>5, <2>4 DEF ShownShape, EndedRun, SealedRun
  <2>7. ForwardRun(a)'
    BY <1>2, <1>3, <1>4, <1>5, <1>10, <2>4, <2>5 DEF ForwardRun
  <2> QED
    BY <1>8, <2>4, <2>6, <2>7 DEF AttemptInv
<1>11. ASSUME \A q \in Phases : InPlan(kind, q) => q \in PhasesBefore[kind][f] \cup {f},
              f = "soaking" \/ kind = "backup_only",
              AfterForward(c0, kind, f) =
                Ending(c0, f, EndResult(kind))
       PROVE  AttemptInv(a)' /\ c \in Projections /\ c.mode = "none"
              /\ c.result \in {"succeeded", "rolled_back"}
  <2>1. PICK r : r = EndResult(kind)
    OBVIOUS
  <2>2. /\ r \in Results /\ r \in {"succeeded", "rolled_back"}
        /\ (r = "rolled_back" => kind = "code_rollback")
    BY <2>1 DEF Results, EndResult
  <2>3. PICK c1 : c1 = Ending(c0, f, r) /\ c = Receipted(c1, f)
    BY <1>9, <1>11, <2>1
  <2>4. /\ c1 \in Projections /\ c1.phase = f /\ c1.result = r
        /\ c1.projected = c0.projected
    BY <1>4, <2>2, <2>3, ProjectionFields
  <2>5. /\ c \in Projections /\ c.phase = f /\ c.mode = "none" /\ c.from = "none"
        /\ c.projected = c0.projected \cup {f} /\ c.result = r
    <3>1. /\ Receipted(c1, f) \in Projections
          /\ Receipted(c1, f).phase = c1.phase /\ Receipted(c1, f).result = c1.result
          /\ Receipted(c1, f).mode = "none" /\ Receipted(c1, f).from = "none"
          /\ Receipted(c1, f).projected = c1.projected \cup {f}
      BY <1>4, <2>4, ProjectionFields
    <3> QED
      BY <2>3, <2>4, <3>1
  <2>6. ForwardPhase(a)' = f /\ Before(a)' = Before(a) /\ ~Running(a)'
    BY <1>2, <1>3, <1>4, <2>2, <2>5 DEF ForwardPhase, Before, Running
  <2>7. ShownShape(a)' /\ SealedRun(a)'
    BY <1>2, <1>4, <1>5, <2>5 DEF ShownShape, SealedRun
  <2>8. \A q \in Phases : InPlan(kind, q) => Committed(a, q)
    BY <1>4, <1>7, <1>11
  <2>9. EndedRun(a)'
    BY <1>2, <1>3, <1>5, <1>6, <2>2, <2>5, <2>8 DEF EndedRun
  <2>10. ForwardRun(a)'
    BY <1>2, <1>3, <1>4, <1>5, <2>5, <2>6 DEF ForwardRun
  <2> QED
    BY <1>8, <2>2, <2>5, <2>7, <2>9, <2>10 DEF AttemptInv
<1>12. \/ \E next \in Phases :
              /\ InPlan(kind, next)
              /\ PhasesBefore[kind][next] = PhasesBefore[kind][f] \cup {f}
              /\ AfterForward(c0, kind, f) = Onward(c0, next)
       \/ /\ \A q \in Phases : InPlan(kind, q) => q \in PhasesBefore[kind][f] \cup {f}
          /\ f = "soaking" \/ kind = "backup_only"
          /\ AfterForward(c0, kind, f) =
               Ending(c0, f, EndResult(kind))
  <2>1. kind \in Kinds /\ InPlan(kind, f)
    BY <1>4
  <2> QED
    BY <2>1, PlanAdvances
<1> QED
  BY <1>3, <1>10, <1>11, <1>12

(* The receipt of a phase left for reconciliation is projected after all.      *)
LEMMA ReconcileCommitSafe ==
  ASSUME ExecInv, NEW p \in Projects, ReconcileCommit(p)
  PROVE  Safe
<1> SUFFICES ASSUME NEW a, a = thr[p].a PROVE Safe
  OBVIOUS
<1>1. thr[p].pc = "reconcile_commit"
  BY DEF ReconcileCommit, At
<1>2. /\ a \in Attempts /\ ProjectOf[a] = p /\ HostTypes /\ AttemptInv(a) /\ CallInv(p, thr[p])
      /\ KindOf[a] \in Kinds
  BY <1>1, CallFacts
<1>3. /\ UNCHANGED <<vars, recovered, owner, effect, ticket, faults>>
      /\ CommitReconciledReceipt(a)
      /\ "takeover" \in PCs
  BY <1>2 DEF ReconcileCommit, HostTypes, PCs
<1>4. /\ ctl[a].mode = "reconciliation" /\ ctl[a].from = CompletionPhase(KindOf[a])
      /\ Committed(a, ctl[a].from) /\ ctl[a].from \in Phases
      /\ thr[p].why \notin {"recover", "sweep"}
  BY <1>1, <1>2 DEF CallInv, CallEnds, CallBound, FencePCs, AttemptInv, ShownShape
<1>5. ctl[a].from \in {"deploying", "cutover_snapshotting"} /\ KindOf[a] # "backup_only"
  BY <1>4 DEF CompletionPhase, Phases, IsStateful
<1>6. takeover[a] = "none"
  BY <1>2, <1>4, <1>5 DEF AttemptInv, SealedRun
<1>7. ForwardPhase(a) = ctl[a].from /\ Running(a)
  BY <1>3, <1>4 DEF ForwardPhase, CommitReconciledReceipt
<1>8. PICK c : /\ c = Receipted(AfterForward(ctl[a], KindOf[a], ForwardPhase(a)), ForwardPhase(a))
               /\ Set(a, c)
  BY <1>3, <1>7 DEF CommitReconciledReceipt, Receipted, AfterForward
<1>9. AttemptInv(a)' /\ c \in Projections /\ c.result = "running"
  BY <1>2, <1>3, <1>4, <1>5, <1>6, <1>7, <1>8, ForwardReceipt
<1>10. /\ thr' \in [Projects -> Threads] /\ CallInv(p, thr[p])'
       /\ \A q \in Projects : q # p => thr'[q] = thr[q]
  <2>1. CASE Return(p)
    BY <1>2, <2>1, ReturnedCall
  <2>2. CASE Goto(p, "takeover")
    <3>1. /\ thr' \in [Projects -> Threads]
          /\ thr'[p].pc = "takeover" /\ thr'[p].a = a /\ thr'[p].why = thr[p].why
          /\ \A q \in Projects : q # p => thr'[q] = thr[q]
      BY <1>2, <1>3, <2>2, CallMoves
    <3>2. \A t : t.pc = "takeover" /\ t.a = a /\ t.why = thr[p].why => CallInv(p, t)'
      BY <1>2, <1>4 DEF CallInv, CallBound, CallInPhase, InPhase, WorkPCs, FencePCs,
         CallAdmits, CallOwns, CallFences, CallEnds, Untouched, Admitting
    <3> QED
      BY <3>1, <3>2, CallRecord
  <2> QED
    BY <2>1, <2>2 DEF ReconcileCommit
<1> QED
  BY <1>2, <1>3, <1>7, <1>8, <1>9, <1>10, ProjectionStep

(* A receipt joins the projection of an operation that is not in reconciliation. *)
Noted(c, k) == [c EXCEPT !.projected = @ \cup {k}]

(* The fields of such a projection.                                            *)
LEMMA NotedFields ==
  ASSUME NEW c \in Projections, NEW k \in Keys
  PROVE  /\ Noted(c, k) \in Projections
         /\ Noted(c, k).phase = c.phase /\ Noted(c, k).result = c.result
         /\ Noted(c, k).mode = c.mode /\ Noted(c, k).from = c.from
         /\ Noted(c, k).projected = c.projected \cup {k}
         /\ c.mode = "none" /\ c.from = "none" => Noted(c, k) = Receipted(c, k)
<1>1. c.projected \cup {k} \in SUBSET Keys
  BY DEF Projections
<1>2. /\ Noted(c, k) \in Projections
      /\ Noted(c, k).phase = c.phase /\ Noted(c, k).result = c.result
      /\ Noted(c, k).mode = c.mode /\ Noted(c, k).from = c.from
      /\ Noted(c, k).block = c.block
      /\ Noted(c, k).projected = c.projected \cup {k}
  BY <1>1 DEF Noted, Projections
<1>3. ASSUME c.mode = "none", c.from = "none" PROVE Noted(c, k) = Receipted(c, k)
  BY <1>1, <1>3 DEF Noted, Receipted, Projections
<1> QED
  BY <1>2, <1>3

(* A receipt of the forward run leaves the branch of the projection alone.     *)
LEMMA ForwardFields ==
  ASSUME NEW kind \in Kinds, NEW f, InPlan(kind, f), NEW c \in Projections
  PROVE  /\ AfterForward(c, kind, f) \in Projections
         /\ AfterForward(c, kind, f).mode = c.mode
         /\ AfterForward(c, kind, f).from = c.from
<1>1. f \in ShownPhases /\ EndResult(kind) \in Results
  BY PlanMembers DEF ShownPhases, EndResult, Results
<1>2. ASSUME NEW next \in Phases, AfterForward(c, kind, f) = Onward(c, next)
      PROVE  /\ AfterForward(c, kind, f) \in Projections
             /\ AfterForward(c, kind, f).mode = c.mode
             /\ AfterForward(c, kind, f).from = c.from
  <2>1. next \in ShownPhases
    BY DEF ShownPhases
  <2> QED
    BY <1>2, <2>1, ProjectionFields
<1>3. ASSUME AfterForward(c, kind, f) = Ending(c, f, EndResult(kind))
      PROVE  /\ AfterForward(c, kind, f) \in Projections
             /\ AfterForward(c, kind, f).mode = c.mode
             /\ AfterForward(c, kind, f).from = c.from
  BY <1>1, <1>3, ProjectionFields
<1>4. \/ \E next \in Phases : AfterForward(c, kind, f) = Onward(c, next)
      \/ AfterForward(c, kind, f) = Ending(c, f, EndResult(kind))
  BY PlanAdvances
<1> QED
  BY <1>2, <1>3, <1>4

(* What the projection of a receipt writes.                                    *)
LEMMA ReceiptWritten ==
  ASSUME NEW a \in Attempts, CommitReceipt(a), KeyOf(a) \notin ctl[a].projected,
         ctl[a].mode \in {"none", "rollback"}
  PROVE  /\ Running(a)
         /\ ctl[a].mode = "none" =>
              /\ KeyOf(a) = ctl[a].phase
              /\ Set(a, Noted(AfterForward(ctl[a], KindOf[a], ctl[a].phase), ctl[a].phase))
         /\ ctl[a].mode = "rollback" =>
              Set(a, Noted(AfterRecovery(ctl[a], KindOf[a], ctl[a].phase), KeyOf(a)))
<1>1. /\ Running(a)
      /\ Set(a, Noted(AfterReceipt(ctl[a], KindOf[a], ctl[a].phase, ctl[a].mode = "rollback"), KeyOf(a)))
  BY DEF CommitReceipt, Noted
<1>2. ASSUME ctl[a].mode = "none"
      PROVE  /\ KeyOf(a) = ctl[a].phase
             /\ Set(a, Noted(AfterForward(ctl[a], KindOf[a], ctl[a].phase), ctl[a].phase))
  <2>1. (ctl[a].mode = "rollback") = FALSE
    BY <1>2
  <2>2. KeyOf(a) = ctl[a].phase
    BY <1>2 DEF KeyOf, BranchOf, StorageKey
  <2>3. AfterReceipt(ctl[a], KindOf[a], ctl[a].phase, ctl[a].mode = "rollback") =
          AfterForward(ctl[a], KindOf[a], ctl[a].phase)
    BY <2>1 DEF AfterForward
  <2> QED
    BY <1>1, <2>2, <2>3
<1>3. ASSUME ctl[a].mode = "rollback"
      PROVE  Set(a, Noted(AfterRecovery(ctl[a], KindOf[a], ctl[a].phase), KeyOf(a)))
  <2>1. (ctl[a].mode = "rollback") = TRUE
    BY <1>3
  <2>2. AfterReceipt(ctl[a], KindOf[a], ctl[a].phase, ctl[a].mode = "rollback") =
          AfterRecovery(ctl[a], KindOf[a], ctl[a].phase)
    BY <2>1 DEF AfterRecovery
  <2> QED
    BY <1>1, <2>2
<1> QED
  BY <1>1, <1>2, <1>3

(* The projection of a receipt of the rollback branch.                         *)
LEMMA RecoveryReceipt ==
  ASSUME ExecInv, NEW a \in Attempts, Running(a), ctl[a].mode = "rollback",
         Committed(a, KeyOf(a)), UNCHANGED <<vars, effect>>,
         NEW c, c = Noted(AfterRecovery(ctl[a], KindOf[a], ctl[a].phase), KeyOf(a)), Set(a, c)
  PROVE  /\ AttemptInv(a)' /\ c \in Projections
         /\ \/ c.result = "running"
            \/ ctl[a].phase = "soaking" /\ c.result = "rolled_back"
<1>1. AttemptInv(a) /\ ControllerTypeOK
  BY InvParts DEF Parts, HostTypes
<1>2. ctl[a] \in Projections /\ ctl'[a] = c
  BY <1>1, Projected
<1>3. PICK c0, k, kind : c0 = ctl[a] /\ k = KeyOf(a) /\ kind = KindOf[a]
  OBVIOUS
<1>4. /\ takeover[a] # "none" /\ c0 \in Projections /\ c0.mode = "rollback" /\ c0.from = "none"
      /\ c0.phase \in {"rollback", "health_checking", "soaking"} /\ c0.result = "running"
  BY <1>1, <1>2, <1>3 DEF AttemptInv, RowsExplained, ShownShape, Running
<1>5. k \in RecoveryKeys /\ k \in Keys /\ Committed(a, k)
      /\ (c0.phase = "soaking" => k = "rollback_recovery_soaking")
  BY <1>3, <1>4 DEF KeyOf, BranchOf, StorageKey, RecoveryKeys, Keys
<1>6. UNCHANGED <<journal, takeover, proof, rejection, effect>>
  BY DEF vars, journalVars
<1>7. \A l : Committed(a, l)' = Committed(a, l)
  BY <1>6 DEF Committed
<1>8. ASSUME NEW c1, c = Noted(c1, k), c1 \in Projections, c1.mode = "rollback",
             c1.from = "none", c1.projected = c0.projected,
             c1.phase \in {"rollback", "health_checking", "soaking"},
             c1.result \in {"running", "rolled_back"},
             c1.result = "rolled_back" => c0.phase = "soaking"
      PROVE  /\ AttemptInv(a)' /\ c \in Projections
             /\ \/ c.result = "running"
                \/ c0.phase = "soaking" /\ c.result = "rolled_back"
  <2>1. /\ c \in Projections /\ c.phase = c1.phase /\ c.mode = "rollback" /\ c.from = "none"
        /\ c.projected = c0.projected \cup {k} /\ c.result = c1.result
    BY <1>5, <1>8, NotedFields
  <2>2. ShownShape(a)' /\ ForwardRun(a)'
    BY <1>2, <1>4, <1>6, <1>8, <2>1 DEF ShownShape, ForwardRun
  <2>3. RowsExplained(a)'
    BY <1>1, <1>2, <1>3, <1>4, <1>5, <1>6, <1>7, <2>1 DEF AttemptInv, RowsExplained
  <2>4. EndedRun(a)'
    BY <1>2, <1>5, <1>7, <1>8, <2>1 DEF EndedRun
  <2>5. SealedRun(a)'
    BY <1>1, <1>2, <1>3, <1>4, <1>6, <1>7, <1>8, <2>1 DEF AttemptInv, SealedRun
  <2> QED
    BY <1>8, <2>1, <2>2, <2>3, <2>4, <2>5 DEF AttemptInv
<1>9. PICK c1 : c1 = AfterRecovery(c0, kind, c0.phase) /\ c = Noted(c1, k)
  BY <1>3
<1>10. \/ /\ c0.phase # "soaking"
          /\ \E next \in {"health_checking", "soaking"} : c1 = Onward(c0, next)
       \/ c0.phase = "soaking" /\ c1 = Ending(c0, "soaking", "rolled_back")
  BY <1>4, <1>9, RecoveryAdvances
<1>11. /\ "health_checking" \in ShownPhases /\ "soaking" \in ShownPhases
       /\ "rolled_back" \in Results
  BY DEF ShownPhases, Phases, Results
<1>12. /\ c1 \in Projections /\ c1.mode = "rollback"
       /\ c1.from = "none" /\ c1.projected = c0.projected
       /\ c1.phase \in {"rollback", "health_checking", "soaking"}
       /\ c1.result \in {"running", "rolled_back"}
       /\ (c1.result = "rolled_back" => c0.phase = "soaking")
  <2>1. CASE \E next \in {"health_checking", "soaking"} : c1 = Onward(c0, next)
    BY <1>4, <1>11, <2>1, ProjectionFields
  <2>2. CASE c0.phase = "soaking" /\ c1 = Ending(c0, "soaking", "rolled_back")
    BY SMTT(60), <1>4, <1>11, <2>2, ProjectionFields
  <2> QED
    BY <1>10, <2>1, <2>2
<1> QED
  BY <1>3, <1>8, <1>9, <1>12

(* A stateful attempt that deployed has its cut-over snapshot, so nothing is   *)
(* reserved for its drain any more.                                            *)
LEMMA NoDrainAfterDeploy ==
  ASSUME ExecInv, NEW p \in Projects, NEW a \in Attempts, ProjectOf[a] = p,
         Committed(a, "deploying") \/ Committed(a, "soaking")
  PROVE  Reserved(drain[p]) => drain[p].attempt # a
<1> SUFFICES ASSUME Reserved(drain[p]), drain[p].attempt = a PROVE FALSE
  OBVIOUS
<1>1. ProjectInv(p) /\ FenceInv /\ KindOf[a] \in Kinds
  BY InvParts, AttemptAssumption DEF Parts
<1>2. IsStateful(KindOf[a]) /\ journal[a]["cutover_snapshotting"] = "none"
  BY <1>1 DEF ProjectInv, DrainOwned
<1>3. /\ "cutover_snapshotting" \in PhasesBefore[KindOf[a]]["deploying"]
      /\ "cutover_snapshotting" \in PhasesBefore[KindOf[a]]["soaking"]
  BY <1>1, <1>2, StatefulOrder
<1>4. "deploying" \in Phases /\ "soaking" \in Phases
  BY DEF Phases
<1>5. Committed(a, "cutover_snapshotting")
  BY <1>1, <1>3, <1>4 DEF FenceInv, JournalInv, ReceiptsFormPrefix, Committed
<1> QED
  BY <1>2, <1>5 DEF Committed

(* A backup has neither a drain identity nor a fence.                          *)
LEMMA BackupUnfenced ==
  ASSUME ExecInv, NEW p \in Projects, NEW a \in Attempts, ProjectOf[a] = p,
         KindOf[a] = "backup_only"
  PROVE  /\ Reserved(drain[p]) => drain[p].attempt # a
         /\ fence[p].state \in {"acquire_intent", "held", "release_intent"} =>
              fence[p].attempt # a
<1>1. ProjectInv(p) /\ FenceInv /\ KindOf[a] \in Kinds /\ AttemptInv(a)
  BY InvParts, AttemptAssumption DEF Parts
<1>2. ~IsStateful(KindOf[a]) /\ "draining" \in Phases
  BY DEF IsStateful, Phases
<1>3. ~Committed(a, "draining")
  BY <1>1, <1>2, PlanMembers DEF AttemptInv, RowsExplained, Committed
<1> QED
  BY <1>1, <1>2, <1>3 DEF ProjectInv, DrainOwned, FenceInv, FenceAfterBackup, FencePhaseReceipts

(* The receipt of the current phase is projected.                              *)
LEMMA ProjectReceiptSafe ==
  ASSUME ExecInv, NEW p \in Projects, ProjectReceipt(p)
  PROVE  Safe
<1> SUFFICES ASSUME NEW a, a = thr[p].a PROVE Safe
  OBVIOUS
<1>1. thr[p].pc = "project" /\ thr[p].pc \in WorkPCs
  BY DEF ProjectReceipt, At, WorkPCs
<1>2. /\ a \in Attempts /\ ProjectOf[a] = p /\ HostTypes /\ AttemptInv(a) /\ CallInv(p, thr[p])
      /\ ctl[a].mode # "reconciliation" /\ FenceInv
      /\ takeover[a] # "none" => ctl[a].mode = "rollback"
      /\ journal[a][KeyOf(a)] \in RowAt("project")
      /\ thr[p].why \notin {"recover", "sweep"}
  BY <1>1, PhaseFacts
<1>3. /\ UNCHANGED <<vars, recovered, owner, effect, ticket, faults>> /\ "cleanup" \in PCs
      /\ recovered' \subseteq Projects /\ faults' \in Nat
  BY <1>2 DEF ProjectReceipt, PCs, HostTypes
<1>4. Committed(a, KeyOf(a)) /\ ctl[a] \in Projections
      /\ (ctl[a].phase = "soaking" => ~ActiveFence(p))
      /\ ctl[a].mode \in {"none", "rollback"}
  <2>1. Committed(a, KeyOf(a))
    BY <1>2, RowAtStep DEF Committed
  <2>2. ctl[a] \in Projections
    BY <1>2 DEF HostTypes, ControllerTypeOK, Projections
  <2> QED
    BY <1>1, <1>2, <2>1, <2>2 DEF CallInv, CallFences, PhaseOf, Projections, Modes
<1>5. \A t : t.pc = "cleanup" /\ t.a = a /\ t.why = thr[p].why /\ ~Running(a) => CallInv(p, t)
  BY <1>2 DEF CallInv, CallBound, CallInPhase, InPhase, WorkPCs, FencePCs,
     CallAdmits, CallOwns, CallFences, CallEnds, Untouched, Admitting
<1>6. CASE UNCHANGED ctl /\ Return(p)
  BY <1>3, <1>6, QuietReturn
<1>7. CASE CommitReceipt(a) /\ KeyOf(a) \in ctl[a].projected
           /\ (IF ctl'[a].result # "running" THEN Goto(p, "cleanup") ELSE Return(p))
  <2>1. ctl' = ctl
    BY <1>2, <1>7, Projected DEF CommitReceipt, HostTypes
  <2>2. CASE ctl[a].result # "running"
    BY <1>3, <1>5, <1>7, <2>1, <2>2, QuietGoto DEF Running
  <2>3. CASE ctl[a].result = "running"
    BY <1>3, <1>7, <2>1, <2>3, QuietReturn
  <2> QED
    BY <2>2, <2>3
<1>8. CASE CommitReceipt(a) /\ KeyOf(a) \notin ctl[a].projected
           /\ (IF ctl'[a].result # "running" THEN Goto(p, "cleanup") ELSE Return(p))
  <2>1. Running(a)
    BY <1>2, <1>4, <1>8, ReceiptWritten
  <2>2. ASSUME NEW c \in Projections, Set(a, c), AttemptInv(a)',
               c.result # "running" =>
                 /\ Reserved(drain[p]) => drain[p].attempt # a
                 /\ fence[p].state \in {"acquire_intent", "held", "release_intent"} =>
                      fence[p].attempt # a
        PROVE  Safe
    <3>1. ctl'[a] = c
      BY <1>2, <2>2, Projected DEF HostTypes
    <3>2. /\ thr' \in [Projects -> Threads] /\ CallInv(p, thr[p])'
          /\ \A q \in Projects : q # p => thr'[q] = thr[q]
      <4>1. CASE c.result # "running"
        <5>1. Goto(p, "cleanup") /\ ~Running(a)'
          BY <1>8, <3>1, <4>1 DEF Running
        <5>2. /\ thr' \in [Projects -> Threads]
              /\ thr'[p].pc = "cleanup" /\ thr'[p].a = a /\ thr'[p].why = thr[p].why
              /\ \A q \in Projects : q # p => thr'[q] = thr[q]
          BY <1>2, <1>3, <5>1, CallMoves
        <5>3. \A t : t.pc = "cleanup" /\ t.a = a /\ t.why = thr[p].why => CallInv(p, t)'
          BY <1>2, <5>1 DEF CallInv, CallBound, CallInPhase, InPhase, WorkPCs, FencePCs,
             CallAdmits, CallOwns, CallFences, CallEnds, Untouched, Admitting
        <5> QED
          BY <5>2, <5>3, CallRecord
      <4>2. CASE c.result = "running"
        BY <1>2, <1>8, <3>1, <4>2, ReturnedCall
      <4> QED
        BY <4>1, <4>2
    <3> QED
      BY <1>2, <1>3, <2>1, <2>2, <3>2, ProjectionStep
  <2>3. ctl[a].phase = "soaking" =>
          (fence[p].state \in {"acquire_intent", "held", "release_intent"} => fence[p].attempt # a)
    BY <1>4 DEF ActiveFence
  <2>4. CASE ctl[a].mode = "none"
    <3>1. /\ takeover[a] = "none" /\ KeyOf(a) = ctl[a].phase /\ ForwardPhase(a) = ctl[a].phase
          /\ InPlan(KindOf[a], ctl[a].phase) /\ ctl[a].from = "none"
          /\ KindOf[a] \in Kinds /\ ctl[a].phase \in Keys
      BY <1>2, <2>4, AttemptAssumption
         DEF AttemptInv, ShownShape, ForwardRun, ForwardPhase, KeyOf, BranchOf, StorageKey, Keys
    <3>2. PICK c0, kind, f : c0 = ctl[a] /\ kind = KindOf[a] /\ f = ctl[a].phase
      OBVIOUS
    <3>3. PICK c1 : c1 = AfterForward(c0, kind, f)
      OBVIOUS
    <3>4. c1 \in Projections /\ c1.mode = "none" /\ c1.from = "none"
      BY <1>4, <2>4, <3>1, <3>2, <3>3, ForwardFields
    <3>5. Noted(c1, f) = Receipted(c1, f)
      BY SMTT(60), <3>1, <3>2, <3>4, NotedFields
    <3>6. PICK c : /\ c = Receipted(AfterForward(ctl[a], KindOf[a], ForwardPhase(a)), ForwardPhase(a))
                   /\ Set(a, c)
      BY SMTT(60), <1>2, <1>4, <1>8, <2>4, <3>1, <3>2, <3>3, <3>5, ReceiptWritten
    <3>7. /\ AttemptInv(a)' /\ c \in Projections
          /\ \/ c.result = "running"
             \/ /\ ForwardPhase(a) = "soaking" \/ KindOf[a] = "backup_only"
                /\ c.result \in {"succeeded", "rolled_back"}
      BY <1>2, <1>3, <1>4, <2>1, <3>1, <3>6, ForwardReceipt
    <3>8. c.result # "running" =>
            /\ Reserved(drain[p]) => drain[p].attempt # a
            /\ fence[p].state \in {"acquire_intent", "held", "release_intent"} =>
                 fence[p].attempt # a
      <4>1. ctl[a].phase = "soaking" => Committed(a, "soaking")
        BY <1>4, <3>1
      <4> QED
        BY <1>2, <2>3, <3>1, <3>7, <4>1, NoDrainAfterDeploy, BackupUnfenced
    <3> QED
      BY <2>2, <3>6, <3>7, <3>8
  <2>5. CASE ctl[a].mode = "rollback"
    <3>1. PICK c : /\ c = Noted(AfterRecovery(ctl[a], KindOf[a], ctl[a].phase), KeyOf(a))
                   /\ Set(a, c)
      BY <1>2, <1>4, <1>8, <2>5, ReceiptWritten
    <3>2. /\ AttemptInv(a)' /\ c \in Projections
          /\ c.result = "running" \/ ctl[a].phase = "soaking"
      BY <1>2, <1>3, <1>4, <2>1, <2>5, <3>1, RecoveryReceipt
    <3>3. Committed(a, "deploying")
      BY <1>2, <2>5 DEF AttemptInv, RowsExplained, SealedRun
    <3> QED
      BY <1>2, <2>2, <2>3, <3>1, <3>2, <3>3, NoDrainAfterDeploy
  <2> QED
    BY <1>4, <2>4, <2>5
<1> QED
  BY <1>6, <1>7, <1>8 DEF ProjectReceipt

--------------------------------------------------------------------------------
(* Steps that move a fence, an identity or what the application reports.       *)

(* Only the fence state of one project changes.                                *)
LEMMA FenceMove ==
  ASSUME ExecInv, NEW p \in Projects, [Next]_vars,
         UNCHANGED <<journalVars, ctl, owner, effect, ticket, faults>>,
         recovered' \subseteq Projects,
         \A q \in Projects : q # p =>
           /\ thr'[q] = thr[q]
           /\ fence'[q] = fence[q] /\ drain'[q] = drain[q]
           /\ boundary'[q] = boundary[q] /\ held'[q] = held[q],
         tampers' = 0 => tampers = 0, tampers > 0 => tampers' > 0,
         \A b \in Attempts : ProjectOf[b] = p => HoldsFence(b)',
         ProjectInv(p)', CallInv(p, thr[p])', thr' \in [Projects -> Threads]
  PROVE  Safe
<1>1. HostTypes /\ Parts /\ FenceInv
  BY InvParts
<1>2. HostTypes'
  BY <1>1 DEF HostTypes, ControllerTypeOK
<1>3. \A b \in Attempts : LocalSame(b)
  BY DEF LocalSame, journalVars
<1>4. \A q \in Projects : q # p => SiteSame(q)
  BY DEF SiteSame
<1>5. ASSUME NEW b \in Attempts PROVE AttemptInv(b)' /\ LinkInv(b)'
  <2>1. AttemptInv(b) /\ LinkInv(b) /\ LocalSame(b) /\ ProjectOf[b] \in Projects
    BY <1>1, <1>3, AttemptAssumption DEF Parts
  <2>2. AttemptInv(b)'
    BY <2>1, AttemptFrame
  <2>3. HoldsLock(b)' /\ HoldsSource(b)'
    BY <2>1 DEF LinkInv, HoldsLock, HoldsSource, Running, Committed, journalVars
  <2>4. CASE ProjectOf[b] = p
    BY <2>2, <2>3, <2>4 DEF LinkInv
  <2>5. CASE ProjectOf[b] # p
    <3>1. fence'[ProjectOf[b]] = fence[ProjectOf[b]]
      BY <2>1, <2>5
    <3>2. HoldsFence(b)'
      BY <2>1, <3>1 DEF LinkInv, HoldsFence, Running, journalVars
    <3> QED
      BY <2>2, <2>3, <3>2 DEF LinkInv
  <2> QED
    BY <2>4, <2>5
<1>6. ASSUME NEW q \in Projects, q # p PROVE ProjectInv(q)' /\ CallInv(q, thr[q])'
  <2>1. PICK t : t = thr[q] /\ t = thr'[q]
    BY <1>6
  <2>2. ProjectInv(q) /\ CallInv(q, t) /\ SiteSame(q)
    BY <1>1, <1>4, <1>6, <2>1 DEF Parts
  <2>3. t.pc \notin {"idle", "recovered"} => LocalSame(t.a)
    BY <1>3, <2>2 DEF CallInv, CallBound
  <2>4. CallInv(q, t)'
    BY <2>2, <2>3, CallFrame
  <2>5. ProjectInv(q)'
    BY <1>1, <1>3, <2>2, ProjectFrame
  <2> QED
    BY <2>1, <2>4, <2>5
<1>7. Parts'
  BY <1>5, <1>6 DEF Parts
<1> QED
  BY <1>2, <1>7 DEF Safe

(* The row of a project follows what its application reports.                  *)
LEMMA ObservedSafe ==
  ASSUME ExecInv, NEW p \in Projects, ObservationDue(p), ReconcileFence(p),
         UNCHANGED <<journalVars, ctl, owner, effect, ticket, faults>>,
         recovered' \subseteq Projects, thr' \in [Projects -> Threads],
         \A q \in Projects : q # p => thr'[q] = thr[q], CallInv(p, thr[p])'
  PROVE  Safe
<1>1. HostTypes /\ Parts /\ FenceInv /\ JournalMatchesApplication
  BY InvParts
<1>2. [Next]_vars
  BY DEF Next, FenceStep
<1>3. JournalMatchesApplication'
  BY <1>1, <1>2, AgreementKept
<1>4. fence \in [Projects -> FenceRow]
  BY <1>1 DEF FenceInv, TypeOK
<1>5. PICK r : r = ReconciledFence(p)
  OBVIOUS
<1>6. /\ fence'[p] = r /\ \A q \in Projects : q # p => fence'[q] = fence[q]
      /\ UNCHANGED <<drain, boundary, held, tampers>>
  BY <1>4, <1>5 DEF ReconcileFence
<1>7. \/ r = fence[p]
      \/ r.state = "needs_reconcile"
      \/ /\ r.attempt = fence[p].attempt
         /\ \/ r.state = "held" /\ fence[p].state \in {"acquire_intent", "held"}
            \/ r.state = "released" /\ fence[p].state = "release_intent"
  BY <1>1, <1>5, ObservedRow
<1>8. tampers' = 0 => r.state # "needs_reconcile"
  BY <1>3, <1>6 DEF JournalMatchesApplication
<1>9. ASSUME NEW b \in Attempts, ProjectOf[b] = p PROVE HoldsFence(b)'
  <2>1. HoldsFence(b)
    BY <1>1 DEF Parts, LinkInv
  <2> QED
    BY <1>6, <1>7, <1>8, <1>9, <2>1 DEF HoldsFence, Running, journalVars
<1>10. ProjectInv(p)'
  <2>1. ProjectInv(p)
    BY <1>1 DEF Parts
  <2>2. DrainOwned(p)' /\ BoundaryBound(p)'
    BY <1>6, <2>1 DEF ProjectInv, DrainOwned, BoundaryBound, Reserved, Running, Committed, journalVars
  <2>3. FenceOwned(p)'
    BY <1>6, <1>7, <2>1 DEF ProjectInv, FenceOwned, Running
  <2> QED
    BY <2>2, <2>3 DEF ProjectInv
<1> QED
  BY <1>1, <1>2, <1>6, <1>9, <1>10, FenceMove

(* The application takes or drops a fence.                                     *)
LEMMA ApplicationSafe ==
  ASSUME ExecInv, NEW p \in Projects, AcquireFence(p) \/ ReleaseFence(p),
         UNCHANGED <<journalVars, ctl, owner, effect, ticket, faults>>,
         recovered' \subseteq Projects, thr' \in [Projects -> Threads],
         \A q \in Projects : q # p => thr'[q] = thr[q], CallInv(p, thr[p])'
  PROVE  Safe
<1>1. HostTypes /\ Parts /\ FenceInv
  BY InvParts
<1>2. [Next]_vars
  BY DEF Next, FenceStep
<1>3. /\ UNCHANGED <<fence, drain, boundary, tampers>>
      /\ \A q \in Projects : q # p => held'[q] = held[q]
  BY <1>1 DEF AcquireFence, ReleaseFence, FenceInv, TypeOK
<1>4. ASSUME NEW b \in Attempts, ProjectOf[b] = p PROVE HoldsFence(b)'
  <2>1. HoldsFence(b)
    BY <1>1 DEF Parts, LinkInv
  <2> QED
    BY <1>3, <2>1 DEF HoldsFence, Running, journalVars
<1>5. ProjectInv(p)'
  <2>1. ProjectInv(p)
    BY <1>1 DEF Parts
  <2> QED
    BY <1>3, <2>1 DEF ProjectInv, DrainOwned, FenceOwned, BoundaryBound, Reserved, Running,
       Committed, journalVars
<1> QED
  BY <1>1, <1>2, <1>3, <1>4, <1>5, FenceMove

(* Somebody else changes the fence of an application.                          *)
LEMMA TamperSafe ==
  ASSUME ExecInv, NEW p \in Projects, Tamper(p)
  PROVE  Safe
<1>1. HostTypes /\ Parts /\ FenceInv /\ tampers \in Nat
  BY InvParts DEF FenceInv, TypeOK
<1>2. /\ UNCHANGED <<journalVars, ctl, thr, recovered, owner, effect, ticket, faults>>
      /\ TamperFence(p) /\ tampers' = tampers + 1 /\ UNCHANGED <<fence, drain, boundary>>
  BY DEF Tamper, TamperFence, execVars
<1>3. [Next]_vars
  BY <1>2 DEF Next, FenceStep
<1>4. tampers' > 0 /\ tampers' # 0
  BY <1>1, <1>2
<1>5. \A q \in Projects : q # p => held'[q] = held[q]
  BY <1>1, <1>2 DEF TamperFence, FenceInv, TypeOK
<1>6. \A b \in Attempts : HoldsFence(b)'
  BY <1>4 DEF HoldsFence
<1>7. ProjectInv(p)'
  <2>1. ProjectInv(p)
    BY <1>1 DEF Parts
  <2> QED
    BY <1>2, <2>1 DEF ProjectInv, DrainOwned, FenceOwned, BoundaryBound, Reserved, Running,
       Committed, journalVars
<1>8. CallInv(p, thr[p])'
  <2>1. PICK t : t = thr[p] /\ t = thr'[p]
    BY <1>2
  <2>2. CallInv(p, t)
    BY <1>1, <2>1 DEF Parts
  <2>3. ObservationDue(p)'
    BY <1>4 DEF ObservationDue
  <2>4. CallBound(p, t)' /\ CallInPhase(p, t)' /\ CallAdmits(p, t)' /\ CallOwns(p, t)' /\ CallEnds(p, t)'
    <3>1. /\ KeyOf(t.a)' = KeyOf(t.a) /\ PhaseOf(t.a)' = PhaseOf(t.a)
          /\ (Running(t.a)' <=> Running(t.a)) /\ (AdmissionNow(t.a)' <=> AdmissionNow(t.a))
          /\ (NeedsIdentity(t.a)' <=> NeedsIdentity(t.a))
          /\ \A k : Committed(t.a, k)' <=> Committed(t.a, k)
      BY <1>2 DEF KeyOf, BranchOf, PhaseOf, Running, AdmissionNow, NeedsIdentity, Committed, journalVars
    <3> QED
      BY <1>2, <2>2, <3>1 DEF CallInv, CallBound, CallInPhase, CallAdmits, CallOwns, CallEnds, journalVars
  <2>5. CallFences(p, t)'
    <3>1. PhaseOf(t.a)' = PhaseOf(t.a) /\ (ActiveFence(p)' <=> ActiveFence(p))
      BY <1>2 DEF PhaseOf, ActiveFence
    <3> QED
      BY <1>2, <2>2, <2>3, <3>1 DEF CallInv, CallFences
  <2> QED
    BY <2>1, <2>4, <2>5 DEF CallInv
<1>9. recovered' \subseteq Projects /\ thr' \in [Projects -> Threads]
  BY <1>1, <1>2 DEF HostTypes
<1> QED
  BY <1>2, <1>3, <1>4, <1>5, <1>6, <1>7, <1>8, <1>9, FenceMove

(* A call that only moves on.                                                  *)
LEMMA UnmovedFence ==
  ASSUME ExecInv, NEW p \in Projects, UNCHANGED <<vars, ctl, owner, effect, ticket, faults>>,
         recovered' \subseteq Projects, thr' \in [Projects -> Threads],
         \A q \in Projects : q # p => thr'[q] = thr[q], CallInv(p, thr[p])'
  PROVE  Safe
<1>1. Parts
  BY InvParts
<1>2. UNCHANGED <<journalVars, fence, drain, boundary, held, tampers>>
  BY DEF vars, fenceVars
<1>3. ASSUME NEW b \in Attempts, ProjectOf[b] = p PROVE HoldsFence(b)'
  BY <1>1, <1>2, <1>3 DEF Parts, LinkInv, HoldsFence, Running, journalVars
<1>4. ProjectInv(p)'
  <2>1. ProjectInv(p)
    BY <1>1 DEF Parts
  <2> QED
    BY <1>2, <2>1 DEF ProjectInv, DrainOwned, FenceOwned, BoundaryBound, Reserved, Running,
       Committed, journalVars
<1> QED
  BY <1>2, <1>3, <1>4, FenceMove

(* What is said of a call that moves one step on through the fence protocol.   *)
LEMMA FenceCallMoves ==
  ASSUME ExecInv, NEW p \in Projects, NEW a, a = thr[p].a,
         UNCHANGED <<journalVars, ctl, owner, effect, ticket>>, NEW pc,
         \/ thr[p].pc \in {"fence_begin", "fence_set"} /\ pc \in {"fence_set", "fence_seen"}
         \/ thr[p].pc \in {"unset_begin", "unset"} /\ pc \in {"unset", "unset_seen"},
         \A t : t.pc = pc /\ t.a = a => CallFences(p, t)',
         Goto(p, pc)
  PROVE  /\ CallInv(p, thr[p])' /\ thr' \in [Projects -> Threads]
         /\ \A q \in Projects : q # p => thr'[q] = thr[q]
<1>1. /\ HostTypes /\ CallInv(p, thr[p]) /\ a \in Attempts /\ ProjectOf[a] = p
  BY CallFacts
<1>2. /\ KeyOf(a)' = KeyOf(a) /\ PhaseOf(a)' = PhaseOf(a)
      /\ (Running(a)' <=> Running(a)) /\ ctl' = ctl /\ journal' = journal /\ takeover' = takeover
  BY DEF KeyOf, BranchOf, PhaseOf, Running, journalVars
<1>3. ASSUME thr[p].why \notin {"recover", "sweep"}
      PROVE  /\ ctl[a].mode # "reconciliation"
             /\ Running(a) \/ ~CrossesMutationBoundary(PhaseOf(a))
             /\ ctl[a].mode = "none" => takeover[a] = "none"
             /\ journal[a][KeyOf(a)] \in RowAt(pc)
             /\ pc \in {"unset", "unset_seen"} => PhaseOf(a) = "soaking"
             /\ pc \in {"fence_set", "fence_seen"} => PhaseOf(a) = "cutover_snapshotting"
  <2>1. InPhase(thr[p]) /\ RowAt(pc) = RowAt(thr[p].pc) /\ thr[p].pc # "intent"
    BY <1>3, RowAtStep DEF InPhase, FencePCs
  <2> QED
    BY <1>1, <2>1 DEF CallInv, CallInPhase
<1>4. ASSUME NEW t, t.pc = pc, t.a = a, t.why = thr[p].why PROVE CallInv(p, t)'
  <2>1. pc \in {"fence_set", "fence_seen", "unset", "unset_seen"} /\ pc \notin WorkPCs
    BY DEF WorkPCs
  <2>2. CallBound(p, t)'
    BY <1>1, <1>4, <2>1 DEF CallBound, FencePCs
  <2>3. CallInPhase(p, t)'
    BY <1>2, <1>3, <1>4, <2>1 DEF CallInPhase, InPhase
  <2>4. CallAdmits(p, t)' /\ CallOwns(p, t)' /\ CallEnds(p, t)'
    BY <1>4, <2>1 DEF CallAdmits, CallOwns, CallEnds, Untouched, Admitting
  <2> QED
    BY <1>4, <2>2, <2>3, <2>4 DEF CallInv
<1>5. pc \in PCs
  BY DEF PCs
<1>6. /\ thr' \in [Projects -> Threads]
      /\ thr'[p].pc = pc /\ thr'[p].a = a /\ thr'[p].why = thr[p].why
      /\ \A q \in Projects : q # p => thr'[q] = thr[q]
  BY <1>1, <1>5, CallMoves
<1> QED
  BY <1>4, <1>6, CallRecord

(* The intent to acquire the fence is journalled.                              *)
LEMMA PersistFenceIntentSafe ==
  ASSUME ExecInv, NEW p \in Projects, PersistFenceIntent(p)
  PROVE  Safe
<1> SUFFICES ASSUME NEW a, a = thr[p].a PROVE Safe
  OBVIOUS
<1>1. thr[p].pc = "fence_begin"
  BY DEF PersistFenceIntent, At
<1>2. /\ HostTypes /\ FenceInv /\ Parts /\ CallInv(p, thr[p]) /\ ProjectInv(p) /\ AttemptInv(a)
      /\ a \in Attempts /\ ProjectOf[a] = p /\ a # NoAttempt /\ KindOf[a] \in Kinds
  BY <1>1, CallFacts, InvParts, AttemptAssumption
<1>3. /\ UNCHANGED <<journalVars, ctl, recovered, owner, effect, ticket, faults>>
      /\ recovered' \subseteq Projects /\ faults' \in Nat
  BY <1>2 DEF PersistFenceIntent, HostTypes
<1>4. CASE Return(p) /\ UNCHANGED fenceVars
  BY <1>3, <1>4, QuietReturn DEF vars
<1>5. CASE CanBeginFenceAcquire(p, a) /\ ActiveFence(p) /\ Goto(p, "fence_set") /\ UNCHANGED fenceVars
  <2>1. /\ fence'[p].attempt = a /\ fence'[p].state \in {"acquire_intent", "held"}
        /\ UNCHANGED vars
    BY <1>3, <1>5 DEF CanBeginFenceAcquire, fenceVars, vars
  <2>2. \A t : t.pc = "fence_set" /\ t.a = a => CallFences(p, t)'
    BY <2>1 DEF CallFences
  <2>3. /\ CallInv(p, thr[p])' /\ thr' \in [Projects -> Threads]
        /\ \A q \in Projects : q # p => thr'[q] = thr[q]
    BY <1>1, <1>3, <1>5, <2>2, FenceCallMoves
  <2> QED
    BY <1>3, <2>1, <2>3, UnmovedFence
<1>6. CASE owner[Lock(p)] = a /\ BeginFenceAcquire(p, a) /\ Goto(p, "fence_set")
  <2>1. ~ActiveFence(p) /\ thr[p].why \notin {"recover", "sweep"}
    BY <1>1, <1>2, <1>6 DEF BeginFenceAcquire, ActiveFence, CallInv, CallFences
  <2>2. /\ ctl[a].mode # "reconciliation" /\ Running(a)
        /\ ctl[a].mode = "none" => takeover[a] = "none"
        /\ PhaseOf(a) = "cutover_snapshotting"
    BY <1>1, <1>2, <2>1 DEF CallInv, CallInPhase, InPhase, FencePCs, CrossesMutationBoundary
  <2>3. ctl[a].mode = "none" /\ takeover[a] = "none" /\ ForwardPhase(a) = "cutover_snapshotting"
    BY <1>2, <2>2 DEF AttemptInv, ShownShape, PhaseOf, ForwardPhase, HostTypes, ControllerTypeOK, Modes
  <2>4. fence \in [Projects -> FenceRow]
    BY <1>2 DEF FenceInv, TypeOK
  <2>5. /\ fence'[p].state = "acquire_intent" /\ fence'[p].attempt = a
        /\ ~Reserved(drain'[p])
        /\ UNCHANGED <<boundary, held, tampers>>
        /\ \A q \in Projects : q # p => fence'[q] = fence[q] /\ drain'[q] = drain[q]
    BY <1>2, <1>6, <2>4 DEF BeginFenceAcquire, Reserved, FenceInv, TypeOK
  <2>6. [Next]_vars
    BY <1>2, <1>3, <1>6 DEF Next, FenceStep
  <2>7. ASSUME NEW b \in Attempts, ProjectOf[b] = p PROVE HoldsFence(b)'
    <3> SUFFICES ASSUME tampers = 0, Running(b), journal[b]["cutover_snapshotting"] # "none"
                 PROVE  FALSE
      BY <1>3, <2>5 DEF HoldsFence, Running, journalVars
    <3>1. /\ LinkInv(b) /\ AttemptInv(b) /\ KindOf[b] \in Kinds /\ "cutover_snapshotting" \in Phases
      BY <1>2, AttemptAssumption DEF Parts, Phases
    <3>2. fence[p].attempt = b /\ fence[p].state = "released"
      BY <2>1, <2>7, <3>1 DEF LinkInv, HoldsFence, ActiveFence
    <3>3. b = a
      <4>1. InPlan(KindOf[b], "cutover_snapshotting")
        BY <3>1 DEF AttemptInv, RowsExplained
      <4>2. IsStateful(KindOf[b])
        BY <3>1, <4>1, PlanMembers
      <4>3. "backing_up" \in PhasesBefore[KindOf[b]]["cutover_snapshotting"]
        BY <3>1, <4>2, StatefulOrder
      <4>4. Committed(b, "backing_up")
        BY <1>2, <3>1, <4>3 DEF FenceInv, JournalInv, ReceiptsFormPrefix
      <4>5. "backing_up" \in Keys /\ MutatingKey("backing_up")
        BY DEF Keys, Phases, MutatingKey, CrossesMutationBoundary
      <4>6. effect[b]["backing_up"] = "applied"
        BY <3>1, <4>4, <4>5 DEF AttemptInv, RowsExplained, Committed
      <4> QED
        BY <1>6, <2>7, <3>1, <4>5, <4>6 DEF LinkInv, HoldsLock
    <3>4. PICK k : k = fence[p].receipt /\ Committed(a, k) /\ k \in {"soaking", "rollback"}
      BY <1>2, <2>3, <3>2, <3>3 DEF FenceInv, ReleaseHasEvidence, ReleaseSafe
    <3>5. k \in Phases /\ k \in Keys
      BY <3>4 DEF Phases, Keys
    <3>6. InPlan(KindOf[a], "cutover_snapshotting") /\ k \in Before(a)
      BY <1>2, <2>3, <3>4, <3>5 DEF AttemptInv, ForwardRun, Committed
    <3>7. IsStateful(KindOf[a])
      BY <1>2, <3>6, PlanMembers
    <3>8. Before(a) = PhasesBefore[KindOf[a]]["cutover_snapshotting"]
      BY <2>3 DEF Before
    <3> QED
      BY <1>2, <3>4, <3>6, <3>7, <3>8, StatefulOrder
  <2>8. ProjectInv(p)'
    <3>1. DrainOwned(p)' /\ FenceOwned(p)'
      BY <1>3, <1>6, <2>2, <2>5 DEF DrainOwned, FenceOwned, Running
    <3>2. BoundaryBound(p)'
      BY <1>2, <2>5 DEF ProjectInv, BoundaryBound, Reserved
    <3> QED
      BY <3>1, <3>2 DEF ProjectInv
  <2>9. \A t : t.pc = "fence_set" /\ t.a = a => CallFences(p, t)'
    BY <2>5 DEF CallFences
  <2>10. /\ CallInv(p, thr[p])' /\ thr' \in [Projects -> Threads]
         /\ \A q \in Projects : q # p => thr'[q] = thr[q]
    BY <1>1, <1>3, <1>6, <2>9, FenceCallMoves
  <2> QED
    BY <1>3, <2>5, <2>6, <2>7, <2>8, <2>10, FenceMove
<1> QED
  BY <1>4, <1>5, <1>6 DEF PersistFenceIntent

(* The application is asked for the fence.                                     *)
LEMMA SetFenceSafe ==
  ASSUME ExecInv, NEW p \in Projects, SetFence(p)
  PROVE  Safe
<1> SUFFICES ASSUME NEW a, a = thr[p].a PROVE Safe
  OBVIOUS
<1>1. thr[p].pc = "fence_set"
  BY DEF SetFence, At
<1>2. /\ HostTypes /\ FenceInv /\ CallInv(p, thr[p])
      /\ a \in Attempts /\ ProjectOf[a] = p /\ a # NoAttempt
      /\ fence[p].attempt = a /\ fence[p].state \in {"acquire_intent", "held"}
  BY <1>1, CallFacts, AttemptAssumption DEF CallInv, CallFences
<1>3. /\ UNCHANGED <<journalVars, ctl, recovered, owner, effect, ticket, faults>>
      /\ recovered' \subseteq Projects /\ faults' \in Nat
  BY <1>2 DEF SetFence, HostTypes
<1>4. LeaseOf(p) # NoLease
  BY <1>2 DEF LeaseOf, Lease, NoLease
<1>5. CASE (AcquireFence(p) \/ (held[p] = LeaseOf(p) /\ UNCHANGED fenceVars)) /\ Goto(p, "fence_seen")
  <2>1. fence' = fence /\ held'[p] = LeaseOf(p)
    BY <1>2, <1>5 DEF AcquireFence, fenceVars, FenceInv, TypeOK
  <2>2. ObservationDue(p)'
    BY <1>4, <2>1 DEF ObservationDue
  <2>3. \A t : t.pc = "fence_seen" /\ t.a = a => CallFences(p, t)'
    BY <1>2, <2>1, <2>2 DEF CallFences
  <2>4. /\ CallInv(p, thr[p])' /\ thr' \in [Projects -> Threads]
        /\ \A q \in Projects : q # p => thr'[q] = thr[q]
    BY <1>1, <1>3, <1>5, <2>3, FenceCallMoves
  <2>5. CASE AcquireFence(p)
    BY <1>3, <2>4, <2>5, ApplicationSafe
  <2>6. CASE UNCHANGED fenceVars
    BY <1>3, <2>4, <2>6, UnmovedFence DEF vars
  <2> QED
    BY <1>5, <2>5, <2>6
<1>6. CASE held[p] # NoLease /\ ReconcileFence(p) /\ Return(p)
  <2>1. ObservationDue(p)
    BY <1>6 DEF ObservationDue
  <2> QED
    BY <1>2, <1>3, <1>6, <2>1, ReturnedCall, ObservedSafe
<1> QED
  BY <1>5, <1>6 DEF SetFence

(* The fence is read back, and the phase or the recovery goes on with it.      *)
LEMMA FenceSeenSafe ==
  ASSUME ExecInv, NEW p \in Projects, FenceSeen(p)
  PROVE  Safe
<1> SUFFICES ASSUME NEW a, a = thr[p].a PROVE Safe
  OBVIOUS
<1>1. thr[p].pc = "fence_seen"
  BY DEF FenceSeen, At
<1>2. /\ HostTypes /\ FenceInv /\ CallInv(p, thr[p])
      /\ a \in Attempts /\ ProjectOf[a] = p
      /\ fence[p].attempt = a /\ fence[p].state \in {"acquire_intent", "held"}
      /\ ObservationDue(p)
  BY <1>1, CallFacts DEF CallInv, CallFences
<1>3. /\ UNCHANGED <<journalVars, ctl, recovered, owner, effect, ticket, faults>>
      /\ recovered' \subseteq Projects /\ faults' \in Nat /\ ReconcileFence(p)
  BY <1>2 DEF FenceSeen, HostTypes
<1>4. CASE Return(p)
  BY <1>2, <1>3, <1>4, ReturnedCall, ObservedSafe
<1>5. CASE ReconciledFence(p).state = "held"
           /\ Goto(p, IF Recovering(p) THEN "recovered" ELSE "intent")
  <2>1. fence'[p].state = "held" /\ fence'[p].attempt = a /\ UNCHANGED <<held, tampers>>
    <3>1. fence'[p] = ReconciledFence(p) /\ UNCHANGED <<held, tampers>>
      BY <1>2, <1>3 DEF ReconcileFence, FenceInv, TypeOK
    <3>2. ActiveFence(p)
      BY <1>2 DEF ActiveFence
    <3> QED
      BY <1>2, <1>5, <3>1, <3>2, ObservedRow
  <2>2. ObservationDue(p)'
    BY <1>2, <2>1 DEF ObservationDue
  <2>3. CASE Recovering(p) /\ Goto(p, "recovered")
    <3>1. \A t : t.pc = "recovered" /\ t.a = a /\ t.why = thr[p].why => CallInv(p, t)'
      BY <1>2, <2>2, <2>3 DEF CallInv, CallBound, CallInPhase, InPhase, WorkPCs, FencePCs,
         CallAdmits, CallOwns, CallFences, CallEnds, Untouched, Admitting, Recovering
    <3>2. /\ thr' \in [Projects -> Threads]
          /\ thr'[p].pc = "recovered" /\ thr'[p].a = a /\ thr'[p].why = thr[p].why
          /\ \A q \in Projects : q # p => thr'[q] = thr[q]
      <4>1. "recovered" \in PCs
        BY DEF PCs
      <4> QED
        BY <1>2, <2>3, <4>1, CallMoves
    <3>3. CallInv(p, thr[p])'
      BY <3>1, <3>2, CallRecord
    <3> QED
      BY <1>2, <1>3, <3>2, <3>3, ObservedSafe
  <2>4. CASE ~Recovering(p) /\ Goto(p, "intent")
    <3>1. /\ ctl[a].mode # "reconciliation"
          /\ Running(a) \/ ~CrossesMutationBoundary(PhaseOf(a))
          /\ journal[a][KeyOf(a)] \in RowAt("intent")
          /\ thr[p].why \notin {"recover", "sweep"}
      BY <1>1, <1>2, <2>4, RowAtStep DEF CallInv, CallInPhase, InPhase, FencePCs, Recovering
    <3>2. /\ KeyOf(a)' = KeyOf(a) /\ PhaseOf(a)' = PhaseOf(a)
          /\ (Running(a)' <=> Running(a)) /\ ctl' = ctl /\ journal' = journal
      BY <1>3 DEF KeyOf, BranchOf, PhaseOf, Running, journalVars
    <3>3. ASSUME NEW t, t.pc = "intent", t.a = a, t.why = thr[p].why PROVE CallInv(p, t)'
      <4>1. CallBound(p, t)' /\ CallAdmits(p, t)' /\ CallOwns(p, t)' /\ CallEnds(p, t)'
        BY <1>2, <3>1, <3>3 DEF CallBound, CallAdmits, CallOwns, CallEnds, Untouched, Admitting
      <4>2. CallInPhase(p, t)'
        BY <3>1, <3>2, <3>3 DEF CallInPhase
      <4>3. CallFences(p, t)'
        BY <2>1, <3>3 DEF CallFences
      <4> QED
        BY <4>1, <4>2, <4>3 DEF CallInv
    <3>4. /\ thr' \in [Projects -> Threads]
          /\ thr'[p].pc = "intent" /\ thr'[p].a = a /\ thr'[p].why = thr[p].why
          /\ \A q \in Projects : q # p => thr'[q] = thr[q]
      <4>1. "intent" \in PCs
        BY DEF PCs
      <4> QED
        BY <1>2, <2>4, <4>1, CallMoves
    <3>5. CallInv(p, thr[p])'
      BY <3>3, <3>4, CallRecord
    <3> QED
      BY <1>2, <1>3, <3>4, <3>5, ObservedSafe
  <2> QED
    BY <1>5, <2>3, <2>4
<1> QED
  BY <1>4, <1>5 DEF FenceSeen

(* The intent to release the fence is journalled.                              *)
LEMMA PersistReleaseIntentSafe ==
  ASSUME ExecInv, NEW p \in Projects, PersistReleaseIntent(p)
  PROVE  Safe
<1> SUFFICES ASSUME NEW a, a = thr[p].a PROVE Safe
  OBVIOUS
<1>1. thr[p].pc = "unset_begin"
  BY DEF PersistReleaseIntent, At
<1>2. /\ HostTypes /\ FenceInv /\ Parts /\ CallInv(p, thr[p]) /\ ProjectInv(p)
      /\ a \in Attempts /\ ProjectOf[a] = p
  BY <1>1, CallFacts, InvParts
<1>3. /\ UNCHANGED <<journalVars, ctl, recovered, owner, effect, ticket, faults>>
      /\ recovered' \subseteq Projects /\ faults' \in Nat
  BY <1>2 DEF PersistReleaseIntent, HostTypes
<1>4. PICK k : k = ReleaseKey(p)
  OBVIOUS
<1>5. CASE Return(p) /\ UNCHANGED fenceVars
  BY <1>3, <1>5, QuietReturn DEF vars
<1>6. CASE /\ CanBeginFenceRelease(p, a, k) /\ fence[p].state # "held"
           /\ Goto(p, "unset") /\ UNCHANGED fenceVars
  <2>1. /\ fence'[p].attempt = a /\ fence'[p].state \in {"release_intent", "released"}
        /\ UNCHANGED vars
    BY <1>3, <1>6 DEF CanBeginFenceRelease, fenceVars, vars
  <2>2. \A t : t.pc = "unset" /\ t.a = a => CallFences(p, t)'
    BY <2>1 DEF CallFences
  <2>3. /\ CallInv(p, thr[p])' /\ thr' \in [Projects -> Threads]
        /\ \A q \in Projects : q # p => thr'[q] = thr[q]
    BY <1>1, <1>3, <1>6, <2>2, FenceCallMoves
  <2> QED
    BY <1>3, <2>1, <2>3, UnmovedFence
<1>7. CASE BeginFenceRelease(p, a, k) /\ Goto(p, "unset")
  <2>1. k \in Keys
    BY <1>7 DEF BeginFenceRelease, CanBeginFenceRelease, ReleaseSafe, Keys, Phases, RecoveryKeys
  <2>2. [Next]_vars
    BY <1>2, <1>3, <1>7, <2>1 DEF Next, FenceStep
  <2>3. fence \in [Projects -> FenceRow]
    BY <1>2 DEF FenceInv, TypeOK
  <2>4. /\ fence'[p].state = "release_intent" /\ fence'[p].attempt = fence[p].attempt
        /\ fence[p].attempt = a /\ fence[p].state = "held"
        /\ UNCHANGED <<drain, boundary, held, tampers>>
        /\ \A q \in Projects : q # p => fence'[q] = fence[q]
    BY <1>7, <2>3 DEF BeginFenceRelease, CanBeginFenceRelease, FenceRow
  <2>5. ASSUME NEW b \in Attempts, ProjectOf[b] = p PROVE HoldsFence(b)'
    <3>1. HoldsFence(b)
      BY <1>2 DEF Parts, LinkInv
    <3> QED
      BY <1>3, <2>4, <2>5, <3>1 DEF HoldsFence, Running, journalVars
  <2>6. ProjectInv(p)'
    <3>1. DrainOwned(p)' /\ BoundaryBound(p)'
      BY <1>2, <1>3, <2>4 DEF ProjectInv, DrainOwned, BoundaryBound, Reserved, Running, Committed, journalVars
    <3>2. FenceOwned(p)'
      BY <1>2, <1>3, <2>4 DEF ProjectInv, FenceOwned, Running
    <3> QED
      BY <3>1, <3>2 DEF ProjectInv
  <2>7. \A t : t.pc = "unset" /\ t.a = a => CallFences(p, t)'
    BY <2>4 DEF CallFences
  <2>8. /\ CallInv(p, thr[p])' /\ thr' \in [Projects -> Threads]
        /\ \A q \in Projects : q # p => thr'[q] = thr[q]
    BY <1>1, <1>3, <1>7, <2>7, FenceCallMoves
  <2> QED
    BY <1>3, <2>2, <2>4, <2>5, <2>6, <2>8, FenceMove
<1> QED
  BY <1>4, <1>5, <1>6, <1>7 DEF PersistReleaseIntent

(* The application is asked to let go of the fence.                            *)
LEMMA UnsetFenceSafe ==
  ASSUME ExecInv, NEW p \in Projects, UnsetFence(p)
  PROVE  Safe
<1> SUFFICES ASSUME NEW a, a = thr[p].a PROVE Safe
  OBVIOUS
<1>1. thr[p].pc = "unset"
  BY DEF UnsetFence, At
<1>2. /\ HostTypes /\ FenceInv /\ CallInv(p, thr[p])
      /\ a \in Attempts /\ ProjectOf[a] = p
      /\ fence[p].attempt = a /\ fence[p].state \in {"release_intent", "released"}
  BY <1>1, CallFacts DEF CallInv, CallFences
<1>3. /\ UNCHANGED <<journalVars, ctl, recovered, owner, effect, ticket, faults>>
      /\ recovered' \subseteq Projects /\ faults' \in Nat
  BY <1>2 DEF UnsetFence, HostTypes
<1>4. CASE (ReleaseFence(p) \/ UNCHANGED fenceVars) /\ Goto(p, "unset_seen")
  <2>1. fence' = fence
    BY <1>4 DEF ReleaseFence, fenceVars
  <2>2. \A t : t.pc = "unset_seen" /\ t.a = a => CallFences(p, t)'
    BY <1>2, <2>1 DEF CallFences
  <2>3. /\ CallInv(p, thr[p])' /\ thr' \in [Projects -> Threads]
        /\ \A q \in Projects : q # p => thr'[q] = thr[q]
    BY <1>1, <1>3, <1>4, <2>2, FenceCallMoves
  <2>4. CASE ReleaseFence(p)
    BY <1>3, <2>3, <2>4, ApplicationSafe
  <2>5. CASE UNCHANGED fenceVars
    BY <1>3, <2>3, <2>5, UnmovedFence DEF vars
  <2> QED
    BY <1>4, <2>4, <2>5
<1>5. CASE held[p] # NoLease /\ ReconcileFence(p) /\ Return(p)
  <2>1. ObservationDue(p)
    BY <1>5 DEF ObservationDue
  <2> QED
    BY <1>2, <1>3, <1>5, <2>1, ReturnedCall, ObservedSafe
<1> QED
  BY <1>4, <1>5 DEF UnsetFence

(* The release is read back.                                                   *)
LEMMA UnsetSeenSafe ==
  ASSUME ExecInv, NEW p \in Projects, UnsetSeen(p)
  PROVE  Safe
<1> SUFFICES ASSUME NEW a, a = thr[p].a PROVE Safe
  OBVIOUS
<1>1. thr[p].pc = "unset_seen"
  BY DEF UnsetSeen, At
<1>2. /\ HostTypes /\ FenceInv /\ CallInv(p, thr[p])
      /\ a \in Attempts /\ ProjectOf[a] = p
      /\ fence[p].state \in {"release_intent", "released"}
  BY <1>1, CallFacts DEF CallInv, CallFences
<1>3. /\ UNCHANGED <<journalVars, ctl, recovered, owner, effect, ticket, faults>>
      /\ recovered' \subseteq Projects /\ faults' \in Nat /\ ReconcileFence(p)
  BY <1>2 DEF UnsetSeen, HostTypes
<1>4. ObservationDue(p)
  BY <1>2 DEF ObservationDue
<1>5. CASE Return(p)
  BY <1>2, <1>3, <1>4, <1>5, ReturnedCall, ObservedSafe
<1>6. CASE ReconciledFence(p).state = "released"
           /\ Goto(p, IF Recovering(p) THEN "recovered" ELSE "project")
  <2>1. fence'[p].state = "released"
    BY <1>2, <1>3, <1>6 DEF ReconcileFence, FenceInv, TypeOK
  <2>2. ObservationDue(p)' /\ ~ActiveFence(p)'
    BY <2>1 DEF ObservationDue, ActiveFence
  <2>3. CASE Recovering(p) /\ Goto(p, "recovered")
    <3>1. \A t : t.pc = "recovered" /\ t.a = a /\ t.why = thr[p].why => CallInv(p, t)'
      BY <1>2, <2>2, <2>3 DEF CallInv, CallBound, CallInPhase, InPhase, WorkPCs, FencePCs,
         CallAdmits, CallOwns, CallFences, CallEnds, Untouched, Admitting, Recovering
    <3>2. /\ thr' \in [Projects -> Threads]
          /\ thr'[p].pc = "recovered" /\ thr'[p].a = a /\ thr'[p].why = thr[p].why
          /\ \A q \in Projects : q # p => thr'[q] = thr[q]
      <4>1. "recovered" \in PCs
        BY DEF PCs
      <4> QED
        BY <1>2, <2>3, <4>1, CallMoves
    <3>3. CallInv(p, thr[p])'
      BY <3>1, <3>2, CallRecord
    <3> QED
      BY <1>2, <1>3, <1>4, <3>2, <3>3, ObservedSafe
  <2>4. CASE ~Recovering(p) /\ Goto(p, "project")
    <3>1. /\ ctl[a].mode # "reconciliation"
          /\ Running(a) \/ ~CrossesMutationBoundary(PhaseOf(a))
          /\ ctl[a].mode = "none" => takeover[a] = "none"
          /\ journal[a][KeyOf(a)] \in RowAt("project")
          /\ thr[p].why \notin {"recover", "sweep"}
      BY <1>1, <1>2, <2>4, RowAtStep DEF CallInv, CallInPhase, InPhase, FencePCs, Recovering
    <3>2. /\ KeyOf(a)' = KeyOf(a) /\ PhaseOf(a)' = PhaseOf(a)
          /\ (Running(a)' <=> Running(a)) /\ ctl' = ctl /\ journal' = journal
          /\ takeover' = takeover
      BY <1>3 DEF KeyOf, BranchOf, PhaseOf, Running, journalVars
    <3>3. ASSUME NEW t, t.pc = "project", t.a = a, t.why = thr[p].why PROVE CallInv(p, t)'
      <4>1. CallBound(p, t)' /\ CallAdmits(p, t)' /\ CallOwns(p, t)' /\ CallEnds(p, t)'
        BY <1>2, <3>1, <3>3 DEF CallBound, CallAdmits, CallOwns, CallEnds, Untouched, Admitting
      <4>2. CallInPhase(p, t)'
        BY <3>1, <3>2, <3>3 DEF CallInPhase
      <4>3. CallFences(p, t)'
        BY <2>2, <3>3 DEF CallFences
      <4> QED
        BY <4>1, <4>2, <4>3 DEF CallInv
    <3>4. /\ thr' \in [Projects -> Threads]
          /\ thr'[p].pc = "project" /\ thr'[p].a = a /\ thr'[p].why = thr[p].why
          /\ \A q \in Projects : q # p => thr'[q] = thr[q]
      <4>1. "project" \in PCs
        BY DEF PCs
      <4> QED
        BY <1>2, <2>4, <4>1, CallMoves
    <3>5. CallInv(p, thr[p])'
      BY <3>3, <3>4, CallRecord
    <3> QED
      BY <1>2, <1>3, <1>4, <3>4, <3>5, ObservedSafe
  <2> QED
    BY <1>6, <2>3, <2>4
<1> QED
  BY <1>5, <1>6 DEF UnsetSeen

(* A project is recovered, or its fence stops it.                              *)
LEMMA RecoveredSafe ==
  ASSUME ExecInv, NEW p \in Projects, Recovered(p)
  PROVE  Safe
<1>1. thr[p].pc = "recovered" /\ HostTypes /\ CallInv(p, thr[p])
  BY InvParts DEF Recovered, At, Parts
<1>2. /\ UNCHANGED <<journalVars, ctl, owner, effect, ticket, faults>> /\ Return(p)
      /\ recovered' \subseteq Projects /\ faults' \in Nat /\ ObservationDue(p)
  BY <1>1 DEF Recovered, HostTypes, CallInv, CallFences
<1>3. CASE ReconcileFence(p)
  BY <1>1, <1>2, <1>3, ReturnedCall, ObservedSafe
<1>4. CASE UNCHANGED fenceVars
  BY <1>2, <1>4, QuietReturn DEF vars
<1> QED
  BY <1>3, <1>4 DEF Recovered

(* A bound backup and a stateful drain reserve their epoch.                    *)
LEMMA PrepareIdentitySafe ==
  ASSUME ExecInv, NEW p \in Projects, PrepareIdentity(p)
  PROVE  Safe
<1> SUFFICES ASSUME NEW a, a = thr[p].a PROVE Safe
  OBVIOUS
<1>1. thr[p].pc = "identity" /\ thr[p].pc \in WorkPCs
  BY DEF PrepareIdentity, At, WorkPCs
<1>2. /\ a \in Attempts /\ ProjectOf[a] = p /\ HostTypes /\ AttemptInv(a) /\ CallInv(p, thr[p])
      /\ FenceInv /\ ProjectInv(p) /\ Parts /\ a # NoAttempt /\ KindOf[a] \in Kinds
      /\ ctl[a].mode # "reconciliation"
      /\ Running(a) \/ ~CrossesMutationBoundary(PhaseOf(a))
      /\ takeover[a] # "none" => ctl[a].mode = "rollback"
      /\ journal[a][KeyOf(a)] \in RowAt("identity")
      /\ thr[p].why \notin {"recover", "sweep"}
      /\ NeedsIdentity(a)
  BY <1>1, PhaseFacts, InvParts, AttemptAssumption DEF CallInv, CallOwns
<1>3. /\ UNCHANGED <<journalVars, ctl, recovered, owner, effect, ticket, faults>>
      /\ recovered' \subseteq Projects /\ faults' \in Nat
  BY <1>2 DEF PrepareIdentity, HostTypes
<1>4. CASE Return(p) /\ UNCHANGED fenceVars
  BY <1>3, <1>4, QuietReturn DEF vars
<1>5. ASSUME Goto(p, "apply"), owner[Lock(p)] = a
      PROVE  /\ CallInv(p, thr[p])' /\ thr' \in [Projects -> Threads]
             /\ \A q \in Projects : q # p => thr'[q] = thr[q]
  <2>1. /\ thr' \in [Projects -> Threads]
        /\ thr'[p].pc = "apply" /\ thr'[p].a = a /\ thr'[p].why = thr[p].why
        /\ \A q \in Projects : q # p => thr'[q] = thr[q]
    <3>1. "apply" \in PCs
      BY DEF PCs
    <3> QED
      BY <1>2, <1>5, <3>1, CallMoves
  <2>2. /\ KeyOf(a)' = KeyOf(a) /\ PhaseOf(a)' = PhaseOf(a)
        /\ (Running(a)' <=> Running(a)) /\ ctl' = ctl /\ journal' = journal
        /\ takeover' = takeover /\ owner' = owner /\ RowAt("apply") = RowAt("identity")
    BY <1>3, RowAtStep DEF KeyOf, BranchOf, PhaseOf, Running, journalVars
  <2>3. ASSUME NEW t, t.pc = "apply", t.a = a, t.why = thr[p].why PROVE CallInv(p, t)'
    <3>1. CallBound(p, t)' /\ CallAdmits(p, t)' /\ CallFences(p, t)' /\ CallEnds(p, t)'
      BY <1>2, <2>3 DEF CallBound, CallAdmits, CallFences, CallEnds, Untouched, Admitting
    <3>2. CallInPhase(p, t)'
      BY <1>2, <2>2, <2>3 DEF CallInPhase
    <3>3. CallOwns(p, t)'
      BY <1>5, <2>2, <2>3 DEF CallOwns
    <3> QED
      BY <3>1, <3>2, <3>3 DEF CallInv
  <2> QED
    BY <2>1, <2>3, CallRecord
<1>6. CASE owner[Lock(p)] = a /\ Goto(p, "apply") /\ UNCHANGED fenceVars
  BY <1>3, <1>5, <1>6, UnmovedFence DEF vars
<1>7. ASSUME fence' = fence, tampers' = tampers, held' = held PROVE \A b \in Attempts : HoldsFence(b)'
  <2>1. \A b \in Attempts : HoldsFence(b)
    BY <1>2 DEF Parts, LinkInv
  <2> QED
    BY <1>3, <1>7, <2>1 DEF HoldsFence, Running, journalVars
<1>8. CASE /\ PhaseOf(a) = "backing_up" /\ owner[Lock(p)] = a /\ BeginBackupBoundary(p, a)
           /\ Goto(p, "apply")
  <2>1. /\ UNCHANGED <<fence, drain, held, tampers>> /\ boundary'[p].attempt = a
        /\ \A q \in Projects : q # p => boundary'[q] = boundary[q]
    BY <1>2, <1>8 DEF BeginBackupBoundary, FenceInv, TypeOK, Lease
  <2>2. [Next]_vars
    BY <1>2, <1>3, <1>8 DEF Next, FenceStep
  <2>3. a \in Bound
    BY <1>2, <1>8 DEF NeedsIdentity
  <2>4. ProjectInv(p)'
    BY <1>2, <1>3, <2>1, <2>3 DEF ProjectInv, DrainOwned, FenceOwned, BoundaryBound, Reserved,
       Running, Committed, journalVars
  <2> QED
    BY <1>3, <1>5, <1>7, <1>8, <2>1, <2>2, <2>4, FenceMove
<1>9. CASE /\ PhaseOf(a) # "backing_up" /\ owner[Lock(p)] = a /\ BeginDrainIdentity(p, a)
           /\ Goto(p, "apply")
  <2>1. /\ UNCHANGED <<fence, boundary, held, tampers>> /\ drain'[p].attempt = a
        /\ \A q \in Projects : q # p => drain'[q] = drain[q]
        /\ Committed(a, "backing_up")
    BY <1>2, <1>9 DEF BeginDrainIdentity, CanBeginDrainIdentity, FenceInv, TypeOK, Lease
  <2>2. [Next]_vars
    BY <1>2, <1>3, <1>9 DEF Next, FenceStep
  <2>3. IsStateful(KindOf[a]) /\ PhaseOf(a) = "draining" /\ Running(a)
    BY <1>2, <1>9 DEF NeedsIdentity, CrossesMutationBoundary
  <2>4. ctl[a].mode = "none" /\ takeover[a] = "none" /\ ForwardPhase(a) = "draining"
    BY <1>2, <2>3 DEF AttemptInv, ShownShape, PhaseOf, ForwardPhase, HostTypes, ControllerTypeOK, Modes
  <2>5. journal[a]["cutover_snapshotting"] = "none"
    <3>1. "cutover_snapshotting" \in Keys
      BY DEF Keys, Phases
    <3>2. "cutover_snapshotting" \notin PhasesBefore[KindOf[a]]["draining"] \cup {"draining"}
      BY <1>2, <2>3, StatefulOrder
    <3> QED
      BY <1>2, <2>4, <3>1, <3>2 DEF AttemptInv, ForwardRun, Before
  <2>6. ProjectInv(p)'
    <3>1. DrainOwned(p)'
      BY <1>2, <1>3, <1>9, <2>1, <2>3, <2>5 DEF DrainOwned, Running, Committed, journalVars
    <3>2. FenceOwned(p)' /\ BoundaryBound(p)'
      BY <1>2, <1>3, <2>1 DEF ProjectInv, FenceOwned, BoundaryBound, Reserved, Running
    <3> QED
      BY <3>1, <3>2 DEF ProjectInv
  <2> QED
    BY <1>3, <1>5, <1>7, <1>9, <2>1, <2>2, <2>6, FenceMove
<1> QED
  BY <1>4, <1>6, <1>8, <1>9 DEF PrepareIdentity

(* A rollback is sealed: only the receipt of the current phase can be missing  *)
(* from the projection, and it is the one the seal names.                      *)
LEMMA SealRollbackSafe ==
  ASSUME ExecInv, NEW p \in Projects, SealRollback(p)
  PROVE  Safe
<1> SUFFICES ASSUME NEW a, a = thr[p].a PROVE Safe
  OBVIOUS
<1>1. thr[p].pc = "takeover"
  BY DEF SealRollback, At
<1>2. /\ HostTypes /\ FenceInv /\ Parts /\ CallInv(p, thr[p]) /\ ProjectInv(p)
      /\ a \in Attempts /\ ProjectOf[a] = p /\ KindOf[a] \in Kinds
      /\ AttemptInv(a) /\ LinkInv(a)
  BY <1>1, CallFacts, InvParts
<1>3. /\ UNCHANGED <<fenceVars, ctl, recovered, owner, effect, ticket, faults>>
      /\ recovered' \subseteq Projects /\ faults' \in Nat /\ "to_rollback" \in PCs
      /\ thr[p].why \notin {"recover", "sweep"}
  BY <1>1, <1>2 DEF SealRollback, HostTypes, PCs, CallInv, CallBound, FencePCs
<1>4. CASE Return(p) /\ UNCHANGED journalVars
  BY <1>3, <1>4, QuietReturn DEF vars
<1>5. CASE takeover[a] # "none" /\ Goto(p, "to_rollback") /\ UNCHANGED journalVars
  <2>1. \A t : t.pc = "to_rollback" /\ t.a = a /\ t.why = thr[p].why => CallInv(p, t)
    BY <1>2, <1>3, <1>5 DEF CallInv, CallBound, CallInPhase, InPhase, WorkPCs, FencePCs,
       CallAdmits, CallOwns, CallFences, CallEnds, Untouched, Admitting
  <2> QED
    BY <1>3, <1>5, <2>1, QuietGoto DEF vars
<1>6. CASE /\ RollbackTransition(a) /\ RollbackFenceAvailable(p, a)
           /\ BeginRollbackTakeover(a) /\ Goto(p, "to_rollback")
  <2>1. /\ takeover[a] = "none" /\ UNCHANGED <<journal, proof, rejection>>
        /\ takeover'[a] = ForwardSnapshot(a) /\ takeover'[a] # "none"
        /\ \A b \in Attempts : b # a => takeover'[b] = takeover[b]
    BY <1>2, <1>6 DEF BeginRollbackTakeover, FenceInv, TypeOK, JournalTypeOK
  <2>2. [Next]_vars
    BY <1>2, <1>3, <1>6 DEF Next, JournalStep
  <2>3. /\ ctl[a].mode \in {"none", "reconciliation"} /\ Running(a)
        /\ "deploying" \in ctl[a].projected /\ RecoveryAllowed(KindOf[a])
    BY <1>2, <1>6, <2>1 DEF RollbackTransition, AttemptInv, ForwardRun, HostTypes, ControllerTypeOK, Modes
  <2>4. PICK f, kind : f = ForwardPhase(a) /\ kind = KindOf[a]
    OBVIOUS
  <2>5. /\ kind \in Kinds /\ RecoveryAllowed(kind) /\ InPlan(kind, f)
        /\ ctl[a].projected = PhasesBefore[kind][f]
        /\ \A k \in Keys : journal[a][k] # "none" => k \in PhasesBefore[kind][f] \cup {f}
    BY <1>2, <2>1, <2>3, <2>4 DEF AttemptInv, ForwardRun, Before
  <2>6. /\ f \in {"health_checking", "soaking"}
        /\ f = "health_checking" => "soaking" \notin PhasesBefore[kind][f]
    BY <2>3, <2>5, AfterDeploy
  <2>7. \A k \in PhasesBefore[kind][f] : Committed(a, k)
    BY <1>2, <2>5 DEF AttemptInv, RowsExplained
  <2>8. ASSUME Committed(a, f) PROVE ForwardSnapshot(a) = f
    <3>1. OpenForward(a) = {}
      BY <2>5, <2>7, <2>8 DEF OpenForward, Uncommitted, Committed, Keys
    <3>2. f = "health_checking" => ~Committed(a, "soaking")
      <4>1. "soaking" \in Keys
        BY DEF Keys, Phases
      <4> QED
        BY <2>5, <2>6, <4>1 DEF Committed
    <3> QED
      BY <2>6, <2>8, <3>1, <3>2 DEF ForwardSnapshot, LastCommittedForward
  <2>9. /\ ForwardPhase(a)' = ForwardPhase(a) /\ (Running(a)' <=> Running(a))
        /\ (\A k : Committed(a, k)' <=> Committed(a, k)) /\ KeyOf(a)' = KeyOf(a)
        /\ UNCHANGED <<ctl, effect, owner, ticket, fence, drain, boundary, held, tampers>>
    BY <1>3, <2>1 DEF ForwardPhase, Running, Committed, KeyOf, BranchOf, fenceVars
  <2>10. AttemptInv(a)'
    <3>1. ShownShape(a)' /\ ForwardRun(a)'
      BY <1>2, <2>1, <2>9 DEF AttemptInv, ShownShape, ForwardRun
    <3>2. EndedRun(a)'
      BY <2>3, <2>9 DEF EndedRun, Running
    <3>3. RowsExplained(a)'
      BY <1>2, <2>1, <2>9 DEF AttemptInv, RowsExplained
    <3>4. ASSUME NEW k \in Phases, Committed(a, k), k \notin ctl[a].projected
          PROVE  k = takeover'[a]
      <4>1. k = f
        BY <2>5, <3>4 DEF Committed, Keys
      <4> QED
        BY <2>1, <2>8, <3>4, <4>1
    <3>5. \A k \in RecoveryKeys : ~Committed(a, k)
      BY <1>2, <2>1 DEF AttemptInv, RowsExplained, Committed
    <3>6. /\ ctl[a].mode = "none" => ctl[a].phase \in {"health_checking", "soaking"}
          /\ ctl[a].mode = "reconciliation" =>
               ctl[a].from \in {"rollback", "health_checking", "soaking"}
      BY <2>4, <2>6 DEF ForwardPhase
    <3>7. SealedRun(a)'
      BY <2>1, <2>3, <2>9, <3>4, <3>5, <3>6 DEF SealedRun, Running
    <3> QED
      BY <3>1, <3>2, <3>3, <3>7 DEF AttemptInv
  <2>11. LinkInv(a)' /\ ProjectInv(p)'
    <3>1. LinkInv(a)'
      BY <1>2, <2>1, <2>9 DEF LinkInv, HoldsLock, HoldsSource, HoldsFence
    <3>2. \A b : (Running(b)' <=> Running(b)) /\ \A k : Committed(b, k)' <=> Committed(b, k)
      BY <2>1, <2>9 DEF Running, Committed
    <3>3. ProjectInv(p)'
      BY <1>2, <2>1, <2>9, <3>2 DEF ProjectInv, DrainOwned, FenceOwned, BoundaryBound, Reserved
    <3> QED
      BY <3>1, <3>3
  <2>12. /\ thr' \in [Projects -> Threads]
         /\ thr'[p].pc = "to_rollback" /\ thr'[p].a = a /\ thr'[p].why = thr[p].why
         /\ \A q \in Projects : q # p => thr'[q] = thr[q]
    BY <1>2, <1>3, <1>6, CallMoves
  <2>13. \A t : t.pc = "to_rollback" /\ t.a = a /\ t.why = thr[p].why => CallInv(p, t)'
    BY <1>2, <1>3, <2>1 DEF CallInv, CallBound, CallInPhase, InPhase, WorkPCs, FencePCs,
       CallAdmits, CallOwns, CallFences, CallEnds, Untouched, Admitting
  <2>14. CallInv(p, thr[p])'
    BY <2>12, <2>13, CallRecord
  <2>15. HostTypes'
    BY <1>2, <1>3, <2>9, <2>12 DEF HostTypes, ControllerTypeOK
  <2>16. \A b \in Attempts : b # a => LocalSame(b)
    BY <2>1, <2>9 DEF LocalSame
  <2>17. \A q \in Projects : q # p => thr'[q] = thr[q] /\ SiteSame(q)
    BY <2>9, <2>12 DEF SiteSame
  <2>18. Parts'
    BY <1>2, <2>9, <2>10, <2>11, <2>14, <2>16, <2>17, GateFrame
  <2> QED
    BY <2>2, <2>15, <2>18 DEF Safe
<1> QED
  BY <1>4, <1>5, <1>6 DEF SealRollback

--------------------------------------------------------------------------------
(* Every plan starts with the queue, before which there is nothing.            *)
LEMMA PlanStart ==
  ASSUME NEW kind \in Kinds
  PROVE  InPlan(kind, "queued") /\ PhasesBefore[kind]["queued"] = {}
<1>1. 1 \in DOMAIN RequiredPhases(kind) /\ RequiredPhases(kind)[1] = "queued"
      /\ \A h \in DOMAIN RequiredPhases(kind) : h \in Nat /\ h >= 1
  <2>1. RequiredPhases(kind) \in {StatefulPhases, CodeOnlyPhases, CodeRollbackPhases,
                                  BackupOnlyPhases}
    BY PlanCases
  <2>2. /\ StatefulPhases[1] = "queued" /\ CodeOnlyPhases[1] = "queued"
        /\ CodeRollbackPhases[1] = "queued" /\ BackupOnlyPhases[1] = "queued"
    BY DEF StatefulPhases, CodeOnlyPhases, CodeRollbackPhases, BackupOnlyPhases
  <2> QED
    BY <2>1, <2>2, PlanTypes
<1> QED
  BY <1>1, BeforeIndex

(* Nothing has happened: the invariant holds at the start.                     *)
LEMMA ExecInitInv == ExecInit => ExecInv
<1> SUFFICES ASSUME ExecInit PROVE ExecInv
  OBVIOUS
<1>1. FenceInv /\ JournalMatchesApplication /\ TypeOK
  BY FenceInitInv DEF ExecInit, FenceInv
<1>2. \A a \in Attempts :
        /\ ctl[a] = [phase |-> "queued", result |-> "running", block |-> "none",
                     mode |-> "none", from |-> "none", projected |-> {}]
        /\ takeover[a] = "none" /\ rejection[a] = "none"
        /\ \A k \in Keys : journal[a][k] = "none" /\ effect[a][k] = "absent"
  BY DEF ExecInit, ControllerInit, Init, JournalInit
<1>3. \A p \in Projects :
        /\ fence[p] = NoFence /\ drain[p] = NoLease /\ boundary[p] = NoLease
        /\ thr[p] = Idle
  BY DEF ExecInit, Init, FenceInit
<1>4. HostTypes
  <2>1. Idle \in Threads
    BY DEF Idle, Threads, PCs, Whys
  <2>2. [phase |-> "queued", result |-> "running", block |-> "none", mode |-> "none",
         from |-> "none", projected |-> {}]
        \in [phase : ShownPhases, result : Results, block : Blocks, mode : Modes,
             from : Phases \cup {"none"}, projected : SUBSET Keys]
    BY DEF ShownPhases, Phases, Results, Blocks, Modes
  <2>3. ControllerTypeOK
    BY <2>2 DEF ControllerTypeOK, ExecInit, ControllerInit
  <2> QED
    BY <2>1, <2>3 DEF HostTypes, ExecInit, Effects
<1>5. ASSUME NEW a \in Attempts PROVE AttemptInv(a)
  <2>1. KindOf[a] \in Kinds
    BY AttemptAssumption
  <2>2. /\ ctl[a].phase = "queued" /\ ctl[a].result = "running" /\ ctl[a].mode = "none"
        /\ ctl[a].from = "none" /\ ctl[a].projected = {}
    BY <1>2
  <2>3. /\ ForwardPhase(a) = "queued" /\ Running(a)
        /\ InPlan(KindOf[a], "queued") /\ Before(a) = {}
    BY <2>1, <2>2, PlanStart DEF ForwardPhase, Before, Running
  <2>4. ShownShape(a) /\ ForwardRun(a)
    BY <1>2, <2>2, <2>3 DEF ShownShape, ForwardRun, Phases
  <2>5. \A k \in Keys : journal[a][k] = "none" /\ effect[a][k] = "absent"
    BY <1>2
  <2>6. takeover[a] = "none" /\ rejection[a] = "none"
    BY <1>2
  <2>7. RowsExplained(a)
    BY <2>2, <2>5, <2>6 DEF RowsExplained, Keys, Phases
  <2> QED
    BY <2>2, <2>4, <2>6, <2>7 DEF AttemptInv, SealedRun, EndedRun
<1>6. ASSUME NEW a \in Attempts PROVE LinkInv(a)
  <2>1. \A k \in Keys : journal[a][k] = "none" /\ effect[a][k] = "absent"
    BY <1>2
  <2>2. "cutover_snapshotting" \in Keys
    BY DEF Keys, Phases
  <2>3. IsDeploy(KindOf[a]) => AdmissionPhase(KindOf[a]) \in Keys
    BY DEF IsDeploy, AdmissionPhase, Keys, Phases
  <2> QED
    BY <2>1, <2>2, <2>3 DEF LinkInv, HoldsLock, HoldsSource, HoldsFence
<1>7. ASSUME NEW p \in Projects PROVE ProjectInv(p) /\ CallInv(p, thr[p])
  <2>1. ProjectInv(p)
    BY <1>3 DEF ProjectInv, DrainOwned, FenceOwned, BoundaryBound, Reserved, NoFence
  <2>2. CallInv(p, thr[p])
    BY <1>3, IdleCall
  <2> QED
    BY <2>1, <2>2
<1> QED
  BY <1>1, <1>4, <1>5, <1>6, <1>7 DEF ExecInv, ExecTypeOK, HostTypes

(* A step of the call in a phase.                                              *)
LEMMA PhaseStepSafe ==
  ASSUME ExecInv, NEW p \in Projects, PhaseStep(p)
  PROVE  Safe
<1>1. CASE \/ PersistIntent(p)      \/ CompensateRejected(p) \/ ReopenRejected(p)
           \/ ReserveDisk(p)        \/ DiskShort(p)          \/ AcquireResource(p)
           \/ PrepareIdentity(p)    \/ ObserveBeforeEffect(p)
  BY <1>1, PersistIntentSafe, CompensateRejectedSafe, ReopenRejectedSafe, ReserveDiskSafe,
     DiskShortSafe, AcquireResourceSafe, PrepareIdentitySafe, ObserveBeforeEffectSafe, Zenon
<1>2. CASE \/ CheckLive(p)          \/ RecordProof(p)        \/ AbortLive(p)
           \/ CompensateProof(p)    \/ Suspend(p)            \/ SettleSource(p)
           \/ ApplyEffect(p)        \/ ObserveEffect(p)
  BY <1>2, CheckLiveSafe, RecordProofSafe, AbortLiveSafe, CompensateProofSafe, SuspendSafe,
     SettleSourceSafe, ApplyEffectSafe, ObserveEffectSafe, Zenon
<1>3. CASE \/ Verify(p)             \/ Commit(p)             \/ CompleteLive(p)
           \/ Tidy(p)               \/ AfterSoak(p)          \/ ProjectReceipt(p)
           \/ Cleanup(p)            \/ ToReconcile(p)
  BY <1>3, VerifySafe, CommitSafe, CompleteLiveSafe, TidySafe, AfterSoakSafe,
     ProjectReceiptSafe, CleanupSafe, ToReconcileSafe, Zenon
<1> QED
  BY <1>1, <1>2, <1>3, Zenon DEF PhaseStep

(* A step of the call at the fence, in recovery or in a rollback request.      *)
LEMMA GuardStepSafe ==
  ASSUME ExecInv, NEW p \in Projects, GuardStep(p)
  PROVE  Safe
<1>1. CASE \/ Refresh(p)            \/ Unblock(p)            \/ PersistFenceIntent(p)
           \/ SetFence(p)           \/ FenceSeen(p)          \/ PersistReleaseIntent(p)
  BY <1>1, RefreshSafe, UnblockSafe, PersistFenceIntentSafe, SetFenceSafe, FenceSeenSafe,
     PersistReleaseIntentSafe, Zenon
<1>2. CASE \/ UnsetFence(p)         \/ UnsetSeen(p)          \/ Recovered(p)
           \/ Reconcile(p)          \/ ReconcileCommit(p)    \/ SealRollback(p)
           \/ ShowRollback(p)
  BY <1>2, UnsetFenceSafe, UnsetSeenSafe, RecoveredSafe, ReconcileSafe, ReconcileCommitSafe,
     SealRollbackSafe, ShowRollbackSafe, Zenon
<1> QED
  BY <1>1, <1>2, Zenon DEF GuardStep

(* Every step of an execution follows the fence protocol and keeps the         *)
(* invariant.                                                                  *)
LEMMA ExecStepSafe ==
  ASSUME ExecInv, ExecNext
  PROVE  Safe
<1>1. ASSUME NEW p \in Projects, GateStep(p) PROVE Safe
  BY <1>1, PhaseStepSafe, GuardStepSafe, Zenon DEF GateStep
<1>2. ASSUME NEW p \in Projects, Recover(p) \/ StoreFails(p) \/ Tamper(p) PROVE Safe
  BY <1>2, RecoverSafe, StoreFailsSafe, TamperSafe, Zenon
<1>3. ASSUME NEW p \in Projects, NEW a \in Attempts, AdvanceOnce(p, a) \/ RequestRollback(p, a)
      PROVE  Safe
  BY <1>3, AdvanceOnceSafe, RequestRollbackSafe, Zenon
<1>4. ASSUME NEW a \in Attempts,
             EndOperation(a) \/ RetryDiskReservation(a) \/ ForeignEffect(a)
      PROVE  Safe
  BY <1>4, EndOperationSafe, RetryDiskReservationSafe, ForeignEffectSafe, Zenon
<1>5. Crash => Safe
  BY CrashSafe, Zenon
<1> QED
  BY <1>1, <1>2, <1>3, <1>4, <1>5, Zenon DEF ExecNext

(* A step or a stutter keeps the invariant.                                    *)
LEMMA ExecInvKept ==
  ASSUME ExecInv, [ExecNext]_allVars
  PROVE  ExecInv' /\ [Next]_vars
<1>1. CASE ExecNext
  <2>1. Safe
    BY <1>1, ExecStepSafe
  <2> QED
    BY <2>1, SafeKeepsInv DEF Safe
<1>2. CASE UNCHANGED allVars
  <2>1. /\ UNCHANGED <<vars, ctl, owner, effect, ticket>>
        /\ thr' = thr /\ recovered' = recovered /\ faults' = faults
    BY <1>2 DEF allVars, execVars
  <2>2. HostTypes /\ Parts
    BY InvParts
  <2>3. CASE Projects = {}
    <3>1. HostTypes' /\ Parts'
      <4>1. Attempts = {}
        BY <2>3, AttemptAssumption
      <4> QED
        BY <2>1, <2>2, <2>3, <4>1 DEF HostTypes, Parts, ControllerTypeOK
    <3> QED
      BY <2>1, <3>1, SafeKeepsInv DEF Safe
  <2>4. CASE Projects # {}
    <3>1. PICK p \in Projects : TRUE
      BY <2>4
    <3>2. PICK t : t = thr[p]
      OBVIOUS
    <3>3. CallInv(p, t) /\ t = thr'[p]
      BY <2>1, <2>2, <3>2 DEF Parts
    <3>4. thr' \in [Projects -> Threads] /\ recovered' \subseteq Projects /\ faults' \in Nat
      BY <2>1, <2>2 DEF HostTypes
    <3>5. Safe
      BY <2>1, <3>3, <3>4, QuietStep
    <3> QED
      BY <3>5, SafeKeepsInv DEF Safe
  <2> QED
    BY <2>3, <2>4
<1> QED
  BY <1>1, <1>2

--------------------------------------------------------------------------------
(* The inductive invariant of an execution holds in every state.               *)
THEOREM ExecInvariant == ExecSpec => []ExecInv
<1>1. ExecInit => ExecInv
  BY ExecInitInv
<1>2. ExecInv /\ [ExecNext]_allVars => ExecInv'
  BY ExecInvKept
<1> QED
  BY <1>1, <1>2, PTL DEF ExecSpec

--------------------------------------------------------------------------------
(* What the invariant says of an attempt that touched the cut-over snapshot:   *)
(* until the receipt of its branch the application holds its fence.            *)
LEMMA FenceHeld ==
  ASSUME ExecInv, tampers = 0, NEW a \in Attempts, IsStateful(KindOf[a]),
         effect[a]["cutover_snapshotting"] = "applied",
         ~Committed(a, IF takeover[a] = "none" THEN "soaking"
                       ELSE "rollback_recovery_soaking")
  PROVE  held[ProjectOf[a]].attempt = a
<1> SUFFICES ASSUME NEW p \in Projects, ProjectOf[a] = p PROVE held[p].attempt = a
  BY AttemptAssumption
<1>1. /\ HostTypes /\ FenceInv /\ JournalMatchesApplication
      /\ AttemptInv(a) /\ LinkInv(a) /\ KindOf[a] \in Kinds
  BY InvParts, AttemptAssumption DEF Parts
<1>2. "cutover_snapshotting" \in Keys /\ "cutover_snapshotting" \in Phases
  BY DEF Keys, Phases
<1>3. journal[a]["cutover_snapshotting"] # "none"
  BY <1>1, <1>2 DEF AttemptInv, RowsExplained
<1>4. InPlan(KindOf[a], "soaking") /\ ~InPlan(KindOf[a], "rollback")
  <2>1. RequiredPhases(KindOf[a]) = StatefulPhases /\ DOMAIN StatefulPhases = 1 .. 13
    BY <1>1, PlanCases, PlanTypes
  <2>2. StatefulPhases[13] = "soaking" /\ \A i \in 1 .. 13 : StatefulPhases[i] # "rollback"
    BY DEF StatefulPhases
  <2> QED
    BY <2>1, <2>2 DEF InPlan
<1>5. CASE Running(a)
  <2>1. fence[p].attempt = a /\ fence[p].state \in {"held", "release_intent", "released"}
    BY <1>1, <1>3, <1>5 DEF LinkInv, HoldsFence
  <2>2. ASSUME fence[p].state \in {"release_intent", "released"} PROVE FALSE
    <3>1. ReleaseSafe(a, fence[p].receipt)
      BY <1>1, <2>1, <2>2 DEF FenceInv, ReleaseHasEvidence
    <3>2. takeover[a] = "none" /\ Committed(a, "rollback")
      BY <3>1 DEF ReleaseSafe
    <3>3. "rollback" \in Phases /\ journal[a]["rollback"] # "none"
      BY <3>2 DEF Phases, Committed
    <3> QED
      BY <1>1, <1>4, <3>3 DEF AttemptInv, RowsExplained
  <2>3. fence[p].state = "held"
    BY <2>1, <2>2
  <2>4. held[p] = LeaseOf(p)
    BY <1>1, <2>3 DEF JournalMatchesApplication
  <2> QED
    BY <2>1, <2>4 DEF LeaseOf, Lease
<1>6. CASE ctl[a].result \in {"cancelled", "failed", "superseded"}
  <2>1. /\ takeover[a] = "none" /\ ctl[a].mode = "none"
        /\ CrossesMutationBoundary(ctl[a].phase) => ctl[a].phase = AdmissionPhase(KindOf[a])
    BY <1>1, <1>6 DEF AttemptInv, EndedRun
  <2>2. ForwardPhase(a) = ctl[a].phase
    BY <2>1 DEF ForwardPhase
  <2>3. /\ InPlan(KindOf[a], ctl[a].phase)
        /\ "cutover_snapshotting" \in Before(a) \cup {ctl[a].phase}
    BY <1>1, <1>2, <1>3, <2>1, <2>2 DEF AttemptInv, ForwardRun
  <2>4. \A q \in Before(a) : ~CrossesMutationBoundary(q)
    BY <1>1, <2>1, <2>2, <2>3, NothingMutatedBefore DEF Before
  <2>5. CrossesMutationBoundary("cutover_snapshotting")
    BY DEF CrossesMutationBoundary
  <2>6. AdmissionPhase(KindOf[a]) = "backing_up"
    BY DEF AdmissionPhase, IsStateful
  <2> QED
    BY <2>1, <2>3, <2>4, <2>5, <2>6
<1>7. CASE ctl[a].result = "succeeded"
  <2>1. takeover[a] = "none" /\ "soaking" \in Phases
    BY <1>1, <1>7 DEF AttemptInv, EndedRun, Phases
  <2> QED
    BY <1>1, <1>4, <1>7, <2>1 DEF AttemptInv, EndedRun
<1>8. CASE ctl[a].result = "rolled_back"
  <2>1. Committed(a, "rollback_recovery_soaking")
    BY <1>1, <1>8 DEF AttemptInv, EndedRun, IsStateful
  <2>2. "rollback_recovery_soaking" \in RecoveryKeys
    BY DEF RecoveryKeys
  <2>3. takeover[a] # "none"
    BY <1>1, <2>1, <2>2 DEF AttemptInv, RowsExplained, Committed
  <2> QED
    BY <2>1, <2>3
<1>9. ctl[a].result \in Results
  BY <1>1 DEF HostTypes, ControllerTypeOK
<1> QED
  BY <1>5, <1>6, <1>7, <1>8, <1>9 DEF Results, Running

(* What the projection may still be missing.                                   *)
LEMMA ProjectionBehind ==
  ASSUME NEW a \in Attempts, AttemptInv(a), HostTypes, NEW k \in Keys, Committed(a, k),
         k \notin ctl[a].projected
  PROVE  \/ k \in {takeover[a], ctl[a].from}
         \/ ctl[a].phase # "reconciliation" /\ k = KeyOf(a)
<1>1. ctl[a].mode \in Modes /\ journal[a][k] # "none"
  BY DEF HostTypes, ControllerTypeOK, Committed
<1>2. CASE takeover[a] = "none"
  <2>1. k = ForwardPhase(a) /\ ctl[a].mode # "rollback"
    BY <1>1, <1>2 DEF AttemptInv, ForwardRun
  <2>2. CASE ctl[a].mode = "reconciliation"
    BY <2>1, <2>2 DEF ForwardPhase
  <2>3. CASE ctl[a].mode = "none"
    <3>1. k = ctl[a].phase /\ ctl[a].phase \in Phases
      BY <2>1, <2>3 DEF ForwardPhase, AttemptInv, ShownShape
    <3>2. KeyOf(a) = ctl[a].phase /\ ctl[a].phase # "reconciliation"
      BY <2>3, <3>1 DEF KeyOf, BranchOf, StorageKey, Phases
    <3> QED
      BY <3>1, <3>2
  <2> QED
    BY <1>1, <2>1, <2>2, <2>3 DEF Modes
<1>3. CASE takeover[a] # "none"
  <2>1. CASE k \in Phases
    BY <1>3, <2>1 DEF AttemptInv, SealedRun
  <2>2. CASE k \in RecoveryKeys
    <3>1. ctl[a].mode = "rollback" /\ k = KeyOf(a)
      BY <1>3, <2>2 DEF AttemptInv, SealedRun
    <3>2. ctl[a].phase # "reconciliation"
      BY <3>1 DEF AttemptInv, ShownShape
    <3> QED
      BY <3>1, <3>2
  <2> QED
    BY <2>1, <2>2 DEF Keys
<1> QED
  BY <1>2, <1>3

(* The invariant implies the safety properties of an execution.                *)
LEMMA ExecInvSafe ==
  ASSUME ExecInv
  PROVE  ExecutionSafety
<1>1. HostTypes /\ Parts /\ FenceInv
  BY InvParts
<1>2. \A a \in Attempts : AttemptInv(a) /\ LinkInv(a)
  BY <1>1 DEF Parts
<1>3. ExecTypeOK
  BY DEF ExecInv
<1>4. ProjectionFollowsReceipts
  <2>1. \A a \in Attempts : \A k \in ctl[a].projected : Committed(a, k)
    BY <1>2 DEF AttemptInv, RowsExplained
  <2> QED
    BY <1>1, <1>2, <2>1, ProjectionBehind DEF ProjectionFollowsReceipts
<1>5. ReceiptHasEffect
  BY <1>2 DEF ReceiptHasEffect, AttemptInv, RowsExplained, Committed
<1>6. WritersExcluded
  BY FenceHeld DEF WritersExcluded
<1>7. MutationHoldsLock
  <2>1. \A p \in Projects : DrainOwned(p) /\ FenceOwned(p)
    BY <1>1 DEF Parts, ProjectInv
  <2> QED
    BY <1>2, <2>1 DEF MutationHoldsLock, LinkInv, HoldsLock, DrainOwned, FenceOwned
<1>8. SourceHeldStill
  BY <1>2 DEF SourceHeldStill, LinkInv, HoldsSource
<1>9. RollbackSealedFirst
  BY <1>2 DEF RollbackSealedFirst, AttemptInv, RowsExplained
<1>10. ResultMatchesBranch
  BY <1>2 DEF ResultMatchesBranch, AttemptInv, EndedRun
<1> QED
  BY <1>3, <1>4, <1>5, <1>6, <1>7, <1>8, <1>9, <1>10 DEF ExecutionSafety

(* Whatever crashes, fails or is asked for in between: the projection follows  *)
(* the receipts, a receipt has its effect, writers stay out from the cut-over  *)
(* snapshot to the receipt that ends the branch, mutations hold the deploy     *)
(* lock and the source, and the result shown is that of the branch taken.      *)
THEOREM ExecutionSafe == ExecSpec => []ExecutionSafety
<1>1. ExecInv => ExecutionSafety
  BY ExecInvSafe
<1> QED
  BY <1>1, ExecInvariant, PTL

--------------------------------------------------------------------------------
(* Only the effect of a phase, and others at its place, change the world.      *)
LEMMA WhoChangesEffects ==
  ASSUME ExecNext
  PROVE  \/ effect' = effect
         \/ \E p \in Projects : ApplyEffect(p)
         \/ \E a \in Attempts : ForeignEffect(a)
<1>1. ASSUME NEW p \in Projects, PhaseStep(p) PROVE effect' = effect \/ ApplyEffect(p)
  <2>1. CASE \/ PersistIntent(p)      \/ CompensateRejected(p) \/ ReopenRejected(p)
             \/ ReserveDisk(p)        \/ DiskShort(p)          \/ AcquireResource(p)
             \/ PrepareIdentity(p)    \/ ObserveBeforeEffect(p)
    BY <2>1 DEF PersistIntent, CompensateRejected, ReopenRejected, ReserveDisk, DiskShort,
                AcquireResource, PrepareIdentity, ObserveBeforeEffect
  <2>2. CASE \/ CheckLive(p)          \/ RecordProof(p)        \/ AbortLive(p)
             \/ CompensateProof(p)    \/ Suspend(p)            \/ SettleSource(p)
             \/ ObserveEffect(p)
    BY <2>2 DEF CheckLive, RecordProof, AbortLive, CompensateProof, Suspend, SettleSource,
                ObserveEffect
  <2>3. CASE \/ Verify(p)             \/ Commit(p)             \/ CompleteLive(p)
             \/ Tidy(p)               \/ AfterSoak(p)          \/ ProjectReceipt(p)
             \/ Cleanup(p)            \/ ToReconcile(p)
    BY <2>3 DEF Verify, Commit, CompleteLive, Tidy, AfterSoak, ProjectReceipt, Cleanup,
                ToReconcile
  <2> QED
    BY <1>1, <2>1, <2>2, <2>3, Zenon DEF PhaseStep
<1>2. ASSUME NEW p \in Projects, GuardStep(p) PROVE effect' = effect
  <2>1. CASE \/ Refresh(p)            \/ Unblock(p)            \/ PersistFenceIntent(p)
             \/ SetFence(p)           \/ FenceSeen(p)          \/ PersistReleaseIntent(p)
    BY <2>1 DEF Refresh, Unblock, PersistFenceIntent, SetFence, FenceSeen,
                PersistReleaseIntent
  <2>2. CASE \/ UnsetFence(p)         \/ UnsetSeen(p)          \/ Recovered(p)
             \/ Reconcile(p)          \/ ReconcileCommit(p)    \/ SealRollback(p)
             \/ ShowRollback(p)
    BY <2>2 DEF UnsetFence, UnsetSeen, Recovered, Reconcile, ReconcileCommit, SealRollback,
                ShowRollback
  <2> QED
    BY <1>2, <2>1, <2>2, Zenon DEF GuardStep
<1>3. ASSUME NEW p \in Projects,
             \/ Recover(p) \/ StoreFails(p) \/ Tamper(p)
             \/ \E a \in Attempts : AdvanceOnce(p, a) \/ RequestRollback(p, a)
      PROVE  effect' = effect
  BY <1>3 DEF Recover, StoreFails, Tamper, AdvanceOnce, RequestRollback, execVars
<1>4. ASSUME NEW a \in Attempts, EndOperation(a) \/ RetryDiskReservation(a)
      PROVE  effect' = effect
  BY <1>4 DEF EndOperation, RetryDiskReservation, execVars
<1>5. Crash => effect' = effect
  BY DEF Crash
<1> QED
  BY <1>1, <1>2, <1>3, <1>4, <1>5, Zenon DEF ExecNext, GateStep

(* A call that applies an effect does so for a running operation, or at a      *)
(* phase that mutates nothing.                                                 *)
LEMMA EndedIsUntouched ==
  ASSUME ExecInv, ExecNext, NEW a \in Attempts, ~Running(a), NEW k \in Keys, MutatingKey(k)
  PROVE  effect'[a][k] = effect[a][k]
<1>1. HostTypes /\ Parts
  BY InvParts
<1>2. effect \in [Attempts -> [Keys -> Effects]]
  BY <1>1 DEF HostTypes
<1>3. ASSUME NEW p \in Projects, ApplyEffect(p)
      PROVE  effect'[a][k] = effect[a][k]
  <2>1. thr[p].pc = "effect" /\ thr[p].pc \in WorkPCs
    BY <1>3 DEF ApplyEffect, At, WorkPCs
  <2>2. PICK b : b = thr[p].a
    OBVIOUS
  <2>3. \E e : effect' = effect \/ effect' = [effect EXCEPT ![b][KeyOf(b)] = e]
    BY <1>3, <2>2 DEF ApplyEffect
  <2>4. CASE b # a
    BY <1>2, <2>3, <2>4
  <2>5. CASE b = a
    <3>1. AttemptInv(a) /\ CallInv(p, thr[p])
      BY <1>1 DEF Parts
    <3>2. ~CrossesMutationBoundary(ctl[a].phase) /\ ctl[a].mode # "reconciliation"
      BY <2>1, <2>2, <2>5, <3>1 DEF CallInv, CallInPhase, InPhase, PhaseOf
    <3>3. ctl[a].mode = "none"
      <4>1. ctl[a].mode # "rollback"
        BY <3>1, <3>2 DEF AttemptInv, ShownShape, CrossesMutationBoundary
      <4>2. ctl[a].mode \in Modes
        BY <1>1 DEF HostTypes, ControllerTypeOK
      <4> QED
        BY <3>2, <4>1, <4>2 DEF Modes
    <3>4. KeyOf(a) = ctl[a].phase /\ ctl[a].phase \in Phases
      BY <3>1, <3>3 DEF KeyOf, BranchOf, StorageKey, AttemptInv, ShownShape
    <3>5. KeyOf(a) # k
      BY <3>2, <3>4, KeysDisjoint DEF MutatingKey
    <3> QED
      BY <1>2, <2>3, <2>5, <3>5
  <2> QED
    BY <2>4, <2>5
<1>4. ASSUME NEW b \in Attempts, ForeignEffect(b)
      PROVE  effect'[a][k] = effect[a][k]
  <2>1. b # a /\ effect' = [effect EXCEPT ![b][KeyOf(b)] = "foreign"]
    BY <1>4 DEF ForeignEffect
  <2> QED
    BY <1>2, <2>1
<1> QED
  BY <1>3, <1>4, WhoChangesEffects

(* The coordinator uses the executor's journal only as the fence protocol says *)
(* it may, from the first state on.                                            *)
THEOREM ExecFollowsFence == ExecSpec => Spec
<1>1. ExecInit => Init
  BY DEF ExecInit
<1>2. ExecInv /\ [ExecNext]_allVars => [Next]_vars
  BY ExecInvKept
<1> QED
  BY <1>1, <1>2, ExecInvariant, PTL DEF ExecSpec, Spec

(* Once an operation is over nothing is mutated for it any more, not even by   *)
(* the call that was inside the gate when it ended; every step is one of the   *)
(* fence protocol's; and no accepted source proof is older than an earlier.    *)
THEOREM ExecutionStepsHold == ExecSpec => ExecutionSteps
<1>1. ExecInv /\ [ExecNext]_allVars =>
        [\A a \in Attempts : ~Running(a) =>
           \A k \in Keys : MutatingKey(k) => effect'[a][k] = effect[a][k]]_allVars
  BY EndedIsUntouched
<1>2. ExecSpec => NothingAfterEnd
  BY <1>1, ExecInvariant, PTL DEF ExecSpec, NothingAfterEnd
<1>3. ExecSpec => FollowsFenceProtocol
  BY ExecFollowsFence, PTL DEF Spec, FollowsFenceProtocol
<1>4. ExecSpec => TrustNeverRegresses
  BY ExecFollowsFence, FenceImplementsJournal, TrustAscends, PTL
<1> QED
  BY <1>2, <1>3, <1>4, PTL DEF ExecutionSteps

(* What the fence protocol promises holds of every execution: writers return   *)
(* only on evidence, a fence follows backup and drain, epochs are unique and   *)
(* ascend, a foreign fence is left alone, and a sealed branch stays frozen.    *)
THEOREM ExecKeepsFencePromises ==
  ExecSpec => /\ [](ReleaseHasEvidence /\ FenceAfterBackup /\ EpochsUnique)
              /\ EpochsAscend /\ ForeignFenceUntouched /\ ForwardFrozen
BY ExecFollowsFence, ReleaseIsSafe, FenceFollowsBackup, EpochsAreUnique, FencesAscend,
   ForeignFenceSafe, ForwardStaysFrozen, PTL
================================================================================
