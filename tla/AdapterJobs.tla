----------------------------- MODULE AdapterJobs -----------------------------
(***************************************************************************)
(* How a bound phase of one deploy attempt is carried out: the phase         *)
(* specification that freezes its prerequisites, the permit taken before     *)
(* execution, the fixed adapter jobs (one transient unit per step, known     *)
(* only by the files it leaves in its job directory), and what the adapters  *)
(* do to the application: drain it, fence it, copy its data, migrate it.     *)
(* A unit is not a child of the executor: it survives a crash of the         *)
(* executor, a failed cancellation and a lost systemd-run.                   *)
(***************************************************************************)
EXTENDS Naturals, FiniteSets, Sequences

CONSTANTS
  BaseMaxAge,    \* how old the base backup may be at the boundary
  Skew,          \* how long a clock observation may be used
  JobMaxTime,    \* bound: the clock stops here
  JobMaxData,    \* bound: writes of the application
  JobMaxFaults   \* bound: kills, crashes and lost units

VARIABLES
  class,       \* the class derived for the release
  jobNow,
  at,          \* index of the current phase in the plan of the class
  spec,        \* the specification bound to the current phase
  exec,        \* the executor: "idle", "steps" (permit taken) or "wait" (on a unit)
  job,         \* job[x]: the files and the unit of step x
  rimg,        \* the application: mode, identity, writers and data
  epochs,      \* the last epoch issued
  lease,       \* the epoch of the active identity and the state of the fence
  fenceUnit,   \* the fence adapter's unit: the action it carries out
  chain,       \* chain[k]: the verified backup persisted for kind k, 0: none
  snap,        \* snap[k]: what the capture of kind k copied
  grant,       \* the mutation grant: "ready" or the phase that consumed it
  jobFaults

files   == <<job, snap>>
store   == <<spec, chain, grant, lease, epochs>>
jobVars == <<class, jobNow, at, spec, exec, job, rimg, epochs, lease, fenceUnit,
             chain, snap, grant, jobFaults>>

-----------------------------------------------------------------------------
(* The class of a release                                                    *)

\* the schema step from the installed release, the verdict of the contract
\* check on it and the transition the installed policy names for it
ReleaseInputs == [schema : {"same", "new"}, verdict : BOOLEAN,
             transition : {"none", "compatible", "breaking"}]

ContractSatisfied(r)    == r.verdict
AuthorizedTransition(r) == r.schema = "new" => r.transition # "none"
InspectionMatches(r)    == r.schema = "same" => r.transition = "none"

Derivable(r) == ContractSatisfied(r) /\ AuthorizedTransition(r) /\ InspectionMatches(r)

DeriveClass(r) == IF r.schema = "same" THEN "code" ELSE r.transition

Stateful == class \in {"compatible", "breaking"}

-----------------------------------------------------------------------------
(* Phases, steps and their files                                             *)

Plan(c) == IF c = "code" THEN <<"deploy", "health", "soak">>
           ELSE <<"backup", "drain", "cutover", "migrate", "deploy", "health", "soak">>

BackupSteps == <<"capture", "encrypt", "upload", "readback">>

ExpectedProfiles(p) ==
  CASE p \in {"backup", "cutover"} -> BackupSteps
    [] p = "drain"                 -> <<"rimgdrain">>
    [] p = "migrate"               -> <<"inspect", "rimgmigrate">>
    [] p = "deploy"                -> <<"kamal">>
    [] p = "health"                -> <<"readiness", "smoke">>
    [] p = "soak"                  -> <<"observe">>

Phases == {"backup", "drain", "cutover", "migrate", "deploy", "health", "soak"}
Steps  == UNION {{<<p, s>> : s \in 1..Len(ExpectedProfiles(p))} : p \in Phases}
Finished == at > Len(Plan(class))
JobPhase    == Plan(class)[at]
Profile(x) == ExpectedProfiles(x[1])[x[2]]
StepsOf(p) == {x \in Steps : x[1] = p}

NoSpec  == [bound |-> FALSE, through |-> 0, fence |-> 0]
NoChain == [taken |-> FALSE, data |-> 0, time |-> 0, epoch |-> 0, sealed |-> FALSE, remote |-> "none"]
NoJob   == [start |-> FALSE, unit |-> "none", applied |-> FALSE, stop |-> FALSE,
            result |-> "none", terminal |-> "none", cleanup |-> "none"]

JobInit ==
  /\ \E r \in ReleaseInputs : Derivable(r) /\ class = DeriveClass(r)
  /\ jobNow = 1 /\ at = 1 /\ spec = NoSpec /\ exec = "idle"
  /\ job = [x \in Steps |-> NoJob]
  /\ rimg = [mode |-> "normal", active |-> 0, last |-> 0, busy |-> FALSE, data |-> 0, schema |-> 0]
  /\ epochs = 0 /\ lease = [epoch |-> 0, fence |-> "none"] /\ fenceUnit = "none"
  \* a code-only deploy relies on the base backup of an earlier operation
  /\ chain = [k \in {"backup", "cutover"} |->
       IF k = "backup" /\ class = "code" THEN [NoChain EXCEPT !.taken = TRUE, !.time = 1] ELSE NoChain]
  /\ snap = [k \in {"backup", "cutover"} |-> NoChain]
  /\ grant = "ready" /\ jobFaults = 0

JobFault == jobFaults < JobMaxFaults /\ jobFaults' = jobFaults + 1

-----------------------------------------------------------------------------
(* The authority of a phase: what its specification must prove               *)

BaseWithinAge == chain["backup"].taken /\ jobNow - chain["backup"].time <= BaseMaxAge
FenceReceipt  == lease.fence = "held"
CutoverChain  == chain["cutover"].taken /\ chain["cutover"].epoch = lease.epoch

MutationAuthority(p) ==
  CASE p = "backup"  -> TRUE
    [] p = "drain"   -> Stateful /\ BaseWithinAge
    [] p = "cutover" -> Stateful /\ BaseWithinAge /\ FenceReceipt
    [] p = "migrate" -> /\ Stateful /\ BaseWithinAge /\ FenceReceipt /\ CutoverChain
                        /\ class = "breaking" => grant = "ready"

ReleaseAuthority(p) == p = "deploy" => BaseWithinAge /\ (Stateful <=> FenceReceipt)

ValidatePhaseAuthority(p) ==
  IF p \in {"deploy", "health", "soak"} THEN ReleaseAuthority(p) ELSE MutationAuthority(p)

Min2(a, b) == IF a < b THEN a ELSE b

\* prerequisites_valid_through: the clock evidence and the base backup run out
ValidThrough(p) ==
  IF p \in {"backup", "health", "soak"} THEN JobMaxTime
  ELSE Min2(jobNow + Skew, chain["backup"].time + BaseMaxAge)

Resolve(p) ==
  [bound |-> TRUE, through |-> ValidThrough(p),
   fence |-> IF p \in {"cutover", "migrate", "deploy"} /\ Stateful THEN lease.epoch ELSE 0]

BindPhaseSpec ==
  /\ exec = "idle" /\ ~Finished /\ ~spec.bound /\ ValidatePhaseAuthority(JobPhase)
  /\ spec' = Resolve(JobPhase)
  /\ UNCHANGED <<class, jobNow, at, exec, files, rimg, epochs, lease, fenceUnit, chain, grant, jobFaults>>

\* authorize_bound_phase_spec: not expired, same fence, one use of the grant
ActiveFenceForSpec == spec.fence # 0 => lease.fence = "held" /\ lease.epoch = spec.fence
PrerequisiteChains == JobPhase # "backup" => chain["backup"].taken

GrantAvailable == JobPhase = "migrate" /\ class = "breaking" => grant \in {"ready", JobPhase}
GrantAfterStep   == IF JobPhase = "migrate" /\ class = "breaking" THEN JobPhase ELSE grant

-----------------------------------------------------------------------------
(* Reading a job directory                                                   *)

ReadyToExecute(x) == ~job[x].start /\ job[x].result # "final"

\* mutant: a result is believed whatever became of the unit
ResultIsEnough(x) == job[x].result = "final"

CompletedExecution(x) ==
  /\ job[x].result = "final"
  /\ job[x].start => job[x].terminal = "ok" /\ job[x].cleanup = "complete"

AllCompleted == \A x \in StepsOf(JobPhase) : CompletedExecution(x)

\* the first step without a result; everything before it is complete
NextStep(x) ==
  /\ x[1] = JobPhase /\ ReadyToExecute(x)
  /\ \A y \in StepsOf(JobPhase) : y[2] < x[2] => CompletedExecution(y)

-----------------------------------------------------------------------------
(* The executor                                                              *)

\* the identity leases: a base boundary and a drain take a fresh epoch
IdentityFor(p) ==
  IF p \in {"backup", "drain"} /\ lease.epoch = 0
  THEN /\ epochs' = epochs + 1 /\ lease' = [epoch |-> epochs + 1, fence |-> "none"]
  ELSE UNCHANGED <<epochs, lease>>

AuthorizeBoundPhase ==
  /\ exec = "idle" /\ ~Finished /\ spec.bound
  /\ \E x \in StepsOf(JobPhase) : NextStep(x)
  /\ jobNow <= spec.through /\ PrerequisiteChains /\ ActiveFenceForSpec /\ GrantAvailable
  /\ IdentityFor(JobPhase)
  /\ grant' = GrantAfterStep
  /\ exec' = "steps"
  /\ UNCHANGED <<class, jobNow, at, spec, files, rimg, fenceUnit, chain, jobFaults>>

\* the start marker is durable before systemd-run is spawned
Started(x) == [job EXCEPT ![x].start = TRUE]

StartStep(x) ==
  /\ exec = "steps" /\ ~Finished /\ NextStep(x)
  /\ job' = [Started(x) EXCEPT ![x].unit = "run"]
  /\ exec' = "wait"
  /\ UNCHANGED <<class, jobNow, at, spec, rimg, epochs, lease, fenceUnit, chain, snap, grant, jobFaults>>

SpawnFails(x) ==
  /\ exec = "steps" /\ ~Finished /\ NextStep(x) /\ JobFault
  /\ job' = Started(x) /\ exec' = "idle"
  /\ UNCHANGED <<class, jobNow, at, spec, rimg, epochs, lease, fenceUnit, chain, snap, grant>>

Running(x) == job[x].unit \notin {"none", "dead"}

\* finalize_execution_receipts: without a terminal receipt there is no cleanup
\* receipt; one that is there is kept as it is
FinalizeReceipts(x, collected) ==
  IF job[x].terminal = "none" \/ job[x].cleanup # "none" THEN job[x].cleanup
  ELSE IF collected THEN "complete" ELSE "pending"

\* systemd-run returned: the unit ended (or systemd-run itself was lost)
WaitForUnit(x) ==
  /\ exec = "wait" /\ x[1] = JobPhase /\ job[x].start /\ ~CompletedExecution(x)
  /\ \/ ~Running(x) /\ UNCHANGED jobFaults
     \/ Running(x) /\ JobFault
  /\ LET cleanup == FinalizeReceipts(x, TRUE) IN
     /\ job' = [job EXCEPT ![x].cleanup = cleanup]
     /\ exec' = IF job[x].terminal = "ok" /\ cleanup = "complete" /\ job[x].result = "final"
                THEN "steps" ELSE "idle"
  /\ UNCHANGED <<class, jobNow, at, spec, rimg, epochs, lease, fenceUnit, chain, snap, grant>>

\* cancellation or deadline: the intent is written, the unit killed if it can be
TerminateUnit(x) ==
  /\ exec = "wait" /\ x[1] = JobPhase /\ job[x].start /\ ~CompletedExecution(x) /\ JobFault
  /\ exec' = "idle"
  /\ \/ /\ Running(x)
        /\ job' = [job EXCEPT ![x].stop = TRUE, ![x].unit = "dead", ![x].terminal = "bad",
                              ![x].cleanup = "complete"]
     \/ job' = [job EXCEPT ![x].stop = TRUE, ![x].cleanup = FinalizeReceipts(x, FALSE)]
  /\ UNCHANGED <<class, jobNow, at, spec, rimg, epochs, lease, fenceUnit, chain, snap, grant>>

ProjectBackup(p) ==
  IF p \in {"backup", "cutover"} THEN [chain EXCEPT ![p] = snap[p]] ELSE chain

\* the verified chain of a backup phase is persisted, and compared when it is there
BindVerifiedBackupChain(p) == chain' = ProjectBackup(p)

\* the projection of the results becomes the receipt of the phase, after its
\* chain, and the boundary or drain lease moves on
CommitPhase ==
  /\ exec \in {"idle", "steps"} /\ ~Finished /\ spec.bound /\ AllCompleted
  /\ BindVerifiedBackupChain(JobPhase)
  /\ lease' = IF JobPhase = "backup" THEN [epoch |-> 0, fence |-> "none"] ELSE lease
  /\ at' = at + 1 /\ spec' = NoSpec /\ exec' = "idle"
  /\ UNCHANGED <<class, jobNow, files, rimg, epochs, fenceUnit, grant, jobFaults>>

CrashExecutor ==
  /\ exec # "idle" /\ JobFault /\ exec' = "idle"
  /\ UNCHANGED <<class, jobNow, at, files, rimg, store, fenceUnit>>

-----------------------------------------------------------------------------
(* The application, external: its operational status and its writers         *)

\* mutant: open write leases are not waited for
QuietWhenClosed == TRUE

Quiet == ~rimg.busy
HasIdentity(e) == rimg.active = e /\ rimg.last = e
IsDraining(e)  == rimg.mode = "draining" /\ HasIdentity(e) /\ Quiet
IsFenced(e)    == rimg.mode = "fenced" /\ HasIdentity(e) /\ Quiet
IsResumed(e)   == rimg.mode = "normal" /\ rimg.last = e
AllowsNewIdentity(e) == rimg.mode = "normal" /\ rimg.last < e

Write ==
  /\ rimg.data < JobMaxData
  /\ \/ rimg.mode = "normal" /\ ~rimg.busy /\ rimg' = [rimg EXCEPT !.busy = TRUE]
     \/ rimg.busy /\ rimg' = [rimg EXCEPT !.busy = FALSE, !.data = @ + 1]
  /\ UNCHANGED <<class, jobNow, at, exec, files, store, fenceUnit, jobFaults>>

Drained(e) == [rimg EXCEPT !.mode = "draining", !.active = e, !.last = e]
Resumed    == [rimg EXCEPT !.mode = "normal", !.active = 0]

-----------------------------------------------------------------------------
(* The adapters, each in its unit                                            *)

Captured(k, e) == [snap EXCEPT ![k] = [NoChain EXCEPT !.taken = TRUE, !.data = rimg.data, !.time = jobNow, !.epoch = e]]

\* the step took effect and its evidence is formed
Applied(x) == [job EXCEPT ![x].applied = TRUE, ![x].unit = "applied"]

\* a base copy drains the application, copies it and lets it resume
CaptureBase(x) ==
  /\ x = <<"backup", 1>>
  /\ \/ /\ AllowsNewIdentity(lease.epoch) /\ ~snap["backup"].taken
        /\ rimg' = Drained(lease.epoch) /\ UNCHANGED <<job, snap>>
     \/ /\ IsDraining(lease.epoch) /\ ~snap["backup"].taken
        /\ snap' = Captured("backup", 0) /\ UNCHANGED <<job, rimg>>
     \/ /\ IsDraining(lease.epoch) /\ snap["backup"].taken
        /\ rimg' = Resumed /\ job' = Applied(x)
        /\ UNCHANGED snap

CaptureCutover(x) ==
  /\ x = <<"cutover", 1>> /\ IsFenced(lease.epoch)
  /\ snap' = Captured("cutover", lease.epoch)
  /\ job' = Applied(x) /\ UNCHANGED rimg

ExecuteDrain(x) ==
  /\ Profile(x) = "rimgdrain"
  /\ \/ /\ AllowsNewIdentity(lease.epoch) /\ rimg' = Drained(lease.epoch) /\ UNCHANGED <<job, snap>>
     \/ /\ IsDraining(lease.epoch)
        /\ job' = Applied(x) /\ UNCHANGED <<rimg, snap>>

ExecuteMigration(x) ==
  /\ Profile(x) = "rimgmigrate" /\ IsFenced(lease.epoch)
  /\ rimg' = [rimg EXCEPT !.schema = 1]
  /\ job' = Applied(x) /\ UNCHANGED snap

\* the ciphertext and its state are published next to the copy they seal
SealArchive(k) == snap' = [snap EXCEPT ![k].sealed = TRUE]

EncryptBackup(x) ==
  /\ Profile(x) = "encrypt" /\ snap[x[1]].taken
  /\ SealArchive(x[1]) /\ job' = Applied(x) /\ UNCHANGED rimg

VerifyRemoteCiphertext(k) == snap[k].remote = "good"

\* copyto, then the object is read back; a bad object is found and refused
UploadBackup(x) ==
  /\ Profile(x) = "upload" /\ snap[x[1]].sealed
  /\ \/ /\ snap[x[1]].remote = "none"
        /\ \/ snap' = [snap EXCEPT ![x[1]].remote = "good"] /\ UNCHANGED jobFaults
           \/ snap' = [snap EXCEPT ![x[1]].remote = "bad"] /\ JobFault
        /\ UNCHANGED job
     \/ VerifyRemoteCiphertext(x[1]) /\ job' = Applied(x) /\ UNCHANGED <<snap, jobFaults>>
  /\ UNCHANGED rimg

ReadbackBackup(x) ==
  /\ Profile(x) = "readback" /\ VerifyRemoteCiphertext(x[1])
  /\ job' = Applied(x) /\ UNCHANGED <<rimg, snap>>

\* the provider loses or alters the object
ProviderAlters(k) ==
  /\ snap[k].remote = "good" /\ ~chain[k].taken /\ JobFault
  /\ snap' = [snap EXCEPT ![k].remote = "bad"]
  /\ UNCHANGED <<class, jobNow, at, exec, job, rimg, store, fenceUnit>>

\* the schema a migration starts from
InspectSchema(x) ==
  /\ Profile(x) = "inspect" /\ rimg.schema = 0
  /\ job' = Applied(x) /\ UNCHANGED <<rimg, snap>>

\* the route switch is StableRoute's subject; the observers change nothing
ApplyRelease(x) == Profile(x) = "kamal" /\ job' = Applied(x) /\ UNCHANGED <<rimg, snap>>
HealthCheck(x)  == Profile(x) \in {"readiness", "smoke"} /\ job' = Applied(x) /\ UNCHANGED <<rimg, snap>>
SoakObserve(x)  == Profile(x) = "observe" /\ job' = Applied(x) /\ UNCHANGED <<rimg, snap>>

UnitApplies(x) ==
  /\ job[x].unit = "run"
  /\ \/ /\ \/ CaptureBase(x) \/ CaptureCutover(x) \/ EncryptBackup(x) \/ ReadbackBackup(x)
           \/ ExecuteDrain(x) \/ InspectSchema(x) \/ ExecuteMigration(x)
           \/ ApplyRelease(x) \/ HealthCheck(x) \/ SoakObserve(x)
        /\ UNCHANGED jobFaults
     \/ UploadBackup(x)
  /\ UNCHANGED <<class, jobNow, at, spec, exec, epochs, lease, fenceUnit, chain, grant>>

\* publish: a pending file, then a hard link under the final name
UnitPublishes(x) ==
  /\ \/ job[x].unit = "applied" /\ job' = [job EXCEPT ![x].unit = "pending", ![x].result = "pending"]
     \/ job[x].unit = "pending" /\ job' = [job EXCEPT ![x].unit = "published", ![x].result = "final"]
  /\ UNCHANGED <<class, jobNow, at, exec, rimg, store, fenceUnit, snap, jobFaults>>

TerminalOutcome(x) == IF job[x].stop THEN "bad" ELSE "ok"

\* ExecStopPost captures the terminal receipt, with the termination intent if
\* there is one; the unit may fail at any point, and the capture may be lost
JobUnitEnds(x) ==
  /\ Running(x)
  /\ \/ /\ job[x].unit = "published" /\ UNCHANGED jobFaults
        /\ job' = [job EXCEPT ![x].unit = "dead", ![x].terminal = TerminalOutcome(x)]
     \/ JobFault /\ \E t \in {"bad", "none"} :
          job' = [job EXCEPT ![x].unit = "dead", ![x].terminal = t]
  /\ UNCHANGED <<class, jobNow, at, exec, rimg, store, fenceUnit, snap>>

-----------------------------------------------------------------------------
(* The fence jobs between the phases                                         *)

BeginFence ==
  /\ exec = "idle" /\ Stateful /\ fenceUnit = "none"
  /\ \/ /\ ~Finished /\ JobPhase = "cutover" /\ lease.fence \in {"none", "intent"}
        /\ fenceUnit' = "acquire" /\ lease' = [lease EXCEPT !.fence = "intent"]
     \/ /\ Finished /\ lease.fence \in {"held", "leaving"}
        /\ fenceUnit' = "release" /\ lease' = [lease EXCEPT !.fence = "leaving"]
  /\ UNCHANGED <<class, jobNow, at, spec, exec, files, rimg, epochs, chain, grant, jobFaults>>

TransitionFence ==
  /\ \/ fenceUnit = "acquire" /\ IsDraining(lease.epoch) /\ rimg' = [rimg EXCEPT !.mode = "fenced"]
     \/ fenceUnit = "release" /\ IsFenced(lease.epoch) /\ rimg' = [rimg EXCEPT !.mode = "draining"]
     \/ fenceUnit = "release" /\ IsDraining(lease.epoch) /\ rimg' = Resumed
  /\ UNCHANGED <<class, jobNow, at, exec, files, store, fenceUnit, jobFaults>>

\* the job ended: its result, or after a failure the observed status, decides; a
\* unit that died before its effect leaves the lease as the intent recorded it
ObserveFence ==
  /\ fenceUnit # "none" /\ fenceUnit' = "none"
  /\ \/ fenceUnit = "acquire" /\ IsFenced(lease.epoch) /\ lease' = [lease EXCEPT !.fence = "held"] /\ UNCHANGED jobFaults
     \/ fenceUnit = "release" /\ IsResumed(lease.epoch) /\ lease' = [lease EXCEPT !.fence = "released"] /\ UNCHANGED jobFaults
     \/ JobFault /\ UNCHANGED lease
  /\ UNCHANGED <<class, jobNow, at, spec, exec, files, rimg, epochs, chain, grant>>

-----------------------------------------------------------------------------
TimePasses ==
  /\ jobNow < JobMaxTime /\ jobNow' = jobNow + 1
  /\ UNCHANGED <<class, at, exec, files, rimg, store, fenceUnit, jobFaults>>

JobNext ==
  \/ BindPhaseSpec \/ AuthorizeBoundPhase \/ CommitPhase \/ CrashExecutor \/ Write
  \/ \E x \in Steps : \/ StartStep(x) \/ SpawnFails(x) \/ WaitForUnit(x) \/ TerminateUnit(x)
                      \/ UnitApplies(x) \/ UnitPublishes(x) \/ JobUnitEnds(x)
  \/ \E k \in {"backup", "cutover"} : ProviderAlters(k)
  \/ BeginFence \/ TransitionFence \/ ObserveFence \/ TimePasses

JobSpec == JobInit /\ [][JobNext]_jobVars

-----------------------------------------------------------------------------
(* A phase that is counted as done was done: every one of its steps took     *)
(* effect in a unit of its own that ended well, was collected and no longer  *)
(* runs; and the one unit that may run is of the current phase. So a unit    *)
(* that outlives a cancellation, a lost waiter or a crash of the executor    *)
(* never meets another one and never makes a half-done phase pass            *)
(* (adapter.rs:264, adapter_phase.rs:149).                                   *)
DoneMeansDone ==
  /\ \A i \in 1..Len(Plan(class)) : i < at =>
       \A x \in StepsOf(Plan(class)[i]) :
         job[x].applied /\ job[x].terminal = "ok" /\ job[x].cleanup = "complete" /\ ~Running(x)
  /\ \A x \in Steps : Running(x) =>
       ~Finished /\ x[1] = JobPhase /\ \A y \in Steps \ {x} : ~Running(y)

(* The data a migration changes is exactly the data of the cutover backup    *)
(* verified offsite for this fence: no writer slipped in between the copy    *)
(* and the migration, so restoring the backup loses nothing                  *)
(* (backup_adapter/mod.rs:126-134, rimg_adapter/mod.rs:530, phase6.rs:2661). *)
MigrationHasExactBackup ==
  [][rimg'.schema # rimg.schema =>
       /\ chain["cutover"].taken /\ chain["cutover"].data = rimg.data
       /\ \A k \in {"backup", "cutover"} : chain[k].sealed /\ chain[k].remote # "none"
       /\ class = "breaking" => grant = "migrate"]_jobVars

=============================================================================
