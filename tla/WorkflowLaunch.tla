---------------------------- MODULE WorkflowLaunch ----------------------------
(***************************************************************************)
(* The build side of a workflow: a worker that runs the leases it is given,  *)
(* the root launcher that starts one systemd unit per lease and journals it, *)
(* and the store of the compiled state that successive jobs of an attempt    *)
(* reuse.  The launcher and the worker crash separately, and units outlive   *)
(* both of them.                                                             *)
(***************************************************************************)
EXTENDS Naturals, FiniteSets

CONSTANTS
  Jobs,            \* leases: one execution of one workflow node each
  NoJob,           \* no lease
  Kind,            \* Kind[j]: "ci", "native" or "oci", the adapter of the lease
  Node,            \* Node[j]: the workflow node the lease executes
  Dispatched,      \* the adapters the worker hands to the launcher
  Prior,           \* Prior[j]: the lease the scheduler settles before granting j
  MaxRecords,      \* max_journal_records
  MaxConcurrent,   \* max_concurrent_jobs
  Slots,           \* assignments the worker executes at a time
  MaxFaults        \* bound: failures, crashes, losses and expiries together

ASSUME JobsAssumption == NoJob \notin Jobs

VARIABLES
  rec,       \* the launcher's journal, one record per lease
  starter,   \* where the start thread of a lease is
  cleaner,   \* where the cleanup call of a lease is
  lock,      \* start_cleanup_lock: the lease whose thread holds it, or NoJob
  waiter,    \* where the thread that waits for the process of a lease is
  unit,      \* what systemd knows of the unit of a lease
  output,    \* the release a job builds: "none", "staged" or "published"
  active,    \* active_oci_results and active_self_releases, kept in memory
  root,      \* leases whose toolchain is pinned in the registry
  os,        \* the operation state record and its data directory
  up,        \* the launcher runs
  worker,    \* where the worker's task for a lease is
  answer,    \* what the cleanup call returned: "none", "cleaned" or "error"
  plan,      \* the receipt the worker is about to submit
  pins,      \* leases whose prepared run the worker has pinned
  lease,     \* the scheduler's view of the lease
  receipt,   \* the receipt the scheduler recorded for it
  spawned,   \* history: how many processes were started for the lease
  escaped,   \* history: units the launcher gave up while systemd could start or keep them
  faults

journal == <<rec, root>>
threads == <<starter, cleaner, lock, waiter, active, up>>
runtime == <<unit, output, spawned, escaped>>
tasks   == <<worker, answer, plan, pins>>
control == <<lease, receipt>>
vars == <<journal, threads, runtime, os, tasks, control, faults>>

-----------------------------------------------------------------------------
(* What a lease asks for                                                     *)

UsesState(j) == Kind[j] # "oci"
MakesRelease(j) == Kind[j] # "ci"
Consumers == {Node[j] : j \in {k \in Jobs : UsesState(k)}}

FailureOutcome(j, uncertain) ==
  IF Kind[j] = "native" THEN "retryable" ELSE IF uncertain THEN "unknown" ELSE "failed"

NoRecord == [state |-> "absent", terminal |-> "none", usable |-> FALSE]
NoState == [exists |-> FALSE, data |-> FALSE, present |-> FALSE, pending |-> FALSE,
            user |-> NoJob, done |-> {}, last |-> NoJob, lastUsable |-> FALSE, terminal |-> "none"]
NoReceipt == [ok |-> FALSE, complete |-> FALSE, given |-> FALSE]

Init ==
  /\ rec = [j \in Jobs |-> NoRecord]
  /\ starter = [j \in Jobs |-> "none"] /\ cleaner = [j \in Jobs |-> "none"]
  /\ waiter = [j \in Jobs |-> "none"] /\ lock = NoJob
  /\ unit = [j \in Jobs |-> "none"] /\ output = [j \in Jobs |-> "none"]
  /\ active = {} /\ root = {} /\ os = NoState /\ up = TRUE
  /\ worker = [j \in Jobs |-> "idle"] /\ answer = [j \in Jobs |-> "none"]
  /\ plan = [j \in Jobs |-> NoReceipt] /\ pins = {}
  /\ lease = [j \in Jobs |-> "none"] /\ receipt = [j \in Jobs |-> NoReceipt]
  /\ spawned = [j \in Jobs |-> 0] /\ escaped = {} /\ faults = 0

Fault == faults < MaxFaults /\ faults' = faults + 1
NoFault == UNCHANGED faults

-----------------------------------------------------------------------------
(* The launch journal                                                        *)

Present == {j \in Jobs : rec[j].state # "absent"}
Unsettled == {"accepted", "running", "needs_reconcile", "cleanup_pending"}
CountActive == Cardinality({j \in Jobs : rec[j].state \in Unsettled})

MarkSpawnRejected(j) ==
  IF rec[j].state = "accepted"
  THEN [rec EXCEPT ![j].state = "failed", ![j].terminal = "rejected"] ELSE rec

MarkNeedsReconcile(j) ==
  IF rec[j].state \in {"cleanup_pending", "cleaned"} THEN rec
  ELSE [rec EXCEPT ![j].state = "needs_reconcile"]

ProcessExit(j, ok) ==
  CASE rec[j].state \in {"cleanup_pending", "cleaned"} -> rec
    [] rec[j].state = "running" ->
         [rec EXCEPT ![j].state = IF ok THEN "succeeded" ELSE "failed",
                     ![j].terminal = IF ok THEN "ok" ELSE "bad"]
    [] OTHER -> MarkNeedsReconcile(j)

Reconciled(r) == IF r.state \in {"accepted", "running"} THEN [r EXCEPT !.state = "needs_reconcile"] ELSE r

JournalFull == Cardinality(Present) >= MaxRecords
Refused(j) == rec[j].state = "absent" /\ (JournalFull \/ CountActive >= MaxConcurrent)

(* Mutant: a record that needs reconciliation is accepted as a new launch.    *)
AcceptAgain(j) ==
  /\ ~Refused(j)
  /\ IF rec[j].state \in {"absent", "needs_reconcile"}
     THEN rec' = [rec EXCEPT ![j].state = "accepted"] /\ starter' = [starter EXCEPT ![j] = "resolve"]
     ELSE UNCHANGED <<rec, starter>>

(* A known lease only has its expiry and grant refreshed; a new one is started *)
Accept(j) ==
  /\ ~Refused(j)
  /\ IF rec[j].state = "absent"
     THEN rec' = [rec EXCEPT ![j].state = "accepted"] /\ starter' = [starter EXCEPT ![j] = "resolve"]
     ELSE UNCHANGED <<rec, starter>>

-----------------------------------------------------------------------------
(* The operation state store                                                 *)

DropData(s) == [s EXCEPT !.data = FALSE, !.present = FALSE, !.pending = FALSE]

FinishPendingDataRemoval(s) ==
  IF s.exists /\ (s.pending \/ ~s.present) THEN DropData(s) ELSE s

(* A settled record is kept or, when too many newer ones exist, pruned *)
PruneTerminalRecords(s) == IF s.terminal # "none" THEN {s, NoState} ELSE {s}

ReconcileInactive(s, idle) ==
  LET clean == FinishPendingDataRemoval(s)
  IN IF clean.exists /\ clean.terminal = "none" /\ clean.user = NoJob /\ idle
     THEN [DropData(clean) EXCEPT !.last = NoJob, !.terminal = "failed"] ELSE clean

Acquirable(j, s) ==
  \/ ~s.exists
  \/ /\ s.terminal = "none"
     /\ s.user = j \/ (s.user = NoJob /\ Node[j] \notin s.done)

AcquireState(j, s) ==
  IF ~s.exists THEN [NoState EXCEPT !.exists = TRUE, !.data = TRUE, !.present = TRUE, !.user = j]
  ELSE [s EXCEPT !.data = TRUE, !.present = TRUE, !.user = j, !.last = NoJob]

(* What the release of an active consumer writes first; `remove` asks for the data *)
CompleteActiveRelease(j, s, outcome, over) ==
  LET gone == [s EXCEPT !.user = NoJob]
      succeeded == [gone EXCEPT !.done = @ \cup {Node[j]}, !.last = j, !.lastUsable = TRUE]
      failed == [gone EXCEPT !.last = j, !.lastUsable = FALSE]
      all == succeeded.done = Consumers
  IN CASE over -> [state |-> [failed EXCEPT !.terminal = "failed"], remove |-> TRUE, usable |-> FALSE]
       [] ~over /\ outcome = "retryable" ->
            [state |-> [gone EXCEPT !.last = NoJob], remove |-> FALSE, usable |-> TRUE]
       [] ~over /\ outcome = "succeeded" ->
            [state |-> IF all THEN [succeeded EXCEPT !.terminal = "succeeded"] ELSE succeeded,
             remove |-> all, usable |-> TRUE]
       [] ~over /\ outcome = "failed" ->
            [state |-> [failed EXCEPT !.terminal = "failed"], remove |-> TRUE, usable |-> FALSE]
       [] ~over /\ outcome = "unknown" -> [state |-> failed, remove |-> TRUE, usable |-> FALSE]

ReplayedRelease(j, s) ==
  CASE s.last = j -> s.lastUsable
    [] s.last # j /\ s.terminal = "succeeded" -> TRUE
    [] s.last # j /\ s.terminal = "failed" -> FALSE
    [] OTHER -> Node[j] \in s.done

(* release: refused while another lease holds the state *)
ReleaseRefused(j) == LET s == FinishPendingDataRemoval(os) IN s.exists /\ s.user \notin {j, NoJob}

Release(j, outcome, over) ==
  LET s == FinishPendingDataRemoval(os) IN
  IF s.exists /\ s.user = j
  THEN LET r == CompleteActiveRelease(j, s, outcome, over)
       IN [r EXCEPT !.state.pending = r.remove /\ s.present]
  ELSE [state |-> s, remove |-> FALSE,
        usable |-> s.exists /\ (s.last = j \/ s.terminal # "none" \/ Node[j] \in s.done)
                     /\ ReplayedRelease(j, s)]

-----------------------------------------------------------------------------
(* The runtime: systemd and the staging of release results                   *)

StageResult(j) ==
  IF MakesRelease(j) THEN active' = active \cup {j} /\ output' = [output EXCEPT ![j] = "staged"]
  ELSE UNCHANGED <<active, output>>

PublishResult(j) ==
  /\ MakesRelease(j) => j \in active
  /\ active' = active \ {j}
  /\ output' = IF MakesRelease(j) THEN [output EXCEPT ![j] = "published"] ELSE output

Discard(j) ==
  /\ active' = active \ {j}
  /\ output' = IF j \in active THEN [output EXCEPT ![j] = "none"] ELSE output

(* systemctl stop: a unit systemd has not loaded yet is reported as not found *)
Terminate(j) ==
  /\ unit' = IF unit[j] = "running" THEN [unit EXCEPT ![j] = "bad"] ELSE unit
  /\ escaped' = IF unit[j] = "requested" THEN escaped \cup {j} ELSE escaped
  /\ Discard(j)

UnitLoads(j) ==
  /\ unit[j] = "requested"
  /\ unit' = [unit EXCEPT ![j] = "running"]
  /\ UNCHANGED <<journal, threads, output, spawned, escaped, os, tasks, control, faults>>

UnitExits(j) ==
  /\ \/ unit[j] = "running" /\ \E result \in {"ok", "bad"} : unit' = [unit EXCEPT ![j] = result]
     \/ unit[j] = "requested" /\ unit' = [unit EXCEPT ![j] = "bad"]
  /\ UNCHANGED <<journal, threads, output, spawned, escaped, os, tasks, control, faults>>

-----------------------------------------------------------------------------
(* Starting a job                                                            *)

LeaveStart(j) == starter' = [starter EXCEPT ![j] = "none"] /\ lock' = NoJob

RecordStartFailure(j) ==
  /\ root' = root \ {j} /\ rec' = MarkSpawnRejected(j)

(* The prepared run, its receipts and the toolchain are found, or are not *)
Resolve(j) == starter' = [starter EXCEPT ![j] = "start"]

StartLaunch(j) ==
  /\ starter[j] = "resolve"
  /\ \/ Resolve(j) /\ UNCHANGED journal /\ NoFault
     \/ starter' = [starter EXCEPT ![j] = "none"] /\ RecordStartFailure(j) /\ Fault
  /\ UNCHANGED <<cleaner, lock, waiter, active, up, runtime, os, tasks, control>>

(* Mutant: the start goes on whatever cleanup did to the record.              *)
BeginStartBlindly(j) ==
  /\ starter[j] = "start" /\ lock = NoJob
  /\ lock' = j /\ starter' = [starter EXCEPT ![j] = "pin"]
  /\ UNCHANGED <<journal, cleaner, waiter, active, up, runtime, os, tasks, control, faults>>

BeginStart(j) ==
  /\ starter[j] = "start" /\ lock = NoJob
  /\ IF rec[j].state = "accepted"
     THEN lock' = j /\ starter' = [starter EXCEPT ![j] = "pin"]
     ELSE LeaveStart(j)
  /\ UNCHANGED <<journal, cleaner, waiter, active, up, runtime, os, tasks, control, faults>>

(* pin_launch_inputs: the toolchain gets its root first ...                     *)
PinToolchainRoot(j) ==
  /\ starter[j] = "pin"
  /\ \/ /\ root' = root \cup {j} /\ starter' = [starter EXCEPT ![j] = "acquire"]
        /\ UNCHANGED <<rec, lock>> /\ NoFault
     \/ Fault /\ rec' = MarkSpawnRejected(j) /\ LeaveStart(j) /\ UNCHANGED root
  /\ UNCHANGED <<cleaner, waiter, active, up, runtime, os, tasks, control>>

(* ... then the operation state of a lease that has one is acquired             *)
PinLaunchInputs(j) ==
  /\ starter[j] = "acquire"
  /\ \/ /\ UsesState(j)
        /\ \E idle, over \in BOOLEAN :
             LET s == ReconcileInactive(os, idle) IN
             /\ idle => s # os
             /\ IF Acquirable(j, s) /\ ~over
                THEN /\ os' = AcquireState(j, s) /\ starter' = [starter EXCEPT ![j] = "spawn"]
                     /\ UNCHANGED <<rec, root, lock>>
                ELSE /\ over => Acquirable(j, s)
                     /\ os' = IF over THEN AcquireState(j, s) ELSE s
                     /\ RecordStartFailure(j) /\ LeaveStart(j)
             /\ IF idle \/ over THEN Fault ELSE NoFault
     \/ /\ ~UsesState(j)
        /\ starter' = [starter EXCEPT ![j] = "spawn"]
        /\ UNCHANGED <<rec, root, lock, os>> /\ NoFault
     \/ Fault /\ RecordStartFailure(j) /\ LeaveStart(j) /\ UNCHANGED os
  /\ UNCHANGED <<cleaner, waiter, active, up, runtime, tasks, control>>

Spawn(j) ==
  /\ starter[j] = "spawn"
  /\ \/ /\ unit' = [unit EXCEPT ![j] = "requested"] /\ spawned' = [spawned EXCEPT ![j] = @ + 1]
        /\ starter' = [starter EXCEPT ![j] = "mark"]
        /\ StageResult(j) /\ UNCHANGED rec /\ NoFault
     \/ /\ Fault /\ rec' = MarkSpawnRejected(j)
        /\ starter' = [starter EXCEPT ![j] = "settle"]
        /\ UNCHANGED <<unit, spawned, active, output>>
  /\ UNCHANGED <<root, cleaner, lock, waiter, up, escaped, os, tasks, control>>

ContainUnownedProcess(j) ==
  \/ Terminate(j)
  \/ escaped' = escaped \cup {j} /\ UNCHANGED <<unit, active, output>>     \* the stop is refused

MarkRunning(j) ==
  /\ starter[j] = "mark"
  /\ waiter' = [waiter EXCEPT ![j] = "waiting"]
  /\ \/ /\ rec[j].state = "accepted" /\ rec' = [rec EXCEPT ![j].state = "running"]
        /\ LeaveStart(j) /\ NoFault
        /\ UNCHANGED <<unit, escaped, active, output>>
     \/ /\ Fault /\ rec' \in {MarkNeedsReconcile(j), rec}
        /\ starter' = [starter EXCEPT ![j] = "settle"] /\ UNCHANGED lock
        /\ ContainUnownedProcess(j)
  /\ UNCHANGED <<root, cleaner, up, spawned, os, tasks, control>>

SettleFailedLaunchInputs(j) ==
  /\ starter[j] = "settle"
  /\ IF UsesState(j) /\ ~ReleaseRefused(j)
     THEN LET uncertain == unit[j] # "none"
              r == Release(j, FailureOutcome(j, uncertain), FALSE)
          IN os' = IF r.remove THEN DropData(r.state) ELSE r.state
     ELSE UNCHANGED os
  /\ RecordStartFailure(j) /\ LeaveStart(j)
  /\ UNCHANGED <<cleaner, waiter, active, up, runtime, tasks, control, faults>>

-----------------------------------------------------------------------------
(* Waiting for the process                                                   *)

ProcessWait(j) ==
  /\ waiter[j] = "waiting" /\ unit[j] \in {"ok", "bad"}
  /\ \/ /\ unit[j] = "ok" /\ PublishResult(j)
        /\ waiter' = [waiter EXCEPT ![j] = "ok"] /\ UNCHANGED rec /\ NoFault
     \/ /\ waiter' = [waiter EXCEPT ![j] = "bad"] /\ Discard(j) /\ UNCHANGED rec
        /\ IF unit[j] = "ok" /\ j \in active THEN Fault
           ELSE NoFault /\ (unit[j] = "bad" \/ MakesRelease(j))
     \/ /\ Fault /\ waiter' = [waiter EXCEPT ![j] = "none"]
        /\ rec' = MarkNeedsReconcile(j) /\ UNCHANGED <<active, output>>
  /\ UNCHANGED <<root, starter, cleaner, lock, up, unit, spawned, escaped, os, tasks, control>>

MarkProcessExit(j) ==
  /\ waiter[j] \in {"ok", "bad"}
  /\ waiter' = [waiter EXCEPT ![j] = "none"]
  /\ \/ rec' = ProcessExit(j, waiter[j] = "ok") /\ NoFault
     \/ rec' = MarkNeedsReconcile(j) /\ Fault
  /\ UNCHANGED <<root, starter, cleaner, lock, active, up, runtime, os, tasks, control>>

-----------------------------------------------------------------------------
(* Cleanup: one call, several durable steps, under the same lock as a start  *)

Answer(j, a) == answer' = [answer EXCEPT ![j] = IF worker[j] \in {"terminal", "failure", "obligation"}
                                                THEN a ELSE @]
LeaveCleanup(j, a) == cleaner' = [cleaner EXCEPT ![j] = "none"] /\ lock' = NoJob /\ Answer(j, a)

BeginCleanup(j) ==
  /\ cleaner[j] = "called" /\ lock = NoJob
  /\ CASE rec[j].state = "cleaned" ->
            /\ lock' = j /\ cleaner' = [cleaner EXCEPT ![j] = "unroot"]
            /\ UNCHANGED <<rec, answer>>
       [] rec[j].state = "absent" /\ JournalFull ->
            LeaveCleanup(j, "error") /\ UNCHANGED rec
       [] OTHER ->
            /\ rec' = [rec EXCEPT ![j].state = "cleanup_pending"]
            /\ lock' = j /\ cleaner' = [cleaner EXCEPT ![j] = "stop"]
            /\ UNCHANGED answer
  /\ UNCHANGED <<root, starter, waiter, active, up, runtime, os, worker, plan, pins, control, faults>>

(* Mutant: the operation state is released although the stop failed.          *)
StopUnitIgnoringFailure(j) ==
  /\ cleaner[j] = "stop"
  /\ cleaner' = [cleaner EXCEPT ![j] = IF UsesState(j) THEN "release" ELSE "finish"]
  /\ (Terminate(j) /\ NoFault) \/ (UNCHANGED <<unit, escaped, active, output>> /\ Fault)
  /\ UNCHANGED <<journal, starter, lock, answer, waiter, up, spawned, os, worker, plan, pins, control>>

StopUnit(j) ==
  /\ cleaner[j] = "stop"
  /\ \/ /\ Terminate(j) /\ NoFault /\ UNCHANGED <<lock, answer>>
        /\ cleaner' = [cleaner EXCEPT ![j] = IF UsesState(j) THEN "release" ELSE "finish"]
     \/ Fault /\ LeaveCleanup(j, "error") /\ UNCHANGED <<unit, escaped, active, output>>
  /\ UNCHANGED <<journal, starter, waiter, up, spawned, os, worker, plan, pins, control>>

CleanupOutcome(j) ==
  CASE rec[j].terminal = "ok" -> "succeeded"
    [] rec[j].terminal = "none" -> FailureOutcome(j, TRUE)
    [] OTHER -> FailureOutcome(j, FALSE)

ReleaseState(j) ==
  /\ cleaner[j] = "release"
  /\ \/ ReleaseRefused(j) /\ LeaveCleanup(j, "error") /\ UNCHANGED os /\ NoFault
     \/ /\ ~ReleaseRefused(j) /\ UNCHANGED <<lock, answer>>
        /\ \E over \in BOOLEAN :
             LET r == Release(j, CleanupOutcome(j), over) IN
             /\ over => os.user = j /\ os.present
             /\ os' = r.state
             /\ cleaner' = [cleaner EXCEPT ![j] = IF r.usable THEN "finish_usable" ELSE "finish"]
             /\ IF over THEN Fault ELSE NoFault
  /\ UNCHANGED <<journal, starter, waiter, active, up, runtime, worker, plan, pins, control>>

(* The data goes before the cleanup record is written; a launcher that dies in  *)
(* between finds the removal done when it starts and the record still pending   *)
FinishCleanup(j) ==
  /\ cleaner[j] \in {"finish", "finish_usable"}
  /\ os' = IF UsesState(j) /\ os.last = j THEN FinishPendingDataRemoval(os) ELSE os
  /\ rec' = [rec EXCEPT ![j].state = "cleaned", ![j].usable = cleaner[j] = "finish_usable"]
  /\ cleaner' = [cleaner EXCEPT ![j] = "unroot"]
  /\ UNCHANGED <<root, starter, lock, answer, waiter, active, up, runtime, worker, plan, pins,
                 control, faults>>

(* Mutant: a root that cannot be removed is left to somebody else.             *)
LeaveToolchainRoot(j) ==
  /\ cleaner[j] = "unroot"
  /\ LeaveCleanup(j, "cleaned")
  /\ (root' = root \ {j} /\ NoFault) \/ (UNCHANGED root /\ Fault)
  /\ UNCHANGED <<rec, starter, waiter, active, up, runtime, os, worker, plan, pins, control>>

(* The toolchain's root goes last, and again whenever a cleaned lease is asked  *)
(* to be cleaned up                                                             *)
RemoveToolchainRoot(j) ==
  /\ cleaner[j] = "unroot"
  /\ \/ root' = root \ {j} /\ LeaveCleanup(j, "cleaned") /\ NoFault
     \/ UNCHANGED root /\ LeaveCleanup(j, "error") /\ Fault
  /\ UNCHANGED <<rec, starter, waiter, active, up, runtime, os, worker, plan, pins, control>>

-----------------------------------------------------------------------------
(* The launcher process                                                      *)

Crash ==
  /\ up /\ Fault /\ up' = FALSE
  /\ starter' = [j \in Jobs |-> "none"] /\ cleaner' = [j \in Jobs |-> "none"]
  /\ waiter' = [j \in Jobs |-> "none"] /\ lock' = NoJob /\ active' = {}
  /\ answer' = [j \in Jobs |-> IF cleaner[j] # "none" THEN "error" ELSE answer[j]]
  /\ UNCHANGED <<journal, runtime, os, worker, plan, pins, control>>

(* Mutant: a restart leaves the records of interrupted jobs as they were.     *)
RestartWithoutReconcile ==
  /\ ~up /\ up' = TRUE
  /\ os' = FinishPendingDataRemoval(os)
  /\ UNCHANGED <<journal, starter, cleaner, lock, waiter, active, runtime, tasks, control, faults>>

Restart ==
  /\ ~up /\ up' = TRUE
  /\ rec' = [j \in Jobs |-> Reconciled(rec[j])]
  /\ \E s \in PruneTerminalRecords(FinishPendingDataRemoval(os)) : os' = s
  /\ UNCHANGED <<root, starter, cleaner, lock, waiter, active, runtime, tasks, control, faults>>

-----------------------------------------------------------------------------
(* The worker                                                                *)

Busy == {j \in Jobs : worker[j] # "idle"}
Goto(j, pc) == worker' = [worker EXCEPT ![j] = pc]
PinPreparedRun(j) == pins' = pins \cup {j}
UnpinPreparedRun(j) == pins' = pins \ {j}

(* The gateway answers a poll with the oldest cleanup obligation before any lease *)
PendingCleanup == {j \in Jobs : lease[j] = "owed"}

FailWithoutRuntime(j) ==
  /\ Goto(j, "report")
  /\ plan' = [plan EXCEPT ![j] = [ok |-> FALSE, complete |-> TRUE, given |-> TRUE]]

(* The renewed lease carries a new grant, with which the worker launches again *)
RenewLease(j) == lease[j] = "held" /\ Accept(j)

Grantable(j) ==
  \/ Prior[j] = NoJob
  \/ /\ Prior[j] # NoJob
     /\ lease[Prior[j]] \in {"owed", "closed"}
     /\ (Node[Prior[j]] = Node[j]) <=> ~receipt[Prior[j]].ok

(* poll: cleanup obligations come first, and a granted lease is handed out once.  *)
(* A lease whose adapter the worker does not know fails without a runtime          *)
ExecuteAssignment(j) ==
  /\ worker[j] = "idle" /\ Cardinality(Busy) < Slots
  /\ \/ /\ lease[j] = "none" /\ Grantable(j) /\ PendingCleanup = {}
        /\ lease' = [lease EXCEPT ![j] = "held"]
        /\ \/ /\ Kind[j] \in Dispatched
              /\ Goto(j, "launch") /\ PinPreparedRun(j) /\ UNCHANGED plan /\ NoFault
           \/ /\ UnpinPreparedRun(j) /\ FailWithoutRuntime(j)
              /\ IF Kind[j] \in Dispatched THEN Fault ELSE NoFault
           \/ Fault /\ UNCHANGED <<worker, pins, plan>>          \* the assignment is lost
     \/ /\ j \in PendingCleanup /\ Goto(j, "obligation")
        /\ UNCHANGED <<lease, plan, pins>> /\ NoFault
  /\ answer' = [answer EXCEPT ![j] = "none"]
  /\ UNCHANGED <<journal, threads, runtime, os, receipt>>

Launch(j) ==
  /\ worker[j] = "launch"
  /\ \/ up /\ Accept(j) /\ Goto(j, "watch") /\ NoFault
     \/ up /\ Accept(j) /\ Goto(j, "failure") /\ Fault      \* the answer is lost
     \/ (~up \/ Refused(j)) /\ Goto(j, "failure") /\ NoFault /\ UNCHANGED <<rec, starter>>
  /\ UNCHANGED <<root, cleaner, lock, waiter, active, up, runtime, os, answer, plan, pins, control>>

(* Observing the record, or launching again with the grant of a renewed lease *)
NextLauncherStatus(j) ==
  /\ worker[j] = "watch"
  /\ \/ /\ up /\ rec[j].state \in {"succeeded", "failed", "cleaned"} /\ NoFault
        /\ Goto(j, IF rec[j].terminal = "none" THEN "idle" ELSE "terminal")
        /\ plan' = [plan EXCEPT ![j] = [ok |-> rec[j].terminal = "ok", complete |-> TRUE, given |-> TRUE]]
        /\ UNCHANGED <<rec, starter>>
     \/ /\ ~up \/ rec[j].state \in {"needs_reconcile", "cleanup_pending", "absent"}
        /\ Goto(j, "failure") /\ NoFault /\ UNCHANGED <<plan, rec, starter>>
     \/ up /\ RenewLease(j) /\ NoFault /\ UNCHANGED <<worker, plan>>
     \/ /\ Fault /\ Goto(j, "failure")             \* shutdown, or the lease is not renewed
        /\ UNCHANGED <<plan, rec, starter>>
  /\ UNCHANGED <<root, cleaner, lock, waiter, active, up, runtime, os, answer, pins, control>>

CallCleanup(j) ==
  /\ worker[j] \in {"terminal", "failure", "obligation"} /\ answer[j] = "none" /\ cleaner[j] = "none"
  /\ IF up THEN cleaner' = [cleaner EXCEPT ![j] = "called"] /\ UNCHANGED answer
           ELSE answer' = [answer EXCEPT ![j] = "error"] /\ UNCHANGED cleaner
  /\ UNCHANGED <<journal, starter, lock, waiter, active, up, runtime, os, worker, plan, pins, control, faults>>

LoseAnswer(j) ==
  /\ cleaner[j] # "none" /\ answer[j] = "none" /\ worker[j] # "idle" /\ Fault
  /\ answer' = [answer EXCEPT ![j] = "error"]
  /\ UNCHANGED <<journal, threads, runtime, os, worker, plan, pins, control>>

(* Mutant: the job's own exit decides, whatever became of the compiled state. *)
FinishTerminalByExit(j) ==
  /\ worker[j] = "terminal" /\ answer[j] # "none"
  /\ IF answer[j] = "cleaned" THEN Goto(j, "report") /\ pins' = pins \ {j}
     ELSE Goto(j, "failure") /\ UNCHANGED pins
  /\ answer' = [answer EXCEPT ![j] = "none"]
  /\ UNCHANGED <<journal, threads, runtime, os, plan, control, faults>>

FinishLauncherTerminal(j) ==
  /\ worker[j] = "terminal" /\ answer[j] # "none"
  /\ IF answer[j] = "cleaned"
     THEN /\ Goto(j, "report") /\ UnpinPreparedRun(j)
          /\ plan' = [plan EXCEPT ![j].ok = @ /\ (UsesState(j) => rec[j].usable)]
     ELSE Goto(j, "failure") /\ UNCHANGED <<plan, pins>>
  /\ answer' = [answer EXCEPT ![j] = "none"]
  /\ UNCHANGED <<journal, threads, runtime, os, control, faults>>

(* Mutant: a cleanup call without an answer counts as done.                   *)
FinishFailureHopefully(j) ==
  /\ worker[j] = "failure" /\ answer[j] # "none"
  /\ Goto(j, "report") /\ answer' = [answer EXCEPT ![j] = "none"] /\ pins' = pins \ {j}
  /\ plan' = [plan EXCEPT ![j] = [ok |-> FALSE, complete |-> TRUE, given |-> TRUE]]
  /\ UNCHANGED <<journal, threads, runtime, os, control, faults>>

FinishLauncherFailure(j) ==
  /\ worker[j] = "failure" /\ answer[j] # "none"
  /\ Goto(j, "report") /\ answer' = [answer EXCEPT ![j] = "none"]
  /\ pins' = IF answer[j] = "cleaned" THEN pins \ {j} ELSE pins
  /\ plan' = [plan EXCEPT ![j] = [ok |-> FALSE, complete |-> answer[j] = "cleaned", given |-> TRUE]]
  /\ UNCHANGED <<journal, threads, runtime, os, control, faults>>

(* freshen_for_receipt and submit_node_receipt: refused once the lease is lost *)
SubmitNodeReceipt(j) ==
  /\ worker[j] = "report" /\ Goto(j, "idle")
  /\ IF lease[j] = "held"
     THEN /\ receipt' = [receipt EXCEPT ![j] = plan[j]]
          /\ lease' = [lease EXCEPT ![j] = IF plan[j].complete THEN "closed" ELSE "owed"]
     ELSE UNCHANGED control
  /\ UNCHANGED <<journal, threads, runtime, os, answer, plan, pins, faults>>

ExecuteCleanup(j) ==
  /\ worker[j] = "obligation" /\ answer[j] # "none"
  /\ Goto(j, "idle") /\ answer' = [answer EXCEPT ![j] = "none"]
  /\ IF answer[j] = "cleaned"
     THEN UnpinPreparedRun(j) /\ lease' = [lease EXCEPT ![j] = "closed"]
     ELSE UNCHANGED <<pins, lease>>
  /\ UNCHANGED <<journal, threads, runtime, os, plan, receipt, faults>>

WorkerCrash ==
  /\ Busy # {} /\ Fault
  /\ worker' = [j \in Jobs |-> "idle"] /\ answer' = [j \in Jobs |-> "none"]
  /\ UNCHANGED <<journal, threads, runtime, os, plan, pins, control>>

(* The scheduler takes an expired lease back; its cleanup stays owed *)
LeaseExpires(j) ==
  /\ lease[j] = "held" /\ lease' = [lease EXCEPT ![j] = "owed"]
  /\ IF worker[j] = "idle" THEN NoFault ELSE Fault     \* nobody renews it, or renewals are late
  /\ UNCHANGED <<journal, threads, runtime, os, tasks, receipt>>

-----------------------------------------------------------------------------
StartThread(j) ==
  up /\ (StartLaunch(j) \/ BeginStart(j) \/ PinToolchainRoot(j) \/ PinLaunchInputs(j) \/ Spawn(j)
         \/ MarkRunning(j) \/ SettleFailedLaunchInputs(j))
WaitThread(j) == up /\ (ProcessWait(j) \/ MarkProcessExit(j))
CleanupThread(j) == up /\ (BeginCleanup(j) \/ StopUnit(j) \/ ReleaseState(j) \/ FinishCleanup(j)
         \/ RemoveToolchainRoot(j))
WorkerTask(j) ==
  \/ Launch(j) \/ NextLauncherStatus(j) \/ CallCleanup(j) \/ FinishLauncherTerminal(j)
  \/ FinishLauncherFailure(j) \/ SubmitNodeReceipt(j) \/ ExecuteCleanup(j)

Next ==
  \/ \E j \in Jobs :
       \/ StartThread(j) \/ WaitThread(j) \/ CleanupThread(j) \/ WorkerTask(j)
       \/ ExecuteAssignment(j) \/ UnitLoads(j) \/ UnitExits(j) \/ LoseAnswer(j) \/ LeaseExpires(j)
  \/ Crash \/ Restart \/ WorkerCrash

Spec == Init /\ [][Next]_vars

(***************************************************************************)
(* systemd restarts the launcher, some thread of the launcher, some task of  *)
(* the worker and its poll loop go on, units end (RuntimeMaxSec) and leases  *)
(* nobody renews expire.  No particular thread or task is favoured.          *)
(***************************************************************************)
Fairness ==
  /\ WF_vars(Restart)
  /\ WF_vars(\E j \in Jobs : StartThread(j) \/ WaitThread(j) \/ CleanupThread(j))
  /\ WF_vars(\E j \in Jobs : WorkerTask(j))
  /\ WF_vars(\E j \in Jobs : ExecuteAssignment(j))
  /\ WF_vars(\E j \in Jobs : UnitExits(j))
  /\ WF_vars(\E j \in Jobs : worker[j] = "idle" /\ LeaseExpires(j))

FairSpec == Spec /\ Fairness

-----------------------------------------------------------------------------
LaunchTypeOK ==
  /\ rec \in [Jobs -> [state : Unsettled \cup {"absent", "succeeded", "failed", "cleaned"},
                       terminal : {"none", "ok", "bad", "rejected"}, usable : BOOLEAN]]
  /\ lock \in Jobs \cup {NoJob} /\ os.user \in Jobs \cup {NoJob} /\ os.done \subseteq Consumers
  /\ faults \in 0..MaxFaults

Live(j) == unit[j] \in {"requested", "running"}

(* Renewals, repeated launches, a restarted launcher and a restarted worker   *)
(* never start a second process for a lease (workflow_launcher.rs accept).    *)
SpawnedOnce == \A j \in Jobs : spawned[j] <= 1

(* A record says cleaned only when no process of the lease is left, whichever *)
(* of the start, the exit and the cleanup came first; the exceptions are the  *)
(* units the launcher lost sight of (cleanup and the start-cleanup lock).     *)
CleanedIsStopped ==
  \A j \in Jobs \ escaped :
    rec[j].state = "cleaned" => ~Live(j) /\ starter[j] \notin {"pin", "acquire", "spawn", "mark", "settle"}

(* The compiled state a running job uses is its own: it is still the active   *)
(* consumer and the data directory is there, across releases, resets and      *)
(* restarts (operation_state.rs acquire and release).                         *)
RunningJobOwnsState ==
  \A j \in Jobs \ escaped : UsesState(j) /\ Live(j) => os.user = j /\ os.data

(* A node is reported as succeeded only when its process exited with zero,    *)
(* its release was published, the launcher kept no debt for it and its        *)
(* cleanup found the compiled state usable; and it finds so, of a job that    *)
(* ended well, only when the state's record has the node among the completed  *)
(* ones (finish_launcher_terminal, release).                                  *)
SuccessIsReal ==
  \A j \in Jobs :
    /\ receipt[j].ok =>
         /\ unit[j] = "ok" /\ rec[j].state = "cleaned"
         /\ MakesRelease(j) => output[j] = "published"
         /\ UsesState(j) => rec[j].usable
    /\ cleaner[j] = "finish_usable" /\ rec[j].terminal = "ok" => Node[j] \in os.done

(* What the scheduler takes for complete cleanup is complete: no record in    *)
(* progress, no pinned run of the lease, no toolchain root and no hold on the *)
(* operation state, although the launcher may die between any two of these    *)
(* (the receipts of workflow_worker.rs, cleanup).                             *)
ClosedLeavesNothing ==
  \A j \in Jobs \ escaped : lease[j] = "closed" =>
    /\ rec[j].state \in {"absent", "cleaned"} /\ ~Live(j)
    /\ os.user # j /\ j \notin root
    /\ worker[j] = "idle" => j \notin pins

(* Every lease that was granted is settled in the end: after the last fault   *)
(* nothing waits for ever for the lock, the launcher or the worker.  The one   *)
(* exception: the journal keeps every record, and once it is full a lease      *)
(* without a record can neither be launched nor cleaned up (begin_cleanup      *)
(* writes a record first), so that its cleanup stays owed.                     *)
EveryLeaseSettles ==
  <>[](\A j \in Jobs : lease[j] \in {"held", "owed"} => rec[j].state = "absent" /\ JournalFull)
=============================================================================
