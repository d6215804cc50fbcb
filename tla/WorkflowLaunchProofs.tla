-------------------------- MODULE WorkflowLaunchProofs --------------------------
(* The safety of launcher, worker and compiled state for any number of leases, *)
(* whatever their adapters, nodes and order, and for every bound on records,   *)
(* concurrency, slots and faults.                                              *)
EXTENDS WorkflowLaunch, TLAPS

--------------------------------------------------------------------------------
(* Types.                                                                      *)
RecordStates == {"absent", "accepted", "running", "needs_reconcile", "cleanup_pending",
                 "succeeded", "failed", "cleaned"}
LaunchRecord == [state : RecordStates, terminal : {"none", "ok", "bad", "rejected"},
                 usable : BOOLEAN]
StateRecord  == [exists : BOOLEAN, data : BOOLEAN, present : BOOLEAN, pending : BOOLEAN,
                 user : Jobs \cup {NoJob}, done : SUBSET {Node[j] : j \in Jobs},
                 last : Jobs \cup {NoJob}, lastUsable : BOOLEAN,
                 terminal : {"none", "succeeded", "failed"}]
Plans        == [ok : BOOLEAN, complete : BOOLEAN, given : BOOLEAN]

StartPcs   == {"none", "resolve", "start", "pin", "acquire", "spawn", "mark", "settle"}
CleanPcs   == {"none", "called", "stop", "release", "finish", "finish_usable",
               "unroot"}
WaitPcs    == {"none", "waiting", "ok", "bad"}
UnitStates == {"none", "requested", "running", "ok", "bad"}
Outputs    == {"none", "staged", "published"}
WorkerPcs  == {"idle", "launch", "watch", "terminal", "failure", "obligation", "report"}
Answers    == {"none", "cleaned", "error"}
Leases     == {"none", "held", "owed", "closed"}

(* The launcher's side, and the worker's with the scheduler's.                 *)
LauncherTypes ==
  /\ rec \in [Jobs -> LaunchRecord]
  /\ starter \in [Jobs -> StartPcs] /\ cleaner \in [Jobs -> CleanPcs]
  /\ waiter \in [Jobs -> WaitPcs] /\ unit \in [Jobs -> UnitStates]
  /\ output \in [Jobs -> Outputs] /\ spawned \in [Jobs -> Nat]
  /\ os \in StateRecord /\ up \in BOOLEAN

WorkerTypes ==
  /\ worker \in [Jobs -> WorkerPcs] /\ answer \in [Jobs -> Answers]
  /\ plan \in [Jobs -> Plans] /\ lease \in [Jobs -> Leases]
  /\ receipt \in [Jobs -> Plans]

--------------------------------------------------------------------------------
(* Starting and cleaning up a lease exclude each other, and everybody else.    *)
Starting == {"pin", "acquire", "spawn", "mark", "settle"}
Cleaning == {"stop", "release", "finish", "finish_usable"}

LockInv(j) ==
  /\ starter[j] \in Starting \/ cleaner[j] \in Cleaning \/ cleaner[j] = "unroot" => lock = j
  /\ ~(starter[j] \in Starting /\ cleaner[j] \in Cleaning)
  /\ ~up => starter[j] = "none" /\ cleaner[j] = "none" /\ waiter[j] = "none"

(* A process is started once, from an accepted record.                         *)
StartInv(j) ==
  /\ rec[j].state = "absent" => starter[j] = "none"
  /\ rec[j].state = "absent" \/ starter[j] \in {"resolve", "start", "pin", "acquire", "spawn"} =>
       spawned[j] = 0
  /\ spawned[j] = 0 => unit[j] = "none" /\ waiter[j] = "none"
  /\ spawned[j] <= 1
  /\ starter[j] \in {"pin", "acquire", "spawn", "mark"} => rec[j].state = "accepted"
  /\ starter[j] = "mark" => waiter[j] = "none" /\ spawned[j] = 1
  /\ starter[j] = "settle" => rec[j].state \notin {"absent", "cleanup_pending", "cleaned"}
  /\ cleaner[j] \in Cleaning => rec[j].state = "cleanup_pending"
  /\ cleaner[j] = "unroot" => rec[j].state = "cleaned"

(* What is recorded of its end really happened.                                *)
EndInv(j) ==
  /\ rec[j].state \in {"absent", "accepted", "running"} => rec[j].terminal = "none"
  /\ rec[j].terminal = "ok" \/ waiter[j] = "ok" =>
       unit[j] = "ok" /\ (MakesRelease(j) => output[j] = "published")
  /\ output[j] = "published" => j \notin active

(* Whose the compiled state is, and that no process outlives its cleanup       *)
(* unless the launcher lost sight of it.                                       *)
HoldInv(j) ==
  /\ \/ rec[j].state = "cleaned" \/ cleaner[j] \in {"release", "finish", "finish_usable"}
     \/ starter[j] = "settle"
     => j \in escaped \/ ~Live(j)
  /\ cleaner[j] = "release" => UsesState(j)
  /\ starter[j] \in {"spawn", "mark"} /\ UsesState(j) => os.user = j
  /\ UsesState(j) /\ Live(j) => os.user = j \/ j \in escaped
  /\ os.user = j =>
       /\ UsesState(j) /\ rec[j].state \notin {"absent", "cleaned"}
       /\ cleaner[j] \notin {"finish", "finish_usable"}

(* Nothing of the lease is left: it was cleaned up, or never came to a record. *)
Gone(j) ==
  /\ rec[j].state = "cleaned" \/ (rec[j].state = "absent" /\ cleaner[j] = "none")
  /\ j \notin pins

(* What worker and scheduler may conclude from an answer.                      *)
LeaseInv(j) ==
  /\ lease[j] = "none" => rec[j].state = "absent" /\ worker[j] = "idle" /\ cleaner[j] = "none"
  /\ lease[j] = "closed" => worker[j] = "idle" /\ Gone(j)
  /\ receipt[j].given => lease[j] \in {"owed", "closed"}
  /\ worker[j] = "report" /\ plan[j].complete => Gone(j)
  /\ answer[j] = "cleaned" => rec[j].state = "cleaned"

(* The process ended well, what it built was published, its cleanup is         *)
(* complete and left the compiled state usable.                                *)
Earned(j) ==
  /\ rec[j].state = "cleaned" /\ rec[j].terminal = "ok"
  /\ UsesState(j) => rec[j].usable

ReceiptInv(j) ==
  /\ worker[j] = "terminal" /\ plan[j].ok => rec[j].terminal = "ok"
  /\ (worker[j] = "report" /\ plan[j].ok) \/ receipt[j].ok => Earned(j)

JobInv(j) ==
  LockInv(j) /\ StartInv(j) /\ EndInv(j) /\ HoldInv(j) /\ LeaseInv(j) /\ ReceiptInv(j)

(* A state in use is there and will not be removed.                            *)
StateKept(s) ==
  s.user # NoJob => s.exists /\ s.data /\ s.present /\ ~s.pending /\ s.terminal = "none"

(* The inductive invariant of the build side.                                  *)
LaunchInv ==
  /\ LauncherTypes
  /\ WorkerTypes
  /\ StateKept(os)
  /\ \A j \in Jobs : JobInv(j)

--------------------------------------------------------------------------------
(* A lease a step leaves alone keeps its part of the invariant.                *)
JobSame(i) ==
  /\ rec'[i] = rec[i] /\ starter'[i] = starter[i] /\ cleaner'[i] = cleaner[i]
  /\ waiter'[i] = waiter[i] /\ unit'[i] = unit[i] /\ output'[i] = output[i]
  /\ spawned'[i] = spawned[i] /\ worker'[i] = worker[i] /\ answer'[i] = answer[i]
  /\ plan'[i] = plan[i] /\ lease'[i] = lease[i] /\ receipt'[i] = receipt[i]
  /\ i \in active' => i \in active
  /\ i \in pins' => i \in pins
  /\ i \in escaped => i \in escaped'

(* Nothing the lease's part speaks of has changed.                            *)
LEMMA JobFrame ==
  ASSUME NEW i \in Jobs, JobInv(i), JobSame(i),
         lock = i => lock' = i, os'.user = i <=> os.user = i, up => up'
  PROVE  JobInv(i)'
<1> USE DEF JobSame
<1>1. LockInv(i)'
  BY DEF JobInv, LockInv
<1>2. StartInv(i)' /\ EndInv(i)'
  BY DEF JobInv, StartInv, EndInv
<1>3. HoldInv(i)'
  BY DEF JobInv, HoldInv, Live
<1>4. LeaseInv(i)' /\ ReceiptInv(i)'
  BY DEF JobInv, LeaseInv, ReceiptInv, Gone, Earned
<1> QED
  BY <1>1, <1>2, <1>3, <1>4 DEF JobInv

(* A step for lease j: its own part, and the others undisturbed.               *)
LEMMA OneJob ==
  ASSUME LaunchInv, NEW j \in Jobs, JobInv(j)', LauncherTypes', WorkerTypes', StateKept(os)',
         \A i \in Jobs : i # j => JobSame(i),
         \A i \in Jobs : i # j => (lock = i => lock' = i) /\ (os'.user = i <=> os.user = i),
         up => up'
  PROVE  LaunchInv'
<1>1. ASSUME NEW i \in Jobs, i # j PROVE JobInv(i)'
  <2>1. JobInv(i) /\ JobSame(i) /\ (lock = i => lock' = i) /\ (os'.user = i <=> os.user = i)
    BY <1>1 DEF LaunchInv
  <2> QED
    BY <2>1, JobFrame
<1> QED
  BY <1>1 DEF LaunchInv

--------------------------------------------------------------------------------
(* The operation state store.                                                  *)
LEMMA Removal ==
  ASSUME NEW s \in StateRecord, StateKept(s)
  PROVE  /\ FinishPendingDataRemoval(s) \in StateRecord
         /\ StateKept(FinishPendingDataRemoval(s))
         /\ FinishPendingDataRemoval(s).user = s.user
         /\ FinishPendingDataRemoval(s).exists = s.exists
         /\ s.user # NoJob => FinishPendingDataRemoval(s) = s
         /\ s.exists => ~FinishPendingDataRemoval(s).pending
         /\ FinishPendingDataRemoval(s).terminal = s.terminal
         /\ FinishPendingDataRemoval(s).done = s.done
<1>1. CASE s.exists /\ (s.pending \/ ~s.present)
  <2>1. FinishPendingDataRemoval(s) =
          [s EXCEPT !.data = FALSE, !.present = FALSE, !.pending = FALSE]
    BY <1>1 DEF FinishPendingDataRemoval, DropData
  <2> QED
    BY <1>1, <2>1 DEF StateRecord, StateKept
<1>2. CASE ~(s.exists /\ (s.pending \/ ~s.present))
  <2>1. FinishPendingDataRemoval(s) = s
    BY <1>2 DEF FinishPendingDataRemoval
  <2> QED
    BY <1>2, <2>1 DEF StateRecord
<1> QED
  BY <1>1, <1>2

(* reconcile_inactive touches no state in use.                                 *)
LEMMA Inactive ==
  ASSUME NEW s \in StateRecord, StateKept(s), NEW idle \in BOOLEAN
  PROVE  /\ ReconcileInactive(s, idle) \in StateRecord
         /\ StateKept(ReconcileInactive(s, idle))
         /\ ReconcileInactive(s, idle).user = s.user
         /\ ReconcileInactive(s, idle).exists => ~ReconcileInactive(s, idle).pending
<1>1. PICK c : c = FinishPendingDataRemoval(s)
  OBVIOUS
<1>2. c \in StateRecord /\ StateKept(c) /\ c.user = s.user /\ (c.exists => ~c.pending)
  BY <1>1, Removal
<1>3. CASE c.exists /\ c.terminal = "none" /\ c.user = NoJob /\ idle
  <2>1. PICK d : d = [c EXCEPT !.data = FALSE, !.present = FALSE, !.pending = FALSE]
    OBVIOUS
  <2>2. PICK e : e = [d EXCEPT !.last = NoJob, !.terminal = "failed"]
    OBVIOUS
  <2>4. ReconcileInactive(s, idle) = e
    BY <1>1, <1>3, <2>1, <2>2 DEF ReconcileInactive, DropData
  <2>3. d \in StateRecord /\ d.user = NoJob /\ ~d.pending
    BY <1>2, <1>3, <2>1 DEF StateRecord
  <2>5. e \in StateRecord /\ e.user = NoJob /\ ~e.pending
    BY <2>2, <2>3 DEF StateRecord
  <2> QED
    BY <1>2, <1>3, <2>4, <2>5 DEF StateKept
<1>4. CASE ~(c.exists /\ c.terminal = "none" /\ c.user = NoJob /\ idle)
  <2>1. ReconcileInactive(s, idle) = c
    BY <1>1, <1>4 DEF ReconcileInactive
  <2> QED
    BY <1>2, <2>1
<1> QED
  BY <1>3, <1>4

(* acquire gives a free state, or the lease's own, to the lease.               *)
LEMMA Acquired ==
  ASSUME NEW j \in Jobs, NEW s \in StateRecord, Acquirable(j, s), s.exists => ~s.pending
  PROVE  /\ AcquireState(j, s) \in StateRecord /\ StateKept(AcquireState(j, s))
         /\ AcquireState(j, s).user = j
<1>1. CASE ~s.exists
  <2>1. AcquireState(j, s) = [NoState EXCEPT !.exists = TRUE, !.data = TRUE, !.present = TRUE,
                                             !.user = j]
    BY <1>1 DEF AcquireState
  <2>2. AcquireState(j, s) =
          [exists |-> TRUE, data |-> TRUE, present |-> TRUE, pending |-> FALSE, user |-> j,
           done |-> {}, last |-> NoJob, lastUsable |-> FALSE, terminal |-> "none"]
    BY <2>1 DEF NoState
  <2>3. AcquireState(j, s) \in StateRecord
    BY <2>2 DEF StateRecord
  <2> QED
    BY <2>2, <2>3 DEF StateKept
<1>2. CASE s.exists
  <2>1. AcquireState(j, s) = [s EXCEPT !.data = TRUE, !.present = TRUE, !.user = j, !.last = NoJob]
    BY <1>2 DEF AcquireState
  <2>2. s.terminal = "none" /\ ~s.pending
    BY <1>2 DEF Acquirable
  <2> QED
    BY ZenonT(60), <1>2, <2>1, <2>2 DEF StateRecord, StateKept
<1> QED
  BY <1>1, <1>2

(* What complete_active_release returns.                                       *)
Outcomes == [state : StateRecord, remove : BOOLEAN, usable : BOOLEAN]

(* complete_active_release leaves the state to nobody.                         *)
LEMMA Completed ==
  ASSUME NEW j \in Jobs, NEW s \in StateRecord, NEW over \in BOOLEAN,
         NEW outcome \in {"retryable", "unknown", "failed", "succeeded"}
  PROVE  /\ CompleteActiveRelease(j, s, outcome, over) \in Outcomes
         /\ CompleteActiveRelease(j, s, outcome, over).state.user = NoJob
<1>1. PICK gone : gone = [s EXCEPT !.user = NoJob]
  OBVIOUS
<1>2. PICK succeeded : succeeded = [gone EXCEPT !.done = @ \cup {Node[j]}, !.last = j,
                                                !.lastUsable = TRUE]
  OBVIOUS
<1>3. PICK failed : failed = [gone EXCEPT !.last = j, !.lastUsable = FALSE]
  OBVIOUS
<1>4. gone \in StateRecord /\ gone.user = NoJob
  BY <1>1 DEF StateRecord
<1>5. succeeded \in StateRecord /\ succeeded.user = NoJob
  BY <1>2, <1>4 DEF StateRecord
<1>6. failed \in StateRecord /\ failed.user = NoJob
  BY <1>3, <1>4 DEF StateRecord
<1>7. PICK over1 : over1 = [failed EXCEPT !.terminal = "failed"]
  OBVIOUS
<1>8. PICK again : again = [gone EXCEPT !.last = NoJob]
  OBVIOUS
<1>9. PICK all : all = [succeeded EXCEPT !.terminal = "succeeded"]
  OBVIOUS
<1>10. /\ over1 \in StateRecord /\ over1.user = NoJob
       /\ again \in StateRecord /\ again.user = NoJob
       /\ all \in StateRecord /\ all.user = NoJob
  <2>1. over1 \in StateRecord /\ over1.user = NoJob
    BY <1>6, <1>7 DEF StateRecord
  <2>2. again \in StateRecord /\ again.user = NoJob
    BY <1>4, <1>8 DEF StateRecord
  <2>3. all \in StateRecord /\ all.user = NoJob
    BY <1>5, <1>9 DEF StateRecord
  <2> QED
    BY <2>1, <2>2, <2>3
<1>11. PICK r : r = CompleteActiveRelease(j, s, outcome, over)
  OBVIOUS
<1>12. \/ r = [state |-> over1, remove |-> TRUE, usable |-> FALSE]
       \/ r = [state |-> again, remove |-> FALSE, usable |-> TRUE]
       \/ r = [state |-> all, remove |-> TRUE, usable |-> TRUE]
       \/ r = [state |-> succeeded, remove |-> FALSE, usable |-> TRUE]
       \/ r = [state |-> failed, remove |-> TRUE, usable |-> FALSE]
  <2>1. CASE over
    BY <1>1, <1>3, <1>7, <1>11, <2>1 DEF CompleteActiveRelease
  <2>2. CASE ~over /\ outcome = "retryable"
    BY <1>1, <1>8, <1>11, <2>2 DEF CompleteActiveRelease
  <2>3. CASE ~over /\ outcome = "succeeded"
    BY <1>1, <1>2, <1>9, <1>11, <2>3 DEF CompleteActiveRelease
  <2>4. CASE ~over /\ outcome = "failed"
    BY <1>1, <1>3, <1>7, <1>11, <2>4 DEF CompleteActiveRelease
  <2>5. CASE ~over /\ outcome = "unknown"
    BY <1>1, <1>3, <1>11, <2>5 DEF CompleteActiveRelease
  <2> QED
    BY <2>1, <2>2, <2>3, <2>4, <2>5
<1>13. r \in Outcomes /\ r.state.user = NoJob
  <2>1. CASE r = [state |-> over1, remove |-> TRUE, usable |-> FALSE]
    BY <1>5, <1>6, <1>10, <2>1 DEF Outcomes
  <2>2. CASE r = [state |-> again, remove |-> FALSE, usable |-> TRUE]
    BY <1>5, <1>6, <1>10, <2>2 DEF Outcomes
  <2>3. CASE r = [state |-> all, remove |-> TRUE, usable |-> TRUE]
    BY <1>5, <1>6, <1>10, <2>3 DEF Outcomes
  <2>4. CASE r = [state |-> succeeded, remove |-> FALSE, usable |-> TRUE]
    BY <1>5, <1>6, <1>10, <2>4 DEF Outcomes
  <2>5. CASE r = [state |-> failed, remove |-> TRUE, usable |-> FALSE]
    BY <1>5, <1>6, <1>10, <2>5 DEF Outcomes
  <2> QED
    BY <1>12, <2>1, <2>2, <2>3, <2>4, <2>5
<1> QED
  BY <1>11, <1>13

(* After a release the lease has no hold on the state; others keep theirs.     *)
LEMMA Released ==
  ASSUME NEW j \in Jobs, os \in StateRecord, StateKept(os), ~ReleaseRefused(j),
         NEW over \in BOOLEAN, NEW outcome \in {"retryable", "unknown", "failed", "succeeded"},
         NEW r, r = Release(j, outcome, over)
  PROVE  /\ r.state \in StateRecord /\ StateKept(r.state)
         /\ r.state.user = NoJob /\ r.remove \in BOOLEAN
         /\ os.user \in {j, NoJob}
<1>1. PICK s : s = FinishPendingDataRemoval(os)
  OBVIOUS
<1>2. s \in StateRecord /\ StateKept(s) /\ s.user = os.user
  BY <1>1, Removal
<1>3. s.user \in {j, NoJob}
  BY <1>1, <1>2 DEF ReleaseRefused, StateKept
<1>4. CASE s.exists /\ s.user = j
  <2>1. PICK c : c = CompleteActiveRelease(j, s, outcome, over)
    OBVIOUS
  <2>2. c \in Outcomes /\ c.state.user = NoJob
    BY <1>2, <2>1, Completed
  <2>3. r = [c EXCEPT !.state.pending = c.remove /\ s.present]
    BY <1>1, <1>4, <2>1 DEF Release
  <2>4. s.present \in BOOLEAN /\ c.remove \in BOOLEAN /\ c.state \in StateRecord
    BY <1>2, <2>2 DEF StateRecord, Outcomes
  <2>5. r.state = [c.state EXCEPT !.pending = c.remove /\ s.present] /\ r.remove = c.remove
    BY <2>2, <2>3 DEF Outcomes
  <2>6. PICK e : e = r.state
    OBVIOUS
  <2>7. e \in StateRecord /\ e.user = NoJob
    BY <2>2, <2>4, <2>5, <2>6 DEF StateRecord
  <2> QED
    BY <1>2, <1>3, <2>4, <2>5, <2>6, <2>7 DEF StateKept
<1>5. CASE ~(s.exists /\ s.user = j)
  <2>1. r = [state |-> s, remove |-> FALSE,
             usable |-> s.exists /\ (s.last = j \/ s.terminal # "none" \/ Node[j] \in s.done)
                          /\ ReplayedRelease(j, s)]
    BY <1>1, <1>5 DEF Release
  <2>2. s.user = NoJob
    BY <1>2, <1>3, <1>5, JobsAssumption DEF StateKept
  <2> QED
    BY <1>2, <2>1, <2>2
<1> QED
  BY <1>4, <1>5

--------------------------------------------------------------------------------
(* The launch journal.                                                         *)
Journals == [Jobs -> LaunchRecord]

(* A new state keeps the type of the records,                                  *)
LEMMA StateWritten ==
  ASSUME rec \in Journals, NEW j \in Jobs, NEW s \in RecordStates
  PROVE  [rec EXCEPT ![j].state = s] \in Journals
<1>1. PICK r : r = [rec[j] EXCEPT !.state = s]
  OBVIOUS
<1>2. r \in LaunchRecord
  BY <1>1 DEF Journals, LaunchRecord
<1>3. [rec EXCEPT ![j].state = s] = [rec EXCEPT ![j] = r]
  BY <1>1 DEF Journals
<1> QED
  BY <1>2, <1>3 DEF Journals

(* as does a recorded end,                                                     *)
LEMMA EndWritten ==
  ASSUME rec \in Journals, NEW j \in Jobs, NEW s \in RecordStates,
         NEW t \in {"none", "ok", "bad", "rejected"}
  PROVE  [rec EXCEPT ![j].state = s, ![j].terminal = t] \in Journals
<1>1. PICK r : r = [rec[j] EXCEPT !.state = s, !.terminal = t]
  OBVIOUS
<1>2. r \in LaunchRecord
  BY <1>1 DEF Journals, LaunchRecord
<1>3. [rec EXCEPT ![j].state = s, ![j].terminal = t] = [rec EXCEPT ![j] = r]
  BY <1>1 DEF Journals
<1> QED
  BY <1>2, <1>3 DEF Journals

(* and a finished cleanup.                                                     *)
LEMMA UseWritten ==
  ASSUME rec \in Journals, NEW j \in Jobs, NEW s \in RecordStates, NEW u \in BOOLEAN
  PROVE  [rec EXCEPT ![j].state = s, ![j].usable = u] \in Journals
<1>1. PICK r : r = [rec[j] EXCEPT !.state = s, !.usable = u]
  OBVIOUS
<1>2. r \in LaunchRecord
  BY <1>1 DEF Journals, LaunchRecord
<1>3. [rec EXCEPT ![j].state = s, ![j].usable = u] = [rec EXCEPT ![j] = r]
  BY <1>1 DEF Journals
<1> QED
  BY <1>2, <1>3 DEF Journals

(* mark_spawn_rejected and mark_needs_reconcile.                               *)
LEMMA Marks ==
  ASSUME rec \in Journals, NEW j \in Jobs
  PROVE  MarkSpawnRejected(j) \in Journals /\ MarkNeedsReconcile(j) \in Journals
<1>1. "failed" \in RecordStates /\ "needs_reconcile" \in RecordStates
  BY DEF RecordStates
<1>2. MarkSpawnRejected(j) \in Journals
  BY <1>1, EndWritten DEF MarkSpawnRejected
<1>3. MarkNeedsReconcile(j) \in Journals
  BY <1>1, StateWritten DEF MarkNeedsReconcile
<1> QED
  BY <1>2, <1>3

(* mark_process_exit.                                                          *)
LEMMA ExitMarks ==
  ASSUME rec \in Journals, NEW j \in Jobs, NEW ok \in BOOLEAN
  PROVE  ProcessExit(j, ok) \in Journals
<1>1. CASE rec[j].state \in {"cleanup_pending", "cleaned"}
  BY <1>1 DEF ProcessExit
<1>2. CASE rec[j].state = "running"
  <2>1. CASE ok
    <3>1. ProcessExit(j, ok) = [rec EXCEPT ![j].state = "succeeded", ![j].terminal = "ok"]
      BY <1>2, <2>1 DEF ProcessExit
    <3>2. "succeeded" \in RecordStates
      BY DEF RecordStates
    <3> QED
      BY ZenonT(60), <3>1, <3>2, EndWritten
  <2>2. CASE ~ok
    <3>1. ProcessExit(j, ok) = [rec EXCEPT ![j].state = "failed", ![j].terminal = "bad"]
      BY <1>2, <2>2 DEF ProcessExit
    <3>2. "failed" \in RecordStates
      BY DEF RecordStates
    <3> QED
      BY ZenonT(60), <3>1, <3>2, EndWritten
  <2> QED
    BY <2>1, <2>2
<1>3. CASE rec[j].state \notin {"cleanup_pending", "cleaned", "running"}
  <2>1. ProcessExit(j, ok) = MarkNeedsReconcile(j)
    BY <1>3 DEF ProcessExit
  <2> QED
    BY <2>1, Marks
<1> QED
  BY <1>1, <1>2, <1>3

(* start_launch: the inputs are found, or the launch is rejected.              *)
LEMMA StartLaunchKeeps ==
  ASSUME LaunchInv, NEW j \in Jobs, up, StartLaunch(j)
  PROVE  LaunchInv'
<1> USE DEF journal, threads, runtime, tasks, control, Fault, NoFault
<1>1. JobInv(j) /\ LauncherTypes /\ WorkerTypes /\ StateKept(os)
  BY DEF LaunchInv
<1>2. rec' \in Journals
  BY <1>1, Marks DEF StartLaunch, RecordStartFailure, LauncherTypes, Journals
<1>3. os' \in StateRecord /\ StateKept(os')
  BY <1>1 DEF StartLaunch, LauncherTypes, StateKept
<1>4. LauncherTypes' /\ WorkerTypes'
  <2>1. starter' \in [Jobs -> StartPcs]
    BY <1>1 DEF StartLaunch, Resolve, RecordStartFailure, LauncherTypes, StartPcs
  <2>2. UNCHANGED <<cleaner, waiter, unit, output, worker, answer, lease, plan, receipt,
                    spawned, up>>
    BY DEF StartLaunch
  <2> QED
    BY <1>1, <1>2, <1>3, <2>1, <2>2 DEF LauncherTypes, WorkerTypes, Journals
<1>5. \A i \in Jobs : i # j => JobSame(i)
  BY <1>1 DEF StartLaunch, Resolve, RecordStartFailure, MarkSpawnRejected, LauncherTypes,
      WorkerTypes, JobSame
<1>6. \A i \in Jobs : i # j => (lock = i => lock' = i) /\ (os'.user = i <=> os.user = i)
  BY <1>1, JobsAssumption DEF StartLaunch, Resolve, RecordStartFailure, MarkSpawnRejected,
      JobInv, LockInv, HoldInv, Starting, Cleaning
<1>7. LockInv(j)'
  BY <1>1, JobsAssumption DEF StartLaunch, Resolve, RecordStartFailure, MarkSpawnRejected,
      LauncherTypes, JobInv, LockInv, StartInv, Starting, Cleaning
<1>8. StartInv(j)'
  BY <1>1, JobsAssumption DEF StartLaunch, Resolve, RecordStartFailure, MarkSpawnRejected,
      LauncherTypes, LaunchRecord, JobInv, LockInv, StartInv, Starting, Cleaning
<1>9. EndInv(j)'
  BY <1>1, JobsAssumption DEF StartLaunch, Resolve, RecordStartFailure, MarkSpawnRejected,
      LauncherTypes, LaunchRecord, JobInv, StartInv, EndInv
<1>10. HoldInv(j)'
  BY <1>1, JobsAssumption DEF StartLaunch, Resolve, RecordStartFailure, MarkSpawnRejected,
      LauncherTypes, LaunchRecord, JobInv, LockInv, StartInv, HoldInv, LeaseInv, Starting,
      Cleaning, Live
<1>11. LeaseInv(j)' /\ ReceiptInv(j)'
  BY <1>1, JobsAssumption DEF StartLaunch, Resolve, RecordStartFailure, MarkSpawnRejected,
      LauncherTypes, LaunchRecord, WorkerTypes, Plans, JobInv, StartInv, LeaseInv, ReceiptInv,
      Gone, Earned
<1>12. up => up'
  BY DEF StartLaunch
<1>13. JobInv(j)'
  BY <1>7, <1>8, <1>9, <1>10, <1>11 DEF JobInv
<1> QED
  BY <1>3, <1>4, <1>5, <1>6, <1>12, <1>13, OneJob

(* The start thread takes the lock and looks at the record again.              *)
LEMMA BeginStartKeeps ==
  ASSUME LaunchInv, NEW j \in Jobs, up, BeginStart(j)
  PROVE  LaunchInv'
<1> USE DEF journal, threads, runtime, tasks, control, Fault, NoFault
<1>1. JobInv(j) /\ LauncherTypes /\ WorkerTypes /\ StateKept(os)
  BY DEF LaunchInv
<1>2. rec' \in Journals
  BY <1>1 DEF BeginStart, LauncherTypes, Journals
<1>3. os' \in StateRecord /\ StateKept(os')
  BY <1>1 DEF BeginStart, LauncherTypes, StateKept
<1>4. LauncherTypes' /\ WorkerTypes'
  <2>1. starter' \in [Jobs -> StartPcs]
    BY <1>1 DEF BeginStart, LeaveStart, LauncherTypes, StartPcs
  <2>2. UNCHANGED <<cleaner, waiter, unit, output, worker, answer, lease, plan, receipt,
                    spawned, up>>
    BY DEF BeginStart
  <2> QED
    BY <1>1, <1>2, <1>3, <2>1, <2>2 DEF LauncherTypes, WorkerTypes, Journals
<1>5. \A i \in Jobs : i # j => JobSame(i)
  BY <1>1 DEF BeginStart, LeaveStart, LauncherTypes, WorkerTypes, JobSame
<1>6. \A i \in Jobs : i # j => (lock = i => lock' = i) /\ (os'.user = i <=> os.user = i)
  BY <1>1, JobsAssumption DEF BeginStart, LeaveStart, JobInv, LockInv, HoldInv, Starting,
      Cleaning
<1>7. LockInv(j)'
  BY <1>1, JobsAssumption DEF BeginStart, LeaveStart, LauncherTypes, JobInv, LockInv, StartInv,
      Starting, Cleaning
<1>8. StartInv(j)'
  BY <1>1, JobsAssumption DEF BeginStart, LeaveStart, LauncherTypes, LaunchRecord, JobInv,
      LockInv, StartInv, Starting, Cleaning
<1>9. EndInv(j)'
  BY <1>1, JobsAssumption DEF BeginStart, LeaveStart, LauncherTypes, LaunchRecord, JobInv,
      StartInv, EndInv
<1>10. HoldInv(j)'
  BY <1>1, JobsAssumption DEF BeginStart, LeaveStart, LauncherTypes, LaunchRecord, JobInv,
      LockInv, StartInv, HoldInv, LeaseInv, Starting, Cleaning, Live
<1>11. LeaseInv(j)' /\ ReceiptInv(j)'
  BY <1>1, JobsAssumption DEF BeginStart, LeaveStart, LauncherTypes, LaunchRecord, WorkerTypes,
      Plans, JobInv, StartInv, LeaseInv, ReceiptInv, Gone, Earned
<1>12. up => up'
  BY DEF BeginStart
<1>13. JobInv(j)'
  BY <1>7, <1>8, <1>9, <1>10, <1>11 DEF JobInv
<1> QED
  BY <1>3, <1>4, <1>5, <1>6, <1>12, <1>13, OneJob

(* The unit is requested from systemd, or the spawn fails.                     *)
LEMMA SpawnKeeps ==
  ASSUME LaunchInv, NEW j \in Jobs, up, Spawn(j)
  PROVE  LaunchInv'
<1> USE DEF journal, threads, runtime, tasks, control, Fault, NoFault
<1>1. JobInv(j) /\ LauncherTypes /\ WorkerTypes /\ StateKept(os)
  BY DEF LaunchInv
<1>2. rec' \in Journals
  BY <1>1, Marks DEF Spawn, LauncherTypes, Journals
<1>3. os' \in StateRecord /\ StateKept(os')
  BY <1>1 DEF Spawn, LauncherTypes, StateKept
<1>4. LauncherTypes' /\ WorkerTypes'
  <2>1. starter' \in [Jobs -> StartPcs]
    BY <1>1 DEF Spawn, StageResult, LauncherTypes, StartPcs
  <2>2. unit' \in [Jobs -> UnitStates]
    BY <1>1 DEF Spawn, StageResult, LauncherTypes, UnitStates
  <2>3. spawned' \in [Jobs -> Nat]
    BY <1>1 DEF Spawn, StageResult, LauncherTypes
  <2>4. output' \in [Jobs -> Outputs]
    BY <1>1 DEF Spawn, StageResult, LauncherTypes, Outputs
  <2>5. UNCHANGED <<cleaner, waiter, worker, answer, lease, plan, receipt, up>>
    BY DEF Spawn
  <2> QED
    BY <1>1, <1>2, <1>3, <2>1, <2>2, <2>3, <2>4, <2>5 DEF LauncherTypes, WorkerTypes, Journals
<1>5. \A i \in Jobs : i # j => JobSame(i)
  BY <1>1 DEF Spawn, StageResult, MarkSpawnRejected, LauncherTypes, WorkerTypes, JobSame
<1>6. \A i \in Jobs : i # j => (lock = i => lock' = i) /\ (os'.user = i <=> os.user = i)
  BY <1>1, JobsAssumption DEF Spawn, StageResult, MarkSpawnRejected, JobInv, LockInv, HoldInv,
      Starting, Cleaning
<1>7. LockInv(j)'
  BY <1>1, JobsAssumption DEF Spawn, StageResult, MarkSpawnRejected, LauncherTypes, JobInv,
      LockInv, StartInv, Starting, Cleaning
<1>8. StartInv(j)'
  BY <1>1, JobsAssumption DEF Spawn, StageResult, MarkSpawnRejected, LauncherTypes,
      LaunchRecord, JobInv, LockInv, StartInv, Starting, Cleaning
<1>9. EndInv(j)'
  BY <1>1, JobsAssumption DEF Spawn, StageResult, MarkSpawnRejected, LauncherTypes,
      LaunchRecord, JobInv, StartInv, EndInv
<1>10. HoldInv(j)'
  BY <1>1, JobsAssumption DEF Spawn, StageResult, MarkSpawnRejected, LauncherTypes,
      LaunchRecord, JobInv, LockInv, StartInv, HoldInv, LeaseInv, Starting, Cleaning, Live
<1>11. LeaseInv(j)' /\ ReceiptInv(j)'
  BY <1>1, JobsAssumption DEF Spawn, StageResult, MarkSpawnRejected, LauncherTypes,
      LaunchRecord, WorkerTypes, Plans, JobInv, StartInv, LeaseInv, ReceiptInv, Gone, Earned
<1>12. up => up'
  BY DEF Spawn
<1>13. JobInv(j)'
  BY <1>7, <1>8, <1>9, <1>10, <1>11 DEF JobInv
<1> QED
  BY <1>3, <1>4, <1>5, <1>6, <1>12, <1>13, OneJob

(* mark_running: the process is journalled, or it is contained.                *)
LEMMA MarkRunningKeeps ==
  ASSUME LaunchInv, NEW j \in Jobs, up, MarkRunning(j)
  PROVE  LaunchInv'
<1> USE DEF journal, threads, runtime, tasks, control, Fault, NoFault
<1>1. JobInv(j) /\ LauncherTypes /\ WorkerTypes /\ StateKept(os)
  BY DEF LaunchInv
<1>2. rec' \in Journals
  <2>1. "running" \in RecordStates /\ rec \in Journals
    BY <1>1 DEF RecordStates, LauncherTypes, Journals
  <2> QED
    BY <2>1, Marks, StateWritten DEF MarkRunning
<1>3. os' \in StateRecord /\ StateKept(os')
  BY <1>1 DEF MarkRunning, LauncherTypes, StateKept
<1>4. LauncherTypes' /\ WorkerTypes'
  <2>1. starter' \in [Jobs -> StartPcs]
    BY <1>1 DEF MarkRunning, LeaveStart, ContainUnownedProcess, Terminate, Discard,
        LauncherTypes, StartPcs
  <2>2. waiter' \in [Jobs -> WaitPcs]
    BY <1>1 DEF MarkRunning, LeaveStart, ContainUnownedProcess, Terminate, Discard,
        LauncherTypes, WaitPcs
  <2>3. unit' \in [Jobs -> UnitStates]
    BY <1>1 DEF MarkRunning, LeaveStart, ContainUnownedProcess, Terminate, Discard,
        LauncherTypes, UnitStates
  <2>4. output' \in [Jobs -> Outputs]
    BY <1>1 DEF MarkRunning, LeaveStart, ContainUnownedProcess, Terminate, Discard,
        LauncherTypes, Outputs
  <2>5. UNCHANGED <<cleaner, worker, answer, lease, plan, receipt, spawned, up>>
    BY DEF MarkRunning
  <2> QED
    BY <1>1, <1>2, <1>3, <2>1, <2>2, <2>3, <2>4, <2>5 DEF LauncherTypes, WorkerTypes, Journals
<1>5. \A i \in Jobs : i # j => JobSame(i)
  BY <1>1 DEF MarkRunning, LeaveStart, ContainUnownedProcess, Terminate, Discard,
      MarkNeedsReconcile, LauncherTypes, WorkerTypes, JobSame
<1>6. \A i \in Jobs : i # j => (lock = i => lock' = i) /\ (os'.user = i <=> os.user = i)
  BY <1>1, JobsAssumption DEF MarkRunning, LeaveStart, ContainUnownedProcess, Terminate,
      Discard, MarkNeedsReconcile, JobInv, LockInv, HoldInv, Starting, Cleaning
<1>7. LockInv(j)'
  BY <1>1, JobsAssumption DEF MarkRunning, LeaveStart, ContainUnownedProcess, Terminate,
      Discard, MarkNeedsReconcile, LauncherTypes, JobInv, LockInv, StartInv, Starting, Cleaning
<1>8. StartInv(j)'
  BY <1>1, JobsAssumption DEF MarkRunning, LeaveStart, ContainUnownedProcess, Terminate,
      Discard, MarkNeedsReconcile, LauncherTypes, LaunchRecord, JobInv, LockInv, StartInv,
      Starting, Cleaning
<1>9. EndInv(j)'
  BY <1>1, JobsAssumption DEF MarkRunning, LeaveStart, ContainUnownedProcess, Terminate,
      Discard, MarkNeedsReconcile, LauncherTypes, LaunchRecord, JobInv, StartInv, EndInv
<1>10. HoldInv(j)'
  BY <1>1, JobsAssumption DEF MarkRunning, LeaveStart, ContainUnownedProcess, Terminate,
      Discard, MarkNeedsReconcile, LauncherTypes, LaunchRecord, JobInv, LockInv, StartInv,
      HoldInv, LeaseInv, Starting, Cleaning, Live
<1>11. LeaseInv(j)' /\ ReceiptInv(j)'
  BY <1>1, JobsAssumption DEF MarkRunning, LeaveStart, ContainUnownedProcess, Terminate,
      Discard, MarkNeedsReconcile, LauncherTypes, LaunchRecord, WorkerTypes, Plans, JobInv,
      StartInv, LeaseInv, ReceiptInv, Gone, Earned
<1>12. up => up'
  BY DEF MarkRunning
<1>13. JobInv(j)'
  BY <1>7, <1>8, <1>9, <1>10, <1>11 DEF JobInv
<1> QED
  BY <1>3, <1>4, <1>5, <1>6, <1>12, <1>13, OneJob

(* The process has ended: its result is published or discarded.                *)
LEMMA ProcessWaitKeeps ==
  ASSUME LaunchInv, NEW j \in Jobs, up, ProcessWait(j)
  PROVE  LaunchInv'
<1> USE DEF journal, threads, runtime, tasks, control, Fault, NoFault
<1>1. JobInv(j) /\ LauncherTypes /\ WorkerTypes /\ StateKept(os)
  BY DEF LaunchInv
<1>2. rec' \in Journals
  BY <1>1, Marks DEF ProcessWait, LauncherTypes, Journals
<1>3. os' \in StateRecord /\ StateKept(os')
  BY <1>1 DEF ProcessWait, LauncherTypes, StateKept
<1>4. LauncherTypes' /\ WorkerTypes'
  <2>1. waiter' \in [Jobs -> WaitPcs]
    BY <1>1 DEF ProcessWait, PublishResult, Discard, LauncherTypes, WaitPcs
  <2>2. output' \in [Jobs -> Outputs]
    BY <1>1 DEF ProcessWait, PublishResult, Discard, LauncherTypes, Outputs
  <2>3. UNCHANGED <<starter, cleaner, unit, worker, answer, lease, plan, receipt, spawned, up>>
    BY DEF ProcessWait
  <2> QED
    BY <1>1, <1>2, <1>3, <2>1, <2>2, <2>3 DEF LauncherTypes, WorkerTypes, Journals
<1>5. \A i \in Jobs : i # j => JobSame(i)
  BY <1>1 DEF ProcessWait, PublishResult, Discard, MarkNeedsReconcile, LauncherTypes,
      WorkerTypes, JobSame
<1>6. \A i \in Jobs : i # j => (lock = i => lock' = i) /\ (os'.user = i <=> os.user = i)
  BY <1>1, JobsAssumption DEF ProcessWait, PublishResult, Discard, MarkNeedsReconcile, JobInv,
      LockInv, HoldInv, Starting, Cleaning
<1>7. LockInv(j)'
  BY <1>1, JobsAssumption DEF ProcessWait, PublishResult, Discard, MarkNeedsReconcile,
      LauncherTypes, JobInv, LockInv, StartInv, Starting, Cleaning
<1>8. StartInv(j)'
  BY <1>1, JobsAssumption DEF ProcessWait, PublishResult, Discard, MarkNeedsReconcile,
      LauncherTypes, LaunchRecord, JobInv, LockInv, StartInv, Starting, Cleaning
<1>9. EndInv(j)'
  BY <1>1, JobsAssumption DEF ProcessWait, PublishResult, Discard, MarkNeedsReconcile,
      LauncherTypes, LaunchRecord, JobInv, StartInv, EndInv
<1>10. HoldInv(j)'
  BY <1>1, JobsAssumption DEF ProcessWait, PublishResult, Discard, MarkNeedsReconcile,
      LauncherTypes, LaunchRecord, JobInv, LockInv, StartInv, HoldInv, LeaseInv, Starting,
      Cleaning, Live
<1>11. LeaseInv(j)' /\ ReceiptInv(j)'
  BY <1>1, JobsAssumption DEF ProcessWait, PublishResult, Discard, MarkNeedsReconcile,
      LauncherTypes, LaunchRecord, WorkerTypes, Plans, JobInv, StartInv, LeaseInv, ReceiptInv,
      Gone, Earned
<1>12. up => up'
  BY DEF ProcessWait
<1>13. JobInv(j)'
  BY <1>7, <1>8, <1>9, <1>10, <1>11 DEF JobInv
<1> QED
  BY <1>3, <1>4, <1>5, <1>6, <1>12, <1>13, OneJob

(* mark_process_exit: the exit is recorded, unless cleanup came first.         *)
LEMMA ProcessExitKeeps ==
  ASSUME LaunchInv, NEW j \in Jobs, up, MarkProcessExit(j)
  PROVE  LaunchInv'
<1> USE DEF journal, threads, runtime, tasks, control, Fault, NoFault
<1>1. JobInv(j) /\ LauncherTypes /\ WorkerTypes /\ StateKept(os)
  BY DEF LaunchInv
<1>2. rec' \in Journals
  <2>1. rec \in Journals /\ (waiter[j] = "ok") \in BOOLEAN
    BY <1>1 DEF LauncherTypes, Journals
  <2> QED
    BY <2>1, Marks, ExitMarks DEF MarkProcessExit
<1>3. os' \in StateRecord /\ StateKept(os')
  BY <1>1 DEF MarkProcessExit, LauncherTypes, StateKept
<1>4. LauncherTypes' /\ WorkerTypes'
  <2>1. waiter' \in [Jobs -> WaitPcs]
    BY <1>1 DEF MarkProcessExit, LauncherTypes, WaitPcs
  <2>2. UNCHANGED <<starter, cleaner, unit, output, worker, answer, lease, plan, receipt,
                    spawned, up>>
    BY DEF MarkProcessExit
  <2> QED
    BY <1>1, <1>2, <1>3, <2>1, <2>2 DEF LauncherTypes, WorkerTypes, Journals
<1>5. \A i \in Jobs : i # j => JobSame(i)
  BY <1>1 DEF MarkProcessExit, ProcessExit, MarkNeedsReconcile, LauncherTypes, WorkerTypes,
      JobSame
<1>6. \A i \in Jobs : i # j => (lock = i => lock' = i) /\ (os'.user = i <=> os.user = i)
  BY <1>1, JobsAssumption DEF MarkProcessExit, ProcessExit, MarkNeedsReconcile, JobInv, LockInv,
      HoldInv, Starting, Cleaning
<1>7. LockInv(j)'
  BY <1>1, JobsAssumption DEF MarkProcessExit, ProcessExit, MarkNeedsReconcile, LauncherTypes,
      JobInv, LockInv, StartInv, Starting, Cleaning
<1>8. StartInv(j)'
  BY <1>1, JobsAssumption DEF MarkProcessExit, ProcessExit, MarkNeedsReconcile, LauncherTypes,
      LaunchRecord, JobInv, LockInv, StartInv, Starting, Cleaning
<1>9. EndInv(j)'
  BY <1>1, JobsAssumption DEF MarkProcessExit, ProcessExit, MarkNeedsReconcile, LauncherTypes,
      LaunchRecord, JobInv, StartInv, EndInv
<1>10. HoldInv(j)'
  BY <1>1, JobsAssumption DEF MarkProcessExit, ProcessExit, MarkNeedsReconcile, LauncherTypes,
      LaunchRecord, JobInv, LockInv, StartInv, HoldInv, LeaseInv, Starting, Cleaning, Live
<1>11. LeaseInv(j)' /\ ReceiptInv(j)'
  BY <1>1, JobsAssumption DEF MarkProcessExit, ProcessExit, MarkNeedsReconcile, LauncherTypes,
      LaunchRecord, WorkerTypes, Plans, JobInv, StartInv, LeaseInv, ReceiptInv, Gone, Earned
<1>12. up => up'
  BY DEF MarkProcessExit
<1>13. JobInv(j)'
  BY <1>7, <1>8, <1>9, <1>10, <1>11 DEF JobInv
<1> QED
  BY <1>3, <1>4, <1>5, <1>6, <1>12, <1>13, OneJob

(* cleanup: the debt is journalled under the lock before anything is undone.   *)
LEMMA BeginCleanupKeeps ==
  ASSUME LaunchInv, NEW j \in Jobs, up, BeginCleanup(j)
  PROVE  LaunchInv'
<1> USE DEF journal, threads, runtime, tasks, control, Fault, NoFault
<1>1. JobInv(j) /\ LauncherTypes /\ WorkerTypes /\ StateKept(os)
  BY DEF LaunchInv
<1>2. rec' \in Journals
  <2>1. "cleanup_pending" \in RecordStates /\ rec \in Journals
    BY <1>1 DEF RecordStates, LauncherTypes, Journals
  <2> QED
    BY <2>1, StateWritten DEF BeginCleanup
<1>3. os' \in StateRecord /\ StateKept(os')
  BY <1>1 DEF BeginCleanup, LauncherTypes, StateKept
<1>4. LauncherTypes' /\ WorkerTypes'
  <2>1. cleaner' \in [Jobs -> CleanPcs]
    BY <1>1 DEF BeginCleanup, LeaveCleanup, Answer, LauncherTypes, CleanPcs
  <2>2. answer' \in [Jobs -> Answers]
    BY <1>1 DEF BeginCleanup, LeaveCleanup, Answer, WorkerTypes, Answers
  <2>3. UNCHANGED <<starter, waiter, unit, output, worker, lease, plan, receipt, spawned, up>>
    BY DEF BeginCleanup
  <2> QED
    BY <1>1, <1>2, <1>3, <2>1, <2>2, <2>3 DEF LauncherTypes, WorkerTypes, Journals
<1>5. \A i \in Jobs : i # j => JobSame(i)
  BY <1>1 DEF BeginCleanup, LeaveCleanup, Answer, LauncherTypes, WorkerTypes, JobSame
<1>6. \A i \in Jobs : i # j => (lock = i => lock' = i) /\ (os'.user = i <=> os.user = i)
  BY <1>1, JobsAssumption DEF BeginCleanup, LeaveCleanup, Answer, JobInv, LockInv, HoldInv,
      Starting, Cleaning
<1>7. LockInv(j)'
  BY <1>1, JobsAssumption DEF BeginCleanup, LeaveCleanup, Answer, LauncherTypes, JobInv,
      LockInv, StartInv, Starting, Cleaning
<1>8. StartInv(j)'
  BY <1>1, JobsAssumption DEF BeginCleanup, LeaveCleanup, Answer, LauncherTypes, LaunchRecord,
      JobInv, LockInv, StartInv, Starting, Cleaning
<1>9. EndInv(j)'
  BY <1>1, JobsAssumption DEF BeginCleanup, LeaveCleanup, Answer, LauncherTypes, LaunchRecord,
      JobInv, StartInv, EndInv
<1>10. HoldInv(j)'
  BY <1>1, JobsAssumption DEF BeginCleanup, LeaveCleanup, Answer, LauncherTypes, LaunchRecord,
      JobInv, LockInv, StartInv, HoldInv, LeaseInv, Starting, Cleaning, Live
<1>11. LeaseInv(j)' /\ ReceiptInv(j)'
  BY <1>1, JobsAssumption DEF BeginCleanup, LeaveCleanup, Answer, LauncherTypes, LaunchRecord,
      WorkerTypes, Plans, JobInv, StartInv, LeaseInv, ReceiptInv, Gone, Earned
<1>12. up => up'
  BY DEF BeginCleanup
<1>13. JobInv(j)'
  BY <1>7, <1>8, <1>9, <1>10, <1>11 DEF JobInv
<1> QED
  BY <1>3, <1>4, <1>5, <1>6, <1>12, <1>13, OneJob

(* The unit is stopped, or the cleanup is given up.                            *)
LEMMA StopUnitKeeps ==
  ASSUME LaunchInv, NEW j \in Jobs, up, StopUnit(j)
  PROVE  LaunchInv'
<1> USE DEF journal, threads, runtime, tasks, control, Fault, NoFault
<1>1. JobInv(j) /\ LauncherTypes /\ WorkerTypes /\ StateKept(os)
  BY DEF LaunchInv
<1>2. rec' \in Journals
  BY <1>1 DEF StopUnit, LauncherTypes, Journals
<1>3. os' \in StateRecord /\ StateKept(os')
  BY <1>1 DEF StopUnit, LauncherTypes, StateKept
<1>4. LauncherTypes' /\ WorkerTypes'
  <2>1. cleaner' \in [Jobs -> CleanPcs]
    BY <1>1 DEF StopUnit, LeaveCleanup, Answer, Terminate, Discard, LauncherTypes, CleanPcs
  <2>2. answer' \in [Jobs -> Answers]
    BY <1>1 DEF StopUnit, LeaveCleanup, Answer, Terminate, Discard, WorkerTypes, Answers
  <2>3. unit' \in [Jobs -> UnitStates]
    BY <1>1 DEF StopUnit, LeaveCleanup, Answer, Terminate, Discard, LauncherTypes, UnitStates
  <2>4. output' \in [Jobs -> Outputs]
    BY <1>1 DEF StopUnit, LeaveCleanup, Answer, Terminate, Discard, LauncherTypes, Outputs
  <2>5. UNCHANGED <<starter, waiter, worker, lease, plan, receipt, spawned, up>>
    BY DEF StopUnit
  <2> QED
    BY <1>1, <1>2, <1>3, <2>1, <2>2, <2>3, <2>4, <2>5 DEF LauncherTypes, WorkerTypes, Journals
<1>5. \A i \in Jobs : i # j => JobSame(i)
  BY <1>1 DEF StopUnit, LeaveCleanup, Answer, Terminate, Discard, LauncherTypes, WorkerTypes,
      JobSame
<1>6. \A i \in Jobs : i # j => (lock = i => lock' = i) /\ (os'.user = i <=> os.user = i)
  BY <1>1, JobsAssumption DEF StopUnit, LeaveCleanup, Answer, Terminate, Discard, JobInv,
      LockInv, HoldInv, Starting, Cleaning
<1>7. LockInv(j)'
  BY <1>1, JobsAssumption DEF StopUnit, LeaveCleanup, Answer, Terminate, Discard, LauncherTypes,
      JobInv, LockInv, StartInv, Starting, Cleaning
<1>8. StartInv(j)'
  BY <1>1, JobsAssumption DEF StopUnit, LeaveCleanup, Answer, Terminate, Discard, LauncherTypes,
      LaunchRecord, JobInv, LockInv, StartInv, Starting, Cleaning
<1>9. EndInv(j)'
  BY <1>1, JobsAssumption DEF StopUnit, LeaveCleanup, Answer, Terminate, Discard, LauncherTypes,
      LaunchRecord, JobInv, StartInv, EndInv
<1>10. HoldInv(j)'
  BY <1>1, JobsAssumption DEF StopUnit, LeaveCleanup, Answer, Terminate, Discard, LauncherTypes,
      LaunchRecord, JobInv, LockInv, StartInv, HoldInv, LeaseInv, Starting, Cleaning, Live
<1>11. LeaseInv(j)' /\ ReceiptInv(j)'
  BY <1>1, JobsAssumption DEF StopUnit, LeaveCleanup, Answer, Terminate, Discard, LauncherTypes,
      LaunchRecord, WorkerTypes, Plans, JobInv, StartInv, LeaseInv, ReceiptInv, Gone, Earned
<1>12. up => up'
  BY DEF StopUnit
<1>13. JobInv(j)'
  BY <1>7, <1>8, <1>9, <1>10, <1>11 DEF JobInv
<1> QED
  BY <1>3, <1>4, <1>5, <1>6, <1>12, <1>13, OneJob

(* The worker calls cleanup, or finds the launcher down.                       *)
LEMMA CallCleanupKeeps ==
  ASSUME LaunchInv, NEW j \in Jobs, CallCleanup(j)
  PROVE  LaunchInv'
<1> USE DEF journal, threads, runtime, tasks, control, Fault, NoFault
<1>1. JobInv(j) /\ LauncherTypes /\ WorkerTypes /\ StateKept(os)
  BY DEF LaunchInv
<1>2. rec' \in Journals
  BY <1>1 DEF CallCleanup, LauncherTypes, Journals
<1>3. os' \in StateRecord /\ StateKept(os')
  BY <1>1 DEF CallCleanup, LauncherTypes, StateKept
<1>4. LauncherTypes' /\ WorkerTypes'
  <2>1. cleaner' \in [Jobs -> CleanPcs]
    BY <1>1 DEF CallCleanup, LauncherTypes, CleanPcs
  <2>2. answer' \in [Jobs -> Answers]
    BY <1>1 DEF CallCleanup, WorkerTypes, Answers
  <2>3. UNCHANGED <<starter, waiter, unit, output, worker, lease, plan, receipt, spawned, up>>
    BY DEF CallCleanup
  <2> QED
    BY <1>1, <1>2, <1>3, <2>1, <2>2, <2>3 DEF LauncherTypes, WorkerTypes, Journals
<1>5. \A i \in Jobs : i # j => JobSame(i)
  BY <1>1 DEF CallCleanup, LauncherTypes, WorkerTypes, JobSame
<1>6. \A i \in Jobs : i # j => (lock = i => lock' = i) /\ (os'.user = i <=> os.user = i)
  BY <1>1, JobsAssumption DEF CallCleanup, JobInv, LockInv, HoldInv, Starting, Cleaning
<1>7. LockInv(j)'
  BY <1>1, JobsAssumption DEF CallCleanup, LauncherTypes, JobInv, LockInv, StartInv, Starting,
      Cleaning
<1>8. StartInv(j)'
  BY <1>1, JobsAssumption DEF CallCleanup, LauncherTypes, LaunchRecord, JobInv, LockInv,
      StartInv, Starting, Cleaning
<1>9. EndInv(j)'
  BY <1>1, JobsAssumption DEF CallCleanup, LauncherTypes, LaunchRecord, JobInv, StartInv, EndInv
<1>10. HoldInv(j)'
  BY <1>1, JobsAssumption DEF CallCleanup, LauncherTypes, LaunchRecord, JobInv, LockInv,
      StartInv, HoldInv, LeaseInv, Starting, Cleaning, Live
<1>11. LeaseInv(j)' /\ ReceiptInv(j)'
  BY <1>1, JobsAssumption DEF CallCleanup, LauncherTypes, LaunchRecord, WorkerTypes, Plans,
      JobInv, StartInv, LeaseInv, ReceiptInv, Gone, Earned
<1>12. up => up'
  BY DEF CallCleanup
<1>13. JobInv(j)'
  BY <1>7, <1>8, <1>9, <1>10, <1>11 DEF JobInv
<1> QED
  BY <1>3, <1>4, <1>5, <1>6, <1>12, <1>13, OneJob

(* The answer of a cleanup call is lost.                                       *)
LEMMA LoseAnswerKeeps ==
  ASSUME LaunchInv, NEW j \in Jobs, LoseAnswer(j)
  PROVE  LaunchInv'
<1> USE DEF journal, threads, runtime, tasks, control, Fault, NoFault
<1>1. JobInv(j) /\ LauncherTypes /\ WorkerTypes /\ StateKept(os)
  BY DEF LaunchInv
<1>2. rec' \in Journals
  BY <1>1 DEF LoseAnswer, LauncherTypes, Journals
<1>3. os' \in StateRecord /\ StateKept(os')
  BY <1>1 DEF LoseAnswer, LauncherTypes, StateKept
<1>4. LauncherTypes' /\ WorkerTypes'
  <2>1. answer' \in [Jobs -> Answers]
    BY <1>1 DEF LoseAnswer, WorkerTypes, Answers
  <2>2. UNCHANGED <<starter, cleaner, waiter, unit, output, worker, lease, plan, receipt,
                    spawned, up>>
    BY DEF LoseAnswer
  <2> QED
    BY <1>1, <1>2, <1>3, <2>1, <2>2 DEF LauncherTypes, WorkerTypes, Journals
<1>5. \A i \in Jobs : i # j => JobSame(i)
  BY <1>1 DEF LoseAnswer, LauncherTypes, WorkerTypes, JobSame
<1>6. \A i \in Jobs : i # j => (lock = i => lock' = i) /\ (os'.user = i <=> os.user = i)
  BY <1>1, JobsAssumption DEF LoseAnswer, JobInv, LockInv, HoldInv, Starting, Cleaning
<1>7. LockInv(j)'
  BY <1>1, JobsAssumption DEF LoseAnswer, LauncherTypes, JobInv, LockInv, StartInv, Starting,
      Cleaning
<1>8. StartInv(j)'
  BY <1>1, JobsAssumption DEF LoseAnswer, LauncherTypes, LaunchRecord, JobInv, LockInv,
      StartInv, Starting, Cleaning
<1>9. EndInv(j)'
  BY <1>1, JobsAssumption DEF LoseAnswer, LauncherTypes, LaunchRecord, JobInv, StartInv, EndInv
<1>10. HoldInv(j)'
  BY <1>1, JobsAssumption DEF LoseAnswer, LauncherTypes, LaunchRecord, JobInv, LockInv,
      StartInv, HoldInv, LeaseInv, Starting, Cleaning, Live
<1>11. LeaseInv(j)' /\ ReceiptInv(j)'
  BY <1>1, JobsAssumption DEF LoseAnswer, LauncherTypes, LaunchRecord, WorkerTypes, Plans,
      JobInv, StartInv, LeaseInv, ReceiptInv, Gone, Earned
<1>12. up => up'
  BY DEF LoseAnswer
<1>13. JobInv(j)'
  BY <1>7, <1>8, <1>9, <1>10, <1>11 DEF JobInv
<1> QED
  BY <1>3, <1>4, <1>5, <1>6, <1>12, <1>13, OneJob

(* systemd loads a requested unit.                                             *)
LEMMA UnitLoadsKeeps ==
  ASSUME LaunchInv, NEW j \in Jobs, UnitLoads(j)
  PROVE  LaunchInv'
<1> USE DEF journal, threads, runtime, tasks, control, Fault, NoFault
<1>1. JobInv(j) /\ LauncherTypes /\ WorkerTypes /\ StateKept(os)
  BY DEF LaunchInv
<1>2. rec' \in Journals
  BY <1>1 DEF UnitLoads, LauncherTypes, Journals
<1>3. os' \in StateRecord /\ StateKept(os')
  BY <1>1 DEF UnitLoads, LauncherTypes, StateKept
<1>4. LauncherTypes' /\ WorkerTypes'
  <2>1. unit' \in [Jobs -> UnitStates]
    BY <1>1 DEF UnitLoads, LauncherTypes, UnitStates
  <2>2. UNCHANGED <<starter, cleaner, waiter, output, worker, answer, lease, plan, receipt,
                    spawned, up>>
    BY DEF UnitLoads
  <2> QED
    BY <1>1, <1>2, <1>3, <2>1, <2>2 DEF LauncherTypes, WorkerTypes, Journals
<1>5. \A i \in Jobs : i # j => JobSame(i)
  BY <1>1 DEF UnitLoads, LauncherTypes, WorkerTypes, JobSame
<1>6. \A i \in Jobs : i # j => (lock = i => lock' = i) /\ (os'.user = i <=> os.user = i)
  BY <1>1, JobsAssumption DEF UnitLoads, JobInv, LockInv, HoldInv, Starting, Cleaning
<1>7. LockInv(j)'
  BY <1>1, JobsAssumption DEF UnitLoads, LauncherTypes, JobInv, LockInv, StartInv, Starting,
      Cleaning
<1>8. StartInv(j)'
  BY <1>1, JobsAssumption DEF UnitLoads, LauncherTypes, LaunchRecord, JobInv, LockInv, StartInv,
      Starting, Cleaning
<1>9. EndInv(j)'
  BY <1>1, JobsAssumption DEF UnitLoads, LauncherTypes, LaunchRecord, JobInv, StartInv, EndInv
<1>10. HoldInv(j)'
  BY <1>1, JobsAssumption DEF UnitLoads, LauncherTypes, LaunchRecord, JobInv, LockInv, StartInv,
      HoldInv, LeaseInv, Starting, Cleaning, Live
<1>11. LeaseInv(j)' /\ ReceiptInv(j)'
  BY <1>1, JobsAssumption DEF UnitLoads, LauncherTypes, LaunchRecord, WorkerTypes, Plans,
      JobInv, StartInv, LeaseInv, ReceiptInv, Gone, Earned
<1>12. up => up'
  BY DEF UnitLoads
<1>13. JobInv(j)'
  BY <1>7, <1>8, <1>9, <1>10, <1>11 DEF JobInv
<1> QED
  BY <1>3, <1>4, <1>5, <1>6, <1>12, <1>13, OneJob

(* A process ends, well or not.                                                *)
LEMMA UnitExitsKeeps ==
  ASSUME LaunchInv, NEW j \in Jobs, UnitExits(j)
  PROVE  LaunchInv'
<1> USE DEF journal, threads, runtime, tasks, control, Fault, NoFault
<1>1. JobInv(j) /\ LauncherTypes /\ WorkerTypes /\ StateKept(os)
  BY DEF LaunchInv
<1>2. rec' \in Journals
  BY <1>1 DEF UnitExits, LauncherTypes, Journals
<1>3. os' \in StateRecord /\ StateKept(os')
  BY <1>1 DEF UnitExits, LauncherTypes, StateKept
<1>4. LauncherTypes' /\ WorkerTypes'
  <2>1. unit' \in [Jobs -> UnitStates]
    BY <1>1 DEF UnitExits, LauncherTypes, UnitStates
  <2>2. UNCHANGED <<starter, cleaner, waiter, output, worker, answer, lease, plan, receipt,
                    spawned, up>>
    BY DEF UnitExits
  <2> QED
    BY <1>1, <1>2, <1>3, <2>1, <2>2 DEF LauncherTypes, WorkerTypes, Journals
<1>5. \A i \in Jobs : i # j => JobSame(i)
  BY <1>1 DEF UnitExits, LauncherTypes, WorkerTypes, JobSame
<1>6. \A i \in Jobs : i # j => (lock = i => lock' = i) /\ (os'.user = i <=> os.user = i)
  BY <1>1, JobsAssumption DEF UnitExits, JobInv, LockInv, HoldInv, Starting, Cleaning
<1>7. LockInv(j)'
  BY <1>1, JobsAssumption DEF UnitExits, LauncherTypes, JobInv, LockInv, StartInv, Starting,
      Cleaning
<1>8. StartInv(j)'
  BY <1>1, JobsAssumption DEF UnitExits, LauncherTypes, LaunchRecord, JobInv, LockInv, StartInv,
      Starting, Cleaning
<1>9. EndInv(j)'
  BY <1>1, JobsAssumption DEF UnitExits, LauncherTypes, LaunchRecord, JobInv, StartInv, EndInv
<1>10. HoldInv(j)'
  BY <1>1, JobsAssumption DEF UnitExits, LauncherTypes, LaunchRecord, JobInv, LockInv, StartInv,
      HoldInv, LeaseInv, Starting, Cleaning, Live
<1>11. LeaseInv(j)' /\ ReceiptInv(j)'
  BY <1>1, JobsAssumption DEF UnitExits, LauncherTypes, LaunchRecord, WorkerTypes, Plans,
      JobInv, StartInv, LeaseInv, ReceiptInv, Gone, Earned
<1>12. up => up'
  BY DEF UnitExits
<1>13. JobInv(j)'
  BY <1>7, <1>8, <1>9, <1>10, <1>11 DEF JobInv
<1> QED
  BY <1>3, <1>4, <1>5, <1>6, <1>12, <1>13, OneJob

(* The scheduler takes a lease back.                                           *)
LEMMA LeaseExpiresKeeps ==
  ASSUME LaunchInv, NEW j \in Jobs, LeaseExpires(j)
  PROVE  LaunchInv'
<1> USE DEF journal, threads, runtime, tasks, control, Fault, NoFault
<1>1. JobInv(j) /\ LauncherTypes /\ WorkerTypes /\ StateKept(os)
  BY DEF LaunchInv
<1>2. rec' \in Journals
  BY <1>1 DEF LeaseExpires, LauncherTypes, Journals
<1>3. os' \in StateRecord /\ StateKept(os')
  BY <1>1 DEF LeaseExpires, LauncherTypes, StateKept
<1>4. LauncherTypes' /\ WorkerTypes'
  <2>1. lease' \in [Jobs -> Leases]
    BY <1>1 DEF LeaseExpires, WorkerTypes, Leases
  <2>2. UNCHANGED <<starter, cleaner, waiter, unit, output, worker, answer, plan, receipt,
                    spawned, up>>
    BY DEF LeaseExpires
  <2> QED
    BY <1>1, <1>2, <1>3, <2>1, <2>2 DEF LauncherTypes, WorkerTypes, Journals
<1>5. \A i \in Jobs : i # j => JobSame(i)
  BY <1>1 DEF LeaseExpires, LauncherTypes, WorkerTypes, JobSame
<1>6. \A i \in Jobs : i # j => (lock = i => lock' = i) /\ (os'.user = i <=> os.user = i)
  BY <1>1, JobsAssumption DEF LeaseExpires, JobInv, LockInv, HoldInv, Starting, Cleaning
<1>7. LockInv(j)'
  BY <1>1, JobsAssumption DEF LeaseExpires, LauncherTypes, JobInv, LockInv, StartInv, Starting,
      Cleaning
<1>8. StartInv(j)'
  BY <1>1, JobsAssumption DEF LeaseExpires, LauncherTypes, LaunchRecord, JobInv, LockInv,
      StartInv, Starting, Cleaning
<1>9. EndInv(j)'
  BY <1>1, JobsAssumption DEF LeaseExpires, LauncherTypes, LaunchRecord, JobInv, StartInv,
      EndInv
<1>10. HoldInv(j)'
  BY <1>1, JobsAssumption DEF LeaseExpires, LauncherTypes, LaunchRecord, JobInv, LockInv,
      StartInv, HoldInv, LeaseInv, Starting, Cleaning, Live
<1>11. LeaseInv(j)' /\ ReceiptInv(j)'
  BY <1>1, JobsAssumption DEF LeaseExpires, LauncherTypes, LaunchRecord, WorkerTypes, Plans,
      JobInv, StartInv, LeaseInv, ReceiptInv, Gone, Earned
<1>12. up => up'
  BY DEF LeaseExpires
<1>13. JobInv(j)'
  BY <1>7, <1>8, <1>9, <1>10, <1>11 DEF JobInv
<1> QED
  BY <1>3, <1>4, <1>5, <1>6, <1>12, <1>13, OneJob

(* The worker takes a lease, fails it without a runtime, or takes a cleanup    *)
(* it owes.                                                                    *)
LEMMA ExecuteAssignmentKeeps ==
  ASSUME LaunchInv, NEW j \in Jobs, ExecuteAssignment(j)
  PROVE  LaunchInv'
<1> USE DEF journal, threads, runtime, tasks, control, Fault, NoFault
<1>1. JobInv(j) /\ LauncherTypes /\ WorkerTypes /\ StateKept(os)
  BY DEF LaunchInv
<1>2. rec' \in Journals
  BY <1>1 DEF ExecuteAssignment, LauncherTypes, Journals
<1>3. os' \in StateRecord /\ StateKept(os')
  BY <1>1 DEF ExecuteAssignment, LauncherTypes, StateKept
<1>4. LauncherTypes' /\ WorkerTypes'
  <2>1. worker' \in [Jobs -> WorkerPcs]
    BY <1>1 DEF ExecuteAssignment, Goto, PinPreparedRun, UnpinPreparedRun, FailWithoutRuntime,
        PendingCleanup, WorkerTypes, WorkerPcs
  <2>2. answer' \in [Jobs -> Answers]
    BY <1>1 DEF ExecuteAssignment, Goto, PinPreparedRun, UnpinPreparedRun, FailWithoutRuntime,
        PendingCleanup, WorkerTypes, Answers
  <2>3. lease' \in [Jobs -> Leases]
    BY <1>1 DEF ExecuteAssignment, Goto, PinPreparedRun, UnpinPreparedRun, FailWithoutRuntime,
        PendingCleanup, WorkerTypes, Leases
  <2>4. plan' \in [Jobs -> Plans]
    <3>1. [ok |-> FALSE, complete |-> TRUE, given |-> TRUE] \in Plans
      BY DEF Plans
    <3> QED
      BY <1>1, <3>1 DEF ExecuteAssignment, FailWithoutRuntime, WorkerTypes
  <2>5. UNCHANGED <<starter, cleaner, waiter, unit, output, receipt, spawned, up>>
    BY DEF ExecuteAssignment
  <2> QED
    BY <1>1, <1>2, <1>3, <2>1, <2>2, <2>3, <2>4, <2>5 DEF LauncherTypes, WorkerTypes, Journals
<1>5. \A i \in Jobs : i # j => JobSame(i)
  BY <1>1 DEF ExecuteAssignment, Goto, PinPreparedRun, UnpinPreparedRun, FailWithoutRuntime,
      PendingCleanup, LauncherTypes, WorkerTypes, JobSame
<1>6. \A i \in Jobs : i # j => (lock = i => lock' = i) /\ (os'.user = i <=> os.user = i)
  BY <1>1, JobsAssumption DEF ExecuteAssignment, Goto, PinPreparedRun, UnpinPreparedRun,
      FailWithoutRuntime, PendingCleanup, JobInv, LockInv, HoldInv, Starting, Cleaning
<1>7. LockInv(j)'
  BY <1>1, JobsAssumption DEF ExecuteAssignment, Goto, PinPreparedRun, UnpinPreparedRun,
      FailWithoutRuntime, PendingCleanup, LauncherTypes, JobInv, LockInv, StartInv, Starting,
      Cleaning
<1>8. StartInv(j)'
  BY <1>1, JobsAssumption DEF ExecuteAssignment, Goto, PinPreparedRun, UnpinPreparedRun,
      FailWithoutRuntime, PendingCleanup, LauncherTypes, LaunchRecord, JobInv, LockInv,
      StartInv, Starting, Cleaning
<1>9. EndInv(j)'
  BY <1>1, JobsAssumption DEF ExecuteAssignment, Goto, PinPreparedRun, UnpinPreparedRun,
      FailWithoutRuntime, PendingCleanup, LauncherTypes, LaunchRecord, JobInv, StartInv, EndInv
<1>10. HoldInv(j)'
  BY <1>1, JobsAssumption DEF ExecuteAssignment, Goto, PinPreparedRun, UnpinPreparedRun,
      FailWithoutRuntime, PendingCleanup, LauncherTypes, LaunchRecord, JobInv, LockInv,
      StartInv, HoldInv, LeaseInv, Starting, Cleaning, Live
<1>11. LeaseInv(j)' /\ ReceiptInv(j)'
  BY <1>1, JobsAssumption DEF ExecuteAssignment, Goto, PinPreparedRun, UnpinPreparedRun,
      FailWithoutRuntime, PendingCleanup, LauncherTypes, LaunchRecord, WorkerTypes, Plans,
      JobInv, StartInv, LeaseInv, ReceiptInv, Gone, Earned
<1>12. up => up'
  BY DEF ExecuteAssignment
<1>13. JobInv(j)'
  BY <1>7, <1>8, <1>9, <1>10, <1>11 DEF JobInv
<1> QED
  BY <1>3, <1>4, <1>5, <1>6, <1>12, <1>13, OneJob

(* The worker launches: a known lease is not started again.                    *)
LEMMA LaunchKeeps ==
  ASSUME LaunchInv, NEW j \in Jobs, Launch(j)
  PROVE  LaunchInv'
<1> USE DEF journal, threads, runtime, tasks, control, Fault, NoFault
<1>1. JobInv(j) /\ LauncherTypes /\ WorkerTypes /\ StateKept(os)
  BY DEF LaunchInv
<1>2. rec' \in Journals
  <2>1. "accepted" \in RecordStates /\ rec \in Journals
    BY <1>1 DEF RecordStates, LauncherTypes, Journals
  <2> QED
    BY <2>1, StateWritten DEF Launch, Accept
<1>3. os' \in StateRecord /\ StateKept(os')
  BY <1>1 DEF Launch, LauncherTypes, StateKept
<1>4. LauncherTypes' /\ WorkerTypes'
  <2>1. worker' \in [Jobs -> WorkerPcs]
    BY <1>1 DEF Launch, Accept, Goto, WorkerTypes, WorkerPcs
  <2>2. starter' \in [Jobs -> StartPcs]
    BY <1>1 DEF Launch, Accept, Goto, LauncherTypes, StartPcs
  <2>3. UNCHANGED <<cleaner, waiter, unit, output, answer, lease, plan, receipt, spawned, up>>
    BY DEF Launch
  <2> QED
    BY <1>1, <1>2, <1>3, <2>1, <2>2, <2>3 DEF LauncherTypes, WorkerTypes, Journals
<1>5. \A i \in Jobs : i # j => JobSame(i)
  BY <1>1 DEF Launch, Accept, Goto, LauncherTypes, WorkerTypes, JobSame
<1>6. \A i \in Jobs : i # j => (lock = i => lock' = i) /\ (os'.user = i <=> os.user = i)
  BY <1>1, JobsAssumption DEF Launch, Accept, Goto, JobInv, LockInv, HoldInv, Starting, Cleaning
<1>7. LockInv(j)'
  BY <1>1, JobsAssumption DEF Launch, Accept, Goto, LauncherTypes, JobInv, LockInv, StartInv,
      Starting, Cleaning
<1>8. StartInv(j)'
  BY <1>1, JobsAssumption DEF Launch, Accept, Goto, LauncherTypes, LaunchRecord, JobInv,
      LockInv, StartInv, Starting, Cleaning
<1>9. EndInv(j)'
  BY <1>1, JobsAssumption DEF Launch, Accept, Goto, LauncherTypes, LaunchRecord, JobInv,
      StartInv, EndInv
<1>10. HoldInv(j)'
  BY <1>1, JobsAssumption DEF Launch, Accept, Goto, LauncherTypes, LaunchRecord, JobInv,
      LockInv, StartInv, HoldInv, LeaseInv, Starting, Cleaning, Live
<1>11. LeaseInv(j)' /\ ReceiptInv(j)'
  BY <1>1, JobsAssumption DEF Launch, Accept, Goto, LauncherTypes, LaunchRecord, WorkerTypes,
      Plans, JobInv, StartInv, LeaseInv, ReceiptInv, Gone, Earned
<1>12. up => up'
  BY DEF Launch
<1>13. JobInv(j)'
  BY <1>7, <1>8, <1>9, <1>10, <1>11 DEF JobInv
<1> QED
  BY <1>3, <1>4, <1>5, <1>6, <1>12, <1>13, OneJob

(* The worker observes the record or launches again with a renewed grant.      *)
LEMMA StatusKeeps ==
  ASSUME LaunchInv, NEW j \in Jobs, NextLauncherStatus(j)
  PROVE  LaunchInv'
<1> USE DEF journal, threads, runtime, tasks, control, Fault, NoFault
<1>1. JobInv(j) /\ LauncherTypes /\ WorkerTypes /\ StateKept(os)
  BY DEF LaunchInv
<1>2. rec' \in Journals
  <2>1. "accepted" \in RecordStates /\ rec \in Journals
    BY <1>1 DEF RecordStates, LauncherTypes, Journals
  <2> QED
    BY <2>1, StateWritten DEF NextLauncherStatus, RenewLease, Accept
<1>3. os' \in StateRecord /\ StateKept(os')
  BY <1>1 DEF NextLauncherStatus, LauncherTypes, StateKept
<1>4. LauncherTypes' /\ WorkerTypes'
  <2>1. worker' \in [Jobs -> WorkerPcs]
    BY <1>1 DEF NextLauncherStatus, RenewLease, Accept, Goto, WorkerTypes, WorkerPcs
  <2>2. starter' \in [Jobs -> StartPcs]
    BY <1>1 DEF NextLauncherStatus, RenewLease, Accept, Goto, LauncherTypes, StartPcs
  <2>3. plan' \in [Jobs -> Plans]
    <3>1. PICK p : p = [ok |-> rec[j].terminal = "ok", complete |-> TRUE, given |-> TRUE]
      OBVIOUS
    <3>2. p \in Plans
      BY <3>1 DEF Plans
    <3> QED
      BY <1>1, <3>1, <3>2 DEF NextLauncherStatus, WorkerTypes
  <2>4. UNCHANGED <<cleaner, waiter, unit, output, answer, lease, receipt, spawned, up>>
    BY DEF NextLauncherStatus
  <2> QED
    BY <1>1, <1>2, <1>3, <2>1, <2>2, <2>3, <2>4 DEF LauncherTypes, WorkerTypes, Journals
<1>5. \A i \in Jobs : i # j => JobSame(i)
  BY <1>1 DEF NextLauncherStatus, RenewLease, Accept, Goto, LauncherTypes, WorkerTypes, JobSame
<1>6. \A i \in Jobs : i # j => (lock = i => lock' = i) /\ (os'.user = i <=> os.user = i)
  BY <1>1, JobsAssumption DEF NextLauncherStatus, RenewLease, Accept, Goto, JobInv, LockInv,
      HoldInv, Starting, Cleaning
<1>7. LockInv(j)'
  BY <1>1, JobsAssumption DEF NextLauncherStatus, RenewLease, Accept, Goto, LauncherTypes,
      JobInv, LockInv, StartInv, Starting, Cleaning
<1>8. StartInv(j)'
  BY <1>1, JobsAssumption DEF NextLauncherStatus, RenewLease, Accept, Goto, LauncherTypes,
      LaunchRecord, JobInv, LockInv, StartInv, Starting, Cleaning
<1>9. EndInv(j)'
  BY <1>1, JobsAssumption DEF NextLauncherStatus, RenewLease, Accept, Goto, LauncherTypes,
      LaunchRecord, JobInv, StartInv, EndInv
<1>10. HoldInv(j)'
  BY <1>1, JobsAssumption DEF NextLauncherStatus, RenewLease, Accept, Goto, LauncherTypes,
      LaunchRecord, JobInv, LockInv, StartInv, HoldInv, LeaseInv, Starting, Cleaning, Live
<1>11. LeaseInv(j)' /\ ReceiptInv(j)'
  BY <1>1, JobsAssumption DEF NextLauncherStatus, RenewLease, Accept, Goto, LauncherTypes,
      LaunchRecord, WorkerTypes, Plans, JobInv, StartInv, LeaseInv, ReceiptInv, Gone, Earned
<1>12. up => up'
  BY DEF NextLauncherStatus
<1>13. JobInv(j)'
  BY <1>7, <1>8, <1>9, <1>10, <1>11 DEF JobInv
<1> QED
  BY <1>3, <1>4, <1>5, <1>6, <1>12, <1>13, OneJob

(* finish_launcher_terminal: success needs a complete cleanup and a usable     *)
(* state.                                                                      *)
LEMMA TerminalKeeps ==
  ASSUME LaunchInv, NEW j \in Jobs, FinishLauncherTerminal(j)
  PROVE  LaunchInv'
<1> USE DEF journal, threads, runtime, tasks, control, Fault, NoFault
<1>1. JobInv(j) /\ LauncherTypes /\ WorkerTypes /\ StateKept(os)
  BY DEF LaunchInv
<1>2. rec' \in Journals
  BY <1>1 DEF FinishLauncherTerminal, LauncherTypes, Journals
<1>3. os' \in StateRecord /\ StateKept(os')
  BY <1>1 DEF FinishLauncherTerminal, LauncherTypes, StateKept
<1>4. LauncherTypes' /\ WorkerTypes'
  <2>1. worker' \in [Jobs -> WorkerPcs]
    BY <1>1 DEF FinishLauncherTerminal, Goto, UnpinPreparedRun, WorkerTypes, WorkerPcs
  <2>2. plan' \in [Jobs -> Plans]
    <3>1. PICK p : p = [plan[j] EXCEPT !.ok = @ /\ (UsesState(j) => rec[j].usable)]
      OBVIOUS
    <3>2. p \in Plans
      BY <1>1, <3>1 DEF Plans, WorkerTypes
    <3>3. plan' = plan \/ plan' = [plan EXCEPT ![j] = p]
      BY <1>1, <3>1 DEF FinishLauncherTerminal, WorkerTypes
    <3> QED
      BY <1>1, <3>2, <3>3 DEF WorkerTypes
  <2>3. answer' \in [Jobs -> Answers]
    BY <1>1 DEF FinishLauncherTerminal, Goto, UnpinPreparedRun, WorkerTypes, Answers
  <2>4. UNCHANGED <<starter, cleaner, waiter, unit, output, lease, receipt, spawned, up>>
    BY DEF FinishLauncherTerminal
  <2> QED
    BY <1>1, <1>2, <1>3, <2>1, <2>2, <2>3, <2>4 DEF LauncherTypes, WorkerTypes, Journals
<1>5. \A i \in Jobs : i # j => JobSame(i)
  BY <1>1 DEF FinishLauncherTerminal, Goto, UnpinPreparedRun, LauncherTypes, WorkerTypes,
      JobSame
<1>6. \A i \in Jobs : i # j => (lock = i => lock' = i) /\ (os'.user = i <=> os.user = i)
  BY <1>1, JobsAssumption DEF FinishLauncherTerminal, Goto, UnpinPreparedRun, JobInv, LockInv,
      HoldInv, Starting, Cleaning
<1>7. LockInv(j)'
  BY <1>1, JobsAssumption DEF FinishLauncherTerminal, Goto, UnpinPreparedRun, LauncherTypes,
      JobInv, LockInv, StartInv, Starting, Cleaning
<1>8. StartInv(j)'
  BY <1>1, JobsAssumption DEF FinishLauncherTerminal, Goto, UnpinPreparedRun, LauncherTypes,
      LaunchRecord, JobInv, LockInv, StartInv, Starting, Cleaning
<1>9. EndInv(j)'
  BY <1>1, JobsAssumption DEF FinishLauncherTerminal, Goto, UnpinPreparedRun, LauncherTypes,
      LaunchRecord, JobInv, StartInv, EndInv
<1>10. HoldInv(j)'
  BY <1>1, JobsAssumption DEF FinishLauncherTerminal, Goto, UnpinPreparedRun, LauncherTypes,
      LaunchRecord, JobInv, LockInv, StartInv, HoldInv, LeaseInv, Starting, Cleaning, Live
<1>11. LeaseInv(j)' /\ ReceiptInv(j)'
  BY <1>1, JobsAssumption DEF FinishLauncherTerminal, Goto, UnpinPreparedRun, LauncherTypes,
      LaunchRecord, WorkerTypes, Plans, JobInv, StartInv, LeaseInv, ReceiptInv, Gone, Earned
<1>12. up => up'
  BY DEF FinishLauncherTerminal
<1>13. JobInv(j)'
  BY <1>7, <1>8, <1>9, <1>10, <1>11 DEF JobInv
<1> QED
  BY <1>3, <1>4, <1>5, <1>6, <1>12, <1>13, OneJob

(* finish_launcher_failure: only an answered cleanup is complete.              *)
LEMMA FailureKeeps ==
  ASSUME LaunchInv, NEW j \in Jobs, FinishLauncherFailure(j)
  PROVE  LaunchInv'
<1> USE DEF journal, threads, runtime, tasks, control, Fault, NoFault
<1>1. JobInv(j) /\ LauncherTypes /\ WorkerTypes /\ StateKept(os)
  BY DEF LaunchInv
<1>2. rec' \in Journals
  BY <1>1 DEF FinishLauncherFailure, LauncherTypes, Journals
<1>3. os' \in StateRecord /\ StateKept(os')
  BY <1>1 DEF FinishLauncherFailure, LauncherTypes, StateKept
<1>4. LauncherTypes' /\ WorkerTypes'
  <2>1. worker' \in [Jobs -> WorkerPcs]
    BY <1>1 DEF FinishLauncherFailure, Goto, WorkerTypes, WorkerPcs
  <2>2. answer' \in [Jobs -> Answers]
    BY <1>1 DEF FinishLauncherFailure, Goto, WorkerTypes, Answers
  <2>3. plan' \in [Jobs -> Plans]
    BY <1>1 DEF FinishLauncherFailure, Goto, WorkerTypes, Plans
  <2>4. UNCHANGED <<starter, cleaner, waiter, unit, output, lease, receipt, spawned, up>>
    BY DEF FinishLauncherFailure
  <2> QED
    BY <1>1, <1>2, <1>3, <2>1, <2>2, <2>3, <2>4 DEF LauncherTypes, WorkerTypes, Journals
<1>5. \A i \in Jobs : i # j => JobSame(i)
  BY <1>1 DEF FinishLauncherFailure, Goto, LauncherTypes, WorkerTypes, JobSame
<1>6. \A i \in Jobs : i # j => (lock = i => lock' = i) /\ (os'.user = i <=> os.user = i)
  BY <1>1, JobsAssumption DEF FinishLauncherFailure, Goto, JobInv, LockInv, HoldInv, Starting,
      Cleaning
<1>7. LockInv(j)'
  BY <1>1, JobsAssumption DEF FinishLauncherFailure, Goto, LauncherTypes, JobInv, LockInv,
      StartInv, Starting, Cleaning
<1>8. StartInv(j)'
  BY <1>1, JobsAssumption DEF FinishLauncherFailure, Goto, LauncherTypes, LaunchRecord, JobInv,
      LockInv, StartInv, Starting, Cleaning
<1>9. EndInv(j)'
  BY <1>1, JobsAssumption DEF FinishLauncherFailure, Goto, LauncherTypes, LaunchRecord, JobInv,
      StartInv, EndInv
<1>10. HoldInv(j)'
  BY <1>1, JobsAssumption DEF FinishLauncherFailure, Goto, LauncherTypes, LaunchRecord, JobInv,
      LockInv, StartInv, HoldInv, LeaseInv, Starting, Cleaning, Live
<1>11. LeaseInv(j)' /\ ReceiptInv(j)'
  BY <1>1, JobsAssumption DEF FinishLauncherFailure, Goto, LauncherTypes, LaunchRecord,
      WorkerTypes, Plans, JobInv, StartInv, LeaseInv, ReceiptInv, Gone, Earned
<1>12. up => up'
  BY DEF FinishLauncherFailure
<1>13. JobInv(j)'
  BY <1>7, <1>8, <1>9, <1>10, <1>11 DEF JobInv
<1> QED
  BY <1>3, <1>4, <1>5, <1>6, <1>12, <1>13, OneJob

(* submit_node_receipt: a lost lease keeps its receipt from being recorded.    *)
LEMMA SubmitKeeps ==
  ASSUME LaunchInv, NEW j \in Jobs, SubmitNodeReceipt(j)
  PROVE  LaunchInv'
<1> USE DEF journal, threads, runtime, tasks, control, Fault, NoFault
<1>1. JobInv(j) /\ LauncherTypes /\ WorkerTypes /\ StateKept(os)
  BY DEF LaunchInv
<1>2. rec' \in Journals
  BY <1>1 DEF SubmitNodeReceipt, LauncherTypes, Journals
<1>3. os' \in StateRecord /\ StateKept(os')
  BY <1>1 DEF SubmitNodeReceipt, LauncherTypes, StateKept
<1>4. LauncherTypes' /\ WorkerTypes'
  <2>1. worker' \in [Jobs -> WorkerPcs]
    BY <1>1 DEF SubmitNodeReceipt, Goto, WorkerTypes, WorkerPcs
  <2>2. lease' \in [Jobs -> Leases]
    BY <1>1 DEF SubmitNodeReceipt, Goto, WorkerTypes, Leases
  <2>3. receipt' \in [Jobs -> Plans]
    BY <1>1 DEF SubmitNodeReceipt, Goto, WorkerTypes, Plans
  <2>4. UNCHANGED <<starter, cleaner, waiter, unit, output, answer, plan, spawned, up>>
    BY DEF SubmitNodeReceipt
  <2> QED
    BY <1>1, <1>2, <1>3, <2>1, <2>2, <2>3, <2>4 DEF LauncherTypes, WorkerTypes, Journals
<1>5. \A i \in Jobs : i # j => JobSame(i)
  BY <1>1 DEF SubmitNodeReceipt, Goto, LauncherTypes, WorkerTypes, JobSame
<1>6. \A i \in Jobs : i # j => (lock = i => lock' = i) /\ (os'.user = i <=> os.user = i)
  BY <1>1, JobsAssumption DEF SubmitNodeReceipt, Goto, JobInv, LockInv, HoldInv, Starting,
      Cleaning
<1>7. LockInv(j)'
  BY <1>1, JobsAssumption DEF SubmitNodeReceipt, Goto, LauncherTypes, JobInv, LockInv, StartInv,
      Starting, Cleaning
<1>8. StartInv(j)'
  BY <1>1, JobsAssumption DEF SubmitNodeReceipt, Goto, LauncherTypes, LaunchRecord, JobInv,
      LockInv, StartInv, Starting, Cleaning
<1>9. EndInv(j)'
  BY <1>1, JobsAssumption DEF SubmitNodeReceipt, Goto, LauncherTypes, LaunchRecord, JobInv,
      StartInv, EndInv
<1>10. HoldInv(j)'
  BY <1>1, JobsAssumption DEF SubmitNodeReceipt, Goto, LauncherTypes, LaunchRecord, JobInv,
      LockInv, StartInv, HoldInv, LeaseInv, Starting, Cleaning, Live
<1>11. LeaseInv(j)' /\ ReceiptInv(j)'
  BY <1>1, JobsAssumption DEF SubmitNodeReceipt, Goto, LauncherTypes, LaunchRecord, WorkerTypes,
      Plans, JobInv, StartInv, LeaseInv, ReceiptInv, Gone, Earned
<1>12. up => up'
  BY DEF SubmitNodeReceipt
<1>13. JobInv(j)'
  BY <1>7, <1>8, <1>9, <1>10, <1>11 DEF JobInv
<1> QED
  BY <1>3, <1>4, <1>5, <1>6, <1>12, <1>13, OneJob

(* An owed cleanup is closed once it is answered.                              *)
LEMMA ObligationKeeps ==
  ASSUME LaunchInv, NEW j \in Jobs, ExecuteCleanup(j)
  PROVE  LaunchInv'
<1> USE DEF journal, threads, runtime, tasks, control, Fault, NoFault
<1>1. JobInv(j) /\ LauncherTypes /\ WorkerTypes /\ StateKept(os)
  BY DEF LaunchInv
<1>2. rec' \in Journals
  BY <1>1 DEF ExecuteCleanup, LauncherTypes, Journals
<1>3. os' \in StateRecord /\ StateKept(os')
  BY <1>1 DEF ExecuteCleanup, LauncherTypes, StateKept
<1>4. LauncherTypes' /\ WorkerTypes'
  <2>1. worker' \in [Jobs -> WorkerPcs]
    BY <1>1 DEF ExecuteCleanup, Goto, UnpinPreparedRun, WorkerTypes, WorkerPcs
  <2>2. answer' \in [Jobs -> Answers]
    BY <1>1 DEF ExecuteCleanup, Goto, UnpinPreparedRun, WorkerTypes, Answers
  <2>3. lease' \in [Jobs -> Leases]
    BY <1>1 DEF ExecuteCleanup, Goto, UnpinPreparedRun, WorkerTypes, Leases
  <2>4. UNCHANGED <<starter, cleaner, waiter, unit, output, plan, receipt, spawned, up>>
    BY DEF ExecuteCleanup
  <2> QED
    BY <1>1, <1>2, <1>3, <2>1, <2>2, <2>3, <2>4 DEF LauncherTypes, WorkerTypes, Journals
<1>5. \A i \in Jobs : i # j => JobSame(i)
  BY <1>1 DEF ExecuteCleanup, Goto, UnpinPreparedRun, LauncherTypes, WorkerTypes, JobSame
<1>6. \A i \in Jobs : i # j => (lock = i => lock' = i) /\ (os'.user = i <=> os.user = i)
  BY <1>1, JobsAssumption DEF ExecuteCleanup, Goto, UnpinPreparedRun, JobInv, LockInv, HoldInv,
      Starting, Cleaning
<1>7. LockInv(j)'
  BY <1>1, JobsAssumption DEF ExecuteCleanup, Goto, UnpinPreparedRun, LauncherTypes, JobInv,
      LockInv, StartInv, Starting, Cleaning
<1>8. StartInv(j)'
  BY <1>1, JobsAssumption DEF ExecuteCleanup, Goto, UnpinPreparedRun, LauncherTypes,
      LaunchRecord, JobInv, LockInv, StartInv, Starting, Cleaning
<1>9. EndInv(j)'
  BY <1>1, JobsAssumption DEF ExecuteCleanup, Goto, UnpinPreparedRun, LauncherTypes,
      LaunchRecord, JobInv, StartInv, EndInv
<1>10. HoldInv(j)'
  BY <1>1, JobsAssumption DEF ExecuteCleanup, Goto, UnpinPreparedRun, LauncherTypes,
      LaunchRecord, JobInv, LockInv, StartInv, HoldInv, LeaseInv, Starting, Cleaning, Live
<1>11. LeaseInv(j)' /\ ReceiptInv(j)'
  BY <1>1, JobsAssumption DEF ExecuteCleanup, Goto, UnpinPreparedRun, LauncherTypes,
      LaunchRecord, WorkerTypes, Plans, JobInv, StartInv, LeaseInv, ReceiptInv, Gone, Earned
<1>12. up => up'
  BY DEF ExecuteCleanup
<1>13. JobInv(j)'
  BY <1>7, <1>8, <1>9, <1>10, <1>11 DEF JobInv
<1> QED
  BY <1>3, <1>4, <1>5, <1>6, <1>12, <1>13, OneJob

(* The toolchain's root is set, or the launch rejected.                        *)
LEMMA PinRootKeeps ==
  ASSUME LaunchInv, NEW j \in Jobs, up, PinToolchainRoot(j)
  PROVE  LaunchInv'
<1>1. JobInv(j) /\ LauncherTypes /\ WorkerTypes /\ StateKept(os)
  BY DEF LaunchInv
<1>2. /\ starter[j] = "pin"
      /\ UNCHANGED <<cleaner, waiter, active, up, unit, output, spawned, escaped, os, worker, answer,
                     plan, pins, lease, receipt>>
  BY DEF PinToolchainRoot, runtime, tasks, control
<1>3. \/ starter' = [starter EXCEPT ![j] = "acquire"] /\ UNCHANGED <<rec, lock>>
      \/ /\ starter' = [starter EXCEPT ![j] = "none"] /\ lock' = NoJob
         /\ rec' = MarkSpawnRejected(j)
  BY DEF PinToolchainRoot, LeaveStart
<1>4. LauncherTypes' /\ WorkerTypes' /\ StateKept(os)'
  <2>1. rec' \in Journals
    BY <1>1, <1>3, Marks DEF LauncherTypes, Journals
  <2>2. starter' \in [Jobs -> StartPcs]
    BY <1>1, <1>3 DEF LauncherTypes, StartPcs
  <2> QED
    BY <1>1, <1>2, <2>1, <2>2 DEF LauncherTypes, WorkerTypes, Journals, StateKept
<1>5. \A i \in Jobs : i # j => JobSame(i)
  BY <1>1, <1>2, <1>3 DEF LauncherTypes, JobSame, MarkSpawnRejected
<1>6. \A i \in Jobs : i # j => (lock = i => lock' = i) /\ (os'.user = i <=> os.user = i)
  BY <1>1, <1>2, <1>3, JobsAssumption DEF JobInv, LockInv, Starting
<1>7. LockInv(j)'
  BY <1>1, <1>2, <1>3 DEF LauncherTypes, JobInv, LockInv, StartInv, Starting
<1>8. StartInv(j)'
  BY <1>1, <1>2, <1>3 DEF LauncherTypes, LaunchRecord, JobInv, LockInv, StartInv, Starting,
       MarkSpawnRejected
<1>9. EndInv(j)'
  BY <1>1, <1>2, <1>3 DEF LauncherTypes, LaunchRecord, JobInv, EndInv, MarkSpawnRejected
<1>10. HoldInv(j)'
  BY <1>1, <1>2, <1>3, JobsAssumption DEF LauncherTypes, LaunchRecord, JobInv, LockInv, StartInv,
       HoldInv, Starting, Cleaning, Live, MarkSpawnRejected
<1>11. LeaseInv(j)' /\ ReceiptInv(j)'
  BY <1>1, <1>2, <1>3 DEF LauncherTypes, LaunchRecord, JobInv, StartInv, LeaseInv, ReceiptInv,
       Gone, Earned, MarkSpawnRejected
<1>12. JobInv(j)'
  BY <1>7, <1>8, <1>9, <1>10, <1>11 DEF JobInv
<1> QED
  BY <1>2, <1>4, <1>5, <1>6, <1>12, OneJob

(* What pin_launch_inputs does to the state store: nobody loses a hold.        *)
LEMMA PinShape ==
  ASSUME LaunchInv, NEW j \in Jobs, up, PinLaunchInputs(j)
  PROVE  /\ os' \in StateRecord /\ StateKept(os')
         /\ os'.user = os.user \/ (os'.user = j /\ os.user = NoJob /\ UsesState(j))
         /\ \/ /\ starter' = [starter EXCEPT ![j] = "spawn"] /\ UNCHANGED <<rec, lock>>
               /\ UsesState(j) => os'.user = j
            \/ /\ starter' = [starter EXCEPT ![j] = "none"] /\ lock' = NoJob
               /\ rec' = MarkSpawnRejected(j)
<1>1. os \in StateRecord /\ StateKept(os)
  BY DEF LaunchInv, LauncherTypes
<1>2. ASSUME NEW idle \in BOOLEAN, NEW s, s = ReconcileInactive(os, idle), Acquirable(j, s),
             os' = AcquireState(j, s)
      PROVE  /\ os' \in StateRecord /\ StateKept(os') /\ os'.user = j
             /\ os.user \in {j, NoJob}
  <2>1. s \in StateRecord /\ StateKept(s) /\ s.user = os.user /\ (s.exists => ~s.pending)
    BY <1>1, <1>2, Inactive
  <2>2. s.user \in {j, NoJob}
    BY <1>2, <2>1 DEF Acquirable, StateKept
  <2> QED
    BY <1>2, <2>1, <2>2, Acquired
<1>3. ASSUME NEW idle \in BOOLEAN, os' = ReconcileInactive(os, idle)
      PROVE  os' \in StateRecord /\ StateKept(os') /\ os'.user = os.user
  BY <1>1, <1>3, Inactive
<1>4. CASE /\ UsesState(j)
           /\ \E idle, over \in BOOLEAN :
                LET s == ReconcileInactive(os, idle) IN
                IF Acquirable(j, s) /\ ~over
                THEN /\ os' = AcquireState(j, s) /\ starter' = [starter EXCEPT ![j] = "spawn"]
                     /\ UNCHANGED <<rec, lock>>
                ELSE /\ over => Acquirable(j, s)
                     /\ os' = IF over THEN AcquireState(j, s) ELSE s
                     /\ RecordStartFailure(j) /\ LeaveStart(j)
  <2>1. PICK idle \in BOOLEAN, over \in BOOLEAN :
          LET s == ReconcileInactive(os, idle) IN
          IF Acquirable(j, s) /\ ~over
          THEN /\ os' = AcquireState(j, s) /\ starter' = [starter EXCEPT ![j] = "spawn"]
               /\ UNCHANGED <<rec, lock>>
          ELSE /\ over => Acquirable(j, s)
               /\ os' = IF over THEN AcquireState(j, s) ELSE s
               /\ RecordStartFailure(j) /\ LeaveStart(j)
    BY <1>4
  <2>2. PICK s : s = ReconcileInactive(os, idle)
    OBVIOUS
  <2>3. CASE Acquirable(j, s) /\ ~over
    BY <1>2, <1>4, <2>1, <2>3, <2>2
  <2>4. CASE ~(Acquirable(j, s) /\ ~over) /\ over
    BY <1>2, <1>4, <2>1, <2>4, <2>2 DEF RecordStartFailure, LeaveStart
  <2>5. CASE ~(Acquirable(j, s) /\ ~over) /\ ~over
    BY <1>3, <2>1, <2>5, <2>2 DEF RecordStartFailure, LeaveStart
  <2> QED
    BY <2>3, <2>4, <2>5
<1>5. CASE /\ ~UsesState(j) /\ starter' = [starter EXCEPT ![j] = "spawn"]
           /\ UNCHANGED <<rec, lock, os>>
  BY <1>1, <1>5 DEF StateKept
<1>6. CASE RecordStartFailure(j) /\ LeaveStart(j) /\ UNCHANGED os
  BY <1>1, <1>6 DEF RecordStartFailure, LeaveStart, StateKept
<1> QED
  BY <1>4, <1>5, <1>6 DEF PinLaunchInputs

(* pin_launch_inputs: the compiled state is acquired, or the launch rejected.  *)
LEMMA PinKeeps ==
  ASSUME LaunchInv, NEW j \in Jobs, up, PinLaunchInputs(j)
  PROVE  LaunchInv'
<1>1. JobInv(j) /\ LauncherTypes /\ WorkerTypes /\ StateKept(os)
  BY DEF LaunchInv
<1>2. /\ starter[j] = "acquire"
      /\ UNCHANGED <<cleaner, waiter, active, up, unit, output, spawned, escaped, worker, answer,
                     plan, pins, lease, receipt>>
  BY DEF PinLaunchInputs, runtime, tasks, control
<1>3. /\ os' \in StateRecord /\ StateKept(os')
      /\ os'.user = os.user \/ (os'.user = j /\ os.user = NoJob /\ UsesState(j))
      /\ \/ /\ starter' = [starter EXCEPT ![j] = "spawn"] /\ UNCHANGED <<rec, lock>>
            /\ UsesState(j) => os'.user = j
         \/ /\ starter' = [starter EXCEPT ![j] = "none"] /\ lock' = NoJob
            /\ rec' = MarkSpawnRejected(j)
  BY PinShape
<1>4. LauncherTypes' /\ WorkerTypes'
  <2>1. rec' \in Journals
    BY <1>1, <1>3, Marks DEF LauncherTypes, Journals
  <2>2. starter' \in [Jobs -> StartPcs]
    BY <1>1, <1>3 DEF LauncherTypes, StartPcs
  <2> QED
    BY <1>1, <1>2, <1>3, <2>1, <2>2 DEF LauncherTypes, WorkerTypes, Journals
<1>5. \A i \in Jobs : i # j => JobSame(i)
  BY <1>1, <1>2, <1>3 DEF LauncherTypes, JobSame, MarkSpawnRejected
<1>6. \A i \in Jobs : i # j => (lock = i => lock' = i) /\ (os'.user = i <=> os.user = i)
  BY <1>1, <1>2, <1>3, JobsAssumption DEF JobInv, LockInv, Starting
<1>7. LockInv(j)'
  BY <1>1, <1>2, <1>3 DEF LauncherTypes, JobInv, LockInv, StartInv, Starting
<1>8. StartInv(j)'
  BY <1>1, <1>2, <1>3 DEF LauncherTypes, LaunchRecord, JobInv, LockInv, StartInv, Starting,
       MarkSpawnRejected
<1>9. EndInv(j)'
  BY <1>1, <1>2, <1>3 DEF LauncherTypes, LaunchRecord, JobInv, EndInv, MarkSpawnRejected
<1>10. HoldInv(j)'
  BY <1>1, <1>2, <1>3, JobsAssumption DEF LauncherTypes, LaunchRecord, JobInv, LockInv, StartInv,
       HoldInv, Starting, Cleaning, Live, MarkSpawnRejected
<1>11. LeaseInv(j)' /\ ReceiptInv(j)'
  BY <1>1, <1>2, <1>3 DEF LauncherTypes, LaunchRecord, JobInv, StartInv, LeaseInv, ReceiptInv,
       Gone, Earned, MarkSpawnRejected
<1>12. JobInv(j)'
  BY <1>7, <1>8, <1>9, <1>10, <1>11 DEF JobInv
<1> QED
  BY <1>2, <1>3, <1>4, <1>5, <1>6, <1>12, OneJob

(* What a lease's job may be said to have come to.                             *)
LEMMA CleanupOutcomes ==
  ASSUME LaunchInv, NEW j \in Jobs
  PROVE  CleanupOutcome(j) \in {"retryable", "unknown", "failed", "succeeded"}
<1>1. CASE rec[j].terminal = "ok"
  BY <1>1 DEF CleanupOutcome
<1>2. CASE rec[j].terminal = "none"
  <2>1. CleanupOutcome(j) = FailureOutcome(j, TRUE)
    BY <1>2 DEF CleanupOutcome
  <2> QED
    BY <2>1 DEF FailureOutcome
<1>3. CASE rec[j].terminal \notin {"ok", "none"}
  <2>1. CleanupOutcome(j) = FailureOutcome(j, FALSE)
    BY <1>3 DEF CleanupOutcome
  <2> QED
    BY <2>1 DEF FailureOutcome
<1> QED
  BY <1>1, <1>2, <1>3

(* settle_failed_launch_inputs: a failed start gives the state back.           *)
LEMMA SettleKeeps ==
  ASSUME LaunchInv, NEW j \in Jobs, up, SettleFailedLaunchInputs(j)
  PROVE  LaunchInv'
<1>1. JobInv(j) /\ LauncherTypes /\ WorkerTypes /\ StateKept(os)
  BY DEF LaunchInv
<1>2. /\ starter[j] = "settle" /\ starter' = [starter EXCEPT ![j] = "none"] /\ lock' = NoJob
      /\ rec' = MarkSpawnRejected(j)
      /\ UNCHANGED <<cleaner, waiter, active, up, unit, output, spawned, escaped, worker, answer,
                     plan, pins, lease, receipt>>
  BY DEF SettleFailedLaunchInputs, RecordStartFailure, LeaveStart, runtime, tasks, control
<1>3. /\ os' \in StateRecord /\ StateKept(os')
      /\ os'.user = os.user \/ (os'.user = NoJob /\ os.user = j)
  <2>1. CASE UsesState(j) /\ ~ReleaseRefused(j)
    <3>1. PICK r : r = Release(j, FailureOutcome(j, unit[j] # "none"), FALSE)
      OBVIOUS
    <3>2. os' = IF r.remove THEN DropData(r.state) ELSE r.state
      BY <2>1, <3>1 DEF SettleFailedLaunchInputs
    <3>3. PICK outcome \in {"retryable", "unknown", "failed", "succeeded"} :
            outcome = FailureOutcome(j, unit[j] # "none")
      BY DEF FailureOutcome
    <3>4. PICK over \in BOOLEAN : over = FALSE
      OBVIOUS
    <3>5. r = Release(j, outcome, over)
      BY <3>1, <3>3, <3>4
    <3>6. /\ r.state \in StateRecord /\ StateKept(r.state) /\ r.state.user = NoJob
          /\ os.user \in {j, NoJob}
      BY ZenonT(60), <1>1, <2>1, <3>5, Released DEF LauncherTypes
    <3>7. PICK s : s = r.state
      OBVIOUS
    <3>8. PICK d : d = [s EXCEPT !.data = FALSE, !.present = FALSE, !.pending = FALSE]
      OBVIOUS
    <3>9. d \in StateRecord /\ d.user = NoJob
      BY <3>6, <3>7, <3>8 DEF StateRecord
    <3>10. os' = d \/ os' = s
      BY <3>2, <3>7, <3>8 DEF DropData
    <3> QED
      BY <3>6, <3>7, <3>9, <3>10 DEF StateKept
  <2>2. CASE ~(UsesState(j) /\ ~ReleaseRefused(j))
    <3>1. os' = os
      BY <2>2 DEF SettleFailedLaunchInputs
    <3> QED
      BY <1>1, <3>1 DEF LauncherTypes
  <2> QED
    BY <2>1, <2>2
<1>4. LauncherTypes' /\ WorkerTypes'
  <2>1. rec' \in Journals
    BY <1>1, <1>2, Marks DEF LauncherTypes, Journals
  <2>2. starter' \in [Jobs -> StartPcs]
    BY <1>1, <1>2 DEF LauncherTypes, StartPcs
  <2> QED
    BY <1>1, <1>2, <1>3, <2>1, <2>2 DEF LauncherTypes, WorkerTypes, Journals
<1>5. \A i \in Jobs : i # j => JobSame(i)
  BY <1>1, <1>2 DEF LauncherTypes, JobSame, MarkSpawnRejected
<1>6. \A i \in Jobs : i # j => (lock = i => lock' = i) /\ (os'.user = i <=> os.user = i)
  BY <1>1, <1>2, <1>3, JobsAssumption DEF JobInv, LockInv, Starting
<1>7. LockInv(j)'
  BY <1>1, <1>2 DEF LauncherTypes, JobInv, LockInv, StartInv, Starting
<1>8. StartInv(j)'
  BY <1>1, <1>2 DEF LauncherTypes, LaunchRecord, JobInv, LockInv, StartInv, Starting,
       MarkSpawnRejected
<1>9. EndInv(j)'
  BY <1>1, <1>2 DEF LauncherTypes, LaunchRecord, JobInv, EndInv, MarkSpawnRejected
<1>10. HoldInv(j)'
  BY <1>1, <1>2, <1>3, JobsAssumption DEF LauncherTypes, LaunchRecord, JobInv, LockInv, StartInv,
       HoldInv, Starting, Cleaning, Live, MarkSpawnRejected
<1>11. LeaseInv(j)' /\ ReceiptInv(j)'
  BY <1>1, <1>2 DEF LauncherTypes, LaunchRecord, JobInv, StartInv, LeaseInv, ReceiptInv, Gone,
       Earned, MarkSpawnRejected
<1>12. JobInv(j)'
  BY <1>7, <1>8, <1>9, <1>10, <1>11 DEF JobInv
<1> QED
  BY <1>2, <1>3, <1>4, <1>5, <1>6, <1>12, OneJob

(* release_operation_state: the hold is given up, or the cleanup fails.        *)
LEMMA ReleaseKeeps ==
  ASSUME LaunchInv, NEW j \in Jobs, up, ReleaseState(j)
  PROVE  LaunchInv'
<1>1. JobInv(j) /\ LauncherTypes /\ WorkerTypes /\ StateKept(os)
  BY DEF LaunchInv
<1>2. /\ cleaner[j] = "release"
      /\ UNCHANGED <<rec, starter, waiter, active, up, unit, output, spawned, escaped, worker,
                     plan, pins, lease, receipt>>
  BY DEF ReleaseState, journal, runtime, control
<1>3. /\ os' \in StateRecord /\ StateKept(os')
      /\ \/ /\ os' = os /\ cleaner' = [cleaner EXCEPT ![j] = "none"] /\ lock' = NoJob
            /\ answer' = answer \/ answer' = [answer EXCEPT ![j] = "error"]
         \/ /\ os'.user = NoJob /\ os.user \in {j, NoJob} /\ UNCHANGED <<lock, answer>>
            /\ \/ cleaner' = [cleaner EXCEPT ![j] = "finish"]
               \/ cleaner' = [cleaner EXCEPT ![j] = "finish_usable"]
  <2>1. CASE ReleaseRefused(j) /\ LeaveCleanup(j, "error") /\ UNCHANGED os
    BY <1>1, <2>1 DEF LauncherTypes, WorkerTypes, LeaveCleanup, Answer
  <2>2. CASE /\ ~ReleaseRefused(j) /\ UNCHANGED <<lock, answer>>
             /\ \E over \in BOOLEAN :
                  LET r == Release(j, CleanupOutcome(j), over) IN
                  /\ os' = r.state
                  /\ cleaner' =
                       [cleaner EXCEPT ![j] = IF r.usable THEN "finish_usable" ELSE "finish"]
    <3>1. PICK over \in BOOLEAN :
            LET r == Release(j, CleanupOutcome(j), over) IN
            /\ os' = r.state
            /\ cleaner' = [cleaner EXCEPT ![j] = IF r.usable THEN "finish_usable" ELSE "finish"]
      BY <2>2
    <3>2. PICK r :
            /\ r = Release(j, CleanupOutcome(j), over) /\ os' = r.state
            /\ cleaner' = [cleaner EXCEPT ![j] = IF r.usable THEN "finish_usable" ELSE "finish"]
      BY <3>1
    <3>3. PICK outcome \in {"retryable", "unknown", "failed", "succeeded"} :
            outcome = CleanupOutcome(j)
      BY CleanupOutcomes
    <3>4. r = Release(j, outcome, over)
      BY <3>2, <3>3
    <3>5. /\ r.state \in StateRecord /\ StateKept(r.state) /\ r.state.user = NoJob
          /\ os.user \in {j, NoJob}
      BY ZenonT(60), <1>1, <2>2, <3>4, Released DEF LauncherTypes
    <3> QED
      BY <2>2, <3>2, <3>5
  <2> QED
    BY <2>1, <2>2 DEF ReleaseState
<1>4. LauncherTypes' /\ WorkerTypes'
  <2>1. cleaner' \in [Jobs -> CleanPcs]
    BY <1>1, <1>3 DEF LauncherTypes, CleanPcs
  <2>2. answer' \in [Jobs -> Answers]
    BY <1>1, <1>3 DEF WorkerTypes, Answers
  <2> QED
    BY <1>1, <1>2, <1>3, <2>1, <2>2 DEF LauncherTypes, WorkerTypes
<1>5. \A i \in Jobs : i # j => JobSame(i)
  BY <1>1, <1>2, <1>3 DEF LauncherTypes, WorkerTypes, JobSame
<1>6. \A i \in Jobs : i # j => (lock = i => lock' = i) /\ (os'.user = i <=> os.user = i)
  BY <1>1, <1>2, <1>3, JobsAssumption DEF JobInv, LockInv, Cleaning
<1>7. LockInv(j)'
  BY <1>1, <1>2, <1>3 DEF LauncherTypes, JobInv, LockInv, Cleaning
<1>8. StartInv(j)'
  BY <1>1, <1>2, <1>3 DEF LauncherTypes, JobInv, StartInv, Cleaning
<1>9. EndInv(j)'
  BY <1>1, <1>2 DEF JobInv, EndInv
<1>10. HoldInv(j)'
  BY <1>1, <1>2, <1>3, JobsAssumption DEF LauncherTypes, JobInv, LockInv, StartInv, HoldInv,
       Starting, Cleaning, Live
<1>11. LeaseInv(j)' /\ ReceiptInv(j)'
  BY <1>1, <1>2, <1>3 DEF LauncherTypes, WorkerTypes, JobInv, StartInv, LeaseInv, ReceiptInv,
       Gone, Earned, Cleaning
<1>12. JobInv(j)'
  BY <1>7, <1>8, <1>9, <1>10, <1>11 DEF JobInv
<1> QED
  BY <1>2, <1>3, <1>4, <1>5, <1>6, <1>12, OneJob

(* The data goes, then the record says cleaned.                                *)
LEMMA FinishKeeps ==
  ASSUME LaunchInv, NEW j \in Jobs, up, FinishCleanup(j)
  PROVE  LaunchInv'
<1>1. JobInv(j) /\ LauncherTypes /\ WorkerTypes /\ StateKept(os)
  BY DEF LaunchInv
<1>2. /\ cleaner[j] \in {"finish", "finish_usable"}
      /\ cleaner' = [cleaner EXCEPT ![j] = "unroot"]
      /\ rec' = [rec EXCEPT ![j].state = "cleaned", ![j].usable = cleaner[j] = "finish_usable"]
      /\ UNCHANGED <<starter, lock, waiter, active, up, unit, output, spawned, escaped, worker,
                     answer, plan, pins, lease, receipt>>
  BY DEF FinishCleanup, runtime, control
<1>4. os' \in StateRecord /\ StateKept(os') /\ os'.user = os.user
  <2>1. os' = os \/ os' = FinishPendingDataRemoval(os)
    BY DEF FinishCleanup
  <2> QED
    BY <1>1, <2>1, Removal DEF LauncherTypes
<1>5. LauncherTypes' /\ WorkerTypes'
  <2>1. rec' \in Journals
    <3>1. rec \in Journals /\ "cleaned" \in RecordStates
          /\ (cleaner[j] = "finish_usable") \in BOOLEAN
      BY <1>1 DEF LauncherTypes, Journals, RecordStates
    <3> QED
      BY <1>2, <3>1, UseWritten
  <2>2. cleaner' \in [Jobs -> CleanPcs]
    BY <1>1, <1>2 DEF LauncherTypes, CleanPcs
  <2> QED
    BY <1>1, <1>2, <1>4, <2>1, <2>2 DEF LauncherTypes, WorkerTypes, Journals
<1>6. \A i \in Jobs : i # j => JobSame(i)
  BY <1>1, <1>2 DEF LauncherTypes, WorkerTypes, JobSame
<1>7. \A i \in Jobs : i # j => (lock = i => lock' = i) /\ (os'.user = i <=> os.user = i)
  BY <1>1, <1>2, <1>4, JobsAssumption DEF JobInv, LockInv, Cleaning
<1>8. LockInv(j)'
  BY <1>1, <1>2 DEF LauncherTypes, JobInv, LockInv, Cleaning
<1>9. StartInv(j)'
  BY <1>1, <1>2 DEF LauncherTypes, LaunchRecord, JobInv, LockInv, StartInv, Starting, Cleaning
<1>10. EndInv(j)'
  BY <1>1, <1>2 DEF LauncherTypes, LaunchRecord, JobInv, StartInv, EndInv
<1>11. HoldInv(j)'
  BY <1>1, <1>2, <1>4 DEF LauncherTypes, LaunchRecord, JobInv, LockInv, StartInv, HoldInv,
       Starting, Cleaning, Live
<1>12. LeaseInv(j)' /\ ReceiptInv(j)'
  BY <1>1, <1>2 DEF LauncherTypes, LaunchRecord, WorkerTypes, JobInv, StartInv, LeaseInv,
       ReceiptInv, Gone, Earned, Cleaning
<1>13. JobInv(j)'
  BY <1>8, <1>9, <1>10, <1>11, <1>12 DEF JobInv
<1> QED
  BY <1>2, <1>4, <1>5, <1>6, <1>7, <1>13, OneJob

(* The toolchain's root goes, or the call fails and leaves it to the next one. *)
LEMMA RemoveRootKeeps ==
  ASSUME LaunchInv, NEW j \in Jobs, up, RemoveToolchainRoot(j)
  PROVE  LaunchInv'
<1>1. JobInv(j) /\ LauncherTypes /\ WorkerTypes /\ StateKept(os)
  BY DEF LaunchInv
<1>2. /\ cleaner[j] = "unroot" /\ lock' = NoJob /\ cleaner' = [cleaner EXCEPT ![j] = "none"]
      /\ UNCHANGED <<rec, starter, waiter, active, up, unit, output, spawned, escaped, os, worker,
                     plan, pins, lease, receipt>>
  BY DEF RemoveToolchainRoot, LeaveCleanup, runtime, control
<1>3. /\ answer' \in [Jobs -> Answers]
      /\ \A i \in Jobs : i # j => answer'[i] = answer[i]
      /\ answer'[j] \in {answer[j], "cleaned", "error"}
  BY <1>1 DEF WorkerTypes, Answers, RemoveToolchainRoot, LeaveCleanup, Answer
<1>4. LauncherTypes' /\ WorkerTypes' /\ StateKept(os)'
  <2>1. cleaner' \in [Jobs -> CleanPcs]
    BY <1>1, <1>2 DEF LauncherTypes, CleanPcs
  <2> QED
    BY <1>1, <1>2, <1>3, <2>1 DEF LauncherTypes, WorkerTypes, StateKept
<1>5. \A i \in Jobs : i # j => JobSame(i)
  BY <1>1, <1>2, <1>3 DEF LauncherTypes, JobSame
<1>6. \A i \in Jobs : i # j => (lock = i => lock' = i) /\ (os'.user = i <=> os.user = i)
  BY <1>1, <1>2 DEF JobInv, LockInv
<1>7. rec[j].state = "cleaned" /\ cleaner'[j] = "none"
  BY <1>1, <1>2 DEF LauncherTypes, JobInv, StartInv
<1>8. LockInv(j)' /\ StartInv(j)' /\ EndInv(j)'
  BY <1>1, <1>2, <1>7 DEF JobInv, LockInv, StartInv, EndInv, Starting, Cleaning
<1>9. HoldInv(j)'
  BY <1>1, <1>2, <1>7 DEF JobInv, HoldInv, Live
<1>10. LeaseInv(j)' /\ ReceiptInv(j)'
  BY <1>1, <1>2, <1>3, <1>7 DEF JobInv, LeaseInv, ReceiptInv, Gone, Earned
<1>11. JobInv(j)'
  BY <1>8, <1>9, <1>10 DEF JobInv
<1> QED
  BY <1>2, <1>4, <1>5, <1>6, <1>11, OneJob
--------------------------------------------------------------------------------
(* A crash of the launcher ends its threads and leaves the units running.      *)
LEMMA CrashKeeps ==
  ASSUME LaunchInv, Crash
  PROVE  LaunchInv'
<1> USE DEF journal, runtime, control
<1>1. LauncherTypes' /\ WorkerTypes' /\ StateKept(os)'
  <2>1. /\ starter' \in [Jobs -> StartPcs] /\ cleaner' \in [Jobs -> CleanPcs]
        /\ waiter' \in [Jobs -> WaitPcs]
    BY DEF Crash, StartPcs, CleanPcs, WaitPcs
  <2>2. answer' \in [Jobs -> Answers]
    BY DEF LaunchInv, WorkerTypes, Crash, Answers
  <2>3. UNCHANGED <<rec, unit, output, spawned, os, worker, plan, lease, receipt>> /\ up' = FALSE
    BY DEF Crash
  <2> QED
    BY <2>1, <2>2, <2>3 DEF LaunchInv, LauncherTypes, WorkerTypes, StateKept
<1>2. ASSUME NEW j \in Jobs PROVE JobInv(j)'
  <2>1. JobInv(j)
    BY DEF LaunchInv
  <2>2. /\ starter'[j] = "none" /\ cleaner'[j] = "none" /\ waiter'[j] = "none" /\ j \notin active'
        /\ answer'[j] \in {answer[j], "error"}
        /\ UNCHANGED <<rec, unit, output, spawned, escaped, os, worker, plan, pins, lease, receipt>>
    BY DEF Crash
  <2>3. LockInv(j)' /\ StartInv(j)' /\ EndInv(j)'
    BY <2>1, <2>2 DEF JobInv, LockInv, StartInv, EndInv, Starting, Cleaning
  <2>4. HoldInv(j)'
    BY <2>1, <2>2 DEF JobInv, HoldInv, Live
  <2>5. LeaseInv(j)' /\ ReceiptInv(j)'
    BY <2>1, <2>2 DEF JobInv, LeaseInv, ReceiptInv, Gone, Earned
  <2> QED
    BY <2>3, <2>4, <2>5 DEF JobInv
<1> QED
  BY <1>1, <1>2 DEF LaunchInv

(* A restart marks what was interrupted and prunes no state in use.            *)
LEMMA RestartKeeps ==
  ASSUME LaunchInv, Restart
  PROVE  LaunchInv'
<1>1. LauncherTypes /\ WorkerTypes /\ StateKept(os)
  BY DEF LaunchInv
<1>2. /\ ~up /\ up' = TRUE /\ rec' = [j \in Jobs |-> Reconciled(rec[j])]
      /\ UNCHANGED <<starter, cleaner, lock, waiter, active, unit, output, spawned, escaped,
                     worker, answer, plan, pins, lease, receipt>>
  BY DEF Restart, runtime, tasks, control
<1>3. os' \in StateRecord /\ StateKept(os') /\ os'.user = os.user
  <2>1. PICK s : s = FinishPendingDataRemoval(os)
    OBVIOUS
  <2>2. s \in StateRecord /\ StateKept(s) /\ s.user = os.user
    BY <1>1, <2>1, Removal DEF LauncherTypes
  <2>3. os' = s \/ (s.terminal # "none" /\ os' = NoState)
    BY <2>1 DEF Restart, PruneTerminalRecords
  <2>4. NoState \in StateRecord /\ NoState.user = NoJob
    BY DEF NoState, StateRecord
  <2> QED
    BY <2>2, <2>3, <2>4 DEF StateKept
<1>4. ASSUME NEW j \in Jobs PROVE rec'[j] \in LaunchRecord
  <2>1. rec[j] \in LaunchRecord /\ rec'[j] = Reconciled(rec[j])
    BY <1>1, <1>2 DEF LauncherTypes
  <2> QED
    BY <2>1 DEF LaunchRecord, RecordStates, Reconciled
<1>5. LauncherTypes' /\ WorkerTypes'
  BY <1>1, <1>2, <1>3, <1>4 DEF LauncherTypes, WorkerTypes
<1>6. ASSUME NEW j \in Jobs PROVE JobInv(j)'
  <2>1. JobInv(j) /\ rec[j] \in LaunchRecord
    BY <1>1 DEF LaunchInv, LauncherTypes
  <2>2. /\ starter[j] = "none" /\ cleaner[j] = "none" /\ waiter[j] = "none"
        /\ rec'[j] = Reconciled(rec[j])
    BY <1>2, <2>1 DEF JobInv, LockInv
  <2>3. /\ rec'[j].terminal = rec[j].terminal /\ rec'[j].usable = rec[j].usable
        /\ \/ rec'[j].state = rec[j].state
           \/ rec[j].state \in {"accepted", "running"} /\ rec'[j].state = "needs_reconcile"
    BY <2>1, <2>2 DEF Reconciled, LaunchRecord
  <2>4. LockInv(j)' /\ StartInv(j)' /\ EndInv(j)'
    BY <1>2, <2>1, <2>2, <2>3 DEF JobInv, LockInv, StartInv, EndInv, Starting, Cleaning
  <2>5. HoldInv(j)'
    BY <1>2, <1>3, <2>1, <2>2, <2>3 DEF JobInv, HoldInv, Live
  <2>6. LeaseInv(j)' /\ ReceiptInv(j)'
    BY <1>2, <2>1, <2>2, <2>3 DEF JobInv, LeaseInv, ReceiptInv, Gone, Earned
  <2> QED
    BY <2>4, <2>5, <2>6 DEF JobInv
<1> QED
  BY <1>3, <1>5, <1>6 DEF LaunchInv

(* A crash of the worker forgets its tasks and keeps its pins.                 *)
LEMMA WorkerCrashKeeps ==
  ASSUME LaunchInv, WorkerCrash
  PROVE  LaunchInv'
<1>1. /\ worker' = [j \in Jobs |-> "idle"] /\ answer' = [j \in Jobs |-> "none"]
      /\ UNCHANGED <<rec, starter, cleaner, lock, waiter, active, up, unit, output, spawned,
                     escaped, os, plan, pins, lease, receipt>>
  BY DEF WorkerCrash, journal, threads, runtime, control
<1>2. LauncherTypes' /\ WorkerTypes' /\ StateKept(os)'
  BY <1>1 DEF LaunchInv, LauncherTypes, WorkerTypes, WorkerPcs, Answers, StateKept
<1>3. ASSUME NEW j \in Jobs PROVE JobInv(j)'
  <2>1. JobInv(j)
    BY DEF LaunchInv
  <2>2. LockInv(j)' /\ StartInv(j)' /\ EndInv(j)'
    BY <1>1, <2>1 DEF JobInv, LockInv, StartInv, EndInv
  <2>3. HoldInv(j)'
    BY <1>1, <2>1 DEF JobInv, HoldInv, Live
  <2>4. LeaseInv(j)' /\ ReceiptInv(j)'
    BY <1>1, <2>1 DEF JobInv, LeaseInv, ReceiptInv, Gone, Earned
  <2> QED
    BY <2>2, <2>3, <2>4 DEF JobInv
<1> QED
  BY <1>2, <1>3 DEF LaunchInv

--------------------------------------------------------------------------------
(* The invariant holds at first,                                               *)
LEMMA LaunchInit ==
  ASSUME Init
  PROVE  LaunchInv
<1>1. LauncherTypes /\ WorkerTypes
  <2>1. NoRecord \in LaunchRecord /\ NoState \in StateRecord /\ NoReceipt \in Plans
    BY DEF NoRecord, LaunchRecord, RecordStates, NoState, StateRecord, NoReceipt, Plans
  <2> QED
    BY <2>1 DEF Init, LauncherTypes, WorkerTypes, StartPcs, CleanPcs, WaitPcs, UnitStates,
         Outputs, WorkerPcs, Answers, Leases
<1>2. StateKept(os) /\ os.user = NoJob
  BY DEF Init, NoState, StateKept
<1>3. ASSUME NEW j \in Jobs PROVE JobInv(j)
  <2>1. LockInv(j) /\ StartInv(j) /\ EndInv(j)
    BY DEF Init, NoRecord, LockInv, StartInv, EndInv, Starting, Cleaning
  <2>2. HoldInv(j)
    BY <1>2, JobsAssumption DEF Init, NoRecord, HoldInv, Live
  <2>3. LeaseInv(j) /\ ReceiptInv(j)
    BY DEF Init, NoRecord, NoReceipt, LeaseInv, ReceiptInv
  <2> QED
    BY <2>1, <2>2, <2>3 DEF JobInv
<1> QED
  BY <1>1, <1>2, <1>3 DEF LaunchInv

(* when nothing happens,                                                       *)
LEMMA LaunchStutter ==
  ASSUME LaunchInv, UNCHANGED vars
  PROVE  LaunchInv'
<1>1. UNCHANGED <<rec, starter, cleaner, lock, waiter, active, up, unit, output, spawned, escaped,
                  os, worker, answer, plan, pins, lease, receipt>>
  BY DEF vars, journal, threads, runtime, tasks, control
<1>2. LauncherTypes' /\ WorkerTypes' /\ StateKept(os)'
  BY <1>1 DEF LaunchInv, LauncherTypes, WorkerTypes, StateKept
<1>3. ASSUME NEW j \in Jobs PROVE JobInv(j)'
  BY <1>1, JobFrame DEF LaunchInv, JobSame
<1> QED
  BY <1>2, <1>3 DEF LaunchInv

(* and after every step.                                                       *)
LEMMA LaunchNext ==
  ASSUME LaunchInv, [Next]_vars
  PROVE  LaunchInv'
<1>1. ASSUME NEW j \in Jobs, StartThread(j) PROVE LaunchInv'
  BY <1>1, StartLaunchKeeps, BeginStartKeeps, PinRootKeeps, PinKeeps, SpawnKeeps, MarkRunningKeeps, SettleKeeps
     DEF StartThread
<1>2. ASSUME NEW j \in Jobs, WaitThread(j) PROVE LaunchInv'
  BY <1>2, ProcessWaitKeeps, ProcessExitKeeps DEF WaitThread
<1>3. ASSUME NEW j \in Jobs, CleanupThread(j) PROVE LaunchInv'
  BY <1>3, BeginCleanupKeeps, StopUnitKeeps, ReleaseKeeps, FinishKeeps, RemoveRootKeeps
     DEF CleanupThread
<1>4. ASSUME NEW j \in Jobs, WorkerTask(j) PROVE LaunchInv'
  BY <1>4, LaunchKeeps, StatusKeeps, CallCleanupKeeps, TerminalKeeps, FailureKeeps, SubmitKeeps,
     ObligationKeeps DEF WorkerTask
<1>5. ASSUME NEW j \in Jobs,
             \/ ExecuteAssignment(j) \/ UnitLoads(j) \/ UnitExits(j) \/ LoseAnswer(j)
             \/ LeaseExpires(j)
      PROVE  LaunchInv'
  BY <1>5, ExecuteAssignmentKeeps, UnitLoadsKeeps, UnitExitsKeeps, LoseAnswerKeeps,
     LeaseExpiresKeeps
<1> QED
  BY <1>1, <1>2, <1>3, <1>4, <1>5, CrashKeeps, RestartKeeps, WorkerCrashKeeps, LaunchStutter
     DEF Next

(* Launcher, worker and scheduler agree about every lease in every reachable   *)
(* state, whatever was lost, refused, killed or restarted.                     *)
THEOREM LaunchInvariant == Spec => []LaunchInv
<1>1. Init => LaunchInv
  BY LaunchInit
<1>2. LaunchInv /\ [Next]_vars => LaunchInv'
  BY LaunchNext
<1> QED
  BY <1>1, <1>2, PTL DEF Spec

--------------------------------------------------------------------------------
(* What it gives.                                                              *)
(* Renewals, repeated launches and restarts of launcher and worker never start *)
(* a second process for a lease.                                               *)
THEOREM LaunchesOnce == Spec => []SpawnedOnce
<1>1. LaunchInv => SpawnedOnce
  BY DEF LaunchInv, JobInv, StartInv, SpawnedOnce
<1> QED
  BY <1>1, LaunchInvariant, PTL

(* A record says cleaned only when nothing of the lease runs or is about to    *)
(* run, except a unit the launcher lost sight of.                              *)
THEOREM CleanedMeansStopped == Spec => []CleanedIsStopped
<1>1. LaunchInv => CleanedIsStopped
  BY DEF LaunchInv, JobInv, StartInv, HoldInv, CleanedIsStopped
<1> QED
  BY <1>1, LaunchInvariant, PTL

(* A running job is the active consumer of its compiled state, and the data    *)
(* directory is there.                                                         *)
THEOREM RunningOwnsState == Spec => []RunningJobOwnsState
<1>1. LaunchInv => RunningJobOwnsState
  BY JobsAssumption DEF LaunchInv, JobInv, HoldInv, StateKept, RunningJobOwnsState
<1> QED
  BY <1>1, LaunchInvariant, PTL

--------------------------------------------------------------------------------
(* A toolchain root belongs to a lease with a record, and whoever concludes    *)
(* from an answer that the cleanup is complete concludes it of no such lease.  *)
RootKept(i) ==
  i \in root =>
    /\ rec[i].state # "absent" /\ answer[i] # "cleaned" /\ lease[i] # "closed"
    /\ ~(worker[i] = "report" /\ plan[i].complete)

RootInv == \A i \in Jobs : RootKept(i)

(* A step that pins nothing for a lease and draws no conclusion about it.      *)
LEMMA RootFrame ==
  ASSUME NEW i \in Jobs, RootKept(i), i \in root' => i \in root,
         rec[i].state # "absent" => rec'[i].state # "absent",
         answer'[i] = "cleaned" => answer[i] = "cleaned",
         lease'[i] = "closed" => lease[i] = "closed",
         worker'[i] = "report" => worker[i] = "report" /\ plan'[i] = plan[i]
  PROVE  RootKept(i)'
  BY DEF RootKept

(* A start pins the toolchain of an accepted lease only.                       *)
LEMMA StartRoots ==
  ASSUME LaunchInv, RootInv, NEW j \in Jobs, StartThread(j)
  PROVE  RootInv'
<1> SUFFICES ASSUME NEW i \in Jobs PROVE RootKept(i)'
  BY DEF RootInv
<1>1. JobInv(i) /\ RootKept(i) /\ LauncherTypes
  BY DEF LaunchInv, RootInv
<1>2. UNCHANGED <<worker, answer, plan, lease>>
  BY DEF StartThread, StartLaunch, BeginStart, PinToolchainRoot, PinLaunchInputs, Spawn, MarkRunning,
     SettleFailedLaunchInputs, tasks, control
<1>3. rec[i].state # "absent" => rec'[i].state # "absent"
  <2>1. rec' \in {rec, MarkSpawnRejected(j), MarkNeedsReconcile(j), [rec EXCEPT ![j].state = "running"]}
    <3>1. CASE StartLaunch(j)
      BY <3>1 DEF StartLaunch, RecordStartFailure, journal
    <3>2. CASE BeginStart(j)
      BY <3>2 DEF BeginStart, journal
    <3>3. CASE PinLaunchInputs(j)
      BY <3>3 DEF PinLaunchInputs, RecordStartFailure
    <3>4. CASE Spawn(j) \/ PinToolchainRoot(j)
      BY <3>4 DEF Spawn, PinToolchainRoot
    <3>5. CASE MarkRunning(j)
      BY <3>5 DEF MarkRunning
    <3>6. CASE SettleFailedLaunchInputs(j)
      BY <3>6 DEF SettleFailedLaunchInputs, RecordStartFailure
    <3> QED
      BY <3>1, <3>2, <3>3, <3>4, <3>5, <3>6 DEF StartThread
  <2> QED
    BY <1>1, <2>1 DEF MarkSpawnRejected, MarkNeedsReconcile, LauncherTypes, LaunchRecord
<1>4. CASE i \in root' => i \in root
  BY <1>1, <1>2, <1>3, <1>4, RootFrame
<1>5. CASE i \in root' /\ i \notin root
  <2>1. i = j /\ starter[i] = "pin" /\ rec' = rec
    BY <1>5 DEF StartThread, StartLaunch, BeginStart, PinToolchainRoot, PinLaunchInputs, Spawn, MarkRunning,
       SettleFailedLaunchInputs, RecordStartFailure, journal
  <2>2. rec[i].state = "accepted"
    BY <1>1, <2>1 DEF JobInv, StartInv
  <2> QED
    BY <1>1, <1>2, <2>1, <2>2 DEF RootKept, JobInv, LeaseInv, Gone
<1> QED
  BY <1>4, <1>5

(* Nor do the other threads of the launcher pin; a cleanup that answers        *)
(* `cleaned` has removed the root.                                             *)
LEMMA ThreadRoots ==
  ASSUME LaunchInv, RootInv, NEW j \in Jobs, WaitThread(j) \/ CleanupThread(j)
  PROVE  RootInv'
<1> SUFFICES ASSUME NEW i \in Jobs PROVE RootKept(i)'
  BY DEF RootInv
<1>1. RootKept(i) /\ LauncherTypes /\ WorkerTypes
  BY DEF LaunchInv, RootInv
<1>2. UNCHANGED <<worker, plan, lease>>
  BY DEF WaitThread, ProcessWait, MarkProcessExit, CleanupThread, BeginCleanup, StopUnit,
     ReleaseState, FinishCleanup, RemoveToolchainRoot, tasks, control
<1>3. rec[i].state # "absent" => rec'[i].state # "absent"
  BY <1>1 DEF WaitThread, ProcessWait, MarkProcessExit, ProcessExit, MarkNeedsReconcile,
     CleanupThread, BeginCleanup, StopUnit, ReleaseState, FinishCleanup, RemoveToolchainRoot,
     journal, LauncherTypes, LaunchRecord
<1>4. CASE RemoveToolchainRoot(j)
  <2>1. i \in root' => i \in root
    BY <1>4 DEF RemoveToolchainRoot
  <2>2. i \in root' /\ answer'[i] = "cleaned" => answer[i] = "cleaned"
    BY <1>1, <1>4 DEF RemoveToolchainRoot, LeaveCleanup, Answer, WorkerTypes
  <2> QED
    BY <1>1, <1>2, <1>3, <2>1, <2>2 DEF RootKept
<1>5. CASE ~RemoveToolchainRoot(j)
  <2>1. root' = root
    BY <1>5 DEF WaitThread, ProcessWait, MarkProcessExit, CleanupThread, BeginCleanup, StopUnit,
       ReleaseState, FinishCleanup, journal
  <2>2. answer'[i] = "cleaned" => answer[i] = "cleaned"
    BY <1>1, <1>5 DEF WaitThread, ProcessWait, MarkProcessExit, CleanupThread, BeginCleanup,
       StopUnit, ReleaseState, FinishCleanup, LeaveCleanup, Answer, WorkerTypes, tasks
  <2> QED
    BY <1>1, <1>2, <1>3, <2>1, <2>2, RootFrame
<1> QED
  BY <1>4, <1>5

(* The worker reports complete cleanup from the answer `cleaned`, and closes   *)
(* a lease from such a report or such an answer.                               *)
LEMMA WorkerRoots ==
  ASSUME LaunchInv, RootInv, NEW j \in Jobs, WorkerTask(j)
  PROVE  RootInv'
<1> SUFFICES ASSUME NEW i \in Jobs PROVE RootKept(i)'
  BY DEF RootInv
<1> USE DEF journal, threads, runtime, tasks, control, Goto
<1>1. RootKept(i) /\ LauncherTypes /\ WorkerTypes
  BY DEF LaunchInv, RootInv
<1>2. root' = root
  BY DEF WorkerTask, Launch, NextLauncherStatus, CallCleanup, FinishLauncherTerminal,
     FinishLauncherFailure, SubmitNodeReceipt, ExecuteCleanup
<1>3. rec[i].state # "absent" => rec'[i].state # "absent"
  BY <1>1 DEF WorkerTask, Launch, NextLauncherStatus, RenewLease, Accept, CallCleanup,
     FinishLauncherTerminal, FinishLauncherFailure, SubmitNodeReceipt, ExecuteCleanup,
     LauncherTypes, LaunchRecord
<1>4. answer'[i] = "cleaned" => answer[i] = "cleaned"
  BY <1>1 DEF WorkerTask, Launch, NextLauncherStatus, CallCleanup, FinishLauncherTerminal,
     FinishLauncherFailure, SubmitNodeReceipt, ExecuteCleanup, WorkerTypes
<1>5. CASE Launch(j) \/ NextLauncherStatus(j) \/ CallCleanup(j)
  <2>1. lease' = lease
    BY <1>5 DEF Launch, NextLauncherStatus, CallCleanup
  <2>2. worker'[i] = "report" => worker[i] = "report" /\ plan'[i] = plan[i]
    BY <1>1, <1>5 DEF Launch, NextLauncherStatus, CallCleanup, WorkerTypes
  <2> QED
    BY <1>1, <1>2, <1>3, <1>4, <2>1, <2>2, RootFrame
<1>6. CASE FinishLauncherTerminal(j) \/ FinishLauncherFailure(j)
  <2>1. lease' = lease
    BY <1>6 DEF FinishLauncherTerminal, FinishLauncherFailure
  <2>2. CASE i = j
    <3>1. CASE i \in root
      <4>1. answer[i] # "cleaned"
        BY <1>1, <3>1 DEF RootKept
      <4>2. CASE FinishLauncherTerminal(j)
        <5>1. worker' = [worker EXCEPT ![j] = "failure"] /\ plan' = plan
          BY <2>2, <4>1, <4>2 DEF FinishLauncherTerminal
        <5>2. worker'[i] = "failure"
          BY <1>1, <2>2, <5>1 DEF WorkerTypes
        <5> QED
          BY <1>1, <1>2, <1>3, <1>4, <2>1, <5>1, <5>2, RootFrame
      <4>3. CASE FinishLauncherFailure(j)
        <5>1. plan' = [plan EXCEPT ![j] = [ok |-> FALSE, complete |-> answer[j] = "cleaned", given |-> TRUE]]
          BY <4>3 DEF FinishLauncherFailure
        <5>2. ~ plan'[i].complete
          BY <1>1, <2>2, <4>1, <5>1 DEF WorkerTypes
        <5> QED
          BY <1>1, <1>2, <1>3, <1>4, <2>1, <5>2 DEF RootKept
      <4> QED
        BY <1>6, <4>2, <4>3
    <3>2. CASE i \notin root
      BY <1>2, <3>2 DEF RootKept
    <3> QED
      BY <3>1, <3>2
  <2>3. CASE i # j
    <3>1. worker'[i] = worker[i] /\ plan'[i] = plan[i]
      BY <1>1, <1>6, <2>3 DEF FinishLauncherTerminal, FinishLauncherFailure, WorkerTypes
    <3> QED
      BY <1>1, <1>2, <1>3, <1>4, <2>1, <3>1, RootFrame
  <2> QED
    BY <2>2, <2>3
<1>7. CASE SubmitNodeReceipt(j) \/ ExecuteCleanup(j)
  <2>1. worker'[i] = "report" => worker[i] = "report" /\ plan'[i] = plan[i]
    BY <1>1, <1>7 DEF SubmitNodeReceipt, ExecuteCleanup, WorkerTypes
  <2>2. i \in root /\ lease'[i] = "closed" => lease[i] = "closed"
    BY <1>1, <1>7 DEF RootKept, SubmitNodeReceipt, ExecuteCleanup, WorkerTypes
  <2> QED
    BY <1>1, <1>2, <1>3, <1>4, <2>1, <2>2 DEF RootKept
<1> QED
  BY <1>5, <1>6, <1>7 DEF WorkerTask

(* A lease that fails without a runtime was never accepted.                    *)
LEMMA OtherRoots ==
  ASSUME LaunchInv, RootInv, NEW j \in Jobs,
         ExecuteAssignment(j) \/ UnitLoads(j) \/ UnitExits(j) \/ LoseAnswer(j) \/ LeaseExpires(j)
  PROVE  RootInv'
<1> SUFFICES ASSUME NEW i \in Jobs PROVE RootKept(i)'
  BY DEF RootInv
<1> USE DEF journal, threads, runtime, tasks, control
<1>1. RootKept(i) /\ JobInv(i) /\ WorkerTypes
  BY DEF LaunchInv, RootInv
<1>2. UNCHANGED <<root, rec>>
  BY DEF ExecuteAssignment, UnitLoads, UnitExits, LoseAnswer, LeaseExpires
<1>3. answer'[i] = "cleaned" => answer[i] = "cleaned"
  BY <1>1 DEF ExecuteAssignment, UnitLoads, UnitExits, LoseAnswer, LeaseExpires, WorkerTypes
<1>4. lease'[i] = "closed" => lease[i] = "closed"
  BY <1>1 DEF ExecuteAssignment, UnitLoads, UnitExits, LoseAnswer, LeaseExpires, WorkerTypes
<1>5. \/ worker'[i] = "report" => worker[i] = "report" /\ plan'[i] = plan[i]
      \/ lease[i] = "none"
  BY <1>1 DEF ExecuteAssignment, Goto, FailWithoutRuntime, PendingCleanup, UnitLoads, UnitExits,
     LoseAnswer, LeaseExpires, WorkerTypes
<1>6. CASE lease[i] = "none"
  BY <1>1, <1>2, <1>6 DEF JobInv, LeaseInv, RootKept
<1>7. CASE worker'[i] = "report" => worker[i] = "report" /\ plan'[i] = plan[i]
  BY <1>1, <1>2, <1>3, <1>4, <1>7, RootFrame
<1> QED
  BY <1>5, <1>6, <1>7

(* Neither crash nor restart pins a toolchain or concludes anything.           *)
LEMMA ProcessRoots ==
  ASSUME LaunchInv, RootInv, Crash \/ Restart \/ WorkerCrash
  PROVE  RootInv'
<1> SUFFICES ASSUME NEW i \in Jobs PROVE RootKept(i)'
  BY DEF RootInv
<1>1. RootKept(i) /\ LauncherTypes
  BY DEF LaunchInv, RootInv
<1>2. UNCHANGED <<root, plan, lease>>
  BY DEF Crash, Restart, WorkerCrash, journal, tasks, control
<1>3. rec[i].state # "absent" => rec'[i].state # "absent"
  BY <1>1 DEF Crash, Restart, WorkerCrash, Reconciled, journal, LauncherTypes, LaunchRecord
<1>4. /\ answer'[i] = "cleaned" => answer[i] = "cleaned"
      /\ worker'[i] = "report" => worker[i] = "report"
  BY DEF Crash, Restart, WorkerCrash, tasks
<1> QED
  BY <1>1, <1>2, <1>3, <1>4, RootFrame

(* What the scheduler takes for complete cleanup left no record in progress,   *)
(* no process, no pinned run, no toolchain root and no hold on the compiled    *)
(* state.                                                                      *)
THEOREM ClosedIsClean == Spec => []ClosedLeavesNothing
<1>1. Init => RootInv
  BY DEF Init, RootInv, RootKept
<1>2. LaunchInv /\ RootInv /\ [Next]_vars => RootInv'
  <2> SUFFICES ASSUME LaunchInv, RootInv, [Next]_vars PROVE RootInv'
    OBVIOUS
  <2>1. CASE UNCHANGED vars
    BY <2>1 DEF vars, journal, tasks, control, RootInv, RootKept
  <2>2. CASE Next
    BY <2>2, StartRoots, ThreadRoots, WorkerRoots, OtherRoots, ProcessRoots DEF Next
  <2> QED
    BY <2>1, <2>2
<1>3. LaunchInv /\ RootInv => ClosedLeavesNothing
  <2> SUFFICES ASSUME LaunchInv, RootInv, NEW j \in Jobs \ escaped, lease[j] = "closed"
               PROVE  /\ rec[j].state \in {"absent", "cleaned"} /\ ~Live(j)
                      /\ os.user # j /\ j \notin root
                      /\ worker[j] = "idle" => j \notin pins
    BY DEF ClosedLeavesNothing
  <2>1. StartInv(j) /\ HoldInv(j) /\ LeaseInv(j) /\ RootKept(j)
    BY DEF LaunchInv, JobInv, RootInv
  <2> QED
    BY <2>1 DEF StartInv, HoldInv, LeaseInv, Gone, Live, RootKept
<1> QED
  BY <1>1, <1>2, <1>3, LaunchInvariant, PTL DEF Spec

--------------------------------------------------------------------------------
(* What a usable state means.  The record's last release and its success       *)
(* speak of completed nodes, and so does the verdict a cleanup is about to     *)
(* write down for a job that ended well.                                       *)
DoneSound(s) ==
  /\ \A i \in Jobs : s.last = i /\ s.lastUsable => Node[i] \in s.done
  /\ s.terminal = "succeeded" => s.done = Consumers

VerdictSound(i) ==
  cleaner[i] = "finish_usable" /\ rec[i].terminal = "ok" => Node[i] \in os.done

UsableInv == DoneSound(os) /\ \A i \in Jobs : VerdictSound(i)

(* Removing the data and reconciling an idle record keep the record's account. *)
LEMMA RemovalDone ==
  ASSUME NEW s \in StateRecord, DoneSound(s)
  PROVE  /\ DoneSound(FinishPendingDataRemoval(s)) /\ DoneSound(DropData(s))
         /\ FinishPendingDataRemoval(s).done = s.done
<1>1. PICK d : d = [s EXCEPT !.data = FALSE, !.present = FALSE, !.pending = FALSE]
  OBVIOUS
<1>2. d.last = s.last /\ d.lastUsable = s.lastUsable /\ d.done = s.done /\ d.terminal = s.terminal
  BY <1>1 DEF StateRecord
<1>3. DoneSound(d) /\ d = DropData(s)
  BY <1>1, <1>2 DEF DoneSound, DropData
<1> QED
  BY <1>2, <1>3 DEF FinishPendingDataRemoval

LEMMA InactiveDone ==
  ASSUME NEW s \in StateRecord, StateKept(s), DoneSound(s), NEW idle \in BOOLEAN
  PROVE  DoneSound(ReconcileInactive(s, idle))
<1>1. PICK c : c = FinishPendingDataRemoval(s)
  OBVIOUS
<1>2. c \in StateRecord /\ DoneSound(c)
  BY <1>1, Removal, RemovalDone
<1>3. CASE c.exists /\ c.terminal = "none" /\ c.user = NoJob /\ idle
  <2>1. PICK d : d = [c EXCEPT !.data = FALSE, !.present = FALSE, !.pending = FALSE]
    OBVIOUS
  <2>2. PICK e : e = [d EXCEPT !.last = NoJob, !.terminal = "failed"]
    OBVIOUS
  <2>3. ReconcileInactive(s, idle) = e
    BY <1>1, <1>3, <2>1, <2>2 DEF ReconcileInactive, DropData
  <2>4. e.last = NoJob /\ e.terminal = "failed"
    BY <1>2, <2>1, <2>2 DEF StateRecord
  <2> QED
    BY <2>3, <2>4, JobsAssumption DEF DoneSound
<1>4. CASE ~(c.exists /\ c.terminal = "none" /\ c.user = NoJob /\ idle)
  BY <1>1, <1>2, <1>4 DEF ReconcileInactive
<1> QED
  BY <1>3, <1>4

(* A consumer that acquires the state has released nothing of it yet.          *)
LEMMA AcquiredDone ==
  ASSUME NEW j \in Jobs, NEW s \in StateRecord, Acquirable(j, s)
  PROVE  DoneSound(AcquireState(j, s))
<1>1. CASE ~s.exists
  <2>1. AcquireState(j, s) =
          [exists |-> TRUE, data |-> TRUE, present |-> TRUE, pending |-> FALSE, user |-> j,
           done |-> {}, last |-> NoJob, lastUsable |-> FALSE, terminal |-> "none"]
    BY <1>1 DEF AcquireState, NoState
  <2> QED
    BY <2>1 DEF DoneSound
<1>2. CASE s.exists
  <2>1. PICK e : e = [s EXCEPT !.data = TRUE, !.present = TRUE, !.user = j, !.last = NoJob]
    OBVIOUS
  <2>2. e.last = NoJob /\ e.terminal = "none" /\ e = AcquireState(j, s)
    BY <1>2, <2>1 DEF StateRecord, Acquirable, AcquireState
  <2> QED
    BY <2>2, JobsAssumption DEF DoneSound
<1> QED
  BY <1>1, <1>2

(* complete_active_release enters the node, closes the record with all of      *)
(* them, or finds the state unusable; a state that is usable after a success   *)
(* has the node.                                                               *)
LEMMA CompletedDone ==
  ASSUME NEW j \in Jobs, NEW s \in StateRecord, DoneSound(s), s.terminal = "none",
         NEW over \in BOOLEAN,
         NEW outcome \in {"retryable", "unknown", "failed", "succeeded"},
         NEW r, r = CompleteActiveRelease(j, s, outcome, over)
  PROVE  /\ DoneSound(r.state)
         /\ outcome = "succeeded" /\ r.usable => Node[j] \in r.state.done
<1>1. PICK gone : gone = [s EXCEPT !.user = NoJob]
  OBVIOUS
<1>2. PICK succeeded : succeeded = [gone EXCEPT !.done = @ \cup {Node[j]}, !.last = j,
                                                !.lastUsable = TRUE]
  OBVIOUS
<1>3. PICK failed : failed = [gone EXCEPT !.last = j, !.lastUsable = FALSE]
  OBVIOUS
<1>4. gone \in StateRecord /\ gone.terminal = "none"
  BY <1>1 DEF StateRecord
<1>5. /\ succeeded \in StateRecord /\ Node[j] \in succeeded.done /\ succeeded.last = j
      /\ succeeded.terminal = "none"
  BY ZenonT(60), <1>2, <1>4 DEF StateRecord
<1>6. /\ failed \in StateRecord /\ failed.last = j /\ ~failed.lastUsable
      /\ failed.terminal = "none"
  BY <1>3, <1>4 DEF StateRecord
<1>7. PICK lost : lost = [failed EXCEPT !.terminal = "failed"]
  OBVIOUS
<1>8. PICK again : again = [gone EXCEPT !.last = NoJob]
  OBVIOUS
<1>9. PICK all : all = [succeeded EXCEPT !.terminal = "succeeded"]
  OBVIOUS
<1>10. DoneSound(succeeded) /\ DoneSound(failed)
  BY <1>5, <1>6 DEF DoneSound
<1>11. DoneSound(lost)
  <2>1. lost.last = j /\ ~lost.lastUsable /\ lost.terminal = "failed"
    BY <1>6, <1>7 DEF StateRecord
  <2> QED
    BY <2>1 DEF DoneSound
<1>12. DoneSound(again)
  <2>1. again.last = NoJob /\ again.terminal = "none"
    BY <1>4, <1>8 DEF StateRecord
  <2> QED
    BY <2>1, JobsAssumption DEF DoneSound
<1>13. succeeded.done = Consumers => DoneSound(all) /\ Node[j] \in all.done
  <2>1. all.done = succeeded.done /\ all.last = j
    BY <1>5, <1>9 DEF StateRecord
  <2> QED
    BY <1>5, <2>1 DEF DoneSound
<1>14. CASE over
  BY <1>1, <1>3, <1>7, <1>11, <1>14 DEF CompleteActiveRelease
<1>15. CASE ~over /\ outcome = "retryable"
  BY <1>1, <1>8, <1>12, <1>15 DEF CompleteActiveRelease
<1>16. CASE ~over /\ outcome = "succeeded"
  <2>1. r.state = IF succeeded.done = Consumers THEN all ELSE succeeded
    BY <1>1, <1>2, <1>9, <1>16 DEF CompleteActiveRelease
  <2> QED
    BY <1>5, <1>10, <1>13, <2>1
<1>17. CASE ~over /\ outcome = "failed"
  BY <1>1, <1>3, <1>7, <1>11, <1>17 DEF CompleteActiveRelease
<1>18. CASE ~over /\ outcome = "unknown"
  BY <1>1, <1>3, <1>10, <1>18 DEF CompleteActiveRelease
<1> QED
  BY <1>14, <1>15, <1>16, <1>17, <1>18

(* The same of release, also when it is asked for a second time.               *)
LEMMA ReleasedDone ==
  ASSUME NEW j \in Jobs, os \in StateRecord, StateKept(os), DoneSound(os), UsesState(j),
         NEW over \in BOOLEAN, NEW outcome \in {"retryable", "unknown", "failed", "succeeded"},
         NEW r, r = Release(j, outcome, over)
  PROVE  /\ DoneSound(r.state)
         /\ outcome = "succeeded" /\ r.usable => Node[j] \in r.state.done
<1>1. PICK s : s = FinishPendingDataRemoval(os)
  OBVIOUS
<1>2. s \in StateRecord /\ StateKept(s) /\ DoneSound(s)
  BY <1>1, Removal, RemovalDone
<1>3. CASE s.exists /\ s.user = j
  <2>1. PICK c : c = CompleteActiveRelease(j, s, outcome, over)
    OBVIOUS
  <2>2. s.terminal = "none"
    BY <1>2, <1>3, JobsAssumption DEF StateKept
  <2>3. /\ c \in Outcomes /\ DoneSound(c.state)
        /\ outcome = "succeeded" /\ c.usable => Node[j] \in c.state.done
    BY <1>2, <2>1, <2>2, Completed, CompletedDone
  <2>4. r = [c EXCEPT !.state.pending = c.remove /\ s.present]
    BY <1>1, <1>3, <2>1 DEF Release
  <2>5. PICK e : e = [c.state EXCEPT !.pending = c.remove /\ s.present]
    OBVIOUS
  <2>6. r.state = e /\ r.usable = c.usable /\ c.state \in StateRecord
    BY <2>3, <2>4, <2>5 DEF Outcomes
  <2>7. PICK d : d = c.state
    OBVIOUS
  <2>8. /\ e.done = d.done /\ e.last = d.last /\ e.lastUsable = d.lastUsable
        /\ e.terminal = d.terminal
    BY <2>5, <2>6, <2>7 DEF StateRecord
  <2> QED
    BY <2>3, <2>6, <2>7, <2>8 DEF DoneSound
<1>4. CASE ~(s.exists /\ s.user = j)
  <2>1. /\ r.state = s
        /\ r.usable = (s.exists /\ (s.last = j \/ s.terminal # "none" \/ Node[j] \in s.done)
                         /\ ReplayedRelease(j, s))
    BY <1>1, <1>4 DEF Release
  <2>2. Node[j] \in Consumers
    BY DEF Consumers
  <2>3. ReplayedRelease(j, s) => Node[j] \in s.done
    <3>1. CASE s.last = j
      BY <1>2, <3>1 DEF ReplayedRelease, DoneSound
    <3>2. CASE s.last # j /\ s.terminal = "succeeded"
      BY <1>2, <2>2, <3>2 DEF DoneSound
    <3>3. CASE s.last # j /\ s.terminal = "failed"
      BY <3>3 DEF ReplayedRelease
    <3>4. CASE s.last # j /\ s.terminal \notin {"succeeded", "failed"}
      BY <3>4 DEF ReplayedRelease
    <3> QED
      BY <3>1, <3>2, <3>3, <3>4
  <2> QED
    BY <1>2, <2>1, <2>3
<1> QED
  BY <1>3, <1>4

(* A step that leaves the store and the verdicts alone.                        *)
LEMMA UsableFrame ==
  ASSUME UsableInv, os' = os,
         \A i \in Jobs : cleaner'[i] = "finish_usable" =>
           cleaner[i] = "finish_usable" /\ rec'[i].terminal = rec[i].terminal
  PROVE  UsableInv'
  BY DEF UsableInv, VerdictSound, DoneSound

(* A thread inside the lock is the only one with a verdict to write.           *)
LEMMA OneVerdict ==
  ASSUME LaunchInv, NEW j \in Jobs, starter[j] \in Starting \/ cleaner[j] \in Cleaning
  PROVE  \A i \in Jobs : cleaner[i] = "finish_usable" => i = j /\ starter[j] \notin Starting
<1> SUFFICES ASSUME NEW i \in Jobs, cleaner[i] = "finish_usable"
             PROVE  i = j /\ starter[j] \notin Starting
  OBVIOUS
<1>1. LockInv(i) /\ LockInv(j)
  BY DEF LaunchInv, JobInv
<1> QED
  BY <1>1 DEF LockInv, Cleaning

(* What is recorded of the end of a lease in cleanup does not change.          *)
LEMMA StartUsable ==
  ASSUME LaunchInv, UsableInv, NEW j \in Jobs, StartThread(j)
  PROVE  UsableInv'
<1>1. /\ LauncherTypes /\ StateKept(os) /\ DoneSound(os) /\ os \in StateRecord
      /\ \A i \in Jobs : JobInv(i)
  BY DEF LaunchInv, LauncherTypes, UsableInv
<1>2. \A i \in Jobs : cleaner[i] = "finish_usable" => rec[i].state = "cleanup_pending"
  BY <1>1 DEF JobInv, StartInv, Cleaning
<1>3. \A i \in Jobs : /\ MarkSpawnRejected(j)[i].terminal # rec[i].terminal => rec[i].state = "accepted"
                      /\ MarkNeedsReconcile(j)[i].terminal = rec[i].terminal
  BY <1>1 DEF LauncherTypes, LaunchRecord, MarkSpawnRejected, MarkNeedsReconcile
<1>4. CASE StartLaunch(j)
  BY <1>2, <1>3, <1>4, UsableFrame DEF StartLaunch, RecordStartFailure, journal
<1>5. CASE BeginStart(j)
  BY <1>5, UsableFrame DEF BeginStart, journal
<1>6. CASE PinLaunchInputs(j)
  <2>1. starter[j] \in Starting /\ cleaner' = cleaner
    BY <1>6 DEF PinLaunchInputs, Starting
  <2>2. \A i \in Jobs : VerdictSound(i)'
    BY <2>1, OneVerdict DEF VerdictSound
  <2>3. \/ os' = os
        \/ \E idle \in BOOLEAN :
             \/ os' = ReconcileInactive(os, idle)
             \/ /\ Acquirable(j, ReconcileInactive(os, idle))
                /\ os' = AcquireState(j, ReconcileInactive(os, idle))
    <3>1. CASE \E idle, over \in BOOLEAN :
                 LET s == ReconcileInactive(os, idle) IN
                 IF Acquirable(j, s) /\ ~over
                 THEN os' = AcquireState(j, s)
                 ELSE /\ over => Acquirable(j, s)
                      /\ os' = IF over THEN AcquireState(j, s) ELSE s
      BY <3>1
    <3>2. CASE UNCHANGED os
      BY <3>2
    <3> QED
      BY <1>6, <3>1, <3>2 DEF PinLaunchInputs
  <2>4. DoneSound(os')
    <3>1. CASE os' = os
      BY <1>1, <3>1
    <3>2. ASSUME NEW idle \in BOOLEAN,
                 \/ os' = ReconcileInactive(os, idle)
                 \/ /\ Acquirable(j, ReconcileInactive(os, idle))
                    /\ os' = AcquireState(j, ReconcileInactive(os, idle))
          PROVE  DoneSound(os')
      BY <1>1, <3>2, Inactive, InactiveDone, AcquiredDone
    <3> QED
      BY <2>3, <3>1, <3>2
  <2> QED
    BY <2>2, <2>4 DEF UsableInv, DoneSound
<1>7. CASE PinToolchainRoot(j) \/ Spawn(j)
  BY <1>2, <1>3, <1>7, UsableFrame DEF PinToolchainRoot, Spawn
<1>8. CASE MarkRunning(j)
  <2>1. \A i \in Jobs : rec'[i].terminal = rec[i].terminal
    BY <1>1, <1>3, <1>8 DEF MarkRunning, LauncherTypes, LaunchRecord
  <2> QED
    BY <1>8, <2>1, UsableFrame DEF MarkRunning
<1>9. CASE SettleFailedLaunchInputs(j)
  <2>1. starter[j] \in Starting /\ cleaner' = cleaner
    BY <1>9 DEF SettleFailedLaunchInputs, Starting
  <2>2. \A i \in Jobs : VerdictSound(i)'
    BY <2>1, OneVerdict DEF VerdictSound
  <2>3. DoneSound(os')
    <3>1. CASE UsesState(j) /\ ~ReleaseRefused(j)
      <4>1. PICK r : r = Release(j, FailureOutcome(j, unit[j] # "none"), FALSE)
        OBVIOUS
      <4>2. os' = IF r.remove THEN DropData(r.state) ELSE r.state
        BY <1>9, <3>1, <4>1 DEF SettleFailedLaunchInputs
      <4>3. PICK outcome \in {"retryable", "unknown", "failed", "succeeded"} :
              outcome = FailureOutcome(j, unit[j] # "none")
        BY DEF FailureOutcome
      <4>4. PICK over \in BOOLEAN : over = FALSE
        OBVIOUS
      <4>5. r = Release(j, outcome, over)
        BY <4>1, <4>3, <4>4
      <4>6. r.state \in StateRecord /\ DoneSound(r.state)
        BY <1>1, <3>1, <4>5, Released, ReleasedDone
      <4> QED
        BY <4>2, <4>6, RemovalDone
    <3>2. CASE ~(UsesState(j) /\ ~ReleaseRefused(j))
      BY <1>1, <1>9, <3>2 DEF SettleFailedLaunchInputs
    <3> QED
      BY <3>1, <3>2
  <2> QED
    BY <2>2, <2>3 DEF UsableInv, DoneSound
<1> QED
  BY <1>4, <1>5, <1>6, <1>7, <1>8, <1>9 DEF StartThread

(* An exit that comes in late is not entered into a record in cleanup.         *)
LEMMA WaitUsable ==
  ASSUME LaunchInv, UsableInv, NEW j \in Jobs, WaitThread(j)
  PROVE  UsableInv'
<1>1. LauncherTypes /\ \A i \in Jobs : JobInv(i)
  BY DEF LaunchInv
<1>2. \A i \in Jobs : cleaner[i] = "finish_usable" => rec[i].state = "cleanup_pending"
  BY <1>1 DEF JobInv, StartInv, Cleaning
<1>3. os' = os /\ cleaner' = cleaner
  BY DEF WaitThread, ProcessWait, MarkProcessExit
<1>4. ASSUME NEW i \in Jobs, rec[i].state = "cleanup_pending" PROVE rec'[i] = rec[i]
  <2>1. CASE ProcessWait(j)
    BY <1>1, <1>4, <2>1 DEF ProcessWait, MarkNeedsReconcile, LauncherTypes
  <2>2. CASE MarkProcessExit(j)
    BY <1>1, <1>4, <2>2 DEF MarkProcessExit, ProcessExit, MarkNeedsReconcile, LauncherTypes
  <2> QED
    BY <2>1, <2>2 DEF WaitThread
<1> QED
  BY <1>2, <1>3, <1>4, UsableFrame

(* The verdict is the store's answer to the release, and stands until it is    *)
(* written.                                                                    *)
LEMMA CleanupUsable ==
  ASSUME LaunchInv, UsableInv, NEW j \in Jobs, CleanupThread(j)
  PROVE  UsableInv'
<1>1. /\ LauncherTypes /\ StateKept(os) /\ DoneSound(os) /\ os \in StateRecord
      /\ \A i \in Jobs : JobInv(i) /\ VerdictSound(i)
  BY DEF LaunchInv, LauncherTypes, UsableInv
<1>2. CASE BeginCleanup(j)
  <2>1. os' = os
    BY <1>2 DEF BeginCleanup
  <2>2. \A i \in Jobs : cleaner'[i] = "finish_usable" => cleaner[i] = "finish_usable"
    BY <1>1, <1>2 DEF BeginCleanup, LeaveCleanup, LauncherTypes
  <2>3. \A i \in Jobs : rec'[i].terminal = rec[i].terminal
    BY <1>1, <1>2 DEF BeginCleanup, journal, LauncherTypes, LaunchRecord
  <2> QED
    BY <2>1, <2>2, <2>3, UsableFrame
<1>3. CASE StopUnit(j)
  <2>1. os' = os /\ rec' = rec
    BY <1>3 DEF StopUnit, journal
  <2>2. \A i \in Jobs : cleaner'[i] = "finish_usable" => cleaner[i] = "finish_usable"
    BY <1>1, <1>3 DEF StopUnit, LeaveCleanup, LauncherTypes
  <2> QED
    BY <2>1, <2>2, UsableFrame
<1>4. CASE ReleaseState(j)
  <2>1. cleaner[j] = "release" /\ rec' = rec /\ UsesState(j)
    BY <1>1, <1>4 DEF ReleaseState, journal, JobInv, HoldInv
  <2>2. CASE LeaveCleanup(j, "error") /\ UNCHANGED os
    <3>1. \A i \in Jobs : cleaner'[i] = "finish_usable" => cleaner[i] = "finish_usable"
      BY <1>1, <2>2 DEF LeaveCleanup, LauncherTypes
    <3> QED
      BY <2>1, <2>2, <3>1, UsableFrame
  <2>3. CASE \E over \in BOOLEAN :
               LET r == Release(j, CleanupOutcome(j), over) IN
               /\ os' = r.state
               /\ cleaner' =
                    [cleaner EXCEPT ![j] = IF r.usable THEN "finish_usable" ELSE "finish"]
    <3>0. PICK over \in BOOLEAN :
            LET r == Release(j, CleanupOutcome(j), over) IN
            /\ os' = r.state
            /\ cleaner' = [cleaner EXCEPT ![j] = IF r.usable THEN "finish_usable" ELSE "finish"]
      BY <2>3
    <3>1. PICK r :
            /\ r = Release(j, CleanupOutcome(j), over) /\ os' = r.state
            /\ cleaner' = [cleaner EXCEPT ![j] = IF r.usable THEN "finish_usable" ELSE "finish"]
      BY <3>0
    <3>2. PICK outcome \in {"retryable", "unknown", "failed", "succeeded"} :
            outcome = CleanupOutcome(j)
      BY CleanupOutcomes
    <3>3. r = Release(j, outcome, over)
      BY <3>1, <3>2
    <3>4. DoneSound(r.state) /\ (outcome = "succeeded" /\ r.usable => Node[j] \in r.state.done)
      BY <1>1, <2>1, <3>3, ReleasedDone
    <3>5. rec[j].terminal = "ok" => outcome = "succeeded"
      BY <3>2 DEF CleanupOutcome
    <3>6. cleaner[j] \in Cleaning
      BY <2>1 DEF Cleaning
    <3>7. ASSUME NEW i \in Jobs, cleaner'[i] = "finish_usable", rec'[i].terminal = "ok"
          PROVE  Node[i] \in os'.done
      <4>1. i = j
        BY <1>1, <2>1, <3>1, <3>6, <3>7, OneVerdict DEF LauncherTypes
      <4>2. r.usable
        BY <1>1, <3>1, <3>7, <4>1 DEF LauncherTypes
      <4> QED
        BY <2>1, <3>1, <3>4, <3>5, <3>7, <4>1, <4>2
    <3> QED
      BY <3>1, <3>4, <3>7 DEF UsableInv, VerdictSound, DoneSound
  <2> QED
    BY <1>4, <2>2, <2>3 DEF ReleaseState
<1>5. CASE FinishCleanup(j)
  <2>1. /\ cleaner[j] \in Cleaning /\ cleaner' = [cleaner EXCEPT ![j] = "unroot"]
        /\ os' = os \/ os' = FinishPendingDataRemoval(os)
    BY <1>5 DEF FinishCleanup, Cleaning
  <2>2. DoneSound(os')
    BY <1>1, <2>1, RemovalDone
  <2>3. \A i \in Jobs : cleaner'[i] # "finish_usable"
    BY <1>1, <2>1, OneVerdict DEF LauncherTypes
  <2> QED
    BY <2>2, <2>3 DEF UsableInv, VerdictSound, DoneSound
<1>6. CASE RemoveToolchainRoot(j)
  <2>1. os' = os /\ rec' = rec
    BY <1>6 DEF RemoveToolchainRoot
  <2>2. \A i \in Jobs : cleaner'[i] = "finish_usable" => cleaner[i] = "finish_usable"
    BY <1>1, <1>6 DEF RemoveToolchainRoot, LeaveCleanup, LauncherTypes
  <2> QED
    BY <2>1, <2>2, UsableFrame
<1> QED
  BY <1>2, <1>3, <1>4, <1>5, <1>6 DEF CleanupThread

(* Worker, scheduler and units give no verdict.                                *)
LEMMA OtherUsable ==
  ASSUME LaunchInv, UsableInv, NEW j \in Jobs,
         \/ WorkerTask(j) \/ ExecuteAssignment(j) \/ UnitLoads(j) \/ UnitExits(j)
         \/ LoseAnswer(j) \/ LeaseExpires(j)
  PROVE  UsableInv'
<1>1. LauncherTypes
  BY DEF LaunchInv
<1>2. os' = os
  BY DEF WorkerTask, Launch, NextLauncherStatus, CallCleanup, FinishLauncherTerminal,
     FinishLauncherFailure, SubmitNodeReceipt, ExecuteCleanup, ExecuteAssignment, UnitLoads,
     UnitExits, LoseAnswer, LeaseExpires
<1>3. \A i \in Jobs : rec'[i].terminal = rec[i].terminal
  <2>1. CASE rec' = rec
    BY <2>1
  <2>2. CASE Accept(j)
    BY <1>1, <2>2 DEF Accept, LauncherTypes, LaunchRecord
  <2> QED
    BY <2>1, <2>2 DEF WorkerTask, Launch, NextLauncherStatus, RenewLease, CallCleanup,
       FinishLauncherTerminal, FinishLauncherFailure, SubmitNodeReceipt, ExecuteCleanup,
       ExecuteAssignment, UnitLoads, UnitExits, LoseAnswer, LeaseExpires, journal
<1>4. \A i \in Jobs : cleaner'[i] = "finish_usable" => cleaner[i] = "finish_usable"
  <2>1. CASE cleaner' = cleaner
    BY <2>1
  <2>2. CASE cleaner' = [cleaner EXCEPT ![j] = "called"]
    BY <1>1, <2>2 DEF LauncherTypes
  <2> QED
    BY <2>1, <2>2 DEF WorkerTask, Launch, NextLauncherStatus, CallCleanup,
       FinishLauncherTerminal, FinishLauncherFailure, SubmitNodeReceipt, ExecuteCleanup,
       ExecuteAssignment, UnitLoads, UnitExits, LoseAnswer, LeaseExpires, threads
<1> QED
  BY <1>2, <1>3, <1>4, UsableFrame

(* A launcher that dies forgets its verdicts, and one that starts has none.    *)
LEMMA ProcessUsable ==
  ASSUME LaunchInv, UsableInv, Crash \/ Restart \/ WorkerCrash
  PROVE  UsableInv'
<1>1. /\ StateKept(os) /\ DoneSound(os) /\ os \in StateRecord /\ \A i \in Jobs : JobInv(i)
  BY DEF LaunchInv, LauncherTypes, UsableInv
<1>2. CASE Crash
  <2>1. os' = os /\ \A i \in Jobs : cleaner'[i] = "none"
    BY <1>2 DEF Crash
  <2> QED
    BY <2>1, UsableFrame
<1>3. CASE Restart
  <2>1. PICK s : s = FinishPendingDataRemoval(os)
    OBVIOUS
  <2>2. DoneSound(s)
    BY <1>1, <2>1, RemovalDone
  <2>3. os' = s \/ os' = NoState
    BY <1>3, <2>1 DEF Restart, PruneTerminalRecords
  <2>4. DoneSound(NoState)
    BY DEF NoState, DoneSound
  <2>5. \A i \in Jobs : cleaner'[i] = "none"
    BY <1>1, <1>3 DEF Restart, JobInv, LockInv
  <2> QED
    BY <2>2, <2>3, <2>4, <2>5 DEF UsableInv, VerdictSound, DoneSound
<1>4. CASE WorkerCrash
  BY <1>4, UsableFrame DEF WorkerCrash, journal, threads
<1> QED
  BY <1>2, <1>3, <1>4

(* No success is reported that is not real, in any order of exit, cleanup,     *)
(* lost answer and restart.                                                    *)
THEOREM SuccessIsEarned == Spec => []SuccessIsReal
<1>1. Init => UsableInv
  <2> SUFFICES ASSUME Init PROVE UsableInv
    OBVIOUS
  <2>1. os = NoState /\ \A i \in Jobs : cleaner[i] = "none"
    BY DEF Init
  <2> QED
    BY <2>1 DEF NoState, UsableInv, DoneSound, VerdictSound
<1>2. LaunchInv /\ UsableInv /\ [Next]_vars => UsableInv'
  <2> SUFFICES ASSUME LaunchInv, UsableInv, [Next]_vars PROVE UsableInv'
    OBVIOUS
  <2>1. CASE UNCHANGED vars
    BY <2>1, UsableFrame DEF vars, journal, threads
  <2>2. CASE Next
    BY <2>2, StartUsable, WaitUsable, CleanupUsable, OtherUsable, ProcessUsable DEF Next
  <2> QED
    BY <2>1, <2>2
<1>3. LaunchInv /\ UsableInv => SuccessIsReal
  BY DEF LaunchInv, JobInv, EndInv, ReceiptInv, Earned, UsableInv, VerdictSound, SuccessIsReal
<1> QED
  BY <1>1, <1>2, <1>3, LaunchInvariant, PTL DEF Spec

--------------------------------------------------------------------------------
(* A closed lease is final.  No late start thread, exit, cleanup call, renewed *)
(* grant or restart reopens it, starts a process for it, touches its record,   *)
(* pins its run again or replaces its receipt.                                 *)
Settled(i) ==
  lease[i] = "closed" =>
    /\ lease'[i] = "closed" /\ receipt'[i] = receipt[i] /\ spawned'[i] = spawned[i]
    /\ rec'[i] = rec[i]
    /\ i \in pins' => i \in pins

ClosedIsFinal == [][\A i \in Jobs : Settled(i)]_vars

(* What is known of a closed lease, and of the types.                          *)
Quiet(i) ==
  /\ rec \in [Jobs -> LaunchRecord] /\ spawned \in [Jobs -> Nat] /\ lease \in [Jobs -> Leases]
  /\ receipt \in [Jobs -> Plans]
  /\ worker[i] = "idle" /\ lease[i] = "closed" /\ rec[i].state \in {"absent", "cleaned"}
  /\ starter[i] \notin Starting /\ cleaner[i] \notin Cleaning
  /\ rec[i].state = "absent" => cleaner[i] = "none" /\ waiter[i] = "none" /\ starter[i] = "none"

(* No step of a start thread disturbs a closed lease.                          *)
LEMMA StartSettled ==
  ASSUME NEW i \in Jobs, Quiet(i), NEW j \in Jobs,
         StartThread(j)
  PROVE  Settled(i)
<1> USE DEF journal, runtime, tasks, control, Quiet, Settled
<1>1. CASE StartLaunch(j)
  BY <1>1 DEF StartLaunch, Resolve, RecordStartFailure, MarkSpawnRejected
<1>2. CASE BeginStart(j)
  BY <1>2 DEF BeginStart, Starting
<1>3. CASE PinToolchainRoot(j) \/ PinLaunchInputs(j)
  BY <1>3 DEF PinToolchainRoot, PinLaunchInputs, RecordStartFailure, MarkSpawnRejected, Starting
<1>4. CASE Spawn(j)
  BY <1>4 DEF Spawn, MarkSpawnRejected, Starting
<1>5. CASE MarkRunning(j)
  BY <1>5 DEF MarkRunning, MarkNeedsReconcile, Starting
<1>6. CASE SettleFailedLaunchInputs(j)
  BY <1>6 DEF SettleFailedLaunchInputs, RecordStartFailure, MarkSpawnRejected, Starting
<1> QED
  BY <1>1, <1>2, <1>3, <1>4, <1>5, <1>6 DEF StartThread

(* Nor does a late exit.                                                       *)
LEMMA WaitSettled ==
  ASSUME NEW i \in Jobs, Quiet(i), NEW j \in Jobs,
         WaitThread(j)
  PROVE  Settled(i)
<1> USE DEF journal, runtime, tasks, control, Quiet, Settled
<1>1. CASE ProcessWait(j)
  BY <1>1 DEF ProcessWait, MarkNeedsReconcile
<1>2. CASE MarkProcessExit(j)
  BY <1>2 DEF MarkProcessExit, ProcessExit, MarkNeedsReconcile
<1> QED
  BY <1>1, <1>2 DEF WaitThread

(* Nor does a repeated cleanup call.                                           *)
LEMMA CleanupSettled ==
  ASSUME NEW i \in Jobs, Quiet(i), NEW j \in Jobs,
         CleanupThread(j)
  PROVE  Settled(i)
<1> USE DEF journal, runtime, tasks, control, Quiet, Settled
<1>1. CASE BeginCleanup(j)
  BY <1>1 DEF BeginCleanup
<1>2. CASE StopUnit(j)
  BY <1>2 DEF StopUnit, Cleaning
<1>3. CASE ReleaseState(j)
  BY <1>3 DEF ReleaseState, Cleaning
<1>4. CASE FinishCleanup(j)
  BY <1>4 DEF FinishCleanup, Cleaning
<1>5. CASE RemoveToolchainRoot(j)
  BY <1>5 DEF RemoveToolchainRoot
<1> QED
  BY <1>1, <1>2, <1>3, <1>4, <1>5 DEF CleanupThread

(* Nor does a task of the worker.                                              *)
LEMMA WorkerSettled ==
  ASSUME NEW i \in Jobs, Quiet(i), NEW j \in Jobs,
         WorkerTask(j)
  PROVE  Settled(i)
<1> USE DEF journal, runtime, tasks, control, Quiet, Settled
<1>1. CASE Launch(j)
  BY <1>1 DEF Launch, Accept
<1>2. CASE NextLauncherStatus(j)
  BY <1>2 DEF NextLauncherStatus, RenewLease, Accept
<1>3. CASE CallCleanup(j)
  BY <1>3 DEF CallCleanup
<1>4. CASE FinishLauncherTerminal(j)
  BY <1>4 DEF FinishLauncherTerminal, UnpinPreparedRun
<1>5. CASE FinishLauncherFailure(j)
  BY <1>5 DEF FinishLauncherFailure
<1>6. CASE SubmitNodeReceipt(j)
  BY <1>6 DEF SubmitNodeReceipt
<1>7. CASE ExecuteCleanup(j)
  BY <1>7 DEF ExecuteCleanup, UnpinPreparedRun
<1> QED
  BY <1>1, <1>2, <1>3, <1>4, <1>5, <1>6, <1>7 DEF WorkerTask

(* Nor a poll, the unit, a lost answer or an expiry.                           *)
LEMMA OtherSettled ==
  ASSUME NEW i \in Jobs, Quiet(i), NEW j \in Jobs,
         ExecuteAssignment(j) \/ UnitLoads(j) \/ UnitExits(j) \/ LoseAnswer(j) \/ LeaseExpires(j)
  PROVE  Settled(i)
<1> USE DEF journal, runtime, tasks, control, Quiet, Settled
<1>1. CASE ExecuteAssignment(j)
  BY <1>1 DEF ExecuteAssignment, PinPreparedRun, UnpinPreparedRun, PendingCleanup
<1>2. CASE UnitLoads(j)
  BY <1>2 DEF UnitLoads
<1>3. CASE UnitExits(j)
  BY <1>3 DEF UnitExits
<1>4. CASE LoseAnswer(j)
  BY <1>4 DEF LoseAnswer
<1>5. CASE LeaseExpires(j)
  BY <1>5 DEF LeaseExpires
<1> QED
  BY <1>1, <1>2, <1>3, <1>4, <1>5

(* A lease the scheduler closed stays closed and is left alone for good.       *)
THEOREM ClosedLeaseIsFinal == Spec => ClosedIsFinal
<1>1. ASSUME LaunchInv, NEW i \in Jobs, lease[i] = "closed" PROVE Quiet(i)
  <2>1. JobInv(i) /\ LauncherTypes /\ WorkerTypes
    BY <1>1 DEF LaunchInv
  <2>2. worker[i] = "idle" /\ Gone(i)
    BY <1>1, <2>1 DEF JobInv, LeaseInv
  <2> QED
    BY <1>1, <2>1, <2>2 DEF JobInv, StartInv, Gone, Quiet, Starting, Cleaning, LauncherTypes,
         WorkerTypes
<1>2. LaunchInv /\ [Next]_vars => [\A i \in Jobs : Settled(i)]_vars
  <2> SUFFICES ASSUME LaunchInv, Next, NEW i \in Jobs, lease[i] = "closed" PROVE Settled(i)
    BY DEF Settled
  <2>1. Quiet(i)
    BY <1>1
  <2>2. ASSUME NEW j \in Jobs,
               \/ StartThread(j) \/ WaitThread(j) \/ CleanupThread(j) \/ WorkerTask(j)
               \/ ExecuteAssignment(j) \/ UnitLoads(j) \/ UnitExits(j) \/ LoseAnswer(j)
               \/ LeaseExpires(j)
        PROVE  Settled(i)
    BY <2>1, <2>2, StartSettled, WaitSettled, CleanupSettled, WorkerSettled, OtherSettled
  <2>3. CASE Crash \/ WorkerCrash
    BY <2>3 DEF Crash, WorkerCrash, journal, runtime, control, Settled
  <2>4. CASE Restart
    BY <2>1, <2>4 DEF Restart, Reconciled, runtime, tasks, control, Settled, Quiet
  <2> QED
    BY <2>2, <2>3, <2>4 DEF Next
<1> QED
  BY <1>2, LaunchInvariant, PTL DEF Spec, ClosedIsFinal
================================================================================
