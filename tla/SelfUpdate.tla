------------------------------ MODULE SelfUpdate ------------------------------
(***************************************************************************)
(* rdashboard replacing itself. The root launcher publishes signed releases  *)
(* in a handoff directory; the bootstrap supervisor, which is not part of    *)
(* any release, stages the newest one, backs up the databases while the      *)
(* services still run, stops them, switches the `current` link, starts the   *)
(* candidate and either commits or puts the databases and the link back. An  *)
(* operator may stop the supervisor and use the recovery tool instead. Every *)
(* command acts on its own: the process may die, and the host may reboot     *)
(* (which starts the services from whatever `current` names), between any    *)
(* two of them; the next cycle goes on from the journal.                     *)
(***************************************************************************)
EXTENDS Naturals, Sequences, FiniteSets, SequencesExt

CONSTANTS
  Releases,      \* signed release manifests, the initial one is 0
  SourceSeq,     \* SourceSeq[r]: the source sequence release r was built from
  Services,      \* the versioned services, in start order
  Databases,     \* the state databases, in backup order
  NoRelease,     \* no release: a link that does not exist, a stopped service
  MaxRecords,    \* the journal keeps that many records
  SuMaxFaults    \* bound: crashes, failed commands, reboots

ASSUME SelfUpdateAssumption ==
  /\ 0 \in Releases /\ NoRelease \notin Releases
  /\ SourceSeq \in [Releases -> Nat] /\ \A r \in Releases \ {0} : SourceSeq[r] > SourceSeq[0]
  /\ Services \in Seq(STRING) /\ Databases \in Seq(STRING)
  /\ MaxRecords \in Nat \ {0} /\ SuMaxFaults \in Nat

VARIABLES
  handoff,     \* handoff[r]: the build output on its way into the handoff directory
  lapsed,      \* releases whose signature has expired
  slots,       \* releases in the root's release store
  records,     \* the update journal, oldest first
  backups,     \* backups[r]: the backup directory of the newest operation for candidate r
  current, lkg,  \* the two links
  running,     \* running[s]: the release service s runs, NoRelease: it is stopped
  wrote,       \* wrote[d]: the releases whose writes database d holds
  su,          \* the process at work: supervisor or recovery tool
  supervisor,  \* the bootstrap service is active
  suFaults

build  == <<handoff, lapsed>>
links  == <<current, lkg>>
host   == <<running, wrote>>
suVars == <<build, slots, records, backups, links, host, su, supervisor, suFaults>>

Svcs == {Services[i] : i \in 1..Len(Services)}
Dbs  == {Databases[i] : i \in 1..Len(Databases)}

NoBackup == [state |-> "none", copy |-> [d \in Dbs |-> {}]]
SuIdle   == [job |-> "idle", op |-> 0, todo |-> <<>>, goal |-> "none"]

SelfInit ==
  /\ handoff = [r \in Releases |-> "none"]
  /\ lapsed = {}
  /\ slots = {}
  /\ records = <<>>
  /\ backups = [r \in Releases |-> NoBackup]
  /\ current = NoRelease /\ lkg = NoRelease
  /\ running = [s \in Svcs |-> NoRelease]
  /\ wrote = [d \in Dbs |-> {}]
  /\ su = SuIdle
  /\ supervisor = FALSE
  /\ suFaults = 0

\* the signature is valid and has not expired
SignedFor(r) == r \notin lapsed

\* verified and extracted into a directory that a rename makes final
StageRelease(r) == slots' = slots \cup {r}

\* descriptor, digests and tree shape are checked again at every use
VerifyStaged(r) == r \in slots

SuFault == suFaults < SuMaxFaults /\ suFaults' = suFaults + 1

-----------------------------------------------------------------------------
(* Publishing a release: the launcher's handoff store                        *)

\* a lease of the release-build node asks for exactly one release
BuildRequest(r) == r # 0 /\ handoff[r] \in {"none", "output", "sealed"}

\* a staging directory of its own for the lease, an older one removed
PrepareOutput(r) ==
  /\ BuildRequest(r)
  /\ handoff' = [handoff EXCEPT ![r] = "staging"]
  /\ UNCHANGED <<lapsed, slots, records, backups, links, host, su, supervisor, suFaults>>

\* the sandboxed build leaves archive, request and result
BuildOutput(r) ==
  /\ handoff[r] = "staging"
  /\ handoff' = [handoff EXCEPT ![r] = "output"]
  /\ UNCHANGED <<lapsed, slots, records, backups, links, host, su, supervisor, suFaults>>

\* exactly archive, request and result, and the request is the one asked for
OutputMatches(r) == handoff[r] = "output"

\* the output is checked against the request, signed, made read-only ...
SealOutput(r) ==
  /\ OutputMatches(r) /\ SignedFor(r)
  /\ handoff' = [handoff EXCEPT ![r] = "sealed"]
  /\ UNCHANGED <<lapsed, slots, records, backups, links, host, su, supervisor, suFaults>>

\* ... and becomes visible with one rename
PublishOutput(r) ==
  /\ handoff[r] = "sealed"
  /\ handoff' = [handoff EXCEPT ![r] = "published"]
  /\ UNCHANGED <<lapsed, slots, records, backups, links, host, su, supervisor, suFaults>>

\* a failed lease discards its staging; reopening the store discards all of them
DiscardOutput(r) ==
  /\ handoff[r] \in {"staging", "output", "sealed"}
  /\ \/ handoff' = [handoff EXCEPT ![r] = "none"]
     \/ handoff' = [q \in Releases |-> IF handoff[q] = "published" THEN "published" ELSE "none"]
  /\ UNCHANGED <<lapsed, slots, records, backups, links, host, su, supervisor, suFaults>>

SignatureExpires(r) ==
  /\ handoff[r] # "none" /\ r \notin lapsed
  /\ lapsed' = lapsed \cup {r}
  /\ UNCHANGED <<handoff, slots, records, backups, links, host, su, supervisor, suFaults>>

-----------------------------------------------------------------------------
(* The initial slot                                                          *)

\* the plan names release 0; a journal with history refuses it
InitialPlan == records = <<>> /\ ~supervisor /\ su = SuIdle

StageInitial == 0 \notin slots /\ StageRelease(0) /\ UNCHANGED links

\* last-known-good first, then current: a repeat goes on where it stopped
InitializePointers ==
  /\ VerifyStaged(0)
  /\ \/ lkg = NoRelease /\ lkg' = 0 /\ UNCHANGED <<slots, current>>
     \/ lkg = 0 /\ current = NoRelease /\ current' = 0 /\ UNCHANGED <<slots, lkg>>

Initialize ==
  /\ InitialPlan
  /\ StageInitial \/ InitializePointers
  /\ UNCHANGED <<build, records, backups, host, su, supervisor, suFaults>>

\* units are installed once both links exist; the supervisor is started, or
\* stopped by an operator who wants the recovery tool
InstallUnits ==
  /\ current # NoRelease /\ lkg # NoRelease /\ records = <<>> /\ wrote = [d \in Dbs |-> {}]
  /\ \A s \in Svcs : running[s] = NoRelease
  /\ running' = [s \in Svcs |-> current]
  /\ UNCHANGED <<build, slots, records, backups, links, wrote, su, supervisor, suFaults>>

ToggleSupervisor ==
  /\ current # NoRelease /\ su = SuIdle
  /\ supervisor' = ~supervisor
  /\ UNCHANGED <<build, slots, records, backups, links, host, su, suFaults>>

-----------------------------------------------------------------------------
(* The services                                                              *)

\* a service writes to its database; one that dies is started again from the link
ServiceWrites(s, d) ==
  /\ running[s] # NoRelease /\ running[s] \notin wrote[d]
  /\ wrote' = [wrote EXCEPT ![d] = @ \cup {running[s]}]
  /\ UNCHANGED <<build, slots, records, backups, links, running, su, supervisor, suFaults>>

ServiceRestarts(s) ==
  /\ running[s] \notin {NoRelease, current}
  /\ running' = [running EXCEPT ![s] = current]
  /\ UNCHANGED <<build, slots, records, backups, links, wrote, su, supervisor, suFaults>>

-----------------------------------------------------------------------------
(* The journal                                                               *)

Terminal   == {"succeeded", "rolled_back", "needs_reconcile"}
OpenOps    == {i \in 1..Len(records) : records[i].phase \notin Terminal}
Unresolved == {i \in 1..Len(records) : records[i].phase = "needs_reconcile"}
Tried      == {records[i].cand : i \in 1..Len(records)}

\* at the limit the oldest closed record goes, an unresolved one never
Prune(log) ==
  LET closed == {i \in 1..Len(log) : log[i].phase \in {"succeeded", "rolled_back"}}
  IN IF Len(log) < MaxRecords \/ closed = {} THEN log
     ELSE RemoveAt(log, CHOOSE i \in closed : \A j \in closed : i <= j)

NewRecord(r) == [cand |-> r, prev |-> current, phase |-> "backup", backup |-> FALSE]

\* a pruned journal forgets what it pruned
MayBegin == OpenOps = {} /\ Unresolved = {}

\* the identifier of an operation is new, and so is its backup directory
BeginRecord(r) ==
  /\ records' = Append(Prune(records), NewRecord(r))
  /\ backups' = [backups EXCEPT ![r] = NoBackup]

-----------------------------------------------------------------------------
(* Choosing a candidate                                                      *)

Visible(r) == handoff[r] = "published" /\ SignedFor(r)

\* newer than what runs, and never tried before
Eligible == {r \in Releases : /\ Visible(r)
                              /\ SourceSeq[r] > SourceSeq[current]
                              /\ r \notin Tried}

\* the newest one, unless two releases claim the same source sequence
Conflicting == \E q, r \in Eligible : q # r /\ SourceSeq[q] = SourceSeq[r]

Newest(r) == r \in Eligible /\ ~Conflicting /\ \A q \in Eligible : SourceSeq[q] <= SourceSeq[r]

Work(i) == [job |-> "update", op |-> i, todo |-> <<>>, goal |-> "none"]

\* a cycle first goes on with the open operation; without one it looks for a
\* candidate, stages it and opens a record bound to the release that runs
Cycle ==
  /\ supervisor /\ su = SuIdle
  /\ \/ \E i \in OpenOps : su' = Work(i) /\ UNCHANGED <<slots, records, backups>>
     \/ /\ MayBegin
        /\ \E r \in Releases : /\ Newest(r)
                               /\ StageRelease(r)
                               /\ BeginRecord(r)
        /\ su' = Work(Len(records'))
  /\ UNCHANGED <<build, links, host, supervisor, suFaults>>

\* the same from the recovery tool, which refuses to run beside the supervisor;
\* `admit` takes the release of an exact commit
Recover ==
  /\ ~supervisor /\ su = SuIdle
  /\ \/ \E i \in OpenOps : su' = Work(i) /\ UNCHANGED <<slots, records, backups>>
     \/ /\ MayBegin /\ current # NoRelease
        /\ \E r \in Eligible :
             /\ \A q \in Releases : Visible(q) /\ SourceSeq[q] = SourceSeq[r] => q = r
             /\ StageRelease(r)
             /\ BeginRecord(r)
        /\ su' = Work(Len(records'))
  /\ UNCHANGED <<build, links, host, supervisor, suFaults>>

-----------------------------------------------------------------------------
(* The coordinator: what a phase does, and where it leads                    *)

StopAll     == Reverse([i \in 1..Len(Services) |-> <<"stop", Services[i]>>])
StartAll    == [i \in 1..Len(Services) |-> <<"start", Services[i]>>]
CopyAll     == [i \in 1..Len(Databases) |-> <<"copy", Databases[i]>>]
RestoreAll  == [i \in 1..Len(Databases) |-> <<"restore", Databases[i]>>]
Activate(r) == StopAll \o <<<<"link", r>>>>
LinkThenRestore(r) == StopAll \o <<<<"link", r>>>> \o RestoreAll   \* mutant: the link first
RestoreTo(r) == StopAll \o RestoreAll \o <<<<"link", r>>>>
CommitTo(r)  == <<<<"lkg", r>>>>

\* a sealed backup is used again, a partial one is thrown away
BackupState(rec) == IF backups[rec.cand].state = "sealed" THEN <<>>
                    ELSE <<<<"fresh">>>> \o CopyAll \o <<<<"receipt">>>>

\* which link each phase expects to find
ExpectedLinks(rec) ==
  CASE rec.phase = "backup"                             -> {rec.prev}
    [] rec.phase \in {"switch", "rollback"}             -> {rec.prev, rec.cand}
    [] rec.phase \in {"start", "health", "commit"}      -> {rec.cand}
    [] OTHER                                            -> {rec.prev}

Todo(rec) ==
  CASE rec.phase = "backup"   -> BackupState(rec)
    [] rec.phase = "switch"   -> IF current = rec.prev THEN Activate(rec.cand) ELSE <<>>
    [] rec.phase = "start"    -> StartAll
    [] rec.phase = "health"   -> <<<<"health">>>>
    [] rec.phase = "commit"   -> CommitTo(rec.prev)
    [] rec.phase = "rollback" -> IF current = rec.cand THEN RestoreTo(rec.prev) ELSE <<>>
    [] OTHER                  -> StartAll \o <<<<"health">>>>

Good(phase) ==
  CASE phase = "backup" -> "switch" [] phase = "switch" -> "start"
    [] phase = "start" -> "health"  [] phase = "health" -> "commit"
    [] phase = "commit" -> "succeeded" [] phase = "rollback" -> "rollback_health"
    [] OTHER -> "rolled_back"

Unhealthy(phase) == IF phase = "health" THEN "rollback" ELSE "needs_reconcile"

Advance ==
  /\ su.job = "update" /\ su.goal = "none"
  /\ LET rec == records[su.op]
     IN su' = IF current \in ExpectedLinks(rec)
              THEN [su EXCEPT !.todo = Todo(rec), !.goal = Good(rec.phase)]
              ELSE [su EXCEPT !.goal = "needs_reconcile"]
  /\ UNCHANGED <<build, slots, records, backups, links, host, supervisor, suFaults>>

\* the record moves on once the phase's commands are done
Transition ==
  /\ su.job \in {"update", "restore"} /\ su.goal # "none" /\ su.todo = <<>>
  /\ records' = [records EXCEPT ![su.op].phase = su.goal,
                                ![su.op].backup = @ \/ records[su.op].phase = "backup"]
  /\ su' = IF su.goal \in Terminal THEN SuIdle ELSE Work(su.op)
  /\ UNCHANGED <<build, slots, backups, links, host, supervisor, suFaults>>

-----------------------------------------------------------------------------
(* The commands                                                              *)

Todo1(cmd) == su.todo # <<>> /\ Head(su.todo)[1] = cmd
Subject    == Head(su.todo)[2]
Done       == su' = [su EXCEPT !.todo = Tail(@)]
SuRec      == records[su.op]

StopService ==
  /\ Todo1("stop") /\ Done
  /\ running' = [running EXCEPT ![Subject] = NoRelease]
  /\ UNCHANGED <<build, slots, records, backups, links, wrote, supervisor, suFaults>>

\* a service that is already active is left as it is
StartService ==
  /\ Todo1("start") /\ Done
  /\ running' = [running EXCEPT ![Subject] = IF @ = NoRelease THEN current ELSE @]
  /\ UNCHANGED <<build, slots, records, backups, links, wrote, supervisor, suFaults>>

SwitchLink ==
  /\ Todo1("link") /\ Done /\ VerifyStaged(Subject)
  /\ current' = Subject
  /\ UNCHANGED <<build, slots, records, backups, lkg, host, supervisor, suFaults>>

commit_release ==
  /\ Todo1("lkg") /\ Done /\ VerifyStaged(Subject)
  /\ lkg' = Subject
  /\ UNCHANGED <<build, slots, records, backups, current, host, supervisor, suFaults>>

\* one online copy after the other, while the services go on writing
BackupDatabase ==
  /\ \/ Todo1("fresh") /\ backups' = [backups EXCEPT ![SuRec.cand] =
                                        [NoBackup EXCEPT !.state = "partial"]]
     \/ Todo1("copy") /\ backups' = [backups EXCEPT ![SuRec.cand].copy[Subject] = wrote[Subject]]
     \/ Todo1("receipt") /\ backups' = [backups EXCEPT ![SuRec.cand].state = "sealed"]
  /\ Done
  /\ UNCHANGED <<build, slots, records, links, host, supervisor, suFaults>>

\* a database is put back by a rename: it is the old one or the copy; the receipt
\* is the one the record names
RestoreDatabase ==
  /\ Todo1("restore") /\ Done
  /\ backups[SuRec.cand].state = "sealed"
  /\ wrote' = [wrote EXCEPT ![Subject] = backups[SuRec.cand].copy[Subject]]
  /\ UNCHANGED <<build, slots, records, backups, links, running, supervisor, suFaults>>

\* all services active and the loopback probe answered
CheckHealth ==
  /\ Todo1("health")
  /\ \/ (\A s \in Svcs : running[s] # NoRelease) /\ Done
     \/ su' = IF su.job = "update" THEN [su EXCEPT !.todo = <<>>, !.goal = Unhealthy(SuRec.phase)]
              ELSE SuIdle
  /\ UNCHANGED <<build, slots, records, backups, links, host, supervisor, suFaults>>

-----------------------------------------------------------------------------
(* The recovery tool's own operations                                        *)

\* only an unresolved operation that left last-known-good can be restored
Restorable(i) == /\ i \in Unresolved /\ records[i].backup
                 /\ records[i].prev = lkg

RestoreLkg ==
  /\ ~supervisor /\ su = SuIdle /\ OpenOps = {}
  /\ \E i \in 1..Len(records) :
       /\ Restorable(i)
       /\ su' = [job |-> "restore", op |-> i, goal |-> "rolled_back",
                 todo |-> RestoreTo(lkg) \o StartAll \o <<<<"health">>>>]
  /\ UNCHANGED <<build, slots, records, backups, links, host, supervisor, suFaults>>

RestartCurrent ==
  /\ ~supervisor /\ su = SuIdle /\ MayBegin /\ current # NoRelease
  /\ \E s \in Svcs : running[s] # current
  /\ su' = [job |-> "restart", op |-> 0, goal |-> "none",
            todo |-> Activate(current) \o StartAll \o <<<<"health">>>>]
  /\ UNCHANGED <<build, slots, records, backups, links, host, supervisor, suFaults>>

ToolEnds ==
  /\ su.job = "restart" /\ su.todo = <<>>
  /\ su' = SuIdle
  /\ UNCHANGED <<build, slots, records, backups, links, host, supervisor, suFaults>>

-----------------------------------------------------------------------------
(* Faults                                                                    *)

\* a command fails or the process dies: the next cycle starts from the journal
Interrupt ==
  /\ su # SuIdle /\ SuFault
  /\ su' = SuIdle
  /\ UNCHANGED <<build, slots, records, backups, links, host, supervisor>>

\* after a reboot systemd starts the enabled units from the link
Reboot ==
  /\ \E s \in Svcs : \E d \in Dbs : running[s] # NoRelease \/ wrote[d] # {}
  /\ SuFault
  /\ su' = SuIdle
  /\ supervisor' = TRUE
  /\ running' = [s \in Svcs |-> current]
  /\ UNCHANGED <<build, slots, records, backups, links, wrote>>

SelfNext ==
  \/ \E r \in Releases : \/ PrepareOutput(r) \/ BuildOutput(r) \/ SealOutput(r)
                         \/ PublishOutput(r) \/ DiscardOutput(r) \/ SignatureExpires(r)
  \/ Initialize \/ InstallUnits \/ ToggleSupervisor
  \/ \E s \in Svcs : ServiceRestarts(s) \/ \E d \in Dbs : ServiceWrites(s, d)
  \/ Cycle \/ Recover \/ Advance \/ Transition
  \/ StopService \/ StartService \/ SwitchLink \/ commit_release
  \/ BackupDatabase \/ RestoreDatabase \/ CheckHealth
  \/ RestoreLkg \/ RestartCurrent \/ ToolEnds
  \/ Interrupt \/ Reboot

SelfSpec == SelfInit /\ [][SelfNext]_suVars

-----------------------------------------------------------------------------
(* Properties                                                                *)

\* A release never runs on state a newer release has written: whatever crash,
\* reboot or retry happens between stopping the services, putting each database
\* back and switching the link, a running service is of the release `current`
\* names, and every database it opens holds writes of that release and of
\* releases before it only (restore_release_checked, activate_release, advance).
NeverReadsNewerState ==
  \A s \in Svcs : running[s] # NoRelease =>
    /\ running[s] = current
    /\ \A d \in Dbs : \A r \in wrote[d] : r = current \/ SourceSeq[r] < SourceSeq[current]

\* SELF_UPDATE.md: an unresolved record blocks every newer candidate "until the
\* root recovery path closes it" - so the recovery path must be able to close
\* every unresolved record that has its backup. restore-lkg demands that the
\* operation's previous release is last-known-good, but a commit sets
\* last-known-good to the release BEFORE the one that now runs.
UnresolvedCanBeClosed ==
  \A i \in Unresolved : records[i].backup => Restorable(i)
=============================================================================
