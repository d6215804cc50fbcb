----------------------------- MODULE DeployDriver -----------------------------
(***************************************************************************)
(* From a deploy request to the release that is served. The executor's       *)
(* socket prepares an intent (bound to the release that is current at that   *)
(* moment), a grant turns it into an accepted mutation, and one worker scans *)
(* the accepted deploys in order and drives each of them through its phases; *)
(* the deploy and rollback units act on Docker (backends, the stable router, *)
(* the adopted bootstrap container) one command at a time and may die        *)
(* between two commands. Only after the last receipt does the worker advance *)
(* the release-state document that the next intent will be bound to.         *)
(***************************************************************************)
EXTENDS Naturals, Sequences, FiniteSets

CONSTANTS
  DeployRequests,   \* idempotency keys of deploy requests
  Bundles,          \* release bundles, numbered by the source heads they were built from
  Installed,        \* the release that may be installed before the first request
  NoBundle,         \* no release
  NoRequest,        \* nobody
  DdMaxFaults       \* bound: failures and crashes

ASSUME DeployAssumption ==
  /\ Bundles \subseteq Nat /\ NoBundle \notin Bundles
  /\ NoRequest \notin DeployRequests
  /\ Installed \in Bundles
  /\ DdMaxFaults \in Nat

VARIABLES
  head,        \* the head the source broker offers
  intent,      \* intent[r]: the signed intent persisted for request r
  accepted,    \* the accepted mutations in the order of acceptance
  journal,     \* journal[r]: authorization, bound specification, receipts, takeover
  deployLock,  \* the attempt that holds the project's deploy lock
  release,     \* the release-state document
  scan,        \* the worker: where it is in its scan
  unit,        \* the deploy or rollback unit that runs
  ended,       \* ended[r][e]: how unit e of attempt r ended, "no": not yet
  promoted,    \* bundles and archives in the root's own store
  docker,      \* router, its persisted target, backends, bootstrap container, images
  overtaken,   \* a deploy began while a success was not yet committed
  served0,     \* served0[r]: what was served when the unit of r began
  ddFaults

admission == <<intent, accepted>>
durable   == <<journal, deployLock, release>>
machine   == <<unit, ended, promoted, docker, overtaken, served0>>
ddVars    == <<head, admission, durable, scan, machine, ddFaults>>

Effects  == {"bootstrap", "deploy", "rollback"}
NoIntent == [state |-> "none", cand |-> NoBundle, prev |-> NoBundle]
NoUnit   == [r |-> NoRequest, effect |-> "none", todo |-> <<>>, orphan |-> FALSE]
Sleeping == [pc |-> "sleep", at |-> 0, upto |-> 0, seen |-> NoBundle]

DeployInit ==
  /\ ddFaults = 0
  /\ head = Installed
  /\ intent = [r \in DeployRequests |-> NoIntent]
  /\ accepted = <<>>
  /\ journal = [r \in DeployRequests |->
                  [auth |-> FALSE, spec |-> "none", receipts |-> {}, takeover |-> FALSE]]
  /\ deployLock = NoRequest
  /\ \E b \in {NoBundle, Installed} : release = [current |-> b, good |-> NoBundle]
  /\ scan = Sleeping
  /\ unit = NoUnit
  /\ ended = [r \in DeployRequests |-> [e \in Effects |-> "no"]]
  /\ \E router \in {"absent"} \cup (IF release.current = NoBundle THEN {} ELSE {"bare"}) :
       docker = [router |-> router, target |-> NoBundle, boot |-> release.current,
                 backend |-> [b \in Bundles |-> "absent"],
                 images |-> {release.current} \ {NoBundle}, registry |-> FALSE]
  /\ promoted = {release.current} \ {NoBundle}
  /\ overtaken = FALSE
  /\ served0 = [r \in DeployRequests |-> {}]

DdFault == ddFaults < DdMaxFaults /\ ddFaults' = ddFaults + 1

-----------------------------------------------------------------------------
(* Admission: intents and grants                                             *)

\* the candidate of the attested head, and an upgrade only to another release
Resolvable(b) == b = head /\ b # release.current

\* a key that is known is answered with the intent it has: one intent per key
KnownRequest(r) == intent[r].state # "none"

IssueIntent(b) == [state |-> "prepared", cand |-> b, prev |-> release.current]

PersistIntent(r, i) == intent' = [intent EXCEPT ![r] = i]

PrepareIntent(r) ==
  /\ ~KnownRequest(r)
  /\ \E b \in Bundles : Resolvable(b) /\ PersistIntent(r, IssueIntent(b))
  /\ UNCHANGED <<head, accepted, durable, scan, machine, ddFaults>>

\* the authorizer signs a grant for exactly one intent
IssueGrant(r) ==
  /\ intent[r].state = "prepared"
  /\ intent' = [intent EXCEPT ![r].state = "granted"]
  /\ UNCHANGED <<head, accepted, durable, scan, machine, ddFaults>>

\* neither an intent nor a grant is good for ever
IntentExpires(r) ==
  /\ intent[r].state \in {"prepared", "granted"}
  /\ intent' = [intent EXCEPT ![r].state = "expired"]
  /\ UNCHANGED <<head, accepted, durable, scan, machine, ddFaults>>

GrantBinds(r) == intent[r].state = "granted"

\* the grant is consumed in the transaction that marks the intent consumed
ConsumeGrant(r) ==
  /\ intent' = [intent EXCEPT ![r].state = "consumed"]
  /\ accepted' = Append(accepted, r)

\* the same grant again is a replay and changes nothing
AcceptGrant(r) ==
  /\ GrantBinds(r)
  /\ ConsumeGrant(r)
  /\ UNCHANGED <<head, durable, scan, machine, ddFaults>>

-----------------------------------------------------------------------------
(* The projection of the receipts                                            *)

Cand(r) == intent[r].cand
Prev(r) == intent[r].prev
Receipts(r) == journal[r].receipts

Forward  == <<"candidate", "deploying", "health_checking", "soaking">>
Backward == <<"rollback", "rollback_health", "rollback_soak">>

NextOf(plan, done) ==
  IF \A i \in 1..Len(plan) : plan[i] \in done THEN "end"
  ELSE plan[CHOOSE i \in 1..Len(plan) :
              plan[i] \notin done /\ \A j \in 1..(i - 1) : plan[j] \in done]

\* the phase the projected operation stands in
PhaseNow(r) == IF journal[r].takeover THEN NextOf(Backward, Receipts(r))
               ELSE NextOf(Forward, Receipts(r))

Result(r) == IF PhaseNow(r) # "end" THEN "running"
             ELSE IF journal[r].takeover THEN "rolled_back" ELSE "succeeded"

TerminalReceipt(r) == Receipts(r) \cap {"soaking", "rollback_soak"} # {}

Uncommitted == {r \in DeployRequests :
                  Result(r) = "succeeded" /\ release.current = Prev(r)}

-----------------------------------------------------------------------------
(* The worker's scan                                                         *)

Driven == accepted[scan.at]
NextJob == scan' = [scan EXCEPT !.pc = "pick", !.at = @ + 1]
GoTo(pc) == scan' = [scan EXCEPT !.pc = pc]

StartScan ==
  /\ scan.pc = "sleep"
  /\ accepted # <<>>
  /\ scan' = [pc |-> "pick", at |-> 1, upto |-> Len(accepted), seen |-> NoBundle]
  /\ UNCHANGED <<head, admission, durable, machine, ddFaults>>

\* Mutant: any installed release may be replaced, not only the one the intent names.
ShapeOfAnyRelease(r) == release.current # NoBundle \/ Prev(r) = NoBundle

\* the release state is the one the intent was bound to, or already the candidate
ReleaseShape(r) == release.current \in {Prev(r), Cand(r)}

HasCommittedTerminal(r) ==
  \/ Result(r) = "succeeded" /\ release.current = Cand(r)
  \/ Result(r) = "rolled_back" /\ release.current = Prev(r)

\* a job whose load fails, or that is finished, or whose candidate is current
\* without a terminal receipt, is passed over
Pick ==
  /\ scan.pc = "pick"
  /\ IF scan.at > scan.upto THEN scan' = Sleeping
     ELSE IF ~ReleaseShape(Driven) \/ HasCommittedTerminal(Driven)
             \/ release.current = Cand(Driven)
     THEN NextJob
     ELSE scan' = [scan EXCEPT !.pc = "bind", !.seen = release.current]
  /\ UNCHANGED <<head, admission, durable, machine, ddFaults>>

\* reserve the disk and persist the authorization, once per attempt
AuthorizeAttempt(r) == journal' = [journal EXCEPT ![r].auth = TRUE]

BindReservation ==
  /\ scan.pc = "bind"
  /\ AuthorizeAttempt(Driven)
  /\ GoTo("promote")
  /\ UNCHANGED <<head, admission, deployLock, release, machine, ddFaults>>

\* copy the archive, then the bundle, into the root's own store: only promoted
\* releases can be deployed or returned to
PromoteCandidate ==
  /\ scan.pc = "promote"
  /\ promoted' = promoted \cup {Cand(Driven)}
  /\ GoTo("phase")
  /\ UNCHANGED <<head, admission, journal, deployLock, release, unit, ended, docker,
                 overtaken, served0, ddFaults>>

\* any step of the drive may fail: the worker goes on with the next job
DriveFails ==
  /\ scan.pc \in {"bind", "promote", "phase", "commit"}
  /\ DdFault
  /\ NextJob
  /\ UNCHANGED <<head, admission, durable, machine>>

-----------------------------------------------------------------------------
(* Phases                                                                    *)

At(phase) == scan.pc = "phase" /\ PhaseNow(Driven) = phase
Receive(r, phase) == journal' = [journal EXCEPT ![r].receipts = @ \cup {phase}]

\* the six phases before the mutation boundary only bind the candidate's
\* evidence; the live source must still be the admitted one
CandidatePhases ==
  /\ At("candidate")
  /\ IF head = Cand(Driven)
     THEN Receive(Driven, "candidate") /\ UNCHANGED scan
     ELSE NextJob /\ UNCHANGED journal
  /\ UNCHANGED <<head, admission, deployLock, release, machine, ddFaults>>

EffectOf(r) == IF PhaseNow(r) = "rollback" THEN "rollback"
               ELSE IF Prev(r) = NoBundle THEN "bootstrap" ELSE "deploy"

Op(name, b) == [op |-> name, of |-> b]

\* Mutant: the old backend is stopped before the router leaves it.
StopThenSwitch(prev, cand) ==
  <<Op("backend", prev), Op("switch", prev), Op("adopt", prev), Op("exclusive", prev),
    Op("backend", cand), Op("stop", prev), Op("switch", cand)>>

\* the current release is adopted behind the router before the candidate is started
FreshRoute(prev, cand) ==
  <<Op("backend", prev), Op("switch", prev), Op("adopt", prev), Op("exclusive", prev),
    Op("backend", cand), Op("switch", cand), Op("stop", prev)>>

\* the router already points at the candidate
RoutedAlready(prev, cand) ==
  <<Op("backend", cand), Op("adopt", prev), Op("exclusive", prev), Op("stop", prev)>>

ApplyStableRelease(prev, cand) ==
  IF docker.target = cand THEN RoutedAlready(prev, cand) ELSE FreshRoute(prev, cand)

UnitProgram(effect, prev, cand) ==
  CASE effect = "bootstrap" -> <<Op("import", cand), Op("registry", cand),
                                 Op("setup", cand), Op("unregister", cand),
                                 Op("verify", cand)>>
    [] effect = "deploy"    -> <<Op("import", cand), Op("import", prev),
                                 Op("router", prev), Op("apply", cand)>>
    [] effect = "rollback"  -> <<Op("import", prev), Op("router", prev),
                                 Op("exclusive", prev), Op("backend", prev),
                                 Op("switch", prev), Op("stop", cand)>>

Served == ({docker.boot} \cup
           (IF docker.router = "up" /\ docker.target # NoBundle
               /\ docker.backend[docker.target] = "running"
            THEN {docker.target} ELSE {})) \ {NoBundle}

LockFree(r) == deployLock \in {NoRequest, r}

\* persist the phase intent and bind its specification, whose evidence of the
\* running release is good for thirty seconds only
BindDeploySpec ==
  LET r == Driven
  IN /\ At("deploying") /\ journal[r].spec = "none"
     /\ journal' = [journal EXCEPT ![r].spec = "bound"]
     /\ UNCHANGED <<head, admission, deployLock, release, scan, machine, ddFaults>>

EvidenceExpires(r) ==
  /\ journal[r].spec = "bound"
  /\ journal' = [journal EXCEPT ![r].spec = "stale"]
  /\ UNCHANGED <<head, admission, deployLock, release, scan, machine, ddFaults>>

AtUnitPhase == At("rollback") \/ (At("deploying") /\ journal[Driven].spec # "none")

\* take the lock, take the permit, start the unit
StartUnit ==
  LET r == Driven
      e == EffectOf(r)
  IN /\ AtUnitPhase
     /\ ended[r][e] = "no" /\ unit.r = NoRequest
     /\ IF ~LockFree(r) THEN NextJob /\ UNCHANGED <<durable, machine>>
        ELSE /\ deployLock' = r
             /\ IF At("deploying") /\ journal[r].spec = "stale"
                THEN NextJob /\ UNCHANGED <<journal, release, machine>>
                ELSE /\ unit' = [r |-> r, effect |-> e, orphan |-> FALSE,
                                 todo |-> UnitProgram(e, Prev(r), Cand(r))]
                     /\ journal' = [journal EXCEPT ![r].spec =
                                      IF e = "rollback" THEN @ ELSE "permitted"]
                     /\ overtaken' = (overtaken \/ Uncommitted \ {r} # {})
                     /\ served0' = [served0 EXCEPT ![r] =
                                      IF e = "rollback" THEN @ ELSE Served]
                     /\ GoTo("wait")
                     /\ UNCHANGED <<release, ended, promoted, docker>>
     /\ UNCHANGED <<head, admission, ddFaults>>

\* another attempt's unit still runs, or this attempt's unit ended without a
\* receipt: the phase reports a conflict
PhaseConflict ==
  /\ AtUnitPhase
  /\ unit.r # NoRequest \/ ended[Driven][EffectOf(Driven)] # "no"
  /\ NextJob
  /\ UNCHANGED <<head, admission, durable, machine, ddFaults>>

UnitDone ==
  LET r == Driven
      e == EffectOf(r)
  IN /\ scan.pc = "wait" /\ ended[r][e] # "no"
     /\ IF ended[r][e] = "ok"
        THEN GoTo("phase") /\ Receive(r, IF e = "rollback" THEN "rollback" ELSE "deploying")
        ELSE NextJob /\ UNCHANGED journal
     /\ UNCHANGED <<head, admission, deployLock, release, machine, ddFaults>>

ObservedPhases == {"health_checking", "soaking", "rollback_health", "rollback_soak"}
Expected(r) == IF journal[r].takeover THEN Prev(r) ELSE Cand(r)

\* health and soak only look: the release must answer through the route
ObservePhase ==
  \E phase \in ObservedPhases :
    /\ At(phase)
    /\ Expected(Driven) \in Served
    /\ Receive(Driven, phase)
    /\ UNCHANGED <<head, admission, deployLock, release, scan, machine, ddFaults>>

CanTakeOver == (At("health_checking") \/ At("soaking")) /\ Prev(Driven) # NoBundle

\* any error of the forward health check or soak turns the attempt around when
\* there is a release to go back to
TakeOver ==
  /\ CanTakeOver
  /\ DdFault
  /\ journal' = [journal EXCEPT ![Driven].takeover = TRUE]
  /\ UNCHANGED <<head, admission, deployLock, release, scan, machine>>

CleanupTerminal ==
  /\ scan.pc = "phase" /\ PhaseNow(Driven) = "end"
  /\ deployLock' = IF deployLock = Driven THEN NoRequest ELSE deployLock
  /\ IF Result(Driven) = "rolled_back" THEN NextJob ELSE GoTo("commit")
  /\ UNCHANGED <<head, admission, journal, release, machine, ddFaults>>

\* compare and swap of the document that was loaded with the job
SwapRelease(expected, next) == release.current = expected /\ release' = next

CommitRelease ==
  /\ scan.pc = "commit"
  /\ SwapRelease(scan.seen, [current |-> Cand(Driven), good |-> scan.seen])
  /\ NextJob
  /\ UNCHANGED <<head, admission, journal, deployLock, machine, ddFaults>>

-----------------------------------------------------------------------------
(* The unit: one Docker command at a time                                    *)

Now == Head(unit.todo)
Did(d) == docker' = d /\ unit' = [unit EXCEPT !.todo = Tail(@)]

LoadBundle(b) == b \in promoted

ImportImage   == LoadBundle(Now.of) /\ Did([docker EXCEPT !.images = @ \cup {Now.of}])
StartRegistry == Did([docker EXCEPT !.registry = TRUE])
DropRegistry  == Did([docker EXCEPT !.registry = FALSE])
KamalSetup    == Did([docker EXCEPT !.boot = Now.of])
VerifyVersion == docker.boot = Now.of /\ Did(docker)

\* a router container without the alias is removed and made anew; the target
\* persists in its volume
EnsureRouter ==
  IF docker.router = "bare"
  THEN docker' = [docker EXCEPT !.router = "absent"] /\ UNCHANGED unit
  ELSE Did([docker EXCEPT !.router = "up"])

EnsureBackend ==
  /\ docker.backend[Now.of] = "absent" => Now.of \in docker.images
  /\ Did([docker EXCEPT !.backend[Now.of] = "running"])

\* the router switches only to a target that answers
SwitchRouter ==
  docker.backend[Now.of] = "running" /\ Did([docker EXCEPT !.target = Now.of])

AdoptBootstrap ==
  Did([docker EXCEPT !.boot = IF @ = Now.of THEN NoBundle ELSE @])

ExclusiveAlias == docker.router = "up" /\ docker.boot = NoBundle /\ Did(docker)

StopBackend ==
  Did([docker EXCEPT !.backend[Now.of] = IF @ = "running" THEN "stopped" ELSE @])

RouteProbe ==
  /\ unit' = [unit EXCEPT !.todo = ApplyStableRelease(Prev(unit.r), Now.of)]
  /\ UNCHANGED docker

Command ==
  \/ Now.op = "import" /\ ImportImage
  \/ Now.op = "router" /\ EnsureRouter
  \/ Now.op = "apply" /\ RouteProbe
  \/ Now.op = "backend" /\ EnsureBackend
  \/ Now.op = "switch" /\ SwitchRouter
  \/ Now.op = "adopt" /\ AdoptBootstrap
  \/ Now.op = "exclusive" /\ ExclusiveAlias
  \/ Now.op = "stop" /\ StopBackend
  \/ Now.op = "registry" /\ StartRegistry
  \/ Now.op = "setup" /\ KamalSetup
  \/ Now.op = "unregister" /\ DropRegistry
  \/ Now.op = "verify" /\ VerifyVersion

DockerCommand ==
  /\ unit.r # NoRequest /\ unit.todo # <<>>
  /\ Command
  /\ UNCHANGED <<head, admission, durable, scan, ended, promoted, overtaken, served0, ddFaults>>

End(how) ==
  /\ unit' = NoUnit
  /\ ended' = [ended EXCEPT ![unit.r][unit.effect] = how]
  /\ UNCHANGED <<head, admission, durable, scan, promoted, overtaken, served0>>

\* without the executor waiting on it, nobody writes the unit's cleanup receipt
UnitEnds ==
  /\ unit.r # NoRequest /\ unit.todo = <<>>
  /\ End(IF unit.orphan THEN "lost" ELSE "ok")
  /\ UNCHANGED <<docker, ddFaults>>

\* a command fails, before or after it changed anything, or the unit is killed
UnitFails ==
  /\ unit.r # NoRequest /\ unit.todo # <<>>
  /\ DdFault
  /\ \/ UNCHANGED docker
     \/ Now.op = "backend" /\ docker' = [docker EXCEPT !.backend[Now.of] = "running"]
  /\ End("failed")

-----------------------------------------------------------------------------
(* The world around                                                          *)

\* units outlive the executor; everything the worker holds in memory is derived again
DdCrash ==
  /\ scan.pc # "sleep"
  /\ DdFault
  /\ scan' = Sleeping
  /\ unit' = [unit EXCEPT !.orphan = unit.r # NoRequest]
  /\ UNCHANGED <<head, admission, durable, ended, promoted, docker, overtaken, served0>>

\* the broker accepts only descendants
MoveHead ==
  /\ \E b \in Bundles : b > head /\ head' = b
  /\ UNCHANGED <<admission, durable, scan, machine, ddFaults>>

\* the socket's requests that change anything
HandleControl(r) == PrepareIntent(r) \/ AcceptGrant(r)

DeployNext ==
  \/ \E r \in DeployRequests : \/ HandleControl(r) \/ IssueGrant(r)
                               \/ IntentExpires(r) \/ EvidenceExpires(r)
  \/ StartScan \/ Pick \/ BindReservation \/ PromoteCandidate \/ DriveFails
  \/ CandidatePhases \/ BindDeploySpec \/ StartUnit \/ PhaseConflict \/ UnitDone
  \/ ObservePhase \/ TakeOver \/ CleanupTerminal \/ CommitRelease
  \/ DockerCommand \/ UnitEnds \/ UnitFails
  \/ DdCrash \/ MoveHead

DeploySpec == DeployInit /\ [][DeployNext]_ddVars

-----------------------------------------------------------------------------
(* What must hold                                                            *)

(* Once a release is installed something answers at every moment: neither a   *)
(* failed command, a killed unit, a crash nor a rollback leaves the alias     *)
(* without a running backend or the bootstrap container                       *)
(* (apply_stable_release).                                                    *)
AlwaysServed == release.current # NoBundle => Served # {}

(* When nobody holds the deploy lock and every success is committed, exactly  *)
(* the release of the document is served: the next intent and the next        *)
(* rollback are bound to what really runs. The one exception is a deploy that *)
(* began while an earlier success was not yet written to the document         *)
(* (drive_accepted, commit_succeeded_release).                                *)
DocumentIsServed ==
  deployLock = NoRequest /\ Uncommitted = {} /\ ~overtaken
    => Served = {release.current} \ {NoBundle}

(* deploy/systemd/README.md: a failed candidate "routes back to the exact old *)
(* bundle": what is served after a rollback is what was served before the     *)
(* deploy.                                                                    *)
RollsBackToServed ==
  \A r \in DeployRequests :
    deployLock = r /\ "rollback" \in Receipts(r) => Served = served0[r]
=============================================================================
