------------------------------- MODULE MCHost -------------------------------
(***************************************************************************)
(* The root-side effects on one host, which share no state: the backup and   *)
(* migration jobs, the deploy driver, the self-update and native releases.   *)
(* The first state chooses the component that moves, so their states add up  *)
(* instead of multiplying.                                                   *)
(***************************************************************************)
EXTENDS AdapterJobs, DeployDriver, SelfUpdate, NativeRelease

VARIABLE mover   \* the component that moves

MCSourceSeq == [r \in Releases |-> r]
MCServices == <<"gateway", "dashboard">>
MCDatabases == <<"controller", "security">>

\* The native releases share their runtime library.
MCDependsOn == [x \in Artifacts |-> IF x \in NativeReleases THEN RuntimeLibs ELSE {}]

\* Releases are built between operations: an operation looks at a build when it begins.
BuildsBetween == build' # build => su = SuIdle

MCInit ==
  /\ JobInit /\ DeployInit /\ SelfInit /\ NatInit
  /\ mover \in {"jobs", "driver", "self_update", "native"}
  /\ mover # "jobs" => class = "code"
  /\ mover # "driver" => release.current = NoBundle

MCNext ==
  /\ UNCHANGED mover
  /\ \/ mover = "jobs" /\ JobNext /\ UNCHANGED <<ddVars, suVars, natVars>>
     \/ mover = "driver" /\ DeployNext /\ UNCHANGED <<jobVars, suVars, natVars>>
     \/ mover = "self_update" /\ SelfNext /\ BuildsBetween /\ UNCHANGED <<jobVars, ddVars, natVars>>
     \/ mover = "native" /\ NatNext /\ UNCHANGED <<jobVars, ddVars, suVars>>

MCSpec == MCInit /\ [][MCNext]_<<jobVars, ddVars, suVars, natVars, mover>>
=============================================================================
