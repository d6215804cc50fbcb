------------------------ MODULE MCWorkflowScheduler ------------------------
(* Instances of WorkflowScheduler for TLC.                                 *)
EXTENDS WorkflowScheduler

MCNodeOrder == <<"prepare", "verify", "audit", "build", "reduce", "reserve", "backup",
                 "migration", "candidate", "cutover", "observe", "rollback">>

\* With a lease of one tick, a node that may be leased twice has its deadline a
\* tick after its first expiry, every other node has it at that expiry.
Retried(nodes) == [n \in ToSet(MCNodeOrder) |-> IF n \in nodes THEN 2 ELSE 1]
RetriedShards == Retried({"verify", "audit"})
RetriedVerify == Retried({"verify"})

\* With a lease of two ticks, leases taken at different times run side by side.
LongShards == [n \in ToSet(MCNodeOrder) |-> IF n \in {"verify", "audit"} THEN 3 ELSE 2]

VpsAndExecutor == [vps |-> {"vps_required", "build_compute"}, executor |-> {"privileged_executor"}]
WithAccelerator == VpsAndExecutor @@ [accel |-> {"build_compute"}]
TwoVps == [vps |-> {"vps_required", "build_compute"}, spare |-> {"vps_required", "build_compute"}]

Delivery(id, p, sha, mode) ==
    [id |-> id, payload |-> id, project |-> p, sha |-> sha, sequence |-> sha,
     mode |-> mode, priority |-> 0]
OneHead == {Delivery("d1", 1, 1, "deploy")}
TwoHeads == OneHead \cup {Delivery("d2", 1, 2, "deploy")}

\* An executor delivery whose build runs beside its verification.
Executor == [delivery |-> "executor_mutation", verifications |-> {"verify"}, serial |-> FALSE,
             stateful |-> {}, weight |-> 1]
ParallelProject == (1 :> Executor)

\* One node at a time, with a backup and a migration.
SerialProject == (1 :> [Executor EXCEPT !.serial = TRUE, !.stateful = {"backup", "migration"}])

\* The older of two heads may be announced again, until the newer one is known.
Redelivered == TwoHeads \cup {Delivery("d3", 1, 1, "deploy")}

\* A delivery with two shards shares its workers with the shadow run of a self-update.
SelfUpdate == [Executor EXCEPT !.delivery = "self_update_handoff", !.serial = TRUE]
ShardsAndSelfUpdate == (1 :> [Executor EXCEPT !.verifications = {"verify", "audit"}]
                        @@ 2 :> [SelfUpdate EXCEPT !.weight = 2])
DeployAndShadow == OneHead \cup {[Delivery("d2", 2, 1, "shadow") EXCEPT !.priority = 1]}
=============================================================================
