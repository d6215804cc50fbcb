------------------------- MODULE WorkflowScheduler -------------------------
(***************************************************************************)
(* DurableWorkflowScheduler (src/scheduler.rs): the workflow tables of     *)
(* control.sqlite and the transactions the worker gateway and the source   *)
(* dispatcher run on them.                                                 *)
(*                                                                         *)
(* The whole database is the one variable db; a transaction is an operator *)
(* from a database to a database, and a StoreError raised inside it sets   *)
(* err, in which case the transaction rolls back and there is no step.     *)
(* Time is relative: expires and deadline of an active lease count the     *)
(* ticks that remain, a lease being overdue once expires <= 0.  Reading    *)
(* the clock and running the transaction are one instant.                  *)
(*                                                                         *)
(* A request has exactly one attempt here (create_attempt always writes    *)
(* attempt_number 1), so a request also names its attempt.  Digests,       *)
(* manifest decoding and the transition log carry no control and are left  *)
(* out; the node source_admission, born succeeded, is left out with them.  *)
(***************************************************************************)
EXTENDS Integers, Sequences, FiniteSets, SequencesExt

CONSTANTS
    Projects,        \* project IDs, compared as the code compares the strings
    Workers,         \* registered workers (a worker and its host)
    PoolsOf,         \* [Workers -> SUBSET Pools]
    Policy,          \* [Projects -> the part of WorkflowPolicyV1 used here]
    NodeOrder,       \* ordered_nodes(): every node name, in ordinal order
    Timeout,         \* [node -> execution timeout of its profile, in ticks]
    LeaseTicks,      \* the gateway's lease duration, in ticks
    Deliveries,      \* the admissions the source dispatcher may submit
    MaxGenerations,  \* bound: [node -> leases of it]
    MaxOverdue       \* bound: ticks a lease may stay overdue before any call

VARIABLE db

None == "none"
Pools == {"vps_required", "build_compute", "privileged_executor"}
RequestStates == {None, "active", "superseded", "terminal"}
AttemptStates == {None, "queued", "waiting_for_mutation", "running",
                  "succeeded", "failed", "superseded", "needs_reconcile"}
MutationStates == {"not_started", "owned", "needs_reconcile", "complete"}
NodeStates == {"dormant", "blocked", "ready", "leased", "succeeded", "failed",
               "cancelled", "needs_reconcile"}
LiveNodeStates == {"dormant", "blocked", "ready", "leased"}
LeaseStates == {"active", "expired", "committed", "revoked"}
LiveAttempts == {"queued", "waiting_for_mutation", "running", "needs_reconcile"}

RequestOf(dl) == [project |-> dl.project, sha |-> dl.sha, mode |-> dl.mode]
Requests == {RequestOf(dl) : dl \in Deliveries}
Nodes == ToSet(NodeOrder)

ASSUME SchedulerAssumption ==
    /\ Projects \subseteq Nat \ {0} /\ LeaseTicks \in Nat \ {0}
    /\ PoolsOf \in [Workers -> SUBSET Pools] /\ None \notin Workers
    /\ MaxOverdue \in Nat
    /\ NodeOrder \in Seq(Nodes)
    /\ \A n \in Nodes : Timeout[n] \in Nat \ {0} /\ MaxGenerations[n] \in Nat \ {0}
    /\ IsFiniteSet(Deliveries)
    /\ \A dl \in Deliveries : /\ dl.project \in Projects /\ dl.priority \in Int
                              /\ dl.mode \in {"deploy", "shadow"}

---------------------------------------------------------------------------
(* The node graph that WorkflowPolicyV1::validate admits.                  *)

Mutation == {"backup", "migration", "candidate", "cutover", "observe", "rollback"}
Handoff(p) == Policy[p].delivery = "self_update_handoff"
Verifications(p) == Policy[p].verifications

NodesOf ==
    [p \in Projects |->
        {"prepare", "build", "reduce"} \cup Verifications(p)
          \cup IF Handoff(p) THEN {}
               ELSE {"reserve", "candidate", "cutover", "observe", "rollback"}
                      \cup Policy[p].stateful]

\* Mutant: the release is reserved as soon as it is built.
ReserveAfterBuild(p, n) ==
    CASE n = "prepare"                             -> {}
      [] n \in Verifications(p) \cup {"build"}      -> {"prepare"}
      [] n \in {"reduce", "reserve"}               -> {"build"}
      [] n = "candidate"                           -> {"reserve"}
      [] n = "cutover"                             -> {"candidate"}
      [] OTHER                                     -> {"cutover"}

Dependencies(p, n) ==
    CASE n = "prepare"            -> {}
      [] n \in Verifications(p)   -> {"prepare"}
      [] n = "build"              -> {"prepare"} \cup
                                     IF Policy[p].serial THEN Verifications(p) ELSE {}
      [] n = "reduce"             -> {"build"} \cup Verifications(p)
      [] n = "reserve"            -> {"reduce"}
      [] n = "backup"             -> {"reserve"}
      [] n = "migration"          -> IF "backup" \in Policy[p].stateful
                                     THEN {"backup"} ELSE {"reserve"}
      [] n = "candidate"          -> IF "migration" \in Policy[p].stateful THEN {"migration"}
                                     ELSE IF "backup" \in Policy[p].stateful
                                          THEN {"backup"} ELSE {"reserve"}
      [] n = "cutover"            -> {"candidate"}
      [] OTHER                    -> {"cutover"}

\* What validate_executor_mutation_graph, validate_release_dependencies and
\* validate_self_update_handoff_graph ask of a policy: verifications are nodes of
\* their own, a build waits for one at most, and a self-update's does.
ASSUME PolicyAssumption ==
    \A p \in Projects :
        /\ NodesOf[p] \subseteq Nodes
        /\ Policy[p].stateful \subseteq {"backup", "migration"}
        /\ Verifications(p) # {}
        /\ Verifications(p) \cap (Mutation \cup {"prepare", "build", "reduce", "reserve"}) = {}
        /\ Policy[p].serial => \E v \in Verifications(p) : Verifications(p) = {v}
        /\ Handoff(p) => Policy[p].serial

DependsOn == [p \in Projects |-> [n \in NodesOf[p] |-> Dependencies(p, n)]]

ShadowExecutes(p, n) == n \in {"prepare", "build", "reduce"} \cup Verifications(p)

PoolOf(p, n) ==
    CASE n \in {"prepare", "build"} -> "vps_required"
      [] n \in Verifications(p)     -> "build_compute"
      [] n = "reduce"               -> "controller"
      [] OTHER                      -> "privileged_executor"

\* Mutant: a shadow run's release build counts as a publication.
ExclusiveInAnyMode(r, n) == n \in Mutation \/ (Handoff(r.project) /\ n = "build")

\* A node whose effect must not run twice for a project: it takes the
\* project's mutation lock, and losing its worker is never retried.
Exclusive(r, n) ==
    /\ r.mode = "deploy"
    /\ n \in Mutation \/ (Handoff(r.project) /\ n = "build")

\* The nodes that share the compiled state of one attempt.
UsesOperationState(p, n) ==
    n \in Verifications(p) \/ (n = "build" /\ Policy[p].serial)

VpsCapable(w) == "vps_required" \in PoolsOf[w]

---------------------------------------------------------------------------
(* Rows.                                                                   *)

Steps == {t \in Requests \X Nodes : t[2] \in NodesOf[t[1].project]}
NoRequest == [project |-> 0, sha |-> 0, mode |-> None]
NoLock == [owner |-> NoRequest, state |-> None]
NoBinding == [worker |-> None, consumers |-> {}]

EmptyDatabase ==
    [head     |-> [p \in Projects |-> [sequence |-> 0, request |-> NoRequest]],
     triggers |-> {},
     queue    |-> << >>,
     request  |-> [r \in Requests |-> None],
     attempt  |-> [r \in Requests |-> None],
     mutation |-> [r \in Requests |-> "not_started"],
     cleanup  |-> [r \in Requests |-> "complete"],
     node     |-> [r \in Requests |-> [n \in NodesOf[r.project] |-> "blocked"]],
     lease    |-> [r \in Requests |-> [n \in NodesOf[r.project] |-> << >>]],
     bound    |-> [r \in Requests |-> NoBinding],
     lock     |-> [p \in Projects |-> NoLock],
     cursor   |-> [project |-> 0, remaining |-> 0],
     err      |-> FALSE]

Fail(d) == [d EXCEPT !.err = TRUE]

\* UPDATE ... WHERE ...; if changed != 1 { return Err(..) }
Require(cond, d) == IF cond THEN d ELSE Fail(d)

Current(d, r, n) == d.lease[r][n][Len(d.lease[r][n])]
IsActive(d, r, n) == d.lease[r][n] # << >> /\ Current(d, r, n).state = "active"
Active(d, r) == {n \in NodesOf[r.project] : IsActive(d, r, n)}
HasDebt(l) == l.cleanup = "pending"

\* unresolved_cleanup_count, as the set of nodes that still have such a lease.
Unresolved(d, r) == {n \in NodesOf[r.project] :
                        \E g \in DOMAIN d.lease[r][n] : HasDebt(d.lease[r][n][g])}
WorkerHasDebt(d, w) ==
    \E r \in Requests : \E n \in NodesOf[r.project] : \E g \in DOMAIN d.lease[r][n] :
        d.lease[r][n][g].worker = w /\ HasDebt(d.lease[r][n][g])

\* A lease leaves the state active; debt says whether its worker still owes
\* a cleanup receipt.
Close(l, state, debt) ==
    [l EXCEPT !.state = state, !.expires = 0, !.deadline = 0,
              !.cleanup = IF debt THEN "pending" ELSE "none"]

CloseLease(d, r, n, state, debt) ==
    [d EXCEPT !.lease[r][n][Len(d.lease[r][n])] = Close(@, state, debt)]

\* Every active lease of an attempt is revoked and every open node cancelled.
Revoked(leases) ==
    [n \in DOMAIN leases |-> [g \in DOMAIN leases[n] |->
        IF leases[n][g].state = "active" THEN Close(leases[n][g], "revoked", TRUE)
        ELSE leases[n][g]]]
Cancelled(nodes) ==
    [n \in DOMAIN nodes |-> IF nodes[n] \in LiveNodeStates THEN "cancelled" ELSE nodes[n]]

Retire(d, r) == [d EXCEPT !.lease[r] = Revoked(@), !.node[r] = Cancelled(@)]

---------------------------------------------------------------------------
(* Ready propagation and waking.                                           *)

AdvanceReadyNodes(d, r) ==
    [d EXCEPT !.node[r] =
        [n \in DOMAIN @ |->
            IF /\ @[n] = "blocked"
               /\ \A m \in DependsOn[r.project][n] : @[m] = "succeeded"
            THEN "ready" ELSE @[n]]]

WakeWaitingAttempts(d) ==
    LET woken == {r \in Requests : /\ d.attempt[r] = "waiting_for_mutation"
                                   /\ d.request[r] = "active"
                                   /\ d.lock[r.project] = NoLock}
    IN [d EXCEPT
          !.attempt = [r \in Requests |-> IF r \in woken THEN "queued" ELSE @[r]],
          !.node = [r \in Requests |->
                      IF r \in woken /\ @[r]["prepare"] = "blocked"
                      THEN [@[r] EXCEPT !["prepare"] = "ready"] ELSE @[r]]]

---------------------------------------------------------------------------
(* Terminal outcomes.                                                      *)

FailTerminalWorkflow(d, r, cleanupPending) ==
    LET pending == cleanupPending \/ Active(d, r) # {}
        retired == Retire(d, r)
    IN Require(d.mutation[r] = "not_started" /\ d.request[r] = "active",
               [retired EXCEPT !.attempt[r] = "failed",
                               !.cleanup[r] = IF pending THEN "pending" ELSE "complete",
                               !.request[r] = "terminal"])

\* Mutant: the lock row keeps the state held.
ReconcileKeepsHeld(d, r, cleanupPending) ==
    Require(d.lock[r.project].owner = r,
            [d EXCEPT !.attempt[r] = "needs_reconcile",
                      !.mutation[r] = "needs_reconcile",
                      !.cleanup[r] = IF cleanupPending THEN "pending" ELSE "complete"])

MarkNeedsReconcile(d, r, cleanupPending) ==
    Require(d.lock[r.project].owner = r,
            [d EXCEPT !.attempt[r] = "needs_reconcile",
                      !.mutation[r] = "needs_reconcile",
                      !.cleanup[r] = IF cleanupPending THEN "pending" ELSE "complete",
                      !.lock[r.project].state = "needs_reconcile"])

\* Mutant: the lock row is not deleted.
CompletesKeepingLock(d, r) ==
    Require(\A n \in NodesOf[r.project] \ {"rollback"} : d.node[r][n] = "succeeded",
            [d EXCEPT !.attempt[r] = "succeeded", !.mutation[r] = "complete",
                      !.request[r] = "terminal"])

CompleteWorkflow(d, r) ==
    LET done == [d EXCEPT
                   !.node[r] = [n \in DOMAIN @ |-> IF n = "rollback" /\ @[n] = "dormant"
                                                   THEN "cancelled" ELSE @[n]],
                   !.attempt[r] = "succeeded", !.mutation[r] = "complete",
                   !.cleanup[r] = "complete", !.request[r] = "terminal",
                   !.lock[r.project] = NoLock]
    IN Require(/\ \A n \in NodesOf[r.project] \ {"rollback"} : d.node[r][n] = "succeeded"
               /\ Unresolved(d, r) = {}
               /\ d.attempt[r] = "running" /\ d.request[r] = "active"
               /\ d.lock[r.project] = [owner |-> r, state |-> "held"],
               WakeWaitingAttempts(done))

CompleteShadowWorkflow(d, r) ==
    Require(/\ d.mutation[r] = "not_started"
            /\ \A n \in NodesOf[r.project] :
                  d.node[r][n] = IF ShadowExecutes(r.project, n)
                                 THEN "succeeded" ELSE "cancelled"
            /\ Unresolved(d, r) = {}
            /\ d.lock[r.project].owner # r
            /\ d.attempt[r] = "running" /\ d.request[r] = "active",
            [d EXCEPT !.attempt[r] = "succeeded", !.cleanup[r] = "complete",
                      !.request[r] = "terminal"])

---------------------------------------------------------------------------
(* Admission.                                                              *)

\* The other attempts of new's project and mode that are not over.
Others(d, new) ==
    {r \in Requests : /\ r # new /\ r.project = new.project /\ r.mode = new.mode
                      /\ d.attempt[r] \in LiveAttempts}

Supersedes(d, stale, waiting) ==
    [db |-> [d EXCEPT
               !.lease   = [r \in Requests |-> IF r \in stale THEN Revoked(@[r]) ELSE @[r]],
               !.node    = [r \in Requests |-> IF r \in stale THEN Cancelled(@[r]) ELSE @[r]],
               !.attempt = [r \in Requests |-> IF r \in stale THEN "superseded" ELSE @[r]],
               !.cleanup = [r \in Requests |-> IF r \notin stale THEN @[r]
                                               ELSE IF Active(d, r) = {} THEN "complete"
                                               ELSE "pending"],
               !.request = [r \in Requests |-> IF r \in stale /\ @[r] = "active"
                                               THEN "superseded" ELSE @[r]]],
     waiting |-> waiting]

\* Mutant: an attempt that owns the mutation is superseded too and loses its lock.
SupersedesOwner(d, new) ==
    LET others == Others(d, new)
    IN Supersedes([d EXCEPT !.lock[new.project] = NoLock,
                            !.mutation = [r \in Requests |-> IF r \in others THEN "not_started"
                                                             ELSE @[r]]], others, FALSE)

\* Mutant: the rows of a superseded attempt change, its leases and nodes do not.
SupersedesRowsOnly(d, new) ==
    LET stale == {r \in Others(d, new) : d.mutation[r] = "not_started"}
    IN [db |-> [d EXCEPT !.attempt = [r \in Requests |-> IF r \in stale THEN "superseded"
                                                         ELSE @[r]],
                         !.request = [r \in Requests |-> IF r \in stale THEN "superseded"
                                                         ELSE @[r]]],
        waiting |-> FALSE]

\* supersede_pre_mutation_attempts: the project's other attempts of the same
\* mode that have not begun to mutate are retired.
Supersede(d, new) ==
    LET others == Others(d, new)
        stale == {r \in others : d.mutation[r] = "not_started"}
    IN Supersedes(d, stale, new.mode = "deploy" /\ others # stale)

\* Mutant: an attempt never waits for the owner of the mutation.
CreatesQueued(d, r, waiting) ==
    [d EXCEPT
       !.attempt[r] = "queued",
       !.node[r] = [n \in DOMAIN @ |->
                      IF r.mode = "shadow" /\ ~ShadowExecutes(r.project, n) THEN "cancelled"
                      ELSE IF n = "prepare" THEN "ready"
                      ELSE IF n = "rollback" THEN "dormant"
                      ELSE "blocked"]]

CreateAttempt(d, r, waiting) ==
    [d EXCEPT
       !.attempt[r] = IF waiting THEN "waiting_for_mutation" ELSE "queued",
       !.node[r] = [n \in DOMAIN @ |->
                      IF r.mode = "shadow" /\ ~ShadowExecutes(r.project, n) THEN "cancelled"
                      ELSE IF n = "prepare" /\ ~waiting THEN "ready"
                      ELSE IF n = "rollback" THEN "dormant"
                      ELSE "blocked"]]

UpdateHead(d, dl) ==
    IF dl.sequence >= d.head[dl.project].sequence
    THEN [d EXCEPT !.head[dl.project] = [sequence |-> dl.sequence,
                                         request |-> RequestOf(dl)]]
    ELSE d

RecordTrigger(d, dl) ==
    [d EXCEPT !.triggers = @ \cup {[id |-> dl.id, payload |-> dl.payload,
                                    request |-> RequestOf(dl)]}]

\* ORDER BY priority DESC, created_at_ms ASC
Enqueue(q, r, priority) ==
    LET ahead == {i \in DOMAIN q : q[i].priority >= priority}
    IN InsertAt(q, Cardinality(ahead) + 1, [request |-> r, priority |-> priority])

AdmitTransaction(d, dl) ==
    LET r == RequestOf(dl)
        head == d.head[dl.project]
        recorded(e) == UpdateHead(RecordTrigger(e, dl), dl)
    IN IF \E t \in d.triggers : t.id = dl.id
       THEN Require(\E t \in d.triggers : t.id = dl.id /\ t.payload = dl.payload, d)
       ELSE IF \/ dl.sequence < head.sequence
               \/ dl.sequence = head.sequence /\ dl.sha # head.request.sha
       THEN Fail(d)
       ELSE IF d.request[r] # None THEN recorded(d)
       ELSE LET inserted == [d EXCEPT !.request[r] = "active",
                                      !.queue = Enqueue(@, r, dl.priority)]
                superseded == Supersede(inserted, r)
            IN recorded(CreateAttempt(superseded.db, r, superseded.waiting))

---------------------------------------------------------------------------
(* Expiry: one transaction over every overdue lease, oldest first.         *)

Overdue(d) == {t \in Steps : /\ IsActive(d, t[1], t[2])
                             /\ Current(d, t[1], t[2]).expires <= 0}

ExpireOne(d, t) ==
    LET r == t[1]
        n == t[2]
        l == Current(d, r, n)
        closed(state) == [CloseLease(d, r, n, "expired", TRUE) EXCEPT !.node[r][n] = state]
    IN IF d.err THEN d
       ELSE IF d.node[r][n] # "leased" THEN Fail(d)
       ELSE IF Exclusive(r, n)
       THEN MarkNeedsReconcile(closed("needs_reconcile"), r, TRUE)
       ELSE IF l.expires = l.deadline
       THEN FailTerminalWorkflow(closed("failed"), r, TRUE)
       ELSE [closed("ready") EXCEPT !.cleanup[r] = "pending"]

\* ORDER BY expires_at_ms, lease_id; the lease IDs are random, so leases that
\* expire together may come in any order.
ExpiryOrders(d) ==
    LET Left(t) == Current(d, t[1], t[2]).expires
    IN {s \in SetToSeqs(Overdue(d)) :
          \A i, j \in DOMAIN s : i < j => Left(s[i]) <= Left(s[j])}

ExpireAll(d, order) ==
    LET after[i \in 0..Len(order)] ==
            IF i = 0 THEN d ELSE ExpireOne(after[i - 1], order[i])
    IN after[Len(order)]

\* The databases expire_leases may leave; none when it raises an error.
Expired(d) == {e \in {ExpireAll(d, order) : order \in ExpiryOrders(d)} : ~e.err}

---------------------------------------------------------------------------
(* Claiming.                                                               *)

Ordinal(n) == CHOOSE i \in DOMAIN NodeOrder : NodeOrder[i] = n
QueueIndex(d, r) == CHOOSE i \in DOMAIN d.queue : d.queue[i].request = r

\* A verification whose compiled output the release build consumes in place
\* stays on a worker that may also run the build.
MayRun(w, p, n) ==
    /\ PoolOf(p, n) \in PoolsOf[w]
    /\ n \in Verifications(p) /\ Policy[p].serial => VpsCapable(w)

ReadyNodes(d, w, p) ==
    {t \in Steps :
        /\ t[1].project = p
        /\ d.node[t[1]][t[2]] = "ready" /\ t[2] # "reduce"
        /\ d.attempt[t[1]] \in {"queued", "running"} /\ d.request[t[1]] = "active"
        /\ MayRun(w, p, t[2])}

\* The first candidate of a project, by priority, age and ordinal.
Candidate(d, w, p) ==
    LET ready == ReadyNodes(d, w, p)
    IN CHOOSE t \in ready : \A u \in ready :
          \/ QueueIndex(d, t[1]) < QueueIndex(d, u[1])
          \/ t[1] = u[1] /\ Ordinal(t[2]) <= Ordinal(u[2])

\* Mutant: the rotation is forgotten.
ProjectIdOrder(d, w) ==
    {s \in SetToSeqs({p \in Projects : ReadyNodes(d, w, p) # {}}) :
        \A i, j \in DOMAIN s : i < j => s[i] < s[j]}

\* Projects in ID order, rotated to the one whose turn it is: the one sequence
\* that is in this order.
FairCandidateOrder(d, w) ==
    LET ps == {p \in Projects : ReadyNodes(d, w, p) # {}}
        last == d.cursor.project
        first == IF d.cursor.remaining > 0 /\ last \in ps THEN {p \in ps : p >= last}
                 ELSE {p \in ps : p > last}
        Before(p, q) == IF p \in first <=> q \in first THEN p < q ELSE p \in first
    IN {s \in SetToSeqs(ps) : \A i, j \in DOMAIN s : i < j => Before(s[i], s[j])}

UpdateCursor(d, p) ==
    [d EXCEPT !.cursor =
        [project |-> p,
         remaining |-> IF @.project = p /\ @.remaining > 0 THEN @.remaining - 1
                       ELSE Policy[p].weight - 1]]

\* The lock a deploy takes before its first exclusive node, when no other
\* attempt owns it.
AcquireMutationLock(d, r) ==
    IF d.lock[r.project] = NoLock
    THEN Require(d.mutation[r] = "not_started",
                 [d EXCEPT !.lock[r.project] = [owner |-> r, state |-> "held"],
                           !.mutation[r] = "owned"])
    ELSE Require(d.lock[r.project].state = "held", d)

\* Mutant: a host's running shard is not looked for.
NoActiveState(d, r, w) == FALSE

ActiveStateOn(d, r, w) ==
    \E n \in Active(d, r) : Current(d, r, n).worker = w /\ Current(d, r, n).shared

RemainingConsumers(d, r, w) ==
    {n \in NodesOf[r.project] : /\ UsesOperationState(r.project, n)
                                /\ PoolOf(r.project, n) \in PoolsOf[w]
                                /\ d.node[r][n] \in {"blocked", "ready"}}

\* operation_state_for_candidate, for a node that uses the compiled state.
OperationState(d, r, n, w) ==
    IF d.bound[r].worker = w
    THEN IF n \notin d.bound[r].consumers THEN "corrupt"
         ELSE IF ActiveStateOn(d, r, w) THEN "busy" ELSE "ready"
    ELSE IF d.bound[r] # NoBinding THEN "busy"
    ELSE IF VpsCapable(w) /\ ActiveStateOn(d, r, w) THEN "busy" ELSE "ready"

\* Mutant: the state of an attempt is bound to no worker.
NeverBinds(d, r, w) == d

Bind(d, r, w) ==
    IF d.bound[r] = NoBinding /\ VpsCapable(w)
    THEN [d EXCEPT !.bound[r] = [worker |-> w, consumers |-> RemainingConsumers(d, r, w)]]
    ELSE d

Smaller(a, b) == IF a <= b THEN a ELSE b

PersistActiveLease(d, r, n, w) ==
    Require(\A m \in DependsOn[r.project][n] : d.node[r][m] = "succeeded",
            [d EXCEPT
               !.lease[r][n] = Append(@, [worker |-> w, state |-> "active",
                                          expires |-> Smaller(LeaseTicks, Timeout[n]),
                                          deadline |-> Timeout[n],
                                          shared |-> UsesOperationState(r.project, n),
                                          cleanup |-> "none"]),
               !.node[r][n] = "leased", !.attempt[r] = "running"])

\* One turn of the loop over the candidates: a locked or busy candidate is
\* passed over, the first one that is not is leased and ends the loop.
ClaimOne(acc, p, w) ==
    LET d == acc.db
        t == Candidate(d, w, p)
        r == t[1]
        n == t[2]
        owned == IF Exclusive(r, n) THEN AcquireMutationLock(d, r) ELSE d
        state == IF UsesOperationState(p, n) THEN OperationState(owned, r, n, w) ELSE "ready"
        bound == IF UsesOperationState(p, n) THEN Bind(owned, r, w) ELSE owned
    IN IF acc.done \/ d.err THEN acc
       ELSE IF Exclusive(r, n) /\ d.lock[p].owner \notin {NoRequest, r} THEN acc
       ELSE IF owned.err \/ state = "corrupt" THEN [db |-> Fail(owned), done |-> TRUE]
       ELSE IF state = "busy" THEN [acc EXCEPT !.db = owned]
       ELSE [db |-> UpdateCursor(PersistActiveLease(bound, r, n, w), p), done |-> TRUE]

ClaimAll(d, w, order) ==
    LET after[i \in 0..Len(order)] ==
            IF i = 0 THEN [db |-> d, done |-> FALSE] ELSE ClaimOne(after[i - 1], order[i], w)
    IN after[Len(order)].db

\* Mutant: a worker that owes a cleanup receipt is served.
ClaimsDespiteDebt(d, w) ==
    LET woken == WakeWaitingAttempts(d)
    IN {ClaimAll(woken, w, order) : order \in FairCandidateOrder(woken, w)}

\* The database a claim leaves, in a set.
ClaimTransaction(d, w) ==
    LET woken == WakeWaitingAttempts(d)
    IN IF WorkerHasDebt(d, w) THEN {d}
       ELSE {ClaimAll(woken, w, order) : order \in FairCandidateOrder(woken, w)}

---------------------------------------------------------------------------
(* Renewal, receipts, cleanup and reduction.                               *)

\* Mutant: a renewal starts the execution timeout again.
RenewsDeadline(d, r, n) ==
    [d EXCEPT !.lease[r][n][Len(d.lease[r][n])].expires = Smaller(LeaseTicks, Timeout[n]),
              !.lease[r][n][Len(d.lease[r][n])].deadline = Timeout[n]]

\* bounded_lease_expiry: a renewal never passes the execution deadline.
RenewTransaction(d, r, n) ==
    LET l == Current(d, r, n)
        expires == Smaller(LeaseTicks, l.deadline)
    IN Require(l.state = "active",
               IF expires > l.expires
               THEN [d EXCEPT !.lease[r][n][Len(d.lease[r][n])].expires = expires]
               ELSE d)

\* commit_node_receipt_transaction for the receipt of the node's current lease;
\* a receipt of an older lease, or one recorded at or after the expiry, is
\* refused.
ReceiptTransaction(d, r, n, outcome, cleanupPending) ==
    LET l == Current(d, r, n)
        uncertain == n \in Mutation \/ Exclusive(r, n)
        state == IF outcome = "succeeded" THEN "succeeded"
                 ELSE IF uncertain THEN "needs_reconcile" ELSE "failed"
        closed == [CloseLease(d, r, n, "committed", cleanupPending) EXCEPT
                     !.node[r][n] = state,
                     !.cleanup[r] = IF cleanupPending THEN "pending" ELSE @]
    IN IF l.state # "active" \/ l.expires <= 0 \/ d.node[r][n] # "leased" THEN Fail(d)
       ELSE IF outcome = "succeeded"
       THEN IF n = "observe" THEN CompleteWorkflow(closed, r) ELSE AdvanceReadyNodes(closed, r)
       ELSE IF uncertain THEN MarkNeedsReconcile(closed, r, cleanupPending)
       ELSE FailTerminalWorkflow(closed, r, cleanupPending)

CleanupTransaction(d, r, n, g) ==
    LET cleaned == [d EXCEPT !.lease[r][n][g].cleanup = "done"]
    IN Require(HasDebt(d.lease[r][n][g]),
               [cleaned EXCEPT !.cleanup[r] = IF Unresolved(cleaned, r) = {}
                                              THEN "complete" ELSE "pending"])

\* reduce_attempt: every input must carry a receipt committed by its lease.
ReduceTransaction(d, r) ==
    LET reduced == [d EXCEPT !.node[r]["reduce"] = "succeeded"]
    IN IF \/ d.node[r]["reduce"] # "ready"
          \/ \E m \in DependsOn[r.project]["reduce"] :
                d.node[r][m] # "succeeded" \/ Current(d, r, m).state # "committed"
       THEN Fail(d)
       ELSE IF r.mode = "shadow" THEN CompleteShadowWorkflow(reduced, r)
       ELSE IF Handoff(r.project) THEN CompleteWorkflow(reduced, r)
       ELSE AdvanceReadyNodes(reduced, r)

---------------------------------------------------------------------------
(* The calls.  Each expires leases first (commit_cleanup_receipt apart), in *)
(* the same transaction or in one before it, and goes no further if that   *)
(* fails.  A poll also reduces what is ready to be reduced before it hands  *)
(* out a lease, and the first reduction that fails rejects the poll.       *)

Reducible(d) == {r \in Requests : d.node[r]["reduce"] = "ready"}
PollAnswers(d) == \A r \in Reducible(d) : ~ReduceTransaction(d, r).err

\* A call that changes the database leaves one of these.
Committed(outcomes) == {d \in outcomes : ~d.err /\ d # db}

Admit(dl) == db' \in Committed({AdmitTransaction(db, dl)})

ExpiryOutcomes == Committed(Expired(db))
ExpireLeases == db' \in ExpiryOutcomes

WithinBound(d) == \A t \in Steps : Len(d.lease[t[1]][t[2]]) <= MaxGenerations[t[2]]

ClaimOutcomes(w) ==
    {d \in Committed(UNION {ClaimTransaction(e, w) : e \in {x \in Expired(db) : PollAnswers(x)}}) :
        WithinBound(d)}
ClaimNext(w) == db' \in ClaimOutcomes(w)

RenewLease(r, n) ==
    /\ IsActive(db, r, n)
    /\ db' \in Committed({RenewTransaction(e, r, n) : e \in Expired(db)})

\* Mutant: a receipt counts from when the worker says it was done.
TrustsWorkerClock(r, n, outcome, cleanupPending) ==
    /\ IsActive(db, r, n)
    /\ db' \in Committed({ReceiptTransaction(
                               [db EXCEPT !.lease[r][n][Len(db.lease[r][n])].expires = 1],
                               r, n, outcome, cleanupPending)})

\* A node that succeeded leaves nothing to clean up (WorkflowNodeReceiptV1).
CommitNodeReceipt(r, n, outcome, cleanupPending) ==
    /\ IsActive(db, r, n)
    /\ outcome = "succeeded" => ~cleanupPending
    /\ db' \in Committed({ReceiptTransaction(e, r, n, outcome, cleanupPending) :
                              e \in Expired(db)})

CommitCleanupReceipt(r, n, g) ==
    /\ g \in DOMAIN db.lease[r][n] /\ HasDebt(db.lease[r][n][g])
    /\ db' \in Committed({CleanupTransaction(db, r, n, g)})

ReductionOutcomes(r) ==
    Committed({ReduceTransaction(e, r) : e \in {x \in Expired(db) : r \in Reducible(x)}})
ReduceAttempt(r) == db' \in ReductionOutcomes(r)

\* One tick later every active lease has one tick less.
Elapse(l) == IF l.state = "active"
             THEN [l EXCEPT !.expires = @ - 1, !.deadline = @ - 1] ELSE l
Later(leases) ==
    [r \in Requests |-> [n \in DOMAIN leases[r] |-> [g \in DOMAIN leases[r][n] |->
        Elapse(leases[r][n][g])]]]

Tick ==
    LET running == {t \in Steps : IsActive(db, t[1], t[2])}
    IN /\ running # {}
       /\ \A t \in running : Current(db, t[1], t[2]).expires > -MaxOverdue
       /\ db' = [db EXCEPT !.lease = Later(@)]

Init == db = EmptyDatabase

Next ==
    \/ \E dl \in Deliveries : Admit(dl)
    \/ ExpireLeases
    \/ \E w \in Workers : ClaimNext(w)
    \/ \E r \in Requests : \E n \in NodesOf[r.project] :
          \/ RenewLease(r, n)
          \/ \E outcome \in {"succeeded", "failed"}, pending \in BOOLEAN :
                CommitNodeReceipt(r, n, outcome, pending)
          \/ \E g \in 1..MaxGenerations[n] : CommitCleanupReceipt(r, n, g)
    \/ \E r \in Requests : ReduceAttempt(r)
    \/ Tick

Spec == Init /\ [][Next]_db

\* Time passes, and the worker runtimes poll in a loop for as long as they run:
\* expired leases are collected, ready nodes claimed and reductions done.  No
\* worker is assumed to finish what it leased.  Each conjunct is the weak fairness
\* of its action, with the set of outcomes in place of ENABLED.
Fairness ==
    /\ WF_db(Tick)
    /\ []<>(ExpiryOutcomes = {}) \/ []<><<ExpireLeases>>_db
    /\ \A w \in Workers : []<>(ClaimOutcomes(w) = {}) \/ []<><<ClaimNext(w)>>_db
    /\ \/ []<>(\A r \in Requests : ReductionOutcomes(r) = {})
       \/ []<><<\E r \in Requests : ReduceAttempt(r)>>_db

FairSpec == Spec /\ Fairness

---------------------------------------------------------------------------
(* Properties.                                                             *)

LeaseRows == [worker : Workers, state : LeaseStates, expires : Int, deadline : Int,
              shared : BOOLEAN, cleanup : {"none", "pending", "done"}]

\* The columns hold what their CHECK constraints allow, a lease is closed
\* exactly when it is not active, and only the newest lease of a node may be
\* active (the index workflow_active_node_lease).
SchedulerTypeOK ==
    /\ ~db.err
    /\ db.request \in [Requests -> RequestStates]
    /\ db.attempt \in [Requests -> AttemptStates]
    /\ db.mutation \in [Requests -> MutationStates]
    /\ db.cleanup \in [Requests -> {"complete", "pending"}]
    /\ \A t \in Steps : /\ db.node[t[1]][t[2]] \in NodeStates
                        /\ \A g \in DOMAIN db.lease[t[1]][t[2]] :
                              LET l == db.lease[t[1]][t[2]][g]
                              IN /\ l \in LeaseRows
                                 /\ l.state = "active" => g = Len(db.lease[t[1]][t[2]])

\* A node is leased exactly while its newest lease is active, and an attempt
\* that is over has no active lease and no node that could still be leased:
\* superseding, failing and completing leave no worker authorised.
LeasesFollowNodes ==
    \A t \in Steps :
        /\ IsActive(db, t[1], t[2]) <=> db.node[t[1]][t[2]] = "leased"
        /\ db.attempt[t[1]] \in {"succeeded", "failed", "superseded"}
              => db.node[t[1]][t[2]] \notin LiveNodeStates

\* One delivery per project: an exclusive node is leased only to the attempt
\* that holds the project's lock, while an attempt owns the lock no other deploy
\* of the project is queued or running, and of the attempts of one mode that are
\* not over at most one has not begun to mutate: the newest.
SingleFlight ==
    /\ \A t \in Steps :
          LET r == t[1]
              lock == db.lock[r.project]
          IN /\ Exclusive(r, t[2]) /\ db.node[r][t[2]] = "leased"
                   => lock = [owner |-> r, state |-> "held"]
             /\ r.mode = "deploy" /\ db.attempt[r] \in {"queued", "running"}
                   => lock.owner \in {NoRequest, r}
    /\ \A r, s \in Requests :
          /\ r # s /\ r.project = s.project /\ r.mode = s.mode
          /\ db.attempt[r] \in LiveAttempts /\ db.attempt[s] \in LiveAttempts
          => db.mutation[r] # "not_started" \/ db.mutation[s] # "not_started"

\* The lock row and the mutation_state column never disagree, so neither a lock
\* without an owner nor an owner without a lock can stop a project.
LockAgrees ==
    \A r \in Requests :
        /\ db.mutation[r] \in {"owned", "needs_reconcile"} <=> db.lock[r.project].owner = r
        /\ db.mutation[r] = "needs_reconcile" <=>
              db.lock[r.project] = [owner |-> r, state |-> "needs_reconcile"]
        /\ db.mutation[r] = "needs_reconcile" <=> db.attempt[r] = "needs_reconcile"

\* Nothing is delivered unverified: once an exclusive node has been leased, all
\* verifications are committed, and outside self-update so are the release build
\* and the reduction.
VerifiedBeforeMutation ==
    \A t \in Steps :
        LET r == t[1]
        IN Exclusive(r, t[2]) /\ db.lease[r][t[2]] # << >> =>
              /\ \A v \in Verifications(r.project) : Current(db, r, v).state = "committed"
              /\ ~Handoff(r.project) =>
                    db.node[r]["reduce"] = "succeeded" /\ Current(db, r, "build").state = "committed"

\* Compiled state stays where it was made: of an attempt's nodes that share it one
\* runs at a time on a VPS worker, and a release build that reuses the verified
\* output runs on the worker that produced all of it, whatever leases expired in
\* between.
StateStaysOnItsHost ==
    \A r \in Requests :
        /\ \A w \in Workers :
              VpsCapable(w) => Cardinality({n \in Active(db, r) :
                                              /\ Current(db, r, n).worker = w
                                              /\ Current(db, r, n).shared}) <= 1
        /\ Policy[r.project].serial /\ db.lease[r]["build"] # << >> =>
              \A v \in Verifications(r.project) :
                  Current(db, r, v).worker = Current(db, r, "build").worker

\* What every state of the scheduler's database satisfies: the parts above.
SchedulerSafety ==
    /\ SchedulerTypeOK
    /\ LeasesFollowNodes
    /\ SingleFlight
    /\ LockAgrees
    /\ VerifiedBeforeMutation

\* A claim never gives a new lease to a worker that owes a cleanup receipt.
CleanBeforeReuse ==
    [][\A t \in Steps : Len(db'.lease[t[1]][t[2]]) > Len(db.lease[t[1]][t[2]])
          => ~WorkerHasDebt(db, Current(db', t[1], t[2]).worker)]_db

\* Once an attempt owns the mutation it is never superseded or failed by a newer
\* head or an expiry: it finishes or waits for reconciliation.
MutationIsNeverAbandoned ==
    [][\A r \in Requests : db.mutation[r] # "not_started"
          => db'.attempt[r] \notin {"superseded", "failed"} /\ db'.mutation[r] # "not_started"]_db

\* A node is done once: it succeeds only by a receipt inside its newest lease, never
\* runs again afterwards, and a closed lease keeps its outcome however late its
\* worker speaks and however often the trigger is delivered.
ReceiptsCountOnce ==
    [][\A t \in Steps :
          LET before == db.lease[t[1]][t[2]]
          IN /\ db.node[t[1]][t[2]] = "succeeded" => db'.node[t[1]][t[2]] = "succeeded"
             /\ \A g \in DOMAIN before :
                   before[g].state # "active" => db'.lease[t[1]][t[2]][g].state = before[g].state
             /\ /\ t[2] # "reduce" /\ db.node[t[1]][t[2]] # "succeeded"
                /\ db'.node[t[1]][t[2]] = "succeeded"
                => IsActive(db, t[1], t[2]) /\ Current(db, t[1], t[2]).expires > 0]_db

\* What no transaction of the scheduler does: these three.
SchedulerSteps == CleanBeforeReuse /\ MutationIsNeverAbandoned /\ ReceiptsCountOnce

\* A project whose turn is used up gets another lease only when the claiming
\* worker can start no other project's candidate: what they wait for is a lock or
\* a host.
TurnsAreShared ==
    [][\A p, q \in Projects : \A w \in Workers :
          LET grew == \E t \in Steps :
                         /\ t[1].project = p
                         /\ Len(db'.lease[t[1]][t[2]]) > Len(db.lease[t[1]][t[2]])
                         /\ Current(db', t[1], t[2]).worker = w
          IN /\ grew /\ db.cursor = [project |-> p, remaining |-> 0]
             /\ q # p /\ ReadyNodes(db', w, q) # {}
             => LET t == Candidate(db', w, q)
                IN UsesOperationState(q, t[2]) \/ Exclusive(t[1], t[2])]_db

\* A shadow run touches nothing: it never owns the lock, and no node that could
\* change the project is ever leased for it.
ShadowLeavesNoTrace ==
    \A r \in Requests : r.mode = "shadow" =>
        /\ db.mutation[r] = "not_started" /\ db.lock[r.project].owner # r
        /\ \A n \in NodesOf[r.project] : db.lease[r][n] # << >> => ShadowExecutes(r.project, n)

\* Projects that share their workers stay apart: compiled state on its host, and a
\* shadow run beside a delivery without a trace.
SharingSafety == StateStaysOnItsHost /\ ShadowLeavesNoTrace

\* No worker keeps a lease forever: heartbeats carry it to its execution deadline
\* at most, and then it is closed.
LeasesEnd ==
    \A t \in Steps : \A g \in 1..MaxGenerations[t[2]] :
        LET Holds == Len(db.lease[t[1]][t[2]]) = g /\ IsActive(db, t[1], t[2])
        IN Holds ~> ~Holds

\* A delivery that waits behind another one is queued, or replaced by a newer
\* head, once the other one ends, even if its workers are lost; only a mutation
\* that needs an operator keeps it waiting.
WaitingEnds ==
    \A r \in Requests :
        db.attempt[r] = "waiting_for_mutation" ~>
            \/ db.attempt[r] # "waiting_for_mutation"
            \/ db.lock[r.project].state = "needs_reconcile"

\* Neither a lost worker nor a delivery in front holds work up forever.
WorkEnds == LeasesEnd /\ WaitingEnds

\* Work done without an accelerator is never held up by its unfinished cleanup: a
\* poll of any worker gets an answer.
PollsAreAnswered == PollAnswers(db)
=============================================================================
