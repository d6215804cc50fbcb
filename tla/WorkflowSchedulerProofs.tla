------------------------ MODULE WorkflowSchedulerProofs ------------------------
(* Every transaction of the scheduler leaves a sound database: leases follow   *)
(* their nodes, a project has one delivery in flight, the lock row and the     *)
(* mutation column agree, nothing is delivered unverified, compiled state      *)
(* stays on its host and a shadow run leaves no trace; and none leases to a    *)
(* worker in debt, abandons a mutation or counts a receipt out of time, for    *)
(* any set of projects, policies, workers and admissions.                      *)
EXTENDS WorkflowScheduler, FiniteSetTheorems, SequenceTheorems, WellFoundedInduction, TLAPS

Started == {"ready", "leased", "succeeded", "failed", "needs_reconcile"}
Over == {"succeeded", "failed", "superseded"}
Early == {None, "queued", "waiting_for_mutation"}
Newest(s) == s[Len(s)]
Runs(s) == s # << >> /\ Newest(s).state = "active"

(* A node's state and the sequence of its leases: only the newest lease may be *)
(* active, exactly while the node is leased, and a node other than the         *)
(* reduction succeeded by its newest lease.                                    *)
NodeSound(n, x, s) ==
  /\ x \in NodeStates /\ s \in Seq(LeaseRows)
  /\ \A g \in DOMAIN s : s[g].state = "active" => g = Len(s)
  /\ Runs(s) <=> x = "leased"
  /\ x = "succeeded" /\ n # "reduce" => s # << >> /\ Newest(s).state = "committed"
  /\ n = "rollback" => s = << >>

(* The nodes and leases of one attempt.                                        *)
NodesSound(p, nd, ls) ==
  /\ DOMAIN nd = NodesOf[p] /\ DOMAIN ls = NodesOf[p]
  /\ \A n \in NodesOf[p] : NodeSound(n, nd[n], ls[n])

(* What was ever ready has its dependencies done.                              *)
DependenciesDone(p, nd, ls) ==
  \A n \in NodesOf[p] : nd[n] \in Started \/ ls[n] # << >> =>
    \A m \in Dependencies(p, n) : nd[m] = "succeeded"

(* The columns of a request and its attempt against each other.                *)
ColumnsSound(rq, at, mu, cl) ==
  /\ rq \in RequestStates /\ at \in AttemptStates
  /\ mu \in MutationStates /\ cl \in {"complete", "pending"}
  /\ rq = None <=> at = None
  /\ at \in LiveAttempts <=> rq = "active"
  /\ at \in Early => mu = "not_started"
  /\ mu = "owned" => at = "running"
  /\ mu = "complete" => at = "succeeded"
  /\ mu = "needs_reconcile" <=> at = "needs_reconcile"

(* The nodes of an attempt against its state.                                  *)
AttemptSound(r, at, mu, nd, ls) ==
  /\ at \in Early =>
       \A n \in NodesOf[r.project] : ls[n] = << >> /\ (n # "prepare" => nd[n] \notin Started)
  /\ at \in {None, "waiting_for_mutation"} => nd["prepare"] = "blocked"
  /\ at \in Over => \A n \in NodesOf[r.project] : nd[n] \notin LiveNodeStates
  /\ at # None /\ ~Handoff(r.project) => nd["rollback"] \in {"dormant", "cancelled"}
  /\ r.mode = "shadow" =>
       /\ mu = "not_started"
       /\ \A n \in NodesOf[r.project] : ~ShadowExecutes(r.project, n) =>
            ls[n] = << >> /\ (at # None => nd[n] = "cancelled")

(* Compiled state: one running lease that shares it on a VPS worker, and in a  *)
(* serial policy every lease that used it was given to the bound worker.       *)
SharedSound(r, ls, b) ==
  /\ \A n, m \in NodesOf[r.project] :
       /\ Runs(ls[n]) /\ Runs(ls[m]) /\ Newest(ls[n]).shared /\ Newest(ls[m]).shared
       /\ Newest(ls[n]).worker = Newest(ls[m]).worker /\ VpsCapable(Newest(ls[n]).worker)
       => n = m
  /\ Policy[r.project].serial =>
       \A n \in NodesOf[r.project] : UsesOperationState(r.project, n) =>
         \A g \in DOMAIN ls[n] : b # NoBinding /\ ls[n][g].worker = b.worker

RowSound(r, rq, at, mu, cl, nd, ls, b) ==
  /\ ColumnsSound(rq, at, mu, cl)
  /\ NodesSound(r.project, nd, ls)
  /\ DependenciesDone(r.project, nd, ls)
  /\ AttemptSound(r, at, mu, nd, ls)
  /\ SharedSound(r, ls, b)

--------------------------------------------------------------------------------
(* The graph                                                                   *)

(* A request names its project and its mode, and NoRequest is none of them.    *)
LEMMA RequestFacts ==
  /\ NoRequest \notin Requests
  /\ \A r \in Requests : r.project \in Projects /\ r.mode \in {"deploy", "shadow"}
<1>1. ASSUME NEW r \in Requests
      PROVE  r.project \in Projects /\ r.mode \in {"deploy", "shadow"}
  <2>1. PICK dl \in Deliveries : r = RequestOf(dl)
    BY DEF Requests
  <2> QED
    BY <2>1, SchedulerAssumption DEF RequestOf
<1>2. NoRequest.project \notin Projects
  BY SchedulerAssumption DEF NoRequest
<1> QED
  BY <1>1, <1>2

(* The nodes of a policy, and what they wait for.                              *)
LEMMA GraphFacts ==
  ASSUME NEW p \in Projects
  PROVE  /\ NodesOf[p] \subseteq Nodes
         /\ {"prepare", "build", "reduce"} \cup Verifications(p) \subseteq NodesOf[p]
         /\ ~Handoff(p) => "rollback" \in NodesOf[p]
         /\ ~ShadowExecutes(p, "rollback")
         /\ \A n \in NodesOf[p] : Dependencies(p, n) \subseteq NodesOf[p]
         /\ \A n \in NodesOf[p] : DependsOn[p][n] = Dependencies(p, n)
         /\ Dependencies(p, "prepare") = {}
<1>1. NodesOf[p] = {"prepare", "build", "reduce"} \cup Verifications(p)
                     \cup IF Handoff(p) THEN {}
                          ELSE {"reserve", "candidate", "cutover", "observe", "rollback"}
                                 \cup Policy[p].stateful
  BY DEF NodesOf
<1>2. /\ NodesOf[p] \subseteq Nodes
      /\ {"prepare", "build", "reduce"} \cup Verifications(p) \subseteq NodesOf[p]
      /\ ~Handoff(p) => "rollback" \in NodesOf[p]
  BY <1>1, PolicyAssumption
<1>3. ~ShadowExecutes(p, "rollback")
  BY PolicyAssumption DEF ShadowExecutes, Mutation
<1>4. ASSUME NEW n \in NodesOf[p] PROVE Dependencies(p, n) \subseteq NodesOf[p]
  <2>1. CASE n \in {"prepare", "build", "reduce"} \cup Verifications(p)
    BY <1>2, <2>1, PolicyAssumption DEF Dependencies, Mutation
  <2>2. CASE n \notin {"prepare", "build", "reduce"} \cup Verifications(p)
    <3>1. ~Handoff(p)
      BY <1>1, <2>2
    <3>2. {"reserve", "candidate", "cutover", "reduce"} \cup Policy[p].stateful \subseteq NodesOf[p]
      BY <1>1, <3>1
    <3> QED
      BY <2>2, <3>2 DEF Dependencies
  <2> QED
    BY <2>1, <2>2
<1>5. \A n \in NodesOf[p] : DependsOn[p][n] = Dependencies(p, n)
  BY DEF DependsOn
<1>6. Dependencies(p, "prepare") = {}
  BY PolicyAssumption DEF Dependencies
<1>7. \A n \in NodesOf[p] : Dependencies(p, n) \subseteq NodesOf[p]
  BY <1>4
<1> QED
  BY <1>2, <1>3, <1>5, <1>6, <1>7

(* The exclusive nodes of a deploy come one after the other.                   *)
LEMMA OneExclusive ==
  ASSUME NEW r \in Requests, NEW nd, NEW ls, DependenciesDone(r.project, nd, ls),
         NEW n \in NodesOf[r.project], NEW m \in NodesOf[r.project],
         Exclusive(r, n), Exclusive(r, m), n # "rollback", m # "rollback",
         nd[n] = "leased", nd[m] = "leased"
  PROVE  n = m
<1>1. PICK p \in Projects : p = r.project
  BY RequestFacts
<1>2. CASE Handoff(p)
  <2>1. NodesOf[p] \cap Mutation = {}
    BY <1>2, PolicyAssumption DEF NodesOf, Mutation
  <2> QED
    BY <1>1, <2>1 DEF Exclusive
<1>3. CASE ~Handoff(p)
  <2>1. n \in Mutation \ {"rollback"} /\ m \in Mutation \ {"rollback"}
    BY <1>1, <1>3 DEF Exclusive
  <2>2. Verifications(p) \cap Mutation = {}
    BY PolicyAssumption
  <2>3. ASSUME NEW x \in NodesOf[p], nd[x] \in {"leased", "succeeded"}
        PROVE  \A y \in Dependencies(p, x) : y \in NodesOf[p] /\ nd[y] = "succeeded"
    BY <1>1, <2>3, GraphFacts DEF DependenciesDone, Started
  <2>4. /\ Dependencies(p, "observe") = {"cutover"}
        /\ Dependencies(p, "cutover") = {"candidate"}
        /\ Dependencies(p, "candidate") =
             IF "migration" \in Policy[p].stateful THEN {"migration"}
             ELSE IF "backup" \in Policy[p].stateful THEN {"backup"} ELSE {"reserve"}
        /\ Dependencies(p, "migration") =
             IF "backup" \in Policy[p].stateful THEN {"backup"} ELSE {"reserve"}
    BY <2>2 DEF Dependencies, Mutation
  <2>5. /\ "backup" \in NodesOf[p] => "backup" \in Policy[p].stateful
        /\ "migration" \in NodesOf[p] => "migration" \in Policy[p].stateful
    BY <2>2 DEF NodesOf, Mutation
  <2>6. ASSUME nd["observe"] \in {"leased", "succeeded"}, "observe" \in NodesOf[p]
        PROVE  nd["cutover"] = "succeeded" /\ "cutover" \in NodesOf[p]
    BY <2>3, <2>4, <2>6
  <2>7. ASSUME nd["cutover"] \in {"leased", "succeeded"}, "cutover" \in NodesOf[p]
        PROVE  nd["candidate"] = "succeeded" /\ "candidate" \in NodesOf[p]
    BY <2>3, <2>4, <2>7
  <2>8. ASSUME nd["candidate"] \in {"leased", "succeeded"}, "candidate" \in NodesOf[p],
               NEW x \in {"backup", "migration"} \cap NodesOf[p]
        PROVE  nd[x] = "succeeded"
    <3>1. CASE "migration" \in Policy[p].stateful
      <4>1. nd["migration"] = "succeeded" /\ "migration" \in NodesOf[p]
        BY <2>3, <2>4, <2>8, <3>1
      <4> QED
        BY <2>3, <2>4, <2>5, <2>8, <4>1
    <3>2. CASE "migration" \notin Policy[p].stateful
      BY <2>3, <2>4, <2>5, <2>8, <3>2
    <3> QED
      BY <3>1, <3>2
  <2>9. ASSUME nd["migration"] \in {"leased", "succeeded"}, "migration" \in NodesOf[p],
               "backup" \in NodesOf[p]
        PROVE  nd["backup"] = "succeeded"
    BY <2>3, <2>4, <2>5, <2>9
  <2> QED
    BY <1>1, <2>1, <2>6, <2>7, <2>8, <2>9 DEF Mutation
<1> QED
  BY <1>2, <1>3

(* An exclusive node that was ever leased comes after the verifications and,   *)
(* outside self-update, after the release build and the reduction.             *)
LEMMA ExclusiveIsVerified ==
  ASSUME NEW r \in Requests, NEW nd, NEW ls, DependenciesDone(r.project, nd, ls),
         NEW n \in NodesOf[r.project], Exclusive(r, n), n # "rollback", ls[n] # << >>
  PROVE  /\ \A v \in Verifications(r.project) : nd[v] = "succeeded"
         /\ ~Handoff(r.project) => nd["reduce"] = "succeeded" /\ nd["build"] = "succeeded"
<1>1. PICK p \in Projects : p = r.project
  BY RequestFacts
<1>2. Verifications(p) \cap (Mutation \cup {"prepare", "build", "reduce", "reserve"}) = {}
  BY PolicyAssumption
<1>3. CASE Handoff(p)
  <2>1. n = "build"
    BY <1>1, <1>2, <1>3, PolicyAssumption DEF NodesOf, Mutation, Exclusive
  <2>2. Verifications(p) \subseteq Dependencies(p, "build")
    BY <1>2, <1>3, PolicyAssumption DEF Dependencies
  <2> QED
    BY <1>1, <1>3, <2>1, <2>2 DEF DependenciesDone
<1>4. CASE ~Handoff(p)
  <2>1. n \in Mutation \ {"rollback"}
    BY <1>1, <1>4 DEF Exclusive
  <2>2. ASSUME NEW x \in NodesOf[p], nd[x] = "succeeded" \/ x = n
        PROVE  \A y \in Dependencies(p, x) : y \in NodesOf[p] /\ nd[y] = "succeeded"
    BY <1>1, <2>2, GraphFacts DEF DependenciesDone, Started
  <2>3. /\ Dependencies(p, "observe") = {"cutover"}
        /\ Dependencies(p, "cutover") = {"candidate"}
        /\ Dependencies(p, "candidate") =
             IF "migration" \in Policy[p].stateful THEN {"migration"}
             ELSE IF "backup" \in Policy[p].stateful THEN {"backup"} ELSE {"reserve"}
        /\ Dependencies(p, "migration") =
             IF "backup" \in Policy[p].stateful THEN {"backup"} ELSE {"reserve"}
        /\ Dependencies(p, "backup") = {"reserve"}
        /\ Dependencies(p, "reserve") = {"reduce"}
        /\ Dependencies(p, "reduce") = {"build"} \cup Verifications(p)
    BY <1>2 DEF Dependencies, Mutation
  <2>4. ASSUME NEW x \in NodesOf[p], nd[x] = "succeeded" \/ x = n, x = "migration" \/ x = "backup"
        PROVE  nd["reserve"] = "succeeded" /\ "reserve" \in NodesOf[p]
    <3>1. CASE x = "backup"
      BY <2>2, <2>3, <2>4, <3>1
    <3>2. CASE x = "migration"
      <4>1. "reserve" \in Dependencies(p, x) \/ "backup" \in Dependencies(p, x)
        BY <2>3, <3>2
      <4> QED
        BY <2>2, <2>3, <2>4, <4>1
    <3> QED
      BY <2>4, <3>1, <3>2
  <2>5. ASSUME "candidate" \in NodesOf[p], nd["candidate"] = "succeeded" \/ "candidate" = n
        PROVE  nd["reserve"] = "succeeded" /\ "reserve" \in NodesOf[p]
    <3>1. PICK y \in {"migration", "backup", "reserve"} : y \in Dependencies(p, "candidate")
      BY <2>3
    <3>2. y \in NodesOf[p] /\ nd[y] = "succeeded"
      BY <2>2, <2>5, <3>1
    <3> QED
      BY <2>4, <3>1, <3>2
  <2>6. ASSUME "cutover" \in NodesOf[p], nd["cutover"] = "succeeded" \/ "cutover" = n
        PROVE  nd["reserve"] = "succeeded" /\ "reserve" \in NodesOf[p]
    BY <2>2, <2>3, <2>5, <2>6
  <2>7. nd["reserve"] = "succeeded" /\ "reserve" \in NodesOf[p]
    <3>1. CASE n = "observe"
      BY <1>1, <2>2, <2>3, <2>6, <3>1
    <3>2. CASE n \in {"backup", "migration", "candidate", "cutover"}
      BY <1>1, <2>4, <2>5, <2>6, <3>2
    <3> QED
      BY <2>1, <3>1, <3>2 DEF Mutation
  <2>8. nd["reduce"] = "succeeded" /\ "reduce" \in NodesOf[p]
    BY <2>2, <2>3, <2>7
  <2> QED
    BY <1>1, <2>2, <2>3, <2>8
<1> QED
  BY <1>1, <1>3, <1>4

--------------------------------------------------------------------------------
(* One attempt                                                                 *)

LEMMA FunctionIsList ==
  ASSUME NEW S, NEW n \in Nat, NEW z \in [1..n -> S]
  PROVE  z \in Seq(S) /\ Len(z) = n
<1>1. z \in Seq(S)
  OBVIOUS
<1> QED
  BY <1>1

(* The empty list is the one of length zero.                                  *)
LEMMA EmptyList ==
  ASSUME NEW S, NEW z \in Seq(S)
  PROVE  z = << >> <=> Len(z) = 0
OBVIOUS

(* What a lease row is, and what closing one leaves of it.                     *)
LEMMA CloseFacts ==
  ASSUME NEW l \in LeaseRows, NEW st \in LeaseStates, NEW debt \in BOOLEAN
  PROVE  /\ Close(l, st, debt) \in LeaseRows
         /\ Close(l, st, debt).state = st
         /\ Close(l, st, debt).worker = l.worker
         /\ Close(l, st, debt).shared = l.shared
         /\ debt => HasDebt(Close(l, st, debt))
<1>1. PICK c \in {"none", "pending"} :
        /\ debt => c = "pending"
        /\ Close(l, st, debt) =
             [l EXCEPT !.state = st, !.expires = 0, !.deadline = 0, !.cleanup = c]
  BY DEF Close
<1>2. PICK z : z = [l EXCEPT !.state = st, !.expires = 0, !.deadline = 0, !.cleanup = c]
  OBVIOUS
<1>3. z \in LeaseRows
  <2>1. z = [worker |-> l.worker, state |-> st, expires |-> 0, deadline |-> 0,
             shared |-> l.shared, cleanup |-> c]
    BY <1>2 DEF LeaseRows
  <2>2. l.shared \in BOOLEAN /\ l.worker \in Workers
    BY DEF LeaseRows
  <2> QED
    BY <2>1, <2>2 DEF LeaseRows
<1>4. z.state = st /\ z.worker = l.worker /\ z.shared = l.shared /\ z.cleanup = c
  BY <1>2 DEF LeaseRows
<1> QED
  BY <1>1, <1>2, <1>3, <1>4 DEF HasDebt

(* A sequence of leases that differs from another one only in the times and    *)
(* the cleanup of its rows.                                                    *)
SameLeases(s, u) ==
  /\ u \in Seq(LeaseRows) /\ Len(u) = Len(s)
  /\ \A g \in 1..Len(s) : /\ u[g].state = s[g].state /\ u[g].worker = s[g].worker
                          /\ u[g].shared = s[g].shared

(* Leases that differ in their times and receipts only agree on what counts.  *)
LEMMA SameNewest ==
  ASSUME NEW s \in Seq(LeaseRows), NEW u, SameLeases(s, u)
  PROVE  /\ DOMAIN u = DOMAIN s /\ (u = << >> <=> s = << >>)
         /\ Runs(u) <=> Runs(s)
         /\ s # << >> => /\ Newest(u).state = Newest(s).state
                         /\ Newest(u).worker = Newest(s).worker
                         /\ Newest(u).shared = Newest(s).shared
<1>1. DOMAIN u = 1..Len(u) /\ DOMAIN s = 1..Len(s) /\ Len(s) \in Nat /\ Len(u) = Len(s)
  BY DEF SameLeases
<1>2. (u = << >> <=> Len(u) = 0) /\ (s = << >> <=> Len(s) = 0)
  BY DEF SameLeases
<1>3. s # << >> => Len(s) \in 1..Len(s)
  BY <1>1, <1>2
<1> QED
  BY <1>1, <1>2, <1>3 DEF SameLeases, Runs, Newest

(* Times and cleanup carry no part of the invariant.                           *)
LEMMA SameRow ==
  ASSUME NEW r \in Requests, NEW rq, NEW at, NEW mu, NEW cl, NEW nd, NEW ls, NEW b,
         RowSound(r, rq, at, mu, cl, nd, ls, b),
         NEW c \in {"complete", "pending"}, NEW us, DOMAIN us = NodesOf[r.project],
         \A n \in NodesOf[r.project] : SameLeases(ls[n], us[n])
  PROVE  RowSound(r, rq, at, mu, c, nd, us, b)
<1>1. PICK p \in Projects : p = r.project
  BY RequestFacts
<1>2. \A n \in NodesOf[p] : ls[n] \in Seq(LeaseRows)
  BY <1>1 DEF RowSound, NodesSound, NodeSound
<1>3. ASSUME NEW n \in NodesOf[p]
      PROVE  /\ DOMAIN us[n] = DOMAIN ls[n] /\ (us[n] = << >> <=> ls[n] = << >>)
             /\ Runs(us[n]) <=> Runs(ls[n])
             /\ ls[n] # << >> => /\ Newest(us[n]).state = Newest(ls[n]).state
                                 /\ Newest(us[n]).worker = Newest(ls[n]).worker
                                 /\ Newest(us[n]).shared = Newest(ls[n]).shared
             /\ us[n] \in Seq(LeaseRows) /\ Len(us[n]) = Len(ls[n])
             /\ \A g \in DOMAIN ls[n] : /\ us[n][g].state = ls[n][g].state
                                        /\ us[n][g].worker = ls[n][g].worker
  <2>1. ls[n] \in Seq(LeaseRows) /\ SameLeases(ls[n], us[n])
    BY <1>1, <1>2
  <2>2. DOMAIN ls[n] = 1..Len(ls[n])
    BY <2>1
  <2> QED
    BY <2>1, <2>2, SameNewest DEF SameLeases
<1>4. ColumnsSound(rq, at, mu, c)
  BY DEF RowSound, ColumnsSound
<1>5. NodesSound(p, nd, us)
  <2>1. ASSUME NEW n \in NodesOf[p] PROVE NodeSound(n, nd[n], us[n])
    <3>1. NodeSound(n, nd[n], ls[n])
      BY <1>1 DEF RowSound, NodesSound
    <3> QED
      BY <1>3, <3>1 DEF NodeSound
  <2> QED
    BY <1>1, <2>1 DEF RowSound, NodesSound
<1>6. DependenciesDone(p, nd, us)
  BY <1>1, <1>3 DEF RowSound, DependenciesDone
<1>7. AttemptSound(r, at, mu, nd, us)
  BY <1>1, <1>3 DEF RowSound, AttemptSound
<1>8. SharedSound(r, us, b)
  <2>1. SharedSound(r, ls, b)
    BY DEF RowSound
  <2>2. \A n \in NodesOf[p] : Runs(us[n]) => ls[n] # << >> /\ Runs(ls[n])
    BY <1>3 DEF Runs
  <2> QED
    BY <1>1, <1>3, <2>1, <2>2 DEF SharedSound
<1> QED
  BY <1>1, <1>4, <1>5, <1>6, <1>7, <1>8 DEF RowSound

(* A leased node whose lease is closed, by an expiry or by a receipt.          *)
LEMMA ClosedNode ==
  ASSUME NEW n, NEW s, NodeSound(n, "leased", s),
         NEW st \in {"expired", "committed"}, NEW debt \in BOOLEAN, NEW u,
         u = [s EXCEPT ![Len(s)] = Close(@, st, debt)],
         NEW x \in {"ready", "failed", "needs_reconcile", "succeeded"},
         x = "succeeded" => st = "committed"
  PROVE  /\ NodeSound(n, x, u) /\ ~Runs(u) /\ u # << >> /\ s # << >>
         /\ DOMAIN u = DOMAIN s /\ \A g \in DOMAIN s : u[g].worker = s[g].worker
<1>1. s \in Seq(LeaseRows) /\ Runs(s) /\ s # << >>
  BY DEF NodeSound, Runs
<1>2. PICK k \in Nat : k = Len(s)
  BY <1>1
<1>3. k \in 1..k /\ DOMAIN s = 1..k /\ s[k] \in LeaseRows
  BY <1>1, <1>2
<1>4. PICK l : l = Close(s[k], st, debt)
  OBVIOUS
<1>5. l \in LeaseRows /\ l.state = st /\ l.worker = s[k].worker
  <2>1. st \in LeaseStates
    BY DEF LeaseStates
  <2> QED
    BY <1>3, <1>4, <2>1, CloseFacts
<1>6. u = [s EXCEPT ![k] = l]
  BY <1>2, <1>4
<1>7. u \in Seq(LeaseRows) /\ Len(u) = k /\ DOMAIN u = 1..k
  BY <1>1, <1>2, <1>3, <1>5, <1>6
<1>8. u[k] = l /\ \A g \in 1..k : g # k => u[g] = s[g]
  BY <1>3, <1>6
<1>9. u # << >> /\ Newest(u) = l
  BY <1>3, <1>7, <1>8 DEF Newest
<1>10. ~Runs(u)
  BY <1>5, <1>9 DEF Runs
<1>11. \A g \in 1..k : s[g].state = "active" => g = k
  BY <1>2, <1>3 DEF NodeSound
<1>12. \A g \in 1..k : u[g].state = "active" => g = k
  BY <1>8, <1>11
<1>13. NodeSound(n, x, u)
  <2>1. x \in NodeStates /\ x # "leased"
    BY DEF NodeStates
  <2>2. n # "rollback"
    BY <1>1 DEF NodeSound
  <2> QED
    BY <1>5, <1>7, <1>9, <1>10, <1>12, <2>1, <2>2 DEF NodeSound
<1> QED
  BY <1>1, <1>3, <1>5, <1>7, <1>8, <1>9, <1>10, <1>13

(* An attempt one of whose leases is closed.                                   *)
CloseNewest(s, st, debt) == [s EXCEPT ![Len(s)] = Close(@, st, debt)]
ClosesRow(p, nd, ls, n, st, debt, x, ns, us) ==
  /\ n \in NodesOf[p] /\ nd[n] = "leased"
  /\ st \in {"expired", "committed"} /\ debt \in BOOLEAN
  /\ x \in {"ready", "failed", "needs_reconcile", "succeeded"}
  /\ x = "succeeded" => st = "committed"
  /\ us = [ls EXCEPT ![n] = CloseNewest(ls[n], st, debt)]
  /\ ns = [nd EXCEPT ![n] = x]

(* Closing the newest lease of a leased node keeps its attempt sound.         *)
LEMMA ClosedRow ==
  ASSUME NEW r \in Requests, NEW rq, NEW at, NEW mu, NEW cl, NEW nd, NEW ls, NEW b,
         RowSound(r, rq, at, mu, cl, nd, ls, b), NEW c, c \in {"complete", "pending"},
         NEW n, NEW st, NEW debt, NEW x, NEW ns, NEW us,
         ClosesRow(r.project, nd, ls, n, st, debt, x, ns, us)
  PROVE  RowSound(r, rq, at, mu, c, ns, us, b) /\ at \notin Early \cup Over
<1> USE DEF ClosesRow
<1>1. PICK p \in Projects : p = r.project
  BY RequestFacts
<1>2. PICK u : u = CloseNewest(ls[n], st, debt)
  OBVIOUS
<1>3. NodeSound(n, "leased", ls[n]) /\ DOMAIN nd = NodesOf[p] /\ DOMAIN ls = NodesOf[p]
  BY <1>1 DEF RowSound, NodesSound
<1>4. /\ NodeSound(n, x, u) /\ ~Runs(u) /\ u # << >> /\ ls[n] # << >>
      /\ DOMAIN u = DOMAIN ls[n] /\ \A g \in DOMAIN ls[n] : u[g].worker = ls[n][g].worker
  <2>1. PICK s : s = ls[n]
    OBVIOUS
  <2>2. NodeSound(n, "leased", s) /\ u = [s EXCEPT ![Len(s)] = Close(@, st, debt)]
    BY <1>2, <1>3, <2>1 DEF CloseNewest
  <2> QED
    BY <2>1, <2>2, ClosedNode
<1>5. /\ DOMAIN us = NodesOf[p] /\ DOMAIN ns = NodesOf[p] /\ us[n] = u /\ ns[n] = x
      /\ \A m \in NodesOf[p] : m # n => us[m] = ls[m] /\ ns[m] = nd[m]
  BY <1>1, <1>2, <1>3
<1>6. at \notin Early /\ at \notin Over
  BY <1>1, <1>4 DEF RowSound, AttemptSound, LiveNodeStates
<1>7. ColumnsSound(rq, at, mu, c)
  BY DEF RowSound, ColumnsSound
<1>8. NodesSound(p, ns, us)
  BY <1>1, <1>4, <1>5 DEF RowSound, NodesSound
<1>9. DependenciesDone(p, ns, us)
  <2>1. ASSUME NEW m \in NodesOf[p], ns[m] \in Started \/ us[m] # << >>
        PROVE  \A o \in Dependencies(p, m) : ns[o] = "succeeded"
    <3>1. nd[m] \in Started \/ ls[m] # << >>
      BY <1>4, <1>5, <2>1
    <3>2. \A o \in Dependencies(p, m) : nd[o] = "succeeded" /\ o \in NodesOf[p]
      BY <1>1, <3>1, GraphFacts DEF RowSound, DependenciesDone
    <3> QED
      BY <1>5, <3>2
  <2> QED
    BY <2>1 DEF DependenciesDone
<1>10. AttemptSound(r, at, mu, ns, us)
  <2>1. AttemptSound(r, at, mu, nd, ls)
    BY DEF RowSound
  <2>2. ~Handoff(p) => "rollback" \in NodesOf[p] /\ n # "rollback"
    BY <1>1, <1>3, <1>6, <2>1, GraphFacts DEF AttemptSound, Early
  <2>3. r.mode = "shadow" => ShadowExecutes(p, n)
    BY <1>1, <1>4, <2>1 DEF AttemptSound
  <2>4. at # None /\ ~Handoff(p) => ns["rollback"] \in {"dormant", "cancelled"}
    BY <1>1, <1>5, <2>1, <2>2 DEF AttemptSound
  <2> QED
    BY <1>1, <1>5, <1>6, <2>1, <2>3, <2>4 DEF AttemptSound, Early
<1>11. SharedSound(r, us, b)
  BY <1>1, <1>4, <1>5 DEF RowSound, SharedSound
<1> QED
  BY <1>1, <1>6, <1>7, <1>8, <1>9, <1>10, <1>11 DEF RowSound

(* Readiness passes on to the nodes whose dependencies are done.               *)
LEMMA AdvancedRow ==
  ASSUME NEW r \in Requests, NEW rq, NEW at, NEW mu, NEW cl, NEW nd, NEW ls, NEW b,
         RowSound(r, rq, at, mu, cl, nd, ls, b), at \notin Early,
         NEW ns, ns = [n \in DOMAIN nd |->
                         IF /\ nd[n] = "blocked"
                            /\ \A m \in DependsOn[r.project][n] : nd[m] = "succeeded"
                         THEN "ready" ELSE nd[n]]
  PROVE  /\ RowSound(r, rq, at, mu, cl, ns, ls, b)
         /\ \A n \in NodesOf[r.project] : ns[n] = "leased" <=> nd[n] = "leased"
<1>1. PICK p \in Projects : p = r.project
  BY RequestFacts
<1>2. DOMAIN nd = NodesOf[p]
  BY <1>1 DEF RowSound, NodesSound
<1>3. DOMAIN ns = NodesOf[p]
  BY <1>2
<1>4. ASSUME NEW n \in NodesOf[p]
      PROVE  \/ ns[n] = nd[n]
             \/ /\ nd[n] = "blocked" /\ ns[n] = "ready"
                /\ \A m \in Dependencies(p, n) : nd[m] = "succeeded"
  BY <1>1, <1>2, GraphFacts
<1>5. \A n \in NodesOf[p] : nd[n] = "succeeded" => ns[n] = "succeeded"
  BY <1>4
<1>6. NodesSound(p, ns, ls)
  <2>1. ASSUME NEW n \in NodesOf[p] PROVE NodeSound(n, ns[n], ls[n])
    <3>1. NodeSound(n, nd[n], ls[n])
      BY <1>1 DEF RowSound, NodesSound
    <3> QED
      BY <1>4, <3>1 DEF NodeSound, NodeStates
  <2> QED
    BY <1>1, <1>3, <2>1 DEF RowSound, NodesSound
<1>7. DependenciesDone(p, ns, ls)
  <2>1. ASSUME NEW n \in NodesOf[p], ns[n] \in Started \/ ls[n] # << >>
        PROVE  \A m \in Dependencies(p, n) : ns[m] = "succeeded"
    <3>1. \A m \in Dependencies(p, n) : m \in NodesOf[p]
      BY GraphFacts
    <3>2. \A m \in Dependencies(p, n) : nd[m] = "succeeded"
      BY <1>1, <1>4, <2>1 DEF RowSound, DependenciesDone
    <3> QED
      BY <1>5, <3>1, <3>2
  <2> QED
    BY <2>1 DEF DependenciesDone
<1>8. AttemptSound(r, at, mu, ns, ls)
  <2>1. AttemptSound(r, at, mu, nd, ls)
    BY DEF RowSound
  <2>2. at # None
    BY DEF Early
  <2>3. at \in Over => \A n \in NodesOf[p] : ns[n] = nd[n]
    BY <1>1, <1>4, <2>1 DEF AttemptSound, LiveNodeStates
  <2>4. ~Handoff(p) => "rollback" \in NodesOf[p] /\ ns["rollback"] = nd["rollback"]
    BY <1>1, <1>4, <2>1, <2>2, GraphFacts DEF AttemptSound
  <2>5. \A n \in NodesOf[p] : nd[n] = "cancelled" => ns[n] = "cancelled"
    BY <1>4
  <2> QED
    BY <1>1, <2>1, <2>2, <2>3, <2>4, <2>5 DEF AttemptSound, Early
<1>9. \A n \in NodesOf[p] : ns[n] = "leased" <=> nd[n] = "leased"
  BY <1>4
<1> QED
  BY <1>1, <1>6, <1>7, <1>8, <1>9 DEF RowSound

(* Every lease of an attempt is revoked and every open node cancelled.         *)
RevokedAll(s) ==
  [g \in DOMAIN s |-> IF s[g].state = "active" THEN Close(s[g], "revoked", TRUE) ELSE s[g]]
CancelledIfOpen(x) == IF x \in LiveNodeStates THEN "cancelled" ELSE x

(* Revoking the leases of a node leaves none of them active.                  *)
LEMMA RevokedLeases ==
  ASSUME NEW n, NEW x, NEW s, NodeSound(n, x, s), NEW u, NEW y,
         u = RevokedAll(s), y = CancelledIfOpen(x)
  PROVE  /\ NodeSound(n, y, u) /\ ~Runs(u) /\ (u = << >> <=> s = << >>)
         /\ DOMAIN u = DOMAIN s /\ \A g \in DOMAIN s : u[g].worker = s[g].worker
<1>1. s \in Seq(LeaseRows) /\ x \in NodeStates
  BY DEF NodeSound
<1>2. PICK k \in Nat : k = Len(s)
  BY <1>1
<1>3. DOMAIN s = 1..k /\ \A g \in 1..k : s[g] \in LeaseRows
  BY <1>1, <1>2
<1>4. ASSUME NEW g \in 1..k
      PROVE  /\ u[g] \in LeaseRows /\ u[g].state # "active" /\ u[g].worker = s[g].worker
             /\ s[g].state # "active" => u[g] = s[g]
  <2>1. CASE s[g].state = "active"
    <3>1. u[g] = Close(s[g], "revoked", TRUE)
      BY <1>3, <2>1 DEF RevokedAll
    <3>2. s[g] \in LeaseRows /\ "revoked" \in LeaseStates /\ TRUE \in BOOLEAN
      BY <1>3 DEF LeaseStates
    <3>3. /\ Close(s[g], "revoked", TRUE) \in LeaseRows
          /\ Close(s[g], "revoked", TRUE).state = "revoked"
          /\ Close(s[g], "revoked", TRUE).worker = s[g].worker
      BY <3>2, CloseFacts
    <3> QED
      BY <2>1, <3>1, <3>3
  <2>2. CASE s[g].state # "active"
    BY <1>3, <2>2 DEF RevokedAll
  <2> QED
    BY <2>1, <2>2
<1>5. u \in [1..k -> LeaseRows]
  BY <1>3, <1>4 DEF RevokedAll
<1>6. u \in Seq(LeaseRows) /\ Len(u) = k
  BY <1>5, FunctionIsList
<1>7. DOMAIN u = 1..k
  BY <1>5
<1>8. (u = << >> <=> k = 0) /\ (s = << >> <=> k = 0)
  <2>1. u = << >> <=> Len(u) = 0
    BY <1>6, EmptyList
  <2>2. s = << >> <=> Len(s) = 0
    BY <1>1, EmptyList
  <2> QED
    BY <1>2, <1>6, <2>1, <2>2
<1>9. k # 0 => k \in 1..k
  OBVIOUS
<1>10. ~Runs(u)
  BY <1>4, <1>6, <1>8, <1>9 DEF Runs, Newest
<1>11. y \in NodeStates /\ y # "leased" /\ (y = "succeeded" => x = "succeeded")
  BY <1>1 DEF NodeStates, LiveNodeStates, CancelledIfOpen
<1>12. ASSUME y = "succeeded", n # "reduce"
       PROVE  u # << >> /\ Newest(u).state = "committed"
  <2>1. s # << >> /\ Newest(s).state = "committed"
    BY <1>11, <1>12 DEF NodeSound
  <2> QED
    BY <1>2, <1>4, <1>6, <1>8, <1>9, <2>1 DEF Newest
<1>13. NodeSound(n, y, u)
  BY <1>4, <1>6, <1>7, <1>8, <1>10, <1>11, <1>12 DEF NodeSound
<1> QED
  BY <1>3, <1>4, <1>7, <1>8, <1>10, <1>13

(* What may happen to a lease of an attempt without its worker: nothing, or it *)
(* is closed and the worker owes a cleanup receipt.                            *)
SettledLease(l, k) ==
  \/ k = l
  \/ l.state = "active" /\ k.state # "active" /\ k.worker = l.worker /\ HasDebt(k)
SettledLeases(s, u) == DOMAIN u = DOMAIN s /\ \A g \in DOMAIN s : SettledLease(s[g], u[g])

(* A row in which nothing else happened to leases, no node succeeded and no    *)
(* mutation was taken back.                                                    *)
SettledRow(p, mu, mv, nd, ns, ls, us) ==
  /\ mu # "not_started" => mv # "not_started"
  /\ \A n \in NodesOf[p] : /\ ns[n] = "succeeded" <=> nd[n] = "succeeded"
                           /\ SettledLeases(ls[n], us[n])

(* Retiring an attempt does no more than that to its row.                      *)
LEMMA RevokedSettles ==
  ASSUME NEW p, NEW mu, NEW nd, NEW ls, NodesSound(p, nd, ls), NEW ns, NEW us,
         ns = Cancelled(nd), us = Revoked(ls)
  PROVE  SettledRow(p, mu, mu, nd, ns, ls, us)
<1>1. DOMAIN nd = NodesOf[p] /\ DOMAIN ls = NodesOf[p]
  BY DEF NodesSound
<1>2. ASSUME NEW n \in NodesOf[p]
      PROVE  (ns[n] = "succeeded" <=> nd[n] = "succeeded") /\ SettledLeases(ls[n], us[n])
  <2>1. ns[n] = IF nd[n] \in LiveNodeStates THEN "cancelled" ELSE nd[n]
    BY <1>1 DEF Cancelled
  <2>2. PICK s, u : s = ls[n] /\ u = us[n]
    OBVIOUS
  <2>3. u = [g \in DOMAIN s |-> IF s[g].state = "active" THEN Close(s[g], "revoked", TRUE)
                                ELSE s[g]]
    BY <1>1, <2>2 DEF Revoked
  <2>4. s \in Seq(LeaseRows)
    BY <2>2 DEF NodesSound, NodeSound
  <2>5. ASSUME NEW g \in DOMAIN s PROVE SettledLease(s[g], u[g])
    <3>1. CASE s[g].state = "active"
      <4>1. u[g] = Close(s[g], "revoked", TRUE)
        BY <2>3, <3>1
      <4>2. s[g] \in LeaseRows /\ "revoked" \in LeaseStates /\ TRUE \in BOOLEAN
        BY <2>4 DEF LeaseStates
      <4>3. /\ Close(s[g], "revoked", TRUE).state = "revoked"
            /\ Close(s[g], "revoked", TRUE).worker = s[g].worker
            /\ HasDebt(Close(s[g], "revoked", TRUE))
        BY <4>2, CloseFacts
      <4> QED
        BY <3>1, <4>1, <4>3 DEF SettledLease
    <3>2. CASE s[g].state # "active"
      BY <2>3, <3>2 DEF SettledLease
    <3> QED
      BY <3>1, <3>2
  <2>6. SettledLeases(s, u)
    BY <2>3, <2>5 DEF SettledLeases
  <2> QED
    BY <2>1, <2>2, <2>6 DEF LiveNodeStates
<1> QED
  BY <1>2 DEF SettledRow

(* What closing the newest lease of a leased node leaves of its leases.        *)
LEMMA CloseNewestFacts ==
  ASSUME NEW n, NEW s, NodeSound(n, "leased", s), NEW st \in {"expired", "committed"},
         NEW debt \in BOOLEAN, NEW u, u = CloseNewest(s, st, debt)
  PROVE  /\ DOMAIN u = DOMAIN s /\ Len(s) \in DOMAIN s /\ s[Len(s)].state = "active"
         /\ \A g \in DOMAIN s : g # Len(s) => u[g] = s[g]
         /\ u[Len(s)].state = st /\ u[Len(s)].worker = s[Len(s)].worker
         /\ debt => SettledLeases(s, u)
<1>1. s \in Seq(LeaseRows) /\ s # << >> /\ s[Len(s)].state = "active"
  BY DEF NodeSound, Runs, Newest
<1>2. PICK k \in Nat : k = Len(s) /\ DOMAIN s = 1..k /\ k # 0
  BY <1>1
<1>3. u = [s EXCEPT ![k] = Close(@, st, debt)] /\ k \in DOMAIN s
  BY <1>2 DEF CloseNewest
<1>4. s[k] \in LeaseRows /\ st \in LeaseStates
  BY <1>1, <1>2 DEF LeaseStates
<1>5. PICK l : l = Close(s[k], st, debt)
  OBVIOUS
<1>6. l.state = st /\ l.worker = s[k].worker /\ (debt => HasDebt(l))
  BY <1>4, <1>5, CloseFacts
<1>7. DOMAIN u = DOMAIN s /\ u[k] = l /\ \A g \in DOMAIN s : g # k => u[g] = s[g]
  BY <1>3, <1>5
<1>8. ASSUME debt PROVE SettledLeases(s, u)
  BY <1>1, <1>2, <1>6, <1>7, <1>8 DEF SettledLeases, SettledLease
<1> QED
  BY <1>1, <1>2, <1>3, <1>6, <1>7, <1>8

(* An attempt that is superseded or failed before it began to mutate.          *)
LEMMA RetiredRow ==
  ASSUME NEW r \in Requests, NEW rq, NEW at, NEW mu, NEW cl, NEW nd, NEW ls, NEW b,
         RowSound(r, rq, at, mu, cl, nd, ls, b), at # None, mu = "not_started",
         NEW c \in {"complete", "pending"},
         NEW q \in {"superseded", "terminal"}, NEW a \in {"superseded", "failed"}
  PROVE  /\ RowSound(r, q, a, mu, c, Cancelled(nd), Revoked(ls), b)
         /\ \A n \in NodesOf[r.project] : Cancelled(nd)[n] # "leased"
<1>1. PICK p \in Projects : p = r.project
  BY RequestFacts
<1>2. PICK ns, us : ns = Cancelled(nd) /\ us = Revoked(ls)
  OBVIOUS
<1>3. DOMAIN nd = NodesOf[p] /\ DOMAIN ls = NodesOf[p]
  BY <1>1 DEF RowSound, NodesSound
<1>4. DOMAIN ns = NodesOf[p] /\ DOMAIN us = NodesOf[p]
  BY <1>2, <1>3 DEF Cancelled, Revoked
<1>5. \A n \in NodesOf[p] : ns[n] = IF nd[n] \in LiveNodeStates THEN "cancelled" ELSE nd[n]
  BY <1>2, <1>3 DEF Cancelled
<1>6. ASSUME NEW n \in NodesOf[p]
      PROVE  /\ NodeSound(n, ns[n], us[n]) /\ ~Runs(us[n]) /\ (us[n] = << >> <=> ls[n] = << >>)
             /\ DOMAIN us[n] = DOMAIN ls[n]
             /\ \A g \in DOMAIN ls[n] : us[n][g].worker = ls[n][g].worker
  <2>1. us[n] = RevokedAll(ls[n]) /\ ns[n] = CancelledIfOpen(nd[n])
    BY <1>2, <1>3, <1>5 DEF Revoked, RevokedAll, CancelledIfOpen
  <2>2. NodeSound(n, nd[n], ls[n])
    BY <1>1 DEF RowSound, NodesSound
  <2> QED
    BY <2>1, <2>2, RevokedLeases
<1>7. ASSUME NEW n \in NodesOf[p]
      PROVE  /\ ns[n] \notin LiveNodeStates
             /\ ns[n] \in Started => nd[n] \in Started
             /\ nd[n] = "succeeded" => ns[n] = "succeeded"
             /\ nd[n] = "cancelled" => ns[n] = "cancelled"
             /\ nd[n] = "dormant" => ns[n] = "cancelled"
  BY <1>5 DEF LiveNodeStates, Started
<1>8. ColumnsSound(q, a, mu, c)
  BY DEF ColumnsSound, RequestStates, AttemptStates, MutationStates, LiveAttempts, None, Early
<1>9. NodesSound(p, ns, us)
  BY <1>4, <1>6 DEF NodesSound
<1>10. DependenciesDone(p, ns, us)
  <2>1. ASSUME NEW n \in NodesOf[p], ns[n] \in Started \/ us[n] # << >>
        PROVE  \A m \in Dependencies(p, n) : ns[m] = "succeeded"
    <3>1. \A m \in Dependencies(p, n) : m \in NodesOf[p]
      BY GraphFacts
    <3>2. \A m \in Dependencies(p, n) : nd[m] = "succeeded"
      BY <1>1, <1>6, <1>7, <2>1 DEF RowSound, DependenciesDone
    <3> QED
      BY <1>7, <3>1, <3>2
  <2> QED
    BY <2>1 DEF DependenciesDone
<1>11. AttemptSound(r, a, mu, ns, us)
  <2>1. AttemptSound(r, at, mu, nd, ls)
    BY DEF RowSound
  <2>2. ~Handoff(p) => ns["rollback"] = "cancelled"
    BY <1>1, <1>7, <2>1, GraphFacts DEF AttemptSound
  <2>3. a \notin Early /\ a \notin {None, "waiting_for_mutation"}
    BY DEF Early, None
  <2>4. r.mode = "shadow" => \A n \in NodesOf[p] : ~ShadowExecutes(p, n) =>
            us[n] = << >> /\ ns[n] = "cancelled"
    BY <1>1, <1>6, <1>7, <2>1 DEF AttemptSound
  <2> QED
    BY <1>1, <1>7, <2>2, <2>3, <2>4 DEF AttemptSound
<1>12. SharedSound(r, us, b)
  BY <1>1, <1>6 DEF RowSound, SharedSound
<1>13. \A n \in NodesOf[p] : ns[n] # "leased"
  BY <1>7 DEF LiveNodeStates
<1> QED
  BY <1>1, <1>2, <1>8, <1>9, <1>10, <1>11, <1>12, <1>13 DEF RowSound

(* A new attempt, queued or waiting.                                           *)
LEMMA CreatedRow ==
  ASSUME NEW r \in Requests, NEW rq, NEW at, NEW mu, NEW cl, NEW nd, NEW ls, NEW b,
         RowSound(r, rq, at, mu, cl, nd, ls, b), rq = None,
         NEW waiting \in BOOLEAN,
         NEW a, a = IF waiting THEN "waiting_for_mutation" ELSE "queued",
         NEW ns, ns = [n \in DOMAIN nd |->
                         IF r.mode = "shadow" /\ ~ShadowExecutes(r.project, n) THEN "cancelled"
                         ELSE IF n = "prepare" /\ ~waiting THEN "ready"
                         ELSE IF n = "rollback" THEN "dormant"
                         ELSE "blocked"]
  PROVE  /\ RowSound(r, "active", a, mu, cl, ns, ls, b) /\ mu = "not_started"
         /\ \A n \in NodesOf[r.project] : ns[n] # "leased"
<1>1. PICK p \in Projects : p = r.project
  BY RequestFacts
<1>2. at = None /\ mu = "not_started"
  BY DEF RowSound, ColumnsSound, Early
<1>3. \A n \in NodesOf[p] : ls[n] = << >>
  BY <1>1, <1>2 DEF RowSound, AttemptSound, Early
<1>4. DOMAIN nd = NodesOf[p] /\ DOMAIN ls = NodesOf[p]
  BY <1>1 DEF RowSound, NodesSound
<1>5. DOMAIN ns = NodesOf[p]
  BY <1>4
<1>6. ASSUME NEW n \in NodesOf[p]
      PROVE  /\ ns[n] \in {"cancelled", "ready", "dormant", "blocked"}
             /\ ns[n] = "ready" => n = "prepare" /\ ~waiting
             /\ r.mode = "shadow" /\ ~ShadowExecutes(p, n) => ns[n] = "cancelled"
             /\ n = "rollback" => ns[n] \in {"dormant", "cancelled"}
             /\ n = "prepare" /\ waiting => ns[n] = "blocked"
  <2>1. ShadowExecutes(p, "prepare")
    BY DEF ShadowExecutes
  <2> QED
    BY <1>1, <1>4, <2>1
<1>7. ColumnsSound("active", a, mu, cl)
  BY <1>2 DEF RowSound, ColumnsSound, RequestStates, AttemptStates, LiveAttempts, Early, None
<1>8. NodesSound(p, ns, ls)
  <2>1. ASSUME NEW n \in NodesOf[p] PROVE NodeSound(n, ns[n], ls[n])
    <3>1. ns[n] \in NodeStates /\ ns[n] # "leased" /\ ns[n] # "succeeded"
      BY <1>6 DEF NodeStates
    <3>2. ls[n] = << >>
      BY <1>3
    <3>3. NodeSound(n, ns[n], << >>)
      BY <3>1 DEF NodeSound, Runs
    <3> QED
      BY <3>2, <3>3
  <2> QED
    BY <1>4, <1>5, <2>1 DEF NodesSound
<1>9. DependenciesDone(p, ns, ls)
  <2>1. ASSUME NEW n \in NodesOf[p], ns[n] \in Started \/ ls[n] # << >>
        PROVE  Dependencies(p, n) = {}
    BY <1>3, <1>6, <2>1, GraphFacts DEF Started
  <2> QED
    BY <2>1 DEF DependenciesDone
<1>10. AttemptSound(r, a, mu, ns, ls)
  <2>1. "prepare" \in NodesOf[p] /\ (~Handoff(p) => "rollback" \in NodesOf[p])
    BY GraphFacts
  <2>2. a \notin Over /\ (a \in {None, "waiting_for_mutation"} => waiting)
    BY DEF Over, None
  <2>3. \A n \in NodesOf[p] : n # "prepare" => ns[n] \notin Started
    BY <1>6 DEF Started
  <2> QED
    BY <1>1, <1>2, <1>3, <1>6, <2>1, <2>2, <2>3 DEF AttemptSound
<1>11. \A n \in NodesOf[p] : ns[n] # "leased"
  BY <1>6
<1> QED
  BY <1>1, <1>2, <1>7, <1>8, <1>9, <1>10, <1>11 DEF RowSound

(* A waiting attempt that is queued because the lock is free.                  *)
WokenNodes(nd) == IF nd["prepare"] = "blocked" THEN [nd EXCEPT !["prepare"] = "ready"] ELSE nd

(* An attempt that waited for the lock becomes queued.                        *)
LEMMA WokenRow ==
  ASSUME NEW r \in Requests, NEW rq, NEW at, NEW mu, NEW cl, NEW nd, NEW ls, NEW b,
         RowSound(r, rq, at, mu, cl, nd, ls, b), at = "waiting_for_mutation",
         NEW ns, ns = WokenNodes(nd)
  PROVE  /\ RowSound(r, rq, "queued", mu, cl, ns, ls, b)
         /\ \A n \in NodesOf[r.project] : ns[n] # "leased"
<1>1. PICK p \in Projects : p = r.project
  BY RequestFacts
<1>2. DOMAIN nd = NodesOf[p]
  BY <1>1 DEF RowSound, NodesSound
<1>3. ns = [nd EXCEPT !["prepare"] = "ready"] /\ nd["prepare"] = "blocked"
  BY DEF RowSound, AttemptSound, WokenNodes
<1>4. /\ DOMAIN ns = NodesOf[p] /\ "prepare" \in NodesOf[p] /\ ns["prepare"] = "ready"
      /\ \A n \in NodesOf[p] : n # "prepare" => ns[n] = nd[n]
  BY <1>2, <1>3, GraphFacts
<1>5. \A n \in NodesOf[p] : ls[n] = << >> /\ (n # "prepare" => nd[n] \notin Started)
  BY <1>1 DEF RowSound, AttemptSound, Early
<1>6. ColumnsSound(rq, "queued", mu, cl)
  BY DEF RowSound, ColumnsSound, AttemptStates, LiveAttempts, Early, None
<1>7. NodesSound(p, ns, ls)
  <2>1. ASSUME NEW n \in NodesOf[p] PROVE NodeSound(n, ns[n], ls[n])
    <3>1. NodeSound(n, nd[n], ls[n])
      BY <1>1 DEF RowSound, NodesSound
    <3>2. n = "prepare" => ls[n] = << >> /\ ns[n] = "ready"
      BY <1>4, <1>5
    <3> QED
      BY <1>4, <3>1, <3>2 DEF NodeSound, Runs, NodeStates
  <2> QED
    BY <1>1, <1>4, <2>1 DEF RowSound, NodesSound
<1>8. DependenciesDone(p, ns, ls)
  <2>1. ASSUME NEW n \in NodesOf[p], ns[n] \in Started \/ ls[n] # << >>
        PROVE  Dependencies(p, n) = {}
    BY <1>4, <1>5, <2>1, GraphFacts
  <2> QED
    BY <2>1 DEF DependenciesDone
<1>9. AttemptSound(r, "queued", mu, ns, ls)
  <2>1. AttemptSound(r, at, mu, nd, ls)
    BY DEF RowSound
  <2>2. "rollback" # "prepare" /\ (~Handoff(p) => "rollback" \in NodesOf[p])
    BY GraphFacts
  <2>3. ShadowExecutes(p, "prepare")
    BY DEF ShadowExecutes
  <2> QED
    BY <1>1, <1>4, <1>5, <2>1, <2>2, <2>3 DEF AttemptSound, Over, Early, None
<1>10. \A n \in NodesOf[p] : ns[n] # "leased"
  BY <1>4, <1>5 DEF Started
<1> QED
  BY <1>1, <1>6, <1>7, <1>8, <1>9, <1>10 DEF RowSound

(* The lease that a claim appends.                                             *)
NewLease(r, n, w) ==
  [worker |-> w, state |-> "active", expires |-> Smaller(LeaseTicks, Timeout[n]),
   deadline |-> Timeout[n], shared |-> UsesOperationState(r.project, n), cleanup |-> "none"]

(* The lease a claim writes.                                                  *)
LEMMA NewLeaseFacts ==
  ASSUME NEW r \in Requests, NEW n \in NodesOf[r.project], NEW w \in Workers
  PROVE  /\ NewLease(r, n, w) \in LeaseRows
         /\ NewLease(r, n, w).state = "active" /\ NewLease(r, n, w).worker = w
         /\ NewLease(r, n, w).shared <=> UsesOperationState(r.project, n)
<1>1. n \in Nodes
  BY RequestFacts, GraphFacts
<1>2. Timeout[n] \in Int /\ Smaller(LeaseTicks, Timeout[n]) \in Int
  BY <1>1, SchedulerAssumption DEF Smaller
<1>3. UsesOperationState(r.project, n) \in BOOLEAN
  BY DEF UsesOperationState
<1>4. NewLease(r, n, w) \in LeaseRows
  BY <1>2, <1>3 DEF NewLease, LeaseRows, LeaseStates
<1> QED
  BY <1>4 DEF NewLease

(* A ready node of a running attempt is leased.  Compiled state that it shares *)
(* is idle on a VPS worker and bound to the claiming worker when the policy is *)
(* serial.                                                                     *)
LEMMA LeasedRow ==
  ASSUME NEW r \in Requests, NEW rq, NEW at, NEW mu, NEW cl, NEW nd, NEW ls, NEW b,
         RowSound(r, rq, at, mu, cl, nd, ls, b), at \in {"queued", "running"},
         NEW n \in NodesOf[r.project], nd[n] = "ready", NEW w \in Workers,
         UsesOperationState(r.project, n) /\ VpsCapable(w) =>
           \A m \in NodesOf[r.project] :
             ~(Runs(ls[m]) /\ Newest(ls[m]).worker = w /\ Newest(ls[m]).shared),
         UsesOperationState(r.project, n) /\ Policy[r.project].serial =>
           b # NoBinding /\ b.worker = w,
         NEW us, us = [ls EXCEPT ![n] = Append(@, NewLease(r, n, w))],
         NEW ns, ns = [nd EXCEPT ![n] = "leased"]
  PROVE  RowSound(r, rq, "running", mu, cl, ns, us, b)
<1>1. PICK p \in Projects : p = r.project
  BY RequestFacts
<1>2. PICK l : l = NewLease(r, n, w)
  OBVIOUS
<1>3. l \in LeaseRows /\ l.state = "active" /\ l.worker = w /\ (l.shared <=> UsesOperationState(p, n))
  BY <1>1, <1>2, NewLeaseFacts
<1>4. DOMAIN nd = NodesOf[p] /\ DOMAIN ls = NodesOf[p] /\ NodeSound(n, nd[n], ls[n])
  BY <1>1 DEF RowSound, NodesSound
<1>5. PICK s, u : s = ls[n] /\ u = us[n]
  OBVIOUS
<1>6. /\ DOMAIN us = NodesOf[p] /\ DOMAIN ns = NodesOf[p]
      /\ u = Append(s, l) /\ ns[n] = "leased"
      /\ \A m \in NodesOf[p] : m # n => us[m] = ls[m] /\ ns[m] = nd[m]
  BY <1>1, <1>2, <1>4, <1>5
<1>7. s \in Seq(LeaseRows) /\ ~Runs(s) /\ \A g \in DOMAIN s : s[g].state = "active" => g = Len(s)
  BY <1>4, <1>5 DEF NodeSound
<1>8. PICK k \in Nat : k = Len(s)
  BY <1>7
<1>9. /\ u \in Seq(LeaseRows) /\ Len(u) = k + 1 /\ DOMAIN u = 1..(k + 1) /\ DOMAIN s = 1..k
      /\ u[k + 1] = l /\ \A g \in 1..k : u[g] = s[g]
  BY <1>3, <1>6, <1>7, <1>8
<1>10. u # << >> /\ Newest(u) = l /\ Runs(u)
  <2>1. u # << >>
    BY <1>9, EmptyList
  <2> QED
    BY <1>3, <1>9, <2>1 DEF Newest, Runs
<1>11. \A g \in 1..k : s[g].state # "active"
  <2>1. ASSUME NEW g \in 1..k, s[g].state = "active" PROVE FALSE
    <3>1. g = k /\ g \in DOMAIN s
      BY <1>7, <1>8, <1>9, <2>1
    <3>2. s # << >>
      BY <1>7, <1>8, <2>1, EmptyList
    <3> QED
      BY <1>7, <1>8, <2>1, <3>1, <3>2 DEF Runs, Newest
  <2> QED
    BY <2>1
<1>12. \A g \in DOMAIN u : u[g].state = "active" => g = Len(u)
  <2>1. ASSUME NEW g \in 1..(k + 1), u[g].state = "active" PROVE g = k + 1
    <3>1. g \in 1..k \/ g = k + 1
      OBVIOUS
    <3> QED
      BY <1>9, <1>11, <2>1, <3>1
  <2> QED
    BY <1>9, <2>1
<1>13. n # "rollback"
  <2>1. AttemptSound(r, at, mu, nd, ls) /\ at # None
    BY DEF RowSound, None
  <2>2. CASE Handoff(p)
    BY <1>1, <2>2, PolicyAssumption DEF NodesOf, Mutation
  <2>3. CASE ~Handoff(p)
    BY <1>1, <2>1, <2>3 DEF AttemptSound
  <2> QED
    BY <2>2, <2>3
<1>14. NodeSound(n, "leased", u)
  BY <1>9, <1>10, <1>12, <1>13 DEF NodeSound, NodeStates
<1>15. at \in Early => n = "prepare"
  BY DEF RowSound, AttemptSound, Started
<1>16. ColumnsSound(rq, "running", mu, cl)
  BY DEF RowSound, ColumnsSound, AttemptStates, LiveAttempts, Early, None
<1>17. NodesSound(p, ns, us)
  BY <1>1, <1>5, <1>6, <1>14 DEF RowSound, NodesSound
<1>18. DependenciesDone(p, ns, us)
  <2>1. ASSUME NEW m \in NodesOf[p], ns[m] \in Started \/ us[m] # << >>
        PROVE  \A o \in Dependencies(p, m) : ns[o] = "succeeded"
    <3>1. nd[m] \in Started \/ ls[m] # << >>
      BY <1>6, <2>1 DEF Started
    <3>2. \A o \in Dependencies(p, m) : nd[o] = "succeeded" /\ o \in NodesOf[p]
      BY <1>1, <3>1, GraphFacts DEF RowSound, DependenciesDone
    <3> QED
      BY <1>6, <3>2
  <2> QED
    BY <2>1 DEF DependenciesDone
<1>19. AttemptSound(r, "running", mu, ns, us)
  <2>1. AttemptSound(r, at, mu, nd, ls) /\ at # None
    BY DEF RowSound, None
  <2>2. ~Handoff(p) => "rollback" \in NodesOf[p] /\ ns["rollback"] = nd["rollback"]
    BY <1>6, <1>13, GraphFacts
  <2>3. r.mode = "shadow" => ShadowExecutes(p, n)
    BY <1>1, <2>1 DEF AttemptSound
  <2>4. r.mode = "shadow" => \A m \in NodesOf[p] : ~ShadowExecutes(p, m) =>
            us[m] = << >> /\ ns[m] = "cancelled"
    BY <1>1, <1>6, <2>1, <2>3 DEF AttemptSound
  <2> QED
    BY <1>1, <2>1, <2>2, <2>4 DEF AttemptSound, Over, Early, None
<1>20. SharedSound(r, us, b)
  <2>1. SharedSound(r, ls, b)
    BY DEF RowSound
  <2>2. ASSUME NEW m \in NodesOf[p], NEW o \in NodesOf[p],
               Runs(us[m]), Runs(us[o]), Newest(us[m]).shared, Newest(us[o]).shared,
               Newest(us[m]).worker = Newest(us[o]).worker, VpsCapable(Newest(us[m]).worker)
        PROVE  m = o
    <3>1. CASE m # n /\ o # n
      BY <1>1, <1>6, <2>1, <2>2, <3>1 DEF SharedSound
    <3>2. CASE m = n /\ o # n
      BY <1>1, <1>3, <1>5, <1>6, <1>10, <2>2, <3>2
    <3>3. CASE o = n /\ m # n
      BY <1>1, <1>3, <1>5, <1>6, <1>10, <2>2, <3>3
    <3> QED
      BY <3>1, <3>2, <3>3
  <2>3. ASSUME Policy[p].serial, NEW m \in NodesOf[p], UsesOperationState(p, m),
               NEW g \in DOMAIN us[m]
        PROVE  b # NoBinding /\ us[m][g].worker = b.worker
    <3>1. CASE m # n
      BY <1>1, <1>6, <2>1, <2>3, <3>1 DEF SharedSound
    <3>2. CASE m = n
      <4>1. g \in 1..(k + 1) /\ us[m] = u
        BY <1>5, <1>9, <2>3, <3>2
      <4>2. CASE g = k + 1
        BY <1>1, <1>3, <1>9, <2>3, <3>2, <4>1, <4>2
      <4>3. CASE g \in 1..k
        <5>1. s[g].worker = b.worker /\ b # NoBinding
          BY <1>1, <1>5, <1>9, <2>1, <2>3, <3>2, <4>3 DEF SharedSound
        <5> QED
          BY <1>9, <4>1, <4>3, <5>1
      <4> QED
        BY <4>1, <4>2, <4>3
    <3> QED
      BY <3>1, <3>2
  <2> QED
    BY <1>1, <2>2, <2>3 DEF SharedSound
<1> QED
  BY <1>1, <1>16, <1>17, <1>18, <1>19, <1>20 DEF RowSound

(* The compiled state of an attempt none of whose leases uses it is bound.     *)
LEMMA BoundRow ==
  ASSUME NEW r \in Requests, NEW rq, NEW at, NEW mu, NEW cl, NEW nd, NEW ls, NEW b,
         RowSound(r, rq, at, mu, cl, nd, ls, b), b = NoBinding, NEW bb
  PROVE  RowSound(r, rq, at, mu, cl, nd, ls, bb)
<1>1. SharedSound(r, ls, bb)
  BY DEF RowSound, SharedSound
<1> QED
  BY <1>1 DEF RowSound

(* The reduction of an attempt is done by the controller, without a lease.     *)
LEMMA ReducedRow ==
  ASSUME NEW r \in Requests, NEW rq, NEW at, NEW mu, NEW cl, NEW nd, NEW ls, NEW b,
         RowSound(r, rq, at, mu, cl, nd, ls, b), nd["reduce"] = "ready",
         NEW ns, ns = [nd EXCEPT !["reduce"] = "succeeded"]
  PROVE  /\ RowSound(r, rq, at, mu, cl, ns, ls, b) /\ at \notin Early
         /\ \A n \in NodesOf[r.project] : ns[n] = "leased" <=> nd[n] = "leased"
<1>1. PICK p \in Projects : p = r.project
  BY RequestFacts
<1>2. "reduce" \in NodesOf[p] /\ DOMAIN nd = NodesOf[p]
  BY <1>1, GraphFacts DEF RowSound, NodesSound
<1>3. /\ DOMAIN ns = NodesOf[p] /\ ns["reduce"] = "succeeded"
      /\ \A n \in NodesOf[p] : n # "reduce" => ns[n] = nd[n]
  BY <1>2
<1>4. at \notin Early
  BY <1>1, <1>2 DEF RowSound, AttemptSound, Started
<1>5. NodesSound(p, ns, ls)
  <2>1. ASSUME NEW n \in NodesOf[p] PROVE NodeSound(n, ns[n], ls[n])
    <3>1. NodeSound(n, nd[n], ls[n])
      BY <1>1 DEF RowSound, NodesSound
    <3> QED
      BY <1>3, <3>1 DEF NodeSound, NodeStates
  <2> QED
    BY <1>1, <1>3, <2>1 DEF RowSound, NodesSound
<1>6. DependenciesDone(p, ns, ls)
  <2>1. ASSUME NEW n \in NodesOf[p], ns[n] \in Started \/ ls[n] # << >>
        PROVE  \A m \in Dependencies(p, n) : ns[m] = "succeeded"
    <3>1. nd[n] \in Started \/ ls[n] # << >>
      BY <1>3, <2>1 DEF Started
    <3>2. \A m \in Dependencies(p, n) : nd[m] = "succeeded" /\ m \in NodesOf[p]
      BY <1>1, <3>1, GraphFacts DEF RowSound, DependenciesDone
    <3> QED
      BY <1>3, <3>2
  <2> QED
    BY <2>1 DEF DependenciesDone
<1>7. AttemptSound(r, at, mu, ns, ls)
  <2>1. AttemptSound(r, at, mu, nd, ls)
    BY DEF RowSound
  <2>2. ~Handoff(p) => "rollback" \in NodesOf[p] /\ ns["rollback"] = nd["rollback"]
    BY <1>3, GraphFacts
  <2>3. ShadowExecutes(p, "reduce")
    BY DEF ShadowExecutes
  <2>4. at \in Over => \A n \in NodesOf[p] : ns[n] \notin LiveNodeStates
    BY <1>1, <1>3, <2>1 DEF AttemptSound, LiveNodeStates
  <2> QED
    BY <1>1, <1>3, <1>4, <2>1, <2>2, <2>3, <2>4 DEF AttemptSound, Early
<1>8. \A n \in NodesOf[p] : ns[n] = "leased" <=> nd[n] = "leased"
  BY <1>3
<1> QED
  BY <1>1, <1>4, <1>5, <1>6, <1>7, <1>8 DEF RowSound

(* A running deploy takes the lock.                                            *)
LEMMA OwnedRow ==
  ASSUME NEW r \in Requests, NEW rq, NEW at, NEW mu, NEW cl, NEW nd, NEW ls, NEW b,
         RowSound(r, rq, at, mu, cl, nd, ls, b), at = "running", mu = "not_started",
         r.mode = "deploy"
  PROVE  RowSound(r, rq, at, "owned", cl, nd, ls, b)
<1>1. ColumnsSound(rq, at, "owned", cl)
  BY DEF RowSound, ColumnsSound, MutationStates, Early, None
<1>2. AttemptSound(r, at, "owned", nd, ls)
  BY DEF RowSound, AttemptSound
<1> QED
  BY <1>1, <1>2 DEF RowSound

(* An attempt that owns the mutation stops for an operator.                    *)
LEMMA ReconciledRow ==
  ASSUME NEW r \in Requests, NEW rq, NEW at, NEW mu, NEW cl, NEW nd, NEW ls, NEW b,
         RowSound(r, rq, at, mu, cl, nd, ls, b), mu \in {"owned", "needs_reconcile"},
         NEW c \in {"complete", "pending"}
  PROVE  /\ RowSound(r, rq, "needs_reconcile", "needs_reconcile", c, nd, ls, b)
         /\ at \in LiveAttempts
<1>1. at \in {"running", "needs_reconcile"} /\ r.mode # "shadow"
  BY DEF RowSound, ColumnsSound, AttemptSound
<1>2. ColumnsSound(rq, "needs_reconcile", "needs_reconcile", c)
  BY <1>1 DEF RowSound, ColumnsSound, MutationStates, AttemptStates, LiveAttempts, Early, None
<1>3. AttemptSound(r, "needs_reconcile", "needs_reconcile", nd, ls)
  BY <1>1 DEF RowSound, AttemptSound, Early, Over, None
<1> QED
  BY <1>1, <1>2, <1>3 DEF RowSound, LiveAttempts

(* An attempt that owns the mutation ends with every node but the rollback     *)
(* succeeded.                                                                  *)
LEMMA FinishedRow ==
  ASSUME NEW r \in Requests, NEW rq, NEW at, NEW mu, NEW cl, NEW nd, NEW ls, NEW b,
         RowSound(r, rq, at, mu, cl, nd, ls, b), mu \in {"owned", "needs_reconcile"},
         \A n \in NodesOf[r.project] \ {"rollback"} : nd[n] = "succeeded",
         NEW ns, ns = [n \in DOMAIN nd |-> IF n = "rollback" /\ nd[n] = "dormant"
                                           THEN "cancelled" ELSE nd[n]]
  PROVE  /\ RowSound(r, "terminal", "succeeded", "complete", "complete", ns, ls, b)
         /\ \A n \in NodesOf[r.project] : ns[n] # "leased"
<1>1. PICK p \in Projects : p = r.project
  BY RequestFacts
<1>2. at # None /\ r.mode # "shadow"
  BY DEF RowSound, ColumnsSound, AttemptSound, None
<1>3. DOMAIN nd = NodesOf[p]
  BY <1>1 DEF RowSound, NodesSound
<1>4. "rollback" \in NodesOf[p] => nd["rollback"] \in {"dormant", "cancelled"}
  <2>1. Handoff(p) => "rollback" \notin NodesOf[p]
    BY PolicyAssumption DEF NodesOf, Mutation
  <2> QED
    BY <1>1, <1>2, <2>1 DEF RowSound, AttemptSound
<1>5. /\ DOMAIN ns = NodesOf[p]
      /\ \A n \in NodesOf[p] : IF n = "rollback" THEN ns[n] = "cancelled"
                               ELSE ns[n] = "succeeded" /\ nd[n] = "succeeded"
  BY <1>1, <1>3, <1>4
<1>6. ColumnsSound("terminal", "succeeded", "complete", "complete")
  BY DEF ColumnsSound, RequestStates, AttemptStates, MutationStates, LiveAttempts, Early, None
<1>7. NodesSound(p, ns, ls)
  <2>1. ASSUME NEW n \in NodesOf[p] PROVE NodeSound(n, ns[n], ls[n])
    <3>1. NodeSound(n, nd[n], ls[n])
      BY <1>1 DEF RowSound, NodesSound
    <3>2. n # "rollback" => ns[n] = nd[n]
      BY <1>5
    <3>3. n = "rollback" => nd[n] # "leased" /\ ns[n] = "cancelled"
      BY <1>4, <1>5
    <3> QED
      BY <3>1, <3>2, <3>3 DEF NodeSound, NodeStates
  <2> QED
    BY <1>1, <1>5, <2>1 DEF RowSound, NodesSound
<1>8. DependenciesDone(p, ns, ls)
  <2>1. ASSUME NEW n \in NodesOf[p], ns[n] \in Started \/ ls[n] # << >>,
               NEW m \in Dependencies(p, n)
        PROVE  ns[m] = "succeeded"
    <3>1. nd[n] \in Started \/ ls[n] # << >>
      BY <1>5, <2>1 DEF Started
    <3>2. nd[m] = "succeeded" /\ m \in NodesOf[p]
      BY <1>1, <2>1, <3>1, GraphFacts DEF RowSound, DependenciesDone
    <3> QED
      BY <1>4, <1>5, <3>2
  <2> QED
    BY <2>1 DEF DependenciesDone
<1>9. AttemptSound(r, "succeeded", "complete", ns, ls)
  <2>1. \A n \in NodesOf[p] : ns[n] \notin LiveNodeStates
    BY <1>5 DEF LiveNodeStates
  <2>2. ~Handoff(p) => ns["rollback"] = "cancelled"
    BY <1>5, GraphFacts
  <2> QED
    BY <1>1, <1>2, <2>1, <2>2 DEF AttemptSound, Early, Over, None
<1>10. \A n \in NodesOf[p] : ns[n] # "leased"
  BY <1>5
<1> QED
  BY <1>1, <1>6, <1>7, <1>8, <1>9, <1>10 DEF RowSound

(* A shadow run ends without a mutation.                                       *)
LEMMA ShadowFinishedRow ==
  ASSUME NEW r \in Requests, NEW rq, NEW at, NEW mu, NEW cl, NEW nd, NEW ls, NEW b,
         RowSound(r, rq, at, mu, cl, nd, ls, b), at # None, mu = "not_started",
         \A n \in NodesOf[r.project] : nd[n] \in {"succeeded", "cancelled"}
  PROVE  RowSound(r, "terminal", "succeeded", mu, "complete", nd, ls, b)
<1>1. ColumnsSound("terminal", "succeeded", mu, "complete")
  BY DEF ColumnsSound, RequestStates, AttemptStates, MutationStates, LiveAttempts, Early, None
<1>2. AttemptSound(r, "succeeded", mu, nd, ls)
  BY DEF RowSound, AttemptSound, Early, Over, None, LiveNodeStates
<1> QED
  BY <1>1, <1>2 DEF RowSound

--------------------------------------------------------------------------------
(* The database                                                                *)

(* The columns of the database.                                                *)
Shape(d) ==
  /\ d = [head |-> d.head, triggers |-> d.triggers, queue |-> d.queue,
          request |-> d.request, attempt |-> d.attempt, mutation |-> d.mutation,
          cleanup |-> d.cleanup, node |-> d.node, lease |-> d.lease, bound |-> d.bound,
          lock |-> d.lock, cursor |-> d.cursor, err |-> d.err]
  /\ d.err \in BOOLEAN
  /\ d.request = [r \in Requests |-> d.request[r]]
  /\ d.attempt = [r \in Requests |-> d.attempt[r]]
  /\ d.mutation = [r \in Requests |-> d.mutation[r]]
  /\ d.cleanup = [r \in Requests |-> d.cleanup[r]]
  /\ DOMAIN d.node = Requests /\ DOMAIN d.lease = Requests /\ DOMAIN d.bound = Requests
  /\ DOMAIN d.lock = Projects

RowOK(d, r) ==
  RowSound(r, d.request[r], d.attempt[r], d.mutation[r], d.cleanup[r],
           d.node[r], d.lease[r], d.bound[r])

(* A lock row is empty or names an attempt of its project.                     *)
LockOK(d, p) ==
  \/ d.lock[p] = NoLock
  \/ \E r \in Requests : /\ r.project = p
                         /\ d.lock[p] \in {[owner |-> r, state |-> "held"],
                                           [owner |-> r, state |-> "needs_reconcile"]}

(* An attempt against the lock of its project.                                 *)
HoldsLock(r, at, mu, nd, lock) ==
  /\ mu \in {"owned", "needs_reconcile"} <=> lock.owner = r
  /\ mu = "needs_reconcile" <=> lock = [owner |-> r, state |-> "needs_reconcile"]
  /\ \A n \in NodesOf[r.project] : Exclusive(r, n) /\ nd[n] = "leased" =>
       lock = [owner |-> r, state |-> "held"]
  /\ r.mode = "deploy" /\ at \in {"queued", "running"} => lock.owner \in {NoRequest, r}

LockedOK(d, r) == HoldsLock(r, d.attempt[r], d.mutation[r], d.node[r], d.lock[r.project])

(* Of the live attempts of one project and mode one has not begun to mutate.   *)
Fresh(d, r) == d.attempt[r] \in LiveAttempts /\ d.mutation[r] = "not_started"
OneFresh(d) ==
  \A r, s \in Requests : /\ r # s /\ r.project = s.project /\ r.mode = s.mode
                         => ~(Fresh(d, r) /\ Fresh(d, s))

(* Every request is in the queue.                                              *)
Slots == [request : Requests, priority : Int]
Queued(d, r) == d.request[r] # None => \E i \in DOMAIN d.queue : d.queue[i].request = r

(* The inductive invariant of the scheduler.                                   *)
Good(d) ==
  /\ Shape(d) /\ ~d.err /\ d.queue \in Seq(Slots)
  /\ \A r \in Requests : RowOK(d, r) /\ LockedOK(d, r) /\ Queued(d, r)
  /\ \A p \in Projects : LockOK(d, p)
  /\ OneFresh(d)

(* What a transaction may leave: a sound database, or an error.                *)
Sound(d) == Shape(d) /\ (d.err \/ Good(d))

(* A step that changes the row of one attempt and no lock.                     *)
OnlyRow(d, e, r) ==
  /\ Shape(e) /\ ~e.err /\ e.queue = d.queue /\ e.lock = d.lock
  /\ \A s \in Requests : s # r =>
       /\ e.request[s] = d.request[s] /\ e.attempt[s] = d.attempt[s]
       /\ e.mutation[s] = d.mutation[s] /\ e.cleanup[s] = d.cleanup[s]
       /\ e.node[s] = d.node[s] /\ e.lease[s] = d.lease[s] /\ e.bound[s] = d.bound[s]

(* A change of one row is judged by that row alone.                           *)
LEMMA OneRow ==
  ASSUME NEW d, Good(d), NEW e, NEW r \in Requests, OnlyRow(d, e, r),
         RowOK(e, r), LockedOK(e, r), Fresh(e, r) => Fresh(d, r),
         e.request[r] # None => d.request[r] # None
  PROVE  Good(e)
<1>1. ASSUME NEW s \in Requests PROVE RowOK(e, s) /\ LockedOK(e, s) /\ Queued(e, s)
  <2>1. CASE s = r
    BY <2>1 DEF Good, OnlyRow, Queued
  <2>2. CASE s # r
    <3>1. RowOK(d, s) /\ LockedOK(d, s) /\ Queued(d, s)
      BY DEF Good
    <3> QED
      BY <2>2, <3>1 DEF OnlyRow, RowOK, LockedOK, Queued
  <2> QED
    BY <2>1, <2>2
<1>2. \A p \in Projects : LockOK(e, p)
  BY DEF Good, OnlyRow, LockOK
<1>3. OneFresh(e)
  <2>1. \A s \in Requests : Fresh(e, s) => Fresh(d, s)
    BY DEF OnlyRow, Fresh
  <2> QED
    BY <2>1 DEF Good, OneFresh
<1> QED
  BY <1>1, <1>2, <1>3 DEF Good, OnlyRow

(* The same of the whole database.                                             *)
Settled(d, e) ==
  \A r \in Requests : SettledRow(r.project, d.mutation[r], e.mutation[r], d.node[r], e.node[r],
                                d.lease[r], e.lease[r])

(* What a transaction that no worker takes part in leaves.                     *)
Settles(d, e) == Sound(e) /\ (e.err \/ Settled(d, e))

(* Nothing is changed: everything is settled.                                  *)
LEMMA SettledSame ==
  ASSUME NEW d, NEW e, e.mutation = d.mutation, e.lease = d.lease,
         \A r \in Requests : \A n \in NodesOf[r.project] :
           e.node[r][n] = "succeeded" <=> d.node[r][n] = "succeeded"
  PROVE  Settled(d, e)
BY DEF Settled, SettledRow, SettledLeases, SettledLease

(* Settling twice is settling.                                                 *)
LEMMA SettledTwice ==
  ASSUME NEW d, NEW e, NEW f, Settled(d, e), Settled(e, f)
  PROVE  Settled(d, f)
<1>1. ASSUME NEW r \in Requests, NEW n \in NodesOf[r.project]
      PROVE  SettledLeases(d.lease[r][n], f.lease[r][n])
  <2>1. PICK s, u, v : s = d.lease[r][n] /\ u = e.lease[r][n] /\ v = f.lease[r][n]
    OBVIOUS
  <2>2. SettledLeases(s, u) /\ SettledLeases(u, v)
    BY <2>1 DEF Settled, SettledRow
  <2>3. SettledLeases(s, v)
    BY <2>2 DEF SettledLeases, SettledLease
  <2> QED
    BY <2>1, <2>3
<1>2. ASSUME NEW r \in Requests
      PROVE  SettledRow(r.project, d.mutation[r], f.mutation[r], d.node[r], f.node[r],
                        d.lease[r], f.lease[r])
  BY <1>1 DEF Settled, SettledRow
<1> QED
  BY <1>2 DEF Settled

(* A transaction that begins where everything is settled.                      *)
LEMMA SettlesAfter ==
  ASSUME NEW d, NEW e, NEW f, Settled(d, e), Settles(e, f)
  PROVE  Settles(d, f)
<1>1. CASE f.err
  BY <1>1 DEF Settles
<1>2. CASE ~f.err
  <2>1. Settled(e, f)
    BY <1>2 DEF Settles
  <2>2. Settled(d, f)
    BY <2>1, SettledTwice
  <2> QED
    BY <2>2 DEF Settles
<1> QED
  BY <1>1, <1>2

(* A change of one row settles if the row does.                                *)
LEMMA OneRowSettles ==
  ASSUME NEW d, NEW e, NEW r \in Requests, OnlyRow(d, e, r),
         SettledRow(r.project, d.mutation[r], e.mutation[r], d.node[r], e.node[r],
                    d.lease[r], e.lease[r])
  PROVE  Settled(d, e)
<1>1. ASSUME NEW s \in Requests
      PROVE  SettledRow(s.project, d.mutation[s], e.mutation[s], d.node[s], e.node[s],
                        d.lease[s], e.lease[s])
  <2>1. CASE s = r
    BY <2>1
  <2>2. CASE s # r
    <3>1. e.mutation[s] = d.mutation[s] /\ e.node[s] = d.node[s] /\ e.lease[s] = d.lease[s]
      BY <2>2 DEF OnlyRow
    <3> QED
      BY <3>1 DEF SettledRow, SettledLeases, SettledLease
  <2> QED
    BY <2>1, <2>2
<1> QED
  BY <1>1 DEF Settled

(* A row that changes without a mutation, a lease or a start in it.            *)
Calm(d, e, r) ==
  /\ OnlyRow(d, e, r)
  /\ e.mutation[r] = d.mutation[r]
  /\ \A n \in NodesOf[r.project] : e.node[r][n] = "leased" => d.node[r][n] = "leased"
  /\ e.attempt[r] # d.attempt[r] => e.attempt[r] \in Over
  /\ e.request[r] # None => d.request[r] # None

(* Such a change needs nothing of the lock.                                   *)
LEMMA CalmRow ==
  ASSUME NEW d, Good(d), NEW e, NEW r \in Requests, Calm(d, e, r), RowOK(e, r)
  PROVE  Good(e)
<1>1. LockedOK(d, r)
  BY DEF Good
<1>2. e.lock = d.lock
  BY DEF Calm, OnlyRow
<1>3. e.attempt[r] \in LiveAttempts => e.attempt[r] = d.attempt[r]
  BY DEF Calm, Over, LiveAttempts
<1>4. LockedOK(e, r)
  BY <1>1, <1>2, <1>3 DEF Calm, LockedOK, HoldsLock, LiveAttempts
<1>5. Fresh(e, r) => Fresh(d, r)
  BY <1>3 DEF Calm, Fresh
<1> QED
  BY <1>4, <1>5, OneRow DEF Calm

(* A lease is closed and its node moves on.                                    *)
Closes(d, r, n, st, debt, x) ==
  /\ r \in Requests /\ n \in NodesOf[r.project] /\ d.node[r][n] = "leased"
  /\ st \in {"expired", "committed"} /\ debt \in BOOLEAN
  /\ x \in {"ready", "failed", "needs_reconcile", "succeeded"}
  /\ x = "succeeded" => st = "committed"

Closed(d, e, r, n, st, debt, x) ==
  /\ Closes(d, r, n, st, debt, x)
  /\ OnlyRow(d, e, r)
  /\ e.request[r] = d.request[r] /\ e.attempt[r] = d.attempt[r]
  /\ e.mutation[r] = d.mutation[r] /\ e.bound[r] = d.bound[r]
  /\ e.cleanup[r] \in {"complete", "pending"}
  /\ e.node[r] = [d.node[r] EXCEPT ![n] = x]
  /\ e.lease[r] = [d.lease[r] EXCEPT ![n] = CloseNewest(d.lease[r][n], st, debt)]

NoLongerLeased(d, e, r, n) ==
  \A m \in NodesOf[r.project] : e.node[r][m] = "leased" => m # n /\ d.node[r][m] = "leased"

(* Closing one lease keeps the database sound.                                *)
LEMMA ClosedKeepsGood ==
  ASSUME NEW d, Good(d), NEW e, NEW r, NEW n, NEW st, NEW debt, NEW x,
         Closed(d, e, r, n, st, debt, x)
  PROVE  Good(e) /\ d.attempt[r] \notin Early /\ NoLongerLeased(d, e, r, n)
<1> USE DEF Closes
<1>0. Closes(d, r, n, st, debt, x)
  BY DEF Closed
<1>1. RowSound(r, d.request[r], d.attempt[r], d.mutation[r], d.cleanup[r],
               d.node[r], d.lease[r], d.bound[r])
  BY <1>0 DEF Good, RowOK
<1>2. PICK rq, at, mu, b : /\ rq = d.request[r] /\ at = d.attempt[r]
                           /\ mu = d.mutation[r] /\ b = d.bound[r]
  OBVIOUS
<1>3. PICK nd, ls, ns, us, c : /\ nd = d.node[r] /\ ls = d.lease[r] /\ ns = e.node[r]
                               /\ us = e.lease[r] /\ c = e.cleanup[r]
  OBVIOUS
<1>4. /\ RowSound(r, rq, at, mu, d.cleanup[r], nd, ls, b) /\ nd[n] = "leased"
      /\ c \in {"complete", "pending"}
  BY <1>0, <1>1, <1>2, <1>3 DEF Closed
<1>5. /\ us = [ls EXCEPT ![n] = CloseNewest(ls[n], st, debt)]
      /\ ns = [nd EXCEPT ![n] = x]
      /\ ClosesRow(r.project, nd, ls, n, st, debt, x, ns, us)
  BY <1>0, <1>3, <1>4 DEF Closed, ClosesRow
<1>6. RowSound(r, rq, at, mu, c, ns, us, b) /\ at \notin Early \cup Over
  BY <1>0, <1>4, <1>5, ClosedRow
<1>7. RowOK(e, r)
  BY <1>2, <1>3, <1>6 DEF RowOK, Closed
<1>8. DOMAIN nd = NodesOf[r.project]
  BY <1>4 DEF RowSound, NodesSound
<1>9. \A m \in NodesOf[r.project] : e.node[r][m] = "leased" => m # n /\ d.node[r][m] = "leased"
  BY <1>0, <1>3, <1>5, <1>8
<1>10. Calm(d, e, r)
  BY <1>9 DEF Calm, Closed
<1> QED
  BY <1>0, <1>2, <1>6, <1>7, <1>9, <1>10, CalmRow DEF NoLongerLeased

(* A lease that is closed while its worker owes a receipt, without success.    *)
LEMMA ClosedSettles ==
  ASSUME NEW d, Good(d), NEW e, NEW r, NEW n, NEW st, NEW x,
         Closed(d, e, r, n, st, TRUE, x), x # "succeeded"
  PROVE  Settled(d, e)
<1>1. /\ r \in Requests /\ n \in NodesOf[r.project] /\ d.node[r][n] = "leased"
      /\ st \in {"expired", "committed"} /\ TRUE \in BOOLEAN /\ OnlyRow(d, e, r)
      /\ e.mutation[r] = d.mutation[r]
  BY DEF Closed, Closes
<1>2. PICK nd, ls, ns, us : /\ nd = d.node[r] /\ ls = d.lease[r] /\ ns = e.node[r]
                            /\ us = e.lease[r]
  OBVIOUS
<1>3. NodesSound(r.project, nd, ls) /\ nd[n] = "leased"
  BY <1>1, <1>2 DEF Good, RowOK, RowSound
<1>4. PICK u : u = CloseNewest(ls[n], st, TRUE)
  OBVIOUS
<1>5. ns = [nd EXCEPT ![n] = x] /\ us = [ls EXCEPT ![n] = u]
  BY <1>2, <1>4 DEF Closed
<1>6. DOMAIN nd = NodesOf[r.project] /\ DOMAIN ls = NodesOf[r.project] /\ NodeSound(n, "leased", ls[n])
  BY <1>1, <1>3 DEF NodesSound
<1>7. SettledLeases(ls[n], u)
  <2>1. PICK s : s = ls[n]
    OBVIOUS
  <2>2. NodeSound(n, "leased", s) /\ u = CloseNewest(s, st, TRUE)
    BY <1>4, <1>6, <2>1
  <2> QED
    BY <1>1, <2>1, <2>2, CloseNewestFacts
<1>8. ASSUME NEW m \in NodesOf[r.project]
      PROVE  (ns[m] = "succeeded" <=> nd[m] = "succeeded") /\ SettledLeases(ls[m], us[m])
  <2>1. CASE m = n
    BY <1>1, <1>3, <1>5, <1>6, <1>7, <2>1
  <2>2. CASE m # n
    <3>1. ns[m] = nd[m] /\ us[m] = ls[m]
      BY <1>5, <1>6, <2>2
    <3> QED
      BY <3>1 DEF SettledLeases, SettledLease
  <2> QED
    BY <2>1, <2>2
<1>9. SettledRow(r.project, d.mutation[r], e.mutation[r], d.node[r], e.node[r],
                 d.lease[r], e.lease[r])
  BY <1>1, <1>2, <1>8 DEF SettledRow
<1> QED
  BY <1>1, <1>9, OneRowSettles

(* The database in which a lease is closed.                                    *)
LEMMA ClosedByExcept ==
  ASSUME NEW d, Good(d), NEW e, NEW r, NEW n, NEW st, NEW debt, NEW x,
         Closes(d, r, n, st, debt, x),
         \/ e = [CloseLease(d, r, n, st, debt) EXCEPT !.node[r][n] = x]
         \/ \E c \in {"complete", "pending"} :
              e = [CloseLease(d, r, n, st, debt) EXCEPT !.node[r][n] = x, !.cleanup[r] = c]
  PROVE  Closed(d, e, r, n, st, debt, x)
<1>0. r \in Requests /\ n \in NodesOf[r.project]
  BY DEF Closes
<1>1. PICK k : k = Len(d.lease[r][n])
  OBVIOUS
<1>2. PICK f : f = CloseLease(d, r, n, st, debt)
  OBVIOUS
<1>3. PICK u : u = [d.lease[r][n] EXCEPT ![k] = Close(@, st, debt)]
  OBVIOUS
<1>4. Shape(d) /\ ~d.err
  BY DEF Good
<1>5. Shape(f) /\ f.lease = [d.lease EXCEPT ![r] = [@ EXCEPT ![n] = u]]
  BY <1>0, <1>1, <1>2, <1>3, <1>4 DEF Shape, CloseLease
<1>6. /\ ~f.err /\ f.queue = d.queue /\ f.lock = d.lock /\ f.request = d.request
      /\ f.attempt = d.attempt /\ f.mutation = d.mutation /\ f.cleanup = d.cleanup
      /\ f.node = d.node /\ f.bound = d.bound
  BY <1>0, <1>2, <1>4 DEF Shape, CloseLease
<1>7. /\ Shape(e) /\ ~e.err /\ e.queue = f.queue /\ e.lock = f.lock /\ e.request = f.request
      /\ e.attempt = f.attempt /\ e.mutation = f.mutation /\ e.lease = f.lease
      /\ e.node = [f.node EXCEPT ![r] = [@ EXCEPT ![n] = x]] /\ e.bound = f.bound
      /\ \/ e.cleanup = f.cleanup
         \/ \E c \in {"complete", "pending"} : e.cleanup = [f.cleanup EXCEPT ![r] = c]
  <2>1. CASE e = [f EXCEPT !.node[r][n] = x]
    BY <1>0, <1>5, <1>6, <2>1, SMTT(60) DEF Shape
  <2>2. CASE \E c \in {"complete", "pending"} : e = [f EXCEPT !.node[r][n] = x, !.cleanup[r] = c]
    <3>1. PICK c \in {"complete", "pending"} : e = [f EXCEPT !.node[r][n] = x, !.cleanup[r] = c]
      BY <2>2
    <3> QED
      BY <1>0, <1>5, <1>6, <3>1, ZenonT(60) DEF Shape
  <2> QED
    BY <1>2, <2>1, <2>2
<1>8. d.cleanup[r] \in {"complete", "pending"}
  BY <1>0 DEF Good, RowOK, RowSound, ColumnsSound
<1>9. e.cleanup[r] \in {"complete", "pending"} /\ \A s \in Requests : s # r => e.cleanup[s] = d.cleanup[s]
  BY <1>0, <1>4, <1>6, <1>7, <1>8 DEF Shape
<1>10. OnlyRow(d, e, r)
  BY <1>0, <1>4, <1>5, <1>6, <1>7, <1>9 DEF OnlyRow, Shape
<1>11. e.node[r] = [d.node[r] EXCEPT ![n] = x] /\ e.lease[r] = [d.lease[r] EXCEPT ![n] = u]
  BY <1>0, <1>4, <1>5, <1>6, <1>7, SMTT(60) DEF Shape
<1> QED
  BY <1>1, <1>3, <1>6, <1>7, <1>9, <1>10, <1>11 DEF Closed, CloseNewest

(* An error keeps the columns and is Sound.                                    *)
LEMMA FailIsSound ==
  ASSUME NEW d, Shape(d)
  PROVE  Shape(Fail(d)) /\ Fail(d).err /\ Sound(Fail(d))
<1>1. PICK e : e = [d EXCEPT !.err = TRUE]
  OBVIOUS
<1>2. Shape(e) /\ e.err
  BY <1>1 DEF Shape
<1> QED
  BY <1>1, <1>2 DEF Sound, Fail

(* A checked update.                                                           *)
LEMMA RequireIsSound ==
  ASSUME NEW cond \in BOOLEAN, NEW e, Shape(e), cond => Sound(e)
  PROVE  Sound(Require(cond, e))
<1>1. CASE cond
  BY <1>1 DEF Require
<1>2. CASE ~cond
  BY <1>2, FailIsSound DEF Require
<1> QED
  BY <1>1, <1>2

(* A checked update, and what it settles.                                      *)
LEMMA RequireSettles ==
  ASSUME NEW d, NEW cond \in BOOLEAN, NEW e, Shape(e), cond => Good(e) /\ Settled(d, e)
  PROVE  Settles(d, Require(cond, e))
<1>1. CASE cond
  BY <1>1 DEF Require, Settles, Sound, Good
<1>2. CASE ~cond
  BY <1>2, FailIsSound DEF Require, Settles
<1> QED
  BY <1>1, <1>2

(* A sound database is what a transaction may leave.                          *)
LEMMA GoodIsSound ==
  ASSUME NEW d, Good(d)
  PROVE  Sound(d) /\ Shape(d) /\ ~d.err
BY DEF Good, Sound

(* advance_ready_nodes keeps the database sound.                              *)
LEMMA AdvanceKeepsGood ==
  ASSUME NEW d, Good(d), NEW r \in Requests, d.attempt[r] \notin Early
  PROVE  Good(AdvanceReadyNodes(d, r)) /\ Settled(d, AdvanceReadyNodes(d, r))
<1>1. PICK e : e = AdvanceReadyNodes(d, r)
  OBVIOUS
<1>2. PICK nd, ns :
        /\ nd = d.node[r]
        /\ ns = [n \in DOMAIN nd |-> IF /\ nd[n] = "blocked"
                                       /\ \A m \in DependsOn[r.project][n] : nd[m] = "succeeded"
                                    THEN "ready" ELSE nd[n]]
  OBVIOUS
<1>3. e = [d EXCEPT !.node[r] = ns]
  BY <1>1, <1>2 DEF AdvanceReadyNodes
<1>4. Shape(d) /\ ~d.err
  BY DEF Good
<1>5. /\ Shape(e) /\ ~e.err /\ e.queue = d.queue /\ e.lock = d.lock /\ e.request = d.request
      /\ e.attempt = d.attempt /\ e.mutation = d.mutation /\ e.cleanup = d.cleanup
      /\ e.lease = d.lease /\ e.bound = d.bound /\ e.node = [d.node EXCEPT ![r] = ns]
  BY <1>3, <1>4 DEF Shape
<1>6. OnlyRow(d, e, r) /\ e.node[r] = ns
  BY <1>4, <1>5 DEF OnlyRow, Shape
<1>7. RowSound(r, d.request[r], d.attempt[r], d.mutation[r], d.cleanup[r],
               nd, d.lease[r], d.bound[r])
  BY <1>2 DEF Good, RowOK
<1>8. /\ RowSound(r, d.request[r], d.attempt[r], d.mutation[r], d.cleanup[r],
                  ns, d.lease[r], d.bound[r])
      /\ \A n \in NodesOf[r.project] : ns[n] = "leased" <=> nd[n] = "leased"
  BY <1>2, <1>7, AdvancedRow
<1>9. RowOK(e, r) /\ Calm(d, e, r)
  BY <1>2, <1>5, <1>6, <1>8 DEF RowOK, Calm
<1>10. Settled(d, e)
  <2>1. DOMAIN nd = NodesOf[r.project]
    BY <1>7 DEF RowSound, NodesSound
  <2>2. ASSUME NEW n \in NodesOf[r.project] PROVE ns[n] = "succeeded" <=> nd[n] = "succeeded"
    BY <1>2, <2>1
  <2>3. SettledRow(r.project, d.mutation[r], e.mutation[r], d.node[r], e.node[r],
                   d.lease[r], e.lease[r])
    BY <1>2, <1>5, <1>6, <2>2 DEF SettledRow, SettledLeases, SettledLease
  <2> QED
    BY <1>6, <2>3, OneRowSettles
<1> QED
  BY <1>1, <1>9, <1>10, CalmRow

(* fail_terminal_workflow leaves a sound database or an error.                *)
LEMMA FailTerminalIsSound ==
  ASSUME NEW d, Good(d), NEW r \in Requests, NEW pending \in BOOLEAN
  PROVE  Settles(d, FailTerminalWorkflow(d, r, pending))
<1>1. PICK c \in {"complete", "pending"} :
        c = IF pending \/ Active(d, r) # {} THEN "pending" ELSE "complete"
  OBVIOUS
<1>2. PICK ns, us : ns = Cancelled(d.node[r]) /\ us = Revoked(d.lease[r])
  OBVIOUS
<1>3. PICK e : e = [Retire(d, r) EXCEPT !.attempt[r] = "failed", !.cleanup[r] = c,
                                        !.request[r] = "terminal"]
  OBVIOUS
<1>4. FailTerminalWorkflow(d, r, pending) =
        Require(d.mutation[r] = "not_started" /\ d.request[r] = "active", e)
  BY <1>1, <1>3 DEF FailTerminalWorkflow
<1>5. Shape(d) /\ ~d.err
  BY DEF Good
<1>6. PICK f : f = Retire(d, r)
  OBVIOUS
<1>7. f = [d EXCEPT !.lease[r] = us, !.node[r] = ns]
  BY <1>2, <1>6 DEF Retire
<1>8. /\ Shape(f) /\ ~f.err /\ f.queue = d.queue /\ f.lock = d.lock /\ f.request = d.request
      /\ f.attempt = d.attempt /\ f.mutation = d.mutation /\ f.cleanup = d.cleanup
      /\ f.lease = [d.lease EXCEPT ![r] = us] /\ f.bound = d.bound
      /\ f.node = [d.node EXCEPT ![r] = ns]
  BY <1>5, <1>7 DEF Shape
<1>9. /\ Shape(e) /\ ~e.err /\ e.queue = f.queue /\ e.lock = f.lock
      /\ e.request = [f.request EXCEPT ![r] = "terminal"]
      /\ e.attempt = [f.attempt EXCEPT ![r] = "failed"]
      /\ e.cleanup = [f.cleanup EXCEPT ![r] = c]
      /\ e.mutation = f.mutation /\ e.lease = f.lease /\ e.bound = f.bound /\ e.node = f.node
  BY <1>3, <1>6, <1>8, ZenonT(60) DEF Shape
<1>10. /\ OnlyRow(d, e, r) /\ e.node[r] = ns /\ e.lease[r] = us /\ e.request[r] = "terminal"
       /\ e.attempt[r] = "failed" /\ e.cleanup[r] = c /\ e.mutation[r] = d.mutation[r]
       /\ e.bound[r] = d.bound[r]
  BY <1>5, <1>8, <1>9 DEF OnlyRow, Shape
<1>11. ASSUME d.mutation[r] = "not_started", d.request[r] = "active" PROVE Good(e)
  <2>1. RowSound(r, d.request[r], d.attempt[r], d.mutation[r], d.cleanup[r],
                 d.node[r], d.lease[r], d.bound[r])
    BY DEF Good, RowOK
  <2>2. d.attempt[r] # None
    BY <1>11, <2>1 DEF RowSound, ColumnsSound, None
  <2>3. /\ RowSound(r, "terminal", "failed", d.mutation[r], c, ns, us, d.bound[r])
        /\ \A n \in NodesOf[r.project] : ns[n] # "leased"
    BY <1>2, <1>11, <2>1, <2>2, RetiredRow
  <2>4. RowOK(e, r) /\ Calm(d, e, r)
    BY <1>10, <1>11, <2>3 DEF RowOK, Calm, Over, None
  <2> QED
    BY <2>4, CalmRow
<1>12. PICK cond \in BOOLEAN : cond <=> d.mutation[r] = "not_started" /\ d.request[r] = "active"
  OBVIOUS
<1>13. Settled(d, e)
  <2>1. NodesSound(r.project, d.node[r], d.lease[r])
    BY DEF Good, RowOK, RowSound
  <2>2. SettledRow(r.project, d.mutation[r], d.mutation[r], d.node[r], ns, d.lease[r], us)
    BY <1>2, <2>1, RevokedSettles
  <2> QED
    BY <1>10, <2>2, OneRowSettles
<1>14. FailTerminalWorkflow(d, r, pending) = Require(cond, e)
  BY <1>4, <1>12 DEF Require
<1>15. Shape(e) /\ (cond => Good(e) /\ Settled(d, e))
  BY <1>9, <1>11, <1>12, <1>13
<1> QED
  BY <1>14, <1>15, RequireSettles

(* The attempt that owns the lock stops, with no exclusive node of it leased.  *)
LEMMA ReconcileIsSound ==
  ASSUME NEW d, Good(d), NEW r \in Requests, NEW pending \in BOOLEAN,
         \A n \in NodesOf[r.project] : Exclusive(r, n) => d.node[r][n] # "leased"
  PROVE  Settles(d, MarkNeedsReconcile(d, r, pending))
<1>1. PICK c \in {"complete", "pending"} : c = IF pending THEN "pending" ELSE "complete"
  OBVIOUS
<1>2. PICK e : e = [d EXCEPT !.attempt[r] = "needs_reconcile",
                             !.mutation[r] = "needs_reconcile",
                             !.cleanup[r] = c,
                             !.lock[r.project].state = "needs_reconcile"]
  OBVIOUS
<1>3. MarkNeedsReconcile(d, r, pending) = Require(d.lock[r.project].owner = r, e)
  BY <1>1, <1>2 DEF MarkNeedsReconcile
<1>4. Shape(d) /\ ~d.err /\ r.project \in Projects
  BY RequestFacts DEF Good
<1>5. /\ Shape(e) /\ ~e.err /\ e.queue = d.queue
      /\ e.lock = [d.lock EXCEPT ![r.project] = [@ EXCEPT !.state = "needs_reconcile"]]
      /\ e.request = d.request
      /\ e.attempt = [d.attempt EXCEPT ![r] = "needs_reconcile"]
      /\ e.mutation = [d.mutation EXCEPT ![r] = "needs_reconcile"]
      /\ e.cleanup = [d.cleanup EXCEPT ![r] = c]
      /\ e.node = d.node /\ e.lease = d.lease /\ e.bound = d.bound
  BY <1>2, <1>4 DEF Shape
<1>6. ASSUME d.lock[r.project].owner = r PROVE Good(e)
  <2>1. d.lock[r.project] \in {[owner |-> r, state |-> "held"],
                               [owner |-> r, state |-> "needs_reconcile"]}
    <3>1. NoLock.owner \notin Requests
      BY RequestFacts DEF NoLock
    <3> QED
      BY <1>4, <1>6, <3>1 DEF Good, LockOK
  <2>2. PICK new : new = [owner |-> r, state |-> "needs_reconcile"]
    OBVIOUS
  <2>3. e.lock = [d.lock EXCEPT ![r.project] = new]
    BY <1>5, <2>1, <2>2
  <2>4. /\ e.lock[r.project] = new
        /\ \A p \in Projects : p # r.project => e.lock[p] = d.lock[p]
    BY <1>4, <2>3 DEF Shape
  <2>5. d.mutation[r] \in {"owned", "needs_reconcile"}
    BY <1>6 DEF Good, LockedOK, HoldsLock
  <2>6. /\ e.attempt[r] = "needs_reconcile" /\ e.mutation[r] = "needs_reconcile"
        /\ e.cleanup[r] = c
        /\ \A s \in Requests : s # r => /\ e.attempt[s] = d.attempt[s]
                                        /\ e.mutation[s] = d.mutation[s]
                                        /\ e.cleanup[s] = d.cleanup[s]
    BY <1>4, <1>5 DEF Shape
  <2>7. RowSound(r, d.request[r], d.attempt[r], d.mutation[r], d.cleanup[r],
                 d.node[r], d.lease[r], d.bound[r])
    BY DEF Good, RowOK
  <2>8. RowSound(r, d.request[r], "needs_reconcile", "needs_reconcile", c,
                 d.node[r], d.lease[r], d.bound[r])
    BY <2>5, <2>7, ReconciledRow
  <2>9. ASSUME NEW s \in Requests PROVE RowOK(e, s) /\ LockedOK(e, s) /\ Queued(e, s)
    <3>1. RowOK(d, s) /\ LockedOK(d, s) /\ Queued(d, s) /\ s.project \in Projects
      BY RequestFacts DEF Good
    <3>2. CASE s = r
      <4>1. RowOK(e, s) /\ Queued(e, s)
        BY <1>5, <2>6, <2>8, <3>1, <3>2 DEF RowOK, Queued
      <4>2. LockedOK(e, s)
        BY <1>5, <2>2, <2>4, <2>6, <3>2 DEF LockedOK, HoldsLock
      <4> QED
        BY <4>1, <4>2
    <3>3. CASE s # r
      <4>1. RowOK(e, s) /\ Queued(e, s)
        BY <1>5, <2>6, <3>1, <3>3 DEF RowOK, Queued
      <4>2. LockedOK(e, s)
        <5>1. CASE s.project # r.project
          BY <1>5, <2>4, <2>6, <3>1, <3>3, <5>1 DEF LockedOK
        <5>2. CASE s.project = r.project
          <6>1. d.lock[s.project].owner = r /\ e.lock[s.project].owner = r
            BY <1>6, <2>2, <2>4, <5>2
          <6>2. /\ d.lock[s.project] # [owner |-> s, state |-> "held"]
                /\ d.lock[s.project] # [owner |-> s, state |-> "needs_reconcile"]
                /\ e.lock[s.project] # [owner |-> s, state |-> "held"]
                /\ e.lock[s.project] # [owner |-> s, state |-> "needs_reconcile"]
            BY <3>3, <6>1
          <6> QED
            BY <1>5, <2>6, <3>1, <3>3, <6>1, <6>2 DEF LockedOK, HoldsLock
        <5> QED
          BY <5>1, <5>2
      <4> QED
        BY <4>1, <4>2
    <3> QED
      BY <3>2, <3>3
  <2>10. \A p \in Projects : LockOK(e, p)
    BY <2>2, <2>4 DEF Good, LockOK
  <2>11. OneFresh(e)
    <3>1. \A s \in Requests : Fresh(e, s) => Fresh(d, s)
      BY <2>6 DEF Fresh
    <3> QED
      BY <3>1 DEF Good, OneFresh
  <2> QED
    BY <1>5, <2>9, <2>10, <2>11 DEF Good
<1>7. PICK cond \in BOOLEAN : cond <=> d.lock[r.project].owner = r
  OBVIOUS
<1>8. Settled(d, e)
  <2>1. \A s \in Requests : d.mutation[s] # "not_started" => e.mutation[s] # "not_started"
    BY <1>4, <1>5 DEF Shape
  <2> QED
    BY <1>5, <2>1 DEF Settled, SettledRow, SettledLeases, SettledLease
<1>9. MarkNeedsReconcile(d, r, pending) = Require(cond, e)
  BY <1>3, <1>7 DEF Require
<1>10. Shape(e) /\ (cond => Good(e) /\ Settled(d, e))
  BY <1>5, <1>6, <1>7, <1>8
<1> QED
  BY <1>9, <1>10, RequireSettles

(* Attempts that waited for a lock that is free are queued.                    *)
LEMMA WakeKeepsShape ==
  ASSUME NEW d, Shape(d)
  PROVE  Shape(WakeWaitingAttempts(d))
<1>1. PICK woken : woken = {r \in Requests : /\ d.attempt[r] = "waiting_for_mutation"
                                             /\ d.request[r] = "active"
                                             /\ d.lock[r.project] = NoLock}
  OBVIOUS
<1>2. PICK at, nd :
        /\ at = [r \in Requests |-> IF r \in woken THEN "queued" ELSE d.attempt[r]]
        /\ nd = [r \in Requests |-> IF r \in woken /\ d.node[r]["prepare"] = "blocked"
                                    THEN [d.node[r] EXCEPT !["prepare"] = "ready"] ELSE d.node[r]]
  OBVIOUS
<1>3. PICK e : e = WakeWaitingAttempts(d)
  OBVIOUS
<1>4. e = [d EXCEPT !.attempt = at, !.node = nd]
  BY <1>1, <1>2, <1>3 DEF WakeWaitingAttempts
<1>5. at = [r \in Requests |-> at[r]] /\ DOMAIN nd = Requests
  BY <1>2
<1>6. Shape(e)
  BY <1>4, <1>5 DEF Shape
<1> QED
  BY <1>3, <1>6

(* wake_waiting_attempts keeps the database sound.                            *)
LEMMA WakeKeepsGood ==
  ASSUME NEW d, Good(d)
  PROVE  Good(WakeWaitingAttempts(d)) /\ Settled(d, WakeWaitingAttempts(d))
<1>1. PICK woken : woken = {r \in Requests : /\ d.attempt[r] = "waiting_for_mutation"
                                             /\ d.request[r] = "active"
                                             /\ d.lock[r.project] = NoLock}
  OBVIOUS
<1>2. PICK at, nd :
        /\ at = [r \in Requests |-> IF r \in woken THEN "queued" ELSE d.attempt[r]]
        /\ nd = [r \in Requests |-> IF r \in woken /\ d.node[r]["prepare"] = "blocked"
                                    THEN [d.node[r] EXCEPT !["prepare"] = "ready"] ELSE d.node[r]]
  OBVIOUS
<1>3. PICK e : e = WakeWaitingAttempts(d)
  OBVIOUS
<1>4. e = [d EXCEPT !.attempt = at, !.node = nd]
  BY <1>1, <1>2, <1>3 DEF WakeWaitingAttempts
<1>5. Shape(d) /\ ~d.err
  BY DEF Good
<1>6. /\ Shape(e) /\ ~e.err /\ e.queue = d.queue /\ e.lock = d.lock /\ e.request = d.request
      /\ e.attempt = at /\ e.mutation = d.mutation /\ e.cleanup = d.cleanup
      /\ e.lease = d.lease /\ e.bound = d.bound /\ e.node = nd
  BY <1>2, <1>4, <1>5 DEF Shape
<1>7. ASSUME NEW s \in Requests
      PROVE  RowOK(e, s) /\ LockedOK(e, s) /\ Queued(e, s) /\ (Fresh(e, s) => Fresh(d, s))
  <2>1. RowOK(d, s) /\ LockedOK(d, s) /\ Queued(d, s)
    BY DEF Good
  <2>2. CASE s \notin woken
    <3>1. e.attempt[s] = d.attempt[s] /\ e.node[s] = d.node[s]
      BY <1>2, <1>6, <2>2
    <3> QED
      BY <1>6, <2>1, <3>1 DEF RowOK, LockedOK, Queued, Fresh
  <2>3. CASE s \in woken
    <3>1. /\ d.attempt[s] = "waiting_for_mutation" /\ d.lock[s.project] = NoLock
          /\ e.attempt[s] = "queued"
      BY <1>1, <1>2, <1>6, <2>3
    <3>2. PICK x, y : x = d.node[s] /\ y = e.node[s]
      OBVIOUS
    <3>8. y = WokenNodes(x)
      <4>1. nd[s] = IF d.node[s]["prepare"] = "blocked"
                    THEN [d.node[s] EXCEPT !["prepare"] = "ready"] ELSE d.node[s]
        BY <1>2, <2>3
      <4>2. y = nd[s]
        BY <1>6, <3>2
      <4> QED
        BY <3>2, <4>1, <4>2 DEF WokenNodes
    <3>3. RowSound(s, d.request[s], d.attempt[s], d.mutation[s], d.cleanup[s],
                   x, d.lease[s], d.bound[s])
      BY <2>1, <3>2 DEF RowOK
    <3>4. /\ RowSound(s, d.request[s], "queued", d.mutation[s], d.cleanup[s],
                      y, d.lease[s], d.bound[s])
          /\ \A n \in NodesOf[s.project] : y[n] # "leased"
      BY <3>1, <3>3, <3>8, WokenRow
    <3>5. RowOK(e, s) /\ Queued(e, s)
      BY <1>6, <2>1, <3>1, <3>2, <3>4 DEF RowOK, Queued
    <3>6. LockedOK(e, s)
      <4>1. NoLock.owner = NoRequest
        BY DEF NoLock
      <4> QED
        BY <1>6, <2>1, <3>1, <3>2, <3>4, <4>1 DEF LockedOK, HoldsLock
    <3>7. Fresh(e, s) => Fresh(d, s)
      BY <1>6, <3>1 DEF Fresh, LiveAttempts
    <3> QED
      BY <3>5, <3>6, <3>7
  <2> QED
    BY <2>2, <2>3
<1>8. \A p \in Projects : LockOK(e, p)
  BY <1>6 DEF Good, LockOK
<1>9. OneFresh(e)
  BY <1>7 DEF Good, OneFresh
<1>10. ASSUME NEW s \in Requests, NEW n \in NodesOf[s.project]
       PROVE  e.node[s][n] = "succeeded" <=> d.node[s][n] = "succeeded"
  <2>1. PICK x, y : x = d.node[s] /\ y = e.node[s]
    OBVIOUS
  <2>2. y = x \/ (x["prepare"] = "blocked" /\ y = [x EXCEPT !["prepare"] = "ready"])
    BY <1>2, <1>6, <2>1
  <2>3. DOMAIN x = NodesOf[s.project]
    BY <2>1 DEF Good, RowOK, RowSound, NodesSound
  <2> QED
    BY <2>1, <2>2, <2>3
<1>11. Settled(d, e)
  BY <1>6, <1>10, SettledSame
<1> QED
  BY <1>3, <1>6, <1>7, <1>8, <1>9, <1>11 DEF Good

(* The owner of the lock ends and gives it back.                               *)
LEMMA CompleteIsSound ==
  ASSUME NEW d, Good(d), NEW r \in Requests
  PROVE  Settles(d, CompleteWorkflow(d, r))
<1>1. PICK ns : ns = [n \in DOMAIN d.node[r] |-> IF n = "rollback" /\ d.node[r][n] = "dormant"
                                                 THEN "cancelled" ELSE d.node[r][n]]
  OBVIOUS
<1>2. PICK e : e = [d EXCEPT !.node[r] = ns, !.attempt[r] = "succeeded",
                             !.mutation[r] = "complete", !.cleanup[r] = "complete",
                             !.request[r] = "terminal", !.lock[r.project] = NoLock]
  OBVIOUS
<1>3. PICK cond \in BOOLEAN :
        cond <=> /\ \A n \in NodesOf[r.project] \ {"rollback"} : d.node[r][n] = "succeeded"
                 /\ Unresolved(d, r) = {}
                 /\ d.attempt[r] = "running" /\ d.request[r] = "active"
                 /\ d.lock[r.project] = [owner |-> r, state |-> "held"]
  OBVIOUS
<1>4. CompleteWorkflow(d, r) = Require(cond, WakeWaitingAttempts(e))
  BY <1>1, <1>2, <1>3 DEF CompleteWorkflow, Require
<1>5. Shape(d) /\ ~d.err /\ r.project \in Projects
  BY RequestFacts DEF Good
<1>6. /\ Shape(e) /\ ~e.err /\ e.queue = d.queue
      /\ e.lock = [d.lock EXCEPT ![r.project] = NoLock]
      /\ e.request = [d.request EXCEPT ![r] = "terminal"]
      /\ e.attempt = [d.attempt EXCEPT ![r] = "succeeded"]
      /\ e.mutation = [d.mutation EXCEPT ![r] = "complete"]
      /\ e.cleanup = [d.cleanup EXCEPT ![r] = "complete"]
      /\ e.node = [d.node EXCEPT ![r] = ns] /\ e.lease = d.lease /\ e.bound = d.bound
  BY <1>2, <1>5 DEF Shape
<1>7. Shape(WakeWaitingAttempts(e))
  BY <1>6, WakeKeepsShape
<1>8. ASSUME cond PROVE Good(e)
  <2>1. d.lock[r.project] = [owner |-> r, state |-> "held"] /\ d.lock[r.project].owner = r
    BY <1>3, <1>8
  <2>2. d.mutation[r] \in {"owned", "needs_reconcile"}
    BY <2>1 DEF Good, LockedOK, HoldsLock
  <2>3. PICK nd : nd = d.node[r]
    OBVIOUS
  <2>4. RowSound(r, d.request[r], d.attempt[r], d.mutation[r], d.cleanup[r],
                 nd, d.lease[r], d.bound[r])
    BY <2>3 DEF Good, RowOK
  <2>5. /\ \A n \in NodesOf[r.project] \ {"rollback"} : nd[n] = "succeeded"
        /\ ns = [n \in DOMAIN nd |-> IF n = "rollback" /\ nd[n] = "dormant"
                                     THEN "cancelled" ELSE nd[n]]
    BY <1>1, <1>3, <1>8, <2>3
  <2>6. /\ RowSound(r, "terminal", "succeeded", "complete", "complete", ns, d.lease[r], d.bound[r])
        /\ \A n \in NodesOf[r.project] : ns[n] # "leased"
    BY <2>2, <2>4, <2>5, FinishedRow
  <2>7. /\ e.attempt[r] = "succeeded" /\ e.mutation[r] = "complete" /\ e.node[r] = ns
        /\ e.cleanup[r] = "complete" /\ e.request[r] = "terminal"
        /\ e.lock[r.project] = NoLock
        /\ \A p \in Projects : p # r.project => e.lock[p] = d.lock[p]
        /\ \A s \in Requests : s # r =>
             /\ e.attempt[s] = d.attempt[s] /\ e.mutation[s] = d.mutation[s]
             /\ e.cleanup[s] = d.cleanup[s] /\ e.request[s] = d.request[s]
             /\ e.node[s] = d.node[s]
    BY <1>5, <1>6 DEF Shape
  <2>8. NoLock.owner = NoRequest /\ NoRequest \notin Requests
    BY RequestFacts DEF NoLock
  <2>9. ASSUME NEW s \in Requests PROVE RowOK(e, s) /\ LockedOK(e, s) /\ Queued(e, s)
    <3>1. RowOK(d, s) /\ LockedOK(d, s) /\ Queued(d, s) /\ s.project \in Projects
      BY RequestFacts DEF Good
    <3>2. NoLock # [owner |-> s, state |-> "needs_reconcile"]
      BY <2>8
    <3>3. CASE s = r
      <4>1. RowOK(e, s) /\ Queued(e, s)
        BY <1>3, <1>6, <1>8, <2>6, <2>7, <3>1, <3>3 DEF RowOK, Queued, None
      <4>2. LockedOK(e, s)
        BY <2>6, <2>7, <2>8, <3>2, <3>3 DEF LockedOK, HoldsLock
      <4> QED
        BY <4>1, <4>2
    <3>4. CASE s # r
      <4>1. RowOK(e, s) /\ Queued(e, s)
        BY <1>6, <2>7, <3>1, <3>4 DEF RowOK, Queued
      <4>2. LockedOK(e, s)
        <5>1. CASE s.project # r.project
          BY <2>7, <3>1, <3>4, <5>1 DEF LockedOK
        <5>2. CASE s.project = r.project
          <6>1. d.lock[s.project].owner # s /\ e.lock[s.project] = NoLock
            BY <2>1, <2>7, <3>4, <5>2
          <6>2. d.lock[s.project] # [owner |-> s, state |-> "held"]
            BY <6>1
          <6> QED
            BY <2>7, <2>8, <3>1, <3>2, <3>4, <6>1, <6>2 DEF LockedOK, HoldsLock
        <5> QED
          BY <5>1, <5>2
      <4> QED
        BY <4>1, <4>2
    <3> QED
      BY <3>3, <3>4
  <2>10. \A p \in Projects : LockOK(e, p)
    BY <2>7 DEF Good, LockOK
  <2>11. OneFresh(e)
    <3>1. \A s \in Requests : Fresh(e, s) => Fresh(d, s)
      BY <2>7 DEF Fresh, LiveAttempts
    <3> QED
      BY <3>1 DEF Good, OneFresh
  <2> QED
    BY <1>6, <2>9, <2>10, <2>11 DEF Good
<1>9. Settled(d, e)
  <2>1. ASSUME NEW s \in Requests
        PROVE  SettledRow(s.project, d.mutation[s], e.mutation[s], d.node[s], e.node[s],
                          d.lease[s], e.lease[s])
    <3>1. PICK nd, x : nd = d.node[s] /\ x = e.node[s]
      OBVIOUS
    <3>2. DOMAIN nd = NodesOf[s.project]
      BY <3>1 DEF Good, RowOK, RowSound, NodesSound
    <3>3. x = IF s = r THEN ns ELSE nd
      BY <1>5, <1>6, <3>1 DEF Shape
    <3>4. ASSUME NEW n \in NodesOf[s.project] PROVE x[n] = "succeeded" <=> nd[n] = "succeeded"
      BY <1>1, <3>1, <3>2, <3>3
    <3>5. d.mutation[s] # "not_started" => e.mutation[s] # "not_started"
      BY <1>5, <1>6 DEF Shape
    <3> QED
      BY <1>6, <3>1, <3>4, <3>5 DEF SettledRow, SettledLeases, SettledLease
  <2> QED
    BY <2>1 DEF Settled
<1>10. cond => Good(WakeWaitingAttempts(e)) /\ Settled(d, WakeWaitingAttempts(e))
  BY <1>8, <1>9, WakeKeepsGood, SettledTwice
<1> QED
  BY <1>4, <1>7, <1>10, RequireSettles

(* complete_shadow_workflow leaves a sound database or an error.              *)
LEMMA CompleteShadowIsSound ==
  ASSUME NEW d, Good(d), NEW r \in Requests
  PROVE  Settles(d, CompleteShadowWorkflow(d, r))
<1>1. PICK e : e = [d EXCEPT !.attempt[r] = "succeeded", !.cleanup[r] = "complete",
                             !.request[r] = "terminal"]
  OBVIOUS
<1>2. PICK cond \in BOOLEAN :
        cond <=> /\ d.mutation[r] = "not_started"
                 /\ \A n \in NodesOf[r.project] :
                      d.node[r][n] = IF ShadowExecutes(r.project, n)
                                     THEN "succeeded" ELSE "cancelled"
                 /\ Unresolved(d, r) = {}
                 /\ d.lock[r.project].owner # r
                 /\ d.attempt[r] = "running" /\ d.request[r] = "active"
  OBVIOUS
<1>3. CompleteShadowWorkflow(d, r) = Require(cond, e)
  BY <1>1, <1>2 DEF CompleteShadowWorkflow, Require
<1>4. Shape(d) /\ ~d.err
  BY DEF Good
<1>5. /\ Shape(e) /\ ~e.err /\ e.queue = d.queue /\ e.lock = d.lock
      /\ e.request = [d.request EXCEPT ![r] = "terminal"]
      /\ e.attempt = [d.attempt EXCEPT ![r] = "succeeded"]
      /\ e.cleanup = [d.cleanup EXCEPT ![r] = "complete"]
      /\ e.mutation = d.mutation /\ e.node = d.node /\ e.lease = d.lease /\ e.bound = d.bound
  BY <1>1, <1>4 DEF Shape
<1>6. /\ OnlyRow(d, e, r) /\ e.request[r] = "terminal" /\ e.attempt[r] = "succeeded"
      /\ e.cleanup[r] = "complete"
  BY <1>4, <1>5 DEF OnlyRow, Shape
<1>7. ASSUME cond PROVE Good(e)
  <2>1. RowSound(r, d.request[r], d.attempt[r], d.mutation[r], d.cleanup[r],
                 d.node[r], d.lease[r], d.bound[r])
    BY DEF Good, RowOK
  <2>2. /\ d.attempt[r] # None /\ d.mutation[r] = "not_started" /\ d.request[r] # None
        /\ \A n \in NodesOf[r.project] : d.node[r][n] \in {"succeeded", "cancelled"}
    BY <1>2, <1>7 DEF None
  <2>3. RowSound(r, "terminal", "succeeded", d.mutation[r], "complete",
                 d.node[r], d.lease[r], d.bound[r])
    BY <2>1, <2>2, ShadowFinishedRow
  <2>4. RowOK(e, r) /\ Calm(d, e, r)
    BY <1>5, <1>6, <2>2, <2>3 DEF RowOK, Calm, Over
  <2> QED
    BY <2>4, CalmRow
<1>8. Settled(d, e)
  BY <1>5, SettledSame
<1> QED
  BY <1>3, <1>5, <1>7, <1>8, RequireSettles

(* An exclusive node of an attempt is leased on its own.                       *)
LEMMA ClosedLeavesNoExclusive ==
  ASSUME NEW d, Good(d), NEW e, NEW r \in Requests, NEW n \in NodesOf[r.project],
         d.node[r][n] = "leased", Exclusive(r, n),
         NoLongerLeased(d, e, r, n)
  PROVE  \A m \in NodesOf[r.project] : Exclusive(r, m) => e.node[r][m] # "leased"
<1>1. PICK nd, ls : nd = d.node[r] /\ ls = d.lease[r]
  OBVIOUS
<1>2. DependenciesDone(r.project, nd, ls) /\ NodesSound(r.project, nd, ls)
  BY <1>1 DEF Good, RowOK, RowSound
<1>3. \A m \in NodesOf[r.project] : nd[m] = "leased" => m # "rollback"
  BY <1>2 DEF NodesSound, NodeSound, Runs
<1>4. ASSUME NEW m \in NodesOf[r.project], Exclusive(r, m), e.node[r][m] = "leased"
      PROVE  FALSE
  <2>1. m # n /\ nd[m] = "leased" /\ nd[n] = "leased" /\ m # "rollback" /\ n # "rollback"
    BY <1>1, <1>3, <1>4 DEF NoLongerLeased
  <2> QED
    BY <1>2, <1>4, <2>1, OneExclusive
<1> QED
  BY <1>4

(* One overdue lease expires.                                                  *)
LEMMA ExpireOneIsSound ==
  ASSUME NEW d, Sound(d), NEW t \in Steps
  PROVE  Settles(d, ExpireOne(d, t))
<1>1. PICK r, n : r = t[1] /\ n = t[2]
  OBVIOUS
<1>2. r \in Requests /\ n \in NodesOf[r.project]
  BY <1>1 DEF Steps
<1>3. PICK x1, x2, x3, x4 :
        /\ x1 = [CloseLease(d, r, n, "expired", TRUE) EXCEPT !.node[r][n] = "needs_reconcile"]
        /\ x2 = [CloseLease(d, r, n, "expired", TRUE) EXCEPT !.node[r][n] = "failed"]
        /\ x3 = [CloseLease(d, r, n, "expired", TRUE) EXCEPT !.node[r][n] = "ready"]
        /\ x4 = [x3 EXCEPT !.cleanup[r] = "pending"]
  OBVIOUS
<1>4. ExpireOne(d, t) =
        IF d.err THEN d
        ELSE IF d.node[r][n] # "leased" THEN Fail(d)
        ELSE IF Exclusive(r, n) THEN MarkNeedsReconcile(x1, r, TRUE)
        ELSE IF Current(d, r, n).expires = Current(d, r, n).deadline
        THEN FailTerminalWorkflow(x2, r, TRUE) ELSE x4
  BY <1>1, <1>3 DEF ExpireOne
<1>5. CASE d.err
  BY <1>4, <1>5 DEF Settles
<1>6. CASE ~d.err /\ d.node[r][n] # "leased"
  BY <1>4, <1>6, FailIsSound DEF Sound, Settles
<1>7. CASE ~d.err /\ d.node[r][n] = "leased"
  <2>1. /\ Good(d)
        /\ \A x \in {"ready", "failed", "needs_reconcile"} : Closes(d, r, n, "expired", TRUE, x)
    BY <1>2, <1>7 DEF Sound, Closes
  <2>2. CASE Exclusive(r, n)
    <3>1. Closed(d, x1, r, n, "expired", TRUE, "needs_reconcile")
      BY <1>3, <2>1, ClosedByExcept, Zenon
    <3>2. Good(x1) /\ NoLongerLeased(d, x1, r, n)
      BY <2>1, <3>1, ClosedKeepsGood
    <3>3. \A m \in NodesOf[r.project] : Exclusive(r, m) => x1.node[r][m] # "leased"
      BY <1>2, <1>7, <2>1, <2>2, <3>2, ClosedLeavesNoExclusive
    <3>4. Settled(d, x1)
      BY <2>1, <3>1, ClosedSettles
    <3>5. Settles(x1, MarkNeedsReconcile(x1, r, TRUE))
      BY <1>2, <3>2, <3>3, ReconcileIsSound
    <3> QED
      BY <1>4, <1>7, <2>2, <3>4, <3>5, SettlesAfter
  <2>3. CASE ~Exclusive(r, n) /\ Current(d, r, n).expires = Current(d, r, n).deadline
    <3>1. Closed(d, x2, r, n, "expired", TRUE, "failed")
      BY <1>3, <2>1, ClosedByExcept, Zenon
    <3>2. Good(x2)
      BY <2>1, <3>1, ClosedKeepsGood
    <3>3. Settled(d, x2)
      BY <2>1, <3>1, ClosedSettles
    <3>4. Settles(x2, FailTerminalWorkflow(x2, r, TRUE))
      BY <1>2, <3>2, FailTerminalIsSound
    <3> QED
      BY <1>4, <1>7, <2>3, <3>3, <3>4, SettlesAfter
  <2>4. CASE ~Exclusive(r, n) /\ Current(d, r, n).expires # Current(d, r, n).deadline
    <3>1. x4 = [CloseLease(d, r, n, "expired", TRUE) EXCEPT !.node[r][n] = "ready",
                                                           !.cleanup[r] = "pending"]
      BY <1>3
    <3>2. Closed(d, x4, r, n, "expired", TRUE, "ready")
      BY <2>1, <3>1, ClosedByExcept, Zenon
    <3>3. Good(x4) /\ Settled(d, x4)
      BY <2>1, <3>2, ClosedKeepsGood, ClosedSettles
    <3> QED
      BY <1>4, <1>7, <2>4, <3>3, GoodIsSound DEF Settles
  <2> QED
    BY <2>2, <2>3, <2>4
<1> QED
  BY <1>5, <1>6, <1>7 DEF Sound, Shape

(* What a step of the scheduler keeps: a mutation that began, a node that      *)
(* succeeded, and how a closed lease ended; a node other than the reduction    *)
(* succeeds while its newest lease runs and is not overdue.                    *)
InTime(s) == Runs(s) /\ Newest(s).expires > 0
KeptLeases(s, u) ==
  \A g \in DOMAIN s : g \in DOMAIN u /\ (s[g].state # "active" => u[g].state = s[g].state)
KeptRow(p, mu, mv, nd, ns, ls, us) ==
  /\ mu # "not_started" => mv # "not_started"
  /\ \A n \in NodesOf[p] :
       /\ nd[n] = "succeeded" => ns[n] = "succeeded"
       /\ nd[n] # "succeeded" /\ ns[n] = "succeeded" => n = "reduce" \/ InTime(ls[n])
       /\ KeptLeases(ls[n], us[n])
Kept(d, e) ==
  \A r \in Requests : KeptRow(r.project, d.mutation[r], e.mutation[r], d.node[r], e.node[r],
                             d.lease[r], e.lease[r])

(* No lease is given out.                                                      *)
NoGrant(d, e) ==
  \A r \in Requests : \A n \in NodesOf[r.project] : DOMAIN e.lease[r][n] = DOMAIN d.lease[r][n]

(* What a transaction leaves that gives no lease out.                          *)
Keeps(d, e) == Sound(e) /\ (e.err \/ (Kept(d, e) /\ NoGrant(d, e)))

(* To settle is to keep.                                                       *)
LEMMA SettledIsKept ==
  ASSUME NEW d, NEW e, Settled(d, e)
  PROVE  Kept(d, e) /\ NoGrant(d, e)
<1>1. ASSUME NEW r \in Requests, NEW n \in NodesOf[r.project]
      PROVE  /\ DOMAIN e.lease[r][n] = DOMAIN d.lease[r][n]
             /\ KeptLeases(d.lease[r][n], e.lease[r][n])
  <2>1. SettledLeases(d.lease[r][n], e.lease[r][n])
    BY DEF Settled, SettledRow
  <2> QED
    BY <2>1 DEF SettledLeases, SettledLease, KeptLeases
<1>2. ASSUME NEW r \in Requests
      PROVE  KeptRow(r.project, d.mutation[r], e.mutation[r], d.node[r], e.node[r],
                     d.lease[r], e.lease[r])
  BY <1>1 DEF Settled, SettledRow, KeptRow
<1> QED
  BY <1>1, <1>2 DEF Kept, NoGrant

(* What is kept stays kept when the rest is settled.                           *)
LEMMA KeptThenSettled ==
  ASSUME NEW d, NEW e, NEW f, Kept(d, e), NoGrant(d, e), Settles(e, f)
  PROVE  Keeps(d, f)
<1>1. CASE f.err
  <2>1. Sound(f)
    BY DEF Settles
  <2> QED
    BY <1>1, <2>1, Zenon DEF Keeps
<1>2. CASE ~f.err
  <2>1. Settled(e, f) /\ Sound(f)
    BY <1>2 DEF Settles
  <2>2. ASSUME NEW r \in Requests, NEW n \in NodesOf[r.project]
        PROVE  /\ DOMAIN f.lease[r][n] = DOMAIN d.lease[r][n]
               /\ KeptLeases(d.lease[r][n], f.lease[r][n])
               /\ f.node[r][n] = "succeeded" <=> e.node[r][n] = "succeeded"
    <3>1. PICK s, u, v : s = d.lease[r][n] /\ u = e.lease[r][n] /\ v = f.lease[r][n]
      OBVIOUS
    <3>2. SettledLeases(u, v) /\ DOMAIN u = DOMAIN s /\ KeptLeases(s, u)
      BY <2>1, <3>1 DEF Settled, SettledRow, Kept, KeptRow, NoGrant
    <3>3. DOMAIN v = DOMAIN s /\ KeptLeases(s, v)
      <4>1. DOMAIN v = DOMAIN s
        BY <3>2 DEF SettledLeases
      <4>2. ASSUME NEW g \in DOMAIN s
            PROVE  g \in DOMAIN v /\ (s[g].state # "active" => v[g].state = s[g].state)
        <5>1. SettledLease(u[g], v[g]) /\ (s[g].state # "active" => u[g].state = s[g].state)
          BY <3>2 DEF SettledLeases, KeptLeases
        <5> QED
          BY <4>1, <5>1 DEF SettledLease
      <4> QED
        BY <4>1, <4>2 DEF KeptLeases
    <3>4. f.node[r][n] = "succeeded" <=> e.node[r][n] = "succeeded"
      BY <2>1 DEF Settled, SettledRow
    <3> QED
      BY <3>1, <3>3, <3>4
  <2>3. ASSUME NEW r \in Requests
        PROVE  KeptRow(r.project, d.mutation[r], f.mutation[r], d.node[r], f.node[r],
                       d.lease[r], f.lease[r])
    <3>1. d.mutation[r] # "not_started" => f.mutation[r] # "not_started"
      BY <2>1 DEF Settled, SettledRow, Kept, KeptRow
    <3>2. ASSUME NEW n \in NodesOf[r.project]
          PROVE  /\ d.node[r][n] = "succeeded" => f.node[r][n] = "succeeded"
                 /\ d.node[r][n] # "succeeded" /\ f.node[r][n] = "succeeded" =>
                      n = "reduce" \/ InTime(d.lease[r][n])
      BY <2>2 DEF Kept, KeptRow
    <3> QED
      BY <2>2, <3>1, <3>2 DEF KeptRow
  <2> QED
    BY <2>1, <2>2, <2>3 DEF Keeps, Kept, NoGrant
<1> QED
  BY <1>1, <1>2

(* What is kept from a settled database on is kept from the one before.        *)
LEMMA SettledThenKept ==
  ASSUME NEW d, Good(d), NEW e, Good(e), NEW f, Settled(d, e), Kept(e, f)
  PROVE  Kept(d, f)
<1>1. ASSUME NEW r \in Requests, NEW n \in NodesOf[r.project]
      PROVE  /\ KeptLeases(d.lease[r][n], f.lease[r][n])
             /\ InTime(e.lease[r][n]) => InTime(d.lease[r][n])
             /\ e.node[r][n] = "succeeded" <=> d.node[r][n] = "succeeded"
  <2>1. PICK s, u, v : s = d.lease[r][n] /\ u = e.lease[r][n] /\ v = f.lease[r][n]
    OBVIOUS
  <2>2. SettledLeases(s, u) /\ KeptLeases(u, v) /\ s \in Seq(LeaseRows) /\ u \in Seq(LeaseRows)
    BY <2>1 DEF Settled, SettledRow, Kept, KeptRow, Good, RowOK, RowSound, NodesSound, NodeSound
  <2>3. KeptLeases(s, v)
    BY <2>2 DEF SettledLeases, SettledLease, KeptLeases
  <2>4. Len(u) = Len(s)
    BY <2>2 DEF SettledLeases
  <2>5. ASSUME InTime(u) PROVE InTime(s)
    <3>1. u # << >> /\ u[Len(u)].state = "active" /\ u[Len(u)].expires > 0
      BY <2>5 DEF InTime, Runs, Newest
    <3>2. Len(u) \in DOMAIN s /\ s # << >>
      BY <2>2, <2>4, <3>1
    <3>3. SettledLease(s[Len(u)], u[Len(u)])
      BY <2>2, <3>2 DEF SettledLeases
    <3>4. s[Len(s)] = u[Len(u)]
      BY <2>4, <3>1, <3>3 DEF SettledLease
    <3> QED
      BY <3>1, <3>2, <3>4 DEF InTime, Runs, Newest
  <2>6. e.node[r][n] = "succeeded" <=> d.node[r][n] = "succeeded"
    BY DEF Settled, SettledRow
  <2> QED
    BY <2>1, <2>3, <2>5, <2>6
<1>2. ASSUME NEW r \in Requests
      PROVE  KeptRow(r.project, d.mutation[r], f.mutation[r], d.node[r], f.node[r],
                     d.lease[r], f.lease[r])
  <2>1. d.mutation[r] # "not_started" => f.mutation[r] # "not_started"
    BY DEF Settled, SettledRow, Kept, KeptRow
  <2>2. ASSUME NEW n \in NodesOf[r.project]
        PROVE  /\ d.node[r][n] = "succeeded" => f.node[r][n] = "succeeded"
               /\ d.node[r][n] # "succeeded" /\ f.node[r][n] = "succeeded" =>
                    n = "reduce" \/ InTime(d.lease[r][n])
    BY <1>1 DEF Kept, KeptRow
  <2> QED
    BY <1>1, <2>1, <2>2 DEF KeptRow
<1> QED
  BY <1>2 DEF Kept

(* A lease that is closed by a receipt in time.                                *)
LEMMA ClosedIsKept ==
  ASSUME NEW d, Good(d), NEW e, NEW r, NEW n, NEW st, NEW debt, NEW x,
         Closed(d, e, r, n, st, debt, x), InTime(d.lease[r][n])
  PROVE  Kept(d, e) /\ NoGrant(d, e)
<1>1. /\ r \in Requests /\ n \in NodesOf[r.project] /\ d.node[r][n] = "leased"
      /\ st \in {"expired", "committed"} /\ debt \in BOOLEAN /\ OnlyRow(d, e, r)
      /\ e.mutation[r] = d.mutation[r]
  BY DEF Closed, Closes
<1>2. PICK nd, ls, ns, us : /\ nd = d.node[r] /\ ls = d.lease[r] /\ ns = e.node[r]
                            /\ us = e.lease[r]
  OBVIOUS
<1>3. NodesSound(r.project, nd, ls) /\ nd[n] = "leased"
  BY <1>1, <1>2 DEF Good, RowOK, RowSound
<1>4. PICK u : u = CloseNewest(ls[n], st, debt)
  OBVIOUS
<1>5. ns = [nd EXCEPT ![n] = x] /\ us = [ls EXCEPT ![n] = u]
  BY <1>2, <1>4 DEF Closed
<1>6. DOMAIN nd = NodesOf[r.project] /\ DOMAIN ls = NodesOf[r.project] /\ NodeSound(n, "leased", ls[n])
  BY <1>1, <1>3 DEF NodesSound
<1>7. DOMAIN u = DOMAIN ls[n] /\ KeptLeases(ls[n], u)
  <2>1. PICK s : s = ls[n]
    OBVIOUS
  <2>2. NodeSound(n, "leased", s) /\ u = CloseNewest(s, st, debt)
    BY <1>4, <1>6, <2>1
  <2>3. /\ DOMAIN u = DOMAIN s /\ s[Len(s)].state = "active"
        /\ \A g \in DOMAIN s : g # Len(s) => u[g] = s[g]
    BY <1>1, <2>2, CloseNewestFacts
  <2> QED
    BY <2>1, <2>3 DEF KeptLeases
<1>8. ASSUME NEW m \in NodesOf[r.project]
      PROVE  /\ nd[m] = "succeeded" => ns[m] = "succeeded"
             /\ nd[m] # "succeeded" /\ ns[m] = "succeeded" => InTime(ls[m])
             /\ DOMAIN us[m] = DOMAIN ls[m] /\ KeptLeases(ls[m], us[m])
  <2>1. CASE m = n
    BY <1>2, <1>3, <1>5, <1>6, <1>7, <2>1
  <2>2. CASE m # n
    <3>1. ns[m] = nd[m] /\ us[m] = ls[m]
      BY <1>5, <1>6, <2>2
    <3> QED
      BY <3>1 DEF KeptLeases
  <2> QED
    BY <2>1, <2>2
<1>9. KeptRow(r.project, d.mutation[r], e.mutation[r], d.node[r], e.node[r],
              d.lease[r], e.lease[r])
  BY <1>1, <1>2, <1>8 DEF KeptRow
<1>10. ASSUME NEW s \in Requests
       PROVE  /\ KeptRow(s.project, d.mutation[s], e.mutation[s], d.node[s], e.node[s],
                         d.lease[s], e.lease[s])
              /\ \A m \in NodesOf[s.project] : DOMAIN e.lease[s][m] = DOMAIN d.lease[s][m]
  <2>1. CASE s = r
    BY <1>2, <1>8, <1>9, <2>1
  <2>2. CASE s # r
    <3>1. e.mutation[s] = d.mutation[s] /\ e.node[s] = d.node[s] /\ e.lease[s] = d.lease[s]
      BY <1>1, <2>2 DEF OnlyRow
    <3> QED
      BY <3>1 DEF KeptRow, KeptLeases
  <2> QED
    BY <2>1, <2>2
<1> QED
  BY <1>10 DEF Kept, NoGrant

(* A receipt of the current lease.                                             *)
LEMMA ReceiptIsSound ==
  ASSUME NEW d, Good(d), NEW r \in Requests, NEW n \in NodesOf[r.project],
         NEW outcome \in {"succeeded", "failed"}, NEW pending \in BOOLEAN
  PROVE  Keeps(d, ReceiptTransaction(d, r, n, outcome, pending))
<1>2. PICK x : x = IF outcome = "succeeded" THEN "succeeded"
                   ELSE IF n \in Mutation \/ Exclusive(r, n) THEN "needs_reconcile" ELSE "failed"
  OBVIOUS
<1>3. PICK e : e = [CloseLease(d, r, n, "committed", pending) EXCEPT
                      !.node[r][n] = x, !.cleanup[r] = IF pending THEN "pending" ELSE @]
  OBVIOUS
<1>4. ReceiptTransaction(d, r, n, outcome, pending) =
        IF \/ Current(d, r, n).state # "active" \/ Current(d, r, n).expires <= 0
           \/ d.node[r][n] # "leased"
        THEN Fail(d)
        ELSE IF outcome = "succeeded"
        THEN IF n = "observe" THEN CompleteWorkflow(e, r) ELSE AdvanceReadyNodes(e, r)
        ELSE IF n \in Mutation \/ Exclusive(r, n) THEN MarkNeedsReconcile(e, r, pending)
        ELSE FailTerminalWorkflow(e, r, pending)
  BY <1>2, <1>3 DEF ReceiptTransaction
<1>5. CASE \/ Current(d, r, n).state # "active" \/ Current(d, r, n).expires <= 0
           \/ d.node[r][n] # "leased"
  <2>1. PICK f : f = Fail(d)
    OBVIOUS
  <2>2. Sound(f) /\ f.err
    BY <2>1, GoodIsSound, FailIsSound
  <2>3. Keeps(d, f)
    BY <2>2, Zenon DEF Keeps
  <2> QED
    BY <1>4, <1>5, <2>1, <2>3
<1>6. CASE ~(\/ Current(d, r, n).state # "active" \/ Current(d, r, n).expires <= 0
             \/ d.node[r][n] # "leased")
  <2>1. d.node[r][n] = "leased"
    BY <1>6
  <2>2. PICK f : f = CloseLease(d, r, n, "committed", pending)
    OBVIOUS
  <2>3. Shape(d) /\ d.cleanup[r] \in {"complete", "pending"}
    BY DEF Good, RowOK, RowSound, ColumnsSound
  <2>4. PICK c \in {"complete", "pending"} : c = IF pending THEN "pending" ELSE d.cleanup[r]
    BY <2>3
  <2>5. f.cleanup = d.cleanup
    BY <2>2, <2>3 DEF Shape, CloseLease
  <2>6. e = [CloseLease(d, r, n, "committed", pending) EXCEPT !.node[r][n] = x, !.cleanup[r] = c]
    BY <1>3, <2>2, <2>4, <2>5
  <2>7. x \in {"failed", "needs_reconcile", "succeeded"}
    BY <1>2
  <2>14. Closes(d, r, n, "committed", pending, x)
    BY <2>1, <2>7 DEF Closes
  <2>8. Closed(d, e, r, n, "committed", pending, x)
    BY <2>4, <2>6, <2>14, ClosedByExcept, Zenon
  <2>9. Good(e) /\ d.attempt[r] \notin Early /\ NoLongerLeased(d, e, r, n)
    BY <2>8, ClosedKeepsGood
  <2>15. Kept(d, e) /\ NoGrant(d, e)
    <3>1. d.lease[r][n] \in Seq(LeaseRows) /\ Runs(d.lease[r][n])
      BY <2>1 DEF Good, RowOK, RowSound, NodesSound, NodeSound
    <3>2. d.lease[r][n][Len(d.lease[r][n])] \in LeaseRows
      BY <3>1 DEF Runs
    <3>3. Newest(d.lease[r][n]).expires > 0
      BY <1>6, <3>2 DEF Current, Newest, LeaseRows
    <3> QED
      BY <2>8, <3>1, <3>3, ClosedIsKept DEF InTime
  <2>10. CASE outcome = "succeeded" /\ n = "observe"
    <3>1. Settles(e, CompleteWorkflow(e, r))
      BY <2>9, CompleteIsSound
    <3> QED
      BY <1>4, <1>6, <2>10, <2>15, <3>1, KeptThenSettled
  <2>11. CASE outcome = "succeeded" /\ n # "observe"
    <3>1. e.attempt[r] \notin Early
      BY <2>8, <2>9 DEF Closed
    <3>2. Settles(e, AdvanceReadyNodes(e, r))
      BY <2>9, <3>1, AdvanceKeepsGood, GoodIsSound DEF Settles
    <3> QED
      BY <1>4, <1>6, <2>11, <2>15, <3>2, KeptThenSettled
  <2>12. CASE outcome # "succeeded" /\ (n \in Mutation \/ Exclusive(r, n))
    <3>1. Exclusive(r, n)
      <4>1. RowOK(d, r) /\ r.mode \in {"deploy", "shadow"}
        BY RequestFacts DEF Good
      <4>2. d.lease[r][n] # << >>
        BY <2>1, <4>1 DEF RowOK, RowSound, NodesSound, NodeSound, Runs
      <4>3. r.mode = "shadow" => ShadowExecutes(r.project, n)
        BY <4>1, <4>2 DEF RowOK, RowSound, AttemptSound
      <4>4. ShadowExecutes(r.project, n) => n \notin Mutation
        BY RequestFacts, PolicyAssumption DEF ShadowExecutes, Mutation
      <4> QED
        BY <2>12, <4>1, <4>3, <4>4 DEF Exclusive
    <3>2. \A m \in NodesOf[r.project] : Exclusive(r, m) => e.node[r][m] # "leased"
      BY <2>1, <2>9, <3>1, ClosedLeavesNoExclusive
    <3>3. Settles(e, MarkNeedsReconcile(e, r, pending))
      BY <2>9, <3>2, ReconcileIsSound
    <3> QED
      BY <1>4, <1>6, <2>12, <2>15, <3>3, KeptThenSettled
  <2>13. CASE outcome # "succeeded" /\ ~(n \in Mutation \/ Exclusive(r, n))
    <3>1. Settles(e, FailTerminalWorkflow(e, r, pending))
      BY <2>9, FailTerminalIsSound
    <3> QED
      BY <1>4, <1>6, <2>13, <2>15, <3>1, KeptThenSettled
  <2> QED
    BY <2>10, <2>11, <2>12, <2>13
<1> QED
  BY <1>5, <1>6

(* A step that changes times and cleanup only.                                 *)
OnlyTimes(d, e) ==
  /\ Shape(e) /\ ~e.err /\ e.queue = d.queue /\ e.lock = d.lock /\ e.request = d.request
  /\ e.attempt = d.attempt /\ e.mutation = d.mutation /\ e.node = d.node /\ e.bound = d.bound
  /\ \A s \in Requests : /\ e.cleanup[s] \in {"complete", "pending"}
                         /\ DOMAIN e.lease[s] = NodesOf[s.project]
                         /\ \A m \in NodesOf[s.project] : SameLeases(d.lease[s][m], e.lease[s][m])

(* It gives no lease out, and every lease ends as it ended.                    *)
LEMMA TimesAreKept ==
  ASSUME NEW d, Good(d), NEW e, OnlyTimes(d, e)
  PROVE  Kept(d, e) /\ NoGrant(d, e)
<1>1. ASSUME NEW r \in Requests, NEW n \in NodesOf[r.project]
      PROVE  /\ DOMAIN e.lease[r][n] = DOMAIN d.lease[r][n]
             /\ KeptLeases(d.lease[r][n], e.lease[r][n])
  <2>1. PICK s, u : s = d.lease[r][n] /\ u = e.lease[r][n]
    OBVIOUS
  <2>2. SameLeases(s, u) /\ s \in Seq(LeaseRows)
    BY <2>1 DEF OnlyTimes, Good, RowOK, RowSound, NodesSound, NodeSound
  <2>3. DOMAIN u = DOMAIN s /\ DOMAIN s = 1..Len(s)
    BY <2>2 DEF SameLeases
  <2>4. KeptLeases(s, u)
    BY <2>2, <2>3 DEF SameLeases, KeptLeases
  <2> QED
    BY <2>1, <2>3, <2>4
<1>2. e.mutation = d.mutation /\ e.node = d.node
  BY DEF OnlyTimes
<1> QED
  BY <1>1, <1>2 DEF Kept, KeptRow, NoGrant

(* A change of times and receipts keeps the database sound.                   *)
LEMMA TimesKeepGood ==
  ASSUME NEW d, Good(d), NEW e, OnlyTimes(d, e)
  PROVE  Good(e)
<1>1. ASSUME NEW s \in Requests PROVE RowOK(e, s) /\ LockedOK(e, s) /\ Queued(e, s)
  <2>1. RowOK(d, s) /\ LockedOK(d, s) /\ Queued(d, s)
    BY DEF Good
  <2>2. RowSound(s, d.request[s], d.attempt[s], d.mutation[s], e.cleanup[s],
                 d.node[s], e.lease[s], d.bound[s])
    BY <2>1, SameRow DEF RowOK, OnlyTimes
  <2> QED
    BY <2>1, <2>2 DEF OnlyTimes, RowOK, LockedOK, Queued
<1>2. \A p \in Projects : LockOK(e, p)
  BY DEF OnlyTimes, Good, LockOK
<1>3. OneFresh(e)
  BY DEF OnlyTimes, Good, OneFresh, Fresh
<1> QED
  BY <1>1, <1>2, <1>3 DEF Good, OnlyTimes

(* A lease row whose times or cleanup change.                                  *)
SameLease(l, k) ==
  k \in LeaseRows /\ k.state = l.state /\ k.worker = l.worker /\ k.shared = l.shared

(* A lease whose times or receipt change is the same lease.                   *)
LEMMA SameLeaseFacts ==
  ASSUME NEW l \in LeaseRows
  PROVE  /\ SameLease(l, l)
         /\ \A v \in Int : SameLease(l, [l EXCEPT !.expires = v])
         /\ \A v, w \in Int : SameLease(l, [l EXCEPT !.expires = v, !.deadline = w])
         /\ SameLease(l, [l EXCEPT !.cleanup = "done"])
<1>1. /\ l.worker \in Workers /\ l.state \in LeaseStates /\ l.expires \in Int
      /\ l.deadline \in Int /\ l.shared \in BOOLEAN /\ l.cleanup \in {"none", "pending", "done"}
  BY DEF LeaseRows
<1>2. ASSUME NEW v \in Int, NEW w \in Int, NEW c \in {"none", "pending", "done"}, NEW z,
             z = [worker |-> l.worker, state |-> l.state, expires |-> v,
                  deadline |-> w, shared |-> l.shared, cleanup |-> c]
      PROVE  SameLease(l, z)
  BY <1>1, <1>2 DEF SameLease, LeaseRows
<1>3. ASSUME NEW v \in Int
      PROVE  SameLease(l, [l EXCEPT !.expires = v])
  <2>1. PICK z : z = [l EXCEPT !.expires = v]
    OBVIOUS
  <2>2. z = [worker |-> l.worker, state |-> l.state, expires |-> v,
             deadline |-> l.deadline, shared |-> l.shared, cleanup |-> l.cleanup]
    BY <2>1 DEF LeaseRows
  <2>3. SameLease(l, z)
    BY <1>1, <1>2, <2>2
  <2> QED
    BY <2>1, <2>3
<1>4. ASSUME NEW v \in Int, NEW w \in Int
      PROVE  SameLease(l, [l EXCEPT !.expires = v, !.deadline = w])
  <2>1. PICK z : z = [l EXCEPT !.expires = v, !.deadline = w]
    OBVIOUS
  <2>2. z = [worker |-> l.worker, state |-> l.state, expires |-> v,
             deadline |-> w, shared |-> l.shared, cleanup |-> l.cleanup]
    BY <2>1 DEF LeaseRows
  <2>3. SameLease(l, z)
    BY <1>1, <1>2, <2>2
  <2> QED
    BY <2>1, <2>3
<1>5. SameLease(l, [l EXCEPT !.cleanup = "done"])
  <2>1. PICK z : z = [l EXCEPT !.cleanup = "done"]
    OBVIOUS
  <2>2. z = [worker |-> l.worker, state |-> l.state, expires |-> l.expires,
             deadline |-> l.deadline, shared |-> l.shared, cleanup |-> "done"]
    BY <2>1 DEF LeaseRows
  <2>3. SameLease(l, z)
    BY <1>1, <1>2, <2>2
  <2> QED
    BY <2>1, <2>3
<1>6. SameLease(l, l)
  BY DEF SameLease
<1> QED
  BY <1>3, <1>4, <1>5, <1>6

(* Leases that agree one by one agree as sequences.                           *)
LEMMA SameLeasesByRow ==
  ASSUME NEW s \in Seq(LeaseRows), NEW u, DOMAIN u = DOMAIN s, u = [g \in DOMAIN u |-> u[g]],
         \A g \in DOMAIN s : SameLease(s[g], u[g])
  PROVE  SameLeases(s, u)
<1>1. PICK k \in Nat : k = Len(s)
  OBVIOUS
<1>2. DOMAIN s = 1..k
  BY <1>1
<1>3. u \in [1..k -> LeaseRows]
  BY <1>2 DEF SameLease
<1>4. u \in Seq(LeaseRows) /\ Len(u) = k
  BY <1>3, FunctionIsList
<1> QED
  BY <1>1, <1>2, <1>4 DEF SameLeases, SameLease

(* One lease row of a node changes.                                            *)
LEMMA OneLeaseChanges ==
  ASSUME NEW s \in Seq(LeaseRows), NEW g, NEW l, g \in DOMAIN s => SameLease(s[g], l)
  PROVE  SameLeases(s, [s EXCEPT ![g] = l]) /\ SameLeases(s, s)
<1>1. PICK u : u = [s EXCEPT ![g] = l]
  OBVIOUS
<1>2. DOMAIN u = DOMAIN s /\ u = [i \in DOMAIN u |-> u[i]]
  BY <1>1
<1>3. \A i \in DOMAIN s : s[i] \in LeaseRows
  OBVIOUS
<1>4. \A i \in DOMAIN s : SameLease(s[i], u[i])
  BY <1>1, <1>3, SameLeaseFacts
<1>5. SameLeases(s, u)
  BY <1>2, <1>4, SameLeasesByRow
<1>6. SameLeases(s, s)
  BY DEF SameLeases
<1> QED
  BY <1>1, <1>5, <1>6

(* The database in which one lease row changes.                                *)
LEMMA OneLeaseKeepsGood ==
  ASSUME NEW d, Good(d), NEW e, NEW r \in Requests, NEW n \in NodesOf[r.project], NEW g, NEW l,
         g \in DOMAIN d.lease[r][n] => SameLease(d.lease[r][n][g], l),
         NEW c \in {"complete", "pending"},
         \/ e = [d EXCEPT !.lease[r][n][g] = l]
         \/ e = [d EXCEPT !.lease[r][n][g] = l, !.cleanup[r] = c]
  PROVE  Good(e) /\ Kept(d, e) /\ NoGrant(d, e)
<1>1. Shape(d) /\ ~d.err
  BY DEF Good
<1>2. PICK u : u = [d.lease[r][n] EXCEPT ![g] = l]
  OBVIOUS
<1>3. \A s \in Requests : /\ d.cleanup[s] \in {"complete", "pending"}
                          /\ DOMAIN d.lease[s] = NodesOf[s.project]
                          /\ \A m \in NodesOf[s.project] : d.lease[s][m] \in Seq(LeaseRows)
  BY DEF Good, RowOK, RowSound, ColumnsSound, NodesSound, NodeSound
<1>4. /\ Shape(e) /\ ~e.err /\ e.queue = d.queue /\ e.lock = d.lock /\ e.request = d.request
      /\ e.attempt = d.attempt /\ e.mutation = d.mutation /\ e.node = d.node
      /\ e.bound = d.bound
      /\ e.lease = [d.lease EXCEPT ![r] = [@ EXCEPT ![n] = u]]
      /\ e.cleanup = d.cleanup \/ e.cleanup = [d.cleanup EXCEPT ![r] = c]
  BY <1>1, <1>2, ZenonT(60) DEF Shape
<1>5. SameLeases(d.lease[r][n], u) /\ \A s \in Requests : \A m \in NodesOf[s.project] :
        SameLeases(d.lease[s][m], d.lease[s][m])
  <2>1. SameLeases(d.lease[r][n], u)
    BY <1>2, <1>3, OneLeaseChanges
  <2> QED
    BY <1>3, <2>1 DEF SameLeases
<1>6. ASSUME NEW s \in Requests
      PROVE  /\ e.cleanup[s] \in {"complete", "pending"}
             /\ DOMAIN e.lease[s] = NodesOf[s.project]
             /\ \A m \in NodesOf[s.project] : SameLeases(d.lease[s][m], e.lease[s][m])
  <2>1. e.cleanup[s] \in {"complete", "pending"}
    BY <1>1, <1>3, <1>4 DEF Shape
  <2>2. CASE s # r
    BY <1>1, <1>3, <1>4, <1>5, <2>1, <2>2 DEF Shape
  <2>3. CASE s = r
    <3>1. e.lease[s] = [d.lease[r] EXCEPT ![n] = u]
      BY <1>1, <1>4, <2>3 DEF Shape
    <3> QED
      BY <1>3, <1>5, <2>1, <2>3, <3>1
  <2> QED
    BY <2>2, <2>3
<1>7. OnlyTimes(d, e)
  BY <1>4, <1>6 DEF OnlyTimes
<1> QED
  BY <1>7, TimesKeepGood, TimesAreKept

(* A database that is as it was.                                               *)
LEMMA SameIsKept ==
  ASSUME NEW d
  PROVE  Kept(d, d) /\ NoGrant(d, d)
<1>1. Settled(d, d)
  BY SettledSame
<1> QED
  BY <1>1, SettledIsKept

(* A checked update, and what it keeps.                                        *)
LEMMA RequireKeeps ==
  ASSUME NEW d, NEW cond \in BOOLEAN, NEW e, Good(e), Kept(d, e), NoGrant(d, e)
  PROVE  Keeps(d, Require(cond, e))
<1>1. Sound(e) /\ Shape(e)
  BY GoodIsSound
<1>2. CASE cond
  BY <1>1, <1>2, Zenon DEF Require, Keeps
<1>3. CASE ~cond
  <2>1. PICK f : f = Fail(e)
    OBVIOUS
  <2>2. Sound(f) /\ f.err
    BY <1>1, <2>1, FailIsSound
  <2>3. Keeps(d, f)
    BY <2>2, Zenon DEF Keeps
  <2> QED
    BY <1>3, <2>1, <2>3 DEF Require
<1> QED
  BY <1>2, <1>3

(* renew_lease_transaction leaves a sound database or an error.               *)
LEMMA RenewIsSound ==
  ASSUME NEW d, Good(d), NEW r \in Requests, NEW n \in NodesOf[r.project]
  PROVE  Keeps(d, RenewTransaction(d, r, n))
<1>1. PICK k, v : k = Len(d.lease[r][n]) /\ v = Smaller(LeaseTicks, d.lease[r][n][k].deadline)
  OBVIOUS
<1>2. PICK e : e = IF v > d.lease[r][n][k].expires
                   THEN [d EXCEPT !.lease[r][n][k].expires = v] ELSE d
  OBVIOUS
<1>3. RenewTransaction(d, r, n) = Require(d.lease[r][n][k].state = "active", e)
  BY <1>1, <1>2 DEF RenewTransaction, Current
<1>4. Good(e) /\ Kept(d, e) /\ NoGrant(d, e)
  <2>1. CASE e = d
    BY <2>1, SameIsKept
  <2>2. CASE e = [d EXCEPT !.lease[r][n][k].expires = v]
    <3>1. d.lease[r][n] \in Seq(LeaseRows)
      BY DEF Good, RowOK, RowSound, NodesSound, NodeSound
    <3>2. PICK l : l = [d.lease[r][n][k] EXCEPT !.expires = v]
      OBVIOUS
    <3>3. ASSUME k \in DOMAIN d.lease[r][n] PROVE SameLease(d.lease[r][n][k], l)
      <4>1. d.lease[r][n][k] \in LeaseRows
        BY <3>1, <3>3
      <4>2. v \in Int
        BY <1>1, <4>1, SchedulerAssumption DEF LeaseRows, Smaller
      <4> QED
        BY <3>2, <4>1, <4>2, SameLeaseFacts
    <3>4. e = [d EXCEPT !.lease[r][n][k] = l]
      BY <2>2, <3>2
    <3>5. "complete" \in {"complete", "pending"}
      OBVIOUS
    <3> QED
      BY <3>3, <3>4, <3>5, OneLeaseKeepsGood, Zenon
  <2> QED
    BY <1>2, <2>1, <2>2
<1>5. PICK cond \in BOOLEAN : cond <=> d.lease[r][n][k].state = "active"
  OBVIOUS
<1>6. RenewTransaction(d, r, n) = Require(cond, e)
  BY <1>3, <1>5 DEF Require
<1> QED
  BY <1>4, <1>6, RequireKeeps

(* commit_cleanup_receipt_transaction leaves a sound database or an error.    *)
LEMMA CleanupIsSound ==
  ASSUME NEW d, Good(d), NEW r \in Requests, NEW n \in NodesOf[r.project],
         NEW g \in DOMAIN d.lease[r][n]
  PROVE  Keeps(d, CleanupTransaction(d, r, n, g))
<1>1. PICK l : l = [d.lease[r][n][g] EXCEPT !.cleanup = "done"]
  OBVIOUS
<1>2. PICK f : f = [d EXCEPT !.lease[r][n][g].cleanup = "done"]
  OBVIOUS
<1>3. PICK c \in {"complete", "pending"} :
        c = IF Unresolved(f, r) = {} THEN "complete" ELSE "pending"
  OBVIOUS
<1>4. PICK e : e = [d EXCEPT !.lease[r][n][g] = l, !.cleanup[r] = c]
  OBVIOUS
<1>5. f = [d EXCEPT !.lease[r][n][g] = l]
  BY <1>1, <1>2
<1>6. CleanupTransaction(d, r, n, g) = Require(HasDebt(d.lease[r][n][g]), e)
  BY <1>2, <1>3, <1>4, <1>5 DEF CleanupTransaction
<1>7. d.lease[r][n] \in Seq(LeaseRows)
  BY DEF Good, RowOK, RowSound, NodesSound, NodeSound
<1>8. SameLease(d.lease[r][n][g], l)
  <2>1. d.lease[r][n][g] \in LeaseRows
    BY <1>7
  <2> QED
    BY <1>1, <2>1, SameLeaseFacts
<1>9. Good(e) /\ Kept(d, e) /\ NoGrant(d, e)
  BY <1>3, <1>4, <1>8, OneLeaseKeepsGood, Zenon
<1>10. HasDebt(d.lease[r][n][g]) \in BOOLEAN
  BY DEF HasDebt
<1> QED
  BY <1>6, <1>9, <1>10, RequireKeeps

(* The reduction of an attempt.                                                *)
LEMMA ReduceIsSound ==
  ASSUME NEW d, Good(d), NEW r \in Requests
  PROVE  Keeps(d, ReduceTransaction(d, r))
<1>1. PICK e : e = [d EXCEPT !.node[r]["reduce"] = "succeeded"]
  OBVIOUS
<1>2. PICK bad \in BOOLEAN :
        bad <=> \/ d.node[r]["reduce"] # "ready"
                \/ \E m \in DependsOn[r.project]["reduce"] :
                     d.node[r][m] # "succeeded" \/ Current(d, r, m).state # "committed"
  OBVIOUS
<1>3. ReduceTransaction(d, r) =
        IF bad THEN Fail(d)
        ELSE IF r.mode = "shadow" THEN CompleteShadowWorkflow(e, r)
        ELSE IF Handoff(r.project) THEN CompleteWorkflow(e, r)
        ELSE AdvanceReadyNodes(e, r)
  BY <1>1, <1>2 DEF ReduceTransaction
<1>4. CASE bad
  <2>1. PICK f : f = Fail(d)
    OBVIOUS
  <2>2. Sound(f) /\ f.err
    BY <2>1, GoodIsSound, FailIsSound
  <2>3. Keeps(d, f)
    BY <2>2, Zenon DEF Keeps
  <2> QED
    BY <1>3, <1>4, <2>1, <2>3
<1>5. CASE ~bad
  <2>1. Shape(d) /\ ~d.err /\ d.node[r]["reduce"] = "ready"
    BY <1>2, <1>5 DEF Good
  <2>2. PICK nd, ns : nd = d.node[r] /\ ns = [nd EXCEPT !["reduce"] = "succeeded"]
    OBVIOUS
  <2>3. /\ Shape(e) /\ ~e.err /\ e.queue = d.queue /\ e.lock = d.lock /\ e.request = d.request
        /\ e.attempt = d.attempt /\ e.mutation = d.mutation /\ e.cleanup = d.cleanup
        /\ e.lease = d.lease /\ e.bound = d.bound /\ e.node = [d.node EXCEPT ![r] = ns]
    BY <1>1, <2>1, <2>2 DEF Shape
  <2>4. OnlyRow(d, e, r) /\ e.node[r] = ns
    BY <2>1, <2>3 DEF OnlyRow, Shape
  <2>5. RowSound(r, d.request[r], d.attempt[r], d.mutation[r], d.cleanup[r],
                 nd, d.lease[r], d.bound[r]) /\ nd["reduce"] = "ready"
    BY <2>1, <2>2 DEF Good, RowOK
  <2>6. /\ RowSound(r, d.request[r], d.attempt[r], d.mutation[r], d.cleanup[r],
                    ns, d.lease[r], d.bound[r])
        /\ d.attempt[r] \notin Early
        /\ \A n \in NodesOf[r.project] : ns[n] = "leased" <=> nd[n] = "leased"
    BY <2>2, <2>5, ReducedRow
  <2>7. RowOK(e, r) /\ Calm(d, e, r)
    BY <2>2, <2>3, <2>4, <2>6 DEF RowOK, Calm
  <2>8. Good(e) /\ e.attempt[r] \notin Early
    BY <2>3, <2>6, <2>7, CalmRow
  <2>9. Kept(d, e) /\ NoGrant(d, e)
    <3>1. ASSUME NEW s \in Requests, NEW n \in NodesOf[s.project]
          PROVE  /\ d.node[s][n] = "succeeded" => e.node[s][n] = "succeeded"
                 /\ d.node[s][n] # "succeeded" /\ e.node[s][n] = "succeeded" => n = "reduce"
      <4>1. CASE s # r
        BY <2>4, <4>1 DEF OnlyRow
      <4>2. CASE s = r
        <5>1. DOMAIN nd = NodesOf[r.project]
          BY <2>5 DEF RowSound, NodesSound
        <5>2. n # "reduce" => ns[n] = nd[n]
          BY <2>2, <4>2, <5>1
        <5> QED
          BY <2>1, <2>2, <2>4, <4>2, <5>2
      <4> QED
        BY <4>1, <4>2
    <3>2. ASSUME NEW s \in Requests
          PROVE  KeptRow(s.project, d.mutation[s], e.mutation[s], d.node[s], e.node[s],
                         d.lease[s], e.lease[s])
      BY <2>3, <3>1 DEF KeptRow, KeptLeases
    <3> QED
      BY <2>3, <3>2 DEF Kept, NoGrant
  <2>10. Settles(e, AdvanceReadyNodes(e, r))
    BY <2>8, AdvanceKeepsGood, GoodIsSound DEF Settles
  <2>11. Settles(e, CompleteShadowWorkflow(e, r)) /\ Settles(e, CompleteWorkflow(e, r))
    BY <2>8, CompleteShadowIsSound, CompleteIsSound
  <2>12. Settles(e, ReduceTransaction(d, r))
    BY <1>3, <1>5, <2>10, <2>11
  <2> QED
    BY <2>9, <2>12, KeptThenSettled
<1> QED
  BY <1>4, <1>5

(* Time passes.                                                                *)
LEMMA TickKeepsGood ==
  ASSUME Good(db), Tick
  PROVE  Good(db') /\ Kept(db, db') /\ NoGrant(db, db')
<1>1. PICK d, e : d = db /\ e = db'
  OBVIOUS
<1>2. PICK ls : ls = Later(d.lease)
  OBVIOUS
<1>3. e = [d EXCEPT !.lease = ls]
  BY <1>1, <1>2 DEF Tick
<1>4. Good(d) /\ Shape(d) /\ ~d.err
  BY <1>1 DEF Good
<1>5. DOMAIN ls = Requests
  BY <1>2 DEF Later
<1>6. /\ Shape(e) /\ ~e.err /\ e.queue = d.queue /\ e.lock = d.lock /\ e.request = d.request
      /\ e.attempt = d.attempt /\ e.mutation = d.mutation /\ e.node = d.node
      /\ e.bound = d.bound /\ e.cleanup = d.cleanup /\ e.lease = ls
  BY <1>3, <1>4, <1>5 DEF Shape
<1>7. ASSUME NEW r \in Requests
      PROVE  /\ e.cleanup[r] \in {"complete", "pending"}
             /\ DOMAIN e.lease[r] = NodesOf[r.project]
             /\ \A n \in NodesOf[r.project] : SameLeases(d.lease[r][n], e.lease[r][n])
  <2>1. /\ d.cleanup[r] \in {"complete", "pending"} /\ DOMAIN d.lease[r] = NodesOf[r.project]
        /\ \A n \in NodesOf[r.project] : d.lease[r][n] \in Seq(LeaseRows)
    BY <1>4 DEF Good, RowOK, RowSound, ColumnsSound, NodesSound, NodeSound
  <2>2. ASSUME NEW n \in NodesOf[r.project] PROVE SameLeases(d.lease[r][n], ls[r][n])
    <3>1. PICK s, u : s = d.lease[r][n] /\ u = ls[r][n]
      OBVIOUS
    <3>2. u = [g \in DOMAIN s |-> Elapse(s[g])]
      BY <1>2, <2>1, <3>1 DEF Later
    <3>3. s \in Seq(LeaseRows)
      BY <2>1, <3>1
    <3>4. ASSUME NEW g \in DOMAIN s PROVE SameLease(s[g], u[g])
      <4>1. s[g] \in LeaseRows
        BY <3>3
      <4>2. PICK l : l = s[g]
        OBVIOUS
      <4>3. l.expires - 1 \in Int /\ l.deadline - 1 \in Int
        BY <4>1, <4>2 DEF LeaseRows
      <4>4. SameLease(l, l) /\ SameLease(l, [l EXCEPT !.expires = l.expires - 1,
                                                      !.deadline = l.deadline - 1])
        BY <4>1, <4>2, <4>3, SameLeaseFacts
      <4>5. \/ u[g] = l
            \/ u[g] = [l EXCEPT !.expires = l.expires - 1, !.deadline = l.deadline - 1]
        BY <3>2, <4>1, <4>2 DEF LeaseRows, Elapse
      <4> QED
        BY <4>2, <4>4, <4>5
    <3>5. DOMAIN u = DOMAIN s /\ u = [g \in DOMAIN u |-> u[g]]
      BY <3>2
    <3> QED
      BY <3>1, <3>3, <3>4, <3>5, SameLeasesByRow
  <2>3. DOMAIN ls[r] = NodesOf[r.project]
    BY <1>2, <2>1 DEF Later
  <2> QED
    BY <1>6, <2>1, <2>2, <2>3
<1>8. OnlyTimes(d, e)
  BY <1>6, <1>7 DEF OnlyTimes
<1>9. Good(e) /\ Kept(d, e) /\ NoGrant(d, e)
  BY <1>4, <1>8, TimesKeepGood, TimesAreKept
<1> QED
  BY <1>1, <1>9

--------------------------------------------------------------------------------
(* Admission                                                                   *)

(* The head and the triggers carry no part of the invariant.                   *)
LEMMA RecordedKeepsGood ==
  ASSUME NEW d, Good(d), NEW dl \in Deliveries
  PROVE  /\ Good(UpdateHead(RecordTrigger(d, dl), dl))
         /\ Settled(d, UpdateHead(RecordTrigger(d, dl), dl))
<1>1. PICK x : x = d.triggers \cup {[id |-> dl.id, payload |-> dl.payload,
                                     request |-> RequestOf(dl)]}
  OBVIOUS
<1>2. PICK f : f = [d EXCEPT !.triggers = x]
  OBVIOUS
<1>3. PICK h : h = [sequence |-> dl.sequence, request |-> RequestOf(dl)]
  OBVIOUS
<1>4. PICK e : e = UpdateHead(RecordTrigger(d, dl), dl)
  OBVIOUS
<1>5. RecordTrigger(d, dl) = f
  BY <1>1, <1>2 DEF RecordTrigger
<1>6. e = f \/ e = [f EXCEPT !.head[dl.project] = h]
  BY <1>3, <1>4, <1>5 DEF UpdateHead
<1>7. Shape(d) /\ ~d.err
  BY DEF Good
<1>8. /\ Shape(f) /\ ~f.err /\ f.queue = d.queue /\ f.lock = d.lock /\ f.request = d.request
      /\ f.attempt = d.attempt /\ f.mutation = d.mutation /\ f.node = d.node
      /\ f.bound = d.bound /\ f.cleanup = d.cleanup /\ f.lease = d.lease
  BY <1>2, <1>7 DEF Shape
<1>9. /\ Shape(e) /\ ~e.err /\ e.queue = f.queue /\ e.lock = f.lock /\ e.request = f.request
      /\ e.attempt = f.attempt /\ e.mutation = f.mutation /\ e.node = f.node
      /\ e.bound = f.bound /\ e.cleanup = f.cleanup /\ e.lease = f.lease
  <2>1. CASE e = f
    BY <1>8, <2>1
  <2>2. CASE e = [f EXCEPT !.head[dl.project] = h]
    BY <1>8, <2>2 DEF Shape
  <2> QED
    BY <1>6, <2>1, <2>2
<1>10. ASSUME NEW s \in Requests PROVE RowOK(e, s) /\ LockedOK(e, s) /\ Queued(e, s)
  <2>1. RowOK(d, s) /\ LockedOK(d, s) /\ Queued(d, s)
    BY DEF Good
  <2> QED
    BY <1>8, <1>9, <2>1 DEF RowOK, LockedOK, Queued
<1>11. (\A p \in Projects : LockOK(e, p)) /\ OneFresh(e)
  BY <1>8, <1>9 DEF Good, LockOK, OneFresh, Fresh
<1>12. Settled(d, e)
  BY <1>8, <1>9, SettledSame
<1> QED
  BY <1>4, <1>8, <1>9, <1>10, <1>11, <1>12 DEF Good

(* A request is put into the queue and no other one leaves it.                 *)
LEMMA EnqueueFacts ==
  ASSUME NEW q \in Seq(Slots), NEW r \in Requests, NEW pr \in Int
  PROVE  /\ Enqueue(q, r, pr) \in Seq(Slots)
         /\ \E i \in DOMAIN Enqueue(q, r, pr) : Enqueue(q, r, pr)[i].request = r
         /\ \A j \in DOMAIN q : \E i \in DOMAIN Enqueue(q, r, pr) :
              Enqueue(q, r, pr)[i] = q[j]
<1>1. PICK n \in Nat : n = Len(q) /\ DOMAIN q = 1..n
  OBVIOUS
<1>2. PICK ahead : ahead = {i \in DOMAIN q : q[i].priority >= pr}
  OBVIOUS
<1>3. PICK k : k = Cardinality(ahead) + 1
  OBVIOUS
<1>4. k \in 1..(n + 1)
  <2>1. IsFiniteSet(1..n) /\ Cardinality(1..n) = n
    BY FS_Interval
  <2>2. ahead \subseteq 1..n
    BY <1>1, <1>2
  <2>3. Cardinality(ahead) <= n /\ IsFiniteSet(ahead)
    BY <2>1, <2>2, FS_Subset
  <2>4. Cardinality(ahead) \in Nat
    BY <2>3, FS_CardinalityType
  <2> QED
    BY <1>3, <2>3, <2>4
<1>5. PICK x : x = [request |-> r, priority |-> pr]
  OBVIOUS
<1>6. x \in Slots /\ x.request = r
  BY <1>5 DEF Slots
<1>7. PICK z : z = Enqueue(q, r, pr)
  OBVIOUS
<1>8. PICK a, b, c : a = SubSeq(q, 1, k - 1) /\ b = a \o << x >> /\ c = SubSeq(q, k, n)
  OBVIOUS
<1>9. z = b \o c
  BY <1>1, <1>2, <1>3, <1>5, <1>7, <1>8 DEF Enqueue, InsertAt
<1>10. /\ a \in Seq(Slots) /\ Len(a) = k - 1 /\ \A i \in 1..(k - 1) : a[i] = q[i]
       /\ c \in Seq(Slots) /\ Len(c) = n - k + 1 /\ \A i \in 1..(n - k + 1) : c[i] = q[k + i - 1]
  BY <1>1, <1>4, <1>8
<1>11. b \in Seq(Slots) /\ Len(b) = k /\ b[k] = x /\ \A i \in 1..(k - 1) : b[i] = a[i]
  BY <1>4, <1>6, <1>8, <1>10
<1>12. /\ z \in Seq(Slots) /\ Len(z) = n + 1 /\ DOMAIN z = 1..(n + 1)
       /\ \A i \in 1..k : z[i] = b[i]
       /\ \A i \in 1..(n - k + 1) : z[k + i] = c[i]
  <2>1. PICK m \in Nat : m = n - k + 1
    BY <1>4
  <2>2. b \in Seq(Slots) /\ c \in Seq(Slots) /\ Len(b) = k /\ Len(c) = m /\ k \in Nat
    BY <1>4, <1>10, <1>11, <2>1
  <2>3. z \in Seq(Slots) /\ Len(z) = k + m
    BY <1>9, <2>2, ConcatProperties
  <2>4. \A i \in 1..k : z[i] = b[i]
    BY <1>9, <2>2
  <2>5. \A i \in 1..m : z[k + i] = c[i]
    BY <1>9, <2>2
  <2>6. k + m = n + 1 /\ DOMAIN z = 1..Len(z)
    BY <1>4, <2>1, <2>3
  <2> QED
    BY <2>1, <2>3, <2>4, <2>5, <2>6
<1>13. z[k] = x
  BY <1>4, <1>11, <1>12
<1>14. ASSUME NEW j \in 1..n PROVE \E i \in 1..(n + 1) : z[i] = q[j]
  <2>1. CASE j < k
    <3>1. j \in 1..(n + 1) /\ j \in 1..k /\ j \in 1..(k - 1)
      BY <1>4, <2>1
    <3> QED
      BY <1>10, <1>11, <1>12, <3>1
  <2>2. CASE ~(j < k)
    <3>1. PICK i \in 1..(n - k + 1) : k + i - 1 = j /\ k + i \in 1..(n + 1)
      <4>1. j - k + 1 \in 1..(n - k + 1) /\ k + (j - k + 1) - 1 = j /\ k + (j - k + 1) \in 1..(n + 1)
        BY <1>4, <2>2
      <4> QED
        BY <4>1
    <3> QED
      BY <1>10, <1>12, <3>1
  <2> QED
    BY <2>1, <2>2
<1> QED
  BY <1>1, <1>4, <1>6, <1>7, <1>12, <1>13, <1>14

(* The columns of the new attempt's project after it was admitted: the stale   *)
(* attempts are retired, the new one is created, the rest is as it was.        *)
Admitted(d, e, r, stale, waiting) ==
  /\ Shape(e) /\ ~e.err /\ e.lock = d.lock /\ e.mutation = d.mutation /\ e.bound = d.bound
  /\ e.queue \in Seq(Slots)
  /\ \E i \in DOMAIN e.queue : e.queue[i].request = r
  /\ \A j \in DOMAIN d.queue : \E i \in DOMAIN e.queue : e.queue[i] = d.queue[j]
  /\ \A s \in Requests :
       /\ s \in stale => /\ e.request[s] \in {"superseded", d.request[s]}
                         /\ d.request[s] = "active" => e.request[s] = "superseded"
                         /\ e.attempt[s] = "superseded"
                         /\ e.cleanup[s] \in {"complete", "pending"}
                         /\ e.node[s] = Cancelled(d.node[s]) /\ e.lease[s] = Revoked(d.lease[s])
       /\ s \notin stale /\ s # r =>
            /\ e.request[s] = d.request[s] /\ e.attempt[s] = d.attempt[s]
            /\ e.cleanup[s] = d.cleanup[s]
            /\ e.node[s] = d.node[s] /\ e.lease[s] = d.lease[s]
  /\ e.request[r] = "active" /\ e.cleanup[r] = d.cleanup[r] /\ e.lease[r] = d.lease[r]
  /\ e.attempt[r] = IF waiting THEN "waiting_for_mutation" ELSE "queued"
  /\ e.node[r] = [n \in DOMAIN d.node[r] |->
                    IF r.mode = "shadow" /\ ~ShadowExecutes(r.project, n) THEN "cancelled"
                    ELSE IF n = "prepare" /\ ~waiting THEN "ready"
                    ELSE IF n = "rollback" THEN "dormant"
                    ELSE "blocked"]

(* A new attempt, with what it supersedes, keeps the database sound.          *)
LEMMA AdmittedKeepsGood ==
  ASSUME NEW d, Good(d), NEW e, NEW r \in Requests, d.request[r] = None,
         NEW stale, stale = {s \in Others(d, r) : d.mutation[s] = "not_started"},
         NEW waiting \in BOOLEAN, waiting <=> r.mode = "deploy" /\ Others(d, r) # stale,
         Admitted(d, e, r, stale, waiting)
  PROVE  Good(e) /\ Settled(d, e)
<1>1. PICK at, nd, ns : at = e.attempt[r] /\ nd = d.node[r] /\ ns = e.node[r]
  OBVIOUS
<1>2. RowSound(r, d.request[r], d.attempt[r], d.mutation[r], d.cleanup[r],
               nd, d.lease[r], d.bound[r])
  BY <1>1 DEF Good, RowOK
<1>3. /\ at = IF waiting THEN "waiting_for_mutation" ELSE "queued"
      /\ ns = [n \in DOMAIN nd |->
                 IF r.mode = "shadow" /\ ~ShadowExecutes(r.project, n) THEN "cancelled"
                 ELSE IF n = "prepare" /\ ~waiting THEN "ready"
                 ELSE IF n = "rollback" THEN "dormant"
                 ELSE "blocked"]
  BY <1>1 DEF Admitted
<1>4. /\ RowSound(r, "active", at, d.mutation[r], d.cleanup[r], ns, d.lease[r], d.bound[r])
      /\ d.mutation[r] = "not_started" /\ \A n \in NodesOf[r.project] : ns[n] # "leased"
  BY <1>2, <1>3, CreatedRow
<1>5. ASSUME NEW s \in stale
      PROVE  /\ s \in Requests /\ s # r /\ s.project = r.project /\ s.mode = r.mode
             /\ d.attempt[s] \in LiveAttempts /\ d.mutation[s] = "not_started"
             /\ d.request[s] = "active"
             /\ RowOK(e, s) /\ \A n \in NodesOf[s.project] : e.node[s][n] # "leased"
  <2>1. /\ s \in Requests /\ s # r /\ s.project = r.project /\ s.mode = r.mode
        /\ d.attempt[s] \in LiveAttempts /\ d.mutation[s] = "not_started"
    BY <1>5 DEF Others
  <2>2. RowSound(s, d.request[s], d.attempt[s], d.mutation[s], d.cleanup[s],
                 d.node[s], d.lease[s], d.bound[s])
    BY <2>1 DEF Good, RowOK
  <2>3. d.attempt[s] # None /\ d.request[s] = "active"
    BY <2>1, <2>2 DEF RowSound, ColumnsSound, LiveAttempts, None
  <2>4. /\ e.request[s] = "superseded" /\ e.attempt[s] = "superseded"
        /\ e.cleanup[s] \in {"complete", "pending"} /\ e.mutation[s] = d.mutation[s]
        /\ e.node[s] = Cancelled(d.node[s]) /\ e.lease[s] = Revoked(d.lease[s])
        /\ e.bound[s] = d.bound[s]
    BY <1>5, <2>1, <2>3 DEF Admitted
  <2>5. /\ RowSound(s, "superseded", "superseded", d.mutation[s], e.cleanup[s],
                    Cancelled(d.node[s]), Revoked(d.lease[s]), d.bound[s])
        /\ \A n \in NodesOf[s.project] : Cancelled(d.node[s])[n] # "leased"
    BY <2>1, <2>2, <2>3, <2>4, RetiredRow
  <2> QED
    BY <2>1, <2>3, <2>4, <2>5 DEF RowOK
<1>6. ASSUME NEW s \in Requests PROVE RowOK(e, s) /\ Queued(e, s)
  <2>1. RowOK(d, s) /\ Queued(d, s)
    BY DEF Good
  <2>2. Queued(e, s)
    <3>1. CASE s = r
      BY <3>1 DEF Queued, Admitted
    <3>2. CASE s # r
      <4>1. e.request[s] # None => d.request[s] # None
        BY <1>5, <3>2 DEF Admitted, None
      <4> QED
        BY <2>1, <4>1 DEF Queued, Admitted
    <3> QED
      BY <3>1, <3>2
  <2>3. CASE s \in stale
    BY <1>5, <2>2, <2>3
  <2>4. CASE s = r
    BY <1>1, <1>4, <2>2, <2>4 DEF RowOK, Admitted
  <2>5. CASE s \notin stale /\ s # r
    BY <2>1, <2>2, <2>5 DEF RowOK, Admitted
  <2> QED
    BY <2>3, <2>4, <2>5
<1>7. e.lock = d.lock /\ e.mutation = d.mutation
  BY DEF Admitted
<1>8. ASSUME NEW s \in Requests PROVE LockedOK(e, s)
  <2>1. LockedOK(d, s)
    BY DEF Good
  <2>2. CASE s \in stale
    BY <1>5, <1>7, <2>1, <2>2 DEF LockedOK, HoldsLock, Admitted
  <2>3. CASE s # r /\ s \notin stale
    BY <1>7, <2>1, <2>3 DEF LockedOK, Admitted
  <2>4. CASE s = r
    <3>1. ASSUME r.mode = "deploy", at = "queued" PROVE d.lock[r.project].owner = NoRequest
      <4>1. Others(d, r) = stale
        BY <1>3, <3>1
      <4>2. CASE d.lock[r.project] = NoLock
        BY <4>2 DEF NoLock
      <4>3. CASE d.lock[r.project] # NoLock
        <5>1. r.project \in Projects
          BY RequestFacts
        <5>2. PICK o \in Requests : o.project = r.project /\ d.lock[r.project].owner = o
          BY <4>3, <5>1 DEF Good, LockOK
        <5>3. d.mutation[o] \in {"owned", "needs_reconcile"}
          BY <5>2 DEF Good, LockedOK, HoldsLock
        <5>4. RowOK(d, o) /\ o.mode \in {"deploy", "shadow"}
          BY RequestFacts DEF Good
        <5>5. o.mode = "deploy" /\ d.attempt[o] \in LiveAttempts
          BY <5>3, <5>4 DEF RowOK, RowSound, ColumnsSound, AttemptSound, LiveAttempts
        <5>6. o # r
          BY <1>4, <5>3
        <5>7. o \in Others(d, r) /\ o \notin stale
          BY <3>1, <5>2, <5>3, <5>5, <5>6 DEF Others
        <5> QED
          BY <4>1, <5>7
      <4> QED
        BY <4>2, <4>3
    <3>2. at \in {"queued", "running"} => at = "queued"
      BY <1>3
    <3> QED
      BY <1>1, <1>4, <1>7, <2>1, <2>4, <3>1, <3>2 DEF LockedOK, HoldsLock
  <2> QED
    BY <2>2, <2>3, <2>4
<1>9. \A p \in Projects : LockOK(e, p)
  BY <1>7 DEF Good, LockOK
<1>10. OneFresh(e)
  <2>1. ASSUME NEW s \in Requests, s # r, Fresh(e, s) PROVE Fresh(d, s) /\ s \notin stale
    BY <1>7, <2>1 DEF Fresh, Admitted, LiveAttempts
  <2>2. ASSUME NEW s \in Requests, s # r, s.project = r.project, s.mode = r.mode, Fresh(e, s)
        PROVE  FALSE
    BY <2>1, <2>2 DEF Fresh, Others
  <2>3. ASSUME NEW s \in Requests, NEW u \in Requests, s # u, s.project = u.project,
               s.mode = u.mode, Fresh(e, s), Fresh(e, u)
        PROVE  FALSE
    <3>1. CASE s = r
      BY <2>2, <2>3, <3>1
    <3>2. CASE u = r
      BY <2>2, <2>3, <3>2
    <3>3. CASE s # r /\ u # r
      BY <2>1, <2>3, <3>3 DEF Good, OneFresh
    <3> QED
      BY <3>1, <3>2, <3>3
  <2> QED
    BY <2>3 DEF OneFresh
<1>11. ASSUME NEW s \in Requests
       PROVE  SettledRow(s.project, d.mutation[s], e.mutation[s], d.node[s], e.node[s],
                         d.lease[s], e.lease[s])
  <2>1. NodesSound(s.project, d.node[s], d.lease[s])
    BY DEF Good, RowOK, RowSound
  <2>2. CASE s \in stale
    <3>1. e.node[s] = Cancelled(d.node[s]) /\ e.lease[s] = Revoked(d.lease[s])
      BY <2>2 DEF Admitted
    <3> QED
      BY <1>7, <2>1, <3>1, RevokedSettles
  <2>3. CASE s = r
    <3>1. d.attempt[r] = None
      BY <1>2 DEF RowSound, ColumnsSound
    <3>2. DOMAIN nd = NodesOf[r.project]
      BY <1>2 DEF RowSound, NodesSound
    <3>3. ASSUME NEW n \in NodesOf[r.project] PROVE nd[n] # "succeeded" /\ ns[n] # "succeeded"
      BY <1>2, <1>3, <3>1, <3>2 DEF RowSound, AttemptSound, Early, Started
    <3>4. e.lease[r] = d.lease[r]
      BY DEF Admitted
    <3> QED
      BY <1>1, <1>7, <2>3, <3>3, <3>4 DEF SettledRow, SettledLeases, SettledLease
  <2>4. CASE s \notin stale /\ s # r
    <3>1. e.node[s] = d.node[s] /\ e.lease[s] = d.lease[s]
      BY <2>4 DEF Admitted
    <3> QED
      BY <1>7, <3>1 DEF SettledRow, SettledLeases, SettledLease
  <2> QED
    BY <2>2, <2>3, <2>4
<1>12. Settled(d, e)
  BY <1>11 DEF Settled
<1> QED
  BY <1>6, <1>8, <1>9, <1>10, <1>12 DEF Good, Admitted

(* What an admission of a new request leaves, before it is recorded.           *)
LEMMA CreatesAttempt ==
  ASSUME NEW d, Good(d), NEW r \in Requests, d.request[r] = None, NEW pr \in Int,
         NEW i, i = [d EXCEPT !.request[r] = "active", !.queue = Enqueue(@, r, pr)],
         NEW v, v = Supersede(i, r)
  PROVE  /\ Good(CreateAttempt(v.db, r, v.waiting))
         /\ Settled(d, CreateAttempt(v.db, r, v.waiting))
<1>1. Shape(d) /\ ~d.err /\ d.queue \in Seq(Slots)
  BY DEF Good
<1>2. PICK q : q = Enqueue(d.queue, r, pr)
  OBVIOUS
<1>3. /\ q \in Seq(Slots) /\ \E k \in DOMAIN q : q[k].request = r
      /\ \A j \in DOMAIN d.queue : \E k \in DOMAIN q : q[k] = d.queue[j]
  <2>1. PICK o : o = d.queue
    OBVIOUS
  <2>2. o \in Seq(Slots) /\ q = Enqueue(o, r, pr)
    BY <1>1, <1>2, <2>1
  <2>3. /\ Enqueue(o, r, pr) \in Seq(Slots)
        /\ \E k \in DOMAIN Enqueue(o, r, pr) : Enqueue(o, r, pr)[k].request = r
        /\ \A j \in DOMAIN o : \E k \in DOMAIN Enqueue(o, r, pr) :
             Enqueue(o, r, pr)[k] = o[j]
    BY <2>2, EnqueueFacts, ZenonT(60)
  <2> QED
    BY <2>1, <2>2, <2>3, Zenon
<1>4. /\ Shape(i) /\ ~i.err /\ i.queue = q /\ i.lock = d.lock
      /\ i.request = [d.request EXCEPT ![r] = "active"]
      /\ i.attempt = d.attempt /\ i.mutation = d.mutation /\ i.node = d.node
      /\ i.bound = d.bound /\ i.cleanup = d.cleanup /\ i.lease = d.lease
  <2>1. i = [d EXCEPT !.request[r] = "active", !.queue = q]
    BY <1>1, <1>2 DEF Shape
  <2> QED
    BY <1>1, <2>1 DEF Shape
<1>5. PICK stale : stale = {s \in Others(d, r) : d.mutation[s] = "not_started"}
  OBVIOUS
<1>6. Others(i, r) = Others(d, r) /\ stale = {s \in Others(i, r) : i.mutation[s] = "not_started"}
  BY <1>4, <1>5 DEF Others
<1>7. PICK ls, nd, at, cl, rq :
        /\ ls = [s \in Requests |-> IF s \in stale THEN Revoked(i.lease[s]) ELSE i.lease[s]]
        /\ nd = [s \in Requests |-> IF s \in stale THEN Cancelled(i.node[s]) ELSE i.node[s]]
        /\ at = [s \in Requests |-> IF s \in stale THEN "superseded" ELSE i.attempt[s]]
        /\ cl = [s \in Requests |-> IF s \notin stale THEN i.cleanup[s]
                                    ELSE IF Active(i, s) = {} THEN "complete" ELSE "pending"]
        /\ rq = [s \in Requests |-> IF s \in stale /\ i.request[s] = "active"
                                    THEN "superseded" ELSE i.request[s]]
  OBVIOUS
<1>8. PICK f : f = [i EXCEPT !.lease = ls, !.node = nd, !.attempt = at, !.cleanup = cl,
                             !.request = rq]
  OBVIOUS
<1>9. PICK waiting \in BOOLEAN : waiting <=> r.mode = "deploy" /\ Others(d, r) # stale
  OBVIOUS
<1>10. v.db = f /\ v.waiting = (r.mode = "deploy" /\ Others(d, r) # stale)
  <2>1. v = Supersedes(i, stale, r.mode = "deploy" /\ Others(i, r) # stale)
    BY <1>6 DEF Supersede
  <2>2. ASSUME NEW wt, NEW x, x = Supersedes(i, stale, wt)
        PROVE  x.db = f /\ x.waiting = wt
    BY <1>7, <1>8, <2>2 DEF Supersedes
  <2> QED
    BY <1>6, <2>1, <2>2
<1>11. /\ DOMAIN ls = Requests /\ DOMAIN nd = Requests
       /\ at = [s \in Requests |-> at[s]] /\ cl = [s \in Requests |-> cl[s]]
       /\ rq = [s \in Requests |-> rq[s]]
  BY <1>7
<1>12. /\ Shape(f) /\ ~f.err /\ f.queue = q /\ f.lock = d.lock /\ f.request = rq
       /\ f.attempt = at /\ f.mutation = d.mutation /\ f.node = nd
       /\ f.bound = d.bound /\ f.cleanup = cl /\ f.lease = ls
  <2>1. /\ f.head = i.head /\ f.triggers = i.triggers /\ f.queue = i.queue /\ f.request = rq
        /\ f.attempt = at /\ f.mutation = i.mutation /\ f.cleanup = cl /\ f.node = nd
        /\ f.lease = ls /\ f.bound = i.bound /\ f.lock = i.lock /\ f.cursor = i.cursor
        /\ f.err = i.err
        /\ f = [head |-> i.head, triggers |-> i.triggers, queue |-> i.queue, request |-> rq,
                attempt |-> at, mutation |-> i.mutation, cleanup |-> cl, node |-> nd,
                lease |-> ls, bound |-> i.bound, lock |-> i.lock, cursor |-> i.cursor,
                err |-> i.err]
    <3>1. i = [head |-> i.head, triggers |-> i.triggers, queue |-> i.queue,
               request |-> i.request, attempt |-> i.attempt, mutation |-> i.mutation,
               cleanup |-> i.cleanup, node |-> i.node, lease |-> i.lease, bound |-> i.bound,
               lock |-> i.lock, cursor |-> i.cursor, err |-> i.err]
      BY <1>4, Zenon DEF Shape
    <3> QED
      BY <1>8, <3>1
  <2>2. Shape(f)
    <3>1. f = [head |-> f.head, triggers |-> f.triggers, queue |-> f.queue,
               request |-> f.request, attempt |-> f.attempt, mutation |-> f.mutation,
               cleanup |-> f.cleanup, node |-> f.node, lease |-> f.lease, bound |-> f.bound,
               lock |-> f.lock, cursor |-> f.cursor, err |-> f.err]
      BY <2>1
    <3>2. /\ f.request = [s \in Requests |-> f.request[s]]
          /\ f.attempt = [s \in Requests |-> f.attempt[s]]
          /\ f.cleanup = [s \in Requests |-> f.cleanup[s]]
      BY <1>11, <2>1
    <3>3. /\ i.err \in BOOLEAN /\ i.mutation = [s \in Requests |-> i.mutation[s]]
          /\ DOMAIN i.bound = Requests /\ DOMAIN i.lock = Projects
      BY <1>4, Zenon DEF Shape
    <3>4. /\ f.err \in BOOLEAN /\ f.mutation = [s \in Requests |-> f.mutation[s]]
          /\ DOMAIN f.node = Requests /\ DOMAIN f.lease = Requests
          /\ DOMAIN f.bound = Requests /\ DOMAIN f.lock = Projects
      BY <1>11, <2>1, <3>3
    <3> QED
      BY <3>1, <3>2, <3>4, Zenon DEF Shape
  <2> QED
    BY <1>4, <2>1, <2>2, Zenon
<1>13. PICK ns, a :
         /\ ns = [n \in DOMAIN nd[r] |->
                    IF r.mode = "shadow" /\ ~ShadowExecutes(r.project, n) THEN "cancelled"
                    ELSE IF n = "prepare" /\ ~waiting THEN "ready"
                    ELSE IF n = "rollback" THEN "dormant"
                    ELSE "blocked"]
         /\ a = IF waiting THEN "waiting_for_mutation" ELSE "queued"
  OBVIOUS
<1>14. PICK e : e = [f EXCEPT !.attempt[r] = a, !.node[r] = ns]
  OBVIOUS
<1>15. CreateAttempt(v.db, r, v.waiting) = e
  BY <1>9, <1>10, <1>12, <1>13, <1>14 DEF CreateAttempt
<1>16. /\ Shape(e) /\ ~e.err /\ e.queue = q /\ e.lock = d.lock /\ e.request = rq
       /\ e.attempt = [at EXCEPT ![r] = a] /\ e.mutation = d.mutation
       /\ e.node = [nd EXCEPT ![r] = ns]
       /\ e.bound = d.bound /\ e.cleanup = cl /\ e.lease = ls
  BY <1>12, <1>14 DEF Shape
<1>17. r \notin stale
  BY <1>5 DEF Others
<1>18. ASSUME NEW s \in Requests
       PROVE  /\ s \in stale => /\ e.request[s] \in {"superseded", d.request[s]}
                                /\ d.request[s] = "active" => e.request[s] = "superseded"
                                /\ e.attempt[s] = "superseded"
                                /\ e.cleanup[s] \in {"complete", "pending"}
                                /\ e.node[s] = Cancelled(d.node[s])
                                /\ e.lease[s] = Revoked(d.lease[s])
              /\ s \notin stale /\ s # r =>
                   /\ e.request[s] = d.request[s] /\ e.attempt[s] = d.attempt[s]
                   /\ e.cleanup[s] = d.cleanup[s]
                   /\ e.node[s] = d.node[s] /\ e.lease[s] = d.lease[s]
  <2>1. /\ s # r => i.request[s] = d.request[s]
        /\ i.attempt[s] = d.attempt[s] /\ i.cleanup[s] = d.cleanup[s]
        /\ i.node[s] = d.node[s] /\ i.lease[s] = d.lease[s]
    BY <1>1, <1>4 DEF Shape
  <2>2. s # r => e.attempt[s] = at[s] /\ e.node[s] = nd[s]
    BY <1>11, <1>16
  <2>3. e.request[s] = rq[s] /\ e.cleanup[s] = cl[s] /\ e.lease[s] = ls[s]
    BY <1>16
  <2>4. CASE s \in stale
    <3>1. /\ rq[s] = IF i.request[s] = "active" THEN "superseded" ELSE i.request[s]
          /\ at[s] = "superseded" /\ cl[s] \in {"complete", "pending"}
          /\ nd[s] = Cancelled(i.node[s]) /\ ls[s] = Revoked(i.lease[s])
      BY <1>7, <2>4
    <3> QED
      BY <1>17, <2>1, <2>2, <2>3, <2>4, <3>1
  <2>5. CASE s \notin stale
    <3>1. /\ rq[s] = i.request[s] /\ at[s] = i.attempt[s] /\ cl[s] = i.cleanup[s]
          /\ nd[s] = i.node[s] /\ ls[s] = i.lease[s]
      BY <1>7, <2>5
    <3> QED
      BY <2>1, <2>2, <2>3, <2>5, <3>1
  <2> QED
    BY <2>4, <2>5
<1>19. /\ e.request[r] = "active" /\ e.cleanup[r] = d.cleanup[r] /\ e.lease[r] = d.lease[r]
       /\ e.attempt[r] = a /\ e.node[r] = ns /\ nd[r] = d.node[r]
  <2>1. /\ i.request[r] = "active" /\ i.cleanup[r] = d.cleanup[r]
        /\ i.node[r] = d.node[r] /\ i.lease[r] = d.lease[r]
    BY <1>1, <1>4 DEF Shape
  <2>2. /\ rq[r] = i.request[r] /\ cl[r] = i.cleanup[r]
        /\ nd[r] = i.node[r] /\ ls[r] = i.lease[r]
    BY <1>7, <1>17
  <2>3. e.attempt[r] = a /\ e.node[r] = ns
    BY <1>11, <1>16
  <2> QED
    BY <1>16, <2>1, <2>2, <2>3
<1>20. Admitted(d, e, r, stale, waiting)
  BY <1>3, <1>13, <1>16, <1>18, <1>19 DEF Admitted
<1>21. Good(e) /\ Settled(d, e)
  BY <1>5, <1>9, <1>20, AdmittedKeepsGood
<1> QED
  BY <1>15, <1>21

(* admit leaves a sound database or an error.                                 *)
LEMMA AdmitIsSound ==
  ASSUME NEW d, Good(d), NEW dl \in Deliveries
  PROVE  Settles(d, AdmitTransaction(d, dl))
<1>1. PICK r : r = RequestOf(dl)
  OBVIOUS
<1>2. r \in Requests /\ dl.priority \in Int
  BY <1>1, SchedulerAssumption DEF Requests
<1>3. PICK i, v : /\ i = [d EXCEPT !.request[r] = "active", !.queue = Enqueue(@, r, dl.priority)]
                  /\ v = Supersede(i, r)
  OBVIOUS
<1>4. PICK c1, c2, c3 :
        /\ c1 = (\E t \in d.triggers : t.id = dl.id)
        /\ c2 = (\E t \in d.triggers : t.id = dl.id /\ t.payload = dl.payload)
        /\ c3 = (\/ dl.sequence < d.head[dl.project].sequence
                 \/ /\ dl.sequence = d.head[dl.project].sequence
                    /\ dl.sha # d.head[dl.project].request.sha)
  OBVIOUS
<1>5. AdmitTransaction(d, dl) =
        IF c1 THEN Require(c2, d)
        ELSE IF c3 THEN Fail(d)
        ELSE IF d.request[r] # None THEN UpdateHead(RecordTrigger(d, dl), dl)
        ELSE UpdateHead(RecordTrigger(CreateAttempt(v.db, r, v.waiting), dl), dl)
  BY <1>1, <1>3, <1>4 DEF AdmitTransaction
<1>6. Sound(d) /\ Shape(d) /\ c2 \in BOOLEAN
  BY <1>4, GoodIsSound
<1>11. Settled(d, d)
  BY SettledSame
<1>7. CASE c1
  <2>1. Settles(d, Require(c2, d))
    BY <1>6, <1>11, RequireSettles
  <2> QED
    BY <1>5, <1>7, <2>1
<1>8. CASE ~c1 /\ c3
  BY <1>5, <1>6, <1>8, FailIsSound DEF Settles
<1>9. CASE ~c1 /\ ~c3 /\ d.request[r] # None
  BY <1>5, <1>9, RecordedKeepsGood, GoodIsSound DEF Settles
<1>10. CASE ~c1 /\ ~c3 /\ d.request[r] = None
  <2>1. PICK e : e = CreateAttempt(v.db, r, v.waiting)
    OBVIOUS
  <2>2. Good(e) /\ Settled(d, e)
    BY <1>2, <1>3, <1>10, <2>1, CreatesAttempt
  <2>3. PICK f : f = UpdateHead(RecordTrigger(e, dl), dl)
    OBVIOUS
  <2>4. Good(f) /\ Settled(e, f)
    BY <2>2, <2>3, RecordedKeepsGood
  <2>5. Settled(d, f)
    BY <2>2, <2>4, SettledTwice
  <2>6. AdmitTransaction(d, dl) = f
    BY <1>5, <1>10, <2>1, <2>3
  <2> QED
    BY <2>4, <2>5, <2>6, GoodIsSound DEF Settles
<1> QED
  BY <1>4, <1>7, <1>8, <1>9, <1>10

--------------------------------------------------------------------------------
(* The loops over the overdue leases and over the candidates                   *)

(* A set of numbers that is not empty has a least one.                         *)
LEMMA Least ==
  ASSUME NEW T, T \subseteq Nat, T # {}
  PROVE  \E x \in T : \A y \in T : x <= y
<1>1. PICK R : R = OpToRel(<, Nat)
  OBVIOUS
<1>2. IsWellFoundedOn(R, Nat)
  BY <1>1, NatLessThanWellFounded
<1>3. PICK x \in T : \A y \in T : ~(<<y, x>> \in R)
  BY <1>2, WFMin
<1>4. ASSUME NEW a \in Nat, NEW b \in Nat, a < b PROVE <<a, b>> \in R
  BY <1>1, <1>4 DEF OpToRel
<1>5. ASSUME NEW y \in T PROVE x <= y
  <2>1. x \in Nat /\ y \in Nat
    BY <1>3
  <2>2. ~(y < x)
    BY <1>3, <1>4, <2>1
  <2> QED
    BY <2>1, <2>2
<1> QED
  BY <1>5

(* A sequence that lists a finite set has a length, and lists only that set.   *)
LEMMA ListedFacts ==
  ASSUME NEW S, IsFiniteSet(S), NEW s \in SetToSeqs(S)
  PROVE  Len(s) \in Nat /\ \A i \in 1..Len(s) : s[i] \in S
<1>1. PICK n \in Nat : n = Cardinality(S)
  BY FS_CardinalityType
<1>2. s \in [1..n -> S]
  BY <1>1 DEF SetToSeqs
<1>3. s \in Seq(S)
  BY <1>2
<1>4. Len(s) = n
  BY <1>2, <1>3
<1> QED
  BY <1>2, <1>4

(* There are finitely many requests and steps.                                 *)
LEMMA FiniteSteps == IsFiniteSet(Requests) /\ IsFiniteSet(Steps)
<1>1. IsFiniteSet(Requests)
  <2>1. PICK f : f = [dl \in Deliveries |-> RequestOf(dl)]
    OBVIOUS
  <2>2. f \in Surjection(Deliveries, Requests)
    BY <2>1 DEF Requests, Surjection
  <2> QED
    BY <2>2, FS_Surjection, SchedulerAssumption
<1>2. IsFiniteSet(Nodes)
  <2>1. PICK m \in Nat : DOMAIN NodeOrder = 1..m /\ m = Len(NodeOrder)
    BY SchedulerAssumption
  <2>2. NodeOrder \in Surjection(1..m, Nodes)
    BY <2>1, SchedulerAssumption DEF Nodes, ToSet, Surjection
  <2>3. IsFiniteSet(1..m)
    BY FS_Interval
  <2> QED
    BY <2>2, <2>3, FS_Surjection
<1>3. IsFiniteSet(Requests \X Nodes)
  BY <1>1, <1>2, FS_Product
<1>4. Steps \subseteq Requests \X Nodes
  BY DEF Steps
<1> QED
  BY <1>1, <1>3, <1>4, FS_Subset

(* What the loop of expire_leases leaves after each overdue lease.             *)
LEMMA ExpiryLoop ==
  ASSUME NEW d, NEW o, Len(o) \in Nat
  PROVE  \E h : /\ h[0] = d /\ ExpireAll(d, o) = h[Len(o)]
                /\ \A i \in 1..Len(o) : h[i] = ExpireOne(h[i - 1], o[i])
<1> DEFINE Loops(h, k) == h = [i \in 0..k |-> IF i = 0 THEN d ELSE ExpireOne(h[i - 1], o[i])]
           T == {k \in Nat : ~\E h : Loops(h, k)}
<1>1. T = {}
  <2>1. SUFFICES ASSUME T # {} PROVE FALSE
    OBVIOUS
  <2>2. PICK x \in T : \A y \in T : x <= y
    BY <2>1, Least
  <2>3. x # 0
    <3>1. PICK h : h = [i \in 0..0 |-> d]
      OBVIOUS
    <3>2. Loops(h, 0)
      BY <3>1
    <3> QED
      BY <2>2, <3>2
  <2>4. x \in Nat /\ x - 1 \in Nat /\ x - 1 \notin T
    <3>1. x \in Nat
      BY <2>2
    <3> HIDE DEF T
    <3> QED
      BY <2>2, <2>3, <3>1
  <2>5. PICK h : Loops(h, x - 1)
    BY <2>4
  <2>6. PICK g : g = [i \in 0..x |-> IF i < x THEN h[i] ELSE ExpireOne(h[x - 1], o[x])]
    OBVIOUS
  <2>7. ASSUME NEW i \in 0..x
        PROVE  g[i] = IF i = 0 THEN d ELSE ExpireOne(g[i - 1], o[i])
    <3>1. CASE i = 0
      <4>1. g[0] = h[0] /\ 0 \in 0..(x - 1)
        BY <2>4, <2>6, <3>1
      <4> QED
        BY <2>5, <3>1, <4>1
    <3>2. CASE i # 0
      <4>1. i - 1 \in 0..x /\ i - 1 < x
        BY <2>4, <3>2
      <4>2. g[i - 1] = h[i - 1]
        BY <2>6, <4>1
      <4>3. CASE i = x
        BY <2>4, <2>6, <3>2, <4>2, <4>3
      <4>4. CASE i # x
        <5>1. i < x /\ i \in 0..(x - 1)
          BY <2>4, <4>4
        <5>2. g[i] = h[i]
          BY <2>6, <5>1
        <5>3. h[i] = ExpireOne(h[i - 1], o[i])
          BY <2>5, <3>2, <5>1
        <5> QED
          BY <3>2, <4>2, <5>2, <5>3
      <4> QED
        BY <4>3, <4>4
    <3> QED
      BY <3>1, <3>2
  <2>8. Loops(g, x)
    BY <2>6, <2>7
  <2> QED
    BY <2>2, <2>8
<1>2. PICK h : h = CHOOSE after : Loops(after, Len(o))
  OBVIOUS
<1>3. Loops(h, Len(o))
  BY <1>1, <1>2
<1>4. ExpireAll(d, o) = h[Len(o)]
  BY <1>2 DEF ExpireAll
<1>5. h[0] = d
  BY <1>3
<1>6. ASSUME NEW i \in 1..Len(o) PROVE h[i] = ExpireOne(h[i - 1], o[i])
  <2>1. i \in 0..Len(o) /\ i # 0
    OBVIOUS
  <2> QED
    BY <1>3, <2>1
<1> QED
  BY <1>4, <1>5, <1>6

(* Expiring the overdue leases leaves a sound database.                        *)
LEMMA ExpiredIsGood ==
  ASSUME NEW d, Good(d), NEW e \in Expired(d)
  PROVE  Good(e) /\ Settled(d, e)
<1>1. PICK o \in SetToSeqs(Overdue(d)) : e = ExpireAll(d, o)
  BY DEF Expired, ExpiryOrders
<1>2. Len(o) \in Nat /\ \A i \in 1..Len(o) : o[i] \in Steps
  <2>1. Overdue(d) \subseteq Steps
    BY DEF Overdue
  <2>2. IsFiniteSet(Overdue(d))
    BY <2>1, FiniteSteps, FS_Subset
  <2>3. PICK S : S = Overdue(d)
    OBVIOUS
  <2>4. IsFiniteSet(S) /\ o \in SetToSeqs(S)
    BY <1>1, <2>2, <2>3
  <2>5. Len(o) \in Nat /\ \A i \in 1..Len(o) : o[i] \in S
    BY <2>4, ListedFacts
  <2> QED
    BY <2>1, <2>3, <2>5
<1>3. PICK h : /\ h[0] = d /\ e = h[Len(o)]
               /\ \A i \in 1..Len(o) : h[i] = ExpireOne(h[i - 1], o[i])
  BY <1>1, <1>2, ExpiryLoop
<1> DEFINE T == {k \in 0..Len(o) : ~Settles(d, h[k])}
<1>4. T = {}
  <2>1. SUFFICES ASSUME T # {} PROVE FALSE
    OBVIOUS
  <2>2. PICK x \in T : \A y \in T : x <= y
    <3>1. T \subseteq Nat
      BY <1>2
    <3> HIDE DEF T
    <3> QED
      BY <2>1, <3>1, Least
  <2>3. x # 0
    <3>1. Settles(d, d)
      BY SettledSame, GoodIsSound DEF Settles
    <3> QED
      BY <1>3, <2>2, <3>1
  <2>4. x \in 1..Len(o) /\ x - 1 \in 0..Len(o) /\ x - 1 \notin T
    BY <1>2, <2>2, <2>3
  <2>5. Settles(d, h[x - 1]) /\ o[x] \in Steps
    BY <1>2, <2>4
  <2>6. PICK u, v : u = h[x - 1] /\ v = h[x]
    OBVIOUS
  <2>7. v = ExpireOne(u, o[x])
    BY <1>3, <2>4, <2>6
  <2>8. Settles(u, v)
    <3>1. Sound(u)
      BY <2>5, <2>6 DEF Settles
    <3> QED
      BY <2>5, <2>7, <3>1, ExpireOneIsSound
  <2>9. Settles(d, v)
    <3>1. CASE u.err
      <4>1. v = u
        BY <2>7, <3>1 DEF ExpireOne
      <4> QED
        BY <2>5, <2>6, <4>1
    <3>2. CASE ~u.err
      <4>1. Settled(d, u)
        BY <2>5, <2>6, <3>2 DEF Settles
      <4> QED
        BY <2>8, <4>1, SettlesAfter
    <3> QED
      BY <3>1, <3>2
  <2> QED
    BY <2>2, <2>6, <2>9
<1>5. Settles(d, e)
  BY <1>2, <1>3, <1>4
<1>6. ~e.err
  BY DEF Expired
<1> QED
  BY <1>5, <1>6 DEF Settles, Sound

--------------------------------------------------------------------------------
(* Claiming                                                                    *)

(* A project with something ready has a first candidate.                       *)
LEMMA CandidateIsReady ==
  ASSUME NEW d, Good(d), NEW w, NEW p, ReadyNodes(d, w, p) # {}
  PROVE  Candidate(d, w, p) \in ReadyNodes(d, w, p)
<1>1. PICK ready : ready = ReadyNodes(d, w, p)
  OBVIOUS
<1>2. PICK k \in Nat : DOMAIN d.queue = 1..k
  BY DEF Good
<1>3. ASSUME NEW t \in ready
      PROVE  /\ t[1] \in Requests /\ t[2] \in Nodes /\ QueueIndex(d, t[1]) \in Nat
             /\ d.queue[QueueIndex(d, t[1])].request = t[1] /\ Ordinal(t[2]) \in Nat
  <2>1. t \in Steps /\ d.request[t[1]] = "active"
    BY <1>1 DEF ReadyNodes
  <2>2. t[1] \in Requests /\ t[2] \in Nodes
    BY <2>1 DEF Steps
  <2>3. \E i \in DOMAIN d.queue : d.queue[i].request = t[1]
    BY <2>1, <2>2 DEF Good, Queued, None
  <2>4. /\ QueueIndex(d, t[1]) \in DOMAIN d.queue
        /\ d.queue[QueueIndex(d, t[1])].request = t[1]
    BY <2>3 DEF QueueIndex
  <2>5. \E i \in DOMAIN NodeOrder : NodeOrder[i] = t[2]
    BY <2>2 DEF Nodes, ToSet
  <2>6. Ordinal(t[2]) \in DOMAIN NodeOrder
    BY <2>5 DEF Ordinal
  <2>7. DOMAIN NodeOrder \subseteq Nat
    BY SchedulerAssumption
  <2> QED
    BY <1>2, <2>2, <2>4, <2>6, <2>7
<1>4. PICK t1 \in ready : \A u \in ready : QueueIndex(d, t1[1]) <= QueueIndex(d, u[1])
  <2>1. PICK T : T = {QueueIndex(d, t[1]) : t \in ready}
    OBVIOUS
  <2>2. T \subseteq Nat /\ T # {}
    BY <1>1, <1>3, <2>1
  <2>3. PICK x \in T : \A y \in T : x <= y
    BY <2>2, Least
  <2> QED
    BY <2>1, <2>3
<1>5. PICK t2 \in ready : /\ t2[1] = t1[1]
                          /\ \A u \in ready : u[1] = t1[1] => Ordinal(t2[2]) <= Ordinal(u[2])
  <2>1. PICK T : T = {Ordinal(t[2]) : t \in {u \in ready : u[1] = t1[1]}}
    OBVIOUS
  <2>2. T \subseteq Nat /\ T # {}
    BY <1>3, <1>4, <2>1
  <2>3. PICK x \in T : \A y \in T : x <= y
    BY <2>2, Least
  <2> QED
    BY <2>1, <2>3
<1>6. ASSUME NEW u \in ready
      PROVE  \/ QueueIndex(d, t2[1]) < QueueIndex(d, u[1])
             \/ t2[1] = u[1] /\ Ordinal(t2[2]) <= Ordinal(u[2])
  <2>1. CASE QueueIndex(d, t1[1]) = QueueIndex(d, u[1])
    <3>1. t1[1] = u[1]
      BY <1>3, <1>4, <2>1
    <3> QED
      BY <1>5, <3>1
  <2>2. CASE QueueIndex(d, t1[1]) # QueueIndex(d, u[1])
    <3>1. PICK x \in Nat, y \in Nat : x = QueueIndex(d, t1[1]) /\ y = QueueIndex(d, u[1])
      BY <1>3, <1>4
    <3>2. x <= y
      BY <1>4, <3>1
    <3>3. x < y
      BY <2>2, <3>1, <3>2
    <3> QED
      BY <1>5, <3>1, <3>3
  <2> QED
    BY <2>1, <2>2
<1>7. \E t \in ready : \A u \in ready :
          \/ QueueIndex(d, t[1]) < QueueIndex(d, u[1])
          \/ t[1] = u[1] /\ Ordinal(t[2]) <= Ordinal(u[2])
  BY <1>5, <1>6
<1> QED
  BY <1>1, <1>7 DEF Candidate

(* What a candidate is chosen by stays as it is, with all leases.              *)
SamePlan(d, e) ==
  /\ e.queue = d.queue /\ e.request = d.request /\ e.attempt = d.attempt /\ e.node = d.node
  /\ e.lease = d.lease
  /\ \A r \in Requests : d.mutation[r] # "not_started" => e.mutation[r] # "not_started"

(* What a claim of a worker keeps: the leases that it gives out are that       *)
(* worker's.                                                                   *)
Grants(d, e, w) ==
  /\ Kept(d, e)
  /\ \A r \in Requests : \A n \in NodesOf[r.project] :
       \/ DOMAIN e.lease[r][n] = DOMAIN d.lease[r][n]
       \/ Newest(e.lease[r][n]).worker = w

(* Taking the lock or binding compiled state gives no lease out.               *)
LEMMA PlanGrants ==
  ASSUME NEW d, NEW e, NEW w, SamePlan(d, e)
  PROVE  Grants(d, e, w)
<1>1. Settled(d, e)
  BY DEF SamePlan, Settled, SettledRow, SettledLeases, SettledLease
<1>2. Kept(d, e) /\ NoGrant(d, e)
  BY <1>1, SettledIsKept
<1> QED
  BY <1>2 DEF Grants, NoGrant

(* A lease that is given out after that.                                       *)
LEMMA PlanThenGrants ==
  ASSUME NEW d, NEW e, NEW f, NEW w, SamePlan(d, e), Grants(e, f, w)
  PROVE  Grants(d, f, w)
<1>1. Kept(d, f)
  <2>1. ASSUME NEW r \in Requests
        PROVE  KeptRow(r.project, d.mutation[r], f.mutation[r], d.node[r], f.node[r],
                       d.lease[r], f.lease[r])
    <3>1. e.node[r] = d.node[r] /\ e.lease[r] = d.lease[r]
      BY DEF SamePlan
    <3>2. KeptRow(r.project, e.mutation[r], f.mutation[r], d.node[r], f.node[r],
                  d.lease[r], f.lease[r])
      BY <3>1 DEF Grants, Kept
    <3> QED
      BY <3>2 DEF SamePlan, KeptRow
  <2> QED
    BY <2>1 DEF Kept
<1> QED
  BY <1>1 DEF Grants, SamePlan

(* A ready node of a queued or running attempt, for a worker that may run it.  *)
Claimable(d, r, n, w) ==
  /\ r \in Requests /\ n \in NodesOf[r.project] /\ w \in Workers
  /\ d.node[r][n] = "ready" /\ d.attempt[r] \in {"queued", "running"}
  /\ MayRun(w, r.project, n)

(* The lock is taken for the attempt, or already its own.                      *)
LEMMA AcquireIsSound ==
  ASSUME NEW d, Good(d), NEW r, NEW n, NEW w, Claimable(d, r, n, w), Exclusive(r, n),
         d.lock[r.project].owner \in {NoRequest, r},
         NEW e, e = AcquireMutationLock(d, r)
  PROVE  /\ Sound(e) /\ SamePlan(d, e)
         /\ ~e.err => e.lock[r.project] = [owner |-> r, state |-> "held"]
<1>1. Shape(d) /\ ~d.err /\ r \in Requests /\ n \in NodesOf[r.project]
  BY DEF Good, Claimable
<1>2. PICK p \in Projects : p = r.project
  BY <1>1, RequestFacts
<1>3. RowOK(d, r) /\ LockedOK(d, r) /\ Queued(d, r) /\ LockOK(d, p)
  BY <1>1 DEF Good
<1>4. d.attempt[r] = "running" /\ r.mode = "deploy"
  <2>1. n # "prepare" /\ r.mode = "deploy"
    BY DEF Exclusive, Mutation
  <2>2. d.attempt[r] \notin Early
    BY <1>1, <1>3, <2>1 DEF RowOK, RowSound, AttemptSound, Claimable, Started
  <2> QED
    BY <2>1, <2>2 DEF Claimable, Early
<1>5. CASE d.lock[p] = NoLock
  <2>1. PICK f : f = [d EXCEPT !.lock[p] = [owner |-> r, state |-> "held"], !.mutation[r] = "owned"]
    OBVIOUS
  <2>2. e = Require(d.mutation[r] = "not_started", f)
    BY <1>2, <1>5, <2>1 DEF AcquireMutationLock
  <2>3. /\ Shape(f) /\ ~f.err /\ f.queue = d.queue /\ f.request = d.request
        /\ f.attempt = d.attempt /\ f.node = d.node /\ f.cleanup = d.cleanup
        /\ f.lease = d.lease /\ f.bound = d.bound
        /\ f.lock = [d.lock EXCEPT ![p] = [owner |-> r, state |-> "held"]]
        /\ f.mutation = [d.mutation EXCEPT ![r] = "owned"]
    BY <1>1, <2>1 DEF Shape
  <2>4. /\ f.mutation[r] = "owned" /\ f.lock[p] = [owner |-> r, state |-> "held"]
        /\ \A s \in Requests : s # r => f.mutation[s] = d.mutation[s]
        /\ \A q \in Projects : q # p => f.lock[q] = d.lock[q]
    BY <1>1, <1>2, <2>3 DEF Shape
  <2>5. CASE d.mutation[r] = "not_started"
    <3>1. RowOK(f, r)
      BY <1>1, <1>3, <1>4, <2>3, <2>4, <2>5, OwnedRow DEF RowOK
    <3>2. LockedOK(f, r)
      BY <1>2, <2>4 DEF LockedOK, HoldsLock
    <3>3. ASSUME NEW s \in Requests, s # r
          PROVE  RowOK(f, s) /\ LockedOK(f, s)
      <4>1. RowOK(d, s) /\ LockedOK(d, s) /\ s # NoRequest
        BY RequestFacts DEF Good
      <4>2. RowOK(f, s)
        BY <2>3, <2>4, <3>3, <4>1 DEF RowOK
      <4>3. CASE s.project # p
        <5>1. f.lock[s.project] = d.lock[s.project]
          BY <2>4, <4>3, RequestFacts
        <5> QED
          BY <2>3, <2>4, <3>3, <4>1, <4>2, <5>1 DEF LockedOK
      <4>4. CASE s.project = p
        <5>1. NoLock.owner = NoRequest
          BY DEF NoLock
        <5>2. HoldsLock(s, d.attempt[s], d.mutation[s], d.node[s], d.lock[p])
          BY <4>1, <4>4 DEF LockedOK
        <5>3. d.lock[p].owner # s
          BY <1>5, <4>1, <5>1
        <5>4. d.mutation[s] \notin {"owned", "needs_reconcile"}
          BY <5>2, <5>3 DEF HoldsLock
        <5>5. \A m \in NodesOf[s.project] : ~(Exclusive(s, m) /\ d.node[s][m] = "leased")
          BY <5>2, <5>3 DEF HoldsLock
        <5>6. ~(s.mode = "deploy" /\ d.attempt[s] \in {"queued", "running"})
          <6>1. SUFFICES ASSUME s.mode = "deploy", d.attempt[s] \in {"queued", "running"}
                         PROVE  FALSE
            OBVIOUS
          <6>2. Fresh(d, r)
            BY <1>4, <2>5 DEF Fresh, LiveAttempts
          <6>3. ~Fresh(d, s)
            BY <1>1, <1>2, <1>4, <3>3, <4>4, <6>1, <6>2 DEF Good, OneFresh
          <6>4. d.mutation[s] # "not_started"
            BY <6>1, <6>3 DEF Fresh, LiveAttempts
          <6>5. ColumnsSound(d.request[s], d.attempt[s], d.mutation[s], d.cleanup[s])
            BY <4>1 DEF RowOK, RowSound
          <6> QED
            BY <5>4, <6>1, <6>4, <6>5 DEF ColumnsSound, MutationStates
        <5>7. f.lock[p].owner # s /\ f.lock[p] # [owner |-> s, state |-> "needs_reconcile"]
          BY <2>4, <3>3
        <5>8. HoldsLock(s, d.attempt[s], d.mutation[s], d.node[s], f.lock[p])
          BY <5>4, <5>5, <5>6, <5>7 DEF HoldsLock
        <5> QED
          BY <2>3, <2>4, <3>3, <4>2, <4>4, <5>8 DEF LockedOK
      <4> QED
        BY <4>3, <4>4
    <3>4. \A s \in Requests : Queued(f, s)
      BY <2>3 DEF Good, Queued
    <3>5. ASSUME NEW q \in Projects PROVE LockOK(f, q)
      <4>1. CASE q = p
        BY <1>1, <1>2, <2>4, <4>1 DEF LockOK
      <4>2. CASE q # p
        BY <2>4, <4>2 DEF Good, LockOK
      <4> QED
        BY <4>1, <4>2
    <3>6. OneFresh(f)
      <4>1. \A s \in Requests : Fresh(f, s) => Fresh(d, s)
        BY <2>3, <2>4, <2>5 DEF Fresh
      <4> QED
        BY <4>1 DEF Good, OneFresh
    <3>7. Good(f)
      <4>1. \A s \in Requests : RowOK(f, s) /\ LockedOK(f, s) /\ Queued(f, s)
        BY <3>1, <3>2, <3>3, <3>4
      <4>2. f.queue \in Seq(Slots)
        BY <2>3 DEF Good
      <4> QED
        BY <2>3, <3>5, <3>6, <4>1, <4>2 DEF Good
    <3>8. e = f
      BY <2>2, <2>5 DEF Require
    <3>9. \A s \in Requests : d.mutation[s] # "not_started" => f.mutation[s] # "not_started"
      BY <2>4
    <3> QED
      BY <1>2, <2>3, <2>4, <3>7, <3>8, <3>9, GoodIsSound DEF SamePlan
  <2>6. CASE d.mutation[r] # "not_started"
    <3>1. e = Fail(f)
      BY <2>2, <2>6 DEF Require
    <3>2. Sound(e) /\ e.err
      BY <2>3, <3>1, FailIsSound
    <3>3. e = [f EXCEPT !.err = TRUE]
      BY <3>1 DEF Fail
    <3>4. SamePlan(d, e)
      <4>1. \A s \in Requests : d.mutation[s] # "not_started" => f.mutation[s] # "not_started"
        BY <2>4
      <4> QED
        BY <2>3, <3>3, <4>1 DEF SamePlan, Shape
    <3> QED
      BY <3>2, <3>4
  <2> QED
    BY <2>5, <2>6
<1>6. CASE d.lock[p] # NoLock
  <2>1. e = Require(d.lock[p].state = "held", d)
    BY <1>2, <1>6 DEF AcquireMutationLock
  <2>2. PICK s \in Requests : d.lock[p] \in {[owner |-> s, state |-> "held"],
                                             [owner |-> s, state |-> "needs_reconcile"]}
    BY <1>3, <1>6 DEF LockOK
  <2>3. s = r
    BY <1>2, <2>2, RequestFacts
  <2>4. CASE d.lock[p].state = "held"
    <3>1. e = d
      BY <2>1, <2>4 DEF Require
    <3>2. d.lock[p] = [owner |-> r, state |-> "held"]
      BY <2>2, <2>3, <2>4
    <3> QED
      BY <1>2, <3>1, <3>2, GoodIsSound DEF SamePlan
  <2>5. CASE d.lock[p].state # "held"
    <3>1. e = Fail(d)
      BY <2>1, <2>5 DEF Require
    <3>2. Sound(e) /\ e.err
      BY <1>1, <3>1, FailIsSound
    <3>3. e = [d EXCEPT !.err = TRUE]
      BY <3>1 DEF Fail
    <3>4. SamePlan(d, e)
      BY <1>1, <3>3 DEF SamePlan, Shape
    <3> QED
      BY <3>2, <3>4
  <2> QED
    BY <2>4, <2>5
<1> QED
  BY <1>5, <1>6

(* The worker that first uses an attempt's compiled state is bound to it.      *)
LEMMA BindKeepsGood ==
  ASSUME NEW d, Good(d), NEW r \in Requests, NEW w \in Workers, NEW e, e = Bind(d, r, w)
  PROVE  /\ Good(e) /\ SamePlan(d, e) /\ e.lease = d.lease /\ e.lock = d.lock
         /\ d.bound[r] = NoBinding /\ VpsCapable(w) =>
              e.bound[r] # NoBinding /\ e.bound[r].worker = w
         /\ d.bound[r] # NoBinding => e.bound[r] = d.bound[r]
<1>1. CASE d.bound[r] = NoBinding /\ VpsCapable(w)
  <2>1. PICK b : b = [worker |-> w, consumers |-> RemainingConsumers(d, r, w)]
    OBVIOUS
  <2>2. e = [d EXCEPT !.bound[r] = b]
    BY <1>1, <2>1 DEF Bind
  <2>3. Shape(d) /\ ~d.err
    BY DEF Good
  <2>4. /\ Shape(e) /\ ~e.err /\ e.queue = d.queue /\ e.request = d.request
        /\ e.attempt = d.attempt /\ e.node = d.node /\ e.cleanup = d.cleanup
        /\ e.lease = d.lease /\ e.mutation = d.mutation /\ e.lock = d.lock
        /\ e.bound = [d.bound EXCEPT ![r] = b]
    BY <2>2, <2>3 DEF Shape
  <2>5. /\ e.bound[r] = b
        /\ \A s \in Requests : s # r => e.bound[s] = d.bound[s]
    BY <2>3, <2>4 DEF Shape
  <2>6. RowOK(e, r)
    <3>1. RowOK(d, r)
      BY DEF Good
    <3> QED
      BY <1>1, <2>4, <3>1, BoundRow DEF RowOK
  <2>7. Calm(d, e, r)
    BY <2>4, <2>5 DEF Calm, OnlyRow
  <2>8. Good(e)
    BY <2>6, <2>7, CalmRow
  <2>9. b.worker = w /\ b # NoBinding
    BY <2>1, SchedulerAssumption DEF NoBinding
  <2> QED
    BY <1>1, <2>4, <2>5, <2>8, <2>9 DEF SamePlan
<1>2. CASE ~(d.bound[r] = NoBinding /\ VpsCapable(w))
  BY <1>2 DEF Bind, SamePlan
<1> QED
  BY <1>1, <1>2

(* A lease is given out.                                                       *)
LEMMA PersistIsSound ==
  ASSUME NEW d, Good(d), NEW r, NEW n, NEW w, Claimable(d, r, n, w),
         Exclusive(r, n) => d.lock[r.project] = [owner |-> r, state |-> "held"],
         UsesOperationState(r.project, n) /\ VpsCapable(w) => ~ActiveStateOn(d, r, w),
         UsesOperationState(r.project, n) /\ Policy[r.project].serial =>
           d.bound[r] # NoBinding /\ d.bound[r].worker = w,
         NEW z, z = PersistActiveLease(d, r, n, w)
  PROVE  Sound(z) /\ (z.err \/ Grants(d, z, w))
<1>1. /\ Shape(d) /\ ~d.err /\ r \in Requests /\ n \in NodesOf[r.project] /\ w \in Workers
      /\ d.node[r][n] = "ready" /\ d.attempt[r] \in {"queued", "running"}
  BY DEF Good, Claimable
<1>2. PICK ls, nd, us, ns :
        /\ ls = d.lease[r] /\ nd = d.node[r]
        /\ us = [ls EXCEPT ![n] = Append(@, NewLease(r, n, w))]
        /\ ns = [nd EXCEPT ![n] = "leased"]
  OBVIOUS
<1>3. PICK e : e = [d EXCEPT !.lease[r] = us, !.node[r] = ns, !.attempt[r] = "running"]
  OBVIOUS
<1>4. PICK c \in BOOLEAN : c <=> \A m \in DependsOn[r.project][n] : d.node[r][m] = "succeeded"
  OBVIOUS
<1>5. RowOK(d, r) /\ LockedOK(d, r) /\ Queued(d, r)
  BY <1>1 DEF Good
<1>6. DOMAIN ls = NodesOf[r.project] /\ DOMAIN nd = NodesOf[r.project]
  BY <1>2, <1>5 DEF RowOK, RowSound, NodesSound
<1>7. PersistActiveLease(d, r, n, w) = Require(c, e)
  <2>1. PICK l : l = NewLease(r, n, w)
    OBVIOUS
  <2>2. e = [d EXCEPT !.lease[r][n] = Append(@, l), !.node[r][n] = "leased",
                      !.attempt[r] = "running"]
    BY <1>1, <1>2, <1>3, <2>1 DEF Shape
  <2>3. PersistActiveLease(d, r, n, w) =
          Require(\A m \in DependsOn[r.project][n] : d.node[r][m] = "succeeded",
                  [d EXCEPT !.lease[r][n] = Append(@, l), !.node[r][n] = "leased",
                            !.attempt[r] = "running"])
    BY <2>1 DEF PersistActiveLease, NewLease
  <2> QED
    BY <1>4, <2>2, <2>3 DEF Require
<1>8. /\ Shape(e) /\ ~e.err /\ e.queue = d.queue /\ e.request = d.request
      /\ e.mutation = d.mutation /\ e.cleanup = d.cleanup /\ e.lock = d.lock
      /\ e.bound = d.bound /\ e.lease = [d.lease EXCEPT ![r] = us]
      /\ e.node = [d.node EXCEPT ![r] = ns]
      /\ e.attempt = [d.attempt EXCEPT ![r] = "running"]
  BY <1>1, <1>3 DEF Shape
<1>9. /\ e.lease[r] = us /\ e.node[r] = ns /\ e.attempt[r] = "running"
      /\ \A s \in Requests : s # r => /\ e.lease[s] = d.lease[s] /\ e.node[s] = d.node[s]
                                      /\ e.attempt[s] = d.attempt[s]
  BY <1>1, <1>8 DEF Shape
<1>10. OnlyRow(d, e, r)
  BY <1>8, <1>9 DEF OnlyRow
<1>11. RowOK(e, r)
  <2>1. RowSound(r, d.request[r], d.attempt[r], d.mutation[r], d.cleanup[r], nd, ls, d.bound[r])
    BY <1>2, <1>5 DEF RowOK
  <2>2. ASSUME UsesOperationState(r.project, n), VpsCapable(w), NEW m \in NodesOf[r.project]
        PROVE  ~(Runs(ls[m]) /\ Newest(ls[m]).worker = w /\ Newest(ls[m]).shared)
    BY <1>2, <2>2 DEF ActiveStateOn, Active, IsActive, Current, Runs, Newest
  <2>3. RowSound(r, d.request[r], "running", d.mutation[r], d.cleanup[r], ns, us, d.bound[r])
    BY <1>1, <1>2, <2>1, <2>2, LeasedRow
  <2> QED
    BY <1>8, <1>9, <2>3 DEF RowOK
<1>12. LockedOK(e, r)
  <2>1. HoldsLock(r, d.attempt[r], d.mutation[r], nd, d.lock[r.project])
    BY <1>2, <1>5 DEF LockedOK
  <2>2. \A m \in NodesOf[r.project] : Exclusive(r, m) /\ ns[m] = "leased" =>
          d.lock[r.project] = [owner |-> r, state |-> "held"]
    BY <1>2, <1>6, <2>1 DEF HoldsLock
  <2>3. HoldsLock(r, "running", d.mutation[r], ns, d.lock[r.project])
    BY <1>1, <2>1, <2>2 DEF HoldsLock
  <2> QED
    BY <1>8, <1>9, <2>3 DEF LockedOK
<1>13. Fresh(e, r) => Fresh(d, r)
  BY <1>1, <1>8 DEF Fresh, LiveAttempts
<1>14. Good(e)
  BY <1>1, <1>8, <1>10, <1>11, <1>12, <1>13, OneRow
<1>15. Grants(d, e, w)
  <2>1. PICK q, v, l : q = ls[n] /\ l = NewLease(r, n, w) /\ v = Append(q, l)
    OBVIOUS
  <2>2. us = [ls EXCEPT ![n] = v] /\ q \in Seq(LeaseRows) /\ l.worker = w
    <3>1. q \in Seq(LeaseRows)
      BY <1>1, <1>2, <1>5, <2>1 DEF RowOK, RowSound, NodesSound, NodeSound
    <3> QED
      BY <1>2, <2>1, <3>1 DEF NewLease
  <2>3. /\ DOMAIN q \subseteq DOMAIN v /\ \A g \in DOMAIN q : v[g] = q[g]
        /\ Newest(v).worker = w
    BY <2>1, <2>2 DEF Newest
  <2>4. KeptLeases(q, v)
    BY <2>3 DEF KeptLeases
  <2>5. ASSUME NEW m \in NodesOf[r.project]
        PROVE  /\ nd[m] = "succeeded" => ns[m] = "succeeded"
               /\ nd[m] # "succeeded" => ns[m] # "succeeded"
               /\ KeptLeases(ls[m], us[m])
               /\ DOMAIN us[m] = DOMAIN ls[m] \/ Newest(us[m]).worker = w
    <3>1. CASE m = n
      BY <1>1, <1>2, <1>6, <2>1, <2>2, <2>3, <2>4, <3>1
    <3>2. CASE m # n
      <4>1. ns[m] = nd[m] /\ us[m] = ls[m]
        BY <1>2, <1>6, <3>2
      <4> QED
        BY <4>1 DEF KeptLeases
    <3> QED
      BY <3>1, <3>2
  <2>6. ASSUME NEW s \in Requests
        PROVE  /\ KeptRow(s.project, d.mutation[s], e.mutation[s], d.node[s], e.node[s],
                          d.lease[s], e.lease[s])
               /\ \A m \in NodesOf[s.project] :
                    \/ DOMAIN e.lease[s][m] = DOMAIN d.lease[s][m]
                    \/ Newest(e.lease[s][m]).worker = w
    <3>1. CASE s = r
      BY <1>2, <1>8, <1>9, <2>5, <3>1 DEF KeptRow
    <3>2. CASE s # r
      <4>1. e.node[s] = d.node[s] /\ e.lease[s] = d.lease[s]
        BY <1>9, <3>2
      <4> QED
        BY <1>8, <4>1 DEF KeptRow, KeptLeases
    <3> QED
      BY <3>1, <3>2
  <2> QED
    BY <2>6 DEF Grants, Kept
<1>16. z = Require(c, e)
  BY <1>7
<1>17. CASE c
  BY <1>14, <1>15, <1>16, <1>17, GoodIsSound DEF Require
<1>18. CASE ~c
  BY <1>8, <1>16, <1>18, FailIsSound DEF Require
<1> QED
  BY <1>17, <1>18

(* The cursor carries no part of the invariant.                                *)
LEMMA CursorIsSound ==
  ASSUME NEW d, Sound(d), NEW p
  PROVE  /\ Sound(UpdateCursor(d, p)) /\ UpdateCursor(d, p).err = d.err
         /\ SamePlan(d, UpdateCursor(d, p))
         /\ UpdateCursor(d, p).mutation = d.mutation
<1>1. PICK c : c = [project |-> p,
                    remaining |-> IF d.cursor.project = p /\ d.cursor.remaining > 0
                                  THEN d.cursor.remaining - 1 ELSE Policy[p].weight - 1]
  OBVIOUS
<1>2. PICK e : e = [d EXCEPT !.cursor = c]
  OBVIOUS
<1>3. Shape(d)
  BY DEF Sound
<1>4. UpdateCursor(d, p) = e
  BY <1>1, <1>2 DEF UpdateCursor
<1>5. /\ Shape(e) /\ e.err = d.err /\ e.queue = d.queue /\ e.request = d.request
      /\ e.attempt = d.attempt /\ e.node = d.node /\ e.cleanup = d.cleanup
      /\ e.lease = d.lease /\ e.mutation = d.mutation /\ e.lock = d.lock
      /\ e.bound = d.bound
  BY <1>2, <1>3 DEF Shape
<1>6. ASSUME Good(d) PROVE Sound(e)
  <2>1. ASSUME NEW s \in Requests PROVE RowOK(e, s) /\ LockedOK(e, s) /\ Queued(e, s)
    <3>1. RowOK(d, s) /\ LockedOK(d, s) /\ Queued(d, s)
      BY <1>6 DEF Good
    <3> QED
      BY <1>5, <3>1 DEF RowOK, LockedOK, Queued
  <2>2. (\A q \in Projects : LockOK(e, q)) /\ OneFresh(e)
    BY <1>5, <1>6 DEF Good, LockOK, OneFresh, Fresh
  <2>3. Good(e)
    BY <1>5, <1>6, <2>1, <2>2 DEF Good
  <2> QED
    BY <2>3, GoodIsSound
<1>7. ASSUME d.err PROVE Sound(e)
  BY <1>5, <1>7 DEF Sound
<1>8. SamePlan(d, e)
  BY <1>5 DEF SamePlan
<1> QED
  BY <1>4, <1>5, <1>6, <1>7, <1>8 DEF Sound

(* A serial policy's compiled state is used by VPS workers only.               *)
LEMMA SerialOnVps ==
  ASSUME NEW p \in Projects, NEW n, NEW w, MayRun(w, p, n),
         UsesOperationState(p, n), Policy[p].serial
  PROVE  VpsCapable(w)
<1>1. CASE n \in Verifications(p)
  BY <1>1 DEF MayRun
<1>2. CASE n = "build"
  <2>1. PoolOf(p, n) = "vps_required"
    BY <1>2, PolicyAssumption DEF PoolOf
  <2> QED
    BY <2>1 DEF MayRun, VpsCapable
<1> QED
  BY <1>1, <1>2 DEF UsesOperationState

(* The candidate that is not passed over is leased where its state is.         *)
LEMMA LeaseIsSound ==
  ASSUME NEW d, Good(d), NEW r, NEW n, NEW w, Claimable(d, r, n, w),
         Exclusive(r, n) => d.lock[r.project] = [owner |-> r, state |-> "held"],
         NEW b, b = IF UsesOperationState(r.project, n) THEN Bind(d, r, w) ELSE d,
         UsesOperationState(r.project, n) => OperationState(d, r, n, w) = "ready",
         NEW z, z = PersistActiveLease(b, r, n, w)
  PROVE  Sound(z) /\ (z.err \/ Grants(d, z, w))
<1>1. r \in Requests /\ w \in Workers /\ MayRun(w, r.project, n) /\ w # None
  BY SchedulerAssumption DEF Claimable
<1>2. CASE UsesOperationState(r.project, n)
  <2>1. b = Bind(d, r, w)
    BY <1>2
  <2>2. /\ Good(b) /\ SamePlan(d, b) /\ b.lease = d.lease /\ b.lock = d.lock
        /\ d.bound[r] = NoBinding /\ VpsCapable(w) =>
             b.bound[r] # NoBinding /\ b.bound[r].worker = w
        /\ d.bound[r] # NoBinding => b.bound[r] = d.bound[r]
    BY <1>1, <2>1, BindKeepsGood
  <2>3. Claimable(b, r, n, w)
    BY <2>2 DEF Claimable, SamePlan
  <2>4. Exclusive(r, n) => b.lock[r.project] = [owner |-> r, state |-> "held"]
    BY <2>2
  <2>5. NoBinding.worker = None
    BY DEF NoBinding
  <2>6. VpsCapable(w) => ~ActiveStateOn(d, r, w)
    BY <1>2, SMTT(60) DEF OperationState
  <2>7. VpsCapable(w) => ~ActiveStateOn(b, r, w)
    BY <2>2, <2>6 DEF ActiveStateOn, Active, IsActive, Current
  <2>8. d.bound[r].worker = w \/ d.bound[r] = NoBinding
    BY <1>2 DEF OperationState
  <2>9. Policy[r.project].serial => b.bound[r] # NoBinding /\ b.bound[r].worker = w
    <3>1. SUFFICES ASSUME Policy[r.project].serial
                   PROVE  b.bound[r] # NoBinding /\ b.bound[r].worker = w
      OBVIOUS
    <3>2. VpsCapable(w)
      BY <1>1, <1>2, <3>1, SerialOnVps, RequestFacts
    <3> QED
      BY <1>1, <2>2, <2>5, <2>8, <3>2
  <2>10. Sound(z) /\ (z.err \/ Grants(b, z, w))
    BY <2>2, <2>3, <2>4, <2>7, <2>9, PersistIsSound
  <2> QED
    BY <2>2, <2>10, PlanThenGrants
<1>3. CASE ~UsesOperationState(r.project, n)
  BY <1>3, PersistIsSound
<1> QED
  BY <1>2, <1>3

(* The loop of a claim: its database is sound, and until a lease is given out  *)
(* the candidates are those it began with.                                     *)
Claiming(d, acc, w) ==
  /\ acc = [db |-> acc.db, done |-> acc.done] /\ acc.done \in BOOLEAN /\ Sound(acc.db)
  /\ acc.done \/ acc.db.err \/ SamePlan(d, acc.db)
  /\ acc.db.err \/ Grants(d, acc.db, w)

(* One turn of that loop.                                                     *)
LEMMA ClaimOneIsSound ==
  ASSUME NEW d, NEW acc, NEW w \in Workers, Claiming(d, acc, w), NEW p \in Projects,
         ReadyNodes(d, w, p) # {}
  PROVE  Claiming(d, ClaimOne(acc, p, w), w)
<1>1. CASE acc.done \/ acc.db.err
  BY <1>1 DEF ClaimOne
<1>2. CASE ~(acc.done \/ acc.db.err)
  <2>1. PICK x : x = acc.db
    OBVIOUS
  <2>2. Good(x) /\ SamePlan(d, x) /\ acc = [db |-> x, done |-> FALSE]
    BY <1>2, <2>1 DEF Claiming, Sound
  <2>3. ReadyNodes(x, w, p) = ReadyNodes(d, w, p)
    BY <2>2 DEF ReadyNodes, SamePlan
  <2>4. PICK t : t = Candidate(x, w, p)
    OBVIOUS
  <2>5. t \in ReadyNodes(x, w, p)
    BY <2>2, <2>3, <2>4, CandidateIsReady
  <2>6. PICK r, n : r = t[1] /\ n = t[2]
    OBVIOUS
  <2>7. Claimable(x, r, n, w) /\ r.project = p
    BY <2>5, <2>6 DEF ReadyNodes, Claimable, Steps
  <2>8. PICK o : o = IF Exclusive(r, n) THEN AcquireMutationLock(x, r) ELSE x
    OBVIOUS
  <2>9. PICK st : st = IF UsesOperationState(p, n) THEN OperationState(o, r, n, w) ELSE "ready"
    OBVIOUS
  <2>10. PICK b : b = IF UsesOperationState(p, n) THEN Bind(o, r, w) ELSE o
    OBVIOUS
  <2>11. PICK l : l = UpdateCursor(PersistActiveLease(b, r, n, w), p)
    OBVIOUS
  <2>12. ClaimOne(acc, p, w) =
           IF Exclusive(r, n) /\ x.lock[p].owner \notin {NoRequest, r} THEN acc
           ELSE IF o.err \/ st = "corrupt" THEN [db |-> Fail(o), done |-> TRUE]
           ELSE IF st = "busy" THEN [acc EXCEPT !.db = o]
           ELSE [db |-> l, done |-> TRUE]
    BY <1>2, <2>1, <2>4, <2>6, <2>8, <2>9, <2>10, <2>11 DEF ClaimOne
  <2>13. CASE Exclusive(r, n) /\ x.lock[p].owner \notin {NoRequest, r}
    BY <2>12, <2>13
  <2>14. CASE ~(Exclusive(r, n) /\ x.lock[p].owner \notin {NoRequest, r})
    <3>1. /\ Sound(o) /\ SamePlan(x, o)
          /\ ~o.err => (Exclusive(r, n) => o.lock[r.project] = [owner |-> r, state |-> "held"])
      <4>1. CASE Exclusive(r, n)
        <5>1. x.lock[r.project].owner \in {NoRequest, r} /\ o = AcquireMutationLock(x, r)
          BY <2>7, <2>8, <2>14, <4>1
        <5> QED
          BY <2>2, <2>7, <4>1, <5>1, AcquireIsSound
      <4>2. CASE ~Exclusive(r, n)
        BY <2>2, <2>8, <4>2, GoodIsSound DEF SamePlan
      <4> QED
        BY <4>1, <4>2
    <3>2. CASE o.err \/ st = "corrupt"
      <4>1. PICK f : f = Fail(o)
        OBVIOUS
      <4>2. Sound(f) /\ f.err
        BY <3>1, <4>1, FailIsSound DEF Sound
      <4>3. ClaimOne(acc, p, w) = [db |-> f, done |-> TRUE]
        BY <2>12, <2>14, <3>2, <4>1
      <4> QED
        BY <4>2, <4>3 DEF Claiming
    <3>3. CASE ~(o.err \/ st = "corrupt") /\ st = "busy"
      <4>1. ClaimOne(acc, p, w) = [db |-> o, done |-> FALSE]
        BY <2>2, <2>12, <2>14, <3>3
      <4>2. SamePlan(d, o)
        BY <2>2, <3>1 DEF SamePlan
      <4>3. Grants(d, o, w)
        BY <4>2, PlanGrants
      <4> QED
        BY <3>1, <4>1, <4>2, <4>3 DEF Claiming
    <3>4. CASE ~(o.err \/ st = "corrupt") /\ st # "busy"
      <4>1. Good(o) /\ Claimable(o, r, n, w)
        BY <2>7, <3>1, <3>4 DEF Sound, Claimable, SamePlan
      <4>2. UsesOperationState(p, n) => OperationState(o, r, n, w) = "ready"
        BY <2>9, <3>4 DEF OperationState
      <4>3. PICK z : z = PersistActiveLease(b, r, n, w)
        OBVIOUS
      <4>4. Sound(z) /\ (z.err \/ Grants(o, z, w))
        BY <2>7, <2>10, <3>1, <3>4, <4>1, <4>2, <4>3, LeaseIsSound
      <4>5. Sound(l) /\ l.err = z.err /\ SamePlan(z, l) /\ l.mutation = z.mutation
        BY <2>11, <4>3, <4>4, CursorIsSound
      <4>6. l.err \/ Grants(d, l, w)
        <5>1. SUFFICES ASSUME ~l.err PROVE Grants(d, l, w)
          OBVIOUS
        <5>2. Grants(o, z, w) /\ SamePlan(d, o)
          BY <2>2, <3>1, <4>4, <4>5, <5>1 DEF SamePlan
        <5>3. Grants(d, z, w)
          BY <5>2, PlanThenGrants
        <5> QED
          BY <4>5, <5>3 DEF Grants, Kept, SamePlan
      <4>7. ClaimOne(acc, p, w) = [db |-> l, done |-> TRUE]
        BY <2>12, <2>14, <3>4
      <4> QED
        BY <4>5, <4>6, <4>7 DEF Claiming
    <3> QED
      BY <3>2, <3>3, <3>4
  <2> QED
    BY <2>13, <2>14
<1> QED
  BY <1>1, <1>2

(* What the loop of a claim leaves after each project.                         *)
LEMMA ClaimLoop ==
  ASSUME NEW d, NEW w, NEW o, Len(o) \in Nat
  PROVE  \E h : /\ h[0] = [db |-> d, done |-> FALSE] /\ ClaimAll(d, w, o) = h[Len(o)].db
                /\ \A i \in 1..Len(o) : h[i] = ClaimOne(h[i - 1], o[i], w)
<1> DEFINE First == [db |-> d, done |-> FALSE]
           Loops(h, k) == h = [i \in 0..k |-> IF i = 0 THEN [db |-> d, done |-> FALSE]
                                              ELSE ClaimOne(h[i - 1], o[i], w)]
           T == {k \in Nat : ~\E h : Loops(h, k)}
<1>1. T = {}
  <2>1. SUFFICES ASSUME T # {} PROVE FALSE
    OBVIOUS
  <2>2. PICK x \in T : \A y \in T : x <= y
    BY <2>1, Least
  <2>3. x # 0
    <3>1. PICK h : h = [i \in 0..0 |-> First]
      OBVIOUS
    <3>2. Loops(h, 0)
      BY <3>1
    <3> QED
      BY <2>2, <3>2
  <2>4. x \in Nat /\ x - 1 \in Nat /\ x - 1 \notin T
    <3>1. x \in Nat
      BY <2>2
    <3> HIDE DEF T
    <3> QED
      BY <2>2, <2>3, <3>1
  <2>5. PICK h : Loops(h, x - 1)
    BY <2>4
  <2>6. PICK g : g = [i \in 0..x |-> IF i < x THEN h[i] ELSE ClaimOne(h[x - 1], o[x], w)]
    OBVIOUS
  <2>7. ASSUME NEW i \in 0..x
        PROVE  g[i] = IF i = 0 THEN [db |-> d, done |-> FALSE] ELSE ClaimOne(g[i - 1], o[i], w)
    <3>1. CASE i = 0
      <4>1. g[0] = h[0] /\ 0 \in 0..(x - 1)
        BY <2>4, <2>6, <3>1
      <4> QED
        BY <2>5, <3>1, <4>1
    <3>2. CASE i # 0
      <4>1. i - 1 \in 0..x /\ i - 1 < x
        BY <2>4, <3>2
      <4>2. g[i - 1] = h[i - 1]
        BY <2>6, <4>1
      <4>3. CASE i = x
        BY <2>4, <2>6, <3>2, <4>2, <4>3
      <4>4. CASE i # x
        <5>1. i < x /\ i \in 0..(x - 1)
          BY <2>4, <4>4
        <5>2. g[i] = h[i]
          BY <2>6, <5>1
        <5>3. h[i] = ClaimOne(h[i - 1], o[i], w)
          BY <2>5, <3>2, <5>1
        <5> QED
          BY <3>2, <4>2, <5>2, <5>3
      <4> QED
        BY <4>3, <4>4
    <3> QED
      BY <3>1, <3>2
  <2>8. Loops(g, x)
    BY <2>6, <2>7
  <2> QED
    BY <2>2, <2>8
<1>2. PICK h : h = CHOOSE after : Loops(after, Len(o))
  OBVIOUS
<1>3. Loops(h, Len(o))
  BY <1>1, <1>2
<1>4. ClaimAll(d, w, o) = h[Len(o)].db
  BY <1>2 DEF ClaimAll
<1>5. h[0] = [db |-> d, done |-> FALSE]
  BY <1>3
<1>6. ASSUME NEW i \in 1..Len(o) PROVE h[i] = ClaimOne(h[i - 1], o[i], w)
  <2>1. i \in 0..Len(o) /\ i # 0
    OBVIOUS
  <2> QED
    BY <1>3, <2>1
<1> QED
  BY <1>4, <1>5, <1>6

(* A claim leaves a sound database or an error, and its leases to its worker,  *)
(* which owed nothing.                                                         *)
LEMMA ClaimIsSound ==
  ASSUME NEW d, Good(d), NEW w \in Workers, NEW e \in ClaimTransaction(d, w)
  PROVE  /\ Sound(e) /\ (e.err \/ Grants(d, e, w))
         /\ WorkerHasDebt(d, w) => NoGrant(d, e)
<1>1. CASE WorkerHasDebt(d, w)
  <2>1. e = d
    BY <1>1 DEF ClaimTransaction
  <2>2. Kept(d, d) /\ NoGrant(d, d)
    BY SameIsKept
  <2> QED
    BY <2>1, <2>2, GoodIsSound DEF Grants, NoGrant
<1>2. CASE ~WorkerHasDebt(d, w)
  <2>1. PICK x : x = WakeWaitingAttempts(d)
    OBVIOUS
  <2>2. Good(x) /\ Settled(d, x)
    BY <2>1, WakeKeepsGood
  <2>3. PICK ps : ps = {p \in Projects : ReadyNodes(x, w, p) # {}}
    OBVIOUS
  <2>4. PICK o \in SetToSeqs(ps) : e = ClaimAll(x, w, o)
    BY <1>2, <2>1, <2>3 DEF ClaimTransaction, FairCandidateOrder
  <2>5. IsFiniteSet(ps)
    <3>1. PICK all : all = {r.project : r \in Requests}
      OBVIOUS
    <3>2. PICK f : f = [r \in Requests |-> r.project]
      OBVIOUS
    <3>3. f \in Surjection(Requests, all)
      BY <3>1, <3>2 DEF Surjection
    <3>4. IsFiniteSet(all)
      BY <3>3, FiniteSteps, FS_Surjection
    <3>5. ps \subseteq all
      BY <2>3, <3>1 DEF ReadyNodes, Steps
    <3> QED
      BY <3>4, <3>5, FS_Subset
  <2>6. Len(o) \in Nat /\ \A i \in 1..Len(o) : o[i] \in ps
    BY <2>4, <2>5, ListedFacts
  <2>7. PICK h : /\ h[0] = [db |-> x, done |-> FALSE] /\ e = h[Len(o)].db
                 /\ \A i \in 1..Len(o) : h[i] = ClaimOne(h[i - 1], o[i], w)
    BY <2>4, <2>6, ClaimLoop
  <2> DEFINE T == {k \in 0..Len(o) : ~Claiming(x, h[k], w)}
  <2>8. T = {}
    <3>1. SUFFICES ASSUME T # {} PROVE FALSE
      OBVIOUS
    <3>2. PICK y \in T : \A z \in T : y <= z
      <4>1. T \subseteq Nat
        BY <2>6
      <4> HIDE DEF T
      <4> QED
        BY <3>1, <4>1, Least
    <3>3. y # 0
      <4>1. SamePlan(x, x)
        BY DEF SamePlan
      <4>2. Grants(x, x, w)
        BY <4>1, PlanGrants
      <4>3. Claiming(x, h[0], w)
        BY <2>2, <2>7, <4>1, <4>2, GoodIsSound DEF Claiming
      <4> QED
        BY <3>2, <4>3
    <3>4. y \in 1..Len(o) /\ y - 1 \in 0..Len(o) /\ y - 1 \notin T
      BY <2>6, <3>2, <3>3
    <3>5. Claiming(x, h[y - 1], w) /\ o[y] \in Projects /\ ReadyNodes(x, w, o[y]) # {}
      BY <2>3, <2>6, <3>4
    <3>6. Claiming(x, h[y], w)
      BY <2>7, <3>4, <3>5, ClaimOneIsSound
    <3> QED
      BY <3>2, <3>6
  <2>9. Claiming(x, h[Len(o)], w)
    BY <2>6, <2>8
  <2>10. Sound(e) /\ (e.err \/ Grants(x, e, w))
    BY <2>7, <2>9 DEF Claiming
  <2>11. ASSUME Grants(x, e, w) PROVE Grants(d, e, w)
    <3>1. Kept(d, e)
      BY <2>2, <2>11, SettledThenKept DEF Grants
    <3>2. ASSUME NEW r \in Requests, NEW n \in NodesOf[r.project]
          PROVE  DOMAIN x.lease[r][n] = DOMAIN d.lease[r][n]
      BY <2>2 DEF Settled, SettledRow, SettledLeases
    <3> QED
      BY <2>11, <3>1, <3>2 DEF Grants
  <2> QED
    BY <1>2, <2>10, <2>11
<1> QED
  BY <1>1, <1>2

--------------------------------------------------------------------------------
(* The theorems                                                                *)

(* The empty database is sound.                                                *)
LEMMA EmptyIsGood == Good(EmptyDatabase)
<1>1. PICK d : d = EmptyDatabase
  OBVIOUS
<1>2. /\ Shape(d) /\ ~d.err /\ d.queue = << >>
      /\ d.lock = [p \in Projects |-> NoLock]
      /\ d.request = [r \in Requests |-> None] /\ d.attempt = [r \in Requests |-> None]
      /\ d.mutation = [r \in Requests |-> "not_started"]
      /\ d.cleanup = [r \in Requests |-> "complete"]
      /\ d.node = [r \in Requests |-> [n \in NodesOf[r.project] |-> "blocked"]]
      /\ d.lease = [r \in Requests |-> [n \in NodesOf[r.project] |-> << >>]]
      /\ d.bound = [r \in Requests |-> NoBinding]
  BY <1>1 DEF EmptyDatabase, Shape
<1>3. ASSUME NEW r \in Requests PROVE RowOK(d, r) /\ LockedOK(d, r) /\ Queued(d, r)
  <2>1. PICK p \in Projects : p = r.project
    BY RequestFacts
  <2>2. PICK nd, ls : /\ nd = [n \in NodesOf[p] |-> "blocked"]
                      /\ ls = [n \in NodesOf[p] |-> << >>]
    OBVIOUS
  <2>3. /\ d.request[r] = None /\ d.attempt[r] = None /\ d.mutation[r] = "not_started"
        /\ d.cleanup[r] = "complete" /\ d.node[r] = nd /\ d.lease[r] = ls
        /\ d.lock[p] = NoLock
    BY <1>2, <2>1, <2>2
  <2>4. \A n \in NodesOf[p] : nd[n] = "blocked" /\ ls[n] = << >>
    BY <2>2
  <2>5. ColumnsSound(None, None, "not_started", "complete")
    BY DEF ColumnsSound, RequestStates, AttemptStates, MutationStates, LiveAttempts, Early, None
  <2>6. NodesSound(p, nd, ls)
    <3>1. ASSUME NEW n \in NodesOf[p] PROVE NodeSound(n, "blocked", << >>)
      BY EmptyList DEF NodeSound, NodeStates, Runs
    <3> QED
      BY <2>2, <2>4, <3>1 DEF NodesSound
  <2>7. DependenciesDone(p, nd, ls)
    BY <2>4 DEF DependenciesDone, Started
  <2>8. AttemptSound(r, None, "not_started", nd, ls)
    BY <2>1, <2>4, GraphFacts DEF AttemptSound, Started, Over, None
  <2>9. SharedSound(r, ls, d.bound[r])
    BY <2>1, <2>4, EmptyList DEF SharedSound, Runs
  <2>10. RowOK(d, r)
    BY <2>1, <2>3, <2>5, <2>6, <2>7, <2>8, <2>9 DEF RowOK, RowSound
  <2>11. LockedOK(d, r)
    BY <2>1, <2>3, <2>4, RequestFacts DEF LockedOK, HoldsLock, NoLock, None
  <2> QED
    BY <2>3, <2>10, <2>11 DEF Queued
<1>4. (\A p \in Projects : LockOK(d, p)) /\ OneFresh(d)
  BY <1>2 DEF LockOK, OneFresh, Fresh, LiveAttempts, None
<1>5. d.queue \in Seq(Slots)
  BY <1>2
<1> QED
  BY <1>1, <1>2, <1>3, <1>4, <1>5 DEF Good

(* What every step keeps, with leases only for workers that owed nothing.      *)
Stepped(d, e) ==
  /\ Kept(d, e)
  /\ \A r \in Requests : \A n \in NodesOf[r.project] :
       \/ DOMAIN e.lease[r][n] = DOMAIN d.lease[r][n]
       \/ ~WorkerHasDebt(d, Newest(e.lease[r][n]).worker)

(* What a transaction on d may leave.                                          *)
Transacts(d, e) == Sound(e) /\ (e.err \/ Stepped(d, e))

(* Settling a database takes no debt away.                                     *)
LEMMA DebtStays ==
  ASSUME NEW d, NEW e, Settled(d, e), NEW w, WorkerHasDebt(d, w)
  PROVE  WorkerHasDebt(e, w)
<1>1. PICK r \in Requests : \E n \in NodesOf[r.project] : \E g \in DOMAIN d.lease[r][n] :
        d.lease[r][n][g].worker = w /\ HasDebt(d.lease[r][n][g])
  BY DEF WorkerHasDebt
<1>2. PICK n \in NodesOf[r.project] : \E g \in DOMAIN d.lease[r][n] :
        d.lease[r][n][g].worker = w /\ HasDebt(d.lease[r][n][g])
  BY <1>1
<1>3. PICK g \in DOMAIN d.lease[r][n] :
        d.lease[r][n][g].worker = w /\ HasDebt(d.lease[r][n][g])
  BY <1>2
<1>4. SettledLeases(d.lease[r][n], e.lease[r][n])
  BY DEF Settled, SettledRow
<1>5. g \in DOMAIN e.lease[r][n] /\ e.lease[r][n][g].worker = w /\ HasDebt(e.lease[r][n][g])
  BY <1>3, <1>4 DEF SettledLeases, SettledLease, HasDebt
<1> QED
  BY <1>5 DEF WorkerHasDebt

(* A transaction that gives no lease out, after the expiry.                    *)
LEMMA KeepsTransacts ==
  ASSUME NEW d, Good(d), NEW e, Good(e), Settled(d, e), NEW x, Keeps(e, x)
  PROVE  Transacts(d, x)
<1>1. CASE x.err
  <2>1. Sound(x)
    BY DEF Keeps
  <2> QED
    BY <1>1, <2>1, Zenon DEF Transacts
<1>2. CASE ~x.err
  <2>1. Sound(x) /\ Kept(e, x) /\ NoGrant(e, x)
    BY <1>2 DEF Keeps
  <2>2. Kept(d, x)
    BY <2>1, SettledThenKept
  <2>3. NoGrant(d, e)
    BY SettledIsKept
  <2>4. Stepped(d, x)
    BY <2>1, <2>2, <2>3 DEF Stepped, NoGrant
  <2> QED
    BY <2>1, <2>4 DEF Transacts
<1> QED
  BY <1>1, <1>2

(* A transaction that no worker takes part in.                                 *)
LEMMA SettlesTransacts ==
  ASSUME NEW d, NEW x, Settles(d, x)
  PROVE  Transacts(d, x)
<1>1. CASE x.err
  <2>1. Sound(x)
    BY DEF Settles
  <2> QED
    BY <1>1, <2>1, Zenon DEF Transacts
<1>2. CASE ~x.err
  <2>1. Sound(x) /\ Settled(d, x)
    BY <1>2 DEF Settles
  <2>2. Stepped(d, x)
    BY <2>1, SettledIsKept DEF Stepped, NoGrant
  <2> QED
    BY <2>1, <2>2 DEF Transacts
<1> QED
  BY <1>1, <1>2

(* A claim, after the expiry: no worker with a debt is given a lease.          *)
LEMMA ClaimTransacts ==
  ASSUME NEW d, Good(d), NEW e, Good(e), Settled(d, e), NEW w \in Workers,
         NEW x \in ClaimTransaction(e, w)
  PROVE  Transacts(d, x)
<1>1. /\ Sound(x) /\ (x.err \/ Grants(e, x, w))
      /\ WorkerHasDebt(e, w) => NoGrant(e, x)
  BY ClaimIsSound
<1>2. CASE x.err
  BY <1>1, <1>2, Zenon DEF Transacts
<1>3. CASE ~x.err
  <2>1. Grants(e, x, w)
    BY <1>1, <1>3
  <2>2. Kept(d, x)
    BY <2>1, SettledThenKept DEF Grants
  <2>3. NoGrant(d, e)
    BY SettledIsKept
  <2>4. ASSUME NEW r \in Requests, NEW n \in NodesOf[r.project],
               DOMAIN x.lease[r][n] # DOMAIN d.lease[r][n]
        PROVE  ~WorkerHasDebt(d, Newest(x.lease[r][n]).worker)
    <3>1. DOMAIN x.lease[r][n] # DOMAIN e.lease[r][n]
      BY <2>3, <2>4 DEF NoGrant
    <3>2. Newest(x.lease[r][n]).worker = w
      BY <2>1, <3>1 DEF Grants
    <3>3. ~WorkerHasDebt(e, w)
      BY <1>1, <3>1 DEF NoGrant
    <3> QED
      BY <3>2, <3>3, DebtStays
  <2>5. Stepped(d, x)
    BY <2>2, <2>4 DEF Stepped
  <2> QED
    BY <1>1, <2>5 DEF Transacts
<1> QED
  BY <1>2, <1>3

(* What a transaction commits is sound.                                        *)
LEMMA CommittedIsGood ==
  ASSUME NEW d, NEW S, \A x \in S : Transacts(d, x), db' \in Committed(S)
  PROVE  Good(db') /\ Stepped(d, db')
BY DEF Committed, Sound, Transacts

(* Every call leaves a sound database and keeps what was done.                 *)
LEMMA NextKeepsGood ==
  ASSUME Good(db), [Next]_db
  PROVE  Good(db') /\ Stepped(db, db')
<1>1. PICK d : d = db
  OBVIOUS
<1>2. Good(d) /\ \A e \in Expired(d) : Good(e) /\ Settled(d, e)
  BY <1>1, ExpiredIsGood
<1> DEFINE Fine == Good(db') /\ Stepped(d, db')
<1>3. ASSUME NEW dl \in Deliveries, Admit(dl) PROVE Fine
  <2>1. db' \in Committed({AdmitTransaction(d, dl)})
    BY <1>1, <1>3 DEF Admit
  <2>2. Transacts(d, AdmitTransaction(d, dl))
    BY <1>2, AdmitIsSound, SettlesTransacts
  <2> QED
    BY <2>1, <2>2, CommittedIsGood
<1>4. ASSUME ExpireLeases PROVE Fine
  <2>1. db' \in Committed(Expired(d))
    BY <1>1, <1>4 DEF ExpireLeases, ExpiryOutcomes
  <2>2. ASSUME NEW e \in Expired(d) PROVE Transacts(d, e)
    <3>1. Sound(e) /\ Settled(d, e)
      BY <1>2, GoodIsSound
    <3>2. Settles(d, e)
      BY <3>1 DEF Settles
    <3> QED
      BY <3>2, SettlesTransacts
  <2> QED
    BY <2>1, <2>2, CommittedIsGood
<1>5. ASSUME NEW w \in Workers, ClaimNext(w) PROVE Fine
  <2>1. PICK S : S = UNION {ClaimTransaction(e, w) : e \in {x \in Expired(d) : PollAnswers(x)}}
    OBVIOUS
  <2>2. db' \in Committed(S)
    BY <1>1, <1>5, <2>1 DEF ClaimNext, ClaimOutcomes
  <2>3. ASSUME NEW x \in S PROVE Transacts(d, x)
    <3>1. PICK e \in Expired(d) : x \in ClaimTransaction(e, w)
      BY <2>1
    <3> QED
      BY <1>2, <3>1, ClaimTransacts
  <2> QED
    BY <2>2, <2>3, CommittedIsGood
<1>6. ASSUME NEW r \in Requests, NEW n \in NodesOf[r.project], RenewLease(r, n)
      PROVE  Fine
  <2>1. PICK S : S = {RenewTransaction(e, r, n) : e \in Expired(d)}
    OBVIOUS
  <2>2. db' \in Committed(S)
    BY <1>1, <1>6, <2>1 DEF RenewLease
  <2>3. ASSUME NEW x \in S PROVE Transacts(d, x)
    <3>1. PICK e \in Expired(d) : x = RenewTransaction(e, r, n)
      BY <2>1
    <3>2. Keeps(e, x)
      BY <1>2, <3>1, RenewIsSound
    <3> QED
      BY <1>2, <3>2, KeepsTransacts
  <2> QED
    BY <2>2, <2>3, CommittedIsGood
<1>7. ASSUME NEW r \in Requests, NEW n \in NodesOf[r.project],
             NEW outcome \in {"succeeded", "failed"}, NEW pending \in BOOLEAN,
             CommitNodeReceipt(r, n, outcome, pending)
      PROVE  Fine
  <2>1. PICK S : S = {ReceiptTransaction(e, r, n, outcome, pending) : e \in Expired(d)}
    OBVIOUS
  <2>2. db' \in Committed(S)
    BY <1>1, <1>7, <2>1 DEF CommitNodeReceipt
  <2>3. ASSUME NEW x \in S PROVE Transacts(d, x)
    <3>1. PICK e \in Expired(d) : x = ReceiptTransaction(e, r, n, outcome, pending)
      BY <2>1
    <3>2. Keeps(e, x)
      BY <1>2, <3>1, ReceiptIsSound
    <3> QED
      BY <1>2, <3>2, KeepsTransacts
  <2> QED
    BY <2>2, <2>3, CommittedIsGood
<1>8. ASSUME NEW r \in Requests, NEW n \in NodesOf[r.project], NEW g,
             CommitCleanupReceipt(r, n, g)
      PROVE  Fine
  <2>1. g \in DOMAIN d.lease[r][n] /\ db' \in Committed({CleanupTransaction(d, r, n, g)})
    BY <1>1, <1>8 DEF CommitCleanupReceipt
  <2>2. Keeps(d, CleanupTransaction(d, r, n, g)) /\ Settled(d, d)
    BY <1>2, <2>1, CleanupIsSound, SettledSame
  <2>3. Transacts(d, CleanupTransaction(d, r, n, g))
    BY <1>2, <2>2, KeepsTransacts
  <2> QED
    BY <2>1, <2>3, CommittedIsGood
<1>9. ASSUME NEW r \in Requests, ReduceAttempt(r) PROVE Fine
  <2>1. PICK S : S = {ReduceTransaction(e, r) : e \in {x \in Expired(d) : r \in Reducible(x)}}
    OBVIOUS
  <2>2. db' \in Committed(S)
    BY <1>1, <1>9, <2>1 DEF ReduceAttempt, ReductionOutcomes
  <2>3. ASSUME NEW x \in S PROVE Transacts(d, x)
    <3>1. PICK e \in Expired(d) : x = ReduceTransaction(e, r)
      BY <2>1
    <3>2. Keeps(e, x)
      BY <1>2, <3>1, ReduceIsSound
    <3> QED
      BY <1>2, <3>2, KeepsTransacts
  <2> QED
    BY <2>2, <2>3, CommittedIsGood
<1>10. ASSUME Tick PROVE Fine
  BY <1>1, <1>10, TickKeepsGood DEF Stepped, NoGrant
<1>11. ASSUME UNCHANGED db PROVE Fine
  BY <1>1, <1>2, <1>11, SameIsKept DEF Stepped
<1> HIDE DEF Fine
<1>12. Fine
  BY <1>3, <1>4, <1>5, <1>6, <1>7, <1>8, <1>9, <1>10, <1>11, Zenon DEF Next
<1> QED
  BY <1>1, <1>12 DEF Fine

(* What holds in every state of the scheduler.                                  *)
DatabaseSound == Good(db)

(* The database is sound in every state: the inductive invariant.              *)
THEOREM DatabaseStaysSound == Spec => []DatabaseSound
<1>1. Init => DatabaseSound
  BY EmptyIsGood DEF Init, DatabaseSound
<1>2. DatabaseSound /\ [Next]_db => DatabaseSound'
  BY NextKeepsGood DEF DatabaseSound
<1> QED
  BY <1>1, <1>2, PTL DEF Spec

(* Leases follow their nodes.                                                  *)
LEMMA GoodLeases ==
  ASSUME Good(db)
  PROVE  SchedulerTypeOK /\ LeasesFollowNodes
<1>1. PICK d : d = db
  OBVIOUS
<1>2. Shape(d) /\ ~d.err /\ \A r \in Requests : RowOK(d, r)
  BY <1>1 DEF Good
<1>3. ASSUME NEW r \in Requests
      PROVE  /\ d.request[r] \in RequestStates /\ d.attempt[r] \in AttemptStates
             /\ d.mutation[r] \in MutationStates /\ d.cleanup[r] \in {"complete", "pending"}
  BY <1>2 DEF RowOK, RowSound, ColumnsSound
<1>4. /\ d.request \in [Requests -> RequestStates] /\ d.attempt \in [Requests -> AttemptStates]
      /\ d.mutation \in [Requests -> MutationStates]
      /\ d.cleanup \in [Requests -> {"complete", "pending"}]
  <2>1. /\ d.request = [r \in Requests |-> d.request[r]]
        /\ d.attempt = [r \in Requests |-> d.attempt[r]]
        /\ d.mutation = [r \in Requests |-> d.mutation[r]]
        /\ d.cleanup = [r \in Requests |-> d.cleanup[r]]
    BY <1>2, Zenon DEF Shape
  <2> QED
    BY <1>3, <2>1
<1>5. ASSUME NEW t \in Steps
      PROVE  /\ d.node[t[1]][t[2]] \in NodeStates
             /\ d.lease[t[1]][t[2]] \in Seq(LeaseRows)
             /\ \A g \in DOMAIN d.lease[t[1]][t[2]] :
                  d.lease[t[1]][t[2]][g].state = "active" => g = Len(d.lease[t[1]][t[2]])
             /\ Runs(d.lease[t[1]][t[2]]) <=> d.node[t[1]][t[2]] = "leased"
             /\ d.attempt[t[1]] \in Over => d.node[t[1]][t[2]] \notin LiveNodeStates
  <2>1. t[1] \in Requests /\ t[2] \in NodesOf[t[1].project]
    BY DEF Steps
  <2>2. NodeSound(t[2], d.node[t[1]][t[2]], d.lease[t[1]][t[2]])
    BY <1>2, <2>1 DEF RowOK, RowSound, NodesSound
  <2>3. d.attempt[t[1]] \in Over => d.node[t[1]][t[2]] \notin LiveNodeStates
    BY <1>2, <2>1 DEF RowOK, RowSound, AttemptSound
  <2> QED
    BY <2>2, <2>3 DEF NodeSound
<1>6. SchedulerTypeOK
  <2>1. \A t \in Steps : \A g \in DOMAIN d.lease[t[1]][t[2]] : d.lease[t[1]][t[2]][g] \in LeaseRows
    BY <1>5
  <2> QED
    BY <1>1, <1>2, <1>4, <1>5, <2>1 DEF SchedulerTypeOK
<1>7. LeasesFollowNodes
  BY <1>1, <1>5 DEF LeasesFollowNodes, IsActive, Current, Runs, Newest, Over
<1> QED
  BY <1>6, <1>7

(* One delivery per project, and the lock and the mutation agree.              *)
LEMMA GoodLocks ==
  ASSUME Good(db)
  PROVE  SingleFlight /\ LockAgrees
<1>1. PICK d : d = db
  OBVIOUS
<1>2. (\A r \in Requests : RowOK(d, r) /\ LockedOK(d, r)) /\ OneFresh(d)
  BY <1>1 DEF Good
<1>3. ASSUME NEW t \in Steps
      PROVE  /\ Exclusive(t[1], t[2]) /\ d.node[t[1]][t[2]] = "leased"
                   => d.lock[t[1].project] = [owner |-> t[1], state |-> "held"]
             /\ t[1].mode = "deploy" /\ d.attempt[t[1]] \in {"queued", "running"}
                   => d.lock[t[1].project].owner \in {NoRequest, t[1]}
  <2>1. t[1] \in Requests /\ t[2] \in NodesOf[t[1].project]
    BY DEF Steps
  <2> QED
    BY <1>2, <2>1 DEF LockedOK, HoldsLock
<1>4. SingleFlight
  BY <1>1, <1>2, <1>3 DEF SingleFlight, OneFresh, Fresh
<1>5. LockAgrees
  <2>1. ASSUME NEW r \in Requests
        PROVE  /\ d.mutation[r] \in {"owned", "needs_reconcile"} <=> d.lock[r.project].owner = r
               /\ d.mutation[r] = "needs_reconcile" <=>
                    d.lock[r.project] = [owner |-> r, state |-> "needs_reconcile"]
               /\ d.mutation[r] = "needs_reconcile" <=> d.attempt[r] = "needs_reconcile"
    <3>1. HoldsLock(r, d.attempt[r], d.mutation[r], d.node[r], d.lock[r.project])
      BY <1>2 DEF LockedOK
    <3>2. ColumnsSound(d.request[r], d.attempt[r], d.mutation[r], d.cleanup[r])
      BY <1>2 DEF RowOK, RowSound
    <3> QED
      BY <3>1, <3>2 DEF HoldsLock, ColumnsSound
  <2> QED
    BY <1>1, <2>1 DEF LockAgrees
<1> QED
  BY <1>4, <1>5

(* Nothing is delivered unverified.                                            *)
LEMMA GoodIsVerified ==
  ASSUME Good(db)
  PROVE  VerifiedBeforeMutation
<1>1. PICK d : d = db
  OBVIOUS
<1>2. ASSUME NEW t \in Steps, Exclusive(t[1], t[2]), d.lease[t[1]][t[2]] # << >>
      PROVE  /\ \A v \in Verifications(t[1].project) : Current(d, t[1], v).state = "committed"
             /\ ~Handoff(t[1].project) => /\ d.node[t[1]]["reduce"] = "succeeded"
                                          /\ Current(d, t[1], "build").state = "committed"
  <2>1. PICK r, n : r \in Requests /\ n \in NodesOf[r.project] /\ r = t[1] /\ n = t[2]
    BY DEF Steps
  <2>2. PICK nd, ls : nd = d.node[r] /\ ls = d.lease[r]
    OBVIOUS
  <2>3. NodesSound(r.project, nd, ls) /\ DependenciesDone(r.project, nd, ls)
    BY <1>1, <2>1, <2>2 DEF Good, RowOK, RowSound
  <2>4. n # "rollback" /\ ls[n] # << >> /\ Exclusive(r, n)
    BY <1>2, <2>1, <2>2, <2>3 DEF NodesSound, NodeSound
  <2>5. /\ \A v \in Verifications(r.project) : nd[v] = "succeeded"
        /\ ~Handoff(r.project) => nd["reduce"] = "succeeded" /\ nd["build"] = "succeeded"
    BY <2>1, <2>3, <2>4, ExclusiveIsVerified
  <2>6. /\ {"prepare", "build", "reduce"} \cup Verifications(r.project) \subseteq NodesOf[r.project]
        /\ "reduce" \notin Verifications(r.project)
    BY <2>1, RequestFacts, GraphFacts, PolicyAssumption
  <2>7. \A m \in NodesOf[r.project] : nd[m] = "succeeded" /\ m # "reduce" =>
          Newest(ls[m]).state = "committed"
    BY <2>3 DEF NodesSound, NodeSound
  <2> QED
    BY <2>1, <2>2, <2>5, <2>6, <2>7 DEF Current, Newest
<1> QED
  BY <1>1, <1>2 DEF VerifiedBeforeMutation

(* Compiled state stays on its host and a shadow run leaves no trace.          *)
LEMMA GoodIsShared ==
  ASSUME Good(db)
  PROVE  SharingSafety
<1>1. PICK d : d = db
  OBVIOUS
<1>2. ASSUME NEW r \in Requests, NEW w \in Workers, VpsCapable(w)
      PROVE  Cardinality({n \in Active(d, r) : /\ Current(d, r, n).worker = w
                                               /\ Current(d, r, n).shared}) <= 1
  <2>1. PICK S : S = {n \in Active(d, r) : Current(d, r, n).worker = w /\ Current(d, r, n).shared}
    OBVIOUS
  <2>2. ASSUME NEW n \in S, NEW m \in S PROVE n = m
    <3>1. SharedSound(r, d.lease[r], d.bound[r])
      BY <1>1 DEF Good, RowOK, RowSound
    <3>2. /\ n \in NodesOf[r.project] /\ Runs(d.lease[r][n]) /\ Newest(d.lease[r][n]).worker = w
          /\ Newest(d.lease[r][n]).shared
          /\ m \in NodesOf[r.project] /\ Runs(d.lease[r][m]) /\ Newest(d.lease[r][m]).worker = w
          /\ Newest(d.lease[r][m]).shared
      BY <2>1 DEF Active, IsActive, Current, Runs, Newest
    <3> QED
      BY <1>2, <3>1, <3>2 DEF SharedSound
  <2>3. CASE S = {}
    BY <2>1, <2>3, FS_EmptySet
  <2>4. CASE S # {}
    <3>1. PICK n : S = {n}
      BY <2>2, <2>4
    <3>2. Cardinality({n}) = 1
      BY FS_Singleton, Zenon
    <3> QED
      BY <2>1, <3>1, <3>2
  <2> QED
    BY <2>3, <2>4
<1>3. ASSUME NEW r \in Requests, Policy[r.project].serial, d.lease[r]["build"] # << >>,
             NEW v \in Verifications(r.project)
      PROVE  Current(d, r, v).worker = Current(d, r, "build").worker
  <2>1. PICK p \in Projects : p = r.project
    BY RequestFacts
  <2>2. {"prepare", "build", "reduce"} \cup Verifications(p) \subseteq NodesOf[p]
    BY GraphFacts
  <2>3. PICK nd, ls, b : nd = d.node[r] /\ ls = d.lease[r] /\ b = d.bound[r]
    OBVIOUS
  <2>4. NodesSound(p, nd, ls) /\ DependenciesDone(p, nd, ls) /\ SharedSound(r, ls, b)
    BY <1>1, <2>1, <2>3 DEF Good, RowOK, RowSound
  <2>5. v \in Dependencies(p, "build") /\ v # "reduce"
    BY <1>3, <2>1, PolicyAssumption DEF Dependencies
  <2>6. nd[v] = "succeeded"
    BY <1>3, <2>2, <2>3, <2>4, <2>5 DEF DependenciesDone
  <2>7. ls[v] # << >> /\ ls[v] \in Seq(LeaseRows) /\ ls["build"] \in Seq(LeaseRows)
    BY <1>3, <2>1, <2>2, <2>4, <2>5, <2>6 DEF NodesSound, NodeSound
  <2>8. Len(ls[v]) \in DOMAIN ls[v] /\ Len(ls["build"]) \in DOMAIN ls["build"]
    BY <1>3, <2>3, <2>7
  <2>9. UsesOperationState(p, v) /\ UsesOperationState(p, "build")
    BY <1>3, <2>1 DEF UsesOperationState
  <2>10. /\ ls[v][Len(ls[v])].worker = b.worker
         /\ ls["build"][Len(ls["build"])].worker = b.worker
    BY <1>3, <2>1, <2>2, <2>4, <2>8, <2>9 DEF SharedSound
  <2> QED
    BY <2>3, <2>10 DEF Current
<1>4. StateStaysOnItsHost
  BY <1>1, <1>2, <1>3 DEF StateStaysOnItsHost
<1>5. ASSUME NEW r \in Requests, r.mode = "shadow"
      PROVE  /\ d.mutation[r] = "not_started" /\ d.lock[r.project].owner # r
             /\ \A n \in NodesOf[r.project] : d.lease[r][n] # << >> => ShadowExecutes(r.project, n)
  <2>1. RowOK(d, r) /\ LockedOK(d, r)
    BY <1>1 DEF Good
  <2> QED
    BY <1>5, <2>1 DEF RowOK, RowSound, AttemptSound, LockedOK, HoldsLock
<1>6. ShadowLeavesNoTrace
  BY <1>1, <1>5 DEF ShadowLeavesNoTrace
<1> QED
  BY <1>4, <1>6 DEF SharingSafety

(* In every state of the scheduler, for any projects, policies, workers and    *)
(* admissions: an attempt that is over authorises no worker, an exclusive node *)
(* is leased only under the project's lock, the lock row and mutation_state    *)
(* agree, and nothing is delivered unverified.                                 *)
THEOREM SchedulerIsSafe == Spec => []SchedulerSafety
<1>1. DatabaseSound => SchedulerSafety
  BY GoodLeases, GoodLocks, GoodIsVerified DEF DatabaseSound, SchedulerSafety
<1> QED
  BY <1>1, DatabaseStaysSound, PTL

(* In every state compiled state is used by one node at a time on its host,    *)
(* a release build runs where its verified output is, and a shadow run holds   *)
(* no lock and leased no node that changes the project.                        *)
THEOREM SharingIsSafe == Spec => []SharingSafety
<1>1. DatabaseSound => SharingSafety
  BY GoodIsShared DEF DatabaseSound
<1> QED
  BY <1>1, DatabaseStaysSound, PTL

(* A step from a sound database to a sound one that keeps what it must.        *)
LEMMA SteppedIsSafe ==
  ASSUME NEW d, Good(d), NEW e, Good(e), Stepped(d, e)
  PROVE  /\ \A t \in Steps : Len(e.lease[t[1]][t[2]]) > Len(d.lease[t[1]][t[2]])
              => ~WorkerHasDebt(d, Current(e, t[1], t[2]).worker)
         /\ \A r \in Requests : d.mutation[r] # "not_started"
              => e.attempt[r] \notin {"superseded", "failed"} /\ e.mutation[r] # "not_started"
         /\ \A t \in Steps :
              /\ d.node[t[1]][t[2]] = "succeeded" => e.node[t[1]][t[2]] = "succeeded"
              /\ \A g \in DOMAIN d.lease[t[1]][t[2]] :
                   d.lease[t[1]][t[2]][g].state # "active" =>
                     e.lease[t[1]][t[2]][g].state = d.lease[t[1]][t[2]][g].state
              /\ /\ t[2] # "reduce" /\ d.node[t[1]][t[2]] # "succeeded"
                 /\ e.node[t[1]][t[2]] = "succeeded"
                 => IsActive(d, t[1], t[2]) /\ Current(d, t[1], t[2]).expires > 0
<1>1. ASSUME NEW t \in Steps, Len(e.lease[t[1]][t[2]]) > Len(d.lease[t[1]][t[2]])
      PROVE  ~WorkerHasDebt(d, Current(e, t[1], t[2]).worker)
  <2>1. PICK r, n : r \in Requests /\ n \in NodesOf[r.project] /\ r = t[1] /\ n = t[2]
    BY DEF Steps
  <2>2. PICK s, u : s = d.lease[r][n] /\ u = e.lease[r][n]
    OBVIOUS
  <2>3. s \in Seq(LeaseRows) /\ u \in Seq(LeaseRows) /\ Len(u) > Len(s)
    BY <1>1, <2>1, <2>2 DEF Good, RowOK, RowSound, NodesSound, NodeSound
  <2>4. DOMAIN u # DOMAIN s
    BY <2>3
  <2>5. ~WorkerHasDebt(d, Newest(u).worker)
    BY <2>1, <2>2, <2>4 DEF Stepped
  <2> QED
    BY <2>1, <2>2, <2>5 DEF Current, Newest
<1>2. ASSUME NEW r \in Requests, d.mutation[r] # "not_started"
      PROVE  e.attempt[r] \notin {"superseded", "failed"} /\ e.mutation[r] # "not_started"
  <2>1. e.mutation[r] # "not_started"
    BY <1>2 DEF Stepped, Kept, KeptRow
  <2>2. ColumnsSound(e.request[r], e.attempt[r], e.mutation[r], e.cleanup[r])
    BY DEF Good, RowOK, RowSound
  <2> QED
    BY <2>1, <2>2 DEF ColumnsSound, MutationStates
<1>3. ASSUME NEW t \in Steps
      PROVE  /\ d.node[t[1]][t[2]] = "succeeded" => e.node[t[1]][t[2]] = "succeeded"
             /\ \A g \in DOMAIN d.lease[t[1]][t[2]] :
                  d.lease[t[1]][t[2]][g].state # "active" =>
                    e.lease[t[1]][t[2]][g].state = d.lease[t[1]][t[2]][g].state
             /\ /\ t[2] # "reduce" /\ d.node[t[1]][t[2]] # "succeeded"
                /\ e.node[t[1]][t[2]] = "succeeded"
                => IsActive(d, t[1], t[2]) /\ Current(d, t[1], t[2]).expires > 0
  <2>1. PICK r, n : r \in Requests /\ n \in NodesOf[r.project] /\ r = t[1] /\ n = t[2]
    BY DEF Steps
  <2>2. /\ d.node[r][n] = "succeeded" => e.node[r][n] = "succeeded"
        /\ d.node[r][n] # "succeeded" /\ e.node[r][n] = "succeeded" =>
             n = "reduce" \/ InTime(d.lease[r][n])
        /\ KeptLeases(d.lease[r][n], e.lease[r][n])
    BY <2>1 DEF Stepped, Kept, KeptRow
  <2>3. InTime(d.lease[r][n]) => IsActive(d, r, n) /\ Current(d, r, n).expires > 0
    BY DEF InTime, Runs, Newest, IsActive, Current
  <2> QED
    BY <2>1, <2>2, <2>3 DEF KeptLeases
<1> QED
  BY <1>1, <1>2, <1>3

(* No transaction, in any order of calls and expiries, for any projects,       *)
(* policies, workers and admissions, leases a node to a worker that owes a     *)
(* cleanup receipt, abandons a mutation that began, lets a node succeed        *)
(* outside its running lease or lets a late call change a closed lease.        *)
THEOREM StepsAreSafe == Spec => SchedulerSteps
<1>1. DatabaseSound /\ DatabaseSound' /\ [Next]_db =>
        /\ [\A t \in Steps : Len(db'.lease[t[1]][t[2]]) > Len(db.lease[t[1]][t[2]])
              => ~WorkerHasDebt(db, Current(db', t[1], t[2]).worker)]_db
        /\ [\A r \in Requests : db.mutation[r] # "not_started"
              => db'.attempt[r] \notin {"superseded", "failed"} /\ db'.mutation[r] # "not_started"]_db
        /\ [\A t \in Steps :
              LET before == db.lease[t[1]][t[2]]
              IN /\ db.node[t[1]][t[2]] = "succeeded" => db'.node[t[1]][t[2]] = "succeeded"
                 /\ \A g \in DOMAIN before :
                       before[g].state # "active" => db'.lease[t[1]][t[2]][g].state = before[g].state
                 /\ /\ t[2] # "reduce" /\ db.node[t[1]][t[2]] # "succeeded"
                    /\ db'.node[t[1]][t[2]] = "succeeded"
                    => IsActive(db, t[1], t[2]) /\ Current(db, t[1], t[2]).expires > 0]_db
  <2>1. SUFFICES ASSUME Good(db), Good(db'), Stepped(db, db')
                 PROVE  /\ \A t \in Steps : Len(db'.lease[t[1]][t[2]]) > Len(db.lease[t[1]][t[2]])
                             => ~WorkerHasDebt(db, Current(db', t[1], t[2]).worker)
                        /\ \A r \in Requests : db.mutation[r] # "not_started"
                             => db'.attempt[r] \notin {"superseded", "failed"} /\ db'.mutation[r] # "not_started"
                        /\ \A t \in Steps :
                             /\ db.node[t[1]][t[2]] = "succeeded" => db'.node[t[1]][t[2]] = "succeeded"
                             /\ \A g \in DOMAIN db.lease[t[1]][t[2]] :
                                  db.lease[t[1]][t[2]][g].state # "active" =>
                                    db'.lease[t[1]][t[2]][g].state = db.lease[t[1]][t[2]][g].state
                             /\ /\ t[2] # "reduce" /\ db.node[t[1]][t[2]] # "succeeded"
                                /\ db'.node[t[1]][t[2]] = "succeeded"
                                => IsActive(db, t[1], t[2]) /\ Current(db, t[1], t[2]).expires > 0
    BY NextKeepsGood DEF DatabaseSound
  <2> QED
    BY <2>1, SteppedIsSafe
<1> QED
  BY <1>1, DatabaseStaysSound, PTL DEF Spec, SchedulerSteps, CleanBeforeReuse,
     MutationIsNeverAbandoned, ReceiptsCountOnce
================================================================================
