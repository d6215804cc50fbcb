---------------------------- MODULE SelfUpdateProofs ----------------------------
(* A release never runs on the state of a newer one, for any set of releases,  *)
(* services and databases and any number of faults.                            *)
EXTENDS SelfUpdate, SequenceTheorems, TLAPS

(* Release r is b or was built before it.                                      *)
NotNewer(r, b) == r \in Releases /\ b \in Releases /\ (r = b \/ SourceSeq[r] < SourceSeq[b])

(* The commands a phase is made of, and the shapes of journal and process.     *)
Cmds ==
  ({"stop", "start"} \X Svcs) \cup ({"copy", "restore"} \X Dbs)
    \cup ({"link", "lkg"} \X Releases) \cup {<<"fresh">>, <<"receipt">>, <<"health">>}

UpdatePhases == {"backup", "switch", "start", "health", "commit", "rollback", "rollback_health"}
UpdateRecords ==
  [cand : Releases, prev : Releases, phase : UpdatePhases \cup Terminal, backup : BOOLEAN]

SelfShapes ==
  /\ records \in Seq(UpdateRecords)
  /\ su = [job |-> su.job, op |-> su.op, todo |-> su.todo, goal |-> su.goal]
  /\ su.todo \in Seq(Cmds)
  /\ current \in Releases \cup {NoRelease} /\ lkg \in Releases \cup {NoRelease}
  /\ running \in [Svcs -> Releases \cup {NoRelease}]
  /\ wrote \in [Dbs -> SUBSET Releases]
  /\ backups \in [Releases -> [state : {"none", "partial", "sealed"}, copy : [Dbs -> SUBSET Releases]]]
  /\ supervisor => current # NoRelease

(* An operation that is not over: there is one at most, the link names its     *)
(* candidate or the release before, and its phase says which.                  *)
UpdatePending(i) == i \in 1..Len(records) /\ records[i].phase \notin {"succeeded", "rolled_back"}

RecordInv(i) ==
  /\ SourceSeq[records[i].prev] < SourceSeq[records[i].cand]
  /\ current \in {records[i].prev, records[i].cand}
  /\ records[i].phase \in {"backup", "rollback_health"} => current = records[i].prev
  /\ records[i].phase \in {"start", "health", "commit"} => current = records[i].cand

PendingInv ==
  /\ \A i, j \in 1..Len(records) : UpdatePending(i) /\ UpdatePending(j) => i = j
  /\ \A i \in 1..Len(records) : UpdatePending(i) => RecordInv(i)

(* What the databases and every backup hold: nothing newer than the link, and  *)
(* no backup has anything newer than what a pending operation may go back to.  *)
StateInv ==
  /\ \A s \in Svcs : running[s] \in {NoRelease, current}
  /\ \A d \in Dbs : \A r \in wrote[d] : NotNewer(r, current)
  /\ \A c \in Releases : \A d \in Dbs : \A r \in backups[c].copy[d] :
       /\ NotNewer(r, current)
       /\ \A i \in 1..Len(records) : UpdatePending(i) => NotNewer(r, records[i].prev)

(* The commands that are left: services are stopped before a link is switched, *)
(* and databases put back by then if it goes back.                             *)
StopsBefore(s, q, k) == running[s] = NoRelease \/ \E j \in 1..(k - 1) : q[j] = <<"stop", s>>

Restores(d, q, k) ==
  \E j \in 1..(k - 1) : q[j] = <<"restore", d>> /\ \A s \in Svcs : StopsBefore(s, q, j)

Fits(d, t) ==
  /\ \A r \in wrote[d] : NotNewer(r, t)
  /\ NotNewer(current, t) \/ \A s \in Svcs : running[s] = NoRelease

LinkSafe(q, k, t) ==
  /\ t = current \/ (/\ \A s \in Svcs : StopsBefore(s, q, k)
                     /\ \A j \in 1..(k - 1) : q[j][1] # "start")
  /\ \A d \in Dbs : Fits(d, t) \/ Restores(d, q, k)

LinksTo(q, t) ==
  /\ t \in Releases
  /\ \A k \in 1..Len(q) : q[k][1] = "link" => q[k] = <<"link", t>> /\ LinkSafe(q, k, t)

Without(q, cmd) == \A k \in 1..Len(q) : q[k][1] # cmd

LeadsTo(q, t) == current = t \/ \E k \in 1..Len(q) : q[k] = <<"link", t>>

RestartInv ==
  /\ \A i \in 1..Len(records) : ~UpdatePending(i)
  /\ LinksTo(su.todo, current) /\ Without(su.todo, "restore") /\ Without(su.todo, "copy")

UpdateInv(rec) ==
  /\ rec.phase \notin Terminal
  /\ su.goal = "none" => su.todo = <<>>
  /\ su.goal \in {"none", Good(rec.phase), "needs_reconcile", "rollback"}
  /\ rec.phase = "switch" => LinksTo(su.todo, rec.cand) /\ Without(su.todo, "restore")
  /\ rec.phase = "rollback" => LinksTo(su.todo, rec.prev)
  /\ rec.phase \notin {"switch", "rollback"} =>
       Without(su.todo, "link") /\ Without(su.todo, "restore")
  /\ rec.phase # "backup" => Without(su.todo, "copy")
  /\ rec.phase = "switch" /\ su.goal = "start" => LeadsTo(su.todo, rec.cand)
  /\ rec.phase = "rollback" /\ su.goal = "rollback_health" => LeadsTo(su.todo, rec.prev)

RestoreInv(rec) ==
  /\ rec.phase = "needs_reconcile" /\ su.goal = "rolled_back"
  /\ LinksTo(su.todo, rec.prev) /\ LeadsTo(su.todo, rec.prev) /\ Without(su.todo, "copy")

WorkInv ==
  \/ su.job = "idle" /\ su.todo = <<>>
  \/ su.job = "restart" /\ RestartInv
  \/ su.job = "update" /\ UpdatePending(su.op) /\ UpdateInv(records[su.op])
  \/ su.job = "restore" /\ UpdatePending(su.op) /\ RestoreInv(records[su.op])

SelfInv == SelfShapes /\ PendingInv /\ StateInv /\ WorkInv

--------------------------------------------------------------------------------
(* The programs of the phases.                                                 *)

(* A program that stops all services, then switches the link to t, and puts    *)
(* the databases back in between if it goes back.                              *)
StopsAll(q, k) == \A s \in Svcs : \E j \in 1..(k - 1) : q[j] = <<"stop", s>>

Switches(q, t, back) ==
  /\ q \in Seq(Cmds)
  /\ \E k \in 1..Len(q) : q[k] = <<"link", t>>
  /\ \A k \in 1..Len(q) : q[k][1] = "link" =>
       /\ q[k] = <<"link", t>> /\ StopsAll(q, k)
       /\ \A j \in 1..(k - 1) : q[j][1] # "start"
       /\ back => \A d \in Dbs : \E j \in 1..(k - 1) : q[j] = <<"restore", d>> /\ StopsAll(q, j)
  /\ Without(q, "copy") /\ (~back => Without(q, "restore"))

(* The lists of commands, one for each service or database.                    *)
LEMMA StopList ==
  /\ StopAll \in Seq(Cmds) /\ Len(StopAll) \in Nat
  /\ \A k \in 1..Len(StopAll) : StopAll[k][1] = "stop"
  /\ \A s \in Svcs : \E k \in 1..Len(StopAll) : StopAll[k] = <<"stop", s>>
<1>1. PICK n \in Nat : n = Len(Services) /\ DOMAIN Services = 1..n
  BY SelfUpdateAssumption
<1>2. PICK q : q = [i \in 1..n |-> <<"stop", Services[i]>>]
  OBVIOUS
<1>3. \A i \in 1..n : q[i] \in Cmds
  BY <1>1, <1>2 DEF Cmds, Svcs
<1>4. q \in Seq(Cmds) /\ Len(q) = n
  BY <1>2, <1>3
<1>5. PICK p : p = StopAll
  OBVIOUS
<1>6. p = Reverse(q)
  BY <1>1, <1>2, <1>5 DEF StopAll
<1>7. p = [i \in 1..n |-> q[n - i + 1]]
  BY <1>4, <1>6 DEF Reverse
<1>8. \A i \in 1..n : n - i + 1 \in 1..n
  OBVIOUS
<1>9. p \in Seq(Cmds) /\ Len(p) = n
  BY <1>3, <1>7, <1>8
<1>10. \A k \in 1..n : p[k] = <<"stop", Services[n - k + 1]>>
  BY <1>2, <1>7, <1>8
<1>11. ASSUME NEW s \in Svcs PROVE \E k \in 1..n : p[k] = <<"stop", s>>
  <2>1. PICK i \in 1..n : s = Services[i]
    BY <1>1 DEF Svcs
  <2>2. n - i + 1 \in 1..n /\ n - (n - i + 1) + 1 = i
    OBVIOUS
  <2> QED
    BY <1>10, <2>1, <2>2
<1> QED
  BY <1>5, <1>9, <1>10, <1>11

(* Starting every service.                                                     *)
LEMMA StartList ==
  /\ StartAll \in Seq(Cmds) /\ \A k \in 1..Len(StartAll) : StartAll[k][1] = "start"
<1>1. PICK n \in Nat : n = Len(Services) /\ DOMAIN Services = 1..n
  BY SelfUpdateAssumption
<1>2. \A i \in 1..n : <<"start", Services[i]>> \in Cmds
  BY <1>1 DEF Cmds, Svcs
<1> QED
  BY <1>1, <1>2 DEF StartAll

(* Copying every database.                                                     *)
LEMMA CopyList ==
  /\ CopyAll \in Seq(Cmds) /\ \A k \in 1..Len(CopyAll) : CopyAll[k][1] = "copy"
<1>1. PICK n \in Nat : n = Len(Databases) /\ DOMAIN Databases = 1..n
  BY SelfUpdateAssumption
<1>2. \A i \in 1..n : <<"copy", Databases[i]>> \in Cmds
  BY <1>1 DEF Cmds, Dbs
<1> QED
  BY <1>1, <1>2 DEF CopyAll

(* Putting every database back.                                                *)
LEMMA RestoreList ==
  /\ RestoreAll \in Seq(Cmds) /\ \A k \in 1..Len(RestoreAll) : RestoreAll[k][1] = "restore"
  /\ \A d \in Dbs : \E k \in 1..Len(RestoreAll) : RestoreAll[k] = <<"restore", d>>
<1>1. PICK n \in Nat : n = Len(Databases) /\ DOMAIN Databases = 1..n
  BY SelfUpdateAssumption
<1>2. \A i \in 1..n : <<"restore", Databases[i]>> \in Cmds
  BY <1>1 DEF Cmds, Dbs
<1>3. PICK p : p = RestoreAll
  OBVIOUS
<1>4. p = [i \in 1..n |-> <<"restore", Databases[i]>>]
  BY <1>1, <1>3 DEF RestoreAll
<1>5. p \in Seq(Cmds) /\ Len(p) = n /\ \A k \in 1..n : p[k] = <<"restore", Databases[k]>>
  BY <1>2, <1>4
<1>6. \A d \in Dbs : \E k \in 1..n : p[k] = <<"restore", d>>
  BY <1>1, <1>5 DEF Dbs
<1> QED
  BY <1>3, <1>5, <1>6

(* w is list p and then list q.                                                *)
JoinOf(p, q, w) ==
  /\ w \in Seq(Cmds) /\ Len(w) = Len(p) + Len(q)
  /\ \A k \in 1..Len(p) : k \in 1..Len(w) /\ w[k] = p[k]
  /\ \A k \in 1..Len(q) : Len(p) + k \in 1..Len(w) /\ w[Len(p) + k] = q[k]
  /\ \A k \in 1..Len(w) : k \in 1..Len(p) \/ \E j \in 1..Len(q) : k = Len(p) + j

(* That is what joining two lists gives.                                       *)
LEMMA Joined ==
  ASSUME NEW p \in Seq(Cmds), NEW q \in Seq(Cmds), NEW w, w = p \o q
  PROVE  JoinOf(p, q, w)
<1>1. w \in Seq(Cmds) /\ Len(w) = Len(p) + Len(q) /\ Len(p) \in Nat /\ Len(q) \in Nat
  OBVIOUS
<1>2. \A k \in 1..Len(p) : k \in 1..Len(w) /\ w[k] = p[k]
  BY <1>1
<1>3. \A k \in 1..Len(q) : Len(p) + k \in 1..Len(w) /\ w[Len(p) + k] = q[k]
  BY <1>1
<1>4. ASSUME NEW k \in 1..Len(w), k \notin 1..Len(p) PROVE \E j \in 1..Len(q) : k = Len(p) + j
  <2>1. k - Len(p) \in 1..Len(q) /\ k = Len(p) + (k - Len(p))
    BY <1>1, <1>4
  <2> QED
    BY <2>1
<1> QED
  BY <1>1, <1>2, <1>3, <1>4 DEF JoinOf

(* The link is the last of it.                                                 *)
LEMMA LinkLast ==
  ASSUME NEW p \in Seq(Cmds), Without(p, "link"), Without(p, "start"), Without(p, "copy"),
         StopsAll(p, Len(p) + 1), NEW back \in BOOLEAN,
         back => \A d \in Dbs : \E j \in 1..Len(p) : p[j] = <<"restore", d>> /\ StopsAll(p, j),
         ~back => Without(p, "restore"), NEW t \in Releases,
         NEW w, w = p \o <<<<"link", t>>>>
  PROVE  Switches(w, t, back)
<1>1. PICK n \in Nat : n = Len(p)
  OBVIOUS
<1>2. PICK q : q = <<<<"link", t>>>>
  OBVIOUS
<1>3. q \in Seq(Cmds) /\ Len(q) = 1 /\ q[1] = <<"link", t>>
  <2>1. <<"link", t>> \in Cmds
    BY DEF Cmds
  <2> QED
    BY <1>2, <2>1
<1>4. /\ w \in Seq(Cmds) /\ Len(w) = n + 1
      /\ \A k \in 1..n : w[k] = p[k]
      /\ w[n + 1] = <<"link", t>>
  BY <1>1, <1>2, <1>3, Joined DEF JoinOf
<1>5. \A k \in 1..(n + 1) : w[k][1] = "link" => k = n + 1
  BY <1>1, <1>4 DEF Without
<1>6. ASSUME NEW k \in 1..(n + 1), StopsAll(p, k) PROVE StopsAll(w, k)
  <2>1. \A j \in 1..(k - 1) : w[j] = p[j]
    BY <1>4
  <2> QED
    BY <1>6, <2>1 DEF StopsAll
<1>11. (n + 1) - 1 = n /\ n + 1 \in 1..(n + 1)
  OBVIOUS
<1>12. StopsAll(w, n + 1)
  BY <1>1, <1>6, <1>11
<1>7. StopsAll(w, n + 1) /\ \A j \in 1..((n + 1) - 1) : w[j][1] # "start"
  BY <1>1, <1>4, <1>11, <1>12 DEF Without
<1>8. ASSUME back, NEW d \in Dbs
      PROVE  \E j \in 1..((n + 1) - 1) : w[j] = <<"restore", d>> /\ StopsAll(w, j)
  <2>1. PICK j \in 1..n : p[j] = <<"restore", d>> /\ StopsAll(p, j)
    BY <1>1, <1>8
  <2>3. j \in 1..(n + 1)
    OBVIOUS
  <2>4. StopsAll(w, j)
    BY <1>6, <2>1, <2>3
  <2>2. w[j] = <<"restore", d>> /\ StopsAll(w, j) /\ j \in 1..((n + 1) - 1)
    BY <1>4, <1>11, <2>1, <2>4
  <2> QED
    BY <2>2
<1>9. ASSUME NEW cmd \in {"copy", "restore"}, Without(p, cmd) PROVE Without(w, cmd)
  <2>1. ASSUME NEW k \in 1..(n + 1) PROVE w[k][1] # cmd
    <3>1. CASE k \in 1..n
      BY <1>1, <1>4, <1>9, <3>1 DEF Without
    <3>2. CASE k = n + 1
      BY <1>4, <3>2
    <3>3. k \in 1..n \/ k = n + 1
      OBVIOUS
    <3> QED
      BY <3>1, <3>2, <3>3
  <2> QED
    BY <1>4, <2>1 DEF Without
<1>10. \E k \in 1..Len(w) : w[k] = <<"link", t>>
  <2>1. n + 1 \in 1..Len(w)
    BY <1>4
  <2> QED
    BY <1>4, <2>1
<1> QED
  BY <1>4, <1>5, <1>7, <1>8, <1>9, <1>10 DEF Switches

(* Activating a release is such a program, without putting anything back ...    *)
LEMMA ActivateSwitches ==
  ASSUME NEW t \in Releases
  PROVE  Switches(Activate(t), t, FALSE)
<1>1. PICK p : p = StopAll
  OBVIOUS
<1>2. /\ p \in Seq(Cmds) /\ Len(p) \in Nat
      /\ \A k \in 1..Len(p) : p[k][1] = "stop"
      /\ \A s \in Svcs : \E k \in 1..Len(p) : p[k] = <<"stop", s>>
  BY <1>1, StopList
<1>7. (Len(p) + 1) - 1 = Len(p)
  BY <1>2
<1>3. StopsAll(p, Len(p) + 1)
  BY <1>2, <1>7 DEF StopsAll
<1>4. Without(p, "link") /\ Without(p, "start") /\ Without(p, "copy") /\ Without(p, "restore")
  BY <1>2 DEF Without
<1>5. PICK w : w = p \o <<<<"link", t>>>>
  OBVIOUS
<1>6. Switches(w, t, FALSE)
  BY <1>2, <1>3, <1>4, <1>5, LinkLast
<1> QED
  BY <1>1, <1>5, <1>6 DEF Activate

(* ... and restoring one puts every database back.                              *)
LEMMA RestoreSwitches ==
  ASSUME NEW t \in Releases
  PROVE  Switches(RestoreTo(t), t, TRUE)
<1>1. PICK p, r : p = StopAll /\ r = RestoreAll
  OBVIOUS
<1>2. PICK n \in Nat : n = Len(p)
  BY <1>1, StopList
<1>3. /\ p \in Seq(Cmds)
      /\ \A k \in 1..n : p[k][1] = "stop"
      /\ \A s \in Svcs : \E k \in 1..n : p[k] = <<"stop", s>>
  BY <1>1, <1>2, StopList
<1>4. /\ r \in Seq(Cmds) /\ \A k \in 1..Len(r) : r[k][1] = "restore"
      /\ \A d \in Dbs : \E k \in 1..Len(r) : r[k] = <<"restore", d>>
  BY <1>1, RestoreList
<1>5. PICK q : q = p \o r
  OBVIOUS
<1>6. /\ q \in Seq(Cmds) /\ Len(q) = n + Len(r)
      /\ \A k \in 1..n : k \in 1..Len(q) /\ q[k] = p[k]
      /\ \A k \in 1..Len(r) : n + k \in 1..Len(q) /\ q[n + k] = r[k]
      /\ \A k \in 1..Len(q) : k \in 1..n \/ \E j \in 1..Len(r) : k = n + j
  <2>1. JoinOf(p, r, q)
    BY <1>3, <1>4, <1>5, Joined
  <2> QED
    BY <1>2, <2>1 DEF JoinOf
<1>7. ASSUME NEW k \in 1..Len(q) PROVE q[k][1] \in {"stop", "restore"}
  <2>1. CASE k \in 1..n
    BY <1>3, <1>6, <2>1
  <2>2. ASSUME NEW j \in 1..Len(r), k = n + j PROVE q[k][1] = "restore"
    BY <1>4, <1>6, <2>2
  <2> QED
    BY <1>6, <2>1, <2>2
<1>8. Without(q, "link") /\ Without(q, "start") /\ Without(q, "copy")
  BY <1>7 DEF Without
<1>9. ASSUME NEW k \in Nat, k > n PROVE StopsAll(q, k)
  <2>1. \A j \in 1..n : j \in 1..(k - 1) /\ q[j] = p[j]
    BY <1>6, <1>9
  <2> QED
    BY <1>3, <2>1 DEF StopsAll
<1>10. StopsAll(q, Len(q) + 1)
  <2>1. Len(q) + 1 \in Nat /\ Len(q) + 1 > n
    BY <1>4, <1>6
  <2> QED
    BY <1>9, <2>1
<1>11. ASSUME NEW d \in Dbs
       PROVE  \E j \in 1..Len(q) : q[j] = <<"restore", d>> /\ StopsAll(q, j)
  <2>1. PICK k \in 1..Len(r) : r[k] = <<"restore", d>>
    BY <1>4
  <2>2. n + k \in 1..Len(q) /\ q[n + k] = <<"restore", d>>
    BY <1>6, <2>1
  <2>3. StopsAll(q, n + k)
    BY <1>9
  <2> QED
    BY <2>2, <2>3
<1>12. PICK w : w = q \o <<<<"link", t>>>>
  OBVIOUS
<1>13. Switches(w, t, TRUE)
  BY <1>6, <1>8, <1>10, <1>11, <1>12, LinkLast
<1> QED
  BY <1>1, <1>5, <1>12, <1>13 DEF RestoreTo

(* What comes after the link is starting and probing.                          *)
LEMMA SwitchThenStart ==
  ASSUME NEW p, NEW t \in Releases, NEW back \in BOOLEAN, Switches(p, t, back)
  PROVE  Switches(p \o StartAll \o <<<<"health">>>>, t, back)
<1>1. PICK a, h : a = StartAll /\ h = <<<<"health">>>>
  OBVIOUS
<1>2. /\ a \in Seq(Cmds) /\ (\A k \in 1..Len(a) : a[k][1] = "start")
      /\ p \in Seq(Cmds)
  BY <1>1, StartList DEF Switches
<1>3. h \in Seq(Cmds) /\ Len(h) = 1 /\ h[1] = <<"health">>
  <2>1. <<"health">> \in Cmds
    BY DEF Cmds
  <2> QED
    BY <1>1, <2>1
<1>4. PICK v : v = p \o a
  OBVIOUS
<1>5. PICK w : w = v \o h
  OBVIOUS
<1>6. PICK n \in Nat : n = Len(p)
  BY <1>2
<1>7. /\ v \in Seq(Cmds) /\ Len(v) = n + Len(a)
      /\ \A k \in 1..n : k \in 1..Len(v) /\ v[k] = p[k]
      /\ \A k \in 1..Len(a) : v[n + k] = a[k]
      /\ \A k \in 1..Len(v) : k \in 1..n \/ \E j \in 1..Len(a) : k = n + j
  <2>1. JoinOf(p, a, v)
    <3>1. a \in Seq(Cmds) /\ p \in Seq(Cmds)
      BY <1>2
    <3> QED
      BY <1>4, <3>1, Joined
  <2> QED
    BY <1>6, <2>1 DEF JoinOf
<1>8. /\ w \in Seq(Cmds) /\ Len(w) = Len(v) + 1
      /\ \A k \in 1..Len(v) : k \in 1..Len(w) /\ w[k] = v[k]
      /\ w[Len(v) + 1] = <<"health">>
      /\ \A k \in 1..Len(w) : k \in 1..Len(v) \/ k = Len(v) + 1
  <2>1. JoinOf(v, h, w)
    <3>1. h \in Seq(Cmds) /\ v \in Seq(Cmds)
      BY <1>3, <1>7
    <3> QED
      BY <1>5, <3>1, Joined
  <2> QED
    BY <1>3, <2>1 DEF JoinOf
<1>9. \A k \in 1..n : k \in 1..Len(w) /\ w[k] = p[k]
  BY <1>7, <1>8
<1>10. ASSUME NEW k \in 1..Len(w) PROVE k \in 1..n \/ w[k][1] \in {"start", "health"}
  <2>1. CASE k = Len(v) + 1
    BY <1>8, <2>1
  <2>2. ASSUME NEW j \in 1..Len(a), k = n + j, k \in 1..Len(v) PROVE w[k][1] = "start"
    <3>1. w[k] = v[k] /\ v[k] = a[j]
      BY <1>7, <1>8, <2>2
    <3> QED
      BY <1>2, <3>1
  <2> QED
    BY <1>7, <1>8, <2>1, <2>2
<1>11. ASSUME NEW k \in 1..n, StopsAll(p, k) PROVE StopsAll(w, k)
  <2>1. \A j \in 1..(k - 1) : j \in 1..n
    OBVIOUS
  <2>2. \A j \in 1..(k - 1) : w[j] = p[j]
    BY <1>9, <2>1
  <2> QED
    BY <1>11, <2>2 DEF StopsAll
<1>12. ASSUME NEW k \in 1..Len(w), w[k][1] = "link"
       PROVE  /\ w[k] = <<"link", t>> /\ StopsAll(w, k)
              /\ \A j \in 1..(k - 1) : w[j][1] # "start"
              /\ back => \A d \in Dbs : \E j \in 1..(k - 1) :
                           w[j] = <<"restore", d>> /\ StopsAll(w, j)
  <2>1. k \in 1..n /\ w[k] = p[k]
    BY <1>9, <1>10, <1>12
  <2>2. /\ p[k] = <<"link", t>> /\ StopsAll(p, k)
        /\ \A j \in 1..(k - 1) : p[j][1] # "start"
        /\ back => \A d \in Dbs : \E j \in 1..(k - 1) : p[j] = <<"restore", d>> /\ StopsAll(p, j)
    BY <1>6, <1>12, <2>1 DEF Switches
  <2>3. \A j \in 1..(k - 1) : j \in 1..n /\ w[j] = p[j]
    BY <1>9, <2>1
  <2> QED
    BY <1>11, <2>1, <2>2, <2>3
<1>13. \E k \in 1..Len(w) : w[k] = <<"link", t>>
  BY <1>6, <1>9 DEF Switches
<1>14. Without(w, "copy") /\ (~back => Without(w, "restore"))
  BY <1>6, <1>9, <1>10 DEF Switches, Without
<1>15. Switches(w, t, back)
  BY <1>8, <1>12, <1>13, <1>14 DEF Switches
<1> QED
  BY <1>1, <1>4, <1>5, <1>15

--------------------------------------------------------------------------------
(* One command is done and the rest is left.                                   *)

(* The rest of a program.                                                      *)
CommandsLeft(q, w) ==
  /\ w \in Seq(Cmds) /\ Len(w) \in Nat /\ Len(q) = Len(w) + 1 /\ q[1] \in Cmds
  /\ \A k \in 1..Len(w) : w[k] = q[k + 1]

(* What is left after the first command is the rest.                           *)
LEMMA TailRest ==
  ASSUME NEW q \in Seq(Cmds), q # <<>>
  PROVE  CommandsLeft(q, Tail(q)) /\ Head(q) = q[1]
<1>1. PICK w : w = Tail(q)
  OBVIOUS
<1>2. w \in Seq(Cmds) /\ Len(q) \in Nat /\ Len(q) # 0 /\ Len(w) = Len(q) - 1 /\ Head(q) = q[1]
  BY <1>1
<1>3. q[1] \in Cmds
  BY <1>2
<1>4. \A k \in 1..Len(w) : w[k] = q[k + 1]
  BY <1>1, <1>2
<1>5. Len(w) \in Nat /\ Len(q) = Len(w) + 1
  BY <1>2
<1> QED
  BY <1>1, <1>2, <1>3, <1>4, <1>5 DEF CommandsLeft

(* Places in the rest and in the whole.                                        *)
LEMMA RestPlaces ==
  ASSUME NEW q, NEW w, CommandsLeft(q, w), NEW k \in 1..Len(w)
  PROVE  /\ k + 1 \in 1..Len(q) /\ w[k] = q[k + 1]
         /\ \A j \in 1..(k - 1) : j + 1 \in 1..((k + 1) - 1) /\ j \in 1..Len(w) /\ w[j] = q[j + 1]
         /\ \A j \in 1..((k + 1) - 1) : j = 1 \/ (j - 1 \in 1..(k - 1) /\ w[j - 1] = q[j])
<1>1. PICK n \in Nat : n = Len(w) /\ Len(q) = n + 1 /\ \A i \in 1..n : w[i] = q[i + 1]
  BY DEF CommandsLeft
<1>2. k \in Int /\ k >= 1 /\ k <= n
  BY <1>1
<1>3. k + 1 \in 1..(n + 1)
  BY <1>2
<1>4. ASSUME NEW j \in 1..(k - 1)
      PROVE  j + 1 \in 1..((k + 1) - 1) /\ j \in 1..n
  BY <1>2
<1>5. ASSUME NEW j \in 1..((k + 1) - 1), j # 1
      PROVE  j - 1 \in 1..(k - 1) /\ j - 1 \in 1..n /\ (j - 1) + 1 = j
  BY <1>2, <1>5
<1>6. ASSUME NEW j \in 1..((k + 1) - 1), j # 1 PROVE w[j - 1] = q[j]
  <2>1. PICK i \in 1..n : i = j - 1 /\ i + 1 = j
    BY <1>5, <1>6
  <2> QED
    BY <1>1, <2>1
<1> QED
  BY <1>1, <1>3, <1>4, <1>5, <1>6

(* A command that is not in the program is not in the rest.                    *)
LEMMA WithoutRest ==
  ASSUME NEW q, NEW w, CommandsLeft(q, w), NEW cmd, Without(q, cmd)
  PROVE  Without(w, cmd)
<1>1. ASSUME NEW k \in 1..Len(w) PROVE w[k][1] # cmd
  <2>1. k + 1 \in 1..Len(q) /\ w[k] = q[k + 1]
    BY RestPlaces
  <2> QED
    BY <2>1 DEF Without
<1> QED
  BY <1>1 DEF Without

(* Services that are down stay down until one is started.                      *)
StayDown == \A s \in Svcs : running[s] = NoRelease => running'[s] = NoRelease

(* A service that is stopped before place k + 1 is stopped by now, or before k.*)
LEMMA StopsRest ==
  ASSUME NEW q, NEW w, CommandsLeft(q, w), NEW k \in 1..Len(w), NEW s \in Svcs,
         StopsBefore(s, q, k + 1), StayDown, q[1] = <<"stop", s>> => running'[s] = NoRelease
  PROVE  StopsBefore(s, w, k)'
<1>1. CASE running[s] = NoRelease
  BY <1>1 DEF StopsBefore, StayDown
<1>2. ASSUME NEW j \in 1..((k + 1) - 1), q[j] = <<"stop", s>> PROVE StopsBefore(s, w, k)'
  <2>1. CASE j = 1
    BY <1>2, <2>1 DEF StopsBefore
  <2>2. CASE j # 1
    <3>1. j - 1 \in 1..(k - 1) /\ w[j - 1] = q[j]
      BY <2>2, RestPlaces
    <3> QED
      BY <1>2, <3>1 DEF StopsBefore
  <2> QED
    BY <2>1, <2>2
<1> QED
  BY <1>1, <1>2 DEF StopsBefore

(* So with a database, unless putting it back was the command that is done.    *)
LEMMA RestoresRest ==
  ASSUME NEW q, NEW w, CommandsLeft(q, w), NEW k \in 1..Len(w), NEW d, Restores(d, q, k + 1),
         StayDown, \A s \in Svcs : q[1] = <<"stop", s>> => running'[s] = NoRelease
  PROVE  \/ Restores(d, w, k)'
         \/ q[1] = <<"restore", d>> /\ \A s \in Svcs : running[s] = NoRelease
<1>1. PICK j \in 1..((k + 1) - 1) :
        q[j] = <<"restore", d>> /\ \A s \in Svcs : StopsBefore(s, q, j)
  BY DEF Restores
<1>2. CASE j = 1
  BY <1>1, <1>2 DEF StopsBefore
<1>3. CASE j # 1
  <2>1. PICK i : i = j - 1
    OBVIOUS
  <2>2. i \in 1..(k - 1) /\ w[i] = q[j]
    BY <1>3, <2>1, RestPlaces
  <2>3. i \in 1..Len(w)
    BY <2>2, RestPlaces
  <2>4. j = i + 1
    BY <2>1
  <2>5. \A s \in Svcs : StopsBefore(s, w, i)'
    BY <1>1, <2>3, <2>4, StopsRest
  <2> QED
    BY <1>1, <2>2, <2>5 DEF Restores
<1> QED
  BY <1>2, <1>3

(* The links that are left stay safe.                                          *)
Proceeds(q, t) ==
  /\ current' \in {current, t}
  /\ q[1][1] = "start" \/ StayDown
  /\ \A s \in Svcs : q[1] = <<"stop", s>> => running'[s] = NoRelease
  /\ \A d \in Dbs : wrote'[d] = wrote[d] \/ \A r \in wrote'[d] : NotNewer(r, t)
  /\ \A d \in Dbs : q[1] = <<"restore", d>> => \A r \in wrote'[d] : NotNewer(r, t)

(* A program whose links are safe leaves one whose links are safe.             *)
LEMMA LinksRest ==
  ASSUME NEW q, NEW w, CommandsLeft(q, w), NEW t, LinksTo(q, t), Proceeds(q, t),
         \A d \in Dbs : \A r \in wrote'[d] : NotNewer(r, current')
  PROVE  LinksTo(w, t)'
<1>1. t \in Releases
  BY DEF LinksTo
<1>2. ASSUME NEW k \in 1..Len(w), w[k][1] = "link" PROVE w[k] = <<"link", t>> /\ LinkSafe(w, k, t)'
  <2>1. k + 1 \in 1..Len(q) /\ w[k] = q[k + 1]
    BY RestPlaces
  <2>2. q[k + 1] = <<"link", t>> /\ LinkSafe(q, k + 1, t)
    BY <1>2, <2>1 DEF LinksTo
  <2>3. CASE t = current'
    <3>1. \A d \in Dbs : \A r \in wrote'[d] : NotNewer(r, t)
      BY <2>3
    <3>2. NotNewer(current', t)
      BY <1>1, <2>3 DEF NotNewer
    <3>3. \A d \in Dbs : Fits(d, t)'
      BY <3>1, <3>2 DEF Fits, NotNewer
    <3>4. LinkSafe(w, k, t)'
      BY <2>3, <3>3 DEF LinkSafe
    <3> QED
      BY <2>1, <2>2, <3>4
  <2>4. CASE t # current'
    <3>1. current' = current /\ t # current
      BY <2>4 DEF Proceeds
    <3>2. /\ \A s \in Svcs : StopsBefore(s, q, k + 1)
          /\ \A j \in 1..((k + 1) - 1) : q[j][1] # "start"
      BY <2>2, <3>1 DEF LinkSafe
    <3>3. 1 \in 1..((k + 1) - 1)
      BY DEF CommandsLeft
    <3>4. StayDown
      BY <3>2, <3>3 DEF Proceeds
    <3>5. \A s \in Svcs : StopsBefore(s, w, k)'
      BY <3>2, <3>4, StopsRest DEF Proceeds
    <3>6. ASSUME NEW j \in 1..(k - 1) PROVE w[j][1] # "start"
      <4>1. j + 1 \in 1..((k + 1) - 1) /\ w[j] = q[j + 1]
        BY RestPlaces
      <4> QED
        BY <3>2, <4>1
    <3>7. ASSUME NEW d \in Dbs PROVE Fits(d, t)' \/ Restores(d, w, k)'
      <4>1. CASE Fits(d, t)
        <5>1. \A r \in wrote'[d] : NotNewer(r, t)
          BY <4>1 DEF Fits, Proceeds
        <5>2. NotNewer(current', t) \/ \A s \in Svcs : running'[s] = NoRelease
          BY <3>1, <3>4, <4>1 DEF Fits, StayDown
        <5> QED
          BY <5>1, <5>2 DEF Fits, NotNewer
      <4>2. CASE Restores(d, q, k + 1)
        <5>1. CASE Restores(d, w, k)'
          BY <5>1
        <5>2. CASE q[1] = <<"restore", d>> /\ \A s \in Svcs : running[s] = NoRelease
          <6>1. \A r \in wrote'[d] : NotNewer(r, t)
            BY <5>2 DEF Proceeds
          <6>2. \A s \in Svcs : running'[s] = NoRelease
            BY <3>4, <5>2 DEF StayDown
          <6> QED
            BY <6>1, <6>2 DEF Fits, NotNewer
        <5> QED
          BY <3>4, <4>2, <5>1, <5>2, RestoresRest DEF Proceeds
      <4> QED
        BY <2>2, <4>1, <4>2 DEF LinkSafe
    <3> QED
      BY <2>1, <2>2, <3>5, <3>6, <3>7 DEF LinkSafe
  <2> QED
    BY <2>3, <2>4
<1> QED
  BY <1>1, <1>2 DEF LinksTo

(* Nor is where they lead lost.                                                *)
LEMMA LeadsRest ==
  ASSUME NEW q, NEW w, CommandsLeft(q, w), NEW t, LeadsTo(q, t), current' \in {current, t},
         q[1] = <<"link", t>> => current' = t
  PROVE  LeadsTo(w, t)'
<1>1. CASE current = t
  BY <1>1 DEF LeadsTo
<1>2. ASSUME NEW k \in 1..Len(q), q[k] = <<"link", t>> PROVE LeadsTo(w, t)'
  <2>1. CASE k = 1
    BY <1>2, <2>1 DEF LeadsTo
  <2>2. CASE k # 1
    <3>1. k - 1 \in 1..Len(w) /\ (k - 1) + 1 = k
      BY <2>2 DEF CommandsLeft
    <3>2. w[k - 1] = q[k]
      BY <3>1 DEF CommandsLeft
    <3> QED
      BY <1>2, <3>1, <3>2 DEF LeadsTo
  <2> QED
    BY <2>1, <2>2
<1> QED
  BY <1>1, <1>2 DEF LeadsTo

--------------------------------------------------------------------------------
(* What a program that was just begun promises.                                *)

(* A program without a link, the empty one among them, is safe.                *)
LEMMA NoLink ==
  ASSUME NEW q, Without(q, "link"), NEW t \in Releases
  PROVE  LinksTo(q, t)
  BY DEF LinksTo, Without

(* Nothing is left to do.                                                      *)
LEMMA NothingLeft ==
  ASSUME NEW t \in Releases
  PROVE  LinksTo(<<>>, t) /\ \A cmd \in {"link", "restore", "copy"} : Without(<<>>, cmd)
<1>1. \A cmd \in {"link", "restore", "copy"} : Without(<<>>, cmd)
  BY DEF Without
<1> QED
  BY <1>1, NoLink

(* A program that stops the services first switches the link safely, if it     *)
(* puts the databases back or none of them is newer than where it goes.        *)
LEMMA SwitchesLink ==
  ASSUME NEW q, NEW t \in Releases, NEW back \in BOOLEAN, Switches(q, t, back),
         back \/ \A d \in Dbs : Fits(d, t)
  PROVE  LinksTo(q, t) /\ LeadsTo(q, t)
<1>1. ASSUME NEW k \in 1..Len(q), q[k][1] = "link" PROVE q[k] = <<"link", t>> /\ LinkSafe(q, k, t)
  <2>1. /\ q[k] = <<"link", t>> /\ StopsAll(q, k)
        /\ \A j \in 1..(k - 1) : q[j][1] # "start"
        /\ back => \A d \in Dbs : \E j \in 1..(k - 1) : q[j] = <<"restore", d>> /\ StopsAll(q, j)
    BY <1>1 DEF Switches
  <2>2. \A s \in Svcs : StopsBefore(s, q, k)
    BY <2>1 DEF StopsAll, StopsBefore
  <2>3. \A j : StopsAll(q, j) => \A s \in Svcs : StopsBefore(s, q, j)
    BY DEF StopsAll, StopsBefore
  <2>4. ASSUME NEW d \in Dbs, back PROVE Restores(d, q, k)
    BY <2>1, <2>3, <2>4 DEF Restores
  <2> QED
    BY <2>1, <2>2, <2>4 DEF LinkSafe
<1> QED
  BY <1>1 DEF LinksTo, LeadsTo, Switches

(* What each command is about.                                                 *)
LEMMA CmdSubject ==
  ASSUME NEW c \in Cmds
  PROVE  /\ c[1] \in {"stop", "start"} => \E s \in Svcs : c = <<c[1], s>> /\ c[2] = s
         /\ c[1] \in {"copy", "restore"} => \E d \in Dbs : c = <<c[1], d>> /\ c[2] = d
         /\ c[1] \in {"link", "lkg"} => \E r \in Releases : c = <<c[1], r>> /\ c[2] = r
<1>1. CASE c \in {"stop", "start"} \X Svcs
  BY <1>1
<1>2. CASE c \in {"copy", "restore"} \X Dbs
  BY <1>2
<1>3. CASE c \in {"link", "lkg"} \X Releases
  BY <1>3
<1>4. CASE c \in {<<"fresh">>, <<"receipt">>, <<"health">>}
  BY <1>4
<1> QED
  BY <1>1, <1>2, <1>3, <1>4 DEF Cmds

(* Where the link that is still to come leads.                                 *)
Target(t) ==
  \/ su.job = "restart" /\ t = current
  \/ su.job = "update" /\ records[su.op].phase = "switch" /\ t = records[su.op].cand
  \/ su.job = "update" /\ records[su.op].phase = "rollback" /\ t = records[su.op].prev
  \/ su.job = "restore" /\ t = records[su.op].prev

(* One command less: the promises about the rest stand.                        *)
StepsOn(q) ==
  /\ su' = [su EXCEPT !.todo = Tail(su.todo)] /\ records' = records
  /\ \A t : Target(t) => Proceeds(q, t)
  /\ \A t : q[1] = <<"link", t>> => current' = t
  /\ \A d \in Dbs : \A r \in wrote'[d] : NotNewer(r, current')

(* Whoever is at work, its program stays what the record promises.             *)
LEMMA CommandStep ==
  ASSUME SelfInv, NEW q, q = su.todo, q # <<>>, StepsOn(q)
  PROVE  WorkInv' /\ su' = [job |-> su.job, op |-> su.op, todo |-> Tail(q), goal |-> su.goal]
                  /\ Tail(q) \in Seq(Cmds)
<1> DEFINE w == Tail(q)
<1>1. q \in Seq(Cmds) /\ su = [job |-> su.job, op |-> su.op, todo |-> su.todo, goal |-> su.goal]
  BY DEF SelfInv, SelfShapes
<1>2. CommandsLeft(q, w)
  BY <1>1, TailRest
<1>3. su' = [job |-> su.job, op |-> su.op, todo |-> w, goal |-> su.goal]
  BY <1>1 DEF StepsOn
<1>4. w \in Seq(Cmds)
  BY <1>2 DEF CommandsLeft
<1>5. PICK rec : rec = records[su.op]
  OBVIOUS
<1>6. records' = records /\ \A i : UpdatePending(i) <=> UpdatePending(i)'
  BY DEF StepsOn, UpdatePending
<1>7. ASSUME NEW t, Target(t), LinksTo(q, t)
      PROVE  LinksTo(w, t)'
  BY <1>2, <1>7, LinksRest DEF StepsOn
<1>8. ASSUME NEW t, Target(t), LeadsTo(q, t)
      PROVE  LeadsTo(w, t)'
  BY <1>2, <1>8, LeadsRest DEF StepsOn, Proceeds
<1>9. \A cmd : Without(q, cmd) => Without(w, cmd)
  BY <1>2, WithoutRest
<1>10. CASE su.job = "restart" /\ RestartInv
  <2>1. PICK t : t = current
    OBVIOUS
  <2>2. Target(t) /\ LinksTo(q, t)
    BY <1>10, <2>1 DEF Target, RestartInv
  <2>3. current' = t
    BY <2>1, <2>2 DEF StepsOn, Proceeds
  <2>4. LinksTo(w, t)'
    BY <1>7, <2>2
  <2>5. Without(w, "restore") /\ Without(w, "copy")
    BY <1>9, <1>10 DEF RestartInv
  <2>6. \A i \in 1..Len(records') : ~UpdatePending(i)'
    BY <1>6, <1>10 DEF RestartInv
  <2>8. LinksTo(su.todo, current)'
    BY <1>3, <2>3, <2>4
  <2>7. RestartInv'
    BY <1>3, <2>5, <2>6, <2>8 DEF RestartInv, Without
  <2> QED
    BY <1>3, <1>4, <1>10, <2>7 DEF WorkInv
<1>11. CASE su.job = "update" /\ UpdatePending(su.op) /\ UpdateInv(records[su.op])
  <2>1. UpdateInv(rec)
    BY <1>5, <1>11
  <2>2. su.goal # "none"
    BY <2>1 DEF UpdateInv
  <2>3. ASSUME rec.phase = "switch"
        PROVE  LinksTo(w, rec.cand)' /\ (su.goal = "start" => LeadsTo(w, rec.cand)')
    <3>1. PICK t : t = rec.cand
      OBVIOUS
    <3>2. Target(t) /\ LinksTo(q, t) /\ (su.goal = "start" => LeadsTo(q, t))
      BY <1>5, <1>11, <2>1, <2>3, <3>1 DEF Target, UpdateInv
    <3>3. LinksTo(w, t)' /\ (su.goal = "start" => LeadsTo(w, t)')
      BY <1>7, <1>8, <3>2
    <3> QED
      BY <3>1, <3>3
  <2>4. ASSUME rec.phase = "rollback"
        PROVE  LinksTo(w, rec.prev)' /\ (su.goal = "rollback_health" => LeadsTo(w, rec.prev)')
    <3>1. PICK t : t = rec.prev
      OBVIOUS
    <3>2. Target(t) /\ LinksTo(q, t) /\ (su.goal = "rollback_health" => LeadsTo(q, t))
      BY <1>5, <1>11, <2>1, <2>4, <3>1 DEF Target, UpdateInv
    <3>3. LinksTo(w, t)' /\ (su.goal = "rollback_health" => LeadsTo(w, t)')
      BY <1>7, <1>8, <3>2
    <3> QED
      BY <3>1, <3>3
  <2>5. /\ rec.phase \notin Terminal
        /\ su.goal \in {"none", Good(rec.phase), "needs_reconcile", "rollback"}
        /\ rec.phase = "switch" => Without(w, "restore")
        /\ rec.phase \notin {"switch", "rollback"} => Without(w, "link") /\ Without(w, "restore")
        /\ rec.phase # "backup" => Without(w, "copy")
    BY <1>9, <2>1 DEF UpdateInv
  <2>6. su'.todo = w /\ su'.goal = su.goal
    BY <1>3
  <2>7. UpdateInv(rec)'
    BY <2>2, <2>3, <2>4, <2>5, <2>6 DEF UpdateInv, Without
  <2>8. su'.job = "update" /\ su'.op = su.op /\ records'[su'.op] = rec
    BY <1>3, <1>5, <1>6, <1>11
  <2> QED
    BY <1>3, <1>4, <1>6, <1>11, <2>7, <2>8 DEF WorkInv
<1>12. CASE su.job = "restore" /\ UpdatePending(su.op) /\ RestoreInv(records[su.op])
  <2>1. RestoreInv(rec)
    BY <1>5, <1>12
  <2>2. PICK t : t = rec.prev
    OBVIOUS
  <2>3. Target(t) /\ LinksTo(q, t) /\ LeadsTo(q, t)
    BY <1>5, <1>12, <2>1, <2>2 DEF Target, RestoreInv
  <2>4. LinksTo(w, t)' /\ LeadsTo(w, t)'
    BY <1>7, <1>8, <2>3
  <2>5. Without(w, "copy") /\ rec.phase = "needs_reconcile" /\ su.goal = "rolled_back"
    BY <1>9, <2>1 DEF RestoreInv
  <2>6. su'.todo = w /\ su'.goal = su.goal
    BY <1>3
  <2>7. RestoreInv(rec)'
    BY <2>2, <2>4, <2>5, <2>6 DEF RestoreInv, Without
  <2>8. su'.job = "restore" /\ su'.op = su.op /\ records'[su'.op] = rec
    BY <1>3, <1>5, <1>6, <1>12
  <2> QED
    BY <1>3, <1>4, <1>6, <1>12, <2>7, <2>8 DEF WorkInv
<1> QED
  BY <1>10, <1>11, <1>12 DEF SelfInv, WorkInv

--------------------------------------------------------------------------------
(* The commands.                                                               *)

(* Journal and link are untouched.                                             *)
LEMMA PendingKept ==
  ASSUME PendingInv, UNCHANGED <<records, current>>
  PROVE  PendingInv'
  BY DEF PendingInv, UpdatePending, RecordInv

(* So are services, databases and backups.                                     *)
LEMMA StateKept ==
  ASSUME StateInv, UNCHANGED <<records, current, running, wrote, backups>>
  PROVE  StateInv'
  BY DEF StateInv, UpdatePending, NotNewer

(* The command at hand.                                                        *)
LEMMA AtHand ==
  ASSUME SelfInv, NEW cmd, Todo1(cmd), Done
  PROVE  /\ su.todo \in Seq(Cmds) /\ su.todo # <<>> /\ su.todo[1] \in Cmds
         /\ su.todo[1][1] = cmd /\ Subject = su.todo[1][2] /\ 1 \in 1..Len(su.todo)
         /\ su' = [su EXCEPT !.todo = Tail(su.todo)]
<1>1. PICK q : q = su.todo
  OBVIOUS
<1>2. q \in Seq(Cmds) /\ q # <<>>
  BY <1>1 DEF SelfInv, SelfShapes, Todo1
<1>3. Head(q) = q[1] /\ CommandsLeft(q, Tail(q))
  BY <1>2, TailRest
<1>4. q[1] \in Cmds /\ 1 \in 1..Len(q)
  BY <1>3 DEF CommandsLeft
<1> QED
  BY <1>1, <1>2, <1>3, <1>4 DEF Todo1, Subject, Done

(* A command that touches neither link nor databases nor services.             *)
LEMMA PlainCommand ==
  ASSUME SelfInv, NEW cmd \in {"lkg", "fresh", "copy", "receipt", "health"}, Todo1(cmd), Done,
         UNCHANGED <<records, current, running, wrote>>
  PROVE  WorkInv' /\ PendingInv' /\ su'.todo \in Seq(Cmds)
         /\ su' = [job |-> su'.job, op |-> su'.op, todo |-> su'.todo, goal |-> su'.goal]
<1>1. PICK q : q = su.todo
  OBVIOUS
<1>2. q # <<>> /\ q[1][1] = cmd /\ su' = [su EXCEPT !.todo = Tail(su.todo)]
  BY <1>1, AtHand
<1>3. \A t : Proceeds(q, t)
  BY <1>2 DEF Proceeds, StayDown
<1>4. StepsOn(q)
  BY <1>2, <1>3 DEF StepsOn, SelfInv, StateInv, NotNewer
<1>5. WorkInv' /\ su' = [job |-> su.job, op |-> su.op, todo |-> Tail(q), goal |-> su.goal]
               /\ Tail(q) \in Seq(Cmds)
  BY <1>1, <1>2, <1>4, CommandStep
<1> QED
  BY <1>5, PendingKept DEF SelfInv

(* Last-known-good moves.                                                      *)
LEMMA Commits ==
  ASSUME SelfInv, commit_release
  PROVE  SelfInv'
<1>1. /\ Todo1("lkg") /\ Done /\ lkg' = Subject
      /\ UNCHANGED <<records, backups, current, running, wrote, supervisor>>
  BY DEF commit_release, host
<1>2. WorkInv' /\ PendingInv' /\ su'.todo \in Seq(Cmds)
      /\ su' = [job |-> su'.job, op |-> su'.op, todo |-> su'.todo, goal |-> su'.goal]
  BY <1>1, PlainCommand
<1>3. lkg' \in Releases
  BY <1>1, AtHand, CmdSubject
<1>4. StateInv'
  BY <1>1, StateKept DEF SelfInv
<1>5. SelfShapes'
  BY <1>1, <1>2, <1>3 DEF SelfInv, SelfShapes
<1> QED
  BY <1>2, <1>4, <1>5 DEF SelfInv

(* A service is stopped.                                                       *)
LEMMA Stops ==
  ASSUME SelfInv, StopService
  PROVE  SelfInv'
<1>1. /\ Todo1("stop") /\ Done /\ running' = [running EXCEPT ![Subject] = NoRelease]
      /\ UNCHANGED <<records, backups, current, lkg, wrote, supervisor>>
  BY DEF StopService, links
<1>2. PICK q : q = su.todo
  OBVIOUS
<1>3. /\ q # <<>> /\ q[1] \in Cmds /\ q[1][1] = "stop" /\ Subject = q[1][2]
      /\ su' = [su EXCEPT !.todo = Tail(su.todo)]
  BY <1>1, <1>2, AtHand
<1>4. PICK s \in Svcs : q[1] = <<"stop", s>> /\ Subject = s
  BY <1>3, CmdSubject
<1>5. /\ running' \in [Svcs -> Releases \cup {NoRelease}] /\ running'[s] = NoRelease
      /\ \A x \in Svcs : running'[x] \in {NoRelease, running[x]}
  BY <1>1, <1>4 DEF SelfInv, SelfShapes
<1>6. \A t : Proceeds(q, t)
  BY <1>1, <1>3, <1>4, <1>5 DEF Proceeds, StayDown
<1>7. StepsOn(q)
  BY <1>1, <1>3, <1>6 DEF StepsOn, SelfInv, StateInv, NotNewer
<1>8. WorkInv' /\ su' = [job |-> su.job, op |-> su.op, todo |-> Tail(q), goal |-> su.goal]
               /\ Tail(q) \in Seq(Cmds)
  BY <1>2, <1>3, <1>7, CommandStep
<1>9. StateInv'
  BY <1>1, <1>5 DEF SelfInv, StateInv, UpdatePending, NotNewer
<1>10. SelfShapes'
  BY <1>1, <1>5, <1>8 DEF SelfInv, SelfShapes
<1> QED
  BY <1>1, <1>8, <1>9, <1>10, PendingKept DEF SelfInv

(* A service is started: it runs what the link names.                          *)
LEMMA Starts ==
  ASSUME SelfInv, StartService
  PROVE  SelfInv'
<1>1. /\ Todo1("start") /\ Done
      /\ running' = [running EXCEPT ![Subject] = IF @ = NoRelease THEN current ELSE @]
      /\ UNCHANGED <<records, backups, current, lkg, wrote, supervisor>>
  BY DEF StartService, links
<1>2. PICK q : q = su.todo
  OBVIOUS
<1>3. /\ q # <<>> /\ q[1] \in Cmds /\ q[1][1] = "start"
      /\ su' = [su EXCEPT !.todo = Tail(su.todo)]
  BY <1>1, <1>2, AtHand
<1>5. /\ running' \in [Svcs -> Releases \cup {NoRelease}]
      /\ \A x \in Svcs : running'[x] \in {current, running[x]}
  BY <1>1 DEF SelfInv, SelfShapes
<1>6. \A t : Proceeds(q, t)
  BY <1>1, <1>3, <1>5 DEF Proceeds
<1>7. StepsOn(q)
  BY <1>1, <1>3, <1>6 DEF StepsOn, SelfInv, StateInv, NotNewer
<1>8. WorkInv' /\ su' = [job |-> su.job, op |-> su.op, todo |-> Tail(q), goal |-> su.goal]
               /\ Tail(q) \in Seq(Cmds)
  BY <1>2, <1>3, <1>7, CommandStep
<1>9. StateInv'
  BY <1>1, <1>5 DEF SelfInv, StateInv, UpdatePending, NotNewer
<1>10. SelfShapes'
  BY <1>1, <1>5, <1>8 DEF SelfInv, SelfShapes
<1> QED
  BY <1>1, <1>8, <1>9, <1>10, PendingKept DEF SelfInv

(* What a pending operation's record says.                                     *)
LEMMA PendingFacts ==
  ASSUME SelfInv, UpdatePending(su.op)
  PROVE  /\ records[su.op] \in UpdateRecords /\ RecordInv(su.op)
         /\ \A i \in 1..Len(records) : UpdatePending(i) => i = su.op
<1>1. PICK l : l = records
  OBVIOUS
<1>2. l \in Seq(UpdateRecords) /\ su.op \in 1..Len(l)
  BY <1>1 DEF SelfInv, SelfShapes, UpdatePending
<1>3. l[su.op] \in UpdateRecords
  BY <1>2
<1> QED
  BY <1>1, <1>2, <1>3 DEF SelfInv, PendingInv, UpdatePending

(* A link is the next command: the services are down and no database is newer. *)
LEMMA LinkReady ==
  ASSUME SelfInv, NEW t \in Releases, su.todo # <<>>, su.todo[1] = <<"link", t>>
  PROVE  /\ Target(t) /\ LinkSafe(su.todo, 1, t)
         /\ \A u : Target(u) => u = t
         /\ \/ su.job = "restart" /\ RestartInv
            \/ /\ UpdatePending(su.op)
               /\ records[su.op].phase \in {"switch", "rollback", "needs_reconcile"}
<1>1. PICK q : q = su.todo
  OBVIOUS
<1>2. q \in Seq(Cmds) /\ q # <<>> /\ q[1] = <<"link", t>>
  BY <1>1 DEF SelfInv, SelfShapes
<1>3. 1 \in 1..Len(q) /\ q[1][1] = "link"
  BY <1>2
<1>4. ASSUME NEW u, LinksTo(q, u) PROVE u = t /\ LinkSafe(q, 1, t)
  <2>1. q[1] = <<"link", u>> /\ LinkSafe(q, 1, u)
    BY <1>3, <1>4 DEF LinksTo
  <2> QED
    BY <1>2, <2>1
<1>5. CASE su.job = "restart" /\ RestartInv
  BY <1>1, <1>4, <1>5 DEF Target, RestartInv
<1>6. CASE su.job = "update" /\ UpdatePending(su.op) /\ UpdateInv(records[su.op])
  <2>1. records[su.op].phase \in {"switch", "rollback"}
    BY <1>1, <1>3, <1>6 DEF UpdateInv, Without
  <2>2. CASE records[su.op].phase = "switch"
    BY <1>1, <1>4, <1>6, <2>2 DEF Target, UpdateInv
  <2>3. CASE records[su.op].phase = "rollback"
    BY <1>1, <1>4, <1>6, <2>3 DEF Target, UpdateInv
  <2> QED
    BY <1>6, <2>1, <2>2, <2>3
<1>7. CASE su.job = "restore" /\ UpdatePending(su.op) /\ RestoreInv(records[su.op])
  BY <1>1, <1>4, <1>7 DEF Target, RestoreInv
<1> QED
  BY <1>1, <1>2, <1>5, <1>6, <1>7 DEF SelfInv, WorkInv

(* Older than the older is older.                                              *)
LEMMA NotNewerTrans ==
  ASSUME NEW r, NEW a, NEW b, NotNewer(r, a), NotNewer(a, b)
  PROVE  NotNewer(r, b)
  BY SelfUpdateAssumption DEF NotNewer

(* The link is switched: nothing runs by then and no database is newer than it.*)
LEMMA Links ==
  ASSUME SelfInv, SwitchLink
  PROVE  SelfInv'
<1>1. /\ Todo1("link") /\ Done /\ current' = Subject
      /\ UNCHANGED <<records, backups, lkg, running, wrote, supervisor>>
  BY DEF SwitchLink, host
<1>2. PICK q : q = su.todo
  OBVIOUS
<1>3. /\ q # <<>> /\ q[1] \in Cmds /\ q[1][1] = "link" /\ Subject = q[1][2]
      /\ su' = [su EXCEPT !.todo = Tail(su.todo)]
  BY <1>1, <1>2, AtHand
<1>4. PICK t \in Releases : q[1] = <<"link", t>> /\ current' = t
  BY <1>1, <1>3, CmdSubject
<1>5. /\ Target(t) /\ LinkSafe(q, 1, t)
      /\ \A u : Target(u) => u = t
      /\ \/ su.job = "restart" /\ RestartInv
         \/ /\ UpdatePending(su.op)
            /\ records[su.op].phase \in {"switch", "rollback", "needs_reconcile"}
  BY <1>2, <1>3, <1>4, LinkReady
<1>6. 1..(1 - 1) = {}
  OBVIOUS
<1>7. t = current \/ \A s \in Svcs : running[s] = NoRelease
  BY <1>5, <1>6 DEF LinkSafe, StopsBefore
<1>8. \A d \in Dbs : \A r \in wrote[d] : NotNewer(r, t)
  BY <1>5, <1>6 DEF LinkSafe, Restores, Fits
<1>9. Proceeds(q, t)
  BY <1>1, <1>3, <1>4, <1>8 DEF Proceeds, StayDown
<1>10. \A u : q[1] = <<"link", u>> => current' = u
  BY <1>4
<1>11. \A d \in Dbs : \A r \in wrote'[d] : NotNewer(r, current')
  BY <1>1, <1>4, <1>8
<1>12. StepsOn(q)
  BY <1>1, <1>3, <1>5, <1>9, <1>10, <1>11 DEF StepsOn
<1>13. WorkInv' /\ su' = [job |-> su.job, op |-> su.op, todo |-> Tail(q), goal |-> su.goal]
                /\ Tail(q) \in Seq(Cmds)
  BY <1>2, <1>3, <1>12, CommandStep
<1>14. SelfShapes'
  <2>1. t # NoRelease
    BY SelfUpdateAssumption
  <2> QED
    BY <1>1, <1>4, <1>13, <2>1 DEF SelfInv, SelfShapes
<1>15. CASE su.job = "restart" /\ RestartInv
  <2>1. current' = current
    BY <1>4, <1>5, <1>15 DEF Target
  <2> QED
    BY <1>1, <1>13, <1>14, <2>1, PendingKept, StateKept DEF SelfInv
<1>16. CASE UpdatePending(su.op) /\ records[su.op].phase \in {"switch", "rollback", "needs_reconcile"}
  <2>1. PICK rec : rec = records[su.op]
    OBVIOUS
  <2>2. /\ rec \in UpdateRecords /\ RecordInv(su.op)
        /\ \A i \in 1..Len(records) : UpdatePending(i) => i = su.op
    BY <1>16, <2>1, PendingFacts
  <2>3. SourceSeq[rec.prev] < SourceSeq[rec.cand] /\ rec.prev \in Releases /\ rec.cand \in Releases
    BY <2>1, <2>2 DEF RecordInv, UpdateRecords
  <2>4. t \in {rec.prev, rec.cand}
    <3>1. su.job # "restart"
      BY <1>16 DEF SelfInv, WorkInv, RestartInv, UpdatePending
    <3> QED
      BY <1>5, <2>1, <3>1 DEF Target
  <2>5. NotNewer(rec.prev, t)
    BY <2>3, <2>4 DEF NotNewer
  <2>6. ASSUME NEW c \in Releases, NEW d \in Dbs, NEW r \in backups[c].copy[d]
        PROVE  /\ NotNewer(r, t)
               /\ \A i \in 1..Len(records) : UpdatePending(i) => NotNewer(r, records[i].prev)
    <3>1. \A i \in 1..Len(records) : UpdatePending(i) => NotNewer(r, records[i].prev)
      BY DEF SelfInv, StateInv
    <3>2. NotNewer(r, rec.prev)
      BY <1>16, <2>1, <3>1 DEF UpdatePending
    <3> QED
      BY <2>5, <3>1, <3>2, NotNewerTrans
  <2>7. \A s \in Svcs : running[s] \in {NoRelease, t}
    BY <1>7 DEF SelfInv, StateInv
  <2>8. StateInv'
    BY <1>1, <1>4, <1>8, <2>6, <2>7 DEF StateInv, UpdatePending, NotNewer
  <2>9. RecordInv(su.op)'
    <3>1. records'[su.op] = rec /\ current' = t
      BY <1>1, <1>4, <2>1
    <3>2. PICK o : o = su.op
      OBVIOUS
    <3>3. RecordInv(o)'
      BY <1>16, <2>1, <2>3, <2>4, <3>1, <3>2 DEF RecordInv
    <3>4. su'.op = su.op
      BY <1>13
    <3> QED
      BY <3>2, <3>3, <3>4
  <2>10. PendingInv'
    <3>1. PICK o : o = su.op
      OBVIOUS
    <3>2. RecordInv(o)' 
      BY <1>13, <2>9, <3>1
    <3>3. \A i \in 1..Len(records') : UpdatePending(i)' => i = o
      BY <1>1, <2>2, <3>1 DEF UpdatePending
    <3> QED
      BY <3>2, <3>3 DEF PendingInv
  <2> QED
    BY <1>13, <1>14, <2>8, <2>10 DEF SelfInv
<1> QED
  BY <1>5, <1>15, <1>16

(* Copies are made in phase backup only, where the link is still the release   *)
(* before: whatever they hold, the operation may go back to.                   *)
LEMMA CopyReady ==
  ASSUME SelfInv, su.todo # <<>>, su.todo[1][1] = "copy"
  PROVE  UpdatePending(su.op) /\ current = records[su.op].prev
<1>1. 1 \in 1..Len(su.todo)
  BY DEF SelfInv, SelfShapes
<1>2. ~Without(su.todo, "copy")
  BY <1>1 DEF Without
<1>3. su.job = "update" /\ UpdatePending(su.op) /\ UpdateInv(records[su.op])
  BY <1>2 DEF SelfInv, WorkInv, RestartInv, RestoreInv
<1>4. records[su.op].phase = "backup"
  BY <1>2, <1>3 DEF UpdateInv
<1> QED
  BY <1>3, <1>4, PendingFacts DEF RecordInv

(* A database is copied, a backup thrown away or sealed.                       *)
LEMMA Copies ==
  ASSUME SelfInv, BackupDatabase
  PROVE  SelfInv'
<1>1. UNCHANGED <<records, current, lkg, running, wrote, supervisor>>
  BY DEF BackupDatabase, links, host
<1>2. PICK cmd \in {"fresh", "copy", "receipt"} : Todo1(cmd)
  BY DEF BackupDatabase
<1>3. Done
  BY DEF BackupDatabase
<1>4. WorkInv' /\ PendingInv' /\ su'.todo \in Seq(Cmds)
      /\ su' = [job |-> su'.job, op |-> su'.op, todo |-> su'.todo, goal |-> su'.goal]
  BY <1>1, <1>2, <1>3, PlainCommand
<1>5. PICK c : c = SuRec.cand
  OBVIOUS
<1>6. PICK b : b = backups
  OBVIOUS
<1>7. b \in [Releases -> [state : {"none", "partial", "sealed"}, copy : [Dbs -> SUBSET Releases]]]
  BY <1>6 DEF SelfInv, SelfShapes
<1>8. PICK held : held = [state : {"none", "partial", "sealed"}, copy : [Dbs -> SUBSET Releases]]
  OBVIOUS
<1> DEFINE Keeps ==
      /\ backups' \in [Releases -> held]
      /\ \A x \in Releases : \A d \in Dbs :
           \A r \in backups'[x].copy[d] :
             r \in b[x].copy[d] \/ (r \in wrote[d] /\ UpdatePending(su.op) /\ current = records[su.op].prev)
<1>9. ASSUME backups' = [b EXCEPT ![c] = [NoBackup EXCEPT !.state = "partial"]] PROVE Keeps
  <2>1. PICK e : e = [NoBackup EXCEPT !.state = "partial"]
    OBVIOUS
  <2>2. e \in held /\ \A d \in Dbs : e.copy[d] = {}
    BY <1>8, <2>1 DEF NoBackup
  <2>3. backups' = [b EXCEPT ![c] = e]
    BY <1>9, <2>1
  <2> QED
    BY <1>7, <1>8, <2>2, <2>3
<1>10. ASSUME backups' = [b EXCEPT ![c].state = "sealed"] PROVE Keeps
  <2>1. ASSUME NEW x \in Releases PROVE backups'[x] \in held /\ backups'[x].copy = b[x].copy
    BY <1>7, <1>8, <1>10
  <2> QED
    BY <1>7, <1>8, <1>10, <2>1
<1>11. ASSUME Todo1("copy"), backups' = [b EXCEPT ![c].copy[Subject] = wrote[Subject]] PROVE Keeps
  <2>1. PICK d \in Dbs : Subject = d
    BY <1>3, <1>11, AtHand, CmdSubject
  <2>2. UpdatePending(su.op) /\ current = records[su.op].prev
    BY <1>3, <1>11, AtHand, CopyReady
  <2>3. PICK v : v = wrote[d]
    OBVIOUS
  <2>4. v \in SUBSET Releases
    BY <2>3 DEF SelfInv, SelfShapes
  <2>5. backups' = [b EXCEPT ![c].copy[d] = v]
    BY <1>11, <2>1, <2>3
  <2>6. ASSUME NEW x \in Releases
        PROVE  /\ backups'[x] \in held
               /\ backups'[x].copy = b[x].copy \/ backups'[x].copy = [b[x].copy EXCEPT ![d] = v]
    BY <1>7, <1>8, <2>4, <2>5
  <2>7. backups' \in [Releases -> held]
    BY <1>7, <2>5, <2>6
  <2>8. ASSUME NEW x \in Releases, NEW y \in Dbs, NEW r \in backups'[x].copy[y]
        PROVE  r \in b[x].copy[y] \/ r \in wrote[y]
    <3>1. b[x].copy \in [Dbs -> SUBSET Releases]
      BY <1>7
    <3>2. backups'[x].copy[y] \in {b[x].copy[y], v} /\ (y # d => backups'[x].copy[y] = b[x].copy[y])
      BY <2>6, <3>1
    <3> QED
      BY <2>3, <2>8, <3>2
  <2> QED
    BY <2>2, <2>7, <2>8
<1>12. Keeps
  <2>1. \/ backups' = [b EXCEPT ![c] = [NoBackup EXCEPT !.state = "partial"]]
        \/ Todo1("copy") /\ backups' = [b EXCEPT ![c].copy[Subject] = wrote[Subject]]
        \/ backups' = [b EXCEPT ![c].state = "sealed"]
    BY <1>5, <1>6 DEF BackupDatabase
  <2> QED
    BY <1>9, <1>10, <1>11, <2>1
<1>13. ASSUME NEW x \in Releases, NEW d \in Dbs, NEW r \in backups'[x].copy[d]
       PROVE  /\ NotNewer(r, current)
              /\ \A i \in 1..Len(records) : UpdatePending(i) => NotNewer(r, records[i].prev)
  <2>1. CASE r \in b[x].copy[d]
    BY <1>6, <2>1 DEF SelfInv, StateInv
  <2>2. CASE r \in wrote[d] /\ UpdatePending(su.op) /\ current = records[su.op].prev
    <3>1. NotNewer(r, current)
      BY <2>2 DEF SelfInv, StateInv
    <3>2. \A i \in 1..Len(records) : UpdatePending(i) => i = su.op
      BY <2>2, PendingFacts
    <3> QED
      BY <2>2, <3>1, <3>2
  <2> QED
    BY <1>12, <2>1, <2>2
<1>14. StateInv'
  BY <1>1, <1>13 DEF SelfInv, StateInv, UpdatePending, NotNewer
<1>15. SelfShapes'
  BY <1>1, <1>4, <1>8, <1>12 DEF SelfInv, SelfShapes
<1> QED
  BY <1>4, <1>14, <1>15 DEF SelfInv

(* Databases are put back while an operation is pending that may go back.      *)
LEMMA RestoreReady ==
  ASSUME SelfInv, su.todo # <<>>, su.todo[1][1] = "restore"
  PROVE  UpdatePending(su.op) /\ \A t : Target(t) => t = records[su.op].prev
<1>1. 1 \in 1..Len(su.todo)
  BY DEF SelfInv, SelfShapes
<1>2. ~Without(su.todo, "restore")
  BY <1>1 DEF Without
<1>3. CASE su.job = "update" /\ UpdatePending(su.op) /\ UpdateInv(records[su.op])
  <2>1. records[su.op].phase = "rollback"
    BY <1>2, <1>3 DEF UpdateInv
  <2> QED
    BY <1>3, <2>1 DEF Target
<1>4. CASE su.job = "restore" /\ UpdatePending(su.op)
  BY <1>4 DEF Target
<1> QED
  BY <1>2, <1>3, <1>4 DEF SelfInv, WorkInv, RestartInv

(* A database is put back: what it holds now is no newer than the way back.    *)
LEMMA PutsBack ==
  ASSUME SelfInv, RestoreDatabase
  PROVE  SelfInv'
<1>1. /\ Todo1("restore") /\ Done
      /\ wrote' = [wrote EXCEPT ![Subject] = backups[SuRec.cand].copy[Subject]]
      /\ UNCHANGED <<records, backups, current, lkg, running, supervisor>>
  BY DEF RestoreDatabase, links
<1>2. PICK q : q = su.todo
  OBVIOUS
<1>3. /\ q # <<>> /\ q[1] \in Cmds /\ q[1][1] = "restore" /\ Subject = q[1][2]
      /\ su' = [su EXCEPT !.todo = Tail(su.todo)]
  BY <1>1, <1>2, AtHand
<1>4. PICK d \in Dbs : q[1] = <<"restore", d>> /\ Subject = d
  BY <1>3, CmdSubject
<1>5. UpdatePending(su.op) /\ \A t : Target(t) => t = records[su.op].prev
  BY <1>2, <1>3, RestoreReady
<1>6. PICK c : c = SuRec.cand
  OBVIOUS
<1>7. c \in Releases
  BY <1>5, <1>6, PendingFacts DEF SuRec, UpdateRecords
<1>8. PICK v : v = backups[c].copy[d]
  OBVIOUS
<1>9. v \in SUBSET Releases
  BY <1>7, <1>8 DEF SelfInv, SelfShapes
<1>10. wrote' = [wrote EXCEPT ![d] = v] /\ wrote \in [Dbs -> SUBSET Releases]
  BY <1>1, <1>4, <1>6, <1>8 DEF SelfInv, SelfShapes
<1>11. \A r \in v : NotNewer(r, current) /\ NotNewer(r, records[su.op].prev)
  BY <1>5, <1>7, <1>8 DEF SelfInv, StateInv, UpdatePending
<1>12. /\ wrote' \in [Dbs -> SUBSET Releases] /\ wrote'[d] = v
       /\ \A x \in Dbs : x # d => wrote'[x] = wrote[x]
  BY <1>9, <1>10
<1>13. \A x \in Dbs : \A r \in wrote'[x] : NotNewer(r, current)
  BY <1>11, <1>12 DEF SelfInv, StateInv
<1>14. ASSUME NEW t, Target(t) PROVE Proceeds(q, t)
  <2>1. t = records[su.op].prev
    BY <1>5, <1>14
  <2>2. \A r \in wrote'[d] : NotNewer(r, t)
    BY <1>11, <1>12, <2>1
  <2>3. \A x \in Dbs : q[1] = <<"restore", x>> => x = d
    BY <1>4
  <2> QED
    BY <1>1, <1>3, <1>12, <2>2, <2>3 DEF Proceeds, StayDown
<1>15. \A t : q[1] # <<"link", t>>
  BY <1>3
<1>16. StepsOn(q)
  BY <1>1, <1>3, <1>13, <1>14, <1>15 DEF StepsOn
<1>17. WorkInv' /\ su' = [job |-> su.job, op |-> su.op, todo |-> Tail(q), goal |-> su.goal]
               /\ Tail(q) \in Seq(Cmds)
  BY <1>2, <1>3, <1>16, CommandStep
<1>18. StateInv'
  BY <1>1, <1>13 DEF SelfInv, StateInv, UpdatePending, NotNewer
<1>19. SelfShapes'
  BY <1>1, <1>12, <1>17 DEF SelfInv, SelfShapes
<1> QED
  BY <1>1, <1>17, <1>18, <1>19, PendingKept DEF SelfInv

--------------------------------------------------------------------------------
(* The phases.                                                                 *)

(* A process that has nothing to do, or has only just taken an operation up.   *)
LEMMA IdleWork ==
  ASSUME su' = SuIdle
  PROVE  WorkInv' /\ su' = [job |-> su'.job, op |-> su'.op, todo |-> su'.todo, goal |-> su'.goal]
                  /\ su'.todo \in Seq(Cmds)
  BY DEF SuIdle, WorkInv

(* An operation taken up has no program yet.                                   *)
LEMMA TakenUp ==
  ASSUME NEW i, su' = Work(i), UpdatePending(i)', NEW rec, rec = records'[i],
         rec \in UpdateRecords, rec.phase \notin Terminal
  PROVE  WorkInv' /\ su' = [job |-> su'.job, op |-> su'.op, todo |-> su'.todo, goal |-> su'.goal]
                  /\ su'.todo \in Seq(Cmds)
<1>1. su'.job = "update" /\ su'.op = i /\ su'.todo = <<>> /\ su'.goal = "none"
      /\ su' = [job |-> su'.job, op |-> su'.op, todo |-> su'.todo, goal |-> su'.goal]
  BY DEF Work
<1>2. PICK t, p : t = rec.cand /\ p = rec.prev
  OBVIOUS
<1>3. t \in Releases /\ p \in Releases
  BY <1>2 DEF UpdateRecords
<1>4. /\ \A cmd \in {"link", "restore", "copy"} : Without(<<>>, cmd)
      /\ \A u \in Releases : \A k \in 1..Len(<<>>) : FALSE
  BY <1>3 DEF Without
<1>5. LinksTo(<<>>, t)' /\ LinksTo(<<>>, p)'
  BY <1>3 DEF LinksTo
<1>6. UpdateInv(rec)'
  BY <1>1, <1>2, <1>4, <1>5 DEF UpdateInv, Without
<1> QED
  BY <1>1, <1>6 DEF WorkInv

(* A record of the operation at work that the process goes on with: nothing    *)
(* but the program and the goal change.                                        *)
LEMMA Reworks ==
  ASSUME SelfInv, UNCHANGED <<records, backups, current, lkg, running, wrote, supervisor>>,
         WorkInv', su'.todo \in Seq(Cmds),
         su' = [job |-> su'.job, op |-> su'.op, todo |-> su'.todo, goal |-> su'.goal]
  PROVE  SelfInv'
  BY PendingKept, StateKept DEF SelfInv, SelfShapes

(* The probe fails an update; the recovery tool stops.                         *)
LEMMA Probes ==
  ASSUME SelfInv, CheckHealth
  PROVE  SelfInv'
<1>1. Todo1("health") /\ UNCHANGED <<records, backups, current, lkg, running, wrote, supervisor>>
  BY DEF CheckHealth, links, host
<1>2. CASE Done
  BY <1>1, <1>2, PlainCommand, Reworks
<1>3. CASE su' = SuIdle
  BY <1>1, <1>3, IdleWork, Reworks
<1>4. CASE su.job = "update" /\ su' = [su EXCEPT !.todo = <<>>, !.goal = Unhealthy(SuRec.phase)]
  <2>1. PICK rec : rec = records[su.op]
    OBVIOUS
  <2>2. UpdatePending(su.op) /\ UpdateInv(rec)
    BY <1>4, <2>1 DEF SelfInv, WorkInv
  <2>3. PICK g : g = Unhealthy(SuRec.phase)
    OBVIOUS
  <2>4. g \in {"rollback", "needs_reconcile"}
    BY <2>3 DEF Unhealthy
  <2>5. su' = [job |-> su.job, op |-> su.op, todo |-> <<>>, goal |-> g]
    BY <1>4, <2>3 DEF SelfInv, SelfShapes
  <2>6. su'.todo = <<>> /\ su'.goal = g /\ su'.op = su.op /\ su'.job = "update"
    <3>1. su'.todo = <<>> /\ su'.goal = g /\ su'.op = su.op /\ su'.job = su.job
      BY <2>5
    <3> QED
      BY <1>4, <3>1
  <2>7. PICK t, p : t = rec.cand /\ p = rec.prev
    OBVIOUS
  <2>8. rec \in UpdateRecords /\ t \in Releases /\ p \in Releases
    BY <2>1, <2>2, <2>7, PendingFacts DEF UpdateRecords
  <2>9. LinksTo(<<>>, t)' /\ LinksTo(<<>>, p)'
    BY <2>8 DEF LinksTo
  <2>10. \A cmd \in {"link", "restore", "copy"} : Without(<<>>, cmd)
    BY DEF Without
  <2>11. UpdateInv(rec)'
    BY <2>2, <2>4, <2>6, <2>7, <2>9, <2>10 DEF UpdateInv, Without
  <2>12. UpdatePending(su.op)' /\ records'[su'.op] = rec
    BY <1>1, <2>1, <2>2, <2>6 DEF UpdatePending
  <2>13. WorkInv' /\ su'.todo \in Seq(Cmds)
    BY <2>6, <2>11, <2>12 DEF WorkInv
  <2> QED
    BY <1>1, <2>5, <2>13, Reworks
<1> QED
  BY <1>2, <1>3, <1>4 DEF CheckHealth

(* What phase backup does touches no link and puts nothing back.               *)
LEMMA BackupProgram ==
  ASSUME NEW rec
  PROVE  /\ BackupState(rec) \in Seq(Cmds)
         /\ Without(BackupState(rec), "link") /\ Without(BackupState(rec), "restore")
<1>1. PICK f, c, e : f = <<<<"fresh">>>> /\ c = CopyAll /\ e = <<<<"receipt">>>>
  OBVIOUS
<1>2. /\ f \in Seq(Cmds) /\ Len(f) = 1 /\ f[1][1] = "fresh"
      /\ e \in Seq(Cmds) /\ Len(e) = 1 /\ e[1][1] = "receipt"
  <2>1. <<"fresh">> \in Cmds /\ <<"receipt">> \in Cmds
    BY DEF Cmds
  <2> QED
    BY <1>1, <2>1
<1>3. c \in Seq(Cmds) /\ \A k \in 1..Len(c) : c[k][1] = "copy"
  BY <1>1, CopyList
<1>4. PICK v : v = f \o c
  OBVIOUS
<1>5. PICK w : w = v \o e
  OBVIOUS
<1>6. JoinOf(f, c, v)
  BY <1>2, <1>3, <1>4, Joined
<1>7. v \in Seq(Cmds) /\ \A k \in 1..Len(v) : v[k][1] \in {"fresh", "copy"}
  <2>1. ASSUME NEW k \in 1..Len(v) PROVE v[k][1] \in {"fresh", "copy"}
    <3>1. CASE k \in 1..Len(f)
      BY <1>2, <1>6, <3>1 DEF JoinOf
    <3>2. ASSUME NEW j \in 1..Len(c), k = Len(f) + j PROVE v[k][1] = "copy"
      BY ZenonT(60), <1>3, <1>6, <3>2 DEF JoinOf
    <3> QED
      BY <1>6, <3>1, <3>2 DEF JoinOf
  <2> QED
    BY <1>6, <2>1 DEF JoinOf
<1>8. JoinOf(v, e, w)
  BY <1>2, <1>5, <1>7, Joined
<1>9. w \in Seq(Cmds) /\ \A k \in 1..Len(w) : w[k][1] \in {"fresh", "copy", "receipt"}
  <2>1. ASSUME NEW k \in 1..Len(w) PROVE w[k][1] \in {"fresh", "copy", "receipt"}
    <3>1. CASE k \in 1..Len(v)
      BY <1>7, <1>8, <3>1 DEF JoinOf
    <3>2. ASSUME NEW j \in 1..Len(e), k = Len(v) + j PROVE w[k][1] = "receipt"
      <4>1. j = 1
        BY <1>2
      <4> QED
        BY <1>2, <1>8, <3>2, <4>1 DEF JoinOf
    <3> QED
      BY <1>8, <3>1, <3>2 DEF JoinOf
  <2> QED
    BY <1>8, <2>1 DEF JoinOf
<1>10. BackupState(rec) = <<>> \/ BackupState(rec) = w
  BY <1>1, <1>4, <1>5 DEF BackupState
<1>11. Without(w, "link") /\ Without(w, "restore")
  BY <1>9 DEF Without
<1>12. <<>> \in Seq(Cmds) /\ Without(<<>>, "link") /\ Without(<<>>, "restore")
  BY DEF Without
<1> QED
  BY <1>9, <1>10, <1>11, <1>12

(* Nor does what follows a link.                                               *)
LEMMA StartProgram ==
  /\ StartAll \in Seq(Cmds) /\ StartAll \o <<<<"health">>>> \in Seq(Cmds)
  /\ \A cmd \in {"link", "restore", "copy"} :
       Without(StartAll, cmd) /\ Without(StartAll \o <<<<"health">>>>, cmd)
<1>1. PICK a, h : a = StartAll /\ h = <<<<"health">>>>
  OBVIOUS
<1>2. a \in Seq(Cmds) /\ \A k \in 1..Len(a) : a[k][1] = "start"
  BY <1>1, StartList
<1>3. h \in Seq(Cmds) /\ Len(h) = 1 /\ h[1][1] = "health"
  <2>1. <<"health">> \in Cmds
    BY DEF Cmds
  <2> QED
    BY <1>1, <2>1
<1>4. PICK w : w = a \o h
  OBVIOUS
<1>5. JoinOf(a, h, w)
  BY <1>2, <1>3, <1>4, Joined
<1>6. ASSUME NEW k \in 1..Len(w) PROVE w[k][1] \in {"start", "health"}
  <2>1. CASE k \in 1..Len(a)
    BY <1>2, <1>5, <2>1 DEF JoinOf
  <2>2. ASSUME NEW j \in 1..Len(h), k = Len(a) + j PROVE w[k][1] = "health"
    <3>1. j = 1
      BY <1>3
    <3> QED
      BY <1>3, <1>5, <2>2, <3>1 DEF JoinOf
  <2> QED
    BY <1>5, <2>1, <2>2 DEF JoinOf
<1>7. \A cmd \in {"link", "restore", "copy"} : Without(a, cmd) /\ Without(w, cmd)
  BY <1>2, <1>6 DEF Without
<1> QED
  BY <1>1, <1>2, <1>4, <1>5, <1>7 DEF JoinOf

(* The program of a phase, and what it promises.                               *)
Promises(rec, q) ==
  /\ q \in Seq(Cmds)
  /\ rec.phase = "switch" =>
       LinksTo(q, rec.cand) /\ Without(q, "restore") /\ LeadsTo(q, rec.cand)
  /\ rec.phase = "rollback" => LinksTo(q, rec.prev) /\ LeadsTo(q, rec.prev)
  /\ rec.phase \notin {"switch", "rollback"} => Without(q, "link") /\ Without(q, "restore")
  /\ rec.phase # "backup" => Without(q, "copy")

(* Every phase has the program its record promises.                            *)
LEMMA PhaseProgram ==
  ASSUME SelfInv, NEW rec \in UpdateRecords, rec.phase \notin Terminal,
         current \in {rec.prev, rec.cand}, SourceSeq[rec.prev] < SourceSeq[rec.cand]
  PROVE  Promises(rec, Todo(rec))
<1>1. PICK q : q = Todo(rec)
  OBVIOUS
<1>2. PICK t, p : t = rec.cand /\ p = rec.prev
  OBVIOUS
<1>3. t \in Releases /\ p \in Releases /\ rec.phase \in UpdatePhases
  BY <1>2 DEF UpdateRecords
<1>4. <<>> \in Seq(Cmds) /\ \A cmd \in {"link", "restore", "copy"} : Without(<<>>, cmd)
  BY DEF Without
<1>5. LinksTo(<<>>, t) /\ LinksTo(<<>>, p)
  BY <1>3, NothingLeft
<1>6. CASE rec.phase = "backup"
  <2>1. q = BackupState(rec)
    BY <1>1, <1>6 DEF Todo
  <2> QED
    BY <1>1, <1>6, <2>1, BackupProgram DEF Promises
<1>7. CASE rec.phase = "switch"
  <2>1. CASE current = p
    <3>1. q = Activate(t)
      BY <1>1, <1>2, <1>7, <2>1 DEF Todo
    <3>2. Switches(q, t, FALSE)
      BY <1>3, <3>1, ActivateSwitches
    <3>3. NotNewer(p, t)
      BY <1>2, <1>3 DEF NotNewer
    <3>4. ASSUME NEW d \in Dbs PROVE Fits(d, t)
      <4>1. \A r \in wrote[d] : NotNewer(r, p)
        BY <2>1 DEF SelfInv, StateInv
      <4>2. \A r \in wrote[d] : NotNewer(r, t)
        BY <3>3, <4>1, NotNewerTrans
      <4> QED
        BY <2>1, <3>3, <4>2 DEF Fits
    <3>5. LinksTo(q, t) /\ LeadsTo(q, t)
      BY <1>3, <3>2, <3>4, SwitchesLink
    <3>6. q \in Seq(Cmds) /\ Without(q, "restore") /\ Without(q, "copy")
      BY <3>2 DEF Switches
    <3> QED
      BY <1>1, <1>2, <1>7, <3>5, <3>6 DEF Promises
  <2>2. CASE current # p
    <3>1. q = <<>> /\ current = t
      BY <1>1, <1>2, <1>7, <2>2 DEF Todo
    <3>2. LeadsTo(q, t)
      BY <3>1 DEF LeadsTo
    <3> QED
      BY <1>1, <1>2, <1>4, <1>5, <1>7, <3>1, <3>2 DEF Promises
  <2> QED
    BY <2>1, <2>2
<1>8. CASE rec.phase = "rollback"
  <2>1. CASE current = t
    <3>1. q = RestoreTo(p)
      BY <1>1, <1>2, <1>8, <2>1 DEF Todo
    <3>2. Switches(q, p, TRUE)
      BY <1>3, <3>1, RestoreSwitches
    <3>3. LinksTo(q, p) /\ LeadsTo(q, p)
      BY <1>3, <3>2, SwitchesLink
    <3>4. q \in Seq(Cmds) /\ Without(q, "copy")
      BY <3>2 DEF Switches
    <3> QED
      BY <1>1, <1>2, <1>8, <3>3, <3>4 DEF Promises
  <2>2. CASE current # t
    <3>1. q = <<>> /\ current = p
      BY <1>1, <1>2, <1>8, <2>2 DEF Todo
    <3>2. LeadsTo(q, p)
      BY <3>1 DEF LeadsTo
    <3> QED
      BY <1>1, <1>2, <1>4, <1>5, <1>8, <3>1, <3>2 DEF Promises
  <2> QED
    BY <2>1, <2>2
<1>9. CASE rec.phase = "start"
  <2>1. q = StartAll
    BY <1>1, <1>9 DEF Todo
  <2> QED
    BY <1>1, <1>9, <2>1, StartProgram DEF Promises
<1>10. CASE rec.phase = "rollback_health"
  <2>1. q = StartAll \o <<<<"health">>>>
    BY <1>1, <1>10 DEF Todo
  <2> QED
    BY <1>1, <1>10, <2>1, StartProgram DEF Promises
<1>11. CASE rec.phase \in {"health", "commit"}
  <2>1. PICK c : q = <<c>> /\ c \in {<<"health">>, <<"lkg", p>>}
    BY <1>1, <1>2, <1>11 DEF Todo, CommitTo
  <2>2. c \in Cmds /\ c[1] \in {"health", "lkg"}
    BY <1>3, <2>1 DEF Cmds
  <2>3. q \in Seq(Cmds) /\ Len(q) = 1 /\ q[1] = c
    BY <2>1, <2>2
  <2>4. \A cmd \in {"link", "restore", "copy"} : Without(q, cmd)
    BY <2>2, <2>3 DEF Without
  <2> QED
    BY <1>1, <1>11, <2>3, <2>4 DEF Promises
<1> QED
  BY <1>3, <1>6, <1>7, <1>8, <1>9, <1>10, <1>11 DEF UpdatePhases

(* Nothing that a program's promises are about changes.                        *)
LEMMA LinksKept ==
  ASSUME UNCHANGED <<current, running, wrote>>, NEW q, NEW t
  PROVE  (LinksTo(q, t) <=> LinksTo(q, t)') /\ (LeadsTo(q, t) <=> LeadsTo(q, t)')
<1>1. ASSUME NEW s, NEW k PROVE StopsBefore(s, q, k) <=> StopsBefore(s, q, k)'
  BY DEF StopsBefore
<1>2. ASSUME NEW d, NEW k PROVE Restores(d, q, k) <=> Restores(d, q, k)'
  BY <1>1 DEF Restores
<1>3. ASSUME NEW d PROVE Fits(d, t) <=> Fits(d, t)'
  BY DEF Fits, NotNewer
<1>4. ASSUME NEW k PROVE LinkSafe(q, k, t) <=> LinkSafe(q, k, t)'
  BY <1>1, <1>2, <1>3 DEF LinkSafe
<1> QED
  BY <1>4 DEF LinksTo, LeadsTo

(* The coordinator makes the program of the phase.                             *)
LEMMA Advances ==
  ASSUME SelfInv, Advance
  PROVE  SelfInv'
<1>1. /\ su.job = "update" /\ su.goal = "none"
      /\ UNCHANGED <<records, backups, current, lkg, running, wrote, supervisor>>
  BY DEF Advance, links, host
<1>2. PICK rec : rec = records[su.op]
  OBVIOUS
<1>3. UpdatePending(su.op) /\ UpdateInv(rec) /\ su.todo = <<>> /\ rec.phase \notin Terminal
  BY <1>1, <1>2 DEF SelfInv, WorkInv, UpdateInv
<1>4. rec \in UpdateRecords /\ RecordInv(su.op)
  BY <1>2, <1>3, PendingFacts
<1>5. current \in {rec.prev, rec.cand} /\ SourceSeq[rec.prev] < SourceSeq[rec.cand]
  BY <1>2, <1>4 DEF RecordInv
<1>6. PICK t, p : t = rec.cand /\ p = rec.prev
  OBVIOUS
<1>7. t \in Releases /\ p \in Releases
  BY <1>4, <1>6 DEF UpdateRecords
<1>8. PICK q, g : /\ su' = [job |-> "update", op |-> su.op, todo |-> q, goal |-> g]
                  /\ \/ q = Todo(rec) /\ g = Good(rec.phase)
                     \/ q = <<>> /\ g = "needs_reconcile"
  <2>1. su = [job |-> "update", op |-> su.op, todo |-> <<>>, goal |-> "none"]
    BY <1>1, <1>3 DEF SelfInv, SelfShapes
  <2>2. CASE su' = [su EXCEPT !.todo = Todo(rec), !.goal = Good(rec.phase)]
    <3>1. PICK w, g : w = Todo(rec) /\ g = Good(rec.phase)
      OBVIOUS
    <3>2. su' = [su EXCEPT !.todo = w, !.goal = g]
      BY <2>2, <3>1
    <3>3. su' = [job |-> su.job, op |-> su.op, todo |-> w, goal |-> g]
      BY <3>2 DEF SelfInv, SelfShapes
    <3>4. su' = [job |-> "update", op |-> su.op, todo |-> w, goal |-> g]
      BY <1>1, <3>3
    <3> QED
      BY <3>1, <3>4
  <2>3. CASE su' = [su EXCEPT !.goal = "needs_reconcile"]
    <3>1. su' = [job |-> "update", op |-> su.op, todo |-> <<>>, goal |-> "needs_reconcile"]
      BY <2>1, <2>3
    <3> QED
      BY <3>1
  <2> QED
    BY <1>2, <2>2, <2>3 DEF Advance
<1>9. su'.job = "update" /\ su'.op = su.op /\ su'.todo = q /\ su'.goal = g
  BY <1>8
<1>10. q \in Seq(Cmds) /\ UpdateInv(rec)'
  <2>1. CASE q = Todo(rec) /\ g = Good(rec.phase)
    <3>1. Promises(rec, q)
      BY <1>3, <1>4, <1>5, <2>1, PhaseProgram
    <3>2. /\ rec.phase = "switch" => LinksTo(q, t)' /\ LeadsTo(q, t)'
          /\ rec.phase = "rollback" => LinksTo(q, p)' /\ LeadsTo(q, p)'
      BY <1>1, <1>6, <3>1, LinksKept DEF Promises
    <3>3. rec.phase \in UpdatePhases
      BY <1>3, <1>4 DEF UpdateRecords
    <3>4. g # "none"
      BY <2>1, <3>3 DEF Good, UpdatePhases
    <3> QED
      BY <1>3, <1>6, <1>9, <2>1, <3>1, <3>2, <3>4 DEF UpdateInv, Promises, Without
  <2>2. CASE q = <<>> /\ g = "needs_reconcile"
    <3>1. LinksTo(<<>>, t)' /\ LinksTo(<<>>, p)'
      BY <1>7 DEF LinksTo
    <3>2. \A cmd \in {"link", "restore", "copy"} : Without(<<>>, cmd)
      BY DEF Without
    <3> QED
      BY <1>3, <1>6, <1>9, <2>2, <3>1, <3>2 DEF UpdateInv, Without
  <2> QED
    BY <1>8, <2>1, <2>2
<1>11. UpdatePending(su.op)' /\ records'[su'.op] = rec
  BY <1>1, <1>2, <1>3, <1>9 DEF UpdatePending
<1>12. WorkInv'
  BY <1>9, <1>10, <1>11 DEF WorkInv
<1> QED
  BY <1>1, <1>8, <1>9, <1>10, <1>12, Reworks

(* A function on 1..n is a list of length n.                                   *)
LEMMA FunctionIsList ==
  ASSUME NEW S, NEW n \in Nat, NEW z \in [1..n -> S]
  PROVE  z \in Seq(S) /\ Len(z) = n
<1>1. z \in Seq(S)
  OBVIOUS
<1> QED
  BY <1>1

(* The journal after the record of operation o has moved on to phase g.        *)
MovesOn(o, g) ==
  /\ records' \in Seq(UpdateRecords) /\ Len(records') = Len(records)
  /\ \A i \in 1..Len(records) : i # o => records'[i] = records[i]
  /\ records'[o] \in UpdateRecords
  /\ records'[o].cand = records[o].cand /\ records'[o].prev = records[o].prev
  /\ records'[o].phase = g

(* What a transition writes into the journal.                                  *)
LEMMA JournalMovesOn ==
  ASSUME NEW l, l = records, l \in Seq(UpdateRecords), NEW o \in 1..Len(l),
         NEW g \in UpdatePhases \cup Terminal,
         records' = [l EXCEPT ![o].phase = g, ![o].backup = @ \/ l[o].phase = "backup"]
  PROVE  MovesOn(o, g)
<1>1. PICK n \in Nat : n = Len(l)
  OBVIOUS
<1>2. l \in [1..n -> UpdateRecords] /\ o \in 1..n
  BY <1>1
<1>3. PICK rec : rec = l[o]
  OBVIOUS
<1>4. rec \in UpdateRecords
  BY <1>2, <1>3
<1>5. PICK new : new = [rec EXCEPT !.phase = g, !.backup = @ \/ rec.phase = "backup"]
  OBVIOUS
<1>6. new.cand = rec.cand /\ new.prev = rec.prev /\ new.phase = g
  BY <1>4, <1>5 DEF UpdateRecords
<1>7. new \in UpdateRecords
  BY <1>4, <1>5 DEF UpdateRecords
<1>10. records' = [l EXCEPT ![o] = new]
  BY <1>2, <1>3, <1>5
<1>11. records' \in [1..n -> UpdateRecords]
  BY <1>2, <1>7, <1>10
<1>12. records' \in Seq(UpdateRecords) /\ Len(records') = n
  <2>1. PICK z : z = records'
    OBVIOUS
  <2>2. z \in [1..n -> UpdateRecords]
    BY <1>11, <2>1
  <2>3. z \in Seq(UpdateRecords) /\ Len(z) = n
    BY <2>2, FunctionIsList
  <2> QED
    BY <2>1, <2>3
<1>13. records'[o] = new /\ \A i \in 1..n : i # o => records'[i] = l[i]
  BY <1>2, <1>10
<1> QED
  BY <1>1, <1>3, <1>6, <1>7, <1>12, <1>13 DEF MovesOn

(* A transition: the link is where the next phase expects it.                  *)
LEMMA MovesPhase ==
  ASSUME SelfInv, Transition
  PROVE  SelfInv'
<1>1. /\ su.job \in {"update", "restore"} /\ su.goal # "none" /\ su.todo = <<>>
      /\ records' = [records EXCEPT ![su.op].phase = su.goal,
                                    ![su.op].backup = @ \/ records[su.op].phase = "backup"]
      /\ su' = IF su.goal \in Terminal THEN SuIdle ELSE Work(su.op)
      /\ UNCHANGED <<backups, current, lkg, running, wrote, supervisor>>
  BY DEF Transition, links, host
<1>2. PICK o, g, rec, l : o = su.op /\ g = su.goal /\ l = records /\ rec = records[su.op]
  OBVIOUS
<1>3. UpdatePending(o)
  BY <1>1, <1>2 DEF SelfInv, WorkInv
<1>4. rec \in UpdateRecords /\ RecordInv(o)
      /\ \A i \in 1..Len(records) : UpdatePending(i) => i = o
  BY <1>2, <1>3, PendingFacts
<1>5. /\ SourceSeq[rec.prev] < SourceSeq[rec.cand]
      /\ current \in {rec.prev, rec.cand}
      /\ rec.phase \in {"backup", "rollback_health"} => current = rec.prev
      /\ rec.phase \in {"start", "health", "commit"} => current = rec.cand
  BY <1>2, <1>4 DEF RecordInv
<1>6. 1..Len(<<>>) = {}
  OBVIOUS
<1>7. g \in UpdatePhases \cup Terminal
      /\ (g \in {"backup", "rollback_health"} => current = rec.prev)
      /\ (g \in {"start", "health", "commit"} => current = rec.cand)
  <2>1. CASE su.job = "update"
    <3>1. UpdateInv(rec)
      BY <1>2, <2>1 DEF SelfInv, WorkInv
    <3>2. /\ rec.phase \in UpdatePhases
          /\ g \in {Good(rec.phase), "needs_reconcile", "rollback"}
      BY <1>1, <1>2, <1>4, <3>1 DEF UpdateInv, UpdateRecords
    <3>3. rec.phase = "switch" /\ g = "start" => current = rec.cand
      BY <1>1, <1>2, <1>6, <3>1 DEF UpdateInv, LeadsTo
    <3>4. rec.phase = "rollback" /\ g = "rollback_health" => current = rec.prev
      BY <1>1, <1>2, <1>6, <3>1 DEF UpdateInv, LeadsTo
    <3>5. CASE g \in {"needs_reconcile", "rollback"}
      BY <3>5 DEF UpdatePhases, Terminal
    <3>6. CASE g = Good(rec.phase)
      <4>1. CASE rec.phase = "switch"
        BY <3>3, <3>6, <4>1 DEF Good, UpdatePhases, Terminal
      <4>2. CASE rec.phase = "rollback"
        BY <3>4, <3>6, <4>2 DEF Good, UpdatePhases, Terminal
      <4>3. CASE rec.phase \in {"backup", "start", "health", "commit", "rollback_health"}
        BY <1>5, <3>6, <4>3 DEF Good, UpdatePhases, Terminal
      <4> QED
        BY <3>2, <4>1, <4>2, <4>3 DEF UpdatePhases
    <3> QED
      BY <3>2, <3>5, <3>6
  <2>2. CASE su.job = "restore"
    <3>1. g = "rolled_back"
      BY <1>2, <2>2 DEF SelfInv, WorkInv, RestoreInv
    <3> QED
      BY <3>1 DEF Terminal
  <2> QED
    BY <1>1, <2>1, <2>2
<1>8. l \in Seq(UpdateRecords) /\ o \in 1..Len(l)
  BY <1>2, <1>3 DEF SelfInv, SelfShapes, UpdatePending
<1>9. MovesOn(o, g)
  <2>1. records' = [l EXCEPT ![o].phase = g, ![o].backup = @ \/ l[o].phase = "backup"]
    BY <1>1, <1>2
  <2> QED
    BY <1>2, <1>7, <1>8, <2>1, JournalMovesOn
<1>10. ASSUME NEW i \in 1..Len(records'), UpdatePending(i)'
       PROVE  i = o /\ UpdatePending(i) /\ records'[i].prev = records[i].prev
  BY <1>2, <1>3, <1>4, <1>9, <1>10 DEF UpdatePending, MovesOn
<1>11. RecordInv(o)'
  BY <1>1, <1>2, <1>5, <1>7, <1>9 DEF RecordInv, MovesOn
<1>12. PendingInv'
  BY <1>10, <1>11 DEF PendingInv
<1>13. StateInv'
  <2>1. \A c \in Releases : \A d \in Dbs : \A r \in backups[c].copy[d] :
          \A i \in 1..Len(records') : UpdatePending(i)' => NotNewer(r, records'[i].prev)
    BY <1>8, <1>9, <1>10 DEF SelfInv, StateInv, MovesOn
  <2> QED
    BY <1>1, <2>1 DEF SelfInv, StateInv, NotNewer
<1>14. WorkInv' /\ su' = [job |-> su'.job, op |-> su'.op, todo |-> su'.todo, goal |-> su'.goal]
       /\ su'.todo \in Seq(Cmds)
  <2>1. CASE g \in Terminal
    BY <1>1, <1>2, <2>1, IdleWork
  <2>2. CASE g \notin Terminal
    <3>1. su' = Work(o)
      BY <1>1, <1>2, <2>2
    <3>2. UpdatePending(o)'
      BY <1>2, <1>8, <1>9, <2>2 DEF MovesOn, UpdatePending, Terminal
    <3>3. PICK new : new = records'[o]
      OBVIOUS
    <3>4. new \in UpdateRecords /\ new.phase \notin Terminal
      BY <1>9, <2>2, <3>3 DEF MovesOn
    <3> QED
      BY <3>1, <3>2, <3>3, <3>4, TakenUp
  <2> QED
    BY <2>1, <2>2
<1>15. SelfShapes'
  BY <1>1, <1>9, <1>14 DEF SelfInv, SelfShapes, MovesOn
<1> QED
  BY <1>12, <1>13, <1>14, <1>15 DEF SelfInv

--------------------------------------------------------------------------------
(* Beginning.                                                                  *)

(* Records that are over.                                                      *)
OverRecords == {u \in UpdateRecords : u.phase \in {"succeeded", "rolled_back"}}

(* A new operation may begin: every record is over.                            *)
LEMMA AllOver ==
  ASSUME SelfInv, MayBegin
  PROVE  records \in Seq(OverRecords) /\ \A i \in 1..Len(records) : ~UpdatePending(i)
<1>1. PICK l : l = records
  OBVIOUS
<1>2. l \in Seq(UpdateRecords)
  BY <1>1 DEF SelfInv, SelfShapes
<1>3. \A i \in 1..Len(l) : l[i].phase \in {"succeeded", "rolled_back"}
  BY <1>1 DEF MayBegin, OpenOps, Unresolved, Terminal
<1>4. \A i \in 1..Len(l) : l[i] \in OverRecords
  BY <1>2, <1>3 DEF OverRecords
<1>5. l \in Seq(OverRecords)
  BY <1>2, <1>4
<1> QED
  BY <1>1, <1>3, <1>5 DEF UpdatePending

(* Pruning takes one of them out, at most.                                     *)
LEMMA PrunedOver ==
  ASSUME NEW l \in Seq(OverRecords)
  PROVE  Prune(l) \in Seq(OverRecords)
<1>1. PICK n \in Nat : n = Len(l)
  OBVIOUS
<1>2. PICK closed : closed = {i \in 1..Len(l) : l[i].phase \in {"succeeded", "rolled_back"}}
  OBVIOUS
<1>3. \A i \in 1..n : l[i] \in OverRecords
  BY <1>1
<1>4. closed = 1..n
  BY <1>1, <1>2, <1>3 DEF OverRecords
<1>5. PICK k : k = CHOOSE i \in closed : \A j \in closed : i <= j
  OBVIOUS
<1>6. CASE Prune(l) = l
  BY <1>6
<1>7. CASE Prune(l) # l
  <2>1. Prune(l) = RemoveAt(l, k) /\ closed # {}
    BY <1>2, <1>5, <1>7 DEF Prune
  <2>2. 1 \in closed /\ \A j \in closed : 1 <= j
    BY <1>1, <1>4, <2>1
  <2>3. k \in 1..n
    BY <1>4, <1>5, <2>2
  <2>4. PICK a, b : a = SubSeq(l, 1, k - 1) /\ b = SubSeq(l, k + 1, n)
    OBVIOUS
  <2>5. a \in Seq(OverRecords)
    <3>1. 1 \in Int /\ k - 1 \in Int /\ \A i \in 1..(k - 1) : i \in 1..n
      BY <2>3
    <3> QED
      BY <1>3, <2>4, <3>1, SubSeqProperties
  <2>6. b \in Seq(OverRecords)
    <3>1. n \in Int /\ k + 1 \in Int /\ \A i \in (k + 1)..n : i \in 1..n
      BY <2>3
    <3> QED
      BY <1>3, <2>4, <3>1, SubSeqProperties
  <2>7. a \o b \in Seq(OverRecords)
    BY <2>5, <2>6
  <2> QED
    BY <1>1, <2>1, <2>4, <2>7 DEF RemoveAt
<1> QED
  BY <1>6, <1>7

(* A new operation is the only pending one, and its way back is what runs.     *)
LEMMA Begins ==
  ASSUME SelfInv, MayBegin, current # NoRelease, NEW r \in Releases,
         SourceSeq[r] > SourceSeq[current], BeginRecord(r), su' = Work(Len(records')),
         UNCHANGED <<current, lkg, running, wrote, supervisor>>
  PROVE  SelfInv'
<1>1. PICK l : l = Prune(records)
  OBVIOUS
<1>2. l \in Seq(OverRecords)
  BY <1>1, AllOver, PrunedOver
<1>3. PICK n \in Nat : n = Len(l)
  BY <1>2
<1>4. PICK new, c : new = NewRecord(r) /\ c = current
  OBVIOUS
<1>5. c \in Releases
  BY <1>4 DEF SelfInv, SelfShapes
<1>6. /\ new \in UpdateRecords /\ new.cand = r /\ new.prev = c /\ new.phase = "backup"
  BY <1>4, <1>5 DEF NewRecord, UpdateRecords, UpdatePhases
<1>7. PICK z : z = Append(l, new)
  OBVIOUS
<1>8. records' = z
  BY <1>1, <1>4, <1>7 DEF BeginRecord
<1>8a. /\ \A x \in Releases : \A d \in Dbs : \A w \in backups'[x].copy[d] : w \in backups[x].copy[d]
      /\ backups' \in [Releases -> [state : {"none", "partial", "sealed"}, copy : [Dbs -> SUBSET Releases]]]
  <2>1. PICK b, e : b = backups /\ e = NoBackup
    OBVIOUS
  <2>2. b \in [Releases -> [state : {"none", "partial", "sealed"}, copy : [Dbs -> SUBSET Releases]]]
    BY <2>1 DEF SelfInv, SelfShapes
  <2>3. /\ e \in [state : {"none", "partial", "sealed"}, copy : [Dbs -> SUBSET Releases]]
        /\ \A d \in Dbs : e.copy[d] = {}
    BY <2>1 DEF NoBackup, Dbs
  <2>4. backups' = [b EXCEPT ![r] = e]
    BY <2>1 DEF BeginRecord
  <2>5. \A x \in Releases : backups'[x] = IF x = r THEN e ELSE b[x]
    BY <2>2, <2>4
  <2>6. backups' \in [Releases -> [state : {"none", "partial", "sealed"}, copy : [Dbs -> SUBSET Releases]]]
    BY <2>2, <2>3, <2>4
  <2> QED
    BY <2>1, <2>3, <2>5, <2>6
<1>9. l \in Seq(UpdateRecords) /\ \A i \in 1..n : l[i] \in OverRecords
  <2>1. \A i \in 1..n : l[i] \in OverRecords
    BY <1>2, <1>3
  <2>2. \A i \in 1..n : l[i] \in UpdateRecords
    BY <2>1 DEF OverRecords
  <2> QED
    BY <1>2, <1>3, <2>1, <2>2
<1>10. z \in Seq(UpdateRecords) /\ Len(z) = n + 1 /\ z[n + 1] = new /\ \A i \in 1..n : z[i] = l[i]
  BY <1>3, <1>6, <1>7, <1>9
<1>11. ASSUME NEW i \in 1..(n + 1), z[i].phase \notin {"succeeded", "rolled_back"} PROVE i = n + 1
  <2>1. CASE i \in 1..n
    BY <1>9, <1>10, <1>11, <2>1 DEF OverRecords
  <2>2. CASE i \notin 1..n
    BY <1>3, <2>2
  <2> QED
    BY <2>1, <2>2
<1>12. UpdatePending(n + 1)' /\ \A i \in 1..Len(records') : UpdatePending(i)' => i = n + 1
  <2>1. n + 1 \in 1..(n + 1)
    OBVIOUS
  <2> QED
    BY <1>6, <1>8, <1>10, <1>11, <2>1 DEF UpdatePending
<1>13. RecordInv(n + 1)'
  BY <1>4, <1>6, <1>8, <1>10, SelfUpdateAssumption DEF RecordInv
<1>14. PendingInv'
  BY <1>12, <1>13 DEF PendingInv
<1>15. StateInv'
  <2>1. ASSUME NEW x \in Releases, NEW d \in Dbs, NEW w \in backups'[x].copy[d],
               NEW i \in 1..Len(records'), UpdatePending(i)'
        PROVE  NotNewer(w, records'[i].prev)
    <3>1. NotNewer(w, c)
      BY <1>4, <1>8a DEF SelfInv, StateInv
    <3>2. records'[i].prev = c
      BY <1>6, <1>8, <1>10, <1>12, <2>1
    <3> QED
      BY <3>1, <3>2
  <2> QED
    BY <1>8a, <2>1 DEF SelfInv, StateInv, NotNewer
<1>16. su' = Work(n + 1)
  BY <1>8, <1>10
<1>17. new = records'[n + 1] /\ new.phase \notin Terminal
  BY <1>6, <1>8, <1>10 DEF Terminal
<1>18. WorkInv' /\ su' = [job |-> su'.job, op |-> su'.op, todo |-> su'.todo, goal |-> su'.goal]
                /\ su'.todo \in Seq(Cmds)
  BY <1>6, <1>12, <1>16, <1>17, TakenUp
<1>19. SelfShapes'
  BY <1>8, <1>10, <1>18, <1>8a DEF SelfInv, SelfShapes
<1> QED
  BY <1>14, <1>15, <1>18, <1>19 DEF SelfInv

(* An open operation is taken up again.                                        *)
LEMMA Resumes ==
  ASSUME SelfInv, NEW i \in OpenOps, su' = Work(i),
         UNCHANGED <<records, backups, current, lkg, running, wrote, supervisor>>
  PROVE  SelfInv'
<1>1. PICK l, rec : l = records /\ rec = l[i]
  OBVIOUS
<1>2. l \in Seq(UpdateRecords) /\ i \in 1..Len(l) /\ l[i].phase \notin Terminal
  BY <1>1 DEF SelfInv, SelfShapes, OpenOps
<1>3. rec \in UpdateRecords /\ rec.phase \notin Terminal /\ rec = records'[i]
  BY <1>1, <1>2
<1>4. UpdatePending(i)'
  BY <1>1, <1>2 DEF UpdatePending, Terminal
<1>5. WorkInv' /\ su' = [job |-> su'.job, op |-> su'.op, todo |-> su'.todo, goal |-> su'.goal]
               /\ su'.todo \in Seq(Cmds)
  BY <1>3, <1>4, TakenUp
<1> QED
  BY <1>5, Reworks

(* A cycle of the supervisor.                                                  *)
LEMMA Cycles ==
  ASSUME SelfInv, Cycle
  PROVE  SelfInv'
<1>1. UNCHANGED <<current, lkg, running, wrote, supervisor>> /\ supervisor
  BY DEF Cycle, links, host
<1>2. current # NoRelease
  BY <1>1 DEF SelfInv, SelfShapes
<1>3. ASSUME NEW i \in OpenOps, su' = Work(i), UNCHANGED <<records, backups>> PROVE SelfInv'
  BY <1>1, <1>3, Resumes
<1>4. ASSUME MayBegin, NEW r \in Releases, Newest(r), BeginRecord(r), su' = Work(Len(records'))
      PROVE  SelfInv'
  <2>1. SourceSeq[r] > SourceSeq[current]
    BY <1>4 DEF Newest, Eligible
  <2> QED
    BY <1>1, <1>2, <1>4, <2>1, Begins
<1> QED
  BY <1>3, <1>4 DEF Cycle

(* An update by the recovery tool.                                             *)
LEMMA Recovers ==
  ASSUME SelfInv, Recover
  PROVE  SelfInv'
<1>1. UNCHANGED <<current, lkg, running, wrote, supervisor>>
  BY DEF Recover, links, host
<1>3. ASSUME NEW i \in OpenOps, su' = Work(i), UNCHANGED <<records, backups>> PROVE SelfInv'
  BY <1>1, <1>3, Resumes
<1>4. ASSUME MayBegin, current # NoRelease, NEW r \in Eligible, BeginRecord(r),
             su' = Work(Len(records'))
      PROVE  SelfInv'
  <2>1. SourceSeq[r] > SourceSeq[current] /\ r \in Releases
    BY <1>4 DEF Eligible
  <2> QED
    BY <1>1, <1>4, <2>1, Begins
<1> QED
  BY <1>3, <1>4 DEF Recover

(* The recovery tool: it goes back with the databases, or starts again what    *)
(* the link names.                                                             *)
LEMMA GoesBack ==
  ASSUME SelfInv, RestoreLkg
  PROVE  SelfInv'
<1>1. UNCHANGED <<records, backups, current, lkg, running, wrote, supervisor>>
  BY DEF RestoreLkg, links, host
<1>2. PICK i \in 1..Len(records) :
        /\ Restorable(i)
        /\ su' = [job |-> "restore", op |-> i, goal |-> "rolled_back",
                  todo |-> RestoreTo(lkg) \o StartAll \o <<<<"health">>>>]
  BY DEF RestoreLkg
<1>3. PICK l, rec, t : l = records /\ rec = l[i] /\ t = rec.prev
  OBVIOUS
<1>4. rec.phase = "needs_reconcile" /\ t = lkg
  BY <1>2, <1>3 DEF Restorable, Unresolved
<1>5. l \in Seq(UpdateRecords) /\ rec \in UpdateRecords /\ t \in Releases
  <2>1. l \in Seq(UpdateRecords) /\ i \in 1..Len(l)
    BY <1>3 DEF SelfInv, SelfShapes
  <2>2. rec \in UpdateRecords
    BY <1>3, <2>1
  <2> QED
    BY <1>3, <2>1, <2>2 DEF UpdateRecords
<1>6. PICK p, q : p = RestoreTo(t) /\ q = p \o StartAll \o <<<<"health">>>>
  OBVIOUS
<1>7. Switches(q, t, TRUE)
  BY <1>5, <1>6, RestoreSwitches, SwitchThenStart
<1>8. LinksTo(q, t) /\ LeadsTo(q, t) /\ Without(q, "copy") /\ q \in Seq(Cmds)
  BY <1>5, <1>7, SwitchesLink DEF Switches
<1>9. LinksTo(q, t)' /\ LeadsTo(q, t)'
  BY <1>1, <1>8, LinksKept
<1>10. su' = [job |-> "restore", op |-> i, todo |-> q, goal |-> "rolled_back"]
  BY <1>2, <1>4, <1>6
<1>11. su'.job = "restore" /\ su'.op = i /\ su'.todo = q /\ su'.goal = "rolled_back"
  BY <1>10
<1>12. RestoreInv(rec)'
  BY <1>3, <1>4, <1>8, <1>9, <1>11 DEF RestoreInv, Without
<1>13. UpdatePending(i)' /\ records'[i] = rec
  BY <1>1, <1>3, <1>4 DEF UpdatePending
<1>14. WorkInv'
  BY <1>11, <1>12, <1>13 DEF WorkInv
<1> QED
  BY <1>1, <1>8, <1>10, <1>11, <1>14, Reworks

(* Starting again puts nothing back: nothing is newer than the link.           *)
LEMMA StartsAgain ==
  ASSUME SelfInv, RestartCurrent
  PROVE  SelfInv'
<1>1. /\ UNCHANGED <<records, backups, current, lkg, running, wrote, supervisor>>
      /\ MayBegin /\ current # NoRelease
  BY DEF RestartCurrent, links, host
<1>2. PICK t : t = current
  OBVIOUS
<1>3. t \in Releases
  BY <1>1, <1>2 DEF SelfInv, SelfShapes
<1>4. PICK p, q : p = Activate(t) /\ q = p \o StartAll \o <<<<"health">>>>
  OBVIOUS
<1>5. Switches(q, t, FALSE)
  BY <1>3, <1>4, ActivateSwitches, SwitchThenStart
<1>6. \A d \in Dbs : Fits(d, t)
  BY <1>2, <1>3 DEF Fits, NotNewer, SelfInv, StateInv
<1>7. LinksTo(q, t) /\ Without(q, "copy") /\ Without(q, "restore") /\ q \in Seq(Cmds)
  BY <1>3, <1>5, <1>6, SwitchesLink DEF Switches
<1>8. LinksTo(q, t)'
  BY <1>1, <1>7, LinksKept
<1>9. su' = [job |-> "restart", op |-> 0, todo |-> q, goal |-> "none"]
  BY <1>2, <1>4 DEF RestartCurrent
<1>10. su'.job = "restart" /\ su'.todo = q
  BY <1>9
<1>11. \A i \in 1..Len(records') : ~UpdatePending(i)'
  BY <1>1, AllOver DEF UpdatePending
<1>12. LinksTo(su.todo, current)'
  BY <1>1, <1>2, <1>8, <1>10
<1>13. RestartInv'
  BY <1>7, <1>10, <1>11, <1>12 DEF RestartInv, Without
<1>14. WorkInv'
  BY <1>10, <1>13 DEF WorkInv
<1>15. su' = [job |-> su'.job, op |-> su'.op, todo |-> su'.todo, goal |-> su'.goal]
  BY <1>9
<1> QED
  BY <1>1, <1>7, <1>10, <1>14, <1>15, Reworks

(* The process ends or dies; the journal says where the next one goes on.      *)
LEMMA Ends ==
  ASSUME SelfInv, ToolEnds \/ Interrupt
  PROVE  SelfInv'
<1>1. UNCHANGED <<records, backups, current, lkg, running, wrote, supervisor>> /\ su' = SuIdle
  BY DEF ToolEnds, Interrupt, links, host
<1> QED
  BY <1>1, IdleWork, Reworks

--------------------------------------------------------------------------------
(* The host.                                                                   *)

(* A reboot starts everything from the link; there is one, or nothing ran.     *)
LEMMA Reboots ==
  ASSUME SelfInv, Reboot
  PROVE  SelfInv'
<1>1. /\ UNCHANGED <<records, backups, current, lkg, wrote>> /\ su' = SuIdle
      /\ running' = [s \in Svcs |-> current]
  BY DEF Reboot, links
<1>2. current # NoRelease
  <2>1. PICK s \in Svcs, d \in {Databases[i] : i \in 1..Len(Databases)} :
          running[s] # NoRelease \/ wrote[d] # {}
    BY DEF Reboot, Dbs
  <2>2. CASE running[s] # NoRelease
    BY <2>2 DEF SelfInv, StateInv
  <2>3. CASE wrote[d] # {}
    <3>1. PICK r \in wrote[d] : TRUE
      BY <2>3
    <3>2. NotNewer(r, current)
      BY <3>1 DEF SelfInv, StateInv, Dbs
    <3> QED
      BY <3>2, SelfUpdateAssumption DEF NotNewer
  <2> QED
    BY <2>1, <2>2, <2>3
<1>3. StateInv'
  BY <1>1 DEF SelfInv, StateInv, UpdatePending, NotNewer
<1>4. WorkInv' /\ su' = [job |-> su'.job, op |-> su'.op, todo |-> su'.todo, goal |-> su'.goal]
               /\ su'.todo \in Seq(Cmds)
  BY <1>1, IdleWork
<1>5. SelfShapes'
  BY <1>1, <1>2, <1>4 DEF SelfInv, SelfShapes
<1> QED
  BY <1>1, <1>3, <1>4, <1>5, PendingKept DEF SelfInv

(* Before the first link there is nothing: no release wrote, none is backed    *)
(* up, and nothing runs.                                                       *)
LEMMA Initializes ==
  ASSUME SelfInv, Initialize
  PROVE  SelfInv'
<1>1. /\ UNCHANGED <<records, backups, running, wrote, su, supervisor>>
      /\ records = <<>> /\ ~supervisor /\ su = SuIdle
  BY DEF Initialize, InitialPlan, host
<1>2. WorkInv' /\ su' = [job |-> su'.job, op |-> su'.op, todo |-> su'.todo, goal |-> su'.goal]
               /\ su'.todo \in Seq(Cmds)
  BY <1>1, IdleWork
<1>3. \A i \in 1..Len(records') : FALSE
  BY <1>1
<1>4. PendingInv'
  BY <1>3 DEF PendingInv
<1>5. /\ lkg' \in {0, lkg} /\ current' \in {0, current}
      /\ current' # current => current = NoRelease
  BY DEF Initialize, StageInitial, InitializePointers, links
<1>6. SelfShapes'
  BY <1>1, <1>2, <1>5, SelfUpdateAssumption DEF SelfInv, SelfShapes
<1>7. StateInv'
  <2>1. CASE current' = current
    BY <1>1, <1>3, <2>1 DEF SelfInv, StateInv, UpdatePending, NotNewer
  <2>2. CASE current = NoRelease
    <3>1. /\ \A d \in Dbs : wrote[d] = {}
          /\ \A c \in Releases : \A d \in Dbs : backups[c].copy[d] = {}
      BY <2>2, SelfUpdateAssumption DEF SelfInv, StateInv, NotNewer
    <3>2. \A s \in Svcs : running[s] = NoRelease
      BY <2>2 DEF SelfInv, StateInv
    <3> QED
      BY <1>1, <3>1, <3>2 DEF StateInv
  <2> QED
    BY <1>5, <2>1, <2>2
<1> QED
  BY <1>2, <1>4, <1>6, <1>7 DEF SelfInv

(* Services are started, or write, beside a process at work.                   *)
LEMMA LinksBeside ==
  ASSUME SelfInv, NEW q, NEW t, LinksTo(q, t), current' = current,
         \A d \in Dbs : \A r \in wrote'[d] : NotNewer(r, current),
         \/ t = current
         \/ /\ running' = running
            /\ \A d \in Dbs : \A r \in wrote'[d] :
                 r \in wrote[d] \/ (r = current /\ \E s \in Svcs : running[s] # NoRelease)
  PROVE  LinksTo(q, t)'
<1>1. t \in Releases
  BY DEF LinksTo
<1>2. ASSUME NEW k \in 1..Len(q), q[k][1] = "link" PROVE q[k] = <<"link", t>> /\ LinkSafe(q, k, t)'
  <2>1. q[k] = <<"link", t>> /\ LinkSafe(q, k, t)
    BY <1>2 DEF LinksTo
  <2>2. CASE t = current
    <3>1. NotNewer(current', t)
      BY <1>1, <2>2 DEF NotNewer
    <3>2. \A d \in Dbs : Fits(d, t)'
      BY <2>2, <3>1 DEF Fits, NotNewer
    <3> QED
      BY <2>1, <2>2, <3>2 DEF LinkSafe
  <2>3. CASE t # current
    <3>1. ASSUME NEW s, NEW j PROVE StopsBefore(s, q, j) <=> StopsBefore(s, q, j)'
      BY <2>3 DEF StopsBefore
    <3>2. ASSUME NEW d PROVE Restores(d, q, k) <=> Restores(d, q, k)'
      BY <3>1 DEF Restores
    <3>3. ASSUME NEW d \in Dbs, Fits(d, t) PROVE Fits(d, t)'
      <4>1. NotNewer(current, t) \/ \A s \in Svcs : running[s] = NoRelease
        BY <3>3 DEF Fits
      <4>2. \A r \in wrote'[d] : NotNewer(r, t)
        BY <2>3, <3>3, <4>1 DEF Fits
      <4> QED
        BY <2>3, <4>1, <4>2 DEF Fits, NotNewer
    <3> QED
      BY <2>1, <2>3, <3>1, <3>2, <3>3 DEF LinkSafe
  <2> QED
    BY <2>2, <2>3
<1> QED
  BY <1>1, <1>2 DEF LinksTo

(* The units are installed before any update.                                  *)
LEMMA Installs ==
  ASSUME SelfInv, InstallUnits
  PROVE  SelfInv'
<1>1. /\ UNCHANGED <<records, backups, current, lkg, wrote, su, supervisor>>
      /\ records = <<>> /\ running' = [s \in Svcs |-> current]
  BY DEF InstallUnits, links
<1>2. \A i : ~UpdatePending(i)
  BY <1>1 DEF UpdatePending
<1>3. WorkInv'
  <2>1. CASE su.job = "idle" /\ su.todo = <<>>
    BY <1>1, <2>1 DEF WorkInv
  <2>2. CASE su.job = "restart" /\ RestartInv
    <3>1. PICK q, t : q = su.todo /\ t = current
      OBVIOUS
    <3>2. LinksTo(q, t) /\ Without(q, "restore") /\ Without(q, "copy")
      BY <2>2, <3>1 DEF RestartInv
    <3>3. \A d \in Dbs : \A r \in wrote'[d] : NotNewer(r, current)
      BY <1>1 DEF SelfInv, StateInv
    <3>4. LinksTo(q, t)'
      BY <1>1, <3>1, <3>2, <3>3, LinksBeside
    <3>5. LinksTo(su.todo, current)'
      BY <1>1, <3>1, <3>4
    <3>6. RestartInv'
      BY <1>1, <1>2, <3>1, <3>2, <3>5 DEF RestartInv, UpdatePending, Without
    <3> QED
      BY <1>1, <2>2, <3>6 DEF WorkInv
  <2> QED
    BY <1>2, <2>1, <2>2 DEF SelfInv, WorkInv
<1>4. StateInv'
  BY <1>1 DEF SelfInv, StateInv, UpdatePending, NotNewer
<1>5. SelfShapes'
  BY <1>1 DEF SelfInv, SelfShapes
<1> QED
  BY <1>1, <1>3, <1>4, <1>5, PendingKept DEF SelfInv

(* A service writes what it runs: what the link names.                         *)
LEMMA Writes ==
  ASSUME SelfInv, NEW s \in Svcs, NEW d \in Dbs, ServiceWrites(s, d)
  PROVE  SelfInv'
<1>1. /\ UNCHANGED <<records, backups, current, lkg, running, su, supervisor>>
      /\ running[s] # NoRelease
      /\ wrote' = [wrote EXCEPT ![d] = wrote[d] \cup {running[s]}]
  BY DEF ServiceWrites, links
<1>2. running[s] = current /\ current \in Releases
  BY <1>1 DEF SelfInv, StateInv, SelfShapes
<1>3. /\ wrote' \in [Dbs -> SUBSET Releases]
      /\ \A x \in Dbs : \A r \in wrote'[x] : r \in wrote[x] \/ r = current
  BY <1>1, <1>2 DEF SelfInv, SelfShapes
<1>4. \A x \in Dbs : \A r \in wrote'[x] : NotNewer(r, current)
  BY <1>2, <1>3 DEF SelfInv, StateInv, NotNewer
<1>5. ASSUME NEW q, NEW t, LinksTo(q, t) PROVE LinksTo(q, t)'
  <2>1. \A x \in Dbs : \A r \in wrote'[x] :
          r \in wrote[x] \/ (r = current /\ \E z \in Svcs : running[z] # NoRelease)
    BY <1>1, <1>3
  <2> QED
    BY <1>1, <1>4, <1>5, <2>1, LinksBeside
<1>6. ASSUME NEW q, NEW t, LeadsTo(q, t) PROVE LeadsTo(q, t)'
  BY <1>1, <1>6 DEF LeadsTo
<1>7. WorkInv'
  <2>1. PICK q, o, c : q = su.todo /\ o = su.op /\ c = current
    OBVIOUS
  <2>2. q = su'.todo /\ o = su'.op /\ c = current'
    BY <1>1, <2>1
  <2>3. PICK rec, t, p : rec = records[o] /\ t = rec.cand /\ p = rec.prev
    OBVIOUS
  <2>4. rec = records'[o] /\ (UpdatePending(o) <=> UpdatePending(o)')
    BY <1>1, <2>3 DEF UpdatePending
  <2>5. CASE su.job = "idle" /\ su.todo = <<>>
    BY <1>1, <2>5 DEF WorkInv
  <2>6. CASE su.job = "restart" /\ RestartInv
    <3>1. LinksTo(q, c)'
      BY <1>5, <2>1, <2>6 DEF RestartInv
    <3>2. LinksTo(su.todo, current)'
      BY <2>2, <3>1
    <3>3. RestartInv'
      BY <1>1, <2>6, <3>2 DEF RestartInv, UpdatePending, Without
    <3> QED
      BY <1>1, <2>6, <3>3 DEF WorkInv
  <2>7. CASE su.job = "update" /\ UpdatePending(su.op) /\ UpdateInv(records[su.op])
    <3>1. UpdateInv(rec)
      BY <2>1, <2>3, <2>7
    <3>2. /\ LinksTo(q, t) => LinksTo(q, t)'
          /\ LinksTo(q, p) => LinksTo(q, p)'
          /\ LeadsTo(q, t) => LeadsTo(q, t)'
          /\ LeadsTo(q, p) => LeadsTo(q, p)'
      BY <1>5, <1>6
    <3>3. UpdateInv(rec)'
      BY <1>1, <2>1, <2>2, <2>3, <3>1, <3>2 DEF UpdateInv, Without
    <3> QED
      BY <1>1, <2>1, <2>2, <2>4, <2>7, <3>3 DEF WorkInv
  <2>8. CASE su.job = "restore" /\ UpdatePending(su.op) /\ RestoreInv(records[su.op])
    <3>1. RestoreInv(rec)
      BY <2>1, <2>3, <2>8
    <3>2. (LinksTo(q, p) => LinksTo(q, p)') /\ (LeadsTo(q, p) => LeadsTo(q, p)')
      BY <1>5, <1>6
    <3>3. RestoreInv(rec)'
      BY <1>1, <2>1, <2>2, <2>3, <3>1, <3>2 DEF RestoreInv, Without
    <3> QED
      BY <1>1, <2>1, <2>2, <2>4, <2>8, <3>3 DEF WorkInv
  <2> QED
    BY <2>5, <2>6, <2>7, <2>8 DEF SelfInv, WorkInv
<1>8. StateInv'
  BY <1>1, <1>4 DEF SelfInv, StateInv, UpdatePending, NotNewer
<1>9. SelfShapes'
  BY <1>1, <1>3 DEF SelfInv, SelfShapes
<1> QED
  BY <1>1, <1>7, <1>8, <1>9, PendingKept DEF SelfInv

(* Nothing that the invariant is about changes.                                *)
LEMMA SelfQuiet ==
  ASSUME SelfInv, UNCHANGED <<records, backups, current, lkg, running, wrote, su>>,
         supervisor' => current' # NoRelease
  PROVE  SelfInv'
<1>1. ASSUME NEW q, NEW t
      PROVE  (LinksTo(q, t) <=> LinksTo(q, t)') /\ (LeadsTo(q, t) <=> LeadsTo(q, t)')
  BY LinksKept
<1>2. WorkInv'
  <2>1. PICK q, o, c : q = su.todo /\ o = su.op /\ c = current
    OBVIOUS
  <2>2. q = su'.todo /\ o = su'.op /\ c = current'
    BY <2>1
  <2>3. PICK rec, t, p : rec = records[o] /\ t = rec.cand /\ p = rec.prev
    OBVIOUS
  <2>4. rec = records'[o] /\ (UpdatePending(o) <=> UpdatePending(o)')
    BY <2>3 DEF UpdatePending
  <2>5. CASE su.job = "idle" /\ su.todo = <<>>
    BY <2>5 DEF WorkInv
  <2>6. CASE su.job = "restart" /\ RestartInv
    <3>1. LinksTo(q, c)'
      BY <1>1, <2>1, <2>6 DEF RestartInv
    <3>2. LinksTo(su.todo, current)'
      BY <2>2, <3>1
    <3>3. RestartInv'
      BY <2>6, <3>2 DEF RestartInv, UpdatePending, Without
    <3> QED
      BY <2>6, <3>3 DEF WorkInv
  <2>7. CASE su.job = "update" /\ UpdatePending(su.op) /\ UpdateInv(records[su.op])
    <3>1. UpdateInv(rec)
      BY <2>1, <2>3, <2>7
    <3>2. /\ LinksTo(q, t) <=> LinksTo(q, t)'
          /\ LinksTo(q, p) <=> LinksTo(q, p)'
          /\ LeadsTo(q, t) <=> LeadsTo(q, t)'
          /\ LeadsTo(q, p) <=> LeadsTo(q, p)'
      BY <1>1
    <3>3. UpdateInv(rec)'
      BY <2>1, <2>2, <2>3, <3>1, <3>2 DEF UpdateInv, Without
    <3> QED
      BY <2>1, <2>2, <2>4, <2>7, <3>3 DEF WorkInv
  <2>8. CASE su.job = "restore" /\ UpdatePending(su.op) /\ RestoreInv(records[su.op])
    <3>1. RestoreInv(rec)
      BY <2>1, <2>3, <2>8
    <3>2. (LinksTo(q, p) <=> LinksTo(q, p)') /\ (LeadsTo(q, p) <=> LeadsTo(q, p)')
      BY <1>1
    <3>3. RestoreInv(rec)'
      BY <2>1, <2>2, <2>3, <3>1, <3>2 DEF RestoreInv, Without
    <3> QED
      BY <2>1, <2>2, <2>4, <2>8, <3>3 DEF WorkInv
  <2> QED
    BY <2>5, <2>6, <2>7, <2>8 DEF SelfInv, WorkInv
<1>3. SelfShapes'
  BY DEF SelfInv, SelfShapes
<1> QED
  BY <1>2, <1>3, PendingKept, StateKept DEF SelfInv

(* Every step keeps the invariant.                                             *)
LEMMA SelfStep ==
  ASSUME SelfInv, [SelfNext]_suVars
  PROVE  SelfInv'
<1>1. CASE UNCHANGED suVars
  BY <1>1, SelfQuiet DEF suVars, links, host, SelfInv, SelfShapes
<1>2. ASSUME NEW r \in Releases,
             \/ PrepareOutput(r) \/ BuildOutput(r) \/ SealOutput(r)
             \/ PublishOutput(r) \/ DiscardOutput(r) \/ SignatureExpires(r)
      PROVE  SelfInv'
  <2>1. UNCHANGED <<records, backups, links, host, su, supervisor>>
    BY <1>2 DEF PrepareOutput, BuildOutput, SealOutput, PublishOutput, DiscardOutput, SignatureExpires
  <2> QED
    BY <2>1, SelfQuiet DEF links, host, SelfInv, SelfShapes
<1>3. CASE ToggleSupervisor
  BY <1>3, SelfQuiet DEF ToggleSupervisor, links, host
<1>4. ASSUME NEW s \in Svcs, ServiceRestarts(s) PROVE SelfInv'
  BY <1>4 DEF ServiceRestarts, SelfInv, StateInv
<1>5. CASE SelfNext
  BY <1>2, <1>3, <1>4, <1>5, Initializes, Installs, Writes, Cycles, Recovers, Advances, MovesPhase, Stops,
     Starts, Links, Commits, Copies, PutsBack, Probes, GoesBack, StartsAgain, Ends, Reboots
     DEF SelfNext
<1> QED
  BY <1>1, <1>5

(* It holds on a host where nothing is installed.                              *)
LEMMA SelfStart ==
  ASSUME SelfInit
  PROVE  SelfInv
<1>1. PICK l, e : l = records /\ e = NoBackup
  OBVIOUS
<1>2. l = <<>> /\ l \in Seq(UpdateRecords) /\ \A i \in 1..Len(l) : FALSE
  BY <1>1 DEF SelfInit
<1>3. /\ e \in [state : {"none", "partial", "sealed"}, copy : [Dbs -> SUBSET Releases]]
      /\ \A d \in Dbs : e.copy[d] = {}
  BY <1>1 DEF NoBackup
<1>4. su = [job |-> su.job, op |-> su.op, todo |-> su.todo, goal |-> su.goal]
      /\ su.todo = <<>> /\ su.todo \in Seq(Cmds) /\ su.job = "idle"
  BY DEF SelfInit, SuIdle
<1>5. SelfShapes
  BY <1>1, <1>2, <1>3, <1>4 DEF SelfInit, SelfShapes
<1>6. PendingInv
  BY <1>1, <1>2 DEF PendingInv
<1>7. StateInv
  BY <1>1, <1>3 DEF SelfInit, StateInv
<1> QED
  BY <1>4, <1>5, <1>6, <1>7 DEF SelfInv, WorkInv

(* For every set of releases, services and databases, and any number of        *)
(* crashes, failed commands and reboots between any two commands: no service   *)
(* ever runs on a database that a newer release has written to, whether the    *)
(* supervisor updates, rolls back, or the operator restores last-known-good    *)
(* (coordinator, restore_release_checked, activate_release).                   *)
THEOREM OldReleaseReadsOldState == SelfSpec => []NeverReadsNewerState
<1>1. SelfInit => SelfInv
  BY SelfStart
<1>2. SelfInv /\ [SelfNext]_suVars => SelfInv'
  BY SelfStep
<1>3. SelfInv => NeverReadsNewerState
  BY DEF SelfInv, StateInv, NotNewer, NeverReadsNewerState
<1> QED
  BY <1>1, <1>2, <1>3, PTL DEF SelfSpec
================================================================================
