----------------------------- MODULE SourceBroker -----------------------------
(***************************************************************************)
(* The source broker (src/source.rs) for one project: the SQLite ledger of   *)
(* accepted heads, the accepted ref in the Git repository, the queue of      *)
(* GitHub webhooks, the outbox for the workflow scheduler and the tickets     *)
(* that hold the source still for the executor.  All tables are keyed by      *)
(* project and the coordination lock is per project, so one project is the    *)
(* whole behaviour.                                                          *)
(*                                                                           *)
(* A broker process is its epoch.  It runs one call under its lock at a time; *)
(* the call is cut at every SQLite transaction and at the Git compare-and-    *)
(* swap.  A process may crash at every cut, and a superseded process (its     *)
(* lock file was replaced) goes on until a transaction refuses its epoch.     *)
(* Time is relative: the attestation of the head is fresh or expired, the     *)
(* pause of reconciliation is on or over.                                    *)
(***************************************************************************)
EXTENDS Naturals, Sequences, FiniteSets

CONSTANTS
  Commits, NoCommit,
  FirstHeads,     \* what the remote's main may be at first
  Before,         \* the strict ancestor relation of the repository
  PushIds,        \* delivery IDs of GitHub webhooks
  PushHeads,      \* the heads they announce
  Controls,       \* the owner's choices: <<blocked commit, pause>>
  DirectIds,      \* delivery IDs of direct pushes
  Attempts, NoAttempt,
  TicketPhases,   \* of "backing_up", "draining", "deploying"
  Policies,       \* installed policies: [version, auto, repo]
  DirectPushes,   \* what they push: <<old head, new head>>
  MaxSequence, MaxEpoch,
  MaxInterference, \* faults, foreign writes, owner's and remote's moves together
  MaxArrivals,    \* webhooks and direct pushes together
  MaxPendingWebhooks, Batch, Retention,
  LockReplaced    \* somebody may replace the lock file under a live process

ASSUME BeforeIsStrict ==
  /\ Before \subseteq Commits \X Commits
  /\ \A a, b, c \in Commits :
       <<a, b>> \in Before /\ <<b, c>> \in Before => <<a, c>> \in Before
  /\ \A a \in Commits : <<a, a>> \notin Before

(* A missing commit or attempt is none of them, and all heads are commits.       *)
ASSUME BrokerAssumption ==
  /\ NoCommit \notin Commits /\ NoAttempt \notin Attempts
  /\ FirstHeads \subseteq Commits /\ DirectPushes \subseteq Commits \X Commits
  /\ MaxEpoch \in Nat

VARIABLES
  ledger,      \* source_projects row
  accepted,    \* accepted_heads
  journal,     \* source_ref_update_journal
  deliveries,  \* source_deliveries, by channel and delivery ID
  wakeups,     \* source_github_wakeups
  outbox,      \* source_outbox
  ticket,      \* source_mutation_tickets
  epoch,       \* source_meta.broker_epoch
  ref,         \* the accepted ref of the Git repository
  remote,      \* refs/heads/main at GitHub (external)
  signal,      \* the priority-fetch marker
  broker,      \* the process of each epoch and the call it is in
  draining,    \* the drain of the live process has not come to its end yet
  opOf,        \* the attestation an admitted operation was given
  announced,   \* attestations the scheduler has admitted
  faults, tampers, moves  \* how often the world interfered

ledgerVars == <<ledger, accepted, journal, ticket>>
queueVars == <<deliveries, wakeups, outbox>>
worldVars == <<ref, remote, signal, draining, opOf, announced>>
vars == <<ledgerVars, queueVars, worldVars, epoch, broker, faults, tampers, moves>>

Epochs == 1..MaxEpoch
Interferes == faults + tampers + moves < MaxInterference
Channels == {"github", "reconcile", "direct"}
NoAtt == [seq |-> 0]
NoJournal == [state |-> "none"]
NoTicket == [attempt |-> NoAttempt]
NoPolicy == [version |-> 0]
Outcome(kind, att) == [kind |-> kind, att |-> att]
NoOutcome == Outcome("none", NoAtt)
EmptyLedger == [head |-> NoCommit, att |-> NoAtt, state |-> "ready", blocked |-> NoCommit,
                paused |-> FALSE, expired |-> FALSE, divergent |-> NoCommit]
Down == [pc |-> "down", policy |-> NoPolicy]
Idle(policy) == [pc |-> "idle", policy |-> policy]

----------------------------------------------------------------------------
(* Git history.                                                            *)

Relationship(old, new) ==
  CASE old = new -> "same"
    [] <<old, new>> \in Before -> "fast_forward"
    [] <<new, old>> \in Before -> "rewind"
    [] OTHER -> "diverged"

(* An attestation: the signed statement that a head was accepted.  Two          *)
(* signatures for one sequence number differ in their time, which here is the   *)
(* number of faults so far: only a fault makes the broker sign again.           *)
Sign(c, channel, policy) ==
  [seq |-> ledger.att.seq + 1, head |-> c, previous |-> ledger.head, via |-> channel,
   version |-> policy.version, at |-> faults]

----------------------------------------------------------------------------
(* The lease.                                                              *)

(* A transaction is refused unless the process has the newest epoch.            *)
RequireBoundBrokerEpoch(e) == epoch = e

(* Everything a superseded process tries next is refused, the compare-and-swap  *)
(* it has already been allowed to make excepted: elsewhere it is gone.           *)
BrokerLeaseSuperseded(d, e) == IF d # e /\ broker[d].pc # "cas" THEN Down ELSE broker[d]

(* At most one process holds the lock, unless somebody replaced the lock file.  *)
AcquireBrokerLease(e, policy) ==
  /\ e = epoch + 1
  /\ broker[e].pc = "down"
  /\ LockReplaced \/ \A d \in Epochs : broker[d].pc = "down"
  /\ epoch' = e
  /\ broker' = [d \in Epochs |-> IF d = e THEN [pc |-> "recover", policy |-> policy]
                                 ELSE BrokerLeaseSuperseded(d, e)]
  /\ draining' = FALSE
  /\ UNCHANGED <<ledgerVars, queueVars, ref, remote, signal, opOf, announced, faults, tampers, moves>>

(* The call in progress of process e moves on.                                  *)
At(e, pc) == RequireBoundBrokerEpoch(e) /\ broker[e].pc = pc
Goto(e, pc) == broker' = [broker EXCEPT ![e].pc = pc]
Enter(e, call) == broker' = [broker EXCEPT ![e] = [call EXCEPT !.policy = broker[e].policy]]
Return(e) == broker' = [broker EXCEPT ![e] = Idle(broker[e].policy)]

----------------------------------------------------------------------------
(* Outbox and webhook tables.                                              *)

(* Settled rows are kept while they are among the newest, or name the head.     *)
PruneSettledOutbox(rows, row) ==
  LET settled == {i \in DOMAIN rows : rows[i].status \in {"delivered", "superseded"}}
      newest == {i \in settled : Cardinality({j \in settled : j > i}) < Retention}
  IN  [i \in DOMAIN rows |->
         IF i \in settled \ newest /\ rows[i].att # row.att
         THEN [rows[i] EXCEPT !.status = "pruned"] ELSE rows[i]]

PruneSettledGithubWakeups(rows) ==
  LET settled == {i \in DOMAIN rows : rows[i].status = "completed"}
      newest == {i \in settled : Cardinality({j \in settled : j > i}) < Retention}
  IN  [i \in DOMAIN rows |->
         IF i \in settled \ newest THEN [rows[i] EXCEPT !.status = "pruned"] ELSE rows[i]]

(* Mutant: an older row that is still pending stays pending.                    *)
AppendOutboxRow(rows, att) ==
  IF \E i \in DOMAIN rows : rows[i].att = att /\ rows[i].status # "pruned" THEN rows
  ELSE Append(rows, [att |-> att, status |-> "pending"])

(* A newer head supersedes what is pending; the row of the same head is written *)
(* once and revived if a policy change had set it aside.                         *)
EnqueueDeployableOutcome(rows, att) ==
  LET older == [i \in DOMAIN rows |->
                  IF rows[i].status = "pending" /\ rows[i].att.seq < att.seq
                  THEN [rows[i] EXCEPT !.status = "superseded"] ELSE rows[i]]
      known == {i \in DOMAIN rows : rows[i].att = att /\ rows[i].status # "pruned"}
  IN  PruneSettledOutbox(
        IF known = {} THEN Append(older, [att |-> att, status |-> "pending"])
        ELSE [i \in DOMAIN older |->
                IF i \in known /\ older[i].status = "superseded"
                THEN [older[i] EXCEPT !.status = "pending"] ELSE older[i]],
        ledger)

(* The outbox row of an attestation, if there is one.                           *)
SourceOutboxStatus(att) ==
  LET known == {i \in DOMAIN outbox : outbox[i].att = att /\ outbox[i].status # "pruned"}
  IN  IF known = {} THEN "none" ELSE outbox[CHOOSE i \in known : TRUE].status

PendingOutbox == {i \in DOMAIN outbox : outbox[i].status = "pending"}

(* The scheduler admits a delivery whose attestation is fresh and of the         *)
(* installed policy.                                                             *)
Admit(e, i) ==
  /\ broker[e].pc # "down" /\ RequireBoundBrokerEpoch(e)
  /\ i \in PendingOutbox
  /\ broker[e].policy.auto
  /\ outbox[i].att = ledger.att => ~ledger.expired
  /\ outbox[i].att.version = broker[e].policy.version
  /\ announced' = announced \union {outbox[i].att}
  /\ UNCHANGED <<ledgerVars, queueVars, ref, remote, signal, draining, opOf, epoch, broker, faults, tampers, moves>>

(* What the scheduler has, or has already overtaken, is acknowledged; the answer *)
(* may come late, twice, or never.                                               *)
AcknowledgeOutbox(e, i) ==
  /\ broker[e].pc # "down" /\ RequireBoundBrokerEpoch(e)
  /\ i \in DOMAIN outbox /\ outbox[i].status \in {"pending", "delivered", "superseded"}
  /\ \E a \in announced : a.seq >= outbox[i].att.seq
  /\ outbox' = PruneSettledOutbox(
       [outbox EXCEPT ![i].status = IF @ = "pending" THEN "delivered" ELSE @], ledger)
  /\ UNCHANGED <<ledgerVars, deliveries, wakeups, worldVars, epoch, broker, faults, tampers, moves>>

PendingGithubWakeups == {i \in DOMAIN wakeups : wakeups[i].status = "pending"}

(* They are drained in the order they came in, some of them at a time.           *)
IsOldest(i, batch) == i \in batch /\ \A j \in batch : i <= j
OldestWakeups ==
  {i \in PendingGithubWakeups : Cardinality({j \in PendingGithubWakeups : j < i}) < Batch}

(* Webhooks queued and direct pushes begun so far; their number is bounded.      *)
Arrives ==
  Len(wakeups) + Cardinality({k \in DOMAIN deliveries : k[1] = "direct"}) < MaxArrivals

(* A webhook is queued before it is answered.  It does not wait for the lock.    *)
EnqueueGithubWakeup(e, d, c) ==
  /\ broker[e].pc # "down" /\ RequireBoundBrokerEpoch(e)
  /\ \A i \in DOMAIN wakeups : wakeups[i].id # d \/ wakeups[i].status = "pruned"
  /\ <<"github", d>> \in DOMAIN deliveries => deliveries[<<"github", d>>].payload = c
  /\ Cardinality(PendingGithubWakeups) < MaxPendingWebhooks
  /\ Arrives
  /\ wakeups' = PruneSettledGithubWakeups(
       Append(wakeups, [id |-> d, announced |-> c, repo |-> broker[e].policy.repo,
                        status |-> "pending", notified |-> FALSE, outcome |-> NoOutcome]))
  /\ UNCHANGED <<ledgerVars, deliveries, outbox, worldVars, epoch, broker, faults, tampers, moves>>

(* After the transaction the ingress thread sets the priority-fetch marker.      *)
EnqueueGithubPush(e, i) ==
  /\ broker[e].pc # "down" /\ RequireBoundBrokerEpoch(e)
  /\ i \in DOMAIN wakeups /\ ~wakeups[i].notified
  /\ wakeups' = [wakeups EXCEPT ![i].notified = TRUE]
  /\ signal' = TRUE
  /\ UNCHANGED <<ledgerVars, deliveries, outbox, ref, remote, draining, opOf, announced, epoch,
                 broker, faults, tampers, moves>>

----------------------------------------------------------------------------
(* Deliveries: every announcement is processed once.                       *)

DeliveryRow(payload, status, token, outcome) ==
  [payload |-> payload, status |-> status, token |-> token, outcome |-> outcome]

(* The claim of a delivery, or the outcome recorded for it.  A delivery in       *)
(* progress, or with another payload, is an error.                               *)
Claimable(key, payload) ==
  key \in DOMAIN deliveries =>
    deliveries[key].payload = payload /\ deliveries[key].status = "recoverable"

Recorded(key, payload) ==
  /\ key \in DOMAIN deliveries
  /\ deliveries[key].payload = payload
  /\ deliveries[key].status = "completed"

(* The key of a reconciliation names the sequence number it starts from: an older *)
(* row is never asked for again, and the model forgets it.                       *)
Askable(key) ==
  \/ key[1] # "reconcile" \/ key[2].seq = ledger.att.seq
  \/ deliveries[key].outcome.att = ledger.att

ReserveDelivery(e, key, payload) ==
  /\ Claimable(key, payload)
  /\ deliveries' = [k \in {key} \cup {d \in DOMAIN deliveries : Askable(d)} |->
       IF k = key THEN DeliveryRow(payload, "processing", e, NoOutcome) ELSE deliveries[k]]

HoldsClaim(e, key) ==
  /\ key \in DOMAIN deliveries
  /\ deliveries[key].status = "processing" /\ deliveries[key].token = e

(* Outcome and outbox row are one transaction.                                   *)
FinishDelivery(e) ==
  LET call == broker[e] IN
  /\ At(e, "finish") /\ HoldsClaim(e, call.key)
  /\ deliveries' = [deliveries EXCEPT ![call.key] =
                      DeliveryRow(@.payload, "completed", 0, call.outcome)]
  /\ outbox' = IF call.policy.auto /\ call.outcome.kind = "deployable"
               THEN EnqueueDeployableOutcome(outbox, call.outcome.att) ELSE outbox
  /\ IF call.key[1] = "github" THEN Goto(e, "complete") ELSE Return(e)
  /\ UNCHANGED <<ledgerVars, wakeups, worldVars, epoch, faults, tampers, moves>>

(* Any step may fail.  The claim is given back, unless that fails too.  A drain   *)
(* that fails, wherever it was, is tried again later.                            *)
CallFails(e) ==
  /\ RequireBoundBrokerEpoch(e)
  /\ Interferes
  /\ broker[e].pc \in {"decide", "begin", "lease", "cas", "mark", "accept", "diverge", "finish",
                       "reserve", "complete", "clear", "recheck"}
  /\ broker[e].key # "recovery"
  /\ faults' = faults + 1
  /\ \/ deliveries' = [deliveries EXCEPT ![broker[e].key] =
                         IF HoldsClaim(e, broker[e].key)
                         THEN [@ EXCEPT !.status = "recoverable"] ELSE @]
     \/ UNCHANGED deliveries
  /\ Return(e)
  /\ UNCHANGED <<ledgerVars, wakeups, outbox, worldVars, epoch, tampers, moves>>

(* The same for an error the code itself raises.                                 *)
AbandonDelivery(e) ==
  /\ deliveries' = [deliveries EXCEPT ![broker[e].key] =
                      IF HoldsClaim(e, broker[e].key)
                      THEN [@ EXCEPT !.status = "recoverable"] ELSE @]
  /\ Return(e)

Crash(e) ==
  /\ broker[e].pc # "down"
  /\ Interferes
  /\ faults' = faults + 1
  /\ broker' = [broker EXCEPT ![e] = Down]
  /\ draining' = (draining /\ e # epoch)
  /\ UNCHANGED <<ledgerVars, queueVars, ref, remote, signal, opOf, announced, epoch, tampers, moves>>

----------------------------------------------------------------------------
(* Accepting a candidate.                                                  *)

(* The accepted head is announced again under the same attestation, unless that *)
(* is of another policy, or has expired before the scheduler had it.             *)
ExistingSameHeadDelivery(call) ==
  /\ ledger.att.version = call.policy.version
  /\ ~(ledger.expired /\ call.policy.auto /\ SourceOutboxStatus(ledger.att) # "delivered")
  /\ ~(ledger.expired /\ call.refresh)

(* A webhook's head against what was fetched: the remote may be behind it, or    *)
(* may have been rewritten.                                                      *)
ProcessGithubCandidate(call) ==
  CASE Relationship(call.announced, call.cand) = "rewind" -> "remote_behind"
    [] Relationship(call.announced, call.cand) = "diverged" -> "diverge"
    [] OTHER -> "process"

(* Mutant: a candidate the accepted head does not descend to is accepted.        *)
VerdictWithoutHistory(call) ==
  IF ledger.state = "diverged" THEN "diverged"
  ELSE IF ledger.head = call.cand /\ ExistingSameHeadDelivery(call) THEN "deployable"
  ELSE "accept"

(* What becomes of a candidate, in the order the code asks.                      *)
CandidateVerdict(call) ==
  LET c == call.cand
      rel == IF ledger.head = NoCommit THEN "first" ELSE Relationship(ledger.head, c)
  IN  IF ProcessGithubCandidate(call) # "process" THEN ProcessGithubCandidate(call)
      ELSE IF ledger.state = "diverged" THEN "diverged"
      ELSE IF call.key[1] = "reconcile" /\ ledger.paused THEN "paused"
      ELSE IF ledger.blocked = c THEN "blocked"
      ELSE IF rel = "rewind" /\ call.key[1] = "direct" /\ call.previous # ledger.head THEN "stale"
      ELSE IF rel \in {"rewind", "diverged"} THEN "diverge"
      ELSE IF rel = "same" /\ ExistingSameHeadDelivery(call) THEN "deployable"
      ELSE "accept"

ProcessCandidate(e) ==
  LET call == broker[e]
      verdict == CandidateVerdict(call)
  IN
  /\ At(e, "decide")
  /\ \/ /\ verdict = "remote_behind"
        /\ AbandonDelivery(e)
     \/ /\ verdict = "accept"
        /\ ledger.att.seq < MaxSequence
        /\ broker' = [broker EXCEPT ![e].pc = "begin",
                        ![e].att = Sign(call.cand, call.key[1], call.policy)]
        /\ UNCHANGED deliveries
     \/ /\ verdict = "diverge"
        /\ Goto(e, "diverge")
        /\ UNCHANGED deliveries
     \/ /\ verdict \in {"diverged", "paused", "blocked", "stale", "deployable"}
        /\ broker' = [broker EXCEPT ![e].pc = "finish",
                        ![e].outcome = Outcome(verdict, IF verdict = "deployable"
                                                        THEN ledger.att ELSE NoAtt)]
        /\ UNCHANGED deliveries
  /\ UNCHANGED <<ledgerVars, wakeups, outbox, worldVars, epoch, faults, tampers, moves>>

(* The head the call decided on is still the head.                               *)
ExpectedSnapshot(att) ==
  /\ ledger.head = att.previous /\ ledger.att.seq + 1 = att.seq
  /\ ledger.state = "ready"

(* Mutant: the ref moves although an operation holds the head.                   *)
BeginWithoutTicketCheck(e) ==
  LET att == broker[e].att IN
  /\ At(e, "begin") /\ ExpectedSnapshot(att) /\ journal.state = "none"
  /\ journal' = [state |-> "intent_persisted", att |-> att]
  /\ Goto(e, "lease")
  /\ UNCHANGED <<ledger, accepted, ticket, deliveries, wakeups, outbox, worldVars, epoch,
                 faults, tampers, moves>>

(* The intent is written before the ref moves, and not while a ticket is out.    *)
BeginRefUpdate(e) ==
  LET att == broker[e].att
      same == journal.state # "none" /\ journal.att = att
  IN
  /\ At(e, "begin")
  /\ \/ /\ ~ExpectedSnapshot(att)
        /\ Goto(e, "decide")
        /\ UNCHANGED <<journal, deliveries>>
     \/ /\ ExpectedSnapshot(att)
        /\ ticket # NoTicket \/ (journal.state # "none" /\ ~same)
        /\ AbandonDelivery(e)
        /\ UNCHANGED journal
     \/ /\ ExpectedSnapshot(att)
        /\ ticket = NoTicket /\ (journal.state = "none" \/ same)
        /\ journal' = IF same THEN journal ELSE [state |-> "intent_persisted", att |-> att]
        /\ Goto(e, "lease")
        /\ UNCHANGED deliveries
  /\ UNCHANGED <<ledger, accepted, ticket, wakeups, outbox, worldVars, epoch, faults, tampers, moves>>

(* The last look at the lease before the Git repository is changed.              *)
RequireCurrentLease(e) ==
  /\ At(e, "lease")
  /\ Goto(e, "cas")
  /\ UNCHANGED <<ledgerVars, queueVars, worldVars, epoch, faults, tampers, moves>>

(* Git moves the ref if it still is what the attestation replaces.  No epoch      *)
(* guards this step; the next one stops a superseded process.                    *)
AfterSwap(e, pc) ==
  broker' = [broker EXCEPT ![e] = IF epoch = e THEN [@ EXCEPT !.pc = pc] ELSE Down]

(* Mutant: the ref is moved wherever it is.                                      *)
SwapBlindly(e) ==
  /\ broker[e].pc = "cas"
  /\ ref' = broker[e].att.head
  /\ AfterSwap(e, "mark")
  /\ UNCHANGED <<ledgerVars, queueVars, remote, signal, draining, opOf, announced, epoch, faults, tampers, moves>>

CompareAndSwapAcceptedHead(e) ==
  LET att == broker[e].att IN
  /\ broker[e].pc = "cas"
  /\ \/ /\ ref = att.head
        /\ AfterSwap(e, "mark")
        /\ UNCHANGED ref
     \/ /\ ref # att.head /\ ref = att.previous /\ ~broker[e].updated
        /\ ref' = att.head
        /\ AfterSwap(e, "mark")
     \/ /\ ref # att.head /\ (ref # att.previous \/ broker[e].updated)
        /\ AfterSwap(e, "diverge")
        /\ UNCHANGED ref
  /\ UNCHANGED <<ledgerVars, queueVars, remote, signal, draining, opOf, announced, epoch, faults, tampers, moves>>

MarkRefUpdated(e) ==
  /\ At(e, "mark")
  /\ journal.state # "none" /\ journal.att = broker[e].att
  /\ journal' = [journal EXCEPT !.state = "ref_updated"]
  /\ Goto(e, "accept")
  /\ UNCHANGED <<ledger, accepted, ticket, queueVars, worldVars, epoch, faults, tampers, moves>>

(* Where a call goes once its head is accepted or refused.                       *)
Continue(e, outcome) ==
  broker' = [broker EXCEPT ![e].pc = IF broker[e].key = "recovery" THEN "startup" ELSE "finish",
                           ![e].outcome = outcome]

(* Head, attestation and the end of the journal row are one transaction.         *)
AcceptIfCurrent(e) ==
  LET att == broker[e].att IN
  /\ At(e, "accept")
  /\ ExpectedSnapshot(att)
  /\ journal.state = "ref_updated" /\ journal.att = att
  /\ ledger' = [ledger EXCEPT !.head = att.head, !.att = att, !.expired = FALSE,
                              !.divergent = NoCommit]
  /\ accepted' = Append(accepted, att)
  /\ journal' = NoJournal
  /\ Continue(e, Outcome("deployable", att))
  /\ UNCHANGED <<ticket, queueVars, worldVars, epoch, faults, tampers, moves>>

(* The first divergence is kept until the owner has decided.                     *)
DivergedLedger(candidate) ==
  [ledger EXCEPT !.state = "diverged",
                 !.divergent = IF ledger.state = "diverged" THEN @ ELSE candidate]

(* After a refused swap that is what stands in the ref's place, else the candidate. *)
DivergentHead(e) ==
  IF journal.state # "none" /\ journal.att = broker[e].att /\ ref # NoCommit
  THEN ref ELSE broker[e].cand

MarkDiverged(e) ==
  /\ At(e, "diverge")
  /\ ledger' = DivergedLedger(DivergentHead(e))
  /\ Continue(e, Outcome("diverged", NoAtt))
  /\ UNCHANGED <<accepted, journal, ticket, queueVars, worldVars, epoch, faults, tampers, moves>>

----------------------------------------------------------------------------
(* Starting a broker.                                                      *)

Call(key, cand, announcedHead, previous, refresh, batch, pc) ==
  [pc |-> pc, policy |-> NoPolicy, key |-> key, cand |-> cand, announced |-> announcedHead,
   previous |-> previous, refresh |-> refresh, batch |-> batch, att |-> NoAtt, updated |-> FALSE,
   outcome |-> NoOutcome]

(* A journal row is carried on from where the crash left it.  A row of another   *)
(* policy, or one that does not follow the head, stops the broker.               *)
RecoverRefUpdate(e) ==
  /\ At(e, "recover")
  /\ journal.state # "none"
  /\ LET att == journal.att
         broken == att.version # broker[e].policy.version
         done == ledger.att = att
         follows == ledger.head = att.previous /\ ledger.att.seq + 1 = att.seq
     IN
     \/ /\ broken \/ (ledger.state = "ready" /\ ~done /\ ~follows)
        /\ broker' = [broker EXCEPT ![e] = Down]
        /\ UNCHANGED journal
     \/ /\ ~broken /\ ledger.state = "diverged"
        /\ Goto(e, "startup")
        /\ UNCHANGED journal
     \/ /\ ~broken /\ ledger.state = "ready" /\ done
        /\ journal' = NoJournal
        /\ Goto(e, "startup")
     \/ /\ ~broken /\ ledger.state = "ready" /\ follows
        /\ Enter(e, [Call("recovery", att.head, att.head, NoCommit, FALSE, {}, "lease")
                       EXCEPT !.att = att, !.updated = (journal.state = "ref_updated")])
        /\ UNCHANGED journal
  /\ UNCHANGED <<ledger, accepted, ticket, queueVars, worldVars, epoch, faults, tampers, moves>>

(* Without a journal row, a ref that is not the ledger's head needs the owner.    *)
RecoverSourceState(e) ==
  /\ At(e, "recover")
  /\ journal.state = "none"
  /\ ledger' = IF ledger.state = "ready" /\ ref # ledger.head
               THEN DivergedLedger(IF ref # NoCommit THEN ref ELSE ledger.head) ELSE ledger
  /\ Goto(e, "startup")
  /\ UNCHANGED <<accepted, journal, ticket, queueVars, worldVars, epoch, faults, tampers, moves>>

RecoverIncompleteDeliveries(e) ==
  /\ At(e, "startup")
  /\ deliveries' = [k \in DOMAIN deliveries |->
       IF deliveries[k].status = "processing"
       THEN [deliveries[k] EXCEPT !.status = "recoverable"] ELSE deliveries[k]]
  /\ Goto(e, "policy")
  /\ UNCHANGED <<ledgerVars, wakeups, outbox, worldVars, epoch, faults, tampers, moves>>

(* Webhooks of a repository that is no longer installed are dropped.             *)
ReconcileGithubWakeupPolicy(e) ==
  LET kept == [i \in DOMAIN wakeups |->
                 IF wakeups[i].repo = broker[e].policy.repo THEN wakeups[i]
                 ELSE [wakeups[i] EXCEPT !.status = "pruned"]]
  IN
  /\ At(e, "policy")
  /\ wakeups' = PruneSettledGithubWakeups(kept)
  /\ signal' = (signal \/ \E i \in DOMAIN wakeups : wakeups'[i].status = "pending")
  /\ Goto(e, "outbox")
  /\ UNCHANGED <<ledgerVars, deliveries, outbox, ref, remote, draining, opOf, announced, epoch,
                 faults, tampers, moves>>

(* A project that is no longer deployed automatically announces nothing.         *)
ReconcileOutboxPolicy(e) ==
  /\ At(e, "outbox")
  /\ outbox' = PruneSettledOutbox(
       [i \in DOMAIN outbox |->
          IF outbox[i].status = "pending" /\ ~broker[e].policy.auto
          THEN [outbox[i] EXCEPT !.status = "superseded"] ELSE outbox[i]], ledger)
  /\ Return(e)
  /\ UNCHANGED <<ledgerVars, deliveries, wakeups, worldVars, epoch, faults, tampers, moves>>

----------------------------------------------------------------------------
(* Calls under the coordination lock.                                      *)

(* A batch of queued webhooks shares one fetch of the remote.  The loop around it  *)
(* repeats a drain that failed or was put off until the remote catches up; after  *)
(* a full batch it drains again, which the marker then asks for here.             *)
ProcessPendingGithubPushes(e) ==
  /\ At(e, "idle")
  /\ draining' = TRUE
  /\ IF PendingGithubWakeups = {}
     THEN /\ signal \/ draining
          /\ Enter(e, Call(<<"github", 0>>, NoCommit, NoCommit, NoCommit, FALSE, {}, "clear"))
     ELSE Enter(e, Call(<<"github", 0>>, remote, remote, NoCommit, FALSE, OldestWakeups, "reserve"))
  /\ UNCHANGED <<ledgerVars, queueVars, ref, remote, signal, opOf, announced, epoch,
                 faults, tampers, moves>>

ReserveWakeup(e) ==
  LET call == broker[e] IN
  /\ At(e, "reserve")
  /\ \/ /\ call.batch = {}
        /\ Goto(e, "clear")
        /\ UNCHANGED deliveries
     \/ \E i \in DOMAIN wakeups :
          LET key == <<"github", wakeups[i].id>>
              payload == wakeups[i].announced
          IN
          /\ IsOldest(i, call.batch)
          /\ \/ /\ Recorded(key, payload)
                /\ broker' = [broker EXCEPT ![e].pc = "complete", ![e].key = key,
                                ![e].outcome = deliveries[key].outcome]
                /\ UNCHANGED deliveries
             \/ /\ ReserveDelivery(e, key, payload)
                /\ broker' = [broker EXCEPT ![e].pc = "decide", ![e].key = key,
                                ![e].announced = payload]
             \/ /\ ~Recorded(key, payload) /\ ~Claimable(key, payload)
                /\ Return(e)
                /\ UNCHANGED deliveries
  /\ UNCHANGED <<ledgerVars, wakeups, outbox, worldVars, epoch, faults, tampers, moves>>

CompleteGithubWakeup(e) ==
  /\ At(e, "complete")
  /\ \E i \in DOMAIN wakeups :
       /\ IsOldest(i, broker[e].batch)
       /\ wakeups' = PruneSettledGithubWakeups(
            [wakeups EXCEPT ![i].status = "completed", ![i].outcome = broker[e].outcome])
       /\ broker' = [broker EXCEPT ![e].pc = "reserve", ![e].batch = @ \ {i}]
  /\ UNCHANGED <<ledgerVars, deliveries, outbox, worldVars, epoch, faults, tampers, moves>>

(* The marker is cleared first and set again if a webhook is still pending: one   *)
(* that arrives in between is not forgotten.                                     *)
ClearPriorityFetch(e) ==
  /\ At(e, "clear")
  /\ signal' = FALSE
  /\ Goto(e, "recheck")
  /\ UNCHANGED <<ledgerVars, queueVars, ref, remote, draining, opOf, announced, epoch,
                 faults, tampers, moves>>

(* Mutant: what arrived before the marker was cleared is not looked for.         *)
ForgetLateWebhook(e) ==
  /\ At(e, "recheck")
  /\ draining' = FALSE
  /\ Return(e)
  /\ UNCHANGED <<ledgerVars, queueVars, ref, remote, signal, opOf, announced, epoch,
                 faults, tampers, moves>>

NotifyPriorityFetch(e) ==
  /\ At(e, "recheck")
  /\ signal' = (signal \/ PendingGithubWakeups # {})
  /\ draining' = FALSE
  /\ Return(e)
  /\ UNCHANGED <<ledgerVars, queueVars, ref, remote, opOf, announced, epoch, faults, tampers, moves>>

(* The delivery ID of a reconciliation is a digest of all it depends on, so that  *)
(* nothing is done twice in one state.  It gives way to queued webhooks.          *)
ReconcileKey(e, refresh) ==
  <<"reconcile", [cand |-> remote, policy |-> broker[e].policy, head |-> ledger.head,
                  seq |-> ledger.att.seq, state |-> ledger.state, blocked |-> ledger.blocked,
                  paused |-> ledger.paused, divergent |-> ledger.divergent,
                  expired |-> ledger.expired, refresh |-> refresh]>>

ReconcileRemoteMain(e, refresh) ==
  LET key == ReconcileKey(e, refresh) IN
  /\ At(e, "idle")
  /\ ~signal
  /\ refresh => ~broker[e].policy.auto
  /\ ReserveDelivery(e, key, remote)
  /\ Enter(e, Call(key, remote, remote, NoCommit, refresh, {}, "decide"))
  /\ UNCHANGED <<ledgerVars, wakeups, outbox, worldVars, epoch, faults, tampers, moves>>

(* A push to the local repository names the head it was made on.                  *)
ProcessDirectPush(e, d, old, new) ==
  LET key == <<"direct", d>> IN
  /\ At(e, "idle")
  /\ key \in DOMAIN deliveries \/ Arrives
  /\ ReserveDelivery(e, key, <<old, new>>)
  /\ Enter(e, Call(key, new, new, old, FALSE, {}, "decide"))
  /\ UNCHANGED <<ledgerVars, wakeups, outbox, worldVars, epoch, faults, tampers, moves>>

(* The owner blocks a commit or pauses reconciliation.                            *)
SetControls(e, blocked, paused) ==
  /\ At(e, "idle")
  /\ <<blocked, paused>> # <<ledger.blocked, ledger.paused>>
  /\ Interferes
  /\ moves' = moves + 1
  /\ ledger' = [ledger EXCEPT !.blocked = blocked, !.paused = paused]
  /\ UNCHANGED <<accepted, journal, ticket, queueVars, worldVars, epoch, broker, faults, tampers>>

(* The owner keeps the accepted head; what was about to replace it is forgotten.  *)
ResolveDivergenceKeepCanonical(e) ==
  /\ At(e, "idle")
  /\ ledger.state = "diverged" /\ ref = ledger.head
  /\ ledger' = [ledger EXCEPT !.state = "ready", !.divergent = NoCommit]
  /\ journal' = NoJournal
  /\ UNCHANGED <<accepted, ticket, queueVars, worldVars, epoch, broker, faults, tampers, moves>>

----------------------------------------------------------------------------
(* The gate the executor asks.                                             *)

(* A delivery is still good for an operation while its head is the head.          *)
VerifyDeliveryLive(att) ==
  /\ ledger.state = "ready" /\ ledger.att = att /\ ledger.head # NoCommit
  /\ ~ledger.expired /\ ledger.blocked # ledger.head

VerifiedRecordedDelivery(e, key) ==
  /\ deliveries[key].status = "completed" /\ deliveries[key].outcome.kind = "deployable"
  /\ VerifyDeliveryLive(deliveries[key].outcome.att)
  /\ deliveries[key].outcome.att.version = broker[e].policy.version

(* A recorded delivery becomes an operation if its head is still the head: by      *)
(* itself in a project deployed automatically, by the owner's grant in any.         *)
AdmitRecordedDeploy(e, a) ==
  /\ At(e, "idle")
  /\ opOf[a] = NoAtt
  /\ \E key \in DOMAIN deliveries : VerifiedRecordedDelivery(e, key)
  /\ opOf' = [opOf EXCEPT ![a] = ledger.att]
  /\ UNCHANGED <<ledgerVars, queueVars, ref, remote, signal, draining, announced, epoch, broker, faults, tampers, moves>>

(* What is asked of the source before an operation may mutate.                    *)
VerifyLiveBinding(e, a) ==
  /\ journal.state = "none"
  /\ ~ledger.paused
  /\ ref = ledger.head /\ ledger.state = "ready"
  /\ ledger.head # NoCommit /\ ledger.blocked # ledger.head
  /\ ledger.att = opOf[a]
  /\ ledger.att.version = broker[e].policy.version

TicketFor(a, phase) == [attempt |-> a, phase |-> phase, att |-> opOf[a]]

CheckLive(e, a, phase) ==
  /\ At(e, "idle")
  /\ VerifyLiveBinding(e, a)
  /\ ticket \in {NoTicket, TicketFor(a, phase)}
  /\ ticket' = TicketFor(a, phase)
  /\ UNCHANGED <<ledger, accepted, journal, queueVars, worldVars, epoch, broker, faults, tampers, moves>>

(* The ticket is given back by its attempt, in its phase or while reconciling.    *)
ReleaseMutationTicket(e, a, phase) ==
  /\ At(e, "idle")
  /\ ticket # NoTicket /\ ticket.attempt = a /\ ticket.att = opOf[a]
  /\ phase \in {ticket.phase, "reconciliation"}
  /\ ticket' = NoTicket
  /\ UNCHANGED <<ledger, accepted, journal, queueVars, worldVars, epoch, broker, faults, tampers, moves>>

----------------------------------------------------------------------------
(* The world.                                                              *)

RemoteMoves(c) ==
  /\ c # remote
  /\ Interferes
  /\ moves' = moves + 1
  /\ remote' = c
  /\ UNCHANGED <<ledgerVars, queueVars, ref, signal, draining, opOf, announced, epoch, broker, faults, tampers>>

(* Somebody else writes the accepted ref.                                         *)
RefTampered(c) ==
  /\ Interferes
  /\ c # ref
  /\ ref' = c
  /\ tampers' = tampers + 1
  /\ UNCHANGED <<ledgerVars, queueVars, remote, signal, draining, opOf, announced, epoch, broker, faults, moves>>

TimePasses ==
  /\ Interferes
  /\ moves' = moves + 1
  /\ \/ /\ ledger.head # NoCommit /\ ~ledger.expired
        /\ ledger' = [ledger EXCEPT !.expired = TRUE]
     \/ /\ ledger.paused
        /\ ledger' = [ledger EXCEPT !.paused = FALSE]
  /\ UNCHANGED <<accepted, journal, ticket, queueVars, worldVars, epoch, broker, faults, tampers>>

----------------------------------------------------------------------------
Init ==
  /\ ledger = EmptyLedger /\ accepted = <<>> /\ journal = NoJournal /\ ticket = NoTicket
  /\ deliveries = <<>> /\ wakeups = <<>> /\ outbox = <<>>
  /\ ref = NoCommit /\ remote \in FirstHeads /\ signal = FALSE /\ draining = FALSE
  /\ opOf = [a \in Attempts |-> NoAtt] /\ announced = {}
  /\ epoch = 0 /\ broker = [e \in Epochs |-> Down]
  /\ faults = 0 /\ tampers = 0 /\ moves = 0

Start(e) == \E policy \in Policies : AcquireBrokerLease(e, policy)

Recover(e) ==
  \/ RecoverRefUpdate(e) \/ RecoverSourceState(e) \/ RecoverIncompleteDeliveries(e)
  \/ ReconcileGithubWakeupPolicy(e) \/ ReconcileOutboxPolicy(e)

(* The steps of a call that is under way.                                        *)
Step(e) ==
  \/ ReserveWakeup(e) \/ ProcessCandidate(e) \/ BeginRefUpdate(e) \/ RequireCurrentLease(e)
  \/ CompareAndSwapAcceptedHead(e) \/ MarkRefUpdated(e) \/ AcceptIfCurrent(e)
  \/ MarkDiverged(e) \/ FinishDelivery(e) \/ CompleteGithubWakeup(e)
  \/ ClearPriorityFetch(e) \/ NotifyPriorityFetch(e)

ReceivePush(e) ==
  \/ \E d \in PushIds, c \in PushHeads : EnqueueGithubWakeup(e, d, c)
  \/ \E i \in DOMAIN wakeups : EnqueueGithubPush(e, i)

ReceiveDirect(e) ==
  \E d \in DirectIds, push \in DirectPushes : ProcessDirectPush(e, d, push[1], push[2])

Dispatch(e) ==
  \E i \in DOMAIN outbox : Admit(e, i) \/ AcknowledgeOutbox(e, i)

Reconcile(e) == \E refresh \in BOOLEAN : ReconcileRemoteMain(e, refresh)

Operate(e) ==
  \/ \E control \in Controls : SetControls(e, control[1], control[2])
  \/ ResolveDivergenceKeepCanonical(e)
  \/ \E a \in Attempts :
       \/ AdmitRecordedDeploy(e, a)
       \/ \E phase \in TicketPhases : CheckLive(e, a, phase)
       \/ \E phase \in TicketPhases \union {"reconciliation"} : ReleaseMutationTicket(e, a, phase)

World ==
  \/ \E c \in Commits : RemoteMoves(c) \/ RefTampered(c)
  \/ TimePasses

Next ==
  \/ \E e \in Epochs :
       \/ Start(e) \/ Recover(e) \/ Step(e) \/ ReceivePush(e) \/ ReceiveDirect(e) \/ Dispatch(e)
       \/ Reconcile(e) \/ ProcessPendingGithubPushes(e) \/ Operate(e)
       \/ CallFails(e) \/ Crash(e)
  \/ World

Spec == Init /\ [][Next]_vars

----------------------------------------------------------------------------
(* Properties.                                                             *)

Live(e) == epoch = e /\ broker[e].pc # "down"

(* What the accepted ref may be while nobody else writes it: the ledger's head,   *)
(* or on its way to the journal's.  A crash, a failing Git call or a superseded   *)
(* process that still makes its compare-and-swap leaves nothing else behind       *)
(* (advance_ref_update, recover_ref_update).                                      *)
RefFollowsLedger ==
  tampers = 0 =>
    CASE journal.state = "none" -> ref = ledger.head
      [] journal.state = "ref_updated" -> ref = journal.att.head
      [] OTHER -> ref \in {ledger.head, journal.att.head}

(* The ledger's promise to the executor: heads move forward one at a time and     *)
(* never under a ticket.                                                          *)
Gate == INSTANCE SourceGate WITH
  head <- ledger.head, sequence <- ledger.att.seq, holder <- ticket.attempt

ImplementsSourceGate == Gate!GateSpec

(* A ticket is for the very attestation that is current, and no ref update is     *)
(* under way behind it (acquire_mutation_ticket, begin_ref_update).               *)
TicketIsCurrent ==
  ticket # NoTicket => ticket.att = ledger.att /\ journal.state = "none"

(* The scheduler is offered the newest accepted head only: one row is pending,    *)
(* it is the last one, and no attestation has two rows (enqueue_deployable_outcome). *)
OutboxOffersNewest ==
  LET live == {i \in DOMAIN outbox : outbox[i].status # "pruned"} IN
  /\ \A i \in live : outbox[i].status = "pending" =>
       \A j \in live \ {i} : outbox[j].att.seq < outbox[i].att.seq
  /\ \A i, j \in live : outbox[i].att = outbox[j].att => i = j

(* A webhook is answered with what its delivery came to, however often the broker *)
(* crashed in between.  One that waits after it was announced is marked for the    *)
(* next drain, or the drain that took the marker away failed before it looked at   *)
(* the queue again and its loop is to repeat it: while the process rests, nobody   *)
(* waits unmarked behind a drain that ended (finish_delivery,                      *)
(* complete_github_wakeup, reconcile_priority_fetch_signal, drain_project_webhooks). *)
WebhooksAreKept ==
  \A i \in DOMAIN wakeups :
    LET key == <<"github", wakeups[i].id>> IN
    /\ wakeups[i].status = "completed" =>
         /\ deliveries[key].status = "completed"
         /\ deliveries[key].outcome = wakeups[i].outcome
    /\ wakeups[i].status = "pending" /\ wakeups[i].notified =>
         signal \/ draining \/ \A e \in Epochs : Live(e) => broker[e].pc # "idle"
=============================================================================
