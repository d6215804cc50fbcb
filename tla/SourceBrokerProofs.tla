--------------------------- MODULE SourceBrokerProofs ---------------------------
(* The promises of the source broker for every repository, every number of     *)
(* pushes, policies and operations, every bound, and with the lock file        *)
(* replaced under a running broker or not; and those of its delivery to the    *)
(* scheduler, for any number of pushes, expiries and faults.                   *)
EXTENDS SourceBroker, SourceDelivery, TLAPS

--------------------------------------------------------------------------------
(* The shape of the rows and of a process.                                     *)
LedgerRow(r) ==
  r = [head |-> r.head, att |-> r.att, state |-> r.state, blocked |-> r.blocked,
       paused |-> r.paused, expired |-> r.expired, divergent |-> r.divergent]

JournalRow(r) ==
  r = NoJournal \/ (/\ r = [state |-> r.state, att |-> r.att]
                    /\ r.state \in {"intent_persisted", "ref_updated"})

InCall(b) ==
  b = [pc |-> b.pc, policy |-> b.policy, key |-> b.key, cand |-> b.cand,
       announced |-> b.announced, previous |-> b.previous, refresh |-> b.refresh,
       batch |-> b.batch, att |-> b.att, updated |-> b.updated, outcome |-> b.outcome]

Waiting(b) ==
  /\ b = [pc |-> b.pc, policy |-> b.policy]
  /\ b.pc \in {"down", "idle", "recover", "startup", "policy", "outbox"}

(* Steps of a call that has a candidate, and of one that moves the ref.        *)
HasCandidate == {"reserve", "decide", "begin", "lease", "cas", "mark", "accept", "diverge",
                 "finish", "complete"}
Advancing == {"lease", "cas", "mark", "accept"}

Shapes ==
  /\ broker = [d \in Epochs |-> broker[d]]
  /\ epoch \in Nat /\ tampers \in Nat
  /\ LedgerRow(ledger) /\ ledger.att.seq \in Nat /\ ledger.head \in Commits \cup {NoCommit}
  /\ JournalRow(journal)
  /\ remote \in Commits

--------------------------------------------------------------------------------
(* A head an attestation may replace another with, and one that does so now.   *)
Forward(a) ==
  /\ a.head \in Commits
  /\ a.previous \in {NoCommit, a.head} \/ <<a.previous, a.head>> \in Before

Follows(a) == a.previous = ledger.head /\ a.seq = ledger.att.seq + 1

(* The journal row is the next head, and no operation holds the current one.   *)
JournalInv ==
  journal.state # "none" => Forward(journal.att) /\ Follows(journal.att) /\ ticket = NoTicket

TicketInv ==
  ticket # NoTicket => ticket.attempt \in Attempts /\ ticket.att = ledger.att

(* Only a recovery starts from a ref that has moved.                           *)
UpdateKnown(b) ==
  b.pc \in HasCandidate /\ b.updated => b.pc \in Advancing \cup {"diverge"} /\ b.key = "recovery"

(* A process that was superseded is gone, or about to make its last swap.      *)
ProcessInv(d) ==
  /\ Waiting(broker[d]) \/ InCall(broker[d])
  /\ d # epoch => broker[d].pc \in {"down", "cas"}
  /\ broker[d].pc \in HasCandidate => broker[d].cand \in Commits
  /\ UpdateKnown(broker[d])
  /\ broker[d].pc \in Advancing \cup {"begin"} => Forward(broker[d].att)
  /\ d = epoch /\ broker[d].pc \in Advancing =>
       journal.state # "none" /\ journal.att = broker[d].att /\ ledger.state = "ready"
  /\ d = epoch /\ (broker[d].pc = "accept" \/ (broker[d].pc \in Advancing /\ broker[d].updated)) =>
       journal.state = "ref_updated"
  /\ broker[d].pc = "finish" /\ broker[d].outcome.kind = "deployable" =>
       broker[d].outcome.att = ledger.att

(* Where the ref is while nobody else writes it.                               *)
RefInv ==
  /\ journal.state = "none" => ref = ledger.head
  /\ journal.state = "ref_updated" => ref = journal.att.head
  /\ journal.state = "intent_persisted" => ref \in {ledger.head, journal.att.head}
  /\ \A d \in Epochs : d = epoch /\ broker[d].pc = "mark" => ref = broker[d].att.head

(* The swap a superseded process may still make is of a head long accepted, or *)
(* of the one its successors cannot but carry on with.                         *)
Recovering ==
  \A e \in Epochs : e = epoch =>
    \/ broker[e].pc \in {"down", "recover"}
    \/ broker[e].pc \in Advancing /\ broker[e].key = "recovery"

Passed(a) == a.head = ledger.head \/ <<a.head, ledger.head>> \in Before

Overtaken(d) ==
  d # epoch /\ broker[d].pc = "cas" =>
    \/ Passed(broker[d].att)
    \/ /\ journal.state # "none" /\ journal.att = broker[d].att /\ ledger.state = "ready"
       /\ Recovering

SwapInv == tampers = 0 => RefInv /\ \A d \in Epochs : Overtaken(d)

(* The outbox: what is offered is the newest head, and the rows are of heads   *)
(* that were accepted.                                                         *)
RowStatus == {"pending", "delivered", "superseded", "pruned"}
LiveRow(r) == r.status # "pruned"

Rows(q) == q \in Seq([att : {q[i].att : i \in DOMAIN q}, status : RowStatus])

Offers(q, newest) ==
  /\ Rows(q)
  /\ \A i \in DOMAIN q :
       /\ q[i].att.seq \in Nat /\ q[i].att.seq <= newest.seq
       /\ q[i].att.seq = newest.seq => q[i].att = newest
  /\ \A i, j \in DOMAIN q :
       LiveRow(q[i]) /\ LiveRow(q[j]) =>
         /\ q[i].att = q[j].att => i = j
         /\ q[i].status = "pending" /\ i # j => q[j].att.seq < q[i].att.seq

OutboxInv == Offers(outbox, ledger.att)

BrokerInv ==
  Shapes /\ JournalInv /\ TicketInv /\ (\A d \in Epochs : ProcessInv(d)) /\ SwapInv /\ OutboxInv

(* The part of it that is about heads, ref and tickets.                        *)
Core == Shapes /\ JournalInv /\ TicketInv /\ (\A d \in Epochs : ProcessInv(d)) /\ SwapInv

--------------------------------------------------------------------------------
(* What a step does to the record of a process.                                *)
Become(e, c) == broker' = [broker EXCEPT ![e] = c]

SameCall(b, c) ==
  /\ c.policy = b.policy /\ c.key = b.key /\ c.cand = b.cand /\ c.att = b.att
  /\ c.updated = b.updated /\ c.outcome = b.outcome /\ c.batch = b.batch

(* A process that moves on keeps what it knows.                                *)
LEMMA PcOnly ==
  ASSUME NEW b, Waiting(b) \/ InCall(b), NEW p, NEW c, c = [b EXCEPT !.pc = p]
  PROVE  /\ c.pc = p /\ c.policy = b.policy
         /\ InCall(b) => InCall(c) /\ SameCall(b, c)
         /\ Waiting(b) => c = [pc |-> p, policy |-> b.policy]
<1>1. CASE InCall(b)
  <2>1. c = [pc |-> p, policy |-> b.policy, key |-> b.key, cand |-> b.cand,
             announced |-> b.announced, previous |-> b.previous, refresh |-> b.refresh,
             batch |-> b.batch, att |-> b.att, updated |-> b.updated, outcome |-> b.outcome]
    BY <1>1 DEF InCall
  <2>2. ~Waiting(b)
    BY <1>1 DEF InCall, Waiting
  <2> QED
    BY <1>1, <2>1, <2>2 DEF InCall, SameCall
<1>2. CASE Waiting(b) /\ ~InCall(b)
  BY <1>2 DEF Waiting
<1> QED
  BY <1>1, <1>2

(* A call begins, or is back, with a record of its own.                        *)
LEMMA Entered ==
  ASSUME NEW e \in Epochs, NEW key, NEW cand, NEW head, NEW prev, NEW refresh, NEW batch, NEW p,
         Enter(e, Call(key, cand, head, prev, refresh, batch, p))
  PROVE  \E c : /\ Become(e, c) /\ InCall(c) /\ c.pc = p /\ c.cand = cand /\ c.key = key
                /\ c.policy = broker[e].policy /\ c.outcome = NoOutcome /\ ~c.updated
                /\ c.batch = batch
<1>1. PICK c : c = [Call(key, cand, head, prev, refresh, batch, p)
                      EXCEPT !.policy = broker[e].policy]
  OBVIOUS
<1>2. c = [pc |-> p, policy |-> broker[e].policy, key |-> key, cand |-> cand, announced |-> head,
           previous |-> prev, refresh |-> refresh, batch |-> batch, att |-> NoAtt,
           updated |-> FALSE, outcome |-> NoOutcome]
  BY <1>1 DEF Call
<1>3. Become(e, c)
  BY <1>1 DEF Enter, Become
<1>4. InCall(c) /\ c.pc = p /\ c.cand = cand /\ c.key = key
      /\ c.policy = broker[e].policy /\ c.outcome = NoOutcome /\ ~c.updated /\ c.batch = batch
  BY <1>2 DEF InCall
<1> QED
  BY <1>3, <1>4

(* A call that is over leaves an idle process.                                 *)
LEMMA Returned ==
  ASSUME NEW e \in Epochs, Return(e)
  PROVE  \E c : Become(e, c) /\ Waiting(c) /\ c.pc = "idle" /\ c.policy = broker[e].policy
<1>1. PICK c : c = Idle(broker[e].policy)
  OBVIOUS
<1>2. Become(e, c)
  BY <1>1 DEF Return, Become
<1>3. Waiting(c) /\ c.pc = "idle" /\ c.policy = broker[e].policy
  BY <1>1 DEF Idle, Waiting
<1> QED
  BY <1>2, <1>3

(* A process that goes on in its call keeps the rest of its record.            *)
LEMMA WentTo ==
  ASSUME Shapes, NEW e \in Epochs, ProcessInv(e), NEW p, Goto(e, p)
  PROVE  \E c : /\ Become(e, c) /\ c.pc = p /\ c.policy = broker[e].policy
                /\ InCall(broker[e]) => InCall(c) /\ SameCall(broker[e], c)
                /\ Waiting(broker[e]) => c = [pc |-> p, policy |-> broker[e].policy]
<1>1. PICK c : c = [broker[e] EXCEPT !.pc = p]
  OBVIOUS
<1>2. Become(e, c)
  BY <1>1 DEF Goto, Become
<1>3. Waiting(broker[e]) \/ InCall(broker[e])
  BY DEF ProcessInv
<1>4. /\ c.pc = p /\ c.policy = broker[e].policy
      /\ InCall(broker[e]) => InCall(c) /\ SameCall(broker[e], c)
      /\ Waiting(broker[e]) => c = [pc |-> p, policy |-> broker[e].policy]
  BY <1>1, <1>3, PcOnly
<1> QED
  BY <1>2, <1>4

--------------------------------------------------------------------------------
(* Steps that leave ledger, journal, ticket and ref alone.                     *)
coreVars == <<ledger, journal, ticket, ref, tampers, epoch>>

(* No superseded process has a swap of the journal's head ahead of it.         *)
NoneBehind ==
  tampers = 0 => \A d \in Epochs : d # epoch /\ broker[d].pc = "cas" => Passed(broker[d].att)

(* While the current process is not recovering, late swaps are of passed heads. *)
LEMMA NotRecovering ==
  ASSUME Core, NEW e \in Epochs, e = epoch, broker[e].pc \notin {"down", "recover"},
         broker[e].pc \in Advancing => broker[e].key # "recovery"
  PROVE  NoneBehind
BY DEF Core, SwapInv, Overtaken, Recovering, NoneBehind

(* A step that leaves ledger, ref and processes alone keeps the invariant.     *)
LEMMA CoreSame ==
  ASSUME Core, UNCHANGED <<coreVars, broker>>, remote' \in Commits
  PROVE  Core'
<1> USE DEF coreVars
<1>1. Shapes' /\ JournalInv' /\ TicketInv'
  BY DEF Core, Shapes, JournalInv, TicketInv, LedgerRow, JournalRow, Forward, Follows
<1>2. ASSUME NEW d \in Epochs PROVE ProcessInv(d)'
  BY DEF Core, ProcessInv, UpdateKnown, InCall, Waiting, Forward
<1>3. SwapInv'
  BY DEF Core, SwapInv, RefInv, Overtaken, Passed, Recovering
<1> QED
  BY <1>1, <1>2, <1>3 DEF Core

(* A process goes where nothing is known of journal and ref.                   *)
LEMMA CalmStep ==
  ASSUME Core, UNCHANGED coreVars, remote' \in Commits, NEW e \in Epochs, NEW c, Become(e, c),
         Waiting(c) \/ InCall(c), c.pc \notin Advancing \cup {"begin", "finish"},
         c.pc \in HasCandidate => c.cand \in Commits, UpdateKnown(c),
         e # epoch => c.pc = "down",
         c.pc = "down" \/ NoneBehind
  PROVE  Core'
<1> USE DEF coreVars, Become
<1>1. Shapes' /\ JournalInv' /\ TicketInv'
  BY DEF Core, Shapes, JournalInv, TicketInv, LedgerRow, JournalRow, Forward, Follows
<1>2. broker'[e] = c /\ \A d \in Epochs : d # e => broker'[d] = broker[d]
  BY DEF Core, Shapes
<1>3. ASSUME NEW d \in Epochs PROVE ProcessInv(d)'
  <2>1. CASE d = e
    <3>1. (Waiting(broker[d]) \/ InCall(broker[d]))'
      BY <1>2, <2>1 DEF InCall, Waiting
    <3>2. broker'[d].pc = c.pc /\ broker'[d].cand = c.cand /\ epoch' = epoch
      BY <1>2, <2>1
    <3>3. UpdateKnown(broker[d])'
      BY <1>2, <2>1 DEF UpdateKnown
    <3> QED
      BY <2>1, <3>1, <3>2, <3>3 DEF ProcessInv, Advancing
  <2>2. CASE d # e
    BY <1>2, <2>2 DEF Core, ProcessInv, UpdateKnown, InCall, Waiting, Forward
  <2> QED
    BY <2>1, <2>2
<1>4. ASSUME tampers = 0 PROVE RefInv' /\ \A d \in Epochs : Overtaken(d)'
  <2>1. RefInv'
    BY <1>2, <1>4 DEF Core, SwapInv, RefInv, Advancing
  <2>2. ASSUME NEW d \in Epochs PROVE Overtaken(d)'
    <3>1. CASE NoneBehind
      BY <1>2, <1>4, <3>1 DEF NoneBehind, Overtaken, Passed, Advancing
    <3>2. CASE c.pc = "down"
      BY <1>2, <1>4, <3>2 DEF Core, SwapInv, Overtaken, Passed, Recovering
    <3> QED
      BY <3>1, <3>2
  <2> QED
    BY <2>1, <2>2
<1> QED
  BY <1>1, <1>3, <1>4 DEF Core, SwapInv

--------------------------------------------------------------------------------
(* Calls that neither move the head nor look at it.                            *)
LEMMA QueueCore ==
  ASSUME Core, NEW e \in Epochs, ReceivePush(e) \/ Dispatch(e)
  PROVE  Core'
<1> USE DEF ledgerVars, queueVars, worldVars, coreVars
<1>1. CASE ReceivePush(e)
  <2>1. UNCHANGED <<coreVars, broker, remote>>
    BY <1>1 DEF ReceivePush, EnqueueGithubWakeup, EnqueueGithubPush
  <2> QED
    BY <2>1, CoreSame DEF Core, Shapes
<1>2. CASE Dispatch(e)
  <2>1. UNCHANGED <<coreVars, broker, remote>>
    BY <1>2 DEF Dispatch, Admit, AcknowledgeOutbox
  <2> QED
    BY <2>1, CoreSame DEF Core, Shapes
<1> QED
  BY <1>1, <1>2

(* A process of the startup sequence, or idle, goes on without a candidate.    *)
LEMMA StartupCore ==
  ASSUME Core, NEW e \in Epochs,
         \/ RecoverIncompleteDeliveries(e) \/ ReconcileGithubWakeupPolicy(e)
         \/ ReconcileOutboxPolicy(e) \/ ClearPriorityFetch(e) \/ NotifyPriorityFetch(e)
  PROVE  Core'
<1> USE DEF ledgerVars, queueVars, worldVars, coreVars
<1>1. UNCHANGED <<coreVars, remote>>
  BY DEF RecoverIncompleteDeliveries, ReconcileGithubWakeupPolicy, ReconcileOutboxPolicy,
       ClearPriorityFetch, NotifyPriorityFetch
<1>2. e = epoch /\ broker[e].pc \in {"startup", "policy", "outbox", "clear", "recheck"}
  BY DEF RecoverIncompleteDeliveries, ReconcileGithubWakeupPolicy, ReconcileOutboxPolicy,
       ClearPriorityFetch, NotifyPriorityFetch, At, RequireBoundBrokerEpoch
<1>3. NoneBehind
  BY <1>2, NotRecovering DEF Advancing
<1>4. CASE Return(e)
  <2>1. PICK c : Become(e, c) /\ Waiting(c) /\ c.pc = "idle"
    BY <1>4, Returned
  <2> QED
    BY <1>1, <1>2, <1>3, <2>1, CalmStep DEF Core, Shapes, UpdateKnown, Advancing, HasCandidate
<1>5. ASSUME NEW p \in {"policy", "outbox", "recheck"}, Goto(e, p),
             p = "recheck" => broker[e].pc = "clear"
      PROVE  Core'
  <2>1. ProcessInv(e) /\ Shapes
    BY DEF Core
  <2>2. PICK c : /\ Become(e, c) /\ c.pc = p
                 /\ InCall(broker[e]) => InCall(c) /\ SameCall(broker[e], c)
                 /\ Waiting(broker[e]) => c = [pc |-> p, policy |-> broker[e].policy]
    BY <1>5, <2>1, WentTo
  <2>3. Waiting(c) \/ InCall(c)
    BY <1>5, <2>1, <2>2 DEF ProcessInv, Waiting
  <2> QED
    BY <1>1, <1>2, <1>3, <1>5, <2>2, <2>3, CalmStep
       DEF Core, Shapes, UpdateKnown, Advancing, HasCandidate
<1>6. Return(e) \/ \E p \in {"policy", "outbox", "recheck"} :
        Goto(e, p) /\ (p = "recheck" => broker[e].pc = "clear")
  BY DEF RecoverIncompleteDeliveries, ReconcileGithubWakeupPolicy, ReconcileOutboxPolicy,
       ClearPriorityFetch, NotifyPriorityFetch, At
<1> QED
  BY <1>4, <1>5, <1>6

(* A call begins.                                                              *)
LEMMA EnterCore ==
  ASSUME Core, NEW e \in Epochs, UNCHANGED <<coreVars, remote>>, At(e, "idle"),
         NEW key, NEW cand, NEW head, NEW prev, NEW refresh, NEW batch,
         NEW p \in {"clear", "reserve", "decide"}, p # "clear" => cand \in Commits,
         Enter(e, Call(key, cand, head, prev, refresh, batch, p))
  PROVE  Core'
<1>1. PICK c : Become(e, c) /\ InCall(c) /\ c.pc = p /\ c.cand = cand /\ ~c.updated
  BY Entered
<1>2. NoneBehind
  BY NotRecovering DEF At, RequireBoundBrokerEpoch, Advancing
<1> QED
  BY <1>1, <1>2, CalmStep DEF Core, Shapes, UpdateKnown, Advancing, HasCandidate, At,
     RequireBoundBrokerEpoch

(* A direct push, a reconciliation or a drain of the webhooks begins.          *)
LEMMA CallsCore ==
  ASSUME Core, NEW e \in Epochs, ReceiveDirect(e) \/ Reconcile(e) \/ ProcessPendingGithubPushes(e)
  PROVE  Core'
<1> USE DEF ledgerVars, queueVars, worldVars, coreVars
<1>1. CASE ReceiveDirect(e)
  <2>1. PICK d \in DirectIds, push \in DirectPushes : ProcessDirectPush(e, d, push[1], push[2])
    BY <1>1 DEF ReceiveDirect
  <2>2. push[2] \in Commits
    BY BrokerAssumption
  <2>3. /\ UNCHANGED <<coreVars, remote>> /\ At(e, "idle")
        /\ Enter(e, Call(<<"direct", d>>, push[2], push[2], push[1], FALSE, {}, "decide"))
    BY <2>1 DEF ProcessDirectPush
  <2> QED
    BY <2>2, <2>3, EnterCore
<1>2. CASE Reconcile(e)
  <2>1. PICK refresh \in BOOLEAN : ReconcileRemoteMain(e, refresh)
    BY <1>2 DEF Reconcile
  <2>2. PICK key : key = ReconcileKey(e, refresh)
    OBVIOUS
  <2>3. /\ UNCHANGED <<coreVars, remote>> /\ At(e, "idle") /\ remote \in Commits
        /\ Enter(e, Call(key, remote, remote, NoCommit, refresh, {}, "decide"))
    BY <2>1, <2>2 DEF ReconcileRemoteMain, Core, Shapes
  <2> QED
    BY <2>3, EnterCore
<1>3. CASE ProcessPendingGithubPushes(e)
  <2>1. UNCHANGED <<coreVars, remote>> /\ At(e, "idle") /\ remote \in Commits
    BY <1>3 DEF ProcessPendingGithubPushes, Core, Shapes
  <2>2. PICK batch : batch = OldestWakeups
    OBVIOUS
  <2>3. \/ Enter(e, Call(<<"github", 0>>, NoCommit, NoCommit, NoCommit, FALSE, {}, "clear"))
        \/ Enter(e, Call(<<"github", 0>>, remote, remote, NoCommit, FALSE, batch, "reserve"))
    BY <1>3, <2>2 DEF ProcessPendingGithubPushes
  <2> QED
    BY <2>1, <2>3, EnterCore
<1> QED
  BY <1>1, <1>2, <1>3

(* A batch of webhooks goes from one to the next.                              *)
LEMMA ReserveCore ==
  ASSUME Core, NEW e \in Epochs, ReserveWakeup(e)
  PROVE  Core'
<1> USE DEF ledgerVars, queueVars, worldVars, coreVars
<1>1. UNCHANGED <<coreVars, remote>> /\ e = epoch /\ broker[e].pc = "reserve"
  BY DEF ReserveWakeup, At, RequireBoundBrokerEpoch
<1>2. NoneBehind
  BY <1>1, NotRecovering DEF Advancing
<1>3. Shapes /\ ProcessInv(e)
  BY DEF Core
<1>4. InCall(broker[e]) /\ broker[e].cand \in Commits /\ ~broker[e].updated
  BY <1>1, <1>3 DEF ProcessInv, UpdateKnown, Waiting, HasCandidate, Advancing
<1>5. CASE Return(e)
  <2>1. PICK c : Become(e, c) /\ Waiting(c) /\ c.pc = "idle"
    BY <1>5, Returned
  <2> QED
    BY <1>1, <1>2, <2>1, CalmStep DEF Core, Shapes, UpdateKnown, Advancing, HasCandidate
<1>6. CASE Goto(e, "clear")
  <2>1. PICK c : Become(e, c) /\ c.pc = "clear" /\ InCall(c)
    BY <1>3, <1>4, <1>6, WentTo
  <2> QED
    BY <1>1, <1>2, <2>1, CalmStep DEF Core, Shapes, UpdateKnown, Advancing, HasCandidate
<1>7. ASSUME NEW k, NEW x,
             \/ broker' = [broker EXCEPT ![e].pc = "complete", ![e].key = k, ![e].outcome = x]
             \/ broker' = [broker EXCEPT ![e].pc = "decide", ![e].key = k, ![e].announced = x]
      PROVE  Core'
  <2>1. PICK b : b = broker[e]
    OBVIOUS
  <2>2. CASE broker' = [broker EXCEPT ![e].pc = "complete", ![e].key = k, ![e].outcome = x]
    <3>1. PICK c : c = [b EXCEPT !.pc = "complete", !.key = k, !.outcome = x]
      OBVIOUS
    <3>2. Become(e, c)
      BY <1>3, <2>1, <2>2, <3>1 DEF Become, Shapes
    <3>3. InCall(c) /\ c.pc = "complete" /\ c.cand = b.cand /\ c.updated = b.updated
      BY <1>4, <2>1, <3>1 DEF InCall
    <3> QED
      BY <1>1, <1>2, <1>4, <2>1, <3>2, <3>3, CalmStep DEF Core, Shapes, UpdateKnown, Advancing
  <2>3. CASE broker' = [broker EXCEPT ![e].pc = "decide", ![e].key = k, ![e].announced = x]
    <3>1. PICK c : c = [b EXCEPT !.pc = "decide", !.key = k, !.announced = x]
      OBVIOUS
    <3>2. Become(e, c)
      BY <1>3, <2>1, <2>3, <3>1 DEF Become, Shapes
    <3>3. InCall(c) /\ c.pc = "decide" /\ c.cand = b.cand /\ c.updated = b.updated
      BY <1>4, <2>1, <3>1 DEF InCall
    <3> QED
      BY <1>1, <1>2, <1>4, <2>1, <3>2, <3>3, CalmStep DEF Core, Shapes, UpdateKnown, Advancing
  <2> QED
    BY <1>7, <2>2, <2>3
<1> QED
  BY <1>5, <1>6, <1>7 DEF ReserveWakeup

(* A webhook is answered and the next one of the batch is taken.               *)
LEMMA CompleteCore ==
  ASSUME Core, NEW e \in Epochs, CompleteGithubWakeup(e)
  PROVE  Core'
<1> USE DEF ledgerVars, queueVars, worldVars, coreVars
<1>1. UNCHANGED <<coreVars, remote>> /\ e = epoch /\ broker[e].pc = "complete"
  BY DEF CompleteGithubWakeup, At, RequireBoundBrokerEpoch
<1>2. NoneBehind
  BY <1>1, NotRecovering DEF Advancing
<1>3. Shapes /\ ProcessInv(e)
  BY DEF Core
<1>4. PICK b : b = broker[e]
  OBVIOUS
<1>5. InCall(b) /\ b.cand \in Commits /\ ~b.updated
  BY <1>1, <1>3, <1>4 DEF ProcessInv, UpdateKnown, Waiting, HasCandidate, Advancing
<1>0. PICK i : broker' = [broker EXCEPT ![e].pc = "reserve", ![e].batch = @ \ {i}]
  BY DEF CompleteGithubWakeup
<1>6. PICK c : c = [b EXCEPT !.pc = "reserve", !.batch = @ \ {i}]
  OBVIOUS
<1>7. Become(e, c)
  BY <1>0, <1>3, <1>4, <1>6 DEF Become, Shapes
<1>8. InCall(c) /\ c.pc = "reserve" /\ c.cand = b.cand /\ c.updated = b.updated
  BY <1>5, <1>6 DEF InCall
<1> QED
  BY <1>1, <1>2, <1>5, <1>7, <1>8, CalmStep DEF Core, Shapes, UpdateKnown, Advancing

(* The call ends, fails, or its process dies.                                  *)
LEMMA FinishCore ==
  ASSUME Core, NEW e \in Epochs, FinishDelivery(e)
  PROVE  Core'
<1> USE DEF ledgerVars, queueVars, worldVars, coreVars
<1>1. UNCHANGED <<coreVars, remote>> /\ e = epoch /\ broker[e].pc = "finish"
  BY DEF FinishDelivery, At, RequireBoundBrokerEpoch
<1>2. NoneBehind
  BY <1>1, NotRecovering DEF Advancing
<1>3. Shapes /\ ProcessInv(e)
  BY DEF Core
<1>4. InCall(broker[e]) /\ broker[e].cand \in Commits /\ ~broker[e].updated
  BY <1>1, <1>3 DEF ProcessInv, UpdateKnown, Waiting, HasCandidate, Advancing
<1>5. CASE Return(e)
  <2>1. PICK c : Become(e, c) /\ Waiting(c) /\ c.pc = "idle"
    BY <1>5, Returned
  <2> QED
    BY <1>1, <1>2, <2>1, CalmStep DEF Core, Shapes, UpdateKnown, Advancing, HasCandidate
<1>6. CASE Goto(e, "complete")
  <2>1. PICK c : Become(e, c) /\ c.pc = "complete" /\ InCall(c) /\ SameCall(broker[e], c)
    BY <1>3, <1>4, <1>6, WentTo
  <2> QED
    BY <1>1, <1>2, <1>4, <2>1, CalmStep DEF Core, Shapes, UpdateKnown, Advancing, SameCall
<1> QED
  BY <1>5, <1>6 DEF FinishDelivery

(* A call that fails is over; the journal keeps what it had begun.             *)
LEMMA FailsCore ==
  ASSUME Core, NEW e \in Epochs, CallFails(e)
  PROVE  Core'
<1> USE DEF ledgerVars, queueVars, worldVars, coreVars
<1>1. UNCHANGED <<coreVars, remote>> /\ e = epoch /\ Return(e)
  BY DEF CallFails, RequireBoundBrokerEpoch
<1>2. NoneBehind
  BY <1>1, NotRecovering DEF CallFails, Advancing
<1>3. PICK c : Become(e, c) /\ Waiting(c) /\ c.pc = "idle"
  BY <1>1, Returned
<1> QED
  BY <1>1, <1>2, <1>3, CalmStep DEF Core, Shapes, UpdateKnown, Advancing, HasCandidate

(* A process that dies leaves ledger, journal and ref as they are.             *)
LEMMA CrashCore ==
  ASSUME Core, NEW e \in Epochs, Crash(e)
  PROVE  Core'
<1> USE DEF ledgerVars, queueVars, worldVars, coreVars
<1>1. UNCHANGED <<coreVars, remote>> /\ broker' = [broker EXCEPT ![e] = Down]
  BY DEF Crash
<1>2. PICK c : c = Down
  OBVIOUS
<1>3. Become(e, c) /\ Waiting(c) /\ c.pc = "down"
  BY <1>1, <1>2 DEF Become, Waiting, Down
<1> QED
  BY <1>1, <1>3, CalmStep DEF Core, Shapes, UpdateKnown, Advancing, HasCandidate

--------------------------------------------------------------------------------
(* Deciding on a candidate.                                                    *)

(* The accepted head is the ledger's; only its state and controls change.      *)
SameHead(l) == LedgerRow(l) /\ l.head = ledger.head /\ l.att = ledger.att

(* A step at the same head, with no late swap of the journal ahead.            *)
LEMMA SettledStep ==
  ASSUME Core, NoneBehind, UNCHANGED <<journal, ticket, ref, tampers, epoch, remote>>,
         LedgerRow(ledger'), ledger'.head = ledger.head, ledger'.att = ledger.att,
         NEW e \in Epochs, e = epoch, NEW c, Become(e, c),
         Waiting(c) \/ InCall(c), c.pc \notin Advancing,
         c.pc \in HasCandidate => c.cand \in Commits, UpdateKnown(c),
         c.pc = "begin" => Forward(c.att),
         c.pc = "finish" /\ c.outcome.kind = "deployable" => c.outcome.att = ledger.att
  PROVE  Core'
<1> USE DEF Become
<1>1. Shapes' /\ JournalInv' /\ TicketInv'
  BY DEF Core, Shapes, JournalInv, TicketInv, JournalRow, Forward, Follows
<1>2. broker'[e] = c /\ \A d \in Epochs : d # e => broker'[d] = broker[d]
  BY DEF Core, Shapes
<1>3. ASSUME NEW d \in Epochs PROVE ProcessInv(d)'
  <2>1. CASE d = e
    <3>1. (Waiting(broker[d]) \/ InCall(broker[d]))'
      BY <1>2, <2>1 DEF InCall, Waiting
    <3>2. /\ broker'[d].pc = c.pc /\ broker'[d].cand = c.cand /\ epoch' = epoch
          /\ broker'[d].att = c.att /\ broker'[d].outcome = c.outcome
      BY <1>2, <2>1
    <3>3. UpdateKnown(broker[d])'
      BY <1>2, <2>1 DEF UpdateKnown
    <3> QED
      BY <2>1, <3>1, <3>2, <3>3 DEF ProcessInv, Advancing, Forward
  <2>2. CASE d # e
    BY <1>2, <2>2 DEF Core, ProcessInv, UpdateKnown, InCall, Waiting, Forward, Advancing
  <2> QED
    BY <2>1, <2>2
<1>4. ASSUME tampers = 0 PROVE RefInv' /\ \A d \in Epochs : Overtaken(d)'
  <2>1. RefInv'
    BY <1>2, <1>4 DEF Core, SwapInv, RefInv, Advancing
  <2>2. ASSUME NEW d \in Epochs PROVE Overtaken(d)'
    BY <1>2, <1>4 DEF NoneBehind, Overtaken, Passed
  <2> QED
    BY <2>1, <2>2
<1> QED
  BY <1>1, <1>3, <1>4 DEF Core, SwapInv

(* An accepted candidate descends from the head, or is the head itself.        *)
LEMMA AcceptedIsForward ==
  ASSUME NEW call, CandidateVerdict(call) = "accept", ledger.head # NoCommit,
         ledger.head # call.cand
  PROVE  <<ledger.head, call.cand>> \in Before
<1>1. Relationship(ledger.head, call.cand) \notin {"rewind", "diverged"}
  BY DEF CandidateVerdict, ProcessGithubCandidate
<1>2. CASE <<ledger.head, call.cand>> \notin Before /\ <<call.cand, ledger.head>> \in Before
  BY <1>1, <1>2 DEF Relationship
<1>3. CASE <<ledger.head, call.cand>> \notin Before /\ <<call.cand, ledger.head>> \notin Before
  BY <1>1, <1>3 DEF Relationship
<1> QED
  BY <1>2, <1>3

(* What is signed for a candidate goes forward from the head.                  *)
LEMMA DecideCore ==
  ASSUME Core, NEW e \in Epochs, ProcessCandidate(e)
  PROVE  Core'
<1> USE DEF ledgerVars, queueVars, worldVars
<1>1. /\ UNCHANGED <<ledger, journal, ticket, ref, tampers, epoch, remote>>
      /\ e = epoch /\ broker[e].pc = "decide"
  BY DEF ProcessCandidate, At, RequireBoundBrokerEpoch
<1>2. NoneBehind
  BY <1>1, NotRecovering DEF Advancing
<1>3. Shapes /\ ProcessInv(e) /\ LedgerRow(ledger')
  BY <1>1 DEF Core, Shapes, LedgerRow
<1>4. PICK b : b = broker[e]
  OBVIOUS
<1>5. InCall(b) /\ b.cand \in Commits /\ ~b.updated
  BY <1>1, <1>3, <1>4 DEF ProcessInv, UpdateKnown, Waiting, HasCandidate, Advancing
<1>6. CASE AbandonDelivery(e)
  <2>1. PICK c : Become(e, c) /\ Waiting(c) /\ c.pc = "idle"
    BY <1>6, Returned DEF AbandonDelivery
  <2> QED
    BY <1>1, <1>2, <1>3, <2>1, SettledStep DEF UpdateKnown, Advancing, HasCandidate
<1>7. CASE Goto(e, "diverge")
  <2>1. PICK c : Become(e, c) /\ c.pc = "diverge" /\ InCall(c) /\ SameCall(b, c)
    BY <1>3, <1>4, <1>5, <1>7, WentTo
  <2> QED
    BY <1>1, <1>2, <1>3, <1>5, <2>1, SettledStep DEF UpdateKnown, Advancing, SameCall
<1>8. CASE /\ CandidateVerdict(b) = "accept"
           /\ broker' = [broker EXCEPT ![e].pc = "begin",
                           ![e].att = Sign(b.cand, b.key[1], b.policy)]
  <2>1. PICK a : a = Sign(b.cand, b.key[1], b.policy)
    OBVIOUS
  <2>2. a.head = b.cand /\ a.previous = ledger.head
    BY <2>1 DEF Sign
  <2>3. Forward(a)
    BY <1>5, <1>8, <2>2, AcceptedIsForward DEF Forward
  <2>4. PICK c : c = [b EXCEPT !.pc = "begin", !.att = a]
    OBVIOUS
  <2>5. Become(e, c)
    BY <1>3, <1>4, <1>8, <2>1, <2>4 DEF Become, Shapes
  <2>6. InCall(c) /\ c.pc = "begin" /\ c.cand = b.cand /\ c.updated = b.updated /\ c.att = a
    BY <1>5, <2>4 DEF InCall
  <2> QED
    BY <1>1, <1>2, <1>3, <1>5, <2>3, <2>5, <2>6, SettledStep DEF UpdateKnown, Advancing
<1>9. CASE \E o : /\ o.kind = "deployable" => o.att = ledger.att
                  /\ broker' = [broker EXCEPT ![e].pc = "finish", ![e].outcome = o]
  <2>1. PICK o : /\ o.kind = "deployable" => o.att = ledger.att
                 /\ broker' = [broker EXCEPT ![e].pc = "finish", ![e].outcome = o]
    BY <1>9
  <2>2. PICK c : c = [b EXCEPT !.pc = "finish", !.outcome = o]
    OBVIOUS
  <2>3. Become(e, c)
    BY <1>3, <1>4, <2>1, <2>2 DEF Become, Shapes
  <2>4. InCall(c) /\ c.pc = "finish" /\ c.cand = b.cand /\ c.updated = b.updated /\ c.outcome = o
    BY <1>5, <2>2 DEF InCall
  <2> QED
    BY <1>1, <1>2, <1>3, <1>5, <2>1, <2>3, <2>4, SettledStep DEF UpdateKnown, Advancing
<1>10. ASSUME NEW v \in {"diverged", "paused", "blocked", "stale", "deployable"}, NEW o,
              o = Outcome(v, IF v = "deployable" THEN ledger.att ELSE NoAtt)
       PROVE  o.kind = "deployable" => o.att = ledger.att
  BY <1>10 DEF Outcome
<1>11. \/ AbandonDelivery(e) \/ Goto(e, "diverge")
       \/ /\ CandidateVerdict(b) = "accept"
          /\ broker' = [broker EXCEPT ![e].pc = "begin",
                          ![e].att = Sign(b.cand, b.key[1], b.policy)]
       \/ \E v \in {"diverged", "paused", "blocked", "stale", "deployable"} :
            broker' = [broker EXCEPT ![e].pc = "finish",
                         ![e].outcome = Outcome(v, IF v = "deployable"
                                                   THEN ledger.att ELSE NoAtt)]
  BY <1>4 DEF ProcessCandidate
<1> QED
  BY <1>6, <1>7, <1>8, <1>9, <1>10, <1>11

(* The first divergence is kept; the head is not touched.                      *)
LEMMA DivergedRow ==
  ASSUME LedgerRow(ledger), NEW cand
  PROVE  SameHead(DivergedLedger(cand)) /\ DivergedLedger(cand).state = "diverged"
<1>1. PICK l : l = DivergedLedger(cand)
  OBVIOUS
<1>2. l = [head |-> ledger.head, att |-> ledger.att, state |-> "diverged",
           blocked |-> ledger.blocked, paused |-> ledger.paused, expired |-> ledger.expired,
           divergent |-> IF ledger.state = "diverged" THEN ledger.divergent ELSE cand]
  BY <1>1 DEF LedgerRow, DivergedLedger
<1> QED
  BY <1>1, <1>2 DEF SameHead, LedgerRow

(* A divergence is noted; head and journal stay.                               *)
LEMMA DivergeCore ==
  ASSUME Core, NEW e \in Epochs, MarkDiverged(e)
  PROVE  Core'
<1> USE DEF queueVars, worldVars
<1>1. /\ UNCHANGED <<journal, ticket, ref, tampers, epoch, remote>>
      /\ e = epoch /\ broker[e].pc = "diverge" /\ ledger' = DivergedLedger(DivergentHead(e))
  BY DEF MarkDiverged, At, RequireBoundBrokerEpoch
<1>2. NoneBehind
  BY <1>1, NotRecovering DEF Advancing
<1>3. Shapes /\ ProcessInv(e)
  BY DEF Core
<1>4. PICK b : b = broker[e]
  OBVIOUS
<1>5. InCall(b) /\ b.cand \in Commits
  BY <1>1, <1>3, <1>4 DEF ProcessInv, Waiting, HasCandidate
<1>6. LedgerRow(ledger') /\ ledger'.head = ledger.head /\ ledger'.att = ledger.att
  BY <1>1, <1>3, DivergedRow DEF Shapes, SameHead
<1>7. PICK p \in {"startup", "finish"} :
        /\ broker' = [broker EXCEPT ![e].pc = p, ![e].outcome = Outcome("diverged", NoAtt)]
        /\ p = "finish" => ~b.updated
  BY <1>1, <1>3, <1>4 DEF MarkDiverged, Continue, ProcessInv, UpdateKnown, HasCandidate
<1>8. PICK c : c = [b EXCEPT !.pc = p, !.outcome = Outcome("diverged", NoAtt)]
  OBVIOUS
<1>9. Become(e, c)
  BY <1>3, <1>4, <1>7, <1>8 DEF Become, Shapes
<1>10. /\ InCall(c) /\ c.pc = p /\ c.cand = b.cand /\ c.updated = b.updated
       /\ c.outcome.kind = "diverged"
  BY <1>5, <1>8 DEF InCall, Outcome
<1> QED
  BY <1>1, <1>2, <1>5, <1>6, <1>7, <1>9, <1>10, SettledStep
     DEF UpdateKnown, Advancing, HasCandidate

--------------------------------------------------------------------------------
(* Moving the ref.                                                             *)

(* The current process goes on moving the ref.                                 *)
LEMMA AdvanceStep ==
  ASSUME Core, UNCHANGED <<ledger, ticket, tampers, epoch, remote>>, JournalRow(journal'),
         NEW e \in Epochs, e = epoch, NEW c, Become(e, c), InCall(c), c.pc \in Advancing,
         c.cand \in Commits, Forward(c.att), ledger.state = "ready",
         journal'.state # "none", journal'.att = c.att, Follows(c.att), ticket = NoTicket,
         UpdateKnown(c), c.pc = "accept" \/ c.updated => journal'.state = "ref_updated",
         tampers = 0 =>
           /\ journal'.state = "ref_updated" \/ c.pc = "mark" => ref' = c.att.head
           /\ ref' \in {ledger.head, c.att.head}
           /\ \/ NoneBehind
              \/ journal.state # "none" /\ journal.att = c.att /\ c.key = "recovery"
  PROVE  Core'
<1> USE DEF Become
<1>1. Shapes'
  BY DEF Core, Shapes, LedgerRow, JournalRow
<1>2. JournalInv' /\ TicketInv'
  BY DEF JournalInv, TicketInv, Forward, Follows
<1>3. broker'[e] = c /\ \A d \in Epochs : d # e => broker'[d] = broker[d]
  BY DEF Core, Shapes
<1>4. ASSUME NEW d \in Epochs PROVE ProcessInv(d)'
  <2>1. CASE d = e
    <3>1. (Waiting(broker[d]) \/ InCall(broker[d]))'
      BY <1>3, <2>1 DEF InCall, Waiting
    <3>2. /\ broker'[d].pc = c.pc /\ broker'[d].cand = c.cand /\ epoch' = epoch
          /\ broker'[d].att = c.att /\ broker'[d].updated = c.updated /\ ledger' = ledger
      BY <1>3, <2>1
    <3>3. UpdateKnown(broker[d])'
      BY <1>3, <2>1 DEF UpdateKnown
    <3> QED
      BY <2>1, <3>1, <3>2, <3>3 DEF ProcessInv, Advancing, Forward
  <2>2. CASE d # e
    BY <1>3, <2>2 DEF Core, ProcessInv, UpdateKnown, InCall, Waiting, Forward, Advancing
  <2> QED
    BY <2>1, <2>2
<1>5. ASSUME tampers = 0 PROVE RefInv' /\ \A d \in Epochs : Overtaken(d)'
  <2>1. RefInv'
    BY <1>3, <1>5 DEF RefInv, JournalRow
  <2>2. ASSUME NEW d \in Epochs PROVE Overtaken(d)'
    <3>1. CASE NoneBehind
      BY <1>3, <1>5, <3>1 DEF NoneBehind, Overtaken, Passed
    <3>2. CASE journal.state # "none" /\ journal.att = c.att /\ c.key = "recovery"
      <4>1. Recovering'
        BY <1>3, <3>2 DEF Recovering
      <4>2. Overtaken(d)
        BY <1>5 DEF Core, SwapInv
      <4> QED
        BY <1>3, <3>2, <4>1, <4>2 DEF Overtaken, Passed
    <3> QED
      BY <1>5, <3>1, <3>2
  <2> QED
    BY <2>1, <2>2
<1> QED
  BY <1>1, <1>2, <1>4, <1>5 DEF Core, SwapInv

(* The intent is journalled before the ref moves.                              *)
LEMMA BeginCore ==
  ASSUME Core, NEW e \in Epochs, BeginRefUpdate(e)
  PROVE  Core'
<1> USE DEF queueVars, worldVars
<1>1. /\ UNCHANGED <<ledger, ticket, ref, tampers, epoch, remote>>
      /\ e = epoch /\ broker[e].pc = "begin"
  BY DEF BeginRefUpdate, At, RequireBoundBrokerEpoch
<1>2. NoneBehind
  BY <1>1, NotRecovering DEF Advancing
<1>3. Shapes /\ ProcessInv(e) /\ LedgerRow(ledger')
  BY <1>1 DEF Core, Shapes, LedgerRow
<1>4. PICK b : b = broker[e]
  OBVIOUS
<1>5. InCall(b) /\ b.cand \in Commits /\ Forward(b.att) /\ ~b.updated
  BY <1>1, <1>3, <1>4 DEF ProcessInv, UpdateKnown, Waiting, HasCandidate, Advancing
<1>6. CASE Goto(e, "decide") /\ UNCHANGED journal
  <2>1. PICK c : Become(e, c) /\ c.pc = "decide" /\ InCall(c) /\ SameCall(b, c)
    BY <1>3, <1>4, <1>5, <1>6, WentTo
  <2> QED
    BY <1>1, <1>2, <1>3, <1>5, <1>6, <2>1, SettledStep DEF UpdateKnown, Advancing, SameCall
<1>7. CASE AbandonDelivery(e) /\ UNCHANGED journal
  <2>1. PICK c : Become(e, c) /\ Waiting(c) /\ c.pc = "idle"
    BY <1>7, Returned DEF AbandonDelivery
  <2> QED
    BY <1>1, <1>2, <1>3, <1>7, <2>1, SettledStep DEF UpdateKnown, Advancing, HasCandidate
<1>8. CASE /\ ExpectedSnapshot(b.att) /\ ticket = NoTicket
           /\ journal.state = "none" \/ (journal.state # "none" /\ journal.att = b.att)
           /\ journal' = IF journal.state # "none" /\ journal.att = b.att
                         THEN journal ELSE [state |-> "intent_persisted", att |-> b.att]
           /\ Goto(e, "lease")
  <2>1. PICK c : Become(e, c) /\ c.pc = "lease" /\ InCall(c) /\ SameCall(b, c)
    BY <1>3, <1>4, <1>5, <1>8, WentTo
  <2>2. JournalRow(journal') /\ journal'.state # "none" /\ journal'.att = b.att
    BY <1>3, <1>8 DEF Shapes, JournalRow
  <2>3. Follows(b.att) /\ ledger.state = "ready"
    BY <1>8 DEF ExpectedSnapshot, Follows
  <2>4. tampers = 0 => /\ journal'.state = "ref_updated" => ref = b.att.head
                       /\ ref \in {ledger.head, b.att.head}
    BY <1>3, <1>8, <2>2 DEF Core, SwapInv, RefInv, JournalRow, NoJournal, Shapes
  <2>5. c.cand \in Commits /\ Forward(c.att) /\ c.att = b.att /\ ~c.updated /\ UpdateKnown(c)
    BY <1>5, <2>1 DEF SameCall, UpdateKnown
  <2> QED
    BY <1>1, <1>2, <1>8, <2>1, <2>2, <2>3, <2>4, <2>5, AdvanceStep DEF Advancing
<1> QED
  BY <1>4, <1>6, <1>7, <1>8 DEF BeginRefUpdate

(* A process on its way: what it knows of journal and ref.                     *)
LEMMA OnItsWay ==
  ASSUME Core, NEW e \in Epochs, e = epoch, broker[e].pc \in Advancing
  PROVE  /\ InCall(broker[e]) /\ broker[e].cand \in Commits /\ Forward(broker[e].att)
         /\ UpdateKnown(broker[e]) /\ ledger.state = "ready" /\ ticket = NoTicket
         /\ journal.state # "none" /\ journal.att = broker[e].att /\ Follows(broker[e].att)
         /\ JournalRow(journal)
         /\ broker[e].pc = "accept" \/ broker[e].updated => journal.state = "ref_updated"
         /\ tampers = 0 =>
              /\ ref \in {ledger.head, broker[e].att.head}
              /\ journal.state = "ref_updated" \/ broker[e].pc = "mark" => ref = broker[e].att.head
              /\ NoneBehind \/ broker[e].key = "recovery"
<1>1. ProcessInv(e) /\ JournalInv /\ Shapes /\ SwapInv
  BY DEF Core
<1>2. InCall(broker[e]) /\ broker[e].cand \in Commits /\ Forward(broker[e].att)
  BY <1>1 DEF ProcessInv, Waiting, Advancing, HasCandidate
<1>3. /\ UpdateKnown(broker[e]) /\ ledger.state = "ready" /\ JournalRow(journal)
      /\ journal.state # "none" /\ journal.att = broker[e].att
      /\ broker[e].pc = "accept" \/ broker[e].updated => journal.state = "ref_updated"
  BY <1>1 DEF ProcessInv, Shapes
<1>4. Follows(broker[e].att) /\ ticket = NoTicket
  BY <1>1, <1>3 DEF JournalInv
<1>5. ASSUME tampers = 0
      PROVE  /\ ref \in {ledger.head, broker[e].att.head}
             /\ journal.state = "ref_updated" \/ broker[e].pc = "mark" => ref = broker[e].att.head
             /\ NoneBehind \/ broker[e].key = "recovery"
  <2>1. RefInv /\ \A d \in Epochs : Overtaken(d)
    BY <1>1, <1>5 DEF SwapInv
  <2>2. journal.state \in {"intent_persisted", "ref_updated"}
    BY <1>3 DEF JournalRow, NoJournal
  <2>3. NoneBehind \/ broker[e].key = "recovery"
    BY NotRecovering DEF Advancing
  <2> QED
    BY <1>3, <2>1, <2>2, <2>3 DEF RefInv
<1> QED
  BY <1>2, <1>3, <1>4, <1>5

(* The lease is looked at once more before the swap.                           *)
LEMMA LeaseCore ==
  ASSUME Core, NEW e \in Epochs, RequireCurrentLease(e)
  PROVE  Core'
<1> USE DEF ledgerVars, queueVars, worldVars
<1>1. /\ UNCHANGED <<ledger, journal, ticket, ref, tampers, epoch, remote>>
      /\ e = epoch /\ broker[e].pc = "lease" /\ broker[e].pc \in Advancing /\ Goto(e, "cas")
  BY DEF RequireCurrentLease, At, RequireBoundBrokerEpoch, Advancing
<1>2. Shapes /\ ProcessInv(e)
  BY DEF Core
<1>3. PICK b : b = broker[e]
  OBVIOUS
<1>4. /\ InCall(b) /\ b.cand \in Commits /\ Forward(b.att)
      /\ UpdateKnown(b) /\ ledger.state = "ready" /\ ticket = NoTicket
      /\ journal.state # "none" /\ journal.att = b.att /\ Follows(b.att)
      /\ JournalRow(journal)
      /\ b.updated => journal.state = "ref_updated"
      /\ tampers = 0 =>
           /\ ref \in {ledger.head, b.att.head}
           /\ journal.state = "ref_updated" => ref = b.att.head
           /\ NoneBehind \/ b.key = "recovery"
  BY <1>1, <1>3, OnItsWay
<1>5. PICK c : Become(e, c) /\ c.pc = "cas" /\ InCall(c) /\ SameCall(b, c)
  BY <1>1, <1>2, <1>3, <1>4, WentTo
<1>6. /\ c.cand \in Commits /\ c.att = b.att /\ Forward(c.att) /\ Follows(c.att)
      /\ c.updated = b.updated /\ c.key = b.key /\ c.pc \in Advancing
  BY <1>4, <1>5 DEF SameCall, Advancing
<1>7. UpdateKnown(c)
  BY <1>1, <1>3, <1>4, <1>5, <1>6 DEF UpdateKnown, Advancing, HasCandidate
<1>8. JournalRow(journal') /\ journal' = journal
  BY <1>1, <1>4
<1> QED
  BY <1>1, <1>4, <1>5, <1>6, <1>7, <1>8, AdvanceStep

(* The journal learns that the ref has moved.                                  *)
LEMMA MarkCore ==
  ASSUME Core, NEW e \in Epochs, MarkRefUpdated(e)
  PROVE  Core'
<1> USE DEF ledgerVars, queueVars, worldVars
<1>1. /\ UNCHANGED <<ledger, ticket, ref, tampers, epoch, remote>>
      /\ e = epoch /\ broker[e].pc = "mark" /\ broker[e].pc \in Advancing /\ Goto(e, "accept")
      /\ journal' = [journal EXCEPT !.state = "ref_updated"]
  BY DEF MarkRefUpdated, At, RequireBoundBrokerEpoch, Advancing
<1>2. Shapes /\ ProcessInv(e)
  BY DEF Core
<1>3. PICK b : b = broker[e]
  OBVIOUS
<1>4. /\ InCall(b) /\ b.cand \in Commits /\ Forward(b.att)
      /\ UpdateKnown(b) /\ ledger.state = "ready" /\ ticket = NoTicket
      /\ journal.state # "none" /\ journal.att = b.att /\ Follows(b.att)
      /\ JournalRow(journal)
      /\ tampers = 0 => ref = b.att.head /\ (NoneBehind \/ b.key = "recovery")
  BY <1>1, <1>3, OnItsWay
<1>5. PICK c : Become(e, c) /\ c.pc = "accept" /\ InCall(c) /\ SameCall(b, c)
  BY <1>1, <1>2, <1>3, <1>4, WentTo
<1>6. /\ c.cand \in Commits /\ c.att = b.att /\ Forward(c.att) /\ Follows(c.att)
      /\ c.updated = b.updated /\ c.key = b.key /\ c.pc \in Advancing
  BY <1>4, <1>5 DEF SameCall, Advancing
<1>7. UpdateKnown(c)
  BY <1>1, <1>3, <1>4, <1>5, <1>6 DEF UpdateKnown, Advancing, HasCandidate
<1>8. journal' = [state |-> "ref_updated", att |-> b.att]
  BY <1>1, <1>4 DEF JournalRow, NoJournal
<1>9. JournalRow(journal') /\ journal'.state = "ref_updated" /\ journal'.att = c.att
  BY <1>6, <1>8 DEF JournalRow
<1> QED
  BY <1>1, <1>4, <1>5, <1>6, <1>7, <1>9, AdvanceStep

--------------------------------------------------------------------------------
(* The compare-and-swap.                                                       *)

(* A swap of a head that was passed long ago finds the ref elsewhere.          *)
LEMMA PassedSwap ==
  ASSUME Core, tampers = 0, NEW a, Forward(a), Passed(a), ref = a.previous
  PROVE  ref = a.head
<1>1. RefInv /\ JournalInv /\ Shapes
  BY DEF Core, SwapInv
<1>2. ledger.head \in Commits
  BY BrokerAssumption, BeforeIsStrict DEF Passed, Forward
<1>3. ASSUME NEW r \in Commits, r = ledger.head \/ <<ledger.head, r>> \in Before, r = a.previous
      PROVE  r = a.head
  <2>1. a.head \in Commits /\ a.previous \in Commits
    BY <1>3 DEF Forward
  <2>2. a.head = r \/ <<a.head, r>> \in Before
    BY <1>2, <1>3, <2>1, BeforeIsStrict DEF Passed
  <2>3. a.previous = a.head \/ <<a.previous, a.head>> \in Before
    BY <2>1, BrokerAssumption DEF Forward
  <2> QED
    BY <1>3, <2>1, <2>2, <2>3, BeforeIsStrict
<1>4. CASE ref = ledger.head
  BY <1>2, <1>3, <1>4
<1>5. CASE journal.state # "none" /\ ref = journal.att.head
  <2>1. PICK b : b = journal.att
    OBVIOUS
  <2>2. b.head \in Commits /\ b.previous = ledger.head
    BY <1>1, <1>5, <2>1 DEF JournalInv, Forward, Follows
  <2>3. b.head = ledger.head \/ <<ledger.head, b.head>> \in Before
    BY <1>1, <1>2, <1>5, <2>1, <2>2, BrokerAssumption DEF JournalInv, Forward
  <2> QED
    BY <1>3, <1>5, <2>1, <2>2, <2>3
<1> QED
  BY <1>1, <1>4, <1>5 DEF RefInv, Shapes, JournalRow, NoJournal

(* After its swap a superseded process is gone.                                *)
LEMMA LateSwap ==
  ASSUME Core, NEW e \in Epochs, e # epoch, CompareAndSwapAcceptedHead(e)
  PROVE  Core'
<1> USE DEF ledgerVars, queueVars, worldVars
<1>1. /\ UNCHANGED <<ledger, journal, ticket, tampers, epoch, remote>> /\ broker[e].pc = "cas"
      /\ broker' = [broker EXCEPT ![e] = Down]
  BY DEF CompareAndSwapAcceptedHead, AfterSwap
<1>2. PICK c : c = Down
  OBVIOUS
<1>3. Become(e, c) /\ Waiting(c) /\ c.pc = "down"
  BY <1>1, <1>2 DEF Become, Waiting, Down
<1>4. PICK a : a = broker[e].att
  OBVIOUS
<1>5. Forward(a)
  BY <1>1, <1>4 DEF Core, ProcessInv, Advancing
<1>6. ref' = ref \/ (ref = a.previous /\ ref # a.head /\ ref' = a.head)
  BY <1>4 DEF CompareAndSwapAcceptedHead
<1>7. CASE ref' = ref
  BY <1>1, <1>3, <1>7, CalmStep DEF coreVars, Core, Shapes, UpdateKnown, Advancing, HasCandidate
<1>8. CASE ref = a.previous /\ ref # a.head /\ ref' = a.head
  <2>1. tampers = 0 => journal.state # "none" /\ journal.att = a
    BY <1>1, <1>4, <1>5, <1>8, PassedSwap DEF Core, SwapInv, Overtaken
  <2>2. broker'[e] = c /\ \A d \in Epochs : d # e => broker'[d] = broker[d]
    BY <1>3 DEF Core, Shapes, Become
  <2>3. Shapes' /\ JournalInv' /\ TicketInv'
    BY <1>1 DEF Core, Shapes, JournalInv, TicketInv, LedgerRow, JournalRow, Forward, Follows
  <2>4. ASSUME NEW d \in Epochs PROVE ProcessInv(d)'
    <3>1. CASE d = e
      BY <1>1, <1>2, <1>3, <2>2, <3>1
         DEF ProcessInv, UpdateKnown, Waiting, Down, Advancing, HasCandidate
    <3>2. CASE d # e
      BY <1>1, <2>2, <3>2 DEF Core, ProcessInv, UpdateKnown, InCall, Waiting, Forward
    <3> QED
      BY <3>1, <3>2
  <2>5. ASSUME tampers = 0 PROVE RefInv' /\ \A d \in Epochs : Overtaken(d)'
    <3>1. RefInv /\ \A d \in Epochs : Overtaken(d)
      BY <2>5 DEF Core, SwapInv
    <3>2. ASSUME NEW d \in Epochs, d = epoch, broker[d].pc = "mark" PROVE broker[d].att = a
      BY <2>1, <2>5, <3>2 DEF Core, ProcessInv, Advancing
    <3>3. RefInv'
      BY <1>1, <1>8, <2>1, <2>2, <2>5, <3>1, <3>2 DEF RefInv
    <3>4. ASSUME NEW d \in Epochs PROVE Overtaken(d)'
      BY <1>1, <1>3, <2>2, <3>1, <3>4 DEF Overtaken, Passed, Recovering
    <3> QED
      BY <3>3, <3>4
  <2> QED
    BY <1>1, <2>3, <2>4, <2>5 DEF Core, SwapInv
<1> QED
  BY <1>6, <1>7, <1>8

(* The process that holds the lease makes its swap; it finds the ref elsewhere *)
(* only if somebody else has written it.                                       *)
LEMMA SwapCore ==
  ASSUME Core, NEW e \in Epochs, CompareAndSwapAcceptedHead(e)
  PROVE  Core'
<1> USE DEF ledgerVars, queueVars, worldVars
<1>1. CASE e # epoch
  BY <1>1, LateSwap
<1>2. CASE e = epoch
  <2>1. /\ UNCHANGED <<ledger, journal, ticket, tampers, epoch, remote>>
        /\ broker[e].pc = "cas" /\ broker[e].pc \in Advancing
    BY DEF CompareAndSwapAcceptedHead, Advancing
  <2>2. Shapes /\ ProcessInv(e) /\ LedgerRow(ledger')
    BY <2>1 DEF Core, Shapes, LedgerRow
  <2>3. PICK b : b = broker[e]
    OBVIOUS
  <2>4. /\ InCall(b) /\ b.cand \in Commits /\ Forward(b.att)
        /\ UpdateKnown(b) /\ ledger.state = "ready" /\ ticket = NoTicket
        /\ journal.state # "none" /\ journal.att = b.att /\ Follows(b.att)
        /\ JournalRow(journal)
        /\ b.updated => journal.state = "ref_updated"
        /\ tampers = 0 =>
             /\ ref \in {ledger.head, b.att.head}
             /\ journal.state = "ref_updated" => ref = b.att.head
             /\ NoneBehind \/ b.key = "recovery"
    BY <1>2, <2>1, <2>3, OnItsWay
  <2>5. PICK p \in {"mark", "diverge"} :
          /\ broker' = [broker EXCEPT ![e] = [@ EXCEPT !.pc = p]]
          /\ p = "mark" => ref' = b.att.head
          /\ p = "diverge" => ref' = ref /\ ref # b.att.head /\ (ref # b.att.previous \/ b.updated)
    BY <1>2, <2>3 DEF CompareAndSwapAcceptedHead, AfterSwap
  <2>6. Goto(e, p)
    BY <2>2, <2>5 DEF Goto, Shapes
  <2>7. PICK c : Become(e, c) /\ c.pc = p /\ InCall(c) /\ SameCall(b, c)
    BY <2>2, <2>3, <2>4, <2>6, WentTo
  <2>8. /\ c.cand \in Commits /\ c.att = b.att /\ Forward(c.att) /\ Follows(c.att)
        /\ c.updated = b.updated /\ c.key = b.key
    BY <2>4, <2>7 DEF SameCall
  <2>9. UpdateKnown(c)
    BY <2>1, <2>3, <2>4, <2>5, <2>7, <2>8 DEF UpdateKnown, Advancing, HasCandidate
  <2>10. CASE p = "mark"
    <3>1. JournalRow(journal') /\ journal' = journal /\ c.pc \in Advancing
      BY <2>1, <2>4, <2>7, <2>10 DEF Advancing
    <3> QED
      BY <1>2, <2>1, <2>4, <2>5, <2>7, <2>8, <2>9, <2>10, <3>1, AdvanceStep
  <2>11. CASE p = "diverge"
    <3>1. tampers # 0
      BY <2>4, <2>5, <2>11 DEF Follows
    <3>2. NoneBehind
      BY <3>1 DEF NoneBehind
    <3>3. c.pc = "diverge" /\ ref' = ref
      BY <2>5, <2>7, <2>11
    <3> QED
      BY <1>2, <2>1, <2>2, <2>7, <2>8, <2>9, <3>2, <3>3, SettledStep DEF Advancing
  <2> QED
    BY <2>5, <2>10, <2>11
<1> QED
  BY <1>1, <1>2

(* What the head was is behind what it becomes.                                *)
LEMMA PassedStays ==
  ASSUME NEW a, Forward(a), Follows(a), NEW x, Forward(x), Passed(x)
  PROVE  x.head = a.head \/ <<x.head, a.head>> \in Before
<1>1. x.head \in Commits /\ a.head \in Commits /\ ledger.head \in Commits
  BY BrokerAssumption, BeforeIsStrict DEF Passed, Forward
<1>2. ledger.head = a.head \/ <<ledger.head, a.head>> \in Before
  BY <1>1, BrokerAssumption DEF Forward, Follows
<1> QED
  BY <1>1, <1>2, BeforeIsStrict DEF Passed

(* The head is replaced and the journal row ends in one transaction; the swaps *)
(* still ahead are of heads that are passed from now on.                       *)
LEMMA AcceptCore ==
  ASSUME Core, NEW e \in Epochs, AcceptIfCurrent(e)
  PROVE  Core'
<1> USE DEF queueVars, worldVars
<1>1. /\ UNCHANGED <<ticket, ref, tampers, epoch, remote>>
      /\ e = epoch /\ broker[e].pc = "accept" /\ broker[e].pc \in Advancing
      /\ journal.state = "ref_updated" /\ journal' = NoJournal
  BY DEF AcceptIfCurrent, At, RequireBoundBrokerEpoch, Advancing
<1>2. Shapes /\ ProcessInv(e)
  BY DEF Core
<1>3. PICK b : b = broker[e]
  OBVIOUS
<1>4. /\ InCall(b) /\ b.cand \in Commits /\ Forward(b.att) /\ UpdateKnown(b)
      /\ ticket = NoTicket /\ journal.att = b.att /\ Follows(b.att)
      /\ tampers = 0 => ref = b.att.head
  BY <1>1, <1>3, OnItsWay
<1>5. /\ LedgerRow(ledger') /\ ledger'.head = b.att.head /\ ledger'.att = b.att
      /\ ledger'.att.seq \in Nat /\ ledger'.head \in Commits
  <2>1. ledger' = [ledger EXCEPT !.head = b.att.head, !.att = b.att, !.expired = FALSE,
                                 !.divergent = NoCommit]
    BY <1>3 DEF AcceptIfCurrent
  <2>2. ledger' = [head |-> b.att.head, att |-> b.att, state |-> ledger.state,
                   blocked |-> ledger.blocked, paused |-> ledger.paused, expired |-> FALSE,
                   divergent |-> NoCommit]
    BY <1>2, <2>1 DEF Shapes, LedgerRow
  <2> QED
    BY <1>2, <1>4, <2>2 DEF Shapes, LedgerRow, Forward, Follows
<1>6. PICK p \in {"startup", "finish"} :
        /\ broker' = [broker EXCEPT ![e].pc = p, ![e].outcome = Outcome("deployable", b.att)]
        /\ p = "finish" => ~b.updated
  BY <1>1, <1>3, <1>4 DEF AcceptIfCurrent, Continue, UpdateKnown, HasCandidate
<1>7. PICK c : c = [b EXCEPT !.pc = p, !.outcome = Outcome("deployable", b.att)]
  OBVIOUS
<1>8. Become(e, c)
  BY <1>2, <1>3, <1>6, <1>7 DEF Become, Shapes
<1>9. /\ InCall(c) /\ c.pc = p /\ c.cand = b.cand /\ c.updated = b.updated
      /\ c.outcome.att = b.att
  BY <1>4, <1>7 DEF InCall, Outcome
<1>10. broker'[e] = c /\ \A d \in Epochs : d # e => broker'[d] = broker[d]
  BY <1>2, <1>8 DEF Shapes, Become
<1>11. Shapes' /\ JournalInv' /\ TicketInv'
  <2>1. Shapes'
    BY <1>1, <1>2, <1>5, <1>8 DEF Shapes, JournalRow, Become
  <2>2. JournalInv' /\ TicketInv'
    BY <1>1, <1>4 DEF JournalInv, TicketInv, NoJournal
  <2> QED
    BY <2>1, <2>2
<1>12. ASSUME NEW d \in Epochs PROVE ProcessInv(d)'
  <2>1. CASE d = e
    <3>1. (Waiting(broker[d]) \/ InCall(broker[d]))'
      BY <1>9, <1>10, <2>1 DEF InCall
    <3>2. /\ broker'[d].pc = p /\ broker'[d].cand \in Commits /\ epoch' = epoch
          /\ broker'[d].outcome.att = ledger'.att
      BY <1>1, <1>4, <1>5, <1>9, <1>10, <2>1
    <3>3. UpdateKnown(broker[d])'
      BY <1>6, <1>9, <1>10, <2>1 DEF UpdateKnown, HasCandidate
    <3> QED
      BY <1>1, <1>6, <2>1, <3>1, <3>2, <3>3 DEF ProcessInv, Advancing
  <2>2. CASE d # e
    BY <1>1, <1>10, <2>2 DEF Core, ProcessInv, UpdateKnown, InCall, Waiting, Forward, Advancing
  <2> QED
    BY <2>1, <2>2
<1>13. ASSUME tampers = 0 PROVE RefInv' /\ \A d \in Epochs : Overtaken(d)'
  <2>1. RefInv'
    BY <1>1, <1>4, <1>5, <1>6, <1>9, <1>10, <1>13 DEF RefInv, NoJournal
  <2>2. ASSUME NEW d \in Epochs, d # epoch, broker[d].pc = "cas" PROVE Passed(broker[d].att)'
    <3>1. PICK x : x = broker[d].att
      OBVIOUS
    <3>2. Forward(x)
      BY <2>2, <3>1 DEF Core, ProcessInv, Advancing
    <3>3. Passed(x) \/ x = b.att
      BY <1>4, <1>13, <2>2, <3>1 DEF Core, SwapInv, Overtaken
    <3>4. x.head = b.att.head \/ <<x.head, b.att.head>> \in Before
      BY <1>4, <3>2, <3>3, PassedStays
    <3> QED
      BY <1>1, <1>5, <1>10, <2>2, <3>1, <3>4 DEF Passed
  <2>3. ASSUME NEW d \in Epochs PROVE Overtaken(d)'
    BY <1>1, <1>10, <2>2 DEF Overtaken
  <2> QED
    BY <2>1, <2>3
<1> QED
  BY <1>1, <1>11, <1>12, <1>13 DEF Core, SwapInv

--------------------------------------------------------------------------------
(* Starting a broker.                                                          *)

(* A new process supersedes the others: all of them are gone but those that    *)
(* were about to swap, and the journal still says what they swap.              *)
LEMMA StartCore ==
  ASSUME Core, NEW e \in Epochs, Start(e)
  PROVE  Core'
<1> USE DEF ledgerVars, queueVars, worldVars
<1>1. PICK policy \in Policies : AcquireBrokerLease(e, policy)
  BY DEF Start
<1>2. /\ UNCHANGED <<ledger, journal, ticket, ref, tampers, remote>>
      /\ e = epoch + 1 /\ epoch' = e
      /\ broker' = [d \in Epochs |-> IF d = e THEN [pc |-> "recover", policy |-> policy]
                                     ELSE BrokerLeaseSuperseded(d, e)]
  BY <1>1 DEF AcquireBrokerLease
<1>3. Shapes /\ SwapInv /\ \A d \in Epochs : ProcessInv(d)
  BY DEF Core
<1>4. broker'[e] = [pc |-> "recover", policy |-> policy] /\ e # epoch
  BY <1>2, <1>3 DEF Shapes
<1>5. ASSUME NEW d \in Epochs, d # e
      PROVE  \/ broker'[d] = Down /\ broker[d].pc # "cas"
             \/ broker'[d] = broker[d] /\ broker[d].pc = "cas"
  BY <1>2, <1>5 DEF BrokerLeaseSuperseded
<1>6. Shapes' /\ JournalInv' /\ TicketInv'
  <2>1. Shapes'
    BY <1>2, <1>3 DEF Shapes, LedgerRow, JournalRow, Epochs
  <2>2. JournalInv' /\ TicketInv'
    BY <1>2 DEF Core, JournalInv, TicketInv, Forward, Follows
  <2> QED
    BY <2>1, <2>2
<1>7. ASSUME NEW d \in Epochs PROVE ProcessInv(d)'
  <2>1. CASE d = e
    <3>1. PICK c : c = [pc |-> "recover", policy |-> policy]
      OBVIOUS
    <3>2. Waiting(c) /\ c.pc = "recover"
      BY <3>1 DEF Waiting
    <3>3. broker'[d] = c /\ epoch' = d
      BY <1>2, <1>4, <2>1, <3>1
    <3>4. (Waiting(broker[d]) \/ InCall(broker[d]))'
      BY <3>2, <3>3 DEF Waiting
    <3> QED
      BY <3>2, <3>3, <3>4 DEF ProcessInv, UpdateKnown, Advancing, HasCandidate
  <2>2. CASE d # e /\ broker'[d] = Down
    <3>1. Waiting(broker[d])' /\ broker'[d].pc = "down"
      BY <2>2 DEF Waiting, Down
    <3> QED
      BY <1>2, <2>2, <3>1 DEF ProcessInv, UpdateKnown, Advancing, HasCandidate
  <2>3. CASE d # e /\ broker'[d] = broker[d] /\ broker[d].pc = "cas"
    BY <1>2, <1>3, <2>3 DEF ProcessInv, UpdateKnown, InCall, Waiting, Forward, Advancing
  <2> QED
    BY <1>5, <2>1, <2>2, <2>3
<1>8. ASSUME tampers = 0 PROVE RefInv' /\ \A d \in Epochs : Overtaken(d)'
  <2>1. RefInv'
    BY <1>2, <1>3, <1>4, <1>8 DEF SwapInv, RefInv
  <2>2. Recovering'
    BY <1>2, <1>4 DEF Recovering
  <2>3. ASSUME NEW d \in Epochs, d # e, broker'[d].pc = "cas" PROVE Overtaken(d)'
    <3>1. broker'[d] = broker[d] /\ broker[d].pc = "cas"
      BY <1>5, <2>3 DEF Down
    <3>2. CASE d = epoch
      <4>1. journal.state # "none" /\ journal.att = broker[d].att /\ ledger.state = "ready"
        BY <1>3, <3>1, <3>2 DEF ProcessInv, Advancing
      <4> QED
        BY <1>2, <2>2, <3>1, <4>1 DEF Overtaken
    <3>3. CASE d # epoch
      BY <1>2, <1>3, <1>8, <2>2, <3>1, <3>3 DEF SwapInv, Overtaken, Passed
    <3> QED
      BY <3>2, <3>3
  <2> QED
    BY <1>2, <2>1, <2>3 DEF Overtaken
<1> QED
  BY <1>2, <1>6, <1>7, <1>8 DEF Core, SwapInv

(* A row that is carried on is one the head has not reached, and no operation  *)
(* waits behind it.                                                            *)
LEMMA RecoverRefCore ==
  ASSUME Core, NEW e \in Epochs, RecoverRefUpdate(e)
  PROVE  Core'
<1> USE DEF queueVars, worldVars
<1>1. /\ UNCHANGED <<ledger, ticket, ref, tampers, epoch, remote>>
      /\ e = epoch /\ broker[e].pc = "recover" /\ journal.state # "none"
  BY DEF RecoverRefUpdate, At, RequireBoundBrokerEpoch
<1>2. Shapes /\ ProcessInv(e) /\ LedgerRow(ledger') /\ SwapInv
  BY <1>1 DEF Core, Shapes, LedgerRow
<1>3. Waiting(broker[e]) \/ InCall(broker[e])
  BY <1>2 DEF ProcessInv
<1>4. PICK a : a = journal.att
  OBVIOUS
<1>5. /\ Forward(a) /\ Follows(a) /\ ticket = NoTicket /\ ledger.att # a
      /\ journal.state \in {"intent_persisted", "ref_updated"}
  BY <1>1, <1>2, <1>4 DEF Core, JournalInv, Shapes, Follows, JournalRow, NoJournal
<1>6. CASE broker' = [broker EXCEPT ![e] = Down] /\ UNCHANGED journal
  <2>1. PICK c : c = Down
    OBVIOUS
  <2>2. Become(e, c) /\ Waiting(c) /\ c.pc = "down"
    BY <1>6, <2>1 DEF Become, Waiting, Down
  <2> QED
    BY <1>1, <1>2, <1>6, <2>2, CalmStep
       DEF coreVars, Shapes, UpdateKnown, Advancing, HasCandidate
<1>7. CASE ledger.state = "diverged" /\ Goto(e, "startup") /\ UNCHANGED journal
  <2>1. NoneBehind
    BY <1>2, <1>7 DEF NoneBehind, SwapInv, Overtaken
  <2>2. PICK c : /\ Become(e, c) /\ c.pc = "startup"
                 /\ InCall(broker[e]) => InCall(c) /\ SameCall(broker[e], c)
                 /\ Waiting(broker[e]) => c = [pc |-> "startup", policy |-> broker[e].policy]
    BY <1>2, <1>7, WentTo
  <2>3. Waiting(c) \/ InCall(c)
    BY <1>3, <2>2 DEF Waiting
  <2> QED
    BY <1>1, <1>2, <1>7, <2>1, <2>2, <2>3, CalmStep
       DEF coreVars, Shapes, UpdateKnown, Advancing, HasCandidate
<1>8. CASE /\ ledger.state = "ready" /\ UNCHANGED journal
           /\ Enter(e, [Call("recovery", a.head, a.head, NoCommit, FALSE, {}, "lease")
                          EXCEPT !.att = a, !.updated = (journal.state = "ref_updated")])
  <2>1. PICK u \in BOOLEAN : u = (journal.state = "ref_updated")
    OBVIOUS
  <2>2. PICK c : c = [pc |-> "lease", policy |-> broker[e].policy, key |-> "recovery",
                      cand |-> a.head, announced |-> a.head, previous |-> NoCommit,
                      refresh |-> FALSE, batch |-> {}, att |-> a, updated |-> u,
                      outcome |-> NoOutcome]
    OBVIOUS
  <2>3. Become(e, c)
    <3>1. PICK k : k = Call("recovery", a.head, a.head, NoCommit, FALSE, {}, "lease")
      OBVIOUS
    <3>2. PICK m : m = [k EXCEPT !.att = a, !.updated = u]
      OBVIOUS
    <3>3. broker' = [broker EXCEPT ![e] = [m EXCEPT !.policy = broker[e].policy]]
      BY <1>8, <2>1, <3>1, <3>2 DEF Enter
    <3>4. m = [pc |-> "lease", policy |-> NoPolicy, key |-> "recovery",
               cand |-> a.head, announced |-> a.head, previous |-> NoCommit,
               refresh |-> FALSE, batch |-> {}, att |-> a, updated |-> u,
               outcome |-> NoOutcome]
      BY <3>1, <3>2 DEF Call
    <3>5. PICK x : x = [m EXCEPT !.policy = broker[e].policy]
      OBVIOUS
    <3>6. x = [pc |-> "lease", policy |-> broker[e].policy, key |-> "recovery",
               cand |-> a.head, announced |-> a.head, previous |-> NoCommit,
               refresh |-> FALSE, batch |-> {}, att |-> a, updated |-> u,
               outcome |-> NoOutcome]
      BY <3>4, <3>5
    <3> QED
      BY <2>2, <3>3, <3>5, <3>6 DEF Become
  <2>4. /\ InCall(c) /\ c.pc = "lease" /\ c.key = "recovery" /\ c.cand = a.head /\ c.att = a
        /\ c.updated = u /\ c.pc \in Advancing
    BY <2>2 DEF InCall, Advancing
  <2>5. UpdateKnown(c) /\ c.cand \in Commits /\ Forward(c.att) /\ Follows(c.att)
    BY <1>5, <2>4 DEF UpdateKnown, Forward
  <2>6. JournalRow(journal') /\ journal' = journal
    BY <1>2, <1>8 DEF Shapes
  <2>7. tampers = 0 => /\ journal.state = "ref_updated" => ref = a.head
                       /\ ref \in {ledger.head, a.head}
    BY <1>2, <1>4, <1>5 DEF SwapInv, RefInv
  <2> QED
    BY <1>1, <1>4, <1>5, <1>8, <2>1, <2>3, <2>4, <2>5, <2>6, <2>7, AdvanceStep
<1> QED
  BY <1>4, <1>5, <1>6, <1>7, <1>8 DEF RecoverRefUpdate

(* Without a row, nobody has a swap ahead that could still move the ref.       *)
LEMMA RecoverStateCore ==
  ASSUME Core, NEW e \in Epochs, RecoverSourceState(e)
  PROVE  Core'
<1> USE DEF queueVars, worldVars
<1>1. /\ UNCHANGED <<journal, ticket, ref, tampers, epoch, remote>>
      /\ e = epoch /\ broker[e].pc = "recover" /\ journal.state = "none" /\ Goto(e, "startup")
  BY DEF RecoverSourceState, At, RequireBoundBrokerEpoch
<1>2. Shapes /\ ProcessInv(e) /\ SwapInv
  BY DEF Core
<1>3. NoneBehind
  BY <1>1, <1>2 DEF NoneBehind, SwapInv, Overtaken
<1>4. LedgerRow(ledger') /\ ledger'.head = ledger.head /\ ledger'.att = ledger.att
  <2>1. CASE ledger' = ledger
    BY <1>2, <2>1 DEF Shapes, LedgerRow
  <2>2. CASE \E x : ledger' = DivergedLedger(x)
    BY <1>2, <2>2, DivergedRow DEF Shapes, SameHead
  <2> QED
    BY <2>1, <2>2 DEF RecoverSourceState
<1>5. PICK c : /\ Become(e, c) /\ c.pc = "startup"
               /\ InCall(broker[e]) => InCall(c) /\ SameCall(broker[e], c)
               /\ Waiting(broker[e]) => c = [pc |-> "startup", policy |-> broker[e].policy]
  BY <1>1, <1>2, WentTo
<1>6. Waiting(c) \/ InCall(c)
  BY <1>2, <1>5 DEF ProcessInv, Waiting
<1> QED
  BY <1>1, <1>3, <1>4, <1>5, <1>6, SettledStep DEF UpdateKnown, Advancing, HasCandidate

--------------------------------------------------------------------------------
(* The owner, the executor and the world.                                      *)

(* Controls and the passing of time leave head and state of the ledger alone.  *)
LEMMA LedgerOnly ==
  ASSUME Core, UNCHANGED <<journal, ticket, ref, tampers, epoch, remote, broker>>,
         LedgerRow(ledger'), ledger'.head = ledger.head, ledger'.att = ledger.att,
         ledger'.state = ledger.state
  PROVE  Core'
<1>1. Shapes' /\ JournalInv' /\ TicketInv'
  BY DEF Core, Shapes, JournalInv, TicketInv, JournalRow, Forward, Follows
<1>2. ASSUME NEW d \in Epochs PROVE ProcessInv(d)'
  BY DEF Core, ProcessInv, UpdateKnown, InCall, Waiting, Forward
<1>3. SwapInv'
  BY DEF Core, SwapInv, RefInv, Overtaken, Passed, Recovering
<1> QED
  BY <1>1, <1>2, <1>3 DEF Core

(* The owner's controls and the clock.                                         *)
LEMMA ControlsCore ==
  ASSUME Core,
         (\E e \in Epochs : \E blocked, paused : SetControls(e, blocked, paused)) \/ TimePasses
  PROVE  Core'
<1> USE DEF queueVars, worldVars
<1>1. UNCHANGED <<journal, ticket, ref, tampers, epoch, remote, broker>>
  BY DEF SetControls, TimePasses
<1>2. LedgerRow(ledger)
  BY DEF Core, Shapes
<1>3. \/ \E blocked, paused : ledger' = [ledger EXCEPT !.blocked = blocked, !.paused = paused]
      \/ ledger' = [ledger EXCEPT !.expired = TRUE]
      \/ ledger' = [ledger EXCEPT !.paused = FALSE]
  BY DEF SetControls, TimePasses
<1>4. /\ LedgerRow(ledger') /\ ledger'.head = ledger.head /\ ledger'.att = ledger.att
      /\ ledger'.state = ledger.state
  <2>1. ASSUME NEW blocked, NEW paused,
               ledger' = [ledger EXCEPT !.blocked = blocked, !.paused = paused]
        PROVE  ledger' = [head |-> ledger.head, att |-> ledger.att, state |-> ledger.state,
                          blocked |-> blocked, paused |-> paused, expired |-> ledger.expired,
                          divergent |-> ledger.divergent]
    BY <1>2, <2>1 DEF LedgerRow
  <2>2. ASSUME ledger' = [ledger EXCEPT !.expired = TRUE]
        PROVE  ledger' = [head |-> ledger.head, att |-> ledger.att, state |-> ledger.state,
                          blocked |-> ledger.blocked, paused |-> ledger.paused, expired |-> TRUE,
                          divergent |-> ledger.divergent]
    BY <1>2, <2>2 DEF LedgerRow
  <2>3. ASSUME ledger' = [ledger EXCEPT !.paused = FALSE]
        PROVE  ledger' = [head |-> ledger.head, att |-> ledger.att, state |-> ledger.state,
                          blocked |-> ledger.blocked, paused |-> FALSE, expired |-> ledger.expired,
                          divergent |-> ledger.divergent]
    BY <1>2, <2>3 DEF LedgerRow
  <2> QED
    BY <1>3, <2>1, <2>2, <2>3 DEF LedgerRow
<1> QED
  BY <1>1, <1>4, LedgerOnly

(* What the owner keeps is where the ref is; the row that is dropped belongs   *)
(* to nobody who could still act on it.                                        *)
LEMMA ResolveCore ==
  ASSUME Core, NEW e \in Epochs, ResolveDivergenceKeepCanonical(e)
  PROVE  Core'
<1> USE DEF queueVars, worldVars
<1>1. /\ UNCHANGED <<ticket, ref, tampers, epoch, remote, broker>>
      /\ e = epoch /\ broker[e].pc = "idle" /\ ref = ledger.head /\ journal' = NoJournal
      /\ ledger' = [ledger EXCEPT !.state = "ready", !.divergent = NoCommit]
  BY DEF ResolveDivergenceKeepCanonical, At, RequireBoundBrokerEpoch
<1>2. Shapes /\ TicketInv /\ \A d \in Epochs : ProcessInv(d)
  BY DEF Core
<1>3. NoneBehind
  BY <1>1, NotRecovering DEF Advancing
<1>4. ledger' = [head |-> ledger.head, att |-> ledger.att, state |-> "ready",
                 blocked |-> ledger.blocked, paused |-> ledger.paused,
                 expired |-> ledger.expired, divergent |-> NoCommit]
  BY <1>1, <1>2 DEF Shapes, LedgerRow
<1>5. LedgerRow(ledger') /\ ledger'.head = ledger.head /\ ledger'.att = ledger.att
  BY <1>4 DEF LedgerRow
<1>6. Shapes' /\ JournalInv' /\ TicketInv'
  BY <1>1, <1>2, <1>5 DEF Shapes, JournalInv, TicketInv, JournalRow, NoJournal
<1>7. ASSUME NEW d \in Epochs PROVE ProcessInv(d)'
  <2>1. CASE d = e
    BY <1>1, <1>2, <2>1
       DEF ProcessInv, UpdateKnown, InCall, Waiting, Advancing, HasCandidate
  <2>2. CASE d # e
    BY <1>1, <1>2, <1>5, <2>2 DEF ProcessInv, UpdateKnown, InCall, Waiting, Forward, Advancing
  <2> QED
    BY <2>1, <2>2
<1>8. ASSUME tampers = 0 PROVE RefInv' /\ \A d \in Epochs : Overtaken(d)'
  <2>1. RefInv'
    BY <1>1, <1>5 DEF RefInv, NoJournal
  <2>2. ASSUME NEW d \in Epochs PROVE Overtaken(d)'
    BY <1>1, <1>3, <1>5, <1>8 DEF NoneBehind, Overtaken, Passed
  <2> QED
    BY <2>1, <2>2
<1> QED
  BY <1>1, <1>6, <1>7, <1>8 DEF Core, SwapInv

(* A ticket is written for the current head only, and with no row in the       *)
(* journal; giving it back disturbs nothing.                                   *)
LEMMA TicketCore ==
  ASSUME Core, NEW e \in Epochs, NEW a \in Attempts, NEW phase,
         CheckLive(e, a, phase) \/ ReleaseMutationTicket(e, a, phase)
  PROVE  Core'
<1> USE DEF queueVars, worldVars
<1>1. UNCHANGED <<ledger, journal, ref, tampers, epoch, remote, broker>>
  BY DEF CheckLive, ReleaseMutationTicket
<1>2. Shapes'
  BY <1>1 DEF Core, Shapes, LedgerRow, JournalRow
<1>3. TicketInv'
  <2>1. CASE CheckLive(e, a, phase)
    <3>1. ticket' = [attempt |-> a, phase |-> phase, att |-> opOf[a]] /\ ledger.att = opOf[a]
      BY <2>1 DEF CheckLive, TicketFor, VerifyLiveBinding
    <3> QED
      BY <1>1, <3>1 DEF TicketInv
  <2>2. CASE ReleaseMutationTicket(e, a, phase)
    BY <2>2 DEF ReleaseMutationTicket, TicketInv
  <2> QED
    BY <2>1, <2>2
<1>4. JournalInv'
  BY <1>1 DEF CheckLive, VerifyLiveBinding, ReleaseMutationTicket, Core, JournalInv, Forward,
       Follows
<1>5. ASSUME NEW d \in Epochs PROVE ProcessInv(d)'
  BY <1>1 DEF Core, ProcessInv, UpdateKnown, InCall, Waiting, Forward
<1>6. SwapInv'
  BY <1>1 DEF Core, SwapInv, RefInv, Overtaken, Passed, Recovering
<1> QED
  BY <1>2, <1>3, <1>4, <1>5, <1>6 DEF Core

(* All that an owner or the executor asks of a broker.                         *)
LEMMA OperateCore ==
  ASSUME Core, NEW e \in Epochs, Operate(e)
  PROVE  Core'
<1>1. CASE \E control \in Controls : SetControls(e, control[1], control[2])
  BY <1>1, ControlsCore
<1>2. CASE ResolveDivergenceKeepCanonical(e)
  BY <1>2, ResolveCore
<1>3. ASSUME NEW a \in Attempts, AdmitRecordedDeploy(e, a) PROVE Core'
  <2>1. UNCHANGED <<coreVars, broker, remote>>
    BY <1>3 DEF AdmitRecordedDeploy, coreVars, ledgerVars
  <2> QED
    BY <2>1, CoreSame DEF Core, Shapes
<1>4. ASSUME NEW a \in Attempts, NEW phase,
             CheckLive(e, a, phase) \/ ReleaseMutationTicket(e, a, phase)
      PROVE  Core'
  BY <1>4, TicketCore
<1> QED
  BY <1>1, <1>2, <1>3, <1>4 DEF Operate

(* The remote moves, somebody writes the ref, time passes.                     *)
LEMMA WorldCore ==
  ASSUME Core, World
  PROVE  Core'
<1> USE DEF ledgerVars, queueVars
<1>1. ASSUME NEW c \in Commits, RemoteMoves(c) PROVE Core'
  <2>1. UNCHANGED <<coreVars, broker>> /\ remote' \in Commits
    BY <1>1 DEF RemoteMoves, coreVars
  <2> QED
    BY <2>1, CoreSame
<1>2. ASSUME NEW c \in Commits, RefTampered(c) PROVE Core'
  <2>1. UNCHANGED <<ledger, journal, ticket, epoch, remote, broker>> /\ tampers' = tampers + 1
    BY <1>2 DEF RefTampered
  <2>2. Shapes' /\ tampers' # 0
    BY <2>1 DEF Core, Shapes, LedgerRow, JournalRow
  <2>3. JournalInv' /\ TicketInv'
    BY <2>1 DEF Core, JournalInv, TicketInv, Forward, Follows
  <2>4. ASSUME NEW d \in Epochs PROVE ProcessInv(d)'
    BY <2>1 DEF Core, ProcessInv, UpdateKnown, InCall, Waiting, Forward
  <2> QED
    BY <2>2, <2>3, <2>4 DEF Core, SwapInv
<1>3. CASE TimePasses
  BY <1>3, ControlsCore
<1> QED
  BY <1>1, <1>2, <1>3 DEF World

(* At first there is no head and no process.                                   *)
LEMMA InitCore ==
  ASSUME Init
  PROVE  Core
<1>1. ledger = EmptyLedger /\ journal = NoJournal /\ ticket = NoTicket /\ ref = NoCommit
      /\ remote \in Commits /\ epoch = 0 /\ broker = [e \in Epochs |-> Down] /\ tampers = 0
  BY BrokerAssumption DEF Init
<1>2. Shapes /\ JournalInv /\ TicketInv
  BY <1>1 DEF Shapes, JournalInv, TicketInv, LedgerRow, JournalRow, NoJournal, EmptyLedger, NoAtt
<1>3. ASSUME NEW d \in Epochs PROVE broker[d] = Down /\ broker[d].pc = "down" /\ Waiting(broker[d])
  BY <1>1 DEF Down, Waiting
<1>4. ASSUME NEW d \in Epochs PROVE ProcessInv(d)
  BY <1>3 DEF ProcessInv, UpdateKnown, Advancing, HasCandidate
<1>5. SwapInv
  BY <1>1, <1>3 DEF SwapInv, RefInv, Overtaken, NoJournal, EmptyLedger
<1> QED
  BY <1>2, <1>4, <1>5 DEF Core

(* Every step of the broker keeps heads, ref and tickets together.             *)
LEMMA NextCore ==
  ASSUME Core, [Next]_vars
  PROVE  Core'
<1>1. CASE UNCHANGED vars
  <2>1. UNCHANGED <<coreVars, broker, remote>>
    BY <1>1 DEF vars, coreVars, ledgerVars, worldVars
  <2> QED
    BY <2>1, CoreSame DEF Core, Shapes
<1>2. CASE World
  BY <1>2, WorldCore
<1>3. ASSUME NEW e \in Epochs,
             \/ Start(e) \/ Recover(e) \/ Step(e) \/ ReceivePush(e) \/ ReceiveDirect(e)
             \/ Dispatch(e) \/ Reconcile(e) \/ ProcessPendingGithubPushes(e) \/ Operate(e)
             \/ CallFails(e) \/ Crash(e)
      PROVE  Core'
  <2>1. CASE Start(e)
    BY <2>1, StartCore
  <2>2. CASE Recover(e)
    BY <2>2, RecoverRefCore, RecoverStateCore, StartupCore DEF Recover
  <2>3. CASE Step(e)
    BY <2>3, ReserveCore, DecideCore, BeginCore, LeaseCore, SwapCore, MarkCore, AcceptCore,
       DivergeCore, FinishCore, CompleteCore, StartupCore DEF Step
  <2>4. CASE ReceivePush(e) \/ Dispatch(e)
    BY <2>4, QueueCore
  <2>5. CASE ReceiveDirect(e) \/ Reconcile(e) \/ ProcessPendingGithubPushes(e)
    BY <2>5, CallsCore
  <2>6. CASE Operate(e)
    BY <2>6, OperateCore
  <2>7. CASE CallFails(e) \/ Crash(e)
    BY <2>7, FailsCore, CrashCore
  <2> QED
    BY <1>3, <2>1, <2>2, <2>3, <2>4, <2>5, <2>6, <2>7
<1> QED
  BY <1>1, <1>2, <1>3 DEF Next

--------------------------------------------------------------------------------
(* The outbox.                                                                 *)

(* Rows are known by their number and by what each of them says.               *)
LEMMA RowsApart ==
  ASSUME NEW r, Rows(r)
  PROVE  /\ Len(r) \in Nat /\ DOMAIN r = 1..Len(r) /\ r = [i \in 1..Len(r) |-> r[i]]
         /\ \A i \in DOMAIN r : /\ r[i] = [att |-> r[i].att, status |-> r[i].status]
                                /\ r[i].status \in RowStatus
<1>1. PICK A : r \in Seq([att : A, status : RowStatus])
  BY DEF Rows
<1>2. Len(r) \in Nat /\ DOMAIN r = 1..Len(r) /\ r = [i \in 1..Len(r) |-> r[i]]
  BY <1>1
<1>3. \A i \in DOMAIN r : r[i] \in [att : A, status : RowStatus]
  <2>1. PICK S : S = [att : A, status : RowStatus]
    OBVIOUS
  <2>2. r \in Seq(S)
    BY <1>1, <2>1
  <2>3. \A i \in DOMAIN r : r[i] \in S
    BY <2>2
  <2> QED
    BY <2>1, <2>3
<1>4. \A i \in DOMAIN r : /\ r[i] = [att |-> r[i].att, status |-> r[i].status]
                          /\ r[i].status \in RowStatus
  BY <1>3
<1> QED
  BY <1>2, <1>4

(* And what is said of each of them makes the rows.                            *)
LEMMA RowsMade ==
  ASSUME NEW n \in Nat, NEW r, r = [i \in 1..n |-> r[i]],
         \A i \in 1..n : /\ r[i] = [att |-> r[i].att, status |-> r[i].status]
                         /\ r[i].status \in RowStatus
  PROVE  Rows(r)
<1>1. PICK S : S = [att : {r[i].att : i \in DOMAIN r}, status : RowStatus]
  OBVIOUS
<1>2. DOMAIN r = 1..n
  OBVIOUS
<1>3. \A i \in 1..n : r[i] \in S
  BY <1>1, <1>2
<1>4. r \in Seq(S)
  BY <1>2, <1>3
<1> QED
  BY <1>1, <1>4 DEF Rows

(* Rows are settled or forgotten, and none is revived.                         *)
Fewer(r, s) ==
  /\ s = [i \in DOMAIN r |-> s[i]]
  /\ \A i \in DOMAIN r :
       /\ s[i] = [att |-> r[i].att, status |-> s[i].status] /\ s[i].status \in RowStatus
       /\ LiveRow(s[i]) => LiveRow(r[i])
       /\ s[i].status = "pending" => r[i].status = "pending"

(* With fewer rows the newest head is still the only offer.                    *)
LEMMA FewerOffers ==
  ASSUME NEW r, NEW s, NEW a, Offers(r, a), Fewer(r, s)
  PROVE  Offers(s, a)
<1>1. Rows(r)
  BY DEF Offers
<1>2. PICK n \in Nat : DOMAIN r = 1..n
  BY <1>1, RowsApart
<1>3. DOMAIN s = 1..n /\ s = [i \in 1..n |-> s[i]]
  BY <1>2 DEF Fewer
<1>4. \A i \in 1..n : s[i].att = r[i].att
  BY <1>2 DEF Fewer
<1>5. \A i \in 1..n : /\ s[i] = [att |-> s[i].att, status |-> s[i].status]
                      /\ s[i].status \in RowStatus
  BY <1>2, <1>4 DEF Fewer
<1>6. Rows(s)
  BY <1>3, <1>5, RowsMade
<1>7. \A i \in DOMAIN s :
        /\ s[i].att.seq \in Nat /\ s[i].att.seq <= a.seq
        /\ s[i].att.seq = a.seq => s[i].att = a
  BY <1>2, <1>3, <1>4 DEF Offers
<1>8. ASSUME NEW i \in DOMAIN s, NEW j \in DOMAIN s, LiveRow(s[i]), LiveRow(s[j])
      PROVE  /\ s[i].att = s[j].att => i = j
             /\ s[i].status = "pending" /\ i # j => s[j].att.seq < s[i].att.seq
  <2>1. LiveRow(r[i]) /\ LiveRow(r[j])
    BY <1>2, <1>3, <1>8 DEF Fewer
  <2>2. s[i].status = "pending" => r[i].status = "pending"
    BY <1>2, <1>3 DEF Fewer
  <2> QED
    BY <1>2, <1>3, <1>4, <2>1, <2>2 DEF Offers
<1> QED
  BY <1>6, <1>7, <1>8 DEF Offers

(* Pruning forgets settled rows only.                                          *)
LEMMA PruneOffers ==
  ASSUME NEW r, NEW row, NEW a, Offers(r, a)
  PROVE  Offers(PruneSettledOutbox(r, row), a)
<1>1. PICK s : s = PruneSettledOutbox(r, row)
  OBVIOUS
<1>2. Rows(r)
  BY DEF Offers
<1>3. s = [i \in DOMAIN r |-> s[i]]
  BY <1>1 DEF PruneSettledOutbox
<1>4. ASSUME NEW i \in DOMAIN r
      PROVE  \/ s[i] = r[i]
             \/ /\ r[i].status \in {"delivered", "superseded"}
                /\ s[i] = [r[i] EXCEPT !.status = "pruned"]
  BY <1>1 DEF PruneSettledOutbox
<1>5. ASSUME NEW i \in DOMAIN r
      PROVE  /\ s[i] = [att |-> r[i].att, status |-> s[i].status] /\ s[i].status \in RowStatus
             /\ LiveRow(s[i]) => LiveRow(r[i])
             /\ s[i].status = "pending" => r[i].status = "pending"
  <2>1. PICK x : x = r[i]
    OBVIOUS
  <2>2. x = [att |-> x.att, status |-> x.status] /\ x.status \in RowStatus
    BY <1>2, <2>1, RowsApart
  <2>3. CASE s[i] = x
    BY <2>1, <2>2, <2>3
  <2>4. CASE /\ x.status \in {"delivered", "superseded"}
             /\ s[i] = [x EXCEPT !.status = "pruned"]
    <3>1. s[i] = [att |-> x.att, status |-> "pruned"]
      BY <2>2, <2>4
    <3> QED
      BY <2>1, <3>1 DEF LiveRow, RowStatus
  <2> QED
    BY <1>4, <2>1, <2>3, <2>4
<1>6. Fewer(r, s)
  BY <1>3, <1>5 DEF Fewer
<1> QED
  BY <1>1, <1>6, FewerOffers

(* A row that turns from pending to settled.                                   *)
LEMMA SettledRow ==
  ASSUME NEW x, x = [att |-> x.att, status |-> x.status], x.status \in RowStatus,
         NEW t \in {"delivered", "superseded"}, NEW y,
         y = x \/ (x.status = "pending" /\ y = [x EXCEPT !.status = t])
  PROVE  /\ y = [att |-> x.att, status |-> y.status] /\ y.status \in RowStatus
         /\ LiveRow(y) => LiveRow(x)
         /\ y.status = "pending" => x.status = "pending"
<1>1. CASE y = x
  BY <1>1
<1>2. CASE x.status = "pending" /\ y = [x EXCEPT !.status = t]
  <2>1. y = [att |-> x.att, status |-> t]
    BY <1>2
  <2> QED
    BY <1>2, <2>1 DEF LiveRow, RowStatus
<1> QED
  BY <1>1, <1>2

(* The new head is offered: what waited is superseded, its own row is written  *)
(* once, or revived.                                                           *)
LEMMA EnqueueOffers ==
  ASSUME NEW r, NEW a, a.seq \in Nat, Offers(r, a)
  PROVE  Offers(EnqueueDeployableOutcome(r, a), a)
<1>1. PICK older : older = [i \in DOMAIN r |->
                              IF r[i].status = "pending" /\ r[i].att.seq < a.seq
                              THEN [r[i] EXCEPT !.status = "superseded"] ELSE r[i]]
  OBVIOUS
<1>2. PICK known : known = {i \in DOMAIN r : r[i].att = a /\ r[i].status # "pruned"}
  OBVIOUS
<1>3. Rows(r) /\ DOMAIN older = DOMAIN r
  BY <1>1 DEF Offers
<1>4. Fewer(r, older)
  <2>1. ASSUME NEW i \in DOMAIN r
        PROVE  /\ older[i] = [att |-> r[i].att, status |-> older[i].status]
               /\ older[i].status \in RowStatus
               /\ LiveRow(older[i]) => LiveRow(r[i])
               /\ older[i].status = "pending" => r[i].status = "pending"
    <3>1. PICK x : x = r[i]
      OBVIOUS
    <3>2. x = [att |-> x.att, status |-> x.status] /\ x.status \in RowStatus
      BY <1>3, <3>1, RowsApart
    <3>3. PICK y : y = older[i]
      OBVIOUS
    <3>4. y = x \/ (x.status = "pending" /\ y = [x EXCEPT !.status = "superseded"])
      BY <1>1, <3>1, <3>3
    <3>5. /\ y = [att |-> x.att, status |-> y.status] /\ y.status \in RowStatus
          /\ LiveRow(y) => LiveRow(x)
          /\ y.status = "pending" => x.status = "pending"
      BY <3>2, <3>4, SettledRow
    <3> QED
      BY <3>1, <3>3, <3>5
  <2>2. older = [i \in DOMAIN r |-> older[i]]
    BY <1>1
  <2> QED
    BY <2>1, <2>2 DEF Fewer
<1>5. Offers(older, a)
  BY <1>4, FewerOffers
<1>6. \A i \in DOMAIN r : older[i].att = r[i].att
  BY <1>4 DEF Fewer
<1>7. \A i \in DOMAIN r : older[i].att = a /\ LiveRow(older[i]) => i \in known
  BY <1>2, <1>4, <1>6 DEF Fewer, LiveRow
<1>8. PICK n \in Nat : DOMAIN older = 1..n /\ n = Len(older) /\ Rows(older)
  BY <1>5, RowsApart DEF Offers
<1>9. \A i \in 1..n : older[i].att # a => older[i].att.seq < a.seq
  BY <1>5, <1>8 DEF Offers
<1>10. CASE known = {}
  <2>1. PICK s : s = Append(older, [att |-> a, status |-> "pending"])
    OBVIOUS
  <2>2. /\ s = [i \in 1..(n + 1) |-> s[i]] /\ \A i \in 1..n : s[i] = older[i]
        /\ s[n + 1] = [att |-> a, status |-> "pending"]
    <3>1. PICK S : older \in Seq(S)
      BY <1>8 DEF Rows
    <3>2. PICK T : T = S \cup {[att |-> a, status |-> "pending"]}
      OBVIOUS
    <3>3. older \in Seq(T) /\ [att |-> a, status |-> "pending"] \in T
      BY <3>1, <3>2
    <3> QED
      BY <1>8, <2>1, <3>3
  <2>3. DOMAIN s = 1..(n + 1) /\ \A i \in 1..(n + 1) : i \in 1..n \/ i = n + 1
    BY <2>2
  <2>31. /\ s[n + 1].att = a /\ s[n + 1].status = "pending"
         /\ \A i \in 1..n : s[i].att = older[i].att /\ s[i].status = older[i].status
    <3>1. PICK x : x = [att |-> a, status |-> "pending"]
      OBVIOUS
    <3>2. x.att = a /\ x.status = "pending" /\ s[n + 1] = x
      BY <2>2, <3>1
    <3> QED
      BY <2>2, <3>2
  <2>4. ASSUME NEW i \in 1..(n + 1)
        PROVE  s[i] = [att |-> s[i].att, status |-> s[i].status] /\ s[i].status \in RowStatus
    <3>1. CASE i \in 1..n
      <4>1. PICK x : x = older[i]
        OBVIOUS
      <4>2. x = [att |-> x.att, status |-> x.status] /\ x.status \in RowStatus
        BY <1>8, <3>1, <4>1, RowsApart
      <4> QED
        BY <2>2, <3>1, <4>1, <4>2
    <3>2. CASE i = n + 1
      BY <2>2, <3>2 DEF RowStatus
    <3> QED
      BY <2>3, <3>1, <3>2
  <2>5. Rows(s)
    BY SMTT(60), <2>2, <2>4, RowsMade
  <2>6. \A i \in 1..n : LiveRow(s[i]) => s[i].att # a /\ s[i].att.seq < a.seq
    BY <1>3, <1>7, <1>8, <1>9, <1>10, <2>2
  <2>7. \A i \in DOMAIN s :
          /\ s[i].att.seq \in Nat /\ s[i].att.seq <= a.seq
          /\ s[i].att.seq = a.seq => s[i].att = a
    <3>1. ASSUME NEW i \in 1..n
          PROVE  /\ older[i].att.seq \in Nat /\ older[i].att.seq <= a.seq
                 /\ older[i].att.seq = a.seq => older[i].att = a
      BY <1>5, <1>8 DEF Offers
    <3> QED
      BY <2>3, <2>31, <3>1
  <2>8. ASSUME NEW i \in DOMAIN s, NEW j \in DOMAIN s, LiveRow(s[i]), LiveRow(s[j])
        PROVE  /\ s[i].att = s[j].att => i = j
               /\ s[i].status = "pending" /\ i # j => s[j].att.seq < s[i].att.seq
    <3>1. CASE i \in 1..n /\ j \in 1..n
      BY ZenonT(60), <1>5, <1>8, <2>2, <2>8, <3>1 DEF Offers
    <3>2. CASE i = n + 1 /\ j \in 1..n
      BY <2>31, <2>6, <2>8, <3>2
    <3>3. CASE i \in 1..n /\ j = n + 1
      <4>1. s[i].att # a /\ s[j].att = a
        BY <2>31, <2>6, <2>8, <3>3
      <4>2. r[i].att.seq < a.seq /\ i \in DOMAIN r /\ s[i] = older[i]
        BY <1>3, <1>6, <1>8, <1>9, <2>2, <2>31, <3>3, <4>1
      <4>3. s[i].status # "pending"
        <5>1. PICK x : x = r[i]
          OBVIOUS
        <5>2. x = [att |-> x.att, status |-> x.status] /\ x.att.seq < a.seq
          BY <1>3, <4>2, <5>1, RowsApart
        <5>3. CASE x.status = "pending"
          <6>1. s[i] = [x EXCEPT !.status = "superseded"]
            BY <1>1, <4>2, <5>1, <5>2, <5>3
          <6> QED
            BY <5>2, <6>1
        <5>4. CASE x.status # "pending"
          <6>1. s[i] = x
            BY <1>1, <4>2, <5>1, <5>4
          <6> QED
            BY <5>4, <6>1
        <5> QED
          BY <5>3, <5>4
      <4> QED
        BY <4>1, <4>3
    <3> QED
      BY <2>3, <3>1, <3>2, <3>3
  <2>9. Offers(s, a)
    BY <2>5, <2>7, <2>8 DEF Offers
  <2>10. Offers(PruneSettledOutbox(s, ledger), a)
    BY <2>9, PruneOffers
  <2> QED
    BY <1>1, <1>2, <1>10, <2>1, <2>10 DEF EnqueueDeployableOutcome
<1>11. CASE known # {}
  <2>1. PICK s : s = [i \in DOMAIN older |->
                        IF i \in known /\ older[i].status = "superseded"
                        THEN [older[i] EXCEPT !.status = "pending"] ELSE older[i]]
    OBVIOUS
  <2>2. DOMAIN s = 1..n /\ s = [i \in 1..n |-> s[i]]
    BY <1>8, <2>1
  <2>3. ASSUME NEW i \in 1..n
        PROVE  /\ s[i] = [att |-> older[i].att, status |-> s[i].status]
               /\ s[i].status \in RowStatus /\ s[i].att = older[i].att
               /\ LiveRow(s[i]) <=> LiveRow(older[i])
               /\ s[i].status = "pending" => older[i].status = "pending" \/ i \in known
    <3>1. PICK x : x = older[i]
      OBVIOUS
    <3>2. x = [att |-> x.att, status |-> x.status] /\ x.status \in RowStatus
      BY <1>8, <3>1, RowsApart
    <3>3. CASE i \in known /\ x.status = "superseded" /\ s[i] = [x EXCEPT !.status = "pending"]
      <4>1. s[i] = [att |-> x.att, status |-> "pending"]
        BY <3>2, <3>3
      <4> QED
        BY <3>1, <3>3, <4>1 DEF LiveRow, RowStatus
    <3>4. CASE s[i] = x
      BY <3>1, <3>2, <3>4
    <3> QED
      BY <1>8, <2>1, <3>1, <3>3, <3>4
  <2>4. \A i \in 1..n : s[i].att = older[i].att
    BY <2>3
  <2>5. Rows(s)
    BY <2>2, <2>3, <2>4, RowsMade
  <2>6. \A i \in DOMAIN s :
          /\ s[i].att.seq \in Nat /\ s[i].att.seq <= a.seq
          /\ s[i].att.seq = a.seq => s[i].att = a
    BY <1>5, <1>8, <2>2, <2>4 DEF Offers
  <2>7. ASSUME NEW i \in DOMAIN s, NEW j \in DOMAIN s, LiveRow(s[i]), LiveRow(s[j])
        PROVE  /\ s[i].att = s[j].att => i = j
               /\ s[i].status = "pending" /\ i # j => s[j].att.seq < s[i].att.seq
    <3>1. LiveRow(older[i]) /\ LiveRow(older[j]) /\ i \in 1..n /\ j \in 1..n
      BY <2>2, <2>3, <2>7
    <3>2. s[i].att = s[j].att => i = j
      BY <1>5, <1>8, <2>4, <3>1 DEF Offers
    <3>3. CASE older[i].status = "pending"
      BY <1>5, <1>8, <2>4, <3>1, <3>2, <3>3 DEF Offers
    <3>4. CASE i \in known
      <4>1. older[i].att = a
        BY <1>2, <1>6, <3>4
      <4>2. i # j => older[j].att # a
        BY <2>4, <3>1, <3>2, <4>1
      <4> QED
        BY <1>9, <2>4, <3>1, <3>2, <4>1, <4>2
    <3> QED
      BY <2>3, <3>1, <3>2, <3>3, <3>4
  <2>8. Offers(s, a)
    BY <2>5, <2>6, <2>7 DEF Offers
  <2>9. Offers(PruneSettledOutbox(s, ledger), a)
    BY <2>8, PruneOffers
  <2> QED
    BY <1>1, <1>2, <1>11, <2>1, <2>9 DEF EnqueueDeployableOutcome
<1> QED
  BY <1>10, <1>11

--------------------------------------------------------------------------------
(* Who moves the head, the outbox and the ticket.                              *)

KeepsHead == ledger'.head = ledger.head /\ ledger'.att = ledger.att

(* The head only moves when a process accepts one.                             *)
LEMMA HeadMoves ==
  ASSUME Shapes, [Next]_vars
  PROVE  KeepsHead \/ \E e \in Epochs : AcceptIfCurrent(e)
<1> USE DEF ledgerVars, KeepsHead
<1>1. LedgerRow(ledger)
  BY DEF Shapes
<1>2. CASE UNCHANGED vars
  BY <1>2 DEF vars
<1>3. ASSUME NEW x, ledger' = DivergedLedger(x) PROVE KeepsHead
  BY <1>1, <1>3, DivergedRow DEF SameHead
<1>4. ASSUME NEW e \in Epochs, Operate(e) PROVE KeepsHead
  <2>1. CASE UNCHANGED ledger
    BY <2>1
  <2>2. ASSUME NEW blocked, NEW paused,
               ledger' = [ledger EXCEPT !.blocked = blocked, !.paused = paused]
        PROVE  KeepsHead
    BY <1>1, <2>2 DEF LedgerRow
  <2>3. CASE ledger' = [ledger EXCEPT !.state = "ready", !.divergent = NoCommit]
    BY <1>1, <2>3 DEF LedgerRow
  <2> QED
    BY <1>4, <2>1, <2>2, <2>3 DEF Operate, SetControls, ResolveDivergenceKeepCanonical,
       AdmitRecordedDeploy, CheckLive, ReleaseMutationTicket
<1>5. CASE World
  <2>1. CASE UNCHANGED ledger
    BY <2>1
  <2>2. CASE ledger' = [ledger EXCEPT !.expired = TRUE]
    BY <1>1, <2>2 DEF LedgerRow
  <2>3. CASE ledger' = [ledger EXCEPT !.paused = FALSE]
    BY <1>1, <2>3 DEF LedgerRow
  <2> QED
    BY <1>5, <2>1, <2>2, <2>3 DEF World, RemoteMoves, RefTampered, TimePasses
<1>6. ASSUME NEW e \in Epochs, Start(e) \/ Recover(e) PROVE KeepsHead
  BY SMTT(60), <1>3, <1>6 DEF Start, AcquireBrokerLease, Recover, RecoverRefUpdate, RecoverSourceState,
     RecoverIncompleteDeliveries, ReconcileGithubWakeupPolicy, ReconcileOutboxPolicy
<1>7. ASSUME NEW e \in Epochs, Step(e) PROVE KeepsHead \/ AcceptIfCurrent(e)
  <2>1. CASE MarkDiverged(e)
    BY <1>3, <2>1 DEF MarkDiverged
  <2> QED
    BY <1>7, <2>1 DEF Step, ReserveWakeup, ProcessCandidate, BeginRefUpdate, RequireCurrentLease,
       CompareAndSwapAcceptedHead, MarkRefUpdated, FinishDelivery, CompleteGithubWakeup,
       ClearPriorityFetch, NotifyPriorityFetch
<1>8. ASSUME NEW e \in Epochs,
             \/ ReceivePush(e) \/ ReceiveDirect(e) \/ Dispatch(e) \/ Reconcile(e)
             \/ ProcessPendingGithubPushes(e) \/ CallFails(e) \/ Crash(e)
      PROVE  KeepsHead
  BY <1>8 DEF ReceivePush, EnqueueGithubWakeup, EnqueueGithubPush, ReceiveDirect,
     ProcessDirectPush, Dispatch, Admit, AcknowledgeOutbox, Reconcile, ReconcileRemoteMain,
     ProcessPendingGithubPushes, CallFails, Crash
<1> QED
  BY <1>2, <1>4, <1>5, <1>6, <1>7, <1>8 DEF Next

(* The outbox is written by a delivery that ends, by an acknowledgement and at *)
(* startup.                                                                    *)
LEMMA OutboxMoves ==
  ASSUME [Next]_vars
  PROVE  \/ UNCHANGED outbox
         \/ \E e \in Epochs : FinishDelivery(e) \/ ReconcileOutboxPolicy(e)
         \/ \E e \in Epochs : \E i \in DOMAIN outbox : AcknowledgeOutbox(e, i)
<1> USE DEF queueVars
<1>1. CASE UNCHANGED vars
  BY <1>1 DEF vars
<1>2. CASE World
  BY <1>2 DEF World, RemoteMoves, RefTampered, TimePasses
<1>3. ASSUME NEW e \in Epochs, Start(e) \/ Recover(e)
      PROVE  UNCHANGED outbox \/ ReconcileOutboxPolicy(e)
  BY <1>3 DEF Start, AcquireBrokerLease, Recover, RecoverRefUpdate, RecoverSourceState,
     RecoverIncompleteDeliveries, ReconcileGithubWakeupPolicy
<1>4. ASSUME NEW e \in Epochs, Step(e) PROVE UNCHANGED outbox \/ FinishDelivery(e)
  BY ZenonT(60), <1>4 DEF Step, ReserveWakeup, ProcessCandidate, BeginRefUpdate, RequireCurrentLease,
     CompareAndSwapAcceptedHead, MarkRefUpdated, AcceptIfCurrent, MarkDiverged,
     CompleteGithubWakeup, ClearPriorityFetch, NotifyPriorityFetch
<1>5. ASSUME NEW e \in Epochs,
             \/ ReceivePush(e) \/ ReceiveDirect(e) \/ Reconcile(e)
             \/ ProcessPendingGithubPushes(e) \/ CallFails(e) \/ Crash(e) \/ Operate(e)
      PROVE  UNCHANGED outbox
  BY <1>5 DEF ReceivePush, EnqueueGithubWakeup, EnqueueGithubPush, ReceiveDirect,
     ProcessDirectPush, Reconcile, ReconcileRemoteMain, ProcessPendingGithubPushes, CallFails,
     Crash, Operate, SetControls, ResolveDivergenceKeepCanonical, AdmitRecordedDeploy, CheckLive,
     ReleaseMutationTicket
<1>6. ASSUME NEW e \in Epochs, Dispatch(e)
      PROVE  UNCHANGED outbox \/ \E i \in DOMAIN outbox : AcknowledgeOutbox(e, i)
  BY <1>6 DEF Dispatch, Admit
<1> QED
  BY <1>1, <1>2, <1>3, <1>4, <1>5, <1>6 DEF Next

(* The ticket is written by the executor's requests only.                      *)
LEMMA TicketMoves ==
  ASSUME [Next]_vars
  PROVE  \/ UNCHANGED ticket
         \/ \E e \in Epochs, a \in Attempts : \E phase :
              CheckLive(e, a, phase) \/ ReleaseMutationTicket(e, a, phase)
<1> USE DEF ledgerVars
<1>1. CASE UNCHANGED vars
  BY <1>1 DEF vars
<1>2. CASE World
  BY <1>2 DEF World, RemoteMoves, RefTampered, TimePasses
<1>3. ASSUME NEW e \in Epochs, Start(e) \/ Recover(e) PROVE UNCHANGED ticket
  BY SMTT(60), <1>3 DEF Start, AcquireBrokerLease, Recover, RecoverRefUpdate, RecoverSourceState,
     RecoverIncompleteDeliveries, ReconcileGithubWakeupPolicy, ReconcileOutboxPolicy
<1>4. ASSUME NEW e \in Epochs, Step(e) PROVE UNCHANGED ticket
  BY <1>4 DEF Step, ReserveWakeup, ProcessCandidate, BeginRefUpdate, RequireCurrentLease,
     CompareAndSwapAcceptedHead, MarkRefUpdated, AcceptIfCurrent, MarkDiverged, FinishDelivery,
     CompleteGithubWakeup, ClearPriorityFetch, NotifyPriorityFetch
<1>5. ASSUME NEW e \in Epochs,
             \/ ReceivePush(e) \/ ReceiveDirect(e) \/ Dispatch(e) \/ Reconcile(e)
             \/ ProcessPendingGithubPushes(e) \/ CallFails(e) \/ Crash(e)
      PROVE  UNCHANGED ticket
  BY <1>5 DEF ReceivePush, EnqueueGithubWakeup, EnqueueGithubPush, ReceiveDirect,
     ProcessDirectPush, Dispatch, Admit, AcknowledgeOutbox, Reconcile, ReconcileRemoteMain,
     ProcessPendingGithubPushes, CallFails, Crash
<1>6. ASSUME NEW e \in Epochs, Operate(e)
      PROVE  \/ UNCHANGED ticket
             \/ \E a \in Attempts : \E phase :
                  CheckLive(e, a, phase) \/ ReleaseMutationTicket(e, a, phase)
  BY <1>6 DEF Operate, SetControls, ResolveDivergenceKeepCanonical, AdmitRecordedDeploy
<1> QED
  BY <1>1, <1>2, <1>3, <1>4, <1>5, <1>6 DEF Next

(* An accepted head follows the ledger's and goes forward from it.             *)
LEMMA AcceptedHead ==
  ASSUME Core, NEW e \in Epochs, AcceptIfCurrent(e)
  PROVE  \E a : /\ ledger'.head = a.head /\ ledger'.att = a /\ a.seq = ledger.att.seq + 1
                /\ Forward(a) /\ a.previous = ledger.head /\ ticket = NoTicket
<1>1. PICK a : a = broker[e].att
  OBVIOUS
<1>2. Forward(a) /\ Follows(a) /\ ticket = NoTicket
  <2>1. e = epoch /\ broker[e].pc \in Advancing
    BY DEF AcceptIfCurrent, At, RequireBoundBrokerEpoch, Advancing
  <2> QED
    BY <1>1, <2>1, OnItsWay
<1>3. ledger'.head = a.head /\ ledger'.att = a
  <2>1. ledger' = [ledger EXCEPT !.head = a.head, !.att = a, !.expired = FALSE,
                                 !.divergent = NoCommit]
    BY <1>1 DEF AcceptIfCurrent
  <2> QED
    BY <2>1 DEF Core, Shapes, LedgerRow
<1> QED
  BY <1>2, <1>3 DEF Follows

(* No step offers the scheduler a head that is not the newest.                 *)
LEMMA NextOutbox ==
  ASSUME Core, OutboxInv, [Next]_vars
  PROVE  OutboxInv'
<1>1. Shapes /\ ledger.att.seq \in Nat
  BY DEF Core, Shapes
<1>2. PICK r : r = outbox
  OBVIOUS
<1>3. Offers(r, ledger.att) /\ Rows(r)
  BY <1>2 DEF OutboxInv, Offers
<1>4. CASE ~KeepsHead
  <2>1. PICK e \in Epochs : AcceptIfCurrent(e)
    BY <1>1, <1>4, HeadMoves
  <2>2. PICK a : ledger'.att = a /\ a.seq = ledger.att.seq + 1
    BY <2>1, AcceptedHead
  <2>3. outbox' = r
    BY <1>2, <2>1 DEF AcceptIfCurrent, queueVars
  <2>4. Offers(r, a)
    BY <1>1, <1>3, <2>2 DEF Offers
  <2> QED
    BY <2>2, <2>3, <2>4 DEF OutboxInv
<1>5. CASE KeepsHead
  <2>1. PICK a : a = ledger.att /\ ledger'.att = a /\ a.seq \in Nat
    BY <1>1, <1>5 DEF KeepsHead
  <2>2. SUFFICES Offers(outbox', a)
    BY <2>1 DEF OutboxInv
  <2>3. CASE UNCHANGED outbox
    BY <1>2, <1>3, <2>1, <2>3
  <2>4. ASSUME NEW e \in Epochs, FinishDelivery(e) PROVE Offers(outbox', a)
    <3>1. CASE UNCHANGED outbox
      BY <1>2, <1>3, <2>1, <3>1
    <3>2. CASE /\ broker[e].outcome.kind = "deployable"
               /\ outbox' = EnqueueDeployableOutcome(outbox, broker[e].outcome.att)
      <4>1. broker[e].outcome.att = a
        BY <2>1, <2>4, <3>2 DEF FinishDelivery, At, Core, ProcessInv
      <4>2. outbox' = EnqueueDeployableOutcome(r, a)
        BY <1>2, <3>2, <4>1
      <4> QED
        BY <1>3, <2>1, <4>2, EnqueueOffers
    <3> QED
      BY <2>4, <3>1, <3>2 DEF FinishDelivery
  <2>5. ASSUME NEW s, NEW t \in {"delivered", "superseded"}, s = [i \in DOMAIN r |-> s[i]],
               \A i \in DOMAIN r : s[i] = r[i] \/ (/\ r[i].status = "pending"
                                                   /\ s[i] = [r[i] EXCEPT !.status = t]),
               NEW row, outbox' = PruneSettledOutbox(s, row)
        PROVE  Offers(outbox', a)
    <3>1. ASSUME NEW i \in DOMAIN r
          PROVE  /\ s[i] = [att |-> r[i].att, status |-> s[i].status]
                 /\ s[i].status \in RowStatus
                 /\ LiveRow(s[i]) => LiveRow(r[i])
                 /\ s[i].status = "pending" => r[i].status = "pending"
      <4>1. PICK x : x = r[i]
        OBVIOUS
      <4>2. x = [att |-> x.att, status |-> x.status] /\ x.status \in RowStatus
        BY <1>3, <4>1, RowsApart
      <4>3. PICK y : y = s[i]
        OBVIOUS
      <4>4. y = x \/ (x.status = "pending" /\ y = [x EXCEPT !.status = t])
        BY <2>5, <4>1, <4>3
      <4>5. /\ y = [att |-> x.att, status |-> y.status] /\ y.status \in RowStatus
            /\ LiveRow(y) => LiveRow(x)
            /\ y.status = "pending" => x.status = "pending"
        BY <4>2, <4>4, SettledRow
      <4> QED
        BY <4>1, <4>3, <4>5
    <3>2. Fewer(r, s)
      BY <2>5, <3>1 DEF Fewer
    <3>3. Offers(s, a)
      BY <1>3, <2>1, <3>2, FewerOffers
    <3> QED
      BY <2>5, <3>3, PruneOffers
  <2>6. ASSUME NEW e \in Epochs, ReconcileOutboxPolicy(e) PROVE Offers(outbox', a)
    <3>1. PICK s : s = [i \in DOMAIN r |-> IF r[i].status = "pending" /\ ~broker[e].policy.auto
                                           THEN [r[i] EXCEPT !.status = "superseded"] ELSE r[i]]
      OBVIOUS
    <3>2. outbox' = PruneSettledOutbox(s, ledger)
      BY <1>2, <2>6, <3>1 DEF ReconcileOutboxPolicy
    <3>3. s = [i \in DOMAIN r |-> s[i]]
      BY <3>1
    <3>4. \A i \in DOMAIN r : s[i] = r[i] \/ (/\ r[i].status = "pending"
                                              /\ s[i] = [r[i] EXCEPT !.status = "superseded"])
      BY <3>1
    <3> QED
      BY <2>5, <3>2, <3>3, <3>4
  <2>7. ASSUME NEW e \in Epochs, NEW k \in DOMAIN outbox, AcknowledgeOutbox(e, k)
        PROVE  Offers(outbox', a)
    <3>1. PICK s : s = [r EXCEPT ![k].status = IF @ = "pending" THEN "delivered" ELSE @]
      OBVIOUS
    <3>2. outbox' = PruneSettledOutbox(s, ledger)
      BY <1>2, <2>7, <3>1 DEF AcknowledgeOutbox
    <3>3. r = [i \in DOMAIN r |-> r[i]] /\ k \in DOMAIN r
      BY <1>2, <1>3, RowsApart
    <3>4. s = [i \in DOMAIN r |-> s[i]]
      BY <3>1, <3>3
    <3>5. ASSUME NEW i \in DOMAIN r
          PROVE  s[i] = r[i] \/ (/\ r[i].status = "pending"
                                 /\ s[i] = [r[i] EXCEPT !.status = "delivered"])
      <4>1. PICK x : x = r[k]
        OBVIOUS
      <4>2. x = [att |-> x.att, status |-> x.status]
        BY <1>3, <3>3, <4>1, RowsApart
      <4>3. CASE i # k
        BY <3>1, <3>3, <4>3
      <4>4. CASE i = k /\ x.status = "pending"
        <5>1. s[k] = [x EXCEPT !.status = "delivered"]
          BY <3>1, <3>3, <4>1, <4>4
        <5> QED
          BY <4>1, <4>4, <5>1
      <4>5. CASE i = k /\ x.status # "pending"
        <5>1. s[k] = [x EXCEPT !.status = x.status]
          BY <3>1, <3>3, <4>1, <4>5
        <5>2. s[k] = x
          BY <4>2, <5>1
        <5> QED
          BY <4>1, <4>5, <5>2
      <4> QED
        BY <4>3, <4>4, <4>5
    <3> QED
      BY <2>5, <3>2, <3>4, <3>5
  <2> QED
    BY <2>3, <2>4, <2>6, <2>7, OutboxMoves
<1> QED
  BY <1>4, <1>5

--------------------------------------------------------------------------------
(* The theorems.                                                               *)

(* The inductive invariant: the journal's row follows the head and bars the    *)
(* ticket, a superseded process has nothing ahead that could do harm, and the  *)
(* outbox offers the newest head.                                              *)
THEOREM BrokerInvariant == Spec => []BrokerInv
<1>1. Init => BrokerInv
  <2>1. SUFFICES ASSUME Init PROVE BrokerInv
    OBVIOUS
  <2>2. Core
    BY <2>1, InitCore
  <2>3. PICK r : r = outbox
    OBVIOUS
  <2>4. r = <<>>
    BY <2>1, <2>3 DEF Init
  <2>5. Offers(r, ledger.att)
    <3>1. Rows(r)
      BY <2>4 DEF Rows
    <3> QED
      BY <2>4, <3>1 DEF Offers
  <2> QED
    BY <2>2, <2>3, <2>5 DEF BrokerInv, Core, OutboxInv
<1>2. BrokerInv /\ [Next]_vars => BrokerInv'
  BY NextCore, NextOutbox DEF BrokerInv, Core
<1> QED
  BY <1>1, <1>2, PTL DEF Spec

(* RefFollowsLedger: crashes, failing calls, superseded processes and late     *)
(* swaps leave the ref on the ledger's head or on the journal's                *)
(* (advance_ref_update, recover_ref_update).                                   *)
THEOREM RefIsExplained == Spec => []RefFollowsLedger
<1>1. BrokerInv => RefFollowsLedger
  <2>1. SUFFICES ASSUME BrokerInv, tampers = 0
                 PROVE  CASE journal.state = "none" -> ref = ledger.head
                          [] journal.state = "ref_updated" -> ref = journal.att.head
                          [] OTHER -> ref \in {ledger.head, journal.att.head}
    BY DEF RefFollowsLedger
  <2>2. RefInv /\ JournalRow(journal)
    BY <2>1 DEF BrokerInv, SwapInv, Shapes
  <2>3. CASE journal.state = "none"
    BY <2>2, <2>3 DEF RefInv
  <2>4. CASE journal.state = "ref_updated"
    BY <2>2, <2>4 DEF RefInv
  <2>5. CASE journal.state = "intent_persisted"
    BY <2>2, <2>5 DEF RefInv
  <2> QED
    BY <2>2, <2>3, <2>4, <2>5 DEF JournalRow, NoJournal
<1> QED
  BY <1>1, BrokerInvariant, PTL

(* TicketIsCurrent: whoever holds a ticket holds the current head, and no ref  *)
(* update is under way (acquire_mutation_ticket, begin_ref_update).            *)
THEOREM TicketHoldsHead == Spec => []TicketIsCurrent
<1>1. BrokerInv => TicketIsCurrent
  BY DEF BrokerInv, TicketInv, JournalInv, TicketIsCurrent
<1> QED
  BY <1>1, BrokerInvariant, PTL

(* OutboxOffersNewest: one row is pending at most, it is of the newest head,   *)
(* and no head has two rows (enqueue_deployable_outcome).                      *)
THEOREM NewestIsOffered == Spec => []OutboxOffersNewest
<1>1. BrokerInv => OutboxOffersNewest
  BY DEF BrokerInv, OutboxInv, Offers, LiveRow, OutboxOffersNewest
<1> QED
  BY <1>1, BrokerInvariant, PTL

(* ImplementsSourceGate: whatever the broker does, the executor sees a head    *)
(* that goes forward one number at a time and stands still under a ticket.     *)
THEOREM BrokerImplementsGate == Spec => ImplementsSourceGate
<1>1. Init => Gate!GateInit
  BY DEF Init, EmptyLedger, NoAtt, NoTicket, Gate!GateInit
<1>2. BrokerInv /\ [Next]_vars => [Gate!GateNext]_(Gate!gateVars)
  <2>1. SUFFICES ASSUME BrokerInv, [Next]_vars PROVE [Gate!GateNext]_(Gate!gateVars)
    OBVIOUS
  <2>2. Core /\ Shapes /\ TicketInv
    BY <2>1 DEF BrokerInv, Core
  <2>3. CASE ~KeepsHead
    <3>1. PICK e \in Epochs : AcceptIfCurrent(e)
      BY <2>1, <2>2, <2>3, HeadMoves
    <3>2. PICK a : /\ ledger'.head = a.head /\ ledger'.att = a /\ a.seq = ledger.att.seq + 1
                   /\ Forward(a) /\ a.previous = ledger.head /\ ticket = NoTicket
      BY <2>2, <3>1, AcceptedHead
    <3>3. UNCHANGED ticket
      BY <3>1 DEF AcceptIfCurrent
    <3>4. a.head \in Commits /\ Gate!Advance(a.head)
      BY <3>2, <3>3 DEF Forward, Gate!Advance, NoTicket
    <3> QED
      BY <3>4 DEF Gate!GateNext
  <2>4. CASE KeepsHead /\ UNCHANGED ticket
    BY <2>4 DEF KeepsHead, Gate!gateVars
  <2>5. ASSUME KeepsHead, NEW e \in Epochs, NEW a \in Attempts, NEW phase, CheckLive(e, a, phase)
        PROVE  Gate!Hold(a)
    <3>1. /\ ticket \in {NoTicket, TicketFor(a, phase)} /\ ticket' = TicketFor(a, phase)
          /\ ledger.head # NoCommit
      BY <2>5 DEF CheckLive, VerifyLiveBinding
    <3>2. TicketFor(a, phase).attempt = a /\ NoTicket.attempt = NoAttempt
      BY DEF TicketFor, NoTicket
    <3> QED
      BY <2>5, <3>1, <3>2 DEF KeepsHead, Gate!Hold
  <2>6. ASSUME KeepsHead, NEW e \in Epochs, NEW a \in Attempts, NEW phase,
               ReleaseMutationTicket(e, a, phase)
        PROVE  Gate!Release
    BY <2>6 DEF ReleaseMutationTicket, NoTicket, KeepsHead, Gate!Release
  <2> QED
    BY <2>1, <2>3, <2>4, <2>5, <2>6, TicketMoves DEF Gate!GateNext
<1> QED
  BY <1>1, <1>2, BrokerInvariant, PTL DEF Spec, ImplementsSourceGate, Gate!GateSpec

--------------------------------------------------------------------------------
(* The webhooks.                                                               *)

(* Rows are numbered as they come in and never taken out.                      *)
WebhookRow(r) ==
  r = [id |-> r.id, announced |-> r.announced, repo |-> r.repo, status |-> r.status,
       notified |-> r.notified, outcome |-> r.outcome]

Listed(q) ==
  \E n \in Nat : q = [i \in 1..n |-> q[i]] /\ \A i \in 1..n : WebhookRow(q[i])

(* The delivery of an answered webhook, and what the answer says.              *)
WebhookKey(i) == <<"github", wakeups[i].id>>

Ended(key, outcome) ==
  /\ key \in DOMAIN deliveries /\ deliveries[key].status = "completed"
  /\ deliveries[key].outcome = outcome

AnswersHold ==
  \A i \in DOMAIN wakeups :
    wakeups[i].status = "completed" => Ended(WebhookKey(i), wakeups[i].outcome)

(* Whoever waits and was announced to the drain is marked for it, unless the    *)
(* drain has not come to its end: its loop looks at the queue again.           *)
Marked ==
  draining \/ \A i \in DOMAIN wakeups : wakeups[i].status = "pending" /\ wakeups[i].notified => signal

(* What a call knows of its webhooks: it works on the oldest of its batch, and *)
(* what it is about to write down is what the delivery came to.  A recovery    *)
(* and the start of a process come before the marker is set again; a drain     *)
(* knows that it is one.                                                       *)
Swapping == {"lease", "cas", "mark", "accept", "diverge"}
Ordinary == {"idle", "outbox", "reserve", "decide", "begin", "finish", "complete", "clear",
             "recheck"}
Draining == {"reserve", "clear", "recheck"}

Named(b) ==
  b.key[1] = "github" =>
    draining /\ \E i \in DOMAIN wakeups : IsOldest(i, b.batch) /\ b.key = WebhookKey(i)

CallInv(b) ==
  /\ b.pc \in {"decide", "begin", "finish"} => Named(b)
  /\ b.pc \in Swapping /\ b.key # "recovery" => Named(b)
  /\ b.pc = "complete" =>
       \E i \in DOMAIN wakeups : IsOldest(i, b.batch) /\ b.key = WebhookKey(i) /\ Ended(b.key, b.outcome)
  /\ b.pc \in Draining \cup {"complete"} => draining
  /\ b.pc \in Ordinary \/ (b.pc \in Swapping /\ b.key # "recovery") => Marked

WebhookInv ==
  /\ Listed(wakeups) /\ AnswersHold
  /\ \A e \in Epochs : e = epoch => CallInv(broker[e])

(* A step keeps the rows, the recorded outcomes and the marker.                *)
RowsKept ==
  /\ Listed(wakeups')
  /\ DOMAIN wakeups \subseteq DOMAIN wakeups'
  /\ \A i \in DOMAIN wakeups :
       /\ wakeups'[i].id = wakeups[i].id
       /\ wakeups'[i].status = "completed" =>
            wakeups[i].status = "completed" /\ wakeups'[i].outcome = wakeups[i].outcome
  /\ \A i \in DOMAIN wakeups' \ DOMAIN wakeups : wakeups'[i].status # "completed"

OutcomesKept ==
  \A k \in DOMAIN deliveries :
    k[1] = "github" /\ deliveries[k].status = "completed" =>
      k \in DOMAIN deliveries' /\ deliveries'[k] = deliveries[k]

(* What a delivery came to stays what it came to.                              *)
LEMMA EndedStays ==
  ASSUME OutcomesKept, NEW key, key[1] = "github", NEW x, Ended(key, x)
  PROVE  Ended(key, x)'
  BY DEF OutcomesKept, Ended

(* So the answers given stay right.                                            *)
LEMMA AnswersStay ==
  ASSUME AnswersHold, RowsKept, OutcomesKept
  PROVE  AnswersHold'
<1> SUFFICES ASSUME NEW i \in DOMAIN wakeups', wakeups'[i].status = "completed"
             PROVE  Ended(WebhookKey(i), wakeups[i].outcome)'
  BY DEF AnswersHold
<1>1. i \in DOMAIN wakeups /\ wakeups[i].status = "completed"
      /\ wakeups'[i].outcome = wakeups[i].outcome /\ WebhookKey(i)' = WebhookKey(i)
  BY DEF RowsKept, WebhookKey
<1>2. PICK key, x : key = WebhookKey(i) /\ x = wakeups[i].outcome
  OBVIOUS
<1>3. Ended(key, x) /\ key[1] = "github"
  BY <1>1, <1>2 DEF AnswersHold, WebhookKey
<1>4. Ended(key, x)'
  BY <1>3, EndedStays
<1> QED
  BY <1>1, <1>2, <1>4

(* What a call knows stays true while others add to the tables.                *)
LEMMA CallStays ==
  ASSUME RowsKept, OutcomesKept, draining => draining', NEW b, CallInv(b),
         b.pc \in Ordinary \/ (b.pc \in Swapping /\ b.key # "recovery") => Marked'
  PROVE  CallInv(b)'
<1>1. \A i \in DOMAIN wakeups : i \in DOMAIN wakeups' /\ WebhookKey(i)' = WebhookKey(i)
  BY DEF RowsKept, WebhookKey
<1>2. Named(b) => Named(b)'
  BY <1>1 DEF Named
<1>3. ASSUME b.pc = "complete"
      PROVE  (\E i \in DOMAIN wakeups :
                IsOldest(i, b.batch) /\ b.key = WebhookKey(i) /\ Ended(b.key, b.outcome))'
  <2>1. PICK i \in DOMAIN wakeups :
          IsOldest(i, b.batch) /\ b.key = WebhookKey(i) /\ Ended(b.key, b.outcome)
    BY <1>3 DEF CallInv
  <2>2. b.key[1] = "github"
    BY <2>1 DEF WebhookKey
  <2>3. Ended(b.key, b.outcome)'
    BY <2>1, <2>2, EndedStays
  <2> QED
    BY <1>1, <2>1, <2>3
<1> QED
  BY <1>2, <1>3 DEF CallInv

(* Such a step, with one process going on to what it knows already.            *)
LEMMA WebhookStep ==
  ASSUME WebhookInv, Shapes, RowsKept, OutcomesKept, Marked => Marked', draining => draining', epoch' = epoch,
         NEW e \in Epochs, NEW c, Become(e, c), e = epoch => CallInv(c)
  PROVE  WebhookInv'
<1>1. broker'[e] = c /\ \A d \in Epochs : d # e => broker'[d] = broker[d]
  BY DEF Shapes, Become
<1>2. ASSUME NEW d \in Epochs, d = epoch' PROVE CallInv(broker[d])'
  <2>1. PICK b : b = broker'[d]
    OBVIOUS
  <2>2. CallInv(b)
    BY <1>1, <1>2, <2>1 DEF WebhookInv
  <2>3. CallInv(b)'
    BY <2>2, CallStays DEF CallInv
  <2> QED
    BY <2>1, <2>3
<1>3. Listed(wakeups)' /\ AnswersHold'
  BY AnswersStay DEF WebhookInv, RowsKept
<1> QED
  BY <1>2, <1>3 DEF WebhookInv

(* Or with no process going on.                                                *)
LEMMA WebhookRest ==
  ASSUME WebhookInv, RowsKept, OutcomesKept, Marked => Marked', UNCHANGED <<draining, epoch, broker>>
  PROVE  WebhookInv'
<1>1. ASSUME NEW d \in Epochs, d = epoch' PROVE CallInv(broker[d])'
  <2>1. PICK b : b = broker'[d]
    OBVIOUS
  <2>2. CallInv(b)
    BY <1>1, <2>1 DEF WebhookInv
  <2>3. CallInv(b)'
    BY <2>2, CallStays DEF CallInv
  <2> QED
    BY <2>1, <2>3
<1>2. Listed(wakeups)' /\ AnswersHold'
  BY AnswersStay DEF WebhookInv, RowsKept
<1> QED
  BY <1>1, <1>2 DEF WebhookInv

(* A step that leaves the rows alone keeps them.                               *)
LEMMA WakeupsSame ==
  ASSUME WebhookInv, UNCHANGED wakeups
  PROVE  RowsKept
  BY DEF WebhookInv, RowsKept

(* And one that leaves the marker alone too keeps what is marked.              *)
LEMMA SignalSame ==
  ASSUME UNCHANGED <<wakeups, signal, draining>>
  PROVE  Marked => Marked'
  BY DEF Marked

(* The process that goes on is the current one, and all there is to know of    *)
(* calls is what it knows afterwards.                                          *)
LEMMA WebhookOwn ==
  ASSUME Shapes, Listed(wakeups'), AnswersHold', NEW e \in Epochs, e = epoch, epoch' = epoch,
         NEW c, Become(e, c), CallInv(c)'
  PROVE  WebhookInv'
<1>1. ASSUME NEW d \in Epochs, d = epoch' PROVE CallInv(broker[d])'
  <2>1. broker'[d] = c
    BY <1>1 DEF Shapes, Become
  <2> QED
    BY <2>1
<1> QED
  BY <1>1 DEF WebhookInv

--------------------------------------------------------------------------------
(* What is done to the rows.                                                   *)
Thinner(r, s) ==
  /\ Listed(s) /\ DOMAIN s = DOMAIN r
  /\ \A i \in DOMAIN r :
       /\ s[i].id = r[i].id /\ s[i].outcome = r[i].outcome /\ s[i].notified = r[i].notified
       /\ s[i].status \in {r[i].status, "pruned"}

(* Pruning forgets rows and changes nothing else.                              *)
LEMMA PrunedRow ==
  ASSUME NEW x, WebhookRow(x), NEW y, y = x \/ y = [x EXCEPT !.status = "pruned"]
  PROVE  /\ WebhookRow(y) /\ y.id = x.id /\ y.outcome = x.outcome /\ y.notified = x.notified
         /\ y.status \in {x.status, "pruned"}
<1>1. CASE y = x
  BY <1>1
<1>2. CASE y = [x EXCEPT !.status = "pruned"]
  <2>1. y = [id |-> x.id, announced |-> x.announced, repo |-> x.repo, status |-> "pruned",
             notified |-> x.notified, outcome |-> x.outcome]
    BY <1>2 DEF WebhookRow
  <2> QED
    BY <2>1 DEF WebhookRow
<1> QED
  BY <1>1, <1>2

(* The same of all rows.                                                       *)
LEMMA PrunedRows ==
  ASSUME NEW r, Listed(r), NEW s, s = [i \in DOMAIN r |-> s[i]],
         \A i \in DOMAIN r : s[i] = r[i] \/ s[i] = [r[i] EXCEPT !.status = "pruned"]
  PROVE  Thinner(r, s)
<1>1. PICK n \in Nat : r = [i \in 1..n |-> r[i]] /\ \A i \in 1..n : WebhookRow(r[i])
  BY DEF Listed
<1>2. DOMAIN r = 1..n
  BY <1>1
<1>3. ASSUME NEW i \in 1..n
      PROVE  /\ WebhookRow(s[i]) /\ s[i].id = r[i].id /\ s[i].outcome = r[i].outcome
             /\ s[i].notified = r[i].notified /\ s[i].status \in {r[i].status, "pruned"}
  <2>1. PICK x, y : x = r[i] /\ y = s[i]
    OBVIOUS
  <2>2. WebhookRow(x) /\ (y = x \/ y = [x EXCEPT !.status = "pruned"])
    BY <1>1, <1>2, <2>1
  <2> QED
    BY <2>1, <2>2, PrunedRow
<1>4. Listed(s)
  BY <1>2, <1>3 DEF Listed
<1> QED
  BY <1>2, <1>3, <1>4 DEF Thinner

(* What prune_settled_github_wakeups does is no more than that.                *)
LEMMA PruneThins ==
  ASSUME NEW r, Listed(r)
  PROVE  Thinner(r, PruneSettledGithubWakeups(r))
<1>1. PICK s : s = PruneSettledGithubWakeups(r)
  OBVIOUS
<1>2. /\ s = [i \in DOMAIN r |-> s[i]]
      /\ \A i \in DOMAIN r : s[i] = r[i] \/ s[i] = [r[i] EXCEPT !.status = "pruned"]
  BY <1>1 DEF PruneSettledGithubWakeups
<1> QED
  BY <1>1, <1>2, PrunedRows

(* Thinning out twice is thinning out.                                         *)
LEMMA ThinnerTwice ==
  ASSUME NEW r, NEW s, NEW t, Thinner(r, s), Thinner(s, t)
  PROVE  Thinner(r, t)
  BY DEF Thinner

(* A webhook that arrives is the last row.                                     *)
LEMMA AppendedRow ==
  ASSUME NEW r, Listed(r), NEW x, WebhookRow(x)
  PROVE  /\ Listed(Append(r, x)) /\ DOMAIN r \subseteq DOMAIN Append(r, x)
         /\ \A i \in DOMAIN r : Append(r, x)[i] = r[i]
         /\ \A i \in DOMAIN Append(r, x) \ DOMAIN r : Append(r, x)[i] = x
<1>1. PICK n \in Nat : r = [i \in 1..n |-> r[i]] /\ \A i \in 1..n : WebhookRow(r[i])
  BY DEF Listed
<1>2. DOMAIN r = 1..n
  BY <1>1
<1>3. PICK S : S = {r[i] : i \in 1..n} \cup {x}
  OBVIOUS
<1>4. \A i \in 1..n : r[i] \in S
  BY <1>3
<1>5. r \in Seq(S) /\ x \in S
  BY <1>1, <1>2, <1>3, <1>4
<1>6. PICK s : s = Append(r, x)
  OBVIOUS
<1>7. Len(r) = n
  BY <1>1, <1>2, <1>5
<1>8. /\ s \in Seq(S) /\ Len(s) = n + 1 /\ s[n + 1] = x
      /\ \A i \in 1..n : s[i] = r[i]
  BY <1>5, <1>6, <1>7
<1>9. DOMAIN s = 1..(n + 1) /\ s = [i \in 1..(n + 1) |-> s[i]]
  BY <1>8
<1>10. \A i \in 1..(n + 1) : i \in 1..n \/ i = n + 1
  OBVIOUS
<1>11. \A i \in 1..(n + 1) : WebhookRow(s[i])
  BY <1>1, <1>8, <1>10
<1>12. Listed(s)
  BY <1>9, <1>11 DEF Listed
<1>13. \A i \in DOMAIN s \ DOMAIN r : s[i] = x
  BY <1>2, <1>8, <1>9, <1>10
<1>14. \A i \in 1..n : i \in 1..(n + 1)
  OBVIOUS
<1>15. DOMAIN r \subseteq DOMAIN s
  BY <1>2, <1>9, <1>14
<1>16. \A i \in DOMAIN r : s[i] = r[i]
  BY <1>2, <1>8
<1> QED
  BY <1>6, <1>12, <1>13, <1>15, <1>16

(* One row is written.                                                         *)
LEMMA WrittenRow ==
  ASSUME NEW r, Listed(r), NEW i \in DOMAIN r, NEW y, WebhookRow(y)
  PROVE  /\ Listed([r EXCEPT ![i] = y]) /\ DOMAIN [r EXCEPT ![i] = y] = DOMAIN r
         /\ [r EXCEPT ![i] = y][i] = y
         /\ \A j \in DOMAIN r : j # i => [r EXCEPT ![i] = y][j] = r[j]
<1>1. PICK n \in Nat : r = [j \in 1..n |-> r[j]] /\ \A j \in 1..n : WebhookRow(r[j])
  BY DEF Listed
<1>2. PICK s : s = [r EXCEPT ![i] = y]
  OBVIOUS
<1>3. /\ DOMAIN s = DOMAIN r /\ DOMAIN r = 1..n /\ s[i] = y
      /\ \A j \in DOMAIN r : j # i => s[j] = r[j]
  BY <1>1, <1>2
<1>4. s = [j \in 1..n |-> s[j]]
  BY <1>1, <1>2
<1>5. \A j \in 1..n : WebhookRow(s[j])
  BY <1>1, <1>3
<1>6. Listed(s)
  BY <1>4, <1>5 DEF Listed
<1> QED
  BY <1>2, <1>3, <1>6

(* Rows that are thinned out stay answered and marked.                         *)
LEMMA ThinnerKept ==
  ASSUME Thinner(wakeups, wakeups')
  PROVE  RowsKept /\ (signal' = signal /\ draining' = draining => (Marked => Marked'))
  BY DEF Thinner, RowsKept, Marked

--------------------------------------------------------------------------------
(* What is done to the deliveries: an outcome once recorded is never changed.  *)
LEMMA SameOutcomes ==
  ASSUME UNCHANGED deliveries
  PROVE  OutcomesKept
  BY DEF OutcomesKept

(* A claim is made of what is not completed.                                   *)
LEMMA ReservedOutcomes ==
  ASSUME NEW e, NEW key, NEW payload, ReserveDelivery(e, key, payload)
  PROVE  OutcomesKept
  BY DEF ReserveDelivery, Claimable, Askable, OutcomesKept

(* A claim that is given back was not completed.                               *)
LEMMA AbandonedOutcomes ==
  ASSUME NEW e, NEW key,
         deliveries' = [deliveries EXCEPT ![key] =
           IF HoldsClaim(e, key) THEN [@ EXCEPT !.status = "recoverable"] ELSE @]
  PROVE  OutcomesKept
  BY DEF HoldsClaim, OutcomesKept

(* What is completed was claimed.                                              *)
LEMMA FinishedOutcomes ==
  ASSUME NEW e, NEW key, HoldsClaim(e, key), NEW row,
         deliveries' = [deliveries EXCEPT ![key] = row]
  PROVE  OutcomesKept
  BY DEF HoldsClaim, OutcomesKept

(* A process that starts takes back claims, not outcomes.                      *)
LEMMA RecoveredOutcomes ==
  ASSUME NEW e, RecoverIncompleteDeliveries(e)
  PROVE  OutcomesKept
  BY DEF RecoverIncompleteDeliveries, OutcomesKept


--------------------------------------------------------------------------------
(* Where a call goes, and what it knows there.                                 *)
Working == {"decide", "begin", "finish"}

(* A call that goes on with its webhook knows what it knew.                    *)
LEMMA OnwardCall ==
  ASSUME NEW b, CallInv(b), NEW c, c.key = b.key, c.batch = b.batch,
         b.pc \in Working \cup Swapping, c.pc \in Working \cup Swapping,
         b.pc \in Working \/ b.key # "recovery" \/ c.pc \in Swapping
  PROVE  CallInv(c)
<1>1. b.pc \in Working => Named(b) /\ Marked
  BY DEF CallInv, Working, Ordinary
<1>2. b.pc \in Swapping /\ b.key # "recovery" => Named(b) /\ Marked
  BY DEF CallInv
<1>3. Named(b) => Named(c)
  BY DEF Named
<1>4. c.pc \in Working => Named(c) /\ Marked
  BY <1>1, <1>2, <1>3 DEF Working, Swapping
<1>5. c.pc \in Swapping /\ c.key # "recovery" => Named(c) /\ Marked
  BY <1>1, <1>2, <1>3
<1>6. c.pc \notin Draining \cup {"complete"} /\ (c.pc \in Ordinary => c.pc \in Working)
  BY DEF Working, Swapping, Ordinary, Draining
<1> QED
  BY <1>4, <1>5, <1>6 DEF CallInv, Working

(* One that has no webhook in hand knows that those who wait are marked.       *)
LEMMA IdleCall ==
  ASSUME Marked, NEW c, c.pc \in {"idle", "outbox", "reserve", "clear"}, c.pc \in Draining => draining
  PROVE  CallInv(c)
  BY DEF CallInv, Swapping

(* A process that starts or is gone knows nothing.                             *)
LEMMA QuietCall ==
  ASSUME NEW c, c.pc \in {"down", "recover", "startup", "policy"}
  PROVE  CallInv(c) /\ CallInv(c)'
  BY DEF CallInv, Swapping, Ordinary, Draining

(* Deliveries that are no webhook's are begun at once.                         *)
LEMMA OtherCall ==
  ASSUME Marked, NEW c, c.pc = "decide", c.key[1] # "github"
  PROVE  CallInv(c)
  BY DEF CallInv, Swapping, Named, Draining

(* What the current process knows of the marker.                               *)
LEMMA KnowsMarker ==
  ASSUME WebhookInv, NEW e \in Epochs, e = epoch,
         broker[e].pc \in Ordinary \/ (broker[e].pc \in Swapping /\ broker[e].key # "recovery")
  PROVE  Marked
  BY DEF WebhookInv, CallInv

--------------------------------------------------------------------------------
(* Webhooks arrive.                                                            *)
LEMMA ArrivalKept ==
  ASSUME WebhookInv, NEW e \in Epochs, NEW d, NEW h, EnqueueGithubWakeup(e, d, h)
  PROVE  WebhookInv'
<1> USE DEF ledgerVars, worldVars
<1>1. UNCHANGED <<deliveries, signal, draining, epoch, broker>>
  BY DEF EnqueueGithubWakeup
<1>2. PICK x : x = [id |-> d, announced |-> h, repo |-> broker[e].policy.repo,
                    status |-> "pending", notified |-> FALSE, outcome |-> NoOutcome]
  OBVIOUS
<1>3. WebhookRow(x) /\ x.status = "pending" /\ ~x.notified
  BY <1>2 DEF WebhookRow
<1>4. PICK r : r = wakeups
  OBVIOUS
<1>5. PICK s : s = Append(r, x)
  OBVIOUS
<1>6. wakeups' = PruneSettledGithubWakeups(s)
  BY <1>2, <1>4, <1>5 DEF EnqueueGithubWakeup
<1>7. Listed(r)
  BY <1>4 DEF WebhookInv
<1>8. /\ Listed(s) /\ DOMAIN r \subseteq DOMAIN s
      /\ \A i \in DOMAIN r : s[i] = r[i]
      /\ \A i \in DOMAIN s \ DOMAIN r : s[i] = x
  BY <1>3, <1>5, <1>7, AppendedRow
<1>9. PICK t : t = wakeups'
  OBVIOUS
<1>10. Thinner(s, t)
  BY <1>6, <1>8, <1>9, PruneThins
<1>11. RowsKept
  BY <1>3, <1>4, <1>8, <1>9, <1>10 DEF Thinner, RowsKept
<1>12. Marked => Marked'
  <2>1. ASSUME Marked, ~draining, NEW i \in DOMAIN t, t[i].status = "pending", t[i].notified
        PROVE  signal
    <3>1. i \in DOMAIN s /\ s[i].status = "pending" /\ s[i].notified
      BY <1>10, <2>1 DEF Thinner
    <3>2. i \in DOMAIN r
      BY <1>3, <1>8, <3>1
    <3> QED
      BY <1>4, <1>8, <2>1, <3>1, <3>2 DEF Marked
  <2> QED
    BY <1>1, <1>9, <2>1 DEF Marked
<1> QED
  BY <1>1, <1>11, <1>12, WebhookRest, SameOutcomes

(* The marker is set before anybody is told.                                   *)
LEMMA AnnouncedKept ==
  ASSUME WebhookInv, NEW e \in Epochs, NEW i, EnqueueGithubPush(e, i)
  PROVE  WebhookInv'
<1> USE DEF ledgerVars
<1>1. UNCHANGED <<deliveries, draining, epoch, broker>> /\ signal' = TRUE /\ i \in DOMAIN wakeups
  BY DEF EnqueueGithubPush
<1>2. PICK r, x, y : r = wakeups /\ x = r[i] /\ y = [x EXCEPT !.notified = TRUE]
  OBVIOUS
<1>3. Listed(r)
  BY <1>2 DEF WebhookInv
<1>4. WebhookRow(x)
  BY <1>1, <1>2, <1>3 DEF Listed
<1>5. y = [id |-> x.id, announced |-> x.announced, repo |-> x.repo, status |-> x.status,
           notified |-> TRUE, outcome |-> x.outcome]
  BY <1>2, <1>4 DEF WebhookRow
<1>6. WebhookRow(y) /\ y.id = x.id /\ y.status = x.status /\ y.outcome = x.outcome
  BY <1>5 DEF WebhookRow
<1>7. wakeups' = [r EXCEPT ![i] = y]
  BY <1>2 DEF EnqueueGithubPush
<1>8. PICK t : t = wakeups'
  OBVIOUS
<1>9. /\ Listed(t) /\ DOMAIN t = DOMAIN r /\ t[i] = y
      /\ \A j \in DOMAIN r : j # i => t[j] = r[j]
  BY <1>1, <1>2, <1>3, <1>6, <1>7, <1>8, WrittenRow
<1>10. RowsKept
  BY <1>2, <1>6, <1>8, <1>9 DEF RowsKept
<1>11. Marked'
  BY <1>1 DEF Marked
<1> QED
  BY <1>1, <1>10, <1>11, WebhookRest, SameOutcomes

--------------------------------------------------------------------------------
(* Webhooks are taken, worked on and answered.                                 *)

(* The policy of a process that starts: what waits for it is marked again.     *)
LEMMA PolicyKept ==
  ASSUME Core, WebhookInv, NEW e \in Epochs, ReconcileGithubWakeupPolicy(e)
  PROVE  WebhookInv'
<1> USE DEF ledgerVars
<1>1. /\ UNCHANGED <<deliveries, draining, epoch>> /\ e = epoch /\ Goto(e, "outbox")
      /\ signal' = (signal \/ \E i \in DOMAIN wakeups : wakeups'[i].status = "pending")
  BY DEF ReconcileGithubWakeupPolicy, At, RequireBoundBrokerEpoch
<1>2. PICK r : r = wakeups
  OBVIOUS
<1>3. PICK s : s = [i \in DOMAIN r |-> IF r[i].repo = broker[e].policy.repo THEN r[i]
                                       ELSE [r[i] EXCEPT !.status = "pruned"]]
  OBVIOUS
<1>4. wakeups' = PruneSettledGithubWakeups(s)
  BY <1>2, <1>3 DEF ReconcileGithubWakeupPolicy
<1>5. PICK t : t = wakeups'
  OBVIOUS
<1>6. Listed(r)
  BY <1>2 DEF WebhookInv
<1>7. Thinner(r, s)
  <2>1. /\ s = [i \in DOMAIN r |-> s[i]]
        /\ \A i \in DOMAIN r : s[i] = r[i] \/ s[i] = [r[i] EXCEPT !.status = "pruned"]
    BY <1>3
  <2> QED
    BY SMTT(60), <1>6, <2>1, PrunedRows
<1>8. Thinner(s, t)
  <2>1. Listed(s)
    BY <1>7 DEF Thinner
  <2> QED
    BY <1>4, <1>5, <2>1, PruneThins
<1>9. Thinner(wakeups, wakeups')
  BY <1>2, <1>5, <1>7, <1>8, ThinnerTwice
<1>10. RowsKept
  BY <1>9, ThinnerKept
<1>11. Listed(wakeups') /\ AnswersHold'
  BY <1>1, <1>10, AnswersStay, SameOutcomes DEF WebhookInv, RowsKept
<1>12. Marked'
  BY <1>1, <1>9 DEF Marked, Thinner
<1>13. PICK c : Become(e, c) /\ c.pc = "outbox"
  BY <1>1, WentTo DEF Core
<1>14. CallInv(c)'
  BY <1>12, <1>13 DEF CallInv, Swapping, Draining
<1> QED
  BY <1>1, <1>11, <1>13, <1>14, WebhookOwn DEF Core

(* The marker is cleared, and set again for those who still wait.              *)
LEMMA ClearedKept ==
  ASSUME Core, WebhookInv, NEW e \in Epochs, ClearPriorityFetch(e) \/ NotifyPriorityFetch(e)
  PROVE  WebhookInv'
<1> USE DEF ledgerVars, queueVars
<1>1. UNCHANGED <<wakeups, deliveries, epoch>> /\ e = epoch
  BY DEF ClearPriorityFetch, NotifyPriorityFetch, At, RequireBoundBrokerEpoch
<1>2. Listed(wakeups') /\ AnswersHold'
  BY <1>1, AnswersStay, WakeupsSame, SameOutcomes DEF WebhookInv, RowsKept
<1>3. CASE ClearPriorityFetch(e)
  <2>1. PICK c : Become(e, c) /\ c.pc = "recheck"
    BY <1>3, WentTo DEF Core, ClearPriorityFetch
  <2>2. draining'
    BY <1>1, <1>3 DEF ClearPriorityFetch, At, WebhookInv, CallInv, Draining
  <2>3. CallInv(c)'
    BY <2>1, <2>2 DEF CallInv, Swapping, Marked
  <2> QED
    BY <1>1, <1>2, <2>1, <2>3, WebhookOwn DEF Core
<1>4. CASE NotifyPriorityFetch(e)
  <2>1. Return(e) /\ signal' = (signal \/ PendingGithubWakeups # {})
    BY <1>4 DEF NotifyPriorityFetch
  <2>2. PICK c : Become(e, c) /\ c.pc = "idle"
    BY <2>1, Returned
  <2>3. Marked'
    BY <1>1, <2>1 DEF Marked, PendingGithubWakeups
  <2>4. CallInv(c)'
    BY <2>2, <2>3 DEF CallInv, Swapping, Draining
  <2> QED
    BY <1>1, <1>2, <2>2, <2>4, WebhookOwn DEF Core
<1> QED
  BY <1>3, <1>4

(* The outcome of a webhook's delivery is what its answer will say.            *)
LEMMA FinishedKept ==
  ASSUME Core, WebhookInv, NEW e \in Epochs, FinishDelivery(e)
  PROVE  WebhookInv'
<1> USE DEF ledgerVars, worldVars
<1>1. /\ UNCHANGED <<wakeups, signal, draining, epoch>> /\ e = epoch /\ broker[e].pc = "finish"
      /\ HoldsClaim(e, broker[e].key)
  BY DEF FinishDelivery, At, RequireBoundBrokerEpoch
<1>2. PICK b : b = broker[e]
  OBVIOUS
<1>3. PICK row : row = DeliveryRow(deliveries[b.key].payload, "completed", 0, b.outcome)
  OBVIOUS
<1>4. deliveries' = [deliveries EXCEPT ![b.key] = row]
  BY <1>1, <1>2, <1>3 DEF FinishDelivery, HoldsClaim
<1>5. OutcomesKept
  BY <1>1, <1>2, <1>4, FinishedOutcomes
<1>6. Shapes /\ ProcessInv(e) /\ CallInv(b) /\ Marked /\ Named(b)
  BY <1>1, <1>2 DEF Core, WebhookInv, CallInv, Ordinary
<1>7. InCall(b)
  BY <1>1, <1>2, <1>6 DEF ProcessInv, Waiting
<1>8. CASE Return(e)
  <2>1. PICK c : Become(e, c) /\ c.pc = "idle"
    BY <1>8, Returned
  <2>2. CallInv(c)
    BY <1>6, <2>1, IdleCall DEF Draining
  <2> QED
    BY <1>1, <1>5, <1>6, <2>1, <2>2, WebhookStep, WakeupsSame, SignalSame
<1>9. CASE b.key[1] = "github" /\ Goto(e, "complete")
  <2>1. PICK c : Become(e, c) /\ c.pc = "complete" /\ SameCall(b, c)
    BY <1>2, <1>6, <1>7, <1>9, WentTo
  <2>2. PICK i \in DOMAIN wakeups : IsOldest(i, b.batch) /\ b.key = WebhookKey(i)
    BY <1>6, <1>9 DEF Named
  <2>3. c.key = b.key /\ c.batch = b.batch /\ c.outcome = b.outcome
    BY <2>1 DEF SameCall
  <2>4. b.key \in DOMAIN deliveries
    BY <1>1, <1>2 DEF HoldsClaim
  <2>5. Ended(c.key, c.outcome)'
    BY <1>3, <1>4, <2>3, <2>4 DEF Ended, DeliveryRow
  <2>6. (\E j \in DOMAIN wakeups :
           IsOldest(j, c.batch) /\ c.key = WebhookKey(j) /\ Ended(c.key, c.outcome))'
    BY <1>1, <2>2, <2>3, <2>5 DEF WebhookKey
  <2>7. Marked'
    BY <1>1, <1>6, SignalSame
  <2>10. draining'
    BY <1>1, <1>6, <1>9 DEF Named
  <2>8. CallInv(c)'
    BY <2>1, <2>6, <2>7, <2>10 DEF CallInv, Swapping
  <2>9. Listed(wakeups') /\ AnswersHold'
    BY <1>1, <1>5, AnswersStay, WakeupsSame DEF WebhookInv, RowsKept
  <2> QED
    BY <1>1, <1>6, <2>1, <2>8, <2>9, WebhookOwn
<1> QED
  BY <1>2, <1>8, <1>9 DEF FinishDelivery

(* The answer is written down, and the next webhook is the oldest.             *)
LEMMA CompletedKept ==
  ASSUME Core, WebhookInv, NEW e \in Epochs, CompleteGithubWakeup(e)
  PROVE  WebhookInv'
<1> USE DEF ledgerVars, worldVars
<1>1. UNCHANGED <<deliveries, signal, draining, epoch>> /\ e = epoch /\ broker[e].pc = "complete"
  BY DEF CompleteGithubWakeup, At, RequireBoundBrokerEpoch
<1>2. PICK b : b = broker[e]
  OBVIOUS
<1>0. PICK i \in DOMAIN wakeups :
        /\ IsOldest(i, broker[e].batch)
        /\ wakeups' = PruneSettledGithubWakeups(
             [wakeups EXCEPT ![i].status = "completed", ![i].outcome = broker[e].outcome])
        /\ broker' = [broker EXCEPT ![e].pc = "reserve", ![e].batch = @ \ {i}]
  BY ZenonT(40) DEF CompleteGithubWakeup
<1>3. /\ IsOldest(i, b.batch)
      /\ wakeups' = PruneSettledGithubWakeups(
           [wakeups EXCEPT ![i].status = "completed", ![i].outcome = b.outcome])
  BY <1>0, <1>2
<1>4. Shapes /\ ProcessInv(e) /\ CallInv(b) /\ Marked /\ Listed(wakeups) /\ AnswersHold
  BY <1>1, <1>2 DEF Core, WebhookInv, CallInv, Ordinary
<1>5. PICK j \in DOMAIN wakeups :
        IsOldest(j, b.batch) /\ b.key = WebhookKey(j) /\ Ended(b.key, b.outcome)
  BY <1>1, <1>2, <1>4 DEF CallInv
<1>6. i = j
  <2>1. PICK n \in Nat : DOMAIN wakeups = 1..n
    BY <1>4 DEF Listed
  <2>2. i <= j /\ j <= i
    BY <1>3, <1>5 DEF IsOldest
  <2> QED
    BY <2>1, <2>2
<1>7. PICK r : r = wakeups
  OBVIOUS
<1>24. PICK x : x = r[i]
  OBVIOUS
<1>25. PICK y : y = [x EXCEPT !.status = "completed", !.outcome = b.outcome]
  OBVIOUS
<1>8. x = r[i] /\ y = [x EXCEPT !.status = "completed", !.outcome = b.outcome]
  BY <1>24, <1>25
<1>9. WebhookRow(x) /\ Listed(r)
  BY <1>3, <1>4, <1>7, <1>8 DEF Listed
<1>10. y = [id |-> x.id, announced |-> x.announced, repo |-> x.repo, status |-> "completed",
            notified |-> x.notified, outcome |-> b.outcome]
  BY <1>8, <1>9 DEF WebhookRow
<1>11. WebhookRow(y) /\ y.id = x.id /\ y.status = "completed" /\ y.outcome = b.outcome
  BY <1>10 DEF WebhookRow
<1>12. PICK s : s = [r EXCEPT ![i] = y]
  OBVIOUS
<1>13. wakeups' = PruneSettledGithubWakeups(s)
  <2>1. s = [wakeups EXCEPT ![i].status = "completed", ![i].outcome = b.outcome]
    BY <1>7, <1>8, <1>12
  <2> QED
    BY <1>3, <2>1
<1>14. /\ Listed(s) /\ DOMAIN s = DOMAIN r /\ s[i] = y
       /\ \A k \in DOMAIN r : k # i => s[k] = r[k]
  BY <1>3, <1>7, <1>9, <1>11, <1>12, WrittenRow
<1>15. PICK t : t = wakeups'
  OBVIOUS
<1>16. Thinner(s, t)
  BY <1>13, <1>14, <1>15, PruneThins
<1>17. Listed(wakeups')
  BY <1>15, <1>16 DEF Thinner
<1>18. AnswersHold'
  <2>1. ASSUME NEW k \in DOMAIN t, t[k].status = "completed"
        PROVE  Ended(<<"github", t[k].id>>, t[k].outcome)
    <3>1. k \in DOMAIN r /\ t[k].id = s[k].id /\ t[k].outcome = s[k].outcome
          /\ s[k].status = "completed"
      BY <1>14, <1>16, <2>1 DEF Thinner
    <3>2. CASE k = i
      <4>1. t[k].id = wakeups[j].id /\ t[k].outcome = b.outcome
        BY ZenonT(60), <1>6, <1>7, <1>8, <1>11, <1>14, <3>1, <3>2
      <4>2. b.key = <<"github", t[k].id>>
        BY <1>5, <4>1 DEF WebhookKey
      <4> QED
        BY <1>5, <4>1, <4>2
    <3>3. CASE k # i
      BY <1>4, <1>7, <1>14, <3>1, <3>3 DEF AnswersHold, WebhookKey
    <3> QED
      BY <3>2, <3>3
  <2>2. ASSUME NEW k \in DOMAIN t, t[k].status = "completed"
        PROVE  Ended(WebhookKey(k), wakeups[k].outcome)'
    BY <1>1, <1>15, <2>1, <2>2 DEF Ended, WebhookKey
  <2> QED
    BY <1>15, <2>2 DEF AnswersHold
<1>19. draining' /\ Marked'
  BY <1>1, <1>2, <1>4 DEF CallInv, Marked
<1>20. PICK c : c = [b EXCEPT !.pc = "reserve", !.batch = @ \ {i}]
  OBVIOUS
<1>21. Become(e, c)
  BY <1>0, <1>2, <1>4, <1>20 DEF Become, Shapes
<1>22. c.pc = "reserve"
  <2>1. InCall(b)
    BY <1>1, <1>2, <1>4 DEF ProcessInv, Waiting
  <2> QED
    BY <1>20, <2>1 DEF InCall
<1>23. CallInv(c)'
  BY <1>19, <1>22 DEF CallInv, Swapping, Draining
<1> QED
  BY <1>1, <1>4, <1>17, <1>18, <1>21, <1>23, WebhookOwn

(* The next webhook is taken: its delivery is claimed, or known already.       *)
LEMMA ReservedKept ==
  ASSUME Core, WebhookInv, NEW e \in Epochs, ReserveWakeup(e)
  PROVE  WebhookInv'
<1> USE DEF ledgerVars, worldVars
<1>12. UNCHANGED <<wakeups, signal, draining, epoch>>
  BY ZenonT(40) DEF ReserveWakeup
<1>13. At(e, "reserve")
  BY ZenonT(40) DEF ReserveWakeup
<1>1. UNCHANGED <<wakeups, signal, draining, epoch>> /\ e = epoch /\ broker[e].pc = "reserve"
  BY <1>12, <1>13 DEF At, RequireBoundBrokerEpoch
<1>2. PICK b : b = broker[e]
  OBVIOUS
<1>3. Shapes /\ ProcessInv(e) /\ CallInv(b) /\ Marked
  BY <1>1, <1>2 DEF Core, WebhookInv, CallInv, Ordinary
<1>4. InCall(b) /\ draining
  BY <1>1, <1>2, <1>3 DEF ProcessInv, Waiting, CallInv, Draining
<1>5. RowsKept /\ (Marked => Marked')
  BY <1>1, WakeupsSame, SignalSame
<1>6. ASSUME NEW c, Become(e, c), CallInv(c), OutcomesKept PROVE WebhookInv'
  BY <1>1, <1>3, <1>5, <1>6, WebhookStep
<1>7. CASE Goto(e, "clear") /\ UNCHANGED deliveries
  <2>1. PICK c : Become(e, c) /\ c.pc = "clear"
    BY <1>3, <1>7, WentTo
  <2> QED
    BY <1>3, <1>4, <1>6, <1>7, <2>1, IdleCall, SameOutcomes
<1>8. CASE Return(e) /\ UNCHANGED deliveries
  <2>1. PICK c : Become(e, c) /\ c.pc = "idle"
    BY <1>8, Returned
  <2> QED
    BY <1>3, <1>4, <1>6, <1>8, <2>1, IdleCall, SameOutcomes
<1>9. ASSUME NEW i \in DOMAIN wakeups, IsOldest(i, broker[e].batch),
             Recorded(WebhookKey(i), wakeups[i].announced), UNCHANGED deliveries,
             broker' = [broker EXCEPT ![e].pc = "complete", ![e].key = WebhookKey(i),
                          ![e].outcome = deliveries[WebhookKey(i)].outcome]
      PROVE  WebhookInv'
  <2>1. PICK key : key = WebhookKey(i)
    OBVIOUS
  <2>2. PICK x : x = deliveries[key].outcome
    OBVIOUS
  <2>3. PICK c : c = [b EXCEPT !.pc = "complete", !.key = key, !.outcome = x]
    OBVIOUS
  <2>4. broker' = [broker EXCEPT ![e].pc = "complete", ![e].key = key, ![e].outcome = x]
    BY <1>9, <2>1, <2>2
  <2>5. Become(e, c)
    BY <1>2, <1>3, <2>3, <2>4 DEF Become, Shapes
  <2>6. c.pc = "complete" /\ c.key = key /\ c.outcome = x /\ c.batch = b.batch
    BY <1>4, <2>3 DEF InCall
  <2>7. Ended(c.key, c.outcome)
    BY <1>9, <2>1, <2>2, <2>6 DEF Ended, Recorded
  <2>8. \E j \in DOMAIN wakeups :
          IsOldest(j, c.batch) /\ c.key = WebhookKey(j) /\ Ended(c.key, c.outcome)
    BY <1>2, <1>9, <2>1, <2>6, <2>7
  <2>9. CallInv(c)
    BY <1>3, <1>4, <2>6, <2>8 DEF CallInv, Swapping
  <2> QED
    BY <1>6, <1>9, <2>5, <2>9, SameOutcomes
<1>10. ASSUME NEW i \in DOMAIN wakeups, IsOldest(i, broker[e].batch),
              ReserveDelivery(e, WebhookKey(i), wakeups[i].announced),
              broker' = [broker EXCEPT ![e].pc = "decide", ![e].key = WebhookKey(i),
                           ![e].announced = wakeups[i].announced]
       PROVE  WebhookInv'
  <2>1. PICK key : key = WebhookKey(i)
    OBVIOUS
  <2>2. PICK x : x = wakeups[i].announced
    OBVIOUS
  <2>3. PICK c : c = [b EXCEPT !.pc = "decide", !.key = key, !.announced = x]
    OBVIOUS
  <2>4. broker' = [broker EXCEPT ![e].pc = "decide", ![e].key = key, ![e].announced = x]
    BY <1>10, <2>1, <2>2
  <2>5. Become(e, c)
    BY <1>2, <1>3, <2>3, <2>4 DEF Become, Shapes
  <2>6. c.pc = "decide" /\ c.key = key /\ c.batch = b.batch
    BY <1>4, <2>3 DEF InCall
  <2>7. Named(c)
    BY <1>2, <1>4, <1>10, <2>1, <2>6 DEF Named
  <2>8. CallInv(c)
    BY <1>3, <2>6, <2>7 DEF CallInv, Swapping, Draining
  <2>9. OutcomesKept
    BY <1>10, <2>1, <2>2, ReservedOutcomes
  <2> QED
    BY <1>6, <2>5, <2>8, <2>9
<1>11. \/ Goto(e, "clear") /\ UNCHANGED deliveries
       \/ Return(e) /\ UNCHANGED deliveries
       \/ \E i \in DOMAIN wakeups :
            /\ IsOldest(i, broker[e].batch)
            /\ Recorded(WebhookKey(i), wakeups[i].announced) /\ UNCHANGED deliveries
            /\ broker' = [broker EXCEPT ![e].pc = "complete", ![e].key = WebhookKey(i),
                            ![e].outcome = deliveries[WebhookKey(i)].outcome]
       \/ \E i \in DOMAIN wakeups :
            /\ IsOldest(i, broker[e].batch)
            /\ ReserveDelivery(e, WebhookKey(i), wakeups[i].announced)
            /\ broker' = [broker EXCEPT ![e].pc = "decide", ![e].key = WebhookKey(i),
                            ![e].announced = wakeups[i].announced]
  BY ZenonT(40) DEF ReserveWakeup, WebhookKey
<1>14. CASE \E i \in DOMAIN wakeups :
              /\ IsOldest(i, broker[e].batch)
              /\ Recorded(WebhookKey(i), wakeups[i].announced) /\ UNCHANGED deliveries
              /\ broker' = [broker EXCEPT ![e].pc = "complete", ![e].key = WebhookKey(i),
                              ![e].outcome = deliveries[WebhookKey(i)].outcome]
  BY Zenon, <1>9, <1>14
<1>15. CASE \E i \in DOMAIN wakeups :
              /\ IsOldest(i, broker[e].batch)
              /\ ReserveDelivery(e, WebhookKey(i), wakeups[i].announced)
              /\ broker' = [broker EXCEPT ![e].pc = "decide", ![e].key = WebhookKey(i),
                              ![e].announced = wakeups[i].announced]
  BY Zenon, <1>10, <1>15
<1> QED
  BY Zenon, <1>7, <1>8, <1>11, <1>14, <1>15

--------------------------------------------------------------------------------
(* Calls begin, go on, and are over.                                           *)
LEMMA BegunKept ==
  ASSUME Core, WebhookInv, NEW e \in Epochs,
         ReceiveDirect(e) \/ Reconcile(e)
  PROVE  WebhookInv'
<1> USE DEF ledgerVars, queueVars, worldVars
<1>1. UNCHANGED <<wakeups, signal, draining, epoch>> /\ e = epoch /\ broker[e].pc = "idle"
  BY DEF ReceiveDirect, Reconcile, ProcessDirectPush, ReconcileRemoteMain, At,
         RequireBoundBrokerEpoch
<1>2. Shapes /\ Marked
  BY <1>1 DEF Core, WebhookInv, CallInv, Ordinary
<1>3. RowsKept /\ (Marked => Marked')
  BY <1>1, WakeupsSame, SignalSame
<1>4. ASSUME NEW key, NEW cand, NEW head, NEW prev, NEW refresh, NEW batch,
             key[1] # "github",
             Enter(e, Call(key, cand, head, prev, refresh, batch, "decide")), OutcomesKept
      PROVE  WebhookInv'
  <2>1. PICK c : Become(e, c) /\ c.pc = "decide" /\ c.key = key
    BY <1>4, Entered
  <2>2. CallInv(c)
    BY <1>2, <1>4, <2>1, OtherCall
  <2> QED
    BY <1>1, <1>2, <1>3, <1>4, <2>1, <2>2, WebhookStep
<1>5. CASE ReceiveDirect(e)
  <2>1. PICK d \in DirectIds, push \in DirectPushes : ProcessDirectPush(e, d, push[1], push[2])
    BY <1>5 DEF ReceiveDirect
  <2>2. PICK key : key = <<"direct", d>>
    OBVIOUS
  <2>3. PICK old, new : old = push[1] /\ new = push[2]
    OBVIOUS
  <2>4. /\ Enter(e, Call(key, new, new, old, FALSE, {}, "decide"))
        /\ ReserveDelivery(e, key, <<old, new>>)
    BY <2>1, <2>2, <2>3 DEF ProcessDirectPush
  <2>5. OutcomesKept
    BY <2>4, ReservedOutcomes
  <2>6. key[1] # "github"
    BY <2>2
  <2> QED
    BY <1>4, <2>4, <2>5, <2>6
<1>6. CASE Reconcile(e)
  <2>1. PICK refresh \in BOOLEAN : ReconcileRemoteMain(e, refresh)
    BY <1>6 DEF Reconcile
  <2>2. PICK key : key = ReconcileKey(e, refresh)
    OBVIOUS
  <2>3. /\ Enter(e, Call(key, remote, remote, NoCommit, refresh, {}, "decide"))
        /\ ReserveDelivery(e, key, remote)
    BY <2>1, <2>2 DEF ReconcileRemoteMain
  <2>4. OutcomesKept
    BY <2>3, ReservedOutcomes
  <2>5. key[1] # "github"
    BY <2>2 DEF ReconcileKey
  <2> QED
    BY <1>4, <2>3, <2>4, <2>5
<1> QED
  BY <1>5, <1>6

(* A drain begins.                                                             *)
LEMMA DrainKept ==
  ASSUME Core, WebhookInv, NEW e \in Epochs, ProcessPendingGithubPushes(e)
  PROVE  WebhookInv'
<1> USE DEF ledgerVars, queueVars
<1>1. UNCHANGED <<wakeups, deliveries, epoch>> /\ e = epoch /\ draining' = TRUE
  BY DEF ProcessPendingGithubPushes, At, RequireBoundBrokerEpoch
<1>2. PICK batch : batch = OldestWakeups
  OBVIOUS
<1>3. \/ Enter(e, Call(<<"github", 0>>, NoCommit, NoCommit, NoCommit, FALSE, {}, "clear"))
      \/ Enter(e, Call(<<"github", 0>>, remote, remote, NoCommit, FALSE, batch, "reserve"))
  BY <1>2 DEF ProcessPendingGithubPushes
<1>4. PICK c : Become(e, c) /\ c.pc \in {"clear", "reserve"}
  <2>1. PICK key : key = <<"github", 0>>
    OBVIOUS
  <2>2. PICK h, x, p : /\ p \in {"clear", "reserve"}
                      /\ Enter(e, Call(key, h, h, NoCommit, FALSE, x, p))
    BY <1>3, <2>1
  <2>3. PICK prev, refresh : prev = NoCommit /\ refresh = FALSE
    OBVIOUS
  <2>4. Enter(e, Call(key, h, h, prev, refresh, x, p))
    BY <2>2, <2>3
  <2>5. PICK c : Become(e, c) /\ c.pc = p
    BY <2>4, Entered
  <2> QED
    BY <2>2, <2>5
<1>5. CallInv(c)'
  BY <1>1, <1>4 DEF CallInv, Swapping, Marked
<1>6. Listed(wakeups') /\ AnswersHold'
  BY <1>1, AnswersStay, WakeupsSame, SameOutcomes DEF WebhookInv, RowsKept
<1> QED
  BY <1>1, <1>4, <1>5, <1>6, WebhookOwn DEF Core

(* A call goes on with the webhook it has in hand.                             *)
LEMMA OnwardStep ==
  ASSUME Core, WebhookInv, NEW e \in Epochs, e = epoch, UNCHANGED <<wakeups, deliveries, signal, draining, epoch>>,
         NEW c, Become(e, c), CallInv(c)
  PROVE  WebhookInv'
<1>1. RowsKept /\ (Marked => Marked') /\ OutcomesKept
  BY WakeupsSame, SignalSame, SameOutcomes
<1> QED
  BY <1>1, WebhookStep DEF Core

(* A call gives its delivery back.                                             *)
LEMMA AbandonedKept ==
  ASSUME Core, WebhookInv, NEW e \in Epochs, e = epoch, UNCHANGED <<wakeups, signal, draining, epoch>>,
         AbandonDelivery(e), Marked
  PROVE  WebhookInv'
<1>1. PICK key : key = broker[e].key
  OBVIOUS
<1>2. OutcomesKept
  BY <1>1, AbandonedOutcomes DEF AbandonDelivery
<1>3. PICK c : Become(e, c) /\ c.pc = "idle"
  BY Returned DEF AbandonDelivery
<1>4. CallInv(c)
  BY <1>3, IdleCall DEF Draining
<1>5. RowsKept /\ (Marked => Marked')
  BY WakeupsSame, SignalSame
<1> QED
  BY <1>2, <1>3, <1>4, <1>5, WebhookStep DEF Core

(* A candidate is decided on.                                                  *)
LEMMA DecidedKept ==
  ASSUME Core, WebhookInv, NEW e \in Epochs, ProcessCandidate(e)
  PROVE  WebhookInv'
<1> USE DEF ledgerVars, worldVars
<1>1. UNCHANGED <<wakeups, signal, draining, epoch>> /\ e = epoch /\ broker[e].pc = "decide"
  BY DEF ProcessCandidate, At, RequireBoundBrokerEpoch
<1>2. PICK b : b = broker[e]
  OBVIOUS
<1>3. Shapes /\ ProcessInv(e) /\ CallInv(b) /\ Marked
  BY <1>1, <1>2 DEF Core, WebhookInv, CallInv, Ordinary
<1>4. InCall(b) /\ b.pc \in Working
  BY <1>1, <1>2, <1>3 DEF ProcessInv, Waiting, Working
<1>5. ASSUME NEW c, Become(e, c), c.key = b.key, c.batch = b.batch,
             c.pc \in Working \cup Swapping, UNCHANGED deliveries
      PROVE  WebhookInv'
  <2>1. CallInv(c)
    BY <1>3, <1>4, <1>5, OnwardCall
  <2> QED
    BY <1>1, <1>5, <2>1, OnwardStep
<1>6. CASE AbandonDelivery(e)
  BY <1>1, <1>3, <1>6, AbandonedKept
<1>7. CASE Goto(e, "diverge") /\ UNCHANGED deliveries
  <2>1. PICK c : Become(e, c) /\ c.pc = "diverge" /\ SameCall(b, c)
    BY <1>2, <1>3, <1>4, <1>7, WentTo
  <2> QED
    BY <1>5, <1>7, <2>1 DEF SameCall, Swapping
<1>8. ASSUME NEW a, broker' = [broker EXCEPT ![e].pc = "begin", ![e].att = a], UNCHANGED deliveries
      PROVE  WebhookInv'
  <2>1. PICK c : c = [b EXCEPT !.pc = "begin", !.att = a]
    OBVIOUS
  <2>2. Become(e, c)
    BY <1>2, <1>3, <1>8, <2>1 DEF Become, Shapes
  <2>3. c.pc = "begin" /\ c.key = b.key /\ c.batch = b.batch
    BY <1>4, <2>1 DEF InCall
  <2> QED
    BY <1>5, <1>8, <2>2, <2>3 DEF Working
<1>9. ASSUME NEW o, broker' = [broker EXCEPT ![e].pc = "finish", ![e].outcome = o], UNCHANGED deliveries
      PROVE  WebhookInv'
  <2>1. PICK c : c = [b EXCEPT !.pc = "finish", !.outcome = o]
    OBVIOUS
  <2>2. Become(e, c)
    BY <1>2, <1>3, <1>9, <2>1 DEF Become, Shapes
  <2>3. c.pc = "finish" /\ c.key = b.key /\ c.batch = b.batch
    BY <1>4, <2>1 DEF InCall
  <2> QED
    BY <1>5, <1>9, <2>2, <2>3 DEF Working
<1>10. \/ AbandonDelivery(e) \/ (Goto(e, "diverge") /\ UNCHANGED deliveries)
       \/ \E a : broker' = [broker EXCEPT ![e].pc = "begin", ![e].att = a] /\ UNCHANGED deliveries
       \/ \E o : broker' = [broker EXCEPT ![e].pc = "finish", ![e].outcome = o] /\ UNCHANGED deliveries
  BY DEF ProcessCandidate
<1> QED
  BY <1>6, <1>7, <1>8, <1>9, <1>10

(* The intent is written, or the call starts over or gives up.                 *)
LEMMA IntentKept ==
  ASSUME Core, WebhookInv, NEW e \in Epochs, BeginRefUpdate(e)
  PROVE  WebhookInv'
<1> USE DEF worldVars
<1>1. UNCHANGED <<wakeups, signal, draining, epoch>> /\ e = epoch /\ broker[e].pc = "begin"
  BY DEF BeginRefUpdate, At, RequireBoundBrokerEpoch
<1>2. PICK b : b = broker[e]
  OBVIOUS
<1>3. Shapes /\ ProcessInv(e) /\ CallInv(b) /\ Marked
  BY <1>1, <1>2 DEF Core, WebhookInv, CallInv, Ordinary
<1>4. InCall(b) /\ b.pc \in Working
  BY <1>1, <1>2, <1>3 DEF ProcessInv, Waiting, Working
<1>5. CASE AbandonDelivery(e)
  BY <1>1, <1>3, <1>5, AbandonedKept
<1>6. ASSUME NEW p \in {"decide", "lease"}, Goto(e, p), UNCHANGED deliveries
      PROVE  WebhookInv'
  <2>1. PICK c : Become(e, c) /\ c.pc = p /\ SameCall(b, c)
    BY <1>2, <1>3, <1>4, <1>6, WentTo
  <2>2. c.key = b.key /\ c.batch = b.batch /\ c.pc \in Working \cup Swapping
    BY <1>6, <2>1 DEF SameCall, Working, Swapping
  <2>3. CallInv(c)
    BY <1>3, <1>4, <2>2, OnwardCall
  <2> QED
    BY <1>1, <1>6, <2>1, <2>3, OnwardStep
<1> QED
  BY <1>5, <1>6 DEF BeginRefUpdate

(* The ref moves on under a call, or under a recovery.                         *)
LEMMA SwappingKept ==
  ASSUME Core, WebhookInv, NEW e \in Epochs,
         \/ RequireCurrentLease(e) \/ MarkRefUpdated(e)
         \/ CompareAndSwapAcceptedHead(e) /\ e = epoch
  PROVE  WebhookInv'
<1> USE DEF ledgerVars, queueVars, worldVars
<1>1. /\ UNCHANGED <<wakeups, deliveries, signal, draining, epoch>> /\ e = epoch
      /\ broker[e].pc \in Swapping
  BY DEF RequireCurrentLease, MarkRefUpdated, CompareAndSwapAcceptedHead, At,
         RequireBoundBrokerEpoch, Swapping
<1>2. PICK b : b = broker[e]
  OBVIOUS
<1>3. Shapes /\ ProcessInv(e) /\ CallInv(b)
  BY <1>1, <1>2 DEF Core, WebhookInv
<1>4. InCall(b) /\ b.pc \in Swapping
  BY <1>1, <1>2, <1>3 DEF ProcessInv, Waiting, Swapping
<1>5. PICK p \in {"cas", "mark", "accept", "diverge"} : Goto(e, p)
  <2>1. CASE CompareAndSwapAcceptedHead(e)
    <3>1. PICK p \in {"mark", "diverge"} : broker' = [broker EXCEPT ![e] = [@ EXCEPT !.pc = p]]
      BY <1>1, <2>1 DEF CompareAndSwapAcceptedHead, AfterSwap
    <3>2. Goto(e, p)
      BY <1>3, <3>1 DEF Goto, Shapes
    <3> QED
      BY <3>2
  <2> QED
    BY <2>1 DEF RequireCurrentLease, MarkRefUpdated
<1>6. PICK c : Become(e, c) /\ c.pc = p /\ SameCall(b, c)
  BY <1>2, <1>3, <1>4, <1>5, WentTo
<1>7. c.key = b.key /\ c.batch = b.batch /\ c.pc \in Swapping
  BY <1>5, <1>6 DEF SameCall, Swapping
<1>8. CallInv(c)
  BY <1>3, <1>4, <1>7, OnwardCall
<1> QED
  BY <1>1, <1>6, <1>8, OnwardStep

(* A head is accepted or refused, and the call goes on to its end.             *)
LEMMA ContinuedKept ==
  ASSUME Core, WebhookInv, NEW e \in Epochs, AcceptIfCurrent(e) \/ MarkDiverged(e)
  PROVE  WebhookInv'
<1> USE DEF queueVars, worldVars
<1>1. /\ UNCHANGED <<wakeups, deliveries, signal, draining, epoch>> /\ e = epoch
      /\ broker[e].pc \in Swapping
  BY DEF AcceptIfCurrent, MarkDiverged, At, RequireBoundBrokerEpoch, Swapping
<1>2. PICK b : b = broker[e]
  OBVIOUS
<1>3. Shapes /\ ProcessInv(e) /\ CallInv(b)
  BY <1>1, <1>2 DEF Core, WebhookInv
<1>4. InCall(b) /\ b.pc \in Swapping
  BY <1>1, <1>2, <1>3 DEF ProcessInv, Waiting, Swapping
<1>5. PICK o : Continue(e, o)
  BY DEF AcceptIfCurrent, MarkDiverged
<1>6. PICK p : p = IF b.key = "recovery" THEN "startup" ELSE "finish"
  OBVIOUS
<1>7. PICK c : c = [b EXCEPT !.pc = p, !.outcome = o]
  OBVIOUS
<1>8. Become(e, c)
  BY <1>2, <1>3, <1>5, <1>6, <1>7 DEF Continue, Become, Shapes
<1>9. c.pc = p /\ c.key = b.key /\ c.batch = b.batch
  BY <1>4, <1>7 DEF InCall
<1>10. CallInv(c)
  <2>1. CASE b.key = "recovery"
    BY <1>6, <1>9, <2>1, QuietCall
  <2>2. CASE b.key # "recovery"
    <3>1. c.pc \in Working
      BY <1>6, <1>9, <2>2 DEF Working
    <3> QED
      BY <1>3, <1>4, <1>9, <2>2, <3>1, OnwardCall
  <2> QED
    BY <2>1, <2>2
<1> QED
  BY <1>1, <1>8, <1>10, OnwardStep

(* A call fails, a process dies, or a superseded one makes its last swap.      *)
LEMMA FailedKept ==
  ASSUME Core, WebhookInv, NEW e \in Epochs,
         CallFails(e) \/ Crash(e) \/ (CompareAndSwapAcceptedHead(e) /\ e # epoch)
  PROVE  WebhookInv'
<1> USE DEF ledgerVars, queueVars, worldVars
<1>1. UNCHANGED <<wakeups, signal, epoch>> /\ Shapes /\ RowsKept
  BY WakeupsSame DEF CallFails, Crash, CompareAndSwapAcceptedHead, Core
<1>2. draining' = draining => (Marked => Marked')
  BY <1>1, SignalSame
<1>3. CASE CallFails(e)
  <2>1. e = epoch /\ Return(e)
    BY <1>3 DEF CallFails, RequireBoundBrokerEpoch
  <2>2. broker[e].pc \in Ordinary \/ (broker[e].pc \in Swapping /\ broker[e].key # "recovery")
    BY <1>3 DEF CallFails, Ordinary, Swapping
  <2>3. Marked
    BY <2>1, <2>2, KnowsMarker
  <2>4. PICK key : key = broker[e].key
    OBVIOUS
  <2>5. OutcomesKept
    BY <1>3, <2>4, AbandonedOutcomes, SameOutcomes DEF CallFails
  <2>6. PICK c : Become(e, c) /\ c.pc = "idle"
    BY <2>1, Returned
  <2>7. CallInv(c)
    BY <2>3, <2>6, IdleCall DEF Draining
  <2>8. UNCHANGED draining
    BY <1>3 DEF CallFails
  <2> QED
    BY <1>1, <1>2, <2>5, <2>6, <2>7, <2>8, WebhookStep
<1>4. CASE Crash(e) \/ (CompareAndSwapAcceptedHead(e) /\ e # epoch)
  <2>1. UNCHANGED deliveries
    BY <1>4 DEF Crash, CompareAndSwapAcceptedHead
  <2>2. broker' = [broker EXCEPT ![e] = Down]
    BY <1>4 DEF Crash, CompareAndSwapAcceptedHead, AfterSwap
  <2>3. PICK c : c = Down
    OBVIOUS
  <2>4. Become(e, c) /\ c.pc = "down"
    BY <2>2, <2>3 DEF Become, Down
  <2>5. CallInv(c) /\ CallInv(c)'
    BY <2>4, QuietCall
  <2>6. CASE e = epoch
    <3>1. Listed(wakeups') /\ AnswersHold'
      BY <1>1, <2>1, AnswersStay, SameOutcomes DEF WebhookInv, RowsKept
    <3> QED
      BY <1>1, <2>4, <2>5, <2>6, <3>1, WebhookOwn
  <2>7. CASE e # epoch
    <3>1. draining => draining'
      BY <1>4, <2>7 DEF Crash, CompareAndSwapAcceptedHead
    <3>2. Marked => Marked'
      BY <1>1, <3>1 DEF Marked
    <3> QED
      BY <1>1, <2>1, <2>4, <2>5, <2>7, <3>1, <3>2, WebhookStep, SameOutcomes
  <2> QED
    BY <2>6, <2>7
<1> QED
  BY <1>3, <1>4

--------------------------------------------------------------------------------
(* A process starts.                                                           *)
LEMMA StartedKept ==
  ASSUME Core, WebhookInv, NEW e \in Epochs, Start(e)
  PROVE  WebhookInv'
<1> USE DEF ledgerVars, queueVars, worldVars
<1>1. PICK policy \in Policies : AcquireBrokerLease(e, policy)
  BY DEF Start
<1>2. /\ UNCHANGED <<wakeups, deliveries, signal>> /\ epoch' = e
      /\ broker' = [d \in Epochs |-> IF d = e THEN [pc |-> "recover", policy |-> policy]
                                     ELSE BrokerLeaseSuperseded(d, e)]
  BY <1>1 DEF AcquireBrokerLease
<1>3. PICK c : c = [pc |-> "recover", policy |-> policy]
  OBVIOUS
<1>4. broker'[e] = c /\ c.pc = "recover"
  BY <1>2, <1>3
<1>5. CallInv(c)'
  BY <1>4, QuietCall
<1>6. Listed(wakeups') /\ AnswersHold'
  BY <1>2, AnswersStay, WakeupsSame, SameOutcomes DEF WebhookInv, RowsKept
<1>7. ASSUME NEW d \in Epochs, d = epoch' PROVE CallInv(broker[d])'
  <2>1. broker'[d] = c
    BY <1>2, <1>4, <1>7
  <2> QED
    BY <1>5, <2>1
<1> QED
  BY <1>6, <1>7 DEF WebhookInv

(* It looks at the journal, the ref and the deliveries.                        *)
LEMMA RecoveredKept ==
  ASSUME Core, WebhookInv, NEW e \in Epochs,
         \/ RecoverRefUpdate(e) \/ RecoverSourceState(e) \/ RecoverIncompleteDeliveries(e)
         \/ ReconcileOutboxPolicy(e)
  PROVE  WebhookInv'
<1> USE DEF ledgerVars, queueVars, worldVars
<1>1. UNCHANGED <<wakeups, signal, draining, epoch>> /\ e = epoch
  BY DEF RecoverRefUpdate, RecoverSourceState, RecoverIncompleteDeliveries,
         ReconcileOutboxPolicy, At, RequireBoundBrokerEpoch
<1>2. Shapes /\ ProcessInv(e) /\ RowsKept /\ (Marked => Marked')
  BY <1>1, WakeupsSame, SignalSame DEF Core
<1>3. ASSUME NEW c, Become(e, c), CallInv(c), OutcomesKept PROVE WebhookInv'
  BY <1>1, <1>2, <1>3, WebhookStep
<1>4. ASSUME NEW p \in {"startup", "policy"}, Goto(e, p), OutcomesKept PROVE WebhookInv'
  <2>1. PICK c : Become(e, c) /\ c.pc = p
    BY <1>2, <1>4, WentTo
  <2> QED
    BY <1>3, <1>4, <2>1, QuietCall
<1>5. CASE RecoverSourceState(e) \/ RecoverIncompleteDeliveries(e)
  <2>1. OutcomesKept
    <3>1. CASE RecoverSourceState(e)
      BY <3>1, SameOutcomes DEF RecoverSourceState
    <3>2. CASE RecoverIncompleteDeliveries(e)
      BY <3>2, RecoveredOutcomes
    <3> QED
      BY <1>5, <3>1, <3>2
  <2>2. Goto(e, "startup") \/ Goto(e, "policy")
    BY <1>5 DEF RecoverSourceState, RecoverIncompleteDeliveries
  <2> QED
    BY <1>4, <2>1, <2>2
<1>6. CASE ReconcileOutboxPolicy(e)
  <2>1. Return(e) /\ OutcomesKept /\ broker[e].pc = "outbox"
    BY <1>6, SameOutcomes DEF ReconcileOutboxPolicy, At
  <2>2. Marked
    BY <1>1, <2>1, KnowsMarker DEF Ordinary
  <2>3. PICK c : Become(e, c) /\ c.pc = "idle"
    BY <2>1, Returned
  <2> QED
    BY <1>3, <2>1, <2>2, <2>3, IdleCall DEF Draining
<1>7. CASE RecoverRefUpdate(e)
  <2>1. OutcomesKept
    BY <1>7, SameOutcomes DEF RecoverRefUpdate
  <2>2. CASE broker' = [broker EXCEPT ![e] = Down]
    <3>1. PICK c : c = Down
      OBVIOUS
    <3>2. Become(e, c) /\ c.pc = "down"
      BY <2>2, <3>1 DEF Become, Down
    <3> QED
      BY <1>3, <2>1, <3>2, QuietCall
  <2>3. CASE Goto(e, "startup")
    BY <1>4, <2>1, <2>3
  <2>4. ASSUME NEW a, NEW u \in BOOLEAN,
               Enter(e, [Call("recovery", a.head, a.head, NoCommit, FALSE, {}, "lease")
                           EXCEPT !.att = a, !.updated = u])
        PROVE  WebhookInv'
    <3>1. PICK k : k = [Call("recovery", a.head, a.head, NoCommit, FALSE, {}, "lease")
                          EXCEPT !.att = a, !.updated = u]
      OBVIOUS
    <3>2. PICK c : c = [k EXCEPT !.policy = broker[e].policy]
      OBVIOUS
    <3>3. k = [pc |-> "lease", policy |-> NoPolicy, key |-> "recovery",
               cand |-> a.head, announced |-> a.head, previous |-> NoCommit,
               refresh |-> FALSE, batch |-> {}, att |-> a, updated |-> u,
               outcome |-> NoOutcome]
      BY <3>1 DEF Call
    <3>4. Become(e, c)
      BY <2>4, <3>1, <3>2 DEF Enter, Become
    <3>5. c.pc = "lease" /\ c.key = "recovery"
      BY <3>2, <3>3
    <3>6. CallInv(c)
      BY <3>5 DEF CallInv, Swapping, Ordinary, Draining
    <3> QED
      BY <1>3, <2>1, <3>4, <3>6
  <2>5. PICK a : a = journal.att
    OBVIOUS
  <2>6. PICK u \in BOOLEAN : u = (journal.state = "ref_updated")
    OBVIOUS
  <2>7. \/ broker' = [broker EXCEPT ![e] = Down] \/ Goto(e, "startup")
        \/ Enter(e, [Call("recovery", a.head, a.head, NoCommit, FALSE, {}, "lease")
                       EXCEPT !.att = a, !.updated = u])
    BY <1>7, <2>5, <2>6 DEF RecoverRefUpdate
  <2>8. CASE Enter(e, [Call("recovery", a.head, a.head, NoCommit, FALSE, {}, "lease")
                         EXCEPT !.att = a, !.updated = u])
    BY Zenon, <2>4, <2>6, <2>8
  <2> QED
    BY Zenon, <2>2, <2>3, <2>7, <2>8
<1> QED
  BY <1>5, <1>6, <1>7

--------------------------------------------------------------------------------
(* Everybody else leaves the webhooks alone.                                   *)
LEMMA OthersKept ==
  ASSUME WebhookInv, UNCHANGED <<wakeups, deliveries, signal, draining, epoch, broker>>
  PROVE  WebhookInv'
<1>1. RowsKept /\ OutcomesKept /\ (Marked => Marked')
  BY WakeupsSame, SameOutcomes, SignalSame
<1> QED
  BY <1>1, WebhookRest

(* No step loses a webhook.                                                    *)
LEMMA NextKept ==
  ASSUME Core, WebhookInv, [Next]_vars
  PROVE  WebhookInv'
<1> USE DEF ledgerVars, queueVars, worldVars
<1>1. CASE UNCHANGED vars
  BY <1>1, OthersKept DEF vars
<1>2. CASE World
  BY <1>2, OthersKept DEF World, RemoteMoves, RefTampered, TimePasses
<1>3. ASSUME NEW e \in Epochs,
             \/ Start(e) \/ Recover(e) \/ Step(e) \/ ReceivePush(e) \/ ReceiveDirect(e)
             \/ Dispatch(e) \/ Reconcile(e) \/ ProcessPendingGithubPushes(e) \/ Operate(e)
             \/ CallFails(e) \/ Crash(e)
      PROVE  WebhookInv'
  <2>1. CASE Start(e)
    BY <2>1, StartedKept
  <2>2. CASE Recover(e)
    BY <2>2, RecoveredKept, PolicyKept DEF Recover
  <2>3. CASE Step(e)
    BY <2>3, ReservedKept, DecidedKept, IntentKept, SwappingKept, ContinuedKept, FailedKept,
       FinishedKept, CompletedKept, ClearedKept DEF Step
  <2>4. CASE ReceivePush(e)
    BY <2>4, ArrivalKept, AnnouncedKept DEF ReceivePush
  <2>5. CASE ReceiveDirect(e) \/ Reconcile(e) \/ ProcessPendingGithubPushes(e)
    BY <2>5, BegunKept, DrainKept
  <2>6. CASE Dispatch(e)
    BY <2>6, OthersKept DEF Dispatch, Admit, AcknowledgeOutbox
  <2>7. CASE Operate(e)
    <3>1. ASSUME NEW x, NEW y, SetControls(e, x, y)
          PROVE  UNCHANGED <<wakeups, deliveries, signal, draining, epoch, broker>>
      BY <3>1 DEF SetControls
    <3>2. ASSUME ResolveDivergenceKeepCanonical(e)
          PROVE  UNCHANGED <<wakeups, deliveries, signal, draining, epoch, broker>>
      BY <3>2 DEF ResolveDivergenceKeepCanonical
    <3>3. ASSUME NEW a, AdmitRecordedDeploy(e, a)
          PROVE  UNCHANGED <<wakeups, deliveries, signal, draining, epoch, broker>>
      BY <3>3 DEF AdmitRecordedDeploy
    <3>4. ASSUME NEW a, NEW phase, CheckLive(e, a, phase) \/ ReleaseMutationTicket(e, a, phase)
          PROVE  UNCHANGED <<wakeups, deliveries, signal, draining, epoch, broker>>
      BY <3>4 DEF CheckLive, ReleaseMutationTicket
    <3>5. UNCHANGED <<wakeups, deliveries, signal, draining, epoch, broker>>
      BY <2>7, <3>1, <3>2, <3>3, <3>4 DEF Operate
    <3> QED
      BY <3>5, OthersKept
  <2>8. CASE CallFails(e) \/ Crash(e)
    BY <2>8, FailedKept
  <2> QED
    BY <1>3, <2>1, <2>2, <2>3, <2>4, <2>5, <2>6, <2>7, <2>8
<1> QED
  BY <1>1, <1>2, <1>3 DEF Next

(* WebhooksAreKept: however often brokers crash, are superseded or fail, an    *)
(* answered webhook says what its delivery came to, and one that waits and was *)
(* announced is, whenever the broker is idle, marked or about to be looked for *)
(* again by a drain that failed (complete_github_wakeup, finish_delivery,      *)
(* reconcile_priority_fetch_signal, drain_project_webhooks).                   *)
THEOREM WebhooksStayKept == Spec => []WebhooksAreKept
<1>1. Init => WebhookInv
  <2>1. SUFFICES ASSUME Init PROVE WebhookInv
    OBVIOUS
  <2>2. wakeups = <<>> /\ epoch = 0
    BY <2>1 DEF Init
  <2>3. Listed(wakeups)
    BY <2>2 DEF Listed
  <2> QED
    BY <2>2, <2>3 DEF WebhookInv, AnswersHold, Epochs
<1>2. BrokerInv /\ WebhookInv /\ [Next]_vars => WebhookInv'
  BY NextKept DEF BrokerInv, Core
<1>3. WebhookInv => WebhooksAreKept
  <2>1. SUFFICES ASSUME WebhookInv, NEW i \in DOMAIN wakeups
                 PROVE  /\ wakeups[i].status = "completed" =>
                             /\ deliveries[WebhookKey(i)].status = "completed"
                             /\ deliveries[WebhookKey(i)].outcome = wakeups[i].outcome
                        /\ wakeups[i].status = "pending" /\ wakeups[i].notified =>
                             signal \/ draining \/ \A e \in Epochs : Live(e) => broker[e].pc # "idle"
    BY DEF WebhooksAreKept, WebhookKey
  <2>2. wakeups[i].status = "completed" =>
          /\ deliveries[WebhookKey(i)].status = "completed"
          /\ deliveries[WebhookKey(i)].outcome = wakeups[i].outcome
    BY <2>1 DEF WebhookInv, AnswersHold, Ended
  <2>3. ASSUME wakeups[i].status = "pending", wakeups[i].notified, NEW e \in Epochs, Live(e),
               broker[e].pc = "idle"
        PROVE  signal \/ draining
    <3>1. Marked
      BY <2>1, <2>3 DEF WebhookInv, CallInv, Ordinary, Live
    <3> QED
      BY <2>3, <3>1 DEF Marked
  <2> QED
    BY <2>2, <2>3
<1> QED
  BY <1>1, <1>2, <1>3, BrokerInvariant, PTL DEF Spec

--------------------------------------------------------------------------------
(* The delivery to the scheduler                                               *)

RowStates == {"none", "pending", "superseded", "delivered"}

(* The scheduler has an attempt of this sequence or of a later one.            *)
Covered(s) == \E t \in admitted : t >= s

DeliveryTypeOK ==
  /\ rows \in [Seqs -> RowStates]
  /\ admitted \subseteq Nat
  /\ sourceHead \in [at : Nat, seq : Nat, expired : BOOLEAN]
  /\ pushed \in Nat
  /\ disp \in [at : {"poll", "admit", "acknowledge"}, row : Nat]

(* The inductive invariant: at most one row is pending, and the row the        *)
(* dispatcher is about to acknowledge has been admitted already, although its  *)
(* process may die at any moment and another head may be admitted in between.  *)
DeliveryInv ==
  /\ DeliveryTypeOK
  /\ \A s, t \in Seqs : rows[s] = "pending" /\ rows[t] = "pending" => s = t
  /\ \A s \in Seqs : rows[s] = "delivered" => Covered(s)
  /\ disp.at = "acknowledge" => Covered(disp.row)

(* Sequences are numbers.                                                      *)
LEMMA SeqsAreNumbers == Seqs \subseteq Nat
BY DeliveryAssumption DEF Seqs

(* The installed project satisfies the invariant.                              *)
LEMMA DeliveryInitInv == DeliveryInit => DeliveryInv
BY DeliveryAssumption
   DEF DeliveryInit, DeliveryInv, DeliveryTypeOK, RowStates, NoRow, InstalledPolicies

(* Accepting a head settles no row as delivered.                               *)
LEMMA ObserveHeadDelivers ==
  ASSUME DeliveryInv, NEW forShadow, ObserveHead(forShadow)
  PROVE  /\ rows' \in [Seqs -> RowStates]
         /\ sourceHead' \in [at : Nat, seq : Nat, expired : BOOLEAN]
         /\ \A s \in Seqs : rows'[s] = "delivered" => rows[s] = "delivered"
         /\ \A s, t \in Seqs : rows'[s] = "pending" /\ rows'[t] = "pending" => s = t
<1>1. CASE UNCHANGED <<sourceHead, headOf, rows>>
  BY <1>1 DEF DeliveryInv, DeliveryTypeOK
<1>2. CASE Accept(pushed)
  BY <1>2, SeqsAreNumbers DEF Accept, DeliveryInv, DeliveryTypeOK, RowStates
<1> QED
  BY <1>1, <1>2 DEF ObserveHead

(* What is covered stays covered while attempts are only added.                *)
LEMMA GrowingAdmission ==
  ASSUME DeliveryInv, admitted \subseteq admitted', admitted' \subseteq Nat,
         rows' \in [Seqs -> RowStates],
         \A s \in Seqs : rows'[s] = "delivered" => rows[s] = "delivered",
         \A s, t \in Seqs : rows'[s] = "pending" /\ rows'[t] = "pending" => s = t,
         sourceHead' \in [at : Nat, seq : Nat, expired : BOOLEAN],
         pushed' \in Nat,
         disp' \in [at : {"poll", "admit", "acknowledge"}, row : Nat],
         disp'.at = "acknowledge" => disp' = disp
  PROVE  DeliveryInv'
BY DEF DeliveryInv, DeliveryTypeOK, Covered

(* Every step keeps the invariant.                                             *)
LEMMA DeliveryStepInv == DeliveryInv /\ [DeliveryNext]_sdVars => DeliveryInv'
<1> SUFFICES ASSUME DeliveryInv, [DeliveryNext]_sdVars
             PROVE  DeliveryInv'
  OBVIOUS
<1> USE DEF DeliveryInv, DeliveryTypeOK
<1>0. CASE UNCHANGED sdVars
  BY <1>0, GrowingAdmission
     DEF sdVars, ingressVars, brokerVars, workVars
<1>1. CASE Push
  <2>1. pushed' \in Nat
    BY <1>1 DEF Push
  <2> QED
    BY <1>1, <2>1, GrowingAdmission DEF Push, brokerVars, workVars
<1>2. CASE \E h \in 1..MaxPushes : DropHook(h) \/ github_push(h)
  BY ZenonT(60), <1>2, GrowingAdmission DEF DropHook, github_push, brokerVars, workVars
<1>3. CASE drain_project_webhook_batch
  BY <1>3, GrowingAdmission, ObserveHeadDelivers DEF drain_project_webhook_batch, workVars
<1>4. CASE reconcile_project
  BY <1>4, GrowingAdmission, ObserveHeadDelivers DEF reconcile_project, ingressVars, workVars
<1>5. CASE publish_source_export \/ ExportFails \/ BrokerRestarts
  BY <1>5, GrowingAdmission
     DEF publish_source_export, ExportFails, BrokerRestarts, ingressVars, workVars
<1>6. CASE AttestationExpires
  <2>1. sourceHead' \in [at : Nat, seq : Nat, expired : BOOLEAN]
    BY <1>6 DEF AttestationExpires
  <2> QED
    BY <1>6, <2>1, GrowingAdmission DEF AttestationExpires, ingressVars, workVars
<1>7. CASE pending
  <2>1. CASE UNCHANGED disp
    BY <1>7, <2>1, GrowingAdmission DEF pending, ingressVars, brokerVars
  <2>2. CASE disp' # disp
    <3> DEFINE s == CHOOSE s \in PendingRows : \A t \in PendingRows : s <= t
    <3>1. disp' = [at |-> "admit", row |-> s]
      BY <1>7, <2>2 DEF pending
    <3>2. PICK q \in PendingRows : PendingRows = {q}
      BY <1>7 DEF pending, PendingRows
    <3>3. s \in Nat
      <4>1. q \in Nat /\ q <= q
        BY SeqsAreNumbers DEF PendingRows
      <4>2. \E r \in PendingRows : \A t \in PendingRows : r <= t
        BY <3>2, <4>1
      <4>3. s \in PendingRows
        BY <4>2
      <4> QED
        BY <4>3, SeqsAreNumbers DEF PendingRows
    <3> QED
      BY <1>7, <3>1, <3>3, GrowingAdmission DEF pending, ingressVars, brokerVars
  <2> QED
    BY <2>1, <2>2
<1>8. CASE admit
  <2>1. CASE ~ Fresh(disp.row)
    BY <1>8, <2>1, GrowingAdmission DEF admit, ingressVars, brokerVars, NoRow
  <2>2. CASE Fresh(disp.row)
    <3>1. /\ admitted' = IF \A s \in admitted : s <= disp.row THEN admitted \cup {disp.row} ELSE admitted
          /\ disp' = [disp EXCEPT !.at = "acknowledge"]
          /\ UNCHANGED <<rows, sourceHead, pushed>>
      BY <1>8, <2>2 DEF admit, ingressVars, brokerVars
    <3>2. disp.row \in Nat /\ disp'.row = disp.row
      BY <3>1
    <3>3. admitted \subseteq admitted' /\ admitted' \subseteq Nat
      BY <3>1, <3>2
    <3>4. \E t \in admitted' : t >= disp.row
      <4>1. CASE \A s \in admitted : s <= disp.row
        <5>1. disp.row \in admitted' /\ disp.row >= disp.row
          BY <3>1, <3>2, <4>1
        <5> QED
          BY <5>1
      <4>2. CASE ~ \A s \in admitted : s <= disp.row
        <5>1. PICK s \in admitted : ~(s <= disp.row)
          BY <4>2
        <5>2. s \in admitted' /\ s >= disp.row
          BY <3>2, <3>3, <5>1
        <5> QED
          BY <5>2
      <4> QED
        BY <4>1, <4>2
    <3> QED
      BY <3>1, <3>2, <3>3, <3>4 DEF Covered
  <2> QED
    BY <2>1, <2>2
<1>9. CASE DispatcherFails
  BY <1>9, GrowingAdmission DEF DispatcherFails, ingressVars, brokerVars, NoRow
<1>10. CASE acknowledge
  <2>1. /\ disp.at = "acknowledge" /\ disp' = [at |-> "poll", row |-> NoRow]
        /\ UNCHANGED <<admitted, sourceHead, pushed>>
        /\ Settle(disp.row) \/ UNCHANGED rows
    BY <1>10 DEF acknowledge, Exchange, NotReached, AnswerLost, ingressVars
  <2>2. CASE UNCHANGED rows
    BY <2>1, <2>2 DEF Covered, NoRow
  <2>3. CASE Settle(disp.row)
    BY ZenonT(60), <2>1, <2>3 DEF Covered, NoRow, Settle, RowStates
  <2> QED
    BY <2>1, <2>2, <2>3
<1>11. CASE current_shadow_entry
  BY <1>11, GrowingAdmission, ObserveHeadDelivers
     DEF current_shadow_entry, ingressVars, workVars
<1>12. CASE admit_shadow
  BY <1>12, GrowingAdmission DEF admit_shadow, ingressVars
<1>13. CASE prepare_source
  BY <1>13, GrowingAdmission DEF prepare_source, ingressVars, brokerVars
<1> QED
  BY <1>0, <1>1, <1>2, <1>3, <1>4, <1>5, <1>6, <1>7, <1>8, <1>9, <1>10, <1>11, <1>12, <1>13
     DEF DeliveryNext

(* Whatever answers are lost and whichever process dies, the broker takes no   *)
(* row as delivered that the scheduler does not have an attempt for, or for a  *)
(* newer head: drain_cycle admits before it acknowledges, and an admission     *)
(* that is refused as too old is covered by the attempt that made it old.      *)
THEOREM AcknowledgedIsAdmitted == DeliverySpec => []DeliveredIsAdmitted
<1>1. DeliveryInv => DeliveredIsAdmitted
  BY DEF DeliveryInv, DeliveredIsAdmitted, Covered
<1> QED
  BY <1>1, DeliveryInitInv, DeliveryStepInv, PTL DEF DeliverySpec
================================================================================
