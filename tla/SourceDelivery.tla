---------------------------- MODULE SourceDelivery ----------------------------
(***************************************************************************)
(* How a push becomes a workflow attempt: GitHub calls the ingress service,  *)
(* which hands the webhook to the broker over a socket; the broker's loop of *)
(* the project drains webhooks, and reconciles with the remote at intervals; *)
(* an accepted head gets a signed sequence number and an outbox row, and its *)
(* tree is exported as an archive; the dispatcher polls the outbox over a    *)
(* second socket, admits rows to the scheduler and acknowledges them; a      *)
(* worker then opens the archive of exactly the admitted sequence. Every     *)
(* call over a socket may be lost before or after it took effect, and every  *)
(* process may die between two steps. The broker's own ledger steps are      *)
(* those of SourceBroker, taken here as one.                                 *)
(***************************************************************************)
EXTENDS Naturals, FiniteSets

CONSTANTS
  MaxPushes,       \* bound: pushes to main, numbered as the heads they make
  MaxExpiries,     \* bound: attestations that expire
  DeliveryFaults   \* bound: crashes, lost calls and failed commands

ASSUME DeliveryAssumption == MaxPushes \in Nat /\ MaxExpiries \in Nat /\ DeliveryFaults \in Nat

VARIABLES
  pushed,      \* head of the remote
  hooks,       \* heads whose webhook GitHub still has to deliver
  queued,      \* heads whose webhook the broker has queued
  auto,        \* the installed policy deploys automatically
  sourceHead,        \* the accepted head, its sequence, and whether its attestation expired
  rows,        \* rows[s]: status of the outbox row of sequence s
  archives,    \* sequences with an archive file
  manifests,   \* the manifests published with them
  headOf,      \* headOf[s]: the head signed under sequence s
  loop,        \* the project's loop in the broker
  shadow,      \* the operator's shadow command: idle, export, offer, admit
  disp,        \* the dispatcher and the row it works on
  admitted,    \* sequences of the attempts the scheduler has
  prepared,    \* attempts whose source a worker has opened, or found missing and failed
  expiries, sdFaults

ingressVars == <<pushed, hooks, queued, auto>>
brokerVars  == <<sourceHead, rows, headOf, loop, shadow>>
exportVars  == <<archives, manifests>>
workVars    == <<disp, admitted, prepared>>
sdVars      == <<ingressVars, brokerVars, exportVars, workVars, expiries, sdFaults>>

\* whether accepted heads of the project are deployed without being asked for
InstalledPolicies == BOOLEAN

Seqs == 1..(MaxPushes + MaxExpiries)
NoRow == 0

SdFault == sdFaults < DeliveryFaults /\ sdFaults' = sdFaults + 1

DeliveryInit ==
  /\ pushed = 0 /\ hooks = {} /\ queued = {}
  /\ auto \in InstalledPolicies
  /\ sourceHead = [at |-> 0, seq |-> 0, expired |-> FALSE]
  /\ rows = [s \in Seqs |-> "none"]
  /\ archives = {} /\ manifests = {}
  /\ headOf = [s \in Seqs |-> 0]
  /\ loop = "idle" /\ shadow = "idle"
  /\ disp = [at |-> "poll", row |-> NoRow]
  /\ admitted = {} /\ prepared = [opened |-> {}, failed |-> {}]
  /\ expiries = 0 /\ sdFaults = 0

\* the server is down, not this peer's, at its connection limit or out of time
NotReached(idle, failed) == SdFault /\ idle /\ failed

\* the request took effect and the client never learns of it
AnswerLost(acts, failed) == SdFault /\ acts /\ failed

\* one exchange of a client with a server of the broker
Exchange(acts, idle, ok, failed) ==
  \/ acts /\ ok /\ UNCHANGED sdFaults
  \/ NotReached(idle, failed)
  \/ AnswerLost(acts, failed)

-----------------------------------------------------------------------------
(* From GitHub to the queue                                                  *)

Push ==
  /\ pushed < MaxPushes
  /\ pushed' = pushed + 1
  /\ hooks' = hooks \cup {pushed + 1}
  /\ UNCHANGED <<queued, auto, brokerVars, exportVars, workVars, expiries, sdFaults>>

\* GitHub gives a webhook up after failed attempts
DropHook(h) ==
  /\ h \in hooks /\ SdFault
  /\ hooks' = hooks \ {h}
  /\ UNCHANGED <<pushed, queued, auto, brokerVars, exportVars, workVars, expiries>>

\* the broker queues a webhook once: it is a duplicate when its answer was lost
enqueue_github_push(h) == queued' = IF h > sourceHead.at THEN queued \cup {h} ELSE queued

github_push(h) ==
  /\ h \in hooks
  /\ Exchange(enqueue_github_push(h), UNCHANGED queued,
              hooks' = hooks \ {h}, UNCHANGED hooks)
  /\ UNCHANGED <<pushed, auto, brokerVars, exportVars, workVars, expiries>>

-----------------------------------------------------------------------------
(* The broker's loop of the project                                          *)

\* an accepted head is signed under the next sequence and, with automatic deploys,
\* its row takes the place of a pending older one
Accept(h) ==
  LET s == sourceHead.seq + 1 IN
  /\ s \in Seqs
  /\ sourceHead' = [at |-> h, seq |-> s, expired |-> FALSE]
  /\ headOf' = [headOf EXCEPT ![s] = h]
  /\ rows' = [t \in Seqs |->
                IF t = s /\ auto THEN "pending"
                ELSE IF rows[t] = "pending" THEN "superseded" ELSE rows[t]]

\* a head that is accepted already is signed again only if it expired undelivered,
\* or for a shadow run
Refreshes(forShadow) ==
  sourceHead.at > 0 /\ sourceHead.expired /\ (IF auto THEN rows[sourceHead.seq] # "delivered" ELSE forShadow)

ObserveHead(forShadow) ==
  IF pushed > sourceHead.at \/ (pushed > 0 /\ Refreshes(forShadow))
  THEN Accept(pushed) ELSE UNCHANGED <<sourceHead, headOf, rows>>

\* archive, then the manifest that names its digest; an archive without its manifest
\* is taken over, a whole publication is only read again
ManifestOf(s) == [sourceHead |-> headOf[s], seq |-> s]

ExportPublished(s) == s \in Seqs /\ ManifestOf(s) \in manifests /\ s \in archives

\* the project's loop waits for a webhook or its tick
LoopIdle == loop = "idle"

\* webhooks are served by one fetch; what they announce is accepted, then exported
drain_project_webhook_batch ==
  /\ LoopIdle /\ queued # {}
  /\ ObserveHead(FALSE)
  /\ queued' = {h \in queued : h > pushed}
  /\ loop' = "export"
  /\ UNCHANGED <<pushed, hooks, auto, shadow, exportVars, workVars, expiries, sdFaults>>

\* reconciliation that exports only what it has just accepted
ReconcileWhenNewer ==
  /\ LoopIdle /\ queued = {} /\ pushed > 0
  /\ pushed > sourceHead.at \/ Refreshes(FALSE)
  /\ ObserveHead(FALSE)
  /\ loop' = "export"
  /\ UNCHANGED <<ingressVars, shadow, exportVars, workVars, expiries, sdFaults>>

\* the loop's tick, and the start of the broker; a tick with nothing to do is left out
reconcile_project ==
  /\ LoopIdle /\ queued = {} /\ pushed > 0
  /\ pushed > sourceHead.at \/ Refreshes(FALSE) \/ ~ ExportPublished(sourceHead.seq)
  /\ ObserveHead(FALSE)
  /\ loop' = "export"
  /\ UNCHANGED <<ingressVars, shadow, exportVars, workVars, expiries, sdFaults>>

write_archive(s) ==
  /\ s \notin archives
  /\ archives' = archives \cup {s} /\ UNCHANGED manifests

write_manifest(s) ==
  /\ s \in archives /\ ManifestOf(s) \notin manifests
  /\ manifests' = manifests \cup {ManifestOf(s)} /\ UNCHANGED archives

PublishStep(s) == write_archive(s) \/ write_manifest(s)

publish_source_export ==
  /\ loop = "export"
  /\ IF sourceHead.at = 0 \/ ExportPublished(sourceHead.seq)
     THEN loop' = "idle" /\ UNCHANGED exportVars
     ELSE PublishStep(sourceHead.seq) /\ UNCHANGED loop
  /\ UNCHANGED <<ingressVars, sourceHead, rows, headOf, shadow, workVars, expiries, sdFaults>>

\* the export fails: the loop logs it and waits for a webhook or its next tick
ExportFails ==
  /\ loop = "export" /\ SdFault
  /\ loop' = "idle"
  /\ UNCHANGED <<ingressVars, sourceHead, rows, headOf, shadow, exportVars, workVars, expiries>>

\* queued webhooks and the outbox are durable; the loop starts from reconciliation
BrokerRestarts ==
  /\ SdFault
  /\ loop' = "idle" /\ shadow' = "idle"
  /\ UNCHANGED <<ingressVars, sourceHead, rows, headOf, exportVars, workVars, expiries>>

AttestationExpires ==
  /\ expiries < MaxExpiries /\ sourceHead.seq > 0 /\ ~ sourceHead.expired
  /\ expiries' = expiries + 1
  /\ sourceHead' = [sourceHead EXCEPT !.expired = TRUE]
  /\ UNCHANGED <<ingressVars, rows, headOf, loop, shadow, exportVars, workVars, sdFaults>>

-----------------------------------------------------------------------------
(* The dispatcher                                                            *)

PendingRows == {s \in Seqs : rows[s] = "pending"}

Fresh(s) == s = sourceHead.seq => ~ sourceHead.expired

\* the oldest pending row is offered
pending ==
  /\ disp.at = "poll" /\ PendingRows # {}
  /\ \/ disp' = [at |-> "admit", row |-> CHOOSE s \in PendingRows : \A t \in PendingRows : s <= t]
        /\ UNCHANGED sdFaults
     \/ SdFault /\ UNCHANGED disp
  /\ UNCHANGED <<ingressVars, brokerVars, exportVars, admitted, prepared, expiries>>

\* acknowledged as soon as it is read
AcknowledgeFirst ==
  /\ disp.at = "admit"
  /\ IF rows[disp.row] = "pending"
     THEN rows' = [rows EXCEPT ![disp.row] = "delivered"] /\ UNCHANGED <<disp, admitted>>
     ELSE /\ disp' = [at |-> "poll", row |-> NoRow] /\ UNCHANGED rows
          /\ admitted' = IF Fresh(disp.row) /\ \A s \in admitted : s <= disp.row
                         THEN admitted \cup {disp.row} ELSE admitted
  /\ UNCHANGED <<ingressVars, sourceHead, headOf, loop, shadow, exportVars, prepared, expiries, sdFaults>>

\* the verifier refuses an expired attestation, and the row is tried again later; the
\* scheduler takes a delivery once and refuses one older than it has
admit ==
  /\ disp.at = "admit"
  /\ IF ~ Fresh(disp.row)
     THEN disp' = [at |-> "poll", row |-> NoRow] /\ UNCHANGED admitted
     ELSE /\ disp' = [disp EXCEPT !.at = "acknowledge"]
          /\ admitted' = IF \A s \in admitted : s <= disp.row THEN admitted \cup {disp.row}
                         ELSE admitted
  /\ UNCHANGED <<ingressVars, brokerVars, exportVars, prepared, expiries, sdFaults>>

\* the scheduler's store or the dispatcher fails: nothing was admitted
DispatcherFails ==
  /\ disp.at # "poll" /\ SdFault
  /\ disp' = [at |-> "poll", row |-> NoRow]
  /\ UNCHANGED <<ingressVars, brokerVars, exportVars, admitted, prepared, expiries>>

Settle(s) == rows' = [rows EXCEPT ![s] = IF @ = "pending" THEN "delivered" ELSE @]

acknowledge ==
  /\ disp.at = "acknowledge"
  /\ disp' = [at |-> "poll", row |-> NoRow]
  /\ Exchange(Settle(disp.row), UNCHANGED rows, TRUE, TRUE)
  /\ UNCHANGED <<ingressVars, sourceHead, headOf, loop, shadow, exportVars, admitted, prepared, expiries>>

-----------------------------------------------------------------------------
(* Shadow runs of a project that does not deploy automatically               *)

\* the broker refreshes the head and exports it before it hands out the entry
current_shadow_entry ==
  /\ ~ auto /\ pushed > 0
  /\ \/ /\ shadow = "idle" /\ sourceHead.seq \notin admitted
        /\ ObserveHead(TRUE) /\ shadow' = "export" /\ UNCHANGED exportVars
     \/ /\ shadow = "export"
        /\ IF ExportPublished(sourceHead.seq) THEN shadow' = "offer" /\ UNCHANGED exportVars
           ELSE PublishStep(sourceHead.seq) /\ UNCHANGED shadow
        /\ UNCHANGED <<sourceHead, headOf, rows>>
  /\ UNCHANGED <<ingressVars, loop, workVars, expiries, sdFaults>>

\* the entry is read from the ledger as it is after the export
admit_shadow ==
  /\ shadow = "offer"
  /\ shadow' = "idle"
  /\ admitted' = IF ~ sourceHead.expired /\ \A s \in admitted : s <= sourceHead.seq
                 THEN admitted \cup {sourceHead.seq} ELSE admitted
  /\ UNCHANGED <<ingressVars, sourceHead, rows, headOf, loop, exportVars, disp, prepared, expiries, sdFaults>>

-----------------------------------------------------------------------------
(* The worker                                                                *)

\* the newest attempt's source is opened by head, sequence and attestation
exact(s) == ExportPublished(s)

\* an archive that is not there yet fails the attempt, and nothing runs it again
prepare_source ==
  /\ \E s \in admitted \ (prepared.opened \cup prepared.failed) :
       /\ \A t \in admitted : t <= s
       /\ prepared' = IF exact(s) THEN [prepared EXCEPT !.opened = @ \cup {s}]
                      ELSE [prepared EXCEPT !.failed = @ \cup {s}]
  /\ UNCHANGED <<ingressVars, brokerVars, exportVars, disp, admitted, expiries, sdFaults>>

DeliveryNext ==
  \/ Push
  \/ \E h \in 1..MaxPushes : DropHook(h) \/ github_push(h)
  \/ drain_project_webhook_batch \/ reconcile_project \/ publish_source_export
  \/ ExportFails \/ BrokerRestarts \/ AttestationExpires
  \/ pending \/ admit \/ DispatcherFails \/ acknowledge
  \/ current_shadow_entry \/ admit_shadow
  \/ prepare_source

\* the loop, its tick and the dispatcher's poll run on timers; systemd restarts both
DeliveryFairness ==
  /\ WF_sdVars(drain_project_webhook_batch) /\ WF_sdVars(reconcile_project)
  /\ WF_sdVars(publish_source_export)
  /\ WF_sdVars(pending) /\ WF_sdVars(admit) /\ WF_sdVars(acknowledge)

DeliverySpec == DeliveryInit /\ [][DeliveryNext]_sdVars
FairDeliverySpec == DeliverySpec /\ DeliveryFairness

-----------------------------------------------------------------------------

\* An outbox row the broker takes as delivered is one the scheduler has an attempt
\* for, or a newer one, whatever answers were lost and whoever died: drain_cycle
\* acknowledges only what it has admitted, and admission is idempotent.
DeliveredIsAdmitted ==
  \A s \in Seqs : rows[s] = "delivered" => \E t \in admitted : t >= s

\* With automatic deploys the newest pushed head is in the end an attempt of the
\* scheduler whose exact source archive is published, also when its webhook was
\* lost, its attestation expired undelivered, its export failed after the head was
\* accepted or the answer to its acknowledgement never came.
NewestHeadIsDelivered ==
  auto => <>[](pushed > 0 => \E s \in admitted : headOf[s] = pushed /\ exact(s))
=============================================================================
