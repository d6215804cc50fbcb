-------------------------- MODULE NotificationOutbox --------------------------
(***************************************************************************)
(* The notifier service: the controller enqueues notification events over a  *)
(* socket into a durable outbox; one courier loop claims the oldest row that *)
(* is due, submits it to the Telegram gateway or polls the message it was    *)
(* accepted as, and completes the claim. The gateway is a remote service: a  *)
(* submission may be accepted although the answer is lost, and the process   *)
(* may die between the call and the row that records it. Delivery is at      *)
(* least once, and the outbox has to know when it may be more than once.     *)
(* Times are abstracted to whether a retry is due and whether a lease has    *)
(* lapsed; an event's number is its place in the order of creation.          *)
(***************************************************************************)
EXTENDS Naturals, Sequences, FiniteSets

CONSTANTS
  Notices,        \* deduplication keys, numbered in the order of creation
  Texts,          \* what an event of one key may say
  OutboxLimit,    \* rows the outbox holds (MAX_OUTBOX_ROWS)
  NotifyMaxFaults \* bound: crashes, lost answers and refusals

ASSUME NotifyAssumption ==
  /\ Notices \subseteq Nat /\ IsFiniteSet(Notices)
  /\ OutboxLimit \in Nat \ {0} /\ NotifyMaxFaults \in Nat

VARIABLES
  notices,      \* notices[n]: the row of key n, or NoNotice
  courier,      \* the delivery loop and the claim it works on
  messages,     \* messages[n]: state of each message the gateway made of key n
  veiled,       \* history: keys the gateway took although it answered 408 or 5xx
  notifyFaults

notifyVars == <<notices, courier, messages, veiled, notifyFaults>>

NoNotice  == [state |-> "none"]
NoMessage == 0

Settled == {"delivered", "delivered_possible_duplicate", "permanently_failed"}
Waiting == {"pending", "delivery_unknown", "retry_scheduled"}

\* a row as the schema's CHECK clauses allow it
NoticeRow(text, state, due, provider, dup, error) ==
  [text |-> text, state |-> state, due |-> due, provider |-> provider,
   dup |-> dup, error |-> error, lapsed |-> FALSE, copied |-> FALSE]

IdleCourier == [at |-> "idle", key |-> 0, provider |-> NoMessage, dup |-> FALSE, answer |-> "none"]

NotifyFault == notifyFaults < NotifyMaxFaults /\ notifyFaults' = notifyFaults + 1

\* a row of the version 1 schema, its error code copied with it
MigratedState(old) ==
  CASE old = "pending"           -> "pending"
    [] old = "leased"            -> "sending"
    [] old = "ambiguous"         -> "delivery_unknown"
    [] old = "retryable_failure" -> "retry_scheduled"
    [] old = "delivered"         -> "delivered"
    [] old = "permanent_failure" -> "permanently_failed"

MigrateV1(text, old) ==
  [NoticeRow(text, MigratedState(old.state), old.state = "pending", old.provider,
             old.state = "ambiguous", old.code # "none") EXCEPT !.copied = TRUE]

\* the rows version 1 could leave, and the messages the gateway had made of each
VersionOneRows ==
  LET Row(state, provider, codes, made) ==
        [state : {state}, provider : {provider}, code : codes, made : made]
      Open  == <<"pending">>
      Codes == {"none", "failed"}
  IN Row("pending", NoMessage, {"none"}, {<<>>})
     \cup Row("leased", NoMessage, Codes, {<<>>, Open}) \cup Row("leased", 1, Codes, {Open})
     \cup Row("ambiguous", NoMessage, {"failed"}, {<<>>, Open})
     \cup Row("retryable_failure", NoMessage, {"failed"}, {<<>>})
     \cup Row("retryable_failure", 1, {"failed"}, {Open})
     \cup Row("delivered", 1, {"none"}, {<<"sent">>})
     \cup Row("permanent_failure", NoMessage, {"failed"}, {<<>>})

NotifyInit ==
  /\ \/ notices = [n \in Notices |-> NoNotice] /\ messages = [n \in Notices |-> <<>>]
     \/ \E m \in Notices, t \in Texts, old \in VersionOneRows :
          /\ notices = [n \in Notices |-> IF n = m THEN MigrateV1(t, old) ELSE NoNotice]
          /\ messages = [n \in Notices |-> IF n = m THEN old.made ELSE <<>>]
  /\ courier = IdleCourier /\ veiled = {} /\ notifyFaults = 0

(***************************************************************************)
(* The socket.                                                              *)
(***************************************************************************)
HasRow(n) == notices[n] # NoNotice
RowCount  == Cardinality({n \in Notices : HasRow(n)})

\* the key names the occurrence, not its wording: an event of one key may say two things
SameEvent(n, t) == notices[n].text = t

\* a repeated call is answered from the row: a key that is there already is answered Duplicate, or conflicts when its event differs
EnqueueResult(n, t) ==
  CASE HasRow(n) /\ SameEvent(n, t)  -> "duplicate"
    [] HasRow(n) /\ ~SameEvent(n, t) -> "conflict"
    [] ~HasRow(n) /\ RowCount >= OutboxLimit -> "full"
    [] OTHER -> "inserted"

Enqueue(n, t) ==
  LET result == EnqueueResult(n, t) IN
  /\ notices' = IF result = "inserted"
                THEN [notices EXCEPT ![n] =
                        NoticeRow(t, "pending", TRUE, NoMessage, FALSE, FALSE)]
                ELSE notices
  /\ UNCHANGED <<courier, messages, veiled, notifyFaults>>

NotifierListens == courier.at # "down"

\* the controller's call; an answer that is lost leaves it free to call again
ControllerCalls(n, t) == NotifierListens /\ Enqueue(n, t)

(***************************************************************************)
(* Claims.                                                                  *)
(***************************************************************************)
ClaimableOnlyWaiting(n) == HasRow(n) /\ notices[n].state \in Waiting /\ notices[n].due

Claimable(n) ==
  /\ HasRow(n)
  /\ \/ notices[n].state \in Waiting /\ notices[n].due
     \/ notices[n].state = "sending" /\ notices[n].lapsed

Oldest(n) == Claimable(n) /\ \A m \in Notices : Claimable(m) => n <= m

\* a row found in sending without a message may have been submitted by a process that died
PossibleDuplicateIgnoringCrash(n) == notices[n].dup

PossibleDuplicate(n) ==
  notices[n].dup \/ (notices[n].state = "sending" /\ notices[n].provider = NoMessage)

ClaimNextKeepingError(n) ==
  LET dup == PossibleDuplicate(n) IN
  /\ courier.at = "idle" /\ Oldest(n)
  /\ notices' = [notices EXCEPT ![n].state = "sending", ![n].dup = dup,
                                ![n].due = FALSE, ![n].lapsed = FALSE, ![n].copied = FALSE]
  /\ courier' = [at |-> "claimed", key |-> n, provider |-> notices[n].provider,
                 dup |-> dup, answer |-> "none"]
  /\ UNCHANGED <<messages, veiled, notifyFaults>>

ClaimNext(n) ==
  LET dup == PossibleDuplicate(n) IN
  /\ courier.at = "idle" /\ Oldest(n)
  /\ notices' = [notices EXCEPT ![n].state = "sending", ![n].dup = dup, ![n].error = FALSE,
                                ![n].due = FALSE, ![n].lapsed = FALSE, ![n].copied = FALSE]
  /\ courier' = [at |-> "claimed", key |-> n, provider |-> notices[n].provider,
                 dup |-> dup, answer |-> "none"]
  /\ UNCHANGED <<messages, veiled, notifyFaults>>

(***************************************************************************)
(* The gateway's answers. It may or may not recognise a key it has seen.     *)
(***************************************************************************)
Answered(a) == courier' = [courier EXCEPT !.at = "answered", !.answer = a]

GatewayTakes(n, id) ==
  \/ messages[n] # <<>> /\ id \in DOMAIN messages[n] /\ UNCHANGED messages
  \/ id = Len(messages[n]) + 1 /\ messages' = [messages EXCEPT ![n] = Append(@, "pending")]

\* accepted, and the answer arrives
SubmitAccepted ==
  \E id \in 1..(Len(messages[courier.key]) + 1) :
     /\ GatewayTakes(courier.key, id)
     /\ courier' = [courier EXCEPT !.at = "answered", !.answer = "accepted", !.provider = id]
     /\ UNCHANGED <<veiled, notifyFaults>>

\* the gateway, or a proxy before it, took the message or did not, and nobody can tell
TakenOrNot ==
  \/ UNCHANGED messages
  \/ \E id \in 1..(Len(messages[courier.key]) + 1) : GatewayTakes(courier.key, id)

\* a transport error or an unreadable body
SubmitUnknown == NotifyFault /\ Answered("unknown") /\ TakenOrNot /\ UNCHANGED veiled

\* 408 and 5xx: a timeout or an error behind the door, answered as if nothing was taken
SubmitServerError ==
  /\ NotifyFault /\ Answered("retryable")
  /\ \/ UNCHANGED <<messages, veiled>>
     \/ /\ \E id \in 1..(Len(messages[courier.key]) + 1) : GatewayTakes(courier.key, id)
        /\ veiled' = veiled \cup {courier.key}

\* 429 and the refusals: the gateway says it did not take it
SubmitRefused ==
  /\ NotifyFault /\ UNCHANGED <<messages, veiled>>
  /\ Answered("retryable") \/ Answered("permanent")

Submit ==
  /\ courier.at = "claimed" /\ courier.provider = NoMessage
  /\ SubmitAccepted \/ SubmitUnknown \/ SubmitServerError \/ SubmitRefused
  /\ UNCHANGED notices

GatewayStatus(state) ==
  CASE state = "pending" -> "retryable"
    [] state = "sent"    -> "sent"
    [] state = "failed"  -> "permanent"

Poll ==
  /\ courier.at = "claimed" /\ courier.provider # NoMessage
  /\ \/ Answered(GatewayStatus(messages[courier.key][courier.provider])) /\ UNCHANGED notifyFaults
     \/ NotifyFault /\ (Answered("retryable") \/ Answered("permanent"))
  /\ UNCHANGED <<notices, messages, veiled>>

(***************************************************************************)
(* Completing a claim.                                                      *)
(***************************************************************************)
\* the row an answer leaves behind
Completed(row) ==
  CASE courier.answer = "accepted" ->
         NoticeRow(row.text, "retry_scheduled", FALSE, courier.provider, courier.dup, TRUE)
    [] courier.answer = "retryable" ->
         NoticeRow(row.text, "retry_scheduled", FALSE, courier.provider, courier.dup, TRUE)
    [] courier.answer = "unknown" ->
         NoticeRow(row.text, "delivery_unknown", FALSE, NoMessage, TRUE, TRUE)
    [] courier.answer = "sent" ->
         NoticeRow(row.text, IF courier.dup THEN "delivered_possible_duplicate" ELSE "delivered",
                   FALSE, courier.provider, courier.dup, FALSE)
    [] courier.answer = "permanent" ->
         NoticeRow(row.text, "permanently_failed", FALSE, courier.provider, courier.dup, TRUE)

\* a claim is completed while its row is still being sent, and as its message allows
MayComplete ==
  /\ notices[courier.key].state = "sending"
  /\ courier.answer = "unknown" => courier.provider = NoMessage
  /\ courier.answer = "sent" => courier.provider # NoMessage

CompleteClaim ==
  /\ courier.at = "answered" /\ MayComplete
  /\ notices' = [notices EXCEPT ![courier.key] = Completed(@)]
  /\ courier' = IdleCourier
  /\ UNCHANGED <<messages, veiled, notifyFaults>>

\* what the dashboard accepts of a row; one row that is not valid fails the project's list
ValidRecord(row) ==
  CASE row.state = "pending" -> row.provider = NoMessage /\ ~row.error
    [] row.state = "sending" -> ~row.error
    [] row.state = "delivery_unknown" -> row.provider = NoMessage /\ row.error
    [] row.state \in {"retry_scheduled", "permanently_failed"} -> row.error
    [] row.state \in {"delivered", "delivered_possible_duplicate"} ->
         row.provider # NoMessage /\ ~row.error

DecodesRow(n) == ValidRecord(notices[n])

project_records == {n \in Notices : HasRow(n)}

(***************************************************************************)
(* The process, its clock and the gateway.                                  *)
(***************************************************************************)
\* any error of the loop ends the process; so do a crash and a stop in mid call
NotifierStops ==
  /\ courier.at # "down" /\ NotifyFault
  /\ courier' = [IdleCourier EXCEPT !.at = "down"]
  /\ UNCHANGED <<notices, messages, veiled>>

NotifierStarts ==
  /\ courier.at = "down" /\ courier' = IdleCourier
  /\ UNCHANGED <<notices, messages, veiled, notifyFaults>>

RetryDue(n) ==
  /\ HasRow(n) /\ notices[n].state \in Waiting /\ ~notices[n].due
  /\ notices' = [notices EXCEPT ![n].due = TRUE]
  /\ UNCHANGED <<courier, messages, veiled, notifyFaults>>

\* the lease of a claim outlasts its call, so only that of a dead process lapses
LeaseLapses(n) ==
  /\ HasRow(n) /\ notices[n].state = "sending" /\ ~notices[n].lapsed
  /\ ~(courier.at \in {"claimed", "answered"} /\ courier.key = n)
  /\ notices' = [notices EXCEPT ![n].lapsed = TRUE]
  /\ UNCHANGED <<courier, messages, veiled, notifyFaults>>

GatewaySettles(n) ==
  \E i \in DOMAIN messages[n], s \in {"sent", "failed"} :
     /\ messages[n][i] = "pending"
     /\ messages' = [messages EXCEPT ![n][i] = s]
     /\ UNCHANGED <<notices, courier, veiled, notifyFaults>>

NotifyNext ==
  \/ \E n \in Notices, t \in Texts : ControllerCalls(n, t)
  \/ \E n \in Notices : ClaimNext(n) \/ RetryDue(n) \/ LeaseLapses(n) \/ GatewaySettles(n)
  \/ Submit \/ Poll \/ CompleteClaim \/ NotifierStops \/ NotifierStarts

\* the loop, its timers and the service manager go on, and the gateway settles what it took
NotifyFairness ==
  /\ \A n \in Notices : WF_notifyVars(ClaimNext(n)) /\ WF_notifyVars(RetryDue(n))
                        /\ WF_notifyVars(LeaseLapses(n)) /\ WF_notifyVars(GatewaySettles(n))
  /\ WF_notifyVars(Submit) /\ WF_notifyVars(Poll)
  /\ WF_notifyVars(CompleteClaim) /\ WF_notifyVars(NotifierStarts)

NotifySpec     == NotifyInit /\ [][NotifyNext]_notifyVars
FairNotifySpec == NotifySpec /\ NotifyFairness

(***************************************************************************)
(* Properties.                                                              *)
(***************************************************************************)
\* A row that is not flagged as a possible duplicate stands for at most one message of the
\* gateway, and one recorded as plainly delivered for exactly one: whatever call broke off or
\* process died in between, the flag is never lost on the way. The exception is a submission
\* that was taken and answered 408 or 5xx, which the code retries as if it had been refused.
DuplicatesAreFlagged ==
  \A n \in Notices \ veiled : HasRow(n) /\ notices[n].state # "sending" /\ ~notices[n].dup =>
    /\ Len(messages[n]) <= 1
    /\ notices[n].state = "delivered" => messages[n] = <<"sent">>

\* A row that says delivered, with the flag or without it, names a message of its own key
\* that the gateway did send, however often the event was submitted before.
DeliveredWasSent ==
  \A n \in Notices :
    HasRow(n) /\ notices[n].state \in {"delivered", "delivered_possible_duplicate"} =>
      /\ notices[n].provider \in DOMAIN messages[n]
      /\ messages[n][notices[n].provider] = "sent"

\* Whatever a claim, an answer or a restart left in the outbox, the project's list of
\* notifications can be read: no row has a shape that the record contract refuses. Only a
\* row that version 1 was sending when it was migrated may be refused, until it is claimed.
ListIsReadable ==
  \A n \in project_records :
    DecodesRow(n) \/ (notices[n].copied /\ notices[n].state = "sending")

\* What the owner reads is true and can be read.
OutboxIsHonest == DuplicatesAreFlagged /\ DeliveredWasSent /\ ListIsReadable

\* What PLAN.md:767 and 774 say and the code does not do: a row recorded as plainly delivered
\* stands for one message, whatever answer followed the acceptance of an earlier submission.
AmbiguousIsFlagged ==
  \A n \in Notices : HasRow(n) /\ notices[n].state = "delivered" => messages[n] = <<"sent">>

\* An event the outbox took is eventually delivered or given up on with a reason, as the
\* event it was first enqueued as, whatever crashes come between a claim and its completion.
EveryNoticeSettles ==
  \A n \in Notices : \A t \in Texts :
    (HasRow(n) /\ notices[n].text = t)
      ~> (HasRow(n) /\ notices[n].text = t /\ notices[n].state \in Settled)
================================================================================
