------------------------------ MODULE MCNotices ------------------------------
(***************************************************************************)
(* What must arrive: the newest source head at the scheduler, and a notice   *)
(* at the owner.  The two share no state; the first state chooses which of   *)
(* them moves, and nothing of the other one is enabled in its first state.   *)
(* The outbox is checked twice: with more notices than it holds, one wording *)
(* and a single fault, and with one notice, every wording and every fault.   *)
(***************************************************************************)
EXTENDS SourceDelivery, NotificationOutbox

VARIABLE mover

Crowd  == notifyFaults <= 1 /\ \A n \in Notices : HasRow(n) => notices[n].text = "a"
Single == \A n \in Notices \ {1} : ~HasRow(n)

MCInit ==
  /\ DeliveryInit /\ NotifyInit
  /\ mover \in {"delivery", "crowd", "single"}
  /\ mover = "delivery" => \A n \in Notices : ~HasRow(n)
  /\ mover # "delivery" => auto
  /\ mover # "delivery" => Single
  /\ mover = "crowd" => Crowd

MCNext ==
  /\ UNCHANGED mover
  /\ \/ mover = "delivery" /\ DeliveryNext /\ UNCHANGED notifyVars
     \/ mover = "crowd" /\ NotifyNext /\ Crowd' /\ UNCHANGED sdVars
     \/ mover = "single" /\ NotifyNext /\ Single' /\ UNCHANGED sdVars

MCSpec ==
  /\ MCInit /\ [][MCNext]_<<sdVars, notifyVars, mover>>
  /\ DeliveryFairness /\ NotifyFairness
=============================================================================
