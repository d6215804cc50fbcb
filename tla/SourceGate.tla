------------------------------ MODULE SourceGate ------------------------------
(***************************************************************************)
(* What the source broker promises the executor: the accepted head of a     *)
(* project only moves forward, one sequence number at a time, and never      *)
(* while an operation holds a mutation ticket for it.  Everything the broker *)
(* does to keep that promise across crashes is in SourceBroker.              *)
(***************************************************************************)
EXTENDS Naturals

CONSTANTS Commits, NoCommit, Attempts, NoAttempt, Before

VARIABLES
  head,      \* the accepted head
  sequence,  \* how many heads were accepted
  holder     \* the attempt that holds the mutation ticket

gateVars == <<head, sequence, holder>>

GateInit ==
  /\ head = NoCommit
  /\ sequence = 0
  /\ holder = NoAttempt

(* A head is replaced by a descendant, or accepted anew under a new number.    *)
Advance(c) ==
  /\ holder = NoAttempt
  /\ head \in {NoCommit, c} \/ <<head, c>> \in Before
  /\ head' = c
  /\ sequence' = sequence + 1
  /\ UNCHANGED holder

(* Only an operation on an accepted head can hold it still.                    *)
Hold(a) ==
  /\ holder \in {NoAttempt, a}
  /\ head # NoCommit
  /\ holder' = a
  /\ UNCHANGED <<head, sequence>>

Release ==
  /\ holder' = NoAttempt
  /\ UNCHANGED <<head, sequence>>

GateNext ==
  \/ \E c \in Commits : Advance(c)
  \/ \E a \in Attempts : Hold(a)
  \/ Release

GateSpec == GateInit /\ [][GateNext]_gateVars
=============================================================================
