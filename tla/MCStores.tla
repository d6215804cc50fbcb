------------------------------ MODULE MCStores ------------------------------
(***************************************************************************)
(* What is kept on disk from a push to a build: the broker's ledger and ref,  *)
(* the Git repositories, the preparation store and the image a build hands    *)
(* over.  They meet only through what one has published for the next, so the  *)
(* first state chooses the one that moves and, for the broker, who calls it:  *)
(* their states add up instead of multiplying.                                *)
(***************************************************************************)
EXTENDS SourceBroker, SourceRepository, PreparationStore, ImageHandoff

CONSTANTS root, left, right

VARIABLE mover   \* the component that moves, or the callers of the broker

\* The broker's repository is root <- left and root <- right.
BrokerHistory == {<<root, left>>, <<root, right>>}
Announced == {root, left}
Pushed == {<<root, left>>, <<right, root>>}
OwnerChoices == {<<left, FALSE>>, <<NoCommit, TRUE>>}
TwoPolicies ==
  {[version |-> 1, auto |-> TRUE, repo |-> 1], [version |-> 2, auto |-> FALSE, repo |-> 2]}

\* "lock": the broker's lock may be replaced under a running broker.
Situations ==
  {{"policy", "direct", "world"}, {"lock", "operate", "direct"},
   {"push", "world"}, {"operate", "dispatch", "world"}}

\* Two projects' repositories, one of which moves forward.
MCCommitsOf == [p |-> {"c1", "d2", "d3"}, q |-> {"e1"}]
MCParentsOf == [c1 |-> {}, d2 |-> {"c1"}, d3 |-> {"d2"}, e1 |-> {}]

\* Two preparations share their dependencies and nothing else.
MCKeyOf ==
  [t \in Preps |->
     [source |-> <<t, "source">>, deps |-> <<"all", "deps">>, run |-> <<t, "run">>]]

MCInit ==
  /\ Init /\ RepoInit /\ PrepInit /\ HandoffInit
  /\ mover \in Situations \cup {{"repository"}, {"preparation"}, {"handoff"}}

Uses(caller) == caller \in mover

BrokerNext ==
  /\ \/ \E e \in Epochs :
          \/ /\ Uses("lock") \/ \A d \in Epochs : broker[d].pc = "down"
             /\ \E policy \in Policies :
                  /\ Uses("policy") \/ policy.version = 1
                  /\ AcquireBrokerLease(e, policy)
          \/ Recover(e) \/ Step(e) \/ Reconcile(e) \/ CallFails(e) \/ Crash(e)
          \/ Uses("push") /\ (ReceivePush(e) \/ ProcessPendingGithubPushes(e))
          \/ Uses("direct") /\ ReceiveDirect(e)
          \/ Uses("dispatch") /\ Dispatch(e)
          \/ Uses("operate") /\ Operate(e)
     \/ Uses("world") /\ World
  /\ Uses("push") => faults' + tampers' + moves' < MaxInterference

MCNext ==
  /\ UNCHANGED mover
  /\ \/ mover \in Situations /\ BrokerNext /\ UNCHANGED <<repoVars, prepVars, handoffVars>>
     \/ Uses("repository") /\ RepoNext /\ UNCHANGED <<vars, prepVars, handoffVars>>
     \/ Uses("preparation") /\ PrepNext /\ UNCHANGED <<vars, repoVars, handoffVars>>
     \/ Uses("handoff") /\ HandoffNext /\ UNCHANGED <<vars, repoVars, prepVars>>

MCSpec == MCInit /\ [][MCNext]_<<vars, repoVars, prepVars, handoffVars, mover>>
=============================================================================
