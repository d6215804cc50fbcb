---------------------------- MODULE NativeRelease ----------------------------
(***************************************************************************)
(* The Titanium registry, a store of immutable trees kept alive by roots,    *)
(* and the activator that makes one of its releases the one a native service *)
(* runs. The registry is behind one lock, but it is written file by file and *)
(* a publisher may die between two files; garbage collection may run between *)
(* any two steps of an activation. The activator keeps a journal outside the *)
(* registry, so the two are never written together: it switches the link,    *)
(* restarts, probes, moves the roots, removes the journal and only then the  *)
(* roots that protected the candidate.                                       *)
(***************************************************************************)
EXTENDS Naturals, FiniteSets

CONSTANTS
  NativeReleases,   \* release artifacts of the project
  RuntimeLibs,      \* runtime artifacts they depend on
  DependsOn,        \* DependsOn[x]: what artifact x depends on, itself or through a library
  NoArtifact,       \* no artifact: a root or a link that does not exist
  NatMaxFaults      \* bound: crashes

Artifacts == NativeReleases \cup RuntimeLibs

ASSUME NativeAssumption ==
  /\ NativeReleases \cap RuntimeLibs = {} /\ NoArtifact \notin Artifacts
  /\ DependsOn \in [Artifacts -> SUBSET RuntimeLibs]
  /\ \A x \in Artifacts : \A y \in DependsOn[x] : DependsOn[y] \subseteq DependsOn[x]
  /\ NatMaxFaults \in Nat

VARIABLES
  tree,      \* tree[x]: the payload of x: absent, promoted (not yet read-only), sealed
  known,     \* artifacts whose manifest is in the registry
  recipes,   \* releases whose action record is in the registry
  rootOf,    \* the roots with one target: warm, current, lkg, recovery
  candRoots, \* candRoots[r]: the candidate root of r: none, its artifact, its action
  pinned,    \* artifacts active operations pin
  publisher, \* who holds the registry lock to publish, and how far it is
  journaled, \* the activation journal
  view,      \* releases that have a view directory
  served,    \* the link `current`
  runs,      \* the release the service process runs
  act,       \* the activator: idle, or the effects of the phase are (not) done
  natFaults

registry == <<tree, known, recipes, rootOf, candRoots, pinned, publisher>>
managed  == <<journaled, view, served, runs, act>>
natVars  == <<registry, managed, natFaults>>

NoPublisher  == [what |-> NoArtifact, as |-> "none", step |-> "none"]
NoActivation == [cand |-> NoArtifact, prev |-> NoArtifact, phase |-> "none"]

NatInit ==
  /\ tree = [x \in Artifacts |-> "absent"]
  /\ known = {} /\ recipes = {} /\ pinned = {}
  /\ rootOf = [k \in {"warm", "current", "lkg", "recovery"} |-> NoArtifact]
  /\ candRoots = [r \in NativeReleases |-> "none"]
  /\ publisher = NoPublisher
  /\ journaled = NoActivation
  /\ view = {}
  /\ served = NoArtifact /\ runs = NoArtifact
  /\ act = "idle"
  /\ natFaults = 0

NatFault == natFaults < NatMaxFaults /\ natFaults' = natFaults + 1

-----------------------------------------------------------------------------
(* The registry                                                              *)

Unlocked == publisher = NoPublisher

\* a manifest is readable with its payload sealed under it
Readable(x) == x \in known /\ tree[x] = "sealed"

\* the code collects it by following the manifests' references
Closure(x) == {x} \cup DependsOn[x]

WholeClosure(x) == \A y \in Closure(x) : Readable(y)

\* a release's action names its output and the artifacts it was made from
ActionInputs(r) == DependsOn[r]

\* dependencies must be there; a tree that is there and whole is used again,
\* one that an earlier publisher left unsealed is removed and made again
BeginPublish(x, as) ==
  /\ Unlocked
  /\ \A y \in DependsOn[x] : Readable(y)
  /\ publisher' = [what |-> x, as |-> as, step |-> "tree"]
  /\ UNCHANGED <<tree, known, recipes, rootOf, candRoots, pinned, managed, natFaults>>

\* the staged copy is verified and renamed, then made read-only
PromoteTree ==
  /\ publisher.step \in {"tree", "seal"}
  /\ IF tree[publisher.what] = "sealed" /\ publisher.step = "tree"
     THEN publisher' = [publisher EXCEPT !.step = "manifest"] /\ UNCHANGED tree
     ELSE /\ tree' = [tree EXCEPT ![publisher.what] =
                        IF publisher.step = "tree" THEN "promoted" ELSE "sealed"]
          /\ publisher' = [publisher EXCEPT !.step = IF @ = "tree" THEN "seal" ELSE "manifest"]
  /\ UNCHANGED <<known, recipes, rootOf, candRoots, pinned, managed, natFaults>>

PublishManifest ==
  /\ publisher.step = "manifest"
  /\ known' = known \cup {publisher.what}
  /\ publisher' = [publisher EXCEPT !.step = IF publisher.as = "action" THEN "record" ELSE "root"]
  /\ UNCHANGED <<tree, recipes, rootOf, candRoots, pinned, managed, natFaults>>

\* the action record of a release that was built here
PublishAction ==
  /\ publisher.step = "record"
  /\ recipes' = recipes \cup {publisher.what}
  /\ publisher' = [publisher EXCEPT !.step = "root"]
  /\ UNCHANGED <<tree, known, rootOf, candRoots, pinned, managed, natFaults>>

\* a candidate root is written once: the same release published another way is
\* refused with the root as it is, and the publication ends
CandidateRoot(r, as) ==
  candRoots' = [candRoots EXCEPT ![r] = IF @ = "none" THEN as ELSE @]

\* the root is the last file of a publication: a warm name is simply taken over
PublishRoot ==
  /\ publisher.step = "root"
  /\ CASE publisher.as = "warm" ->
            /\ rootOf' = [rootOf EXCEPT !["warm"] = publisher.what]
            /\ UNCHANGED candRoots
       [] publisher.as \in {"artifact", "action"} ->
            /\ CandidateRoot(publisher.what, publisher.as)
            /\ UNCHANGED rootOf
  /\ publisher' = NoPublisher
  /\ UNCHANGED <<tree, known, recipes, pinned, managed, natFaults>>

\* a publisher that dies leaves what it wrote, and the lock is free
PublisherDies ==
  /\ ~Unlocked /\ NatFault
  /\ publisher' = NoPublisher
  /\ UNCHANGED <<tree, known, recipes, rootOf, candRoots, pinned, managed>>

\* an active operation pins what it is about to use; unpinned when it is cleaned up
PinActive(x) ==
  /\ Unlocked
  /\ pinned' = IF x \in pinned THEN pinned \ {x} ELSE pinned \cup {x}
  /\ x \notin pinned => WholeClosure(x)
  /\ UNCHANGED <<tree, known, recipes, rootOf, candRoots, publisher, managed, natFaults>>

\* refused while the candidate is being activated
DiscardCandidate(r) ==
  /\ Unlocked /\ candRoots[r] # "none" /\ rootOf["recovery"] # r
  /\ candRoots' = [candRoots EXCEPT ![r] = "none"]
  /\ UNCHANGED <<tree, known, recipes, rootOf, pinned, publisher, managed, natFaults>>

Rooted == ({rootOf[k] : k \in DOMAIN rootOf} \ {NoArtifact})
          \cup {r \in NativeReleases : candRoots[r] = "artifact"} \cup pinned
RootedActions == {r \in NativeReleases : candRoots[r] = "action"}

\* what is reachable from the roots: artifacts, action outputs and inputs, dependencies
Live == UNION {Closure(x) : x \in Rooted \cup RootedActions}
        \cup UNION {ActionInputs(r) : r \in RootedActions}

\* every live manifest must be readable, or nothing is collected; a stray tree
\* that was never sealed stops the sweep after the manifests
CollectGarbage ==
  /\ Unlocked
  /\ \A x \in Live : Readable(x)
  /\ known \ Live # {} \/ \E x \in Artifacts \ Live : tree[x] # "absent"
  /\ known' = known \cap Live
  /\ recipes' = recipes \cap RootedActions
  /\ tree' = IF \E x \in Artifacts \ Live : tree[x] = "promoted" THEN tree
             ELSE [x \in Artifacts |-> IF x \in Live THEN tree[x] ELSE "absent"]
  /\ UNCHANGED <<rootOf, candRoots, pinned, publisher, managed, natFaults>>

-----------------------------------------------------------------------------
(* The activator                                                             *)

Phase  == journaled.phase
Coming == journaled.cand
Going  == journaled.prev

\* the release is whole and of this project and contract
ValidRelease(r) == WholeClosure(r)

\* the links each phase may find, anything else fails closed
AllowedLinks ==
  CASE Phase \in {"prepared", "rollback_switch"} -> {Going, Coming}
    [] Phase \in {"linked", "restarted"}         -> {Coming}
    [] Phase \in {"back_linked", "back_restarted"} -> {Going}
    [] Phase = "reject"                          -> {Coming, NoArtifact}
    [] OTHER                                     -> {}

PrepareViews == view' = view \cup ({Coming, Going} \ {NoArtifact})

\* the recovery root protects the candidate before the journal names it
BeginActivation(r) ==
  /\ Unlocked /\ candRoots[r] # "none" /\ rootOf["recovery"] \in {NoArtifact, r}
  /\ rootOf' = [rootOf EXCEPT !["recovery"] = r]

\* `activate` without a journal; the process may die before the journal is there
StartActivation(r) ==
  /\ act = "idle" /\ Phase = "none" /\ ValidRelease(r)
  /\ BeginActivation(r)
  /\ \/ /\ journaled' = [cand |-> r, prev |-> rootOf["current"], phase |-> "prepared"]
        /\ act' = "open" /\ UNCHANGED natFaults
     \/ NatFault /\ UNCHANGED <<journaled, act>>
  /\ UNCHANGED <<tree, known, recipes, candRoots, pinned, publisher, view, served, runs>>

\* `activate` of the same candidate, or `recover` after a crash or at boot
ResumeActivation ==
  /\ act = "idle" /\ Phase # "none"
  /\ ValidRelease(Coming)
  /\ act' = "open"
  /\ UNCHANGED <<registry, journaled, view, served, runs, natFaults>>

\* views are made or checked, and the link must be one the phase can explain
CheckJournal ==
  /\ act = "open"
  /\ PrepareViews
  /\ act' = IF served \in AllowedLinks THEN "go" ELSE "idle"
  /\ UNCHANGED <<registry, journaled, served, runs, natFaults>>

Move(phase) == journaled' = [journaled EXCEPT !.phase = phase]

\* link, restart and their way back: first the effect, then the journal
SwitchCurrent ==
  /\ act = "go" /\ Phase \in {"prepared", "rollback_switch"}
  /\ served' = IF Phase = "prepared" THEN Coming ELSE Going
  /\ act' = "did"
  /\ UNCHANGED <<registry, journaled, view, runs, natFaults>>

RestartNative ==
  /\ act = "go" /\ Phase \in {"linked", "back_linked"}
  /\ runs' = served
  /\ act' = "did"
  /\ UNCHANGED <<registry, journaled, view, served, natFaults>>

AdvanceJournal ==
  /\ act = "did"
  /\ Move(CASE Phase = "prepared" -> "linked" [] Phase = "linked" -> "restarted"
            [] Phase = "rollback_switch" -> "back_linked" [] OTHER -> "back_restarted")
  /\ act' = "go"
  /\ UNCHANGED <<registry, view, served, runs, natFaults>>

\* an unhealthy candidate goes back, or away if it was the first
ProbeUnhealthy ==
  /\ act = "go" /\ Phase = "restarted"
  /\ Move(IF Going = NoArtifact THEN "reject" ELSE "rollback_switch")
  /\ UNCHANGED <<registry, view, served, runs, act, natFaults>>

CommitCurrentOnly ==   \* mutant: last-known-good is forgotten
  IF rootOf["current"] = Coming THEN UNCHANGED rootOf
  ELSE rootOf' = [rootOf EXCEPT !["current"] = Coming]

\* last-known-good is the previous release, current the candidate; a repeat finds
\* them switched
CommitRoots ==
  IF rootOf["current"] = Coming THEN UNCHANGED rootOf
  ELSE rootOf' = [rootOf EXCEPT !["lkg"] = IF Going = NoArtifact THEN @ ELSE Going,
                                !["current"] = Coming]

CommitActivation ==
  /\ act = "go" /\ Phase = "restarted" /\ Unlocked
  /\ rootOf["recovery"] = Coming /\ rootOf["current"] \in {Coming, Going}
  /\ \/ CommitRoots /\ act' = "ended" /\ UNCHANGED natFaults
     \/ /\ Going # NoArtifact /\ rootOf["current"] # Coming   \* died after the first of two roots
        /\ rootOf' = [rootOf EXCEPT !["lkg"] = Going]
        /\ act' = "idle" /\ NatFault
  /\ UNCHANGED <<tree, known, recipes, candRoots, pinned, publisher, journaled, view,
                 served, runs>>

\* the previous release answers its probe, and the roots never moved
AbortActivation ==
  /\ act = "go" /\ Phase = "back_restarted" /\ Unlocked
  /\ rootOf["recovery"] = Coming /\ rootOf["current"] = Going
  /\ act' = "ended"
  /\ UNCHANGED <<registry, journaled, view, served, runs, natFaults>>

\* the first release was no good: stop, remove the link
RejectFirst ==
  /\ act = "go" /\ Phase = "reject"
  /\ \/ /\ runs # NoArtifact
        /\ runs' = NoArtifact /\ UNCHANGED <<served, act>>
     \/ /\ runs = NoArtifact /\ Unlocked
        /\ served' = NoArtifact
        /\ act' = IF rootOf["recovery"] = Coming /\ rootOf["current"] = Going THEN "ended" ELSE "idle"
        /\ UNCHANGED runs
  /\ UNCHANGED <<registry, journaled, view, natFaults>>

\* the journal goes first ...
RemoveJournal ==
  /\ act = "ended"
  /\ journaled' = NoActivation
  /\ act' = "final"
  /\ UNCHANGED <<registry, view, served, runs, natFaults>>

\* ... and the candidate's roots last: candidate root, then recovery root
FinalizeRoots(r) ==
  /\ candRoots' = [candRoots EXCEPT ![r] = "none"]
  /\ \/ rootOf' = [rootOf EXCEPT !["recovery"] = NoArtifact] /\ UNCHANGED natFaults
     \/ UNCHANGED rootOf /\ NatFault

FinalizeActivation ==
  /\ act = "final" /\ Unlocked
  /\ FinalizeRoots(rootOf["recovery"])
  /\ act' = "idle"
  /\ UNCHANGED <<tree, known, recipes, pinned, publisher, journaled, view, served, runs>>

\* `recover` without a journal but with a recovery root: committed or never begun
RecoverRoots ==
  /\ act = "idle" /\ Phase = "none" /\ rootOf["recovery"] # NoArtifact /\ Unlocked
  /\ ValidRelease(rootOf["recovery"])
  /\ served = rootOf["current"]
  /\ view' = IF rootOf["current"] = rootOf["recovery"] THEN view \cup {rootOf["current"]} ELSE view
  /\ FinalizeRoots(rootOf["recovery"])
  /\ UNCHANGED <<tree, known, recipes, pinned, publisher, journaled, served, runs, act>>

\* views of the current and the last-known-good release stay
CollectViews ==
  /\ act = "idle" /\ Phase = "none"
  /\ served = rootOf["current"]
  /\ LET keep == {rootOf["current"], rootOf["lkg"]} \ {NoArtifact}
     IN (\A x \in keep : WholeClosure(x)) /\ view' = keep
  /\ UNCHANGED <<registry, journaled, served, runs, act, natFaults>>

ActivatorDies ==
  /\ act # "idle" /\ NatFault
  /\ act' = "idle"
  /\ UNCHANGED <<registry, journaled, view, served, runs>>

\* the service exits and is started again through the link
ServiceExits ==
  /\ runs # NoArtifact /\ runs # served
  /\ runs' = served
  /\ UNCHANGED <<registry, journaled, view, served, act, natFaults>>

NatNext ==
  \/ \E x \in RuntimeLibs : BeginPublish(x, "warm") \/ PinActive(x)
  \/ \E r \in NativeReleases : \/ \E as \in {"artifact", "action"} : BeginPublish(r, as)
                               \/ DiscardCandidate(r) \/ StartActivation(r)
  \/ PromoteTree \/ PublishManifest \/ PublishAction \/ PublishRoot \/ PublisherDies
  \/ CollectGarbage
  \/ ResumeActivation \/ CheckJournal \/ SwitchCurrent \/ RestartNative \/ AdvanceJournal
  \/ ProbeUnhealthy \/ CommitActivation \/ AbortActivation \/ RejectFirst
  \/ RemoveJournal \/ FinalizeActivation \/ RecoverRoots \/ CollectViews
  \/ ActivatorDies \/ ServiceExits

NatSpec == NatInit /\ [][NatNext]_natVars

-----------------------------------------------------------------------------
(* Properties                                                                *)

\* What is served is whole: the release the link names has its view, and the
\* release the link names and the one the process still runs have their payload,
\* manifest and every runtime dependency in the registry - whichever publisher,
\* activator or collector died or ran in between (collect_garbage, resume,
\* finalize_release_activation, collect_unreferenced_views).
ServedIsWhole ==
  /\ served # NoArtifact => served \in view
  /\ \A r \in {served, runs} \ {NoArtifact} : WholeClosure(r)

\* deploy/systemd/README.md: "Every phase is replayable after a crash": a journal
\* that stands in a rollback phase can still finish, which needs the registry's
\* current release to be the one the rollback returns to.
RollbackReplayable ==
  Phase \in {"rollback_switch", "back_linked", "back_restarted", "reject"} => rootOf["current"] = Going
=============================================================================
