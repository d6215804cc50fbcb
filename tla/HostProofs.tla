------------------------------ MODULE HostProofs -------------------------------
(* The host's side: the native releases, the adapters' jobs and the deploy     *)
(* units, for any number of releases, jobs and requests and any number of      *)
(* faults.                                                                     *)
EXTENDS NativeRelease, AdapterJobs, DeployDriver, TLAPS

--------------------------------------------------------------------------------
(* The native releases                                                         *)

NatPhases == {"none", "prepared", "linked", "restarted", "rollback_switch", "back_linked",
              "back_restarted", "reject"}
NatActs   == {"idle", "open", "go", "did", "ended", "final"}
Maybe(S)  == S \cup {NoArtifact}

NatTypeOK ==
  /\ tree \in [Artifacts -> {"absent", "promoted", "sealed"}]
  /\ known \subseteq Artifacts /\ view \subseteq NativeReleases
  /\ pinned \subseteq RuntimeLibs /\ recipes \subseteq NativeReleases
  /\ rootOf \in [{"warm", "current", "lkg", "recovery"} -> Maybe(Artifacts)]
  /\ candRoots \in [NativeReleases -> {"none", "artifact", "action"}]
  /\ publisher \in [what : Maybe(Artifacts), as : {"none", "warm", "artifact", "action"},
                    step : {"none", "tree", "seal", "manifest", "record", "root"}]
  /\ publisher.step # "none" => publisher.what \in Artifacts /\ publisher.as # "none"
  /\ publisher.as \in {"artifact", "action"} => publisher.what \in NativeReleases
  /\ publisher.step = "record" => publisher.as = "action"
  /\ journaled \in [cand : Maybe(NativeReleases), prev : Maybe(NativeReleases),
                    phase : NatPhases]
  /\ served \in Maybe(NativeReleases) /\ runs \in Maybe(NativeReleases)
  /\ act \in NatActs
  /\ natFaults \in Nat

(* The releases the roots of the activator protect are whole.                  *)
ProtectedAreWhole ==
  \A k \in {"current", "lkg", "recovery"} :
    rootOf[k] # NoArtifact => rootOf[k] \in NativeReleases /\ WholeClosure(rootOf[k])

(* Where the roots stand while a journal is there: the candidate has the       *)
(* recovery root, and the release it replaces is still current, or it is       *)
(* last-known-good already and the candidate is current.                       *)
RootsFollowJournal ==
  Phase # "none" =>
    /\ Coming \in NativeReleases /\ rootOf["recovery"] = Coming
    /\ \/ rootOf["current"] = Going
       \/ rootOf["current"] = Coming /\ (Going # NoArtifact => rootOf["lkg"] = Going)

(* Which release the link and the process are of, phase by phase.              *)
LinkFollowsPhase ==
  /\ Phase = "none" => served = rootOf["current"] /\ runs = served
  /\ Phase # "none" => served \in {Coming, Going, NoArtifact}
                       /\ runs \in {Coming, Going, NoArtifact}
  /\ Phase \in {"prepared", "rollback_switch"} => served \in {Coming, Going}
  /\ Phase \in {"linked", "restarted"} => served = Coming
  /\ Phase \in {"back_linked", "back_restarted"} => served = Going
  /\ Phase \in {"restarted", "back_restarted"} => runs = served
  /\ Phase = "reject" => Going = NoArtifact

(* What the activator holds in memory agrees with the journal.                 *)
ActivatorKnows ==
  /\ act \in {"open", "go", "did", "ended"} => Phase # "none"
  /\ act = "final" => Phase = "none"
  /\ act \in {"go", "did", "ended"} => {Coming, Going} \ {NoArtifact} \subseteq view
  /\ act = "did" => Phase \in {"prepared", "linked", "rollback_switch", "back_linked"}
  /\ act = "did" /\ Phase = "prepared" => served = Coming
  /\ act = "did" /\ Phase = "rollback_switch" => served = Going
  /\ act = "did" /\ Phase \in {"linked", "back_linked"} => runs = served
  /\ act = "ended" => served = rootOf["current"] /\ runs = served

LinkHasView == served # NoArtifact => served \in view

NatInv ==
  /\ NatTypeOK /\ ProtectedAreWhole /\ RootsFollowJournal /\ LinkFollowsPhase
  /\ ActivatorKnows /\ LinkHasView

(* Roots, links and the bodies of artifacts are apart from the absent one.     *)
LEMMA NatConstants ==
  /\ NativeReleases \subseteq Artifacts /\ RuntimeLibs \subseteq Artifacts
  /\ NoArtifact \notin Artifacts /\ NoArtifact \notin NativeReleases
  /\ DependsOn \in [Artifacts -> SUBSET RuntimeLibs]
BY NativeAssumption DEF Artifacts

(* A step of the registry that moves none of the activator's roots and keeps   *)
(* what they reach readable disturbs nothing of the activator.                 *)
LEMMA RegistryFrame ==
  ASSUME NatInv, NatTypeOK', UNCHANGED managed,
         \A k \in {"current", "lkg", "recovery"} : rootOf'[k] = rootOf[k],
         \A k \in {"current", "lkg", "recovery"} : rootOf[k] # NoArtifact =>
           \A y \in Closure(rootOf[k]) : Readable(y) => Readable(y)'
  PROVE  NatInv'
<1> USE DEF managed
<1>1. /\ rootOf'["current"] = rootOf["current"] /\ rootOf'["lkg"] = rootOf["lkg"]
      /\ rootOf'["recovery"] = rootOf["recovery"]
      /\ journaled' = journaled /\ view' = view /\ served' = served /\ runs' = runs /\ act' = act
  OBVIOUS
<1>2. ProtectedAreWhole'
  <2> SUFFICES ASSUME NEW k \in {"current", "lkg", "recovery"}, rootOf'[k] # NoArtifact
               PROVE  rootOf'[k] \in NativeReleases /\ WholeClosure(rootOf[k])'
    BY DEF ProtectedAreWhole, WholeClosure, Closure, Readable
  <2>1. rootOf'[k] = rootOf[k]
    OBVIOUS
  <2>2. rootOf[k] \in NativeReleases /\ WholeClosure(rootOf[k])
    BY <2>1 DEF NatInv, ProtectedAreWhole
  <2>3. \A y \in Closure(rootOf[k]) : Readable(y)'
    BY <2>1, <2>2 DEF WholeClosure
  <2> QED BY <2>1, <2>2, <2>3 DEF WholeClosure, Closure
<1>3. RootsFollowJournal'
  BY <1>1 DEF NatInv, RootsFollowJournal, Phase, Coming, Going
<1>4. LinkFollowsPhase'
  BY <1>1 DEF NatInv, LinkFollowsPhase, Phase, Coming, Going
<1>5. ActivatorKnows'
  BY <1>1 DEF NatInv, ActivatorKnows, Phase, Coming, Going
<1>6. LinkHasView'
  BY <1>1 DEF NatInv, LinkHasView
<1> QED BY <1>2, <1>3, <1>4, <1>5, <1>6 DEF NatInv

(* The same when the whole of what can be read stays, or grows.                *)
LEMMA RegistryGrows ==
  ASSUME NatInv, NatTypeOK', UNCHANGED managed,
         \A k \in {"current", "lkg", "recovery"} : rootOf'[k] = rootOf[k],
         \A y \in Artifacts : Readable(y) => Readable(y)'
  PROVE  NatInv'
<1>1. ASSUME NEW k \in {"current", "lkg", "recovery"}, rootOf[k] # NoArtifact
      PROVE  \A y \in Closure(rootOf[k]) : Readable(y) => Readable(y)'
  <2>1. rootOf[k] \in NativeReleases
    BY <1>1 DEF NatInv, ProtectedAreWhole
  <2>2. Closure(rootOf[k]) \subseteq Artifacts
    BY <2>1, NatConstants DEF Closure
  <2> QED BY <2>2
<1> QED BY <1>1, RegistryFrame

(* Beginning to publish writes nothing yet.                                    *)
LEMMA BeginPublishKeeps ==
  ASSUME NatInv, NEW x \in Artifacts, NEW as \in {"warm", "artifact", "action"},
         as # "warm" => x \in NativeReleases, BeginPublish(x, as)
  PROVE  NatInv'
<1>1. NatTypeOK'
  BY DEF NatInv, NatTypeOK, BeginPublish, managed, Maybe
<1>2. \A y \in Artifacts : Readable(y) => Readable(y)'
  BY DEF BeginPublish, Readable
<1> QED BY <1>1, <1>2, RegistryGrows DEF BeginPublish, managed

(* A payload that is promoted or sealed was not readable, or still is.         *)
LEMMA PromoteTreeKeeps ==
  ASSUME NatInv, PromoteTree
  PROVE  NatInv'
<1>1. publisher.what \in Artifacts /\ publisher.step \in {"tree", "seal"}
  BY DEF NatInv, NatTypeOK, PromoteTree
<1>2. tree' \in [Artifacts -> {"absent", "promoted", "sealed"}]
  BY <1>1 DEF NatInv, NatTypeOK, PromoteTree
<1>3. /\ publisher' \in [what : Maybe(Artifacts), as : {"none", "warm", "artifact", "action"},
                         step : {"none", "tree", "seal", "manifest", "record", "root"}]
      /\ publisher'.what = publisher.what /\ publisher'.as = publisher.as
  BY <1>1 DEF NatInv, NatTypeOK, PromoteTree
<1>4. NatTypeOK'
  BY <1>1, <1>2, <1>3 DEF NatInv, NatTypeOK, PromoteTree, managed
<1>5. ASSUME NEW y \in Artifacts, Readable(y) PROVE Readable(y)'
  BY <1>1, <1>5 DEF NatInv, NatTypeOK, PromoteTree, Readable
<1> QED BY <1>4, <1>5, RegistryGrows DEF PromoteTree, managed

(* The manifest makes an artifact known.                                       *)
LEMMA PublishManifestKeeps ==
  ASSUME NatInv, PublishManifest
  PROVE  NatInv'
<1>1. NatTypeOK'
  BY DEF NatInv, NatTypeOK, PublishManifest, managed, Maybe
<1>2. \A y \in Artifacts : Readable(y) => Readable(y)'
  BY DEF PublishManifest, Readable
<1> QED BY <1>1, <1>2, RegistryGrows DEF PublishManifest, managed

(* Nor does the action record disturb what can be read.                        *)
LEMMA PublishActionKeeps ==
  ASSUME NatInv, PublishAction
  PROVE  NatInv'
<1>1. NatTypeOK'
  BY DEF NatInv, NatTypeOK, PublishAction, managed, Maybe
<1>2. \A y \in Artifacts : Readable(y) => Readable(y)'
  BY DEF PublishAction, Readable
<1> QED BY <1>1, <1>2, RegistryGrows DEF PublishAction, managed

(* The root of a publication is a warm name or a candidate root.               *)
LEMMA PublishRootKeeps ==
  ASSUME NatInv, PublishRoot
  PROVE  NatInv'
<1>0. publisher.what \in Artifacts
  BY DEF NatInv, NatTypeOK, PublishRoot
<1>1. CASE publisher.as = "warm"
  <2>1. /\ rootOf' = [rootOf EXCEPT !["warm"] = publisher.what]
        /\ UNCHANGED candRoots
    BY <1>1 DEF PublishRoot
  <2>2. NatTypeOK'
    BY <1>0, <2>1 DEF NatInv, NatTypeOK, PublishRoot, managed, NoPublisher, Maybe
  <2>3. \A k \in {"current", "lkg", "recovery"} : rootOf'[k] = rootOf[k]
    BY <2>1 DEF NatInv, NatTypeOK
  <2> QED BY <2>2, <2>3, RegistryGrows DEF PublishRoot, managed, Readable
<1>2. CASE publisher.as \in {"artifact", "action"}
  <2>1. CandidateRoot(publisher.what, publisher.as) /\ UNCHANGED rootOf
    BY <1>2 DEF PublishRoot
  <2>2. NatTypeOK'
    BY <1>0, <1>2, <2>1 DEF NatInv, NatTypeOK, PublishRoot, managed, NoPublisher, Maybe, CandidateRoot
  <2> QED BY <2>1, <2>2, RegistryGrows DEF PublishRoot, managed, Readable
<1>3. publisher.as \in {"warm", "artifact", "action"}
  BY DEF NatInv, NatTypeOK, PublishRoot
<1> QED BY <1>1, <1>2, <1>3

(* A publisher that dies leaves a registry that reads as before.               *)
LEMMA PublisherDiesKeeps ==
  ASSUME NatInv, PublisherDies
  PROVE  NatInv'
<1>1. NatTypeOK'
  BY DEF NatInv, NatTypeOK, PublisherDies, managed, NatFault, NoPublisher, Maybe
<1> QED BY <1>1, RegistryGrows DEF PublisherDies, managed, Readable

(* Pins and candidate roots only add or drop protection of other artifacts.    *)
LEMMA PinActiveKeeps ==
  ASSUME NatInv, NEW x \in RuntimeLibs, PinActive(x)
  PROVE  NatInv'
<1>1. NatTypeOK'
  BY DEF NatInv, NatTypeOK, PinActive, managed
<1> QED BY <1>1, RegistryGrows DEF PinActive, managed, Readable

(* A discarded candidate is not one the activator's roots protect.             *)
LEMMA DiscardCandidateKeeps ==
  ASSUME NatInv, NEW r \in NativeReleases, DiscardCandidate(r)
  PROVE  NatInv'
<1>1. NatTypeOK'
  BY DEF NatInv, NatTypeOK, DiscardCandidate, managed
<1> QED BY <1>1, RegistryGrows DEF DiscardCandidate, managed, Readable

(* The collector keeps what it can reach, and it can reach what the roots of   *)
(* the activator protect.                                                      *)
LEMMA CollectGarbageKeeps ==
  ASSUME NatInv, CollectGarbage
  PROVE  NatInv'
<1>1. tree' \in [Artifacts -> {"absent", "promoted", "sealed"}]
  <2>1. CASE tree' = tree
    BY <2>1 DEF NatInv, NatTypeOK
  <2>2. CASE tree' = [x \in Artifacts |-> IF x \in Live THEN tree[x] ELSE "absent"]
    BY <2>2 DEF NatInv, NatTypeOK
  <2> QED BY <2>1, <2>2 DEF CollectGarbage
<1>2. NatTypeOK'
  BY <1>1 DEF NatInv, NatTypeOK, CollectGarbage, managed
<1>3. ASSUME NEW y \in Live, y \in Artifacts PROVE Readable(y)'
  <2>1. y \in known' /\ tree[y] = "sealed"
    BY <1>3 DEF CollectGarbage, Readable
  <2>2. CASE tree' = tree
    BY <2>1, <2>2 DEF Readable
  <2>3. CASE tree' = [x \in Artifacts |-> IF x \in Live THEN tree[x] ELSE "absent"]
    BY <1>3, <2>1, <2>3 DEF Readable
  <2> QED BY <2>2, <2>3 DEF CollectGarbage
<1>4. ASSUME NEW k \in {"current", "lkg", "recovery"}, rootOf[k] # NoArtifact
      PROVE  \A y \in Closure(rootOf[k]) : Readable(y) => Readable(y)'
  <2>1. rootOf[k] \in NativeReleases
    BY <1>4 DEF NatInv, ProtectedAreWhole
  <2>2. Closure(rootOf[k]) \subseteq Artifacts
    BY <2>1, NatConstants DEF Closure
  <2>3. rootOf[k] \in Rooted
    BY <1>4 DEF Rooted, NatInv, NatTypeOK
  <2>4. Closure(rootOf[k]) \subseteq Live
    BY <2>3 DEF Live
  <2> QED BY <1>3, <2>2, <2>4
<1> QED BY <1>2, <1>4, RegistryFrame DEF CollectGarbage, managed

(* Wholeness of the protected releases, when only the activator moves.         *)
LEMMA ProtectedFrame ==
  ASSUME NatInv, UNCHANGED <<tree, known, rootOf>>
  PROVE  ProtectedAreWhole'
BY DEF NatInv, ProtectedAreWhole, WholeClosure, Readable, Closure

(* What is protected is a release of the project.                              *)
LEMMA ProtectedReleases ==
  ASSUME NatInv
  PROVE  /\ rootOf["current"] \in Maybe(NativeReleases)
         /\ rootOf["lkg"] \in Maybe(NativeReleases)
         /\ rootOf["recovery"] \in Maybe(NativeReleases)
BY DEF NatInv, ProtectedAreWhole, Maybe

(* The recovery root is set for a release that was found whole; nothing else   *)
(* is there to be disturbed, whether the journal is written or not.            *)
LEMMA StartActivationKeeps ==
  ASSUME NatInv, NEW r \in NativeReleases, StartActivation(r)
  PROVE  NatInv'
<1>1. /\ rootOf' = [rootOf EXCEPT !["recovery"] = r]
      /\ act = "idle" /\ Phase = "none" /\ WholeClosure(r)
      /\ UNCHANGED <<tree, known, recipes, candRoots, pinned, publisher, view, served, runs>>
  BY DEF StartActivation, BeginActivation, ValidRelease
<1>2. /\ rootOf'["recovery"] = r /\ rootOf'["current"] = rootOf["current"]
      /\ rootOf'["lkg"] = rootOf["lkg"]
      /\ rootOf' \in [{"warm", "current", "lkg", "recovery"} -> Maybe(Artifacts)]
  BY <1>1, NatConstants DEF NatInv, NatTypeOK, Maybe
<1>3. \/ /\ journaled' = [cand |-> r, prev |-> rootOf["current"], phase |-> "prepared"]
         /\ act' = "open" /\ natFaults' = natFaults
      \/ natFaults' = natFaults + 1 /\ journaled' = journaled /\ act' = act
  BY DEF StartActivation, NatFault
<1>4. ProtectedAreWhole'
  BY <1>1, <1>2 DEF NatInv, ProtectedAreWhole, WholeClosure, Readable, Closure
<1>5. CASE journaled' = [cand |-> r, prev |-> rootOf["current"], phase |-> "prepared"]
           /\ act' = "open" /\ natFaults' = natFaults
  <2>1. NatTypeOK'
    BY <1>1, <1>2, <1>5, ProtectedReleases DEF NatInv, NatTypeOK, Maybe, NatPhases, NatActs
  <2>2. RootsFollowJournal'
    BY <1>1, <1>2, <1>5 DEF RootsFollowJournal, Phase, Coming, Going
  <2>3. LinkFollowsPhase'
    BY <1>1, <1>2, <1>5 DEF NatInv, LinkFollowsPhase, Phase, Coming, Going
  <2>4. ActivatorKnows'
    BY <1>1, <1>2, <1>5 DEF NatInv, ActivatorKnows, Phase, Coming, Going
  <2> QED BY <1>1, <1>4, <2>1, <2>2, <2>3, <2>4 DEF NatInv, LinkHasView
<1>6. CASE natFaults' = natFaults + 1 /\ journaled' = journaled /\ act' = act
  <2>1. NatTypeOK'
    BY <1>1, <1>2, <1>6 DEF NatInv, NatTypeOK
  <2>2. RootsFollowJournal'
    BY <1>1, <1>6 DEF RootsFollowJournal, Phase
  <2>3. LinkFollowsPhase'
    BY <1>1, <1>2, <1>6 DEF NatInv, LinkFollowsPhase, Phase, Coming, Going
  <2>4. ActivatorKnows'
    BY <1>1, <1>2, <1>6 DEF NatInv, ActivatorKnows, Phase, Coming, Going
  <2> QED BY <1>1, <1>4, <2>1, <2>2, <2>3, <2>4 DEF NatInv, LinkHasView
<1> QED BY <1>3, <1>5, <1>6

(* Going on from the journal changes nothing but the activator's memory.       *)
LEMMA ResumeActivationKeeps ==
  ASSUME NatInv, ResumeActivation
  PROVE  NatInv'
<1> USE DEF ResumeActivation, registry
<1>1. NatTypeOK'
  BY DEF NatInv, NatTypeOK, NatActs
<1>2. ProtectedAreWhole'
  BY ProtectedFrame
<1>3. RootsFollowJournal' /\ LinkFollowsPhase' /\ LinkHasView'
  BY DEF NatInv, RootsFollowJournal, LinkFollowsPhase, LinkHasView, Phase, Coming, Going
<1>4. ActivatorKnows'
  BY DEF NatInv, ActivatorKnows, Phase, Coming, Going
<1> QED BY <1>1, <1>2, <1>3, <1>4 DEF NatInv

(* The views of both releases are there before a phase is carried out.         *)
LEMMA CheckJournalKeeps ==
  ASSUME NatInv, CheckJournal
  PROVE  NatInv'
<1> USE DEF CheckJournal, registry, PrepareViews
<1>0. act' \in {"go", "idle"} /\ Phase # "none"
  BY DEF NatInv, ActivatorKnows
<1>1. NatTypeOK'
  <2>1. view' \subseteq NativeReleases
    BY DEF NatInv, NatTypeOK, Maybe, Coming, Going
  <2> QED BY <1>0, <2>1 DEF NatInv, NatTypeOK, NatActs
<1>2. ProtectedAreWhole'
  BY ProtectedFrame
<1>3. RootsFollowJournal' /\ LinkFollowsPhase' /\ LinkHasView'
  BY DEF NatInv, RootsFollowJournal, LinkFollowsPhase, LinkHasView, Phase, Coming, Going
<1>4. ActivatorKnows'
  BY <1>0 DEF NatInv, ActivatorKnows, Phase, Coming, Going
<1> QED BY <1>1, <1>2, <1>3, <1>4 DEF NatInv

(* The link goes to a release whose view was prepared.                         *)
LEMMA SwitchCurrentKeeps ==
  ASSUME NatInv, SwitchCurrent
  PROVE  NatInv'
<1> USE DEF SwitchCurrent, registry
<1>1. NatTypeOK'
  BY DEF NatInv, NatTypeOK, NatActs, Coming, Going
<1>2. ProtectedAreWhole'
  BY ProtectedFrame
<1>3. RootsFollowJournal' /\ LinkFollowsPhase'
  BY DEF NatInv, RootsFollowJournal, LinkFollowsPhase, Phase, Coming, Going
<1>4. ActivatorKnows'
  BY DEF NatInv, ActivatorKnows, Phase, Coming, Going
<1>5. LinkHasView'
  BY DEF NatInv, ActivatorKnows, LinkHasView, Phase, Coming, Going
<1> QED BY <1>1, <1>2, <1>3, <1>4, <1>5 DEF NatInv

(* A restart makes the process run what the link names.                        *)
LEMMA RestartNativeKeeps ==
  ASSUME NatInv, RestartNative
  PROVE  NatInv'
<1> USE DEF RestartNative, registry
<1>1. NatTypeOK'
  BY DEF NatInv, NatTypeOK, NatActs
<1>2. ProtectedAreWhole'
  BY ProtectedFrame
<1>3. RootsFollowJournal' /\ LinkFollowsPhase' /\ LinkHasView'
  BY DEF NatInv, RootsFollowJournal, LinkFollowsPhase, LinkHasView, Phase, Coming, Going
<1>4. ActivatorKnows'
  BY DEF NatInv, ActivatorKnows, Phase, Coming, Going
<1> QED BY <1>1, <1>2, <1>3, <1>4 DEF NatInv

(* A move of the journal changes its phase only.                               *)
LEMMA MoveShape ==
  ASSUME NatInv, NEW p \in NatPhases, Move(p)
  PROVE  /\ journaled' \in [cand : Maybe(NativeReleases), prev : Maybe(NativeReleases),
                            phase : NatPhases]
         /\ journaled'.cand = journaled.cand /\ journaled'.prev = journaled.prev
         /\ journaled'.phase = p
BY DEF Move, NatInv, NatTypeOK

(* The journal moves on after the effect of its phase.                         *)
LEMMA AdvanceJournalKeeps ==
  ASSUME NatInv, AdvanceJournal
  PROVE  NatInv'
<1> USE DEF AdvanceJournal, registry
<1>0. Phase \in {"prepared", "linked", "rollback_switch", "back_linked"}
  BY DEF NatInv, ActivatorKnows
<1>1. \E p \in NatPhases :
        /\ Move(p)
        /\ Phase = "prepared" => p = "linked"
        /\ Phase = "linked" => p = "restarted"
        /\ Phase = "rollback_switch" => p = "back_linked"
        /\ Phase = "back_linked" => p = "back_restarted"
  <2>1. CASE Phase = "prepared"
    BY <2>1 DEF NatPhases
  <2>2. CASE Phase = "linked"
    BY <2>2 DEF NatPhases
  <2>3. CASE Phase = "rollback_switch"
    BY <2>3 DEF NatPhases
  <2>4. CASE Phase = "back_linked"
    BY <2>4 DEF NatPhases
  <2> QED BY <1>0, <2>1, <2>2, <2>3, <2>4
<1>2. PICK p \in NatPhases :
        /\ Move(p)
        /\ Phase = "prepared" => p = "linked"
        /\ Phase = "linked" => p = "restarted"
        /\ Phase = "rollback_switch" => p = "back_linked"
        /\ Phase = "back_linked" => p = "back_restarted"
  BY <1>1
<1>3. /\ journaled' \in [cand : Maybe(NativeReleases), prev : Maybe(NativeReleases),
                         phase : NatPhases]
      /\ journaled'.cand = journaled.cand /\ journaled'.prev = journaled.prev
      /\ journaled'.phase = p
  BY <1>2, MoveShape
<1>4. NatTypeOK'
  BY <1>3 DEF NatInv, NatTypeOK, NatActs
<1>5. ProtectedAreWhole'
  BY ProtectedFrame
<1>6. RootsFollowJournal' /\ LinkHasView'
  BY <1>0, <1>3 DEF NatInv, RootsFollowJournal, LinkHasView, Phase, Coming, Going
<1>7. LinkFollowsPhase'
  BY <1>0, <1>2, <1>3 DEF NatInv, LinkFollowsPhase, ActivatorKnows, Phase, Coming, Going
<1>8. ActivatorKnows'
  BY <1>0, <1>2, <1>3 DEF NatInv, ActivatorKnows, Phase, Coming, Going
<1> QED BY <1>4, <1>5, <1>6, <1>7, <1>8 DEF NatInv

(* An unhealthy candidate goes back, or away when there is nothing to go to.   *)
LEMMA ProbeUnhealthyKeeps ==
  ASSUME NatInv, ProbeUnhealthy
  PROVE  NatInv'
<1> USE DEF ProbeUnhealthy, registry
<1>1. PICK p \in {"reject", "rollback_switch"} :
        Move(p) /\ (Going = NoArtifact <=> p = "reject")
  BY Zenon
<1>2. p \in NatPhases
  BY DEF NatPhases
<1>3. /\ journaled' \in [cand : Maybe(NativeReleases), prev : Maybe(NativeReleases),
                         phase : NatPhases]
      /\ journaled'.cand = journaled.cand /\ journaled'.prev = journaled.prev
      /\ journaled'.phase = p
  BY <1>1, <1>2, MoveShape
<1>4. NatTypeOK'
  BY <1>3 DEF NatInv, NatTypeOK, NatActs
<1>5. ProtectedAreWhole'
  BY ProtectedFrame
<1>6. RootsFollowJournal' /\ LinkHasView'
  BY <1>3 DEF NatInv, RootsFollowJournal, LinkHasView, Phase, Coming, Going
<1>7. LinkFollowsPhase'
  BY <1>1, <1>3 DEF NatInv, LinkFollowsPhase, Phase, Coming, Going
<1>8. ActivatorKnows'
  BY <1>1, <1>3 DEF NatInv, ActivatorKnows, Phase, Coming, Going
<1> QED BY <1>4, <1>5, <1>6, <1>7, <1>8 DEF NatInv

(* The commit writes last-known-good before current; a death in between is     *)
(* found again by the next attempt.                                            *)
LEMMA CommitActivationKeeps ==
  ASSUME NatInv, CommitActivation
  PROVE  NatInv'
<1> USE DEF CommitActivation
<1>0. /\ Phase = "restarted" /\ act = "go" /\ served = Coming /\ runs = Coming
      /\ Coming \in NativeReleases /\ Going \in Maybe(NativeReleases)
      /\ rootOf["recovery"] = Coming /\ rootOf["current"] \in {Coming, Going}
      /\ UNCHANGED <<tree, known, recipes, candRoots, pinned, publisher, journaled, view,
                     served, runs>>
  BY DEF NatInv, NatTypeOK, LinkFollowsPhase, RootsFollowJournal, Coming, Going
<1>1. WholeClosure(Coming) /\ (Going # NoArtifact => WholeClosure(Going))
  BY <1>0, NatConstants DEF NatInv, ProtectedAreWhole, RootsFollowJournal
<1>2. CASE rootOf' = rootOf /\ rootOf["current"] = Coming /\ act' = "ended"
           /\ natFaults' = natFaults
  <2>1. NatTypeOK'
    BY <1>0, <1>2 DEF NatInv, NatTypeOK, NatActs
  <2>2. ProtectedAreWhole'
    BY <1>0, <1>2, ProtectedFrame
  <2>3. RootsFollowJournal' /\ LinkFollowsPhase' /\ LinkHasView'
    BY <1>0, <1>2 DEF NatInv, RootsFollowJournal, LinkFollowsPhase, LinkHasView, Phase, Coming, Going
  <2>4. ActivatorKnows'
    BY <1>0, <1>2 DEF NatInv, ActivatorKnows, Phase, Coming, Going
  <2> QED BY <2>1, <2>2, <2>3, <2>4 DEF NatInv
<1>3. CASE /\ rootOf["current"] # Coming
           /\ rootOf' = [rootOf EXCEPT !["lkg"] = IF Going = NoArtifact THEN @ ELSE Going,
                                       !["current"] = Coming]
           /\ act' = "ended" /\ natFaults' = natFaults
  <2>0. /\ rootOf' \in [{"warm", "current", "lkg", "recovery"} -> Maybe(Artifacts)]
        /\ rootOf'["current"] = Coming /\ rootOf'["recovery"] = Coming
        /\ Going # NoArtifact => rootOf'["lkg"] = Going
        /\ Going = NoArtifact => rootOf'["lkg"] = rootOf["lkg"]
    BY <1>0, <1>3, NatConstants DEF NatInv, NatTypeOK, Maybe
  <2>1. NatTypeOK'
    BY <1>0, <1>3, <2>0 DEF NatInv, NatTypeOK, NatActs
  <2>2. ProtectedAreWhole'
    BY <1>0, <1>1, <2>0
       DEF NatInv, ProtectedAreWhole, WholeClosure, Readable, Closure, Coming, Going, Maybe
  <2>3. RootsFollowJournal' /\ LinkFollowsPhase' /\ LinkHasView'
    BY <1>0, <1>3, <2>0 DEF NatInv, RootsFollowJournal, LinkFollowsPhase, LinkHasView, Phase, Coming, Going
  <2>4. ActivatorKnows'
    BY <1>0, <1>3, <2>0 DEF NatInv, ActivatorKnows, Phase, Coming, Going
  <2> QED BY <2>1, <2>2, <2>3, <2>4 DEF NatInv
<1>4. CASE /\ Going # NoArtifact /\ rootOf["current"] # Coming
           /\ rootOf' = [rootOf EXCEPT !["lkg"] = Going]
           /\ act' = "idle" /\ natFaults' = natFaults + 1
  <2>0. /\ rootOf' \in [{"warm", "current", "lkg", "recovery"} -> Maybe(Artifacts)]
        /\ rootOf'["current"] = rootOf["current"] /\ rootOf'["recovery"] = Coming
        /\ rootOf'["lkg"] = Going
    BY <1>0, <1>4, NatConstants DEF NatInv, NatTypeOK, Maybe
  <2>1. NatTypeOK'
    BY <1>0, <1>4, <2>0 DEF NatInv, NatTypeOK, NatActs
  <2>2. ProtectedAreWhole'
    BY <1>0, <1>1, <1>4, <2>0
       DEF NatInv, ProtectedAreWhole, WholeClosure, Readable, Closure, Coming, Going, Maybe
  <2>3. RootsFollowJournal' /\ LinkFollowsPhase' /\ LinkHasView'
    BY <1>0, <1>4, <2>0 DEF NatInv, RootsFollowJournal, LinkFollowsPhase, LinkHasView, Phase, Coming, Going
  <2>4. ActivatorKnows'
    BY <1>0, <1>4, <2>0 DEF NatInv, ActivatorKnows, Phase, Coming, Going
  <2> QED BY <2>1, <2>2, <2>3, <2>4 DEF NatInv
<1> QED BY <1>2, <1>3, <1>4 DEF CommitRoots, NatFault

(* An abort finds the roots as they were.                                      *)
LEMMA AbortActivationKeeps ==
  ASSUME NatInv, AbortActivation
  PROVE  NatInv'
<1> USE DEF AbortActivation, registry
<1>1. NatTypeOK'
  BY DEF NatInv, NatTypeOK, NatActs
<1>2. ProtectedAreWhole'
  BY ProtectedFrame
<1>3. RootsFollowJournal' /\ LinkFollowsPhase' /\ LinkHasView'
  BY DEF NatInv, RootsFollowJournal, LinkFollowsPhase, LinkHasView, Phase, Coming, Going
<1>4. ActivatorKnows'
  BY DEF NatInv, ActivatorKnows, LinkFollowsPhase, Phase, Coming, Going
<1> QED BY <1>1, <1>2, <1>3, <1>4 DEF NatInv

(* A rejected first release leaves nothing served.                             *)
LEMMA RejectFirstKeeps ==
  ASSUME NatInv, RejectFirst
  PROVE  NatInv'
<1> USE DEF RejectFirst, registry
<1>0. /\ act' \in {"go", "ended", "idle"} /\ runs' = NoArtifact /\ served' \in {served, NoArtifact}
      /\ act' = "ended" => rootOf["current"] = Going /\ served' = NoArtifact
  OBVIOUS
<1>1. NatTypeOK'
  BY <1>0 DEF NatInv, NatTypeOK, NatActs, Maybe
<1>2. ProtectedAreWhole'
  BY ProtectedFrame
<1>3. RootsFollowJournal' /\ LinkFollowsPhase' /\ LinkHasView'
  BY <1>0 DEF NatInv, RootsFollowJournal, LinkFollowsPhase, LinkHasView, Phase, Coming, Going
<1>4. ActivatorKnows'
  BY <1>0 DEF NatInv, ActivatorKnows, LinkFollowsPhase, Phase, Coming, Going
<1> QED BY <1>1, <1>2, <1>3, <1>4 DEF NatInv

(* The journal is removed when link, process and current root agree.           *)
LEMMA RemoveJournalKeeps ==
  ASSUME NatInv, RemoveJournal
  PROVE  NatInv'
<1> USE DEF RemoveJournal, registry, NoActivation
<1>1. NatTypeOK'
  BY DEF NatInv, NatTypeOK, NatActs, NatPhases, Maybe
<1>2. ProtectedAreWhole'
  BY ProtectedFrame
<1>3. RootsFollowJournal' /\ LinkFollowsPhase' /\ LinkHasView'
  BY DEF NatInv, RootsFollowJournal, LinkFollowsPhase, LinkHasView, ActivatorKnows, Phase, Coming, Going
<1>4. ActivatorKnows'
  BY DEF NatInv, ActivatorKnows, Phase, Coming, Going
<1> QED BY <1>1, <1>2, <1>3, <1>4 DEF NatInv

(* Dropping the candidate's own roots, entirely or not, touches neither        *)
(* current nor last-known-good.                                                *)
LEMMA FinalizeRootsShape ==
  ASSUME NatInv, FinalizeRoots(rootOf["recovery"]), UNCHANGED <<tree, known>>
  PROVE  /\ candRoots' \in [NativeReleases -> {"none", "artifact", "action"}]
         /\ rootOf' \in [{"warm", "current", "lkg", "recovery"} -> Maybe(Artifacts)]
         /\ rootOf'["current"] = rootOf["current"] /\ rootOf'["lkg"] = rootOf["lkg"]
         /\ natFaults' \in Nat
         /\ ProtectedAreWhole'
<1>1. candRoots' \in [NativeReleases -> {"none", "artifact", "action"}]
  BY DEF FinalizeRoots, NatInv, NatTypeOK
<1>2. \/ rootOf' = [rootOf EXCEPT !["recovery"] = NoArtifact] /\ natFaults' = natFaults
      \/ rootOf' = rootOf /\ natFaults' = natFaults + 1
  BY DEF FinalizeRoots, NatFault
<1>3. /\ rootOf' \in [{"warm", "current", "lkg", "recovery"} -> Maybe(Artifacts)]
      /\ rootOf'["current"] = rootOf["current"] /\ rootOf'["lkg"] = rootOf["lkg"]
      /\ rootOf'["recovery"] \in {NoArtifact, rootOf["recovery"]}
  BY <1>2 DEF NatInv, NatTypeOK, Maybe
<1>4. ProtectedAreWhole'
  BY <1>3 DEF NatInv, ProtectedAreWhole, WholeClosure, Readable, Closure
<1> QED BY <1>1, <1>2, <1>3, <1>4 DEF NatInv, NatTypeOK

(* The roots that protected the candidate go last.                             *)
LEMMA FinalizeActivationKeeps ==
  ASSUME NatInv, FinalizeActivation
  PROVE  NatInv'
<1> USE DEF FinalizeActivation
<1>0. /\ candRoots' \in [NativeReleases -> {"none", "artifact", "action"}]
      /\ rootOf' \in [{"warm", "current", "lkg", "recovery"} -> Maybe(Artifacts)]
      /\ rootOf'["current"] = rootOf["current"] /\ rootOf'["lkg"] = rootOf["lkg"]
      /\ natFaults' \in Nat
      /\ ProtectedAreWhole'
  BY FinalizeRootsShape
<1>1. NatTypeOK'
  BY <1>0 DEF NatInv, NatTypeOK, NatActs
<1>2. Phase = "none"
  BY DEF NatInv, ActivatorKnows
<1>3. RootsFollowJournal' /\ LinkFollowsPhase' /\ LinkHasView'
  BY <1>0, <1>2 DEF NatInv, RootsFollowJournal, LinkFollowsPhase, LinkHasView, Phase, Coming, Going
<1>4. ActivatorKnows'
  BY <1>0, <1>2 DEF NatInv, ActivatorKnows, Phase, Coming, Going
<1> QED BY <1>0, <1>1, <1>3, <1>4 DEF NatInv

(* Recovery without a journal finishes what was committed, or never begun.     *)
LEMMA RecoverRootsKeeps ==
  ASSUME NatInv, RecoverRoots
  PROVE  NatInv'
<1> USE DEF RecoverRoots
<1>0. /\ candRoots' \in [NativeReleases -> {"none", "artifact", "action"}]
      /\ rootOf' \in [{"warm", "current", "lkg", "recovery"} -> Maybe(Artifacts)]
      /\ rootOf'["current"] = rootOf["current"] /\ rootOf'["lkg"] = rootOf["lkg"]
      /\ natFaults' \in Nat
      /\ ProtectedAreWhole'
  BY FinalizeRootsShape
<1>1. view \subseteq view' /\ view' \subseteq NativeReleases
  BY ProtectedReleases DEF NatInv, NatTypeOK, Maybe
<1>2. NatTypeOK'
  BY <1>0, <1>1 DEF NatInv, NatTypeOK, NatActs
<1>3. RootsFollowJournal' /\ LinkFollowsPhase' /\ LinkHasView'
  BY <1>0, <1>1 DEF NatInv, RootsFollowJournal, LinkFollowsPhase, LinkHasView, Phase, Coming, Going
<1>4. ActivatorKnows'
  BY <1>0, <1>1 DEF NatInv, ActivatorKnows, Phase, Coming, Going
<1> QED BY <1>0, <1>2, <1>3, <1>4 DEF NatInv

(* Views are collected only when no activation is under way.                   *)
LEMMA CollectViewsKeeps ==
  ASSUME NatInv, CollectViews
  PROVE  NatInv'
<1> USE DEF CollectViews, registry
<1>1. view' \subseteq NativeReleases /\ (served # NoArtifact => served \in view')
  BY ProtectedReleases DEF Maybe
<1>2. NatTypeOK'
  BY <1>1 DEF NatInv, NatTypeOK
<1>3. ProtectedAreWhole'
  BY ProtectedFrame
<1>4. RootsFollowJournal' /\ LinkFollowsPhase' /\ LinkHasView'
  BY <1>1 DEF NatInv, RootsFollowJournal, LinkFollowsPhase, LinkHasView, Phase, Coming, Going
<1>5. ActivatorKnows'
  BY DEF NatInv, ActivatorKnows, Phase, Coming, Going
<1> QED BY <1>2, <1>3, <1>4, <1>5 DEF NatInv

(* The activator's death loses only its memory.                                *)
LEMMA ActivatorDiesKeeps ==
  ASSUME NatInv, ActivatorDies
  PROVE  NatInv'
<1> USE DEF ActivatorDies, registry, NatFault
<1>1. NatTypeOK'
  BY DEF NatInv, NatTypeOK, NatActs
<1>2. ProtectedAreWhole'
  BY ProtectedFrame
<1>3. RootsFollowJournal' /\ LinkFollowsPhase' /\ LinkHasView'
  BY DEF NatInv, RootsFollowJournal, LinkFollowsPhase, LinkHasView, Phase, Coming, Going
<1>4. ActivatorKnows'
  BY DEF NatInv, ActivatorKnows, Phase, Coming, Going
<1> QED BY <1>1, <1>2, <1>3, <1>4 DEF NatInv

(* A service that exits comes back as the release the link names.              *)
LEMMA ServiceExitsKeeps ==
  ASSUME NatInv, ServiceExits
  PROVE  NatInv'
<1> USE DEF ServiceExits, registry
<1>1. NatTypeOK'
  BY DEF NatInv, NatTypeOK
<1>2. ProtectedAreWhole'
  BY ProtectedFrame
<1>3. RootsFollowJournal' /\ LinkFollowsPhase' /\ LinkHasView'
  BY DEF NatInv, RootsFollowJournal, LinkFollowsPhase, LinkHasView, Phase, Coming, Going
<1>4. ActivatorKnows'
  BY DEF NatInv, ActivatorKnows, Phase, Coming, Going
<1> QED BY <1>1, <1>2, <1>3, <1>4 DEF NatInv

(* The invariant holds when nothing was published yet.                         *)
LEMMA NatInitInv == NatInit => NatInv
<1> SUFFICES ASSUME NatInit PROVE NatInv
  OBVIOUS
<1> USE DEF NatInit, NoPublisher, NoActivation
<1>1. NatTypeOK
  BY DEF NatTypeOK, NatActs, NatPhases, Maybe
<1>2. ProtectedAreWhole
  BY DEF ProtectedAreWhole
<1>3. RootsFollowJournal /\ LinkFollowsPhase /\ LinkHasView
  BY DEF RootsFollowJournal, LinkFollowsPhase, LinkHasView, Phase, Coming, Going
<1>4. ActivatorKnows
  BY DEF ActivatorKnows, Phase, Coming, Going
<1> QED BY <1>1, <1>2, <1>3, <1>4 DEF NatInv

(* Every step of publishers, collector, activator and service keeps it.        *)
LEMMA NatStepInv == NatInv /\ [NatNext]_natVars => NatInv'
<1> SUFFICES ASSUME NatInv, [NatNext]_natVars PROVE NatInv'
  OBVIOUS
<1>1. CASE UNCHANGED natVars
  <2>1. NatTypeOK'
    BY <1>1 DEF natVars, registry, managed, NatInv, NatTypeOK
  <2> QED BY <1>1, <2>1, RegistryGrows DEF natVars, registry, managed, Readable
<1>2. ASSUME NEW x \in RuntimeLibs, BeginPublish(x, "warm") \/ PinActive(x)
      PROVE  NatInv'
  BY <1>2, BeginPublishKeeps, PinActiveKeeps, NatConstants
<1>3. ASSUME NEW r \in NativeReleases,
             \/ \E as \in {"artifact", "action"} : BeginPublish(r, as)
             \/ DiscardCandidate(r) \/ StartActivation(r)
      PROVE  NatInv'
  BY <1>3, BeginPublishKeeps, DiscardCandidateKeeps, StartActivationKeeps, NatConstants
<1>4. CASE \/ PromoteTree \/ PublishManifest \/ PublishAction \/ PublishRoot \/ PublisherDies
           \/ CollectGarbage
  BY <1>4, PromoteTreeKeeps, PublishManifestKeeps, PublishActionKeeps, PublishRootKeeps, PublisherDiesKeeps,
     CollectGarbageKeeps
<1>5. CASE \/ ResumeActivation \/ CheckJournal \/ SwitchCurrent \/ RestartNative
           \/ AdvanceJournal \/ ProbeUnhealthy \/ CommitActivation
  BY <1>5, ResumeActivationKeeps, CheckJournalKeeps, SwitchCurrentKeeps, RestartNativeKeeps,
     AdvanceJournalKeeps, ProbeUnhealthyKeeps, CommitActivationKeeps
<1>6. CASE \/ AbortActivation \/ RejectFirst \/ RemoveJournal \/ FinalizeActivation
           \/ RecoverRoots \/ CollectViews \/ ActivatorDies \/ ServiceExits
  BY <1>6, AbortActivationKeeps, RejectFirstKeeps, RemoveJournalKeeps, FinalizeActivationKeeps,
     RecoverRootsKeeps, CollectViewsKeeps, ActivatorDiesKeeps, ServiceExitsKeeps
<1> QED BY <1>1, <1>2, <1>3, <1>4, <1>5, <1>6 DEF NatNext

(* What the link names and what the process runs is protected, hence whole.    *)
LEMMA NatInvServed == NatInv => ServedIsWhole
<1> SUFFICES ASSUME NatInv PROVE ServedIsWhole
  OBVIOUS
<1>1. ASSUME NEW r \in {served, runs} \ {NoArtifact}
      PROVE  r \in {rootOf["current"], rootOf["lkg"], rootOf["recovery"]}
  BY <1>1 DEF NatInv, LinkFollowsPhase, RootsFollowJournal
<1>2. ASSUME NEW r \in {served, runs} \ {NoArtifact}
      PROVE  WholeClosure(r)
  BY <1>1, <1>2 DEF NatInv, ProtectedAreWhole
<1> QED BY <1>2 DEF NatInv, LinkHasView, ServedIsWhole

(* A native release that is linked or still runs is whole and has its view,    *)
(* for any set of releases, dependencies and crashes, wherever publisher,      *)
(* collector and activator were interrupted (ServedIsWhole).                   *)
THEOREM ServedReleaseIsWhole == NatSpec => []ServedIsWhole
<1>1. NatInv /\ [NatNext]_natVars => NatInv'
  BY NatStepInv
<1> QED BY <1>1, NatInitInv, NatInvServed, PTL DEF NatSpec

--------------------------------------------------------------------------------
(* The adapters' jobs                                                          *)

UnitStates == {"none", "run", "applied", "pending", "published", "dead"}
JobRows ==
  [start : BOOLEAN, unit : UnitStates, applied : BOOLEAN, stop : BOOLEAN,
   result : {"none", "pending", "final"}, terminal : {"none", "ok", "bad"},
   cleanup : {"none", "pending", "complete"}]
BackupKinds == {"backup", "cutover"}

ChainRows ==
  [taken : BOOLEAN, data : Nat, time : Nat, epoch : Nat, sealed : BOOLEAN,
   remote : {"none", "good", "bad"}]

JobTypeOK ==
  /\ class \in {"code", "compatible", "breaking"} /\ at \in Nat \ {0} /\ jobNow \in Nat
  /\ job \in [Steps -> JobRows]
  /\ rimg \in [mode : {"normal", "draining", "fenced"}, active : Nat, last : Nat,
               busy : BOOLEAN, data : Nat, schema : Nat]
  /\ epochs \in Nat
  /\ lease \in [epoch : Nat, fence : {"none", "intent", "held", "leaving", "released"}]
  /\ chain \in [BackupKinds -> ChainRows] /\ snap \in [BackupKinds -> ChainRows]

(* What the files of a step tell about its unit: a result was preceded by its  *)
(* effect, a terminal receipt by the end of the unit.                          *)
FilesSound(j) ==
  /\ ~ j.start => j.unit = "none" /\ j.result = "none"
  /\ j.unit \in {"applied", "pending", "published"} => j.applied
  /\ j.result # "none" => j.applied
  /\ j.terminal # "none" => j.unit = "dead"
  /\ j.applied => j.start

StepFilesSound == \A x \in Steps : FilesSound(job[x])

(* A step is started when the steps before it are complete, and only of a      *)
(* phase the attempt has reached.                                              *)
StepsInOrder ==
  \A x, y \in Steps : job[x].start /\ y[1] = x[1] /\ y[2] < x[2] => CompletedExecution(y)
StartedPhases ==
  \A x \in Steps : job[x].start =>
    \E i \in 1..Len(Plan(class)) : i <= at /\ Plan(class)[i] = x[1]

(* The copy of a kind is what its steps made it.                               *)
CopyFollowsSteps ==
  \A k \in BackupKinds :
    /\ job[<<k, 1>>].applied => snap[k].taken
    /\ job[<<k, 2>>].applied => snap[k].sealed
    /\ job[<<k, 3>>].applied => snap[k].remote # "none"

(* From the cutover copy to the end of the plan the application stays fenced:  *)
(* nothing is written after what was copied.                                   *)
FencedSinceCutover ==
  /\ rimg.mode = "fenced" => ~ rimg.busy
  /\ fenceUnit = "release" => Finished
  /\ snap["cutover"].taken /\ ~ Finished =>
       rimg.mode = "fenced" /\ rimg.data = snap["cutover"].data

(* What the commit of a backup phase persisted.                                *)
ChainsPersisted ==
  Stateful =>
    /\ at > 1 => chain["backup"].sealed /\ chain["backup"].remote # "none"
    /\ at > 3 => /\ chain["cutover"].taken /\ chain["cutover"].sealed
                 /\ chain["cutover"].remote # "none" /\ snap["cutover"].taken
                 /\ chain["cutover"].data = snap["cutover"].data

(* A breaking migration has used its grant before any step of it started.      *)
GrantIsUsed ==
  class = "breaking" /\ (\/ ~ Finished /\ JobPhase = "migrate" /\ exec # "idle"
                         \/ \E x \in Steps : x[1] = "migrate" /\ job[x].start)
    => grant = "migrate"

(* Every step of the phases behind the current one took effect in a unit that  *)
(* ended well and was collected.                                               *)
PhasesDone ==
  \A i \in 1..Len(Plan(class)) : i < at =>
    \A x \in StepsOf(Plan(class)[i]) :
      job[x].applied /\ job[x].terminal = "ok" /\ job[x].cleanup = "complete" /\ ~ Running(x)

JobInv ==
  /\ JobTypeOK /\ StepFilesSound /\ StepsInOrder /\ StartedPhases /\ PhasesDone
  /\ CopyFollowsSteps /\ FencedSinceCutover /\ ChainsPersisted /\ GrantIsUsed

(* A step whose effect took place in a unit that ended well and was collected. *)
StepDone(j) ==
  /\ j.applied /\ j.unit \in {"none", "dead"} /\ j.terminal = "ok" /\ j.cleanup = "complete"

(* The plans.                                                                  *)
LEMMA PlanFacts ==
  ASSUME class \in {"code", "compatible", "breaking"}
  PROVE  /\ Stateful => /\ Len(Plan(class)) = 7
                        /\ Plan(class)[1] = "backup" /\ Plan(class)[2] = "drain"
                        /\ Plan(class)[3] = "cutover" /\ Plan(class)[4] = "migrate"
                        /\ Plan(class)[5] = "deploy" /\ Plan(class)[6] = "health"
                        /\ Plan(class)[7] = "soak"
         /\ ~ Stateful => /\ Len(Plan(class)) = 3
                          /\ Plan(class)[1] = "deploy" /\ Plan(class)[2] = "health"
                          /\ Plan(class)[3] = "soak"
BY DEF Plan, Stateful

(* Where a phase is in the plans.                                              *)
LEMMA PlanIndex ==
  ASSUME class \in {"code", "compatible", "breaking"}, NEW i \in 1..Len(Plan(class))
  PROVE  /\ Plan(class)[i] = "backup" => Stateful /\ i = 1
         /\ Plan(class)[i] = "cutover" => Stateful /\ i = 3
         /\ Plan(class)[i] = "migrate" => Stateful /\ i = 4
<1>1. CASE Stateful
  <2>1. i \in 1..7 BY <1>1, PlanFacts
  <2>2. i \in {1, 2, 3, 4, 5, 6, 7} BY <2>1, SMTT(30)
  <2> QED BY <1>1, <2>2, PlanFacts
<1>2. CASE ~ Stateful
  <2>1. i \in {1, 2, 3} BY SMTT(60), <1>2, PlanFacts
  <2> QED BY <1>2, <2>1, PlanFacts
<1> QED BY <1>1, <1>2

(* The steps of a backup, and what they are.                                   *)
LEMMA BackupStepFacts ==
  ASSUME NEW k \in BackupKinds, NEW i \in {1, 2, 3}
  PROVE  /\ <<k, i>> \in Steps
         /\ Profile(<<k, i>>) = IF i = 1 THEN "capture" ELSE IF i = 2 THEN "encrypt" ELSE "upload"
<1>1. k \in Phases BY DEF BackupKinds, Phases
<1>2. ExpectedProfiles(k) = <<"capture", "encrypt", "upload", "readback">>
  BY DEF ExpectedProfiles, BackupSteps, BackupKinds
<1>3. Len(ExpectedProfiles(k)) = 4 BY <1>2
<1>4. <<k, i>> \in {<<k, s>> : s \in 1..Len(ExpectedProfiles(k))} BY <1>3
<1>5. <<k, i>> \in Steps BY <1>1, <1>4 DEF Steps
<1>6. Profile(<<k, i>>) = ExpectedProfiles(k)[i] BY DEF Profile
<1> QED BY <1>2, <1>5, <1>6

(* A step is a phase and a number.                                             *)
LEMMA StepShape ==
  ASSUME NEW x \in Steps
  PROVE  /\ x[1] \in Phases /\ x[2] \in Nat /\ x = <<x[1], x[2]>>
         /\ x[2] \in 1..Len(ExpectedProfiles(x[1]))
<1>1. PICK p \in Phases : x \in {<<p, s>> : s \in 1..Len(ExpectedProfiles(p))} BY DEF Steps
<1>2. PICK s \in 1..Len(ExpectedProfiles(p)) : x = <<p, s>> BY <1>1
<1>3. x[1] = p /\ x[2] = s BY <1>2
<1> QED BY <1>2, <1>3

(* Which steps encrypt, upload and migrate.                                    *)
LEMMA ProfileFacts ==
  ASSUME NEW x \in Steps
  PROVE  /\ Profile(x) = "encrypt" => x[1] \in BackupKinds /\ x = <<x[1], 2>>
         /\ Profile(x) = "upload" => x[1] \in BackupKinds /\ x = <<x[1], 3>>
         /\ Profile(x) = "rimgmigrate" => x[1] = "migrate"
<1>1. x[1] \in Phases /\ x = <<x[1], x[2]>> /\ x[2] \in 1..Len(ExpectedProfiles(x[1]))
  BY StepShape
<1>2. Profile(x) = ExpectedProfiles(x[1])[x[2]] BY DEF Profile
<1>3. CASE x[1] \in BackupKinds
  <2>1. ExpectedProfiles(x[1]) = <<"capture", "encrypt", "upload", "readback">>
    BY <1>3 DEF ExpectedProfiles, BackupSteps, BackupKinds
  <2>2. x[2] \in {1, 2, 3, 4} BY <1>1, <2>1
  <2> QED BY <1>1, <1>2, <1>3, <2>1, <2>2
<1>4. CASE x[1] = "drain"
  <2>1. ExpectedProfiles(x[1]) = <<"rimgdrain">> BY <1>4 DEF ExpectedProfiles
  <2>2. x[2] = 1 BY <1>1, <2>1
  <2> QED BY <1>2, <2>1, <2>2
<1>5. CASE x[1] = "migrate"
  <2>1. ExpectedProfiles(x[1]) = <<"inspect", "rimgmigrate">> BY <1>5 DEF ExpectedProfiles
  <2>2. x[2] \in {1, 2} BY <1>1, <2>1
  <2> QED BY <1>2, <1>5, <2>1, <2>2
<1>6. CASE x[1] = "deploy"
  <2>1. ExpectedProfiles(x[1]) = <<"kamal">> BY <1>6 DEF ExpectedProfiles
  <2>2. x[2] = 1 BY <1>1, <2>1
  <2> QED BY <1>2, <2>1, <2>2
<1>7. CASE x[1] = "health"
  <2>1. ExpectedProfiles(x[1]) = <<"readiness", "smoke">> BY <1>7 DEF ExpectedProfiles
  <2>2. x[2] \in {1, 2} BY <1>1, <2>1
  <2> QED BY <1>2, <2>1, <2>2
<1>8. CASE x[1] = "soak"
  <2>1. ExpectedProfiles(x[1]) = <<"observe">> BY <1>8 DEF ExpectedProfiles
  <2>2. x[2] = 1 BY <1>1, <2>1
  <2> QED BY <1>2, <2>1, <2>2
<1> QED BY <1>1, <1>3, <1>4, <1>5, <1>6, <1>7, <1>8 DEF Phases, BackupKinds

(* A completed step is done.                                                   *)
LEMMA CompletedIsDone ==
  ASSUME NEW x \in Steps, job[x] \in JobRows, FilesSound(job[x]), CompletedExecution(x)
  PROVE  StepDone(job[x]) /\ job[x].start
BY DEF FilesSound, CompletedExecution, StepDone, JobRows

(* The files of one step change; what they said of a finished step, they say   *)
(* still, and a step is started only as the next one of the current phase.     *)
LEMMA JobRowStep ==
  ASSUME JobInv, NEW x \in Steps, NEW row \in JobRows, job' = [job EXCEPT ![x] = row],
         UNCHANGED <<class, at>>, FilesSound(row),
         StepDone(job[x]) => StepDone(row),
         CompletedExecution(x) => CompletedExecution(x)',
         row.start => job[x].start \/ (NextStep(x) /\ ~ Finished)
  PROVE  StepFilesSound' /\ StepsInOrder' /\ StartedPhases' /\ PhasesDone'
<1>1. job \in [Steps -> JobRows] /\ class \in {"code", "compatible", "breaking"}
      /\ at \in Nat \ {0}
  BY DEF JobInv, JobTypeOK
<1>2. job'[x] = row /\ \A y \in Steps \ {x} : job'[y] = job[y] BY <1>1
<1>3. \A y \in Steps : CompletedExecution(y) => CompletedExecution(y)'
  <2> SUFFICES ASSUME NEW y \in Steps, CompletedExecution(y) PROVE CompletedExecution(y)' OBVIOUS
  <2>1. CASE y = x BY <2>1
  <2>2. CASE y # x BY <1>2, <2>2 DEF CompletedExecution
  <2> QED BY <2>1, <2>2
<1>4. StepFilesSound' BY <1>2 DEF JobInv, StepFilesSound
<1>5. StepsInOrder'
  <2> SUFFICES ASSUME NEW z \in Steps, NEW y \in Steps, job'[z].start, y[1] = z[1], y[2] < z[2]
      PROVE CompletedExecution(y)'
    BY DEF StepsInOrder
  <2>1. CASE job[z].start BY <1>3, <2>1 DEF JobInv, StepsInOrder
  <2>2. CASE ~ job[z].start
    <3>1. z = x /\ NextStep(x) BY <1>2, <2>2
    <3>2. y \in StepsOf(JobPhase) BY <3>1 DEF NextStep, StepsOf
    <3>3. CompletedExecution(y) BY <3>1, <3>2 DEF NextStep
    <3> QED BY <1>3, <3>3
  <2> QED BY <2>1, <2>2
<1>6. StartedPhases'
  <2> SUFFICES ASSUME NEW z \in Steps, job'[z].start
      PROVE \E i \in 1..Len(Plan(class)) : i <= at /\ Plan(class)[i] = z[1]
    BY DEF StartedPhases
  <2>1. CASE job[z].start BY <2>1 DEF JobInv, StartedPhases
  <2>2. CASE ~ job[z].start
    <3>1. z = x /\ NextStep(x) /\ ~ Finished BY <1>2, <2>2
    <3>2. at \in 1..Len(Plan(class)) BY <1>1, <3>1, PlanFacts DEF Finished
    <3>3. Plan(class)[at] = z[1] BY <3>1 DEF NextStep, JobPhase
    <3> QED BY <1>1, <3>2, <3>3
  <2> QED BY <2>1, <2>2
<1>7. PhasesDone'
  <2> SUFFICES ASSUME NEW i \in 1..Len(Plan(class)), i < at, NEW y \in StepsOf(Plan(class)[i])
      PROVE /\ job'[y].applied /\ job'[y].unit \in {"none", "dead"} /\ job'[y].terminal = "ok"
            /\ job'[y].cleanup = "complete"
    BY DEF PhasesDone, Running
  <2>1. y \in Steps BY DEF StepsOf
  <2>2. StepDone(job[y]) BY DEF JobInv, PhasesDone, Running, StepDone
  <2>3. StepDone(job'[y]) BY <1>2, <2>1, <2>2
  <2> QED BY <2>3 DEF StepDone
<1> QED BY <1>4, <1>5, <1>6, <1>7

(* When no step gains an effect the copies still follow the steps.             *)
LEMMA CopiesFrame ==
  ASSUME JobInv, NEW x \in Steps, NEW row \in JobRows, job' = [job EXCEPT ![x] = row],
         row.applied => job[x].applied, UNCHANGED snap
  PROVE  CopyFollowsSteps'
<1> SUFFICES ASSUME NEW k \in BackupKinds
    PROVE /\ job'[<<k, 1>>].applied => snap[k].taken
          /\ job'[<<k, 2>>].applied => snap[k].sealed
          /\ job'[<<k, 3>>].applied => snap[k].remote # "none"
  BY DEF CopyFollowsSteps
<1>1. <<k, 1>> \in Steps /\ <<k, 2>> \in Steps /\ <<k, 3>> \in Steps BY BackupStepFacts
<1>2. \A y \in Steps : job'[y].applied => job[y].applied BY DEF JobInv, JobTypeOK
<1> QED BY <1>1, <1>2 DEF JobInv, CopyFollowsSteps

(* Where the attempt stands is a matter of its class and index.                *)
LEMMA SamePhase ==
  ASSUME UNCHANGED <<class, at>>
  PROVE  UNCHANGED <<Finished, JobPhase, Stateful, Plan(class)>>
BY DEF Finished, JobPhase, Stateful, Plan

(* A step of the executor or of a unit that only writes files.                 *)
LEMMA FilesStep ==
  ASSUME JobInv, NEW x \in Steps, NEW row \in JobRows, job' = [job EXCEPT ![x] = row],
         UNCHANGED <<class, jobNow, at, rimg, epochs, lease, fenceUnit, chain, snap, grant>>,
         FilesSound(row), StepDone(job[x]) => StepDone(row),
         CompletedExecution(x) => CompletedExecution(x)',
         row.start => job[x].start \/ (NextStep(x) /\ ~ Finished /\ exec # "idle"),
         row.applied => job[x].applied,
         exec' # "idle" => exec # "idle"
  PROVE  JobInv'
<1>1. UNCHANGED <<Finished, JobPhase, Stateful, Plan(class)>> BY SamePhase
<1>2. JobTypeOK' BY DEF JobInv, JobTypeOK
<1>3. StepFilesSound' /\ StepsInOrder' /\ StartedPhases' /\ PhasesDone' BY JobRowStep
<1>4. CopyFollowsSteps' BY CopiesFrame
<1>5. FencedSinceCutover' BY <1>1 DEF JobInv, FencedSinceCutover
<1>6. ChainsPersisted' BY <1>1 DEF JobInv, ChainsPersisted
<1>7. GrantIsUsed'
  <2> SUFFICES ASSUME class = "breaking",
                      \/ ~ Finished /\ JobPhase = "migrate" /\ exec' # "idle"
                      \/ \E y \in Steps : y[1] = "migrate" /\ job'[y].start
      PROVE grant = "migrate"
    BY <1>1 DEF GrantIsUsed
  <2>1. CASE ~ Finished /\ JobPhase = "migrate" /\ exec' # "idle"
    BY <2>1 DEF JobInv, GrantIsUsed
  <2>2. CASE \E y \in Steps : y[1] = "migrate" /\ job'[y].start
    <3>1. PICK y \in Steps : y[1] = "migrate" /\ job'[y].start BY <2>2
    <3>2. CASE job[y].start BY <3>1, <3>2 DEF JobInv, GrantIsUsed
    <3>3. CASE ~ job[y].start
      <4>1. y = x /\ row.start BY <3>1, <3>3 DEF JobInv, JobTypeOK
      <4>2. NextStep(x) /\ ~ Finished /\ exec # "idle" BY <3>3, <4>1
      <4>3. JobPhase = "migrate" BY <3>1, <4>1, <4>2 DEF NextStep
      <4> QED BY <4>2, <4>3 DEF JobInv, GrantIsUsed
    <3> QED BY <3>2, <3>3
  <2> QED BY <2>1, <2>2
<1> QED BY <1>2, <1>3, <1>4, <1>5, <1>6, <1>7 DEF JobInv

(* A step that touches no file: the executor's bookkeeping.                    *)
LEMMA NoFilesStep ==
  ASSUME JobInv, UNCHANGED <<class, at, job, rimg, chain, snap>>,
         jobNow' \in Nat, epochs' \in Nat,
         lease' \in [epoch : Nat, fence : {"none", "intent", "held", "leaving", "released"}],
         fenceUnit' = "release" => fenceUnit = "release" \/ Finished,
         GrantIsUsed'
  PROVE  JobInv'
<1>1. UNCHANGED <<Finished, JobPhase, Stateful, Plan(class)>> BY SamePhase
<1>2. JobTypeOK' BY DEF JobInv, JobTypeOK
<1>3. StepFilesSound' BY DEF JobInv, StepFilesSound
<1>4. StepsInOrder' BY DEF JobInv, StepsInOrder, CompletedExecution
<1>5. StartedPhases' BY <1>1 DEF JobInv, StartedPhases
<1>6. PhasesDone' BY <1>1 DEF JobInv, PhasesDone, StepsOf, Running
<1>7. CopyFollowsSteps' BY DEF JobInv, CopyFollowsSteps
<1>8. FencedSinceCutover' BY <1>1 DEF JobInv, FencedSinceCutover
<1>9. ChainsPersisted' BY <1>1 DEF JobInv, ChainsPersisted
<1> QED BY <1>2, <1>3, <1>4, <1>5, <1>6, <1>7, <1>8, <1>9 DEF JobInv

(* The grant stays used when neither the phase nor a start is new.             *)
LEMMA GrantFrame ==
  ASSUME JobInv, UNCHANGED <<class, at, job, grant>>, exec' # "idle" => exec # "idle"
  PROVE  GrantIsUsed'
<1>1. UNCHANGED <<Finished, JobPhase, Stateful, Plan(class)>> BY SamePhase
<1> QED BY <1>1 DEF JobInv, GrantIsUsed

(* Binding a specification, a crash of the executor, the fence's own unit and  *)
(* time leave the steps' files and the copies alone.                           *)
LEMMA BookkeepingKeeps ==
  ASSUME JobInv,
         \/ BindPhaseSpec \/ CrashExecutor \/ BeginFence \/ ObserveFence \/ TimePasses
         \/ UNCHANGED jobVars
  PROVE  JobInv'
<1>1. /\ UNCHANGED <<class, at, job, rimg, chain, snap, grant, epochs>>
      /\ exec' # "idle" => exec # "idle"
  BY DEF BindPhaseSpec, CrashExecutor, BeginFence, ObserveFence, TimePasses, jobVars, files, store
<1>2. jobNow \in Nat /\ epochs \in Nat
      /\ lease \in [epoch : Nat, fence : {"none", "intent", "held", "leaving", "released"}]
  BY DEF JobInv, JobTypeOK
<1>3. jobNow' \in Nat
  BY <1>2 DEF BindPhaseSpec, CrashExecutor, BeginFence, ObserveFence, TimePasses, jobVars
<1>4. lease' \in [epoch : Nat, fence : {"none", "intent", "held", "leaving", "released"}]
  BY <1>2 DEF BindPhaseSpec, CrashExecutor, BeginFence, ObserveFence, TimePasses, jobVars, store
<1>5. fenceUnit' = "release" => fenceUnit = "release" \/ Finished
  BY DEF BindPhaseSpec, CrashExecutor, BeginFence, ObserveFence, TimePasses, jobVars
<1>6. GrantIsUsed' BY <1>1, GrantFrame
<1>7. epochs' \in Nat BY <1>1, <1>2
<1> QED BY <1>1, <1>3, <1>4, <1>5, <1>6, <1>7, NoFilesStep

(* The permit uses the grant of a breaking migration before a step starts.     *)
LEMMA AuthorizeBoundPhaseKeeps ==
  ASSUME JobInv, AuthorizeBoundPhase
  PROVE  JobInv'
<1>1. /\ UNCHANGED <<class, at, job, rimg, chain, snap, jobNow, fenceUnit>> /\ ~ Finished
      /\ GrantAvailable /\ grant' = GrantAfterStep /\ IdentityFor(JobPhase)
  BY DEF AuthorizeBoundPhase, files
<1>2. epochs \in Nat /\ jobNow \in Nat
      /\ lease \in [epoch : Nat, fence : {"none", "intent", "held", "leaving", "released"}]
  BY DEF JobInv, JobTypeOK
<1>3. epochs' \in Nat
      /\ lease' \in [epoch : Nat, fence : {"none", "intent", "held", "leaving", "released"}]
  BY <1>1, <1>2 DEF IdentityFor
<1>4. UNCHANGED <<Finished, JobPhase, Stateful, Plan(class)>> BY <1>1, SamePhase
<1>5. GrantIsUsed'
  <2> SUFFICES ASSUME class = "breaking",
                      \/ JobPhase = "migrate"
                      \/ \E y \in Steps : y[1] = "migrate" /\ job[y].start
      PROVE grant' = "migrate"
    BY <1>1, <1>4 DEF GrantIsUsed
  <2>1. CASE JobPhase = "migrate" BY <1>1, <2>1 DEF GrantAfterStep
  <2>2. CASE JobPhase # "migrate"
    <3>1. grant' = grant BY <1>1, <2>2 DEF GrantAfterStep
    <3>2. grant = "migrate" BY <2>2 DEF JobInv, GrantIsUsed
    <3> QED BY <3>1, <3>2
  <2> QED BY <2>1, <2>2
<1>6. jobNow' \in Nat /\ (fenceUnit' = "release" => fenceUnit = "release" \/ Finished)
  BY <1>1, <1>2
<1> QED BY <1>1, <1>3, <1>5, <1>6, NoFilesStep

(* A step is started only when the one before it is done, once, with the start *)
(* record on disk first.                                                       *)
LEMMA StartKeeps ==
  ASSUME JobInv, NEW x \in Steps, StartStep(x) \/ SpawnFails(x)
  PROVE  JobInv'
<1>1. /\ exec = "steps" /\ ~ Finished /\ NextStep(x)
      /\ UNCHANGED <<class, jobNow, at, rimg, epochs, lease, fenceUnit, chain, snap, grant>>
  BY DEF StartStep, SpawnFails
<1>2. job \in [Steps -> JobRows] /\ job[x] \in JobRows /\ FilesSound(job[x])
  BY DEF JobInv, JobTypeOK, StepFilesSound
<1>3. ~ job[x].start BY <1>1 DEF NextStep, ReadyToExecute
<1>4. PICK row : row = IF StartStep(x) THEN [job[x] EXCEPT !.start = TRUE, !.unit = "run"]
                       ELSE [job[x] EXCEPT !.start = TRUE]
  OBVIOUS
<1>5. job' = [job EXCEPT ![x] = row]
  <2>1. CASE StartStep(x)
    <3>1. job' = [[job EXCEPT ![x].start = TRUE] EXCEPT ![x].unit = "run"]
      BY <2>1 DEF StartStep, Started
    <3>2. row = [job[x] EXCEPT !.start = TRUE, !.unit = "run"] BY <1>4, <2>1
    <3> QED BY <1>2, <3>1, <3>2
  <2>2. CASE ~ StartStep(x)
    <3>1. job' = [job EXCEPT ![x].start = TRUE] BY <2>2 DEF SpawnFails, Started
    <3>2. row = [job[x] EXCEPT !.start = TRUE] BY <1>4, <2>2
    <3> QED BY <1>2, <3>1, <3>2
  <2> QED BY <2>1, <2>2
<1>6. /\ row \in JobRows /\ row.start /\ row.applied = job[x].applied /\ row.result = job[x].result
      /\ row.terminal = job[x].terminal /\ row.unit \in {"run", job[x].unit}
  BY <1>2, <1>4 DEF JobRows, UnitStates
<1>7. job[x].unit = "none" /\ job[x].result = "none" /\ job[x].terminal = "none" /\ ~ job[x].applied
  BY <1>2, <1>3 DEF FilesSound
<1>8. FilesSound(row) BY <1>6, <1>7 DEF FilesSound
<1>9. ~ StepDone(job[x]) /\ ~ CompletedExecution(x)
  BY <1>7 DEF StepDone, CompletedExecution
<1>10. exec' # "idle" => exec # "idle" BY <1>1
<1> QED BY <1>1, <1>5, <1>6, <1>7, <1>8, <1>9, <1>10, FilesStep

(* Waiting and cancelling write receipts of a unit; neither forges one.        *)
LEMMA WaitForUnitKeeps ==
  ASSUME JobInv, NEW x \in Steps, WaitForUnit(x)
  PROVE  JobInv'
<1>1. PICK c : c = FinalizeReceipts(x, TRUE) OBVIOUS
<1>2. /\ exec = "wait" /\ job[x].start /\ ~ CompletedExecution(x)
      /\ job' = [job EXCEPT ![x].cleanup = c]
      /\ UNCHANGED <<class, jobNow, at, rimg, epochs, lease, fenceUnit, chain, snap, grant>>
  BY <1>1 DEF WaitForUnit
<1>3. job \in [Steps -> JobRows] /\ job[x] \in JobRows /\ FilesSound(job[x])
  BY DEF JobInv, JobTypeOK, StepFilesSound
<1>4. c \in {"none", "pending", "complete"} BY <1>1, <1>3 DEF FinalizeReceipts, JobRows
<1>5. PICK row : row = [job[x] EXCEPT !.cleanup = c] OBVIOUS
<1>6. job' = [job EXCEPT ![x] = row] BY <1>2, <1>5
<1>7. /\ row \in JobRows /\ row.start = job[x].start /\ row.applied = job[x].applied
      /\ row.result = job[x].result /\ row.terminal = job[x].terminal /\ row.unit = job[x].unit
      /\ job[x].cleanup = "complete" => row.cleanup = "complete"
  BY <1>1, <1>3, <1>4, <1>5 DEF JobRows, FinalizeReceipts
<1>8. FilesSound(row) BY <1>3, <1>7 DEF FilesSound
<1>9. StepDone(job[x]) => StepDone(row) BY <1>7 DEF StepDone
<1>10. exec' # "idle" => exec # "idle" BY <1>2
<1> QED BY <1>2, <1>6, <1>7, <1>8, <1>9, <1>10, FilesStep

(* A unit that is killed at its deadline leaves a step that is not completed.  *)
LEMMA TerminateUnitKeeps ==
  ASSUME JobInv, NEW x \in Steps, TerminateUnit(x)
  PROVE  JobInv'
<1>1. /\ exec = "wait" /\ job[x].start /\ ~ CompletedExecution(x)
      /\ UNCHANGED <<class, jobNow, at, rimg, epochs, lease, fenceUnit, chain, snap, grant>>
  BY DEF TerminateUnit
<1>2. job \in [Steps -> JobRows] /\ job[x] \in JobRows /\ FilesSound(job[x])
  BY DEF JobInv, JobTypeOK, StepFilesSound
<1>3. exec' # "idle" => exec # "idle" BY <1>1
<1>4. CASE /\ Running(x)
           /\ job' = [job EXCEPT ![x].stop = TRUE, ![x].unit = "dead", ![x].terminal = "bad",
                              ![x].cleanup = "complete"]
  <2>1. PICK row : row = [job[x] EXCEPT !.stop = TRUE, !.unit = "dead", !.terminal = "bad",
                                        !.cleanup = "complete"]
    OBVIOUS
  <2>2. job' = [job EXCEPT ![x] = row] BY <1>2, <1>4, <2>1
  <2>3. /\ row \in JobRows /\ row.start = job[x].start /\ row.applied = job[x].applied
        /\ row.result = job[x].result /\ row.terminal = "bad" /\ row.unit = "dead"
    BY <1>2, <2>1 DEF JobRows, UnitStates
  <2>4. FilesSound(row) BY <1>1, <1>2, <2>3 DEF FilesSound
  <2>5. ~ StepDone(job[x]) BY <1>4 DEF StepDone, Running
  <2> QED BY <1>1, <1>3, <2>2, <2>3, <2>4, <2>5, FilesStep
<1>5. CASE job' = [job EXCEPT ![x].stop = TRUE, ![x].cleanup = FinalizeReceipts(x, FALSE)]
  <2>1. PICK c : c = FinalizeReceipts(x, FALSE) OBVIOUS
  <2>2. c \in {"none", "pending", "complete"} BY <1>2, <2>1 DEF FinalizeReceipts, JobRows
  <2>3. PICK row : row = [job[x] EXCEPT !.stop = TRUE, !.cleanup = c] OBVIOUS
  <2>4. job' = [job EXCEPT ![x] = row] BY <1>2, <1>5, <2>1, <2>3
  <2>5. /\ row \in JobRows /\ row.start = job[x].start /\ row.applied = job[x].applied
        /\ row.result = job[x].result /\ row.terminal = job[x].terminal /\ row.unit = job[x].unit
        /\ job[x].cleanup = "complete" => row.cleanup = "complete"
    BY <1>2, <2>1, <2>2, <2>3 DEF JobRows, FinalizeReceipts
  <2>6. FilesSound(row) BY <1>2, <2>5 DEF FilesSound
  <2>7. StepDone(job[x]) => StepDone(row) BY <2>5 DEF StepDone
  <2> QED BY <1>1, <1>3, <2>4, <2>5, <2>6, <2>7, FilesStep
<1> QED BY <1>4, <1>5 DEF TerminateUnit

(* The unit publishes its pending files after the step's effect.               *)
LEMMA UnitPublishesKeeps ==
  ASSUME JobInv, NEW x \in Steps, UnitPublishes(x)
  PROVE  JobInv'
<1>1. UNCHANGED <<class, jobNow, at, exec, rimg, epochs, lease, fenceUnit, chain, snap, grant>>
  BY DEF UnitPublishes, store
<1>2. job \in [Steps -> JobRows] /\ job[x] \in JobRows /\ FilesSound(job[x])
  BY DEF JobInv, JobTypeOK, StepFilesSound
<1>3. PICK u \in {"pending", "published"}, r \in {"pending", "final"} :
         /\ job[x].unit \in {"applied", "pending"}
         /\ job' = [job EXCEPT ![x].unit = u, ![x].result = r]
  BY DEF UnitPublishes
<1>4. PICK row : row = [job[x] EXCEPT !.unit = u, !.result = r] OBVIOUS
<1>5. job' = [job EXCEPT ![x] = row] BY <1>2, <1>3, <1>4
<1>6. /\ row \in JobRows /\ row.start = job[x].start /\ row.applied = job[x].applied
      /\ row.terminal = job[x].terminal /\ row.unit = u
  BY <1>2, <1>4 DEF JobRows, UnitStates
<1>7. job[x].applied /\ job[x].start /\ job[x].terminal = "none"
  BY <1>2, <1>3 DEF FilesSound
<1>8. FilesSound(row) BY <1>6, <1>7 DEF FilesSound
<1>9. ~ StepDone(job[x]) /\ ~ CompletedExecution(x)
  BY <1>7 DEF StepDone, CompletedExecution
<1> QED BY <1>1, <1>5, <1>6, <1>7, <1>8, <1>9, FilesStep

(* Whatever record the end of a unit leaves, the step's files stay sound.        *)
LEMMA JobUnitEndsKeeps ==
  ASSUME JobInv, NEW x \in Steps, JobUnitEnds(x)
  PROVE  JobInv'
<1>1. /\ UNCHANGED <<class, jobNow, at, exec, rimg, epochs, lease, fenceUnit, chain, snap, grant>>
      /\ Running(x)
  BY DEF JobUnitEnds, store
<1>2. job \in [Steps -> JobRows] /\ job[x] \in JobRows /\ FilesSound(job[x])
  BY DEF JobInv, JobTypeOK, StepFilesSound
<1>3. PICK t \in {"ok", "bad", "none"} :
         job' = [job EXCEPT ![x].unit = "dead", ![x].terminal = t]
  BY DEF JobUnitEnds, TerminalOutcome
<1>4. PICK row : row = [job[x] EXCEPT !.unit = "dead", !.terminal = t] OBVIOUS
<1>5. job' = [job EXCEPT ![x] = row] BY <1>2, <1>3, <1>4
<1>6. /\ row \in JobRows /\ row.start = job[x].start /\ row.applied = job[x].applied
      /\ row.result = job[x].result /\ row.unit = "dead"
  BY <1>2, <1>4 DEF JobRows, UnitStates
<1>7. job[x].start /\ job[x].terminal = "none" /\ job[x].unit \notin {"none", "dead"}
  BY <1>1, <1>2 DEF FilesSound, Running
<1>8. FilesSound(row) BY <1>2, <1>6, <1>7 DEF FilesSound
<1>9. ~ StepDone(job[x]) /\ ~ CompletedExecution(x)
  BY <1>7 DEF StepDone, CompletedExecution
<1> QED BY <1>1, <1>5, <1>6, <1>7, <1>8, <1>9, FilesStep

AppRows ==
  [mode : {"normal", "draining", "fenced"}, active : Nat, last : Nat, busy : BOOLEAN,
   data : Nat, schema : Nat]

(* The row of a step that took effect.                                         *)
LEMMA AppliedRow ==
  ASSUME JobInv, NEW x \in Steps, job[x].unit = "run", job' = Applied(x)
  PROVE  \E row \in JobRows :
           /\ job' = [job EXCEPT ![x] = row] /\ row.start = job[x].start /\ row.start
           /\ row.applied /\ row.unit = "applied" /\ row.result = job[x].result
           /\ row.terminal = job[x].terminal /\ row.terminal = "none"
<1>1. job \in [Steps -> JobRows] /\ job[x] \in JobRows /\ FilesSound(job[x])
  BY DEF JobInv, JobTypeOK, StepFilesSound
<1>2. PICK row : row = [job[x] EXCEPT !.applied = TRUE, !.unit = "applied"] OBVIOUS
<1>3. job' = [job EXCEPT ![x] = row] BY <1>1, <1>2 DEF Applied
<1>4. /\ row \in JobRows /\ row.start = job[x].start
      /\ row.applied /\ row.unit = "applied" /\ row.result = job[x].result
      /\ row.terminal = job[x].terminal
  BY <1>1, <1>2 DEF JobRows, UnitStates
<1>5. job[x].start /\ job[x].terminal = "none" BY <1>1 DEF FilesSound
<1> QED BY <1>3, <1>4, <1>5

(* A unit acts on the application or on its copy, or takes effect.             *)
LEMMA EffectStep ==
  ASSUME JobInv, NEW x \in Steps, job[x].unit = "run", job' = job \/ job' = Applied(x),
         UNCHANGED <<class, jobNow, at, exec, epochs, lease, fenceUnit, chain, grant>>,
         rimg' \in AppRows, snap' \in [BackupKinds -> ChainRows],
         CopyFollowsSteps', FencedSinceCutover',
         Stateful /\ at > 3 =>
           snap'["cutover"].taken /\ snap'["cutover"].data = snap["cutover"].data
  PROVE  JobInv'
<1>1. UNCHANGED <<Finished, JobPhase, Stateful, Plan(class)>> BY SamePhase
<1>2. job \in [Steps -> JobRows] /\ job[x] \in JobRows /\ FilesSound(job[x])
  BY DEF JobInv, JobTypeOK, StepFilesSound
<1>3. PICK row \in JobRows :
        /\ job' = [job EXCEPT ![x] = row] /\ FilesSound(row) /\ row.start = job[x].start
        /\ row.unit # "dead" /\ row.unit # "none"
  <2>1. CASE job' = job
    <3>1. job' = [job EXCEPT ![x] = job[x]] BY <1>2, <2>1
    <3> QED BY <1>2, <3>1
  <2>2. CASE job' = Applied(x)
    <3>1. PICK row \in JobRows :
           /\ job' = [job EXCEPT ![x] = row] /\ row.start = job[x].start /\ row.start
           /\ row.applied /\ row.unit = "applied" /\ row.result = job[x].result
           /\ row.terminal = job[x].terminal /\ row.terminal = "none"
      BY <2>2, AppliedRow
    <3>2. FilesSound(row) BY <3>1 DEF FilesSound
    <3> QED BY <3>1, <3>2
  <2> QED BY <2>1, <2>2
<1>4. JobTypeOK' BY <1>2, <1>3 DEF JobInv, JobTypeOK, AppRows
<1>5. job[x].terminal = "none" /\ job[x].start BY <1>2 DEF FilesSound
<1>6. ~ StepDone(job[x]) /\ ~ CompletedExecution(x)
  BY <1>5 DEF StepDone, CompletedExecution
<1>7. StepFilesSound' /\ StepsInOrder' /\ StartedPhases' /\ PhasesDone'
  BY <1>3, <1>5, <1>6, JobRowStep
<1>8. ChainsPersisted' BY <1>1 DEF JobInv, ChainsPersisted
<1>9. GrantIsUsed'
  <2>1. \A y \in Steps : job'[y].start = job[y].start BY <1>2, <1>3
  <2> QED BY <1>1, <2>1 DEF JobInv, GrantIsUsed
<1> QED BY <1>4, <1>7, <1>8, <1>9 DEF JobInv

(* The application alone changes.                                              *)
LEMMA AppStep ==
  ASSUME JobInv,
         UNCHANGED <<class, jobNow, at, exec, job, epochs, lease, fenceUnit, chain, snap, grant>>,
         rimg' \in AppRows, FencedSinceCutover'
  PROVE  JobInv'
<1>1. UNCHANGED <<Finished, JobPhase, Stateful, Plan(class)>> BY SamePhase
<1>2. JobTypeOK' BY DEF JobInv, JobTypeOK, AppRows
<1>3. StepFilesSound' BY DEF JobInv, StepFilesSound
<1>4. StepsInOrder' BY DEF JobInv, StepsInOrder, CompletedExecution
<1>5. StartedPhases' BY <1>1 DEF JobInv, StartedPhases
<1>6. PhasesDone' BY <1>1 DEF JobInv, PhasesDone, StepsOf, Running
<1>7. CopyFollowsSteps' BY DEF JobInv, CopyFollowsSteps
<1>8. ChainsPersisted' BY <1>1 DEF JobInv, ChainsPersisted
<1>9. GrantIsUsed' BY <1>1 DEF JobInv, GrantIsUsed
<1> QED BY <1>2, <1>3, <1>4, <1>5, <1>6, <1>7, <1>8, <1>9 DEF JobInv

(* A fenced application does not change until the plan is finished.            *)
LEMMA FenceFrame ==
  ASSUME JobInv, UNCHANGED <<class, at, fenceUnit, snap>>,
         rimg.mode = "fenced" =>
           \/ rimg'.mode = rimg.mode /\ rimg'.busy = rimg.busy /\ rimg'.data = rimg.data
           \/ rimg'.mode # "fenced" /\ Finished,
         rimg'.mode = "fenced" => ~ rimg'.busy
  PROVE  FencedSinceCutover'
<1>1. UNCHANGED <<Finished, JobPhase, Stateful, Plan(class)>> BY SamePhase
<1> QED BY <1>1 DEF JobInv, FencedSinceCutover

(* Writes of the application happen outside a fence only.                      *)
LEMMA WriteKeeps ==
  ASSUME JobInv, Write
  PROVE  JobInv'
<1>1. /\ UNCHANGED <<class, jobNow, at, exec, job, epochs, lease, fenceUnit, chain, snap, grant>>
      /\ \/ rimg.mode = "normal" /\ ~rimg.busy /\ rimg' = [rimg EXCEPT !.busy = TRUE]
         \/ rimg.busy /\ rimg' = [rimg EXCEPT !.busy = FALSE, !.data = @ + 1]
  BY DEF Write, files, store
<1>2. rimg \in AppRows /\ (rimg.mode = "fenced" => ~ rimg.busy)
  BY DEF JobInv, JobTypeOK, AppRows, FencedSinceCutover
<1>3. rimg' \in AppRows /\ rimg'.mode = rimg.mode /\ rimg.mode # "fenced"
  <2>1. CASE rimg.mode = "normal" /\ rimg' = [rimg EXCEPT !.busy = TRUE]
    BY <1>2, <2>1 DEF AppRows
  <2>2. CASE rimg.busy /\ rimg' = [rimg EXCEPT !.busy = FALSE, !.data = @ + 1]
    <3>1. rimg.data + 1 \in Nat BY <1>2 DEF AppRows
    <3> QED BY <1>2, <2>2, <3>1 DEF AppRows
  <2> QED BY <1>1, <2>1, <2>2
<1>4. FencedSinceCutover' BY <1>1, <1>3, FenceFrame
<1> QED BY <1>1, <1>3, <1>4, AppStep

(* Only the release of a finished attempt takes a fence off.                   *)
LEMMA TransitionFenceKeeps ==
  ASSUME JobInv, TransitionFence
  PROVE  JobInv'
<1>1. UNCHANGED <<class, jobNow, at, exec, job, epochs, lease, fenceUnit, chain, snap, grant>>
  BY DEF TransitionFence, files, store
<1>2. rimg \in AppRows BY DEF JobInv, JobTypeOK, AppRows
<1>3. CASE IsDraining(lease.epoch) /\ rimg' = [rimg EXCEPT !.mode = "fenced"]
  <2>1. rimg' \in AppRows /\ rimg.mode = "draining" /\ ~ rimg.busy /\ ~ rimg'.busy
    BY <1>2, <1>3 DEF AppRows, IsDraining, Quiet
  <2>2. FencedSinceCutover' BY <1>1, <2>1, FenceFrame
  <2> QED BY <1>1, <2>1, <2>2, AppStep
<1>4. CASE fenceUnit = "release" /\ rimg' = [rimg EXCEPT !.mode = "draining"]
  <2>1. Finished BY <1>4 DEF JobInv, FencedSinceCutover
  <2>2. rimg' \in AppRows /\ rimg'.mode # "fenced" BY <1>2, <1>4 DEF AppRows
  <2>3. FencedSinceCutover' BY <1>1, <2>1, <2>2, FenceFrame
  <2> QED BY <1>1, <2>2, <2>3, AppStep
<1>5. CASE IsDraining(lease.epoch) /\ rimg' = Resumed
  <2>1. rimg' \in AppRows /\ rimg'.mode # "fenced" /\ rimg.mode # "fenced"
    BY <1>2, <1>5 DEF AppRows, IsDraining, Resumed
  <2>2. FencedSinceCutover' BY <1>1, <2>1, FenceFrame
  <2> QED BY <1>1, <2>1, <2>2, AppStep
<1> QED BY <1>3, <1>4, <1>5 DEF TransitionFence

(* A step that is neither a copy, an encryption nor an upload leaves what the  *)
(* copies say.                                                                 *)
LEMMA CopiesApplied ==
  ASSUME JobInv, NEW x \in Steps, job[x].unit = "run", job' = Applied(x),
         Profile(x) \notin {"capture", "encrypt", "upload"}, UNCHANGED snap
  PROVE  CopyFollowsSteps'
<1>1. PICK row \in JobRows : job' = [job EXCEPT ![x] = row] BY AppliedRow
<1>2. ASSUME NEW k \in BackupKinds, NEW i \in {1, 2, 3} PROVE job'[<<k, i>>] = job[<<k, i>>]
  <2>1. <<k, i>> \in Steps /\ Profile(<<k, i>>) \in {"capture", "encrypt", "upload"}
    BY BackupStepFacts
  <2>2. <<k, i>> # x BY <2>1
  <2> QED BY <1>1, <2>1, <2>2 DEF JobInv, JobTypeOK
<1>3. \A k \in BackupKinds : /\ job'[<<k, 1>>] = job[<<k, 1>>] /\ job'[<<k, 2>>] = job[<<k, 2>>]
                             /\ job'[<<k, 3>>] = job[<<k, 3>>]
  BY <1>2
<1> QED BY <1>3 DEF JobInv, CopyFollowsSteps

(* While the copy is being taken, nothing that builds on it has started.       *)
LEMMA CopyComesFirst ==
  ASSUME JobInv, NEW k \in BackupKinds, job[<<k, 1>>].unit = "run"
  PROVE  ~ job[<<k, 2>>].applied /\ ~ job[<<k, 3>>].applied
<1>1. <<k, 1>> \in Steps /\ <<k, 2>> \in Steps /\ <<k, 3>> \in Steps BY BackupStepFacts
<1>2. FilesSound(job[<<k, 1>>]) /\ FilesSound(job[<<k, 2>>]) /\ FilesSound(job[<<k, 3>>])
  BY <1>1 DEF JobInv, StepFilesSound
<1>3. ~ CompletedExecution(<<k, 1>>) BY <1>2 DEF FilesSound, CompletedExecution
<1>4. ~ job[<<k, 2>>].start /\ ~ job[<<k, 3>>].start
  BY <1>1, <1>3 DEF JobInv, StepsInOrder
<1> QED BY <1>2, <1>4 DEF FilesSound

(* A step whose unit runs is of the current phase.                             *)
LEMMA RunningIsCurrent ==
  ASSUME JobInv, NEW x \in Steps, Running(x)
  PROVE  ~ Finished /\ at \in 1..Len(Plan(class)) /\ Plan(class)[at] = x[1]
<1>1. at \in Nat \ {0} /\ class \in {"code", "compatible", "breaking"} /\ FilesSound(job[x])
  BY DEF JobInv, JobTypeOK, StepFilesSound
<1>2. job[x].start BY <1>1 DEF FilesSound, Running
<1>3. PICK i \in 1..Len(Plan(class)) : i <= at /\ Plan(class)[i] = x[1]
  BY <1>2 DEF JobInv, StartedPhases
<1>4. ~(i < at)
  <2> SUFFICES ASSUME i < at PROVE FALSE OBVIOUS
  <2>1. x \in StepsOf(Plan(class)[i]) BY <1>3 DEF StepsOf
  <2>2. ~ Running(x) BY <2>1 DEF JobInv, PhasesDone
  <2> QED BY <2>2 DEF Running
<1>5. i = at BY <1>1, <1>3, <1>4, PlanFacts
<1> QED BY <1>1, <1>3, <1>5, PlanFacts DEF Finished

(* A copy taken now.                                                           *)
LEMMA CapturedFacts ==
  ASSUME JobInv, NEW k \in BackupKinds, NEW e \in Nat
  PROVE  /\ Captured(k, e) \in [BackupKinds -> ChainRows]
         /\ Captured(k, e)[k].taken /\ Captured(k, e)[k].data = rimg.data
         /\ \A j \in BackupKinds \ {k} : Captured(k, e)[j] = snap[j]
<1>1. rimg.data \in Nat /\ jobNow \in Nat /\ snap \in [BackupKinds -> ChainRows]
  BY DEF JobInv, JobTypeOK
<1>2. PICK c : c = [NoChain EXCEPT !.taken = TRUE, !.data = rimg.data, !.time = jobNow, !.epoch = e]
  OBVIOUS
<1>3. c = [taken |-> TRUE, data |-> rimg.data, time |-> jobNow, epoch |-> e, sealed |-> FALSE,
           remote |-> "none"]
  BY <1>2 DEF NoChain
<1>4. c \in ChainRows /\ c.taken /\ c.data = rimg.data BY <1>1, <1>3 DEF ChainRows
<1>5. Captured(k, e) = [snap EXCEPT ![k] = c] BY <1>2 DEF Captured
<1> QED BY <1>1, <1>4, <1>5

(* The first snapshot of a backup is of the state it finds.                    *)
LEMMA CaptureBaseKeeps ==
  ASSUME JobInv, NEW x \in Steps, job[x].unit = "run", CaptureBase(x),
         UNCHANGED <<class, jobNow, at, exec, epochs, lease, fenceUnit, chain, grant>>
  PROVE  JobInv'
<1>1. x = <<"backup", 1>> /\ "backup" \in BackupKinds /\ "cutover" \in BackupKinds
  BY DEF CaptureBase, BackupKinds
<1>2. /\ rimg \in AppRows /\ snap \in [BackupKinds -> ChainRows] /\ lease.epoch \in Nat
      /\ class \in {"code", "compatible", "breaking"} /\ job \in [Steps -> JobRows]
  BY DEF JobInv, JobTypeOK, AppRows
<1>3. Plan(class)[at] = "backup" /\ at \in 1..Len(Plan(class)) BY <1>1, RunningIsCurrent DEF Running
<1>4. Stateful => ~(at > 3) BY <1>2, <1>3, PlanIndex
<1>5. ~ job[<<"backup", 2>>].applied /\ ~ job[<<"backup", 3>>].applied
  BY <1>1, CopyComesFirst
<1>6. CASE AllowsNewIdentity(lease.epoch) /\ rimg' = Drained(lease.epoch) /\ UNCHANGED <<job, snap>>
  <2>1. rimg' \in AppRows /\ rimg.mode # "fenced" /\ rimg'.mode # "fenced"
    BY <1>2, <1>6 DEF AllowsNewIdentity, Drained, AppRows
  <2>2. FencedSinceCutover' BY <1>6, <2>1, FenceFrame
  <2> QED BY <1>6, <2>1, <2>2, AppStep
<1>7. CASE /\ IsDraining(lease.epoch) /\ ~snap["backup"].taken
           /\ snap' = Captured("backup", 0) /\ UNCHANGED <<job, rimg>>
  <2>1. /\ snap' \in [BackupKinds -> ChainRows] /\ snap'["backup"].taken
        /\ snap'["cutover"] = snap["cutover"]
    BY <1>1, <1>7, CapturedFacts DEF BackupKinds
  <2>2. CopyFollowsSteps'
    BY <1>5, <1>7, <2>1 DEF JobInv, CopyFollowsSteps, BackupKinds
  <2>3. FencedSinceCutover'
    <3>1. UNCHANGED <<Finished, JobPhase, Stateful, Plan(class)>> BY SamePhase
    <3> QED BY <1>7, <2>1, <3>1 DEF JobInv, FencedSinceCutover
  <2> QED BY <1>2, <1>4, <1>7, <2>1, <2>2, <2>3, EffectStep
<1>8. CASE /\ IsDraining(lease.epoch) /\ snap["backup"].taken
           /\ rimg' = Resumed /\ job' = Applied(x) /\ UNCHANGED snap
  <2>1. rimg' \in AppRows /\ rimg.mode # "fenced" /\ rimg'.mode # "fenced"
    BY <1>2, <1>8 DEF IsDraining, Resumed, AppRows
  <2>2. FencedSinceCutover' BY <1>8, <2>1, FenceFrame
  <2>3. PICK row \in JobRows : job' = [job EXCEPT ![x] = row] BY <1>8, AppliedRow
  <2>4. \A y \in Steps \ {x} : job'[y] = job[y] BY <1>2, <2>3
  <2>5. CopyFollowsSteps'
    <3> SUFFICES ASSUME NEW k \in BackupKinds
        PROVE /\ job'[<<k, 1>>].applied => snap[k].taken
              /\ job'[<<k, 2>>].applied => snap[k].sealed
              /\ job'[<<k, 3>>].applied => snap[k].remote # "none"
      BY <1>8 DEF CopyFollowsSteps
    <3>1. <<k, 1>> \in Steps /\ <<k, 2>> \in Steps /\ <<k, 3>> \in Steps BY BackupStepFacts
    <3>2. <<k, 2>> # x /\ <<k, 3>> # x BY <1>1
    <3>3. job'[<<k, 2>>] = job[<<k, 2>>] /\ job'[<<k, 3>>] = job[<<k, 3>>]
      BY <2>4, <3>1, <3>2
    <3>4. CASE k = "backup" BY <1>8, <3>3, <3>4 DEF JobInv, CopyFollowsSteps
    <3>5. CASE k = "cutover"
      <4>1. <<k, 1>> # x BY <1>1, <3>5
      <4>2. job'[<<k, 1>>] = job[<<k, 1>>] BY <2>4, <3>1, <4>1
      <4> QED BY <3>3, <4>2 DEF JobInv, CopyFollowsSteps
    <3> QED BY <3>4, <3>5 DEF BackupKinds
  <2> QED BY <1>2, <1>4, <1>8, <2>1, <2>2, <2>5, EffectStep
<1> QED BY <1>6, <1>7, <1>8 DEF CaptureBase

(* The cutover copy is taken of a fenced application.                          *)
LEMMA CaptureCutoverKeeps ==
  ASSUME JobInv, NEW x \in Steps, job[x].unit = "run", CaptureCutover(x),
         UNCHANGED <<class, jobNow, at, exec, epochs, lease, fenceUnit, chain, grant>>
  PROVE  JobInv'
<1>1. /\ x = <<"cutover", 1>> /\ "cutover" \in BackupKinds /\ IsFenced(lease.epoch)
      /\ snap' = Captured("cutover", lease.epoch) /\ job' = Applied(x) /\ UNCHANGED rimg
  BY DEF CaptureCutover, BackupKinds
<1>2. /\ rimg \in AppRows /\ lease.epoch \in Nat
      /\ class \in {"code", "compatible", "breaking"} /\ job \in [Steps -> JobRows]
  BY DEF JobInv, JobTypeOK, AppRows
<1>3. Plan(class)[at] = "cutover" /\ at \in 1..Len(Plan(class)) BY <1>1, RunningIsCurrent DEF Running
<1>4. Stateful => ~(at > 3) BY <1>2, <1>3, PlanIndex
<1>5. ~ job[<<"cutover", 2>>].applied /\ ~ job[<<"cutover", 3>>].applied
  BY <1>1, CopyComesFirst
<1>6. /\ snap' \in [BackupKinds -> ChainRows] /\ snap'["cutover"].taken
      /\ snap'["cutover"].data = rimg.data /\ snap'["backup"] = snap["backup"]
  BY <1>1, <1>2, CapturedFacts DEF BackupKinds
<1>7. PICK row \in JobRows : job' = [job EXCEPT ![x] = row] BY <1>1, AppliedRow
<1>8. \A y \in Steps \ {x} : job'[y] = job[y] BY <1>2, <1>7
<1>9. CopyFollowsSteps'
  <2> SUFFICES ASSUME NEW k \in BackupKinds
      PROVE /\ job'[<<k, 1>>].applied => snap'[k].taken
            /\ job'[<<k, 2>>].applied => snap'[k].sealed
            /\ job'[<<k, 3>>].applied => snap'[k].remote # "none"
    BY DEF CopyFollowsSteps
  <2>1. <<k, 1>> \in Steps /\ <<k, 2>> \in Steps /\ <<k, 3>> \in Steps BY BackupStepFacts
  <2>2. <<k, 2>> # x /\ <<k, 3>> # x BY <1>1
  <2>3. job'[<<k, 2>>] = job[<<k, 2>>] /\ job'[<<k, 3>>] = job[<<k, 3>>]
    BY <1>8, <2>1, <2>2
  <2>4. CASE k = "cutover" BY <1>5, <1>6, <2>3, <2>4
  <2>5. CASE k = "backup"
    <3>1. <<k, 1>> # x BY <1>1, <2>5
    <3>2. job'[<<k, 1>>] = job[<<k, 1>>] BY <1>8, <2>1, <3>1
    <3> QED BY <1>6, <2>3, <2>5, <3>2 DEF JobInv, CopyFollowsSteps
  <2> QED BY <2>4, <2>5 DEF BackupKinds
<1>10. FencedSinceCutover'
  <2>1. UNCHANGED <<Finished, JobPhase, Stateful, Plan(class)>> BY SamePhase
  <2> QED BY <1>1, <1>6, <2>1 DEF JobInv, FencedSinceCutover, IsFenced
<1> QED BY <1>1, <1>2, <1>4, <1>6, <1>9, <1>10, EffectStep

(* A field of a copy other than what was copied changes.                       *)
LEMMA CopyFieldStep ==
  ASSUME JobInv, NEW x \in Steps, job[x].unit = "run", job' = job \/ job' = Applied(x),
         NEW k \in BackupKinds, NEW row \in ChainRows, snap' = [snap EXCEPT ![k] = row],
         row.taken = snap[k].taken, row.data = snap[k].data, CopyFollowsSteps',
         UNCHANGED <<class, jobNow, at, exec, rimg, epochs, lease, fenceUnit, chain, grant>>
  PROVE  JobInv'
<1>1. rimg \in AppRows /\ snap \in [BackupKinds -> ChainRows] BY DEF JobInv, JobTypeOK, AppRows
<1>2. /\ snap' \in [BackupKinds -> ChainRows]
      /\ snap'["cutover"].taken = snap["cutover"].taken
      /\ snap'["cutover"].data = snap["cutover"].data
  BY <1>1 DEF BackupKinds
<1>3. FencedSinceCutover'
  <2>1. UNCHANGED <<Finished, JobPhase, Stateful, Plan(class)>> BY SamePhase
  <2> QED BY <1>2, <2>1 DEF JobInv, FencedSinceCutover
<1>4. Stateful /\ at > 3 => snap'["cutover"].taken BY <1>2 DEF JobInv, ChainsPersisted
<1> QED BY <1>1, <1>2, <1>3, <1>4, EffectStep

(* Encryption keeps the data of the copy.                                      *)
LEMMA EncryptBackupKeeps ==
  ASSUME JobInv, NEW x \in Steps, job[x].unit = "run", EncryptBackup(x),
         UNCHANGED <<class, jobNow, at, exec, epochs, lease, fenceUnit, chain, grant>>
  PROVE  JobInv'
<1>1. PICK k \in BackupKinds : k = x[1] /\ x = <<k, 2>> BY ProfileFacts DEF EncryptBackup
<1>2. snap' = [snap EXCEPT ![k].sealed = TRUE] /\ job' = Applied(x) /\ UNCHANGED rimg
  BY <1>1 DEF EncryptBackup, SealArchive
<1>3. snap \in [BackupKinds -> ChainRows] /\ job \in [Steps -> JobRows] BY DEF JobInv, JobTypeOK
<1>4. PICK row : row = [snap[k] EXCEPT !.sealed = TRUE] OBVIOUS
<1>5. /\ row \in ChainRows /\ row.taken = snap[k].taken /\ row.data = snap[k].data /\ row.sealed
      /\ row.remote = snap[k].remote
  BY <1>3, <1>4 DEF ChainRows
<1>6. snap' = [snap EXCEPT ![k] = row] BY <1>2, <1>4
<1>7. PICK r \in JobRows : job' = [job EXCEPT ![x] = r] BY <1>2, AppliedRow
<1>8. \A y \in Steps \ {x} : job'[y] = job[y] BY <1>3, <1>7
<1>9. CopyFollowsSteps'
  <2> SUFFICES ASSUME NEW j \in BackupKinds
      PROVE /\ job'[<<j, 1>>].applied => snap'[j].taken
            /\ job'[<<j, 2>>].applied => snap'[j].sealed
            /\ job'[<<j, 3>>].applied => snap'[j].remote # "none"
    BY DEF CopyFollowsSteps
  <2>1. <<j, 1>> \in Steps /\ <<j, 2>> \in Steps /\ <<j, 3>> \in Steps BY BackupStepFacts
  <2>2. job'[<<j, 1>>] = job[<<j, 1>>] /\ job'[<<j, 3>>] = job[<<j, 3>>]
    BY <1>1, <1>8, <2>1
  <2>3. CASE j = k
    <3>1. snap'[j] = row BY <1>3, <1>6, <2>3
    <3> QED BY <1>5, <2>2, <2>3, <3>1 DEF JobInv, CopyFollowsSteps
  <2>4. CASE j # k
    <3>1. snap'[j] = snap[j] BY <1>3, <1>6, <2>4
    <3>2. job'[<<j, 2>>] = job[<<j, 2>>] BY <1>1, <1>8, <2>1, <2>4
    <3> QED BY <2>2, <3>1, <3>2 DEF JobInv, CopyFollowsSteps
  <2> QED BY <2>3, <2>4
<1> QED BY <1>2, <1>5, <1>6, <1>9, CopyFieldStep

(* Another remote object, when there was none or when it was good.             *)
LEMMA RemoteRow ==
  ASSUME JobInv, NEW k \in BackupKinds, NEW m \in {"good", "bad"},
         snap' = [snap EXCEPT ![k].remote = m]
  PROVE  \E row \in ChainRows :
           /\ snap' = [snap EXCEPT ![k] = row] /\ row.taken = snap[k].taken
           /\ row.data = snap[k].data /\ row.sealed = snap[k].sealed /\ row.remote = m
<1>1. snap \in [BackupKinds -> ChainRows] BY DEF JobInv, JobTypeOK
<1>2. PICK row : row = [snap[k] EXCEPT !.remote = m] OBVIOUS
<1>3. /\ row \in ChainRows /\ row.taken = snap[k].taken
      /\ row.data = snap[k].data /\ row.sealed = snap[k].sealed /\ row.remote = m
  BY <1>1, <1>2 DEF ChainRows
<1>4. snap' = [snap EXCEPT ![k] = row] BY <1>2
<1> QED BY <1>3, <1>4

(* An upload changes nothing of the local copy.                                *)
LEMMA RemoteCopies ==
  ASSUME JobInv, NEW k \in BackupKinds, NEW m \in {"good", "bad"},
         snap' = [snap EXCEPT ![k].remote = m], UNCHANGED job
  PROVE  CopyFollowsSteps'
<1>1. PICK row \in ChainRows :
           /\ snap' = [snap EXCEPT ![k] = row] /\ row.taken = snap[k].taken
           /\ row.data = snap[k].data /\ row.sealed = snap[k].sealed /\ row.remote = m
  BY RemoteRow
<1>2. snap \in [BackupKinds -> ChainRows] BY DEF JobInv, JobTypeOK
<1>3. \A j \in BackupKinds : snap'[j] = IF j = k THEN row ELSE snap[j] BY <1>1, <1>2
<1> QED BY <1>1, <1>3 DEF JobInv, CopyFollowsSteps

(* An upload may store a damaged object: only the readback makes it count.     *)
LEMMA UploadBackupKeeps ==
  ASSUME JobInv, NEW x \in Steps, job[x].unit = "run", UploadBackup(x),
         UNCHANGED <<class, jobNow, at, exec, epochs, lease, fenceUnit, chain, grant>>
  PROVE  JobInv'
<1>1. PICK k \in BackupKinds : k = x[1] /\ x = <<k, 3>> BY ProfileFacts DEF UploadBackup
<1>2. UNCHANGED rimg BY DEF UploadBackup
<1>3. /\ snap \in [BackupKinds -> ChainRows] /\ job \in [Steps -> JobRows]
      /\ rimg \in AppRows /\ (Stateful /\ at > 3 => snap["cutover"].taken)
  BY DEF JobInv, JobTypeOK, AppRows, ChainsPersisted
<1>4. CASE UNCHANGED job /\ \E m \in {"good", "bad"} : snap' = [snap EXCEPT ![k].remote = m]
  <2>1. PICK m \in {"good", "bad"} : snap' = [snap EXCEPT ![k].remote = m] BY <1>4
  <2>2. CopyFollowsSteps' BY <1>4, <2>1, RemoteCopies
  <2>3. PICK row \in ChainRows :
           /\ snap' = [snap EXCEPT ![k] = row] /\ row.taken = snap[k].taken
           /\ row.data = snap[k].data /\ row.sealed = snap[k].sealed /\ row.remote = m
    BY <2>1, RemoteRow
  <2> QED BY <1>2, <1>4, <2>2, <2>3, CopyFieldStep
<1>5. CASE VerifyRemoteCiphertext(k) /\ job' = Applied(x) /\ UNCHANGED snap
  <2>1. PICK r \in JobRows : job' = [job EXCEPT ![x] = r] BY <1>5, AppliedRow
  <2>2. \A y \in Steps \ {x} : job'[y] = job[y] BY <1>3, <2>1
  <2>3. CopyFollowsSteps'
    <3> SUFFICES ASSUME NEW j \in BackupKinds
        PROVE /\ job'[<<j, 1>>].applied => snap[j].taken
              /\ job'[<<j, 2>>].applied => snap[j].sealed
              /\ job'[<<j, 3>>].applied => snap[j].remote # "none"
      BY <1>5 DEF CopyFollowsSteps
    <3>1. <<j, 1>> \in Steps /\ <<j, 2>> \in Steps /\ <<j, 3>> \in Steps BY BackupStepFacts
    <3>2. job'[<<j, 1>>] = job[<<j, 1>>] /\ job'[<<j, 2>>] = job[<<j, 2>>]
      BY <1>1, <2>2, <3>1
    <3>3. job'[<<j, 3>>].applied => snap[j].remote # "none"
      <4>1. CASE j = k BY <1>5, <4>1 DEF VerifyRemoteCiphertext
      <4>2. CASE j # k
        <5>1. <<j, 3>> # x BY <1>1, <4>2
        <5>2. job'[<<j, 3>>] = job[<<j, 3>>] BY <2>2, <3>1, <5>1
        <5> QED BY <5>2 DEF JobInv, CopyFollowsSteps
      <4> QED BY <4>1, <4>2
    <3> QED BY <3>2, <3>3 DEF JobInv, CopyFollowsSteps
  <2>4. FencedSinceCutover'
    <3>1. UNCHANGED <<Finished, JobPhase, Stateful, Plan(class)>> BY SamePhase
    <3> QED BY <1>2, <1>5, <3>1 DEF JobInv, FencedSinceCutover
  <2> QED BY <1>2, <1>3, <1>5, <2>3, <2>4, EffectStep
<1> QED BY <1>1, <1>4, <1>5 DEF UploadBackup

(* The steps that take effect without touching a copy.                         *)
LEMMA PlainEffectKeeps ==
  ASSUME JobInv, NEW x \in Steps, job[x].unit = "run", job' = Applied(x), UNCHANGED snap,
         Profile(x) \notin {"capture", "encrypt", "upload"}, rimg' \in AppRows,
         rimg'.mode = rimg.mode, rimg'.busy = rimg.busy, rimg'.data = rimg.data,
         UNCHANGED <<class, jobNow, at, exec, epochs, lease, fenceUnit, chain, grant>>
  PROVE  JobInv'
<1>1. CopyFollowsSteps' BY CopiesApplied
<1>2. rimg'.mode = "fenced" => ~ rimg'.busy BY DEF JobInv, FencedSinceCutover
<1>3. FencedSinceCutover' BY <1>2, FenceFrame
<1>4. snap \in [BackupKinds -> ChainRows] /\ (Stateful /\ at > 3 => snap["cutover"].taken)
  BY DEF JobInv, JobTypeOK, ChainsPersisted
<1> QED BY <1>1, <1>3, <1>4, EffectStep

(* Whatever the unit of a step does, the invariant holds after it.             *)
LEMMA UnitAppliesKeeps ==
  ASSUME JobInv, NEW x \in Steps, UnitApplies(x)
  PROVE  JobInv'
<1>1. job[x].unit = "run"
      /\ UNCHANGED <<class, jobNow, at, exec, epochs, lease, fenceUnit, chain, grant>>
  BY DEF UnitApplies
<1>2. rimg \in AppRows BY DEF JobInv, JobTypeOK, AppRows
<1>3. CASE CaptureBase(x) BY <1>1, <1>3, CaptureBaseKeeps
<1>4. CASE CaptureCutover(x) BY <1>1, <1>4, CaptureCutoverKeeps
<1>5. CASE EncryptBackup(x) BY <1>1, <1>5, EncryptBackupKeeps
<1>6. CASE UploadBackup(x) BY <1>1, <1>6, UploadBackupKeeps
<1>7. CASE ExecuteDrain(x)
  <2>1. CASE AllowsNewIdentity(lease.epoch) /\ rimg' = Drained(lease.epoch) /\ UNCHANGED <<job, snap>>
    <3>1. lease.epoch \in Nat BY DEF JobInv, JobTypeOK
    <3>2. rimg' \in AppRows /\ rimg.mode # "fenced" /\ rimg'.mode # "fenced"
      BY <1>2, <2>1, <3>1 DEF AllowsNewIdentity, Drained, AppRows
    <3>3. FencedSinceCutover' BY <1>1, <2>1, <3>2, FenceFrame
    <3> QED BY <1>1, <2>1, <3>2, <3>3, AppStep
  <2>2. CASE job' = Applied(x) /\ UNCHANGED <<rimg, snap>>
    <3>1. Profile(x) = "rimgdrain" BY <1>7 DEF ExecuteDrain
    <3> QED BY <1>1, <1>2, <2>2, <3>1, PlainEffectKeeps
  <2> QED BY <1>7, <2>1, <2>2 DEF ExecuteDrain
<1>8. CASE ExecuteMigration(x)
  <2>1. /\ Profile(x) = "rimgmigrate" /\ rimg' = [rimg EXCEPT !.schema = 1]
        /\ job' = Applied(x) /\ UNCHANGED snap
    BY <1>8 DEF ExecuteMigration
  <2>2. /\ rimg' \in AppRows /\ rimg'.mode = rimg.mode /\ rimg'.busy = rimg.busy
        /\ rimg'.data = rimg.data
    BY <1>2, <2>1 DEF AppRows
  <2> QED BY <1>1, <2>1, <2>2, PlainEffectKeeps
<1>9. CASE ReadbackBackup(x) \/ InspectSchema(x) \/ ApplyRelease(x) \/ HealthCheck(x) \/ SoakObserve(x)
  <2>1. /\ Profile(x) \notin {"capture", "encrypt", "upload"} /\ job' = Applied(x)
        /\ UNCHANGED <<rimg, snap>>
    BY <1>9 DEF ReadbackBackup, InspectSchema, ApplyRelease, HealthCheck, SoakObserve
  <2> QED BY <1>1, <1>2, <2>1, PlainEffectKeeps
<1> QED BY <1>3, <1>4, <1>5, <1>6, <1>7, <1>8, <1>9 DEF UnitApplies

(* The provider alters a copy nobody has committed yet.                        *)
LEMMA ProviderAltersKeeps ==
  ASSUME JobInv, NEW k \in BackupKinds, ProviderAlters(k)
  PROVE  JobInv'
<1>1. /\ snap' = [snap EXCEPT ![k].remote = "bad"]
      /\ UNCHANGED <<class, jobNow, at, exec, job, rimg, epochs, lease, fenceUnit, chain, grant>>
  BY DEF ProviderAlters, store
<1>2. CopyFollowsSteps' BY <1>1, RemoteCopies
<1>3. PICK row \in ChainRows :
           /\ snap' = [snap EXCEPT ![k] = row] /\ row.taken = snap[k].taken
           /\ row.data = snap[k].data /\ row.sealed = snap[k].sealed /\ row.remote = "bad"
  BY <1>1, RemoteRow
<1>4. UNCHANGED <<Finished, JobPhase, Stateful, Plan(class)>> BY <1>1, SamePhase
<1>5. snap \in [BackupKinds -> ChainRows] BY DEF JobInv, JobTypeOK
<1>6. /\ snap' \in [BackupKinds -> ChainRows]
      /\ snap'["cutover"].taken = snap["cutover"].taken
      /\ snap'["cutover"].data = snap["cutover"].data
  BY <1>3, <1>5 DEF BackupKinds
<1>7. JobTypeOK' BY <1>1, <1>6 DEF JobInv, JobTypeOK
<1>8. StepFilesSound' BY <1>1 DEF JobInv, StepFilesSound
<1>9. StepsInOrder' BY <1>1 DEF JobInv, StepsInOrder, CompletedExecution
<1>10. StartedPhases' BY <1>1, <1>4 DEF JobInv, StartedPhases
<1>11. PhasesDone' BY <1>1, <1>4 DEF JobInv, PhasesDone, StepsOf, Running
<1>12. FencedSinceCutover' BY <1>1, <1>4, <1>6 DEF JobInv, FencedSinceCutover
<1>13. ChainsPersisted' BY <1>1, <1>4, <1>6 DEF JobInv, ChainsPersisted
<1>14. GrantIsUsed' BY <1>1, <1>4 DEF JobInv, GrantIsUsed
<1> QED BY <1>2, <1>7, <1>8, <1>9, <1>10, <1>11, <1>12, <1>13, <1>14 DEF JobInv

(* A phase is committed when its steps are completed; a backup phase persists  *)
(* the copy its steps made.                                                    *)
LEMMA CommitPhaseKeeps ==
  ASSUME JobInv, CommitPhase
  PROVE  JobInv'
<1>1. /\ ~ Finished /\ AllCompleted /\ chain' = ProjectBackup(JobPhase) /\ at' = at + 1
      /\ lease' = IF JobPhase = "backup" THEN [epoch |-> 0, fence |-> "none"] ELSE lease
      /\ exec' = "idle"
      /\ UNCHANGED <<class, jobNow, job, snap, rimg, epochs, fenceUnit, grant>>
  BY DEF CommitPhase, BindVerifiedBackupChain, files
<1>2. /\ class \in {"code", "compatible", "breaking"} /\ at \in Nat \ {0}
      /\ job \in [Steps -> JobRows]
      /\ chain \in [BackupKinds -> ChainRows] /\ snap \in [BackupKinds -> ChainRows]
      /\ lease \in [epoch : Nat, fence : {"none", "intent", "held", "leaving", "released"}]
  BY DEF JobInv, JobTypeOK
<1>3. at \in 1..Len(Plan(class)) /\ JobPhase = Plan(class)[at]
  BY <1>1, <1>2, PlanFacts DEF Finished, JobPhase
<1>4. Plan(class)' = Plan(class) /\ Stateful' = Stateful BY <1>1 DEF Plan, Stateful
<1>5. Finished' => at = Len(Plan(class)) BY <1>1, <1>2, <1>3, <1>4, PlanFacts DEF Finished
<1>6. chain' \in [BackupKinds -> ChainRows]
  BY <1>1, <1>2 DEF ProjectBackup, BackupKinds
<1>7. JobTypeOK'
  <2>1. at' \in Nat \ {0} BY <1>1, <1>2
  <2>2. lease' \in [epoch : Nat, fence : {"none", "intent", "held", "leaving", "released"}]
    BY <1>1, <1>2
  <2> QED BY <1>1, <1>6, <2>1, <2>2 DEF JobInv, JobTypeOK
<1>8. StepFilesSound' BY <1>1 DEF JobInv, StepFilesSound
<1>9. StepsInOrder' BY <1>1 DEF JobInv, StepsInOrder, CompletedExecution
<1>10. StartedPhases'
  <2> SUFFICES ASSUME NEW x \in Steps, job[x].start
      PROVE \E i \in 1..Len(Plan(class)) : i <= at + 1 /\ Plan(class)[i] = x[1]
    BY <1>1, <1>4 DEF StartedPhases
  <2>1. PICK i \in 1..Len(Plan(class)) : i <= at /\ Plan(class)[i] = x[1]
    BY DEF JobInv, StartedPhases
  <2>2. i <= at + 1 BY <1>2, <2>1, PlanFacts
  <2> QED BY <2>1, <2>2
<1>11. \A x \in StepsOf(JobPhase) : StepDone(job[x])
  <2> SUFFICES ASSUME NEW x \in StepsOf(JobPhase) PROVE StepDone(job[x]) OBVIOUS
  <2>1. x \in Steps /\ CompletedExecution(x) BY <1>1 DEF StepsOf, AllCompleted
  <2>2. job[x] \in JobRows /\ FilesSound(job[x]) BY <1>2, <2>1 DEF JobInv, StepFilesSound
  <2> QED BY <2>1, <2>2, CompletedIsDone
<1>12. PhasesDone'
  <2> SUFFICES ASSUME NEW i \in 1..Len(Plan(class)), i < at + 1, NEW x \in StepsOf(Plan(class)[i])
      PROVE /\ job[x].applied /\ job[x].unit \in {"none", "dead"} /\ job[x].terminal = "ok"
            /\ job[x].cleanup = "complete"
    BY <1>1, <1>4 DEF PhasesDone, Running, StepsOf
  <2>1. CASE i < at BY <2>1 DEF JobInv, PhasesDone, Running
  <2>2. CASE i = at BY <1>3, <1>11, <2>2 DEF StepDone
  <2>3. i \in Nat BY <1>2, PlanFacts
  <2> QED BY <1>2, <2>1, <2>2, <2>3
<1>13. CopyFollowsSteps' BY <1>1 DEF JobInv, CopyFollowsSteps
<1>14. FencedSinceCutover'
  <2>1. ~ Finished' => ~ Finished BY <1>1
  <2> QED BY <1>1, <2>1 DEF JobInv, FencedSinceCutover
<1>15. ASSUME NEW k \in BackupKinds, JobPhase = k
       PROVE  chain'[k] = snap[k] /\ snap[k].taken /\ snap[k].sealed /\ snap[k].remote # "none"
  <2>1. <<k, 1>> \in Steps /\ <<k, 2>> \in Steps /\ <<k, 3>> \in Steps BY BackupStepFacts
  <2>2. <<k, 1>> \in StepsOf(JobPhase) /\ <<k, 2>> \in StepsOf(JobPhase)
        /\ <<k, 3>> \in StepsOf(JobPhase)
    BY <1>15, <2>1 DEF StepsOf
  <2>3. job[<<k, 1>>].applied /\ job[<<k, 2>>].applied /\ job[<<k, 3>>].applied
    BY <1>11, <2>2 DEF StepDone
  <2>4. chain'[k] = snap[k] BY <1>1, <1>2, <1>15 DEF ProjectBackup, BackupKinds
  <2> QED BY <2>3, <2>4 DEF JobInv, CopyFollowsSteps
<1>16. ASSUME NEW k \in BackupKinds, JobPhase # k PROVE chain'[k] = chain[k]
  BY <1>1, <1>2, <1>16 DEF ProjectBackup, BackupKinds
<1>17. ChainsPersisted'
  <2> SUFFICES ASSUME Stateful
      PROVE /\ at + 1 > 1 => chain'["backup"].sealed /\ chain'["backup"].remote # "none"
            /\ at + 1 > 3 => /\ chain'["cutover"].taken /\ chain'["cutover"].sealed
                             /\ chain'["cutover"].remote # "none" /\ snap["cutover"].taken
                             /\ chain'["cutover"].data = snap["cutover"].data
    BY <1>1, <1>4 DEF ChainsPersisted
  <2>1. "backup" \in BackupKinds /\ "cutover" \in BackupKinds BY DEF BackupKinds
  <2>2. chain'["backup"].sealed /\ chain'["backup"].remote # "none"
    <3>1. CASE at = 1
      <4>1. JobPhase = "backup" BY <1>2, <1>3, <3>1, PlanFacts
      <4> QED BY <1>15, <2>1, <4>1
    <3>2. CASE at > 1
      <4>1. JobPhase # "backup" BY <1>2, <1>3, <3>2, PlanIndex
      <4>2. chain'["backup"] = chain["backup"] BY <1>16, <2>1, <4>1
      <4> QED BY <3>2, <4>2 DEF JobInv, ChainsPersisted
    <3> QED BY <1>2, <3>1, <3>2
  <2>3. ASSUME at + 1 > 3
        PROVE  /\ chain'["cutover"].taken /\ chain'["cutover"].sealed
               /\ chain'["cutover"].remote # "none" /\ snap["cutover"].taken
               /\ chain'["cutover"].data = snap["cutover"].data
    <3>1. CASE at = 3
      <4>1. JobPhase = "cutover" BY <1>2, <1>3, <3>1, PlanFacts
      <4> QED BY <1>15, <2>1, <4>1
    <3>2. CASE at > 3
      <4>1. JobPhase # "cutover" BY <1>2, <1>3, <3>2, PlanIndex
      <4>2. chain'["cutover"] = chain["cutover"] BY <1>16, <2>1, <4>1
      <4> QED BY <3>2, <4>2 DEF JobInv, ChainsPersisted
    <3> QED BY <1>2, <2>3, <3>1, <3>2
  <2> QED BY <2>2, <2>3
<1>18. GrantIsUsed' BY <1>1 DEF JobInv, GrantIsUsed
<1> QED BY <1>7, <1>8, <1>9, <1>10, <1>12, <1>13, <1>14, <1>17, <1>18 DEF JobInv

(* A new attempt.                                                              *)
LEMMA JobInitHolds ==
  ASSUME JobInit
  PROVE  JobInv
<1>1. class \in {"code", "compatible", "breaking"}
  <2>1. PICK r \in ReleaseInputs : Derivable(r) /\ class = DeriveClass(r) BY DEF JobInit
  <2>2. r.schema \in {"same", "new"} /\ r.transition \in {"none", "compatible", "breaking"}
    BY DEF ReleaseInputs
  <2> QED BY <2>1, <2>2 DEF Derivable, DeriveClass, AuthorizedTransition
<1>2. NoJob \in JobRows /\ FilesSound(NoJob) /\ ~ NoJob.start /\ ~ NoJob.applied
  BY DEF NoJob, JobRows, UnitStates, FilesSound
<1>3. NoChain \in ChainRows /\ ~ NoChain.taken BY DEF NoChain, ChainRows
<1>4. [NoChain EXCEPT !.taken = TRUE, !.time = 1] \in ChainRows
  BY DEF NoChain, ChainRows
<1>5. chain \in [BackupKinds -> ChainRows] /\ snap \in [BackupKinds -> ChainRows]
  BY <1>3, <1>4 DEF JobInit, BackupKinds
<1>6. job = [x \in Steps |-> NoJob] /\ at = 1 /\ exec = "idle" /\ fenceUnit = "none"
      /\ rimg = [mode |-> "normal", active |-> 0, last |-> 0, busy |-> FALSE, data |-> 0, schema |-> 0]
      /\ snap["cutover"] = NoChain
  BY DEF JobInit
<1>7. JobTypeOK BY <1>1, <1>2, <1>5, <1>6 DEF JobTypeOK, JobInit
<1>8. \A x \in Steps : job[x] = NoJob BY <1>6
<1>9. StepFilesSound /\ StepsInOrder /\ StartedPhases
  BY <1>2, <1>8 DEF StepFilesSound, StepsInOrder, StartedPhases
<1>10. PhasesDone BY <1>6 DEF PhasesDone
<1>11. CopyFollowsSteps
  <2>1. \A k \in BackupKinds : <<k, 1>> \in Steps /\ <<k, 2>> \in Steps /\ <<k, 3>> \in Steps
    BY BackupStepFacts
  <2> QED BY <1>2, <1>8, <2>1 DEF CopyFollowsSteps
<1>12. FencedSinceCutover BY <1>3, <1>6 DEF FencedSinceCutover
<1>13. ChainsPersisted BY <1>6 DEF ChainsPersisted
<1>14. GrantIsUsed BY <1>2, <1>6, <1>8 DEF GrantIsUsed
<1> QED BY <1>7, <1>9, <1>10, <1>11, <1>12, <1>13, <1>14 DEF JobInv

(* Every step of the adapters' jobs keeps the invariant.                       *)
LEMMA JobNextKeeps ==
  ASSUME JobInv, [JobNext]_jobVars
  PROVE  JobInv'
<1>1. ASSUME NEW x \in Steps,
             \/ StartStep(x) \/ SpawnFails(x) \/ WaitForUnit(x) \/ TerminateUnit(x)
             \/ UnitApplies(x) \/ UnitPublishes(x) \/ JobUnitEnds(x)
      PROVE JobInv'
  BY <1>1, StartKeeps, WaitForUnitKeeps, TerminateUnitKeeps, UnitAppliesKeeps,
     UnitPublishesKeeps, JobUnitEndsKeeps
<1>2. ASSUME NEW k \in {"backup", "cutover"}, ProviderAlters(k) PROVE JobInv'
  BY <1>2, ProviderAltersKeeps DEF BackupKinds
<1>3. CASE BindPhaseSpec \/ CrashExecutor \/ BeginFence \/ ObserveFence \/ TimePasses
           \/ UNCHANGED jobVars
  BY <1>3, BookkeepingKeeps
<1>4. CASE AuthorizeBoundPhase BY <1>4, AuthorizeBoundPhaseKeeps
<1>5. CASE CommitPhase BY <1>5, CommitPhaseKeeps
<1>6. CASE Write BY <1>6, WriteKeeps
<1>7. CASE TransitionFence BY <1>7, TransitionFenceKeeps
<1> QED BY <1>1, <1>2, <1>3, <1>4, <1>5, <1>6, <1>7 DEF JobNext

(* The invariant of the adapter jobs.                                          *)
THEOREM JobInvariant == JobSpec => []JobInv
<1>1. JobInit => JobInv BY JobInitHolds
<1>2. JobInv /\ [JobNext]_jobVars => JobInv' BY JobNextKeeps
<1> QED BY <1>1, <1>2, PTL DEF JobSpec

(* At most one unit runs, and it is one of the current phase.                  *)
LEMMA OneUnitRuns ==
  ASSUME JobInv, NEW x \in Steps, Running(x)
  PROVE  ~ Finished /\ x[1] = JobPhase /\ \A y \in Steps \ {x} : ~ Running(y)
<1>1. ASSUME NEW z \in Steps, Running(z)
      PROVE  job[z].start /\ ~ Finished /\ z[1] = JobPhase /\ z[2] \in Nat /\ z = <<z[1], z[2]>>
             /\ ~ CompletedExecution(z)
  <2>1. job[z] \in JobRows /\ FilesSound(job[z]) BY DEF JobInv, JobTypeOK, StepFilesSound
  <2>2. job[z].start /\ job[z].terminal = "none" BY <1>1, <2>1 DEF FilesSound, Running
  <2>3. ~ Finished /\ z[1] = JobPhase BY <1>1, RunningIsCurrent DEF JobPhase
  <2> QED BY <2>2, <2>3, StepShape DEF CompletedExecution
<1> SUFFICES ASSUME NEW y \in Steps, y # x, Running(y) PROVE FALSE
  BY <1>1
<1>2. y[1] = x[1] /\ y[2] \in Nat /\ x[2] \in Nat /\ y[2] # x[2] BY <1>1
<1>3. CASE y[2] < x[2] BY <1>1, <1>2, <1>3 DEF JobInv, StepsInOrder
<1>4. CASE x[2] < y[2] BY <1>1, <1>2, <1>4 DEF JobInv, StepsInOrder
<1> QED BY <1>2, <1>3, <1>4

(* A phase that counts as done was done: every step of it took effect in a     *)
(* unit that ended well, was collected and is gone, and no unit but one of the *)
(* current phase runs, whatever was cancelled, lost or crashed.                *)
THEOREM CommittedPhasesAreDone == JobSpec => []DoneMeansDone
<1>1. JobInv => DoneMeansDone
  BY OneUnitRuns DEF JobInv, PhasesDone, DoneMeansDone
<1> QED BY <1>1, JobInvariant, PTL

(* What a step may do to the schema.                                           *)
MigrationStep ==
  rimg'.schema # rimg.schema =>
    /\ chain["cutover"].taken /\ chain["cutover"].data = rimg.data
    /\ \A k \in {"backup", "cutover"} : chain[k].sealed /\ chain[k].remote # "none"
    /\ class = "breaking" => grant = "migrate"

(* Only the migration step of a running unit changes the schema.               *)
LEMMA SchemaChanges ==
  ASSUME JobInv, JobNext, rimg'.schema # rimg.schema
  PROVE  \E x \in Steps : job[x].unit = "run" /\ Profile(x) = "rimgmigrate"
<1>1. rimg \in AppRows BY DEF JobInv, JobTypeOK, AppRows
<1>2. \A e \in Nat : Drained(e).schema = rimg.schema BY <1>1 DEF Drained, AppRows
<1>3. Resumed.schema = rimg.schema BY <1>1 DEF Resumed, AppRows
<1>4. lease.epoch \in Nat BY DEF JobInv, JobTypeOK
<1>5. ASSUME NEW x \in Steps, UnitApplies(x)
      PROVE job[x].unit = "run" /\ (rimg'.schema # rimg.schema => Profile(x) = "rimgmigrate")
  <2>1. job[x].unit = "run" BY <1>5 DEF UnitApplies
  <2>2. CASE ExecuteMigration(x) BY <2>1, <2>2 DEF ExecuteMigration
  <2>3. CASE CaptureBase(x) BY <1>2, <1>3, <1>4, <2>1, <2>3 DEF CaptureBase
  <2>4. CASE ExecuteDrain(x) BY <1>2, <1>4, <2>1, <2>4 DEF ExecuteDrain
  <2>5. CASE CaptureCutover(x) \/ EncryptBackup(x) \/ ReadbackBackup(x) \/ InspectSchema(x)
             \/ ApplyRelease(x) \/ HealthCheck(x) \/ SoakObserve(x) \/ UploadBackup(x)
    BY <2>1, <2>5 DEF CaptureCutover, EncryptBackup, ReadbackBackup, InspectSchema, ApplyRelease,
                      HealthCheck, SoakObserve, UploadBackup
  <2> QED BY <1>5, <2>2, <2>3, <2>4, <2>5 DEF UnitApplies
<1>6. ASSUME NEW x \in Steps,
             \/ StartStep(x) \/ SpawnFails(x) \/ WaitForUnit(x) \/ TerminateUnit(x)
             \/ UnitPublishes(x) \/ JobUnitEnds(x)
      PROVE rimg' = rimg
  BY <1>6 DEF StartStep, SpawnFails, WaitForUnit, TerminateUnit, UnitPublishes, JobUnitEnds
<1>7. ASSUME NEW k \in {"backup", "cutover"}, ProviderAlters(k) PROVE rimg' = rimg
  BY <1>7 DEF ProviderAlters
<1>8. BindPhaseSpec \/ AuthorizeBoundPhase \/ CommitPhase \/ CrashExecutor \/ BeginFence
      \/ ObserveFence \/ TimePasses => rimg' = rimg
  BY DEF BindPhaseSpec, AuthorizeBoundPhase, CommitPhase, CrashExecutor, BeginFence,
         ObserveFence, TimePasses
<1>9. Write => rimg'.schema = rimg.schema
  <2>1. CASE rimg' = [rimg EXCEPT !.busy = TRUE] BY <1>1, <2>1 DEF AppRows
  <2>2. CASE rimg' = [rimg EXCEPT !.busy = FALSE, !.data = @ + 1] BY <1>1, <2>2 DEF AppRows
  <2> QED BY <2>1, <2>2 DEF Write
<1>10. TransitionFence => rimg'.schema = rimg.schema
  <2>1. CASE rimg' = [rimg EXCEPT !.mode = "fenced"] BY <1>1, <2>1 DEF AppRows
  <2>2. CASE rimg' = [rimg EXCEPT !.mode = "draining"] BY <1>1, <2>2 DEF AppRows
  <2> QED BY <1>3, <2>1, <2>2 DEF TransitionFence
<1> QED BY <1>5, <1>6, <1>7, <1>8, <1>9, <1>10 DEF JobNext

(* The data a migration changes is the data of the cutover backup, verified    *)
(* offsite for this fence, and a breaking one has used its grant.              *)
THEOREM MigrationIsBackedUp == JobSpec => MigrationHasExactBackup
<1>1. ASSUME JobInv, [JobNext]_jobVars PROVE MigrationStep
  <2> SUFFICES ASSUME rimg'.schema # rimg.schema
      PROVE /\ chain["cutover"].taken /\ chain["cutover"].data = rimg.data
            /\ \A k \in {"backup", "cutover"} : chain[k].sealed /\ chain[k].remote # "none"
            /\ class = "breaking" => grant = "migrate"
    BY DEF MigrationStep
  <2>1. JobNext BY <1>1 DEF jobVars
  <2>2. PICK x \in Steps : job[x].unit = "run" /\ Profile(x) = "rimgmigrate"
    BY <1>1, <2>1, SchemaChanges
  <2>3. x[1] = "migrate" BY <2>2, ProfileFacts
  <2>4. ~ Finished /\ at \in 1..Len(Plan(class)) /\ Plan(class)[at] = "migrate"
    BY <1>1, <2>2, <2>3, RunningIsCurrent DEF Running
  <2>5. Stateful /\ at = 4 BY <1>1, <2>4, PlanIndex DEF JobInv, JobTypeOK
  <2>6. FilesSound(job[x]) BY <1>1 DEF JobInv, StepFilesSound
  <2>7. job[x].start BY <2>2, <2>6 DEF FilesSound
  <2>8. class = "breaking" => grant = "migrate" BY <1>1, <2>3, <2>7 DEF JobInv, GrantIsUsed
  <2>9. ChainsPersisted /\ FencedSinceCutover BY <1>1 DEF JobInv
  <2> QED BY <2>4, <2>5, <2>8, <2>9 DEF ChainsPersisted, FencedSinceCutover
<1>2. JobInv /\ [JobNext]_jobVars => [MigrationStep]_jobVars BY <1>1
<1>3. [][MigrationStep]_jobVars <=> MigrationHasExactBackup
  BY DEF MigrationHasExactBackup, MigrationStep
<1> QED BY <1>2, <1>3, JobInvariant, PTL DEF JobSpec

--------------------------------------------------------------------------------
(* The deploy units                                                            *)

MaybeBundles == Bundles \cup {NoBundle}
Ops ==
  [op : {"import", "router", "apply", "backend", "switch", "adopt", "exclusive", "stop",
         "registry", "setup", "unregister", "verify"},
   of : MaybeBundles]
IntentRows ==
  [state : {"none", "prepared", "granted", "expired", "consumed"},
   cand : MaybeBundles, prev : MaybeBundles]
AllPhases == {"candidate", "deploying", "health_checking", "soaking",
              "rollback", "rollback_health", "rollback_soak"}
JournalRows ==
  [auth : BOOLEAN, spec : {"none", "bound", "stale", "permitted"},
   receipts : SUBSET AllPhases, takeover : BOOLEAN]
DockerRows ==
  [router : {"absent", "bare", "up"}, target : MaybeBundles, boot : MaybeBundles,
   backend : [Bundles -> {"absent", "running", "stopped"}],
   images : SUBSET Bundles, registry : BOOLEAN]
ScanSteps == {"sleep", "pick", "bind", "promote", "phase", "wait", "commit"}

DeployTypeOK ==
  /\ head \in Bundles /\ intent \in [DeployRequests -> IntentRows]
  /\ accepted \in Seq(DeployRequests) /\ journal \in [DeployRequests -> JournalRows]
  /\ deployLock \in DeployRequests \cup {NoRequest}
  /\ release \in [current : MaybeBundles, good : MaybeBundles]
  /\ scan \in [pc : ScanSteps, at : Nat, upto : Nat, seen : MaybeBundles]
  /\ unit \in [r : DeployRequests \cup {NoRequest}, effect : Effects \cup {"none"},
               todo : Seq(Ops), orphan : BOOLEAN]
  /\ ended \in [DeployRequests -> [Effects -> {"no", "ok", "lost", "failed"}]]
  /\ docker \in DockerRows

(* An intent names a candidate that the head has reached and an older release  *)
(* before it; a request without one has done nothing.                          *)
IntentsOrdered ==
  /\ release.current # NoBundle => release.current <= head
  /\ \A r \in DeployRequests :
       IF intent[r].state = "none"
       THEN Receipts(r) = {} /\ Prev(r) = NoBundle /\ journal[r].spec = "none"
       ELSE /\ Cand(r) \in Bundles /\ Cand(r) <= head
            /\ Prev(r) # NoBundle => Prev(r) < Cand(r)

(* The document moves forward: what an attempt was driven from is behind it.   *)
DocumentMovesOn ==
  /\ release.current = NoBundle =>
       docker.target = NoBundle /\ \A r \in DeployRequests : Prev(r) = NoBundle
  /\ \A r \in DeployRequests : Receipts(r) # {} /\ Prev(r) # NoBundle =>
       release.current # NoBundle /\ Prev(r) <= release.current

(* The worker drives an accepted request from the release it is bound to.      *)
Driving == scan.pc \notin {"sleep", "pick"}
WorkerKnows ==
  /\ \A i \in 1..Len(accepted) : intent[accepted[i]].state # "none"
  /\ scan.upto <= Len(accepted)
  /\ scan.pc # "sleep" => scan.at > 0
  /\ Driving => /\ scan.at <= Len(accepted) /\ scan.seen = release.current
                /\ release.current = Prev(Driven)
  /\ scan.pc = "commit" => Result(Driven) = "succeeded" /\ deployLock # Driven
  /\ scan.pc = "wait" => PhaseNow(Driven) \in {"deploying", "rollback"}

(* The receipts come in the order of the plans, each behind the unit it is     *)
(* about, and only an attempt with a release to go back to turns around.       *)
FirstEffect(r) == IF Prev(r) = NoBundle THEN "bootstrap" ELSE "deploy"
ReceiptsFollow(r) ==
  /\ (\E e \in Effects : ended[r][e] # "no") => journal[r].spec = "permitted"
  /\ "deploying" \in Receipts(r) =>
       journal[r].spec = "permitted" /\ ended[r][FirstEffect(r)] = "ok"
  /\ "soaking" \in Receipts(r) => "deploying" \in Receipts(r)
  /\ "rollback" \in Receipts(r) => ended[r]["rollback"] = "ok"
  /\ journal[r].takeover => "deploying" \in Receipts(r) /\ Prev(r) # NoBundle
  /\ ~journal[r].takeover =>
       ended[r]["rollback"] = "no" /\ "rollback" \notin Receipts(r)

(* The lock is held from the start of an attempt's unit to its end.            *)
LockFollows ==
  /\ deployLock # NoRequest => journal[deployLock].spec \in {"stale", "permitted"}
  /\ \A r \in DeployRequests :
       journal[r].spec = "permitted" /\ Result(r) = "running" => deployLock = r

(* The rest of program P after n of its commands.                              *)
RestOf(P, n) ==
  /\ n \in 0..Len(P) /\ Len(unit.todo) = Len(P) - n
  /\ \A i \in 1..Len(unit.todo) : unit.todo[i] = P[n + i]

Up == docker.router = "up"
Runs(b) == docker.backend[b] = "running"

(* Where a unit stands between release p and candidate c, and what it has made *)
(* of Docker by then.                                                          *)
BootstrapPoint(p, c) ==
  \E n \in 0..5 : RestOf(UnitProgram("bootstrap", p, c), n) /\ (n >= 3 => docker.boot = c)
MainPoint(p, c) ==
  \E n \in 0..3 : RestOf(UnitProgram("deploy", p, c), n) /\ (n = 3 => Up)
FreshPoint(p, c) ==
  \E n \in 0..7 :
    /\ RestOf(FreshRoute(p, c), n) /\ Up
    /\ n \in 1..6 => Runs(p)
    /\ n \in 2..5 => docker.target = p
    /\ n \in 4..7 => docker.boot = NoBundle
    /\ n \in 5..7 => Runs(c)
    /\ n \in 6..7 => docker.target = c
RoutedPoint(p, c) ==
  \E n \in 0..4 :
    /\ RestOf(RoutedAlready(p, c), n) /\ Up /\ docker.target = c
    /\ n \in 1..4 => Runs(c)
    /\ n \in 3..4 => docker.boot = NoBundle
DeployPoint(p, c) == MainPoint(p, c) \/ FreshPoint(p, c) \/ RoutedPoint(p, c)
RollbackPoint(p, c) ==
  \E n \in 0..6 :
    /\ RestOf(UnitProgram("rollback", p, c), n)
    /\ n \in 2..6 => Up
    /\ n \in 3..6 => docker.boot = NoBundle
    /\ n \in 4..6 => Runs(p)
    /\ n \in 5..6 => docker.target = p

UnitPoint(e, p, c) ==
  /\ e = "bootstrap" => p = NoBundle /\ BootstrapPoint(p, c)
  /\ e = "deploy" => p # NoBundle /\ DeployPoint(p, c)
  /\ e = "rollback" => p # NoBundle /\ RollbackPoint(p, c)

UnitKnows ==
  unit.r # NoRequest =>
    /\ intent[unit.r].state # "none" /\ unit.effect \in Effects
    /\ deployLock = unit.r /\ journal[unit.r].spec = "permitted"
    /\ PhaseNow(unit.r) \in {"deploying", "rollback"} /\ unit.effect = EffectOf(unit.r)
    /\ ended[unit.r][unit.effect] = "no"
    /\ UnitPoint(unit.effect, Prev(unit.r), Cand(unit.r))

(* What was installed, or observed to the end, is served ever after.           *)
OnceServed ==
  (release.current # NoBundle \/ \E r \in DeployRequests : "soaking" \in Receipts(r)) => Served # {}

(* What is served between two units, as long as no attempt overtook another:   *)
(* with the lock free the release of the document, or the one candidate that   *)
(* is about to become it; with the lock held what the last unit left.          *)
FreeIsServed ==
  deployLock = NoRequest /\ ~overtaken =>
    /\ Uncommitted = {} => Served = {release.current} \ {NoBundle}
    /\ \A u \in Uncommitted : Uncommitted = {u} /\ Served = {Cand(u)}
HeldIsServed ==
  \A r \in DeployRequests :
    deployLock = r /\ ~overtaken /\ journal[r].spec = "permitted" =>
      /\ Uncommitted \subseteq {r} /\ release.current = Prev(r)
      /\ unit.r = NoRequest /\ ended[r]["rollback"] = "no" /\ ended[r][FirstEffect(r)] = "ok" =>
           Served = {Cand(r)}
      /\ unit.r = NoRequest /\ ended[r]["rollback"] = "ok" => Served = {Prev(r)}

DeployInv ==
  /\ DeployTypeOK /\ IntentsOrdered /\ DocumentMovesOn /\ WorkerKnows
  /\ (\A r \in DeployRequests : ReceiptsFollow(r)) /\ LockFollows /\ UnitKnows
  /\ OnceServed /\ FreeIsServed /\ HeldIsServed

(* The commands of the four programs.                                          *)
LEMMA BootstrapProgram ==
  ASSUME NEW p, NEW c, NEW P, P = UnitProgram("bootstrap", p, c)
  PROVE  /\ Len(P) = 5 /\ DOMAIN P = 1..5
         /\ P[1] = Op("import", c) /\ P[2] = Op("registry", c) /\ P[3] = Op("setup", c)
         /\ P[4] = Op("unregister", c) /\ P[5] = Op("verify", c)
BY DEF UnitProgram

(* The program of a deploy, up to the probe of the route.                      *)
LEMMA DeployProgram ==
  ASSUME NEW p, NEW c, NEW P, P = UnitProgram("deploy", p, c)
  PROVE  /\ Len(P) = 4 /\ DOMAIN P = 1..4
         /\ P[1] = Op("import", c) /\ P[2] = Op("import", p) /\ P[3] = Op("router", p)
         /\ P[4] = Op("apply", c)
BY DEF UnitProgram

(* The program of a rollback.                                                  *)
LEMMA RollbackProgram ==
  ASSUME NEW p, NEW c, NEW P, P = UnitProgram("rollback", p, c)
  PROVE  /\ Len(P) = 6 /\ DOMAIN P = 1..6
         /\ P[1] = Op("import", p) /\ P[2] = Op("router", p) /\ P[3] = Op("exclusive", p)
         /\ P[4] = Op("backend", p) /\ P[5] = Op("switch", p) /\ P[6] = Op("stop", c)
BY DEF UnitProgram

(* The fresh route of a deploy.                                                *)
LEMMA FreshProgram ==
  ASSUME NEW p, NEW c, NEW P, P = FreshRoute(p, c)
  PROVE  /\ Len(P) = 7 /\ DOMAIN P = 1..7
         /\ P[1] = Op("backend", p) /\ P[2] = Op("switch", p) /\ P[3] = Op("adopt", p)
         /\ P[4] = Op("exclusive", p) /\ P[5] = Op("backend", c) /\ P[6] = Op("switch", c)
         /\ P[7] = Op("stop", p)
BY DEF FreshRoute

(* The route when the router already points at the candidate.                  *)
LEMMA RoutedProgram ==
  ASSUME NEW p, NEW c, NEW P, P = RoutedAlready(p, c)
  PROVE  /\ Len(P) = 4 /\ DOMAIN P = 1..4
         /\ P[1] = Op("backend", c) /\ P[2] = Op("adopt", p) /\ P[3] = Op("exclusive", p)
         /\ P[4] = Op("stop", p)
BY DEF RoutedAlready

(* Programs are sequences of commands.                                         *)
LEMMA FourCommands ==
  ASSUME NEW S, NEW x1 \in S, NEW x2 \in S, NEW x3 \in S, NEW x4 \in S
  PROVE  <<x1, x2, x3, x4>> \in Seq(S)
OBVIOUS

(* The same of five commands.                                                  *)
LEMMA FiveCommands ==
  ASSUME NEW S, NEW x1 \in S, NEW x2 \in S, NEW x3 \in S, NEW x4 \in S, NEW x5 \in S
  PROVE  <<x1, x2, x3, x4, x5>> \in Seq(S)
OBVIOUS

(* The same of six.                                                            *)
LEMMA SixCommands ==
  ASSUME NEW S, NEW x1 \in S, NEW x2 \in S, NEW x3 \in S, NEW x4 \in S, NEW x5 \in S,
         NEW x6 \in S
  PROVE  <<x1, x2, x3, x4, x5, x6>> \in Seq(S)
OBVIOUS

(* The same of seven.                                                          *)
LEMMA SevenCommands ==
  ASSUME NEW S, NEW x1 \in S, NEW x2 \in S, NEW x3 \in S, NEW x4 \in S, NEW x5 \in S,
         NEW x6 \in S, NEW x7 \in S
  PROVE  <<x1, x2, x3, x4, x5, x6, x7>> \in Seq(S)
OBVIOUS

(* Every program is a sequence of commands.                                    *)
LEMMA ProgramTypes ==
  ASSUME NEW p \in MaybeBundles, NEW c \in MaybeBundles
  PROVE  /\ \A e \in Effects : UnitProgram(e, p, c) \in Seq(Ops)
         /\ FreshRoute(p, c) \in Seq(Ops) /\ RoutedAlready(p, c) \in Seq(Ops)
<1>2. RoutedAlready(p, c) \in Seq(Ops)
  <2>1. PICK x1, x2, x3, x4 :
          /\ x1 = Op("backend", c) /\ x2 = Op("adopt", p) /\ x3 = Op("exclusive", p)
          /\ x4 = Op("stop", p)
    OBVIOUS
  <2>2. x1 \in Ops /\ x2 \in Ops /\ x3 \in Ops /\ x4 \in Ops
    BY <2>1 DEF Op, Ops
  <2>3. <<x1, x2, x3, x4>> \in Seq(Ops) BY <2>2, FourCommands
  <2>4. RoutedAlready(p, c) = <<x1, x2, x3, x4>> BY <2>1 DEF RoutedAlready
  <2> QED BY <2>3, <2>4
<1>3. FreshRoute(p, c) \in Seq(Ops)
  <2>1. PICK x1, x2, x3, x4, x5, x6, x7 :
          /\ x1 = Op("backend", p) /\ x2 = Op("switch", p) /\ x3 = Op("adopt", p)
          /\ x4 = Op("exclusive", p) /\ x5 = Op("backend", c) /\ x6 = Op("switch", c)
          /\ x7 = Op("stop", p)
    OBVIOUS
  <2>2. x1 \in Ops /\ x2 \in Ops /\ x3 \in Ops /\ x4 \in Ops /\ x5 \in Ops /\ x6 \in Ops /\ x7 \in Ops
    BY <2>1 DEF Op, Ops
  <2>3. <<x1, x2, x3, x4, x5, x6, x7>> \in Seq(Ops) BY <2>2, SevenCommands
  <2>4. FreshRoute(p, c) = <<x1, x2, x3, x4, x5, x6, x7>> BY <2>1 DEF FreshRoute
  <2> QED BY <2>3, <2>4
<1>4. UnitProgram("bootstrap", p, c) \in Seq(Ops)
  <2>1. PICK x1, x2, x3, x4, x5 :
          /\ x1 = Op("import", c) /\ x2 = Op("registry", c) /\ x3 = Op("setup", c)
          /\ x4 = Op("unregister", c) /\ x5 = Op("verify", c)
    OBVIOUS
  <2>2. x1 \in Ops /\ x2 \in Ops /\ x3 \in Ops /\ x4 \in Ops /\ x5 \in Ops
    BY <2>1 DEF Op, Ops
  <2>3. <<x1, x2, x3, x4, x5>> \in Seq(Ops) BY <2>2, FiveCommands
  <2>4. UnitProgram("bootstrap", p, c) = <<x1, x2, x3, x4, x5>> BY <2>1 DEF UnitProgram
  <2> QED BY <2>3, <2>4
<1>5. UnitProgram("deploy", p, c) \in Seq(Ops)
  <2>1. PICK x1, x2, x3, x4 :
          /\ x1 = Op("import", c) /\ x2 = Op("import", p) /\ x3 = Op("router", p)
          /\ x4 = Op("apply", c)
    OBVIOUS
  <2>2. x1 \in Ops /\ x2 \in Ops /\ x3 \in Ops /\ x4 \in Ops
    BY <2>1 DEF Op, Ops
  <2>3. <<x1, x2, x3, x4>> \in Seq(Ops) BY <2>2, FourCommands
  <2>4. UnitProgram("deploy", p, c) = <<x1, x2, x3, x4>> BY <2>1 DEF UnitProgram
  <2> QED BY <2>3, <2>4
<1>6. UnitProgram("rollback", p, c) \in Seq(Ops)
  <2>1. PICK x1, x2, x3, x4, x5, x6 :
          /\ x1 = Op("import", p) /\ x2 = Op("router", p) /\ x3 = Op("exclusive", p)
          /\ x4 = Op("backend", p) /\ x5 = Op("switch", p) /\ x6 = Op("stop", c)
    OBVIOUS
  <2>2. x1 \in Ops /\ x2 \in Ops /\ x3 \in Ops /\ x4 \in Ops /\ x5 \in Ops /\ x6 \in Ops
    BY <2>1 DEF Op, Ops
  <2>3. <<x1, x2, x3, x4, x5, x6>> \in Seq(Ops) BY <2>2, SixCommands
  <2>4. UnitProgram("rollback", p, c) = <<x1, x2, x3, x4, x5, x6>> BY <2>1 DEF UnitProgram
  <2> QED BY <2>3, <2>4
<1> QED BY <1>2, <1>3, <1>4, <1>5, <1>6 DEF Effects

(* The command a unit is at, and the rest after it.                            *)
LEMMA RestNow ==
  ASSUME DeployTypeOK, NEW P, Len(P) \in Nat, NEW n \in Nat, RestOf(P, n),
         unit.todo # <<>>
  PROVE  /\ n < Len(P) /\ Now = P[n + 1]
         /\ unit'.todo = Tail(unit.todo) => RestOf(P, n + 1)'
<1>0. PICK k \in Nat : k = Len(P) OBVIOUS
<1>1. unit.todo \in Seq(Ops) BY DEF DeployTypeOK
<1>2. Len(unit.todo) > 0 BY <1>1
<1>3. Len(unit.todo) = k - n BY <1>0 DEF RestOf
<1>4. n < k BY <1>2, <1>3
<1>5. Now = P[n + 1] BY <1>1, <1>2 DEF Now, RestOf
<1>6. ASSUME unit'.todo = Tail(unit.todo) PROVE RestOf(P, n + 1)'
  <2>1. Len(unit'.todo) = k - (n + 1) BY <1>1, <1>2, <1>3, <1>6
  <2>2. ASSUME NEW i \in 1..Len(unit'.todo) PROVE unit'.todo[i] = P[(n + 1) + i]
    <3>1. i \in Nat /\ i + 1 \in 1..Len(unit.todo) BY <1>1, <1>2, <1>3, <2>1, <2>2
    <3>2. unit'.todo[i] = unit.todo[i + 1] BY <1>1, <1>2, <1>6, <3>1
    <3>3. unit.todo[i + 1] = P[n + (i + 1)] BY <3>1 DEF RestOf
    <3>4. n + (i + 1) = (n + 1) + i BY <3>1
    <3> QED BY <3>2, <3>3, <3>4
  <2>3. n + 1 \in 0..Len(P) BY <1>0, <1>4
  <2> QED BY <1>0, <2>1, <2>2, <2>3 DEF RestOf
<1> QED BY <1>0, <1>4, <1>5, <1>6

(* What each command does to Docker; all but the probe of the route and the    *)
(* removal of a bare router move on to the next command.                       *)
LEMMA CommandDoes ==
  ASSUME DeployTypeOK, DockerCommand, NEW name, NEW b, Now = Op(name, b)
  PROVE  /\ name = "import" => /\ unit' = [unit EXCEPT !.todo = Tail(unit.todo)]
                               /\ docker' = [docker EXCEPT !.images = docker.images \cup {b}]
         /\ name = "router" =>
              \/ docker.router = "bare" /\ UNCHANGED unit
                 /\ docker' = [docker EXCEPT !.router = "absent"]
              \/ docker.router # "bare" /\ unit' = [unit EXCEPT !.todo = Tail(unit.todo)]
                 /\ docker' = [docker EXCEPT !.router = "up"]
         /\ name = "apply" =>
              /\ unit' = [unit EXCEPT !.todo = ApplyStableRelease(Prev(unit.r), b)]
              /\ UNCHANGED docker
         /\ name \in {"backend", "switch", "adopt", "exclusive", "stop", "registry", "setup",
                      "unregister", "verify"} => unit' = [unit EXCEPT !.todo = Tail(unit.todo)]
         /\ name = "backend" => docker' = [docker EXCEPT !.backend[b] = "running"]
         /\ name = "switch" =>
              docker.backend[b] = "running" /\ docker' = [docker EXCEPT !.target = b]
         /\ name = "adopt" =>
              docker' = [docker EXCEPT !.boot = IF docker.boot = b THEN NoBundle ELSE docker.boot]
         /\ name = "exclusive" =>
              docker.router = "up" /\ docker.boot = NoBundle /\ docker' = docker
         /\ name = "stop" =>
              docker' = [docker EXCEPT !.backend[b] =
                           IF docker.backend[b] = "running" THEN "stopped" ELSE docker.backend[b]]
         /\ name = "setup" => docker' = [docker EXCEPT !.boot = b]
         /\ name = "registry" => docker' = [docker EXCEPT !.registry = TRUE]
         /\ name = "unregister" => docker' = [docker EXCEPT !.registry = FALSE]
         /\ name = "verify" => docker.boot = b /\ docker' = docker
<1>1. Now.op = name /\ Now.of = b BY DEF Op
<1>2. Command BY DEF DockerCommand
<1> QED BY <1>1, <1>2 DEF Command, ImportImage, EnsureRouter, RouteProbe, EnsureBackend,
      SwitchRouter, AdoptBootstrap, ExclusiveAlias, StopBackend, StartRegistry, KamalSetup,
      DropRegistry, VerifyVersion, Did

(* The first phase of a plan that is not done.                                 *)
LEMMA NextForward ==
  ASSUME NEW done
  PROVE  /\ "candidate" \notin done => NextOf(Forward, done) = "candidate"
         /\ "candidate" \in done /\ "deploying" \notin done => NextOf(Forward, done) = "deploying"
         /\ {"candidate", "deploying"} \subseteq done /\ "health_checking" \notin done =>
              NextOf(Forward, done) = "health_checking"
         /\ {"candidate", "deploying", "health_checking"} \subseteq done /\ "soaking" \notin done =>
              NextOf(Forward, done) = "soaking"
         /\ {"candidate", "deploying", "health_checking", "soaking"} \subseteq done =>
              NextOf(Forward, done) = "end"
<1> DEFINE P == Forward
           Q(i) == P[i] \notin done /\ \A j \in 1..(i - 1) : P[j] \in done
           ch == CHOOSE i \in 1..Len(P) : Q(i)
<1>1. /\ Len(P) = 4 /\ P[1] = "candidate" /\ P[2] = "deploying" /\ P[3] = "health_checking"
      /\ P[4] = "soaking"
  BY DEF Forward
<1>2. NextOf(Forward, done) = IF \A i \in 1..Len(P) : P[i] \in done THEN "end" ELSE P[ch]
  BY DEF NextOf
<1>3. ASSUME NEW i \in 1..4, Q(i) PROVE ch \in 1..4 /\ Q(ch)
  BY <1>1, <1>3
<1> HIDE DEF P
<1>4. CASE "candidate" \notin done
  <2>1. Q(1) BY <1>1, <1>4
  <2>2. ch \in 1..4 /\ Q(ch) BY <1>3, <2>1
  <2>3. ch = 1 BY <1>1, <1>4, <2>2
  <2> QED BY <1>1, <1>2, <1>4, <2>3
<1>5. CASE "candidate" \in done /\ "deploying" \notin done
  <2>1. Q(2) BY <1>1, <1>5
  <2>2. ch \in 1..4 /\ Q(ch) BY <1>3, <2>1
  <2>3. ch = 2 BY <1>1, <1>5, <2>2
  <2> QED BY <1>1, <1>2, <1>5, <2>3
<1>6. CASE {"candidate", "deploying"} \subseteq done /\ "health_checking" \notin done
  <2>1. Q(3) BY <1>1, <1>6
  <2>2. ch \in 1..4 /\ Q(ch) BY <1>3, <2>1
  <2>3. ch = 3 BY <1>1, <1>6, <2>2
  <2> QED BY <1>1, <1>2, <1>6, <2>3
<1>7. CASE {"candidate", "deploying", "health_checking"} \subseteq done /\ "soaking" \notin done
  <2>1. Q(4) BY <1>1, <1>7
  <2>2. ch \in 1..4 /\ Q(ch) BY <1>3, <2>1
  <2>3. ch = 4 BY <1>1, <1>7, <2>2
  <2> QED BY <1>1, <1>2, <1>7, <2>3
<1>8. CASE {"candidate", "deploying", "health_checking", "soaking"} \subseteq done
  <2>1. \A i \in 1..4 : P[i] \in done BY <1>1, <1>8
  <2> QED BY <1>1, <1>2, <1>8, <2>1
<1> QED BY <1>4, <1>5, <1>6, <1>7, <1>8

(* The same of the way back.                                                   *)
LEMMA NextBackward ==
  ASSUME NEW done
  PROVE  /\ "rollback" \notin done => NextOf(Backward, done) = "rollback"
         /\ "rollback" \in done /\ "rollback_health" \notin done =>
              NextOf(Backward, done) = "rollback_health"
         /\ {"rollback", "rollback_health"} \subseteq done /\ "rollback_soak" \notin done =>
              NextOf(Backward, done) = "rollback_soak"
         /\ {"rollback", "rollback_health", "rollback_soak"} \subseteq done =>
              NextOf(Backward, done) = "end"
<1> DEFINE P == Backward
           Q(i) == P[i] \notin done /\ \A j \in 1..(i - 1) : P[j] \in done
           ch == CHOOSE i \in 1..Len(P) : Q(i)
<1>1. Len(P) = 3 /\ P[1] = "rollback" /\ P[2] = "rollback_health" /\ P[3] = "rollback_soak"
  BY DEF Backward
<1>2. NextOf(Backward, done) = IF \A i \in 1..Len(P) : P[i] \in done THEN "end" ELSE P[ch]
  BY DEF NextOf
<1>3. ASSUME NEW i \in 1..3, Q(i) PROVE ch \in 1..3 /\ Q(ch)
  BY <1>1, <1>3
<1> HIDE DEF P
<1>4. CASE "rollback" \notin done
  <2>1. Q(1) BY <1>1, <1>4
  <2>2. ch \in 1..3 /\ Q(ch) BY <1>3, <2>1
  <2>3. ch = 1 BY <1>1, <1>4, <2>2
  <2> QED BY <1>1, <1>2, <1>4, <2>3
<1>5. CASE "rollback" \in done /\ "rollback_health" \notin done
  <2>1. Q(2) BY <1>1, <1>5
  <2>2. ch \in 1..3 /\ Q(ch) BY <1>3, <2>1
  <2>3. ch = 2 BY <1>1, <1>5, <2>2
  <2> QED BY <1>1, <1>2, <1>5, <2>3
<1>6. CASE {"rollback", "rollback_health"} \subseteq done /\ "rollback_soak" \notin done
  <2>1. Q(3) BY <1>1, <1>6
  <2>2. ch \in 1..3 /\ Q(ch) BY <1>3, <2>1
  <2>3. ch = 3 BY <1>1, <1>6, <2>2
  <2> QED BY <1>1, <1>2, <1>6, <2>3
<1>7. CASE {"rollback", "rollback_health", "rollback_soak"} \subseteq done
  <2>1. \A i \in 1..3 : P[i] \in done BY <1>1, <1>7
  <2> QED BY <1>1, <1>2, <1>7, <2>1
<1> QED BY <1>4, <1>5, <1>6, <1>7

(* What the phase of an attempt says of its receipts.                          *)
LEMMA PhaseSays ==
  ASSUME NEW r
  PROVE  /\ PhaseNow(r) \in AllPhases \cup {"end"}
         /\ PhaseNow(r) # "end" => PhaseNow(r) \notin Receipts(r)
         /\ PhaseNow(r) \in {"candidate", "deploying", "health_checking", "soaking"} =>
              ~ journal[r].takeover
         /\ PhaseNow(r) \in {"rollback", "rollback_health", "rollback_soak"} => journal[r].takeover
         /\ PhaseNow(r) \in {"health_checking", "soaking"} => "deploying" \in Receipts(r)
         /\ PhaseNow(r) \in {"rollback_health", "rollback_soak"} => "rollback" \in Receipts(r)
         /\ PhaseNow(r) = "end" /\ ~ journal[r].takeover =>
              {"deploying", "soaking"} \subseteq Receipts(r)
         /\ PhaseNow(r) = "end" /\ journal[r].takeover => "rollback" \in Receipts(r)
<1>0. PICK done : done = Receipts(r) OBVIOUS
<1>1. CASE journal[r].takeover
  <2>1. PhaseNow(r) = NextOf(Backward, done) BY <1>0, <1>1 DEF PhaseNow
  <2>2. \/ "rollback" \notin done /\ NextOf(Backward, done) = "rollback"
        \/ "rollback" \in done /\ "rollback_health" \notin done
           /\ NextOf(Backward, done) = "rollback_health"
        \/ "rollback" \in done /\ "rollback_soak" \notin done
           /\ NextOf(Backward, done) = "rollback_soak"
        \/ "rollback" \in done /\ NextOf(Backward, done) = "end"
    BY NextBackward
  <2> QED BY <1>0, <1>1, <2>1, <2>2 DEF AllPhases
<1>2. CASE ~ journal[r].takeover
  <2>1. PhaseNow(r) = NextOf(Forward, done) BY <1>0, <1>2 DEF PhaseNow
  <2>2. \/ "candidate" \notin done /\ NextOf(Forward, done) = "candidate"
        \/ "deploying" \notin done /\ NextOf(Forward, done) = "deploying"
        \/ "deploying" \in done /\ "health_checking" \notin done
           /\ NextOf(Forward, done) = "health_checking"
        \/ "deploying" \in done /\ "soaking" \notin done /\ NextOf(Forward, done) = "soaking"
        \/ {"deploying", "soaking"} \subseteq done /\ NextOf(Forward, done) = "end"
    BY NextForward
  <2> QED BY <1>0, <1>2, <2>1, <2>2 DEF AllPhases
<1> QED BY <1>1, <1>2

(* The phase and the result of an attempt are read off its receipts.           *)
LEMMA PhaseFrame ==
  ASSUME NEW r, journal'[r].receipts = journal[r].receipts,
         journal'[r].takeover = journal[r].takeover
  PROVE  PhaseNow(r)' = PhaseNow(r) /\ Result(r)' = Result(r) /\ Receipts(r)' = Receipts(r)
<1>1. PhaseNow(r)' = PhaseNow(r) BY DEF PhaseNow, Receipts
<1> QED BY <1>1 DEF Result, Receipts

(* The worker's position is read off the scan, the accepted requests, the      *)
(* document and the receipts.                                                  *)
LEMMA DrivenType ==
  ASSUME DeployInv, Driving
  PROVE  /\ Driven \in DeployRequests /\ intent[Driven].state # "none" /\ Prev(Driven) = release.current
         /\ Cand(Driven) \in Bundles /\ scan.at \in 1..Len(accepted) /\ scan.seen = release.current
<1>1. accepted \in Seq(DeployRequests) /\ scan.at \in Nat BY DEF DeployInv, DeployTypeOK
<1>2. scan.at <= Len(accepted) /\ scan.at > 0 BY DEF DeployInv, WorkerKnows, Driving
<1>3. scan.at \in 1..Len(accepted) BY <1>1, <1>2
<1>4. Driven \in DeployRequests BY <1>1, <1>3 DEF Driven
<1>5. intent[Driven].state # "none" BY <1>3 DEF DeployInv, WorkerKnows, Driven
<1>6. Prev(Driven) = release.current /\ scan.seen = release.current BY DEF DeployInv, WorkerKnows
<1>7. Cand(Driven) \in Bundles BY <1>4, <1>5 DEF DeployInv, IntentsOrdered
<1> QED BY <1>3, <1>4, <1>5, <1>6, <1>7

(* Steps that leave the receipts, the lock, the document, the units' ends and  *)
(* Docker alone.                                                               *)
IntentsStand ==
  /\ \A r \in DeployRequests :
       /\ Cand(r)' = Cand(r) /\ Prev(r)' = Prev(r)
       /\ intent'[r].state = "none" <=> intent[r].state = "none"
       /\ journal'[r].receipts = journal[r].receipts /\ journal'[r].takeover = journal[r].takeover
       /\ \/ journal'[r].spec = journal[r].spec
          \/ /\ journal[r].spec \in {"none", "bound"} /\ journal'[r].spec \in {"bound", "stale"}
             /\ intent[r].state # "none"
  /\ head <= head'
  /\ unit'.r = unit.r /\ unit'.effect = unit.effect /\ unit'.todo = unit.todo
  /\ UNCHANGED <<deployLock, release, ended, docker, overtaken>>

(* What the requests still know after a quiet step.                            *)
LEMMA QuietRequests ==
  ASSUME DeployInv, DeployTypeOK', IntentsStand
  PROVE  /\ \A r \in DeployRequests : /\ PhaseNow(r)' = PhaseNow(r) /\ Result(r)' = Result(r)
                                      /\ Receipts(r)' = Receipts(r) /\ FirstEffect(r)' = FirstEffect(r)
                                      /\ EffectOf(r)' = EffectOf(r)
         /\ Uncommitted' = Uncommitted /\ Served' = Served
<1>1. ASSUME NEW r \in DeployRequests
      PROVE /\ PhaseNow(r)' = PhaseNow(r) /\ Result(r)' = Result(r)
            /\ Receipts(r)' = Receipts(r) /\ FirstEffect(r)' = FirstEffect(r)
            /\ EffectOf(r)' = EffectOf(r)
  <2>1. /\ journal'[r].receipts = journal[r].receipts /\ journal'[r].takeover = journal[r].takeover
        /\ Prev(r)' = Prev(r)
    BY DEF IntentsStand
  <2>2. PhaseNow(r)' = PhaseNow(r) /\ Result(r)' = Result(r) /\ Receipts(r)' = Receipts(r)
    BY <2>1, PhaseFrame
  <2> QED BY <2>1, <2>2 DEF FirstEffect, EffectOf
<1>2. \A r \in DeployRequests : Prev(r)' = Prev(r) BY DEF IntentsStand
<1>3. Uncommitted' = Uncommitted BY <1>1, <1>2 DEF Uncommitted, IntentsStand
<1>4. Served' = Served BY DEF Served, IntentsStand
<1> QED BY <1>1, <1>3, <1>4

(* A quiet step keeps the invariant when the worker still knows its place.     *)
LEMMA QuietKeeps ==
  ASSUME DeployInv, DeployTypeOK', WorkerKnows', IntentsStand
  PROVE  DeployInv'
<1>1. /\ \A r \in DeployRequests : /\ PhaseNow(r)' = PhaseNow(r) /\ Result(r)' = Result(r)
                                   /\ Receipts(r)' = Receipts(r) /\ FirstEffect(r)' = FirstEffect(r)
                                   /\ EffectOf(r)' = EffectOf(r)
      /\ Uncommitted' = Uncommitted /\ Served' = Served
  BY QuietRequests
<1>2. /\ \A r \in DeployRequests :
           /\ Cand(r)' = Cand(r) /\ Prev(r)' = Prev(r)
           /\ intent'[r].state = "none" <=> intent[r].state = "none"
           /\ journal'[r].takeover = journal[r].takeover
           /\ journal'[r].spec = "permitted" <=> journal[r].spec = "permitted"
           /\ intent[r].state = "none" => journal'[r].spec = journal[r].spec
           /\ journal[r].spec \in {"stale", "permitted"} => journal'[r].spec = journal[r].spec
      /\ unit'.r = unit.r /\ unit'.effect = unit.effect /\ unit'.todo = unit.todo
      /\ deployLock' = deployLock /\ release' = release /\ ended' = ended /\ docker' = docker
      /\ overtaken' = overtaken
  BY DEF IntentsStand
<1>3. head \in Nat /\ head' \in Nat /\ head <= head' /\ release.current \in MaybeBundles
  BY DeployAssumption DEF DeployInv, DeployTypeOK, IntentsStand
<1>4. IntentsOrdered'
  <2>1. release'.current # NoBundle => release'.current <= head'
    <3>1. release.current # NoBundle => release.current \in Nat /\ release.current <= head
      BY <1>3, DeployAssumption DEF DeployInv, IntentsOrdered, MaybeBundles
    <3> QED BY <1>2, <1>3, <3>1
  <2>2. ASSUME NEW r \in DeployRequests
        PROVE IF intent'[r].state = "none"
              THEN Receipts(r)' = {} /\ Prev(r)' = NoBundle /\ journal'[r].spec = "none"
              ELSE /\ Cand(r)' \in Bundles /\ Cand(r)' <= head'
                   /\ Prev(r)' # NoBundle => Prev(r)' < Cand(r)'
    <3>1. IF intent[r].state = "none"
          THEN Receipts(r) = {} /\ Prev(r) = NoBundle /\ journal[r].spec = "none"
          ELSE /\ Cand(r) \in Bundles /\ Cand(r) <= head
               /\ Prev(r) # NoBundle => Prev(r) < Cand(r)
      BY DEF DeployInv, IntentsOrdered
    <3>2. CASE intent[r].state = "none" BY <1>1, <1>2, <3>1, <3>2
    <3>3. CASE intent[r].state # "none"
      <4>1. Cand(r) \in Nat BY <3>1, <3>3, DeployAssumption
      <4> QED BY <1>1, <1>2, <1>3, <3>1, <3>3, <4>1
    <3> QED BY <3>2, <3>3
  <2> QED BY <2>1, <2>2 DEF IntentsOrdered
<1>5. DocumentMovesOn' BY <1>1, <1>2 DEF DeployInv, DocumentMovesOn
<1>6. ASSUME NEW r \in DeployRequests PROVE ReceiptsFollow(r)'
  <2>1. ReceiptsFollow(r) BY DEF DeployInv
  <2> QED BY <1>1, <1>2, <2>1 DEF ReceiptsFollow
<1>7. LockFollows'
  <2>1. LockFollows /\ deployLock \in DeployRequests \cup {NoRequest}
    BY DEF DeployInv, DeployTypeOK
  <2> QED BY <1>1, <1>2, <2>1 DEF LockFollows
<1>8. UnitKnows'
  <2> SUFFICES ASSUME unit.r # NoRequest PROVE UnitKnows' BY <1>2 DEF UnitKnows
  <2>1. UnitKnows /\ unit.r \in DeployRequests BY DEF DeployInv, DeployTypeOK
  <2>2. PICK r \in DeployRequests : r = unit.r BY <2>1
  <2>3. PICK p, c, e : p = Prev(r) /\ c = Cand(r) /\ e = unit.effect OBVIOUS
  <2>4. UnitPoint(e, p, c) BY <2>1, <2>2, <2>3 DEF UnitKnows
  <2>5. UnitPoint(e, p, c)'
    BY <1>2, <2>4 DEF UnitPoint, BootstrapPoint, DeployPoint, MainPoint, FreshPoint,
       RoutedPoint, RollbackPoint, RestOf, Up, Runs
  <2>6. unit'.r = r /\ Prev(r)' = p /\ Cand(r)' = c /\ unit'.effect = e BY <1>2, <2>2, <2>3
  <2>7. UnitPoint(unit.effect, Prev(unit.r), Cand(unit.r))' BY <2>5, <2>6
  <2>8. /\ intent'[r].state # "none" /\ e \in Effects /\ deployLock' = r
        /\ journal'[r].spec = "permitted" /\ PhaseNow(r)' \in {"deploying", "rollback"}
        /\ e = EffectOf(r)' /\ ended'[r][e] = "no"
    BY <1>1, <1>2, <2>1, <2>2, <2>3 DEF UnitKnows
  <2> QED BY <2>6, <2>7, <2>8 DEF UnitKnows
<1>9. OnceServed' BY <1>1, <1>2 DEF DeployInv, OnceServed
<1>10. FreeIsServed'
  <2>1. Uncommitted \subseteq DeployRequests BY DEF Uncommitted
  <2> QED BY <1>1, <1>2, <2>1 DEF DeployInv, FreeIsServed
<1>11. HeldIsServed' BY <1>1, <1>2 DEF DeployInv, HeldIsServed
<1> QED BY <1>4, <1>5, <1>6, <1>7, <1>8, <1>9, <1>10, <1>11 DEF DeployInv

(* The worker's next position after a quiet step.                              *)
LEMMA WorkerGoes ==
  ASSUME DeployInv, IntentsStand, accepted' = accepted,
         \/ scan' = Sleeping
         \/ scan.pc # "sleep" /\ NextJob
         \/ Driving /\ \E pc \in {"bind", "promote", "phase"} : GoTo(pc)
         \/ scan' = scan
         \/ /\ scan.pc = "pick" /\ scan.at <= scan.upto /\ release.current = Prev(Driven)
            /\ scan' = [scan EXCEPT !.pc = "bind", !.seen = release.current]
         \/ /\ scan.pc = "sleep"
            /\ scan' = [pc |-> "pick", at |-> 1, upto |-> Len(accepted), seen |-> NoBundle]
  PROVE  WorkerKnows' /\ scan' \in [pc : ScanSteps, at : Nat, upto : Nat, seen : MaybeBundles]
<1>1. /\ scan \in [pc : ScanSteps, at : Nat, upto : Nat, seen : MaybeBundles]
      /\ accepted \in Seq(DeployRequests) /\ Len(accepted) \in Nat
      /\ release.current \in MaybeBundles /\ NoBundle \in MaybeBundles
  BY DEF DeployInv, DeployTypeOK, MaybeBundles
<1>2. \A i \in 1..Len(accepted') : intent'[accepted'[i]].state # "none"
  <2>1. ASSUME NEW i \in 1..Len(accepted) PROVE intent'[accepted[i]].state # "none"
    <3>1. accepted[i] \in DeployRequests BY <1>1
    <3>2. intent[accepted[i]].state # "none" BY DEF DeployInv, WorkerKnows
    <3> QED BY <3>1, <3>2 DEF IntentsStand
  <2> QED BY <2>1
<1>3. scan.upto <= Len(accepted) BY DEF DeployInv, WorkerKnows
<1>4. CASE scan' = Sleeping
  BY <1>1, <1>2, <1>4 DEF WorkerKnows, Sleeping, Driving, ScanSteps
<1>5. CASE scan.pc # "sleep" /\ NextJob
  <2>1. /\ scan'.pc = "pick" /\ scan'.at = scan.at + 1 /\ scan'.upto = scan.upto
        /\ scan' \in [pc : ScanSteps, at : Nat, upto : Nat, seen : MaybeBundles]
    <3>1. scan' = [scan EXCEPT !.pc = "pick", !.at = scan.at + 1] BY <1>5 DEF NextJob
    <3>2. PICK k : k = scan.at + 1 OBVIOUS
    <3>3. k \in Nat BY <1>1, <3>2
    <3>4. scan' = [scan EXCEPT !.pc = "pick", !.at = k] BY <3>1, <3>2
    <3>5. scan'.pc = "pick" /\ scan'.at = k /\ scan'.upto = scan.upto BY <1>1, <3>4
    <3>6. scan' \in [pc : ScanSteps, at : Nat, upto : Nat, seen : MaybeBundles]
      BY <1>1, <3>3, <3>4 DEF ScanSteps
    <3> QED BY <3>2, <3>5, <3>6
  <2>2. scan'.at > 0 BY <1>1, <2>1
  <2> QED BY <1>1, <1>2, <1>3, <2>1, <2>2 DEF WorkerKnows, Driving
<1>6. CASE Driving /\ \E pc \in {"bind", "promote", "phase"} : GoTo(pc)
  <2>1. /\ scan'.pc \in {"bind", "promote", "phase"} /\ scan'.at = scan.at /\ scan'.upto = scan.upto
        /\ scan'.seen = scan.seen
        /\ scan' \in [pc : ScanSteps, at : Nat, upto : Nat, seen : MaybeBundles]
    BY <1>1, <1>6 DEF GoTo, ScanSteps
  <2>2. /\ Driven \in DeployRequests /\ scan.at \in 1..Len(accepted) /\ scan.seen = release.current
        /\ Prev(Driven) = release.current
    BY <1>6, DrivenType
  <2>3. Driven' = Driven /\ release' = release /\ Prev(Driven)' = Prev(Driven)
    <3>1. Driven' = Driven BY <2>1 DEF Driven
    <3>2. PICK d \in DeployRequests : d = Driven BY <2>2
    <3>3. Prev(d)' = Prev(d) /\ release' = release BY DEF IntentsStand
    <3> QED BY <3>1, <3>2, <3>3
  <2> QED BY <1>1, <1>2, <1>3, <2>1, <2>2, <2>3 DEF WorkerKnows, Driving
<1>7. CASE scan' = scan
  <2>1. CASE ~ Driving
    <3>1. scan.pc \in {"sleep", "pick"} BY <2>1 DEF Driving
    <3> QED BY <1>1, <1>2, <1>3, <1>7, <3>1 DEF WorkerKnows, Driving, DeployInv
  <2>2. CASE Driving
    <3>1. /\ Driven \in DeployRequests /\ scan.at \in 1..Len(accepted) /\ scan.seen = release.current
          /\ Prev(Driven) = release.current
      BY <2>2, DrivenType
    <3>2. PICK d \in DeployRequests : d = Driven /\ d = Driven' BY <1>7, <3>1 DEF Driven
    <3>3. Prev(d)' = Prev(d) /\ release' = release /\ deployLock' = deployLock BY DEF IntentsStand
    <3>4. PhaseNow(d)' = PhaseNow(d) /\ Result(d)' = Result(d) BY PhaseFrame DEF IntentsStand
    <3>5. /\ scan.pc = "commit" => Result(d) = "succeeded" /\ deployLock # d
          /\ scan.pc = "wait" => PhaseNow(d) \in {"deploying", "rollback"}
      BY <3>2 DEF DeployInv, WorkerKnows
    <3> QED BY <1>1, <1>2, <1>3, <1>7, <3>1, <3>2, <3>3, <3>4, <3>5 DEF WorkerKnows, Driving
  <2> QED BY <2>1, <2>2
<1>8. CASE /\ scan.pc = "pick" /\ scan.at <= scan.upto /\ release.current = Prev(Driven)
           /\ scan' = [scan EXCEPT !.pc = "bind", !.seen = release.current]
  <2>1. /\ scan'.pc = "bind" /\ scan'.at = scan.at /\ scan'.upto = scan.upto
        /\ scan'.seen = release.current
        /\ scan' \in [pc : ScanSteps, at : Nat, upto : Nat, seen : MaybeBundles]
    BY <1>1, <1>8 DEF ScanSteps
  <2>2. scan.at > 0 BY <1>8 DEF DeployInv, WorkerKnows
  <2>3. scan.at \in 1..Len(accepted) BY <1>1, <1>3, <1>8, <2>2
  <2>4. PICK d \in DeployRequests : d = Driven /\ d = Driven' BY <1>1, <2>1, <2>3 DEF Driven
  <2>5. Prev(d)' = Prev(d) /\ release' = release BY DEF IntentsStand
  <2> QED BY <1>1, <1>2, <1>3, <1>8, <2>1, <2>2, <2>3, <2>4, <2>5 DEF WorkerKnows, Driving
<1>9. CASE /\ scan.pc = "sleep"
           /\ scan' = [pc |-> "pick", at |-> 1, upto |-> Len(accepted), seen |-> NoBundle]
  BY <1>1, <1>2, <1>9 DEF WorkerKnows, Driving, ScanSteps
<1> QED BY <1>4, <1>5, <1>6, <1>7, <1>8, <1>9

(* Steps that change no intent, no journal and nothing outside the worker.     *)
LEMMA WorkerOnly ==
  ASSUME DeployInv, UNCHANGED <<head, admission, durable, unit, ended, docker, overtaken>>
  PROVE  IntentsStand /\ accepted' = accepted
         /\ (scan' \in [pc : ScanSteps, at : Nat, upto : Nat, seen : MaybeBundles] => DeployTypeOK')
<1>1. /\ head \in Nat /\ head' = head /\ intent' = intent /\ accepted' = accepted
      /\ journal' = journal /\ deployLock' = deployLock /\ release' = release
      /\ unit' = unit /\ ended' = ended /\ docker' = docker /\ overtaken' = overtaken
  BY DeployAssumption DEF DeployInv, DeployTypeOK, admission, durable
<1>2. IntentsStand BY <1>1 DEF IntentsStand, Cand, Prev
<1>3. DeployTypeOK BY DEF DeployInv
<1> QED BY <1>1, <1>2, <1>3 DEF DeployTypeOK

(* The worker's scan.                                                          *)
LEMMA ScanKeeps ==
  ASSUME DeployInv, \/ StartScan \/ Pick \/ PromoteCandidate \/ DriveFails \/ PhaseConflict
  PROVE  DeployInv'
<1>1. UNCHANGED <<head, admission, durable, unit, ended, docker, overtaken>>
  BY DEF StartScan, Pick, PromoteCandidate, DriveFails, PhaseConflict, machine, durable
<1>2. IntentsStand /\ accepted' = accepted
      /\ (scan' \in [pc : ScanSteps, at : Nat, upto : Nat, seen : MaybeBundles] => DeployTypeOK')
  BY <1>1, WorkerOnly
<1>3. \/ scan' = Sleeping
      \/ scan.pc # "sleep" /\ NextJob
      \/ Driving /\ \E pc \in {"bind", "promote", "phase"} : GoTo(pc)
      \/ scan' = scan
      \/ /\ scan.pc = "pick" /\ scan.at <= scan.upto /\ release.current = Prev(Driven)
         /\ scan' = [scan EXCEPT !.pc = "bind", !.seen = release.current]
      \/ /\ scan.pc = "sleep"
         /\ scan' = [pc |-> "pick", at |-> 1, upto |-> Len(accepted), seen |-> NoBundle]
  <2>1. CASE StartScan BY <2>1 DEF StartScan
  <2>2. CASE Pick
    <3>1. scan.at \in Nat /\ scan.upto \in Nat BY DEF DeployInv, DeployTypeOK
    <3>2. CASE scan.at > scan.upto BY <2>2, <3>2 DEF Pick
    <3>3. CASE scan.at <= scan.upto
      <4>1. ~ (scan.at > scan.upto) BY <3>1, <3>3
      <4> QED BY <2>2, <3>3, <4>1 DEF Pick, ReleaseShape
    <3> QED BY <3>1, <3>2, <3>3
  <2>3. CASE PromoteCandidate BY <2>3 DEF PromoteCandidate, Driving
  <2>4. CASE DriveFails BY <2>4 DEF DriveFails
  <2>5. CASE PhaseConflict BY <2>5 DEF PhaseConflict, AtUnitPhase, At
  <2> QED BY <2>1, <2>2, <2>3, <2>4, <2>5
<1>4. WorkerKnows' /\ scan' \in [pc : ScanSteps, at : Nat, upto : Nat, seen : MaybeBundles]
  BY <1>2, <1>3, WorkerGoes
<1> QED BY <1>2, <1>4, QuietKeeps

(* A phase that is refused: the worker goes on with the next job.              *)
LEMMA PassKeeps ==
  ASSUME DeployInv, scan.pc # "sleep", NextJob,
         UNCHANGED <<head, admission, durable, unit, ended, docker, overtaken>>
  PROVE  DeployInv'
<1>2. IntentsStand /\ accepted' = accepted
      /\ (scan' \in [pc : ScanSteps, at : Nat, upto : Nat, seen : MaybeBundles] => DeployTypeOK')
  BY WorkerOnly
<1>4. WorkerKnows' /\ scan' \in [pc : ScanSteps, at : Nat, upto : Nat, seen : MaybeBundles]
  BY <1>2, WorkerGoes
<1> QED BY <1>2, <1>4, QuietKeeps

(* Only the specification or the authorization of one attempt changes.         *)
LEMMA SpecStep ==
  ASSUME DeployInv, NEW r \in DeployRequests, intent[r].state # "none",
         \/ journal' = [journal EXCEPT ![r].auth = TRUE]
         \/ journal[r].spec = "none" /\ journal' = [journal EXCEPT ![r].spec = "bound"]
         \/ journal[r].spec = "bound" /\ journal' = [journal EXCEPT ![r].spec = "stale"],
         UNCHANGED <<head, intent, deployLock, release, unit, ended, docker, overtaken>>
  PROVE  IntentsStand /\ journal' \in [DeployRequests -> JournalRows]
<1>1. journal \in [DeployRequests -> JournalRows] /\ journal[r] \in JournalRows /\ head \in Nat
  BY DeployAssumption DEF DeployInv, DeployTypeOK
<1>2. PICK row \in JournalRows :
         /\ journal' = [journal EXCEPT ![r] = row]
         /\ row.receipts = journal[r].receipts /\ row.takeover = journal[r].takeover
         /\ \/ row.spec = journal[r].spec
            \/ journal[r].spec \in {"none", "bound"} /\ row.spec \in {"bound", "stale"}
  <2>1. CASE journal' = [journal EXCEPT ![r].auth = TRUE]
    <3>1. PICK row : row = [journal[r] EXCEPT !.auth = TRUE] OBVIOUS
    <3>2. row \in JournalRows /\ row.receipts = journal[r].receipts
          /\ row.takeover = journal[r].takeover /\ row.spec = journal[r].spec
      BY <1>1, <3>1 DEF JournalRows
    <3>3. journal' = [journal EXCEPT ![r] = row] BY <1>1, <2>1, <3>1
    <3> QED BY <3>2, <3>3
  <2>2. ASSUME NEW s \in {"bound", "stale"}, journal[r].spec \in {"none", "bound"},
               journal' = [journal EXCEPT ![r].spec = s]
        PROVE \E row \in JournalRows :
                /\ journal' = [journal EXCEPT ![r] = row]
                /\ row.receipts = journal[r].receipts /\ row.takeover = journal[r].takeover
                /\ journal[r].spec \in {"none", "bound"} /\ row.spec \in {"bound", "stale"}
    <3>1. PICK row : row = [journal[r] EXCEPT !.spec = s] OBVIOUS
    <3>2. row \in JournalRows /\ row.receipts = journal[r].receipts
          /\ row.takeover = journal[r].takeover /\ row.spec = s
      BY <1>1, <2>2, <3>1 DEF JournalRows
    <3>3. journal' = [journal EXCEPT ![r] = row] BY <1>1, <2>2, <3>1
    <3> QED BY <2>2, <3>2, <3>3
  <2> QED BY <2>1, <2>2
<1>3. journal' \in [DeployRequests -> JournalRows] BY <1>1, <1>2
<1>4. ASSUME NEW q \in DeployRequests
      PROVE /\ journal'[q].receipts = journal[q].receipts
            /\ journal'[q].takeover = journal[q].takeover
            /\ \/ journal'[q].spec = journal[q].spec
               \/ /\ journal[q].spec \in {"none", "bound"} /\ journal'[q].spec \in {"bound", "stale"}
                  /\ intent[q].state # "none"
  <2>1. CASE q = r BY <1>1, <1>2, <2>1
  <2>2. CASE q # r BY <1>1, <1>2, <2>2
  <2> QED BY <2>1, <2>2
<1> QED BY <1>1, <1>3, <1>4 DEF IntentsStand, Cand, Prev

(* Binding the reservation and the specification of the driven attempt.        *)
LEMMA BindKeeps ==
  ASSUME DeployInv, BindReservation \/ BindDeploySpec
  PROVE  DeployInv'
<1>1. /\ UNCHANGED <<head, intent, accepted, deployLock, release, unit, ended, docker, overtaken>>
      /\ Driving /\ (scan' = scan \/ GoTo("promote"))
      /\ \/ journal' = [journal EXCEPT ![Driven].auth = TRUE]
         \/ /\ journal[Driven].spec = "none"
            /\ journal' = [journal EXCEPT ![Driven].spec = "bound"]
  BY DEF BindReservation, AuthorizeAttempt, BindDeploySpec, admission, machine, Driving, At
<1>2. PICK d \in DeployRequests : d = Driven /\ intent[d].state # "none" BY <1>1, DrivenType
<1>3. IntentsStand /\ journal' \in [DeployRequests -> JournalRows] BY <1>1, <1>2, SpecStep
<1>4. WorkerKnows' /\ scan' \in [pc : ScanSteps, at : Nat, upto : Nat, seen : MaybeBundles]
  BY <1>1, <1>3, WorkerGoes
<1>5. DeployTypeOK' BY <1>1, <1>3, <1>4 DEF DeployInv, DeployTypeOK
<1> QED BY <1>3, <1>4, <1>5, QuietKeeps

(* The evidence of a bound specification gets too old.                         *)
LEMMA EvidenceExpiresKeeps ==
  ASSUME DeployInv, NEW r \in DeployRequests, EvidenceExpires(r)
  PROVE  DeployInv'
<1>1. /\ UNCHANGED <<head, intent, accepted, deployLock, release, unit, ended, docker, overtaken>>
      /\ scan' = scan /\ journal[r].spec = "bound"
      /\ journal' = [journal EXCEPT ![r].spec = "stale"]
  BY DEF EvidenceExpires, admission, machine
<1>2. intent[r].state # "none" BY <1>1 DEF DeployInv, IntentsOrdered
<1>3. IntentsStand /\ journal' \in [DeployRequests -> JournalRows] BY <1>1, <1>2, SpecStep
<1>4. WorkerKnows' /\ scan' \in [pc : ScanSteps, at : Nat, upto : Nat, seen : MaybeBundles]
  BY <1>1, <1>3, WorkerGoes
<1>5. DeployTypeOK' BY <1>1, <1>3, <1>4 DEF DeployInv, DeployTypeOK
<1> QED BY <1>3, <1>4, <1>5, QuietKeeps

(* A grant, its expiry and its use change the state of an intent only.         *)
LEMMA GrantKeeps ==
  ASSUME DeployInv, NEW r \in DeployRequests, IssueGrant(r) \/ IntentExpires(r) \/ AcceptGrant(r)
  PROVE  DeployInv'
<1>1. PICK s \in {"granted", "expired", "consumed"} :
         /\ intent[r].state \in {"prepared", "granted"}
         /\ intent' = [intent EXCEPT ![r].state = s]
         /\ UNCHANGED <<head, journal, deployLock, release, scan, unit, ended, docker, overtaken>>
         /\ accepted' = accepted \/ accepted' = Append(accepted, r)
  BY DEF IssueGrant, IntentExpires, AcceptGrant, ConsumeGrant, GrantBinds, durable, machine
<1>2. intent \in [DeployRequests -> IntentRows] /\ intent[r] \in IntentRows /\ head \in Nat
  BY DeployAssumption DEF DeployInv, DeployTypeOK
<1>3. PICK row : row = [intent[r] EXCEPT !.state = s] OBVIOUS
<1>4. row \in IntentRows /\ row.state = s /\ row.cand = intent[r].cand /\ row.prev = intent[r].prev
  BY <1>2, <1>3 DEF IntentRows
<1>5. intent' = [intent EXCEPT ![r] = row] BY <1>1, <1>2, <1>3
<1>6. ASSUME NEW q \in DeployRequests
      PROVE /\ intent'[q].cand = intent[q].cand /\ intent'[q].prev = intent[q].prev
            /\ intent'[q].state = "none" <=> intent[q].state = "none"
  <2>1. CASE q = r BY <1>1, <1>2, <1>4, <1>5, <2>1
  <2>2. CASE q # r BY <1>2, <1>5, <2>2
  <2> QED BY <2>1, <2>2
<1>7. IntentsStand BY <1>1, <1>2, <1>6 DEF IntentsStand, Cand, Prev
<1>8. DeployTypeOK'
  <2>1. intent' \in [DeployRequests -> IntentRows] BY <1>2, <1>4, <1>5
  <2>2. accepted' \in Seq(DeployRequests)
    <3>1. accepted \in Seq(DeployRequests) BY DEF DeployInv, DeployTypeOK
    <3>2. Append(accepted, r) \in Seq(DeployRequests) BY <3>1
    <3> QED BY <1>1, <3>1, <3>2
  <2> QED BY <1>1, <2>1, <2>2 DEF DeployInv, DeployTypeOK
<1>9. WorkerKnows'
  <2>1. CASE accepted' = accepted BY <1>1, <1>7, <2>1, WorkerGoes
  <2>2. CASE accepted' = Append(accepted, r)
    <3>1. accepted \in Seq(DeployRequests) /\ Len(accepted) \in Nat /\ scan.at \in Nat
          /\ scan.upto \in Nat
      BY DEF DeployInv, DeployTypeOK
    <3>2. /\ Len(accepted') = Len(accepted) + 1 /\ accepted'[Len(accepted) + 1] = r
          /\ \A i \in 1..Len(accepted) : accepted'[i] = accepted[i]
      BY <2>2, <3>1
    <3>3. ASSUME NEW i \in 1..Len(accepted') PROVE intent'[accepted'[i]].state # "none"
      <4>1. CASE i = Len(accepted) + 1 BY <1>1, <1>4, <1>5, <1>2, <3>2, <4>1
      <4>2. CASE i # Len(accepted) + 1
        <5>1. i \in 1..Len(accepted) BY <3>1, <3>2, <4>2
        <5>2. accepted[i] \in DeployRequests BY <3>1, <5>1
        <5>3. intent[accepted[i]].state # "none" BY <5>1 DEF DeployInv, WorkerKnows
        <5> QED BY <1>6, <3>2, <5>1, <5>2, <5>3
      <4> QED BY <4>1, <4>2
    <3>4. scan.upto <= Len(accepted') /\ (scan.pc # "sleep" => scan.at > 0)
      BY <3>1, <3>2 DEF DeployInv, WorkerKnows
    <3>5. CASE ~ Driving
      <4>1. scan.pc \in {"sleep", "pick"} BY <3>5 DEF Driving
      <4> QED BY <1>1, <3>3, <3>4, <4>1 DEF WorkerKnows, Driving
    <3>6. CASE Driving
      <4>1. /\ Driven \in DeployRequests /\ scan.at \in 1..Len(accepted)
            /\ scan.seen = release.current /\ Prev(Driven) = release.current
        BY <3>6, DrivenType
      <4>2. PICK d \in DeployRequests : d = Driven /\ d = Driven'
        BY <1>1, <3>2, <4>1 DEF Driven
      <4>3. Prev(d)' = Prev(d) /\ PhaseNow(d)' = PhaseNow(d) /\ Result(d)' = Result(d)
        BY <1>7, PhaseFrame DEF IntentsStand
      <4>4. /\ scan.pc = "commit" => Result(d) = "succeeded" /\ deployLock # d
            /\ scan.pc = "wait" => PhaseNow(d) \in {"deploying", "rollback"}
        BY <4>2 DEF DeployInv, WorkerKnows
      <4>5. scan.at <= Len(accepted') BY <3>1, <3>2, <4>1
      <4> QED BY <1>1, <3>3, <3>4, <4>1, <4>2, <4>3, <4>4, <4>5 DEF WorkerKnows, Driving
    <3> QED BY <3>5, <3>6
  <2> QED BY <1>1, <2>1, <2>2
<1> QED BY <1>7, <1>8, <1>9, QuietKeeps

(* The head moves, or the executor dies.                                       *)
LEMMA WorldKeeps ==
  ASSUME DeployInv, MoveHead \/ DdCrash
  PROVE  DeployInv'
<1>1. /\ UNCHANGED <<intent, accepted, journal, deployLock, release, ended, docker, overtaken>>
      /\ head \in Nat /\ head' \in Bundles /\ head' \in Nat /\ head <= head'
      /\ (unit' = unit \/ unit' = [unit EXCEPT !.orphan = unit.r # NoRequest])
      /\ (scan' = scan \/ scan' = Sleeping)
  <2>1. head \in Bundles /\ head \in Nat BY DeployAssumption DEF DeployInv, DeployTypeOK
  <2>2. CASE MoveHead
    <3>1. PICK b \in Bundles : b > head /\ head' = b BY <2>2 DEF MoveHead
    <3>2. b \in Nat BY DeployAssumption
    <3> QED BY <2>1, <2>2, <3>1, <3>2 DEF MoveHead, admission, durable, machine
  <2>3. CASE DdCrash BY <2>1, <2>3 DEF DdCrash, admission, durable
  <2> QED BY <2>2, <2>3
<1>2. /\ unit'.r = unit.r /\ unit'.effect = unit.effect /\ unit'.todo = unit.todo
      /\ unit' \in [r : DeployRequests \cup {NoRequest}, effect : Effects \cup {"none"},
                    todo : Seq(Ops), orphan : BOOLEAN]
  BY <1>1 DEF DeployInv, DeployTypeOK
<1>3. IntentsStand BY <1>1, <1>2 DEF IntentsStand, Cand, Prev
<1>4. WorkerKnows' /\ scan' \in [pc : ScanSteps, at : Nat, upto : Nat, seen : MaybeBundles]
  BY <1>1, <1>3, WorkerGoes
<1>5. DeployTypeOK' BY <1>1, <1>2, <1>4 DEF DeployInv, DeployTypeOK
<1> QED BY <1>3, <1>4, <1>5, QuietKeeps

(* The served releases, case by case.                                          *)
LEMMA ServedIs ==
  ASSUME DeployTypeOK
  PROVE  /\ \A b \in Bundles : Up /\ Runs(b) /\ docker.target = b => b \in Served
         /\ docker.boot \in Bundles => docker.boot \in Served
         /\ \A b \in Served : b \in Bundles /\
              (b = docker.boot \/ (Up /\ docker.target = b /\ Runs(b)))
         /\ \A b \in Bundles : Up /\ Runs(b) /\ docker.target = b /\ docker.boot = NoBundle =>
              Served = {b}
<1>1. docker.boot \in MaybeBundles /\ docker.target \in MaybeBundles /\ NoBundle \notin Bundles
  BY DeployAssumption DEF DeployTypeOK, DockerRows
<1> QED BY <1>1 DEF Served, Up, Runs, MaybeBundles

(* An intent that is persisted: nothing else knows of the request yet.         *)
LEMMA PrepareIntentKeeps ==
  ASSUME DeployInv, NEW r \in DeployRequests, PrepareIntent(r)
  PROVE  DeployInv'
<1>1. PICK b \in Bundles : /\ b = head /\ b # release.current
                           /\ intent' = [intent EXCEPT ![r] = IssueIntent(b)]
  BY DEF PrepareIntent, Resolvable, PersistIntent
<1>2. /\ intent[r].state = "none"
      /\ head' = head /\ accepted' = accepted /\ journal' = journal /\ deployLock' = deployLock
      /\ release' = release /\ scan' = scan /\ unit' = unit /\ ended' = ended /\ docker' = docker
      /\ overtaken' = overtaken
  BY DEF PrepareIntent, KnownRequest, durable, machine
<1>3. /\ DeployTypeOK /\ intent \in [DeployRequests -> IntentRows] /\ head \in Bundles /\ head \in Nat
      /\ release.current \in MaybeBundles
  BY DeployAssumption DEF DeployInv, DeployTypeOK
<1>4. PICK row : row = IssueIntent(b) OBVIOUS
<1>5. /\ row \in IntentRows /\ row.state = "prepared" /\ row.cand = head
      /\ row.prev = release.current
  BY <1>1, <1>3, <1>4 DEF IssueIntent, IntentRows, MaybeBundles
<1>6. intent' = [intent EXCEPT ![r] = row] BY <1>1, <1>4
<1>7. /\ intent'[r].state = "prepared" /\ Cand(r)' = head /\ Prev(r)' = release.current
      /\ \A q \in DeployRequests \ {r} : intent'[q] = intent[q]
  BY <1>3, <1>5, <1>6 DEF Cand, Prev
<1>8. \A q \in DeployRequests \ {r} : Cand(q)' = Cand(q) /\ Prev(q)' = Prev(q)
  BY <1>7 DEF Cand, Prev
<1>9. Receipts(r) = {} /\ Prev(r) = NoBundle /\ journal[r].spec = "none"
  BY <1>2 DEF DeployInv, IntentsOrdered
<1>10. \A q \in DeployRequests : PhaseNow(q)' = PhaseNow(q) /\ Result(q)' = Result(q)
                                 /\ Receipts(q)' = Receipts(q)
  BY <1>2, PhaseFrame
<1>11. Result(r) # "succeeded" /\ ~ journal[r].takeover
  <2>1. ReceiptsFollow(r) BY DEF DeployInv
  <2>2. ~ journal[r].takeover BY <1>9, <2>1 DEF ReceiptsFollow
  <2>3. PhaseNow(r) # "end" BY <1>9, <2>2, PhaseSays
  <2> QED BY <2>2, <2>3 DEF Result
<1>12. Uncommitted' = Uncommitted
  <2>1. ASSUME NEW q \in DeployRequests
        PROVE (Result(q)' = "succeeded" /\ release'.current = Prev(q)') <=>
              (Result(q) = "succeeded" /\ release.current = Prev(q))
    BY <1>2, <1>8, <1>10, <1>11
  <2> QED BY <2>1 DEF Uncommitted
<1>13. Served' = Served BY <1>2 DEF Served
<1>14. DeployTypeOK'
  <2>1. intent' \in [DeployRequests -> IntentRows] BY <1>3, <1>5, <1>6
  <2> QED BY <1>2, <1>3, <2>1 DEF DeployTypeOK
<1>15. IntentsOrdered'
  <2>1. release.current # NoBundle => release.current \in Nat /\ release.current <= head
    BY <1>3, DeployAssumption DEF DeployInv, IntentsOrdered, MaybeBundles
  <2>2. release.current # NoBundle => release.current < head BY <1>1, <1>3, <2>1
  <2>3. \A q \in DeployRequests \ {r} :
          IF intent[q].state = "none"
          THEN Receipts(q) = {} /\ Prev(q) = NoBundle /\ journal[q].spec = "none"
          ELSE /\ Cand(q) \in Bundles /\ Cand(q) <= head
               /\ Prev(q) # NoBundle => Prev(q) < Cand(q)
    BY DEF DeployInv, IntentsOrdered
  <2>4. ASSUME NEW q \in DeployRequests
        PROVE IF intent'[q].state = "none"
              THEN Receipts(q)' = {} /\ Prev(q)' = NoBundle /\ journal'[q].spec = "none"
              ELSE /\ Cand(q)' \in Bundles /\ Cand(q)' <= head'
                   /\ Prev(q)' # NoBundle => Prev(q)' < Cand(q)'
    <3>1. CASE q = r BY <1>2, <1>3, <1>7, <2>2, <3>1
    <3>2. CASE q # r BY <1>2, <1>7, <1>8, <1>10, <2>3, <3>2
    <3> QED BY <3>1, <3>2
  <2> QED BY <1>2, <2>1, <2>4 DEF IntentsOrdered
<1>16. DocumentMovesOn'
  <2>1. DocumentMovesOn BY DEF DeployInv
  <2> QED BY <1>2, <1>7, <1>8, <1>9, <1>10, <2>1 DEF DocumentMovesOn
<1>17. WorkerKnows'
  <2>1. \A i \in 1..Len(accepted) : accepted[i] \in DeployRequests /\ intent[accepted[i]].state # "none"
    BY DEF DeployInv, DeployTypeOK, WorkerKnows
  <2>2. \A i \in 1..Len(accepted) : accepted[i] \in DeployRequests \ {r} BY <1>2, <2>1
  <2>3. \A i \in 1..Len(accepted') : intent'[accepted'[i]].state # "none"
    BY <1>2, <1>7, <2>1, <2>2
  <2>4. WorkerKnows BY DEF DeployInv
  <2>5. CASE ~ Driving
    <3>1. scan.pc \in {"sleep", "pick"} BY <2>5 DEF Driving
    <3> QED BY <1>2, <2>3, <2>4, <3>1 DEF WorkerKnows, Driving
  <2>6. CASE Driving
    <3>1. Driven \in DeployRequests \ {r} BY <2>2, <2>6, DrivenType DEF Driven
    <3>2. PICK d \in DeployRequests \ {r} : d = Driven /\ d = Driven' BY <1>2, <3>1 DEF Driven
    <3>3. Prev(d)' = Prev(d) /\ PhaseNow(d)' = PhaseNow(d) /\ Result(d)' = Result(d)
      BY <1>8, <1>10
    <3> QED BY <1>2, <2>3, <2>4, <2>6, <3>2, <3>3 DEF WorkerKnows, Driving
  <2> QED BY <2>5, <2>6
<1>18. ASSUME NEW q \in DeployRequests PROVE ReceiptsFollow(q)'
  <2>1. ReceiptsFollow(q) BY DEF DeployInv
  <2>2. CASE q = r BY <1>2, <1>9, <1>10, <1>11, <2>1, <2>2 DEF ReceiptsFollow
  <2>3. CASE q # r
    <3>1. Prev(q)' = Prev(q) /\ FirstEffect(q)' = FirstEffect(q)
      BY <1>8, <2>3 DEF FirstEffect
    <3> QED BY <1>2, <1>10, <2>1, <3>1 DEF ReceiptsFollow
  <2> QED BY <2>2, <2>3
<1>19. LockFollows' BY <1>2, <1>10 DEF DeployInv, LockFollows
<1>20. UnitKnows'
  <2> SUFFICES ASSUME unit.r # NoRequest PROVE UnitKnows' BY <1>2 DEF UnitKnows
  <2>1. UnitKnows /\ unit.r \in DeployRequests BY <1>3 DEF DeployInv, DeployTypeOK
  <2>2. unit.r # r BY <1>2, <2>1 DEF UnitKnows
  <2>3. PICK q \in DeployRequests \ {r} : q = unit.r BY <2>1, <2>2
  <2>4. PICK p, c, e : p = Prev(q) /\ c = Cand(q) /\ e = unit.effect OBVIOUS
  <2>5. UnitPoint(e, p, c) BY <2>1, <2>3, <2>4 DEF UnitKnows
  <2>6. UnitPoint(e, p, c)'
    BY ZenonT(60), <1>2, <2>5 DEF UnitPoint, BootstrapPoint, DeployPoint, MainPoint, FreshPoint,
       RoutedPoint, RollbackPoint, RestOf, Up, Runs
  <2>7. /\ unit'.r = q /\ Prev(q)' = p /\ Cand(q)' = c /\ unit'.effect = e
        /\ EffectOf(q)' = EffectOf(q)
    BY <1>2, <1>8, <1>10, <2>3, <2>4 DEF EffectOf
  <2>8. UnitPoint(unit.effect, Prev(unit.r), Cand(unit.r))' BY <2>6, <2>7
  <2>9. /\ intent'[q].state # "none" /\ e \in Effects /\ deployLock' = q
        /\ journal'[q].spec = "permitted" /\ PhaseNow(q)' \in {"deploying", "rollback"}
        /\ e = EffectOf(q)' /\ ended'[q][e] = "no"
    BY <1>2, <1>7, <1>10, <2>1, <2>3, <2>4, <2>7 DEF UnitKnows
  <2> QED BY <2>7, <2>8, <2>9 DEF UnitKnows
<1>21. OnceServed' BY <1>2, <1>10, <1>13 DEF DeployInv, OnceServed
<1>22. FreeIsServed'
  <2>1. \A u \in Uncommitted : u \in DeployRequests \ {r} BY <1>11 DEF Uncommitted
  <2> QED BY <1>2, <1>8, <1>12, <1>13, <2>1 DEF DeployInv, FreeIsServed
<1>23. HeldIsServed'
  <2>1. ASSUME NEW q \in DeployRequests, deployLock = q, ~overtaken, journal[q].spec = "permitted"
        PROVE  /\ Uncommitted' \subseteq {q} /\ release'.current = Prev(q)'
               /\ unit'.r = NoRequest /\ ended'[q]["rollback"] = "no"
                  /\ ended'[q][FirstEffect(q)'] = "ok" => Served' = {Cand(q)'}
               /\ unit'.r = NoRequest /\ ended'[q]["rollback"] = "ok" => Served' = {Prev(q)'}
    <3>1. q # r BY <1>9, <2>1
    <3>2. Prev(q)' = Prev(q) /\ Cand(q)' = Cand(q) /\ FirstEffect(q)' = FirstEffect(q)
      BY <1>8, <3>1 DEF FirstEffect
    <3> QED BY <1>2, <1>12, <1>13, <2>1, <3>2 DEF DeployInv, HeldIsServed
  <2> QED BY <1>2, <2>1 DEF HeldIsServed
<1> QED BY <1>14, <1>15, <1>16, <1>17, <1>18, <1>19, <1>20, <1>21, <1>22, <1>23 DEF DeployInv

(* An attempt that is at the end of its plan has been through its unit.        *)
LEMMA EndSays ==
  ASSUME NEW done
  PROVE  /\ NextOf(Forward, done) = "end" => {"deploying", "soaking"} \subseteq done
         /\ NextOf(Backward, done) = "end" => "rollback" \in done
         /\ NextOf(Forward, done) # "rollback"
         /\ NextOf(Backward, done) # "deploying"
BY NextForward, NextBackward

(* A unit whose attempt, Docker and lock stay as they are.                     *)
LEMMA UnitStays ==
  ASSUME DeployInv, UNCHANGED <<intent, unit, docker, ended>>,
         unit.r # NoRequest => deployLock' = deployLock /\ journal'[unit.r] = journal[unit.r]
  PROVE  UnitKnows'
<1> SUFFICES ASSUME unit.r # NoRequest PROVE UnitKnows' BY DEF UnitKnows
<1>1. UnitKnows /\ unit.r \in DeployRequests BY DEF DeployInv, DeployTypeOK
<1>2. PICK q \in DeployRequests : q = unit.r BY <1>1
<1>3. PICK p, c, e : p = Prev(q) /\ c = Cand(q) /\ e = unit.effect OBVIOUS
<1>4. UnitPoint(e, p, c) BY <1>1, <1>2, <1>3 DEF UnitKnows
<1>5. UnitPoint(e, p, c)'
  BY ZenonT(60), <1>4 DEF UnitPoint, BootstrapPoint, DeployPoint, MainPoint, FreshPoint,
       RoutedPoint, RollbackPoint, RestOf, Up, Runs
<1>6. PhaseNow(q)' = PhaseNow(q) BY <1>2, PhaseFrame
<1>7. /\ unit'.r = q /\ Prev(q)' = p /\ Cand(q)' = c /\ unit'.effect = e
      /\ EffectOf(q)' = EffectOf(q)
  BY <1>2, <1>3, <1>6 DEF EffectOf, Prev, Cand
<1>8. UnitPoint(unit.effect, Prev(unit.r), Cand(unit.r))' BY <1>5, <1>7
<1>9. /\ intent'[q].state # "none" /\ e \in Effects /\ deployLock' = q
      /\ journal'[q].spec = "permitted" /\ PhaseNow(q)' \in {"deploying", "rollback"}
      /\ e = EffectOf(q)' /\ ended'[q][e] = "no"
  BY <1>1, <1>2, <1>3, <1>6, <1>7 DEF UnitKnows
<1> QED BY <1>7, <1>8, <1>9 DEF UnitKnows

(* The journal row of one attempt changes: what the others know.               *)
LEMMA OtherRows ==
  ASSUME DeployTypeOK, NEW d \in DeployRequests, NEW row,
         journal' = [journal EXCEPT ![d] = row]
  PROVE  /\ journal'[d] = row
         /\ \A q \in DeployRequests \ {d} :
              /\ journal'[q] = journal[q] /\ PhaseNow(q)' = PhaseNow(q) /\ Result(q)' = Result(q)
              /\ Receipts(q)' = Receipts(q)
<1>1. journal'[d] = row /\ \A q \in DeployRequests \ {d} : journal'[q] = journal[q]
  BY DEF DeployTypeOK
<1> QED BY <1>1, PhaseFrame

(* The driven attempt receives the receipt of the phase it stands in.          *)
LEMMA ReceiveKeeps ==
  ASSUME DeployInv, Driving, NEW d \in DeployRequests, d = Driven,
         NEW ph \in AllPhases, PhaseNow(d) = ph, Receive(d, ph), unit.r # d,
         ph = "deploying" => journal[d].spec = "permitted" /\ ended[d][FirstEffect(d)] = "ok",
         ph = "rollback" => ended[d]["rollback"] = "ok",
         ph = "soaking" => Served # {},
         scan'.pc = "phase", scan'.at = scan.at, scan'.upto = scan.upto, scan'.seen = scan.seen,
         scan' \in [pc : ScanSteps, at : Nat, upto : Nat, seen : MaybeBundles],
         UNCHANGED <<head, intent, accepted, deployLock, release, unit, ended, docker, overtaken>>
  PROVE  DeployInv'
<1>1. /\ DeployTypeOK /\ journal \in [DeployRequests -> JournalRows] /\ journal[d] \in JournalRows
      /\ release.current \in MaybeBundles
  BY DEF DeployInv, DeployTypeOK
<1>2. PICK row : row = [journal[d] EXCEPT !.receipts = journal[d].receipts \cup {ph}] OBVIOUS
<1>3. /\ row \in JournalRows /\ row.receipts = Receipts(d) \cup {ph}
      /\ row.takeover = journal[d].takeover /\ row.spec = journal[d].spec
  BY <1>1, <1>2 DEF JournalRows, Receipts
<1>4. journal' = [journal EXCEPT ![d] = row] BY <1>1, <1>2 DEF Receive
<1>5. /\ journal'[d] = row
      /\ \A q \in DeployRequests \ {d} :
           /\ journal'[q] = journal[q] /\ PhaseNow(q)' = PhaseNow(q) /\ Result(q)' = Result(q)
           /\ Receipts(q)' = Receipts(q)
  BY <1>1, <1>4, OtherRows
<1>6. Receipts(d)' = Receipts(d) \cup {ph} BY <1>3, <1>5 DEF Receipts
<1>7. \A q \in DeployRequests : /\ journal'[q].takeover = journal[q].takeover
                                /\ journal'[q].spec = journal[q].spec
  BY <1>3, <1>5
<1>8. \A q \in DeployRequests : Cand(q)' = Cand(q) /\ Prev(q)' = Prev(q)
                                /\ FirstEffect(q)' = FirstEffect(q)
  BY DEF Cand, Prev, FirstEffect
<1>9. /\ ph # "end" /\ ph \notin Receipts(d)
      /\ ph \in {"candidate", "deploying", "health_checking", "soaking"} => ~ journal[d].takeover
      /\ ph \in {"rollback", "rollback_health", "rollback_soak"} => journal[d].takeover
      /\ ph \in {"health_checking", "soaking"} => "deploying" \in Receipts(d)
  BY PhaseSays DEF AllPhases
<1>10. Result(d) = "running" BY <1>9 DEF Result
<1>11. ReceiptsFollow(d) BY DEF DeployInv
<1>12. "deploying" \in Receipts(d)' => journal[d].spec = "permitted" /\ deployLock = d
                                        /\ ended[d][FirstEffect(d)] = "ok"
  <2>1. "deploying" \in Receipts(d)' => journal[d].spec = "permitted"
                                        /\ ended[d][FirstEffect(d)] = "ok"
    BY <1>6, <1>11 DEF ReceiptsFollow
  <2> QED BY <1>10, <2>1 DEF DeployInv, LockFollows
<1>13. Result(d)' = "succeeded" => "deploying" \in Receipts(d)'
  <2>1. Result(d)' = "succeeded" => PhaseNow(d)' = "end" /\ ~ journal'[d].takeover
    BY DEF Result
  <2>2. Result(d)' = "succeeded" => NextOf(Forward, Receipts(d)') = "end"
    BY <2>1 DEF PhaseNow
  <2> QED BY <2>2, EndSays
<1>14. /\ Uncommitted' \subseteq Uncommitted \cup {d} /\ d \notin Uncommitted
       /\ Uncommitted \subseteq Uncommitted'
       /\ d \in Uncommitted' => deployLock = d
  BY <1>5, <1>8, <1>10, <1>12, <1>13 DEF Uncommitted
<1>15. Served' = Served BY DEF Served
<1>16. /\ Driven' = d /\ Prev(d) = release.current /\ intent[d].state # "none"
       /\ scan.at \in 1..Len(accepted) /\ scan.seen = release.current
  BY DrivenType DEF Driven
<1>17. DeployTypeOK'
  <2>1. journal' \in [DeployRequests -> JournalRows] BY <1>1, <1>3, <1>4
  <2> QED BY <1>1, <2>1 DEF DeployTypeOK
<1>18. IntentsOrdered'
  <2>1. IntentsOrdered BY DEF DeployInv
  <2>2. \A q \in DeployRequests : intent[q].state = "none" => q # d BY <1>16
  <2> QED BY <1>5, <1>7, <1>8, <2>1, <2>2 DEF IntentsOrdered
<1>19. DocumentMovesOn'
  <2>1. DocumentMovesOn BY DEF DeployInv
  <2>2. Prev(d) # NoBundle => release.current # NoBundle /\ Prev(d) <= release.current
    <3>1. release.current # NoBundle => release.current \in Nat
      BY <1>1, DeployAssumption DEF MaybeBundles
    <3> QED BY <1>16, <3>1
  <2> QED BY <1>5, <1>8, <2>1, <2>2 DEF DocumentMovesOn
<1>20. WorkerKnows'
  <2>1. WorkerKnows /\ Prev(Driven)' = release.current BY <1>8, <1>16 DEF DeployInv
  <2> QED BY <1>1, <1>16, <2>1 DEF WorkerKnows, Driving
<1>21. ASSUME NEW q \in DeployRequests PROVE ReceiptsFollow(q)'
  <2>1. ReceiptsFollow(q) BY DEF DeployInv
  <2>2. CASE q = d
    <3>1. /\ "deploying" \in Receipts(d)' => journal'[d].spec = "permitted"
                                             /\ ended'[d][FirstEffect(d)'] = "ok"
          /\ "soaking" \in Receipts(d)' => "deploying" \in Receipts(d)'
      BY <1>6, <1>7, <1>8, <1>9, <1>11, <1>12 DEF ReceiptsFollow
    <3>2. /\ "rollback" \in Receipts(d)' => ended'[d]["rollback"] = "ok"
          /\ journal'[d].takeover => "deploying" \in Receipts(d)' /\ Prev(d)' # NoBundle
          /\ ~journal'[d].takeover =>
               ended'[d]["rollback"] = "no" /\ "rollback" \notin Receipts(d)'
      BY <1>6, <1>7, <1>8, <1>9, <1>11 DEF ReceiptsFollow
    <3>3. (\E e \in Effects : ended'[d][e] # "no") => journal'[d].spec = "permitted"
      BY <1>7, <1>11 DEF ReceiptsFollow
    <3> QED BY <2>2, <3>1, <3>2, <3>3 DEF ReceiptsFollow
  <2>3. CASE q # d BY <1>5, <1>7, <1>8, <2>1, <2>3 DEF ReceiptsFollow
  <2> QED BY <2>2, <2>3
<1>22. LockFollows'
  <2>1. LockFollows BY DEF DeployInv
  <2>2. deployLock \in DeployRequests \cup {NoRequest} BY <1>1 DEF DeployTypeOK
  <2> QED BY <1>5, <1>7, <1>10, <2>1, <2>2 DEF LockFollows
<1>23. UnitKnows'
  <2>1. unit.r # NoRequest => unit.r \in DeployRequests \ {d} BY <1>1 DEF DeployTypeOK
  <2> QED BY <1>5, <2>1, UnitStays
<1>24. OnceServed'
  <2>1. OnceServed BY DEF DeployInv
  <2>2. "soaking" \in Receipts(d)' => Served # {} BY <1>6, <2>1 DEF OnceServed
  <2> QED BY <1>5, <1>15, <2>1, <2>2 DEF OnceServed
<1>25. FreeIsServed'
  <2>1. deployLock = NoRequest => Uncommitted' = Uncommitted
    BY <1>14, DeployAssumption
  <2>2. Uncommitted \subseteq DeployRequests BY DEF Uncommitted
  <2> QED BY <1>8, <1>15, <2>1, <2>2 DEF DeployInv, FreeIsServed
<1>26. HeldIsServed' BY <1>7, <1>8, <1>14, <1>15 DEF DeployInv, HeldIsServed
<1> QED BY <1>17, <1>18, <1>19, <1>20, <1>21, <1>22, <1>23, <1>24, <1>25, <1>26 DEF DeployInv

(* The phases before the boundary.                                             *)
LEMMA CandidatePhasesKeeps ==
  ASSUME DeployInv, CandidatePhases
  PROVE  DeployInv'
<1>1. /\ scan.pc = "phase" /\ PhaseNow(Driven) = "candidate" /\ Driving
      /\ UNCHANGED <<head, intent, accepted, deployLock, release, unit, ended, docker, overtaken>>
  BY DEF CandidatePhases, At, Driving, admission, machine
<1>2. CASE NextJob /\ UNCHANGED journal BY <1>1, <1>2, PassKeeps DEF admission, durable
<1>3. CASE Receive(Driven, "candidate") /\ UNCHANGED scan
  <2>1. PICK d \in DeployRequests : d = Driven BY <1>1, DrivenType
  <2>2. unit.r # d
    BY <1>1, <2>1, DeployAssumption DEF DeployInv, UnitKnows
  <2>3. "candidate" \in AllPhases
        /\ scan \in [pc : ScanSteps, at : Nat, upto : Nat, seen : MaybeBundles]
    BY DEF AllPhases, DeployInv, DeployTypeOK
  <2> QED BY <1>1, <1>3, <2>1, <2>2, <2>3, ReceiveKeeps
<1> QED BY <1>2, <1>3 DEF CandidatePhases

(* Health and soak.                                                            *)
LEMMA ObservePhaseKeeps ==
  ASSUME DeployInv, ObservePhase
  PROVE  DeployInv'
<1>1. PICK ph \in ObservedPhases : At(ph) /\ Expected(Driven) \in Served /\ Receive(Driven, ph)
  BY DEF ObservePhase
<1>2. /\ scan.pc = "phase" /\ PhaseNow(Driven) = ph /\ Driving /\ scan' = scan
      /\ UNCHANGED <<head, intent, accepted, deployLock, release, unit, ended, docker, overtaken>>
  BY <1>1 DEF ObservePhase, At, Driving, admission, machine
<1>3. PICK d \in DeployRequests : d = Driven BY <1>2, DrivenType
<1>4. unit.r # d
  BY <1>2, <1>3, DeployAssumption DEF DeployInv, UnitKnows, ObservedPhases
<1>5. ph \in AllPhases /\ ph # "deploying" /\ ph # "rollback"
      /\ scan \in [pc : ScanSteps, at : Nat, upto : Nat, seen : MaybeBundles]
  BY DEF AllPhases, ObservedPhases, DeployInv, DeployTypeOK
<1>6. Served # {} BY <1>1
<1> QED BY <1>1, <1>2, <1>3, <1>4, <1>5, <1>6, ReceiveKeeps

(* The unit is over: its receipt, or the next job.                             *)
LEMMA UnitDoneKeeps ==
  ASSUME DeployInv, UnitDone
  PROVE  DeployInv'
<1>1. /\ scan.pc = "wait" /\ Driving /\ ended[Driven][EffectOf(Driven)] # "no"
      /\ UNCHANGED <<head, intent, accepted, deployLock, release, unit, ended, docker, overtaken>>
  BY DEF UnitDone, Driving, admission, machine
<1>2. PICK d \in DeployRequests : d = Driven BY <1>1, DrivenType
<1>3. PICK e : e = EffectOf(d) OBVIOUS
<1>4. \/ ended[d][e] = "ok" /\ GoTo("phase")
         /\ Receive(d, IF e = "rollback" THEN "rollback" ELSE "deploying")
      \/ NextJob /\ UNCHANGED journal
  BY <1>2, <1>3 DEF UnitDone
<1>5. CASE NextJob /\ UNCHANGED journal BY <1>1, <1>5, PassKeeps DEF admission, durable
<1>6. CASE ended[d][e] = "ok" /\ GoTo("phase")
           /\ Receive(d, IF e = "rollback" THEN "rollback" ELSE "deploying")
  <2>1. PhaseNow(d) \in {"deploying", "rollback"} BY <1>1, <1>2 DEF DeployInv, WorkerKnows
  <2>2. unit.r # d
    BY <1>1, <1>2, <1>3, DeployAssumption DEF DeployInv, UnitKnows
  <2>3. PICK ph \in {"deploying", "rollback"} : ph = PhaseNow(d) BY <2>1
  <2>4. Receive(d, ph) /\ (ph = "rollback" => ended[d]["rollback"] = "ok")
        /\ (ph = "deploying" => ended[d][FirstEffect(d)] = "ok")
    BY <1>3, <1>6, <2>3 DEF EffectOf, FirstEffect
  <2>5. journal[d].spec = "permitted"
    <3>1. e \in Effects BY <1>3 DEF EffectOf, Effects
    <3> QED BY <1>6, <3>1 DEF DeployInv, ReceiptsFollow
  <2>6. /\ scan'.pc = "phase" /\ scan'.at = scan.at /\ scan'.upto = scan.upto
        /\ scan'.seen = scan.seen
        /\ scan' \in [pc : ScanSteps, at : Nat, upto : Nat, seen : MaybeBundles]
    BY <1>6 DEF GoTo, DeployInv, DeployTypeOK, ScanSteps
  <2>7. ph \in AllPhases BY DEF AllPhases
  <2> QED BY <1>1, <1>2, <2>2, <2>3, <2>4, <2>5, <2>6, <2>7, ReceiveKeeps
<1> QED BY <1>4, <1>5, <1>6

(* An attempt turns around: it holds the lock and no unit of it runs.          *)
LEMMA TakeOverKeeps ==
  ASSUME DeployInv, TakeOver
  PROVE  DeployInv'
<1>1. /\ scan.pc = "phase" /\ Driving /\ PhaseNow(Driven) \in {"health_checking", "soaking"}
      /\ Prev(Driven) # NoBundle /\ scan' = scan
      /\ journal' = [journal EXCEPT ![Driven].takeover = TRUE]
      /\ UNCHANGED <<head, intent, accepted, deployLock, release, unit, ended, docker, overtaken>>
  BY DEF TakeOver, CanTakeOver, At, Driving, admission, machine
<1>2. PICK d \in DeployRequests : d = Driven /\ d = Driven' BY <1>1, DrivenType DEF Driven
<1>3. DeployTypeOK /\ journal \in [DeployRequests -> JournalRows] /\ journal[d] \in JournalRows
  BY DEF DeployInv, DeployTypeOK
<1>4. PICK row : row = [journal[d] EXCEPT !.takeover = TRUE] OBVIOUS
<1>5. /\ row \in JournalRows /\ row.receipts = Receipts(d) /\ row.takeover
      /\ row.spec = journal[d].spec
  BY <1>3, <1>4 DEF JournalRows, Receipts
<1>6. journal' = [journal EXCEPT ![d] = row] BY <1>1, <1>2, <1>3, <1>4
<1>7. /\ journal'[d] = row
      /\ \A q \in DeployRequests \ {d} :
           /\ journal'[q] = journal[q] /\ PhaseNow(q)' = PhaseNow(q) /\ Result(q)' = Result(q)
           /\ Receipts(q)' = Receipts(q)
  BY <1>3, <1>6, OtherRows
<1>8. \A q \in DeployRequests : Receipts(q)' = Receipts(q) /\ journal'[q].spec = journal[q].spec
  BY <1>5, <1>7 DEF Receipts
<1>9. \A q \in DeployRequests : Cand(q)' = Cand(q) /\ Prev(q)' = Prev(q)
                                /\ FirstEffect(q)' = FirstEffect(q)
  BY <1>1 DEF Cand, Prev, FirstEffect
<1>10. ~ journal[d].takeover /\ "deploying" \in Receipts(d) /\ PhaseNow(d) # "end"
  BY <1>1, <1>2, PhaseSays
<1>11. ReceiptsFollow(d) BY DEF DeployInv
<1>12. Result(d) = "running" /\ deployLock = d /\ "rollback" \notin Receipts(d)
  BY <1>10, <1>11 DEF Result, ReceiptsFollow, DeployInv, LockFollows
<1>13. PhaseNow(d)' = "rollback"
  <2>1. PhaseNow(d)' = NextOf(Backward, Receipts(d)') BY <1>5, <1>7 DEF PhaseNow
  <2> QED BY <1>8, <1>12, <2>1, NextBackward
<1>14. Result(d)' = "running" BY <1>13 DEF Result
<1>15. Uncommitted' = Uncommitted BY <1>1, <1>7, <1>9, <1>12, <1>14 DEF Uncommitted
<1>16. Served' = Served BY <1>1 DEF Served
<1>17. unit.r # d BY <1>1, <1>2, DeployAssumption DEF DeployInv, UnitKnows
<1>18. DeployTypeOK'
  <2>1. journal' \in [DeployRequests -> JournalRows] BY <1>3, <1>5, <1>6
  <2> QED BY <1>1, <1>3, <2>1 DEF DeployTypeOK
<1>19. IntentsOrdered' BY <1>1, <1>8, <1>9 DEF DeployInv, IntentsOrdered
<1>20. DocumentMovesOn' BY <1>1, <1>8, <1>9 DEF DeployInv, DocumentMovesOn
<1>21. WorkerKnows'
  <2>1. WorkerKnows /\ Prev(Driven)' = Prev(Driven) BY <1>2, <1>9 DEF DeployInv
  <2> QED BY <1>1, <1>2, <2>1 DEF WorkerKnows, Driving
<1>22. ASSUME NEW q \in DeployRequests PROVE ReceiptsFollow(q)'
  <2>1. ReceiptsFollow(q) BY DEF DeployInv
  <2>2. CASE q = d
    BY <1>1, <1>2, <1>5, <1>7, <1>8, <1>9, <1>10, <1>12, <2>1, <2>2 DEF ReceiptsFollow
  <2>3. CASE q # d BY <1>1, <1>7, <1>8, <1>9, <2>1, <2>3 DEF ReceiptsFollow
  <2> QED BY <2>2, <2>3
<1>23. LockFollows'
  <2>1. LockFollows /\ deployLock \in DeployRequests \cup {NoRequest}
    BY <1>3 DEF DeployInv, DeployTypeOK
  <2> QED BY <1>1, <1>7, <1>8, <1>12, <2>1 DEF LockFollows
<1>24. UnitKnows'
  <2>1. unit.r # NoRequest => unit.r \in DeployRequests \ {d} BY <1>3, <1>17 DEF DeployTypeOK
  <2> QED BY <1>1, <1>7, <2>1, UnitStays
<1>25. OnceServed' BY <1>1, <1>8, <1>16 DEF DeployInv, OnceServed
<1>26. FreeIsServed' BY <1>1, <1>12, DeployAssumption DEF FreeIsServed
<1>27. HeldIsServed' BY <1>1, <1>8, <1>9, <1>15, <1>16 DEF DeployInv, HeldIsServed
<1> QED BY <1>18, <1>19, <1>20, <1>21, <1>22, <1>23, <1>24, <1>25, <1>26, <1>27 DEF DeployInv

(* The attempt at its end gives the lock back: what its last unit left is      *)
(* served.                                                                     *)
LEMMA CleanupTerminalKeeps ==
  ASSUME DeployInv, CleanupTerminal
  PROVE  DeployInv'
<1>1. /\ scan.pc = "phase" /\ Driving /\ PhaseNow(Driven) = "end"
      /\ deployLock' = IF deployLock = Driven THEN NoRequest ELSE deployLock
      /\ IF Result(Driven) = "rolled_back" THEN NextJob ELSE GoTo("commit")
      /\ UNCHANGED <<head, intent, accepted, journal, release, unit, ended, docker, overtaken>>
  BY DEF CleanupTerminal, Driving, admission, machine
<1>2. PICK d \in DeployRequests : d = Driven BY <1>1, DrivenType
<1>3. /\ DeployTypeOK /\ scan.at \in 1..Len(accepted) /\ scan.at \in Nat /\ scan.upto \in Nat
      /\ scan.seen = release.current
      /\ Prev(d) = release.current /\ intent[d].state # "none"
      /\ scan \in [pc : ScanSteps, at : Nat, upto : Nat, seen : MaybeBundles]
  BY <1>1, <1>2, DrivenType DEF DeployInv, DeployTypeOK
<1>4. \A q \in DeployRequests : /\ PhaseNow(q)' = PhaseNow(q) /\ Result(q)' = Result(q)
                                /\ Receipts(q)' = Receipts(q) /\ Cand(q)' = Cand(q)
                                /\ Prev(q)' = Prev(q) /\ FirstEffect(q)' = FirstEffect(q)
  BY <1>1, PhaseFrame DEF Cand, Prev, FirstEffect
<1>5. Uncommitted' = Uncommitted /\ Served' = Served
  BY <1>1, <1>4 DEF Uncommitted, Served
<1>6. /\ Result(d) = IF journal[d].takeover THEN "rolled_back" ELSE "succeeded"
      /\ ReceiptsFollow(d)
  BY <1>1, <1>2 DEF Result, DeployInv
<1>7. journal[d].spec = "permitted" /\ "deploying" \in Receipts(d)
  BY <1>1, <1>2, <1>6, PhaseSays DEF ReceiptsFollow
<1>8. deployLock = d => unit.r = NoRequest
  BY <1>1, <1>2 DEF DeployInv, UnitKnows
<1>9. deployLock' \in DeployRequests \cup {NoRequest} /\ deployLock' # d
      /\ (deployLock' # NoRequest => deployLock' = deployLock)
  BY <1>1, <1>2, <1>3, DeployAssumption DEF DeployTypeOK
<1>10. WorkerKnows' /\ scan' \in [pc : ScanSteps, at : Nat, upto : Nat, seen : MaybeBundles]
  <2>0. WorkerKnows BY DEF DeployInv
  <2>1. CASE Result(d) = "rolled_back"
    <3>1. PICK k : k = scan.at + 1 OBVIOUS
    <3>2. k \in Nat /\ k > 0 BY <1>3, <3>1
    <3>3. scan' = [scan EXCEPT !.pc = "pick", !.at = k] BY <1>1, <1>2, <2>1, <3>1 DEF NextJob
    <3>4. /\ scan'.pc = "pick" /\ scan'.at = k /\ scan'.upto = scan.upto
          /\ scan' \in [pc : ScanSteps, at : Nat, upto : Nat, seen : MaybeBundles]
      BY <1>3, <3>2, <3>3 DEF ScanSteps
    <3> QED BY <1>1, <2>0, <3>2, <3>4 DEF WorkerKnows, Driving
  <2>2. CASE Result(d) # "rolled_back"
    <3>1. scan' = [scan EXCEPT !.pc = "commit"] BY <1>1, <1>2, <2>2 DEF GoTo
    <3>2. /\ scan'.pc = "commit" /\ scan'.at = scan.at /\ scan'.upto = scan.upto
          /\ scan'.seen = scan.seen
          /\ scan' \in [pc : ScanSteps, at : Nat, upto : Nat, seen : MaybeBundles]
      BY <1>3, <3>1 DEF ScanSteps
    <3>3. Driven' = d BY <1>1, <1>2, <3>2 DEF Driven
    <3>4. Result(d)' = "succeeded" /\ Prev(d)' = release.current BY <1>3, <1>4, <1>6, <2>2
    <3> QED BY <1>1, <1>3, <1>9, <2>0, <3>2, <3>3, <3>4 DEF WorkerKnows, Driving
  <2> QED BY <2>1, <2>2
<1>11. DeployTypeOK' BY <1>1, <1>3, <1>9, <1>10 DEF DeployTypeOK
<1>12. IntentsOrdered' BY <1>1, <1>4 DEF DeployInv, IntentsOrdered
<1>13. DocumentMovesOn' BY <1>1, <1>4 DEF DeployInv, DocumentMovesOn
<1>14. \A q \in DeployRequests : ReceiptsFollow(q)'
  BY <1>1, <1>4 DEF DeployInv, ReceiptsFollow
<1>15. LockFollows'
  <2>1. Result(d) # "running" BY <1>6
  <2> QED BY <1>1, <1>2, <1>4, <1>9, <2>1 DEF DeployInv, LockFollows
<1>16. UnitKnows'
  <2>1. unit.r # NoRequest => deployLock' = deployLock BY <1>1, <1>2, <1>8
  <2> QED BY <1>1, <2>1, UnitStays
<1>17. OnceServed' BY <1>1, <1>4, <1>5 DEF DeployInv, OnceServed
<1>18. FreeIsServed'
  <2>0. Uncommitted \subseteq DeployRequests BY DEF Uncommitted
  <2>1. CASE deployLock # d
    BY <1>1, <1>2, <1>4, <1>5, <2>0, <2>1 DEF DeployInv, FreeIsServed
  <2>2. CASE deployLock = d
    <3> SUFFICES ASSUME ~overtaken
                 PROVE /\ Uncommitted = {} => Served = {release.current} \ {NoBundle}
                       /\ \A u \in Uncommitted : Uncommitted = {u} /\ Served = {Cand(u)}
      BY <1>1, <1>4, <1>5, <2>0 DEF FreeIsServed
    <3>1. /\ Uncommitted \subseteq {d}
          /\ ended[d]["rollback"] = "no" /\ ended[d][FirstEffect(d)] = "ok" => Served = {Cand(d)}
          /\ ended[d]["rollback"] = "ok" => Served = {Prev(d)}
      BY <1>7, <1>8, <2>2 DEF DeployInv, HeldIsServed
    <3>2. CASE journal[d].takeover
      <4>1. "rollback" \in Receipts(d) BY <1>1, <1>2, <3>2, PhaseSays
      <4>2. Served = {Prev(d)} /\ Prev(d) # NoBundle BY <1>6, <3>1, <3>2, <4>1 DEF ReceiptsFollow
      <4>3. Uncommitted = {} BY <1>6, <3>1, <3>2 DEF Uncommitted
      <4> QED BY <1>3, <4>2, <4>3
    <3>3. CASE ~ journal[d].takeover
      <4>1. Served = {Cand(d)} BY <1>6, <1>7, <3>1, <3>3 DEF ReceiptsFollow
      <4>2. Uncommitted = {d} BY <1>3, <1>6, <3>1, <3>3 DEF Uncommitted
      <4> QED BY <4>1, <4>2
    <3> QED BY <3>2, <3>3
  <2> QED BY <2>1, <2>2
<1>19. HeldIsServed'
  <2>1. \A q \in DeployRequests : deployLock' = q => deployLock = q BY <1>9, DeployAssumption
  <2> QED BY <1>1, <1>4, <1>5, <2>1 DEF DeployInv, HeldIsServed
<1> QED BY <1>10, <1>11, <1>12, <1>13, <1>14, <1>15, <1>16, <1>17, <1>18, <1>19 DEF DeployInv

(* The document advances to the candidate that is served.                      *)
LEMMA CommitReleaseKeeps ==
  ASSUME DeployInv, CommitRelease
  PROVE  DeployInv'
<1>1. /\ scan.pc = "commit" /\ Driving /\ NextJob
      /\ release' = [current |-> Cand(Driven), good |-> scan.seen]
      /\ UNCHANGED <<head, intent, accepted, journal, deployLock, unit, ended, docker, overtaken>>
  BY DEF CommitRelease, SwapRelease, Driving, admission, machine
<1>2. PICK d \in DeployRequests : d = Driven BY <1>1, DrivenType
<1>3. /\ DeployTypeOK /\ scan.at \in 1..Len(accepted) /\ scan.at \in Nat
      /\ scan.seen = release.current /\ Prev(d) = release.current /\ intent[d].state # "none"
      /\ Cand(d) \in Bundles /\ release.current \in MaybeBundles
      /\ scan \in [pc : ScanSteps, at : Nat, upto : Nat, seen : MaybeBundles]
  BY <1>1, <1>2, DrivenType DEF DeployInv, DeployTypeOK
<1>4. Result(d) = "succeeded" /\ deployLock # d BY <1>1, <1>2 DEF DeployInv, WorkerKnows
<1>5. d \in Uncommitted BY <1>3, <1>4 DEF Uncommitted
<1>6. release' \in [current : MaybeBundles, good : MaybeBundles] /\ release'.current = Cand(d)
      /\ Cand(d) # NoBundle
  BY <1>1, <1>2, <1>3, DeployAssumption DEF MaybeBundles
<1>7. \A q \in DeployRequests : /\ PhaseNow(q)' = PhaseNow(q) /\ Result(q)' = Result(q)
                                /\ Receipts(q)' = Receipts(q) /\ Cand(q)' = Cand(q)
                                /\ Prev(q)' = Prev(q) /\ FirstEffect(q)' = FirstEffect(q)
  BY <1>1, PhaseFrame DEF Cand, Prev, FirstEffect
<1>8. Served' = Served BY <1>1 DEF Served
<1>9. /\ Cand(d) \in Nat /\ Cand(d) <= head
      /\ release.current # NoBundle => release.current \in Nat /\ release.current < Cand(d)
  <2>1. Cand(d) <= head /\ (Prev(d) # NoBundle => Prev(d) < Cand(d))
    BY <1>3 DEF DeployInv, IntentsOrdered
  <2>2. release.current # NoBundle => release.current \in Nat
    BY <1>3, DeployAssumption DEF MaybeBundles
  <2> QED BY <1>3, <2>1, <2>2, DeployAssumption
<1>10. ASSUME NEW q \in DeployRequests, Receipts(q) # {}, Prev(q) # NoBundle
       PROVE Prev(q) < Cand(d) /\ Prev(q) \in Nat
  <2>1. release.current # NoBundle /\ Prev(q) <= release.current
    BY <1>10 DEF DeployInv, DocumentMovesOn
  <2>2. Prev(q) \in MaybeBundles BY <1>3 DEF DeployTypeOK, IntentRows, Prev
  <2>3. Prev(q) \in Nat BY <1>10, <2>2, DeployAssumption DEF MaybeBundles
  <2> QED BY <1>9, <2>1, <2>3
<1>11. Uncommitted' = {}
  <2>1. ASSUME NEW q \in DeployRequests, Result(q) = "succeeded", Cand(d) = Prev(q)
        PROVE FALSE
    <3>1. PhaseNow(q) = "end" /\ ~ journal[q].takeover BY <2>1 DEF Result
    <3>2. Receipts(q) # {} BY <3>1, PhaseSays
    <3>3. Prev(q) < Cand(d) /\ Prev(q) \in Nat BY <1>6, <1>10, <2>1, <3>2
    <3> QED BY <2>1, <3>3
  <2> QED BY <1>6, <1>7, <2>1 DEF Uncommitted
<1>12. WorkerKnows' /\ scan' \in [pc : ScanSteps, at : Nat, upto : Nat, seen : MaybeBundles]
  <2>0. WorkerKnows BY DEF DeployInv
  <2>1. PICK k : k = scan.at + 1 OBVIOUS
  <2>2. k \in Nat /\ k > 0 BY <1>3, <2>1
  <2>3. scan' = [scan EXCEPT !.pc = "pick", !.at = k] BY <1>1, <2>1 DEF NextJob
  <2>4. /\ scan'.pc = "pick" /\ scan'.at = k /\ scan'.upto = scan.upto
        /\ scan' \in [pc : ScanSteps, at : Nat, upto : Nat, seen : MaybeBundles]
    BY <1>3, <2>2, <2>3 DEF ScanSteps
  <2> QED BY <1>1, <2>0, <2>2, <2>4 DEF WorkerKnows, Driving
<1>13. DeployTypeOK' BY <1>1, <1>3, <1>6, <1>12 DEF DeployTypeOK
<1>14. IntentsOrdered' BY <1>1, <1>6, <1>7, <1>9 DEF DeployInv, IntentsOrdered
<1>15. DocumentMovesOn'
  <2>1. ASSUME NEW q \in DeployRequests, Receipts(q)' # {}, Prev(q)' # NoBundle
        PROVE release'.current # NoBundle /\ Prev(q)' <= release'.current
    <3>1. Prev(q) < Cand(d) /\ Prev(q) \in Nat BY <1>7, <1>10, <2>1
    <3> QED BY <1>6, <1>7, <1>9, <3>1
  <2> QED BY <1>6, <2>1 DEF DocumentMovesOn
<1>16. \A q \in DeployRequests : ReceiptsFollow(q)'
  BY <1>1, <1>7 DEF DeployInv, ReceiptsFollow
<1>17. LockFollows' BY <1>1, <1>7 DEF DeployInv, LockFollows
<1>18. UnitKnows' BY <1>1, UnitStays
<1>19. OnceServed'
  <2>1. PhaseNow(d) = "end" /\ ~ journal[d].takeover BY <1>4 DEF Result
  <2>2. "soaking" \in Receipts(d) BY <2>1, PhaseSays
  <2>3. Served # {} BY <2>2 DEF DeployInv, OnceServed
  <2> QED BY <1>8, <2>3 DEF OnceServed
<1>20. FreeIsServed'
  <2>1. deployLock = NoRequest /\ ~overtaken => Served = {Cand(d)}
    BY <1>5 DEF DeployInv, FreeIsServed
  <2> QED BY <1>1, <1>6, <1>8, <1>11, <2>1 DEF FreeIsServed
<1>21. HeldIsServed'
  <2>1. ASSUME NEW q \in DeployRequests, deployLock = q, ~overtaken, journal[q].spec = "permitted"
        PROVE FALSE
    <3>1. Uncommitted \subseteq {q} BY <2>1 DEF DeployInv, HeldIsServed
    <3> QED BY <1>4, <1>5, <2>1, <3>1
  <2> QED BY <1>1, <2>1 DEF HeldIsServed
<1> QED BY <1>12, <1>13, <1>14, <1>15, <1>16, <1>17, <1>18, <1>19, <1>20, <1>21 DEF DeployInv

(* What keeps something served over a step.                                    *)
LEMMA StillServed ==
  ASSUME docker \in DockerRows, docker' \in DockerRows
  PROVE  /\ docker'.boot \in Bundles => Served' # {}
         /\ \A b \in Bundles : docker'.router = "up" /\ docker'.target = b
                               /\ docker'.backend[b] = "running" => Served' # {}
         /\ docker'.boot = docker.boot /\ docker'.target = docker.target
            /\ (docker.router = "up" => docker'.router = "up")
            /\ (\A b \in Bundles : docker.backend[b] = "running" => docker'.backend[b] = "running")
            /\ Served # {} => Served' # {}
<1>1. /\ docker.boot \in MaybeBundles /\ docker.target \in MaybeBundles /\ NoBundle \notin Bundles
      /\ docker'.boot \in MaybeBundles /\ docker'.target \in MaybeBundles
  BY DeployAssumption DEF DockerRows
<1> QED BY <1>1 DEF Served, MaybeBundles

(* What a command on release b makes of Docker, field by field.                *)
LEMMA CommandEffects ==
  ASSUME DeployTypeOK, DockerCommand, NEW b \in Bundles,
         NEW name \in {"import", "backend", "switch", "adopt", "exclusive", "stop", "registry",
                       "setup", "unregister", "verify"},
         Now = Op(name, b)
  PROVE  /\ unit'.r = unit.r /\ unit'.effect = unit.effect /\ unit'.todo = Tail(unit.todo)
         /\ docker' \in DockerRows /\ docker'.router = docker.router
         /\ docker'.target = IF name = "switch" THEN b ELSE docker.target
         /\ docker'.boot = IF name = "setup" THEN b
                           ELSE IF name = "adopt" /\ docker.boot = b THEN NoBundle ELSE docker.boot
         /\ \A x \in Bundles :
              docker'.backend[x] = IF name = "backend" /\ x = b THEN "running"
                                   ELSE IF name = "stop" /\ x = b /\ Runs(b) THEN "stopped"
                                   ELSE docker.backend[x]
         /\ name = "switch" => Runs(b)
         /\ name = "exclusive" => Up /\ docker.boot = NoBundle
         /\ name = "verify" => docker.boot = b
<1>1. /\ docker \in DockerRows /\ docker.backend \in [Bundles -> {"absent", "running", "stopped"}]
      /\ docker.boot \in MaybeBundles /\ b \in MaybeBundles /\ NoBundle \in MaybeBundles
      /\ unit \in [r : DeployRequests \cup {NoRequest}, effect : Effects \cup {"none"},
                   todo : Seq(Ops), orphan : BOOLEAN]
  BY DEF DeployTypeOK, DockerRows, MaybeBundles
<1>2. unit' = [unit EXCEPT !.todo = Tail(unit.todo)] BY CommandDoes
<1>3. unit'.r = unit.r /\ unit'.effect = unit.effect /\ unit'.todo = Tail(unit.todo)
  BY <1>1, <1>2
<1>4. CASE name = "import"
  <2>1. docker' = [docker EXCEPT !.images = docker.images \cup {b}] BY <1>4, CommandDoes
  <2> QED BY <1>1, <1>3, <1>4, <2>1 DEF DockerRows
<1>5. CASE name = "backend"
  <2>1. docker' = [docker EXCEPT !.backend[b] = "running"] BY <1>5, CommandDoes
  <2> QED BY <1>1, <1>3, <1>5, <2>1 DEF DockerRows
<1>6. CASE name = "switch"
  <2>1. docker.backend[b] = "running" /\ docker' = [docker EXCEPT !.target = b]
    BY <1>6, CommandDoes
  <2> QED BY <1>1, <1>3, <1>6, <2>1 DEF DockerRows, Runs
<1>7. CASE name = "adopt"
  <2>1. PICK m \in MaybeBundles : m = IF docker.boot = b THEN NoBundle ELSE docker.boot BY <1>1
  <2>2. docker' = [docker EXCEPT !.boot = m] BY <1>7, <2>1, CommandDoes
  <2>3. docker' \in DockerRows BY <1>1, <2>2 DEF DockerRows
  <2> QED BY <1>1, <1>3, <1>7, <2>1, <2>2, <2>3 DEF DockerRows
<1>8. CASE name = "exclusive"
  <2>1. docker.router = "up" /\ docker.boot = NoBundle /\ docker' = docker BY <1>8, CommandDoes
  <2> QED BY <1>1, <1>3, <1>8, <2>1 DEF Up
<1>9. CASE name = "stop"
  <2>1. PICK m \in {"absent", "running", "stopped"} :
           m = IF docker.backend[b] = "running" THEN "stopped" ELSE docker.backend[b]
    BY <1>1
  <2>2. docker' = [docker EXCEPT !.backend[b] = m] BY <1>9, <2>1, CommandDoes
  <2>3. docker' \in DockerRows BY <1>1, <2>2 DEF DockerRows
  <2>4. \A x \in Bundles : docker'.backend[x] = IF x = b THEN m ELSE docker.backend[x]
    BY <1>1, <2>2 DEF DockerRows
  <2>5. docker'.router = docker.router /\ docker'.target = docker.target
        /\ docker'.boot = docker.boot
    BY <1>1, <2>2 DEF DockerRows
  <2> QED BY <1>3, <1>9, <2>1, <2>3, <2>4, <2>5 DEF Runs
<1>10. CASE name \in {"registry", "unregister"}
  <2>1. PICK m \in BOOLEAN : docker' = [docker EXCEPT !.registry = m]
    BY <1>10, CommandDoes
  <2> QED BY <1>1, <1>3, <1>10, <2>1 DEF DockerRows
<1>11. CASE name = "setup"
  <2>1. docker' = [docker EXCEPT !.boot = b] BY <1>11, CommandDoes
  <2> QED BY <1>1, <1>3, <1>11, <2>1 DEF DockerRows
<1>12. CASE name = "verify"
  <2>1. docker.boot = b /\ docker' = docker BY <1>12, CommandDoes
  <2> QED BY <1>1, <1>3, <1>12, <2>1
<1> QED BY <1>4, <1>5, <1>6, <1>7, <1>8, <1>9, <1>10, <1>11, <1>12

(* The router is made anew in two steps, its target stays.                     *)
LEMMA RouterEffects ==
  ASSUME DeployTypeOK, DockerCommand, NEW b, Now = Op("router", b)
  PROVE  /\ unit'.r = unit.r /\ unit'.effect = unit.effect
         /\ docker' \in DockerRows /\ docker'.target = docker.target
         /\ docker'.boot = docker.boot /\ docker'.backend = docker.backend
         /\ docker.router = "up" => docker'.router = "up"
         /\ \/ unit'.todo = unit.todo
            \/ unit'.todo = Tail(unit.todo) /\ docker'.router = "up"
<1>1. /\ docker \in DockerRows
      /\ unit \in [r : DeployRequests \cup {NoRequest}, effect : Effects \cup {"none"},
                   todo : Seq(Ops), orphan : BOOLEAN]
  BY DEF DeployTypeOK
<1>2. \/ docker.router = "bare" /\ UNCHANGED unit /\ docker' = [docker EXCEPT !.router = "absent"]
      \/ docker.router # "bare" /\ unit' = [unit EXCEPT !.todo = Tail(unit.todo)]
         /\ docker' = [docker EXCEPT !.router = "up"]
  BY CommandDoes
<1>3. CASE docker.router = "bare" /\ UNCHANGED unit /\ docker' = [docker EXCEPT !.router = "absent"]
  BY <1>1, <1>3 DEF DockerRows
<1>4. CASE docker.router # "bare" /\ unit' = [unit EXCEPT !.todo = Tail(unit.todo)]
           /\ docker' = [docker EXCEPT !.router = "up"]
  BY <1>1, <1>4 DEF DockerRows
<1> QED BY <1>2, <1>3, <1>4

(* What is to be shown of a command of a unit.                                 *)
SoundCommand ==
  /\ unit'.r = unit.r /\ unit'.effect = unit.effect
  /\ unit'.todo \in Seq(Ops) /\ docker' \in DockerRows
  /\ Served # {} => Served' # {}

(* The rest after a command is a program again.                                *)
LEMMA TailType ==
  ASSUME DeployTypeOK, unit.todo # <<>> PROVE Tail(unit.todo) \in Seq(Ops)
<1>1. unit.todo \in Seq(Ops) BY DEF DeployTypeOK
<1> QED BY <1>1

(* The commands of a bootstrap.                                                *)
LEMMA BootstrapMoves ==
  ASSUME DeployTypeOK, DockerCommand, NEW p, NEW c \in Bundles, BootstrapPoint(p, c)
  PROVE  BootstrapPoint(p, c)' /\ SoundCommand /\ docker'.target = docker.target
<1>1. PICK P : P = UnitProgram("bootstrap", p, c) OBVIOUS
<1>2. /\ Len(P) = 5 /\ P[1] = Op("import", c) /\ P[2] = Op("registry", c) /\ P[3] = Op("setup", c)
      /\ P[4] = Op("unregister", c) /\ P[5] = Op("verify", c)
  BY <1>1, BootstrapProgram
<1>3. PICK n \in 0..5 : RestOf(P, n) /\ (n >= 3 => docker.boot = c)
  BY <1>1 DEF BootstrapPoint
<1>4. unit.todo # <<>> /\ docker \in DockerRows BY DEF DockerCommand, DeployTypeOK
<1>5. n < 5 /\ Now = P[n + 1] /\ (unit'.todo = Tail(unit.todo) => RestOf(P, n + 1)')
  <2>1. n \in Nat /\ Len(P) \in Nat BY <1>2, <1>3
  <2> QED BY <1>2, <1>3, <1>4, <2>1, RestNow
<1>6. PICK name \in {"import", "registry", "setup", "unregister", "verify"} :
         Now = Op(name, c) /\ (n = 2 <=> name = "setup")
  <2>1. n \in {0, 1, 2, 3, 4} BY <1>3, <1>5
  <2> QED BY <1>2, <1>5, <2>1
<1>7. /\ unit'.r = unit.r /\ unit'.effect = unit.effect /\ unit'.todo = Tail(unit.todo)
      /\ docker' \in DockerRows /\ docker'.router = docker.router
      /\ docker'.target = docker.target
      /\ docker'.boot = (IF name = "setup" THEN c ELSE docker.boot)
      /\ \A x \in Bundles : docker'.backend[x] = docker.backend[x]
  BY <1>6, CommandEffects
<1>8. RestOf(P, n + 1)' /\ n + 1 \in 0..5 BY <1>3, <1>5, <1>7
<1>9. n + 1 >= 3 => docker'.boot = c
  <2>1. n + 1 >= 3 => n = 2 \/ n >= 3 BY <1>3
  <2> QED BY <1>3, <1>6, <1>7, <2>1
<1>10. BootstrapPoint(p, c)' BY <1>1, <1>8, <1>9 DEF BootstrapPoint
<1>11. Served # {} => Served' # {} BY <1>4, <1>7, StillServed
<1>12. unit'.todo \in Seq(Ops) BY <1>4, <1>7, TailType
<1> QED BY <1>7, <1>10, <1>11, <1>12 DEF SoundCommand

(* The commands of a rollback: the candidate is stopped when the router has    *)
(* left it for a backend that runs.                                            *)
LEMMA RollbackMoves ==
  ASSUME DeployTypeOK, DockerCommand, NEW p \in Bundles, NEW c \in Bundles, p # c,
         RollbackPoint(p, c)
  PROVE  RollbackPoint(p, c)' /\ SoundCommand
<1>1. PICK P : P = UnitProgram("rollback", p, c) OBVIOUS
<1>2. /\ Len(P) = 6 /\ P[1] = Op("import", p) /\ P[2] = Op("router", p)
      /\ P[3] = Op("exclusive", p) /\ P[4] = Op("backend", p) /\ P[5] = Op("switch", p)
      /\ P[6] = Op("stop", c)
  BY <1>1, RollbackProgram
<1>3. PICK n \in 0..6 :
         /\ RestOf(P, n)
         /\ n \in 2..6 => Up
         /\ n \in 3..6 => docker.boot = NoBundle
         /\ n \in 4..6 => Runs(p)
         /\ n \in 5..6 => docker.target = p
  BY <1>1 DEF RollbackPoint
<1>4. unit.todo # <<>> /\ docker \in DockerRows BY DEF DockerCommand, DeployTypeOK
<1>5. n < 6 /\ Now = P[n + 1] /\ (unit'.todo = Tail(unit.todo) => RestOf(P, n + 1)')
  <2>1. n \in Nat /\ Len(P) \in Nat BY <1>2, <1>3
  <2> QED BY <1>2, <1>3, <1>4, <2>1, RestNow
<1>6. n \in {0, 1, 2, 3, 4, 5} BY <1>3, <1>5
<1>7. Tail(unit.todo) \in Seq(Ops) /\ unit.todo \in Seq(Ops)
  BY <1>4, TailType DEF DeployTypeOK
<1>8. CASE n = 1
  <2>1. Now = Op("router", p) BY <1>2, <1>5, <1>8
  <2>2. /\ unit'.r = unit.r /\ unit'.effect = unit.effect
        /\ docker' \in DockerRows /\ docker'.target = docker.target
        /\ docker'.boot = docker.boot /\ docker'.backend = docker.backend
        /\ docker.router = "up" => docker'.router = "up"
        /\ \/ unit'.todo = unit.todo
           \/ unit'.todo = Tail(unit.todo) /\ docker'.router = "up"
    BY <2>1, RouterEffects
  <2>3. Served # {} => Served' # {} BY <1>4, <2>2, StillServed
  <2>4. SoundCommand BY <1>7, <2>2, <2>3 DEF SoundCommand
  <2>5. CASE unit'.todo = unit.todo
    <3>1. RestOf(P, 1)' BY <1>3, <1>8, <2>5 DEF RestOf
    <3>2. RollbackPoint(p, c)' BY <1>1, <3>1 DEF RollbackPoint
    <3> QED BY <2>4, <3>2
  <2>6. CASE unit'.todo = Tail(unit.todo) /\ docker'.router = "up"
    <3>1. RestOf(P, 2)' BY <1>5, <1>8, <2>6
    <3>2. RollbackPoint(p, c)' BY <1>1, <2>6, <3>1 DEF RollbackPoint, Up
    <3> QED BY <2>4, <3>2
  <2> QED BY <2>2, <2>5, <2>6
<1>9. CASE n # 1
  <2>1. PICK name \in {"import", "exclusive", "backend", "switch", "stop"}, b \in {p, c} :
          /\ Now = Op(name, b)
          /\ n = 0 => name = "import" /\ b = p
          /\ n = 2 => name = "exclusive" /\ b = p
          /\ n = 3 => name = "backend" /\ b = p
          /\ n = 4 => name = "switch" /\ b = p
          /\ n = 5 => name = "stop" /\ b = c
    BY <1>2, <1>5, <1>6, <1>9
  <2>2. /\ unit'.r = unit.r /\ unit'.effect = unit.effect /\ unit'.todo = Tail(unit.todo)
        /\ docker' \in DockerRows /\ docker'.router = docker.router
        /\ docker'.target = (IF name = "switch" THEN b ELSE docker.target)
        /\ docker'.boot = docker.boot
        /\ \A x \in Bundles :
             docker'.backend[x] = IF name = "backend" /\ x = b THEN "running"
                                  ELSE IF name = "stop" /\ x = b /\ Runs(b) THEN "stopped"
                                  ELSE docker.backend[x]
        /\ name = "switch" => Runs(b)
        /\ name = "exclusive" => Up /\ docker.boot = NoBundle
    BY <2>1, CommandEffects
  <2>3. RestOf(P, n + 1)' BY <1>5, <2>2
  <2>4. CASE n = 0
    <3>1. RollbackPoint(p, c)' BY <1>1, <2>3, <2>4 DEF RollbackPoint
    <3>2. Served # {} => Served' # {} BY <1>4, <2>1, <2>2, <2>4, StillServed
    <3> QED BY <1>7, <2>2, <3>1, <3>2 DEF SoundCommand
  <2>5. CASE n = 2
    <3>1. RollbackPoint(p, c)' BY <1>1, <1>3, <2>1, <2>2, <2>3, <2>5 DEF RollbackPoint, Up
    <3>2. Served # {} => Served' # {} BY <1>4, <2>1, <2>2, <2>5, StillServed
    <3> QED BY <1>7, <2>2, <3>1, <3>2 DEF SoundCommand
  <2>6. CASE n = 3
    <3>1. RollbackPoint(p, c)' BY <1>1, <1>3, <2>1, <2>2, <2>3, <2>6 DEF RollbackPoint, Up, Runs
    <3>2. Served # {} => Served' # {} BY <1>4, <2>1, <2>2, <2>6, StillServed
    <3> QED BY <1>7, <2>2, <3>1, <3>2 DEF SoundCommand
  <2>7. CASE n = 4
    <3>1. RollbackPoint(p, c)' BY <1>1, <1>3, <2>1, <2>2, <2>3, <2>7 DEF RollbackPoint, Up, Runs
    <3>2. Served' # {} BY <1>3, <1>4, <2>1, <2>2, <2>7, StillServed DEF Up, Runs
    <3> QED BY <1>7, <2>2, <3>1, <3>2 DEF SoundCommand
  <2>8. CASE n = 5
    <3>1. RollbackPoint(p, c)' BY <1>1, <1>3, <2>1, <2>2, <2>3, <2>8 DEF RollbackPoint, Up, Runs
    <3>2. Served' # {} BY <1>3, <1>4, <2>1, <2>2, <2>8, StillServed DEF Up, Runs
    <3> QED BY <1>7, <2>2, <3>1, <3>2 DEF SoundCommand
  <2> QED BY <1>6, <1>9, <2>4, <2>5, <2>6, <2>7, <2>8
<1> QED BY <1>8, <1>9

(* The commands of a deploy before the probe of the route, and the probe.      *)
LEMMA MainMoves ==
  ASSUME DeployTypeOK, DockerCommand, NEW p \in Bundles, NEW c \in Bundles, p # c,
         Prev(unit.r) = p, MainPoint(p, c)
  PROVE  DeployPoint(p, c)' /\ SoundCommand
<1>1. PICK P : P = UnitProgram("deploy", p, c) OBVIOUS
<1>2. /\ Len(P) = 4 /\ P[1] = Op("import", c) /\ P[2] = Op("import", p) /\ P[3] = Op("router", p)
      /\ P[4] = Op("apply", c)
  BY <1>1, DeployProgram
<1>3. PICK n \in 0..3 : RestOf(P, n) /\ (n = 3 => Up) BY <1>1 DEF MainPoint
<1>4. unit.todo # <<>> /\ docker \in DockerRows BY DEF DockerCommand, DeployTypeOK
<1>5. n < 4 /\ Now = P[n + 1] /\ (unit'.todo = Tail(unit.todo) => RestOf(P, n + 1)')
  <2>1. n \in Nat /\ Len(P) \in Nat BY <1>2, <1>3
  <2> QED BY <1>2, <1>3, <1>4, <2>1, RestNow
<1>6. n \in {0, 1, 2, 3} BY <1>3
<1>7. Tail(unit.todo) \in Seq(Ops) /\ unit.todo \in Seq(Ops) BY <1>4, TailType DEF DeployTypeOK
<1>8. CASE n \in {0, 1}
  <2>1. PICK b \in {p, c} : Now = Op("import", b) BY <1>2, <1>5, <1>8
  <2>2. /\ unit'.r = unit.r /\ unit'.effect = unit.effect /\ unit'.todo = Tail(unit.todo)
        /\ docker' \in DockerRows /\ docker'.router = docker.router
        /\ docker'.target = docker.target /\ docker'.boot = docker.boot
        /\ \A x \in Bundles : docker'.backend[x] = docker.backend[x]
    BY <2>1, CommandEffects
  <2>3. RestOf(P, n + 1)' /\ n + 1 \in 0..3 /\ n + 1 # 3 BY <1>5, <1>8, <2>2
  <2>4. MainPoint(p, c)' BY <1>1, <2>3 DEF MainPoint
  <2>5. Served # {} => Served' # {} BY <1>4, <2>2, StillServed
  <2> QED BY <1>7, <2>2, <2>4, <2>5 DEF SoundCommand, DeployPoint
<1>9. CASE n = 2
  <2>1. Now = Op("router", p) BY <1>2, <1>5, <1>9
  <2>2. /\ unit'.r = unit.r /\ unit'.effect = unit.effect
        /\ docker' \in DockerRows /\ docker'.target = docker.target
        /\ docker'.boot = docker.boot /\ docker'.backend = docker.backend
        /\ docker.router = "up" => docker'.router = "up"
        /\ \/ unit'.todo = unit.todo
           \/ unit'.todo = Tail(unit.todo) /\ docker'.router = "up"
    BY <2>1, RouterEffects
  <2>3. Served # {} => Served' # {} BY <1>4, <2>2, StillServed
  <2>4. SoundCommand BY <1>7, <2>2, <2>3 DEF SoundCommand
  <2>5. CASE unit'.todo = unit.todo
    <3>1. RestOf(P, 2)' BY <1>3, <1>9, <2>5 DEF RestOf
    <3>2. MainPoint(p, c)' BY <1>1, <3>1 DEF MainPoint
    <3> QED BY <2>4, <3>2 DEF DeployPoint
  <2>6. CASE unit'.todo = Tail(unit.todo) /\ docker'.router = "up"
    <3>1. RestOf(P, 3)' BY <1>5, <1>9, <2>6
    <3>2. MainPoint(p, c)' BY <1>1, <2>6, <3>1 DEF MainPoint, Up
    <3> QED BY <2>4, <3>2 DEF DeployPoint
  <2> QED BY <2>2, <2>5, <2>6
<1>10. CASE n = 3
  <2>1. Now = Op("apply", c) BY <1>2, <1>5, <1>10
  <2>2. unit' = [unit EXCEPT !.todo = ApplyStableRelease(p, c)] /\ docker' = docker
    BY <2>1, CommandDoes
  <2>3. /\ unit'.r = unit.r /\ unit'.effect = unit.effect
        /\ unit'.todo = ApplyStableRelease(p, c)
    BY <2>2 DEF DeployTypeOK
  <2>4. Served' = Served BY <2>2 DEF Served
  <2>6. CASE docker.target = c
    <3>1. unit'.todo = RoutedAlready(p, c) BY <2>3, <2>6 DEF ApplyStableRelease
    <3>2. Len(RoutedAlready(p, c)) = 4 BY RoutedProgram
    <3>3. RestOf(RoutedAlready(p, c), 0)' BY <3>1, <3>2 DEF RestOf
    <3>4. RoutedPoint(p, c)' BY <1>3, <1>10, <2>2, <2>6, <3>3 DEF RoutedPoint, Up
    <3>5. unit'.todo \in Seq(Ops) BY <3>1, ProgramTypes DEF MaybeBundles
    <3> QED BY <1>4, <2>2, <2>3, <2>4, <3>4, <3>5 DEF SoundCommand, DeployPoint
  <2>7. CASE docker.target # c
    <3>1. unit'.todo = FreshRoute(p, c) BY <2>3, <2>7 DEF ApplyStableRelease
    <3>2. Len(FreshRoute(p, c)) = 7 BY FreshProgram
    <3>3. RestOf(FreshRoute(p, c), 0)' BY <3>1, <3>2 DEF RestOf
    <3>4. FreshPoint(p, c)' BY <1>3, <1>10, <2>2, <3>3 DEF FreshPoint, Up
    <3>5. unit'.todo \in Seq(Ops) BY <3>1, ProgramTypes DEF MaybeBundles
    <3> QED BY <1>4, <2>2, <2>3, <2>4, <3>4, <3>5 DEF SoundCommand, DeployPoint
  <2> QED BY <2>6, <2>7
<1> QED BY <1>6, <1>8, <1>9, <1>10

(* The fresh route: the bootstrap container is let go when the router points   *)
(* at the running backend of the same release, the old backend when it points  *)
(* at the candidate.                                                           *)
LEMMA FreshMoves ==
  ASSUME DeployTypeOK, DockerCommand, NEW p \in Bundles, NEW c \in Bundles, p # c,
         FreshPoint(p, c)
  PROVE  FreshPoint(p, c)' /\ SoundCommand
<1>1. PICK P : P = FreshRoute(p, c) OBVIOUS
<1>2. /\ Len(P) = 7 /\ P[1] = Op("backend", p) /\ P[2] = Op("switch", p) /\ P[3] = Op("adopt", p)
      /\ P[4] = Op("exclusive", p) /\ P[5] = Op("backend", c) /\ P[6] = Op("switch", c)
      /\ P[7] = Op("stop", p)
  BY <1>1, FreshProgram
<1>3. PICK n \in 0..7 :
        /\ RestOf(P, n) /\ Up
        /\ n \in 1..6 => Runs(p)
        /\ n \in 2..5 => docker.target = p
        /\ n \in 4..7 => docker.boot = NoBundle
        /\ n \in 5..7 => Runs(c)
        /\ n \in 6..7 => docker.target = c
  BY <1>1 DEF FreshPoint
<1>4. unit.todo # <<>> /\ docker \in DockerRows BY DEF DockerCommand, DeployTypeOK
<1>5. n < 7 /\ Now = P[n + 1] /\ (unit'.todo = Tail(unit.todo) => RestOf(P, n + 1)')
  <2>1. n \in Nat /\ Len(P) \in Nat BY <1>2, <1>3
  <2> QED BY <1>2, <1>3, <1>4, <2>1, RestNow
<1>6. n \in {0, 1, 2, 3, 4, 5, 6} BY <1>3, <1>5
<1>7. PICK name \in {"adopt", "exclusive", "backend", "switch", "stop"}, b \in {p, c} :
        /\ Now = Op(name, b)
        /\ n = 0 => name = "backend" /\ b = p
        /\ n = 1 => name = "switch" /\ b = p
        /\ n = 2 => name = "adopt" /\ b = p
        /\ n = 3 => name = "exclusive" /\ b = p
        /\ n = 4 => name = "backend" /\ b = c
        /\ n = 5 => name = "switch" /\ b = c
        /\ n = 6 => name = "stop" /\ b = p
  BY <1>2, <1>5, <1>6
<1>8. /\ unit'.r = unit.r /\ unit'.effect = unit.effect /\ unit'.todo = Tail(unit.todo)
      /\ docker' \in DockerRows /\ docker'.router = docker.router
      /\ docker'.target = (IF name = "switch" THEN b ELSE docker.target)
      /\ docker'.boot = (IF name = "adopt" /\ docker.boot = b THEN NoBundle ELSE docker.boot)
      /\ \A x \in Bundles :
           docker'.backend[x] = IF name = "backend" /\ x = b THEN "running"
                                ELSE IF name = "stop" /\ x = b /\ Runs(b) THEN "stopped"
                                ELSE docker.backend[x]
      /\ name = "switch" => Runs(b)
      /\ name = "exclusive" => Up /\ docker.boot = NoBundle
  BY <1>7, CommandEffects
<1>9. RestOf(P, n + 1)' /\ n + 1 \in 0..7 BY <1>3, <1>5, <1>8
<1>10. Tail(unit.todo) \in Seq(Ops) BY <1>4, TailType
<1>11. SUFFICES FreshPoint(p, c)' /\ (Served # {} => Served' # {})
  BY <1>8, <1>10 DEF SoundCommand
<1>12. CASE n = 0
  <2>1. FreshPoint(p, c)' BY <1>1, <1>3, <1>7, <1>8, <1>9, <1>12 DEF FreshPoint, Up, Runs
  <2>2. Served # {} => Served' # {} BY <1>4, <1>7, <1>8, <1>12, StillServed
  <2> QED BY <2>1, <2>2
<1>13. CASE n = 1
  <2>1. FreshPoint(p, c)' BY <1>1, <1>3, <1>7, <1>8, <1>9, <1>13 DEF FreshPoint, Up, Runs
  <2>2. Served' # {} BY <1>3, <1>4, <1>7, <1>8, <1>13, StillServed DEF Up, Runs
  <2> QED BY <2>1, <2>2
<1>14. CASE n = 2
  <2>1. FreshPoint(p, c)' BY <1>1, <1>3, <1>7, <1>8, <1>9, <1>14 DEF FreshPoint, Up, Runs
  <2>2. Served' # {} BY <1>3, <1>4, <1>7, <1>8, <1>14, StillServed DEF Up, Runs
  <2> QED BY <2>1, <2>2
<1>15. CASE n = 3
  <2>1. FreshPoint(p, c)' BY <1>1, <1>3, <1>7, <1>8, <1>9, <1>15 DEF FreshPoint, Up, Runs
  <2>2. Served' # {} BY <1>3, <1>4, <1>7, <1>8, <1>15, StillServed DEF Up, Runs
  <2> QED BY <2>1, <2>2
<1>16. CASE n = 4
  <2>1. FreshPoint(p, c)' BY <1>1, <1>3, <1>7, <1>8, <1>9, <1>16 DEF FreshPoint, Up, Runs
  <2>2. Served' # {} BY <1>3, <1>4, <1>7, <1>8, <1>16, StillServed DEF Up, Runs
  <2> QED BY <2>1, <2>2
<1>17. CASE n = 5
  <2>1. FreshPoint(p, c)' BY <1>1, <1>3, <1>7, <1>8, <1>9, <1>17 DEF FreshPoint, Up, Runs
  <2>2. Served' # {} BY <1>3, <1>4, <1>7, <1>8, <1>17, StillServed DEF Up, Runs
  <2> QED BY <2>1, <2>2
<1>18. CASE n = 6
  <2>1. FreshPoint(p, c)' BY <1>1, <1>3, <1>7, <1>8, <1>9, <1>18 DEF FreshPoint, Up, Runs
  <2>2. Served' # {} BY <1>3, <1>4, <1>7, <1>8, <1>18, StillServed DEF Up, Runs
  <2> QED BY <2>1, <2>2
<1> QED BY <1>6, <1>12, <1>13, <1>14, <1>15, <1>16, <1>17, <1>18

(* The router already points at the candidate: an earlier unit got that far.   *)
LEMMA RoutedMoves ==
  ASSUME DeployTypeOK, DockerCommand, NEW p \in Bundles, NEW c \in Bundles, p # c,
         RoutedPoint(p, c)
  PROVE  RoutedPoint(p, c)' /\ SoundCommand
<1>1. PICK P : P = RoutedAlready(p, c) OBVIOUS
<1>2. /\ Len(P) = 4 /\ P[1] = Op("backend", c) /\ P[2] = Op("adopt", p)
      /\ P[3] = Op("exclusive", p) /\ P[4] = Op("stop", p)
  BY <1>1, RoutedProgram
<1>3. PICK n \in 0..4 :
        /\ RestOf(P, n) /\ Up /\ docker.target = c
        /\ n \in 1..4 => Runs(c)
        /\ n \in 3..4 => docker.boot = NoBundle
  BY <1>1 DEF RoutedPoint
<1>4. unit.todo # <<>> /\ docker \in DockerRows BY DEF DockerCommand, DeployTypeOK
<1>5. n < 4 /\ Now = P[n + 1] /\ (unit'.todo = Tail(unit.todo) => RestOf(P, n + 1)')
  <2>1. n \in Nat /\ Len(P) \in Nat BY <1>2, <1>3
  <2> QED BY <1>2, <1>3, <1>4, <2>1, RestNow
<1>6. n \in {0, 1, 2, 3} BY <1>3, <1>5
<1>7. PICK name \in {"adopt", "exclusive", "backend", "stop"}, b \in {p, c} :
        /\ Now = Op(name, b)
        /\ n = 0 => name = "backend" /\ b = c
        /\ n = 1 => name = "adopt" /\ b = p
        /\ n = 2 => name = "exclusive" /\ b = p
        /\ n = 3 => name = "stop" /\ b = p
  BY <1>2, <1>5, <1>6
<1>8. /\ unit'.r = unit.r /\ unit'.effect = unit.effect /\ unit'.todo = Tail(unit.todo)
      /\ docker' \in DockerRows /\ docker'.router = docker.router
      /\ docker'.target = docker.target
      /\ docker'.boot = (IF name = "adopt" /\ docker.boot = b THEN NoBundle ELSE docker.boot)
      /\ \A x \in Bundles :
           docker'.backend[x] = IF name = "backend" /\ x = b THEN "running"
                                ELSE IF name = "stop" /\ x = b /\ Runs(b) THEN "stopped"
                                ELSE docker.backend[x]
      /\ name = "exclusive" => Up /\ docker.boot = NoBundle
  BY <1>7, CommandEffects
<1>9. RestOf(P, n + 1)' /\ n + 1 \in 0..4 BY <1>3, <1>5, <1>8
<1>10. Tail(unit.todo) \in Seq(Ops) BY <1>4, TailType
<1>11. docker'.router = "up" /\ docker'.target = c /\ docker'.backend[c] = "running"
  BY <1>3, <1>6, <1>7, <1>8 DEF Up, Runs
<1>12. Served' # {} BY <1>4, <1>8, <1>11, StillServed
<1>13. n + 1 \in 3..4 => docker'.boot = NoBundle
  <2>1. n + 1 \in 3..4 => n \in {2, 3} BY <1>6
  <2> QED BY <1>3, <1>7, <1>8, <2>1
<1>14. RoutedPoint(p, c)' BY <1>1, <1>9, <1>11, <1>13 DEF RoutedPoint, Up, Runs
<1> QED BY <1>8, <1>10, <1>12, <1>14 DEF SoundCommand

(* A command of the running unit.                                              *)
LEMMA DockerCommandKeeps ==
  ASSUME DeployInv, DockerCommand
  PROVE  DeployInv'
<1>1. /\ unit.r # NoRequest /\ scan' = scan
      /\ UNCHANGED <<head, intent, accepted, journal, deployLock, release, ended, overtaken>>
  BY DEF DockerCommand, admission, durable
<1>2. DeployTypeOK /\ UnitKnows /\ unit.r \in DeployRequests
  BY <1>1 DEF DeployInv, DeployTypeOK
<1>3. PICK r \in DeployRequests : r = unit.r BY <1>2
<1>4. PICK p, c, e : p = Prev(r) /\ c = Cand(r) /\ e = unit.effect OBVIOUS
<1>5. /\ intent[r].state # "none" /\ e \in Effects /\ deployLock = r
      /\ journal[r].spec = "permitted" /\ PhaseNow(r) \in {"deploying", "rollback"}
      /\ e = EffectOf(r) /\ ended[r][e] = "no" /\ UnitPoint(e, p, c)
  BY <1>1, <1>2, <1>3, <1>4 DEF UnitKnows
<1>6. c \in Bundles /\ p \in MaybeBundles /\ (p # NoBundle => p \in Bundles /\ p # c)
  <2>1. p \in MaybeBundles BY <1>2, <1>4 DEF DeployTypeOK, IntentRows, Prev
  <2>2. c \in Bundles /\ (p # NoBundle => p < c)
    BY <1>4, <1>5 DEF DeployInv, IntentsOrdered
  <2>3. p # NoBundle => p \in Nat /\ p \in Bundles BY <2>1, DeployAssumption DEF MaybeBundles
  <2>4. p # NoBundle => p # c BY <2>2, <2>3
  <2> QED BY <2>1, <2>2, <2>3, <2>4
<1>7. /\ UnitPoint(e, p, c)' /\ SoundCommand
      /\ e = "bootstrap" => docker'.target = docker.target
  <2>1. CASE e = "bootstrap"
    <3>1. p = NoBundle /\ BootstrapPoint(p, c) BY <1>5, <2>1 DEF UnitPoint
    <3>2. BootstrapPoint(p, c)' /\ SoundCommand /\ docker'.target = docker.target
      BY <1>2, <1>6, <3>1, BootstrapMoves
    <3> QED BY <2>1, <3>1, <3>2 DEF UnitPoint
  <2>2. CASE e = "deploy"
    <3>1. p # NoBundle /\ DeployPoint(p, c) BY <1>5, <2>2 DEF UnitPoint
    <3>2. DeployPoint(p, c)' /\ SoundCommand
      BY <1>2, <1>3, <1>4, <1>6, <3>1, MainMoves, FreshMoves, RoutedMoves DEF DeployPoint
    <3> QED BY <2>2, <3>1, <3>2 DEF UnitPoint
  <2>3. CASE e = "rollback"
    <3>1. p # NoBundle /\ RollbackPoint(p, c) BY <1>5, <2>3 DEF UnitPoint
    <3>2. RollbackPoint(p, c)' /\ SoundCommand BY <1>2, <1>6, <3>1, RollbackMoves
    <3> QED BY <2>3, <3>1, <3>2 DEF UnitPoint
  <2> QED BY <1>5, <2>1, <2>2, <2>3 DEF Effects
<1>8. \A q \in DeployRequests : /\ PhaseNow(q)' = PhaseNow(q) /\ Result(q)' = Result(q)
                                /\ Receipts(q)' = Receipts(q) /\ Cand(q)' = Cand(q)
                                /\ Prev(q)' = Prev(q) /\ FirstEffect(q)' = FirstEffect(q)
                                /\ EffectOf(q)' = EffectOf(q)
  <2>1. \A q \in DeployRequests : PhaseNow(q)' = PhaseNow(q) /\ Result(q)' = Result(q)
                                  /\ Receipts(q)' = Receipts(q)
    BY <1>1, PhaseFrame
  <2> QED BY <1>1, <2>1 DEF Cand, Prev, FirstEffect, EffectOf
<1>9. Uncommitted' = Uncommitted BY <1>1, <1>8 DEF Uncommitted
<1>10. unit'.r = r /\ unit'.effect = e /\ docker' \in DockerRows /\ (Served # {} => Served' # {})
       /\ unit'.todo \in Seq(Ops)
  BY <1>3, <1>4, <1>7 DEF SoundCommand
<1>11. DeployTypeOK'
  <2>1. \/ unit' = unit \/ unit' = [unit EXCEPT !.todo = Tail(@)]
        \/ unit' = [unit EXCEPT !.todo = ApplyStableRelease(Prev(unit.r), Now.of)]
    BY DEF DockerCommand, Command, ImportImage, EnsureRouter, RouteProbe, EnsureBackend,
      SwitchRouter, AdoptBootstrap, ExclusiveAlias, StopBackend, StartRegistry, KamalSetup,
      DropRegistry, VerifyVersion, Did
  <2>2. PICK t : unit' = unit \/ unit' = [unit EXCEPT !.todo = t]
    BY <2>1
  <2>3. unit' \in [r : DeployRequests \cup {NoRequest}, effect : Effects \cup {"none"},
                   todo : Seq(Ops), orphan : BOOLEAN]
    <3>1. unit \in [r : DeployRequests \cup {NoRequest}, effect : Effects \cup {"none"},
                    todo : Seq(Ops), orphan : BOOLEAN]
      BY <1>2 DEF DeployTypeOK
    <3>2. CASE unit' = unit BY <3>1, <3>2
    <3>3. CASE unit' = [unit EXCEPT !.todo = t]
      <4>1. unit'.todo = t BY <3>1, <3>3
      <4> QED BY <1>10, <3>1, <3>3, <4>1
    <3> QED BY <2>2, <3>2, <3>3
  <2> QED BY <1>1, <1>2, <1>10, <2>3 DEF DeployTypeOK
<1>12. IntentsOrdered' BY <1>1, <1>8 DEF DeployInv, IntentsOrdered
<1>13. DocumentMovesOn'
  <2>1. release.current = NoBundle => docker'.target = docker.target
    <3>1. release.current = NoBundle => p = NoBundle BY <1>4 DEF DeployInv, DocumentMovesOn
    <3>2. p = NoBundle => e = "bootstrap" BY <1>5 DEF UnitPoint, Effects
    <3> QED BY <1>7, <3>1, <3>2
  <2> QED BY <1>1, <1>8, <2>1 DEF DeployInv, DocumentMovesOn
<1>14. WorkerKnows'
  <2>1. WorkerKnows BY DEF DeployInv
  <2>2. CASE ~ Driving
    <3>1. scan.pc \in {"sleep", "pick"} BY <2>2 DEF Driving
    <3> QED BY <1>1, <2>1, <3>1 DEF WorkerKnows, Driving
  <2>3. CASE Driving
    <3>1. PICK d \in DeployRequests : d = Driven /\ d = Driven'
      BY <1>1, <2>3, DrivenType DEF Driven
    <3> QED BY <1>1, <1>8, <2>1, <3>1 DEF WorkerKnows, Driving
  <2> QED BY <2>2, <2>3
<1>15. \A q \in DeployRequests : ReceiptsFollow(q)' BY <1>1, <1>8 DEF DeployInv, ReceiptsFollow
<1>16. LockFollows' BY <1>1, <1>8 DEF DeployInv, LockFollows
<1>17. UnitKnows'
  <2>1. UnitPoint(unit.effect, Prev(unit.r), Cand(unit.r))' BY <1>4, <1>7, <1>8, <1>10
  <2> QED BY <1>1, <1>5, <1>8, <1>10, <2>1 DEF UnitKnows
<1>18. OnceServed' BY <1>1, <1>8, <1>10 DEF DeployInv, OnceServed
<1>19. FreeIsServed' BY <1>1, <1>5, DeployAssumption DEF FreeIsServed
<1>20. HeldIsServed'
  <2>1. unit'.r # NoRequest BY <1>10, DeployAssumption
  <2> QED BY <1>1, <1>8, <1>9, <2>1 DEF DeployInv, HeldIsServed
<1> QED BY <1>11, <1>12, <1>13, <1>14, <1>15, <1>16, <1>17, <1>18, <1>19, <1>20 DEF DeployInv

(* A unit that has nothing left to do has made its release the only one served. *)
LEMMA FinishedServes ==
  ASSUME DeployInv, unit.r # NoRequest, unit.todo = <<>>
  PROVE  /\ unit.effect = "bootstrap" /\ release.current = NoBundle => Served = {Cand(unit.r)}
         /\ unit.effect = "deploy" => Served = {Cand(unit.r)}
         /\ unit.effect = "rollback" => Served = {Prev(unit.r)}
<1>1. DeployTypeOK /\ UnitKnows /\ unit.r \in DeployRequests BY DEF DeployInv, DeployTypeOK
<1>2. PICK r \in DeployRequests : r = unit.r BY <1>1
<1>3. PICK p, c, e : p = Prev(r) /\ c = Cand(r) /\ e = unit.effect OBVIOUS
<1>4. UnitPoint(e, p, c) /\ intent[r].state # "none" BY <1>1, <1>2, <1>3 DEF UnitKnows
<1>5. c \in Bundles /\ p \in MaybeBundles /\ (p # NoBundle => p \in Bundles)
  <2>1. p \in MaybeBundles BY <1>1, <1>3 DEF DeployTypeOK, IntentRows, Prev
  <2>2. c \in Bundles BY <1>3, <1>4 DEF DeployInv, IntentsOrdered
  <2> QED BY <2>1, <2>2 DEF MaybeBundles
<1>6. Len(unit.todo) = 0 OBVIOUS
<1>8. CASE e = "bootstrap"
  <2>0. PICK P : P = UnitProgram("bootstrap", p, c) OBVIOUS
  <2>1. PICK n \in 0..5 : RestOf(P, n) /\ (n >= 3 => docker.boot = c)
    BY <1>4, <1>8, <2>0 DEF UnitPoint, BootstrapPoint
  <2>2. Len(P) = 5 BY <2>0, BootstrapProgram
  <2>3. n = 5 BY <1>6, <2>1, <2>2 DEF RestOf
  <2>4. docker.boot = c BY <2>1, <2>3
  <2>5. release.current = NoBundle => docker.target = NoBundle BY DEF DeployInv, DocumentMovesOn
  <2>6. release.current = NoBundle => Served = {c}
    BY <1>5, <2>4, <2>5, DeployAssumption DEF Served
  <2> QED BY <1>2, <1>3, <1>8, <2>6
<1>9. CASE e = "deploy"
  <2>1. p # NoBundle /\ DeployPoint(p, c) BY <1>4, <1>9 DEF UnitPoint
  <2>2. ~ MainPoint(p, c)
    <3>0. PICK P : P = UnitProgram("deploy", p, c) OBVIOUS
    <3> SUFFICES ASSUME NEW n \in 0..3, RestOf(P, n) PROVE FALSE
      BY <3>0 DEF MainPoint
    <3>1. Len(P) = 4 BY <3>0, DeployProgram
    <3>2. n = 4 BY <1>6, <3>1 DEF RestOf
    <3> QED BY <3>2
  <2>3. CASE FreshPoint(p, c)
    <3>1. PICK n \in 0..7 :
            /\ RestOf(FreshRoute(p, c), n) /\ Up
            /\ n \in 4..7 => docker.boot = NoBundle
            /\ n \in 5..7 => Runs(c)
            /\ n \in 6..7 => docker.target = c
      BY <2>3 DEF FreshPoint
    <3>2. Len(FreshRoute(p, c)) = 7 BY FreshProgram
    <3>3. n = 7 BY <1>6, <3>1, <3>2 DEF RestOf
    <3>4. Served = {c} BY <1>1, <1>5, <3>1, <3>3, ServedIs
    <3> QED BY <1>2, <1>3, <1>9, <3>4
  <2>4. CASE RoutedPoint(p, c)
    <3>1. PICK n \in 0..4 :
            /\ RestOf(RoutedAlready(p, c), n) /\ Up /\ docker.target = c
            /\ n \in 1..4 => Runs(c)
            /\ n \in 3..4 => docker.boot = NoBundle
      BY <2>4 DEF RoutedPoint
    <3>2. Len(RoutedAlready(p, c)) = 4 BY RoutedProgram
    <3>3. n = 4 BY <1>6, <3>1, <3>2 DEF RestOf
    <3>4. Served = {c} BY <1>1, <1>5, <3>1, <3>3, ServedIs
    <3> QED BY <1>2, <1>3, <1>9, <3>4
  <2> QED BY <2>1, <2>2, <2>3, <2>4 DEF DeployPoint
<1>10. CASE e = "rollback"
  <2>1. p # NoBundle /\ RollbackPoint(p, c) BY <1>4, <1>10 DEF UnitPoint
  <2>0. PICK P : P = UnitProgram("rollback", p, c) OBVIOUS
  <2>2. PICK n \in 0..6 :
          /\ RestOf(P, n)
          /\ n \in 2..6 => Up
          /\ n \in 3..6 => docker.boot = NoBundle
          /\ n \in 4..6 => Runs(p)
          /\ n \in 5..6 => docker.target = p
    BY <2>0, <2>1 DEF RollbackPoint
  <2>3. Len(P) = 6 BY <2>0, RollbackProgram
  <2>4. n = 6 BY <1>6, <2>2, <2>3 DEF RestOf
  <2>5. Served = {p} BY <1>1, <1>5, <2>1, <2>2, <2>4, ServedIs
  <2> QED BY <1>2, <1>3, <1>10, <2>5
<1> QED BY <1>3, <1>8, <1>9, <1>10

(* A unit ends: what it left is known when it ends well, and nothing that was  *)
(* served is lost when it does not.                                            *)
LEMMA EndKeeps ==
  ASSUME DeployInv, unit.r # NoRequest, NEW how \in {"ok", "lost", "failed"}, End(how),
         how = "ok" => unit.todo = <<>> /\ docker' = docker,
         docker' \in DockerRows, docker'.target = docker.target, Served # {} => Served' # {}
  PROVE  DeployInv'
<1>1. /\ unit' = NoUnit /\ ended' = [ended EXCEPT ![unit.r][unit.effect] = how] /\ scan' = scan
      /\ UNCHANGED <<head, intent, accepted, journal, deployLock, release, overtaken>>
  BY DEF End, admission, durable
<1>2. DeployTypeOK /\ UnitKnows /\ unit.r \in DeployRequests BY DEF DeployInv, DeployTypeOK
<1>3. PICK r \in DeployRequests : r = unit.r BY <1>2
<1>4. PICK e : e = unit.effect OBVIOUS
<1>5. /\ e \in Effects /\ deployLock = r /\ journal[r].spec = "permitted"
      /\ PhaseNow(r) \in {"deploying", "rollback"} /\ e = EffectOf(r) /\ ended[r][e] = "no"
  BY <1>2, <1>3, <1>4 DEF UnitKnows
<1>6. /\ ended \in [DeployRequests -> [Effects -> {"no", "ok", "lost", "failed"}]]
      /\ ended' = [ended EXCEPT ![r][e] = how]
  BY <1>1, <1>2, <1>3, <1>4 DEF DeployTypeOK
<1>7. /\ ended' \in [DeployRequests -> [Effects -> {"no", "ok", "lost", "failed"}]]
      /\ \A q \in DeployRequests \ {r} : ended'[q] = ended[q]
      /\ \A f \in Effects : ended'[r][f] = IF f = e THEN how ELSE ended[r][f]
  BY <1>5, <1>6
<1>8. \A q \in DeployRequests : /\ PhaseNow(q)' = PhaseNow(q) /\ Result(q)' = Result(q)
                                /\ Receipts(q)' = Receipts(q) /\ Cand(q)' = Cand(q)
                                /\ Prev(q)' = Prev(q) /\ FirstEffect(q)' = FirstEffect(q)
  <2>1. \A q \in DeployRequests : PhaseNow(q)' = PhaseNow(q) /\ Result(q)' = Result(q)
                                  /\ Receipts(q)' = Receipts(q)
    BY <1>1, PhaseFrame
  <2> QED BY <1>1, <2>1 DEF Cand, Prev, FirstEffect
<1>9. Uncommitted' = Uncommitted BY <1>1, <1>8 DEF Uncommitted
<1>10. unit'.r = NoRequest /\ unit' \in [r : DeployRequests \cup {NoRequest},
                   effect : Effects \cup {"none"}, todo : Seq(Ops), orphan : BOOLEAN]
  BY <1>1 DEF NoUnit
<1>11. /\ e = "rollback" => journal[r].takeover /\ "rollback" \notin Receipts(r)
       /\ e # "rollback" => /\ ~ journal[r].takeover /\ "deploying" \notin Receipts(r)
                            /\ e = FirstEffect(r)
       /\ FirstEffect(r) # "rollback" /\ FirstEffect(r) \in Effects
  <2>1. PhaseNow(r) = "rollback" => journal[r].takeover /\ "rollback" \notin Receipts(r)
    BY PhaseSays
  <2>2. PhaseNow(r) = "deploying" => ~ journal[r].takeover /\ "deploying" \notin Receipts(r)
    BY PhaseSays
  <2> QED BY <1>5, <2>1, <2>2 DEF EffectOf, FirstEffect, Effects
<1>12. DeployTypeOK' BY <1>1, <1>2, <1>7, <1>10 DEF DeployTypeOK
<1>13. IntentsOrdered' BY <1>1, <1>8 DEF DeployInv, IntentsOrdered
<1>14. DocumentMovesOn' BY <1>1, <1>8 DEF DeployInv, DocumentMovesOn
<1>15. WorkerKnows'
  <2>1. WorkerKnows BY DEF DeployInv
  <2>2. CASE ~ Driving
    <3>1. scan.pc \in {"sleep", "pick"} BY <2>2 DEF Driving
    <3> QED BY <1>1, <2>1, <3>1 DEF WorkerKnows, Driving
  <2>3. CASE Driving
    <3>1. PICK d \in DeployRequests : d = Driven /\ d = Driven'
      BY <1>1, <2>3, DrivenType DEF Driven
    <3> QED BY <1>1, <1>8, <2>1, <3>1 DEF WorkerKnows, Driving
  <2> QED BY <2>2, <2>3
<1>16. ASSUME NEW q \in DeployRequests PROVE ReceiptsFollow(q)'
  <2>1. ReceiptsFollow(q) BY DEF DeployInv
  <2>2. CASE q = r
    <3>1. "deploying" \in Receipts(r) => ended'[r][FirstEffect(r)] = "ok"
      BY <1>7, <1>11, <2>1, <2>2 DEF ReceiptsFollow
    <3>2. "rollback" \in Effects BY DEF Effects
    <3>3. "rollback" \in Receipts(r) => ended'[r]["rollback"] = "ok"
      BY <1>7, <1>11, <2>1, <2>2, <3>2 DEF ReceiptsFollow
    <3>4. ~ journal[r].takeover => ended'[r]["rollback"] = "no"
      BY <1>7, <1>11, <2>1, <2>2, <3>2 DEF ReceiptsFollow
    <3> QED BY <1>1, <1>5, <1>8, <2>1, <2>2, <3>1, <3>3, <3>4 DEF ReceiptsFollow
  <2>3. CASE q # r
    <3>1. ended'[q] = ended[q] BY <1>7, <2>3
    <3> QED BY <1>1, <1>8, <2>1, <3>1 DEF ReceiptsFollow
  <2> QED BY <2>2, <2>3
<1>17. LockFollows' BY <1>1, <1>8 DEF DeployInv, LockFollows
<1>18. UnitKnows' BY <1>10 DEF UnitKnows
<1>19. OnceServed' BY <1>1, <1>8 DEF DeployInv, OnceServed
<1>20. FreeIsServed' BY <1>1, <1>5, DeployAssumption DEF FreeIsServed
<1>21. HeldIsServed'
  <2> SUFFICES ASSUME ~overtaken
               PROVE /\ Uncommitted \subseteq {r} /\ release.current = Prev(r)
                     /\ ended'[r]["rollback"] = "no" /\ ended'[r][FirstEffect(r)] = "ok" =>
                          Served' = {Cand(r)}
                     /\ ended'[r]["rollback"] = "ok" => Served' = {Prev(r)}
    BY <1>1, <1>5, <1>8, <1>9 DEF HeldIsServed
  <2>1. Uncommitted \subseteq {r} /\ release.current = Prev(r)
    BY <1>5 DEF DeployInv, HeldIsServed
  <2>2. "rollback" \in Effects BY DEF Effects
  <2>3. ReceiptsFollow(r) BY DEF DeployInv
  <2>4. how = "ok" => Served' = Served BY DEF Served
  <2>5. CASE e = "rollback"
    <3>1. ended'[r]["rollback"] = how BY <1>7, <2>2, <2>5
    <3>2. how = "ok" => Served = {Prev(r)} BY <1>3, <1>4, <2>5, FinishedServes
    <3> QED BY <2>1, <2>4, <3>1, <3>2
  <2>6. CASE e # "rollback"
    <3>1. ended'[r]["rollback"] = "no"
      BY <1>7, <1>11, <2>2, <2>3, <2>6 DEF ReceiptsFollow
    <3>2. ended'[r][FirstEffect(r)] = how BY <1>7, <1>11, <2>6
    <3>3. e = "bootstrap" => release.current = NoBundle
      BY <1>11, <2>1, <2>6 DEF FirstEffect
    <3>4. e \in {"bootstrap", "deploy"} BY <1>5, <2>6 DEF Effects
    <3>5. how = "ok" => Served = {Cand(r)} BY <1>3, <1>4, <3>3, <3>4, FinishedServes
    <3> QED BY <2>1, <2>4, <3>1, <3>2, <3>5
  <2> QED BY <2>5, <2>6
<1> QED BY <1>12, <1>13, <1>14, <1>15, <1>16, <1>17, <1>18, <1>19, <1>20, <1>21 DEF DeployInv

(* The unit's last command is done.                                            *)
LEMMA UnitEndsKeeps ==
  ASSUME DeployInv, UnitEnds
  PROVE  DeployInv'
<1>1. PICK how \in {"ok", "lost"} : End(how)
  BY DEF UnitEnds
<1>2. unit.r # NoRequest /\ unit.todo = <<>> /\ docker' = docker BY DEF UnitEnds
<1>3. docker \in DockerRows BY DEF DeployInv, DeployTypeOK
<1>4. Served' = Served BY <1>2 DEF Served
<1> QED BY <1>1, <1>2, <1>3, <1>4, EndKeeps

(* A unit that fails may have started the backend it was at.                   *)
LEMMA UnitFailsKeeps ==
  ASSUME DeployInv, UnitFails
  PROVE  DeployInv'
<1>1. /\ unit.r # NoRequest /\ End("failed")
      /\ \/ docker' = docker
         \/ docker' = [docker EXCEPT !.backend[Now.of] = "running"]
  BY DEF UnitFails
<1>2. docker \in DockerRows /\ docker.backend \in [Bundles -> {"absent", "running", "stopped"}]
  BY DEF DeployInv, DeployTypeOK, DockerRows
<1>3. /\ docker' \in DockerRows /\ docker'.target = docker.target /\ docker'.boot = docker.boot
      /\ docker'.router = docker.router
      /\ \A b \in Bundles : docker.backend[b] = "running" => docker'.backend[b] = "running"
  <2>1. CASE docker' = docker BY <1>2, <2>1
  <2>2. CASE docker' = [docker EXCEPT !.backend[Now.of] = "running"]
    <3>1. PICK f : f = [docker.backend EXCEPT ![Now.of] = "running"] OBVIOUS
    <3>2. f \in [Bundles -> {"absent", "running", "stopped"}]
          /\ \A b \in Bundles : docker.backend[b] = "running" => f[b] = "running"
      BY <1>2, <3>1
    <3>3. docker' = [docker EXCEPT !.backend = f] BY <1>2, <2>2, <3>1 DEF DockerRows
    <3> QED BY <1>2, <3>2, <3>3 DEF DockerRows
  <2> QED BY <1>1, <2>1, <2>2
<1>4. Served # {} => Served' # {} BY <1>2, <1>3, StillServed
<1> QED BY <1>1, <1>3, <1>4, EndKeeps

(* The lock is taken, but the evidence of the specification is too old.        *)
LEMMA StaleStartKeeps ==
  ASSUME DeployInv, Driving, NEW d \in DeployRequests, d = Driven, deployLock \in {NoRequest, d},
         journal[d].spec = "stale", unit.r = NoRequest, deployLock' = d, NextJob,
         UNCHANGED <<head, intent, accepted, journal, release, unit, ended, docker, overtaken>>
  PROVE  DeployInv'
<1>1. \A q \in DeployRequests : /\ PhaseNow(q)' = PhaseNow(q) /\ Result(q)' = Result(q)
                                /\ Receipts(q)' = Receipts(q) /\ Cand(q)' = Cand(q)
                                /\ Prev(q)' = Prev(q) /\ FirstEffect(q)' = FirstEffect(q)
  <2>1. \A q \in DeployRequests : PhaseNow(q)' = PhaseNow(q) /\ Result(q)' = Result(q)
                                  /\ Receipts(q)' = Receipts(q)
    BY PhaseFrame
  <2> QED BY <2>1 DEF Cand, Prev, FirstEffect
<1>2. Served' = Served BY DEF Served
<1>3. DeployTypeOK /\ WorkerKnows /\ scan.at \in Nat
      /\ scan \in [pc : ScanSteps, at : Nat, upto : Nat, seen : MaybeBundles]
  BY DEF DeployInv, DeployTypeOK
<1>4. WorkerKnows' /\ scan' \in [pc : ScanSteps, at : Nat, upto : Nat, seen : MaybeBundles]
  <2>1. PICK k : k = scan.at + 1 OBVIOUS
  <2>2. k \in Nat /\ k > 0 BY <1>3, <2>1
  <2>3. scan' = [scan EXCEPT !.pc = "pick", !.at = k] BY <2>1 DEF NextJob
  <2>4. /\ scan'.pc = "pick" /\ scan'.at = k /\ scan'.upto = scan.upto
        /\ scan' \in [pc : ScanSteps, at : Nat, upto : Nat, seen : MaybeBundles]
    BY <1>3, <2>2, <2>3 DEF ScanSteps
  <2> QED BY <1>3, <2>2, <2>4 DEF WorkerKnows, Driving
<1>5. DeployTypeOK' BY <1>3, <1>4 DEF DeployTypeOK
<1>6. IntentsOrdered' /\ DocumentMovesOn' BY <1>1 DEF DeployInv, IntentsOrdered, DocumentMovesOn
<1>7. \A q \in DeployRequests : ReceiptsFollow(q)' BY <1>1 DEF DeployInv, ReceiptsFollow
<1>8. LockFollows' BY <1>1, DeployAssumption DEF DeployInv, LockFollows
<1>9. UnitKnows' BY DEF UnitKnows
<1>10. OnceServed' BY <1>1, <1>2 DEF DeployInv, OnceServed
<1>11. FreeIsServed' BY DeployAssumption DEF FreeIsServed
<1>12. HeldIsServed' BY DEF HeldIsServed
<1> QED BY <1>4, <1>5, <1>6, <1>7, <1>8, <1>9, <1>10, <1>11, <1>12 DEF DeployInv

(* A unit begins, under the lock, at the start of its program.                 *)
LEMMA BeginKeeps ==
  ASSUME DeployInv, Driving, NEW d \in DeployRequests, d = Driven, deployLock \in {NoRequest, d},
         PhaseNow(d) \in {"deploying", "rollback"}, NEW e, e = EffectOf(d), ended[d][e] = "no",
         deployLock' = d,
         unit' = [r |-> d, effect |-> e, orphan |-> FALSE, todo |-> UnitProgram(e, Prev(d), Cand(d))],
         journal' = [journal EXCEPT ![d].spec = IF e = "rollback" THEN @ ELSE "permitted"],
         overtaken' = (overtaken \/ Uncommitted \ {d} # {}), GoTo("wait"),
         UNCHANGED <<head, intent, accepted, release, ended, docker>>
  PROVE  DeployInv'
<1>1. /\ DeployTypeOK /\ WorkerKnows /\ ReceiptsFollow(d)
      /\ journal \in [DeployRequests -> JournalRows] /\ journal[d] \in JournalRows
      /\ scan \in [pc : ScanSteps, at : Nat, upto : Nat, seen : MaybeBundles]
  BY DEF DeployInv, DeployTypeOK
<1>2. /\ e = "rollback" => journal[d].takeover
      /\ e \in Effects /\ (e = "bootstrap" => Prev(d) = NoBundle)
      /\ (e = "deploy" => Prev(d) # NoBundle)
  <2>1. PhaseNow(d) = "rollback" => journal[d].takeover BY PhaseSays
  <2> QED BY <2>1 DEF EffectOf, Effects
<1>3. e = "rollback" => journal[d].spec = "permitted" /\ Prev(d) # NoBundle
  BY <1>1, <1>2 DEF ReceiptsFollow
<1>4. PICK row : row = [journal[d] EXCEPT !.spec = "permitted"] OBVIOUS
<1>5. /\ row \in JournalRows /\ row.receipts = Receipts(d) /\ row.spec = "permitted"
      /\ row.takeover = journal[d].takeover
  BY <1>1, <1>4 DEF JournalRows, Receipts
<1>6. journal' = [journal EXCEPT ![d] = row]
  <2>1. CASE e = "rollback" BY <1>1, <1>3, <1>4, <2>1 DEF JournalRows
  <2>2. CASE e # "rollback" BY <1>1, <1>4, <2>2
  <2> QED BY <2>1, <2>2
<1>7. /\ journal'[d] = row
      /\ \A q \in DeployRequests \ {d} : journal'[q] = journal[q]
  BY <1>1, <1>6
<1>8. \A q \in DeployRequests : /\ PhaseNow(q)' = PhaseNow(q) /\ Result(q)' = Result(q)
                                /\ Receipts(q)' = Receipts(q)
                                /\ journal'[q].takeover = journal[q].takeover
  BY <1>5, <1>7, PhaseFrame DEF Receipts
<1>9. \A q \in DeployRequests : /\ Cand(q)' = Cand(q) /\ Prev(q)' = Prev(q)
                                /\ FirstEffect(q)' = FirstEffect(q) /\ EffectOf(q)' = EffectOf(q)
  BY <1>8 DEF Cand, Prev, FirstEffect, EffectOf
<1>10. Uncommitted' = Uncommitted /\ Served' = Served BY <1>8, <1>9 DEF Uncommitted, Served
<1>11. /\ scan.at \in 1..Len(accepted) /\ scan.seen = release.current
       /\ Prev(d) = release.current /\ intent[d].state # "none"
       /\ Cand(d) \in MaybeBundles /\ Prev(d) \in MaybeBundles
  BY <1>1, DrivenType DEF DeployTypeOK, MaybeBundles
<1>12. /\ scan'.pc = "wait" /\ scan'.at = scan.at /\ scan'.upto = scan.upto
       /\ scan'.seen = scan.seen
       /\ scan' \in [pc : ScanSteps, at : Nat, upto : Nat, seen : MaybeBundles]
  BY <1>1 DEF GoTo, ScanSteps
<1>13. Driven' = d BY <1>12 DEF Driven
<1>14. PICK P, p, c : P = UnitProgram(e, p, c) /\ p = Prev(d) /\ c = Cand(d) OBVIOUS
<1>15. P \in Seq(Ops) BY <1>2, <1>11, <1>14, ProgramTypes
<1>16. unit'.r = d /\ unit'.effect = e /\ unit'.todo = P
       /\ unit' \in [r : DeployRequests \cup {NoRequest}, effect : Effects \cup {"none"},
                     todo : Seq(Ops), orphan : BOOLEAN]
  BY <1>2, <1>14, <1>15
<1>17. DeployTypeOK'
  <2>1. journal' \in [DeployRequests -> JournalRows] BY <1>1, <1>5, <1>6
  <2> QED BY <1>1, <1>12, <1>16, <2>1 DEF DeployTypeOK
<1>18. IntentsOrdered'
  <2>1. \A q \in DeployRequests : intent[q].state = "none" => journal'[q] = journal[q]
    BY <1>7, <1>11
  <2> QED BY <1>8, <1>9, <2>1 DEF DeployInv, IntentsOrdered
<1>19. DocumentMovesOn' BY <1>8, <1>9 DEF DeployInv, DocumentMovesOn
<1>20. WorkerKnows'
  BY <1>1, <1>8, <1>9, <1>11, <1>12, <1>13 DEF WorkerKnows, Driving
<1>21. ASSUME NEW q \in DeployRequests PROVE ReceiptsFollow(q)'
  <2>1. ReceiptsFollow(q) BY DEF DeployInv
  <2>2. journal[q].spec = "permitted" => journal'[q].spec = "permitted" BY <1>5, <1>7
  <2> QED BY <1>8, <1>9, <2>1, <2>2 DEF ReceiptsFollow
<1>22. LockFollows'
  <2>1. ASSUME NEW q \in DeployRequests, journal'[q].spec = "permitted", Result(q)' = "running"
        PROVE q = d
    <3>1. q # d => deployLock = q
      BY <1>7, <1>8, <2>1 DEF DeployInv, LockFollows
    <3> QED BY <3>1, DeployAssumption
  <2>2. journal'[d].spec = "permitted" BY <1>5, <1>7
  <2> QED BY <2>1, <2>2 DEF LockFollows
<1>23. RestOf(P, 0)'
  <2>1. Len(P) \in Nat BY <1>15
  <2> QED BY <1>16, <2>1 DEF RestOf
<1>24. UnitPoint(e, p, c)'
  BY <1>2, <1>3, <1>14, <1>23 DEF UnitPoint, BootstrapPoint, DeployPoint, MainPoint, RollbackPoint,
     Effects
<1>25. UnitKnows'
  <2>1. UnitPoint(unit.effect, Prev(unit.r), Cand(unit.r))' BY <1>9, <1>14, <1>16, <1>24
  <2> QED BY <1>2, <1>5, <1>7, <1>8, <1>9, <1>11, <1>16, <2>1 DEF UnitKnows
<1>26. OnceServed' BY <1>8, <1>10 DEF DeployInv, OnceServed
<1>27. FreeIsServed' BY DeployAssumption DEF FreeIsServed
<1>28. HeldIsServed'
  <2>1. ~overtaken' => Uncommitted \subseteq {d} OBVIOUS
  <2>2. unit'.r # NoRequest BY <1>16, DeployAssumption
  <2> QED BY <1>9, <1>10, <1>11, <2>1, <2>2 DEF HeldIsServed
<1> QED BY <1>17, <1>18, <1>19, <1>20, <1>21, <1>22, <1>25, <1>26, <1>27, <1>28 DEF DeployInv

(* The lock, the permit and the unit, or the next job.                         *)
LEMMA StartUnitKeeps ==
  ASSUME DeployInv, StartUnit
  PROVE  DeployInv'
<1>1. /\ scan.pc = "phase" /\ Driving /\ PhaseNow(Driven) \in {"deploying", "rollback"}
      /\ UNCHANGED <<head, intent, accepted, ddFaults>>
  BY DEF StartUnit, AtUnitPhase, At, Driving, admission
<1>2. PICK d \in DeployRequests : d = Driven BY <1>1, DrivenType
<1>3. PICK e : e = EffectOf(d) OBVIOUS
<1>4. /\ ended[d][e] = "no" /\ unit.r = NoRequest
      /\ \/ NextJob /\ UNCHANGED <<durable, machine>>
         \/ /\ LockFree(d) /\ deployLock' = d /\ journal[d].spec = "stale"
            /\ NextJob /\ UNCHANGED <<journal, release, machine>>
         \/ /\ LockFree(d) /\ deployLock' = d
            /\ unit' = [r |-> d, effect |-> e, orphan |-> FALSE,
                        todo |-> UnitProgram(e, Prev(d), Cand(d))]
            /\ journal' = [journal EXCEPT ![d].spec = IF e = "rollback" THEN @ ELSE "permitted"]
            /\ overtaken' = (overtaken \/ Uncommitted \ {d} # {})
            /\ GoTo("wait") /\ UNCHANGED <<release, ended, promoted, docker>>
  BY <1>2, <1>3 DEF StartUnit
<1>5. CASE NextJob /\ UNCHANGED <<durable, machine>>
  BY <1>1, <1>5, PassKeeps DEF admission, machine
<1>6. CASE /\ LockFree(d) /\ deployLock' = d /\ journal[d].spec = "stale"
           /\ NextJob /\ UNCHANGED <<journal, release, machine>>
  BY <1>1, <1>2, <1>4, <1>6, StaleStartKeeps DEF LockFree, machine
<1>7. CASE /\ LockFree(d) /\ deployLock' = d
           /\ unit' = [r |-> d, effect |-> e, orphan |-> FALSE,
                       todo |-> UnitProgram(e, Prev(d), Cand(d))]
           /\ journal' = [journal EXCEPT ![d].spec = IF e = "rollback" THEN @ ELSE "permitted"]
           /\ overtaken' = (overtaken \/ Uncommitted \ {d} # {})
           /\ GoTo("wait") /\ UNCHANGED <<release, ended, promoted, docker>>
  BY <1>1, <1>2, <1>3, <1>4, <1>7, BeginKeeps DEF LockFree
<1> QED BY <1>4, <1>5, <1>6, <1>7

(* Before the first request: the installed release is served by its bootstrap  *)
(* container.                                                                  *)
LEMMA DeployStarts ==
  ASSUME DeployInit
  PROVE  DeployInv
<1>1. PICK b \in {NoBundle, Installed} : release = [current |-> b, good |-> NoBundle]
  BY DEF DeployInit
<1>2. PICK router \in {"absent", "bare"} :
        docker = [router |-> router, target |-> NoBundle, boot |-> release.current,
                  backend |-> [x \in Bundles |-> "absent"],
                  images |-> {release.current} \ {NoBundle}, registry |-> FALSE]
  BY DEF DeployInit
<1>3. /\ head = Installed /\ intent = [r \in DeployRequests |-> NoIntent] /\ accepted = <<>>
      /\ journal = [r \in DeployRequests |->
                      [auth |-> FALSE, spec |-> "none", receipts |-> {}, takeover |-> FALSE]]
      /\ deployLock = NoRequest /\ scan = Sleeping /\ unit = NoUnit
      /\ ended = [r \in DeployRequests |-> [x \in Effects |-> "no"]]
  BY DEF DeployInit
<1>4. /\ Installed \in Bundles /\ Installed \in Nat /\ NoBundle \notin Bundles
      /\ release.current = b /\ b \in MaybeBundles /\ NoBundle \in MaybeBundles
  BY <1>1, DeployAssumption DEF MaybeBundles
<1>5. \A r \in DeployRequests :
        /\ Receipts(r) = {} /\ Prev(r) = NoBundle /\ journal[r].spec = "none"
        /\ ~ journal[r].takeover /\ intent[r].state = "none"
  BY <1>3 DEF Receipts, Prev, NoIntent
<1>6. \A r \in DeployRequests : Result(r) = "running"
  <2>1. ASSUME NEW r \in DeployRequests PROVE Result(r) = "running"
    <3>1. PhaseNow(r) = "end" => "soaking" \in Receipts(r) BY <1>5, PhaseSays
    <3> QED BY <1>5, <3>1 DEF Result
  <2> QED BY <2>1
<1>7. DeployTypeOK
  <2>1. intent \in [DeployRequests -> IntentRows] BY <1>3, <1>4 DEF NoIntent, IntentRows
  <2>2. journal \in [DeployRequests -> JournalRows] BY <1>3 DEF JournalRows
  <2>3. release \in [current : MaybeBundles, good : MaybeBundles] BY <1>1, <1>4
  <2>4. scan \in [pc : ScanSteps, at : Nat, upto : Nat, seen : MaybeBundles]
    BY <1>3, <1>4 DEF Sleeping, ScanSteps
  <2>5. unit \in [r : DeployRequests \cup {NoRequest}, effect : Effects \cup {"none"},
                  todo : Seq(Ops), orphan : BOOLEAN]
    BY <1>3 DEF NoUnit
  <2>6. ended \in [DeployRequests -> [Effects -> {"no", "ok", "lost", "failed"}]] BY <1>3
  <2>7. docker \in DockerRows
    <3>1. {release.current} \ {NoBundle} \subseteq Bundles BY <1>4, DeployAssumption DEF MaybeBundles
    <3> QED BY <1>2, <1>4, <3>1 DEF DockerRows
  <2>8. accepted \in Seq(DeployRequests) BY <1>3
  <2> QED BY <1>3, <1>4, <2>1, <2>2, <2>3, <2>4, <2>5, <2>6, <2>7, <2>8 DEF DeployTypeOK
<1>8. IntentsOrdered BY <1>3, <1>4, <1>5 DEF IntentsOrdered
<1>9. DocumentMovesOn BY <1>2, <1>5 DEF DocumentMovesOn
<1>10. WorkerKnows BY <1>3 DEF WorkerKnows, Sleeping, Driving
<1>11. \A r \in DeployRequests : ReceiptsFollow(r)
  BY <1>3, <1>5 DEF ReceiptsFollow, Effects
<1>12. LockFollows BY <1>3, <1>5 DEF LockFollows
<1>13. UnitKnows BY <1>3 DEF UnitKnows, NoUnit
<1>14. Served = {release.current} \ {NoBundle} BY <1>2 DEF Served
<1>15. Uncommitted = {} BY <1>6 DEF Uncommitted
<1>16. OnceServed BY <1>5, <1>14 DEF OnceServed
<1>17. FreeIsServed BY <1>14, <1>15 DEF FreeIsServed
<1>18. HeldIsServed BY <1>3, DeployAssumption DEF HeldIsServed
<1> QED BY <1>7, <1>8, <1>9, <1>10, <1>11, <1>12, <1>13, <1>16, <1>17, <1>18 DEF DeployInv

(* Every step of the deploy side keeps the invariant.                          *)
LEMMA DeployNextKeeps ==
  ASSUME DeployInv, [DeployNext]_ddVars
  PROVE  DeployInv'
<1>1. ASSUME NEW r \in DeployRequests,
             HandleControl(r) \/ IssueGrant(r) \/ IntentExpires(r) \/ EvidenceExpires(r)
      PROVE DeployInv'
  BY <1>1, PrepareIntentKeeps, GrantKeeps, EvidenceExpiresKeeps DEF HandleControl
<1>2. CASE UNCHANGED ddVars
  <2>1. /\ UNCHANGED <<head, admission, durable, unit, ended, docker, overtaken>> /\ scan' = scan
    BY <1>2 DEF ddVars, machine
  <2>2. IntentsStand /\ accepted' = accepted
        /\ (scan' \in [pc : ScanSteps, at : Nat, upto : Nat, seen : MaybeBundles] => DeployTypeOK')
    BY <2>1, WorkerOnly
  <2>3. WorkerKnows' /\ scan' \in [pc : ScanSteps, at : Nat, upto : Nat, seen : MaybeBundles]
    BY <2>1, <2>2, WorkerGoes
  <2> QED BY <2>2, <2>3, QuietKeeps
<1> QED BY <1>1, <1>2, ScanKeeps, BindKeeps, CandidatePhasesKeeps, StartUnitKeeps, UnitDoneKeeps,
      ObservePhaseKeeps, TakeOverKeeps, CleanupTerminalKeeps, CommitReleaseKeeps,
      DockerCommandKeeps, UnitEndsKeeps, UnitFailsKeeps, WorldKeeps DEF DeployNext

(* The invariant of the deploy driver holds in every state, for any requests,  *)
(* bundles and number of faults.                                               *)
THEOREM DeployInvariant == DeploySpec => []DeployInv
<1>1. DeployInit => DeployInv BY DeployStarts
<1>2. DeployInv /\ [DeployNext]_ddVars => DeployInv' BY DeployNextKeeps
<1> QED BY <1>1, <1>2, PTL DEF DeploySpec

(* Once a release is installed something answers at every moment               *)
(* (apply_stable_release).                                                     *)
THEOREM ReleasesAreAlwaysServed == DeploySpec => []AlwaysServed
<1>1. DeployInv => AlwaysServed BY DEF DeployInv, OnceServed, AlwaysServed
<1> QED BY <1>1, DeployInvariant, PTL

(* With the lock free and every success committed exactly the release of the   *)
(* document is served, unless a deploy overtook a success that was not yet     *)
(* written to it (drive_accepted, commit_succeeded_release).                   *)
THEOREM DocumentNamesTheServed == DeploySpec => []DocumentIsServed
<1>1. DeployInv => DocumentIsServed BY DEF DeployInv, FreeIsServed, DocumentIsServed
<1> QED BY <1>1, DeployInvariant, PTL

================================================================================
