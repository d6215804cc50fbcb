------------------------------ MODULE StoreProofs ------------------------------
(* What the stores hold is whole: the image handoff's results, the source      *)
(* broker's canonical repositories, the preparation store and the notification *)
(* outbox, for any number of builds, commits, preparations and notices and any *)
(* number of faults.                                                           *)
EXTENDS ImageHandoff, SourceRepository, PreparationStore, NotificationOutbox,
        FiniteSetTheorems, TLAPS

--------------------------------------------------------------------------------
(* The image handoff                                                           *)

FileStates == {"absent", "temp", "linked", "whole"}
BuilderStates == {"none", "running", "succeeded", "stopped", "promoted", "discarded"}

HandoffTypeOK ==
  /\ result # NoResult => result.of \in BuildLeases
  /\ DOMAIN stagings = BuildLeases
  /\ builder \in [BuildLeases -> BuilderStates]
  /\ keepers \in [at : {"closed", "idle", "prepare", "request", "seal", "retire", "promote", "tidy"},
                  of : BuildLeases \cup {NoBuild}]
  /\ built \subseteq BuildLeases
  /\ files \in [Kinds -> [BuildLeases -> FileStates]]
  /\ hand \in [Sides -> [at : {"idle", "archive", "manifest", "private", "bundle"},
                         of : BuildLeases \cup {NoBuild}]]

(* What the launcher's step relies on: no result while a build is prepared,    *)
(* and a validated staging directory, whose build is over, while one is        *)
(* promoted.                                                                   *)
KeeperKnows ==
  /\ keepers.at \in {"prepare", "request", "seal"} => result = NoResult
  /\ keepers.at \in {"retire", "promote"} =>
       /\ keepers.of \in BuildLeases
       /\ stagings[keepers.of] = OutputFiles
       /\ builder[keepers.of] = "succeeded"

StoreInv ==
  /\ HandoffTypeOK
  /\ KeeperKnows
  /\ ResultIsWhole

(* What each side relies on: the bundle it publishes was opened, and the       *)
(* archive is whole when the name that stands for it is written.               *)
HandKnows ==
  /\ hand["build"].at \in {"idle", "archive", "manifest"}
  /\ hand["root"].at \in {"idle", "private", "bundle"}
  /\ \A p \in Sides : hand[p].at # "idle" => hand[p].of \in built
  /\ hand["build"].at = "manifest" => files["archive"][hand["build"].of] = "whole"
  /\ hand["root"].at = "bundle" => files["private"][hand["root"].of] = "whole"
  /\ \A l \in BuildLeases : files["manifest"][l] # "absent" => l \in built

(* The inductive invariant of the store and of the publications.               *)
HandoffInv ==
  /\ StoreInv
  /\ HandKnows
  /\ NamedAfterItsArchive

(* An empty store satisfies the invariant.                                     *)
LEMMA HandoffInitInv == HandoffInit => HandoffInv
<1> SUFFICES ASSUME HandoffInit PROVE HandoffInv
  OBVIOUS
<1>1. HandoffTypeOK
  BY DEF HandoffInit, HandoffTypeOK, BuilderStates, FileStates
<1>2. KeeperKnows /\ ResultIsWhole
  BY DEF HandoffInit, KeeperKnows, ResultIsWhole
<1>3. HandKnows
  BY DEF HandoffInit, HandKnows, Sides, Kinds
<1>4. NamedAfterItsArchive
  BY DEF HandoffInit, NamedAfterItsArchive, Kinds
<1> QED
  BY <1>1, <1>2, <1>3, <1>4 DEF HandoffInv, StoreInv

(* The launcher's steps.                                                       *)
StoreStep ==
  \/ OpenStore \/ LauncherDies
  \/ \E l \in BuildLeases :
       \/ PrepareRemoves(l) \/ PrepareStages(l) \/ PrepareWritesRequest(l) \/ PrepareSeals(l)
       \/ BuildWrites(l) \/ BuildEnds(l)
       \/ PromoteChecks(l) \/ PromoteRetires(l) \/ PromoteRenames(l) \/ PromoteTidies(l)
       \/ Discarded(l)

(* A promoted directory is a result.                                           *)
LEMMA ResultHasItsLease ==
  ASSUME NEW l \in BuildLeases, NEW f
  PROVE  [of |-> l, files |-> f] # NoResult
BY HandoffAssumption DEF NoResult

(* No step of the launcher or of a build breaks what the store promises.       *)
LEMMA StoreStepInv ==
  ASSUME StoreInv, StoreStep
  PROVE  StoreInv'
<1> USE DEF StoreInv, HandoffTypeOK, KeeperKnows, ResultIsWhole, RestOfStore
<1>1. CASE OpenStore
  BY <1>1 DEF OpenStore, KeeperDone, KeeperGoes
<1>2. CASE LauncherDies
  BY <1>2 DEF LauncherDies
<1>3. ASSUME NEW l \in BuildLeases, PrepareRemoves(l) PROVE StoreInv'
  BY <1>3 DEF PrepareRemoves, KeeperGoes
<1>4. ASSUME NEW l \in BuildLeases, PrepareStages(l) PROVE StoreInv'
  BY <1>4 DEF PrepareStages, KeeperAt, KeeperGoes, KeeperDone
<1>5. ASSUME NEW l \in BuildLeases, PrepareWritesRequest(l) PROVE StoreInv'
  BY <1>5 DEF PrepareWritesRequest, KeeperAt, KeeperGoes
<1>6. ASSUME NEW l \in BuildLeases, PrepareSeals(l) PROVE StoreInv'
  BY <1>6 DEF PrepareSeals, KeeperAt, KeeperGoes, KeeperDone, BuilderStates
<1>7. ASSUME NEW l \in BuildLeases, BuildWrites(l) PROVE StoreInv'
  BY <1>7 DEF BuildWrites
<1>8. ASSUME NEW l \in BuildLeases, BuildEnds(l) PROVE StoreInv'
  <2>1. PICK how \in {"succeeded", "stopped"} : builder' = [builder EXCEPT ![l] = how]
    BY <1>8 DEF BuildEnds
  <2> QED
    BY <1>8, <2>1 DEF BuildEnds, BuilderStates
<1>9. ASSUME NEW l \in BuildLeases, PromoteChecks(l) PROVE StoreInv'
  BY <1>9 DEF PromoteChecks, KeeperGoes, OutputValidates
<1>10. ASSUME NEW l \in BuildLeases, PromoteRetires(l) PROVE StoreInv'
  BY <1>10 DEF PromoteRetires, KeeperAt, KeeperGoes
<1>11. ASSUME NEW l \in BuildLeases, PromoteRenames(l) PROVE StoreInv'
  BY <1>11, ResultHasItsLease DEF PromoteRenames, KeeperAt, KeeperGoes
<1>12. ASSUME NEW l \in BuildLeases, PromoteTidies(l) PROVE StoreInv'
  BY <1>12 DEF PromoteTidies, KeeperAt, KeeperGoes, KeeperDone, BuilderStates
<1>13. ASSUME NEW l \in BuildLeases, Discarded(l) PROVE StoreInv'
  BY <1>13 DEF Discarded, BuilderStates
<1> QED
  BY <1>1, <1>2, <1>3, <1>4, <1>5, <1>6, <1>7, <1>8, <1>9, <1>10, <1>11, <1>12, <1>13
     DEF StoreStep

(* The launcher publishes nothing.                                             *)
LEMMA StoreStepLeavesFiles ==
  ASSUME StoreStep
  PROVE  UNCHANGED <<built, files, hand>>
BY DEF StoreStep, RestOfStore, OpenStore, LauncherDies, PrepareRemoves, PrepareStages,
       PrepareWritesRequest, PrepareSeals, BuildWrites, BuildEnds, PromoteChecks, PromoteRetires,
       PromoteRenames, PromoteTidies, Discarded

--------------------------------------------------------------------------------
(* Publications: what one of them does to the files of a bundle.               *)
PublicationInv ==
  /\ HandoffTypeOK
  /\ HandKnows
  /\ NamedAfterItsArchive

(* Reconciling completes a file or takes it away, and leaves a whole one.      *)
LEMMA ReconcileFile ==
  ASSUME NEW f \in FileStates
  PROVE  /\ ReconcileTemporary(f) \in {"absent", "whole"}
         /\ ReconcileTemporary(f) = "whole" <=> f \in {"linked", "whole"}
BY DEF ReconcileTemporary, FileStates

(* The next file operation moves an entry one state on.                        *)
LEMMA NextLinkFile ==
  ASSUME NEW f \in FileStates, f # "whole"
  PROVE  /\ NextLink(f) \in FileStates
         /\ NextLink(f) # "absent"
BY DEF NextLink, FileStates

(* Files that only become whole, or go while they are temporary, and names     *)
(* that are written after their archive keep every name backed by an archive.  *)
LEMMA NamesStayBacked ==
  ASSUME PublicationInv, files' \in [Kinds -> [BuildLeases -> FileStates]],
         built \subseteq built',
         \A k \in Kinds, l \in BuildLeases : files[k][l] = "whole" => files'[k][l] = "whole",
         \A l \in BuildLeases : files'["manifest"][l] \in {"linked", "whole"} =>
            files["manifest"][l] \in {"linked", "whole"} \/ files["archive"][l] = "whole",
         \A l \in BuildLeases : files'["bundle"][l] \in {"linked", "whole"} =>
            \/ files["bundle"][l] \in {"linked", "whole"}
            \/ files["private"][l] = "whole" /\ l \in built
  PROVE  NamedAfterItsArchive'
BY DEF PublicationInv, NamedAfterItsArchive, Kinds

(* The steps of the two publishing sides.                                      *)
PublicationStep ==
  \/ OpenResult \/ ArchiveDone \/ PrivateDone
  \/ \E l \in BuildLeases : PublishBegins(l) \/ RootLoads(l)
  \/ \E p \in Sides : WriteFile(p) \/ PublicationDone(p) \/ PublicationFails(p)

(* No step of a publishing side names what is not whole.                       *)
LEMMA PublicationStepInv ==
  ASSUME PublicationInv, PublicationStep
  PROVE  PublicationInv' /\ UNCHANGED storeVars
<1> USE DEF PublicationInv
<1>1. CASE OpenResult
  <2>1. built \subseteq built' /\ built' \subseteq BuildLeases /\ UNCHANGED <<storeVars, files, hand>>
    BY <1>1 DEF OpenResult, HandoffTypeOK
  <2>2. NamedAfterItsArchive'
    BY <2>1 DEF NamedAfterItsArchive
  <2> QED
    BY <2>1, <2>2 DEF storeVars, HandoffTypeOK, HandKnows
<1>2. CASE ArchiveDone
  <2>1. /\ hand["build"].at = "archive" /\ files["archive"][hand["build"].of] = "whole"
        /\ hand' = [hand EXCEPT !["build"] = [at |-> "manifest", of |-> hand["build"].of]]
        /\ UNCHANGED <<storeVars, built, files>>
    BY <1>2 DEF ArchiveDone, Published, HandGoes
  <2>2. NamedAfterItsArchive'
    BY <2>1 DEF NamedAfterItsArchive
  <2>3. HandoffTypeOK' /\ HandKnows'
    BY <2>1 DEF HandKnows, HandoffTypeOK, storeVars, Sides
  <2> QED
    BY <2>1, <2>2, <2>3
<1>3. CASE PrivateDone
  <2> DEFINE l == hand["root"].of
  <2>1. /\ hand["root"].at = "private" /\ files["private"][l] = "whole"
        /\ hand' = [hand EXCEPT !["root"] = [at |-> "bundle", of |-> l]]
        /\ files' = [files EXCEPT !["bundle"] = [m \in BuildLeases |-> ReconcileTemporary(files["bundle"][m])]]
        /\ UNCHANGED <<storeVars, built>>
    BY <1>3 DEF PrivateDone, Published, HandGoes, sweep_orphan_temporary_files
  <2>2. /\ \A k \in Kinds \ {"bundle"} : files'[k] = files[k]
        /\ \A m \in BuildLeases : files'["bundle"][m] = ReconcileTemporary(files["bundle"][m])
        /\ \A m \in BuildLeases : files["bundle"][m] \in FileStates
    BY <2>1 DEF HandoffTypeOK, Kinds
  <2>3. files' \in [Kinds -> [BuildLeases -> FileStates]]
    BY <2>1, <2>2, ReconcileFile DEF HandoffTypeOK, Kinds, FileStates
  <2>4. NamedAfterItsArchive'
    BY <2>1, <2>2, <2>3, ReconcileFile, NamesStayBacked DEF Kinds
  <2>5. HandoffTypeOK' /\ HandKnows'
    BY <2>1, <2>2, <2>3 DEF HandKnows, HandoffTypeOK, storeVars, Sides, Kinds
  <2> QED
    BY <2>1, <2>4, <2>5
<1>4. ASSUME NEW l \in BuildLeases, PublishBegins(l) PROVE PublicationInv' /\ UNCHANGED storeVars
  <2>1. /\ hand["build"].at = "idle" /\ l \in built
        /\ hand' = [hand EXCEPT !["build"] = [at |-> "archive", of |-> l]]
        /\ files' = [k \in Kinds |-> IF k \in {"archive", "manifest"}
                                     THEN [files[k] EXCEPT ![l] = ReconcileTemporary(@)] ELSE files[k]]
        /\ UNCHANGED <<storeVars, built>>
    BY <1>4 DEF PublishBegins, HandGoes, SideKinds
  <2>2. \A k \in Kinds, m \in BuildLeases :
          /\ files[k][m] \in FileStates
          /\ files'[k][m] = IF k \in {"archive", "manifest"} /\ m = l
                            THEN ReconcileTemporary(files[k][m]) ELSE files[k][m]
    BY <2>1 DEF HandoffTypeOK
  <2>3. files' \in [Kinds -> [BuildLeases -> FileStates]]
    BY SMTT(60), <2>1, <2>2, ReconcileFile DEF HandoffTypeOK, FileStates
  <2>4. NamedAfterItsArchive'
    BY <2>1, <2>2, <2>3, ReconcileFile, NamesStayBacked DEF Kinds
  <2>5. HandoffTypeOK'
    BY <2>1, <2>3 DEF HandoffTypeOK, storeVars, Sides
  <2>6. HandKnows'
    BY <2>1, <2>2 DEF HandKnows, HandoffTypeOK, Sides, Kinds
  <2> QED
    BY <2>1, <2>4, <2>5, <2>6
<1>5. ASSUME NEW l \in BuildLeases, RootLoads(l) PROVE PublicationInv' /\ UNCHANGED storeVars
  <2>1. /\ hand["root"].at = "idle" /\ files["manifest"][l] = "whole"
        /\ hand' = [hand EXCEPT !["root"] = [at |-> "private", of |-> l]]
        /\ files' = [files EXCEPT !["private"] = [m \in BuildLeases |-> ReconcileTemporary(files["private"][m])]]
        /\ UNCHANGED <<storeVars, built>>
    BY <1>5 DEF RootLoads, BindsArchive, Published, HandGoes, reconcile_private_temporaries
  <2>2. /\ \A k \in Kinds \ {"private"} : files'[k] = files[k]
        /\ \A m \in BuildLeases : files'["private"][m] = ReconcileTemporary(files["private"][m])
        /\ \A m \in BuildLeases : files["private"][m] \in FileStates
    BY <2>1 DEF HandoffTypeOK, Kinds
  <2>3. files' \in [Kinds -> [BuildLeases -> FileStates]]
    BY <2>1, <2>2, ReconcileFile DEF HandoffTypeOK, Kinds, FileStates
  <2>4. NamedAfterItsArchive'
    BY <2>1, <2>2, <2>3, ReconcileFile, NamesStayBacked DEF Kinds
  <2>5. l \in built
    BY <2>1 DEF HandKnows
  <2>6. HandoffTypeOK' /\ HandKnows'
    BY <2>1, <2>2, <2>3, <2>5 DEF HandKnows, HandoffTypeOK, storeVars, Sides, Kinds
  <2> QED
    BY <2>1, <2>4, <2>6
<1>6. ASSUME NEW p \in Sides, WriteFile(p) PROVE PublicationInv' /\ UNCHANGED storeVars
  <2> DEFINE k == hand[p].at
             l == hand[p].of
  <2>1. /\ k \in Kinds /\ files[k][l] # "whole"
        /\ files' = [files EXCEPT ![k][l] = NextLink(@)]
        /\ UNCHANGED <<storeVars, built, hand>>
    BY <1>6 DEF WriteFile, Published
  <2>2. l \in built /\ l \in BuildLeases
    BY <2>1 DEF HandKnows, HandoffTypeOK, Kinds
  <2>3. /\ k = "manifest" => files["archive"][l] = "whole"
        /\ k = "bundle" => files["private"][l] = "whole"
    BY <2>1 DEF HandKnows, Kinds, Sides
  <2> HIDE DEF k, l
  <2>4. \A j \in Kinds, m \in BuildLeases :
          /\ files[j][m] \in FileStates
          /\ files'[j][m] = IF j = k /\ m = l THEN NextLink(files[j][m]) ELSE files[j][m]
    BY <2>1, <2>2 DEF HandoffTypeOK
  <2>5. files' \in [Kinds -> [BuildLeases -> FileStates]]
    BY <2>1, <2>2, <2>4, NextLinkFile DEF HandoffTypeOK
  <2>6. NamedAfterItsArchive'
    BY <2>1, <2>2, <2>3, <2>4, <2>5, NamesStayBacked DEF Kinds
  <2>7. HandoffTypeOK'
    BY <2>1, <2>5 DEF HandoffTypeOK, storeVars
  <2>8. HandKnows'
    BY <2>1, <2>2, <2>4 DEF HandKnows, HandoffTypeOK, Kinds, Sides
  <2> QED
    BY <2>1, <2>6, <2>7, <2>8
<1>7. ASSUME NEW p \in Sides, PublicationDone(p) PROVE PublicationInv' /\ UNCHANGED storeVars
  <2>1. hand' = [hand EXCEPT ![p] = [at |-> "idle", of |-> NoBuild]] /\ UNCHANGED <<storeVars, built, files>>
    BY <1>7 DEF PublicationDone, HandGoes
  <2>2. NamedAfterItsArchive'
    BY <2>1 DEF NamedAfterItsArchive
  <2>3. HandoffTypeOK' /\ HandKnows'
    BY <2>1 DEF HandKnows, HandoffTypeOK, storeVars, Sides
  <2> QED
    BY <2>1, <2>2, <2>3
<1>8. ASSUME NEW p \in Sides, PublicationFails(p) PROVE PublicationInv' /\ UNCHANGED storeVars
  <2> DEFINE k == hand[p].at
             l == hand[p].of
  <2>1. /\ k \in Kinds
        /\ hand' = [hand EXCEPT ![p] = [at |-> "idle", of |-> NoBuild]]
        /\ files' = [files EXCEPT ![k][l] = ReconcileTemporary(@)] \/ UNCHANGED files
        /\ UNCHANGED <<storeVars, built>>
    BY <1>8 DEF PublicationFails, HandGoes
  <2>2. l \in BuildLeases
    BY <2>1 DEF HandKnows, HandoffTypeOK, Kinds
  <2> HIDE DEF k, l
  <2>3. \A j \in Kinds, m \in BuildLeases :
          /\ files[j][m] \in FileStates
          /\ files'[j][m] \in {files[j][m], ReconcileTemporary(files[j][m])}
    BY <2>1, <2>2 DEF HandoffTypeOK
  <2>4. files' \in [Kinds -> [BuildLeases -> FileStates]]
    <3>1. CASE UNCHANGED files
      BY <3>1 DEF HandoffTypeOK
    <3>2. CASE files' = [files EXCEPT ![k][l] = ReconcileTemporary(@)]
      <4>1. files \in [Kinds -> [BuildLeases -> FileStates]]
        BY DEF HandoffTypeOK
      <4>2. PICK v : v = ReconcileTemporary(files[k][l])
        OBVIOUS
      <4>3. v \in FileStates
        <5>1. files[k][l] \in FileStates
          BY <2>1, <2>2, <2>3
        <5> QED
          BY <4>2, <5>1, ReconcileFile DEF FileStates
      <4>4. files' = [files EXCEPT ![k] = [files[k] EXCEPT ![l] = v]]
        BY <3>2, <4>2
      <4>5. [files[k] EXCEPT ![l] = v] \in [BuildLeases -> FileStates]
        BY <2>1, <4>1, <4>3
      <4> QED
        BY <2>1, <4>1, <4>4, <4>5
    <3> QED
      BY <2>1, <3>1, <3>2
  <2>5. NamedAfterItsArchive'
    BY <2>1, <2>3, <2>4, ReconcileFile, NamesStayBacked DEF Kinds
  <2>6. HandoffTypeOK'
    BY <2>1, <2>4 DEF HandoffTypeOK, storeVars, Sides
  <2>7. HandKnows'
    BY <2>1, <2>3, ReconcileFile DEF HandKnows, HandoffTypeOK, Kinds, Sides
  <2> QED
    BY <2>1, <2>5, <2>6, <2>7
<1> QED
  BY <1>1, <1>2, <1>3, <1>4, <1>5, <1>6, <1>7, <1>8 DEF PublicationStep

(* Every step keeps the invariant.                                             *)
LEMMA HandoffStepInv == HandoffInv /\ [HandoffNext]_handoffVars => HandoffInv'
<1> SUFFICES ASSUME HandoffInv, [HandoffNext]_handoffVars
             PROVE  HandoffInv'
  OBVIOUS
<1>1. CASE UNCHANGED handoffVars
  BY <1>1 DEF handoffVars, storeVars, HandoffInv, StoreInv, HandoffTypeOK, KeeperKnows,
              ResultIsWhole, HandKnows, NamedAfterItsArchive
<1>2. CASE StoreStep
  <2>1. StoreInv' /\ UNCHANGED <<built, files, hand>>
    BY <1>2, StoreStepInv, StoreStepLeavesFiles DEF HandoffInv
  <2> QED
    BY <2>1 DEF HandoffInv, HandKnows, NamedAfterItsArchive
<1>3. CASE PublicationStep
  <2>1. PublicationInv' /\ UNCHANGED storeVars
    BY <1>3, PublicationStepInv DEF HandoffInv, StoreInv, PublicationInv
  <2>2. KeeperKnows' /\ ResultIsWhole'
    BY <2>1 DEF storeVars, HandoffInv, StoreInv, KeeperKnows, ResultIsWhole
  <2> QED
    BY <2>1, <2>2 DEF HandoffInv, StoreInv, PublicationInv
<1>4. HandoffNext => StoreStep \/ PublicationStep
  BY DEF HandoffNext, StoreStep, PublicationStep
<1> QED
  BY <1>1, <1>2, <1>3, <1>4

(* For any number of builds and faults a project's result is the whole output  *)
(* of one build that is over: promote_output validates before it renames, and  *)
(* no crash between retiring, renaming and reopening lets a half through.      *)
THEOREM ResultsAreWhole == HandoffSpec => []ResultIsWhole
<1>1. HandoffInv => ResultIsWhole
  BY DEF HandoffInv, StoreInv
<1> QED
  BY <1>1, HandoffInitInv, HandoffStepInv, PTL DEF HandoffSpec

(* For any number of builds and faults a manifest or a release bundle is there *)
(* only after the archive it stands for: each side writes its name last and    *)
(* reconciles leftovers without touching what is whole.                        *)
THEOREM NamesFollowArchives == HandoffSpec => []NamedAfterItsArchive
<1>1. HandoffInv => NamedAfterItsArchive
  BY DEF HandoffInv
<1> QED
  BY <1>1, HandoffInitInv, HandoffStepInv, PTL DEF HandoffSpec

--------------------------------------------------------------------------------
(* The source repositories                                                     *)

FetchSteps == {"idle", "recover", "initialize", "fetch", "promote", "publish", "release", "clean"}
MaybeCommits == AllCommits \cup {NoObject}
TornStates == {"no", "names", "lost", "bytes"}

RepoTypeOK ==
  /\ fetchedRef \in [SourceProjects -> MaybeCommits]
  /\ acceptedRef \in [SourceProjects -> MaybeCommits]
  /\ returned \in [SourceProjects -> MaybeCommits]
  /\ remoteHead \in [SourceProjects -> AllCommits]
  /\ objects \in [SourceProjects -> SUBSET AllCommits]
  /\ keeper \in [SourceProjects ->
       [of : MaybeCommits, pack : SUBSET AllCommits, whole : BOOLEAN]]
  /\ staging \in [SourceProjects ->
       [made : BOOLEAN, marked : BOOLEAN, head : MaybeCommits,
        pack : SUBSET AllCommits, torn : TornStates]]
  /\ fetcher \in [of : SourceProjects \cup {NoSourceProject},
                  on : SourceProjects \cup {NoSourceProject}, at : FetchSteps,
                  own : BOOLEAN, background : BOOLEAN, overtaken : BOOLEAN]
  /\ waiting \subseteq SourceProjects /\ urgent \subseteq SourceProjects
  /\ repoFaults \in Nat

(* Every object is there with its parents, and the refs are among them.        *)
ObjectsClosed(p) == ClosedUnderParents(objects[p]) /\ Reachable(p) \subseteq objects[p]

(* What is staged for p: a pack has its head in it and, with what the refs     *)
(* reach, its whole history; without a marker it is not promoted yet.          *)
StagedPack(p) ==
  LET s == staging[p] IN
  /\ ~ s.made => s = NoStaging
  /\ s.head # NoObject => s.made /\ s.marked
  /\ s.head = NoObject => s.pack = {}
  /\ s.torn # "no" => s.pack # {}
  /\ s.made => returned[p] = NoObject
  /\ s.pack # {} =>
       /\ s.head \in s.pack /\ s.pack \subseteq History[s.head]
       /\ History[s.head] \subseteq s.pack \cup Reachable(p)
       /\ keeper[p] = NoKeep /\ fetchedRef[p] # s.head => s.head \notin objects[p]

(* A keep marker is of the pack that is staged, and a whole one holds it.      *)
MarkerOfStaging(p) ==
  keeper[p] # NoKeep =>
    /\ staging[p].head # NoObject /\ keeper[p].of = staging[p].head
    /\ keeper[p].pack = staging[p].pack /\ staging[p].pack # {}
    /\ keeper[p].whole => keeper[p].pack \subseteq objects[p]

(* What the fetch that holds the lock knows.                                   *)
FetcherKnows ==
  /\ fetcher.at # "idle" => fetcher.of \in SourceProjects /\ returned[fetcher.of] = NoObject
  /\ fetcher.at \in {"promote", "publish", "release", "clean"} => fetcher.on \in SourceProjects
  /\ fetcher.at \in {"promote", "publish", "release"} =>
       staging[fetcher.on].head # NoObject
  /\ fetcher.own => /\ fetcher.on = fetcher.of
                    /\ fetcher.at \in {"promote", "publish", "release", "clean"}
  /\ fetcher.at \in {"initialize", "fetch"} =>
       keeper[fetcher.of] = NoKeep /\ staging[fetcher.of].head = NoObject
  /\ fetcher.at = "fetch" => staging[fetcher.of].made /\ staging[fetcher.of].marked
  /\ fetcher.at \in {"promote", "clean"} => keeper[fetcher.on] = NoKeep
  /\ fetcher.at = "release" => fetchedRef[fetcher.on] = staging[fetcher.on].head

ProjectSound(p) == ObjectsClosed(p) /\ StagedPack(p) /\ MarkerOfStaging(p)

RepoInv ==
  /\ RepoTypeOK
  /\ \A p \in SourceProjects : ProjectSound(p)
  /\ FetcherKnows

(* A project's commits are commits, and the absent object is none.             *)
LEMMA RepoConstants ==
  /\ \A p \in SourceProjects : CommitsOf[p] \subseteq AllCommits
  /\ \A c \in AllCommits : ParentsOf[c] \subseteq AllCommits
  /\ NoObject \notin AllCommits /\ NoSourceProject \notin SourceProjects
BY RepositoryAssumption DEF AllCommits

(* A history has its commit and every parent, and is the least such set.       *)
LEMMA HistoryClosed ==
  ASSUME NEW c \in AllCommits
  PROVE  /\ c \in History[c] /\ History[c] \subseteq AllCommits
         /\ ClosedUnderParents(History[c])
         /\ \A S \in SUBSET AllCommits : c \in S /\ ClosedUnderParents(S) => History[c] \subseteq S
<1>1. History[c] = {d \in AllCommits : \A S \in SUBSET AllCommits :
                                         c \in S /\ ClosedUnderParents(S) => d \in S}
  BY RepoConstants DEF History
<1>2. ASSUME NEW d \in History[c], NEW x \in ParentsOf[d] PROVE x \in History[c]
  <2>1. d \in AllCommits /\ x \in AllCommits
    BY <1>1, <1>2, RepoConstants
  <2>2. ASSUME NEW S \in SUBSET AllCommits, c \in S, ClosedUnderParents(S) PROVE x \in S
    <3>1. d \in S
      BY <1>1, <1>2, <2>2
    <3> QED BY <1>2, <2>2, <3>1 DEF ClosedUnderParents
  <2> QED BY <1>1, <2>1, <2>2
<1>3. ClosedUnderParents(History[c])
  BY <1>2 DEF ClosedUnderParents
<1> QED BY <1>1, <1>3

(* Nothing is reached from a ref that is not there.                            *)
LEMMA HistoryOfNothing == History[NoObject] = {}
BY DEF History

(* The same for what may be a commit.                                          *)
LEMMA HistoryOfMaybe ==
  ASSUME NEW c \in MaybeCommits
  PROVE  /\ History[c] \subseteq AllCommits
         /\ ClosedUnderParents(History[c])
         /\ \A S \in SUBSET AllCommits : c \in S /\ ClosedUnderParents(S) => History[c] \subseteq S
<1>1. CASE c = NoObject
  BY <1>1, HistoryOfNothing DEF ClosedUnderParents
<1>2. CASE c \in AllCommits
  BY <1>2, HistoryClosed
<1> QED BY <1>1, <1>2 DEF MaybeCommits

(* What the refs of a project reach is closed.                                 *)
LEMMA ReachableClosed ==
  ASSUME NEW p \in SourceProjects, RepoTypeOK
  PROVE  ClosedUnderParents(Reachable(p)) /\ Reachable(p) \subseteq AllCommits
<1>1. fetchedRef[p] \in MaybeCommits /\ acceptedRef[p] \in MaybeCommits
  BY DEF RepoTypeOK
<1> QED BY <1>1, HistoryOfMaybe DEF Reachable, ClosedUnderParents

(* A project none of whose rows change stays sound.                            *)
LEMMA ProjectFrame ==
  ASSUME NEW p \in SourceProjects, ProjectSound(p),
         fetchedRef'[p] = fetchedRef[p], acceptedRef'[p] = acceptedRef[p],
         objects'[p] = objects[p], keeper'[p] = keeper[p], staging'[p] = staging[p],
         returned'[p] \in {returned[p], NoObject}
  PROVE  ProjectSound(p)'
<1>1. ObjectsClosed(p)'
  BY DEF ProjectSound, ObjectsClosed, Reachable
<1>2. StagedPack(p)'
  BY DEF ProjectSound, StagedPack, Reachable
<1>3. MarkerOfStaging(p)'
  BY DEF ProjectSound, MarkerOfStaging
<1> QED BY <1>1, <1>2, <1>3 DEF ProjectSound

(* A new head of the remote is nobody's business yet.                          *)
LEMMA PushRemoteKeeps ==
  ASSUME RepoInv, NEW p \in SourceProjects, PushRemote(p)
  PROVE  RepoInv'
<1> USE DEF PushRemote, canonical, signals
<1>1. PICK c \in CommitsOf[p] : remoteHead' = [remoteHead EXCEPT ![p] = c]
  OBVIOUS
<1>2. RepoTypeOK'
  BY <1>1, RepoConstants DEF RepoInv, RepoTypeOK
<1>3. \A q \in SourceProjects : ProjectSound(q)'
  BY ProjectFrame DEF RepoInv
<1>4. FetcherKnows'
  BY DEF RepoInv, FetcherKnows
<1> QED BY <1>2, <1>3, <1>4 DEF RepoInv

(* A repack keeps what the refs reach and what a whole marker holds, and so a  *)
(* closed set of objects.                                                      *)
LEMMA RepackKeeps ==
  ASSUME RepoInv, NEW p \in SourceProjects, Repack(p)
  PROVE  RepoInv'
<1> DEFINE held == Reachable(p) \cup (IF keeper[p].whole THEN keeper[p].pack ELSE {})
<1>1. /\ objects' = [objects EXCEPT ![p] = @ \cap held]
      /\ UNCHANGED <<remoteHead, fetchedRef, acceptedRef, keeper, staging, fetcher, signals,
                     returned, repoFaults>>
  BY DEF Repack
<1>2. RepoTypeOK'
  <2>1. objects' \in [SourceProjects -> SUBSET AllCommits]
    BY <1>1 DEF RepoInv, RepoTypeOK
  <2> QED BY <1>1, <2>1 DEF RepoInv, RepoTypeOK, signals
<1>3. objects'[p] = objects[p] \cap held
  BY <1>1 DEF RepoInv, RepoTypeOK
<1>4. ProjectSound(p)
  BY DEF RepoInv
<1>5. Reachable(p)' = Reachable(p)
  BY <1>1 DEF Reachable
<1>6. ClosedUnderParents(objects[p] \cap held)
  <2> SUFFICES ASSUME NEW c \in objects[p] \cap held, NEW x \in ParentsOf[c]
               PROVE  x \in objects[p] \cap held
    BY DEF ClosedUnderParents
  <2>1. x \in objects[p]
    BY <1>4 DEF ProjectSound, ObjectsClosed, ClosedUnderParents
  <2>2. CASE c \in Reachable(p)
    BY <2>1, <2>2, ReachableClosed DEF RepoInv, ClosedUnderParents
  <2>3. CASE keeper[p].whole /\ c \in keeper[p].pack
    <3>1. keeper[p] # NoKeep
      BY <2>3 DEF NoKeep
    <3>2. c \in staging[p].pack /\ keeper[p].pack = staging[p].pack
          /\ staging[p].head \in AllCommits
      BY <2>3, <3>1, <1>4
         DEF ProjectSound, MarkerOfStaging, RepoInv, RepoTypeOK, MaybeCommits
    <3>3. c \in History[staging[p].head]
          /\ History[staging[p].head] \subseteq staging[p].pack \cup Reachable(p)
      BY <1>4, <3>2 DEF ProjectSound, StagedPack
    <3>4. x \in History[staging[p].head]
      BY <3>2, <3>3, HistoryClosed DEF ClosedUnderParents
    <3> QED BY <2>1, <2>3, <3>2, <3>3, <3>4
  <2> QED BY <2>2, <2>3
<1>7. ObjectsClosed(p)'
  BY <1>3, <1>4, <1>5, <1>6 DEF ObjectsClosed, ProjectSound, ClosedUnderParents
<1>8. StagedPack(p)'
  BY <1>1, <1>3, <1>4, <1>5 DEF ProjectSound, StagedPack, signals
<1>9. MarkerOfStaging(p)'
  BY <1>1, <1>3, <1>4 DEF ProjectSound, MarkerOfStaging
<1>10. \A q \in SourceProjects : ProjectSound(q)'
  <2> SUFFICES ASSUME NEW q \in SourceProjects PROVE ProjectSound(q)'
    OBVIOUS
  <2>1. CASE q = p
    BY <1>7, <1>8, <1>9, <2>1 DEF ProjectSound
  <2>2. CASE q # p
    <3>1. objects'[q] = objects[q]
      BY <1>1, <2>2 DEF RepoInv, RepoTypeOK
    <3> QED BY <1>1, <3>1, ProjectFrame DEF RepoInv
  <2> QED BY <2>1, <2>2
<1>11. FetcherKnows'
  BY <1>1 DEF RepoInv, FetcherKnows
<1> QED BY <1>2, <1>10, <1>11 DEF RepoInv

(* A webhook, or a fetch that waits for the lock, only marks the fetch.        *)
LEMMA SignalsKeep ==
  ASSUME RepoInv, NEW p \in SourceProjects,
         notify_priority_fetch(p) \/ clear_priority_fetch(p) \/ fetch_remote_main(p)
  PROVE  RepoInv'
<1>1. /\ waiting' \subseteq SourceProjects /\ urgent' \subseteq SourceProjects
      /\ UNCHANGED <<remoteHead, canonical, staging, returned, repoFaults>>
  BY DEF RepoInv, RepoTypeOK, notify_priority_fetch, clear_priority_fetch, fetch_remote_main
<1>2. fetcher' = fetcher \/ fetcher' = [fetcher EXCEPT !.overtaken = @ \/ fetcher.background]
  BY DEF notify_priority_fetch, clear_priority_fetch, fetch_remote_main
<1>3. /\ fetcher' \in [of : SourceProjects \cup {NoSourceProject},
                       on : SourceProjects \cup {NoSourceProject}, at : FetchSteps,
                       own : BOOLEAN, background : BOOLEAN, overtaken : BOOLEAN]
      /\ fetcher'.of = fetcher.of /\ fetcher'.on = fetcher.on /\ fetcher'.at = fetcher.at
      /\ fetcher'.own = fetcher.own
  BY <1>2 DEF RepoInv, RepoTypeOK
<1>5. RepoTypeOK'
  BY <1>1, <1>3 DEF RepoInv, RepoTypeOK, canonical
<1>6. \A q \in SourceProjects : ProjectSound(q)'
  BY <1>1, ProjectFrame DEF RepoInv, canonical
<1>7. FetcherKnows'
  BY <1>1, <1>3 DEF RepoInv, FetcherKnows, canonical
<1> QED BY <1>5, <1>6, <1>7 DEF RepoInv

(* A fetch that takes the lock begins with what earlier ones left.             *)
LEMMA StartFetchKeeps ==
  ASSUME RepoInv, NEW p \in SourceProjects, NEW background \in BOOLEAN,
         StartFetch(p, background), waiting' \subseteq SourceProjects, urgent' = urgent,
         UNCHANGED <<remoteHead, canonical, staging, repoFaults>>
  PROVE  RepoInv'
<1>1. /\ fetcher' = [of |-> p, on |-> NoSourceProject, at |-> "recover",
                     own |-> FALSE, background |-> background, overtaken |-> FALSE]
      /\ returned' = [returned EXCEPT ![p] = NoObject]
  BY DEF StartFetch
<1>2. /\ returned' \in [SourceProjects -> MaybeCommits] /\ returned'[p] = NoObject
      /\ \A q \in SourceProjects : returned'[q] \in {returned[q], NoObject}
  BY <1>1 DEF RepoInv, RepoTypeOK, MaybeCommits
<1>3. RepoTypeOK'
  BY <1>1, <1>2 DEF RepoInv, RepoTypeOK, canonical, FetchSteps
<1>4. \A q \in SourceProjects : ProjectSound(q)'
  BY <1>2, ProjectFrame DEF RepoInv, canonical
<1>5. FetcherKnows'
  BY <1>1, <1>2 DEF RepoInv, FetcherKnows
<1> QED BY <1>3, <1>4, <1>5 DEF RepoInv

(* The lock is taken by a foreground or by a background fetch.                 *)
LEMMA TakeLockKeeps ==
  ASSUME RepoInv, NEW p \in SourceProjects,
         TakeFetchLock(p) \/ fetch_remote_main_reconciliation(p)
  PROVE  RepoInv'
<1>1. CASE TakeFetchLock(p)
  BY <1>1, StartFetchKeeps DEF TakeFetchLock, RepoInv, RepoTypeOK
<1>2. CASE fetch_remote_main_reconciliation(p)
  BY <1>2, StartFetchKeeps DEF fetch_remote_main_reconciliation, RepoInv, RepoTypeOK, signals
<1> QED BY <1>1, <1>2

(* Giving the locks back leaves nothing to know.                               *)
LEMMA StoppedKnows ==
  ASSUME Stop
  PROVE  /\ FetcherKnows'
         /\ fetcher' \in [of : SourceProjects \cup {NoSourceProject},
                          on : SourceProjects \cup {NoSourceProject}, at : FetchSteps,
                          own : BOOLEAN, background : BOOLEAN, overtaken : BOOLEAN]
BY DEF Stop, NoFetch, FetcherKnows, FetchSteps

(* A step of the fetch changes where it is.                                    *)
LEMMA GoShape ==
  ASSUME RepoTypeOK, NEW step \in FetchSteps, NEW q \in SourceProjects \cup {NoSourceProject},
         fetcher' = [fetcher EXCEPT !.on = q, !.at = step]
  PROVE  /\ fetcher' \in [of : SourceProjects \cup {NoSourceProject},
                          on : SourceProjects \cup {NoSourceProject}, at : FetchSteps,
                          own : BOOLEAN, background : BOOLEAN, overtaken : BOOLEAN]
         /\ fetcher'.of = fetcher.of /\ fetcher'.on = q /\ fetcher'.at = step
         /\ fetcher'.own = fetcher.own
BY DEF RepoTypeOK

(* The same without a change of project.                                       *)
LEMMA GoAlong ==
  ASSUME RepoTypeOK, NEW step \in FetchSteps, Go(step)
  PROVE  /\ fetcher' \in [of : SourceProjects \cup {NoSourceProject},
                          on : SourceProjects \cup {NoSourceProject}, at : FetchSteps,
                          own : BOOLEAN, background : BOOLEAN, overtaken : BOOLEAN]
         /\ fetcher'.of = fetcher.of /\ fetcher'.on = fetcher.on /\ fetcher'.at = step
         /\ fetcher'.own = fetcher.own
BY DEF RepoTypeOK, Go

(* What reconciliation decides about staging fits what it finds.               *)
LEMMA InterruptedFits ==
  ASSUME RepoInv, NEW p \in SourceProjects
  PROVE  /\ InterruptedFetch(p) \in {"error", "clean", "publish", "promote"}
         /\ InterruptedFetch(p) \in {"promote", "publish"} => staging[p].head # NoObject
         /\ InterruptedFetch(p) \in {"promote", "clean"} => keeper[p] = NoKeep
<1>0. MarkerOfStaging(p) /\ StagedPack(p)
  BY DEF RepoInv, ProjectSound
<1>1. CASE ~ staging[p].marked \/ staging[p].head = NoObject
  BY <1>0, <1>1 DEF InterruptedFetch, staging_initialization_complete, MarkerOfStaging, StagedPack
<1>2. CASE /\ staging[p].marked /\ staging[p].head # NoObject
           /\ ~ validate_promoted_pack_guard(p)
  BY <1>2 DEF InterruptedFetch, staging_initialization_complete
<1>3. CASE /\ staging[p].marked /\ staging[p].head # NoObject
           /\ validate_promoted_pack_guard(p) /\ find_promoted_pack_guard(p, staging[p].head)
  BY <1>3 DEF InterruptedFetch, staging_initialization_complete
<1>4. CASE /\ staging[p].marked /\ staging[p].head # NoObject
           /\ validate_promoted_pack_guard(p) /\ ~ find_promoted_pack_guard(p, staging[p].head)
  <2>1. keeper[p] = NoKeep
    BY <1>0, <1>4 DEF MarkerOfStaging, find_promoted_pack_guard
  <2>2. CASE fetchedRef[p] = staging[p].head
    BY <1>4, <2>1, <2>2 DEF InterruptedFetch, staging_initialization_complete
  <2>3. CASE fetchedRef[p] # staging[p].head /\ staged_pack(p) = "bad"
    BY <1>4, <2>1, <2>3 DEF InterruptedFetch, staging_initialization_complete
  <2>4. CASE fetchedRef[p] # staging[p].head /\ staged_pack(p) = "none"
    BY <1>4, <2>1, <2>4 DEF InterruptedFetch, staging_initialization_complete
  <2>5. CASE /\ fetchedRef[p] # staging[p].head
             /\ staged_pack(p) # "bad" /\ staged_pack(p) # "none"
    BY <1>4, <2>1, <2>5 DEF InterruptedFetch, staging_initialization_complete
  <2> QED BY <2>2, <2>3, <2>4, <2>5
<1> QED BY <1>1, <1>2, <1>3, <1>4

(* Reconciliation turns to a staging repository, or stops.                     *)
LEMMA ReconcileStagingKeeps ==
  ASSUME RepoInv, NEW p \in SourceProjects, reconcile_stale_staging_directories(p)
  PROVE  RepoInv'
<1> USE DEF reconcile_stale_staging_directories, canonical, signals
<1>1. \A q \in SourceProjects : ProjectSound(q)'
  BY ProjectFrame DEF RepoInv
<1>2. CASE Stop
  <2>1. RepoTypeOK'
    BY <1>2, StoppedKnows DEF RepoInv, RepoTypeOK
  <2> QED BY <1>1, <1>2, <2>1, StoppedKnows DEF RepoInv
<1>3. CASE /\ InterruptedFetch(p) # "error"
           /\ fetcher' = [fetcher EXCEPT !.on = p, !.at = InterruptedFetch(p)]
  <2>1. InterruptedFetch(p) \in {"clean", "publish", "promote"}
    BY <1>3, InterruptedFits
  <2>2. InterruptedFetch(p) \in FetchSteps /\ RepoTypeOK
    BY <2>1 DEF FetchSteps, RepoInv
  <2>3. /\ fetcher' \in [of : SourceProjects \cup {NoSourceProject},
                         on : SourceProjects \cup {NoSourceProject}, at : FetchSteps,
                         own : BOOLEAN, background : BOOLEAN, overtaken : BOOLEAN]
        /\ fetcher'.of = fetcher.of /\ fetcher'.on = p /\ fetcher'.at = InterruptedFetch(p)
        /\ fetcher'.own = fetcher.own
    BY Zenon, <1>3, <2>2, GoShape
  <2>4. RepoTypeOK'
    BY <2>3 DEF RepoInv, RepoTypeOK
  <2>5. FetcherKnows'
    BY <2>1, <2>3, InterruptedFits DEF RepoInv, FetcherKnows, FetcherAt
  <2> QED BY <1>1, <2>4, <2>5 DEF RepoInv
<1> QED BY <1>2, <1>3

(* A project whose keep marker is gone, or was never there, with no pack       *)
(* staged.                                                                     *)
LEMMA OrphansKeep ==
  ASSUME RepoInv, reconcile_orphaned_promoted_pack_guards
  PROVE  RepoInv'
<1> USE DEF reconcile_orphaned_promoted_pack_guards, signals
<1>0. fetcher.of \in SourceProjects /\ fetcher.at = "recover" /\ ~ fetcher.own
      /\ staging[fetcher.of] = NoStaging
  BY DEF RepoInv, FetcherKnows, FetcherAt, ProjectSound, StagedPack
<1>1. CASE Stop /\ UNCHANGED keeper
  <2>1. RepoTypeOK'
    BY <1>1, StoppedKnows DEF RepoInv, RepoTypeOK
  <2>2. \A q \in SourceProjects : ProjectSound(q)'
    BY <1>1, ProjectFrame DEF RepoInv
  <2> QED BY <1>1, <2>1, <2>2, StoppedKnows DEF RepoInv
<1>2. CASE keeper' = [keeper EXCEPT ![fetcher.of] = NoKeep] /\ Go("initialize")
  <2>1. keeper[fetcher.of] = NoKeep
    BY <1>0 DEF RepoInv, ProjectSound, MarkerOfStaging, NoStaging
  <2>2. keeper' = keeper
    BY <1>2, <2>1 DEF RepoInv, RepoTypeOK
  <2>3. "initialize" \in FetchSteps /\ RepoTypeOK
    BY DEF FetchSteps, RepoInv
  <2>4. /\ fetcher' \in [of : SourceProjects \cup {NoSourceProject},
                         on : SourceProjects \cup {NoSourceProject}, at : FetchSteps,
                         own : BOOLEAN, background : BOOLEAN, overtaken : BOOLEAN]
        /\ fetcher'.of = fetcher.of /\ fetcher'.on = fetcher.on /\ fetcher'.at = "initialize"
        /\ fetcher'.own = fetcher.own
    BY <1>2, <2>3, GoAlong
  <2>5. RepoTypeOK'
    BY <2>2, <2>4 DEF RepoInv, RepoTypeOK
  <2>6. \A q \in SourceProjects : ProjectSound(q)'
    BY <2>2, ProjectFrame DEF RepoInv
  <2>7. FetcherKnows'
    BY <1>0, <2>1, <2>2, <2>4 DEF RepoInv, FetcherKnows, NoStaging
  <2> QED BY <2>5, <2>6, <2>7 DEF RepoInv
<1> QED BY <1>1, <1>2

(* One staging repository changes, and nothing else of its project.            *)
LEMMA StagingFrame ==
  ASSUME RepoInv, NEW p \in SourceProjects, NEW s,
         s \in [made : BOOLEAN, marked : BOOLEAN, head : MaybeCommits,
                pack : SUBSET AllCommits, torn : TornStates],
         staging' = [staging EXCEPT ![p] = s],
         UNCHANGED <<fetchedRef, acceptedRef, objects, keeper>>,
         \A q \in SourceProjects \ {p} : returned'[q] \in {returned[q], NoObject},
         StagedPack(p)', MarkerOfStaging(p)'
  PROVE  /\ staging' \in [SourceProjects ->
              [made : BOOLEAN, marked : BOOLEAN, head : MaybeCommits,
               pack : SUBSET AllCommits, torn : TornStates]]
         /\ staging'[p] = s
         /\ \A q \in SourceProjects : ProjectSound(q)'
<1>1. /\ staging' \in [SourceProjects ->
           [made : BOOLEAN, marked : BOOLEAN, head : MaybeCommits,
            pack : SUBSET AllCommits, torn : TornStates]]
      /\ staging'[p] = s /\ \A q \in SourceProjects \ {p} : staging'[q] = staging[q]
  BY DEF RepoInv, RepoTypeOK
<1>2. ASSUME NEW q \in SourceProjects PROVE ProjectSound(q)'
  <2>1. CASE q = p
    <3>1. ObjectsClosed(p)'
      BY DEF RepoInv, ProjectSound, ObjectsClosed, Reachable
    <3> QED BY <2>1, <3>1 DEF ProjectSound
  <2>2. CASE q # p
    BY <1>1, <2>2, ProjectFrame DEF RepoInv
  <2> QED BY <2>1, <2>2
<1> QED BY <1>1, <1>2

(* The staging repository is made before it is marked, and holds nothing yet.  *)
LEMMA InitializeStagingKeeps ==
  ASSUME RepoInv, initialize_staging_repository
  PROVE  RepoInv'
<1>a. PICK p : p = fetcher.of
  OBVIOUS
<1>0. /\ p \in SourceProjects /\ fetcher.at = "initialize" /\ ~ fetcher.own
      /\ keeper[p] = NoKeep /\ staging[p].head = NoObject /\ returned[p] = NoObject
      /\ UNCHANGED <<remoteHead, canonical, signals, returned, repoFaults>>
  BY <1>a DEF RepoInv, FetcherKnows, FetcherAt, initialize_staging_repository
<1>1. PICK s : s = IF staging[p].made THEN [staging[p] EXCEPT !.marked = TRUE]
                                      ELSE [staging[p] EXCEPT !.made = TRUE]
  OBVIOUS
<1>2. staging' = [staging EXCEPT ![p] = s]
  <2>1. CASE staging[p].made
    <3>1. staging' = [staging EXCEPT ![p].marked = TRUE]
      BY <1>a, <2>1 DEF initialize_staging_repository, write_staging_initialization_marker
    <3> QED BY <1>0, <1>1, <2>1, <3>1 DEF RepoInv, RepoTypeOK
  <2>2. CASE ~ staging[p].made
    <3>1. staging' = [staging EXCEPT ![p].made = TRUE]
      BY <1>a, <2>2 DEF initialize_staging_repository, create_private_directory
    <3> QED BY <1>0, <1>1, <2>2, <3>1 DEF RepoInv, RepoTypeOK
  <2> QED BY <2>1, <2>2
<1>3. staging[p] \in [made : BOOLEAN, marked : BOOLEAN, head : MaybeCommits,
                      pack : SUBSET AllCommits, torn : TornStates]
  BY <1>0 DEF RepoInv, RepoTypeOK
<1>4. /\ s \in [made : BOOLEAN, marked : BOOLEAN, head : MaybeCommits,
                pack : SUBSET AllCommits, torn : TornStates]
      /\ s.made /\ s.head = NoObject /\ s.pack = staging[p].pack /\ s.torn = staging[p].torn
      /\ staging[p].made => s.marked
  BY <1>0, <1>1, <1>3
<1>5. staging'[p] = s
  BY <1>0, <1>2 DEF RepoInv, RepoTypeOK
<1>6. staging[p].pack = {} /\ staging[p].torn = "no"
  BY <1>0 DEF RepoInv, ProjectSound, StagedPack
<1>7. StagedPack(p)' /\ MarkerOfStaging(p)'
  BY <1>0, <1>4, <1>5, <1>6 DEF StagedPack, MarkerOfStaging, canonical
<1>8. /\ staging' \in [SourceProjects ->
           [made : BOOLEAN, marked : BOOLEAN, head : MaybeCommits,
            pack : SUBSET AllCommits, torn : TornStates]]
      /\ \A q \in SourceProjects : ProjectSound(q)'
  BY <1>0, <1>2, <1>4, <1>7, StagingFrame DEF canonical
<1>9. CASE staging[p].made /\ Go("fetch")
  <2>1. "fetch" \in FetchSteps /\ RepoTypeOK
    BY DEF FetchSteps, RepoInv
  <2>2. /\ fetcher' \in [of : SourceProjects \cup {NoSourceProject},
                         on : SourceProjects \cup {NoSourceProject}, at : FetchSteps,
                         own : BOOLEAN, background : BOOLEAN, overtaken : BOOLEAN]
        /\ fetcher'.of = fetcher.of /\ fetcher'.on = fetcher.on /\ fetcher'.at = "fetch"
        /\ fetcher'.own = fetcher.own
    BY <1>9, <2>1, GoAlong
  <2>3. RepoTypeOK'
    BY <1>0, <1>8, <2>2 DEF RepoInv, RepoTypeOK, canonical, signals
  <2>4. FetcherKnows'
    BY <1>a, <1>0, <1>4, <1>5, <1>9, <2>2 DEF FetcherKnows, canonical
  <2> QED BY <1>8, <2>3, <2>4 DEF RepoInv
<1>10. CASE fetcher' = fetcher
  <2>1. RepoTypeOK'
    BY <1>0, <1>8, <1>10 DEF RepoInv, RepoTypeOK, canonical, signals
  <2>2. FetcherKnows'
    BY <1>a, <1>0, <1>4, <1>5, <1>10 DEF FetcherKnows, canonical
  <2> QED BY <1>8, <2>1, <2>2 DEF RepoInv
<1> QED BY <1>a, <1>9, <1>10 DEF initialize_staging_repository

(* A head whose history is not all there is packed with all that the refs do   *)
(* not reach, and was not there itself.                                        *)
LEMMA FetchStagedKeeps ==
  ASSUME RepoInv, fetch_staged_main
  PROVE  RepoInv'
<1>a. PICK p : p = fetcher.of
  OBVIOUS
<1>b. PICK c : c = remoteHead[p]
  OBVIOUS
<1>c. PICK k : k = seed_staging_negotiation_refs(p, c)
  OBVIOUS
<1>0. /\ p \in SourceProjects /\ fetcher.at = "fetch" /\ ~ fetcher.own
      /\ keeper[p] = NoKeep /\ staging[p].head = NoObject /\ returned[p] = NoObject
      /\ staging[p].made /\ staging[p].marked
      /\ UNCHANGED <<remoteHead, canonical, signals, returned, repoFaults>>
  BY <1>a DEF RepoInv, FetcherKnows, FetcherAt, fetch_staged_main
<1>1. c \in AllCommits /\ RepoTypeOK /\ ObjectsClosed(p)
  BY <1>0, <1>b DEF RepoInv, RepoTypeOK, ProjectSound
<1>2. /\ k \subseteq AllCommits /\ k \subseteq History[c]
      /\ k # {} => /\ c \in k /\ History[c] \subseteq k \cup Reachable(p)
                   /\ c \notin objects[p]
  <2>1. objects[p] \in SUBSET AllCommits
    BY <1>0, <1>1 DEF RepoTypeOK
  <2>2. c \in History[c] /\ History[c] \subseteq AllCommits
        /\ (c \in objects[p] => History[c] \subseteq objects[p])
    BY <1>1, <2>1, HistoryClosed DEF ObjectsClosed
  <2>3. Reachable(p) \subseteq objects[p]
    BY <1>1 DEF ObjectsClosed
  <2> QED BY <1>c, <2>2, <2>3 DEF seed_staging_negotiation_refs
<1>3. PICK s : s = [staging[p] EXCEPT !.head = c, !.pack = k]
  OBVIOUS
<1>4. staging' = [staging EXCEPT ![p] = s]
  <2>1. staging' = [staging EXCEPT ![p] = [staging[p] EXCEPT !.head = c, !.pack = k]]
    BY <1>a, <1>b, <1>c, <1>0, <1>1 DEF fetch_staged_main, RepoTypeOK
  <2> QED BY <1>3, <2>1
<1>5. staging[p] \in [made : BOOLEAN, marked : BOOLEAN, head : MaybeCommits,
                      pack : SUBSET AllCommits, torn : TornStates]
  BY <1>0, <1>1 DEF RepoTypeOK
<1>6. /\ s \in [made : BOOLEAN, marked : BOOLEAN, head : MaybeCommits,
                pack : SUBSET AllCommits, torn : TornStates]
      /\ s.made /\ s.marked /\ s.head = c /\ s.pack = k /\ s.torn = "no"
  <2>1. staging[p].torn = "no"
    BY <1>0 DEF RepoInv, ProjectSound, StagedPack
  <2> QED BY <1>0, <1>1, <1>2, <1>3, <1>5, <2>1 DEF MaybeCommits
<1>7. staging'[p] = s
  BY <1>0, <1>1, <1>4 DEF RepoTypeOK
<1>8. c # NoObject
  BY <1>1, RepoConstants
<1>9. StagedPack(p)' /\ MarkerOfStaging(p)'
  BY <1>0, <1>2, <1>6, <1>7, <1>8 DEF StagedPack, MarkerOfStaging, canonical, Reachable
<1>10. /\ staging' \in [SourceProjects ->
            [made : BOOLEAN, marked : BOOLEAN, head : MaybeCommits,
             pack : SUBSET AllCommits, torn : TornStates]]
       /\ \A q \in SourceProjects : ProjectSound(q)'
  BY <1>0, <1>4, <1>6, <1>9, StagingFrame DEF canonical
<1>11. /\ fetcher' \in [of : SourceProjects \cup {NoSourceProject},
                        on : SourceProjects \cup {NoSourceProject}, at : FetchSteps,
                        own : BOOLEAN, background : BOOLEAN, overtaken : BOOLEAN]
       /\ fetcher'.of = p /\ fetcher'.on = p /\ fetcher'.at = "promote"
  BY <1>a, <1>0, <1>1 DEF fetch_staged_main, RepoTypeOK, FetchSteps
<1>12. RepoTypeOK'
  BY <1>0, <1>1, <1>10, <1>11 DEF RepoTypeOK, canonical, signals
<1>13. FetcherKnows'
  BY <1>0, <1>6, <1>7, <1>8, <1>11 DEF FetcherKnows, canonical
<1> QED BY <1>10, <1>12, <1>13 DEF RepoInv

(* Removing a staging repository no marker is of.                              *)
LEMMA RemoveStaging ==
  ASSUME RepoInv, NEW p \in SourceProjects, keeper[p] = NoKeep,
         remove_staging_directory(p),
         UNCHANGED <<fetchedRef, acceptedRef, objects, keeper>>,
         \A q \in SourceProjects \ {p} : returned'[q] \in {returned[q], NoObject}
  PROVE  /\ staging' \in [SourceProjects ->
              [made : BOOLEAN, marked : BOOLEAN, head : MaybeCommits,
               pack : SUBSET AllCommits, torn : TornStates]]
         /\ staging'[p] = NoStaging
         /\ \A q \in SourceProjects : ProjectSound(q)'
<1>1. NoStaging \in [made : BOOLEAN, marked : BOOLEAN, head : MaybeCommits,
                     pack : SUBSET AllCommits, torn : TornStates]
  BY DEF NoStaging, MaybeCommits, TornStates
<1>2. staging' = [staging EXCEPT ![p] = NoStaging] /\ staging'[p] = NoStaging
  BY DEF remove_staging_directory, RepoInv, RepoTypeOK
<1>3. StagedPack(p)' /\ MarkerOfStaging(p)'
  BY <1>2 DEF StagedPack, MarkerOfStaging, NoStaging
<1> QED BY <1>1, <1>2, <1>3, StagingFrame

(* Before promotion a failure removes staging.                                 *)
LEMMA FailedFetchKeeps ==
  ASSUME RepoInv, reconcile_failed_fetch
  PROVE  RepoInv'
<1>a. PICK p : p = fetcher.of
  OBVIOUS
<1>0. /\ p \in SourceProjects /\ keeper[p] = NoKeep
      /\ UNCHANGED <<remoteHead, canonical, signals, returned>>
      /\ remove_staging_directory(p) /\ Stop
  BY <1>a DEF RepoInv, FetcherKnows, FetcherAt, reconcile_failed_fetch
<1>1. repoFaults' \in Nat
  BY DEF reconcile_failed_fetch, RepoFault, RepoInv, RepoTypeOK
<1>2. /\ staging' \in [SourceProjects ->
           [made : BOOLEAN, marked : BOOLEAN, head : MaybeCommits,
            pack : SUBSET AllCommits, torn : TornStates]]
      /\ \A q \in SourceProjects : ProjectSound(q)'
  BY <1>0, RemoveStaging DEF canonical
<1>3. RepoTypeOK'
  BY <1>0, <1>1, <1>2, StoppedKnows DEF RepoInv, RepoTypeOK, canonical, signals
<1> QED BY <1>0, <1>2, <1>3, StoppedKnows DEF RepoInv

(* Promotion writes the marker of the pack it stages, and when it is whole the *)
(* pack with it.                                                               *)
LEMMA IndexPackKeeps ==
  ASSUME RepoInv, NEW p \in SourceProjects, NEW torn \in BOOLEAN, IndexPack(p, torn),
         keeper[p] = NoKeep, staging[p].head # NoObject, staging[p].pack # {},
         ~ torn => Linked(p, staging[p].pack),
         UNCHANGED <<fetchedRef, acceptedRef, staging, returned>>
  PROVE  /\ keeper' \in [SourceProjects ->
              [of : MaybeCommits, pack : SUBSET AllCommits, whole : BOOLEAN]]
         /\ objects' \in [SourceProjects -> SUBSET AllCommits]
         /\ \A q \in SourceProjects : ProjectSound(q)'
<1>a. PICK s : s = staging[p]
  OBVIOUS
<1>b. /\ s \in [made : BOOLEAN, marked : BOOLEAN, head : MaybeCommits,
                pack : SUBSET AllCommits, torn : TornStates]
      /\ objects[p] \in SUBSET AllCommits /\ ProjectSound(p)
  BY <1>a DEF RepoInv, RepoTypeOK
<1>c. PICK k : k = [of |-> s.head, pack |-> s.pack, whole |-> ~ torn]
  OBVIOUS
<1>1. keeper' = [keeper EXCEPT ![p] = k]
  BY <1>a, <1>c DEF IndexPack
<1>2. /\ k \in [of : MaybeCommits, pack : SUBSET AllCommits, whole : BOOLEAN]
      /\ k.of = s.head /\ k.pack = s.pack /\ (k.whole <=> ~ torn)
  BY <1>b, <1>c
<1>3. /\ keeper' \in [SourceProjects ->
           [of : MaybeCommits, pack : SUBSET AllCommits, whole : BOOLEAN]]
      /\ keeper'[p] = k /\ \A q \in SourceProjects \ {p} : keeper'[q] = keeper[q]
  BY <1>1, <1>2 DEF RepoInv, RepoTypeOK
<1>4. objects' = IF torn THEN objects ELSE [objects EXCEPT ![p] = @ \cup s.pack]
  BY <1>a DEF IndexPack
<1>5. /\ objects' \in [SourceProjects -> SUBSET AllCommits]
      /\ objects'[p] = IF torn THEN objects[p] ELSE objects[p] \cup s.pack
      /\ \A q \in SourceProjects \ {p} : objects'[q] = objects[q]
  BY <1>b, <1>4 DEF RepoInv, RepoTypeOK
<1>6. k # NoKeep
  BY <1>a, <1>2 DEF NoKeep
<1>7. ClosedUnderParents(objects'[p])
  <2>1. CASE torn
    BY <1>b, <1>5, <2>1 DEF ProjectSound, ObjectsClosed
  <2>2. CASE ~ torn
    <3>1. objects'[p] = objects[p] \cup s.pack
      BY <1>5, <2>2
    <3>2. \A c \in s.pack : ParentsOf[c] \subseteq s.pack \cup objects[p]
      BY <1>a, <2>2 DEF Linked
    <3>3. \A c \in objects[p] : ParentsOf[c] \subseteq objects[p]
      BY <1>b DEF ProjectSound, ObjectsClosed, ClosedUnderParents
    <3> QED BY <3>1, <3>2, <3>3 DEF ClosedUnderParents
  <2> QED BY <2>1, <2>2
<1>8. ObjectsClosed(p)'
  BY <1>b, <1>5, <1>7 DEF ProjectSound, ObjectsClosed, Reachable, ClosedUnderParents
<1>9. StagedPack(p)'
  BY <1>a, <1>b, <1>3, <1>6 DEF ProjectSound, StagedPack, Reachable
<1>10. MarkerOfStaging(p)'
  BY <1>a, <1>2, <1>3, <1>5 DEF MarkerOfStaging
<1>11. \A q \in SourceProjects : ProjectSound(q)'
  <2> SUFFICES ASSUME NEW q \in SourceProjects PROVE ProjectSound(q)'
    OBVIOUS
  <2>1. CASE q = p
    BY <1>8, <1>9, <1>10, <2>1 DEF ProjectSound
  <2>2. CASE q # p
    BY <1>3, <1>5, <2>2, ProjectFrame DEF RepoInv
  <2> QED BY <2>1, <2>2
<1> QED BY <1>3, <1>5, <1>11

(* A pack is promoted whole, or there was nothing to promote.                  *)
LEMMA PromoteStagedKeeps ==
  ASSUME RepoInv, promote_staged_pack
  PROVE  RepoInv'
<1>a. PICK p : p = fetcher.on
  OBVIOUS
<1>0. /\ p \in SourceProjects /\ keeper[p] = NoKeep /\ staging[p].head # NoObject
      /\ fetcher.at = "promote"
      /\ UNCHANGED <<remoteHead, staging, signals, returned, repoFaults>>
  BY <1>a DEF RepoInv, FetcherKnows, FetcherAt, promote_staged_pack
<1>1. CASE Stop /\ UNCHANGED canonical
  <2>1. RepoTypeOK'
    BY <1>0, <1>1, StoppedKnows DEF RepoInv, RepoTypeOK, canonical, signals
  <2>2. \A q \in SourceProjects : ProjectSound(q)'
    BY <1>0, <1>1, ProjectFrame DEF RepoInv, canonical
  <2> QED BY <1>1, <2>1, <2>2, StoppedKnows DEF RepoInv
<1>2. CASE Go("publish")
  <2>1. "publish" \in FetchSteps /\ RepoTypeOK
    BY DEF FetchSteps, RepoInv
  <2>2. /\ fetcher' \in [of : SourceProjects \cup {NoSourceProject},
                         on : SourceProjects \cup {NoSourceProject}, at : FetchSteps,
                         own : BOOLEAN, background : BOOLEAN, overtaken : BOOLEAN]
        /\ fetcher'.of = fetcher.of /\ fetcher'.on = fetcher.on /\ fetcher'.at = "publish"
        /\ fetcher'.own = fetcher.own
    BY <1>2, <2>1, GoAlong
  <2>3. FetcherKnows'
    BY <1>a, <1>0, <2>2 DEF RepoInv, FetcherKnows
  <2>4. CASE UNCHANGED canonical
    <3>1. RepoTypeOK'
      BY <1>0, <2>2, <2>4 DEF RepoInv, RepoTypeOK, canonical, signals
    <3>2. \A q \in SourceProjects : ProjectSound(q)'
      BY <1>0, <2>4, ProjectFrame DEF RepoInv, canonical
    <3> QED BY <2>3, <3>1, <3>2 DEF RepoInv
  <2>5. CASE /\ staging[p].pack # {} /\ Linked(p, staging[p].pack) /\ IndexPack(p, FALSE)
             /\ UNCHANGED <<fetchedRef, acceptedRef>>
    <3>1. /\ keeper' \in [SourceProjects ->
               [of : MaybeCommits, pack : SUBSET AllCommits, whole : BOOLEAN]]
          /\ objects' \in [SourceProjects -> SUBSET AllCommits]
          /\ \A q \in SourceProjects : ProjectSound(q)'
      BY <1>0, <2>5, IndexPackKeeps
    <3>2. RepoTypeOK'
      BY <1>0, <2>2, <2>5, <3>1 DEF RepoInv, RepoTypeOK, signals
    <3> QED BY <2>3, <3>1, <3>2 DEF RepoInv
  <2> QED BY <1>a, <2>4, <2>5 DEF promote_staged_pack
<1> QED BY <1>1, <1>2 DEF promote_staged_pack

(* A promotion that fails leaves at most a torn marker.                        *)
LEMMA PromotionFailsKeeps ==
  ASSUME RepoInv, PromotionFails
  PROVE  RepoInv'
<1>a. PICK p : p = fetcher.on
  OBVIOUS
<1>0. /\ p \in SourceProjects /\ keeper[p] = NoKeep /\ staging[p].head # NoObject
      /\ staging[p].pack # {} /\ Stop
      /\ UNCHANGED <<remoteHead, staging, signals, returned>>
  BY <1>a DEF RepoInv, FetcherKnows, FetcherAt, PromotionFails
<1>1. repoFaults' \in Nat
  <2>1. repoFaults' = repoFaults \/ repoFaults' = repoFaults + 1
    BY Zenon DEF PromotionFails, RepoFault
  <2> QED BY <2>1 DEF RepoInv, RepoTypeOK
<1>2. CASE UNCHANGED canonical
  <2>1. RepoTypeOK'
    BY <1>0, <1>1, <1>2, StoppedKnows DEF RepoInv, RepoTypeOK, canonical, signals
  <2>2. \A q \in SourceProjects : ProjectSound(q)'
    BY <1>0, <1>2, ProjectFrame DEF RepoInv, canonical
  <2> QED BY <1>0, <2>1, <2>2, StoppedKnows DEF RepoInv
<1>3. CASE IndexPack(p, TRUE) /\ UNCHANGED <<fetchedRef, acceptedRef>>
  <2>1. /\ keeper' \in [SourceProjects ->
             [of : MaybeCommits, pack : SUBSET AllCommits, whole : BOOLEAN]]
        /\ objects' \in [SourceProjects -> SUBSET AllCommits]
        /\ \A q \in SourceProjects : ProjectSound(q)'
    BY <1>0, <1>3, IndexPackKeeps
  <2>2. RepoTypeOK'
    BY <1>0, <1>1, <1>3, <2>1, StoppedKnows DEF RepoInv, RepoTypeOK, signals
  <2> QED BY <1>0, <2>1, <2>2, StoppedKnows DEF RepoInv
<1> QED BY <1>a, <1>2, <1>3 DEF PromotionFails

(* The fetched ref moves to a commit that is there, hence with its history.    *)
LEMMA UpdateFetchedKeeps ==
  ASSUME RepoInv, update_fetched_main_ref
  PROVE  RepoInv'
<1>a. PICK p : p = fetcher.on
  OBVIOUS
<1>b. PICK h : h = staging[p].head
  OBVIOUS
<1>0. /\ p \in SourceProjects /\ h # NoObject /\ fetcher.at = "publish"
      /\ UNCHANGED <<remoteHead, acceptedRef, objects, keeper, staging, signals, returned,
                     repoFaults>>
  BY <1>a, <1>b DEF RepoInv, FetcherKnows, FetcherAt, update_fetched_main_ref
<1>1. h \in AllCommits /\ ProjectSound(p)
  BY <1>0, <1>b DEF RepoInv, RepoTypeOK, MaybeCommits
<1>2. CASE Stop /\ UNCHANGED fetchedRef
  <2>1. RepoTypeOK'
    BY <1>0, <1>2, StoppedKnows DEF RepoInv, RepoTypeOK, signals
  <2>2. \A q \in SourceProjects : ProjectSound(q)'
    BY <1>0, <1>2, ProjectFrame DEF RepoInv
  <2> QED BY <1>2, <2>1, <2>2, StoppedKnows DEF RepoInv
<1>3. CASE /\ contains_commit(p, h) /\ fetchedRef' = [fetchedRef EXCEPT ![p] = h]
           /\ Go("release")
  <2>1. "release" \in FetchSteps /\ RepoTypeOK
    BY DEF FetchSteps, RepoInv
  <2>2. /\ fetcher' \in [of : SourceProjects \cup {NoSourceProject},
                         on : SourceProjects \cup {NoSourceProject}, at : FetchSteps,
                         own : BOOLEAN, background : BOOLEAN, overtaken : BOOLEAN]
        /\ fetcher'.of = fetcher.of /\ fetcher'.on = fetcher.on /\ fetcher'.at = "release"
        /\ fetcher'.own = fetcher.own
    BY <1>3, <2>1, GoAlong
  <2>3. /\ fetchedRef' \in [SourceProjects -> MaybeCommits] /\ fetchedRef'[p] = h
        /\ \A q \in SourceProjects \ {p} : fetchedRef'[q] = fetchedRef[q]
    BY <1>0, <1>1, <1>3 DEF RepoInv, RepoTypeOK, MaybeCommits
  <2>4. RepoTypeOK'
    BY <1>0, <2>2, <2>3 DEF RepoInv, RepoTypeOK, signals
  <2>5. FetcherKnows'
    BY <1>a, <1>b, <1>0, <2>2, <2>3 DEF RepoInv, FetcherKnows
  <2>6. objects[p] \in SUBSET AllCommits
    BY <1>0 DEF RepoInv, RepoTypeOK
  <2>7. History[h] \subseteq objects[p]
    BY <1>1, <1>3, <2>6, HistoryClosed DEF ProjectSound, ObjectsClosed, contains_commit
  <2>8. Reachable(p)' = History[h] \cup History[acceptedRef[p]]
    BY <1>0, <2>3 DEF Reachable
  <2>9. ObjectsClosed(p)'
    BY <1>0, <1>1, <2>7, <2>8
       DEF ProjectSound, ObjectsClosed, Reachable, ClosedUnderParents
  <2>10. StagedPack(p)'
    BY <1>b, <1>0, <1>1, <2>3, <2>8 DEF ProjectSound, StagedPack
  <2>11. MarkerOfStaging(p)'
    BY <1>0, <1>1 DEF ProjectSound, MarkerOfStaging
  <2>12. \A q \in SourceProjects : ProjectSound(q)'
    <3> SUFFICES ASSUME NEW q \in SourceProjects PROVE ProjectSound(q)'
      OBVIOUS
    <3>1. CASE q = p
      BY <2>9, <2>10, <2>11, <3>1 DEF ProjectSound
    <3>2. CASE q # p
      BY <1>0, <2>3, <3>2, ProjectFrame DEF RepoInv
    <3> QED BY <3>1, <3>2
  <2> QED BY <2>4, <2>5, <2>12 DEF RepoInv
<1> QED BY <1>a, <1>b, <1>2, <1>3 DEF update_fetched_main_ref

(* The marker is dropped once the fetched ref holds what it held.              *)
LEMMA ReleaseGuardKeeps ==
  ASSUME RepoInv, release_promoted_pack_guard
  PROVE  RepoInv'
<1>a. PICK p : p = fetcher.on
  OBVIOUS
<1>0. /\ p \in SourceProjects /\ fetcher.at = "release" /\ fetchedRef[p] = staging[p].head
      /\ UNCHANGED <<remoteHead, fetchedRef, acceptedRef, objects, staging, signals, returned,
                     repoFaults>>
      /\ keeper' = [keeper EXCEPT ![p] = NoKeep] /\ Go("clean")
  BY <1>a DEF RepoInv, FetcherKnows, FetcherAt, release_promoted_pack_guard
<1>1. "clean" \in FetchSteps /\ RepoTypeOK /\ ProjectSound(p)
  BY <1>0 DEF FetchSteps, RepoInv
<1>2. /\ fetcher' \in [of : SourceProjects \cup {NoSourceProject},
                       on : SourceProjects \cup {NoSourceProject}, at : FetchSteps,
                       own : BOOLEAN, background : BOOLEAN, overtaken : BOOLEAN]
      /\ fetcher'.of = fetcher.of /\ fetcher'.on = fetcher.on /\ fetcher'.at = "clean"
      /\ fetcher'.own = fetcher.own
  BY <1>0, <1>1, GoAlong
<1>3. NoKeep \in [of : MaybeCommits, pack : SUBSET AllCommits, whole : BOOLEAN]
  BY DEF NoKeep, MaybeCommits
<1>4. /\ keeper' \in [SourceProjects ->
           [of : MaybeCommits, pack : SUBSET AllCommits, whole : BOOLEAN]]
      /\ keeper'[p] = NoKeep /\ \A q \in SourceProjects \ {p} : keeper'[q] = keeper[q]
  BY <1>0, <1>1, <1>3 DEF RepoTypeOK
<1>5. RepoTypeOK'
  BY <1>0, <1>1, <1>2, <1>4 DEF RepoTypeOK, signals
<1>6. FetcherKnows'
  BY <1>a, <1>0, <1>2, <1>4 DEF RepoInv, FetcherKnows
<1>7. ObjectsClosed(p)' /\ MarkerOfStaging(p)'
  BY <1>0, <1>1, <1>4 DEF ProjectSound, ObjectsClosed, Reachable, MarkerOfStaging
<1>8. StagedPack(p)'
  BY <1>0, <1>1 DEF ProjectSound, StagedPack, Reachable
<1>9. \A q \in SourceProjects : ProjectSound(q)'
  <2> SUFFICES ASSUME NEW q \in SourceProjects PROVE ProjectSound(q)'
    OBVIOUS
  <2>1. CASE q = p
    BY <1>7, <1>8, <2>1 DEF ProjectSound
  <2>2. CASE q # p
    BY <1>0, <1>4, <2>2, ProjectFrame DEF RepoInv
  <2> QED BY <2>1, <2>2
<1> QED BY <1>5, <1>6, <1>9 DEF RepoInv

(* Staging goes last; the fetch of its own project returns the head.           *)
LEMMA FinishStagingKeeps ==
  ASSUME RepoInv, FinishStaging
  PROVE  RepoInv'
<1>a. PICK p : p = fetcher.on
  OBVIOUS
<1>0. /\ p \in SourceProjects /\ keeper[p] = NoKeep /\ fetcher.at = "clean"
      /\ UNCHANGED <<remoteHead, canonical, signals, repoFaults>>
      /\ remove_staging_directory(p)
  BY <1>a DEF RepoInv, FetcherKnows, FetcherAt, FinishStaging
<1>1. CASE Stop /\ returned' = [returned EXCEPT ![p] = staging[p].head]
  <2>1. /\ returned' \in [SourceProjects -> MaybeCommits]
        /\ \A q \in SourceProjects \ {p} : returned'[q] \in {returned[q], NoObject}
    BY <1>0, <1>1 DEF RepoInv, RepoTypeOK
  <2>2. /\ staging' \in [SourceProjects ->
             [made : BOOLEAN, marked : BOOLEAN, head : MaybeCommits,
              pack : SUBSET AllCommits, torn : TornStates]]
        /\ \A q \in SourceProjects : ProjectSound(q)'
    BY <1>0, <2>1, RemoveStaging DEF canonical
  <2>3. RepoTypeOK'
    BY <1>0, <1>1, <2>1, <2>2, StoppedKnows DEF RepoInv, RepoTypeOK, canonical, signals
  <2> QED BY <1>1, <2>2, <2>3, StoppedKnows DEF RepoInv
<1>2. CASE /\ ~ fetcher.own /\ returned' = returned
           /\ fetcher' = [fetcher EXCEPT !.at = "recover", !.on = NoSourceProject]
  <2>1. /\ fetcher' \in [of : SourceProjects \cup {NoSourceProject},
                         on : SourceProjects \cup {NoSourceProject}, at : FetchSteps,
                         own : BOOLEAN, background : BOOLEAN, overtaken : BOOLEAN]
        /\ fetcher'.of = fetcher.of /\ fetcher'.at = "recover" /\ ~ fetcher'.own
    BY <1>2 DEF RepoInv, RepoTypeOK, FetchSteps
  <2>2. /\ staging' \in [SourceProjects ->
             [made : BOOLEAN, marked : BOOLEAN, head : MaybeCommits,
              pack : SUBSET AllCommits, torn : TornStates]]
        /\ \A q \in SourceProjects : ProjectSound(q)'
    BY <1>0, <1>2, RemoveStaging DEF canonical
  <2>3. RepoTypeOK'
    BY <1>0, <1>2, <2>1, <2>2 DEF RepoInv, RepoTypeOK, canonical, signals
  <2>4. FetcherKnows'
    BY <1>0, <1>2, <2>1 DEF RepoInv, FetcherKnows
  <2> QED BY <2>2, <2>3, <2>4 DEF RepoInv
<1> QED BY <1>a, <1>1, <1>2 DEF FinishStaging

(* A failed command leaves everything for the next fetch.                      *)
LEMMA CommandFailsKeeps ==
  ASSUME RepoInv, CommandFails
  PROVE  RepoInv'
<1> USE DEF CommandFails, RepoFault, canonical, signals
<1>1. RepoTypeOK'
  BY StoppedKnows DEF RepoInv, RepoTypeOK
<1>2. \A q \in SourceProjects : ProjectSound(q)'
  BY ProjectFrame DEF RepoInv
<1> QED BY <1>1, <1>2, StoppedKnows DEF RepoInv

(* A crash may damage a staged pack and forgets what was returned.             *)
LEMMA RepositoryCrashKeeps ==
  ASSUME RepoInv, RepositoryCrash
  PROVE  RepoInv'
<1>0. /\ Stop /\ waiting' \subseteq SourceProjects /\ urgent' \subseteq SourceProjects
      /\ repoFaults' \in Nat /\ UNCHANGED <<remoteHead, canonical>>
      /\ returned' \in [SourceProjects -> MaybeCommits]
      /\ \A q \in SourceProjects : returned'[q] = NoObject
  BY DEF RepositoryCrash, RepoFault, RepoInv, RepoTypeOK, MaybeCommits
<1>1. CASE staging' = staging
  <2>1. RepoTypeOK'
    BY <1>0, <1>1, StoppedKnows DEF RepoInv, RepoTypeOK, canonical
  <2>2. \A q \in SourceProjects : ProjectSound(q)'
    BY <1>0, <1>1, ProjectFrame DEF RepoInv, canonical
  <2> QED BY <1>0, <2>1, <2>2, StoppedKnows DEF RepoInv
<1>2. ASSUME NEW p \in SourceProjects, NEW taken \in {"names", "lost", "bytes"},
             staging[p].pack # {}, staging' = [staging EXCEPT ![p].torn = taken]
      PROVE  RepoInv'
  <2>1. PICK s : s = [staging[p] EXCEPT !.torn = taken]
    OBVIOUS
  <2>2. staging' = [staging EXCEPT ![p] = s]
    BY <1>2, <2>1 DEF RepoInv, RepoTypeOK
  <2>3. staging[p] \in [made : BOOLEAN, marked : BOOLEAN, head : MaybeCommits,
                        pack : SUBSET AllCommits, torn : TornStates]
    BY <1>2 DEF RepoInv, RepoTypeOK
  <2>4. /\ s \in [made : BOOLEAN, marked : BOOLEAN, head : MaybeCommits,
                  pack : SUBSET AllCommits, torn : TornStates]
        /\ s.made = staging[p].made /\ s.marked = staging[p].marked
        /\ s.head = staging[p].head /\ s.pack = staging[p].pack
    BY <2>1, <2>3 DEF TornStates
  <2>5. staging'[p] = s
    BY <1>2, <2>2 DEF RepoInv, RepoTypeOK
  <2>6. ProjectSound(p) /\ returned'[p] = NoObject
    BY <1>0 DEF RepoInv
  <2>7. staging[p].made
    BY <1>2, <2>6 DEF ProjectSound, StagedPack
  <2>8. StagedPack(p)'
    BY <1>0, <1>2, <2>4, <2>5, <2>6, <2>7 DEF ProjectSound, StagedPack, Reachable, canonical
  <2>9. MarkerOfStaging(p)'
    BY <1>0, <2>4, <2>5, <2>6 DEF ProjectSound, MarkerOfStaging, canonical
  <2>10. /\ staging' \in [SourceProjects ->
              [made : BOOLEAN, marked : BOOLEAN, head : MaybeCommits,
               pack : SUBSET AllCommits, torn : TornStates]]
         /\ \A q \in SourceProjects : ProjectSound(q)'
    BY <1>0, <2>2, <2>4, <2>8, <2>9, StagingFrame DEF canonical
  <2>11. RepoTypeOK'
    BY <1>0, <2>10, StoppedKnows DEF RepoInv, RepoTypeOK, canonical
  <2> QED BY <1>0, <2>10, <2>11, StoppedKnows DEF RepoInv
<1> QED BY <1>1, <1>2 DEF RepositoryCrash

(* The accepted ref moves only when nothing of the project is staged, and to a *)
(* commit that is there.                                                       *)
LEMMA CompareAndSwapKeeps ==
  ASSUME RepoInv, NEW p \in SourceProjects, compare_and_swap_accepted_head(p)
  PROVE  RepoInv'
<1>a. PICK h : h = returned[p]
  OBVIOUS
<1>0. /\ h \in AllCommits /\ h # NoObject /\ contains_commit(p, h)
      /\ acceptedRef' = [acceptedRef EXCEPT ![p] = h]
      /\ UNCHANGED <<remoteHead, fetchedRef, objects, keeper, staging, fetcher, signals,
                     returned, repoFaults>>
  BY <1>a DEF compare_and_swap_accepted_head, RepoInv, RepoTypeOK, MaybeCommits
<1>1. /\ acceptedRef' \in [SourceProjects -> MaybeCommits] /\ acceptedRef'[p] = h
      /\ \A q \in SourceProjects \ {p} : acceptedRef'[q] = acceptedRef[q]
      /\ objects[p] \in SUBSET AllCommits /\ ProjectSound(p)
  BY <1>0 DEF RepoInv, RepoTypeOK, MaybeCommits
<1>2. RepoTypeOK'
  BY <1>0, <1>1 DEF RepoInv, RepoTypeOK, signals
<1>3. FetcherKnows'
  BY <1>0 DEF RepoInv, FetcherKnows
<1>4. History[h] \subseteq objects[p]
  BY <1>0, <1>1, HistoryClosed DEF ProjectSound, ObjectsClosed, contains_commit
<1>5. Reachable(p)' = History[fetchedRef[p]] \cup History[h]
  BY <1>0, <1>1 DEF Reachable
<1>6. ObjectsClosed(p)'
  BY <1>0, <1>1, <1>4, <1>5 DEF ProjectSound, ObjectsClosed, Reachable, ClosedUnderParents
<1>7. staging[p] = NoStaging
  BY <1>a, <1>0, <1>1 DEF ProjectSound, StagedPack
<1>8. StagedPack(p)' /\ MarkerOfStaging(p)'
  BY <1>0, <1>1, <1>7 DEF ProjectSound, StagedPack, MarkerOfStaging, NoStaging
<1>9. \A q \in SourceProjects : ProjectSound(q)'
  <2> SUFFICES ASSUME NEW q \in SourceProjects PROVE ProjectSound(q)'
    OBVIOUS
  <2>1. CASE q = p
    BY <1>6, <1>8, <2>1 DEF ProjectSound
  <2>2. CASE q # p
    BY <1>0, <1>1, <2>2, ProjectFrame DEF RepoInv
  <2> QED BY <2>1, <2>2
<1> QED BY <1>2, <1>3, <1>9 DEF RepoInv

(* Nothing is fetched yet.                                                     *)
LEMMA RepoInitInv == RepoInit => RepoInv
<1> SUFFICES ASSUME RepoInit PROVE RepoInv
  OBVIOUS
<1>1. RepoTypeOK
  BY DEF RepoInit, RepoTypeOK, NoKeep, NoStaging, NoFetch, MaybeCommits, FetchSteps, TornStates
<1>2. FetcherKnows
  BY DEF RepoInit, FetcherKnows, NoFetch
<1>3. ASSUME NEW p \in SourceProjects PROVE ProjectSound(p)
  <2>1. /\ fetchedRef[p] = NoObject /\ acceptedRef[p] = NoObject /\ objects[p] = {}
        /\ keeper[p] = NoKeep /\ staging[p] = NoStaging
    BY <1>3 DEF RepoInit
  <2>2. ObjectsClosed(p)
    BY <2>1, HistoryOfNothing DEF ObjectsClosed, Reachable, ClosedUnderParents
  <2>3. StagedPack(p) /\ MarkerOfStaging(p)
    BY <2>1 DEF StagedPack, MarkerOfStaging, NoStaging
  <2> QED BY <2>2, <2>3 DEF ProjectSound
<1> QED BY <1>1, <1>2, <1>3 DEF RepoInv

(* Every step of remote, operator, fetch and crash keeps the invariant.        *)
LEMMA RepoStepInv == RepoInv /\ [RepoNext]_repoVars => RepoInv'
<1> SUFFICES ASSUME RepoInv, [RepoNext]_repoVars PROVE RepoInv'
  OBVIOUS
<1>1. CASE UNCHANGED repoVars
  <2> USE <1>1 DEF repoVars, canonical, signals
  <2>1. RepoTypeOK'
    BY DEF RepoInv, RepoTypeOK
  <2>2. FetcherKnows'
    BY DEF RepoInv, FetcherKnows
  <2>3. \A q \in SourceProjects : ProjectSound(q)'
    BY ProjectFrame DEF RepoInv
  <2> QED BY <2>1, <2>2, <2>3 DEF RepoInv
<1>2. ASSUME NEW p \in SourceProjects,
             \/ PushRemote(p) \/ Repack(p) \/ notify_priority_fetch(p)
             \/ clear_priority_fetch(p) \/ fetch_remote_main(p) \/ TakeFetchLock(p)
             \/ fetch_remote_main_reconciliation(p) \/ reconcile_stale_staging_directories(p)
             \/ compare_and_swap_accepted_head(p)
      PROVE  RepoInv'
  BY <1>2, PushRemoteKeeps, RepackKeeps, SignalsKeep, TakeLockKeeps, ReconcileStagingKeeps,
     CompareAndSwapKeeps
<1>3. CASE \/ reconcile_orphaned_promoted_pack_guards
           \/ initialize_staging_repository \/ fetch_staged_main \/ reconcile_failed_fetch
           \/ promote_staged_pack \/ PromotionFails
           \/ update_fetched_main_ref \/ release_promoted_pack_guard \/ FinishStaging
           \/ CommandFails \/ RepositoryCrash
  BY <1>3, OrphansKeep, InitializeStagingKeeps, FetchStagedKeeps, FailedFetchKeeps,
     PromoteStagedKeeps, PromotionFailsKeeps, UpdateFetchedKeeps, ReleaseGuardKeeps,
     FinishStagingKeeps, CommandFailsKeeps, RepositoryCrashKeeps
<1> QED BY <1>1, <1>2, <1>3 DEF RepoNext

(* A staging repository whose marker is whole or absent is never refused.      *)
LEMMA LeftoversExplained ==
  ASSUME RepoInv, NEW p \in SourceProjects, keeper[p] = NoKeep \/ keeper[p].whole
  PROVE  /\ InterruptedFetch(p) # "error"
         /\ InterruptedFetch(p) = "promote" => Linked(p, staging[p].pack)
         /\ keeper[p] # NoKeep => staging[p].made
<1>0. ProjectSound(p) /\ RepoTypeOK
  BY DEF RepoInv
<1>4. Linked(p, staging[p].pack)
  <2> SUFFICES ASSUME NEW c \in staging[p].pack
               PROVE  ParentsOf[c] \subseteq staging[p].pack \cup objects[p]
    BY DEF Linked
  <2>1. /\ staging[p].head # NoObject /\ staging[p].head \in AllCommits
        /\ c \in History[staging[p].head]
        /\ History[staging[p].head] \subseteq staging[p].pack \cup Reachable(p)
    BY <1>0 DEF ProjectSound, StagedPack, RepoTypeOK, MaybeCommits
  <2>2. ParentsOf[c] \subseteq History[staging[p].head]
    BY <2>1, HistoryClosed DEF ClosedUnderParents
  <2> QED BY <1>0, <2>1, <2>2 DEF ProjectSound, ObjectsClosed
<1>1. keeper[p] # NoKeep => staging[p].made
  BY <1>0 DEF ProjectSound, MarkerOfStaging, StagedPack
<1>2. CASE ~ staging[p].marked \/ staging[p].head = NoObject
  BY <1>1, <1>2, <1>4 DEF InterruptedFetch, staging_initialization_complete
<1>3. CASE staging[p].marked /\ staging[p].head # NoObject
  <2>1. validate_promoted_pack_guard(p) /\ staging[p].head \in AllCommits
    BY <1>0, <1>3 DEF validate_promoted_pack_guard, RepoTypeOK, MaybeCommits
  <2>2. ASSUME find_promoted_pack_guard(p, staging[p].head)
        PROVE  contains_commit(p, staging[p].head)
    <3>1. keeper[p] # NoKeep
      BY <1>3, <2>2 DEF find_promoted_pack_guard, NoKeep
    <3> QED BY <1>0, <3>1
            DEF ProjectSound, MarkerOfStaging, StagedPack, contains_commit
  <2>3. ASSUME fetchedRef[p] = staging[p].head
        PROVE  contains_commit(p, staging[p].head)
    <3>1. staging[p].head \in Reachable(p)
      BY <2>1, <2>3, HistoryClosed DEF Reachable
    <3> QED BY <1>0, <3>1 DEF ProjectSound, ObjectsClosed, contains_commit
  <2>4. ASSUME ~ find_promoted_pack_guard(p, staging[p].head),
               fetchedRef[p] # staging[p].head, staged_pack(p) = "bad"
        PROVE  ~ contains_commit(p, staging[p].head)
    <3>1. keeper[p] = NoKeep
      BY <1>0, <2>4 DEF ProjectSound, MarkerOfStaging, find_promoted_pack_guard
    <3> QED BY <1>0, <2>4, <3>1 DEF ProjectSound, StagedPack, contains_commit, staged_pack
  <2> QED BY <1>1, <1>3, <1>4, <2>1, <2>2, <2>3, <2>4 DEF InterruptedFetch, staging_initialization_complete
<1> QED BY <1>2, <1>3

(* Both refs of every project name commits whose history is in the canonical   *)
(* repository, for any graph of commits and any sequence of fetches, repacks,  *)
(* failures and crashes (RefsAreWhole).                                        *)
THEOREM CanonicalRefsAreWhole == RepoSpec => []RefsAreWhole
<1>1. RepoInv => RefsAreWhole
  BY DEF RepoInv, ProjectSound, ObjectsClosed, RefsAreWhole
<1>2. RepoInv /\ [RepoNext]_repoVars => RepoInv'
  BY RepoStepInv
<1> QED BY <1>1, <1>2, RepoInitInv, PTL DEF RepoSpec

(* The next fetch can explain what a crash, a failed command or priority work  *)
(* left behind, but for a killed index-pack and a staged pack that lost bytes  *)
(* and kept its names (LeftoversAreExplained).                                 *)
THEOREM StagingIsExplained == RepoSpec => []LeftoversAreExplained
<1>1. RepoInv => LeftoversAreExplained
  BY LeftoversExplained DEF LeftoversAreExplained
<1>2. RepoInv /\ [RepoNext]_repoVars => RepoInv'
  BY RepoStepInv
<1> QED BY <1>1, <1>2, RepoInitInv, PTL DEF RepoSpec

--------------------------------------------------------------------------------
(* The preparation store                                                       *)

PrepSteps ==
  {"idle", "open", "reserve", "produce", "commit", "settle", "pin", "ready", "running",
   "done", "failed"}
PrepRows == [pc : PrepSteps, role : Roles, now : Nat, cancelled : BOOLEAN]
LockSteps == {"reserve", "produce", "commit", "settle"}
ProducerSteps == {"reserve", "produce", "commit"}
EntryStates == {"absent", "committing", "sealed"}

PrepTypeOK ==
  /\ entry \in [StoreKeys -> EntryStates] /\ evicting \subseteq StoreKeys
  /\ pin \in [Preps -> [Roles -> Nat]]
  /\ prep \in [Preps -> PrepRows]
  /\ fetched \in [Preps -> SUBSET Objects]
  /\ staged \subseteq Preps /\ reserved \subseteq Preps
  /\ opened \in BOOLEAN /\ clock \in Nat

(* What a preparation knows where it stands: it staged under a reservation,    *)
(* nothing is under the key it produces, and what it commits is complete.      *)
RowSound(t) ==
  /\ prep[t].now <= clock
  /\ prep[t].pc \in LockSteps => opened
  /\ prep[t].pc \in {"produce", "commit"} => t \in staged
  /\ prep[t].pc = "settle" => t \notin staged
  /\ prep[t].pc \in ProducerSteps => ReconcileEvictions[WantedKey(t)] = "absent"
  /\ prep[t].pc = "commit" /\ prep[t].role = "deps" => fetched[t] = Objects

RowsSound == \A t \in Preps : RowSound(t)

(* A key lock has one holder.                                                  *)
LocksExclusive ==
  \A t, u \in Preps :
    t # u /\ prep[t].pc \in LockSteps /\ prep[u].pc \in LockSteps => WantedKey(t) # WantedKey(u)

StagesReserved == opened => staged \subseteq reserved

(* A dependency snapshot that is there, sealed or not, holds every object.     *)
DependenciesExact ==
  \A t \in Preps : ReconcileEvictions[KeyOf[t]["deps"]] # "absent" =>
                     content[KeyOf[t]["deps"]] = Objects

PrepInv ==
  /\ PrepTypeOK /\ RowsSound /\ LocksExclusive /\ StagesReserved
  /\ PinnedStaysWhole /\ StoreBounded /\ DependenciesExact

(* The key of every object a preparation needs is a key of the store.          *)
LEMMA KeyInStore ==
  ASSUME NEW t \in Preps, NEW r \in Roles
  PROVE  KeyOf[t][r] \in StoreKeys
BY DEF StoreKeys

(* There are finitely many keys, one at most per preparation and role.         *)
LEMMA StoreKeysFinite == IsFiniteSet(StoreKeys)
<1> DEFINE f == [q \in Preps \X Roles |-> KeyOf[q[1]][q[2]]]
<1>1. IsFiniteSet(Roles)
  <2>1. IsFiniteSet({}) BY FS_EmptySet
  <2>2. IsFiniteSet({} \cup {"source"}) BY <2>1, FS_AddElement
  <2>3. IsFiniteSet(({} \cup {"source"}) \cup {"deps"}) BY <2>2, FS_AddElement
  <2>4. IsFiniteSet((({} \cup {"source"}) \cup {"deps"}) \cup {"run"}) BY <2>3, FS_AddElement
  <2>5. (({} \cup {"source"}) \cup {"deps"}) \cup {"run"} = Roles BY DEF Roles
  <2> QED BY <2>4, <2>5
<1>2. IsFiniteSet(Preps \X Roles) BY <1>1, PrepAssumption, FS_Product
<1>3. f \in [Preps \X Roles -> StoreKeys] BY KeyInStore
<1>4. \A k \in StoreKeys : \E q \in Preps \X Roles : f[q] = k
  <2> SUFFICES ASSUME NEW k \in StoreKeys PROVE \E q \in Preps \X Roles : f[q] = k OBVIOUS
  <2>1. PICK t \in Preps : \E r \in Roles : k = KeyOf[t][r] BY DEF StoreKeys
  <2>2. PICK r \in Roles : k = KeyOf[t][r] BY <2>1
  <2>3. <<t, r>> \in Preps \X Roles /\ f[<<t, r>>] = k BY <2>2
  <2> QED BY <2>3
<1> HIDE DEF f
<1>5. f \in Surjection(Preps \X Roles, StoreKeys) BY <1>3, <1>4 DEF Surjection
<1> QED BY <1>2, <1>5, FS_Surjection

(* What was counted in a set of keys or preparations is a natural number, and  *)
(* a part of it is not more.                                                   *)
LEMMA Counted ==
  ASSUME NEW S, NEW T, S \subseteq T, T \subseteq StoreKeys \/ T \subseteq Preps
  PROVE  /\ IsFiniteSet(S) /\ IsFiniteSet(T)
         /\ Cardinality(S) \in Nat /\ Cardinality(T) \in Nat /\ Cardinality(S) <= Cardinality(T)
<1>1. IsFiniteSet(T) BY StoreKeysFinite, PrepAssumption, FS_Subset
<1>2. IsFiniteSet(S) /\ Cardinality(S) <= Cardinality(T) BY <1>1, FS_Subset
<1> QED BY <1>1, <1>2, FS_CardinalityType

(* The entries that are there.                                                 *)
Present(e) == {k \in StoreKeys : e[k] # "absent"}

(* The store loses entries at most, keeps what is under those that stay, and   *)
(* loses none that is pinned.                                                  *)
StoreShrinks ==
  /\ entry' \in [StoreKeys -> EntryStates] /\ evicting' \subseteq StoreKeys
  /\ \A k \in StoreKeys :
       /\ ReconcileEvictions[k] = "absent" => ReconcileEvictions'[k] = "absent"
       /\ ReconcileEvictions'[k] # "absent" => content'[k] = content[k]
       /\ entry[k] = "absent" => entry'[k] = "absent"
       /\ ReconcileEvictions[k] = "sealed" /\ k \in LivePinnedKeys(clock) =>
            ReconcileEvictions'[k] = "sealed"

(* No pin is set or prolonged.                                                 *)
PinsShrink ==
  /\ pin' \in [Preps -> [Roles -> Nat]]
  /\ \A t \in Preps : \A r \in Roles : pin'[t][r] > 0 => pin'[t][r] = pin[t][r]

(* Only preparation t moves.                                                   *)
OthersKeep(t) ==
  /\ prep' \in [Preps -> PrepRows] /\ fetched' \in [Preps -> SUBSET Objects]
  /\ staged' \subseteq Preps /\ reserved' \subseteq Preps
  /\ \A u \in Preps \ {t} :
       /\ prep'[u] = prep[u] /\ fetched'[u] = fetched[u]
       /\ u \in staged' <=> u \in staged
       /\ u \in reserved' <=> u \in reserved

(* An entry is whole when it is sealed once the evictions under way are done.  *)
LEMMA WholeIsReconciled ==
  ASSUME PrepTypeOK, NEW k \in StoreKeys
  PROVE  Whole(k) <=> ReconcileEvictions[k] = "sealed"
BY DEF PrepTypeOK, Whole, ReconcileEvictions, EntryStates

(* A store that loses no pinned entry, under pins that only go, keeps what     *)
(* the pins name.                                                              *)
LEMMA PinsKept ==
  ASSUME PrepInv, PrepTypeOK', StoreShrinks, PinsShrink, clock <= clock'
  PROVE  PinnedStaysWhole'
<1> SUFFICES ASSUME NEW t \in Preps, NEW r \in Roles, pin'[t][r] > clock'
    PROVE Whole(KeyOf[t][r])' /\ (r = "run" => \A k \in Composition(t) : Whole(k)')
  BY DEF PinnedStaysWhole
<1>1. clock \in Nat /\ clock' \in Nat /\ pin[t][r] \in Nat /\ pin'[t][r] \in Nat
  BY DEF PrepInv, PrepTypeOK, PinsShrink
<1>2. pin[t][r] > clock BY <1>1 DEF PinsShrink
<1>3. Whole(KeyOf[t][r]) /\ (r = "run" => \A k \in Composition(t) : Whole(k))
  BY <1>2 DEF PrepInv, PinnedStaysWhole
<1>4. KeyOf[t][r] \in StoreKeys /\ Composition(t) \subseteq StoreKeys
  BY KeyInStore DEF Composition, Roles
<1>5. KeyOf[t][r] \in LivePinnedKeys(clock)
  BY <1>2, <1>4 DEF LivePinnedKeys
<1>6. r = "run" => Composition(t) \subseteq LivePinnedKeys(clock)
  BY <1>2, <1>4 DEF LivePinnedKeys
<1>7. ASSUME NEW k \in StoreKeys, Whole(k), k \in LivePinnedKeys(clock) PROVE Whole(k)'
  <2>1. ReconcileEvictions[k] = "sealed" BY <1>7, WholeIsReconciled DEF PrepInv
  <2>2. ReconcileEvictions'[k] = "sealed" BY <2>1, <1>7 DEF StoreShrinks
  <2>3. k \notin evicting' /\ entry'[k] = "sealed"
    BY <2>2 DEF ReconcileEvictions
  <2> QED BY <2>3 DEF Whole
<1> QED BY <1>3, <1>4, <1>5, <1>6, <1>7

(* The rows of the preparations that do not move stay sound when nothing       *)
(* appears under a key they produce.                                           *)
LEMMA OtherRowsSound ==
  ASSUME PrepInv, NEW t \in Preps, OthersKeep(t),
         \A u \in Preps \ {t} :
           prep[u].pc \in ProducerSteps /\ ReconcileEvictions[WantedKey(u)] = "absent" =>
             ReconcileEvictions'[WantedKey(u)] = "absent",
         clock' \in Nat, clock <= clock', opened' = opened
  PROVE  \A u \in Preps \ {t} : RowSound(u)'
<1> SUFFICES ASSUME NEW u \in Preps \ {t} PROVE RowSound(u)' OBVIOUS
<1>1. RowSound(u) /\ prep[u] \in PrepRows /\ clock \in Nat
  BY DEF PrepInv, RowsSound, PrepTypeOK
<1>2. /\ prep'[u] = prep[u] /\ fetched'[u] = fetched[u]
      /\ u \in staged' <=> u \in staged
  BY DEF OthersKeep
<1>3. WantedKey(u)' = WantedKey(u) BY <1>2 DEF WantedKey
<1>4. WantedKey(u) \in StoreKeys BY <1>1, KeyInStore DEF WantedKey, PrepRows
<1>5. prep[u].pc \in ProducerSteps => ReconcileEvictions'[WantedKey(u)] = "absent"
  BY <1>1, <1>4 DEF RowSound
<1>6. prep'[u].now <= clock' BY <1>1, <1>2 DEF RowSound, PrepRows
<1> QED BY <1>1, <1>2, <1>3, <1>5, <1>6 DEF RowSound

(* A preparation that takes a key lock nobody holds, or keeps the one it had,  *)
(* leaves the locks exclusive.                                                 *)
LEMMA LocksFrame ==
  ASSUME PrepInv, NEW t \in Preps, OthersKeep(t),
         prep'[t].pc \in LockSteps =>
           /\ prep'[t].role = prep[t].role
           /\ prep[t].pc \in LockSteps \/ ~ KeyLockHeld(WantedKey(t))
  PROVE  LocksExclusive'
<1>1. \A u \in Preps \ {t} : prep'[u] = prep[u] /\ WantedKey(u)' = WantedKey(u)
  BY DEF OthersKeep, WantedKey
<1>2. prep'[t].pc \in LockSteps => WantedKey(t)' = WantedKey(t)
  BY DEF WantedKey
<1>3. ASSUME NEW u \in Preps \ {t}, prep'[t].pc \in LockSteps, prep'[u].pc \in LockSteps
      PROVE WantedKey(t)' # WantedKey(u)'
  <2>1. prep[u].pc \in LockSteps BY <1>1, <1>3
  <2>2. CASE prep[t].pc \in LockSteps
    <3>1. WantedKey(t) # WantedKey(u) BY <2>1, <2>2 DEF PrepInv, LocksExclusive
    <3> QED BY <3>1, <1>1, <1>2, <1>3
  <2>3. CASE ~ KeyLockHeld(WantedKey(t))
    <3>1. WantedKey(u) # WantedKey(t) BY <2>1, <2>3 DEF KeyLockHeld, LockSteps
    <3> QED BY <3>1, <1>1, <1>2, <1>3
  <2> QED BY <1>3, <2>2, <2>3
<1>4. ASSUME NEW u \in Preps \ {t}, NEW v \in Preps \ {t}, u # v,
             prep'[u].pc \in LockSteps, prep'[v].pc \in LockSteps
      PROVE WantedKey(u)' # WantedKey(v)'
  <2>1. WantedKey(u) # WantedKey(v) BY <1>1, <1>4 DEF PrepInv, LocksExclusive
  <2> QED BY <2>1, <1>1
<1> QED BY <1>3, <1>4 DEF LocksExclusive

(* Fewer entries and no new stage need no more room.                           *)
LEMMA BoundedFrame ==
  ASSUME PrepInv, staged' \subseteq staged,
         \A k \in StoreKeys : entry[k] = "absent" => entry'[k] = "absent"
  PROVE  StoreBounded'
<1>1. Present(entry') \subseteq Present(entry) BY DEF Present
<1>2. /\ Cardinality(Present(entry')) \in Nat /\ Cardinality(Present(entry)) \in Nat
      /\ Cardinality(Present(entry')) <= Cardinality(Present(entry))
  BY <1>1, Counted DEF Present
<1>3. /\ Cardinality(staged') \in Nat /\ Cardinality(staged) \in Nat
      /\ Cardinality(staged') <= Cardinality(staged)
  BY Counted DEF PrepInv, PrepTypeOK
<1>4. Cardinality(Present(entry)) + Cardinality(staged) <= Capacity
  BY DEF PrepInv, StoreBounded, Present
<1>5. Cardinality(Present(entry')) + Cardinality(staged') <= Capacity
  BY <1>2, <1>3, <1>4, PrepAssumption
<1> QED BY <1>5 DEF StoreBounded, Present

(* What stays keeps its content.                                               *)
LEMMA ExactFrame ==
  ASSUME PrepInv, StoreShrinks
  PROVE  DependenciesExact'
<1> SUFFICES ASSUME NEW t \in Preps, ReconcileEvictions'[KeyOf[t]["deps"]] # "absent"
    PROVE content'[KeyOf[t]["deps"]] = Objects
  BY DEF DependenciesExact
<1>1. KeyOf[t]["deps"] \in StoreKeys BY KeyInStore DEF Roles
<1>2. ReconcileEvictions[KeyOf[t]["deps"]] # "absent" BY <1>1 DEF StoreShrinks
<1>3. content[KeyOf[t]["deps"]] = Objects BY <1>2 DEF PrepInv, DependenciesExact
<1> QED BY <1>1, <1>3 DEF StoreShrinks

(* Finishing the evictions that were begun, and more of them that touch no     *)
(* pinned entry, only shrinks the store.                                       *)
LEMMA ForgetShrinks ==
  ASSUME PrepInv, NEW e, e \in [StoreKeys -> EntryStates], ForgetEvicted(e),
         \A k \in StoreKeys :
           /\ ReconcileEvictions[k] = "absent" => e[k] = "absent"
           /\ ReconcileEvictions[k] = "sealed" /\ k \in LivePinnedKeys(clock) => e[k] = "sealed"
  PROVE  StoreShrinks /\ \A k \in StoreKeys : ReconcileEvictions'[k] = e[k]
<1>1. entry' = e /\ evicting' = {} BY DEF ForgetEvicted
<1>2. \A k \in StoreKeys : ReconcileEvictions'[k] = e[k]
  BY <1>1 DEF ReconcileEvictions
<1>3. \A k \in StoreKeys : e[k] # "absent" => content'[k] = content[k]
  BY DEF ForgetEvicted
<1>4. \A k \in StoreKeys : entry[k] = "absent" => ReconcileEvictions[k] = "absent"
  BY DEF ReconcileEvictions
<1> QED BY <1>1, <1>2, <1>3, <1>4 DEF StoreShrinks

(* The entries after the evictions under way are entries.                      *)
LEMMA ReconciledType ==
  ASSUME PrepTypeOK
  PROVE  ReconcileEvictions \in [StoreKeys -> EntryStates]
BY DEF PrepTypeOK, ReconcileEvictions, EntryStates

(* Finishing the evictions under way and nothing else.                         *)
LEMMA ReconcileShrinks ==
  ASSUME PrepInv, ForgetEvicted(ReconcileEvictions)
  PROVE  StoreShrinks
<1>1. ReconcileEvictions \in [StoreKeys -> EntryStates] BY ReconciledType DEF PrepInv
<1> QED BY <1>1, ForgetShrinks

(* Victims are never pinned: a preparation's clock is not ahead.               *)
LEMMA VictimsNotPinned ==
  ASSUME PrepInv, NEW now \in Nat, now <= clock,
         NEW V, V \subseteq EvictionCandidates(ReconcileEvictions, now)
  PROVE  V \cap LivePinnedKeys(clock) = {}
<1> SUFFICES ASSUME NEW k \in StoreKeys, k \in LivePinnedKeys(clock) PROVE k \notin V
  BY DEF LivePinnedKeys
<1>1. PICK t \in Preps : \E r \in Roles :
        pin[t][r] > clock /\ (k = KeyOf[t][r] \/ (r = "run" /\ k \in Composition(t)))
  BY DEF LivePinnedKeys
<1>2. PICK r \in Roles :
        pin[t][r] > clock /\ (k = KeyOf[t][r] \/ (r = "run" /\ k \in Composition(t)))
  BY <1>1
<1>3. pin[t][r] \in Nat /\ clock \in Nat BY DEF PrepInv, PrepTypeOK
<1>4. pin[t][r] > now BY <1>2, <1>3
<1>5. k \in LivePinnedKeys(now) BY <1>2, <1>4 DEF LivePinnedKeys
<1> QED BY <1>5 DEF EvictionCandidates

(* Evicting candidates only shrinks the store.                                 *)
LEMMA EvictShrinks ==
  ASSUME PrepInv, NEW now \in Nat, now <= clock,
         NEW V, V \in OldestFirst(EvictionCandidates(ReconcileEvictions, now)),
         ForgetEvicted(Evict(ReconcileEvictions, V))
  PROVE  /\ StoreShrinks
         /\ entry' = Evict(ReconcileEvictions, V)
<1>1. V \subseteq EvictionCandidates(ReconcileEvictions, now) BY DEF OldestFirst
<1>2. V \cap LivePinnedKeys(clock) = {} BY <1>1, VictimsNotPinned
<1>3. ReconcileEvictions \in [StoreKeys -> EntryStates] BY ReconciledType DEF PrepInv
<1>4. Evict(ReconcileEvictions, V) \in [StoreKeys -> EntryStates]
  BY <1>3 DEF Evict, EntryStates
<1>5. \A k \in StoreKeys :
        /\ ReconcileEvictions[k] = "absent" => Evict(ReconcileEvictions, V)[k] = "absent"
        /\ ReconcileEvictions[k] = "sealed" /\ k \in LivePinnedKeys(clock) =>
             Evict(ReconcileEvictions, V)[k] = "sealed"
  BY <1>2 DEF Evict
<1>6. StoreShrinks BY <1>4, <1>5, ForgetShrinks
<1> QED BY <1>6 DEF ForgetEvicted

(* Expired pins and the guards of a preparation only go.                       *)
LEMMA GuardsGo ==
  ASSUME PrepTypeOK, NEW t \in Preps, NEW now \in Nat,
         NEW p, p \in {pin, CleanupExpiredPins(now)}, pin' \in {p, DropGuards(t, p)}
  PROVE  PinsShrink
<1>1. /\ p \in [Preps -> [Roles -> Nat]]
      /\ \A u \in Preps : \A r \in Roles : p[u][r] > 0 => p[u][r] = pin[u][r]
  <2>1. CASE p = pin BY <2>1 DEF PrepTypeOK
  <2>2. CASE p = CleanupExpiredPins(now) BY <2>2 DEF PrepTypeOK, CleanupExpiredPins
  <2> QED BY <2>1, <2>2
<1>2. CASE pin' = p BY <1>1, <1>2 DEF PinsShrink
<1>3. CASE pin' = DropGuards(t, p)
  <2>1. DropGuards(t, p) \in [Preps -> [Roles -> Nat]]
    BY <1>1 DEF DropGuards, Roles
  <2>2. ASSUME NEW u \in Preps, NEW r \in Roles, DropGuards(t, p)[u][r] > 0
        PROVE DropGuards(t, p)[u][r] = p[u][r]
    BY <1>1, <2>2 DEF DropGuards, Roles
  <2>3. ASSUME NEW u \in Preps, NEW r \in Roles, DropGuards(t, p)[u][r] > 0
        PROVE DropGuards(t, p)[u][r] = pin[u][r]
    BY <1>1, <2>2, <2>3
  <2> QED BY <1>3, <2>1, <2>3 DEF PinsShrink
<1> QED BY <1>2, <1>3

(* A store that did not change did shrink.                                     *)
LEMMA StoreUnchanged ==
  ASSUME PrepInv, UNCHANGED <<entry, content, evicting>>
  PROVE  StoreShrinks
<1>1. \A k \in StoreKeys : ReconcileEvictions'[k] = ReconcileEvictions[k]
  BY DEF ReconcileEvictions
<1> QED BY <1>1 DEF StoreShrinks, PrepInv, PrepTypeOK

(* Pins that did not change did shrink.                                        *)
LEMMA PinsUnchanged ==
  ASSUME PrepTypeOK, UNCHANGED pin
  PROVE  PinsShrink
BY DEF PrepTypeOK, PinsShrink

(* A preparation that moves to a step without the key lock, in a store that    *)
(* shrinks, keeps everything but what the pins say.                            *)
LEMMA MoveStep ==
  ASSUME PrepInv, NEW t \in Preps, NEW row \in PrepRows, prep' = [prep EXCEPT ![t] = row],
         row.now <= clock, row.pc \notin LockSteps, StoreShrinks,
         pin' \in [Preps -> [Roles -> Nat]],
         UNCHANGED <<fetched, staged, opened, clock>>,
         reserved' = reserved \/ (reserved' = reserved \ {t} /\ prep[t].pc = "settle"),
         PrepTypeOK' => PinnedStaysWhole'
  PROVE  PrepInv'
<1>1. OthersKeep(t) BY DEF OthersKeep, PrepInv, PrepTypeOK
<1>2. PrepTypeOK' BY <1>1 DEF OthersKeep, PrepInv, PrepTypeOK, StoreShrinks
<1>3. \A u \in Preps \ {t} : RowSound(u)'
  <2>1. \A u \in Preps : WantedKey(u) \in StoreKeys
    BY KeyInStore DEF WantedKey, PrepInv, PrepTypeOK, PrepRows
  <2>2. \A u \in Preps \ {t} :
          prep[u].pc \in ProducerSteps /\ ReconcileEvictions[WantedKey(u)] = "absent" =>
            ReconcileEvictions'[WantedKey(u)] = "absent"
    BY <2>1 DEF StoreShrinks
  <2>3. clock' \in Nat /\ clock <= clock' /\ opened' = opened BY DEF PrepInv, PrepTypeOK
  <2> QED BY <1>1, <2>2, <2>3, OtherRowsSound
<1>4. prep'[t] = row BY DEF PrepInv, PrepTypeOK
<1>5. RowSound(t)' BY <1>4 DEF RowSound, LockSteps, ProducerSteps
<1>6. RowsSound' BY <1>3, <1>5 DEF RowsSound
<1>7. LocksExclusive' BY <1>1, <1>4, LocksFrame
<1>8. StagesReserved'
  BY DEF PrepInv, StagesReserved, RowsSound, RowSound
<1>9. StoreBounded'
  <2>1. \A k \in StoreKeys : entry[k] = "absent" => entry'[k] = "absent" BY DEF StoreShrinks
  <2> QED BY <2>1, BoundedFrame
<1>10. DependenciesExact' BY ExactFrame
<1> QED BY <1>2, <1>6, <1>7, <1>8, <1>9, <1>10 DEF PrepInv

(* A preparation that gives up, in a store that shrinks and under pins that    *)
(* go, keeps the invariant.                                                    *)
LEMMA GiveUpStep ==
  ASSUME PrepInv, NEW t \in Preps, GiveUp(t), StoreShrinks, PinsShrink, UNCHANGED <<opened, clock>>
  PROVE  PrepInv'
<1>1. /\ prep' = [prep EXCEPT ![t].pc = "failed"]
      /\ reserved' = reserved \ {t} /\ staged' = staged \ {t}
      /\ fetched' = [fetched EXCEPT ![t] = {}]
  BY DEF GiveUp, PrepGoto
<1>2. OthersKeep(t)
  <2>1. prep' \in [Preps -> PrepRows] BY ZenonT(60), <1>1 DEF PrepInv, PrepTypeOK, PrepRows, PrepSteps
  <2> QED BY <1>1, <2>1 DEF OthersKeep, PrepInv, PrepTypeOK
<1>3. PrepTypeOK' BY <1>2 DEF OthersKeep, PrepInv, PrepTypeOK, StoreShrinks, PinsShrink
<1>4. clock \in Nat /\ clock' = clock BY DEF PrepInv, PrepTypeOK
<1>5. \A u \in Preps \ {t} : RowSound(u)'
  <2>1. \A u \in Preps : WantedKey(u) \in StoreKeys
    BY KeyInStore DEF WantedKey, PrepInv, PrepTypeOK, PrepRows
  <2>2. \A u \in Preps \ {t} :
          prep[u].pc \in ProducerSteps /\ ReconcileEvictions[WantedKey(u)] = "absent" =>
            ReconcileEvictions'[WantedKey(u)] = "absent"
    BY <2>1 DEF StoreShrinks
  <2>3. clock' \in Nat /\ clock <= clock' /\ opened' = opened BY <1>4
  <2> QED BY <1>2, <2>2, <2>3, OtherRowsSound
<1>6. prep'[t].pc = "failed" /\ prep'[t].now = prep[t].now
  BY <1>1 DEF PrepInv, PrepTypeOK, PrepRows
<1>7. RowSound(t)'
  BY <1>4, <1>6 DEF RowSound, LockSteps, ProducerSteps, PrepInv, RowsSound
<1>8. RowsSound' BY <1>5, <1>7 DEF RowsSound
<1>9. LocksExclusive' BY <1>2, <1>6, LocksFrame DEF LockSteps
<1>10. StagesReserved' BY <1>1 DEF PrepInv, StagesReserved
<1>11. StoreBounded'
  <2>1. \A k \in StoreKeys : entry[k] = "absent" => entry'[k] = "absent" BY DEF StoreShrinks
  <2> QED BY <1>1, <2>1, BoundedFrame
<1>12. DependenciesExact' BY ExactFrame
<1>13. PinnedStaysWhole' BY <1>3, <1>4, PinsKept
<1> QED BY <1>3, <1>8, <1>9, <1>10, <1>11, <1>12, <1>13 DEF PrepInv

(* A preparation that moves inside its key lock, or takes it, without staging  *)
(* or committing: its own row is left to show.                                 *)
LEMMA LockStep ==
  ASSUME PrepInv, NEW t \in Preps, NEW row \in PrepRows, prep' = [prep EXCEPT ![t] = row],
         row.role = prep[t].role, prep[t].pc \in LockSteps \/ ~ KeyLockHeld(WantedKey(t)),
         StoreShrinks, PinsShrink, UNCHANGED <<staged, reserved, opened, clock>>,
         fetched' \in [Preps -> SUBSET Objects],
         \A u \in Preps \ {t} : fetched'[u] = fetched[u], RowSound(t)'
  PROVE  PrepInv'
<1>1. OthersKeep(t) BY DEF OthersKeep, PrepInv, PrepTypeOK
<1>2. PrepTypeOK' BY <1>1 DEF OthersKeep, PrepInv, PrepTypeOK, StoreShrinks, PinsShrink
<1>3. \A u \in Preps \ {t} : RowSound(u)'
  <2>1. \A u \in Preps : WantedKey(u) \in StoreKeys
    BY KeyInStore DEF WantedKey, PrepInv, PrepTypeOK, PrepRows
  <2>2. \A u \in Preps \ {t} :
          prep[u].pc \in ProducerSteps /\ ReconcileEvictions[WantedKey(u)] = "absent" =>
            ReconcileEvictions'[WantedKey(u)] = "absent"
    BY <2>1 DEF StoreShrinks
  <2>3. clock' \in Nat /\ clock <= clock' /\ opened' = opened BY DEF PrepInv, PrepTypeOK
  <2> QED BY <1>1, <2>2, <2>3, OtherRowsSound
<1>4. RowsSound' BY <1>3 DEF RowsSound
<1>5. prep'[t] = row BY DEF PrepInv, PrepTypeOK
<1>6. LocksExclusive' BY <1>1, <1>5, LocksFrame
<1>7. StagesReserved' BY DEF PrepInv, StagesReserved
<1>8. StoreBounded'
  <2>1. \A k \in StoreKeys : entry[k] = "absent" => entry'[k] = "absent" BY DEF StoreShrinks
  <2> QED BY <2>1, BoundedFrame
<1>9. DependenciesExact' BY ExactFrame
<1>10. clock <= clock' BY DEF PrepInv, PrepTypeOK
<1>11. PinnedStaysWhole' BY <1>2, <1>10, PinsKept
<1> QED BY <1>2, <1>4, <1>6, <1>7, <1>8, <1>9, <1>11 DEF PrepInv

(* The row of a preparation whose step alone changes.                          *)
LEMMA GotoRow ==
  ASSUME PrepTypeOK, NEW t \in Preps, NEW pc \in PrepSteps, PrepGoto(t, pc)
  PROVE  \E row \in PrepRows :
           /\ prep' = [prep EXCEPT ![t] = row]
           /\ row.pc = pc /\ row.role = prep[t].role /\ row.now = prep[t].now
           /\ row.cancelled = prep[t].cancelled
<1> DEFINE row == [prep[t] EXCEPT !.pc = pc]
<1>1. row \in PrepRows /\ row.pc = pc /\ row.role = prep[t].role /\ row.now = prep[t].now
      /\ row.cancelled = prep[t].cancelled
  BY DEF PrepTypeOK, PrepRows
<1>2. prep' = [prep EXCEPT ![t] = row] BY DEF PrepGoto
<1> HIDE DEF row
<1> QED BY <1>1, <1>2

(* A preparation that goes on to a step without the key lock, changing its     *)
(* step alone.                                                                 *)
LEMMA GotoStep ==
  ASSUME PrepInv, NEW t \in Preps, NEW pc \in PrepSteps \ LockSteps, PrepGoto(t, pc),
         StoreShrinks, PinsShrink, UNCHANGED <<fetched, staged, opened, clock>>,
         reserved' = reserved \/ (reserved' = reserved \ {t} /\ prep[t].pc = "settle")
  PROVE  PrepInv'
<1>1. PrepTypeOK /\ clock \in Nat /\ clock <= clock' /\ prep[t].now <= clock
  BY DEF PrepInv, PrepTypeOK, RowsSound, RowSound
<1>2. PICK row \in PrepRows :
         /\ prep' = [prep EXCEPT ![t] = row]
         /\ row.pc = pc /\ row.role = prep[t].role /\ row.now = prep[t].now
         /\ row.cancelled = prep[t].cancelled
  BY <1>1, GotoRow
<1>3. pin' \in [Preps -> [Roles -> Nat]] BY DEF PinsShrink
<1>4. PrepTypeOK' => PinnedStaysWhole' BY <1>1, PinsKept
<1>5. row.now <= clock /\ row.pc \notin LockSteps BY <1>1, <1>2
<1> QED BY <1>2, <1>3, <1>4, <1>5, MoveStep

(* A found or committed object is pinned next; a run that is there is ready.   *)
LEMMA AfterEntryStep ==
  ASSUME PrepInv, NEW t \in Preps, AfterEntry(t), StoreShrinks,
         UNCHANGED <<fetched, staged, opened, clock>>,
         reserved' = reserved \/ (reserved' = reserved \ {t} /\ prep[t].pc = "settle")
  PROVE  PrepInv'
<1>1. PrepTypeOK BY DEF PrepInv
<1>2. CASE prep[t].role # "run"
  <2>1. PrepGoto(t, "pin") /\ UNCHANGED pin BY <1>2 DEF AfterEntry
  <2>2. PinsShrink BY <1>1, <2>1, PinsUnchanged
  <2>3. "pin" \in PrepSteps \ LockSteps BY DEF PrepSteps, LockSteps
  <2> QED BY <2>1, <2>2, <2>3, GotoStep
<1>3. CASE prep[t].role = "run"
  <2>1. PICK pc \in {"failed", "ready"} : PrepGoto(t, pc) /\ pin' = DropGuards(t, pin)
    BY <1>3 DEF AfterEntry
  <2>2. PinsShrink
    <3>1. 0 \in Nat /\ pin \in {pin, CleanupExpiredPins(0)}
          /\ pin' \in {pin, DropGuards(t, pin)}
      BY <2>1
    <3> QED BY <1>1, <3>1, GuardsGo
  <2>3. pc \in PrepSteps \ LockSteps BY DEF PrepSteps, LockSteps
  <2> QED BY <2>1, <2>2, <2>3, GotoStep
<1> QED BY <1>2, <1>3

(* Dropping the guards of a preparation that gives up.                         *)
LEMMA DropGuardsShrinks ==
  ASSUME PrepInv, NEW t \in Preps, pin' = DropGuards(t, pin)
  PROVE  PinsShrink
<1>1. 0 \in Nat /\ pin \in {pin, CleanupExpiredPins(0)} /\ pin' \in {pin, DropGuards(t, pin)}
  OBVIOUS
<1>2. PrepTypeOK BY DEF PrepInv
<1> QED BY <1>1, <1>2, GuardsGo

(* And when the expired pins go first.                                         *)
LEMMA CleanupShrinks ==
  ASSUME PrepInv, NEW t \in Preps, NEW now \in Nat,
         pin' \in {CleanupExpiredPins(now), DropGuards(t, CleanupExpiredPins(now))}
  PROVE  PinsShrink
<1> DEFINE p == CleanupExpiredPins(now)
<1>1. p \in {pin, CleanupExpiredPins(now)} /\ pin' \in {p, DropGuards(t, p)} OBVIOUS
<1>2. PrepTypeOK BY DEF PrepInv
<1> HIDE DEF p
<1> QED BY <1>1, <1>2, GuardsGo

(* A preparation begins with its first role and holds nothing.                 *)
LEMMA BeginPreparationKeeps ==
  ASSUME PrepInv, NEW t \in Preps, BeginPreparation(t)
  PROVE  PrepInv'
<1> DEFINE row == [pc |-> "open", role |-> "source", now |-> clock, cancelled |-> FALSE]
<1>1. PrepTypeOK /\ clock \in Nat BY DEF PrepInv, PrepTypeOK
<1>2. row \in PrepRows /\ row.now <= clock /\ row.pc \notin LockSteps
  BY <1>1 DEF PrepRows, PrepSteps, Roles, LockSteps
<1>3. prep' = [prep EXCEPT ![t] = row] BY DEF BeginPreparation
<1>4. UNCHANGED <<fetched, staged, reserved, opened, clock, entry, content, evicting, pin>>
  BY DEF BeginPreparation, disk
<1>5. StoreShrinks BY <1>4, StoreUnchanged
<1>6. PinsShrink BY <1>1, <1>4, PinsUnchanged
<1>7. pin' \in [Preps -> [Roles -> Nat]] BY <1>6 DEF PinsShrink
<1>8. clock <= clock' BY <1>1, <1>4
<1>9. PrepTypeOK' => PinnedStaysWhole' BY <1>5, <1>6, <1>8, PinsKept
<1> HIDE DEF row
<1> QED BY <1>2, <1>3, <1>4, <1>5, <1>7, <1>9, MoveStep

(* Looking up an entry finishes interrupted evictions and commits first.       *)
LEMMA OpenExistingKeeps ==
  ASSUME PrepInv, NEW t \in Preps, OpenExisting(t)
  PROVE  PrepInv'
<1> DEFINE k == WantedKey(t)
           e == ReconcileEvictions
<1>1. PICK s : s = [e EXCEPT ![k] = IF @ = "committing" THEN "sealed" ELSE @] OBVIOUS
<1>2. /\ opened /\ prep[t].pc = "open" /\ ~ KeyLockHeld(k)
      /\ ForgetEvicted(s) /\ UNCHANGED <<created, opened, clock, prepFaults>>
      /\ IF e[k] = "absent"
         THEN PrepGoto(t, "reserve") /\ UNCHANGED <<access, pin, reserved, staged, fetched>>
         ELSE UseEntry(t, s)
  BY <1>1 DEF OpenExisting
<1>3. PrepTypeOK /\ clock \in Nat /\ prep[t].now <= clock
  BY DEF PrepInv, PrepTypeOK, RowsSound, RowSound
<1>4. k \in StoreKeys BY <1>3, KeyInStore DEF WantedKey, PrepTypeOK, PrepRows
<1>5. e \in [StoreKeys -> EntryStates] BY <1>3, ReconciledType
<1>6. /\ s \in [StoreKeys -> EntryStates]
      /\ \A j \in StoreKeys : /\ e[j] = "absent" => s[j] = "absent"
                              /\ e[j] = "sealed" => s[j] = "sealed"
  <2> HIDE DEF k, e
  <2> QED BY <1>1, <1>4, <1>5 DEF EntryStates
<1>7. StoreShrinks /\ \A j \in StoreKeys : ReconcileEvictions'[j] = s[j]
  BY <1>2, <1>6, ForgetShrinks
<1>8. CASE e[k] = "absent"
  <2>1. PrepGoto(t, "reserve") /\ UNCHANGED <<pin, reserved, staged, fetched>>
    BY <1>2, <1>8
  <2>2. "reserve" \in PrepSteps BY DEF PrepSteps
  <2>3. PICK row \in PrepRows :
         /\ prep' = [prep EXCEPT ![t] = row]
         /\ row.pc = "reserve" /\ row.role = prep[t].role /\ row.now = prep[t].now
         /\ row.cancelled = prep[t].cancelled
    BY <1>3, <2>1, <2>2, GotoRow
  <2>4. prep'[t] = row BY <1>3, <2>3 DEF PrepTypeOK
  <2>5. WantedKey(t)' = k BY <2>3, <2>4 DEF WantedKey
  <2>6. ReconcileEvictions'[k] = "absent" BY <1>4, <1>6, <1>7, <1>8
  <2>7. RowSound(t)'
    BY <1>2, <1>3, <2>3, <2>4, <2>5, <2>6 DEF RowSound
  <2>8. PinsShrink BY <1>3, <2>1, PinsUnchanged
  <2>9. fetched' \in [Preps -> SUBSET Objects] /\ \A u \in Preps \ {t} : fetched'[u] = fetched[u]
    BY <1>3, <2>1 DEF PrepTypeOK
  <2>10. row.role = prep[t].role /\ ~ KeyLockHeld(WantedKey(t)) BY <1>2, <2>3
  <2>11. UNCHANGED <<staged, reserved, opened, clock>> BY <1>2, <2>1
  <2> QED BY <1>7, <2>3, <2>7, <2>8, <2>9, <2>10, <2>11, LockStep
<1>9. CASE e[k] # "absent"
  <2>1. UseEntry(t, s) BY <1>2, <1>9
  <2>2. CASE AfterEntry(t) /\ UNCHANGED <<reserved, staged, fetched>>
    BY <1>2, <1>7, <2>2, AfterEntryStep
  <2>3. CASE GiveUp(t) /\ pin' = DropGuards(t, pin)
    <3>1. PinsShrink BY <2>3, DropGuardsShrinks
    <3> QED BY <1>2, <1>7, <2>3, <3>1, GiveUpStep
  <2> QED BY <2>1, <2>2, <2>3 DEF UseEntry
<1> QED BY <1>8, <1>9

(* Making room never touches what is pinned, and the stage that is made has    *)
(* been counted among the reservations.                                        *)
LEMMA ReserveKeeps ==
  ASSUME PrepInv, NEW t \in Preps, Reserve(t)
  PROVE  PrepInv'
<1>1. PICK V \in OldestFirst(EvictionCandidates(ReconcileEvictions, prep[t].now)) :
        Fits(Evict(ReconcileEvictions, V)) /\ ForgetEvicted(Evict(ReconcileEvictions, V))
  BY DEF Reserve
<1>2. /\ opened /\ prep[t].pc = "reserve"
      /\ pin' = CleanupExpiredPins(prep[t].now)
      /\ reserved' = reserved \cup {t} /\ staged' = staged \cup {t}
      /\ PrepGoto(t, "produce") /\ UNCHANGED <<fetched, opened, clock>>
  BY DEF Reserve
<1>3. PrepTypeOK /\ clock \in Nat /\ prep[t].now <= clock /\ prep[t].now \in Nat /\ RowSound(t)
  BY DEF PrepInv, PrepTypeOK, RowsSound, RowSound, PrepRows
<1>4. StoreShrinks /\ entry' = Evict(ReconcileEvictions, V) BY <1>1, <1>3, EvictShrinks
<1>5. PinsShrink
  <2>1. pin' \in {CleanupExpiredPins(prep[t].now), DropGuards(t, CleanupExpiredPins(prep[t].now))}
    BY <1>2
  <2> QED BY <1>3, <2>1, CleanupShrinks
<1>6. "produce" \in PrepSteps BY DEF PrepSteps
<1>7. PICK row \in PrepRows :
         /\ prep' = [prep EXCEPT ![t] = row]
         /\ row.pc = "produce" /\ row.role = prep[t].role /\ row.now = prep[t].now
         /\ row.cancelled = prep[t].cancelled
  BY <1>2, <1>3, <1>6, GotoRow
<1>8. prep'[t] = row BY <1>3, <1>7 DEF PrepTypeOK
<1>9. OthersKeep(t) BY <1>2, <1>3, <1>7 DEF OthersKeep, PrepTypeOK
<1>10. PrepTypeOK' BY <1>2, <1>3, <1>4, <1>5, <1>9 DEF OthersKeep, PrepTypeOK, StoreShrinks, PinsShrink
<1>11. \A u \in Preps : WantedKey(u) \in StoreKeys
  BY <1>3, KeyInStore DEF WantedKey, PrepTypeOK, PrepRows
<1>12. \A u \in Preps \ {t} : RowSound(u)'
  <2>1. \A u \in Preps \ {t} :
          prep[u].pc \in ProducerSteps /\ ReconcileEvictions[WantedKey(u)] = "absent" =>
            ReconcileEvictions'[WantedKey(u)] = "absent"
    BY <1>4, <1>11 DEF StoreShrinks
  <2>2. clock' \in Nat /\ clock <= clock' /\ opened' = opened BY <1>2, <1>3
  <2> QED BY <1>9, <2>1, <2>2, OtherRowsSound
<1>13. RowSound(t)'
  <2>1. WantedKey(t)' = WantedKey(t) BY <1>7, <1>8 DEF WantedKey
  <2>2. ReconcileEvictions[WantedKey(t)] = "absent"
    BY <1>2, <1>3 DEF RowSound, ProducerSteps
  <2>3. ReconcileEvictions'[WantedKey(t)] = "absent"
    BY <1>4, <1>11, <2>2 DEF StoreShrinks
  <2> QED BY <1>2, <1>3, <1>7, <1>8, <2>1, <2>3 DEF RowSound
<1>14. RowsSound' BY <1>12, <1>13 DEF RowsSound
<1>15. LocksExclusive'
  <2>1. prep'[t].role = prep[t].role /\ prep[t].pc \in LockSteps
    BY <1>2, <1>7, <1>8 DEF LockSteps
  <2> QED BY <1>9, <2>1, LocksFrame
<1>16. StagesReserved' BY <1>2 DEF PrepInv, StagesReserved
<1>17. StoreBounded'
  <2>1. Cardinality(Present(entry')) + Cardinality(reserved) + 1 <= Capacity
    BY <1>1, <1>4 DEF Fits, ScanUsage, Present
  <2>2. Cardinality(Present(entry')) \in Nat BY Counted DEF Present
  <2>3. staged \subseteq reserved /\ reserved \subseteq Preps
    BY <1>2 DEF PrepInv, StagesReserved, PrepTypeOK
  <2>4. /\ IsFiniteSet(staged) /\ Cardinality(staged) \in Nat /\ Cardinality(reserved) \in Nat
        /\ Cardinality(staged) <= Cardinality(reserved)
    BY <2>3, Counted
  <2>5. Cardinality(staged') <= Cardinality(staged) + 1 /\ Cardinality(staged') \in Nat
    <3>1. Cardinality(staged \cup {t}) =
            IF t \in staged THEN Cardinality(staged) ELSE Cardinality(staged) + 1
      BY <2>4, FS_AddElement
    <3> QED BY <1>2, <2>4, <3>1
  <2>6. Cardinality(Present(entry')) + Cardinality(staged') <= Capacity
    BY <2>1, <2>2, <2>4, <2>5, PrepAssumption
  <2> QED BY <2>6 DEF StoreBounded, Present
<1>18. DependenciesExact' BY <1>4, ExactFrame
<1>19. clock <= clock' BY <1>2, <1>3
<1>20. PinnedStaysWhole' BY <1>4, <1>5, <1>10, <1>19, PinsKept
<1> QED BY <1>10, <1>14, <1>15, <1>16, <1>17, <1>18, <1>20 DEF PrepInv

(* A reservation that is refused has evicted what it could, and pinned entries *)
(* are none of it.                                                             *)
LEMMA ReserveRefusedKeeps ==
  ASSUME PrepInv, NEW t \in Preps, ReserveRefused(t)
  PROVE  PrepInv'
<1>1. PICK V \in OldestFirst(EvictionCandidates(ReconcileEvictions, prep[t].now)) :
        ForgetEvicted(Evict(ReconcileEvictions, V))
  BY DEF ReserveRefused
<1>2. /\ pin' = DropGuards(t, CleanupExpiredPins(prep[t].now))
      /\ GiveUp(t) /\ UNCHANGED <<opened, clock>>
  BY DEF ReserveRefused
<1>3. prep[t].now <= clock /\ prep[t].now \in Nat
  BY DEF PrepInv, PrepTypeOK, RowsSound, RowSound, PrepRows
<1>4. StoreShrinks BY <1>1, <1>3, EvictShrinks
<1>5. pin' \in {CleanupExpiredPins(prep[t].now), DropGuards(t, CleanupExpiredPins(prep[t].now))}
  BY <1>2
<1>6. PinsShrink BY <1>3, <1>5, CleanupShrinks
<1> QED BY <1>2, <1>4, <1>6, GiveUpStep

(* An eviction that stops half way has begun on an entry nobody pinned.        *)
LEMMA EvictionStopsKeeps ==
  ASSUME PrepInv, NEW t \in Preps, EvictionStops(t)
  PROVE  PrepInv'
<1> DEFINE e == ReconcileEvictions
<1>1. PICK k \in EvictionCandidates(e, prep[t].now) :
        /\ entry' = e /\ evicting' = {k}
        /\ content' = [j \in StoreKeys |-> IF e[j] = "absent" THEN {} ELSE content[j]]
  BY DEF EvictionStops
<1>2. /\ pin' = DropGuards(t, CleanupExpiredPins(prep[t].now))
      /\ GiveUp(t) /\ UNCHANGED <<opened, clock>>
  BY DEF EvictionStops
<1>3. prep[t].now <= clock /\ prep[t].now \in Nat
  BY DEF PrepInv, PrepTypeOK, RowsSound, RowSound, PrepRows
<1>4. k \in StoreKeys /\ k \notin LivePinnedKeys(clock)
  <2>1. {k} \subseteq EvictionCandidates(ReconcileEvictions, prep[t].now) BY <1>1
  <2>2. {k} \cap LivePinnedKeys(clock) = {} BY <1>3, <2>1, VictimsNotPinned
  <2> QED BY <1>1, <2>2 DEF EvictionCandidates
<1>5. e \in [StoreKeys -> EntryStates] BY ReconciledType DEF PrepInv
<1>6. \A j \in StoreKeys :
        /\ ReconcileEvictions'[j] = IF j = k THEN "absent" ELSE e[j]
        /\ entry[j] = "absent" => e[j] = "absent"
  BY <1>1 DEF ReconcileEvictions
<1>7. StoreShrinks BY <1>1, <1>4, <1>5, <1>6 DEF StoreShrinks
<1>8. pin' \in {CleanupExpiredPins(prep[t].now), DropGuards(t, CleanupExpiredPins(prep[t].now))}
  BY <1>2
<1>9. PinsShrink BY <1>3, <1>8, CleanupShrinks
<1> QED BY <1>2, <1>7, <1>9, GiveUpStep

(* An object is written below the stage of a preparation that still produces.  *)
LEMMA WriteObjectKeeps ==
  ASSUME PrepInv, NEW t \in Preps, NEW o \in Objects, Fetching(t), WriteObject(t, o)
  PROVE  PrepInv'
<1>1. /\ fetched' = [fetched EXCEPT ![t] = @ \cup {o}]
      /\ UNCHANGED <<entry, content, evicting, pin, prep, staged, reserved, opened, clock>>
  BY DEF WriteObject, disk
<1>2. prep[t].pc = "produce" BY DEF Fetching
<1>3. PrepTypeOK /\ prep[t] \in PrepRows /\ RowSound(t) /\ clock \in Nat
  BY DEF PrepInv, PrepTypeOK, RowsSound
<1>4. StoreShrinks BY <1>1, StoreUnchanged
<1>5. PinsShrink BY <1>1, <1>3, PinsUnchanged
<1>6. prep' = [prep EXCEPT ![t] = prep[t]] BY <1>1, <1>3 DEF PrepTypeOK
<1>7. fetched' \in [Preps -> SUBSET Objects] /\ \A u \in Preps \ {t} : fetched'[u] = fetched[u]
  BY <1>1, <1>3 DEF PrepTypeOK
<1>8. ReconcileEvictions' = ReconcileEvictions BY <1>1 DEF ReconcileEvictions
<1>9. WantedKey(t)' = WantedKey(t) BY <1>1 DEF WantedKey
<1>10. RowSound(t)'
  BY <1>1, <1>2, <1>3, <1>8, <1>9 DEF RowSound
<1>11. prep[t].pc \in LockSteps BY <1>2 DEF LockSteps
<1>12. UNCHANGED <<staged, reserved, opened, clock>> BY <1>1
<1> QED BY <1>3, <1>4, <1>5, <1>6, <1>7, <1>10, <1>11, <1>12, LockStep

(* A stage is sealed when its payload is complete.                             *)
LEMMA SealedKeeps ==
  ASSUME PrepInv, NEW t \in Preps, opened, prep[t].pc = "produce", Sealed(t),
         prep[t].role = "deps" => fetched[t] = Objects
  PROVE  PrepInv'
<1>1. /\ PrepGoto(t, "commit")
      /\ UNCHANGED <<entry, content, evicting, pin, fetched, staged, reserved, opened, clock>>
  BY DEF Sealed, disk
<1>2. PrepTypeOK /\ RowSound(t) /\ clock \in Nat
  BY DEF PrepInv, PrepTypeOK, RowsSound
<1>3. StoreShrinks BY <1>1, StoreUnchanged
<1>4. PinsShrink BY <1>1, <1>2, PinsUnchanged
<1>5. "commit" \in PrepSteps BY DEF PrepSteps
<1>6. PICK row \in PrepRows :
         /\ prep' = [prep EXCEPT ![t] = row]
         /\ row.pc = "commit" /\ row.role = prep[t].role /\ row.now = prep[t].now
         /\ row.cancelled = prep[t].cancelled
  BY <1>1, <1>2, <1>5, GotoRow
<1>7. prep'[t] = row BY <1>2, <1>6 DEF PrepTypeOK
<1>8. ReconcileEvictions' = ReconcileEvictions BY <1>1 DEF ReconcileEvictions
<1>9. WantedKey(t)' = WantedKey(t) BY <1>6, <1>7 DEF WantedKey
<1>10. RowSound(t)'
  BY <1>1, <1>2, <1>6, <1>7, <1>8, <1>9 DEF RowSound, ProducerSteps
<1>11. prep[t].pc \in LockSteps BY DEF LockSteps
<1>12. fetched' \in [Preps -> SUBSET Objects] /\ \A u \in Preps \ {t} : fetched'[u] = fetched[u]
  BY <1>1, <1>2 DEF PrepTypeOK
<1>13. row.role = prep[t].role BY <1>6
<1>14. UNCHANGED <<staged, reserved, opened, clock>> BY <1>1
<1> QED BY <1>3, <1>4, <1>6, <1>10, <1>11, <1>12, <1>13, <1>14, LockStep

(* A producer that fails gives back its reservation and guards.                *)
LEMMA ProducerFailsKeeps ==
  ASSUME PrepInv, NEW t \in Preps, ProducerFails(t) \/ InspectSourceRejects(t)
  PROVE  PrepInv'
<1>1. /\ GiveUp(t) /\ pin' = DropGuards(t, pin)
      /\ UNCHANGED <<entry, content, evicting, opened, clock>>
  BY DEF ProducerFails, InspectSourceRejects
<1>2. StoreShrinks BY <1>1, StoreUnchanged
<1>3. PinsShrink BY <1>1, DropGuardsShrinks
<1> QED BY <1>1, <1>2, <1>3, GiveUpStep

(* A cancellation is seen later: nothing but the flag changes.                 *)
LEMMA CancelKeeps ==
  ASSUME PrepInv, NEW t \in Preps, Cancel(t)
  PROVE  PrepInv'
<1>1. /\ prep' = [prep EXCEPT ![t].cancelled = TRUE]
      /\ UNCHANGED <<entry, content, evicting, pin, fetched, staged, reserved, opened, clock>>
  BY DEF Cancel, disk
<1>2. PrepTypeOK /\ RowSound(t) /\ clock \in Nat /\ prep[t].now <= clock
  BY DEF PrepInv, PrepTypeOK, RowsSound, RowSound
<1>3. StoreShrinks BY <1>1, StoreUnchanged
<1>4. PinsShrink BY <1>1, <1>2, PinsUnchanged
<1>5. PICK row : row = [prep[t] EXCEPT !.cancelled = TRUE] OBVIOUS
<1>6. row \in PrepRows /\ row.pc = prep[t].pc /\ row.role = prep[t].role /\ row.now = prep[t].now
  BY <1>2, <1>5 DEF PrepTypeOK, PrepRows
<1>7. prep' = [prep EXCEPT ![t] = row] BY <1>1, <1>5
<1>8. prep'[t] = row BY <1>2, <1>7 DEF PrepTypeOK
<1>9. ReconcileEvictions' = ReconcileEvictions BY <1>1 DEF ReconcileEvictions
<1>10. WantedKey(t)' = WantedKey(t) BY <1>6, <1>8 DEF WantedKey
<1>11. RowSound(t)'
  BY <1>1, <1>2, <1>6, <1>8, <1>9, <1>10 DEF RowSound
<1>12. UNCHANGED <<staged, reserved, opened, clock>> BY <1>1
<1>13. fetched' \in [Preps -> SUBSET Objects] /\ \A u \in Preps \ {t} : fetched'[u] = fetched[u]
  BY <1>1, <1>2 DEF PrepTypeOK
<1>14. CASE prep[t].pc \in LockSteps
  BY <1>3, <1>4, <1>6, <1>7, <1>11, <1>12, <1>13, <1>14, LockStep
<1>15. CASE prep[t].pc \notin LockSteps
  <2>1. pin' \in [Preps -> [Roles -> Nat]] BY <1>4 DEF PinsShrink
  <2>2. clock <= clock' BY <1>2, <1>12
  <2>3. PrepTypeOK' => PinnedStaysWhole' BY <1>3, <1>4, <2>2, PinsKept
  <2>4. row.now <= clock /\ row.pc \notin LockSteps BY <1>2, <1>6, <1>15
  <2> QED BY <1>1, <1>3, <1>6, <1>7, <2>1, <2>3, <2>4, MoveStep
<1> QED BY <1>14, <1>15

(* A stage becomes an entry under a key where nothing was, in the room that    *)
(* was counted for the stage.                                                  *)
LEMMA CommitStep ==
  ASSUME PrepInv, NEW t \in Preps, opened, prep[t].pc = "commit",
         NEW s \in {"committing", "sealed"},
         entry' = [ReconcileEvictions EXCEPT ![WantedKey(t)] = s], evicting' = {},
         content' = [j \in StoreKeys |->
                       IF j = WantedKey(t) THEN fetched[t]
                       ELSE IF ReconcileEvictions[j] = "absent" THEN {} ELSE content[j]],
         staged' = staged \ {t}, fetched' = [fetched EXCEPT ![t] = {}],
         NEW pc \in {"settle", "failed"}, PrepGoto(t, pc),
         reserved' \in {reserved, reserved \ {t}},
         PinsShrink, UNCHANGED <<opened, clock>>
  PROVE  PrepInv'
<1>1. PrepTypeOK /\ RowSound(t) /\ clock \in Nat /\ prep[t] \in PrepRows
  BY DEF PrepInv, PrepTypeOK, RowsSound
<1> DEFINE k == WantedKey(t)
           e == ReconcileEvictions
<1>2. k \in StoreKeys BY <1>1, KeyInStore DEF WantedKey, PrepRows
<1>3. e \in [StoreKeys -> EntryStates] BY <1>1, ReconciledType
<1>4. e[k] = "absent" BY <1>1 DEF RowSound, ProducerSteps
<1>5. \A j \in StoreKeys : entry'[j] = IF j = k THEN s ELSE e[j]
  <2> HIDE DEF k, e
  <2> QED BY <1>2, <1>3 DEF k, e
<1>6. entry' \in [StoreKeys -> EntryStates] BY <1>2, <1>3 DEF EntryStates
<1>7. \A j \in StoreKeys : ReconcileEvictions'[j] = IF j = k THEN s ELSE e[j]
  BY <1>5 DEF ReconcileEvictions
<1>8. pc \in PrepSteps BY DEF PrepSteps
<1>9. PICK row \in PrepRows :
         /\ prep' = [prep EXCEPT ![t] = row]
         /\ row.pc = pc /\ row.role = prep[t].role /\ row.now = prep[t].now
         /\ row.cancelled = prep[t].cancelled
  BY <1>1, <1>8, GotoRow
<1>10. prep'[t] = row BY <1>1, <1>9 DEF PrepTypeOK
<1>11. OthersKeep(t) BY <1>1, <1>9 DEF OthersKeep, PrepTypeOK
<1>12. PrepTypeOK' BY <1>1, <1>6, <1>11 DEF OthersKeep, PrepTypeOK, PinsShrink
<1>13. \A u \in Preps \ {t} : RowSound(u)'
  <2>1. \A u \in Preps : WantedKey(u) \in StoreKeys
    BY <1>1, KeyInStore DEF WantedKey, PrepTypeOK, PrepRows
  <2>2. \A u \in Preps \ {t} : prep[u].pc \in ProducerSteps => WantedKey(u) # k
    BY DEF PrepInv, LocksExclusive, LockSteps, ProducerSteps
  <2>3. \A u \in Preps \ {t} :
          prep[u].pc \in ProducerSteps /\ ReconcileEvictions[WantedKey(u)] = "absent" =>
            ReconcileEvictions'[WantedKey(u)] = "absent"
    BY <1>7, <2>1, <2>2
  <2>4. clock' \in Nat /\ clock <= clock' /\ opened' = opened BY <1>1
  <2> QED BY <1>11, <2>3, <2>4, OtherRowsSound
<1>14. RowSound(t)'
  BY <1>1, <1>9, <1>10 DEF RowSound, LockSteps, ProducerSteps
<1>15. RowsSound' BY <1>13, <1>14 DEF RowsSound
<1>16. LocksExclusive'
  <2>1. prep'[t].role = prep[t].role /\ prep[t].pc \in LockSteps
    BY <1>9, <1>10 DEF LockSteps
  <2> QED BY <1>11, <2>1, LocksFrame
<1>17. StagesReserved' BY DEF PrepInv, StagesReserved
<1>18. StoreBounded'
  <2>1. Present(entry') = Present(e) \cup {k} BY <1>2, <1>5 DEF Present
  <2>2. Present(e) \subseteq Present(entry) BY DEF Present, ReconcileEvictions
  <2>3. /\ IsFiniteSet(Present(e)) /\ Cardinality(Present(e)) \in Nat
        /\ Cardinality(Present(entry)) \in Nat
        /\ Cardinality(Present(e)) <= Cardinality(Present(entry))
    BY <2>2, Counted DEF Present
  <2>4. k \notin Present(e) BY <1>4 DEF Present
  <2>5. Cardinality(Present(entry')) = Cardinality(Present(e)) + 1
    <3> HIDE DEF k, e
    <3>1. Cardinality(Present(e) \cup {k}) =
            IF k \in Present(e) THEN Cardinality(Present(e)) ELSE Cardinality(Present(e)) + 1
      BY <2>3, FS_AddElement
    <3> QED BY <2>1, <2>4, <3>1
  <2>6. IsFiniteSet(staged) /\ Cardinality(staged) \in Nat
    BY <1>1, Counted DEF PrepTypeOK
  <2>7. t \in staged BY <1>1 DEF RowSound
  <2>8. Cardinality(staged') = Cardinality(staged) - 1
    <3>1. Cardinality(staged \ {t}) =
            IF t \in staged THEN Cardinality(staged) - 1 ELSE Cardinality(staged)
      BY <2>6, FS_RemoveElement
    <3> QED BY <2>7, <3>1
  <2>9. Cardinality(Present(entry)) + Cardinality(staged) <= Capacity
    BY DEF PrepInv, StoreBounded, Present
  <2>10. Cardinality(Present(entry')) + Cardinality(staged') <= Capacity
    <3> HIDE DEF k, e
    <3> QED BY <2>3, <2>5, <2>6, <2>8, <2>9, PrepAssumption
  <2> QED BY <2>10 DEF StoreBounded, Present
<1>19. DependenciesExact'
  <2> SUFFICES ASSUME NEW u \in Preps, ReconcileEvictions'[KeyOf[u]["deps"]] # "absent"
      PROVE content'[KeyOf[u]["deps"]] = Objects
    BY DEF DependenciesExact
  <2>1. KeyOf[u]["deps"] \in StoreKeys BY KeyInStore DEF Roles
  <2>2. CASE KeyOf[u]["deps"] = k
    <3>1. "deps" \in Roles /\ prep[t].role \in Roles /\ KeyOf[u]["deps"] = KeyOf[t][prep[t].role]
      BY <1>1, <2>2 DEF Roles, PrepRows, WantedKey
    <3>2. prep[t].role = "deps" BY <3>1, PrepAssumption
    <3>3. fetched[t] = Objects BY <1>1, <3>2 DEF RowSound
    <3> QED BY <2>1, <2>2, <3>3
  <2>3. CASE KeyOf[u]["deps"] # k
    <3>1. e[KeyOf[u]["deps"]] # "absent" BY <1>7, <2>1, <2>3
    <3>2. content[KeyOf[u]["deps"]] = Objects BY <3>1 DEF PrepInv, DependenciesExact
    <3> QED BY <2>1, <2>3, <3>1, <3>2
  <2> QED BY <2>2, <2>3
<1>20. PinnedStaysWhole'
  <2> SUFFICES ASSUME NEW u \in Preps, NEW r \in Roles, pin'[u][r] > clock'
      PROVE Whole(KeyOf[u][r])' /\ (r = "run" => \A j \in Composition(u) : Whole(j)')
    BY DEF PinnedStaysWhole
  <2>1. pin'[u][r] = pin[u][r] /\ pin[u][r] > clock
    BY <1>1 DEF PinsShrink
  <2>2. Whole(KeyOf[u][r]) /\ (r = "run" => \A j \in Composition(u) : Whole(j))
    BY <2>1 DEF PrepInv, PinnedStaysWhole
  <2>3. KeyOf[u][r] \in StoreKeys /\ Composition(u) \subseteq StoreKeys
    BY KeyInStore DEF Composition, Roles
  <2>4. ASSUME NEW j \in StoreKeys, Whole(j) PROVE Whole(j)'
    <3>1. e[j] = "sealed" BY <1>1, <2>4, WholeIsReconciled
    <3>2. j # k BY <1>4, <3>1
    <3>3. entry'[j] = "sealed" BY <1>5, <3>1, <3>2
    <3> QED BY <3>3 DEF Whole
  <2> QED BY <2>2, <2>3, <2>4
<1> QED BY <1>12, <1>15, <1>16, <1>17, <1>18, <1>19, <1>20 DEF PrepInv

(* A commit either finds the staged content and seals it, or gives up.         *)
LEMMA CommitStageKeeps ==
  ASSUME PrepInv, NEW t \in Preps, CommitStage(t)
  PROVE  PrepInv'
<1>1. opened /\ prep[t].pc = "commit" /\ UNCHANGED <<opened, clock>> BY DEF CommitStage
<1>2. CASE ForgetEvicted(ReconcileEvictions) /\ GiveUp(t) /\ pin' = DropGuards(t, pin)
  <2>1. StoreShrinks BY <1>2, ReconcileShrinks
  <2>2. PinsShrink BY <1>2, DropGuardsShrinks
  <2> QED BY <1>1, <1>2, <2>1, <2>2, GiveUpStep
<1>3. CASE /\ entry' = [ReconcileEvictions EXCEPT ![WantedKey(t)] = "sealed"] /\ evicting' = {}
           /\ content' = [j \in StoreKeys |->
                       IF j = WantedKey(t) THEN fetched[t]
                       ELSE IF ReconcileEvictions[j] = "absent" THEN {} ELSE content[j]]
           /\ staged' = staged \ {t} /\ fetched' = [fetched EXCEPT ![t] = {}]
           /\ PrepGoto(t, "settle") /\ UNCHANGED <<reserved, pin>>
  <2>1. PinsShrink BY <1>3, PinsUnchanged DEF PrepInv
  <2>2. reserved' \in {reserved, reserved \ {t}} BY <1>3
  <2> QED BY <1>1, <1>3, <2>1, <2>2, CommitStep
<1> QED BY <1>2, <1>3 DEF CommitStage

(* A commit that stops half way leaves the whole content under the key it      *)
(* belongs to.                                                                 *)
LEMMA CommitStopsKeeps ==
  ASSUME PrepInv, NEW t \in Preps, CommitStops(t)
  PROVE  PrepInv'
<1>1. PICK s \in {"committing", "sealed"} :
        entry' = [ReconcileEvictions EXCEPT ![WantedKey(t)] = s]
  BY DEF CommitStops
<1>2. /\ opened /\ prep[t].pc = "commit" /\ evicting' = {}
      /\ content' = [j \in StoreKeys |->
                       IF j = WantedKey(t) THEN fetched[t]
                       ELSE IF ReconcileEvictions[j] = "absent" THEN {} ELSE content[j]]
      /\ staged' = staged \ {t} /\ fetched' = [fetched EXCEPT ![t] = {}]
      /\ PrepGoto(t, "failed") /\ reserved' \in {reserved, reserved \ {t}}
      /\ pin' = DropGuards(t, pin) /\ UNCHANGED <<opened, clock>>
  BY DEF CommitStops, GiveUp
<1>3. PinsShrink BY <1>2, DropGuardsShrinks
<1> QED BY <1>1, <1>2, <1>3, CommitStep

(* The reservation is given back after the entry is in place.                  *)
LEMMA DropReservationKeeps ==
  ASSUME PrepInv, NEW t \in Preps, DropReservation(t)
  PROVE  PrepInv'
<1>1. /\ prep[t].pc = "settle" /\ reserved' = reserved \ {t} /\ AfterEntry(t)
      /\ UNCHANGED <<entry, content, evicting, fetched, staged, opened, clock>>
  BY DEF DropReservation
<1>2. StoreShrinks BY <1>1, StoreUnchanged
<1> QED BY <1>1, <1>2, AfterEntryStep

(* A pin is set on entries that were just validated.                           *)
LEMMA OpenPinnedKeeps ==
  ASSUME PrepInv, NEW t \in Preps, OpenPinned(t)
  PROVE  PrepInv'
<1>1. PrepTypeOK /\ clock \in Nat /\ prep[t] \in PrepRows /\ prep[t].now <= clock
  BY DEF PrepInv, PrepTypeOK, RowsSound, RowSound
<1>2. PICK e : e = ReconcileEvictions OBVIOUS
<1>3. PICK r : r = PinTarget(t) OBVIOUS
<1>4. PICK now : now = PinNow(t) OBVIOUS
<1>5. /\ opened /\ prep[t].pc \in {"pin", "ready"} /\ ForgetEvicted(e)
      /\ UNCHANGED <<opened, clock>>
      /\ \/ /\ Pinnable(t, e) /\ pin' = [CleanupExpiredPins(now) EXCEPT ![t][r] = now + PinTime]
            /\ NextObject(t) /\ UNCHANGED <<reserved, staged, fetched>>
         \/ pin' = DropGuards(t, CleanupExpiredPins(now)) /\ GiveUp(t)
  BY <1>2, <1>3, <1>4 DEF OpenPinned
<1>6. r \in Roles /\ now \in Nat /\ now <= clock
  BY <1>1, <1>3, <1>4 DEF PinTarget, PinNow, PrepRows, Roles
<1>7. e \in [StoreKeys -> EntryStates] BY <1>1, <1>2, ReconciledType
<1>8. StoreShrinks /\ \A k \in StoreKeys : ReconcileEvictions'[k] = e[k]
  BY <1>2, <1>5, <1>7, ForgetShrinks
<1>9. CASE pin' = DropGuards(t, CleanupExpiredPins(now)) /\ GiveUp(t)
  <2>1. pin' \in {CleanupExpiredPins(now), DropGuards(t, CleanupExpiredPins(now))} BY <1>9
  <2>2. PinsShrink BY <1>6, <2>1, CleanupShrinks
  <2> QED BY <1>5, <1>8, <1>9, <2>2, GiveUpStep
<1>10. CASE /\ Pinnable(t, e) /\ pin' = [CleanupExpiredPins(now) EXCEPT ![t][r] = now + PinTime]
            /\ NextObject(t) /\ UNCHANGED <<reserved, staged, fetched>>
  <2>1. PICK c : c = CleanupExpiredPins(now) OBVIOUS
  <2>2. /\ c \in [Preps -> [Roles -> Nat]]
        /\ \A u \in Preps : \A q \in Roles : c[u][q] > 0 => c[u][q] = pin[u][q]
    BY <1>1, <2>1 DEF PrepTypeOK, CleanupExpiredPins
  <2>3. now + PinTime \in Nat BY <1>6, PrepAssumption
  <2>4. pin' = [c EXCEPT ![t][r] = now + PinTime] BY <1>10, <2>1
  <2>5. /\ pin' \in [Preps -> [Roles -> Nat]]
        /\ \A u \in Preps : \A q \in Roles : ~(u = t /\ q = r) => pin'[u][q] = c[u][q]
    BY <1>6, <2>2, <2>3, <2>4
  <2>6. PrepTypeOK' => PinnedStaysWhole'
    <3> SUFFICES ASSUME PrepTypeOK', NEW u \in Preps, NEW q \in Roles, pin'[u][q] > clock'
        PROVE Whole(KeyOf[u][q])' /\ (q = "run" => \A k \in Composition(u) : Whole(k)')
      BY DEF PinnedStaysWhole
    <3>1. KeyOf[u][q] \in StoreKeys /\ Composition(u) \subseteq StoreKeys
      BY KeyInStore DEF Composition, Roles
    <3>2. \A k \in StoreKeys : e[k] = "sealed" => Whole(k)'
      BY <1>5 DEF Whole, ForgetEvicted
    <3>3. CASE u = t /\ q = r
      <4>1. e[KeyOf[t][r]] = "sealed" /\ (r = "run" => \A k \in Composition(t) : e[k] = "sealed")
        BY <1>3, <1>10 DEF Pinnable, ValidateSealedEntry
      <4> QED BY <3>1, <3>2, <3>3, <4>1
    <3>4. CASE ~(u = t /\ q = r)
      <4>1. pin'[u][q] = c[u][q] /\ c[u][q] \in Nat /\ clock' = clock
        BY <1>5, <2>2, <2>5, <3>4
      <4>2. pin[u][q] > clock BY <1>1, <2>2, <4>1
      <4>3. Whole(KeyOf[u][q]) /\ (q = "run" => \A k \in Composition(u) : Whole(k))
        BY <4>2 DEF PrepInv, PinnedStaysWhole
      <4>4. \A k \in StoreKeys : Whole(k) => e[k] = "sealed"
        BY <1>1, <1>2, WholeIsReconciled
      <4> QED BY <3>1, <3>2, <4>3, <4>4
    <3> QED BY <3>3, <3>4
  <2>7. CASE prep[t].pc = "ready"
    <3>1. PrepGoto(t, "running") BY <1>10, <2>7 DEF NextObject, PrepGoto
    <3>2. "running" \in PrepSteps BY DEF PrepSteps
    <3>3. PICK row \in PrepRows :
         /\ prep' = [prep EXCEPT ![t] = row]
         /\ row.pc = "running" /\ row.role = prep[t].role /\ row.now = prep[t].now
         /\ row.cancelled = prep[t].cancelled
      BY <1>1, <3>1, <3>2, GotoRow
    <3>4. row.now <= clock /\ row.pc \notin LockSteps BY <1>1, <3>3 DEF LockSteps
    <3> QED BY <1>5, <1>8, <1>10, <2>5, <2>6, <3>3, <3>4, MoveStep
  <2>8. CASE prep[t].pc # "ready"
    <3>1. PICK next \in Roles : next = IF prep[t].role = "source" THEN "deps" ELSE "run"
      BY DEF Roles
    <3>2. PICK row : row = [prep[t] EXCEPT !.pc = "open", !.role = next] OBVIOUS
    <3>3. row \in PrepRows /\ row.now = prep[t].now /\ row.pc = "open"
      BY <1>1, <3>1, <3>2 DEF PrepRows, PrepSteps
    <3>4. prep' = [prep EXCEPT ![t] = row] BY <1>1, <1>10, <2>8, <3>1, <3>2 DEF NextObject, PrepTypeOK
    <3>5. row.now <= clock /\ row.pc \notin LockSteps BY <1>1, <3>3 DEF LockSteps
    <3> QED BY <1>5, <1>8, <1>10, <2>5, <2>6, <3>3, <3>4, <3>5, MoveStep
  <2> QED BY <2>7, <2>8
<1> QED BY <1>5, <1>9, <1>10

(* A run that ends drops its own pin only.                                     *)
LEMMA UnpinKeeps ==
  ASSUME PrepInv, NEW t \in Preps, Unpin(t)
  PROVE  PrepInv'
<1>1. /\ pin' = [pin EXCEPT ![t]["run"] = 0] /\ PrepGoto(t, "done")
      /\ ForgetEvicted(ReconcileEvictions) /\ UNCHANGED <<fetched, staged, reserved, opened, clock>>
  BY DEF Unpin
<1>2. StoreShrinks BY <1>1, ReconcileShrinks
<1>3. PinsShrink
  <2>1. pin \in [Preps -> [Roles -> Nat]] BY DEF PrepInv, PrepTypeOK
  <2> QED BY <1>1, <2>1 DEF PinsShrink, Roles
<1>4. "done" \in PrepSteps \ LockSteps BY DEF PrepSteps, LockSteps
<1> QED BY <1>1, <1>2, <1>3, <1>4, GotoStep

(* A crash leaves the stages behind and no key lock.                           *)
LEMMA WorkerCrashKeeps ==
  ASSUME PrepInv, WorkerCrash
  PROVE  PrepInv'
<1>1. /\ ~ opened'
      /\ prep' = [t \in Preps |-> IF prep[t].pc \in {"idle", "ready", "running", "done"} THEN prep[t]
                                  ELSE [prep[t] EXCEPT !.pc = "failed"]]
      /\ fetched' = [t \in Preps |-> {}] /\ reserved' = {}
      /\ UNCHANGED <<entry, content, evicting, pin, staged, clock>>
  BY DEF WorkerCrash, disk
<1>2. PrepTypeOK /\ clock \in Nat /\ opened' = FALSE BY DEF PrepInv, PrepTypeOK, WorkerCrash
<1>3. \A t \in Preps : /\ prep'[t] \in PrepRows /\ prep'[t].now = prep[t].now
                       /\ prep'[t].pc \notin LockSteps
  <2> SUFFICES ASSUME NEW t \in Preps
      PROVE /\ prep'[t] \in PrepRows /\ prep'[t].now = prep[t].now
            /\ prep'[t].pc \notin LockSteps
    OBVIOUS
  <2>1. prep[t] \in PrepRows BY <1>2 DEF PrepTypeOK
  <2>2. CASE prep[t].pc \in {"idle", "ready", "running", "done"}
    BY <1>1, <2>1, <2>2 DEF LockSteps
  <2>3. CASE prep[t].pc \notin {"idle", "ready", "running", "done"}
    <3>1. prep'[t] = [prep[t] EXCEPT !.pc = "failed"] BY <1>1, <2>3
    <3> QED BY <2>1, <3>1 DEF PrepRows, PrepSteps, LockSteps
  <2> QED BY <2>2, <2>3
<1>4. PrepTypeOK'
  <2>1. prep' \in [Preps -> PrepRows] BY <1>1, <1>3
  <2> QED BY <1>1, <1>2, <2>1 DEF PrepTypeOK
<1>5. StoreShrinks BY <1>1, StoreUnchanged
<1>6. PinsShrink BY <1>1, <1>2, PinsUnchanged
<1>7. clock <= clock' BY <1>1, <1>2
<1>8. PinnedStaysWhole' BY <1>4, <1>5, <1>6, <1>7, PinsKept
<1>9. RowsSound'
  <2> SUFFICES ASSUME NEW t \in Preps PROVE RowSound(t)' BY DEF RowsSound
  <2>1. prep[t].now <= clock BY DEF PrepInv, RowsSound, RowSound
  <2> QED BY <1>1, <1>3, <2>1 DEF RowSound, LockSteps, ProducerSteps
<1>10. LocksExclusive' BY <1>3 DEF LocksExclusive
<1>11. StagesReserved' BY <1>1 DEF StagesReserved
<1>12. StoreBounded'
  <2>1. \A k \in StoreKeys : entry[k] = "absent" => entry'[k] = "absent" BY <1>1
  <2> QED BY <1>1, <2>1, BoundedFrame
<1>13. DependenciesExact' BY <1>5, ExactFrame
<1> QED BY <1>4, <1>8, <1>9, <1>10, <1>11, <1>12, <1>13 DEF PrepInv

(* Opening the store again finishes what a crash left and keeps what is pinned.*)
LEMMA OpenWithPolicyKeeps ==
  ASSUME PrepInv, OpenWithPolicy
  PROVE  PrepInv'
<1>1. PICK e : e = ReconcileCommitting(ReconcileEvictions) OBVIOUS
<1>2. /\ ~ opened /\ opened' = TRUE /\ staged' = {} /\ ForgetEvicted(e)
      /\ pin' = CleanupExpiredPins(clock) /\ UNCHANGED <<prep, fetched, reserved, clock>>
  BY <1>1 DEF OpenWithPolicy
<1>3. PrepTypeOK /\ clock \in Nat BY DEF PrepInv, PrepTypeOK
<1>4. /\ e \in [StoreKeys -> EntryStates]
      /\ \A k \in StoreKeys :
           /\ ReconcileEvictions[k] = "absent" => e[k] = "absent"
           /\ ReconcileEvictions[k] = "sealed" => e[k] = "sealed"
  <2>1. ReconcileEvictions \in [StoreKeys -> EntryStates] BY <1>3, ReconciledType
  <2> QED BY <1>1, <2>1 DEF ReconcileCommitting, EntryStates
<1>5. StoreShrinks BY <1>2, <1>4, ForgetShrinks
<1>6. PinsShrink BY <1>2, <1>3 DEF PinsShrink, PrepTypeOK, CleanupExpiredPins
<1>7. PrepTypeOK' BY <1>2, <1>3, <1>5, <1>6 DEF PrepTypeOK, StoreShrinks, PinsShrink
<1>8. clock <= clock' BY <1>2, <1>3
<1>9. PinnedStaysWhole' BY <1>5, <1>6, <1>7, <1>8, PinsKept
<1>10. \A t \in Preps : prep[t].pc \notin LockSteps /\ prep[t].now <= clock
  BY <1>2 DEF PrepInv, RowsSound, RowSound
<1>11. RowsSound'
  BY <1>2, <1>10 DEF RowsSound, RowSound, LockSteps, ProducerSteps
<1>12. LocksExclusive' BY <1>2, <1>10 DEF LocksExclusive
<1>13. StagesReserved' BY <1>2 DEF StagesReserved
<1>14. StoreBounded'
  <2>1. \A k \in StoreKeys : entry[k] = "absent" => entry'[k] = "absent" BY <1>5 DEF StoreShrinks
  <2>2. staged' \subseteq staged BY <1>2
  <2> QED BY <2>1, <2>2, BoundedFrame
<1>15. DependenciesExact' BY <1>5, ExactFrame
<1> QED BY <1>7, <1>9, <1>11, <1>12, <1>13, <1>14, <1>15 DEF PrepInv

(* Time passes, and pins expire with it.                                       *)
LEMMA PrepTickKeeps ==
  ASSUME PrepInv, PrepTick \/ UNCHANGED prepVars
  PROVE  PrepInv'
<1>1. UNCHANGED <<entry, content, evicting, pin, prep, fetched, staged, reserved, opened>>
  BY DEF PrepTick, prepVars, disk
<1>2. PrepTypeOK /\ clock \in Nat BY DEF PrepInv, PrepTypeOK
<1>3. clock' \in Nat /\ clock <= clock' BY <1>2 DEF PrepTick, prepVars
<1>4. PrepTypeOK' BY <1>1, <1>2, <1>3 DEF PrepTypeOK
<1>5. StoreShrinks BY <1>1, StoreUnchanged
<1>6. PinsShrink BY <1>1, <1>2, PinsUnchanged
<1>7. PinnedStaysWhole' BY <1>3, <1>4, <1>5, <1>6, PinsKept
<1>8. ReconcileEvictions' = ReconcileEvictions /\ \A t \in Preps : WantedKey(t)' = WantedKey(t)
  BY <1>1 DEF ReconcileEvictions, WantedKey
<1>9. RowsSound'
  <2> SUFFICES ASSUME NEW t \in Preps PROVE RowSound(t)' BY DEF RowsSound
  <2>1. RowSound(t) /\ prep[t].now \in Nat BY <1>2 DEF PrepInv, RowsSound, PrepTypeOK, PrepRows
  <2> QED BY <1>1, <1>2, <1>3, <1>8, <2>1 DEF RowSound
<1>10. LocksExclusive' BY <1>1, <1>8 DEF PrepInv, LocksExclusive
<1>11. StagesReserved' BY <1>1 DEF PrepInv, StagesReserved
<1>12. StoreBounded' BY <1>1 DEF PrepInv, StoreBounded
<1>13. DependenciesExact' BY <1>5, ExactFrame
<1> QED BY <1>4, <1>7, <1>9, <1>10, <1>11, <1>12, <1>13 DEF PrepInv

(* An empty store satisfies the invariant.                                     *)
LEMMA PrepInitHolds ==
  ASSUME PrepInit
  PROVE  PrepInv
<1>1. PrepTypeOK
  BY DEF PrepInit, PrepTypeOK, EntryStates, PrepRows, PrepSteps, Roles
<1>2. RowsSound
  <2> SUFFICES ASSUME NEW t \in Preps PROVE RowSound(t) BY DEF RowsSound
  <2>1. prep[t] = [pc |-> "idle", role |-> "source", now |-> 0, cancelled |-> FALSE] /\ clock = 1
    BY DEF PrepInit
  <2> QED BY <2>1 DEF RowSound, LockSteps, ProducerSteps
<1>3. LocksExclusive BY DEF PrepInit, LocksExclusive, LockSteps
<1>4. StagesReserved BY DEF PrepInit, StagesReserved
<1>5. PinnedStaysWhole
  BY DEF PrepInit, PinnedStaysWhole
<1>6. StoreBounded
  <2>1. {k \in StoreKeys : entry[k] # "absent"} = {} /\ staged = {} BY DEF PrepInit
  <2>2. Cardinality({}) = 0 BY FS_EmptySet
  <2> QED BY <2>1, <2>2, PrepAssumption DEF StoreBounded
<1>7. DependenciesExact
  <2>1. \A t \in Preps : KeyOf[t]["deps"] \in StoreKeys BY KeyInStore DEF Roles
  <2> QED BY <2>1 DEF PrepInit, DependenciesExact, ReconcileEvictions
<1> QED BY <1>1, <1>2, <1>3, <1>4, <1>5, <1>6, <1>7 DEF PrepInv

(* Every step of the preparation store keeps the invariant.                    *)
LEMMA PrepNextKeeps ==
  ASSUME PrepInv, [PrepNext]_prepVars
  PROVE  PrepInv'
<1>1. ASSUME NEW t \in Preps,
             \/ BeginPreparation(t) \/ OpenExisting(t) \/ Reserve(t) \/ ReserveRefused(t)
             \/ EvictionStops(t) \/ ProducerFails(t) \/ InspectSourceRejects(t) \/ Cancel(t)
             \/ CommitStage(t) \/ CommitStops(t) \/ DropReservation(t) \/ OpenPinned(t) \/ Unpin(t)
      PROVE PrepInv'
  BY <1>1, BeginPreparationKeeps, OpenExistingKeeps, ReserveKeeps, ReserveRefusedKeeps,
     EvictionStopsKeeps, ProducerFailsKeeps, CancelKeeps, CommitStageKeeps, CommitStopsKeeps,
     DropReservationKeeps, OpenPinnedKeeps, UnpinKeeps
<1>2. ASSUME NEW t \in Preps, NEW o \in Objects, MaterializeCrate(t, o) \/ MaterializeOciObject(t, o)
      PROVE PrepInv'
  <2>1. Fetching(t) /\ WriteObject(t, o) BY <1>2 DEF MaterializeCrate, MaterializeOciObject
  <2> QED BY <2>1, WriteObjectKeeps
<1>3. ASSUME NEW t \in Preps, StageSourceSnapshot(t) \/ SealDependencies(t) \/ ExtractRun(t)
      PROVE PrepInv'
  <2>1. /\ opened /\ prep[t].pc = "produce" /\ Sealed(t)
        /\ prep[t].role = "deps" => fetched[t] = Objects
    BY <1>3 DEF StageSourceSnapshot, SealDependencies, ExtractRun, Materialized
  <2> QED BY <2>1, SealedKeeps
<1>4. CASE WorkerCrash BY <1>4, WorkerCrashKeeps
<1>5. CASE OpenWithPolicy BY <1>5, OpenWithPolicyKeeps
<1>6. CASE PrepTick \/ UNCHANGED prepVars BY <1>6, PrepTickKeeps
<1> QED BY <1>1, <1>2, <1>3, <1>4, <1>5, <1>6 DEF PrepNext

(* The invariant of the preparation store.                                     *)
THEOREM PrepInvariant == PrepSpec => []PrepInv
<1>1. PrepInit => PrepInv BY PrepInitHolds
<1>2. PrepInv /\ [PrepNext]_prepVars => PrepInv' BY PrepNextKeeps
<1> QED BY <1>1, <1>2, PTL DEF PrepSpec

(* What a live pin names is whole, whoever evicts and wherever an eviction, a  *)
(* commit or the worker stops: EvictionCandidates leaves out every key that    *)
(* LivePinnedKeys finds, and the time of an admission is never ahead of the    *)
(* clock.                                                                      *)
THEOREM PinnedInputsStayWhole == PrepSpec => []PinnedStaysWhole
<1>1. PrepInv => PinnedStaysWhole BY DEF PrepInv
<1> QED BY <1>1, PrepInvariant, PTL

(* Entries and stages fit the capacity for any number of preparations, a       *)
(* commit never meets an entry, and a dependency snapshot that can be opened   *)
(* holds every object of the plan.                                             *)
THEOREM PreparationStoreSound == PrepSpec => []StoreIsSound
<1>1. ASSUME PrepInv PROVE StoreIsSound
  <2>1. StoreBounded BY <1>1 DEF PrepInv
  <2>2. OneProducer BY <1>1 DEF PrepInv, RowsSound, RowSound, OneProducer, ProducerSteps
  <2>3. SealedIsExact
    <3> SUFFICES ASSUME NEW t \in Preps, Whole(KeyOf[t]["deps"])
        PROVE content[KeyOf[t]["deps"]] = Objects
      BY DEF SealedIsExact
    <3>1. KeyOf[t]["deps"] \in StoreKeys BY KeyInStore DEF Roles
    <3>2. ReconcileEvictions[KeyOf[t]["deps"]] = "sealed"
      BY <1>1, <3>1, WholeIsReconciled DEF PrepInv
    <3> QED BY <1>1, <3>2 DEF PrepInv, DependenciesExact
  <2> QED BY <2>1, <2>2, <2>3 DEF StoreIsSound
<1> QED BY <1>1, PrepInvariant, PTL

--------------------------------------------------------------------------------
(* The notification outbox                                                     *)

MessageStates == {"pending", "sent", "failed"}
RowStates == Waiting \cup Settled \cup {"sending"}
Answers == {"none", "accepted", "unknown", "retryable", "permanent", "sent"}

Rows == [text : Texts, state : RowStates, due : BOOLEAN, provider : Nat, dup : BOOLEAN,
         error : BOOLEAN, lapsed : BOOLEAN, copied : BOOLEAN]

NotifyTypeOK ==
  /\ notices \in [Notices -> Rows \cup {NoNotice}]
  /\ messages \in [Notices -> Seq(MessageStates)]
  /\ courier \in [at : {"idle", "claimed", "answered", "down"}, key : Nat, provider : Nat,
                  dup : BOOLEAN, answer : Answers]

Flagged(n) == notices[n].dup \/ n \in veiled

(* What a row that nobody is sending knows of its messages: without the flag   *)
(* and a veiled submission there is none, or the one it names.                 *)
RowKnows(n) ==
  notices[n] \in Rows /\ ~Flagged(n) /\ notices[n].state # "sending" =>
    /\ notices[n].provider = NoMessage => messages[n] = <<>>
    /\ notices[n].provider # NoMessage => Len(messages[n]) = 1 /\ notices[n].provider = 1

(* A row that was claimed with its message keeps it, whoever dies.             *)
SendingKnows(n) ==
  notices[n] \in Rows /\ ~Flagged(n) /\ notices[n].state = "sending"
                      /\ notices[n].provider # NoMessage =>
    Len(messages[n]) = 1 /\ notices[n].provider = 1

(* A delivered row names a message that was sent.                              *)
SentKnows(n) ==
  notices[n] \in Rows /\ notices[n].state \in {"delivered", "delivered_possible_duplicate"} =>
    notices[n].provider \in DOMAIN messages[n] /\ messages[n][notices[n].provider] = "sent"

Readable(n) == ValidRecord(notices[n]) \/ (notices[n].copied /\ notices[n].state = "sending")

KeyInv(n) ==
  /\ notices[n] = NoNotice => messages[n] = <<>> /\ n \notin veiled
  /\ RowKnows(n) /\ SendingKnows(n) /\ SentKnows(n)
  /\ notices[n] \in Rows => Readable(n) /\ notices[n].provider <= Len(messages[n])

Working == courier.at \in {"claimed", "answered"}

(* What the claim in the courier's hands knows: it is the row's, and the call  *)
(* made at most one message that the row does not know yet.                    *)
ClaimKnows ==
  Working =>
    /\ courier.key \in Notices /\ notices[courier.key] \in Rows
    /\ notices[courier.key].state = "sending" /\ notices[courier.key].dup = courier.dup
    /\ courier.at = "claimed" =>
         courier.provider = notices[courier.key].provider /\ courier.answer = "none"
    /\ courier.at = "answered" => courier.answer # "none"
    /\ courier.provider <= Len(messages[courier.key])
    /\ courier.answer = "sent" =>
         /\ courier.provider \in DOMAIN messages[courier.key]
         /\ messages[courier.key][courier.provider] = "sent"
    /\ ~Flagged(courier.key) /\ courier.provider # NoMessage =>
         Len(messages[courier.key]) = 1 /\ courier.provider = 1
    /\ ~Flagged(courier.key) /\ courier.provider = NoMessage /\ courier.answer # "unknown" =>
         messages[courier.key] = <<>>

(* The inductive invariant.                                                    *)
NotifyInv == NotifyTypeOK /\ ClaimKnows /\ \A n \in Notices : KeyInv(n)

(* A row is not the absence of one.                                            *)
LEMMA RowIsThere == NoNotice \notin Rows
<1>1. NoNotice.state = "none"
  BY DEF NoNotice
<1>2. \A r \in Rows : r.state # "none"
  BY DEF Rows, RowStates, Waiting, Settled
<1> QED
  BY <1>1, <1>2

(* A key nothing happened to keeps its part of the invariant.                  *)
LEMMA OtherKey ==
  ASSUME NEW m \in Notices, KeyInv(m), notices'[m] = notices[m], messages'[m] = messages[m],
         m \in veiled' <=> m \in veiled
  PROVE  KeyInv(m)'
BY DEF KeyInv, RowKnows, SendingKnows, SentKnows, Readable, Flagged

(* A sequence of one message is that message.                                  *)
LEMMA OneMessage ==
  ASSUME NEW s \in Seq(MessageStates), Len(s) = 1, s[1] = "sent"
  PROVE  s = <<"sent">>
OBVIOUS

(* What version 1 left, as far as the invariant asks.                          *)
LEMMA VersionOneRowsFacts ==
  ASSUME NEW old \in VersionOneRows
  PROVE  /\ old.state \in {"pending", "leased", "ambiguous", "retryable_failure", "delivered",
                           "permanent_failure"}
         /\ old.provider \in {0, 1} /\ old.code \in {"none", "failed"}
         /\ old.made \in {<<>>, <<"pending">>, <<"sent">>}
         /\ old.provider = 1 => old.made # <<>>
         /\ old.provider = 0 /\ old.state \notin {"leased", "ambiguous"} => old.made = <<>>
         /\ old.state = "pending" => old.provider = 0 /\ old.code = "none"
         /\ old.state = "ambiguous" => old.provider = 0 /\ old.code = "failed"
         /\ old.state \in {"retryable_failure", "permanent_failure"} => old.code = "failed"
         /\ old.state = "delivered" => old.provider = 1 /\ old.code = "none" /\ old.made = <<"sent">>
<1>1. /\ <<"pending">> # <<>> /\ <<"sent">> # <<>>
  OBVIOUS
<1>2. \/ old \in [state : {"pending"}, provider : {0}, code : {"none"}, made : {<<>>}]
      \/ old \in [state : {"leased"}, provider : {0}, code : {"none", "failed"}, made : {<<>>, <<"pending">>}]
      \/ old \in [state : {"leased"}, provider : {1}, code : {"none", "failed"}, made : {<<"pending">>}]
      \/ old \in [state : {"ambiguous"}, provider : {0}, code : {"failed"}, made : {<<>>, <<"pending">>}]
      \/ old \in [state : {"retryable_failure"}, provider : {0}, code : {"failed"}, made : {<<>>}]
      \/ old \in [state : {"retryable_failure"}, provider : {1}, code : {"failed"}, made : {<<"pending">>}]
      \/ old \in [state : {"delivered"}, provider : {1}, code : {"none"}, made : {<<"sent">>}]
      \/ old \in [state : {"permanent_failure"}, provider : {0}, code : {"failed"}, made : {<<>>}]
  BY Zenon DEF VersionOneRows, NoMessage
<1>3. CASE old \in [state : {"leased"}, provider : {0}, code : {"none", "failed"}, made : {<<>>, <<"pending">>}]
  BY <1>1, <1>3
<1>4. CASE old \in [state : {"leased"}, provider : {1}, code : {"none", "failed"}, made : {<<"pending">>}]
  BY <1>1, <1>4
<1>5. CASE old \in [state : {"ambiguous"}, provider : {0}, code : {"failed"}, made : {<<>>, <<"pending">>}]
  BY <1>1, <1>5
<1>6. CASE old \in [state : {"delivered"}, provider : {1}, code : {"none"}, made : {<<"sent">>}]
  BY <1>1, <1>6
<1>7. CASE old \in [state : {"pending"}, provider : {0}, code : {"none"}, made : {<<>>}]
  BY <1>1, <1>7
<1>8. CASE old \in [state : {"retryable_failure"}, provider : {0}, code : {"failed"}, made : {<<>>}]
  BY <1>1, <1>8
<1>9. CASE old \in [state : {"retryable_failure"}, provider : {1}, code : {"failed"}, made : {<<"pending">>}]
  BY <1>1, <1>9
<1>10. CASE old \in [state : {"permanent_failure"}, provider : {0}, code : {"failed"}, made : {<<>>}]
  BY <1>1, <1>10
<1> QED
  BY <1>2, <1>3, <1>4, <1>5, <1>6, <1>7, <1>8, <1>9, <1>10

(* A migrated row knows its messages, and only one that was being sent may be  *)
(* refused by the record contract.                                             *)
LEMMA MigratedRow ==
  ASSUME NEW t \in Texts, NEW old \in VersionOneRows, NEW r, r = MigrateV1(t, old)
  PROVE  /\ r \in Rows /\ r.provider = old.provider
         /\ ValidRecord(r) \/ (r.copied /\ r.state = "sending")
         /\ r.dup \/ r.state = "sending" \/ (r.provider = 0 => old.made = <<>>)
         /\ r.state \in {"delivered", "delivered_possible_duplicate"} =>
              old.made = <<"sent">> /\ r.provider = 1
<1> DEFINE st == MigratedState(old.state)
<1>1. st \in RowStates /\ (old.state = "leased" <=> st = "sending")
      /\ (old.state = "pending" <=> st = "pending")
      /\ (old.state = "ambiguous" <=> st = "delivery_unknown")
      /\ (old.state = "retryable_failure" <=> st = "retry_scheduled")
      /\ (old.state = "delivered" <=> st = "delivered")
      /\ (old.state = "permanent_failure" <=> st = "permanently_failed")
  BY VersionOneRowsFacts DEF MigratedState, RowStates, Waiting, Settled
<1> HIDE DEF st
<1>2. r = [text |-> t, state |-> st, due |-> old.state = "pending", provider |-> old.provider,
           dup |-> old.state = "ambiguous", error |-> old.code # "none", lapsed |-> FALSE,
           copied |-> TRUE]
  BY DEF MigrateV1, NoticeRow, st
<1>3. /\ (old.state = "pending") \in BOOLEAN /\ (old.state = "ambiguous") \in BOOLEAN
      /\ (old.code # "none") \in BOOLEAN
  OBVIOUS
<1>4. /\ r.state = st /\ r.provider = old.provider /\ r.dup = (old.state = "ambiguous")
      /\ r.error = (old.code # "none") /\ r.copied = TRUE
  BY <1>2
<1>5. r \in Rows
  <2>1. old.provider \in Nat
    BY VersionOneRowsFacts
  <2>2. PICK u \in BOOLEAN, d \in BOOLEAN, e \in BOOLEAN :
          u = (old.state = "pending") /\ d = (old.state = "ambiguous") /\ e = (old.code # "none")
    BY Zenon, <1>3
  <2>3. r = [text |-> t, state |-> st, due |-> u, provider |-> old.provider, dup |-> d,
             error |-> e, lapsed |-> FALSE, copied |-> TRUE]
    BY Zenon, <1>2, <2>2
  <2> QED
    BY <1>1, <2>1, <2>3 DEF Rows
<1>6. ValidRecord(r) \/ (r.copied /\ r.state = "sending")
  <2>1. CASE old.state = "pending"
    BY <2>1, <1>1, <1>4, VersionOneRowsFacts DEF ValidRecord, NoMessage
  <2>2. CASE old.state = "leased"
    BY <2>2, <1>1, <1>4
  <2>3. CASE old.state = "ambiguous"
    BY <2>3, <1>1, <1>4, VersionOneRowsFacts DEF ValidRecord, NoMessage
  <2>4. CASE old.state = "retryable_failure"
    BY <2>4, <1>1, <1>4, VersionOneRowsFacts DEF ValidRecord, NoMessage
  <2>5. CASE old.state = "delivered"
    BY <2>5, <1>1, <1>4, VersionOneRowsFacts DEF ValidRecord, NoMessage
  <2>6. CASE old.state = "permanent_failure"
    BY <2>6, <1>1, <1>4, VersionOneRowsFacts DEF ValidRecord, NoMessage
  <2> QED
    BY <2>1, <2>2, <2>3, <2>4, <2>5, <2>6, VersionOneRowsFacts
<1> QED
  BY <1>1, <1>4, <1>5, <1>6, VersionOneRowsFacts

(* An empty outbox and one migrated from version 1 satisfy the invariant.      *)
LEMMA NotifyInitInv == NotifyInit => NotifyInv
<1> SUFFICES ASSUME NotifyInit PROVE NotifyInv
  OBVIOUS
<1>1. <<>> \in Seq(MessageStates) /\ <<"pending">> \in Seq(MessageStates)
      /\ <<"sent">> \in Seq(MessageStates)
  BY DEF MessageStates
<1>2. courier \in [at : {"idle", "claimed", "answered", "down"}, key : Nat, provider : Nat,
                   dup : BOOLEAN, answer : Answers] /\ ~Working
  BY DEF NotifyInit, IdleCourier, NoMessage, Answers, Working
<1>3. CASE notices = [n \in Notices |-> NoNotice] /\ messages = [n \in Notices |-> <<>>]
  <2>1. NotifyTypeOK
    BY <1>1, <1>2, <1>3 DEF NotifyTypeOK
  <2>2. \A n \in Notices : KeyInv(n)
    BY <1>3, RowIsThere DEF KeyInv, RowKnows, SendingKnows, SentKnows, NotifyInit
  <2> QED
    BY <2>1, <2>2, <1>2 DEF NotifyInv, ClaimKnows
<1>4. ASSUME NEW m \in Notices, NEW t \in Texts, NEW old \in VersionOneRows,
             notices = [n \in Notices |-> IF n = m THEN MigrateV1(t, old) ELSE NoNotice],
             messages = [n \in Notices |-> IF n = m THEN old.made ELSE <<>>]
      PROVE  NotifyInv
  <2>1. PICK r : r = MigrateV1(t, old)
    OBVIOUS
  <2>2. /\ r \in Rows /\ r.provider = old.provider
        /\ ValidRecord(r) \/ (r.copied /\ r.state = "sending")
        /\ r.dup \/ r.state = "sending" \/ (r.provider = 0 => old.made = <<>>)
        /\ r.state \in {"delivered", "delivered_possible_duplicate"} =>
             old.made = <<"sent">> /\ r.provider = 1
    BY <2>1, MigratedRow
  <2>3. /\ old.made \in {<<>>, <<"pending">>, <<"sent">>} /\ old.provider \in {0, 1}
        /\ old.provider = 1 => old.made # <<>>
    BY VersionOneRowsFacts
  <2>4. /\ old.made \in Seq(MessageStates) /\ r.provider <= Len(old.made)
        /\ old.made # <<>> => Len(old.made) = 1
        /\ old.made = <<"sent">> => 1 \in DOMAIN old.made /\ old.made[1] = "sent"
    <3>1. CASE old.made = <<>>
      BY <3>1, <1>1, <2>2, <2>3
    <3>2. CASE old.made = <<"pending">>
      BY <3>2, <1>1, <2>2, <2>3
    <3>3. CASE old.made = <<"sent">>
      BY <3>3, <1>1, <2>2, <2>3
    <3> QED
      BY <2>3, <3>1, <3>2, <3>3
  <2>5. notices = [n \in Notices |-> IF n = m THEN r ELSE NoNotice]
    BY <1>4, <2>1
  <2>6. NotifyTypeOK
    BY <1>1, <1>2, <1>4, <2>2, <2>4, <2>5 DEF NotifyTypeOK
  <2>7. ASSUME NEW n \in Notices PROVE KeyInv(n)
    <3>1. CASE n = m
      <4>1. notices[n] = r /\ messages[n] = old.made
        BY <3>1, <1>4, <2>5
      <4> QED
        BY <4>1, <2>2, <2>3, <2>4, RowIsThere
           DEF KeyInv, RowKnows, SendingKnows, SentKnows, Readable, Flagged, NoMessage
    <3>2. CASE n # m
      BY <3>2, <1>4, <2>5, RowIsThere
         DEF KeyInv, RowKnows, SendingKnows, SentKnows, NotifyInit
    <3> QED
      BY <3>1, <3>2
  <2> QED
    BY <2>6, <2>7, <1>2 DEF NotifyInv, ClaimKnows
<1> QED
  BY <1>3, <1>4 DEF NotifyInit

(* An enqueued event changes at most a key that has no row, and no message.    *)
LEMMA EnqueueInv ==
  ASSUME NotifyInv, NEW n \in Notices, NEW t \in Texts, Enqueue(n, t)
  PROVE  NotifyInv'
<1> DEFINE r == NoticeRow(t, "pending", TRUE, NoMessage, FALSE, FALSE)
<1>1. CASE notices' = notices
  <2>1. courier' = courier /\ messages' = messages /\ veiled' = veiled
    BY DEF Enqueue
  <2>2. \A m \in Notices : KeyInv(m)'
    BY <1>1, <2>1, OtherKey DEF NotifyInv
  <2>3. NotifyTypeOK' /\ ClaimKnows'
    BY <1>1, <2>1 DEF NotifyInv, NotifyTypeOK, ClaimKnows, Working, Flagged
  <2> QED
    BY <2>2, <2>3 DEF NotifyInv
<1>2. CASE notices' # notices
  <2>1. /\ notices[n] = NoNotice /\ notices' = [notices EXCEPT ![n] = r]
        /\ courier' = courier /\ messages' = messages /\ veiled' = veiled
    BY <1>2 DEF Enqueue, EnqueueResult, HasRow
  <2>2. /\ r \in Rows /\ r.state = "pending" /\ r.provider = NoMessage /\ ~r.dup /\ ~r.error
    BY DEF NoticeRow, Rows, RowStates, Waiting, NoMessage
  <2> HIDE DEF r
  <2>3. NotifyTypeOK'
    BY <2>1, <2>2 DEF NotifyInv, NotifyTypeOK
  <2>4. \A m \in Notices : notices'[m] = IF m = n THEN r ELSE notices[m]
    BY <2>1 DEF NotifyInv, NotifyTypeOK
  <2>5. ClaimKnows'
    BY <2>1, <2>4, RowIsThere DEF NotifyInv, ClaimKnows, Working, Flagged
  <2>6. ASSUME NEW m \in Notices PROVE KeyInv(m)'
    <3>1. CASE m = n
      <4>1. ValidRecord(r)
        BY <2>2 DEF ValidRecord
      <4>2. messages[n] = <<>>
        BY <2>1 DEF NotifyInv, KeyInv
      <4>3. r.provider <= Len(messages[n])
        BY <2>2, <4>2 DEF NoMessage
      <4> QED
        BY <3>1, <2>1, <2>2, <2>4, <4>1, <4>2, <4>3, RowIsThere
           DEF KeyInv, RowKnows, SendingKnows, SentKnows, Readable, NotifyInv
    <3>2. CASE m # n
      BY <3>2, <2>1, <2>4, OtherKey DEF NotifyInv
    <3> QED
      BY <3>1, <3>2
  <2> QED
    BY <2>3, <2>5, <2>6 DEF NotifyInv
<1> QED
  BY <1>1, <1>2

(* A claim turns a row that is due into one being sent, and knows what it knew. *)
LEMMA ClaimNextInv ==
  ASSUME NotifyInv, NEW n \in Notices, ClaimNext(n)
  PROVE  NotifyInv'
<1> DEFINE r == notices[n]
           s == [r EXCEPT !.state = "sending", !.dup = PossibleDuplicate(n), !.error = FALSE,
                          !.due = FALSE, !.lapsed = FALSE, !.copied = FALSE]
<1>1. r \in Rows /\ r.state \in Waiting \cup {"sending"}
  BY DEF ClaimNext, Oldest, Claimable, HasRow, NotifyInv, NotifyTypeOK
<1>2. PossibleDuplicate(n) \in BOOLEAN /\ (~PossibleDuplicate(n) =>
        ~r.dup /\ (r.state # "sending" \/ r.provider # NoMessage))
  BY <1>1 DEF PossibleDuplicate, Rows
<1>3. /\ s \in Rows /\ s.state = "sending" /\ s.provider = r.provider
      /\ s.dup = PossibleDuplicate(n) /\ ~s.error
  BY <1>1, <1>2 DEF Rows, RowStates
<1>4. messages' = messages /\ veiled' = veiled /\ notices' = [notices EXCEPT ![n] = s]
  BY DEF ClaimNext, NotifyInv, NotifyTypeOK
<1>5. courier' = [at |-> "claimed", key |-> n, provider |-> r.provider,
                  dup |-> PossibleDuplicate(n), answer |-> "none"]
  BY DEF ClaimNext
<1> HIDE DEF s
<1>6. \A m \in Notices : notices'[m] = IF m = n THEN s ELSE notices[m]
  BY <1>4 DEF NotifyInv, NotifyTypeOK
<1>7. NotifyTypeOK'
  <2>1. r.provider \in Nat
    BY <1>1 DEF Rows
  <2> QED
    BY <2>1, <1>2, <1>3, <1>4, <1>5, NotifyAssumption DEF NotifyInv, NotifyTypeOK, Answers
<1>8. ~PossibleDuplicate(n) /\ n \notin veiled =>
        /\ r.provider # NoMessage => Len(messages[n]) = 1 /\ r.provider = 1
        /\ r.provider = NoMessage => messages[n] = <<>>
  BY <1>1, <1>2 DEF NotifyInv, KeyInv, RowKnows, SendingKnows, Flagged
<1>9. ClaimKnows' /\ s.provider <= Len(messages[n])
  <2>1. r.provider <= Len(messages[n])
    BY <1>1 DEF NotifyInv, KeyInv
  <2> QED
    BY <2>1, <1>3, <1>4, <1>5, <1>6, <1>8 DEF ClaimKnows, Working, Flagged
<1>10. ASSUME NEW m \in Notices PROVE KeyInv(m)'
  <2>1. CASE m = n
    BY <2>1, <1>3, <1>4, <1>6, <1>8, <1>9, RowIsThere
       DEF KeyInv, RowKnows, SendingKnows, SentKnows, Readable, Flagged, ValidRecord
  <2>2. CASE m # n
    BY <2>2, <1>4, <1>6, OtherKey DEF NotifyInv
  <2> QED
    BY <2>1, <2>2
<1> QED
  BY <1>7, <1>9, <1>10 DEF NotifyInv

(* A timer that flips one mark of a row disturbs nothing the row knows.        *)
LEMMA MarkedRow ==
  ASSUME NotifyInv, NEW n \in Notices, NEW s \in Rows, notices[n] \in Rows,
         s.state = notices[n].state, s.provider = notices[n].provider, s.dup = notices[n].dup,
         s.error = notices[n].error, s.copied = notices[n].copied,
         notices' = [notices EXCEPT ![n] = s],
         courier' = courier, messages' = messages, veiled' = veiled
  PROVE  NotifyInv'
<1>1. \A m \in Notices : notices'[m] = IF m = n THEN s ELSE notices[m]
  BY DEF NotifyInv, NotifyTypeOK
<1>2. NotifyTypeOK'
  BY DEF NotifyInv, NotifyTypeOK
<1>3. ClaimKnows'
  BY <1>1 DEF NotifyInv, ClaimKnows, Working, Flagged
<1>4. ASSUME NEW m \in Notices PROVE KeyInv(m)'
  <2>1. CASE m = n
    <3>1. Readable(n)
      BY DEF NotifyInv, KeyInv
    <3>2. s.error \in BOOLEAN /\ s.dup \in BOOLEAN /\ s.state \in RowStates
      BY DEF Rows
    <3>3. ValidRecord(s) \/ (s.copied /\ s.state = "sending")
      BY <3>1, <3>2 DEF Readable, ValidRecord, RowStates, Waiting, Settled
    <3> QED
      BY <2>1, <1>1, <3>2, <3>3, RowIsThere
         DEF NotifyInv, KeyInv, RowKnows, SendingKnows, SentKnows, Readable, Flagged
  <2>2. CASE m # n
    BY <2>2, <1>1, OtherKey DEF NotifyInv
  <2> QED
    BY <2>1, <2>2
<1> QED
  BY <1>2, <1>3, <1>4 DEF NotifyInv

(* A retry that falls due and a lease that lapses are such marks.              *)
LEMMA TimersInv ==
  ASSUME NotifyInv, NEW n \in Notices, RetryDue(n) \/ LeaseLapses(n)
  PROVE  NotifyInv'
<1>1. notices[n] \in Rows
  BY DEF RetryDue, LeaseLapses, HasRow, NotifyInv, NotifyTypeOK
<1>2. CASE RetryDue(n)
  <2> DEFINE s == [notices[n] EXCEPT !.due = TRUE]
  <2>1. /\ s \in Rows /\ s.state = notices[n].state /\ s.provider = notices[n].provider
        /\ s.dup = notices[n].dup /\ s.error = notices[n].error
        /\ s.copied = notices[n].copied
    BY <1>1 DEF Rows
  <2>2. /\ notices' = [notices EXCEPT ![n] = s] /\ courier' = courier
        /\ messages' = messages /\ veiled' = veiled
    BY <1>2 DEF RetryDue, NotifyInv, NotifyTypeOK
  <2> HIDE DEF s
  <2> QED
    BY <1>1, <2>1, <2>2, MarkedRow
<1>3. CASE LeaseLapses(n)
  <2> DEFINE s == [notices[n] EXCEPT !.lapsed = TRUE]
  <2>1. /\ s \in Rows /\ s.state = notices[n].state /\ s.provider = notices[n].provider
        /\ s.dup = notices[n].dup /\ s.error = notices[n].error
        /\ s.copied = notices[n].copied
    BY <1>1 DEF Rows
  <2>2. /\ notices' = [notices EXCEPT ![n] = s] /\ courier' = courier
        /\ messages' = messages /\ veiled' = veiled
    BY <1>3 DEF LeaseLapses, NotifyInv, NotifyTypeOK
  <2> HIDE DEF s
  <2> QED
    BY <1>1, <2>1, <2>2, MarkedRow
<1> QED
  BY <1>2, <1>3

(* The gateway settles a pending message: there is one, so no row knows of none *)
(* and none is recorded as delivered.                                          *)
LEMMA GatewaySettlesInv ==
  ASSUME NotifyInv, NEW n \in Notices, GatewaySettles(n)
  PROVE  NotifyInv'
<1>1. PICK i \in DOMAIN messages[n], s \in {"sent", "failed"} :
        /\ messages[n][i] = "pending"
        /\ messages' = [messages EXCEPT ![n][i] = s]
        /\ notices' = notices /\ courier' = courier /\ veiled' = veiled
  BY DEF GatewaySettles
<1>2. messages[n] \in Seq(MessageStates) /\ s \in MessageStates
  BY DEF NotifyInv, NotifyTypeOK, MessageStates
<1> DEFINE q == [messages[n] EXCEPT ![i] = s]
<1>3. messages' = [messages EXCEPT ![n] = q]
  BY <1>1 DEF NotifyInv, NotifyTypeOK
<1>4. q \in Seq(MessageStates) /\ Len(q) = Len(messages[n])
  BY <1>2
<1>5. /\ messages[n] # <<>> /\ DOMAIN q = DOMAIN messages[n]
      /\ \A j \in DOMAIN messages[n] : messages[n][j] = "sent" => q[j] = "sent"
  BY <1>1, <1>2
<1> HIDE DEF q
<1>6. \A m \in Notices : messages'[m] = IF m = n THEN q ELSE messages[m]
  BY <1>3 DEF NotifyInv, NotifyTypeOK
<1>7. NotifyTypeOK'
  BY <1>1, <1>3, <1>4 DEF NotifyInv, NotifyTypeOK
<1>8. ClaimKnows'
  BY <1>1, <1>4, <1>5, <1>6 DEF NotifyInv, ClaimKnows, Working, Flagged
<1>9. ASSUME NEW m \in Notices PROVE KeyInv(m)'
  <2>1. CASE m = n
    BY <2>1, <1>1, <1>4, <1>5, <1>6
       DEF NotifyInv, KeyInv, RowKnows, SendingKnows, SentKnows, Readable, Flagged
  <2>2. CASE m # n
    BY <2>2, <1>1, <1>6, OtherKey DEF NotifyInv
  <2> QED
    BY <2>1, <2>2
<1> QED
  BY <1>7, <1>8, <1>9 DEF NotifyInv

(* A call that leaves the rows alone and whose answer is sound.                *)
LEMMA AnswerInv ==
  ASSUME NotifyInv, courier.at = "claimed", notices' = notices,
         NEW id \in Nat, NEW a \in Answers \ {"none"},
         courier' = [courier EXCEPT !.at = "answered", !.answer = a, !.provider = id],
         messages' \in [Notices -> Seq(MessageStates)],
         \A m \in Notices \ {courier.key} : messages'[m] = messages[m],
         messages'[courier.key] # messages[courier.key] => courier.provider = NoMessage,
         id <= Len(messages'[courier.key]),
         veiled' \in {veiled, veiled \cup {courier.key}},
         courier.provider # NoMessage => veiled' = veiled,
         a = "sent" => id \in DOMAIN messages'[courier.key] /\ messages'[courier.key][id] = "sent",
         ~courier.dup /\ courier.key \notin veiled' =>
           /\ id # NoMessage => Len(messages'[courier.key]) = 1 /\ id = 1
           /\ id = NoMessage /\ a # "unknown" => messages'[courier.key] = <<>>
  PROVE  NotifyInv'
<1>1. /\ courier.key \in Notices /\ notices[courier.key] \in Rows
      /\ notices[courier.key].state = "sending" /\ notices[courier.key].dup = courier.dup
      /\ courier.provider = notices[courier.key].provider
  BY DEF NotifyInv, ClaimKnows, Working
<1>2. /\ courier'.at = "answered" /\ courier'.answer = a /\ courier'.provider = id
      /\ courier'.key = courier.key /\ courier'.dup = courier.dup
  BY DEF NotifyInv, NotifyTypeOK
<1>3. NotifyTypeOK'
  BY DEF NotifyInv, NotifyTypeOK
<1>4. ClaimKnows'
  BY <1>1, <1>2 DEF ClaimKnows, Working, Flagged
<1>5. ASSUME NEW m \in Notices PROVE KeyInv(m)'
  <2>1. CASE m = courier.key /\ courier.provider = NoMessage
    <3>1. 0 <= Len(messages'[m])
      OBVIOUS
    <3> QED
      BY <2>1, <3>1, <1>1, RowIsThere
         DEF NotifyInv, KeyInv, RowKnows, SendingKnows, SentKnows, Readable, Flagged, NoMessage
  <2>2. CASE m # courier.key \/ courier.provider # NoMessage
    <3>1. messages'[m] = messages[m] /\ (m \in veiled' <=> m \in veiled)
      BY <2>2
    <3> QED
      BY <3>1, OtherKey DEF NotifyInv
  <2> QED
    BY <2>1, <2>2
<1> QED
  BY <1>3, <1>4, <1>5 DEF NotifyInv

(* What the gateway does with a submission: one message, or one more.          *)
LEMMA GatewayTakesOne ==
  ASSUME NotifyInv, NEW n \in Notices, NEW id \in Nat, GatewayTakes(n, id)
  PROVE  /\ messages' \in [Notices -> Seq(MessageStates)]
         /\ \A m \in Notices \ {n} : messages'[m] = messages[m]
         /\ messages[n] = <<>> => Len(messages'[n]) = 1 /\ id = 1
         /\ id <= Len(messages'[n])
<1>1. messages \in [Notices -> Seq(MessageStates)] /\ messages[n] \in Seq(MessageStates)
  BY DEF NotifyInv, NotifyTypeOK
<1>2. CASE messages[n] # <<>> /\ id \in DOMAIN messages[n] /\ messages' = messages
  BY <1>1, <1>2
<1>3. CASE id = Len(messages[n]) + 1 /\ messages' = [messages EXCEPT ![n] = Append(@, "pending")]
  <2>1. "pending" \in MessageStates
    BY DEF MessageStates
  <2>2. /\ Append(messages[n], "pending") \in Seq(MessageStates)
        /\ Len(Append(messages[n], "pending")) = Len(messages[n]) + 1
    BY <1>1, <2>1
  <2>3. messages[n] = <<>> => Len(messages[n]) = 0
    OBVIOUS
  <2> QED
    BY <1>1, <1>3, <2>2, <2>3
<1> QED
  BY <1>2, <1>3 DEF GatewayTakes

(* A submission makes at most one message that its claim does not know.        *)
LEMMA SubmitInv ==
  ASSUME NotifyInv, Submit
  PROVE  NotifyInv'
<1>1. /\ courier.at = "claimed" /\ courier.provider = NoMessage /\ notices' = notices
      /\ courier.key \in Notices /\ courier.answer = "none"
      /\ ~courier.dup /\ courier.key \notin veiled => messages[courier.key] = <<>>
  BY DEF Submit, NotifyInv, ClaimKnows, Working, Flagged
<1>2. messages \in [Notices -> Seq(MessageStates)] /\ messages[courier.key] \in Seq(MessageStates)
  BY <1>1 DEF NotifyInv, NotifyTypeOK
<1>3. ASSUME NEW a \in Answers \ {"none", "sent"}, Answered(a)
      PROVE  courier' = [courier EXCEPT !.at = "answered", !.answer = a, !.provider = NoMessage]
  BY <1>1, <1>3 DEF Answered, NotifyInv, NotifyTypeOK
<1>4. CASE SubmitAccepted
  <2>1. PICK id \in 1..(Len(messages[courier.key]) + 1) :
          /\ GatewayTakes(courier.key, id)
          /\ courier' = [courier EXCEPT !.at = "answered", !.answer = "accepted", !.provider = id]
          /\ veiled' = veiled
    BY <1>4 DEF SubmitAccepted
  <2>2. id \in Nat /\ id # NoMessage
    BY <1>2 DEF NoMessage
  <2>3. /\ messages' \in [Notices -> Seq(MessageStates)]
        /\ \A m \in Notices \ {courier.key} : messages'[m] = messages[m]
        /\ messages[courier.key] = <<>> => Len(messages'[courier.key]) = 1 /\ id = 1
        /\ id <= Len(messages'[courier.key])
    BY <1>1, <2>1, <2>2, GatewayTakesOne
  <2>4. "accepted" \in Answers \ {"none"}
    BY DEF Answers
  <2> QED
    BY <1>1, <2>1, <2>2, <2>3, <2>4, AnswerInv
<1>5. ASSUME \E id \in 1..(Len(messages[courier.key]) + 1) : GatewayTakes(courier.key, id)
      PROVE  /\ messages' \in [Notices -> Seq(MessageStates)]
             /\ \A m \in Notices \ {courier.key} : messages'[m] = messages[m]
  <2>1. PICK id \in 1..(Len(messages[courier.key]) + 1) : GatewayTakes(courier.key, id)
    BY <1>5
  <2>2. id \in Nat
    BY <1>2
  <2> QED
    BY <1>1, <2>1, <2>2, GatewayTakesOne
<1>6. ASSUME NEW a \in {"unknown", "retryable", "permanent"}, Answered(a),
             messages' \in [Notices -> Seq(MessageStates)],
             \A m \in Notices \ {courier.key} : messages'[m] = messages[m],
             veiled' \in {veiled, veiled \cup {courier.key}},
             a = "unknown" \/ messages' = messages \/ courier.key \in veiled'
      PROVE  NotifyInv'
  <2>1. a \in Answers \ {"none", "sent"}
    BY DEF Answers
  <2>2. courier' = [courier EXCEPT !.at = "answered", !.answer = a, !.provider = NoMessage]
    BY <1>3, <1>6, <2>1
  <2>3. NoMessage \in Nat /\ NoMessage <= Len(messages'[courier.key])
    BY <1>1, <1>6 DEF NoMessage
  <2> QED
    BY <1>1, <1>6, <2>1, <2>2, <2>3, AnswerInv
<1>7. CASE SubmitUnknown
  <2>1. Answered("unknown") /\ veiled' = veiled
    BY <1>7 DEF SubmitUnknown
  <2>2. CASE UNCHANGED messages
    BY <1>2, <1>6, <2>1, <2>2
  <2>3. CASE \E id \in 1..(Len(messages[courier.key]) + 1) : GatewayTakes(courier.key, id)
    BY <1>5, <1>6, <2>1, <2>3
  <2> QED
    BY <1>7, <2>2, <2>3 DEF SubmitUnknown, TakenOrNot
<1>8. CASE SubmitServerError
  <2>1. Answered("retryable")
    BY <1>8 DEF SubmitServerError
  <2>2. CASE UNCHANGED <<messages, veiled>>
    BY <1>2, <1>6, <2>1, <2>2
  <2>3. CASE /\ \E id \in 1..(Len(messages[courier.key]) + 1) : GatewayTakes(courier.key, id)
             /\ veiled' = veiled \cup {courier.key}
    BY <1>5, <1>6, <2>1, <2>3
  <2> QED
    BY <1>8, <2>2, <2>3 DEF SubmitServerError
<1>9. CASE SubmitRefused
  BY <1>2, <1>6, <1>9 DEF SubmitRefused
<1> QED
  BY <1>4, <1>7, <1>8, <1>9 DEF Submit

(* A poll of the message a claim names: sent is what the gateway says of it.   *)
LEMMA PollInv ==
  ASSUME NotifyInv, Poll
  PROVE  NotifyInv'
<1>1. /\ courier.at = "claimed" /\ courier.provider # NoMessage /\ notices' = notices
      /\ messages' = messages /\ courier.key \in Notices /\ courier.provider \in Nat
      /\ ~courier.dup /\ courier.key \notin veiled =>
           Len(messages[courier.key]) = 1 /\ courier.provider = 1
      /\ courier.provider <= Len(messages[courier.key]) /\ veiled' = veiled
  BY DEF Poll, NotifyInv, NotifyTypeOK, ClaimKnows, Working, Flagged
<1>2. messages \in [Notices -> Seq(MessageStates)] /\ messages[courier.key] \in Seq(MessageStates)
  BY <1>1 DEF NotifyInv, NotifyTypeOK
<1>3. ASSUME NEW a \in Answers \ {"none"}, Answered(a),
             a = "sent" => messages[courier.key][courier.provider] = "sent"
      PROVE  NotifyInv'
  <2>1. courier' = [courier EXCEPT !.at = "answered", !.answer = a, !.provider = courier.provider]
    BY <1>3 DEF Answered, NotifyInv, NotifyTypeOK
  <2>2. courier.provider \in DOMAIN messages[courier.key]
    BY <1>1, <1>2 DEF NoMessage
  <2> QED
    BY <1>1, <1>2, <1>3, <2>1, <2>2, AnswerInv
<1>4. CASE \E a \in {"retryable", "permanent"} : Answered(a)
  <2>1. PICK a \in {"retryable", "permanent"} : Answered(a)
    BY <1>4
  <2>2. a \in Answers \ {"none"} /\ a # "sent"
    BY DEF Answers
  <2> QED
    BY <1>3, <2>1, <2>2
<1>5. CASE Answered(GatewayStatus(messages[courier.key][courier.provider]))
  <2> DEFINE state == messages[courier.key][courier.provider]
  <2>1. state \in MessageStates
    BY <1>1, <1>2 DEF NoMessage
  <2>2. /\ GatewayStatus(state) \in Answers \ {"none"}
        /\ GatewayStatus(state) = "sent" => state = "sent"
    BY <2>1 DEF GatewayStatus, MessageStates, Answers
  <2> QED
    BY <1>3, <1>5, <2>2
<1> QED
  BY <1>4, <1>5 DEF Poll

(* The answer of a claim is written into the row it was made for.              *)
LEMMA CompleteClaimInv ==
  ASSUME NotifyInv, CompleteClaim
  PROVE  NotifyInv'
<1> DEFINE n == courier.key
           r == Completed(notices[courier.key])
<1>1. /\ courier.at = "answered" /\ MayComplete /\ messages' = messages /\ courier' = IdleCourier
      /\ veiled' = veiled
      /\ notices' = [notices EXCEPT ![n] = r]
  BY DEF CompleteClaim
<1>2. /\ n \in Notices /\ notices[n] \in Rows /\ courier.answer \in Answers \ {"none"}
      /\ courier.provider \in Nat /\ courier.dup \in BOOLEAN /\ notices[n].text \in Texts
      /\ courier.provider <= Len(messages[n]) /\ Len(messages[n]) \in Nat
  <2>1. n \in Notices /\ notices[n] \in Rows /\ courier.answer # "none"
    BY <1>1 DEF NotifyInv, ClaimKnows, Working
  <2>2. courier.provider <= Len(messages[n])
    BY <1>1 DEF NotifyInv, ClaimKnows, Working
  <2> QED
    BY <2>1, <2>2 DEF NotifyInv, NotifyTypeOK, Rows
<1>3. ~courier.dup /\ n \notin veiled =>
        /\ courier.provider # NoMessage => Len(messages[n]) = 1 /\ courier.provider = 1
        /\ courier.provider = NoMessage /\ courier.answer # "unknown" => messages[n] = <<>>
  BY <1>1 DEF NotifyInv, ClaimKnows, Working, Flagged
<1>9. courier.answer = "sent" =>
        courier.provider \in DOMAIN messages[n] /\ messages[n][courier.provider] = "sent"
  BY <1>1 DEF NotifyInv, ClaimKnows, Working
<1>4. /\ r \in Rows /\ ValidRecord(r) /\ r.provider <= Len(messages[n]) /\ r.state # "sending"
      /\ ~r.dup => /\ ~courier.dup /\ courier.answer # "unknown" /\ r.provider = courier.provider
      /\ r.state \in {"delivered", "delivered_possible_duplicate"} =>
           courier.answer = "sent" /\ r.provider = courier.provider
  <2>1. CASE courier.answer \in {"accepted", "retryable"}
    BY <2>1, <1>2 DEF Completed, NoticeRow, Rows, RowStates, Waiting, Settled, ValidRecord
  <2>2. CASE courier.answer = "unknown"
    <3>1. r = NoticeRow(notices[n].text, "delivery_unknown", FALSE, NoMessage, TRUE, TRUE)
      BY <2>2 DEF Completed
    <3>2. /\ r \in Rows /\ r.provider = NoMessage /\ r.state = "delivery_unknown"
          /\ r.dup /\ r.error
      BY <3>1, <1>2 DEF NoticeRow, Rows, RowStates, Waiting, NoMessage
    <3>3. NoMessage <= Len(messages[n])
      BY <1>2 DEF NoMessage
    <3> HIDE DEF r
    <3> QED
      BY <3>2, <3>3 DEF ValidRecord
  <2>3. CASE courier.answer = "sent"
    <3>1. courier.provider # NoMessage
      BY <1>1, <2>3 DEF MayComplete
    <3>2. CASE courier.dup
      BY <2>3, <3>1, <3>2, <1>2
         DEF Completed, NoticeRow, Rows, RowStates, Waiting, Settled, ValidRecord
    <3>3. CASE ~courier.dup
      BY <2>3, <3>1, <3>3, <1>2
         DEF Completed, NoticeRow, Rows, RowStates, Waiting, Settled, ValidRecord
    <3> QED
      BY <3>2, <3>3
  <2>4. CASE courier.answer = "permanent"
    BY <2>4, <1>2 DEF Completed, NoticeRow, Rows, RowStates, Waiting, Settled, ValidRecord
  <2> QED
    BY <2>1, <2>2, <2>3, <2>4, <1>2 DEF Answers
<1> HIDE DEF r
<1>5. \A m \in Notices : notices'[m] = IF m = n THEN r ELSE notices[m]
  BY <1>1 DEF NotifyInv, NotifyTypeOK
<1>6. NotifyTypeOK'
  BY <1>1, <1>4 DEF NotifyInv, NotifyTypeOK, IdleCourier, NoMessage, Answers
<1>7. ClaimKnows'
  BY <1>1 DEF ClaimKnows, Working, IdleCourier
<1>8. ASSUME NEW m \in Notices PROVE KeyInv(m)'
  <2>1. CASE m = n
    BY <2>1, <1>1, <1>3, <1>4, <1>5, <1>9, RowIsThere
       DEF KeyInv, RowKnows, SendingKnows, SentKnows, Readable, Flagged
  <2>2. CASE m # n
    BY <2>2, <1>1, <1>5, OtherKey DEF NotifyInv
  <2> QED
    BY <2>1, <2>2
<1> QED
  BY <1>6, <1>7, <1>8 DEF NotifyInv

(* A process that stops or starts holds no claim; the rows stay as they are.   *)
LEMMA RestartInv ==
  ASSUME NotifyInv, NotifierStops \/ NotifierStarts
  PROVE  NotifyInv'
<1>1. /\ notices' = notices /\ messages' = messages /\ veiled' = veiled
      /\ courier' \in {IdleCourier, [IdleCourier EXCEPT !.at = "down"]}
  BY DEF NotifierStops, NotifierStarts
<1>2. NotifyTypeOK' /\ ~Working'
  <2>1. /\ courier'.at \in {"idle", "down"} /\ courier' \in
             [at : {"idle", "claimed", "answered", "down"}, key : Nat, provider : Nat,
              dup : BOOLEAN, answer : Answers]
    <3>1. CASE courier' = IdleCourier
      BY <3>1 DEF IdleCourier, NoMessage, Answers
    <3>2. CASE courier' = [IdleCourier EXCEPT !.at = "down"]
      BY <3>2 DEF IdleCourier, NoMessage, Answers
    <3> QED
      BY <1>1, <3>1, <3>2
  <2> QED
    BY <1>1, <2>1 DEF NotifyInv, NotifyTypeOK, Working
<1>3. \A m \in Notices : KeyInv(m)'
  BY <1>1, OtherKey DEF NotifyInv
<1> QED
  BY <1>2, <1>3 DEF NotifyInv, ClaimKnows

(* Every step keeps the invariant.                                             *)
LEMMA NotifyStepInv == NotifyInv /\ [NotifyNext]_notifyVars => NotifyInv'
<1> SUFFICES ASSUME NotifyInv, [NotifyNext]_notifyVars PROVE NotifyInv'
  OBVIOUS
<1>1. CASE UNCHANGED notifyVars
  <2>1. notices' = notices /\ messages' = messages /\ veiled' = veiled /\ courier' = courier
    BY <1>1 DEF notifyVars
  <2>2. \A m \in Notices : KeyInv(m)'
    BY <2>1, OtherKey DEF NotifyInv
  <2> QED
    BY <2>1, <2>2 DEF NotifyInv, NotifyTypeOK, ClaimKnows, Working, Flagged
<1>2. ASSUME NEW n \in Notices, NEW t \in Texts, ControllerCalls(n, t) PROVE NotifyInv'
  BY <1>2, EnqueueInv DEF ControllerCalls
<1>3. ASSUME NEW n \in Notices, ClaimNext(n) PROVE NotifyInv'
  BY <1>3, ClaimNextInv
<1>4. ASSUME NEW n \in Notices, RetryDue(n) \/ LeaseLapses(n) PROVE NotifyInv'
  BY <1>4, TimersInv
<1>5. ASSUME NEW n \in Notices, GatewaySettles(n) PROVE NotifyInv'
  BY <1>5, GatewaySettlesInv
<1> QED
  BY <1>1, <1>2, <1>3, <1>4, <1>5, SubmitInv, PollInv, CompleteClaimInv, RestartInv DEF NotifyNext

(* For every number of notices, texts and faults, and every outbox limit: a row *)
(* that is not flagged as a possible duplicate stands for at most one message  *)
(* of the gateway, exactly one and sent when it is recorded as delivered,      *)
(* unless a submission of it was taken behind a 408 or 5xx; a delivered row    *)
(* names a message that was sent; and no row that claims, answers or restarts  *)
(* leave behind makes the list of notifications unreadable.                    *)
THEOREM OutboxStaysHonest == NotifySpec => []OutboxIsHonest
<1>1. NotifyInv => OutboxIsHonest
  <2> SUFFICES ASSUME NotifyInv, NEW n \in Notices, HasRow(n)
               PROVE  /\ Readable(n)
                      /\ SentKnows(n)
                      /\ notices[n].state # "sending" /\ ~Flagged(n) =>
                           /\ Len(messages[n]) <= 1
                           /\ notices[n].state = "delivered" => messages[n] = <<"sent">>
    BY DEF OutboxIsHonest, DuplicatesAreFlagged, DeliveredWasSent, ListIsReadable,
           project_records, DecodesRow, Readable, SentKnows, Flagged, NotifyInv, NotifyTypeOK, HasRow
  <2>1. notices[n] \in Rows /\ KeyInv(n) /\ notices[n].provider \in Nat
    BY DEF NotifyInv, NotifyTypeOK, HasRow, Rows
  <2>2. messages[n] \in Seq(MessageStates) /\ (messages[n] = <<>> => Len(messages[n]) = 0)
    BY DEF NotifyInv, NotifyTypeOK
  <2>3. ASSUME notices[n].state # "sending", ~Flagged(n) PROVE Len(messages[n]) <= 1
    <3>1. messages[n] = <<>> \/ Len(messages[n]) = 1
      BY <2>1, <2>3 DEF KeyInv, RowKnows
    <3>2. 0 <= 1 /\ 1 <= 1
      OBVIOUS
    <3> QED
      BY <2>2, <3>1, <3>2
  <2>4. ASSUME notices[n].state = "delivered", ~Flagged(n) PROVE messages[n] = <<"sent">>
    <3>1. /\ notices[n].provider \in DOMAIN messages[n]
          /\ messages[n][notices[n].provider] = "sent"
      BY <2>1, <2>4 DEF KeyInv, SentKnows
    <3>2. notices[n].provider # NoMessage
      BY <2>2, <3>1 DEF NoMessage
    <3>3. Len(messages[n]) = 1 /\ notices[n].provider = 1
      BY <2>1, <2>4, <3>2 DEF KeyInv, RowKnows
    <3> QED
      BY <2>2, <3>1, <3>3, OneMessage
  <2> QED
    BY <2>1, <2>3, <2>4 DEF KeyInv
<1> QED
  BY <1>1, NotifyInitInv, NotifyStepInv, PTL DEF NotifySpec
================================================================================
