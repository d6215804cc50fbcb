----------------------------- MODULE ImageHandoff -----------------------------
(***************************************************************************)
(* From a build to a release that can be deployed. The launcher stages the   *)
(* output of a rootless image build per lease and promotes what validates to *)
(* the project's result; the build side publishes an archive and then its    *)
(* manifest in a directory the root side can read; the root executor copies  *)
(* the archive to its private store and then persists the release bundle     *)
(* that names it. All of it is files: every file is written under a          *)
(* temporary name, linked to its final name and unlinked from the first, and *)
(* a process may die between any two of these steps.                         *)
(***************************************************************************)
EXTENDS Naturals, FiniteSets

CONSTANTS
  BuildLeases,       \* leases of image builds of one project, each building its own bundle
  NoBuild,           \* stands for no lease
  HandoffMaxFaults   \* bound: crashes and failed calls

ASSUME HandoffAssumption ==
  /\ IsFiniteSet(BuildLeases) /\ NoBuild \notin BuildLeases /\ HandoffMaxFaults \in Nat

VARIABLES
  result,        \* the project's result directory: its lease and its files
  stagings,      \* stagings[l]: files in the staging directory of l, or NoDirectory
  requestFile,   \* requestFile[l]: absent, unsealed (not yet read only) or sealed
  discards,      \* whether a directory renamed for deletion is still there
  keepers,       \* the launcher's store: closed, idle, or the step it is at, for which lease
  builder,       \* builder[l]: the build's process
  built,         \* leases whose promoted result the build side has opened
  files,         \* files[k][l]: the file of kind k named after the bundle of l
  hand,          \* hand[p]: what the build side and the root side are publishing
  handoffFaults

storeVars   == <<result, stagings, requestFile, discards, keepers, builder>>
handoffVars == <<storeVars, built, files, hand, handoffFaults>>

OutputFiles == {"archive", "request", "result"}
NoDirectory == {"none"}
NoResult    == [of |-> NoBuild, files |-> {}]

Kinds == {"archive", "manifest", "private", "bundle"}
Sides == {"build", "root"}
SideKinds(p) == IF p = "build" THEN {"archive", "manifest"} ELSE {"private", "bundle"}

HandFault == handoffFaults < HandoffMaxFaults /\ handoffFaults' = handoffFaults + 1

HandoffInit ==
  /\ result = NoResult
  /\ stagings = [l \in BuildLeases |-> NoDirectory]
  /\ requestFile = [l \in BuildLeases |-> "absent"]
  /\ discards = FALSE
  /\ keepers = [at |-> "closed", of |-> NoBuild]
  /\ builder = [l \in BuildLeases |-> "none"]
  /\ built = {}
  /\ files = [k \in Kinds |-> [l \in BuildLeases |-> "absent"]]
  /\ hand = [p \in Sides |-> [at |-> "idle", of |-> NoBuild]]
  /\ handoffFaults = 0

(***************************************************************************)
(* The result store. It is opened once, and its lock keeps one operation at  *)
(* a time; opening sweeps what a process that died has left.                 *)
(***************************************************************************)
KeeperAt(a, l) == keepers.at = a /\ keepers.of = l
KeeperGoes(a, l) == keepers' = [at |-> a, of |-> l]
KeeperDone == KeeperGoes("idle", NoBuild)
RestOfStore == UNCHANGED <<built, files, hand>>

\* a request file that was not sealed makes the store refuse to open
OpenStore ==
  /\ keepers.at = "closed" /\ KeeperDone
  /\ \A l \in BuildLeases : requestFile[l] # "unsealed"
  /\ stagings' = [l \in BuildLeases |-> NoDirectory]
  /\ requestFile' = [l \in BuildLeases |-> "absent"]
  /\ discards' = FALSE
  /\ UNCHANGED <<result, builder, handoffFaults>> /\ RestOfStore

\* prepare: the old result goes first, it is not kept until the new one is there
PrepareRemoves(l) ==
  /\ keepers.at = "idle" /\ builder[l] = "none"
  /\ KeeperGoes("prepare", l)
  /\ discards' = (discards \/ result # NoResult) /\ result' = NoResult
  /\ UNCHANGED <<stagings, requestFile, builder, handoffFaults>> /\ RestOfStore

\* room for the largest archive is checked before the staging directory is made
PrepareStages(l) ==
  /\ KeeperAt("prepare", l)
  /\ discards' = FALSE
  /\ \/ KeeperGoes("request", l) /\ stagings' = [stagings EXCEPT ![l] = {}] /\ UNCHANGED handoffFaults
     \/ HandFault /\ KeeperDone /\ UNCHANGED stagings
  /\ UNCHANGED <<result, requestFile, builder>> /\ RestOfStore

PrepareWritesRequest(l) ==
  /\ KeeperAt("request", l) /\ KeeperGoes("seal", l)
  /\ requestFile' = [requestFile EXCEPT ![l] = "unsealed"]
  /\ UNCHANGED <<result, stagings, discards, builder, handoffFaults>> /\ RestOfStore

PrepareSeals(l) ==
  /\ KeeperAt("seal", l) /\ KeeperDone
  /\ requestFile' = [requestFile EXCEPT ![l] = "sealed"]
  /\ builder' = [builder EXCEPT ![l] = "running"]
  /\ UNCHANGED <<result, stagings, discards, handoffFaults>> /\ RestOfStore

(***************************************************************************)
(* The build writes the archive, then the request it was, then the result.   *)
(* Nothing of it is there any more when its directory was swept.             *)
(***************************************************************************)
NextFile(written) ==
  CASE written = {} -> "archive"
    [] written = {"archive"} -> "request"
    [] written = {"archive", "request"} -> "result"

BuildWrites(l) ==
  /\ builder[l] = "running" /\ stagings[l] \notin {NoDirectory, OutputFiles}
  /\ stagings' = [stagings EXCEPT ![l] = @ \cup {NextFile(@)}]
  /\ UNCHANGED <<result, requestFile, discards, keepers, builder, handoffFaults>> /\ RestOfStore

\* the process ends: it reports success, which the launcher does not take its word for, or
\* it failed or was killed
BuildEnds(l) ==
  /\ builder[l] = "running"
  /\ \/ stagings[l] = OutputFiles /\ builder' = [builder EXCEPT ![l] = "succeeded"]
        /\ UNCHANGED handoffFaults
     \/ HandFault /\ \E how \in {"succeeded", "stopped"} : builder' = [builder EXCEPT ![l] = how]
     \/ stagings[l] = NoDirectory /\ builder' = [builder EXCEPT ![l] = "stopped"]
        /\ UNCHANGED handoffFaults
  /\ UNCHANGED <<result, stagings, requestFile, discards, keepers>> /\ RestOfStore

(***************************************************************************)
(* Promotion and discarding.                                                *)
(***************************************************************************)
OutputIsThere(l) == stagings[l] # NoDirectory

OutputValidates(l) == stagings[l] = OutputFiles

\* the unit succeeded; what counts is what is in the directory
PromoteChecks(l) ==
  /\ keepers.at = "idle" /\ builder[l] = "succeeded"
  /\ OutputValidates(l) /\ KeeperGoes("retire", l)
  /\ UNCHANGED <<result, stagings, requestFile, discards, builder, handoffFaults>> /\ RestOfStore

PromoteRetires(l) ==
  /\ KeeperAt("retire", l) /\ KeeperGoes("promote", l)
  /\ discards' = (discards \/ result # NoResult) /\ result' = NoResult
  /\ UNCHANGED <<stagings, requestFile, builder, handoffFaults>> /\ RestOfStore

PromoteRenames(l) ==
  /\ KeeperAt("promote", l) /\ KeeperGoes("tidy", l)
  /\ result' = [of |-> l, files |-> stagings[l]]
  /\ stagings' = [stagings EXCEPT ![l] = NoDirectory]
  /\ UNCHANGED <<requestFile, discards, builder, handoffFaults>> /\ RestOfStore

PromoteTidies(l) ==
  /\ KeeperAt("tidy", l) /\ KeeperDone
  /\ discards' = FALSE
  /\ requestFile' = [requestFile EXCEPT ![l] = "absent"]
  /\ builder' = [builder EXCEPT ![l] = "promoted"]
  /\ UNCHANGED <<result, stagings, handoffFaults>> /\ RestOfStore

Discarded(l) ==
  /\ keepers.at = "idle"
  /\ builder[l] = "stopped" \/ (builder[l] = "succeeded" /\ ~OutputValidates(l))
  /\ stagings' = [stagings EXCEPT ![l] = NoDirectory]
  /\ requestFile' = [requestFile EXCEPT ![l] = "absent"]
  /\ builder' = [builder EXCEPT ![l] = "discarded"]
  /\ UNCHANGED <<result, discards, keepers, handoffFaults>> /\ RestOfStore

LauncherDies ==
  /\ keepers.at # "closed" /\ HandFault
  /\ keepers' = [at |-> "closed", of |-> NoBuild]
  /\ UNCHANGED <<result, stagings, requestFile, discards, builder>> /\ RestOfStore

(***************************************************************************)
(* Publishing a file: a temporary one, a second link under the final name,   *)
(* one link. A file with two links is not trusted by anybody who opens it.   *)
(***************************************************************************)
PublishedByName(k, l) == files[k][l] \in {"linked", "whole"}

Published(k, l) == files[k][l] = "whole"

\* what reconciling leaves of an interrupted publication
ReconcileTemporary(f) == CASE f = "temp" -> "absent" [] f = "linked" -> "whole" [] OTHER -> f

\* the private directory is reconciled for every bundle of the project at once
reconcile_private_temporaries == [l \in BuildLeases |-> ReconcileTemporary(files["private"][l])]

\* and so is the bundle store, when it is opened
sweep_orphan_temporary_files == [l \in BuildLeases |-> ReconcileTemporary(files["bundle"][l])]

NextLink(f) == CASE f = "absent" -> "temp" [] f = "temp" -> "linked" [] f = "linked" -> "whole"

HandGoes(p, a, l) == hand' = [hand EXCEPT ![p] = [at |-> a, of |-> l]]

\* the build side opens the archive of the result before the next build may remove it
OpenResult ==
  /\ result # NoResult /\ keepers.at = "idle"
  /\ built' = built \cup {result.of}
  /\ UNCHANGED <<storeVars, files, hand, handoffFaults>>

\* publish: temporaries of this bundle only
PublishBegins(l) ==
  /\ hand["build"].at = "idle" /\ l \in built
  /\ HandGoes("build", "archive", l)
  /\ files' = [k \in Kinds |-> IF k \in SideKinds("build")
                               THEN [files[k] EXCEPT ![l] = ReconcileTemporary(@)] ELSE files[k]]
  /\ UNCHANGED <<storeVars, built, handoffFaults>>

\* the manifest binds the archive, both under their final names alone
BindsArchive(l) == Published("manifest", l) /\ Published("archive", l)

\* load; then the temporaries of every bundle in the private directory are reconciled
RootLoads(l) ==
  /\ hand["root"].at = "idle" /\ BindsArchive(l)
  /\ HandGoes("root", "private", l)
  /\ files' = [files EXCEPT !["private"] = reconcile_private_temporaries]
  /\ UNCHANGED <<storeVars, built, handoffFaults>>

\* one step towards a file that is not there yet
WriteFile(p) ==
  LET k == hand[p].at  l == hand[p].of IN
  /\ k \in Kinds /\ ~Published(k, l)
  /\ files' = [files EXCEPT ![k][l] = NextLink(@)]
  /\ UNCHANGED <<storeVars, built, hand, handoffFaults>>

\* the archive is there: its manifest is next
ArchiveDone ==
  LET l == hand["build"].of IN
  /\ hand["build"].at = "archive" /\ Published("archive", l)
  /\ HandGoes("build", "manifest", l)
  /\ UNCHANGED <<storeVars, built, files, handoffFaults>>

\* the private archive is there: the bundle store is opened, which sweeps it
PrivateDone ==
  LET l == hand["root"].of IN
  /\ hand["root"].at = "private" /\ Published("private", l)
  /\ HandGoes("root", "bundle", l)
  /\ files' = [files EXCEPT !["bundle"] = sweep_orphan_temporary_files]
  /\ UNCHANGED <<storeVars, built, handoffFaults>>

\* what was published last is there, and a bundle reads back as the one it is named after
load_bundle_file(l) == Published("bundle", l)

PublicationDone(p) ==
  LET l == hand[p].of IN
  /\ \/ hand[p].at = "manifest" /\ Published("manifest", l)
     \/ hand[p].at = "bundle" /\ load_bundle_file(l)
  /\ HandGoes(p, "idle", NoBuild)
  /\ UNCHANGED <<storeVars, built, files, handoffFaults>>

\* a call fails: the temporary is removed, as far as that works
PublicationFails(p) ==
  LET k == hand[p].at  l == hand[p].of IN
  /\ k \in Kinds /\ HandFault /\ HandGoes(p, "idle", NoBuild)
  /\ \/ files' = [files EXCEPT ![k][l] = ReconcileTemporary(@)]
     \/ UNCHANGED files
  /\ UNCHANGED <<storeVars, built>>

HandoffNext ==
  \/ OpenStore \/ LauncherDies \/ OpenResult
  \/ \E l \in BuildLeases :
       \/ PrepareRemoves(l) \/ PrepareStages(l) \/ PrepareWritesRequest(l) \/ PrepareSeals(l)
       \/ BuildWrites(l) \/ BuildEnds(l)
       \/ PromoteChecks(l) \/ PromoteRetires(l) \/ PromoteRenames(l) \/ PromoteTidies(l)
       \/ Discarded(l)
       \/ PublishBegins(l) \/ RootLoads(l)
  \/ ArchiveDone \/ PrivateDone
  \/ \E p \in Sides : WriteFile(p) \/ PublicationDone(p) \/ PublicationFails(p)

HandoffSpec == HandoffInit /\ [][HandoffNext]_handoffVars

(***************************************************************************)
(* Properties.                                                              *)
(***************************************************************************)
\* The project's result is always the whole output of one build, and the staging directory
\* of a build that still runs is never what the store has promoted: whatever the launcher
\* was doing when it died, reopening never turns half an output into a result.
ResultIsWhole ==
  result # NoResult => result.files = OutputFiles /\ builder[result.of] # "running"

\* A name another process goes by is published last: a manifest or a release bundle is never
\* there, not even as a second link, before the archive it stands for can be opened by
\* everyone; so a deploy that finds a bundle also finds its image.
NamedAfterItsArchive ==
  \A l \in BuildLeases :
    /\ files["manifest"][l] \in {"linked", "whole"} => files["archive"][l] = "whole"
    /\ files["bundle"][l] \in {"linked", "whole"} => files["private"][l] = "whole" /\ l \in built
================================================================================
