--------------------------- MODULE SourceRepository ---------------------------
(***************************************************************************)
(* The Git adapter of the source broker: one canonical bare repository per   *)
(* project with a fetched and an accepted ref, a staging repository per      *)
(* project under one shared root, and the fetch that fills the first from    *)
(* the second. A fetch initialises staging, fetches into it with the         *)
(* canonical objects as alternate, promotes the pack under a keep marker,    *)
(* moves the fetched ref, drops the marker and removes staging; a crash or a *)
(* failed command may stop it between any two of these, and the next fetch,  *)
(* of any project, has to explain what it finds. An operator may repack the  *)
(* canonical repository at any time, which drops what neither a ref nor a    *)
(* marker holds. Priority work stops a background fetch that has not started *)
(* to promote.                                                               *)
(***************************************************************************)
EXTENDS Naturals, FiniteSets

CONSTANTS
  SourceProjects,   \* projects with a canonical repository
  CommitsOf,        \* CommitsOf[p]: the commits of project p
  ParentsOf,        \* ParentsOf[c]: the parents of commit c
  NoObject,         \* a ref that does not exist
  NoSourceProject,
  RepoMaxFaults     \* bound: crashes and failed commands

AllCommits == UNION {CommitsOf[p] : p \in SourceProjects}

ASSUME RepositoryAssumption ==
  /\ \A p \in SourceProjects : \A c \in CommitsOf[p] : ParentsOf[c] \subseteq CommitsOf[p]
  /\ NoObject \notin AllCommits /\ NoSourceProject \notin SourceProjects
  /\ RepoMaxFaults \in Nat

VARIABLES
  remoteHead,    \* remoteHead[p]: main of the remote, which may be rewritten
  fetchedRef,    \* fetchedRef[p], acceptedRef[p]: the two canonical refs
  acceptedRef,
  objects,       \* objects[p]: commits in the canonical object store
  keeper,        \* keeper[p]: the keep marker of a promotion and its pack
  staging,       \* staging[p]: the staging repository, and what a power failure took of its pack
  fetcher,       \* the fetch that holds the fetch lock
  waiting,       \* projects whose foreground fetch waits for the lock
  urgent,        \* projects with a durable webhook not yet fetched
  returned,      \* returned[p]: the head the last fetch of p returned
  repoFaults

canonical == <<fetchedRef, acceptedRef, objects, keeper>>
signals   == <<waiting, urgent>>
repoVars  == <<remoteHead, canonical, staging, fetcher, signals, returned, repoFaults>>

NoKeep    == [of |-> NoObject, pack |-> {}, whole |-> FALSE]
NoStaging == [made |-> FALSE, marked |-> FALSE, head |-> NoObject, pack |-> {}, torn |-> "no"]
NoFetch   == [of |-> NoSourceProject, on |-> NoSourceProject, at |-> "idle",
              own |-> FALSE,
              background |-> FALSE, overtaken |-> FALSE]

RepoInit ==
  /\ remoteHead \in [SourceProjects -> AllCommits]
  /\ \A p \in SourceProjects : remoteHead[p] \in CommitsOf[p] /\ ParentsOf[remoteHead[p]] = {}
  /\ fetchedRef = [p \in SourceProjects |-> NoObject]
  /\ acceptedRef = [p \in SourceProjects |-> NoObject]
  /\ objects = [p \in SourceProjects |-> {}]
  /\ keeper = [p \in SourceProjects |-> NoKeep]
  /\ staging = [p \in SourceProjects |-> NoStaging]
  /\ fetcher = NoFetch
  /\ waiting = {} /\ urgent = {}
  /\ returned = [p \in SourceProjects |-> NoObject]
  /\ repoFaults = 0

RepoFault == repoFaults < RepoMaxFaults /\ repoFaults' = repoFaults + 1

\* a set of commits that has the parents of each of its members
ClosedUnderParents(S) == \A c \in S : ParentsOf[c] \subseteq S

\* History[c]: c and its ancestors, what every closed set with c in it holds
History ==
  [c \in AllCommits \cup {NoObject} |->
     IF c = NoObject THEN {}
     ELSE {d \in AllCommits : \A S \in SUBSET AllCommits :
                                c \in S /\ ClosedUnderParents(S) => d \in S}]

Reachable(p) == History[fetchedRef[p]] \cup History[acceptedRef[p]]

contains_commit(p, c) == c \in objects[p]

FetcherAt(step) == fetcher.at = step
Go(step) == fetcher' = [fetcher EXCEPT !.at = step]

-----------------------------------------------------------------------------
(* The world outside: the remote, an operator's repack, webhooks             *)

PushRemote(p) ==
  /\ \E c \in CommitsOf[p] \ {remoteHead[p]} : remoteHead' = [remoteHead EXCEPT ![p] = c]
  /\ UNCHANGED <<canonical, staging, fetcher, signals, returned, repoFaults>>

\* what no ref reaches and no marked pack holds is dropped
Repack(p) ==
  LET held == Reachable(p) \cup (IF keeper[p].whole THEN keeper[p].pack ELSE {})
  IN /\ ~ objects[p] \subseteq held
     /\ objects' = [objects EXCEPT ![p] = @ \cap held]
     /\ UNCHANGED <<remoteHead, fetchedRef, acceptedRef, keeper, staging, fetcher, signals,
                    returned, repoFaults>>

\* a durable webhook raises the signal of its project and the generation, which a
\* background fetch compares with the one it started from
notify_priority_fetch(p) ==
  /\ p \notin urgent
  /\ urgent' = urgent \cup {p}
  /\ fetcher' = [fetcher EXCEPT !.overtaken = @ \/ fetcher.background]
  /\ UNCHANGED <<remoteHead, canonical, staging, waiting, returned, repoFaults>>

clear_priority_fetch(p) ==
  /\ p \in urgent
  /\ urgent' = urgent \ {p}
  /\ UNCHANGED <<remoteHead, canonical, staging, fetcher, waiting, returned, repoFaults>>

-----------------------------------------------------------------------------
(* Taking the fetch lock                                                     *)

StartFetch(p, background) ==
  /\ fetcher' = [of |-> p, on |-> NoSourceProject, at |-> "recover",
                 own |-> FALSE, background |-> background, overtaken |-> FALSE]
  /\ returned' = [returned EXCEPT ![p] = NoObject]

\* a foreground fetch counts itself as a waiter while another fetch has the lock
fetch_remote_main(p) ==
  /\ ~ FetcherAt("idle") /\ p \notin waiting /\ fetcher.of # p
  /\ waiting' = waiting \cup {p}
  /\ UNCHANGED <<remoteHead, canonical, staging, fetcher, urgent, returned, repoFaults>>

TakeFetchLock(p) ==
  /\ FetcherAt("idle") /\ (p \in waiting \/ waiting = {})
  /\ waiting' = waiting \ {p}
  /\ StartFetch(p, FALSE)
  /\ UNCHANGED <<remoteHead, canonical, staging, urgent, repoFaults>>

\* deferred to waiting or urgent work, and to whoever holds the lock
fetch_remote_main_reconciliation(p) ==
  /\ waiting = {} /\ urgent = {} /\ FetcherAt("idle")
  /\ StartFetch(p, TRUE)
  /\ UNCHANGED <<remoteHead, canonical, staging, signals, repoFaults>>

Deferred == fetcher.background /\ (waiting # {} \/ urgent # {} \/ fetcher.overtaken)

\* an error: the locks are given back and what is on disk stays
Stop == fetcher' = NoFetch

-----------------------------------------------------------------------------
(* Finding what earlier fetches left                                         *)

remove_staging_directory(p) == staging' = [staging EXCEPT ![p] = NoStaging]

\* the marker of p is usable: its pack and index are there with it
validate_promoted_pack_guard(p) == keeper[p] # NoKeep => keeper[p].whole

find_promoted_pack_guard(p, c) == keeper[p].of = c

staging_initialization_complete(p) == staging[p].marked

\* what staging holds by the names in it: no pack, one pack with its index, or
\* something else; what is in the files is not looked at
staged_pack(p) ==
  CASE staging[p].torn = "names" -> "bad"
    [] staging[p].torn = "lost" \/ staging[p].pack = {} -> "none"
    [] OTHER -> "one"

\* what reconcile_interrupted_fetch does about a staging repository of p: nothing
\* to keep, promote it again, go on to its ref, or an error that keeps it all
InterruptedFetch(p) ==
  LET s == staging[p]
      present == contains_commit(p, s.head)
  IN IF ~ staging_initialization_complete(p) \/ s.head = NoObject THEN "clean"
     ELSE IF ~ validate_promoted_pack_guard(p) THEN "error"
     ELSE IF find_promoted_pack_guard(p, s.head) \/ fetchedRef[p] = s.head
          THEN IF present THEN "publish" ELSE "error"
     ELSE IF staged_pack(p) = "bad" THEN IF present THEN "error" ELSE "clean"
     ELSE IF staged_pack(p) = "none" THEN IF present THEN "publish" ELSE "clean"
     ELSE "promote"

\* staging of every project is looked at, the fetch's own and the others'
reconcile_stale_staging_directories(p) ==
  /\ FetcherAt("recover") /\ staging[p].made
  /\ IF Deferred \/ InterruptedFetch(p) = "error" THEN Stop
     ELSE fetcher' = [fetcher EXCEPT !.on = p, !.at = InterruptedFetch(p)]
  /\ UNCHANGED <<remoteHead, canonical, staging, signals, returned, repoFaults>>

\* a marker without staging is only explained by the ref it was for
reconcile_orphaned_promoted_pack_guards ==
  LET p == fetcher.of IN
  /\ FetcherAt("recover") /\ \A q \in SourceProjects : ~ staging[q].made
  /\ IF Deferred \/ ~ validate_promoted_pack_guard(p)
        \/ (keeper[p] # NoKeep /\ (keeper[p].of # fetchedRef[p] \/ ~ contains_commit(p, keeper[p].of)))
     THEN Stop /\ UNCHANGED keeper
     ELSE /\ keeper' = [keeper EXCEPT ![p] = NoKeep]
          /\ Go("initialize")
  /\ UNCHANGED <<remoteHead, fetchedRef, acceptedRef, objects, staging, signals, returned, repoFaults>>

-----------------------------------------------------------------------------
(* The fetch                                                                 *)

create_private_directory(p) == staging' = [staging EXCEPT ![p].made = TRUE]

\* written and synced last: the repository in the directory is complete
write_staging_initialization_marker(p) == staging' = [staging EXCEPT ![p].marked = TRUE]

initialize_staging_repository ==
  LET p == fetcher.of IN
  /\ FetcherAt("initialize")
  /\ IF staging[p].made
     THEN write_staging_initialization_marker(p) /\ Go("fetch")
     ELSE create_private_directory(p) /\ UNCHANGED fetcher
  /\ UNCHANGED <<remoteHead, canonical, signals, returned, repoFaults>>

\* negotiation starts from all objects at hand, not from the two refs
SeedFromObjects(p, c) == History[c] \ objects[p]

\* a head whose whole history is at hand needs no pack; otherwise the pack holds
\* what the two seeded refs do not reach
seed_staging_negotiation_refs(p, c) ==
  IF History[c] \subseteq objects[p] THEN {} ELSE History[c] \ Reachable(p)

fetch_staged_main ==
  LET p == fetcher.of IN
  /\ FetcherAt("fetch") /\ ~ Deferred
  /\ staging' = [staging EXCEPT ![p] =
                   [@ EXCEPT !.head = remoteHead[p],
                             !.pack = seed_staging_negotiation_refs(p, remoteHead[p])]]
  /\ fetcher' = [fetcher EXCEPT !.at = "promote", !.on = p, !.own = TRUE]
  /\ UNCHANGED <<remoteHead, canonical, signals, returned, repoFaults>>

\* before promotion a failure, a full disk or priority work removes staging
reconcile_failed_fetch ==
  LET p == fetcher.of IN
  /\ FetcherAt("initialize") \/ FetcherAt("fetch")
  /\ IF FetcherAt("fetch") /\ Deferred THEN UNCHANGED repoFaults ELSE RepoFault
  /\ remove_staging_directory(p)
  /\ Stop
  /\ UNCHANGED <<remoteHead, canonical, signals, returned>>

\* index-pack --strict: every link out of the pack must resolve
Linked(p, pack) == \A c \in pack : ParentsOf[c] \subseteq pack \cup objects[p]

\* git writes the keep marker first, then pack and index: `torn` is a promotion
\* killed in between
IndexPack(p, torn) ==
  LET s == staging[p] IN
  /\ keeper' = [keeper EXCEPT ![p] = [of |-> s.head, pack |-> s.pack, whole |-> ~ torn]]
  /\ objects' = IF torn THEN objects ELSE [objects EXCEPT ![p] = @ \cup s.pack]

\* no pack: the commit must be there already, and nothing holds it
promote_staged_pack ==
  LET p == fetcher.on IN
  /\ FetcherAt("promote")
  /\ IF staging[p].pack = {}
     THEN /\ IF contains_commit(p, staging[p].head) THEN Go("publish") ELSE Stop
          /\ UNCHANGED canonical
     ELSE /\ staging[p].torn # "bytes" /\ Linked(p, staging[p].pack)
          /\ IndexPack(p, FALSE)
          /\ Go("publish")
          /\ UNCHANGED <<fetchedRef, acceptedRef>>
  /\ UNCHANGED <<remoteHead, staging, signals, returned, repoFaults>>

\* a pack that lost bytes or whose links do not resolve leaves nothing behind, a
\* killed one may
PromotionFails ==
  LET p == fetcher.on IN
  /\ FetcherAt("promote") /\ staging[p].pack # {}
  /\ \/ /\ staging[p].torn = "bytes" \/ ~ Linked(p, staging[p].pack)
        /\ UNCHANGED <<canonical, repoFaults>>
     \/ RepoFault /\ UNCHANGED canonical
     \/ RepoFault /\ IndexPack(p, TRUE) /\ UNCHANGED <<fetchedRef, acceptedRef>>
  /\ Stop
  /\ UNCHANGED <<remoteHead, staging, signals, returned>>

\* staging is removed before the marker is dropped and the ref moved
CleanThenPublish ==
  LET p == fetcher.on IN
  /\ FetcherAt("publish")
  /\ IF staging[p].made /\ keeper[p] # NoKeep
     THEN /\ remove_staging_directory(p)
          /\ UNCHANGED <<fetchedRef, fetcher>>
     ELSE /\ LET c == IF keeper[p] # NoKeep THEN keeper[p].of ELSE staging[p].head
             IN IF contains_commit(p, c)
                THEN fetchedRef' = [fetchedRef EXCEPT ![p] = c] /\ Go("release")
                ELSE Stop /\ UNCHANGED fetchedRef
          /\ UNCHANGED staging
  /\ UNCHANGED <<remoteHead, acceptedRef, objects, keeper, signals, returned, repoFaults>>

\* git refuses a ref to an object that is not there
update_fetched_main_ref ==
  LET p == fetcher.on IN
  /\ FetcherAt("publish")
  /\ IF contains_commit(p, staging[p].head)
     THEN fetchedRef' = [fetchedRef EXCEPT ![p] = staging[p].head] /\ Go("release")
     ELSE Stop /\ UNCHANGED fetchedRef
  /\ UNCHANGED <<remoteHead, acceptedRef, objects, keeper, staging, signals, returned, repoFaults>>

release_promoted_pack_guard ==
  LET p == fetcher.on IN
  /\ FetcherAt("release")
  /\ keeper' = [keeper EXCEPT ![p] = NoKeep]
  /\ Go("clean")
  /\ UNCHANGED <<remoteHead, fetchedRef, acceptedRef, objects, staging, signals, returned, repoFaults>>

\* the end of a recovery goes on with the fetch, the end of the fetch returns its head
FinishStaging ==
  LET p == fetcher.on IN
  /\ FetcherAt("clean")
  /\ remove_staging_directory(p)
  /\ IF fetcher.own
     THEN Stop /\ returned' = [returned EXCEPT ![p] = staging[p].head]
     ELSE /\ fetcher' = [fetcher EXCEPT !.at = "recover", !.on = NoSourceProject]
          /\ UNCHANGED returned
  /\ UNCHANGED <<remoteHead, canonical, signals, repoFaults>>

\* a ref, marker or directory operation fails: everything stays for the next fetch
CommandFails ==
  /\ FetcherAt("publish") \/ FetcherAt("release") \/ FetcherAt("clean")
  /\ RepoFault /\ Stop
  /\ UNCHANGED <<remoteHead, canonical, staging, signals, returned>>

\* staged packs are not synced: a power failure may take the name of pack or index,
\* both names, or bytes behind them; refs, markers and promoted packs are synced
\* when they are written
RepositoryCrash ==
  /\ RepoFault
  /\ Stop
  /\ waiting' = {} /\ urgent' \in SUBSET urgent
  /\ \/ UNCHANGED staging
     \/ \E p \in SourceProjects, taken \in {"names", "lost", "bytes"} :
          /\ staging[p].pack # {} /\ staging[p].torn = "no"
          /\ staging' = [staging EXCEPT ![p].torn = taken]
  /\ returned' = [p \in SourceProjects |-> NoObject]
  /\ UNCHANGED <<remoteHead, canonical>>

-----------------------------------------------------------------------------
(* The accepted ref                                                          *)

Locked(p) == p \in {fetcher.of, fetcher.on}

\* the broker accepts the head its fetch returned, if the ref is the one it compared
\* with: a fast-forward, or an adopted divergence
compare_and_swap_accepted_head(p) ==
  /\ ~ Locked(p)
  /\ returned[p] \notin {NoObject, acceptedRef[p]} /\ contains_commit(p, returned[p])
  /\ acceptedRef' = [acceptedRef EXCEPT ![p] = returned[p]]
  /\ UNCHANGED <<remoteHead, fetchedRef, objects, keeper, staging, fetcher, signals, returned,
                 repoFaults>>

RepoNext ==
  \/ \E p \in SourceProjects :
       \/ PushRemote(p) \/ Repack(p) \/ notify_priority_fetch(p) \/ clear_priority_fetch(p)
       \/ fetch_remote_main(p) \/ TakeFetchLock(p) \/ fetch_remote_main_reconciliation(p)
       \/ reconcile_stale_staging_directories(p)
       \/ compare_and_swap_accepted_head(p)
  \/ reconcile_orphaned_promoted_pack_guards
  \/ initialize_staging_repository \/ fetch_staged_main \/ reconcile_failed_fetch
  \/ promote_staged_pack \/ PromotionFails
  \/ update_fetched_main_ref \/ release_promoted_pack_guard \/ FinishStaging
  \/ CommandFails \/ RepositoryCrash

RepoSpec == RepoInit /\ [][RepoNext]_repoVars

-----------------------------------------------------------------------------

\* Both refs of a project name commits whose whole history is in the canonical
\* repository, whatever an operator's repack drops between two commands of a
\* fetch, a crash or a recovery: promotion packs all that the refs do not reach
\* and its keep marker lives until the fetched ref is written.
RefsAreWhole ==
  \A p \in SourceProjects : Reachable(p) \subseteq objects[p]

\* What a crash, a failed command or priority work leaves is explained by the
\* next fetch: no staging repository is one that reconcile_interrupted_fetch
\* refuses, a pack it promotes again has every link resolved, and no keep marker is
\* without its staging repository and its fetched ref. Two leftovers are excepted
\* and stop every fetch until an operator removes them: index-pack killed between
\* the marker and its pack, and a staged pack of which a power failure took bytes
\* but not the names, which is promoted again and fails each time.
LeftoversAreExplained ==
  \A p \in SourceProjects :
    keeper[p] = NoKeep \/ keeper[p].whole =>
      /\ staging[p].made =>
           /\ InterruptedFetch(p) # "error"
           /\ InterruptedFetch(p) = "promote" =>
                staging[p].torn = "bytes" \/ Linked(p, staging[p].pack)
      /\ keeper[p] # NoKeep /\ ~ staging[p].made =>
           keeper[p].of = fetchedRef[p] /\ contains_commit(p, keeper[p].of)
=============================================================================
