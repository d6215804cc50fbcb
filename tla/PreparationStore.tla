--------------------------- MODULE PreparationStore ---------------------------
(***************************************************************************)
(* The content-addressed store in which a worker prepares the inputs of a    *)
(* job: a source snapshot, a dependency snapshot fetched object by object    *)
(* through the egress service, and the prepared run composed of the two.     *)
(* Several preparations run at once; every store operation holds the commit  *)
(* lock, so it is one step here, with the states a failure or a crash can    *)
(* leave half way as outcomes of their own.                                  *)
(***************************************************************************)
EXTENDS Naturals, FiniteSets

CONSTANTS
  Preps,         \* host preparations, one per lease
  KeyOf,         \* KeyOf[t][r]: the key of the object of role r that preparation t needs
  Crates,        \* the packages the lockfile names
  Layers,        \* the objects of the image bases the policy names
  Budget,        \* objects the payload budget of the lease allows
  Capacity,      \* max_bytes, in entries of unit size
  WarmWindow,    \* warm_window_ms
  PinTime,       \* how long a pin lasts
  PrepMaxTime,   \* bound: the clock stops here
  PrepMaxFaults  \* bound: failures, cancellations and crashes together

Roles == {"source", "deps", "run"}
Objects == Crates \cup Layers
StoreKeys == {KeyOf[t][r] : t \in Preps, r \in Roles}

(* A key is the digest of what it names, the role among it: objects of two     *)
(* roles never share one.                                                      *)
ASSUME PrepAssumption ==
  /\ IsFiniteSet(Preps) /\ Capacity \in Nat \ {0} /\ PinTime \in Nat
  /\ \A t, u \in Preps : \A r, s \in Roles : KeyOf[t][r] = KeyOf[u][s] => r = s

VARIABLES
  entry,     \* entry[k]: "absent", "committing" (renamed, still 0700) or "sealed"
  content,   \* content[k]: the fetched objects under the entry
  access,    \* access[k]: when the entry was last used, 0 when there is no record
  created,   \* created[k]: created_at_ms of its manifest
  evicting,  \* keys whose access record was moved to evictions/
  pin,       \* pin[t][r]: when the pin of t on its object of role r expires, 0: none
  prep,      \* prep[t]: where a preparation is: [pc, role, now, cancelled]
  fetched,   \* fetched[t]: objects written below its stage
  staged,    \* preparations with a directory in staging/
  reserved,  \* preparations that hold an admission reservation
  opened,    \* the worker runs and holds the lock of the store root
  clock,
  prepFaults

disk     == <<entry, content, access, created, evicting, pin>>
prepVars == <<disk, prep, fetched, staged, reserved, opened, clock, prepFaults>>

PrepInit ==
  /\ entry = [k \in StoreKeys |-> "absent"] /\ content = [k \in StoreKeys |-> {}]
  /\ access = [k \in StoreKeys |-> 0] /\ created = [k \in StoreKeys |-> 0] /\ evicting = {}
  /\ pin = [t \in Preps |-> [r \in Roles |-> 0]]
  /\ prep = [t \in Preps |-> [pc |-> "idle", role |-> "source", now |-> 0, cancelled |-> FALSE]]
  /\ fetched = [t \in Preps |-> {}] /\ staged = {} /\ reserved = {}
  /\ opened = TRUE /\ clock = 1 /\ prepFaults = 0

PrepFault == prepFaults < PrepMaxFaults /\ prepFaults' = prepFaults + 1

-----------------------------------------------------------------------------
(* Entries, keys and usage                                                   *)

WantedKey(t) == KeyOf[t][prep[t].role]
Composition(t) == {KeyOf[t]["source"], KeyOf[t]["deps"]}

(* What the manifest of a role seals: only dependencies are fetched *)
Payload(r) == IF r = "deps" THEN Objects ELSE {}

(* Evictions that were begun are finished before anything else is done *)
ReconcileEvictions == [k \in StoreKeys |-> IF k \in evicting THEN "absent" ELSE entry[k]]

(* An entry another task left half committed fails the scan of every task *)
ScanUsage(e) == [ok |-> \A k \in StoreKeys : e[k] # "committing",
                 used |-> Cardinality({k \in StoreKeys : e[k] # "absent"})]

SidecarAdmissible(e) == ScanUsage(e).ok /\ ScanUsage(e).used + Cardinality(reserved) <= Capacity
ValidateSealedEntry(e, k) == e[k] = "sealed"
TouchAccess(k, now) == IF access[k] > now THEN access[k] ELSE now
LastAccess(k) == IF access[k] > 0 THEN access[k] ELSE created[k]
CleanupExpiredPins(now) ==
  [t \in Preps |-> [r \in Roles |-> IF pin[t][r] <= now THEN 0 ELSE pin[t][r]]]

(* Mutant: the parts of a pinned run are not protected with it. *)
PinnedKeysOnly(now) ==
  {k \in StoreKeys : \E t \in Preps : \E r \in Roles : pin[t][r] > now /\ k = KeyOf[t][r]}

LivePinnedKeys(now) ==
  {k \in StoreKeys : \E t \in Preps : \E r \in Roles :
     pin[t][r] > now /\ (k = KeyOf[t][r] \/ (r = "run" /\ k \in Composition(t)))}

EvictionCandidates(e, now) ==
  {k \in StoreKeys : e[k] = "sealed" /\ k \notin LivePinnedKeys(now) /\ LastAccess(k) + WarmWindow <= now}

(* The oldest first: a set of victims has no younger member than a survivor *)
OldestFirst(S) == {V \in SUBSET S : \A a \in V, b \in S \ V : LastAccess(a) <= LastAccess(b)}
Evict(e, V) == [k \in StoreKeys |-> IF k \in V THEN "absent" ELSE e[k]]

(* Mutant: reservations of the preparations under way are not counted.        *)
FitsAlone(e) == ScanUsage(e).used + 1 <= Capacity

Fits(e) == ScanUsage(e).used + Cardinality(reserved) + 1 <= Capacity

-----------------------------------------------------------------------------
(* One object of a preparation: look it up, reserve, stage, commit            *)

PrepGoto(t, pc) == prep' = [prep EXCEPT ![t].pc = pc]

(* The key lock is held from a failed lookup until the entry is committed *)
KeyLockHeld(k) ==
  \E u \in Preps : prep[u].pc \in {"reserve", "produce", "commit", "settle"} /\ WantedKey(u) = k

(* Guards drop: the reservation, the stage and the pins of the preparation *)
GiveUp(t) ==
  /\ PrepGoto(t, "failed")
  /\ reserved' = reserved \ {t} /\ staged' = staged \ {t} /\ fetched' = [fetched EXCEPT ![t] = {}]

DropGuards(t, p) == [p EXCEPT ![t]["source"] = 0, ![t]["deps"] = 0]

ForgetEvicted(e) ==
  /\ entry' = e /\ evicting' = {}
  /\ content' = [k \in StoreKeys |-> IF e[k] = "absent" THEN {} ELSE content[k]]

(* A lookup that finds the entry uses it; one that does not keeps the key lock *)
AfterEntry(t) ==
  IF prep[t].role # "run" THEN PrepGoto(t, "pin") /\ UNCHANGED pin
  ELSE /\ PrepGoto(t, IF prep[t].cancelled THEN "failed" ELSE "ready")
       /\ pin' = DropGuards(t, pin)

(* Recording the use needs room for the record when there is none yet *)
UseEntry(t, e) ==
  IF access[WantedKey(t)] > 0 \/ SidecarAdmissible(e)
  THEN /\ access' = [access EXCEPT ![WantedKey(t)] = TouchAccess(WantedKey(t), prep[t].now)]
       /\ AfterEntry(t) /\ UNCHANGED <<reserved, staged, fetched>>
  ELSE GiveUp(t) /\ pin' = DropGuards(t, pin) /\ UNCHANGED access

BeginPreparation(t) ==
  /\ opened /\ prep[t].pc \in {"idle", "failed"}
  /\ prep' = [prep EXCEPT ![t] = [pc |-> "open", role |-> "source", now |-> clock, cancelled |-> FALSE]]
  /\ UNCHANGED <<disk, fetched, staged, reserved, opened, clock, prepFaults>>

(* Mutant: two preparations look the same key up without the key lock.        *)
OpenExistingUnlocked(t) ==
  LET k == WantedKey(t)
      e == ReconcileEvictions
      sealed == [e EXCEPT ![k] = IF @ = "committing" THEN "sealed" ELSE @]
  IN /\ opened /\ prep[t].pc = "open"
     /\ ForgetEvicted(sealed)
     /\ IF e[k] = "absent"
        THEN PrepGoto(t, "reserve") /\ UNCHANGED <<access, pin, reserved, staged, fetched>>
        ELSE UseEntry(t, sealed)
     /\ UNCHANGED <<created, opened, clock, prepFaults>>

OpenExisting(t) ==
  LET k == WantedKey(t)
      e == ReconcileEvictions
      sealed == [e EXCEPT ![k] = IF @ = "committing" THEN "sealed" ELSE @]
  IN /\ opened /\ prep[t].pc = "open" /\ ~KeyLockHeld(k)
     /\ ForgetEvicted(sealed)
     /\ IF e[k] = "absent"
        THEN PrepGoto(t, "reserve") /\ UNCHANGED <<access, pin, reserved, staged, fetched>>
        ELSE UseEntry(t, sealed)
     /\ UNCHANGED <<created, opened, clock, prepFaults>>

(* Room is made by evicting the oldest entries that are neither pinned nor     *)
(* warm; scarce space on the host evicts more of them than the store needs     *)
Reserve(t) ==
  LET e == ReconcileEvictions
      candidates == EvictionCandidates(e, prep[t].now)
  IN /\ opened /\ prep[t].pc = "reserve" /\ ScanUsage(e).ok
     /\ \E V \in OldestFirst(candidates) :
          /\ Fits(Evict(e, V)) /\ \A k \in V : access[k] > 0
          /\ \/ UNCHANGED prepFaults /\ \A W \in OldestFirst(V) \ {V} : ~Fits(Evict(e, W))
             \/ PrepFault
          /\ ForgetEvicted(Evict(e, V))
          /\ access' = [k \in StoreKeys |-> IF k \in V \cup evicting THEN 0 ELSE access[k]]
     /\ pin' = CleanupExpiredPins(prep[t].now)
     /\ reserved' = reserved \cup {t} /\ staged' = staged \cup {t}
     /\ PrepGoto(t, "produce") /\ UNCHANGED <<created, fetched, opened, clock>>

(* Everything that may go was evicted and the object still does not fit, or    *)
(* the scan met a half-committed entry, or a victim without an access record   *)
ReserveRefused(t) ==
  LET e == ReconcileEvictions
      candidates == EvictionCandidates(e, prep[t].now)
      blocked == ~ScanUsage(e).ok
  IN /\ opened /\ prep[t].pc = "reserve"
     /\ \E V \in OldestFirst(candidates) :
          /\ \/ blocked /\ V = {}
             \/ ~blocked /\ V = candidates /\ ~Fits(Evict(e, V))
             \/ ~blocked /\ ~Fits(Evict(e, V)) /\ \E k \in candidates \ V : access[k] = 0 /\ V \cup {k} \in OldestFirst(candidates)
          /\ \A k \in V : access[k] > 0
          /\ ForgetEvicted(Evict(e, V))
          /\ access' = [k \in StoreKeys |-> IF k \in V \cup evicting THEN 0 ELSE access[k]]
     /\ pin' = DropGuards(t, CleanupExpiredPins(prep[t].now))
     /\ GiveUp(t) /\ UNCHANGED <<created, opened, clock, prepFaults>>

(* An eviction stops after its record was moved: the entry may be half removed *)
EvictionStops(t) ==
  LET e == ReconcileEvictions
      candidates == EvictionCandidates(e, prep[t].now)
  IN /\ opened /\ prep[t].pc = "reserve" /\ ScanUsage(e).ok /\ PrepFault
     /\ \E k \in candidates :
          /\ {k} \in OldestFirst(candidates) /\ access[k] > 0
          /\ entry' = e /\ evicting' = {k} /\ access' = [access EXCEPT ![k] = 0]
          /\ content' = [j \in StoreKeys |-> IF e[j] = "absent" THEN {} ELSE content[j]]
     /\ pin' = DropGuards(t, CleanupExpiredPins(prep[t].now))
     /\ GiveUp(t) /\ UNCHANGED <<created, opened, clock>>

-----------------------------------------------------------------------------
(* Dependencies are fetched one by one from the egress service                *)

(* What an upstream registry may send for an object: the object, other bytes,  *)
(* too many bytes, nothing, or the right bytes of an archive that is not safe  *)
(* to unpack                                                                   *)
CrateReplies == {"exact", "altered", "oversized", "unavailable", "unsafe"}
LayerReplies == {"exact", "altered", "oversized", "unavailable"}

(* The service checks size and digest before it answers *)
FetcherAnswer(reply) ==
  CASE reply \in {"exact", "unsafe"} -> "accepted"
    [] reply = "altered" -> "integrity_mismatch"
    [] reply = "oversized" -> "too_large"
    [] OTHER -> "upstream_unavailable"

(* The exchange has one deadline, and a late or foreign answer is an error *)
Exchange(answer, timely) == IF timely /\ answer = "accepted" THEN "archive" ELSE "error"

(* Every path of the archive stays below the directory of its package *)
InspectCrateArchive(reply) == reply # "unsafe"

(* The bytes and inodes of the payload stay within the budget of the lease *)
Consume(t) == Cardinality(fetched[t]) < Budget

(* Mutant: a cancelled loop ends as if every object had been written.         *)
MaterializedOrStopped(t) == prep[t].cancelled \/ fetched[t] = Objects

(* The payload is complete when every object of the plan was materialised and  *)
(* the loop did not see a cancellation                                         *)
Materialized(t) == ~prep[t].cancelled /\ fetched[t] = Objects

Fetching(t) == opened /\ prep[t].pc = "produce" /\ prep[t].role = "deps" /\ ~prep[t].cancelled

WriteObject(t, o) ==
  /\ fetched' = [fetched EXCEPT ![t] = @ \cup {o}]
  /\ UNCHANGED <<disk, prep, staged, reserved, opened, clock, prepFaults>>

MaterializeCrate(t, o) ==
  /\ Fetching(t) /\ o \in Crates \ fetched[t] /\ Consume(t)
  /\ \E reply \in CrateReplies : Exchange(FetcherAnswer(reply), TRUE) = "archive" /\ InspectCrateArchive(reply)
  /\ WriteObject(t, o)

(* Image bases are laid out after the crates *)
MaterializeOciObject(t, o) ==
  /\ Fetching(t) /\ Crates \subseteq fetched[t] /\ o \in Layers \ fetched[t] /\ Consume(t)
  /\ \E reply \in LayerReplies : Exchange(FetcherAnswer(reply), TRUE) = "archive"
  /\ WriteObject(t, o)

FetchRejected(t) ==
  \/ ~Consume(t)
  \/ \E reply \in CrateReplies, timely \in BOOLEAN :
       Exchange(FetcherAnswer(reply), timely) = "error" \/ ~InspectCrateArchive(reply)

(* A fetch that fails, or a cancellation seen between two objects, removes the *)
(* stage                                                                       *)
ProducerFails(t) ==
  /\ opened /\ prep[t].pc = "produce"
  /\ \/ prep[t].cancelled /\ prep[t].role = "deps" /\ UNCHANGED prepFaults
     \/ PrepFault /\ FetchRejected(t)
  /\ pin' = DropGuards(t, pin)
  /\ GiveUp(t) /\ UNCHANGED <<entry, content, access, created, evicting, opened, clock>>

Sealed(t) == PrepGoto(t, "commit") /\ UNCHANGED <<disk, fetched, staged, reserved, opened, clock, prepFaults>>

StageSourceSnapshot(t) == opened /\ prep[t].pc = "produce" /\ prep[t].role = "source" /\ Sealed(t)
SealDependencies(t) == opened /\ prep[t].pc = "produce" /\ prep[t].role = "deps" /\ Materialized(t) /\ Sealed(t)
ExtractRun(t) == opened /\ prep[t].pc = "produce" /\ prep[t].role = "run" /\ Sealed(t)

(* The pinned archive turns out not to be a plain tree of bounded size *)
InspectSourceRejects(t) ==
  /\ opened /\ prep[t].pc = "open" /\ prep[t].role = "deps" /\ PrepFault
  /\ GiveUp(t) /\ pin' = DropGuards(t, pin)
  /\ UNCHANGED <<entry, content, access, created, evicting, opened, clock>>

(* The worker stops or loses its lease *)
Cancel(t) ==
  /\ opened /\ prep[t].pc \notin {"idle", "failed", "ready", "running", "done"} /\ ~prep[t].cancelled
  /\ PrepFault /\ prep' = [prep EXCEPT ![t].cancelled = TRUE]
  /\ UNCHANGED <<disk, fetched, staged, reserved, opened, clock>>

-----------------------------------------------------------------------------
(* Commit                                                                    *)

CommitRefused(e, k) ==
  \/ ~ScanUsage(e).ok \/ ScanUsage(e).used + Cardinality(reserved) > Capacity \/ e[k] # "absent"

CommitStage(t) ==
  LET k == WantedKey(t)
      e == ReconcileEvictions
  IN /\ opened /\ prep[t].pc = "commit" /\ UNCHANGED prepFaults
     /\ IF CommitRefused(e, k)
        THEN ForgetEvicted(e) /\ GiveUp(t) /\ pin' = DropGuards(t, pin) /\ UNCHANGED <<access, created>>
        ELSE /\ entry' = [e EXCEPT ![k] = "sealed"] /\ evicting' = {}
             /\ content' = [j \in StoreKeys |-> IF j = k THEN fetched[t] ELSE IF e[j] = "absent" THEN {} ELSE content[j]]
             /\ access' = [access EXCEPT ![k] = TouchAccess(k, prep[t].now)]
             /\ created' = [created EXCEPT ![k] = prep[t].now]
             /\ staged' = staged \ {t} /\ fetched' = [fetched EXCEPT ![t] = {}]
             /\ PrepGoto(t, "settle") /\ UNCHANGED <<reserved, pin>>
     /\ UNCHANGED <<opened, clock>>

(* After the rename a later call fails: the entry stays, committing or sealed  *)
(* without an access record, and the preparation fails                         *)
CommitStops(t) ==
  LET k == WantedKey(t)
      e == ReconcileEvictions
  IN /\ opened /\ prep[t].pc = "commit" /\ ~CommitRefused(e, k) /\ PrepFault
     /\ \E s \in {"committing", "sealed"} : entry' = [e EXCEPT ![k] = s]
     /\ evicting' = {} /\ access' = [access EXCEPT ![k] = 0]
     /\ content' = [j \in StoreKeys |-> IF j = k THEN fetched[t] ELSE IF e[j] = "absent" THEN {} ELSE content[j]]
     /\ created' = [created EXCEPT ![k] = prep[t].now]
     /\ GiveUp(t) /\ pin' = DropGuards(t, pin) /\ UNCHANGED <<opened, clock>>

(* The reservation and the key lock are dropped after the commit lock *)
DropReservation(t) ==
  /\ opened /\ prep[t].pc = "settle"
  /\ reserved' = reserved \ {t} /\ AfterEntry(t)
  /\ UNCHANGED <<entry, content, access, created, evicting, fetched, staged, opened, clock, prepFaults>>

-----------------------------------------------------------------------------
(* Pins                                                                      *)

PinTarget(t) == IF prep[t].pc = "ready" THEN "run" ELSE prep[t].role
PinNow(t) == IF prep[t].pc = "ready" THEN clock ELSE prep[t].now

(* The object, and the parts of a run, must still be there *)
Pinnable(t, e) ==
  /\ ValidateSealedEntry(e, KeyOf[t][PinTarget(t)])
  /\ PinTarget(t) = "run" => \A k \in Composition(t) : ValidateSealedEntry(e, k)

NextObject(t) ==
  IF prep[t].pc = "ready" THEN prep' = [prep EXCEPT ![t].pc = "running"]
  ELSE prep' = [prep EXCEPT ![t].pc = "open", ![t].role = IF @ = "source" THEN "deps" ELSE "run"]

OpenPinned(t) ==
  LET e == ReconcileEvictions
      r == PinTarget(t)
      cleaned == CleanupExpiredPins(PinNow(t))
  IN /\ opened /\ prep[t].pc \in {"pin", "ready"}
     /\ ForgetEvicted(e)
     /\ IF Pinnable(t, e) /\ SidecarAdmissible(e)
        THEN /\ pin' = [cleaned EXCEPT ![t][r] = PinNow(t) + PinTime]
             /\ access' = [access EXCEPT ![KeyOf[t][r]] = TouchAccess(KeyOf[t][r], PinNow(t))]
             /\ NextObject(t) /\ UNCHANGED <<reserved, staged, fetched>>
        ELSE pin' = DropGuards(t, cleaned) /\ GiveUp(t) /\ UNCHANGED access
     /\ UNCHANGED <<created, opened, clock, prepFaults>>

(* The job ends and the worker takes its pin off *)
Unpin(t) ==
  /\ opened /\ prep[t].pc = "running"
  /\ pin' = [pin EXCEPT ![t]["run"] = 0] /\ PrepGoto(t, "done")
  /\ ForgetEvicted(ReconcileEvictions)
  /\ UNCHANGED <<access, created, fetched, staged, reserved, opened, clock, prepFaults>>

-----------------------------------------------------------------------------
(* Crash, restart and time                                                   *)

(* The tasks of the worker die with it; the job a launcher runs does not *)
WorkerCrash ==
  /\ opened /\ PrepFault /\ opened' = FALSE
  /\ prep' = [t \in Preps |-> IF prep[t].pc \in {"idle", "ready", "running", "done"} THEN prep[t]
                              ELSE [prep[t] EXCEPT !.pc = "failed"]]
  /\ fetched' = [t \in Preps |-> {}] /\ reserved' = {}
  /\ UNCHANGED <<disk, staged, clock>>

(* A half-committed entry was sealed and validated before its rename *)
ReconcileCommitting(e) == [k \in StoreKeys |-> IF e[k] = "committing" THEN "sealed" ELSE e[k]]
ReconcileAccess(e) == [k \in StoreKeys |-> IF e[k] = "absent" THEN 0 ELSE LastAccess(k)]

(* open_with_policy: stages go, evictions and commits are finished, access     *)
(* records are made to match the entries, expired pins go; too full is refused *)
OpenWithPolicy ==
  LET e == ReconcileCommitting(ReconcileEvictions)
  IN /\ ~opened /\ ScanUsage(e).used <= Capacity
     /\ opened' = TRUE /\ staged' = {} /\ ForgetEvicted(e)
     /\ access' = ReconcileAccess(e)
     /\ pin' = CleanupExpiredPins(clock)
     /\ UNCHANGED <<created, prep, fetched, reserved, clock, prepFaults>>

PrepTick == clock < PrepMaxTime /\ clock' = clock + 1 /\ UNCHANGED <<disk, prep, fetched, staged, reserved, opened, prepFaults>>

PrepNext ==
  \/ \E t \in Preps :
       \/ BeginPreparation(t) \/ OpenExisting(t) \/ Reserve(t) \/ ReserveRefused(t) \/ EvictionStops(t)
       \/ \E o \in Objects : MaterializeCrate(t, o) \/ MaterializeOciObject(t, o)
       \/ ProducerFails(t) \/ StageSourceSnapshot(t) \/ SealDependencies(t) \/ ExtractRun(t)
       \/ InspectSourceRejects(t) \/ Cancel(t)
       \/ CommitStage(t) \/ CommitStops(t) \/ DropReservation(t) \/ OpenPinned(t) \/ Unpin(t)
  \/ WorkerCrash \/ OpenWithPolicy \/ PrepTick

PrepSpec == PrepInit /\ [][PrepNext]_prepVars

-----------------------------------------------------------------------------
Whole(k) == entry[k] = "sealed" /\ k \notin evicting

(* While a pin has not expired, the entry it names and, for a prepared run,    *)
(* the source and dependency snapshots the run is composed of are whole:       *)
(* whatever other preparations evict, and wherever an eviction or a commit     *)
(* stops, a job never loses the input it was started with.                     *)
PinnedStaysWhole ==
  \A t \in Preps : \A r \in Roles :
    pin[t][r] > clock => Whole(KeyOf[t][r]) /\ (r = "run" => \A k \in Composition(t) : Whole(k))

(* Entries and stages together stay within the capacity, so that a worker that *)
(* crashed can open its store again.                                           *)
StoreBounded == Cardinality({k \in StoreKeys : entry[k] # "absent"}) + Cardinality(staged) <= Capacity

(* The key lock makes one producer of a key: a stage that is ready to commit   *)
(* never meets an entry that is already there.                                 *)
OneProducer ==
  \A t \in Preps : prep[t].pc = "commit" => ReconcileEvictions[WantedKey(t)] = "absent"

(* A dependency snapshot that can be opened holds every object of the plan,    *)
(* however its producer was cancelled, failed or crashed.                      *)
SealedIsExact ==
  \A t \in Preps : Whole(KeyOf[t]["deps"]) => content[KeyOf[t]["deps"]] = Objects

(* The store stays usable: bounded, with one producer per key and nothing      *)
(* sealed that is not exact.                                                   *)
StoreIsSound == StoreBounded /\ OneProducer /\ SealedIsExact
=============================================================================
