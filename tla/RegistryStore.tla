---------------------------- MODULE RegistryStore ----------------------------
(***************************************************************************)
(* The storage of one package in the reference registry,                   *)
(* src/src/registry_server.rs.  Publish and yank change a directory tree   *)
(* in an order that a crash may interrupt anywhere; a pending marker tells *)
(* the next reader, or the startup audit, that the signed index has to be  *)
(* rebuilt from the committed versions and the yank markers.               *)
(*                                                                         *)
(* The tree is kept twice: "disk" is what the processes see, "durable" is  *)
(* what survives a power loss.  sync_directory copies one directory from   *)
(* the first to the second; every file is synced before it is renamed into *)
(* place, so an entry is never torn.  A generation of the signed index is  *)
(* named by its digest and is therefore the set of versions it lists; the  *)
(* pointer and the marker are sets of at most one element.                 *)
(***************************************************************************)
EXTENDS Integers, FiniteSets

CONSTANTS
    Worker,         \* threads that serve requests
    Version,
    Bounds          \* the bounds a run may start with

\* Bounds: how many requests are served, how many operations may fail or run
\* out of time, how many sync_directory calls may fail, how often the process
\* may die, the power may fail and a stored generation may be damaged.  Three
\* more fields do not count down: MAX_REGISTRY_INDEX_VERSIONS, which sets of
\* versions have at most MAX_INDEX_ITEMS items (a version and each of its
\* dependencies is one), and whether a sync may be missing because it failed
\* or the process died before it.
Families ==
    {fits \in SUBSET SUBSET Version : {} \in fits /\ \A s \in fits : SUBSET s \subseteq fits}

ASSUME RegistryAssumption ==
    /\ Worker # {} /\ Version # {}
    /\ Bounds \subseteq [requests : Nat, faults : Nat, syncs : Nat, kills : Nat,
                         losses : Nat, damages : Nat, capacity : Nat,
                         fits : Families, unsynced : {FALSE}]

Generation == SUBSET Version

\* What a worker is about to do.
Labels == {"idle", "pending", "pointer", "files", "lock", "tryLock", "inspect",
           "resync", "ensure", "discard", "dropping", "discarded", "scan", "persist",
           "persisted", "mark", "marked", "commit", "committed", "abort",
           "aborted", "switch", "switched", "unmark", "unmarked", "clean",
           "cleaned", "done", "prepare", "decide", "audit", "served"}

\* The labels at which PackagePublishLock is held.
Locked == Labels \ {"idle", "pending", "pointer", "files", "lock", "tryLock", "served"}

VARIABLES
    disk, durable,
    up,         \* down, audit, up, or refused by the audit
    worker,     \* label, request, version, whether it is inside
                \* ensure_signed_index_locked, the generation at hand, and
                \* what a reader must and must not be shown
    acked, tomb,    \* versions whose publish, whose yank was confirmed
    yanking,        \* versions somebody asked to yank
    shown,          \* versions some reader was shown
    left            \* what is left of the bounds

vars == <<disk, durable, up, worker, acked, tomb, yanking, shown, left>>
history == <<acked, tomb, yanking, shown>>

Trees == [versions : SUBSET Version, yanks : SUBSET Version,
          pending : SUBSET Version, pointer : SUBSET Generation,
          gens : SUBSET Generation, broken : SUBSET Generation]

Workers == [at : Labels, kind : {"get", "publish", "yank", "audit"},
            v : Version, rec : BOOLEAN, gen : SUBSET Generation,
            must : SUBSET Version, mustNot : SUBSET Version]

TypeOK ==
    /\ disk \in Trees /\ durable \in Trees
    /\ Cardinality(disk.pointer) <= 1 /\ Cardinality(disk.pending) <= 1
    /\ up \in {"down", "audit", "up", "refused"}
    /\ worker \in [Worker -> Workers]
    /\ acked \subseteq Version /\ tomb \subseteq Version
    /\ yanking \subseteq Version /\ shown \subseteq Version
    /\ \E b \in Bounds : /\ left.fits = b.fits
                         /\ \A f \in DOMAIN b \ {"fits", "unsynced"} : left[f] \in 0..b[f]

Empty == [versions |-> {}, yanks |-> {}, pending |-> {}, pointer |-> {},
          gens |-> {}, broken |-> {}]

Idle == [at |-> "idle", kind |-> "get", v |-> CHOOSE v \in Version : TRUE,
         rec |-> FALSE, gen |-> {}, must |-> {}, mustNot |-> {}]

\* The directory of the package was just created.
Init ==
    /\ disk = Empty /\ durable = Empty
    /\ up = "up"
    /\ worker = [w \in Worker |-> Idle]
    /\ acked = {} /\ tomb = {} /\ yanking = {} /\ shown = {}
    /\ left \in Bounds

-----------------------------------------------------------------------------
(* Helpers *)

At(w, label) == worker[w].at = label
Go(w, label) == worker' = [worker EXCEPT ![w].at = label]
GoWith(w, label, gen) ==
    worker' = [worker EXCEPT ![w].at = label, ![w].gen = gen]

Spend(bound) == left[bound] > 0 /\ left' = [left EXCEPT ![bound] = @ - 1]

SyncFault ==
    left.syncs > 0 /\ left' = [left EXCEPT !.syncs = @ - 1, !.unsynced = TRUE]

LockFree == \A w \in Worker : worker[w].at \notin Locked

\* An error ends the request; it ends the server while it is starting.
Fail(w) ==
    /\ worker' = [worker EXCEPT ![w] = Idle]
    /\ up' = IF worker[w].kind = "audit" THEN "down" ELSE up

\* The audit finds storage it cannot explain or that is over a limit.
Refuse(w) ==
    /\ worker' = [worker EXCEPT ![w] = Idle]
    /\ up' = IF worker[w].kind = "audit" THEN "refused" ELSE up

Reads == UNCHANGED <<disk, durable, up, history, left>>
Writes == UNCHANGED <<durable, up, history, left>>

\* What the pointer names can be read, is intact and carries its signature.
Intact == disk.pointer # {} /\ disk.pointer \subseteq disk.gens

\* A marker must have its version, and there is a limit of markers
\* (load_yanked_versions).
YanksExplained ==
    disk.yanks \subseteq disk.versions /\ Cardinality(disk.yanks) <= left.capacity

\* load_committed_metadata_for_recovery counts all versions that are stored,
\* the yanked ones too, and all their items.
WithinLimits ==
    disk.versions \in left.fits /\ Cardinality(disk.versions) <= left.capacity

-----------------------------------------------------------------------------
(* Requests *)

\* MutationAdmission admits one mutation of a package; others are refused.
MayMutate == \A w \in Worker : worker[w].at # "idle" => worker[w].kind = "get"

Begin(w, kind, v, label) ==
    /\ up = "up" /\ At(w, "idle")
    /\ Spend("requests")
    /\ worker' = [worker EXCEPT ![w] = [Idle EXCEPT !.at = label, !.kind = kind,
                    !.v = v, !.must = acked \cup shown, !.mustNot = tomb]]
    /\ UNCHANGED <<disk, durable, up, acked, tomb, shown>>

BeginGet(w) == Begin(w, "get", Idle.v, "pending") /\ UNCHANGED yanking

\* The upload is received, verified and staged before the lock is tried.
BeginPublish(w, v) ==
    MayMutate /\ Begin(w, "publish", v, "tryLock") /\ UNCHANGED yanking

BeginYank(w, v) ==
    MayMutate /\ Begin(w, "yank", v, "tryLock") /\ yanking' = yanking \cup {v}

\* load_or_recover_signed_index reads without the lock: the marker ...
GetPending(w) ==
    /\ At(w, "pending")
    /\ Go(w, IF disk.pending = {} THEN "pointer" ELSE "lock")
    /\ Reads

\* ... the pointer ...
GetPointer(w) ==
    /\ At(w, "pointer")
    /\ GoWith(w, IF disk.pointer = {} THEN "lock" ELSE "files", disk.pointer)
    /\ Reads

\* ... and the generation it named.
GetFiles(w) ==
    /\ At(w, "files")
    /\ Go(w, IF worker[w].gen \subseteq disk.gens THEN "served" ELSE "lock")
    /\ Reads

\* A reader waits for the lock.
Acquire(w) ==
    /\ At(w, "lock") /\ LockFree
    /\ worker' = [worker EXCEPT ![w].at = "ensure", ![w].rec = TRUE]
    /\ Reads

\* A mutation only tries it.
TryAcquire(w) ==
    /\ At(w, "tryLock")
    /\ worker' = IF LockFree THEN [worker EXCEPT ![w].at = "inspect"]
                 ELSE [worker EXCEPT ![w] = Idle]
    /\ Reads

\* A version is published once: other contents are refused, the same
\* contents are confirmed again after its directory was synced again.
InspectPublish(w) ==
    /\ At(w, "inspect") /\ worker[w].kind = "publish"
    /\ worker' \in
         IF worker[w].v \in disk.versions
         THEN {[worker EXCEPT ![w] = Idle], [worker EXCEPT ![w].at = "resync"]}
         ELSE {[worker EXCEPT ![w].at = "ensure", ![w].rec = TRUE]}
    /\ Reads

InspectYank(w) ==
    /\ At(w, "inspect") /\ worker[w].kind = "yank"
    /\ IF worker[w].v \in disk.versions /\ YanksExplained
       THEN worker' = [worker EXCEPT ![w].at = "ensure", ![w].rec = TRUE]
       ELSE worker' = [worker EXCEPT ![w] = Idle]
    /\ Reads

-----------------------------------------------------------------------------
(* ensure_signed_index_locked *)

\* The cached index is good unless a mutation is pending or it is damaged.
Ensure(w) ==
    /\ At(w, "ensure")
    /\ IF disk.pending = {} /\ Intact THEN GoWith(w, "done", disk.pointer)
       ELSE Go(w, IF disk.pending = {} /\ disk.pointer # {} THEN "discard" ELSE "scan")
    /\ Reads

\* discard_broken_cached_index removes the pointer ...
Discard(w) ==
    /\ At(w, "discard")
    /\ disk' = [disk EXCEPT !.pointer = {}]
    /\ GoWith(w, "dropping", disk.pointer)
    /\ Writes

\* ... and then the generation that it named.
Drop(w) ==
    /\ At(w, "dropping")
    /\ disk' = [disk EXCEPT !.gens = @ \ worker[w].gen, !.broken = @ \ worker[w].gen]
    /\ Go(w, "discarded")
    /\ Writes

\* The removal stops half way; nothing names the generation any more.
DropFails(w) ==
    /\ At(w, "dropping") /\ worker[w].gen \subseteq disk.gens \cup disk.broken
    /\ Spend("faults")
    /\ disk' = [disk EXCEPT !.gens = @ \ worker[w].gen, !.broken = @ \cup worker[w].gen]
    /\ Fail(w)
    /\ UNCHANGED <<durable, history>>

\* Seeded fault: the rebuilt index ignores the yank markers.
ScanUnyanked(w) ==
    /\ At(w, "scan")
    /\ GoWith(w, IF disk.versions = {} THEN "unmark" ELSE "persist",
              IF disk.versions = {} THEN {} ELSE {disk.versions})
    /\ Reads

\* The index of what is committed and not yanked; without versions there is
\* no index.  What is stored must be within the limits; the index, a part of
\* it, then is.
Scan(w) ==
    /\ At(w, "scan")
    /\ CASE disk.versions = {} /\ disk.pointer # {} ->
              Go(w, "discard") /\ UNCHANGED up
         [] disk.versions = {} /\ disk.pointer = {} ->
              GoWith(w, "unmark", {}) /\ UNCHANGED up
         [] disk.versions # {} /\ ~(WithinLimits /\ YanksExplained) -> Refuse(w)
         [] disk.versions # {} /\ WithinLimits /\ YanksExplained ->
              GoWith(w, "persist", {disk.versions \ disk.yanks}) /\ UNCHANGED up
    /\ UNCHANGED <<disk, durable, history, left>>

-----------------------------------------------------------------------------
(* The steps that publish, yank and recovery share *)

\* Seeded fault: a stored generation is an error.
PersistNew(w) ==
    /\ At(w, "persist")
    /\ IF worker[w].gen \subseteq disk.broken \cup disk.gens
       THEN Fail(w) /\ UNCHANGED disk
       ELSE /\ disk' = [disk EXCEPT !.gens = @ \cup worker[w].gen]
            /\ Go(w, "persisted") /\ UNCHANGED up
    /\ UNCHANGED <<durable, history, left>>

\* persist_signed_generation: a stored generation with this digest is used if
\* it is whole.
Persist(w) ==
    /\ At(w, "persist")
    /\ IF worker[w].gen \subseteq disk.broken
       THEN Fail(w) /\ UNCHANGED disk
       ELSE /\ disk' = [disk EXCEPT !.gens = @ \cup worker[w].gen]
            /\ Go(w, "persisted") /\ UNCHANGED up
    /\ UNCHANGED <<durable, history, left>>

\* write_pending_marker
Mark(w) ==
    /\ At(w, "mark")
    /\ disk' = [disk EXCEPT !.pending = {worker[w].v}]
    /\ Go(w, "marked")
    /\ Writes

\* The staged version is renamed into place, or the yank marker is made.
Commit(w) ==
    /\ At(w, "commit")
    /\ disk' = IF worker[w].kind = "publish"
               THEN [disk EXCEPT !.versions = @ \cup {worker[w].v}]
               ELSE [disk EXCEPT !.yanks = @ \cup {worker[w].v}]
    /\ Go(w, "committed")
    /\ Writes

\* switch_signed_index
Switch(w) ==
    /\ At(w, "switch")
    /\ disk' = [disk EXCEPT !.pointer = worker[w].gen]
    /\ Go(w, "switched")
    /\ Writes

\* remove_pending_marker
Unmark(w) ==
    /\ At(w, "unmark")
    /\ disk' = [disk EXCEPT !.pending = {}]
    /\ Go(w, IF disk.pending = {} THEN "clean" ELSE "unmarked")
    /\ Writes

\* cleanup_old_index_generations keeps the current one.
Clean(w) ==
    /\ At(w, "clean")
    /\ disk' = [disk EXCEPT !.gens = @ \cap worker[w].gen,
                            !.broken = @ \cap worker[w].gen]
    /\ Go(w, IF disk' = disk THEN "done" ELSE "cleaned")
    /\ Writes

\* A removal stops half way: that generation is damaged, which is logged.
CleanFails(w) ==
    /\ At(w, "clean") /\ Spend("faults")
    /\ \E g \in disk.gens \ worker[w].gen :
         disk' = [disk EXCEPT !.gens = @ \ {g}, !.broken = @ \cup {g}]
    /\ IF worker[w].gen = {} THEN Fail(w) ELSE Go(w, "done") /\ UNCHANGED up
    /\ UNCHANGED <<durable, history>>

-----------------------------------------------------------------------------
(* sync_directory *)

Directory(w) ==
    CASE worker[w].at \in {"persisted", "cleaned"} -> "indexes"
      [] worker[w].at = "resync" -> "versions"
      [] worker[w].at = "committed" ->
           IF worker[w].kind = "publish" THEN "versions" ELSE "yanks"
      [] OTHER -> "root"

Synced(directory) ==
    CASE directory = "versions" -> [durable EXCEPT !.versions = disk.versions]
      [] directory = "yanks" -> [durable EXCEPT !.yanks = disk.yanks]
      [] directory = "root" ->
           [durable EXCEPT !.pending = disk.pending, !.pointer = disk.pointer]
      [] directory = "indexes" ->
           [durable EXCEPT !.gens = disk.gens, !.broken = disk.broken]

\* Seeded fault: the marker is removed before the pointer is switched.
AfterSwapped(w) ==
    CASE worker[w].at = "persisted" -> IF worker[w].rec THEN "switch" ELSE "mark"
      [] worker[w].at = "marked" -> "commit"
      [] worker[w].at = "committed" -> "unmark"
      [] worker[w].at = "switched" -> IF disk.pending = {} THEN "clean" ELSE "unmark"
      [] worker[w].at = "unmarked" -> IF worker[w].rec THEN "clean" ELSE "switch"
      [] worker[w].at = "cleaned" -> "done"
      [] worker[w].at = "discarded" -> "scan"
      [] worker[w].at = "resync" -> "ensure"

After(w) ==
    CASE worker[w].at = "persisted" -> IF worker[w].rec THEN "switch" ELSE "mark"
      [] worker[w].at = "marked" -> "commit"
      [] worker[w].at = "committed" -> "switch"
      [] worker[w].at = "switched" -> "unmark"
      [] worker[w].at = "unmarked" -> "clean"
      [] worker[w].at = "cleaned" -> "done"
      [] worker[w].at = "discarded" -> "scan"
      [] worker[w].at = "resync" -> "ensure"

Syncing(w) ==
    worker[w].at \in {"persisted", "marked", "committed", "switched", "unmarked",
                      "cleaned", "discarded", "resync"}

\* Seeded fault: the versions directory is not synced before the switch.
SyncSkipped(w) ==
    /\ Syncing(w)
    /\ durable' = IF At(w, "committed") THEN durable ELSE Synced(Directory(w))
    /\ worker' = [worker EXCEPT ![w].at = After(w),
                                ![w].rec = @ \/ At(w, "resync")]
    /\ UNCHANGED <<disk, up, history, left>>

Sync(w) ==
    /\ Syncing(w)
    /\ durable' = Synced(Directory(w))
    /\ worker' = [worker EXCEPT ![w].at = After(w),
                                ![w].rec = @ \/ At(w, "resync")]
    /\ UNCHANGED <<disk, up, history, left>>

\* After the switch a failure is logged: the mutation has happened.
Maintenance(w) == worker[w].at \in {"unmark", "unmarked", "clean", "cleaned"}

SyncFails(w) ==
    /\ Syncing(w) /\ SyncFault
    /\ IF Maintenance(w) /\ worker[w].gen # {}
       THEN Go(w, After(w)) /\ UNCHANGED up
       ELSE Fail(w)
    /\ UNCHANGED <<disk, durable, history>>

\* The stored index cannot be read: to a reader and to
\* ensure_signed_index_locked it is a damaged one, to the audit there is none.
Misread(w) ==
    /\ worker[w].at \in {"pointer", "files", "ensure", "audit"}
    /\ worker[w].at \in {"ensure", "audit"} => disk.pending = {} /\ disk.pointer # {}
    /\ At(w, "audit") => YanksExplained
    /\ Spend("faults")
    /\ Go(w, CASE At(w, "ensure") -> "discard" [] At(w, "audit") -> "ensure"
                [] OTHER -> "lock")
    /\ UNCHANGED <<disk, durable, up, history>>

\* An operation fails without effect, or the deadline passes.  A publish
\* that cannot be renamed into place takes its marker back, or tries to.
OperationFails(w) ==
    /\ worker[w].at \in (Locked \ {"done", "aborted"})
                       \cup {"pending", "lock", "tryLock"}
    /\ ~Syncing(w)
    /\ Spend("faults")
    /\ CASE Maintenance(w) /\ worker[w].gen # {} ->
              Go(w, IF At(w, "unmark") THEN "clean" ELSE "done") /\ UNCHANGED up
         [] At(w, "commit") /\ worker[w].kind = "publish" ->
              Go(w, "abort") /\ UNCHANGED up
         [] OTHER -> Fail(w)
    /\ UNCHANGED <<disk, durable, history>>

Abort(w) ==
    /\ At(w, "abort")
    /\ disk' = [disk EXCEPT !.pending = {}]
    /\ Go(w, "aborted")
    /\ Writes

AbortSync(w) ==
    /\ At(w, "aborted")
    /\ \/ durable' = Synced("root") /\ UNCHANGED left
       \/ UNCHANGED durable /\ SyncFault
    /\ Fail(w)
    /\ UNCHANGED <<disk, history>>

LockTimeout(w) ==
    /\ At(w, "lock") /\ ~LockFree
    /\ Fail(w)
    /\ UNCHANGED <<disk, durable, history, left>>

-----------------------------------------------------------------------------
(* After ensure_signed_index_locked *)

\* The candidate index of a publish.  Yanked versions count as versions, but
\* their items do not count (generate_signed_index).
Prepare(w) ==
    /\ At(w, "prepare")
    /\ LET visible == UNION worker[w].gen
       IN  IF visible \cap disk.yanks # {} \/ ~YanksExplained
              \/ Cardinality(visible) + Cardinality(disk.yanks) >= left.capacity
              \/ visible \cup {worker[w].v} \notin left.fits
           THEN Fail(w)
           ELSE /\ worker' = [worker EXCEPT ![w].at = "persist", ![w].rec = FALSE,
                                            ![w].gen = {visible \cup {worker[w].v}}]
                /\ UNCHANGED up
    /\ UNCHANGED <<disk, durable, history, left>>

Confirm(w) ==
    /\ worker' = [worker EXCEPT ![w] = Idle]
    /\ acked' = IF worker[w].kind = "publish" THEN acked \cup {worker[w].v} ELSE acked
    /\ tomb' = IF worker[w].kind = "yank" THEN tomb \cup {worker[w].v} ELSE tomb
    /\ UNCHANGED <<disk, durable, up, yanking, shown, left>>

\* A yanked version that is no longer listed is confirmed again.
Decide(w) ==
    /\ At(w, "decide")
    /\ LET visible == UNION worker[w].gen
           v == worker[w].v
       IN  CASE v \in visible ->
                  /\ worker' = [worker EXCEPT ![w].at = "persist", ![w].rec = FALSE,
                                              ![w].gen = {visible \ {v}}]
                  /\ UNCHANGED <<disk, durable, up, history, left>>
             [] v \notin visible /\ v \in disk.yanks -> Confirm(w)
             [] v \notin visible /\ v \notin disk.yanks ->
                  Fail(w) /\ UNCHANGED <<disk, durable, history, left>>

\* The index is there: for the reader, the audit, or the mutation itself.
Recovered(w) ==
    /\ At(w, "done") /\ worker[w].rec
    /\ ~(worker[w].kind = "publish" /\ worker[w].v \in disk.versions)
    /\ worker' = [worker EXCEPT ![w] =
         CASE worker[w].kind = "get" -> [@ EXCEPT !.at = "served"]
           [] worker[w].kind = "audit" -> Idle
           [] worker[w].kind = "publish" -> [@ EXCEPT !.at = "prepare"]
           [] worker[w].kind = "yank" -> [@ EXCEPT !.at = "decide"]]
    /\ up' = IF worker[w].kind = "audit" THEN "up" ELSE up
    /\ UNCHANGED <<disk, durable, history, left>>

MutationDone(w) ==
    /\ At(w, "done")
    /\ ~worker[w].rec \/ (worker[w].kind = "publish" /\ worker[w].v \in disk.versions)
    /\ Confirm(w)

Served(w) ==
    /\ At(w, "served")
    /\ shown' = shown \cup UNION worker[w].gen
    /\ worker' = [worker EXCEPT ![w] = Idle]
    /\ UNCHANGED <<disk, durable, up, acked, tomb, yanking, left>>

-----------------------------------------------------------------------------
(* audit_registry_storage *)

Restart(w) ==
    /\ up = "down" /\ up' = "audit"
    /\ worker' = [worker EXCEPT ![w] = [Idle EXCEPT !.at = "audit", !.kind = "audit",
                                                    !.rec = TRUE]]
    /\ UNCHANGED <<disk, durable, history, left>>

\* Physical versions are those listed and those yanked, exactly, and within
\* the limits (audit_clean_package_index_storage).
Accounted(visible) == WithinLimits /\ visible \cup disk.yanks = disk.versions

Audit(w) ==
    /\ At(w, "audit")
    /\ LET visible == UNION disk.pointer
       IN  CASE ~YanksExplained -> Refuse(w)
             [] YanksExplained /\ ~(disk.pending = {} /\ Intact) ->
                  Go(w, "ensure") /\ UNCHANGED up
             [] YanksExplained /\ disk.pending = {} /\ Intact ->
                  IF visible \cap disk.yanks # {}
                  THEN Go(w, "discard") /\ UNCHANGED up
                  ELSE IF Accounted(visible)
                  THEN GoWith(w, "clean", disk.pointer) /\ UNCHANGED up
                  ELSE Refuse(w)
    /\ UNCHANGED <<disk, durable, history, left>>

-----------------------------------------------------------------------------
(* The machine *)

Dies ==
    /\ up \in {"up", "audit"}
    /\ up' = "down"
    /\ worker' = [w \in Worker |-> Idle]
    /\ UNCHANGED history

Kill ==
    /\ Dies
    /\ left.kills > 0 /\ left' = [left EXCEPT !.kills = @ - 1, !.unsynced = TRUE]
    /\ UNCHANGED <<disk, durable>>

Between(a, b) == {s \in SUBSET (a \cup b) : a \cap b \subseteq s}

\* Of each directory what was not synced may be kept or lost, entry by entry;
\* a generation that was being removed may come back damaged.
PowerLoss ==
    /\ Dies /\ Spend("losses")
    /\ \E vs \in Between(disk.versions, durable.versions),
          ys \in Between(disk.yanks, durable.yanks),
          pe \in {disk.pending, durable.pending},
          po \in {disk.pointer, durable.pointer},
          gs \in Between(disk.gens, durable.gens) :
         \E br \in {disk.broken, (durable.gens \cup durable.broken) \ gs} :
           disk' = [versions |-> vs, yanks |-> ys, pending |-> pe, pointer |-> po,
                    gens |-> gs, broken |-> br \ gs]
    /\ durable' = disk'

\* The stored bytes of the current generation go bad.
Damage ==
    /\ Intact /\ Spend("damages")
    /\ disk' = [disk EXCEPT !.gens = @ \ disk.pointer, !.broken = @ \cup disk.pointer]
    /\ UNCHANGED <<durable, up, worker, history>>

Step(w) ==
    \/ GetPending(w) \/ GetPointer(w) \/ GetFiles(w) \/ Acquire(w) \/ TryAcquire(w)
    \/ InspectPublish(w) \/ InspectYank(w) \/ Ensure(w) \/ Discard(w) \/ Drop(w)
    \/ Scan(w) \/ Persist(w) \/ Mark(w) \/ Commit(w) \/ Switch(w) \/ Unmark(w) \/ Clean(w)
    \/ Sync(w) \/ Abort(w) \/ AbortSync(w) \/ LockTimeout(w) \/ Prepare(w)
    \/ Decide(w) \/ Recovered(w) \/ MutationDone(w) \/ Served(w) \/ Audit(w)

Next ==
    \/ \E w \in Worker :
         \/ BeginGet(w) \/ Restart(w) \/ Step(w)
         \/ DropFails(w) \/ CleanFails(w) \/ SyncFails(w) \/ Misread(w)
         \/ OperationFails(w)
         \/ \E v \in Version : BeginPublish(w, v) \/ BeginYank(w, v)
    \/ Kill \/ PowerLoss \/ Damage

Spec == Init /\ [][Next]_vars

\* Threads run and somebody starts the server again.
FairSpec ==
    /\ Spec
    /\ \A w \in Worker : WF_vars(Step(w))
    /\ WF_vars(\E w \in Worker : Restart(w))

-----------------------------------------------------------------------------
(* Properties *)

\* An index handed to a reader names only versions that are stored, all that
\* were confirmed or shown before the request and nobody asked to yank, and
\* none whose yank was confirmed before it (load_or_recover_signed_index
\* without the lock, recovery, and the order of publish and yank).
IndexTrue ==
    \A w \in Worker : At(w, "served") =>
      LET visible == UNION worker[w].gen
      IN  /\ visible \subseteq disk.versions
          /\ worker[w].must \ yanking \subseteq visible
          /\ visible \cap worker[w].mustNot = {}

\* A confirmed publish or yank is not undone by errors and process deaths, nor,
\* unless a sync is missing, by a power loss at any later time (the directory
\* syncs of publish_request and create_yank_marker).
AckedSafe ==
    /\ acked \subseteq disk.versions /\ tomb \subseteq disk.yanks
    /\ left.unsynced \/ (acked \subseteq durable.versions /\ tomb \subseteq durable.yanks)

\* Whatever interrupted the server, the audit of the next start accepts the
\* storage it left, with one exception: the index is within the item limit
\* and yanked versions carry the storage over it, which publish_request
\* does not count and load_committed_metadata_for_recovery does.
AuditAccepts ==
    up = "refused" => /\ disk.versions \notin left.fits
                      /\ disk.versions \ disk.yanks \in left.fits

\* Yanked versions keep their place in the limit, so the storage the audit
\* has to scan stays bounded (ensure_physical_version_capacity counts the
\* index and the markers, never the directory).
CapacityKept == TypeOK /\ Cardinality(disk.versions) <= left.capacity

\* What was confirmed stays, within the bound of the storage.
StorageSafe == AckedSafe /\ CapacityKept

\* What no start repairs: the stored items are over the limit, or a damaged
\* generation has the name of the index that is to be built, and the pointer
\* is gone, or a marker keeps ensure_signed_index_locked from discarding it.
Blocked ==
    LET wanted == {disk.versions \ disk.yanks}
    IN  \/ disk.versions \notin left.fits
        \/ wanted \subseteq disk.broken /\ (disk.pending # {} \/ disk.pointer = {})

\* A server that went down comes up again, with the index rebuilt, unless its
\* storage is and stays one that no start repairs (audit_registry_storage,
\* discard_broken_cached_index, persist_signed_generation).
ComesBack == [](up = "down" => <>(up = "up" \/ []Blocked))

=============================================================================
