------------------------- MODULE RegistryStoreProofs -------------------------
(***************************************************************************)
(* Safety of the registry's storage for every set of threads, versions and *)
(* bounds: any number of requests, failing operations, failing syncs,      *)
(* process deaths, power losses and damaged generations.  One thing is     *)
(* assumed of a behaviour, LossesSynced: a power loss does not follow a    *)
(* sync that failed or that a dying process did not reach.  Run refused    *)
(* shows that without it the audit may refuse what is left.                *)
(***************************************************************************)
EXTENDS RegistryStore, FiniteSetTheorems, TLAPS

\* A power loss finds nothing unsynced but what is being written.
LossesSynced == [][PowerLoss => ~left.unsynced]_vars

Visible == UNION disk.pointer
Listed == disk.versions \ disk.yanks

-----------------------------------------------------------------------------
(* The invariant *)

Lefts == [requests : Nat, faults : Nat, syncs : Nat, kills : Nat,
          losses : Nat, damages : Nat, capacity : Nat, fits : Families, unsynced : BOOLEAN]

BoundsKept ==
    /\ left \in Lefts
    /\ \E b \in Bounds : /\ left.fits = b.fits
                         /\ \A f \in DOMAIN b \ {"fits", "unsynced"} : left[f] \in 0..b[f]

TypeInv ==
    /\ disk \in Trees /\ durable \in Trees
    /\ disk.pointer = {} \/ \E g \in Generation : disk.pointer = {g}
    /\ durable.pointer = {} \/ \E g \in Generation : durable.pointer = {g}
    /\ disk.pending = {} \/ \E v \in Version : disk.pending = {v}
    /\ durable.pending = {} \/ \E v \in Version : durable.pending = {v}
    /\ up \in {"down", "audit", "up", "refused"}
    /\ worker \in [Worker -> Workers]
    /\ acked \subseteq Version /\ tomb \subseteq Version
    /\ yanking \subseteq Version /\ shown \subseteq Version
    /\ BoundsKept

\* One thread holds the lock, and only the audit works while the server starts.
LockInv ==
    /\ \A w, u \in Worker : worker[w].at \in Locked /\ worker[u].at \in Locked => w = u
    /\ \A w \in Worker :
         /\ up \in {"down", "refused"} => worker[w].at = "idle"
         /\ up = "audit" => worker[w].at = "idle" \/ worker[w].kind = "audit"
         /\ up = "up" => worker[w].at = "idle" \/ worker[w].kind # "audit"

\* The tree the processes see: its markers are explained, its pointer names
\* stored versions, and without a marker the index is that of the tree.  What
\* is not yanked is within the item limit, but not what is refused.
DiskInv ==
    /\ disk.yanks \subseteq disk.versions /\ disk.yanks \subseteq yanking
    /\ \A g \in disk.pointer : g \subseteq disk.versions
    /\ disk.pending = {} => disk.pointer = {} \/ Visible = Listed
    /\ acked \cup shown \subseteq disk.versions /\ tomb \subseteq disk.yanks
    /\ IsFiniteSet(disk.versions) /\ Cardinality(disk.versions) <= left.capacity
    /\ Listed \in left.fits /\ (up = "refused" => disk.versions \notin left.fits)
    /\ up = "up" => \A g \in disk.pointer :
         (acked \cup shown) \ yanking \subseteq g /\ g \cap tomb = {}

\* Which labels belong to which request.
Shape(a) ==
    /\ a.at \in {"pending", "pointer", "files", "lock", "served"} => a.kind = "get"
    /\ a.at \in {"tryLock", "inspect"} => a.kind \in {"publish", "yank"} /\ ~a.rec
    /\ a.at = "resync" => a.kind = "publish" /\ ~a.rec
    /\ a.at \in {"ensure", "discard", "dropping", "discarded", "scan"} => a.rec
    /\ a.at = "prepare" => a.kind = "publish" /\ a.rec
    /\ a.at = "decide" => a.kind = "yank" /\ a.rec
    /\ a.at \in {"mark", "marked", "commit", "committed", "abort", "aborted"} => ~a.rec
    /\ a.at \in {"abort", "aborted"} => a.kind = "publish"
    /\ a.at \in Locked /\ ~a.rec => a.kind \in {"publish", "yank"}
    /\ a.at = "audit" => a.kind = "audit" /\ a.rec
    /\ a.kind = "audit" => a.at \in Locked
    /\ a.kind = "yank" => a.v \in yanking
    /\ a.must \subseteq acked \cup shown /\ a.mustNot \subseteq tomb

Settled == {"switched", "unmark", "unmarked", "clean", "cleaned", "done", "prepare", "decide"}
Storing == {"persist", "persisted"}
Before == Storing \cup {"mark", "marked", "commit", "abort", "aborted"}

\* The index a mutation is about to commit, and that it may.
Target(a) == IF a.kind = "publish" THEN Listed \cup {a.v} ELSE Listed \ {a.v}
MayCommit(a) ==
    IF a.kind = "publish"
    THEN /\ a.v \notin disk.versions /\ Cardinality(disk.versions) < left.capacity
         /\ Listed \cup {a.v} \in left.fits
    ELSE a.v \in Listed
Committed(a) == IF a.kind = "publish" THEN a.v \in disk.versions ELSE a.v \in disk.yanks

\* What the holder of the lock has established.
Holds(a) ==
    /\ a.at = "resync" => a.v \in disk.versions
    /\ a.at = "prepare" => a.v \notin disk.versions
    /\ a.at \in Settled => a.gen = disk.pointer /\ Visible = Listed
    /\ a.at = "scan" \/ (a.at \in Storing \cup {"switch"} /\ a.rec) =>
          disk.pending # {} \/ disk.pointer = {}
    /\ a.at \in Storing \cup {"switch"} /\ a.rec => a.gen = {Listed}
    /\ a.at \in Before /\ ~a.rec => Visible = Listed /\ a.gen = {Target(a)} /\ MayCommit(a)
    /\ a.at \in {"marked", "commit", "abort", "committed"}
          \/ (a.at = "switch" /\ ~a.rec) => disk.pending # {}
    /\ a.at \in {"committed", "switch"} /\ ~a.rec => a.gen = {Listed} /\ Committed(a)
    /\ a.at \in Settled /\ ~a.rec => Committed(a)
    /\ a.at \in {"dropping", "discarded"} => disk.pointer = {}
    /\ disk.pointer = {} /\ (a.at \in Settled \/ (a.at \in Before /\ ~a.rec)) =>
          disk.versions = {}

\* What a reader has read is true, and stays so while it waits to answer.
Honest(a) ==
    a.at \in {"files", "served"} =>
      /\ UNION a.gen \subseteq disk.versions
      /\ a.must \ yanking \subseteq UNION a.gen
      /\ (UNION a.gen) \cap a.mustNot = {}
      /\ \A g \in disk.pointer : (UNION a.gen) \ yanking \subseteq g

\* What a power loss would leave: durable lags behind disk only by what the
\* holder of the lock is about to sync, or by a pointer that was discarded.
Lags ==
    /\ disk.versions # durable.versions =>
         \E w \in Worker : worker[w].at = "committed" /\ worker[w].kind = "publish"
    /\ disk.yanks # durable.yanks =>
         \E w \in Worker : worker[w].at = "committed" /\ worker[w].kind = "yank"
    /\ disk.pending # durable.pending =>
         \E w \in Worker : worker[w].at \in {"marked", "unmarked", "aborted"}
    /\ disk.pointer # durable.pointer =>
         disk.pointer = {} \/ \E w \in Worker : worker[w].at = "switched"

Survives ==
    /\ acked \cup shown \subseteq durable.versions /\ tomb \subseteq durable.yanks
    /\ disk.yanks \subseteq durable.versions
    /\ \A g \in disk.pointer \cup durable.pointer : g \subseteq durable.versions
    /\ disk.pointer = {} /\ (disk.pending = {} \/ durable.pending = {}) =>
         durable.pointer = {} \/ UNION durable.pointer = Listed
    /\ disk.versions \ durable.yanks \in left.fits

\* The same, as far as one thread is concerned.
Keeps(a) ==
    /\ a.at = "switched" => \/ disk.pending # {} \/ durable.pointer = {}
                            \/ UNION durable.pointer = Listed
    /\ a.at \in {"files", "served"} => UNION a.gen \subseteq durable.versions

DurableInv ==
    /\ durable.versions \subseteq disk.versions /\ durable.yanks \subseteq disk.yanks
    /\ ~left.unsynced => Lags /\ Survives /\ \A w \in Worker : Keeps(worker[w])

WorkerInv == \A w \in Worker : Shape(worker[w]) /\ Holds(worker[w]) /\ Honest(worker[w])

StoreInv == TypeInv /\ LockInv /\ DiskInv /\ WorkerInv /\ DurableInv

-----------------------------------------------------------------------------
(* One thread moves *)

\* Thread w becomes a.
Moves(w, a) == a \in Workers /\ worker' = [worker EXCEPT ![w] = a]

\* Two states of a thread serve the same request.
Like(a, b) == a.kind = b.kind /\ a.v = b.v /\ a.must = b.must /\ a.mustNot = b.mustNot

LEMMA IdleFacts ==
    /\ Idle \in Workers /\ Idle.at = "idle" /\ Idle.kind = "get" /\ Idle.rec = FALSE
    /\ Idle.gen = {} /\ Idle.must = {} /\ Idle.mustNot = {} /\ Idle.v \in Version
  <1>1. PICK x : x = CHOOSE v \in Version : TRUE
    OBVIOUS
  <1>2. x \in Version
    BY <1>1, RegistryAssumption
  <1>3. Idle = [at |-> "idle", kind |-> "get", v |-> x, rec |-> FALSE, gen |-> {},
                must |-> {}, mustNot |-> {}]
    BY <1>1 DEF Idle
  <1>4. QED
    BY <1>2, <1>3 DEF Workers, Labels

LEMMA MoveFacts ==
    ASSUME worker \in [Worker -> Workers], NEW w \in Worker, NEW a, Moves(w, a)
    PROVE  /\ worker' \in [Worker -> Workers] /\ worker'[w] = a
           /\ \A u \in Worker : u # w => worker'[u] = worker[u]
  BY DEF Moves

LEMMA GoFacts ==
    ASSUME worker \in [Worker -> Workers], NEW w \in Worker, NEW label \in Labels,
           Go(w, label)
    PROVE  \E a \in Workers : /\ Moves(w, a) /\ Like(a, worker[w]) /\ a.at = label
                              /\ a.rec = worker[w].rec /\ a.gen = worker[w].gen
  <1>1. PICK b : b = worker[w]
    OBVIOUS
  <1>2. PICK a : a = [b EXCEPT !.at = label]
    OBVIOUS
  <1>3. b \in Workers
    BY <1>1
  <1>4. /\ a \in Workers /\ Like(a, b) /\ a.at = label /\ a.rec = b.rec /\ a.gen = b.gen
    BY <1>2, <1>3 DEF Workers, Like
  <1>5. worker' = [worker EXCEPT ![w] = a]
    BY <1>1, <1>2 DEF Go
  <1>6. QED
    BY <1>1, <1>4, <1>5 DEF Moves

LEMMA GoWithFacts ==
    ASSUME worker \in [Worker -> Workers], NEW w \in Worker, NEW label \in Labels,
           NEW gen \in SUBSET Generation, GoWith(w, label, gen)
    PROVE  \E a \in Workers : /\ Moves(w, a) /\ Like(a, worker[w]) /\ a.at = label
                              /\ a.rec = worker[w].rec /\ a.gen = gen
  <1>1. PICK b : b = worker[w]
    OBVIOUS
  <1>2. PICK a : a = [b EXCEPT !.at = label, !.gen = gen]
    OBVIOUS
  <1>3. b \in Workers
    BY <1>1
  <1>4. /\ a \in Workers /\ Like(a, b) /\ a.at = label /\ a.rec = b.rec /\ a.gen = gen
    BY <1>2, <1>3 DEF Workers, Like
  <1>5. worker' = [worker EXCEPT ![w] = a]
    BY <1>1, <1>2 DEF GoWith
  <1>6. QED
    BY <1>1, <1>4, <1>5 DEF Moves

\* Thread w enters or leaves ensure_signed_index_locked.
Enters(w, label, rec) == worker' = [worker EXCEPT ![w].at = label, ![w].rec = rec]

LEMMA EnterFacts ==
    ASSUME worker \in [Worker -> Workers], NEW w \in Worker, NEW label \in Labels,
           NEW rec \in BOOLEAN, Enters(w, label, rec)
    PROVE  \E a \in Workers : /\ Moves(w, a) /\ Like(a, worker[w]) /\ a.at = label
                              /\ a.rec = rec /\ a.gen = worker[w].gen
  <1>1. PICK b : b = worker[w]
    OBVIOUS
  <1>2. PICK a : a = [b EXCEPT !.at = label, !.rec = rec]
    OBVIOUS
  <1>3. b \in Workers
    BY <1>1
  <1>4. /\ a \in Workers /\ Like(a, b) /\ a.at = label /\ a.rec = rec /\ a.gen = b.gen
    BY <1>2, <1>3 DEF Workers, Like
  <1>5. worker' = [worker EXCEPT ![w] = a]
    BY <1>1, <1>2 DEF Enters
  <1>6. QED
    BY <1>1, <1>4, <1>5 DEF Moves

-----------------------------------------------------------------------------
(* What a step may do to the rest *)

\* The tree is the same but for the stored generations, which no invariant
\* speaks of.
SameTree ==
    /\ disk' \in Trees /\ disk'.versions = disk.versions /\ disk'.yanks = disk.yanks
    /\ disk'.pending = disk.pending /\ disk'.pointer = disk.pointer

SameBounds ==
    /\ BoundsKept' /\ left'.capacity = left.capacity /\ left'.fits = left.fits
    /\ left.unsynced => left'.unsynced

\* Labels at which something written waits for its sync.
Lagging == {"committed", "marked", "unmarked", "aborted", "switched"}

Quiet(w, a) ==
    /\ Moves(w, a) /\ SameTree /\ durable' = durable
    /\ UNCHANGED <<acked, tomb, shown>>
    /\ yanking \subseteq yanking' /\ yanking' \subseteq Version
    /\ SameBounds

Worthy(a) == Shape(a) /\ Holds(a) /\ Honest(a) /\ (~left.unsynced => Keeps(a))

\* The lock, and what the server is doing, once w has become a.
LockNext(w, a) ==
    /\ up' \in {"down", "audit", "up", "refused"}
    /\ a.at \in Locked => \A u \in Worker \ {w} : worker[u].at \notin Locked
    /\ up' \in {"down", "refused"} => \A u \in Worker \ {w} : worker[u].at = "idle"
    /\ up' = "audit" =>
         \A u \in Worker \ {w} : worker[u].at = "idle" \/ worker[u].kind = "audit"
    /\ up' = "up" =>
         \A u \in Worker \ {w} : worker[u].at = "idle" \/ worker[u].kind # "audit"
    /\ up' \in {"down", "refused"} => a.at = "idle"
    /\ up' = "audit" => a.at = "idle" \/ a.kind = "audit"
    /\ up' = "up" => a.at = "idle" \/ a.kind # "audit"

LEMMA LockNextInv ==
    ASSUME StoreInv, NEW w \in Worker, NEW a, Moves(w, a), LockNext(w, a)
    PROVE  LockInv'
  <1>1. worker \in [Worker -> Workers] /\ LockInv
    BY DEF StoreInv, TypeInv
  <1>2. worker'[w] = a /\ \A u \in Worker : u # w => worker'[u] = worker[u]
    BY <1>1, MoveFacts
  <1>3. ASSUME NEW x \in Worker, NEW y \in Worker,
               worker'[x].at \in Locked, worker'[y].at \in Locked
        PROVE  x = y
    BY <1>1, <1>2, <1>3 DEF LockInv, LockNext
  <1>4. ASSUME NEW x \in Worker
        PROVE  /\ up' \in {"down", "refused"} => worker'[x].at = "idle"
               /\ up' = "audit" => worker'[x].at = "idle" \/ worker'[x].kind = "audit"
               /\ up' = "up" => worker'[x].at = "idle" \/ worker'[x].kind # "audit"
    BY <1>2 DEF LockNext
  <1>5. QED
    BY <1>3, <1>4 DEF LockInv

\* A step that does not change who is at work.
LEMMA LockSame ==
    ASSUME StoreInv, NEW w \in Worker, NEW a, up' = up, worker[w].at # "idle",
           a.kind = worker[w].kind,
           a.at \in Locked => worker[w].at \in Locked \/ LockFree
    PROVE  LockNext(w, a)
  <1>1. LockInv /\ up \in {"down", "audit", "up", "refused"}
    BY DEF StoreInv, TypeInv
  <1>2. a.at \in Locked => \A u \in Worker \ {w} : worker[u].at \notin Locked
    BY <1>1 DEF LockInv, LockFree
  <1>3. QED
    BY <1>1, <1>2 DEF LockInv, LockNext

\* A thread ends its request; the audit ends the server.
LEMMA LockEnds ==
    ASSUME StoreInv, NEW w \in Worker,
           \/ up' = IF worker[w].kind = "audit" THEN "down" ELSE up
           \/ up' = IF worker[w].kind = "audit" THEN "refused" ELSE up
           \/ up' = up
           \/ worker[w].kind = "audit" /\ up' = "up",
           worker[w].at # "idle"
    PROVE  LockNext(w, Idle)
  <1>1. LockInv /\ up \in {"down", "audit", "up", "refused"} /\ Shape(worker[w])
    BY DEF StoreInv, TypeInv, WorkerInv
  <1>2. Idle.at = "idle" /\ "idle" \notin Locked
    BY IdleFacts DEF Locked
  <1>3. worker[w].kind = "audit" =>
          /\ up = "audit" /\ worker[w].at \in Locked
          /\ \A u \in Worker \ {w} : worker[u].at = "idle" \/ worker[u].kind = "audit"
    BY <1>1 DEF LockInv, Shape
  <1>4. \A u \in Worker : worker[u].kind = "audit" => worker[u].at \in Locked
    BY DEF StoreInv, WorkerInv, Shape
  <1>5. worker[w].kind = "audit" => \A u \in Worker \ {w} : worker[u].at = "idle"
    BY <1>1, <1>3, <1>4 DEF LockInv
  <1>6. QED
    BY <1>1, <1>2, <1>3, <1>5 DEF LockInv, LockNext

-----------------------------------------------------------------------------
(* Steps that leave both trees alone *)

LEMMA QuietOther ==
    ASSUME StoreInv, NEW b, Worthy(b), SameTree, durable' = durable,
           UNCHANGED <<acked, tomb, shown>>, yanking \subseteq yanking', SameBounds
    PROVE  Worthy(b)'
  <1>1. Shape(b)'
    BY DEF Worthy, Shape
  <1>2. Holds(b)'
    BY DEF Worthy, Holds, SameTree, SameBounds, Visible, Listed, Target, MayCommit, Committed
  <1>3. Honest(b)'
    BY DEF Worthy, Honest, SameTree
  <1>4. ~left'.unsynced => Keeps(b)'
    BY DEF Worthy, Keeps, SameTree, SameBounds, Listed
  <1>5. QED
    BY <1>1, <1>2, <1>3, <1>4 DEF Worthy

LEMMA QuietStep ==
    ASSUME StoreInv, NEW w \in Worker, NEW a, Quiet(w, a), LockNext(w, a),
           Worthy(a) \/ Worthy(a)',
           left'.unsynced \/ worker[w].at \notin Lagging \/ a = worker[w],
           up' = "up" => up = "up" \/ Visible = Listed,
           up' = "refused" => up = "refused" \/ disk.versions \notin left.fits
    PROVE  StoreInv'
  <1>1. /\ Moves(w, a) /\ SameTree /\ durable' = durable /\ UNCHANGED <<acked, tomb, shown>>
        /\ yanking \subseteq yanking' /\ yanking' \subseteq Version /\ SameBounds
    BY DEF Quiet
  <1>2. TypeInv /\ DiskInv /\ worker \in [Worker -> Workers]
    BY DEF StoreInv, TypeInv
  <1>3. /\ worker' \in [Worker -> Workers] /\ worker'[w] = a
        /\ \A u \in Worker : u # w => worker'[u] = worker[u]
    BY <1>1, <1>2, MoveFacts
  <1>4. TypeInv'
    <2>1. up' \in {"down", "audit", "up", "refused"}
      BY DEF LockNext
    <2>2. QED
      BY <1>1, <1>2, <1>3, <2>1 DEF TypeInv, SameTree, SameBounds
  <1>5. LockInv'
    BY <1>1, LockNextInv
  <1>6. DiskInv'
    <2>1. /\ disk'.yanks \subseteq disk'.versions /\ disk'.yanks \subseteq yanking'
          /\ \A g \in disk'.pointer : g \subseteq disk'.versions
          /\ disk'.pending = {} => disk'.pointer = {} \/ Visible' = Listed'
          /\ acked' \cup shown' \subseteq disk'.versions /\ tomb' \subseteq disk'.yanks
          /\ IsFiniteSet(disk'.versions) /\ Cardinality(disk'.versions) <= left'.capacity
          /\ Listed' \in left'.fits /\ (up' = "refused" => disk'.versions \notin left'.fits)
      BY <1>1, <1>2 DEF DiskInv, SameTree, SameBounds, Visible, Listed
    <2>2. ASSUME up' = "up", NEW g \in disk'.pointer
          PROVE  (acked' \cup shown') \ yanking' \subseteq g /\ g \cap tomb' = {}
      <3>1. CASE up = "up"
        BY <1>1, <1>2, <2>2, <3>1 DEF DiskInv, SameTree
      <3>2. CASE Visible = Listed
        <4>1. disk.pointer = {g}
          BY <1>1, <1>2, <2>2 DEF TypeInv, SameTree
        <4>2. g = disk.versions \ disk.yanks
          BY <4>1, <3>2 DEF Visible, Listed
        <4>3. QED
          BY <1>1, <1>2, <4>2 DEF DiskInv
      <3>3. QED
        BY <2>2, <3>1, <3>2
    <2>3. QED
      BY <2>1, <2>2 DEF DiskInv
  <1>7. ASSUME NEW u \in Worker PROVE Worthy(worker[u])'
    <2>1. CASE u = w
      <3>1. Worthy(a)'
        BY <1>1, QuietOther
      <3>2. QED
        BY <3>1, <2>1, <1>3 DEF Worthy, Shape, Holds, Honest, Keeps, Target, MayCommit, Committed
    <2>2. CASE u # w
      <3>1. PICK b : b = worker[u]
        OBVIOUS
      <3>2. Worthy(b)
        BY <3>1 DEF StoreInv, WorkerInv, DurableInv, Worthy
      <3>3. Worthy(b)'
        BY <1>1, <3>2, QuietOther
      <3>4. b = worker'[u]
        BY <3>1, <2>2, <1>3
      <3>5. QED
        BY <3>3, <3>4 DEF Worthy, Shape, Holds, Honest, Keeps, Target, MayCommit, Committed
    <2>3. QED
      BY <2>1, <2>2
  <1>8. WorkerInv'
    BY <1>7 DEF WorkerInv, Worthy
  <1>9. DurableInv'
    <2>1. /\ DurableInv /\ durable'.versions \subseteq disk'.versions
          /\ durable'.yanks \subseteq disk'.yanks
      BY <1>1 DEF StoreInv, DurableInv, SameTree
    <2>2. ASSUME ~left'.unsynced PROVE Lags' /\ Survives'
      <3>1. Lags /\ Survives /\ (worker[w].at \notin Lagging \/ a = worker[w])
        BY <1>1, <2>1, <2>2 DEF DurableInv, SameBounds
      <3>2. Survives'
        BY <1>1, <3>1 DEF Survives, SameTree, SameBounds, Listed
      <3>3. \A u \in Worker : worker[u].at \in Lagging => worker'[u] = worker[u]
        BY <1>3, <3>1
      <3>4. Lags'
        BY <1>1, <3>1, <3>3 DEF Lags, SameTree, Lagging
      <3>5. QED
        BY <3>2, <3>4
    <2>3. QED
      BY <1>7, <2>1, <2>2 DEF DurableInv, Worthy
  <1>10. QED
    BY <1>4, <1>5, <1>6, <1>8, <1>9 DEF StoreInv

LEMMA BoundFacts ==
    ASSUME BoundsKept
    PROVE  /\ left' = left => SameBounds /\ left'.unsynced = left.unsynced
           /\ Spend("requests") => SameBounds /\ left'.unsynced = left.unsynced
           /\ Spend("faults") => SameBounds /\ left'.unsynced = left.unsynced
           /\ Spend("damages") => SameBounds /\ left'.unsynced = left.unsynced
           /\ Spend("losses") => SameBounds /\ left'.unsynced = left.unsynced
           /\ SyncFault => SameBounds /\ left'.unsynced
           /\ left.kills > 0 /\ left' = [left EXCEPT !.kills = @ - 1, !.unsynced = TRUE]
                => SameBounds /\ left'.unsynced
  <1>1. PICK b \in Bounds : /\ left.fits = b.fits
                            /\ \A f \in DOMAIN b \ {"fits", "unsynced"} : left[f] \in 0..b[f]
    BY DEF BoundsKept
  <1>2. b \in [requests : Nat, faults : Nat, syncs : Nat, kills : Nat,
               losses : Nat, damages : Nat, capacity : Nat, fits : Families,
               unsynced : {FALSE}]
    BY RegistryAssumption
  <1>3. /\ left \in Lefts
        /\ left.requests \in 0..b.requests /\ left.faults \in 0..b.faults
        /\ left.syncs \in 0..b.syncs /\ left.kills \in 0..b.kills
        /\ left.losses \in 0..b.losses /\ left.damages \in 0..b.damages
        /\ left.capacity \in 0..b.capacity /\ left.fits = b.fits
    BY <1>1, <1>2 DEF BoundsKept
  <1>4. ASSUME NEW x \in Lefts,
               x.requests \in 0..b.requests, x.faults \in 0..b.faults,
               x.syncs \in 0..b.syncs, x.kills \in 0..b.kills,
               x.losses \in 0..b.losses, x.damages \in 0..b.damages,
               x.capacity = left.capacity, x.fits = left.fits, left.unsynced => x.unsynced, left' = x
        PROVE  SameBounds
    <2>1. \A f \in DOMAIN b \ {"fits", "unsynced"} : x[f] \in 0..b[f]
      BY <1>2, <1>3, <1>4
    <2>2. QED
      BY <1>3, <1>4, <2>1 DEF SameBounds, BoundsKept
  <1>5. left' = left => SameBounds /\ left'.unsynced = left.unsynced
    BY <1>3, <1>4
  <1>6. Spend("requests") => SameBounds /\ left'.unsynced = left.unsynced
    <2>1. PICK x : x = [left EXCEPT !.requests = @ - 1]
      OBVIOUS
    <2>2. QED
      BY <1>2, <1>3, <1>4, <2>1 DEF Spend, Lefts
  <1>7. Spend("faults") => SameBounds /\ left'.unsynced = left.unsynced
    <2>1. PICK x : x = [left EXCEPT !.faults = @ - 1]
      OBVIOUS
    <2>2. QED
      BY <1>2, <1>3, <1>4, <2>1 DEF Spend, Lefts
  <1>8. Spend("damages") => SameBounds /\ left'.unsynced = left.unsynced
    <2>1. PICK x : x = [left EXCEPT !.damages = @ - 1]
      OBVIOUS
    <2>2. QED
      BY <1>2, <1>3, <1>4, <2>1 DEF Spend, Lefts
  <1>9. Spend("losses") => SameBounds /\ left'.unsynced = left.unsynced
    <2>1. PICK x : x = [left EXCEPT !.losses = @ - 1]
      OBVIOUS
    <2>2. QED
      BY <1>2, <1>3, <1>4, <2>1 DEF Spend, Lefts
  <1>10. SyncFault => SameBounds /\ left'.unsynced
    <2>1. PICK true \in BOOLEAN : true = TRUE
      OBVIOUS
    <2>2. PICK x : x = [left EXCEPT !.syncs = @ - 1, !.unsynced = true]
      OBVIOUS
    <2>3. /\ x.syncs = left.syncs - 1 /\ x.unsynced = true
          /\ x.requests = left.requests /\ x.faults = left.faults
          /\ x.losses = left.losses /\ x.damages = left.damages
          /\ x.kills = left.kills /\ x.capacity = left.capacity /\ x.fits = left.fits
      BY <1>3, <2>2 DEF Lefts
    <2>4. left.syncs > 0 => x.syncs \in 0..b.syncs /\ x.syncs \in Nat
      BY <1>2, <1>3, <2>3
    <2>5. left.syncs > 0 => x \in Lefts
      BY <1>3, <2>1, <2>2, <2>4 DEF Lefts
    <2>6. left.syncs > 0 /\ left' = x => SameBounds
      BY <1>3, <1>4, <2>1, <2>3, <2>4, <2>5
    <2>7. QED
      BY <2>1, <2>2, <2>3, <2>6 DEF SyncFault
  <1>11. left.kills > 0 /\ left' = [left EXCEPT !.kills = @ - 1, !.unsynced = TRUE]
           => SameBounds /\ left'.unsynced
    <2>1. PICK true \in BOOLEAN : true = TRUE
      OBVIOUS
    <2>2. PICK x : x = [left EXCEPT !.kills = @ - 1, !.unsynced = true]
      OBVIOUS
    <2>3. /\ x.kills = left.kills - 1 /\ x.unsynced = true
          /\ x.requests = left.requests /\ x.faults = left.faults
          /\ x.losses = left.losses /\ x.damages = left.damages
          /\ x.syncs = left.syncs /\ x.capacity = left.capacity /\ x.fits = left.fits
      BY <1>3, <2>2 DEF Lefts
    <2>4. left.kills > 0 => x.kills \in 0..b.kills /\ x.kills \in Nat
      BY <1>2, <1>3, <2>3
    <2>5. left.kills > 0 => x \in Lefts
      BY <1>3, <2>1, <2>2, <2>4 DEF Lefts
    <2>6. left.kills > 0 /\ left' = x => SameBounds
      BY <1>3, <1>4, <2>1, <2>3, <2>4, <2>5
    <2>7. QED
      BY <2>1, <2>2, <2>3, <2>6
  <1>12. QED
    BY <1>5, <1>6, <1>7, <1>8, <1>9, <1>10, <1>11

\* The trees and the history are what they were, and the bounds at most smaller.
Still == SameTree /\ durable' = durable /\ UNCHANGED history /\ SameBounds

LEMMA StillFacts ==
    ASSUME StoreInv, UNCHANGED <<disk, durable, history>>,
           left' = left \/ Spend("faults")
    PROVE  Still /\ left'.unsynced = left.unsynced
  <1>1. BoundsKept /\ disk \in Trees
    BY DEF StoreInv, TypeInv
  <1>2. SameTree
    BY <1>1 DEF SameTree
  <1>3. QED
    BY <1>1, <1>2, BoundFacts DEF Still

LEMMA StillQuiet ==
    ASSUME StoreInv, NEW w, NEW a, Still, Moves(w, a)
    PROVE  Quiet(w, a)
  BY DEF StoreInv, TypeInv, Still, Quiet, history

\* A step within a request.
LEMMA StayStep ==
    ASSUME StoreInv, NEW w \in Worker, NEW a, Moves(w, a), Still, up' = up,
           worker[w].at # "idle", Like(a, worker[w]),
           a.at \in Locked => worker[w].at \in Locked \/ LockFree,
           left'.unsynced \/ worker[w].at \notin Lagging, Worthy(a)
    PROVE  StoreInv'
  <1>1. Quiet(w, a)
    BY StillQuiet
  <1>2. LockNext(w, a)
    BY LockSame DEF Like
  <1>3. QED
    BY <1>1, <1>2, QuietStep

LEMMA IdleWorthy == Worthy(Idle)
  BY IdleFacts DEF Worthy, Shape, Holds, Honest, Keeps, Settled, Storing, Before, Locked

\* The end of a request without success.
LEMMA EndStep ==
    ASSUME StoreInv, NEW w \in Worker, worker' = [worker EXCEPT ![w] = Idle], Still,
           worker[w].at # "idle", left'.unsynced \/ worker[w].at \notin Lagging,
           \/ up' = up
           \/ up' = IF worker[w].kind = "audit" THEN "down" ELSE up
           \/ /\ up' = IF worker[w].kind = "audit" THEN "refused" ELSE up
              /\ disk.versions \notin left.fits
    PROVE  StoreInv'
  <1>1. Moves(w, Idle)
    BY IdleFacts DEF Moves
  <1>2. Quiet(w, Idle)
    BY <1>1, StillQuiet
  <1>3. LockNext(w, Idle)
    BY LockEnds
  <1>4. /\ up' = "up" => up = "up"
        /\ up' = "refused" => up = "refused" \/ disk.versions \notin left.fits
    OBVIOUS
  <1>5. QED
    BY <1>2, <1>3, <1>4, IdleWorthy, QuietStep

LEMMA FailStep ==
    ASSUME StoreInv, NEW w \in Worker, Fail(w), Still, worker[w].at # "idle",
           left'.unsynced \/ worker[w].at \notin Lagging
    PROVE  StoreInv'
  BY EndStep DEF Fail

\* The audit refuses what is over the item limit.
LEMMA RefuseStep ==
    ASSUME StoreInv, NEW w \in Worker, Refuse(w), Still, worker[w].at # "idle",
           left'.unsynced \/ worker[w].at \notin Lagging, disk.versions \notin left.fits
    PROVE  StoreInv'
  BY EndStep DEF Refuse

\* What the invariant says of one thread.
LEMMA ThreadFacts ==
    ASSUME StoreInv, NEW w \in Worker
    PROVE  /\ worker \in [Worker -> Workers] /\ worker[w] \in Workers
           /\ Worthy(worker[w]) /\ worker[w].gen \subseteq Generation
  BY DEF StoreInv, TypeInv, WorkerInv, DurableInv, Worthy, Workers

-----------------------------------------------------------------------------
(* Requests *)

LEMMA BeginSafe ==
    ASSUME StoreInv, NEW w \in Worker, NEW v \in Version, NEW label,
           NEW kind, Begin(w, kind, v, label),
           \/ kind = "get" /\ label = "pending"
           \/ kind \in {"publish", "yank"} /\ label = "tryLock",
           yanking \subseteq yanking', yanking' \subseteq Version,
           kind = "yank" => v \in yanking'
    PROVE  StoreInv'
  <1>1. PICK i : i = Idle
    OBVIOUS
  <1>2. /\ i \in Workers /\ i.rec = FALSE /\ i.gen = {}
    BY <1>1, IdleFacts
  <1>3. PICK a : a = [i EXCEPT !.at = label, !.kind = kind, !.v = v,
                               !.must = acked \cup shown, !.mustNot = tomb]
    OBVIOUS
  <1>4. /\ a.at = label /\ a.kind = kind /\ a.rec = FALSE /\ a.v = v
        /\ a.must = acked \cup shown /\ a.mustNot = tomb /\ a \in Workers
    <2>1. acked \cup shown \in SUBSET Version /\ tomb \in SUBSET Version
      BY DEF StoreInv, TypeInv
    <2>2. label \in Labels /\ kind \in {"get", "publish", "yank", "audit"}
      BY DEF Labels
    <2>3. QED
      BY <1>2, <1>3, <2>1, <2>2 DEF Workers
  <1>5. Moves(w, a)
    BY <1>1, <1>3, <1>4 DEF Begin, Moves
  <1>6. SameBounds /\ left'.unsynced = left.unsynced
    BY BoundFacts DEF StoreInv, TypeInv, Begin
  <1>7. Quiet(w, a)
    BY <1>5, <1>6 DEF Quiet, Begin, SameTree, StoreInv, TypeInv
  <1>8. Worthy(a)'
    BY <1>4 DEF Begin, Worthy, Shape, Holds, Honest, Keeps, Settled, Storing, Before, Locked, Labels
  <1>9. up = "up" /\ up' = up /\ worker[w].at = "idle" /\ a.at \notin Locked
    BY <1>4 DEF Begin, At, Locked
  <1>10. LockNext(w, a)
    BY <1>4, <1>9 DEF StoreInv, LockInv, LockNext
  <1>11. QED
    BY <1>6, <1>7, <1>8, <1>9, <1>10, QuietStep DEF Lagging

\* Readers before they have the lock.
LEMMA GetSafe ==
    ASSUME StoreInv, NEW w \in Worker, GetPending(w) \/ GetPointer(w) \/ GetFiles(w)
    PROVE  StoreInv'
  <1>1. /\ worker \in [Worker -> Workers] /\ Worthy(worker[w])
        /\ worker[w].gen \subseteq Generation
    BY ThreadFacts
  <1>2. UNCHANGED <<disk, durable, up, history, left>>
    BY DEF GetPending, GetPointer, GetFiles, Reads
  <1>3. Still /\ left'.unsynced = left.unsynced
    BY <1>2, StillFacts
  <1>4. CASE GetPending(w)
    <2>1. PICK label \in {"pointer", "lock"} : Go(w, label)
      BY <1>4 DEF GetPending
    <2>2. label \in Labels /\ worker[w].at = "pending"
      BY <2>1, <1>4 DEF Labels, GetPending, At
    <2>3. PICK a \in Workers : /\ Moves(w, a) /\ Like(a, worker[w]) /\ a.at = label
      BY <1>1, <2>1, <2>2, GoFacts
    <2>4. Worthy(a)
      BY <1>1, <2>1, <2>2, <2>3 DEF Worthy, Shape, Holds, Honest, Keeps, Settled, Storing,
         Before, Locked, Like
    <2>5. a.at \notin Locked
      BY <2>1, <2>3 DEF Locked
    <2>6. QED
      BY <1>2, <1>3, <2>2, <2>3, <2>4, <2>5, StayStep DEF Lagging
  <1>5. CASE GetPointer(w)
    <2>1. PICK label \in {"files", "lock"} :
             /\ GoWith(w, label, disk.pointer) /\ (label = "files" => disk.pointer # {})
      BY <1>5 DEF GetPointer
    <2>2. /\ label \in Labels /\ worker[w].at = "pointer"
          /\ disk.pointer \in SUBSET Generation
      BY <2>1, <1>5 DEF Labels, GetPointer, At, StoreInv, TypeInv, Trees
    <2>3. PICK a \in Workers : /\ Moves(w, a) /\ Like(a, worker[w]) /\ a.at = label
                               /\ a.gen = disk.pointer
      BY <1>1, <2>1, <2>2, GoWithFacts
    <2>4. Shape(a) /\ Holds(a)
      BY <1>1, <2>1, <2>2, <2>3 DEF Worthy, Shape, Holds, Settled, Storing, Before, Locked, Like
    <2>5. up = "up"
      <3>1. worker[w].kind = "get"
        BY <1>1, <2>2 DEF Worthy, Shape
      <3>2. QED
        BY <3>1, <2>2 DEF StoreInv, LockInv, TypeInv
    <2>6. ASSUME label = "files" PROVE Honest(a)
      <3>1. PICK g : disk.pointer = {g}
        BY <2>1, <2>6 DEF StoreInv, TypeInv
      <3>2. UNION a.gen = g
        BY <2>3, <3>1
      <3>3. /\ g \subseteq disk.versions /\ (acked \cup shown) \ yanking \subseteq g
            /\ g \cap tomb = {}
        BY <2>5, <3>1 DEF StoreInv, DiskInv
      <3>4. a.must \subseteq acked \cup shown /\ a.mustNot \subseteq tomb
        BY <2>4 DEF Shape
      <3>5. a.must \ yanking \subseteq g
        BY <3>3, <3>4
      <3>6. g \cap a.mustNot = {}
        BY <3>3, <3>4
      <3>7. /\ UNION a.gen \subseteq disk.versions /\ a.must \ yanking \subseteq UNION a.gen
            /\ (UNION a.gen) \cap a.mustNot = {}
        BY <3>2, <3>3, <3>5, <3>6
      <3>8. \A h \in disk.pointer : (UNION a.gen) \ yanking \subseteq h
        BY <3>1, <3>2
      <3>9. QED
        BY <3>7, <3>8 DEF Honest
    <2>7. Honest(a)
      BY <2>1, <2>3, <2>6 DEF Honest
    <2>8. ~left.unsynced => Keeps(a)
      <3>1. ~left.unsynced => UNION disk.pointer \subseteq durable.versions
        BY DEF StoreInv, DurableInv, Survives
      <3>2. QED
        BY <2>1, <2>3, <3>1 DEF Keeps
    <2>9. a.at \notin Locked
      BY <2>1, <2>3 DEF Locked
    <2>10. QED
      BY <1>2, <1>3, <2>2, <2>3, <2>4, <2>7, <2>8, <2>9, StayStep DEF Lagging, Worthy
  <1>6. CASE GetFiles(w)
    <2>1. PICK label \in {"served", "lock"} : Go(w, label)
      BY <1>6 DEF GetFiles
    <2>2. label \in Labels /\ worker[w].at = "files"
      BY <2>1, <1>6 DEF Labels, GetFiles, At
    <2>3. PICK a \in Workers : /\ Moves(w, a) /\ Like(a, worker[w]) /\ a.at = label
                               /\ a.gen = worker[w].gen
      BY <1>1, <2>1, <2>2, GoFacts
    <2>4. Worthy(a)
      BY <1>1, <2>1, <2>2, <2>3 DEF Worthy, Shape, Holds, Honest, Keeps, Settled, Storing,
         Before, Locked, Like
    <2>5. a.at \notin Locked
      BY <2>1, <2>3 DEF Locked
    <2>6. QED
      BY <1>2, <1>3, <2>2, <2>3, <2>4, <2>5, StayStep DEF Lagging
  <1>7. QED
    BY <1>4, <1>5, <1>6

-----------------------------------------------------------------------------
(* The holder of the lock decides *)

LEMMA LockedWorthy ==
    ASSUME NEW a, a.at \in Locked, a.at \notin {"switched"}, Shape(a), Holds(a)
    PROVE  Worthy(a)
  BY DEF Worthy, Honest, Keeps, Locked

\* A step of the holder, or one that takes the lock, that changes no tree.
LEMMA LockedStep ==
    ASSUME StoreInv, NEW w \in Worker, NEW a, Moves(w, a), Still, up' = up,
           Like(a, worker[w]),
           worker[w].at \in Locked \/ (LockFree /\ worker[w].at # "idle"),
           left'.unsynced \/ worker[w].at \notin Lagging,
           a.at \in Locked, a.at \notin {"switched"}, Shape(a), Holds(a)
    PROVE  StoreInv'
  <1>1. worker[w].at # "idle"
    BY DEF Locked
  <1>2. Worthy(a)
    BY LockedWorthy
  <1>3. QED
    BY <1>1, <1>2, StayStep

LEMMA AcquireSafe ==
    ASSUME StoreInv, NEW w \in Worker, Acquire(w) \/ TryAcquire(w) \/ LockTimeout(w)
    PROVE  StoreInv'
  <1>1. worker \in [Worker -> Workers] /\ Worthy(worker[w])
    BY ThreadFacts
  <1>2. UNCHANGED <<disk, durable, history, left>>
    BY DEF Acquire, TryAcquire, LockTimeout, Reads
  <1>3. Still /\ left'.unsynced = left.unsynced
    BY <1>2, StillFacts
  <1>4. CASE Acquire(w)
    <2>1. worker[w].at = "lock" /\ LockFree /\ up' = up
      BY <1>4 DEF Acquire, At, Reads
    <2>2. PICK rec \in BOOLEAN : rec = TRUE
      OBVIOUS
    <2>3. Enters(w, "ensure", rec)
      BY <1>4, <2>2 DEF Acquire, Enters
    <2>4. PICK a \in Workers : /\ Moves(w, a) /\ Like(a, worker[w]) /\ a.at = "ensure"
                               /\ a.rec = rec
      BY <1>1, <2>3, EnterFacts DEF Labels
    <2>5. Shape(a) /\ Holds(a)
      BY <1>1, <2>1, <2>2, <2>4 DEF Worthy, Shape, Holds, Settled, Storing, Before, Locked, Like,
         Labels
    <2>6. QED
      BY <1>3, <2>1, <2>4, <2>5, LockedStep DEF Lagging, Locked, Labels
  <1>5. CASE TryAcquire(w)
    <2>1. worker[w].at = "tryLock" /\ up' = up
      BY <1>5 DEF TryAcquire, At, Reads
    <2>2. CASE LockFree
      <3>1. Go(w, "inspect")
        BY <1>5, <2>2 DEF TryAcquire, Go
      <3>2. PICK a \in Workers : /\ Moves(w, a) /\ Like(a, worker[w]) /\ a.at = "inspect"
                                 /\ a.rec = worker[w].rec
        BY <1>1, <3>1, GoFacts DEF Labels
      <3>3. Shape(a) /\ Holds(a)
        BY <1>1, <2>1, <3>2 DEF Worthy, Shape, Holds, Settled, Storing, Before, Locked, Like
      <3>4. QED
        BY <1>3, <2>1, <2>2, <3>2, <3>3, LockedStep DEF Lagging, Locked, Labels
    <2>3. CASE ~LockFree
      BY <1>3, <1>5, <2>1, <2>3, EndStep DEF TryAcquire, Lagging
    <2>4. QED
      BY <2>2, <2>3
  <1>6. CASE LockTimeout(w)
    BY <1>3, <1>6, FailStep DEF LockTimeout, At, Lagging
  <1>7. QED
    BY <1>4, <1>5, <1>6

LEMMA InspectSafe ==
    ASSUME StoreInv, NEW w \in Worker, InspectPublish(w) \/ InspectYank(w)
    PROVE  StoreInv'
  <1>1. worker \in [Worker -> Workers] /\ Worthy(worker[w])
    BY ThreadFacts
  <1>2. UNCHANGED <<disk, durable, up, history, left>> /\ worker[w].at = "inspect"
    BY DEF InspectPublish, InspectYank, Reads, At
  <1>3. Still /\ left'.unsynced = left.unsynced
    BY <1>2, StillFacts
  <1>4. PICK rec \in BOOLEAN : rec = TRUE
    OBVIOUS
  <1>5. \/ worker' = [worker EXCEPT ![w] = Idle]
        \/ Enters(w, "ensure", rec)
        \/ Go(w, "resync") /\ worker[w].v \in disk.versions /\ worker[w].kind = "publish"
    BY <1>4 DEF InspectPublish, InspectYank, Enters, Go
  <1>6. CASE worker' = [worker EXCEPT ![w] = Idle]
    BY <1>2, <1>3, <1>6, EndStep DEF Lagging
  <1>7. CASE Enters(w, "ensure", rec)
    <2>1. PICK a \in Workers : /\ Moves(w, a) /\ Like(a, worker[w]) /\ a.at = "ensure"
                               /\ a.rec = rec
      BY <1>1, <1>7, EnterFacts DEF Labels
    <2>2. Shape(a) /\ Holds(a)
      BY <1>1, <1>2, <1>4, <2>1 DEF Worthy, Shape, Holds, Settled, Storing, Before, Locked,
         Like, Labels
    <2>3. QED
      BY <1>2, <1>3, <2>1, <2>2, LockedStep DEF Lagging, Locked, Labels
  <1>8. CASE Go(w, "resync") /\ worker[w].v \in disk.versions /\ worker[w].kind = "publish"
    <2>1. PICK a \in Workers : /\ Moves(w, a) /\ Like(a, worker[w]) /\ a.at = "resync"
                               /\ a.rec = worker[w].rec
      BY <1>1, <1>8, GoFacts DEF Labels
    <2>2. Shape(a) /\ Holds(a)
      BY <1>1, <1>2, <1>8, <2>1 DEF Worthy, Shape, Holds, Settled, Storing, Before, Locked, Like,
         Labels
    <2>3. QED
      BY <1>2, <1>3, <2>1, <2>2, LockedStep DEF Lagging, Locked, Labels
  <1>9. QED
    BY <1>5, <1>6, <1>7, <1>8

\* The markers are explained, and the number of versions is within its limit.
LEMMA LimitFacts ==
    ASSUME StoreInv
    PROVE  YanksExplained /\ (WithinLimits <=> disk.versions \in left.fits)
  <1>1. /\ IsFiniteSet(disk.versions) /\ disk.yanks \subseteq disk.versions
        /\ Cardinality(disk.versions) <= left.capacity /\ left.capacity \in Nat
    BY DEF StoreInv, DiskInv, TypeInv, BoundsKept, Lefts
  <1>2. /\ Cardinality(disk.yanks) <= Cardinality(disk.versions)
        /\ Cardinality(disk.yanks) \in Nat /\ Cardinality(disk.versions) \in Nat
    BY <1>1, FS_Subset, FS_CardinalityType
  <1>3. Cardinality(disk.yanks) <= left.capacity
    BY <1>1, <1>2
  <1>4. QED
    BY <1>1, <1>3 DEF YanksExplained, WithinLimits

\* Without a marker an intact index is that of the tree.
LEMMA IntactListed ==
    ASSUME StoreInv, disk.pending = {}, disk.pointer # {}
    PROVE  Visible = Listed
  BY DEF StoreInv, DiskInv

LEMMA EnsureSafe ==
    ASSUME StoreInv, NEW w \in Worker, Ensure(w)
    PROVE  StoreInv'
  <1>1. worker \in [Worker -> Workers] /\ Worthy(worker[w])
    BY ThreadFacts
  <1>2. UNCHANGED <<disk, durable, up, history, left>> /\ worker[w].at = "ensure"
    BY DEF Ensure, Reads, At
  <1>3. Still /\ left'.unsynced = left.unsynced
    BY <1>2, StillFacts
  <1>4. CASE disk.pending = {} /\ Intact
    <2>1. GoWith(w, "done", disk.pointer) /\ Visible = Listed /\ disk.pointer # {}
      BY <1>4, IntactListed DEF Ensure, Intact
    <2>2. disk.pointer \in SUBSET Generation
      BY DEF StoreInv, TypeInv, Trees
    <2>3. PICK a \in Workers : /\ Moves(w, a) /\ Like(a, worker[w]) /\ a.at = "done"
                               /\ a.rec = worker[w].rec /\ a.gen = disk.pointer
      BY <1>1, <2>1, <2>2, GoWithFacts DEF Labels
    <2>4. Shape(a) /\ Holds(a)
      BY <1>1, <1>2, <2>1, <2>3 DEF Worthy, Shape, Holds, Settled, Storing, Before, Locked, Like,
         Labels
    <2>5. QED
      BY <1>2, <1>3, <2>3, <2>4, LockedStep DEF Lagging, Locked, Labels
  <1>5. CASE ~(disk.pending = {} /\ Intact)
    <2>1. PICK label \in {"discard", "scan"} :
             /\ Go(w, label)
             /\ label = "scan" => disk.pending # {} \/ disk.pointer = {}
      BY <1>5 DEF Ensure
    <2>2. PICK a \in Workers : /\ Moves(w, a) /\ Like(a, worker[w]) /\ a.at = label
                               /\ a.rec = worker[w].rec
      BY <1>1, <2>1, GoFacts DEF Labels
    <2>3. Shape(a) /\ Holds(a)
      BY <1>1, <1>2, <2>1, <2>2 DEF Worthy, Shape, Holds, Settled, Storing, Before, Locked, Like,
         Labels
    <2>4. QED
      BY <1>2, <1>3, <2>1, <2>2, <2>3, LockedStep DEF Lagging, Locked, Labels
  <1>6. QED
    BY <1>4, <1>5

LEMMA ScanSafe ==
    ASSUME StoreInv, NEW w \in Worker, Scan(w)
    PROVE  StoreInv'
  <1>1. worker \in [Worker -> Workers] /\ Worthy(worker[w])
    BY ThreadFacts
  <1>2. UNCHANGED <<disk, durable, history, left>> /\ worker[w].at = "scan"
    BY DEF Scan, At
  <1>3. Still /\ left'.unsynced = left.unsynced
    BY <1>2, StillFacts
  <1>4. YanksExplained /\ disk \in Trees
    BY LimitFacts DEF StoreInv, TypeInv
  <1>5. worker[w].rec /\ (disk.pending # {} \/ disk.pointer = {})
    BY <1>1, <1>2 DEF Worthy, Shape, Holds
  <1>6. CASE disk.versions = {} /\ disk.pointer # {}
    <2>1. Go(w, "discard") /\ up' = up
      BY <1>6 DEF Scan
    <2>2. PICK a \in Workers : /\ Moves(w, a) /\ Like(a, worker[w]) /\ a.at = "discard"
                               /\ a.rec = worker[w].rec
      BY <1>1, <2>1, GoFacts DEF Labels
    <2>3. Shape(a) /\ Holds(a)
      BY <1>1, <1>2, <2>2 DEF Worthy, Shape, Holds, Settled, Storing, Before, Locked, Like,
         Labels
    <2>4. QED
      BY <1>2, <1>3, <2>1, <2>2, <2>3, LockedStep DEF Lagging, Locked, Labels
  <1>7. CASE disk.versions = {} /\ disk.pointer = {}
    <2>1. GoWith(w, "unmark", {}) /\ up' = up /\ {} \in SUBSET Generation
      BY <1>7 DEF Scan
    <2>2. PICK a \in Workers : /\ Moves(w, a) /\ Like(a, worker[w]) /\ a.at = "unmark"
                               /\ a.rec = worker[w].rec /\ a.gen = {}
      BY <1>1, <2>1, GoWithFacts DEF Labels
    <2>3. Visible = Listed
      BY <1>7 DEF Visible, Listed
    <2>4. Shape(a) /\ Holds(a)
      BY <1>1, <1>2, <1>5, <1>7, <2>2, <2>3 DEF Worthy, Shape, Holds, Settled, Storing, Before,
         Locked, Like, Labels
    <2>5. QED
      BY <1>2, <1>3, <2>1, <2>2, <2>4, LockedStep DEF Lagging, Locked, Labels
  <1>8. CASE disk.versions # {} /\ disk.versions \in left.fits
    <2>1. GoWith(w, "persist", {Listed}) /\ up' = up
      BY <1>4, <1>8, LimitFacts DEF Scan, Listed
    <2>2. {Listed} \in SUBSET Generation
      BY <1>4 DEF Listed, Generation, Trees
    <2>3. PICK a \in Workers : /\ Moves(w, a) /\ Like(a, worker[w]) /\ a.at = "persist"
                               /\ a.rec = worker[w].rec /\ a.gen = {Listed}
      BY <1>1, <2>1, <2>2, GoWithFacts DEF Labels
    <2>4. Shape(a) /\ Holds(a)
      BY <1>1, <1>2, <1>5, <2>3 DEF Worthy, Shape, Holds, Settled, Storing, Before, Locked,
         Like, Labels
    <2>5. QED
      BY <1>2, <1>3, <2>1, <2>3, <2>4, LockedStep DEF Lagging, Locked, Labels
  <1>9. CASE disk.versions # {} /\ disk.versions \notin left.fits
    <2>1. Refuse(w)
      BY <1>9, LimitFacts DEF Scan
    <2>2. QED
      BY <1>2, <1>3, <1>9, <2>1, RefuseStep DEF Lagging
  <1>10. QED
    BY <1>6, <1>7, <1>8, <1>9

LEMMA MisreadSafe ==
    ASSUME StoreInv, NEW w \in Worker, Misread(w)
    PROVE  StoreInv'
  <1>1. worker \in [Worker -> Workers] /\ Worthy(worker[w])
    BY ThreadFacts
  <1>2. /\ UNCHANGED <<disk, durable, up, history>> /\ Spend("faults")
        /\ worker[w].at \in {"pointer", "files", "ensure", "audit"}
    BY DEF Misread
  <1>3. Still
    BY <1>2, StillFacts
  <1>4. PICK label \in {"lock", "discard", "ensure"} :
           /\ Go(w, label)
           /\ label = "lock" <=> worker[w].at \in {"pointer", "files"}
    BY <1>2 DEF Misread, At
  <1>5. PICK a \in Workers : /\ Moves(w, a) /\ Like(a, worker[w]) /\ a.at = label
                             /\ a.rec = worker[w].rec
    BY <1>1, <1>4, GoFacts DEF Labels
  <1>6. Shape(a) /\ Holds(a)
    BY <1>1, <1>2, <1>4, <1>5 DEF Worthy, Shape, Holds, Settled, Storing, Before, Locked, Like,
       Labels
  <1>7. CASE label = "lock"
    <2>1. Worthy(a) /\ a.at \notin Locked
      BY <1>5, <1>6, <1>7 DEF Worthy, Honest, Keeps, Locked
    <2>2. QED
      BY <1>2, <1>3, <1>5, <2>1, StayStep DEF Lagging
  <1>8. CASE label # "lock"
    BY <1>2, <1>3, <1>4, <1>5, <1>6, <1>8, LockedStep DEF Lagging, Locked, Labels
  <1>9. QED
    BY <1>7, <1>8

\* Sets that may be committed are counted by the index and the markers.
LEMMA CapacityFacts ==
    ASSUME StoreInv, Cardinality(Listed) + Cardinality(disk.yanks) < left.capacity
    PROVE  Cardinality(disk.versions) < left.capacity
  <1>1. IsFiniteSet(disk.versions) /\ disk.yanks \subseteq disk.versions
    BY DEF StoreInv, DiskInv
  <1>2. /\ IsFiniteSet(Listed) /\ IsFiniteSet(disk.yanks)
        /\ Listed \cap disk.yanks = {} /\ Listed \cup disk.yanks = disk.versions
    BY <1>1, FS_Subset DEF Listed
  <1>3. /\ Cardinality(disk.versions) = Cardinality(Listed) + Cardinality(disk.yanks)
                                       - Cardinality(Listed \cap disk.yanks)
    BY <1>2, FS_Union
  <1>4. Cardinality(Listed \cap disk.yanks) = 0
    BY <1>2, FS_EmptySet
  <1>5. Cardinality(Listed) \in Nat /\ Cardinality(disk.yanks) \in Nat
    BY <1>2, FS_CardinalityType
  <1>6. QED
    BY <1>3, <1>4, <1>5

\* A mutation leaves ensure_signed_index_locked with its candidate.
LEMMA CandidateFacts ==
    ASSUME worker \in [Worker -> Workers], NEW w \in Worker, NEW g \in Generation,
           worker' = [worker EXCEPT ![w].at = "persist", ![w].rec = FALSE, ![w].gen = {g}]
    PROVE  \E a \in Workers : /\ Moves(w, a) /\ Like(a, worker[w]) /\ a.at = "persist"
                              /\ a.rec = FALSE /\ a.gen = {g}
  <1>1. PICK b : b = worker[w]
    OBVIOUS
  <1>2. PICK no \in BOOLEAN : no = FALSE
    OBVIOUS
  <1>3. PICK a : a = [b EXCEPT !.at = "persist", !.rec = no, !.gen = {g}]
    OBVIOUS
  <1>4. b \in Workers
    BY <1>1
  <1>5. /\ a \in Workers /\ Like(a, b) /\ a.at = "persist" /\ a.rec = no /\ a.gen = {g}
    BY <1>3, <1>4 DEF Workers, Like, Labels
  <1>6. worker' = [worker EXCEPT ![w] = a]
    BY <1>1, <1>2, <1>3
  <1>7. QED
    BY <1>1, <1>2, <1>5, <1>6 DEF Moves

LEMMA CandidateSafe ==
    ASSUME StoreInv, NEW w \in Worker, NEW g \in Generation, Still, up' = up,
           left'.unsynced = left.unsynced,
           worker' = [worker EXCEPT ![w].at = "persist", ![w].rec = FALSE, ![w].gen = {g}],
           worker[w].at \in {"prepare", "decide"}, g = Target(worker[w]), MayCommit(worker[w])
    PROVE  StoreInv'
  <1>1. worker \in [Worker -> Workers] /\ Worthy(worker[w])
    BY ThreadFacts
  <1>2. PICK a \in Workers : /\ Moves(w, a) /\ Like(a, worker[w]) /\ a.at = "persist"
                             /\ a.rec = FALSE /\ a.gen = {g}
    BY <1>1, CandidateFacts
  <1>3. Visible = Listed
    BY <1>1 DEF Worthy, Holds, Settled
  <1>4. Target(a) = g /\ MayCommit(a)
    BY <1>2 DEF Target, MayCommit, Like
  <1>5. Holds(a)
    BY <1>1, <1>2, <1>3, <1>4 DEF Worthy, Holds, Settled, Storing, Before
  <1>6. Shape(a)
    BY <1>1, <1>2 DEF Worthy, Shape, Like, Locked
  <1>7. QED
    BY <1>2, <1>5, <1>6, LockedStep DEF Lagging, Locked, Labels

LEMMA PrepareSafe ==
    ASSUME StoreInv, NEW w \in Worker, Prepare(w)
    PROVE  StoreInv'
  <1>1. worker \in [Worker -> Workers] /\ Worthy(worker[w]) /\ worker[w] \in Workers
    BY ThreadFacts
  <1>2. UNCHANGED <<disk, durable, history, left>> /\ worker[w].at = "prepare"
    BY DEF Prepare, At
  <1>3. Still /\ left'.unsynced = left.unsynced
    BY <1>2, StillFacts
  <1>4. /\ worker[w].kind = "publish" /\ worker[w].v \notin disk.versions
        /\ UNION worker[w].gen = Listed
    BY <1>1, <1>2 DEF Worthy, Shape, Holds, Settled, Visible
  <1>5. CASE Fail(w)
    BY <1>2, <1>3, <1>5, FailStep DEF Lagging
  <1>6. CASE ~Fail(w)
    <2>1. /\ ~(Cardinality(Listed) + Cardinality(disk.yanks) >= left.capacity) /\ up' = up
          /\ Listed \cup {worker[w].v} \in left.fits
          /\ worker' = [worker EXCEPT ![w].at = "persist", ![w].rec = FALSE,
                                      ![w].gen = {Listed \cup {worker[w].v}}]
      BY <1>4, <1>6 DEF Prepare
    <2>2. Listed \cup {worker[w].v} \in Generation
      BY <1>1 DEF Listed, Generation, Workers, StoreInv, TypeInv, Trees
    <2>3. Cardinality(Listed) + Cardinality(disk.yanks) < left.capacity
      <3>1. IsFiniteSet(disk.versions) /\ disk.yanks \subseteq disk.versions
        BY DEF StoreInv, DiskInv
      <3>2. IsFiniteSet(Listed) /\ IsFiniteSet(disk.yanks)
        BY <3>1, FS_Subset DEF Listed
      <3>3. Cardinality(Listed) \in Nat /\ Cardinality(disk.yanks) \in Nat
        BY <3>2, FS_CardinalityType
      <3>4. left.capacity \in Nat
        BY DEF StoreInv, TypeInv, BoundsKept, Lefts
      <3>5. QED
        BY <2>1, <3>3, <3>4
    <2>4. MayCommit(worker[w])
      BY <1>4, <2>1, <2>3, CapacityFacts DEF MayCommit
    <2>5. Listed \cup {worker[w].v} = Target(worker[w])
      BY <1>4 DEF Target
    <2>6. QED
      BY <1>2, <1>3, <2>1, <2>2, <2>4, <2>5, CandidateSafe
  <1>7. QED
    BY <1>5, <1>6

LEMMA RecoveredSafe ==
    ASSUME StoreInv, NEW w \in Worker, Recovered(w)
    PROVE  StoreInv'
  <1>1. worker \in [Worker -> Workers] /\ Worthy(worker[w]) /\ worker[w] \in Workers
    BY ThreadFacts
  <1>2. UNCHANGED <<disk, durable, history, left>> /\ worker[w].at = "done" /\ worker[w].rec
    BY DEF Recovered, At
  <1>3. Still /\ left'.unsynced = left.unsynced
    BY <1>2, StillFacts
  <1>4. /\ Visible = Listed /\ worker[w].gen = disk.pointer
        /\ worker[w].kind \in {"get", "audit", "publish", "yank"}
    BY <1>1, <1>2 DEF Worthy, Holds, Settled, Workers
  <1>5. CASE worker[w].kind = "audit"
    <2>1. up' = "up" /\ worker' = [worker EXCEPT ![w] = Idle]
      BY <1>5 DEF Recovered
    <2>2. Moves(w, Idle)
      BY <2>1, IdleFacts DEF Moves
    <2>3. Quiet(w, Idle)
      BY <1>3, <2>2, StillQuiet
    <2>4. LockNext(w, Idle)
      BY <1>2, <1>5, <2>1, LockEnds
    <2>5. QED
      BY <1>2, <1>4, <2>1, <2>3, <2>4, IdleWorthy, QuietStep DEF Lagging
  <1>6. CASE worker[w].kind = "get"
    <2>1. Go(w, "served") /\ up' = up
      BY <1>6 DEF Recovered, Go
    <2>2. PICK a \in Workers : /\ Moves(w, a) /\ Like(a, worker[w]) /\ a.at = "served"
                               /\ a.rec = worker[w].rec /\ a.gen = worker[w].gen
      BY <1>1, <2>1, GoFacts DEF Labels
    <2>3. Shape(a) /\ Holds(a)
      BY <1>1, <1>2, <1>6, <2>2 DEF Worthy, Shape, Holds, Settled, Storing, Before, Locked, Like
    <2>4. UNION a.gen = disk.versions \ disk.yanks
      BY <1>4, <2>2 DEF Visible, Listed
    <2>5. /\ acked \cup shown \subseteq disk.versions /\ disk.yanks \subseteq yanking
          /\ tomb \subseteq disk.yanks
      BY DEF StoreInv, DiskInv
    <2>6. Honest(a)
      <3>1. a.must \subseteq acked \cup shown /\ a.mustNot \subseteq tomb
        BY <2>3 DEF Shape
      <3>2. a.must \ yanking \subseteq UNION a.gen
        BY <2>4, <2>5, <3>1
      <3>3. (UNION a.gen) \cap a.mustNot = {}
        BY <2>4, <2>5, <3>1
      <3>4. \A g \in disk.pointer : (UNION a.gen) \ yanking \subseteq g
        BY <1>4, <2>2 DEF StoreInv, TypeInv
      <3>5. QED
        BY <2>4, <3>2, <3>3, <3>4 DEF Honest
    <2>7. ~left.unsynced => Keeps(a)
      <3>1. ~left.unsynced => UNION disk.pointer \subseteq durable.versions
        BY DEF StoreInv, DurableInv, Survives
      <3>2. QED
        BY <1>4, <2>2, <3>1 DEF Keeps
    <2>8. QED
      BY <1>2, <1>3, <2>1, <2>2, <2>3, <2>6, <2>7, StayStep DEF Lagging, Worthy, Locked
  <1>7. CASE worker[w].kind \in {"publish", "yank"}
    <2>1. PICK label \in {"prepare", "decide"} :
             /\ Go(w, label) /\ up' = up
             /\ IF worker[w].kind = "publish"
                THEN label = "prepare" /\ worker[w].v \notin disk.versions
                ELSE label = "decide"
      BY <1>7, <1>2 DEF Recovered, Go
    <2>2. PICK a \in Workers : /\ Moves(w, a) /\ Like(a, worker[w]) /\ a.at = label
                               /\ a.rec = worker[w].rec /\ a.gen = worker[w].gen
      BY <1>1, <2>1, GoFacts DEF Labels
    <2>3. Shape(a) /\ Holds(a)
      BY <1>1, <1>2, <1>4, <1>7, <2>1, <2>2 DEF Worthy, Shape, Holds, Settled, Storing, Before,
         Locked, Like, Labels
    <2>4. QED
      BY <1>2, <1>3, <2>1, <2>2, <2>3, LockedStep DEF Lagging, Locked, Labels
  <1>8. QED
    BY <1>4, <1>5, <1>6, <1>7

LEMMA AuditSafe ==
    ASSUME StoreInv, NEW w \in Worker, Audit(w)
    PROVE  StoreInv'
  <1>1. worker \in [Worker -> Workers] /\ Worthy(worker[w])
    BY ThreadFacts
  <1>2. UNCHANGED <<disk, durable, history, left>> /\ worker[w].at = "audit"
    BY DEF Audit, At
  <1>3. Still /\ left'.unsynced = left.unsynced
    BY <1>2, StillFacts
  <1>4. YanksExplained /\ disk.pointer \in SUBSET Generation
    BY LimitFacts DEF StoreInv, TypeInv, Trees
  <1>5. worker[w].kind = "audit" /\ worker[w].rec
    BY <1>1, <1>2 DEF Worthy, Shape
  <1>6. CASE ~(disk.pending = {} /\ Intact)
    <2>1. Go(w, "ensure") /\ up' = up
      BY <1>4, <1>6 DEF Audit
    <2>2. PICK a \in Workers : /\ Moves(w, a) /\ Like(a, worker[w]) /\ a.at = "ensure"
                               /\ a.rec = worker[w].rec
      BY <1>1, <2>1, GoFacts DEF Labels
    <2>3. Shape(a) /\ Holds(a)
      BY <1>1, <1>2, <2>2 DEF Worthy, Shape, Holds, Settled, Storing, Before, Locked, Like,
         Labels
    <2>4. QED
      BY <1>2, <1>3, <2>1, <2>2, <2>3, LockedStep DEF Lagging, Locked, Labels
  <1>7. CASE disk.pending = {} /\ Intact /\ disk.versions \in left.fits
    <2>1. Visible = Listed /\ disk.pointer # {}
      BY <1>7, IntactListed DEF Intact
    <2>2. Visible \cap disk.yanks = {} /\ Visible \cup disk.yanks = disk.versions
      BY <1>4, <2>1 DEF Listed, YanksExplained
    <2>3. GoWith(w, "clean", disk.pointer) /\ up' = up
      BY <1>4, <1>7, <2>2, LimitFacts DEF Audit, Accounted, Visible
    <2>4. PICK a \in Workers : /\ Moves(w, a) /\ Like(a, worker[w]) /\ a.at = "clean"
                               /\ a.rec = worker[w].rec /\ a.gen = disk.pointer
      BY <1>1, <1>4, <2>3, GoWithFacts DEF Labels
    <2>5. Shape(a) /\ Holds(a)
      BY <1>1, <1>2, <2>1, <2>4 DEF Worthy, Shape, Holds, Settled, Storing, Before, Locked, Like,
         Labels
    <2>6. QED
      BY <1>2, <1>3, <2>3, <2>4, <2>5, LockedStep DEF Lagging, Locked, Labels
  <1>8. CASE disk.pending = {} /\ Intact /\ disk.versions \notin left.fits
    <2>1. Visible = Listed
      BY <1>8, IntactListed DEF Intact
    <2>2. Visible \cap disk.yanks = {}
      BY <2>1 DEF Listed
    <2>3. Refuse(w)
      BY <1>4, <1>8, <2>2, LimitFacts DEF Audit, Accounted, Visible
    <2>4. QED
      BY <1>2, <1>3, <1>8, <2>3, RefuseStep DEF Lagging
  <1>9. QED
    BY <1>6, <1>7, <1>8

LEMMA RestartSafe ==
    ASSUME StoreInv, NEW w \in Worker, Restart(w)
    PROVE  StoreInv'
  <1>1. UNCHANGED <<disk, durable, history, left>> /\ up = "down" /\ up' = "audit"
    BY DEF Restart
  <1>2. Still /\ left'.unsynced = left.unsynced
    BY <1>1, StillFacts
  <1>3. PICK i : i = Idle
    OBVIOUS
  <1>4. i \in Workers /\ i.gen = {} /\ i.must = {} /\ i.mustNot = {}
    BY <1>3, IdleFacts
  <1>5. PICK yes \in BOOLEAN : yes = TRUE
    OBVIOUS
  <1>6. PICK a : a = [i EXCEPT !.at = "audit", !.kind = "audit", !.rec = yes]
    OBVIOUS
  <1>7. /\ a.at = "audit" /\ a.kind = "audit" /\ a.rec = yes /\ a \in Workers
        /\ a.must = {} /\ a.mustNot = {}
    BY <1>4, <1>6 DEF Workers, Labels
  <1>8. Moves(w, a)
    BY <1>3, <1>5, <1>6, <1>7 DEF Restart, Moves
  <1>9. Quiet(w, a)
    BY <1>2, <1>8, StillQuiet
  <1>10. \A u \in Worker : worker[u].at = "idle"
    BY <1>1 DEF StoreInv, LockInv
  <1>11. LockNext(w, a)
    BY <1>1, <1>7, <1>10 DEF LockNext, Locked
  <1>12. Shape(a) /\ Holds(a)
    BY <1>5, <1>7 DEF Shape, Holds, Settled, Storing, Before, Locked, Labels
  <1>13. Worthy(a)
    BY <1>7, <1>12, LockedWorthy DEF Locked, Labels
  <1>14. QED
    BY <1>1, <1>9, <1>10, <1>11, <1>13, QuietStep DEF Lagging

-----------------------------------------------------------------------------
(* Stored generations and failures *)

LEMMA GensSame ==
    ASSUME disk \in Trees, NEW x \in SUBSET Generation, NEW y \in SUBSET Generation,
           disk' = [disk EXCEPT !.gens = x, !.broken = y]
    PROVE  SameTree
  BY DEF SameTree, Trees

\* The holder goes on, with nothing changed but stored generations.
LEMMA StoresStep ==
    ASSUME StoreInv, NEW w \in Worker, NEW label, Go(w, label), Still, up' = up,
           left'.unsynced \/ worker[w].at \notin Lagging,
           \/ worker[w].at = "persist" /\ label = "persisted"
           \/ /\ worker[w].at \in {"unmark", "unmarked", "clean", "cleaned"}
              /\ label \in {"clean", "cleaned", "done"}
    PROVE  StoreInv'
  <1>1. worker \in [Worker -> Workers] /\ Worthy(worker[w])
    BY ThreadFacts
  <1>2. PICK a \in Workers : /\ Moves(w, a) /\ Like(a, worker[w]) /\ a.at = label
                             /\ a.rec = worker[w].rec /\ a.gen = worker[w].gen
    BY <1>1, GoFacts DEF Labels
  <1>3. Target(a) = Target(worker[w]) /\ MayCommit(a) = MayCommit(worker[w])
        /\ Committed(a) = Committed(worker[w])
    BY <1>2 DEF Target, MayCommit, Committed, Like
  <1>4. Shape(a)
    BY <1>1, <1>2 DEF Worthy, Shape, Locked, Like, Labels
  <1>5. Holds(a)
    BY <1>1, <1>2, <1>3 DEF Worthy, Holds, Settled, Storing, Before, Like
  <1>6. QED
    BY <1>2, <1>4, <1>5, LockedStep DEF Locked, Labels

LEMMA PersistSafe ==
    ASSUME StoreInv, NEW w \in Worker, Persist(w)
    PROVE  StoreInv'
  <1>1. worker[w].gen \subseteq Generation
    BY ThreadFacts
  <1>2. UNCHANGED <<durable, history, left>> /\ worker[w].at = "persist"
    BY DEF Persist, At
  <1>3. BoundsKept /\ disk \in Trees
    BY DEF StoreInv, TypeInv
  <1>4. CASE Fail(w) /\ UNCHANGED disk
    <2>1. Still
      BY <1>2, <1>4, StillFacts
    <2>2. QED
      BY <1>2, <1>4, <2>1, FailStep DEF Lagging
  <1>5. CASE /\ disk' = [disk EXCEPT !.gens = @ \cup worker[w].gen]
             /\ Go(w, "persisted") /\ UNCHANGED up
    <2>1. PICK x : x = disk.gens \cup worker[w].gen
      OBVIOUS
    <2>2. x \in SUBSET Generation /\ disk.broken \in SUBSET Generation
      BY <1>1, <1>3, <2>1 DEF Trees
    <2>3. SameTree
      BY <1>3, <1>5, <2>1, <2>2 DEF SameTree, Trees
    <2>4. Still
      BY <1>2, <1>3, <2>3, BoundFacts DEF Still
    <2>5. QED
      BY <1>2, <1>5, <2>4, StoresStep DEF Lagging
  <1>6. QED
    BY <1>4, <1>5 DEF Persist

LEMMA CleanSafe ==
    ASSUME StoreInv, NEW w \in Worker, Clean(w) \/ CleanFails(w)
    PROVE  StoreInv'
  <1>1. BoundsKept /\ disk \in Trees
    BY DEF StoreInv, TypeInv
  <1>2. UNCHANGED <<durable, history>> /\ worker[w].at = "clean"
    BY DEF Clean, CleanFails, Writes, At
  <1>3. CASE Clean(w)
    <2>1. PICK x : x = disk.gens \cap worker[w].gen
      OBVIOUS
    <2>2. PICK y : y = disk.broken \cap worker[w].gen
      OBVIOUS
    <2>3. x \in SUBSET Generation /\ y \in SUBSET Generation
      BY <1>1, <2>1, <2>2 DEF Trees
    <2>4. SameTree
      BY <1>1, <1>3, <2>1, <2>2, <2>3, GensSame DEF Clean
    <2>5. Still /\ up' = up
      BY <1>1, <1>2, <1>3, <2>4, BoundFacts DEF Still, Clean, Writes
    <2>6. PICK label \in {"done", "cleaned"} : Go(w, label)
      BY <1>3 DEF Clean
    <2>7. QED
      BY <1>2, <2>5, <2>6, StoresStep DEF Lagging
  <1>4. CASE CleanFails(w)
    <2>1. PICK g \in disk.gens \ worker[w].gen :
             disk' = [disk EXCEPT !.gens = @ \ {g}, !.broken = @ \cup {g}]
      BY <1>4 DEF CleanFails
    <2>2. PICK x : x = disk.gens \ {g}
      OBVIOUS
    <2>3. PICK y : y = disk.broken \cup {g}
      OBVIOUS
    <2>4. x \in SUBSET Generation /\ y \in SUBSET Generation
      BY <1>1, <2>1, <2>2, <2>3 DEF Trees
    <2>5. SameTree
      BY <1>1, <2>1, <2>2, <2>3, <2>4, GensSame
    <2>6. Still
      BY <1>1, <1>2, <1>4, <2>5, BoundFacts DEF Still, CleanFails
    <2>7. CASE Fail(w)
      BY <1>2, <2>6, <2>7, FailStep DEF Lagging
    <2>8. CASE Go(w, "done") /\ UNCHANGED up
      BY <1>2, <2>6, <2>8, StoresStep DEF Lagging
    <2>9. QED
      BY <1>4, <2>7, <2>8 DEF CleanFails
  <1>5. QED
    BY <1>3, <1>4

\* The generation of a discarded pointer goes, or half of it.
LEMMA DropSafe ==
    ASSUME StoreInv, NEW w \in Worker, Drop(w) \/ DropFails(w)
    PROVE  StoreInv'
  <1>1. /\ BoundsKept /\ disk \in Trees /\ worker \in [Worker -> Workers]
        /\ Worthy(worker[w]) /\ worker[w].gen \subseteq Generation
    BY ThreadFacts DEF StoreInv, TypeInv
  <1>2. UNCHANGED <<durable, history>> /\ worker[w].at = "dropping"
    BY DEF Drop, DropFails, Writes, At
  <1>3. PICK x : x = disk.gens \ worker[w].gen
    OBVIOUS
  <1>4. CASE Drop(w)
    <2>1. PICK y : y = disk.broken \ worker[w].gen
      OBVIOUS
    <2>2. x \in SUBSET Generation /\ y \in SUBSET Generation
      BY <1>1, <1>3, <2>1 DEF Trees
    <2>3. SameTree
      BY <1>1, <1>3, <1>4, <2>1, <2>2, GensSame DEF Drop
    <2>4. Still /\ up' = up
      BY <1>1, <1>2, <1>4, <2>3, BoundFacts DEF Still, Drop, Writes
    <2>5. Go(w, "discarded")
      BY <1>4 DEF Drop
    <2>6. PICK a \in Workers : /\ Moves(w, a) /\ Like(a, worker[w]) /\ a.at = "discarded"
                               /\ a.rec = worker[w].rec
      BY <1>1, <2>5, GoFacts DEF Labels
    <2>7. Shape(a) /\ Holds(a)
      BY <1>1, <1>2, <2>6 DEF Worthy, Shape, Holds, Settled, Storing, Before, Locked, Like,
         Labels
    <2>8. QED
      BY <1>2, <2>4, <2>6, <2>7, LockedStep DEF Lagging, Locked, Labels
  <1>5. CASE DropFails(w)
    <2>1. PICK y : y = disk.broken \cup worker[w].gen
      OBVIOUS
    <2>2. x \in SUBSET Generation /\ y \in SUBSET Generation
      BY <1>1, <1>3, <2>1 DEF Trees
    <2>3. SameTree
      BY <1>1, <1>3, <1>5, <2>1, <2>2, GensSame DEF DropFails
    <2>4. Still /\ Fail(w)
      BY <1>1, <1>2, <1>5, <2>3, BoundFacts DEF Still, DropFails
    <2>5. QED
      BY <1>2, <2>4, FailStep DEF Lagging
  <1>6. QED
    BY <1>4, <1>5

LEMMA OperationFailsSafe ==
    ASSUME StoreInv, NEW w \in Worker, OperationFails(w)
    PROVE  StoreInv'
  <1>1. worker \in [Worker -> Workers] /\ Worthy(worker[w])
    BY ThreadFacts
  <1>2. /\ UNCHANGED <<disk, durable, history>> /\ Spend("faults")
        /\ worker[w].at # "idle" /\ worker[w].at \notin Lagging
    BY DEF OperationFails, Locked, Syncing, Lagging
  <1>3. Still
    BY <1>2, StillFacts
  <1>4. CASE Maintenance(w) /\ worker[w].gen # {}
    <2>1. PICK label \in {"clean", "done"} : Go(w, label) /\ up' = up
      BY <1>4 DEF OperationFails, Maintenance, At
    <2>2. QED
      BY <1>2, <1>3, <1>4, <2>1, StoresStep DEF Maintenance
  <1>5. CASE At(w, "commit") /\ worker[w].kind = "publish" /\ ~Maintenance(w)
    <2>1. Go(w, "abort") /\ up' = up
      BY <1>5 DEF OperationFails
    <2>2. PICK a \in Workers : /\ Moves(w, a) /\ Like(a, worker[w]) /\ a.at = "abort"
                               /\ a.rec = worker[w].rec /\ a.gen = worker[w].gen
      BY <1>1, <2>1, GoFacts DEF Labels
    <2>3. Target(a) = Target(worker[w]) /\ MayCommit(a) = MayCommit(worker[w])
      BY <2>2 DEF Target, MayCommit, Like
    <2>4. Shape(a)
      BY <1>1, <1>5, <2>2 DEF Worthy, Shape, Locked, Like, Labels, At
    <2>5. Holds(a)
      BY <1>1, <1>5, <2>2, <2>3 DEF Worthy, Shape, Holds, Settled, Storing, Before, Like, At
    <2>6. QED
      BY <1>2, <1>3, <1>5, <2>1, <2>2, <2>4, <2>5, LockedStep DEF Locked, Labels, At
  <1>6. CASE /\ ~(Maintenance(w) /\ worker[w].gen # {})
             /\ ~(At(w, "commit") /\ worker[w].kind = "publish")
    <2>1. Fail(w)
      BY <1>6 DEF OperationFails
    <2>2. QED
      BY <1>2, <1>3, <2>1, FailStep
  <1>7. QED
    BY <1>4, <1>5, <1>6 DEF Maintenance, At

-----------------------------------------------------------------------------
(* The holder of the lock changes the tree *)

\* Threads without the lock do not mind: versions are only added, and a new
\* pointer names all that is not being yanked.
LEMMA OtherStep ==
    ASSUME StoreInv, NEW b, b.at \notin Locked, Worthy(b),
           UNCHANGED <<acked, tomb, shown, yanking>>,
           left'.unsynced = left.unsynced,
           disk.versions \subseteq disk'.versions, durable.versions \subseteq durable'.versions,
           \A g \in disk'.pointer : g \in disk.pointer \/ disk.versions \ yanking \subseteq g
    PROVE  Worthy(b)'
  <1>1. Shape(b)'
    BY DEF Worthy, Shape
  <1>2. Holds(b)'
    BY DEF Holds, Settled, Storing, Before, Locked, Labels
  <1>3. Honest(b)'
    <2>1. SUFFICES ASSUME b.at \in {"files", "served"} PROVE Honest(b)'
      BY DEF Honest
    <2>2. /\ UNION b.gen \subseteq disk.versions /\ b.must \ yanking \subseteq UNION b.gen
          /\ (UNION b.gen) \cap b.mustNot = {}
          /\ \A g \in disk.pointer : (UNION b.gen) \ yanking \subseteq g
      BY <2>1 DEF Worthy, Honest
    <2>3. ASSUME NEW g \in disk'.pointer PROVE (UNION b.gen) \ yanking' \subseteq g
      BY <2>2, <2>3
    <2>4. QED
      BY <2>2, <2>3 DEF Honest
  <1>4. ~left'.unsynced => Keeps(b)'
    BY DEF Worthy, Keeps, Locked, Labels
  <1>5. QED
    BY <1>1, <1>2, <1>3, <1>4 DEF Worthy

\* The pointer and the marker name at most one generation and one version.
OneEach(d) ==
    /\ d.pointer = {} \/ \E g \in Generation : d.pointer = {g}
    /\ d.pending = {} \/ \E v \in Version : d.pending = {v}

LEMMA WriteStep ==
    ASSUME StoreInv, NEW w \in Worker, NEW a, Moves(w, a), Like(a, worker[w]),
           worker[w].at \in Locked, a.at \in Locked,
           UNCHANGED <<durable, up, history, left>>,
           disk' \in Trees, OneEach(disk)', DiskInv', Shape(a)', Holds(a)',
           disk.versions \subseteq disk'.versions, disk.yanks \subseteq disk'.yanks,
           \A g \in disk'.pointer : g \in disk.pointer \/ disk.versions \ yanking \subseteq g,
           ~left.unsynced => Lags' /\ Survives' /\ Keeps(a)'
    PROVE  StoreInv'
  <1>1. /\ worker \in [Worker -> Workers] /\ TypeInv /\ DurableInv
        /\ UNCHANGED <<acked, tomb, shown, yanking>> /\ left' = left
    BY DEF StoreInv, TypeInv, history
  <1>2. /\ worker' \in [Worker -> Workers] /\ worker'[w] = a
        /\ \A u \in Worker : u # w => worker'[u] = worker[u]
    BY <1>1, MoveFacts
  <1>3. TypeInv'
    BY <1>1, <1>2 DEF TypeInv, OneEach, BoundsKept
  <1>4. LockInv'
    <2>1. LockNext(w, a)
      BY LockSame DEF Like, Locked
    <2>2. QED
      BY <2>1, LockNextInv
  <1>5. ASSUME NEW u \in Worker PROVE Worthy(worker[u])'
    <2>1. CASE u = w
      <3>1. Honest(a)'
        BY DEF Honest, Locked
      <3>2. Worthy(a)'
        BY <1>1, <3>1 DEF Worthy
      <3>3. QED
        BY <3>2, <2>1, <1>2 DEF Worthy, Shape, Holds, Honest, Keeps, Target, MayCommit, Committed
    <2>2. CASE u # w
      <3>1. PICK b : b = worker[u]
        OBVIOUS
      <3>2. Worthy(b) /\ b.at \notin Locked
        BY <2>2, <3>1, ThreadFacts DEF StoreInv, LockInv
      <3>3. Worthy(b)'
        BY <1>1, <3>2, OtherStep
      <3>4. b = worker'[u]
        BY <3>1, <2>2, <1>2
      <3>5. QED
        BY <3>3, <3>4 DEF Worthy, Shape, Holds, Honest, Keeps, Target, MayCommit, Committed
    <2>3. QED
      BY <2>1, <2>2
  <1>6. WorkerInv'
    BY <1>5 DEF WorkerInv, Worthy
  <1>7. DurableInv'
    <2>1. durable'.versions \subseteq disk'.versions /\ durable'.yanks \subseteq disk'.yanks
      BY <1>1 DEF DurableInv
    <2>2. QED
      BY <1>1, <1>5, <2>1 DEF DurableInv, Worthy
  <1>8. QED
    BY <1>3, <1>4, <1>6, <1>7 DEF StoreInv

\* What the holder knows: nothing lags, if it is not about to sync, and which
\* labels the others can have.
LEMMA HolderFacts ==
    ASSUME StoreInv, NEW w \in Worker, worker[w].at \in Locked, ~left.unsynced
    PROVE  /\ Survives
           /\ worker[w].at # "committed" \/ worker[w].kind # "publish" =>
                disk.versions = durable.versions
           /\ worker[w].at # "committed" \/ worker[w].kind # "yank" =>
                disk.yanks = durable.yanks
           /\ worker[w].at \notin {"marked", "unmarked", "aborted"} =>
                disk.pending = durable.pending
           /\ worker[w].at # "switched" => disk.pointer = {} \/ disk.pointer = durable.pointer
  <1>1. Lags /\ Survives
    BY DEF StoreInv, DurableInv
  <1>2. \A u \in Worker : worker[u].at \in Locked => u = w
    BY DEF StoreInv, LockInv
  <1>3. \A u \in Worker : worker[u].at \in Lagging => u = w
    BY <1>2 DEF Lagging, Locked, Labels
  <1>4. QED
    BY <1>1, <1>3 DEF Lags, Lagging

LEMMA MarkSafe ==
    ASSUME StoreInv, NEW w \in Worker, Mark(w)
    PROVE  StoreInv'
  <1>1. worker \in [Worker -> Workers] /\ Worthy(worker[w]) /\ worker[w] \in Workers
    BY ThreadFacts
  <1>2. /\ UNCHANGED <<durable, up, history, left>> /\ worker[w].at = "mark" /\ Go(w, "marked")
        /\ disk' = [disk EXCEPT !.pending = {worker[w].v}]
    BY DEF Mark, Writes, At
  <1>3. PICK a \in Workers : /\ Moves(w, a) /\ Like(a, worker[w]) /\ a.at = "marked"
                             /\ a.rec = worker[w].rec /\ a.gen = worker[w].gen
    BY <1>1, <1>2, GoFacts DEF Labels
  <1>4. worker[w].v \in Version /\ disk \in Trees /\ OneEach(disk)
    BY <1>1 DEF Workers, StoreInv, TypeInv, OneEach
  <1>5. /\ disk' \in Trees /\ disk'.versions = disk.versions /\ disk'.yanks = disk.yanks
        /\ disk'.pointer = disk.pointer /\ disk'.pending = {worker[w].v}
    BY <1>2, <1>4 DEF Trees
  <1>6. UNCHANGED <<acked, tomb, shown, yanking, left, up>>
    BY <1>2 DEF history
  <1>7. OneEach(disk)'
    BY <1>4, <1>5 DEF OneEach
  <1>8. DiskInv'
    BY <1>5, <1>6 DEF StoreInv, DiskInv, Visible, Listed
  <1>9. Shape(a)'
    BY <1>1, <1>2, <1>3, <1>6 DEF Worthy, Shape, Locked, Like, Labels
  <1>10. Holds(a)'
    <2>1. ~a.rec
      BY <1>1, <1>2, <1>3 DEF Worthy, Shape
    <2>2. Visible = Listed /\ a.gen = {Target(a)} /\ MayCommit(a)
      BY <1>1, <1>2, <1>3, <2>1 DEF Worthy, Holds, Before, Storing, Target, MayCommit, Like
    <2>3. (Visible = Listed /\ a.gen = {Target(a)} /\ MayCommit(a))'
      BY <2>2, <1>5, <1>6 DEF Visible, Listed, Target, MayCommit
    <2>4. disk'.pointer = {} => disk'.versions = {}
      BY <1>1, <1>2, <1>3, <1>5, <2>1 DEF Worthy, Holds, Before, Like
    <2>5. QED
      BY <1>3, <1>5, <2>1, <2>3, <2>4 DEF Holds, Settled, Storing, Before
  <1>11. ASSUME ~left.unsynced PROVE Lags' /\ Survives' /\ Keeps(a)'
    <2>1. /\ Survives /\ disk.versions = durable.versions /\ disk.yanks = durable.yanks
          /\ disk.pointer = {} \/ disk.pointer = durable.pointer
          /\ disk.pending = durable.pending
      BY <1>2, <1>11, HolderFacts DEF Locked, Labels
    <2>2. worker'[w].at = "marked"
      BY <1>1, <1>3, MoveFacts
    <2>3. Lags'
      BY <1>2, <1>5, <2>1, <2>2 DEF Lags
    <2>4. Survives'
      BY <1>2, <1>5, <1>6, <2>1 DEF Survives, Listed
    <2>5. Keeps(a)'
      BY <1>3 DEF Keeps
    <2>6. QED
      BY <2>3, <2>4, <2>5
  <1>12. worker[w].at \in Locked /\ a.at \in Locked
    BY <1>2, <1>3 DEF Locked, Labels
  <1>13. QED
    BY <1>2, <1>3, <1>5, <1>7, <1>8, <1>9, <1>10, <1>11, <1>12, WriteStep

LEMMA CommitSafe ==
    ASSUME StoreInv, NEW w \in Worker, Commit(w)
    PROVE  StoreInv'
  <1>1. worker \in [Worker -> Workers] /\ Worthy(worker[w]) /\ worker[w] \in Workers
    BY ThreadFacts
  <1>2. /\ UNCHANGED <<durable, up, history, left>> /\ worker[w].at = "commit"
        /\ Go(w, "committed")
    BY DEF Commit, Writes, At
  <1>3. PICK a \in Workers : /\ Moves(w, a) /\ Like(a, worker[w]) /\ a.at = "committed"
                             /\ a.rec = worker[w].rec /\ a.gen = worker[w].gen
    BY <1>1, <1>2, GoFacts DEF Labels
  <1>4. a.v \in Version /\ disk \in Trees /\ OneEach(disk) /\ DiskInv
    BY <1>3 DEF Workers, StoreInv, TypeInv, OneEach
  <1>5. UNCHANGED <<acked, tomb, shown, yanking, left, up>>
    BY <1>2 DEF history
  <1>6. ~a.rec /\ a.kind \in {"publish", "yank"} /\ (a.kind = "yank" => a.v \in yanking)
    BY <1>1, <1>2, <1>3 DEF Worthy, Shape, Like, Locked, Labels
  <1>7. a.gen = {Target(a)} /\ MayCommit(a) /\ disk.pending # {}
    BY <1>1, <1>2, <1>3, <1>6 DEF Worthy, Holds, Before, Storing, Target, MayCommit, Like
  <1>8. /\ disk' \in Trees /\ disk'.pending = disk.pending /\ disk'.pointer = disk.pointer
        /\ disk'.versions = IF a.kind = "publish" THEN disk.versions \cup {a.v}
                            ELSE disk.versions
        /\ disk'.yanks = IF a.kind = "publish" THEN disk.yanks ELSE disk.yanks \cup {a.v}
    BY <1>3, <1>4 DEF Commit, Trees, Like
  <1>9. OneEach(disk)'
    BY <1>4, <1>8 DEF OneEach
  <1>10. Listed' = Target(a)
    <2>1. CASE a.kind = "publish"
      <3>1. a.v \notin disk.versions /\ disk.yanks \subseteq disk.versions
        BY <1>4, <1>7, <2>1 DEF MayCommit, DiskInv
      <3>2. QED
        BY <1>8, <2>1, <3>1 DEF Listed, Target
    <2>2. CASE a.kind # "publish"
      BY <1>8, <2>2 DEF Listed, Target
    <2>3. QED
      BY <2>1, <2>2
  <1>11. DiskInv'
    <2>1. disk.versions \subseteq disk'.versions /\ disk.yanks \subseteq disk'.yanks
      BY <1>8
    <2>2. disk'.yanks \subseteq disk'.versions /\ disk'.yanks \subseteq yanking'
      BY <1>4, <1>5, <1>6, <1>7, <1>8 DEF DiskInv, MayCommit, Listed
    <2>3. IsFiniteSet(disk'.versions) /\ Cardinality(disk'.versions) <= left'.capacity
      <3>1. CASE a.kind = "publish"
        <4>1. /\ IsFiniteSet(disk.versions) /\ a.v \notin disk.versions
              /\ Cardinality(disk.versions) < left.capacity /\ left.capacity \in Nat
          BY <1>4, <1>7, <3>1 DEF DiskInv, MayCommit, StoreInv, TypeInv, BoundsKept, Lefts
        <4>2. /\ IsFiniteSet(disk.versions \cup {a.v}) /\ Cardinality(disk.versions) \in Nat
              /\ Cardinality(disk.versions \cup {a.v}) = Cardinality(disk.versions) + 1
          BY <4>1, FS_AddElement, FS_CardinalityType
        <4>3. QED
          BY <1>5, <1>8, <3>1, <4>1, <4>2
      <3>2. CASE a.kind # "publish"
        BY <1>4, <1>5, <1>8, <3>2 DEF DiskInv
      <3>3. QED
        BY <3>1, <3>2
    <2>4. Listed' \in left'.fits /\ up' # "refused"
      <3>1. up # "refused"
        BY <1>2 DEF StoreInv, LockInv
      <3>2. Target(a) \in left.fits
        <4>1. CASE a.kind = "publish"
          BY <1>7, <4>1 DEF MayCommit, Target
        <4>2. CASE a.kind # "publish"
          <5>1. Listed \in left.fits /\ left.fits \in Families
            BY <1>4 DEF DiskInv, StoreInv, TypeInv, BoundsKept, Lefts
          <5>2. Target(a) \in SUBSET Listed
            BY <4>2 DEF Target
          <5>3. QED
            BY <5>1, <5>2 DEF Families
        <4>3. QED
          BY <4>1, <4>2
      <3>3. QED
        BY <1>5, <1>10, <3>1, <3>2
    <2>5. QED
      BY <1>4, <1>5, <1>7, <1>8, <2>1, <2>2, <2>3, <2>4 DEF DiskInv
  <1>12. Shape(a)'
    BY <1>1, <1>2, <1>3, <1>5 DEF Worthy, Shape, Locked, Like, Labels
  <1>13. Holds(a)'
    <2>1. Committed(a)'
      BY <1>8 DEF Committed
    <2>2. QED
      BY <1>3, <1>6, <1>7, <1>8, <1>10, <2>1 DEF Holds, Settled, Storing, Before
  <1>14. ASSUME ~left.unsynced PROVE Lags' /\ Survives' /\ Keeps(a)'
    <2>1. /\ Survives /\ disk.versions = durable.versions /\ disk.yanks = durable.yanks
          /\ disk.pointer = {} \/ disk.pointer = durable.pointer
          /\ disk.pending = durable.pending
      BY <1>2, <1>14, HolderFacts DEF Locked, Labels
    <2>2. worker'[w] = a
      BY <1>1, <1>3, MoveFacts
    <2>3. Lags'
      BY <1>2, <1>3, <1>6, <1>8, <2>1, <2>2 DEF Lags
    <2>4. Survives'
      <3>1. disk'.versions \ durable'.yanks \in left'.fits
        <4>1. CASE a.kind = "publish"
          <5>1. disk'.versions \ durable'.yanks = Listed'
            BY <1>2, <1>8, <2>1, <4>1 DEF Listed
          <5>2. QED
            BY <1>11, <5>1 DEF DiskInv
        <4>2. CASE a.kind # "publish"
          <5>1. disk'.versions \ durable'.yanks = Listed
            BY <1>2, <1>8, <2>1, <4>2 DEF Listed
          <5>2. QED
            BY <1>4, <1>5, <5>1 DEF DiskInv
        <4>3. QED
          BY <4>1, <4>2
      <3>2. QED
        BY <1>2, <1>5, <1>7, <1>8, <2>1, <3>1 DEF Survives, MayCommit, Listed
    <2>5. Keeps(a)'
      BY <1>3 DEF Keeps
    <2>6. QED
      BY <2>3, <2>4, <2>5
  <1>15. /\ worker[w].at \in Locked /\ a.at \in Locked
         /\ disk.versions \subseteq disk'.versions /\ disk.yanks \subseteq disk'.yanks
    BY <1>2, <1>3, <1>8 DEF Locked, Labels
  <1>16. QED
    BY <1>2, <1>3, <1>8, <1>9, <1>11, <1>12, <1>13, <1>14, <1>15, WriteStep

LEMMA SwitchSafe ==
    ASSUME StoreInv, NEW w \in Worker, Switch(w)
    PROVE  StoreInv'
  <1>1. worker \in [Worker -> Workers] /\ Worthy(worker[w]) /\ worker[w] \in Workers
    BY ThreadFacts
  <1>2. /\ UNCHANGED <<durable, up, history, left>> /\ worker[w].at = "switch"
        /\ Go(w, "switched") /\ disk' = [disk EXCEPT !.pointer = worker[w].gen]
    BY DEF Switch, Writes, At
  <1>3. PICK a \in Workers : /\ Moves(w, a) /\ Like(a, worker[w]) /\ a.at = "switched"
                             /\ a.rec = worker[w].rec /\ a.gen = worker[w].gen
    BY <1>1, <1>2, GoFacts DEF Labels
  <1>4. disk \in Trees /\ OneEach(disk) /\ DiskInv /\ worker[w].gen \in SUBSET Generation
    BY <1>1 DEF Workers, StoreInv, TypeInv, OneEach
  <1>5. UNCHANGED <<acked, tomb, shown, yanking, left, up>>
    BY <1>2 DEF history
  <1>6. /\ disk' \in Trees /\ disk'.versions = disk.versions /\ disk'.yanks = disk.yanks
        /\ disk'.pending = disk.pending /\ disk'.pointer = a.gen
    BY <1>2, <1>3, <1>4 DEF Trees
  <1>7. /\ a.gen = {Listed} /\ (~a.rec => Committed(a))
        /\ disk.pending # {} \/ (a.rec /\ disk.pointer = {})
    <2>1. CASE worker[w].rec
      BY <1>1, <1>2, <1>3, <2>1 DEF Worthy, Holds, Storing
    <2>2. CASE ~worker[w].rec
      BY <1>1, <1>2, <1>3, <2>2 DEF Worthy, Holds, Committed, Like
    <2>3. QED
      BY <2>1, <2>2
  <1>8. Listed \in Generation
    BY <1>4 DEF Listed, Generation, Trees
  <1>9. OneEach(disk)'
    BY <1>4, <1>6, <1>7, <1>8 DEF OneEach
  <1>10. /\ Visible' = Listed' /\ Listed' = Listed
         /\ \A g \in disk'.pointer : g = disk.versions \ disk.yanks
    BY <1>6, <1>7 DEF Visible, Listed
  <1>11. DiskInv'
    <2>1. \A g \in disk'.pointer :
            (acked' \cup shown') \ yanking' \subseteq g /\ g \cap tomb' = {}
      BY <1>4, <1>5, <1>10 DEF DiskInv
    <2>2. \A g \in disk'.pointer : g \subseteq disk'.versions
      BY <1>6, <1>10
    <2>3. QED
      BY <1>4, <1>5, <1>6, <1>10, <2>1, <2>2 DEF DiskInv
  <1>12. Shape(a)'
    BY <1>1, <1>2, <1>3, <1>5 DEF Worthy, Shape, Locked, Like, Labels
  <1>13. Holds(a)'
    <2>1. ~a.rec => Committed(a)'
      BY <1>6, <1>7 DEF Committed
    <2>2. disk'.pointer # {}
      BY <1>6, <1>7
    <2>3. QED
      BY <1>3, <1>6, <1>10, <2>1, <2>2 DEF Holds, Settled, Storing, Before
  <1>14. ASSUME ~left.unsynced PROVE Lags' /\ Survives' /\ Keeps(a)'
    <2>1. /\ Survives /\ disk.versions = durable.versions /\ disk.yanks = durable.yanks
          /\ disk.pointer = {} \/ disk.pointer = durable.pointer
          /\ disk.pending = durable.pending
      BY <1>2, <1>14, HolderFacts DEF Locked, Labels
    <2>2. worker'[w] = a
      BY <1>1, <1>3, MoveFacts
    <2>3. Lags'
      BY <1>2, <1>3, <1>6, <2>1, <2>2 DEF Lags
    <2>4. Survives'
      <3>1. \A g \in disk'.pointer \cup durable'.pointer : g \subseteq durable'.versions
        BY <1>2, <1>10, <2>1 DEF Survives
      <3>2. QED
        BY <1>2, <1>5, <1>6, <1>7, <2>1, <3>1 DEF Survives
    <2>5. Keeps(a)'
      BY <1>2, <1>3, <1>6, <1>7, <1>10, <2>1 DEF Keeps, Survives
    <2>6. QED
      BY <2>3, <2>4, <2>5
  <1>15. /\ worker[w].at \in Locked /\ a.at \in Locked
         /\ disk.versions \subseteq disk'.versions /\ disk.yanks \subseteq disk'.yanks
         /\ \A g \in disk'.pointer : disk.versions \ yanking \subseteq g
    BY <1>2, <1>3, <1>4, <1>6, <1>10 DEF Locked, Labels, DiskInv
  <1>16. QED
    BY <1>2, <1>3, <1>6, <1>9, <1>11, <1>12, <1>13, <1>14, <1>15, WriteStep

\* The marker goes when the index is that of the tree.
LEMMA UnmarkSafe ==
    ASSUME StoreInv, NEW w \in Worker, Unmark(w) \/ Abort(w)
    PROVE  StoreInv'
  <1>1. worker \in [Worker -> Workers] /\ Worthy(worker[w]) /\ worker[w] \in Workers
    BY ThreadFacts
  <1>2. /\ UNCHANGED <<durable, up, history, left>>
        /\ disk' = [disk EXCEPT !.pending = {}]
    BY DEF Unmark, Abort, Writes
  <1>3. PICK label \in {"clean", "unmarked", "aborted"} :
           /\ Go(w, label)
           /\ IF label = "aborted" THEN worker[w].at = "abort" ELSE worker[w].at = "unmark"
           /\ label = "clean" => disk.pending = {}
    BY DEF Unmark, Abort, At
  <1>4. PICK a \in Workers : /\ Moves(w, a) /\ Like(a, worker[w]) /\ a.at = label
                             /\ a.rec = worker[w].rec /\ a.gen = worker[w].gen
    BY <1>1, <1>3, GoFacts DEF Labels
  <1>5. disk \in Trees /\ OneEach(disk) /\ DiskInv
    BY DEF StoreInv, TypeInv, OneEach
  <1>6. UNCHANGED <<acked, tomb, shown, yanking, left, up>>
    BY <1>2 DEF history
  <1>7. /\ disk' \in Trees /\ disk'.versions = disk.versions /\ disk'.yanks = disk.yanks
        /\ disk'.pending = {} /\ disk'.pointer = disk.pointer
    BY <1>2, <1>5 DEF Trees
  <1>8. /\ Visible = Listed
        /\ label = "aborted" => ~a.rec /\ a.gen = {Target(a)} /\ MayCommit(a)
        /\ label # "aborted" => a.gen = disk.pointer /\ (~a.rec => Committed(a))
        /\ disk.pointer = {} => disk.versions = {}
    <2>1. CASE label = "aborted"
      <3>1. ~worker[w].rec
        BY <1>1, <1>3, <2>1 DEF Worthy, Shape
      <3>2. QED
        BY <1>1, <1>3, <1>4, <2>1, <3>1 DEF Worthy, Holds, Storing, Before, Target, MayCommit, Like
    <2>2. CASE label # "aborted"
      BY <1>1, <1>3, <1>4, <2>2 DEF Worthy, Holds, Settled, Committed, Like
    <2>3. QED
      BY <2>1, <2>2
  <1>9. OneEach(disk)'
    BY <1>5, <1>7 DEF OneEach
  <1>10. Visible' = Listed' /\ Listed' = Listed
    BY <1>7, <1>8 DEF Visible, Listed
  <1>11. DiskInv'
    BY <1>5, <1>6, <1>7, <1>10 DEF DiskInv
  <1>12. Shape(a)'
    BY <1>1, <1>3, <1>4, <1>6 DEF Worthy, Shape, Locked, Like, Labels
  <1>13. Holds(a)'
    <2>1. /\ label = "aborted" => ~a.rec /\ a.gen = {Target(a)'} /\ MayCommit(a)'
          /\ label # "aborted" => a.gen = disk'.pointer /\ (~a.rec => Committed(a)')
      BY <1>6, <1>7, <1>8, <1>10 DEF Committed, Target, MayCommit
    <2>2. QED
      BY <1>3, <1>4, <1>7, <1>8, <1>10, <2>1 DEF Holds, Settled, Storing, Before
  <1>14. ASSUME ~left.unsynced PROVE Lags' /\ Survives' /\ Keeps(a)'
    <2>1. /\ Survives /\ disk.versions = durable.versions /\ disk.yanks = durable.yanks
          /\ disk.pointer = {} \/ disk.pointer = durable.pointer
          /\ disk.pending = durable.pending
      BY <1>3, <1>14, HolderFacts DEF Locked, Labels
    <2>2. worker'[w] = a
      BY <1>1, <1>4, MoveFacts
    <2>3. Lags'
      BY <1>2, <1>3, <1>4, <1>7, <2>1, <2>2 DEF Lags
    <2>4. Survives'
      <3>1. /\ acked' \cup shown' \subseteq durable'.versions /\ tomb' \subseteq durable'.yanks
            /\ disk'.yanks \subseteq durable'.versions
            /\ \A g \in disk'.pointer \cup durable'.pointer : g \subseteq durable'.versions
            /\ disk'.versions \ durable'.yanks \in left'.fits
        BY <1>2, <1>6, <1>7, <2>1 DEF Survives
      <3>2. ASSUME disk'.pointer = {} PROVE UNION durable'.pointer = Listed'
        <4>1. disk'.versions = {} /\ durable'.versions = {}
          BY <1>2, <1>7, <1>8, <2>1, <3>2
        <4>2. \A g \in durable'.pointer : g = {}
          BY <3>1, <4>1
        <4>3. UNION durable'.pointer = {}
          BY <4>2
        <4>4. Listed' = {}
          BY <4>1 DEF Listed
        <4>5. QED
          BY <4>3, <4>4
      <3>3. QED
        BY <3>1, <3>2 DEF Survives
    <2>5. Keeps(a)'
      BY <1>3, <1>4 DEF Keeps
    <2>6. QED
      BY <2>3, <2>4, <2>5
  <1>15. /\ worker[w].at \in Locked /\ a.at \in Locked
    BY <1>3, <1>4 DEF Locked, Labels
  <1>16. QED
    BY <1>2, <1>4, <1>7, <1>9, <1>11, <1>12, <1>13, <1>14, <1>15, WriteStep

LEMMA DiscardSafe ==
    ASSUME StoreInv, NEW w \in Worker, Discard(w)
    PROVE  StoreInv'
  <1>1. worker \in [Worker -> Workers] /\ Worthy(worker[w])
    BY ThreadFacts
  <1>2. /\ UNCHANGED <<durable, up, history, left>> /\ worker[w].at = "discard"
        /\ GoWith(w, "dropping", disk.pointer) /\ disk.pointer \in SUBSET Generation
    BY DEF Discard, Writes, At, StoreInv, TypeInv, Trees
  <1>3. PICK a \in Workers : /\ Moves(w, a) /\ Like(a, worker[w]) /\ a.at = "dropping"
                             /\ a.rec = worker[w].rec
    BY <1>1, <1>2, GoWithFacts DEF Labels
  <1>4. disk \in Trees /\ OneEach(disk) /\ DiskInv
    BY DEF StoreInv, TypeInv, OneEach
  <1>5. UNCHANGED <<acked, tomb, shown, yanking, left, up>>
    BY <1>2 DEF history
  <1>6. /\ disk' \in Trees /\ disk'.versions = disk.versions /\ disk'.yanks = disk.yanks
        /\ disk'.pending = disk.pending /\ disk'.pointer = {}
    BY <1>4 DEF Discard, Trees
  <1>7. OneEach(disk)' /\ Listed' = Listed
    BY <1>4, <1>6 DEF OneEach, Listed
  <1>8. DiskInv'
    BY <1>4, <1>5, <1>6, <1>7 DEF DiskInv
  <1>9. Shape(a)'
    BY <1>1, <1>2, <1>3, <1>5 DEF Worthy, Shape, Locked, Like, Labels
  <1>10. Holds(a)'
    BY <1>3, <1>6 DEF Holds, Settled, Storing, Before
  <1>11. ASSUME ~left.unsynced PROVE Lags' /\ Survives' /\ Keeps(a)'
    <2>1. /\ Survives /\ disk.versions = durable.versions /\ disk.yanks = durable.yanks
          /\ disk.pointer = {} \/ disk.pointer = durable.pointer
          /\ disk.pending = durable.pending
      BY <1>2, <1>11, HolderFacts DEF Locked, Labels
    <2>2. worker'[w] = a
      BY <1>1, <1>3, MoveFacts
    <2>3. Lags'
      BY <1>2, <1>3, <1>6, <2>1, <2>2 DEF Lags
    <2>4. Survives'
      BY <1>2, <1>4, <1>5, <1>6, <1>7, <2>1 DEF Survives, DiskInv, Visible
    <2>5. Keeps(a)'
      BY <1>3 DEF Keeps
    <2>6. QED
      BY <2>3, <2>4, <2>5
  <1>12. worker[w].at \in Locked /\ a.at \in Locked
    BY <1>2, <1>3 DEF Locked, Labels
  <1>13. QED
    BY <1>2, <1>3, <1>6, <1>7, <1>8, <1>9, <1>10, <1>11, <1>12, WriteStep

-----------------------------------------------------------------------------
(* sync_directory *)

Equal == /\ durable.versions = disk.versions /\ durable.yanks = disk.yanks
         /\ durable.pending = disk.pending /\ durable.pointer = disk.pointer

\* Nothing lags but a pointer that was discarded.
Caught ==
    /\ durable.versions = disk.versions /\ durable.yanks = disk.yanks
    /\ durable.pending = disk.pending
    /\ disk.pointer = {} \/ durable.pointer = disk.pointer

\* After a sync by the holder of the lock.
LEMMA SyncStep ==
    ASSUME StoreInv, NEW w \in Worker, NEW a, Moves(w, a), LockNext(w, a),
           UNCHANGED <<disk, history, left>>, up' = up,
           durable' \in Trees, OneEach(durable)',
           durable'.versions \subseteq disk.versions, durable'.yanks \subseteq disk.yanks,
           Shape(a), Holds(a), worker[w].at \in Locked,
           a.at \notin {"files", "served", "switched"},
           durable'.pointer \in {disk.pointer, durable.pointer},
           ~left.unsynced => Caught'
    PROVE  StoreInv'
  <1>1. /\ worker \in [Worker -> Workers] /\ TypeInv /\ DiskInv
        /\ UNCHANGED <<acked, tomb, shown, yanking>> /\ left' = left
    BY DEF StoreInv, TypeInv, history
  <1>2. /\ worker' \in [Worker -> Workers] /\ worker'[w] = a
        /\ \A u \in Worker : u # w => worker'[u] = worker[u]
    BY <1>1, MoveFacts
  <1>3. TypeInv'
    BY <1>1, <1>2 DEF TypeInv, OneEach, BoundsKept
  <1>4. LockInv'
    BY LockNextInv
  <1>5. DiskInv'
    BY <1>1 DEF DiskInv, Visible, Listed
  <1>6. ASSUME NEW u \in Worker
        PROVE  /\ (Shape(worker[u]) /\ Holds(worker[u]) /\ Honest(worker[u]))'
               /\ worker'[u].at \in {"files", "served"} =>
                    UNION worker'[u].gen \subseteq disk.versions
    <2>1. PICK b : b = worker'[u]
      OBVIOUS
    <2>2. Shape(b) /\ Holds(b) /\ Honest(b)
      <3>1. CASE u = w
        BY <1>2, <2>1, <3>1 DEF Honest
      <3>2. CASE u # w
        BY <1>2, <2>1, <3>2, ThreadFacts DEF Worthy
      <3>3. QED
        BY <3>1, <3>2
    <2>3. (Shape(b) /\ Holds(b) /\ Honest(b))'
      BY <1>1, <2>2 DEF Shape, Holds, Honest, Visible, Listed, Target, MayCommit, Committed
    <2>4. b.at \in {"files", "served"} => UNION b.gen \subseteq disk.versions
      BY <2>2 DEF Honest
    <2>5. QED
      BY <2>1, <2>3, <2>4 DEF Shape, Holds, Honest, Target, MayCommit, Committed
  <1>7. WorkerInv'
    BY <1>6 DEF WorkerInv
  <1>8. ASSUME ~left'.unsynced PROVE Lags' /\ Survives' /\ \A u \in Worker : Keeps(worker[u])'
    <2>1. Caught' /\ Survives
      BY <1>1, <1>8 DEF StoreInv, DurableInv
    <2>2. Lags'
      BY <2>1 DEF Lags, Caught
    <2>3. Survives'
      <3>1. disk'.versions \ durable'.yanks \in left'.fits
        BY <1>5, <2>1 DEF DiskInv, Caught, Listed
      <3>2. \A g \in disk'.pointer \cup durable'.pointer : g \subseteq durable'.versions
        BY <1>1, <1>5, <2>1 DEF DiskInv, Survives, Caught, StoreInv, DurableInv
      <3>3. disk'.pointer = {} /\ (disk'.pending = {} \/ durable'.pending = {}) =>
              durable'.pointer = {} \/ UNION durable'.pointer = Listed'
        BY <2>1 DEF Survives, Caught, Listed
      <3>4. QED
        BY <1>5, <2>1, <3>1, <3>2, <3>3 DEF DiskInv, Survives, Caught
    <2>4. ASSUME NEW u \in Worker PROVE Keeps(worker[u])'
      <3>1. worker'[u].at \in {"files", "served"} =>
              UNION worker'[u].gen \subseteq durable'.versions
        BY <1>1, <1>6, <2>1 DEF Caught
      <3>2. worker'[u].at \notin {"switched"}
        BY <1>2 DEF StoreInv, LockInv, Locked, Labels
      <3>3. QED
        BY <3>1, <3>2 DEF Keeps
    <2>5. QED
      BY <2>2, <2>3, <2>4
  <1>9. DurableInv'
    BY <1>1, <1>8 DEF DurableInv
  <1>10. QED
    BY <1>3, <1>4, <1>5, <1>7, <1>9 DEF StoreInv

\* Which of its entries the durable tree takes over.
LEMMA SyncedFacts ==
    ASSUME StoreInv, NEW w \in Worker, Syncing(w), durable' = Synced(Directory(w)),
           UNCHANGED disk
    PROVE  /\ durable' \in Trees /\ OneEach(durable)'
           /\ durable'.versions \subseteq disk.versions /\ durable'.yanks \subseteq disk.yanks
           /\ durable'.pointer \in {disk.pointer, durable.pointer}
           /\ ~left.unsynced => Caught'
  <1>1. /\ disk \in Trees /\ durable \in Trees /\ OneEach(disk) /\ OneEach(durable)
        /\ durable.versions \subseteq disk.versions /\ durable.yanks \subseteq disk.yanks
    BY DEF StoreInv, TypeInv, OneEach, DurableInv
  <1>2. worker[w].at \in Locked
    BY DEF Syncing, Locked, Labels
  <1>3. CASE worker[w].at \in {"persisted", "cleaned"}
    <2>1. durable' = [durable EXCEPT !.gens = disk.gens, !.broken = disk.broken]
      BY <1>3 DEF Directory, Synced
    <2>2. /\ durable' \in Trees
          /\ durable'.versions = durable.versions /\ durable'.yanks = durable.yanks
          /\ durable'.pending = durable.pending /\ durable'.pointer = durable.pointer
      BY <1>1, <2>1 DEF Trees
    <2>3. ~left.unsynced => Caught
      BY <1>2, <1>3, HolderFacts DEF Caught
    <2>4. QED
      BY <1>1, <2>2, <2>3 DEF Caught, OneEach
  <1>4. CASE worker[w].at = "resync" \/ (worker[w].at = "committed" /\ worker[w].kind = "publish")
    <2>1. durable' = [durable EXCEPT !.versions = disk.versions]
      BY <1>4 DEF Directory, Synced
    <2>2. /\ durable' \in Trees
          /\ durable'.versions = disk.versions /\ durable'.yanks = durable.yanks
          /\ durable'.pending = durable.pending /\ durable'.pointer = durable.pointer
      BY <1>1, <2>1 DEF Trees
    <2>3. ~left.unsynced => /\ durable.yanks = disk.yanks /\ durable.pending = disk.pending
                            /\ disk.pointer = {} \/ durable.pointer = disk.pointer
      BY <1>2, <1>4, HolderFacts
    <2>4. QED
      BY <1>1, <2>2, <2>3 DEF Caught, OneEach
  <1>5. CASE worker[w].at = "committed" /\ worker[w].kind # "publish"
    <2>1. durable' = [durable EXCEPT !.yanks = disk.yanks]
      BY <1>5 DEF Directory, Synced
    <2>2. /\ durable' \in Trees
          /\ durable'.versions = durable.versions /\ durable'.yanks = disk.yanks
          /\ durable'.pending = durable.pending /\ durable'.pointer = durable.pointer
      BY <1>1, <2>1 DEF Trees
    <2>3. ~left.unsynced => /\ durable.versions = disk.versions /\ durable.pending = disk.pending
                            /\ disk.pointer = {} \/ durable.pointer = disk.pointer
      BY <1>2, <1>5, HolderFacts
    <2>4. QED
      BY <1>1, <2>2, <2>3 DEF Caught, OneEach
  <1>6. CASE worker[w].at \in {"marked", "switched", "unmarked", "discarded"}
    <2>1. durable' = [durable EXCEPT !.pending = disk.pending, !.pointer = disk.pointer]
      BY <1>6 DEF Directory, Synced
    <2>2. /\ durable' \in Trees
          /\ durable'.versions = durable.versions /\ durable'.yanks = durable.yanks
          /\ durable'.pending = disk.pending /\ durable'.pointer = disk.pointer
      BY <1>1, <2>1 DEF Trees
    <2>3. ~left.unsynced => /\ durable.versions = disk.versions /\ durable.yanks = disk.yanks
      BY <1>2, <1>6, HolderFacts
    <2>4. QED
      BY <1>1, <2>2, <2>3 DEF Caught, OneEach
  <1>7. QED
    BY <1>3, <1>4, <1>5, <1>6 DEF Syncing

\* What the holder has established still holds at the next label.
LEMMA AfterFacts ==
    ASSUME StoreInv, NEW w \in Worker, Syncing(w), NEW a, Like(a, worker[w]),
           a.at = After(w), a.gen = worker[w].gen,
           a.rec <=> worker[w].rec \/ worker[w].at = "resync"
    PROVE  /\ Shape(a) /\ Holds(a) /\ a.at \in Locked
           /\ a.at \notin {"files", "served", "switched"}
  <1>1. Shape(worker[w]) /\ Holds(worker[w])
    BY ThreadFacts DEF Worthy
  <1>2. /\ Target(a) = Target(worker[w]) /\ (MayCommit(a) <=> MayCommit(worker[w]))
        /\ (Committed(a) <=> Committed(worker[w]))
    BY DEF Target, MayCommit, Committed, Like
  <1>3. CASE worker[w].at = "persisted"
    <2>1. a.at = IF worker[w].rec THEN "switch" ELSE "mark"
      BY <1>3 DEF After
    <2>2. Shape(a)
      BY <1>1, <1>3, <2>1 DEF Shape, Like, Locked, Labels
    <2>3. Holds(a)
      BY <1>1, <1>2, <1>3, <2>1 DEF Holds, Settled, Storing, Before
    <2>4. QED
      BY <2>1, <2>2, <2>3 DEF Locked, Labels
  <1>4. CASE worker[w].at = "marked"
    <2>1. a.at = "commit"
      BY <1>4 DEF After
    <2>2. Shape(a)
      BY <1>1, <1>4, <2>1 DEF Shape, Like, Locked, Labels
    <2>3. Holds(a)
      BY <1>1, <1>2, <1>4, <2>1 DEF Holds, Settled, Storing, Before
    <2>4. QED
      BY <2>1, <2>2, <2>3 DEF Locked, Labels
  <1>5. CASE worker[w].at = "committed"
    <2>1. a.at = "switch" /\ ~worker[w].rec
      BY <1>1, <1>5 DEF After, Shape
    <2>2. Shape(a)
      BY <1>1, <1>5, <2>1 DEF Shape, Like, Locked, Labels
    <2>3. Holds(a)
      BY <1>1, <1>2, <1>5, <2>1 DEF Holds, Settled, Storing, Before
    <2>4. QED
      BY <2>1, <2>2, <2>3 DEF Locked, Labels
  <1>6. CASE worker[w].at \in {"switched", "unmarked", "cleaned"}
    <2>1. a.at \in {"unmark", "clean", "done"}
      BY <1>6 DEF After
    <2>2. Shape(a)
      BY <1>1, <1>6, <2>1 DEF Shape, Like, Locked, Labels
    <2>3. Holds(a)
      BY <1>1, <1>2, <1>6, <2>1 DEF Holds, Settled, Storing, Before
    <2>4. QED
      BY <2>1, <2>2, <2>3 DEF Locked, Labels
  <1>7. CASE worker[w].at \in {"discarded", "resync"}
    <2>1. a.at = (IF worker[w].at = "resync" THEN "ensure" ELSE "scan") /\ a.rec
      BY <1>1, <1>7 DEF After, Shape
    <2>2. Shape(a)
      BY <1>1, <1>7, <2>1 DEF Shape, Like, Locked, Labels
    <2>3. Holds(a)
      BY <1>1, <1>2, <1>7, <2>1 DEF Holds, Settled, Storing, Before
    <2>4. QED
      BY <2>1, <2>2, <2>3 DEF Locked, Labels
  <1>8. QED
    BY <1>3, <1>4, <1>5, <1>6, <1>7 DEF Syncing

LEMMA AfterLabel ==
    ASSUME NEW w \in Worker, Syncing(w)
    PROVE  After(w) \in Labels
  BY DEF After, Syncing, Labels

LEMMA SyncSafe ==
    ASSUME StoreInv, NEW w \in Worker, Sync(w)
    PROVE  StoreInv'
  <1>1. worker \in [Worker -> Workers] /\ worker[w] \in Workers
    BY ThreadFacts
  <1>2. /\ Syncing(w) /\ durable' = Synced(Directory(w))
        /\ UNCHANGED <<disk, up, history, left>>
    BY DEF Sync
  <1>3. PICK rec \in BOOLEAN : rec = (worker[w].rec \/ worker[w].at = "resync")
    BY <1>1 DEF Workers
  <1>4. PICK label \in Labels : label = After(w)
    BY <1>2, AfterLabel
  <1>5. Enters(w, label, rec)
    BY <1>3, <1>4 DEF Sync, Enters, At
  <1>6. PICK a \in Workers : /\ Moves(w, a) /\ Like(a, worker[w]) /\ a.at = label
                             /\ a.rec = rec /\ a.gen = worker[w].gen
    BY <1>1, <1>5, EnterFacts
  <1>7. /\ Shape(a) /\ Holds(a) /\ a.at \in Locked
        /\ a.at \notin {"files", "served", "switched"}
    BY <1>2, <1>3, <1>4, <1>6, AfterFacts
  <1>8. worker[w].at \in Locked /\ worker[w].at # "idle"
    BY <1>2 DEF Syncing, Locked, Labels
  <1>9. LockNext(w, a)
    BY <1>2, <1>6, <1>8, LockSame DEF Like
  <1>10. /\ durable' \in Trees /\ OneEach(durable)'
         /\ durable'.versions \subseteq disk.versions /\ durable'.yanks \subseteq disk.yanks
         /\ durable'.pointer \in {disk.pointer, durable.pointer}
         /\ ~left.unsynced => Caught'
    BY <1>2, SyncedFacts
  <1>11. QED
    BY <1>2, <1>6, <1>7, <1>8, <1>9, <1>10, SyncStep

LEMMA SyncFailsSafe ==
    ASSUME StoreInv, NEW w \in Worker, SyncFails(w)
    PROVE  StoreInv'
  <1>1. /\ Syncing(w) /\ SyncFault /\ UNCHANGED <<disk, durable, history>>
        /\ worker[w].at # "idle"
    BY DEF SyncFails, Syncing
  <1>2. SameBounds /\ left'.unsynced
    BY <1>1, BoundFacts DEF StoreInv, TypeInv
  <1>3. Still
    BY <1>1, <1>2 DEF Still, SameTree, StoreInv, TypeInv
  <1>4. CASE Fail(w)
    BY <1>1, <1>2, <1>3, <1>4, FailStep
  <1>5. CASE Maintenance(w) /\ Go(w, After(w)) /\ UNCHANGED up
    <2>1. PICK label \in {"clean", "done"} : Go(w, label)
      BY <1>1, <1>5 DEF Maintenance, Syncing, After
    <2>2. QED
      BY <1>2, <1>3, <1>5, <2>1, StoresStep DEF Maintenance
  <1>6. QED
    BY <1>4, <1>5 DEF SyncFails

LEMMA AbortSyncSafe ==
    ASSUME StoreInv, NEW w \in Worker, AbortSync(w)
    PROVE  StoreInv'
  <1>1. /\ worker[w].at = "aborted" /\ UNCHANGED <<disk, history>> /\ Fail(w)
        /\ worker[w].kind = "publish"
    BY ThreadFacts DEF AbortSync, At, Worthy, Shape
  <1>2. CASE durable' = Synced("root") /\ UNCHANGED left
    <2>1. /\ disk \in Trees /\ durable \in Trees /\ OneEach(disk)
          /\ durable.versions \subseteq disk.versions /\ durable.yanks \subseteq disk.yanks
      BY DEF StoreInv, TypeInv, OneEach, DurableInv
    <2>2. durable' = [durable EXCEPT !.pending = disk.pending, !.pointer = disk.pointer]
      BY <1>2 DEF Synced
    <2>3. /\ durable' \in Trees
          /\ durable'.versions = durable.versions /\ durable'.yanks = durable.yanks
          /\ durable'.pending = disk.pending /\ durable'.pointer = disk.pointer
      BY <2>1, <2>2 DEF Trees
    <2>4. worker[w].at \in Locked
      BY <1>1 DEF Locked, Labels
    <2>5. ~left.unsynced => durable.versions = disk.versions /\ durable.yanks = disk.yanks
      BY <1>1, <2>4, HolderFacts
    <2>6. OneEach(durable)' /\ (~left.unsynced => Caught')
      BY <1>1, <2>1, <2>3, <2>5 DEF OneEach, Caught
    <2>7. Moves(w, Idle) /\ up' = up
      BY <1>1, IdleFacts DEF Moves, Fail
    <2>8. LockNext(w, Idle)
      BY <1>1, <2>7, LockEnds
    <2>9. Shape(Idle) /\ Holds(Idle)
      BY IdleWorthy DEF Worthy
    <2>10. QED
      BY <1>1, <1>2, <2>1, <2>3, <2>4, <2>6, <2>7, <2>8, <2>9, IdleFacts, SyncStep
  <1>3. CASE UNCHANGED durable /\ SyncFault
    <2>1. SameBounds /\ left'.unsynced
      BY <1>3, BoundFacts DEF StoreInv, TypeInv
    <2>2. Still
      BY <1>1, <1>3, <2>1 DEF Still, SameTree, StoreInv, TypeInv
    <2>3. QED
      BY <1>1, <2>1, <2>2, FailStep
  <1>4. QED
    BY <1>2, <1>3 DEF AbortSync

-----------------------------------------------------------------------------
(* Answers *)

LEMMA HistoryStep ==
    ASSUME StoreInv, NEW w \in Worker, worker' = [worker EXCEPT ![w] = Idle],
           worker[w].at # "idle", worker[w].at \notin Lagging,
           UNCHANGED <<disk, durable, up, yanking, left>>,
           acked \subseteq acked', shown \subseteq shown', tomb \subseteq tomb',
           acked' \cup shown' \subseteq disk.versions, tomb' \subseteq disk.yanks,
           up = "up" => \A g \in disk.pointer :
             (acked' \cup shown') \ yanking \subseteq g /\ g \cap tomb' = {},
           ~left.unsynced =>
             acked' \cup shown' \subseteq durable.versions /\ tomb' \subseteq durable.yanks
    PROVE  StoreInv'
  <1>1. worker \in [Worker -> Workers] /\ TypeInv /\ DiskInv /\ Moves(w, Idle)
    BY IdleFacts DEF StoreInv, TypeInv, Moves
  <1>2. /\ worker' \in [Worker -> Workers] /\ worker'[w] = Idle
        /\ \A u \in Worker : u # w => worker'[u] = worker[u]
    BY <1>1, MoveFacts
  <1>3. TypeInv'
    <2>1. disk.versions \subseteq Version /\ disk.yanks \subseteq Version
      BY <1>1 DEF TypeInv, Trees
    <2>2. QED
      BY <1>1, <1>2, <2>1 DEF TypeInv, BoundsKept
  <1>4. LockInv'
    <2>1. LockNext(w, Idle)
      BY LockEnds
    <2>2. QED
      BY <1>1, <2>1, LockNextInv
  <1>5. DiskInv'
    BY <1>1 DEF DiskInv, Visible, Listed
  <1>6. ASSUME NEW u \in Worker PROVE Worthy(worker[u])'
    <2>1. PICK b : b = worker'[u]
      OBVIOUS
    <2>2. Worthy(b)
      BY <1>2, <2>1, ThreadFacts, IdleWorthy
    <2>3. Shape(b)'
      BY <2>2 DEF Worthy, Shape
    <2>4. (Holds(b) /\ Honest(b) /\ (~left.unsynced => Keeps(b)))'
      BY <2>2 DEF Worthy, Holds, Honest, Keeps, Visible, Listed, Target, MayCommit, Committed
    <2>5. Worthy(b)'
      BY <2>3, <2>4 DEF Worthy
    <2>6. QED
      BY <2>1, <2>5 DEF Worthy, Shape, Holds, Honest, Keeps, Target, MayCommit, Committed
  <1>7. WorkerInv'
    BY <1>6 DEF WorkerInv, Worthy
  <1>8. DurableInv'
    <2>1. DurableInv
      BY DEF StoreInv
    <2>2. ASSUME ~left'.unsynced PROVE Lags' /\ Survives'
      <3>1. Lags /\ Survives
        BY <2>1, <2>2 DEF DurableInv
      <3>2. \A u \in Worker : worker[u].at \in Lagging => worker'[u] = worker[u]
        BY <1>2
      <3>3. Lags'
        BY <3>1, <3>2 DEF Lags, Lagging
      <3>4. Survives'
        BY <2>2, <3>1 DEF Survives, Listed
      <3>5. QED
        BY <3>3, <3>4
    <2>3. QED
      BY <1>6, <2>1, <2>2 DEF DurableInv, Worthy
  <1>9. QED
    BY <1>3, <1>4, <1>5, <1>7, <1>8 DEF StoreInv

\* A mutation is confirmed when it is in the tree and the index shows it.
LEMMA ConfirmSafe ==
    ASSUME StoreInv, NEW w \in Worker, Confirm(w), worker[w].at \in {"done", "decide"},
           worker[w].kind = "publish" => worker[w].v \in disk.versions,
           worker[w].kind = "yank" => worker[w].v \in disk.yanks
    PROVE  StoreInv'
  <1>1. Visible = Listed /\ DiskInv /\ worker[w].at \in Locked
    BY ThreadFacts DEF Worthy, Holds, Settled, StoreInv, Locked, Labels
  <1>2. /\ worker' = [worker EXCEPT ![w] = Idle] /\ shown' = shown
        /\ UNCHANGED <<disk, durable, up, yanking, left>>
        /\ acked \subseteq acked' /\ tomb \subseteq tomb'
    BY DEF Confirm
  <1>3. acked' \cup shown' \subseteq disk.versions /\ tomb' \subseteq disk.yanks
    BY <1>1 DEF DiskInv, Confirm
  <1>4. ASSUME NEW g \in disk.pointer
        PROVE  (acked' \cup shown') \ yanking \subseteq g /\ g \cap tomb' = {}
    <2>1. disk.pointer = {g}
      BY <1>4 DEF StoreInv, TypeInv
    <2>2. g = disk.versions \ disk.yanks
      BY <1>1, <2>1 DEF Visible, Listed
    <2>3. QED
      BY <1>1, <1>3, <2>2 DEF DiskInv
  <1>5. ~left.unsynced =>
          acked' \cup shown' \subseteq durable.versions /\ tomb' \subseteq durable.yanks
    <2>1. ~left.unsynced => disk.versions = durable.versions /\ disk.yanks = durable.yanks
      BY <1>1, HolderFacts
    <2>2. QED
      BY <1>3, <2>1
  <1>6. QED
    BY <1>2, <1>3, <1>4, <1>5, HistoryStep DEF Lagging

LEMMA DecideSafe ==
    ASSUME StoreInv, NEW w \in Worker, Decide(w)
    PROVE  StoreInv'
  <1>1. worker \in [Worker -> Workers] /\ Worthy(worker[w]) /\ worker[w] \in Workers
    BY ThreadFacts
  <1>2. worker[w].at = "decide"
    BY DEF Decide, At
  <1>3. worker[w].kind = "yank" /\ UNION worker[w].gen = Listed
    BY <1>1, <1>2 DEF Worthy, Shape, Holds, Settled, Visible
  <1>4. CASE worker[w].v \in Listed
    <2>1. /\ UNCHANGED <<disk, durable, up, history, left>>
          /\ worker' = [worker EXCEPT ![w].at = "persist", ![w].rec = FALSE,
                                      ![w].gen = {Listed \ {worker[w].v}}]
      BY <1>3, <1>4 DEF Decide
    <2>2. Still /\ left'.unsynced = left.unsynced
      BY <2>1, StillFacts
    <2>3. Listed \ {worker[w].v} \in Generation
      BY DEF Listed, Generation, StoreInv, TypeInv, Trees
    <2>4. Listed \ {worker[w].v} = Target(worker[w]) /\ MayCommit(worker[w])
      BY <1>3, <1>4 DEF Target, MayCommit
    <2>5. QED
      BY <1>2, <2>1, <2>2, <2>3, <2>4, CandidateSafe
  <1>5. CASE worker[w].v \notin Listed /\ worker[w].v \in disk.yanks
    <2>1. Confirm(w)
      BY <1>3, <1>5 DEF Decide
    <2>2. QED
      BY <1>2, <1>3, <1>5, <2>1, ConfirmSafe
  <1>6. CASE worker[w].v \notin Listed /\ worker[w].v \notin disk.yanks
    <2>1. Fail(w) /\ UNCHANGED <<disk, durable, history, left>>
      BY <1>3, <1>6 DEF Decide
    <2>2. Still
      BY <2>1, StillFacts
    <2>3. QED
      BY <1>2, <2>1, <2>2, FailStep DEF Lagging
  <1>7. QED
    BY <1>4, <1>5, <1>6

LEMMA MutationDoneSafe ==
    ASSUME StoreInv, NEW w \in Worker, MutationDone(w)
    PROVE  StoreInv'
  <1>1. worker[w].at = "done" /\ Confirm(w)
    BY DEF MutationDone, At
  <1>2. /\ worker[w].kind = "publish" => worker[w].v \in disk.versions
        /\ worker[w].kind = "yank" => worker[w].v \in disk.yanks
    BY <1>1, ThreadFacts DEF MutationDone, Worthy, Holds, Settled, Committed
  <1>3. QED
    BY <1>1, <1>2, ConfirmSafe

LEMMA ServedSafe ==
    ASSUME StoreInv, NEW w \in Worker, Served(w)
    PROVE  StoreInv'
  <1>1. /\ worker[w].at = "served" /\ worker' = [worker EXCEPT ![w] = Idle]
        /\ UNCHANGED <<disk, durable, up, acked, tomb, yanking, left>>
        /\ shown' = shown \cup UNION worker[w].gen
    BY DEF Served, At
  <1>2. /\ UNION worker[w].gen \subseteq disk.versions
        /\ \A g \in disk.pointer : (UNION worker[w].gen) \ yanking \subseteq g
        /\ ~left.unsynced => UNION worker[w].gen \subseteq durable.versions
    BY <1>1, ThreadFacts DEF Worthy, Honest, Keeps
  <1>3. PICK x : x = UNION worker[w].gen
    OBVIOUS
  <1>4. DiskInv /\ (~left.unsynced => Survives)
    BY DEF StoreInv, DurableInv
  <1>5. acked' \cup shown' \subseteq disk.versions /\ tomb' \subseteq disk.yanks
    BY <1>1, <1>2, <1>3, <1>4 DEF DiskInv
  <1>6. ASSUME up = "up", NEW g \in disk.pointer
        PROVE  (acked' \cup shown') \ yanking \subseteq g /\ g \cap tomb' = {}
    <2>1. (acked \cup shown) \ yanking \subseteq g /\ g \cap tomb = {} /\ x \ yanking \subseteq g
      BY <1>2, <1>3, <1>4, <1>6 DEF DiskInv
    <2>2. QED
      BY <1>1, <1>3, <2>1
  <1>7. ~left.unsynced =>
          acked' \cup shown' \subseteq durable.versions /\ tomb' \subseteq durable.yanks
    BY <1>1, <1>2, <1>3, <1>4 DEF Survives
  <1>8. QED
    BY <1>1, <1>5, <1>6, <1>7, HistoryStep DEF Lagging

-----------------------------------------------------------------------------
(* The machine *)

\* A process dies: the tree it leaves explains itself.
LEMMA DiesStep ==
    ASSUME StoreInv, Dies, BoundsKept', disk' \in Trees, durable' \in Trees,
           OneEach(disk)', OneEach(durable)', left'.capacity = left.capacity,
           Listed' \in left'.fits,
           disk'.yanks \subseteq disk'.versions, disk'.yanks \subseteq yanking,
           disk'.versions \subseteq disk.versions,
           \A g \in disk'.pointer : g \subseteq disk'.versions,
           disk'.pending = {} => disk'.pointer = {} \/ Visible' = Listed',
           acked \cup shown \subseteq disk'.versions, tomb \subseteq disk'.yanks,
           durable'.versions \subseteq disk'.versions, durable'.yanks \subseteq disk'.yanks,
           left'.unsynced \/ Equal'
    PROVE  StoreInv'
  <1>1. /\ UNCHANGED <<acked, tomb, yanking, shown>> /\ up' = "down"
        /\ worker' = [w \in Worker |-> Idle] /\ TypeInv /\ DiskInv
    BY DEF Dies, history, StoreInv
  <1>2. TypeInv'
    BY <1>1, IdleFacts DEF TypeInv, OneEach
  <1>3. LockInv'
    BY <1>1, IdleFacts DEF LockInv, Locked
  <1>4. DiskInv'
    <2>1. IsFiniteSet(disk'.versions) /\ Cardinality(disk'.versions) <= left'.capacity
      <3>1. IsFiniteSet(disk.versions) /\ Cardinality(disk.versions) <= left.capacity
        BY <1>1 DEF DiskInv
      <3>2. /\ IsFiniteSet(disk'.versions)
            /\ Cardinality(disk'.versions) <= Cardinality(disk.versions)
            /\ Cardinality(disk'.versions) \in Nat /\ Cardinality(disk.versions) \in Nat
        BY <3>1, FS_Subset, FS_CardinalityType
      <3>3. left.capacity \in Nat
        BY <1>1 DEF TypeInv, BoundsKept, Lefts
      <3>4. QED
        BY <3>1, <3>2, <3>3
    <2>2. QED
      BY <1>1, <2>1 DEF DiskInv
  <1>5. ASSUME NEW u \in Worker
        PROVE  (Shape(worker[u]) /\ Holds(worker[u]) /\ Honest(worker[u]) /\ Keeps(worker[u]))'
    <2>1. worker'[u] = Idle
      BY <1>1
    <2>2. QED
      BY <2>1, IdleFacts DEF Shape, Holds, Honest, Keeps, Settled, Storing, Before, Locked
  <1>6. WorkerInv'
    BY <1>5 DEF WorkerInv
  <1>7. ASSUME ~left'.unsynced PROVE Lags' /\ Survives'
    BY <1>1, <1>4, <1>7 DEF Lags, Survives, Equal, DiskInv, Listed
  <1>8. DurableInv'
    BY <1>5, <1>7 DEF DurableInv
  <1>9. QED
    BY <1>2, <1>3, <1>4, <1>6, <1>8 DEF StoreInv

LEMMA KillSafe ==
    ASSUME StoreInv, Kill
    PROVE  StoreInv'
  <1>1. /\ Dies /\ UNCHANGED <<disk, durable>> /\ SameBounds /\ left'.unsynced
    BY BoundFacts DEF Kill, StoreInv, TypeInv
  <1>2. /\ disk \in Trees /\ durable \in Trees /\ OneEach(disk) /\ OneEach(durable)
        /\ DiskInv /\ DurableInv
    BY DEF StoreInv, TypeInv, OneEach
  <1>3. BoundsKept' /\ left'.capacity = left.capacity /\ Listed' \in left'.fits
    BY <1>1, <1>2 DEF SameBounds, DiskInv, Listed
  <1>4. OneEach(disk)' /\ OneEach(durable)'
    BY <1>1, <1>2 DEF OneEach
  <1>5. /\ disk'.yanks \subseteq disk'.versions /\ disk'.yanks \subseteq yanking
        /\ disk'.versions \subseteq disk.versions
        /\ \A g \in disk'.pointer : g \subseteq disk'.versions
        /\ disk'.pending = {} => disk'.pointer = {} \/ Visible' = Listed'
        /\ acked \cup shown \subseteq disk'.versions /\ tomb \subseteq disk'.yanks
        /\ durable'.versions \subseteq disk'.versions /\ durable'.yanks \subseteq disk'.yanks
    BY <1>1, <1>2 DEF DiskInv, DurableInv, Visible, Listed
  <1>6. QED
    BY <1>1, <1>2, <1>3, <1>4, <1>5, DiesStep

LEMMA DamageSafe ==
    ASSUME StoreInv, Damage
    PROVE  StoreInv'
  <1>1. PICK w \in Worker : TRUE
    BY RegistryAssumption
  <1>2. PICK a : a = worker[w]
    OBVIOUS
  <1>3. /\ UNCHANGED <<durable, up, worker, history>> /\ Spend("damages")
        /\ disk' = [disk EXCEPT !.gens = @ \ disk.pointer, !.broken = @ \cup disk.pointer]
    BY DEF Damage
  <1>4. disk \in Trees /\ BoundsKept /\ worker \in [Worker -> Workers]
    BY DEF StoreInv, TypeInv
  <1>5. PICK x : x = disk.gens \ disk.pointer
    OBVIOUS
  <1>6. PICK y : y = disk.broken \cup disk.pointer
    OBVIOUS
  <1>7. x \in SUBSET Generation /\ y \in SUBSET Generation
    BY <1>4, <1>5, <1>6 DEF Trees
  <1>8. SameTree
    BY <1>3, <1>4, <1>5, <1>6, <1>7, GensSame
  <1>9. Still
    BY <1>3, <1>4, <1>8, BoundFacts DEF Still
  <1>10. Moves(w, a)
    BY <1>2, <1>3, <1>4 DEF Moves
  <1>11. Quiet(w, a)
    BY <1>9, <1>10, StillQuiet
  <1>12. Worthy(a)
    BY <1>2, ThreadFacts
  <1>13. LockNext(w, a)
    BY <1>2, <1>3 DEF StoreInv, TypeInv, LockInv, LockNext
  <1>14. QED
    BY <1>2, <1>3, <1>11, <1>12, <1>13, QuietStep


\* A power loss keeps the marker wherever the index would not be that of the
\* tree, whatever else of the unsynced writes it keeps.
LEMMA LossExplained ==
    ASSUME StoreInv, ~left.unsynced, NEW vs, NEW ys,
           durable.versions \subseteq vs, vs \subseteq disk.versions,
           durable.yanks \subseteq ys, ys \subseteq disk.yanks,
           NEW pe \in {disk.pending, durable.pending}, pe = {},
           NEW po \in {disk.pointer, durable.pointer}
    PROVE  po = {} \/ UNION po = vs \ ys
  <1>1. DiskInv /\ Lags /\ Survives
    BY DEF StoreInv, DurableInv
  <1>2. PICK a : \/ \E w \in Worker : a = worker[w] /\ a.at \in Lagging
                 \/ a = Idle /\ \A w \in Worker : worker[w].at \notin Lagging
    OBVIOUS
  <1>3. Shape(a) /\ Holds(a) /\ Keeps(a)
    BY <1>2, ThreadFacts, IdleWorthy DEF Worthy
  <1>4. /\ a.at # "committed" => disk.versions = durable.versions /\ disk.yanks = durable.yanks
        /\ a.at \notin {"marked", "unmarked", "aborted"} => disk.pending = durable.pending
        /\ a.at # "switched" => disk.pointer = {} \/ disk.pointer = durable.pointer
    <2>1. CASE \E w \in Worker : a = worker[w] /\ a.at \in Lagging
      <3>1. PICK w \in Worker : a = worker[w] /\ a.at \in Lagging
        BY <2>1
      <3>2. a.at \in Locked
        BY <3>1 DEF Lagging, Locked, Labels
      <3>3. QED
        BY <3>1, <3>2, HolderFacts
    <2>2. CASE \A w \in Worker : worker[w].at \notin Lagging
      BY <1>1, <2>2 DEF Lags, Lagging
    <2>3. QED
      BY <1>2, <2>1, <2>2
  <1>5. a.at # "committed"
    BY <1>3, <1>4 DEF Holds
  <1>6. vs \ ys = Listed
    BY <1>4, <1>5 DEF Listed
  <1>7. CASE a.at = "switched"
    BY <1>3, <1>4, <1>6, <1>7 DEF Holds, Keeps, Settled, Visible
  <1>8. CASE a.at # "switched" /\ po = durable.pointer /\ disk.pointer = {}
    BY <1>1, <1>6, <1>8 DEF Survives
  <1>9. CASE a.at # "switched" /\ po = disk.pointer
    <2>1. CASE a.at \in {"marked", "unmarked", "aborted"}
      <3>1. Visible = Listed
        BY <1>3, <2>1 DEF Shape, Holds, Before, Settled
      <3>2. QED
        BY <1>6, <1>9, <3>1 DEF Visible
    <2>2. CASE a.at \notin {"marked", "unmarked", "aborted"}
      BY <1>1, <1>4, <1>6, <1>9, <2>2 DEF DiskInv, Visible
    <2>3. QED
      BY <2>1, <2>2
  <1>10. QED
    BY <1>4, <1>7, <1>8, <1>9

LEMMA PowerLossSafe ==
    ASSUME StoreInv, PowerLoss, ~left.unsynced
    PROVE  StoreInv'
  <1>1. Dies /\ Spend("losses") /\ durable' = disk'
    BY DEF PowerLoss
  <1>2. PICK vs \in Between(disk.versions, durable.versions),
             ys \in Between(disk.yanks, durable.yanks),
             pe \in {disk.pending, durable.pending},
             po \in {disk.pointer, durable.pointer},
             gs \in Between(disk.gens, durable.gens) :
          \E br \in {disk.broken, (durable.gens \cup durable.broken) \ gs} :
            disk' = [versions |-> vs, yanks |-> ys, pending |-> pe, pointer |-> po,
                     gens |-> gs, broken |-> br \ gs]
    BY DEF PowerLoss
  <1>3. PICK br \in {disk.broken, (durable.gens \cup durable.broken) \ gs} :
          disk' = [versions |-> vs, yanks |-> ys, pending |-> pe, pointer |-> po,
                   gens |-> gs, broken |-> br \ gs]
    BY <1>2
  <1>4. /\ disk'.versions = vs /\ disk'.yanks = ys
        /\ disk'.pending = pe /\ disk'.pointer = po
    BY <1>3
  <1>5. DiskInv /\ TypeInv /\ DurableInv /\ Survives
    BY DEF StoreInv, DurableInv
  <1>6. /\ durable.versions \subseteq vs /\ vs \subseteq disk.versions
        /\ durable.yanks \subseteq ys /\ ys \subseteq disk.yanks
    BY <1>5 DEF Between, DurableInv
  <1>7. disk \in Trees /\ durable \in Trees
    BY <1>5 DEF TypeInv
  <1>8. disk' \in Trees
    <2>1. vs \subseteq Version /\ ys \subseteq Version /\ pe \subseteq Version
          /\ po \subseteq Generation
      BY <1>6, <1>7 DEF Trees
    <2>2. gs \subseteq disk.gens \cup durable.gens
      BY DEF Between
    <2>3. gs \subseteq Generation /\ br \ gs \subseteq Generation
      BY <1>7, <2>2 DEF Trees
    <2>4. QED
      BY <1>3, <2>1, <2>3 DEF Trees
  <1>9. OneEach(disk)'
    <2>1. po = {} \/ \E g \in Generation : po = {g}
      BY <1>5 DEF TypeInv
    <2>2. pe = {} \/ \E v \in Version : pe = {v}
      BY <1>5 DEF TypeInv
    <2>3. QED
      BY <1>4, <2>1, <2>2 DEF OneEach
  <1>10. OneEach(durable)'
    BY <1>1, <1>9 DEF OneEach
  <1>11. BoundsKept' /\ left'.capacity = left.capacity /\ left'.fits = left.fits
    BY <1>1, <1>5, BoundFacts DEF TypeInv, SameBounds
  <1>12. pe = {} => po = {} \/ UNION po = vs \ ys
    BY <1>6, LossExplained
  <1>13. disk'.pending = {} => disk'.pointer = {} \/ Visible' = Listed'
    BY <1>4, <1>12 DEF Visible, Listed
  <1>14. /\ disk'.yanks \subseteq disk'.versions /\ disk'.yanks \subseteq yanking
         /\ disk'.versions \subseteq disk.versions
         /\ acked \cup shown \subseteq disk'.versions /\ tomb \subseteq disk'.yanks
    BY <1>4, <1>5, <1>6 DEF DiskInv, Survives
  <1>15. \A g \in disk'.pointer : g \subseteq disk'.versions
    BY <1>4, <1>5, <1>6 DEF Survives
  <1>16. /\ durable'.versions \subseteq disk'.versions /\ durable'.yanks \subseteq disk'.yanks
         /\ Equal' /\ durable' \in Trees
    BY <1>1, <1>8 DEF Equal
  <1>17. Listed' \in left'.fits
    <2>1. disk.versions \ durable.yanks \in left.fits /\ left.fits \in Families
      BY <1>5 DEF Survives, TypeInv, BoundsKept, Lefts
    <2>2. vs \ ys \in SUBSET (disk.versions \ durable.yanks)
      BY <1>6
    <2>3. vs \ ys \in left.fits
      BY <2>1, <2>2 DEF Families
    <2>4. QED
      BY <1>4, <1>11, <2>3 DEF Listed
  <1>18. QED
    BY <1>1, <1>8, <1>9, <1>10, <1>11, <1>13, <1>14, <1>15, <1>16, <1>17, DiesStep

-----------------------------------------------------------------------------
(* The invariant holds *)

LEMMA InitSafe == Init => StoreInv
  <1>1. SUFFICES ASSUME Init PROVE StoreInv
    OBVIOUS
  <1>2. /\ disk = Empty /\ durable = Empty /\ up = "up" /\ left \in Bounds
        /\ worker = [w \in Worker |-> Idle]
        /\ acked = {} /\ tomb = {} /\ yanking = {} /\ shown = {}
    BY <1>1 DEF Init
  <1>3. left \in [requests : Nat, faults : Nat, syncs : Nat, kills : Nat,
                  losses : Nat, damages : Nat, capacity : Nat, fits : Families,
                  unsynced : {FALSE}]
    BY <1>2, RegistryAssumption
  <1>4. BoundsKept
    <2>1. left \in Lefts
      BY <1>3 DEF Lefts
    <2>2. \A f \in DOMAIN left \ {"fits", "unsynced"} : left[f] \in 0..left[f]
      BY <1>3
    <2>3. QED
      BY <1>2, <2>1, <2>2 DEF BoundsKept
  <1>5. /\ Empty \in Trees /\ Empty.versions = {} /\ Empty.yanks = {}
        /\ Empty.pending = {} /\ Empty.pointer = {}
    BY DEF Empty, Trees
  <1>6. TypeInv
    BY <1>2, <1>4, <1>5, IdleFacts DEF TypeInv
  <1>7. LockInv
    BY <1>2, IdleFacts DEF LockInv, Locked
  <1>8. DiskInv
    <2>1. IsFiniteSet(disk.versions) /\ Cardinality(disk.versions) = 0
      BY <1>2, <1>5, FS_EmptySet
    <2>2. 0 <= left.capacity
      BY <1>3
    <2>3. Listed = {} /\ {} \in left.fits
      BY <1>2, <1>3, <1>5 DEF Listed, Families
    <2>4. QED
      BY <1>2, <1>5, <2>1, <2>2, <2>3 DEF DiskInv
  <1>9. ASSUME NEW w \in Worker PROVE Worthy(worker[w])
    BY <1>2, IdleWorthy
  <1>10. WorkerInv
    BY <1>9 DEF WorkerInv, Worthy
  <1>11. DurableInv
    <2>1. Lags /\ Survives
      <3>1. Listed \in left.fits /\ Listed = disk.versions \ durable.yanks
        BY <1>2, <1>5, <1>8 DEF DiskInv, Listed
      <3>2. QED
        BY <1>2, <1>5, <3>1 DEF Lags, Survives
    <2>2. QED
      BY <1>2, <1>9, <2>1 DEF DurableInv, Worthy
  <1>12. QED
    BY <1>6, <1>7, <1>8, <1>10, <1>11 DEF StoreInv

LEMMA RequestSafe ==
    ASSUME StoreInv, NEW w \in Worker,
           \/ BeginGet(w)
           \/ \E v \in Version : BeginPublish(w, v) \/ BeginYank(w, v)
    PROVE  StoreInv'
  <1>1. yanking \subseteq Version /\ Idle.v \in Version
    BY IdleFacts DEF StoreInv, TypeInv
  <1>2. CASE BeginGet(w)
    <2>1. Begin(w, "get", Idle.v, "pending") /\ yanking' = yanking
      BY <1>2 DEF BeginGet
    <2>2. QED
      BY <1>1, <2>1, BeginSafe
  <1>3. ASSUME NEW v \in Version, BeginPublish(w, v) PROVE StoreInv'
    <2>1. Begin(w, "publish", v, "tryLock") /\ yanking' = yanking
      BY <1>3 DEF BeginPublish
    <2>2. QED
      BY <1>1, <2>1, BeginSafe
  <1>4. ASSUME NEW v \in Version, BeginYank(w, v) PROVE StoreInv'
    <2>1. Begin(w, "yank", v, "tryLock") /\ yanking' = yanking \cup {v}
      BY <1>4 DEF BeginYank
    <2>2. yanking \subseteq yanking' /\ yanking' \subseteq Version /\ v \in yanking'
      BY <1>1, <2>1
    <2>3. QED
      BY <2>1, <2>2, BeginSafe
  <1>5. QED
    BY <1>2, <1>3, <1>4

LEMMA StepSafe ==
    ASSUME StoreInv, NEW w \in Worker, Step(w)
    PROVE  StoreInv'
  <1>1. CASE GetPending(w) \/ GetPointer(w) \/ GetFiles(w)
    BY <1>1, GetSafe
  <1>2. CASE Acquire(w) \/ TryAcquire(w) \/ LockTimeout(w)
    BY <1>2, AcquireSafe
  <1>3. CASE InspectPublish(w) \/ InspectYank(w)
    BY <1>3, InspectSafe
  <1>4. CASE Ensure(w)
    BY <1>4, EnsureSafe
  <1>5. CASE Discard(w) \/ Drop(w)
    BY <1>5, DiscardSafe, DropSafe
  <1>6. CASE Scan(w)
    BY <1>6, ScanSafe
  <1>7. CASE Persist(w)
    BY <1>7, PersistSafe
  <1>8. CASE Mark(w)
    BY <1>8, MarkSafe
  <1>9. CASE Commit(w)
    BY <1>9, CommitSafe
  <1>10. CASE Switch(w)
    BY <1>10, SwitchSafe
  <1>11. CASE Unmark(w) \/ Abort(w)
    BY <1>11, UnmarkSafe
  <1>12. CASE Clean(w)
    BY <1>12, CleanSafe
  <1>13. CASE Sync(w)
    BY <1>13, SyncSafe
  <1>14. CASE AbortSync(w)
    BY <1>14, AbortSyncSafe
  <1>15. CASE Prepare(w)
    BY <1>15, PrepareSafe
  <1>16. CASE Decide(w)
    BY <1>16, DecideSafe
  <1>17. CASE Recovered(w)
    BY <1>17, RecoveredSafe
  <1>18. CASE MutationDone(w)
    BY <1>18, MutationDoneSafe
  <1>19. CASE Served(w)
    BY <1>19, ServedSafe
  <1>20. CASE Audit(w)
    BY <1>20, AuditSafe
  <1>21. QED
    BY <1>1, <1>2, <1>3, <1>4, <1>5, <1>6, <1>7, <1>8, <1>9, <1>10, <1>11, <1>12,
       <1>13, <1>14, <1>15, <1>16, <1>17, <1>18, <1>19, <1>20 DEF Step

LEMMA StutterSafe ==
    ASSUME StoreInv, UNCHANGED vars
    PROVE  StoreInv'
  <1>1. UNCHANGED <<disk, durable, up, worker, acked, tomb, yanking, shown, left>>
    BY DEF vars
  <1>2. TypeInv' /\ LockInv' /\ DiskInv'
    BY <1>1 DEF StoreInv, TypeInv, BoundsKept, LockInv, DiskInv, Visible, Listed
  <1>3. WorkerInv'
    <2>1. SUFFICES ASSUME NEW w \in Worker
                   PROVE  (Shape(worker[w]) /\ Holds(worker[w]) /\ Honest(worker[w]))'
      BY DEF WorkerInv
    <2>2. PICK a : a = worker[w]
      OBVIOUS
    <2>3. Shape(a) /\ Holds(a) /\ Honest(a)
      BY <2>2 DEF StoreInv, WorkerInv
    <2>4. Shape(a)' /\ Honest(a)'
      BY <1>1, <2>3 DEF Shape, Honest
    <2>5. /\ Visible' = Visible /\ Listed' = Listed /\ Target(a)' = Target(a)
          /\ MayCommit(a)' = MayCommit(a) /\ Committed(a)' = Committed(a)
      BY <1>1 DEF Visible, Listed, Target, MayCommit, Committed
    <2>6. Holds(a)'
      BY <1>1, <2>3, <2>5 DEF Holds
    <2>7. worker'[w] = a
      BY <1>1, <2>2
    <2>8. QED
      BY <2>4, <2>6, <2>7
  <1>4. DurableInv'
    BY <1>1 DEF StoreInv, DurableInv, Lags, Survives, Keeps, Listed
  <1>5. QED
    BY <1>2, <1>3, <1>4 DEF StoreInv

LEMMA NextSafe ==
    ASSUME StoreInv, [Next]_vars, [PowerLoss => ~left.unsynced]_vars
    PROVE  StoreInv'
  <1>1. CASE UNCHANGED vars
    BY <1>1, StutterSafe
  <1>2. ASSUME NEW w \in Worker, BeginGet(w) PROVE StoreInv'
    BY <1>2, RequestSafe
  <1>3. ASSUME NEW w \in Worker, NEW v \in Version, BeginPublish(w, v) \/ BeginYank(w, v)
        PROVE  StoreInv'
    BY <1>3, RequestSafe
  <1>4. ASSUME NEW w \in Worker, Restart(w) PROVE StoreInv'
    BY <1>4, RestartSafe
  <1>5. ASSUME NEW w \in Worker, Step(w) PROVE StoreInv'
    BY <1>5, StepSafe
  <1>6. ASSUME NEW w \in Worker, CleanFails(w) \/ DropFails(w) \/ Misread(w) PROVE StoreInv'
    BY <1>6, CleanSafe, DropSafe, MisreadSafe
  <1>7. ASSUME NEW w \in Worker, SyncFails(w) PROVE StoreInv'
    BY <1>7, SyncFailsSafe
  <1>8. ASSUME NEW w \in Worker, OperationFails(w) PROVE StoreInv'
    BY <1>8, OperationFailsSafe
  <1>9. CASE Kill
    BY <1>9, KillSafe
  <1>10. CASE PowerLoss
    <2>1. CASE ~left.unsynced
      BY <1>10, <2>1, PowerLossSafe
    <2>2. QED
      BY <1>1, <1>10, <2>1
  <1>11. CASE Damage
    BY <1>11, DamageSafe
  <1>12. QED
    BY <1>1, <1>2, <1>3, <1>4, <1>5, <1>6, <1>7, <1>8, <1>9, <1>10, <1>11 DEF Next

-----------------------------------------------------------------------------
(* Theorems *)

\* The inductive invariant of the storage: in every reachable state the tree
\* without a pending marker has the index its versions and yank markers ask
\* for, each label of a thread means what it should, and what is not durable
\* is what the holder of the lock is about to sync (publish_request,
\* yank_request, ensure_signed_index_locked and the startup audit).
THEOREM StoreInductive == Spec /\ LossesSynced => []StoreInv
  <1>1. Init => StoreInv
    BY InitSafe
  <1>2. StoreInv /\ [Next]_vars /\ [PowerLoss => ~left.unsynced]_vars => StoreInv'
    BY NextSafe
  <1>3. QED
    BY <1>1, <1>2, PTL DEF Spec, LossesSynced

LEMMA InvIndexTrue == StoreInv => IndexTrue
  <1>1. SUFFICES ASSUME StoreInv, NEW w \in Worker, At(w, "served")
                 PROVE  /\ UNION worker[w].gen \subseteq disk.versions
                        /\ worker[w].must \ yanking \subseteq UNION worker[w].gen
                        /\ (UNION worker[w].gen) \cap worker[w].mustNot = {}
    BY DEF IndexTrue
  <1>2. Honest(worker[w]) /\ worker[w].at = "served"
    BY <1>1, ThreadFacts DEF Worthy, At
  <1>3. QED
    BY <1>2 DEF Honest

LEMMA InvStorageSafe == StoreInv => StorageSafe
  <1>1. SUFFICES ASSUME StoreInv PROVE AckedSafe /\ TypeOK /\
                        Cardinality(disk.versions) <= left.capacity
    BY DEF StorageSafe, CapacityKept
  <1>2. TypeInv /\ DiskInv /\ DurableInv
    BY <1>1 DEF StoreInv
  <1>3. AckedSafe
    BY <1>2 DEF AckedSafe, DiskInv, DurableInv, Survives
  <1>4. Cardinality(disk.pointer) <= 1
    <2>1. disk.pointer = {} \/ \E g \in Generation : disk.pointer = {g}
      BY <1>2 DEF TypeInv
    <2>2. CASE disk.pointer = {}
      BY <2>2, FS_EmptySet
    <2>3. ASSUME NEW x, disk.pointer = {x} PROVE Cardinality(disk.pointer) <= 1
      BY <2>3, FS_Singleton
    <2>4. QED
      BY <2>1, <2>2, <2>3
  <1>5. Cardinality(disk.pending) <= 1
    <2>1. disk.pending = {} \/ \E v \in Version : disk.pending = {v}
      BY <1>2 DEF TypeInv
    <2>2. CASE disk.pending = {}
      BY <2>2, FS_EmptySet
    <2>3. ASSUME NEW x, disk.pending = {x} PROVE Cardinality(disk.pending) <= 1
      BY <2>3, FS_Singleton
    <2>4. QED
      BY <2>1, <2>2, <2>3
  <1>6. TypeOK
    BY <1>2, <1>4, <1>5 DEF TypeOK, TypeInv, BoundsKept
  <1>7. QED
    BY <1>2, <1>3, <1>6 DEF DiskInv

LEMMA InvAuditAccepts == StoreInv => AuditAccepts
  BY DEF StoreInv, DiskInv, AuditAccepts, Listed

\* A reader is never handed a wrong index: it names only stored versions, all
\* that were confirmed or shown before the request and not asked to be yanked,
\* and none whose yank was confirmed before it
\* (load_or_recover_signed_index, with and without the lock).
THEOREM IndexSafety == Spec /\ LossesSynced => []IndexTrue
  BY StoreInductive, InvIndexTrue, PTL

\* What publish_request and yank_request confirmed is never undone, and the
\* storage stays within MAX_REGISTRY_INDEX_VERSIONS, yanked versions included
\* (the directory syncs before the answer, ensure_physical_version_capacity).
THEOREM StorageSafety == Spec /\ LossesSynced => []StorageSafe
  BY StoreInductive, InvStorageSafe, PTL

\* audit_registry_storage accepts whatever storage an interrupted server left,
\* unless yanked versions, which publish_request does not count, carry its
\* items over the limit of load_committed_metadata_for_recovery.
THEOREM AcceptedSafety == Spec /\ LossesSynced => []AuditAccepts
  BY StoreInductive, InvAuditAccepts, PTL

-----------------------------------------------------------------------------
(* Behaviours in which no sync is missing when the power fails *)

\* A behaviour either loses power or misses syncs, and not both.
Apart == \A b \in Bounds : b.losses = 0 \/ (b.syncs = 0 /\ b.kills = 0)

ApartInv == BoundsKept /\ (left.unsynced => left.losses = 0)

LeftMoves ==
    \/ left' = left
    \/ Spend("requests") \/ Spend("faults") \/ Spend("damages")
    \/ Spend("losses") /\ PowerLoss
    \/ SyncFault
    \/ left.kills > 0 /\ left' = [left EXCEPT !.kills = @ - 1, !.unsynced = TRUE]

LEMMA NextLeft ==
    ASSUME [Next]_vars PROVE LeftMoves
  <1>1. CASE UNCHANGED vars
    BY <1>1 DEF vars, LeftMoves
  <1>2. ASSUME NEW w \in Worker, Step(w) PROVE LeftMoves
    <2>1. CASE \/ GetPending(w) \/ GetPointer(w) \/ GetFiles(w) \/ Acquire(w)
               \/ TryAcquire(w) \/ InspectPublish(w) \/ InspectYank(w) \/ Ensure(w)
      BY <2>1 DEF GetPending, GetPointer, GetFiles, Acquire, TryAcquire, InspectPublish,
                  InspectYank, Ensure, Reads, LeftMoves
    <2>2. CASE \/ Discard(w) \/ Drop(w) \/ Scan(w) \/ Persist(w) \/ Mark(w) \/ Commit(w)
               \/ Switch(w) \/ Unmark(w) \/ Clean(w) \/ Sync(w) \/ Abort(w)
      BY <2>2 DEF Discard, Drop, Scan, Persist, Mark, Commit, Switch, Unmark, Clean, Sync, Abort,
                  Writes, LeftMoves
    <2>3. CASE AbortSync(w)
      BY <2>3 DEF AbortSync, LeftMoves
    <2>4. CASE LockTimeout(w) \/ Prepare(w) \/ Recovered(w) \/ Served(w) \/ Audit(w)
      BY <2>4 DEF LockTimeout, Prepare, Recovered, Served, Audit, LeftMoves
    <2>5. CASE MutationDone(w)
      BY <2>5 DEF MutationDone, Confirm, LeftMoves
    <2>6. CASE Decide(w)
      BY <2>6 DEF Decide, Confirm, LeftMoves
    <2>7. QED
      BY <1>2, <2>1, <2>2, <2>3, <2>4, <2>5, <2>6 DEF Step
  <1>3. ASSUME NEW w \in Worker, \/ CleanFails(w) \/ OperationFails(w) \/ SyncFails(w)
                                 \/ DropFails(w) \/ Misread(w)
        PROVE  LeftMoves
    BY <1>3 DEF CleanFails, OperationFails, SyncFails, DropFails, Misread, LeftMoves
  <1>4. ASSUME NEW w \in Worker, Restart(w) PROVE LeftMoves
    BY <1>4 DEF Restart, LeftMoves
  <1>5. ASSUME NEW w \in Worker, BeginGet(w) PROVE LeftMoves
    BY <1>5 DEF BeginGet, Begin, LeftMoves
  <1>6. ASSUME NEW w \in Worker, NEW v \in Version, BeginPublish(w, v) \/ BeginYank(w, v)
        PROVE  LeftMoves
    BY <1>6 DEF BeginPublish, BeginYank, Begin, LeftMoves
  <1>7. CASE Kill \/ PowerLoss \/ Damage
    BY <1>7 DEF Kill, PowerLoss, Damage, LeftMoves
  <1>8. QED
    BY <1>1, <1>2, <1>3, <1>4, <1>5, <1>6, <1>7 DEF Next

LEMMA ApartStep ==
    ASSUME Apart, ApartInv, LeftMoves
    PROVE  ApartInv'
  <1>1. BoundsKept'
    BY BoundFacts DEF ApartInv, LeftMoves, SameBounds
  <1>2. PICK b \in Bounds : \A f \in DOMAIN b \ {"fits", "unsynced"} : left[f] \in 0..b[f]
    BY DEF ApartInv, BoundsKept
  <1>3. b \in [requests : Nat, faults : Nat, syncs : Nat, kills : Nat,
               losses : Nat, damages : Nat, capacity : Nat, fits : Families,
               unsynced : {FALSE}]
    BY RegistryAssumption
  <1>4. left.losses \in 0..b.losses /\ left.syncs \in 0..b.syncs /\ left.kills \in 0..b.kills
    BY <1>2, <1>3
  <1>5. left.syncs > 0 \/ left.kills > 0 => left.losses = 0
    <2>1. b.losses \in Nat /\ b.syncs \in Nat /\ b.kills \in Nat
      BY <1>3
    <2>2. b.losses = 0 \/ (b.syncs = 0 /\ b.kills = 0)
      BY DEF Apart
    <2>3. QED
      BY <1>4, <2>1, <2>2
  <1>6. left \in Lefts
    BY DEF ApartInv, BoundsKept
  <1>7. left'.unsynced => left'.losses = 0
    <2>1. CASE left' = left
      BY <2>1 DEF ApartInv
    <2>2. CASE Spend("requests") \/ Spend("faults") \/ Spend("damages")
      <3>1. left'.unsynced = left.unsynced /\ left'.losses = left.losses
        BY <1>6, <2>2 DEF Spend, Lefts
      <3>2. QED
        BY <3>1 DEF ApartInv
    <2>3. CASE Spend("losses")
      <3>1. left'.unsynced = left.unsynced /\ left.losses > 0
        BY <1>6, <2>3 DEF Spend, Lefts
      <3>2. QED
        BY <3>1 DEF ApartInv
    <2>4. CASE SyncFault
      <3>1. left'.losses = left.losses /\ left.syncs > 0
        BY <1>6, <2>4 DEF SyncFault, Lefts
      <3>2. QED
        BY <1>5, <3>1
    <2>5. CASE left.kills > 0 /\ left' = [left EXCEPT !.kills = @ - 1, !.unsynced = TRUE]
      <3>1. left'.losses = left.losses
        BY <1>6, <2>5 DEF Lefts
      <3>2. QED
        BY <1>5, <2>5, <3>1
    <2>6. QED
      BY <2>1, <2>2, <2>3, <2>4, <2>5 DEF LeftMoves
  <1>8. QED
    BY <1>1, <1>7 DEF ApartInv

LEMMA LossSynced ==
    ASSUME ApartInv, PowerLoss PROVE ~left.unsynced
  <1>1. left.losses > 0
    BY DEF PowerLoss, Spend
  <1>2. QED
    BY <1>1 DEF ApartInv

LEMMA InitApart ==
    ASSUME Init PROVE ApartInv
  <1>1. BoundsKept
    BY InitSafe DEF StoreInv, TypeInv
  <1>2. left.unsynced = FALSE
    BY RegistryAssumption DEF Init
  <1>3. QED
    BY <1>1, <1>2 DEF ApartInv

\* The hypothesis is met by every behaviour whose bounds keep power losses
\* apart from process deaths and failing syncs, as those of run registry do:
\* for them the index handed to a reader, the confirmed publishes and yanks
\* and the startup audit are safe without a further assumption.
THEOREM ApartSafety ==
    ASSUME Apart
    PROVE  Spec => [](IndexTrue /\ StorageSafe /\ AuditAccepts)
  <1>1. Init => ApartInv
    BY InitApart
  <1>2. ApartInv /\ [Next]_vars => ApartInv'
    BY NextLeft, ApartStep
  <1>3. ApartInv => [PowerLoss => ~left.unsynced]_vars
    BY LossSynced
  <1>4. Spec => LossesSynced
    BY <1>1, <1>2, <1>3, PTL DEF Spec, LossesSynced
  <1>5. QED
    BY <1>4, StoreInductive, InvIndexTrue, InvStorageSafe, InvAuditAccepts, PTL

=============================================================================
