----------------------------- MODULE BlockCache -----------------------------
(***************************************************************************)
(* easy-fs/src/block_cache.rs: the BlockCacheManager, a bounded FIFO of    *)
(* write-back caches of single blocks.  A cache is shared by reference     *)
(* counting: it lives while it is in the queue or a client has a handle    *)
(* (an Arc) to it, and it is written back when the last reference goes.    *)
(***************************************************************************)
EXTENDS Integers, Sequences, SequencesExt, FiniteSets

CONSTANTS Blocks,      \* block ids of the device
          Data,        \* contents of a block
          CacheSize,   \* BLOCK_CACHE_SIZE
          Clients,     \* threads that use the cache
          MaxHeld      \* handles a client has at a time

(* An operation of easy-fs has at most three handles at a time, the blocks *)
(* of the inode, of indirect2 and of indirect1, and the cache has 16: the  *)
(* handles of all clients together are never more than CacheSize.          *)
(* Memory for caches: the queue and the handles refer to these slots. *)
Slots == 1 .. 2 * CacheSize

VARIABLES disk,     \* the device
          caches,   \* the BlockCache in each slot in use: block_id, cache, modified
          queue,    \* BlockCacheManager::queue
          held,     \* the handles of each client
          versions, \* the values each block has had since the last sync
          seen      \* what the last read of a block returned

cacheVars == <<disk, caches, queue, held, versions, seen>>

CacheInit ==
  /\ disk \in [Blocks -> Data]
  /\ caches = << >>
  /\ \E b \in Blocks : seen = <<b, disk[b]>>
  /\ queue = << >>
  /\ held = [c \in Clients |-> {}]
  /\ versions = [b \in Blocks |-> {disk[b]}]

-----------------------------------------------------------------------------
(* Handles to slot s that clients have, beside the one in the queue. *)
Handles(s) == {c \in Clients : s \in held[c]}

(* Faulty variant: sync and drop write nothing. *)
SyncedNot(S) == disk

(* BlockCache::sync for the slots S, oldest first; also what drop does.    *)
(* No two of them are caches of one block.                                 *)
Synced(S) ==
  [b \in Blocks |->
     IF \E s \in S : caches[s].id = b /\ caches[s].modified
     THEN caches[CHOOSE s \in S : caches[s].id = b /\ caches[s].modified].data
     ELSE disk[b]]

-----------------------------------------------------------------------------
(* Faulty variants, for showing that the properties depend on the code. *)

(* Eviction takes the front of the queue, used or not. *)
VictimsAny == {i \in DOMAIN queue : i = 1}

(* Eviction of the front of the queue only, if it is not in use. *)
VictimsFront == {i \in DOMAIN queue : i = 1 /\ Handles(queue[i]) = {}}

-----------------------------------------------------------------------------
(* The position get_block_cache evicts: the first cache nobody uses. *)
Victims ==
  {i \in DOMAIN queue :
     /\ Handles(queue[i]) = {}
     /\ \A j \in 1 .. i - 1 : Handles(queue[j]) # {}}

(* The caches that are left: in queue q, or with a handle in h. *)
InUse(q, h) == Restrict(caches, DOMAIN caches \cap (Range(q) \cup UNION Range(h)))

(* BlockCache::new in a free slot, read from device d, q is the queue. *)
NewCache(c, b, d, q) ==
  LET s == CHOOSE x \in Slots : x \notin Range(q) /\ Handles(x) = {} IN
  /\ caches' = (s :> [id |-> b, data |-> d[b], modified |-> FALSE]) @@ InUse(q, held)
  /\ queue' = Append(q, s)
  /\ held' = [held EXCEPT ![c] = @ \cup {s}]
  /\ disk' = d

(* get_block_cache: the queue has the block. *)
GetHit(c, b) ==
  \E i \in DOMAIN queue :
    /\ caches[queue[i]].id = b
    /\ held' = [held EXCEPT ![c] = @ \cup {queue[i]}]
    /\ UNCHANGED <<disk, caches, queue>>

Miss(b) == \A i \in DOMAIN queue : caches[queue[i]].id # b

GetMiss(c, b) ==
  /\ Miss(b)
  /\ Len(queue) < CacheSize
  /\ NewCache(c, b, disk, queue)

(* The victim leaves the queue; its last reference writes it back. *)
GetEvict(c, b) ==
  /\ Miss(b)
  /\ Len(queue) = CacheSize
  /\ \E i \in Victims :
       NewCache(c, b, IF Handles(queue[i]) = {} THEN Synced({queue[i]}) ELSE disk,
            RemoveAt(queue, i))

GetBlockCache(c, b) ==
  /\ Cardinality(held[c]) < MaxHeld
  /\ GetHit(c, b) \/ GetMiss(c, b) \/ GetEvict(c, b)
  /\ UNCHANGED <<versions, seen>>

(* BlockCache::read and modify, under the lock of the cache. *)
ReadCache(c, s) ==
  /\ s \in held[c]
  /\ seen' = <<caches[s].id, caches[s].data>>
  /\ UNCHANGED <<disk, caches, queue, held, versions>>

ModifyCache(c, s, v) ==
  /\ s \in held[c]
  /\ caches' = [caches EXCEPT ![s] = [id |-> @.id, data |-> v, modified |-> TRUE]]
  /\ versions' = [versions EXCEPT ![caches[s].id] = @ \cup {v}]
  /\ UNCHANGED <<disk, queue, held, seen>>

(* A client drops a handle; a cache no longer in the queue is written back *)
(* with its last handle.                                                   *)
Release(c, s) ==
  /\ s \in held[c]
  /\ held' = [held EXCEPT ![c] = @ \ {s}]
  /\ disk' = IF s \notin Range(queue) /\ Handles(s) = {c} THEN Synced({s}) ELSE disk
  /\ caches' = InUse(queue, held')
  /\ UNCHANGED <<queue, versions, seen>>

(* block_cache_sync_all *)
BlockCacheSyncAll ==
  /\ disk' = Synced(Range(queue))
  /\ caches' = [s \in DOMAIN caches |->
       IF s \in Range(queue) THEN [caches[s] EXCEPT !.modified = FALSE] ELSE caches[s]]
  /\ versions' = [b \in Blocks |-> {disk'[b]}]
  /\ UNCHANGED <<queue, held, seen>>

(* Power is lost: the device is all that remains. *)
Crash ==
  /\ queue' = << >>
  /\ held' = [c \in Clients |-> {}]
  /\ caches' = << >>
  /\ versions' = [b \in Blocks |-> {disk[b]}]
  /\ UNCHANGED <<disk, seen>>

CacheNext ==
  \/ \E c \in Clients, b \in Blocks : GetBlockCache(c, b)
  \/ \E c \in Clients, s \in Slots :
       ReadCache(c, s) \/ Release(c, s) \/ \E v \in Data : ModifyCache(c, s, v)
  \/ BlockCacheSyncAll
  \/ Crash

CacheSpec == CacheInit /\ [][CacheNext]_cacheVars

-----------------------------------------------------------------------------
(* Properties.                                                             *)

(* Types, the bound on the queue, and no cache of a block twice in it. *)
CacheTypeOK ==
  /\ disk \in [Blocks -> Data]
  /\ DOMAIN caches \subseteq Slots
  /\ Range(caches) \subseteq [id : Blocks, data : Data, modified : BOOLEAN]
  /\ queue \in Seq(Slots)
  /\ Len(queue) <= CacheSize
  /\ held \in [Clients -> SUBSET Slots]
  /\ versions \in [Blocks -> SUBSET Data]
  /\ seen \in Blocks \X Data

(* get_block_cache never panics with "Run out of BlockCache!": a client    *)
(* that needs a block finds it, or room for it, or a cache nobody uses.    *)
NeverRunsOut ==
  \A c \in Clients :
    (Len(queue) = CacheSize /\ Cardinality(held[c]) < MaxHeld) => Victims # {}

(* A block's contents as the clients see them: cached, or on the device. *)
StoreContents(b) ==
  IF Miss(b) THEN disk[b]
  ELSE caches[queue[CHOOSE i \in DOMAIN queue : caches[queue[i]].id = b]].data

Stored == [b \in Blocks |-> StoreContents(b)]
Store == INSTANCE BlockStore WITH store <- Stored

(* The cache implements the block store, crashes included: reads return    *)
(* the last write through eviction and reloading and by whichever handle,  *)
(* because a cache in use is not evicted, and a crash never undoes what    *)
(* was written before the last block_cache_sync_all.                       *)
StoreSpec == Store!Spec

=============================================================================
