----------------------------- MODULE RepoStore -----------------------------
(***************************************************************************)
(* LmdbRepoStore, the block store of a repository                          *)
(* (lofire-store-lmdb/src/repostore.rs), shared by concurrent tasks.       *)
(*                                                                         *)
(* The store keeps four LMDB tables: the blocks, their BlockMeta, an index *)
(* of the blocks by expiry, and an index (the LRU) of the evictable blocks *)
(* by last use.  The RwLock around the environment is only ever            *)
(* read-locked, so what serialises the tasks is LMDB: readers see a        *)
(* snapshot and writers exclude each other.  A step of this module is one  *)
(* LMDB transaction; a call that uses several transactions is several      *)
(* steps, and the steps of other tasks come between them.                  *)
(*                                                                         *)
(* A block identifier is the hash of the block, its expiry included, so    *)
(* the expiry of a block is a constant.  Identifiers are numbers because   *)
(* LMDB keeps the entries of one index key in identifier order.            *)
(***************************************************************************)
EXTENDS Naturals

CONSTANTS
  Blocks,      \* block identifiers, in the order of their bytes
  Expiry,      \* expiry timestamp of the blocks that have one
  Size,        \* serialized size of each block
  Tasks,       \* tasks of the process that use the store
  SyncTimes,   \* timestamps has_been_synced may be called with
  EvictSizes,  \* amounts of space remove_least_used may be asked for
  MaxTime,     \* bound on the clock (minutes)
  NoMeta       \* a block without BlockMeta

Timestamp == Nat

\* BlockMeta: last_used is 0 until the block is synced.
BlockMeta == [pin : BOOLEAN, synced : BOOLEAN, last_used : Timestamp]

ASSUME ConstantsAssumption ==
  /\ Blocks \subseteq Nat
  /\ DOMAIN Expiry \subseteq Blocks
  /\ \A b \in DOMAIN Expiry : Expiry[b] \in Timestamp
  /\ Size \in [Blocks -> Nat \ {0}]
  /\ SyncTimes \subseteq Timestamp
  /\ EvictSizes \subseteq Nat
  /\ MaxTime \in Nat
  /\ NoMeta \notin BlockMeta

VARIABLES
  main_store,           \* blocks present
  meta_store,           \* BlockMeta of each block, or NoMeta
  expiry_store,         \* pairs <<expiry, block>>
  recently_used_store,  \* pairs <<last_used, block>>
  now,                  \* now_timestamp(), in minutes
  pc,                   \* what each task is in the middle of
  snap,                 \* get: the block and the meta of the read transaction
  todo,                 \* remove_*: index entries collected and not yet deleted
  total,                \* remove_least_used: space reclaimed so far
  goal,                 \* remove_least_used: space asked for
  outcome               \* how the last step ended for its caller

disk == <<main_store, meta_store, expiry_store, recently_used_store>>
local == <<pc, snap, todo, total, goal>>
vars == <<disk, now, local, outcome>>

IndexEntry == Timestamp \X Blocks

TypeOK ==
  /\ main_store \subseteq Blocks
  /\ meta_store \in [Blocks -> BlockMeta \cup {NoMeta}]
  /\ expiry_store \subseteq IndexEntry
  /\ recently_used_store \subseteq IndexEntry
  /\ now \in Timestamp
  /\ pc \in [Tasks -> {"idle", "get", "expire", "evict"}]
  /\ snap \in [Tasks -> [block : Blocks, meta : BlockMeta] \cup {NoMeta}]
  /\ todo \in [Tasks -> SUBSET IndexEntry]
  /\ total \in [Tasks -> Nat]
  /\ goal \in [Tasks -> Nat]
  /\ outcome \in {"ok", "notfound", "panic"}

Init ==
  /\ main_store = {}
  /\ meta_store = [b \in Blocks |-> NoMeta]
  /\ expiry_store = {}
  /\ recently_used_store = {}
  /\ now = 1
  /\ pc = [t \in Tasks |-> "idle"]
  /\ snap = [t \in Tasks |-> NoMeta]
  /\ todo = [t \in Tasks |-> {}]
  /\ total = [t \in Tasks |-> 0]
  /\ goal = [t \in Tasks |-> 0]
  /\ outcome = "ok"

-----------------------------------------------------------------------------
(***************************************************************************)
(* The tables as LMDB keeps them.                                          *)
(***************************************************************************)

\* The order in which a cursor visits the entries of an index.
Before(e, f) == e[1] < f[1] \/ (e[1] = f[1] /\ e[2] < f[2])

\* add_to_lru puts with APPEND_DUP: LMDB refuses an entry that does not sort
\* after the entries with the same key, except that the only entry of a key
\* may be put again.
AddToLruFails(lru, e) ==
  LET sameKey == {f \in lru : f[1] = e[1]}
  IN  \E f \in sameKey : ~ Before(f, e) /\ sameKey # {e}

\* Deleting an entry that is not there is an error.
RemoveFromLruFails(lru, e) == e \notin lru

HasMeta(b) == meta_store[b] # NoMeta

\* Mutant: a missing BlockMeta is not told apart from a synced one.
IsSyncedNoCheck(b) == ~ HasMeta(b) \/ meta_store[b].synced

IsSynced(b) == HasMeta(b) /\ meta_store[b].synced

ExpiryEntries(b) == IF b \in DOMAIN Expiry THEN {<<Expiry[b], b>>} ELSE {}

-----------------------------------------------------------------------------
(***************************************************************************)
(* Calls made of one write transaction.  An unwrap() that fails panics:    *)
(* the writer is dropped, which aborts its transaction, and the task dies; *)
(* a new one takes its place.                                              *)
(***************************************************************************)

Idle(t) == pc[t] = "idle"

Panic ==
  /\ outcome' = "panic"
  /\ UNCHANGED disk

\* Mutant: put forgets the expiry index.
put_unindexed(t, b) ==
  /\ Idle(t)
  /\ main_store' = main_store \cup {b}
  /\ outcome' = "ok"
  /\ UNCHANGED <<meta_store, expiry_store, recently_used_store, now, local>>

put(t, b) ==
  /\ Idle(t)
  /\ main_store' = main_store \cup {b}
  /\ expiry_store' = expiry_store \cup ExpiryEntries(b)
  /\ outcome' = "ok"
  /\ UNCHANGED <<meta_store, recently_used_store, now, local>>

\* Mutant: del leaves the LRU alone.
NoLruEntries(b) == {}

\* The LRU entries del removes: the one its BlockMeta points at, if any.
LruEntries(b) ==
  IF HasMeta(b) /\ meta_store[b].last_used # 0
  THEN {<<meta_store[b].last_used, b>>}
  ELSE {}

DelPanics(b) ==
  \/ \E e \in LruEntries(b) : RemoveFromLruFails(recently_used_store, e)
  \/ ~ ExpiryEntries(b) \subseteq expiry_store

\* The transaction of del.
DelTxn(b) ==
  \/ /\ b \notin main_store
     /\ outcome' = "notfound"
     /\ UNCHANGED disk
  \/ /\ b \in main_store
     /\ DelPanics(b)
     /\ Panic
  \/ /\ b \in main_store
     /\ ~ DelPanics(b)
     /\ recently_used_store' = recently_used_store \ LruEntries(b)
     /\ meta_store' = [meta_store EXCEPT ![b] = NoMeta]
     /\ main_store' = main_store \ {b}
     /\ expiry_store' = expiry_store \ ExpiryEntries(b)
     /\ outcome' = "ok"

del(t, b) ==
  /\ Idle(t)
  /\ DelTxn(b)
  /\ UNCHANGED <<now, local>>

\* Pinning takes the entry of a synced block out of the LRU, unpinning puts it
\* back under its last use.  Nothing requires that the block be in the store.
set_pin(t, b, add) ==
  LET meta == meta_store[b]
      e == <<meta.last_used, b>>
      save(m) == /\ meta_store' = [meta_store EXCEPT ![b] = m]
                 /\ outcome' = "ok"
                 /\ UNCHANGED <<main_store, expiry_store>>
      nop == outcome' = "ok" /\ UNCHANGED disk
  IN  /\ Idle(t)
      /\ \/ ~ HasMeta(b) /\ ~ add /\ nop
         \/ /\ ~ HasMeta(b) /\ add
            /\ save([pin |-> TRUE, synced |-> FALSE, last_used |-> 0])
            /\ UNCHANGED recently_used_store
         \/ HasMeta(b) /\ add = meta.pin /\ nop
         \/ /\ HasMeta(b) /\ add # meta.pin /\ ~ meta.synced
            /\ save([meta EXCEPT !.pin = add])
            /\ UNCHANGED recently_used_store
         \/ /\ HasMeta(b) /\ ~ meta.pin /\ add /\ meta.synced
            /\ IF RemoveFromLruFails(recently_used_store, e)
               THEN Panic
               ELSE /\ recently_used_store' = recently_used_store \ {e}
                    /\ save([meta EXCEPT !.pin = TRUE])
         \/ /\ HasMeta(b) /\ meta.pin /\ ~ add /\ meta.synced
            /\ IF AddToLruFails(recently_used_store, e)
               THEN Panic
               ELSE /\ recently_used_store' = recently_used_store \cup {e}
                    /\ save([meta EXCEPT !.pin = FALSE])
      /\ UNCHANGED <<now, local>>

\* when: the caller's timestamp, or the current time if it gives none.
has_been_synced(t, b, when) ==
  LET pinned == HasMeta(b) /\ meta_store[b].pin
      e == <<when, b>>
      save == meta_store' = [meta_store EXCEPT ![b] =
                 [pin |-> pinned, synced |-> TRUE, last_used |-> when]]
  IN  /\ Idle(t)
      /\ \/ /\ IsSynced(b)
            /\ outcome' = "ok"
            /\ UNCHANGED disk
         \/ /\ ~ IsSynced(b) /\ pinned
            /\ save
            /\ outcome' = "ok"
            /\ UNCHANGED <<main_store, expiry_store, recently_used_store>>
         \/ /\ ~ IsSynced(b) /\ ~ pinned
            /\ IF AddToLruFails(recently_used_store, e)
               THEN Panic
               ELSE /\ recently_used_store' = recently_used_store \cup {e}
                    /\ save
                    /\ outcome' = "ok"
                    /\ UNCHANGED <<main_store, expiry_store>>
      /\ UNCHANGED <<now, local>>

-----------------------------------------------------------------------------
(***************************************************************************)
(* get: a read transaction, and for a synced block a write transaction     *)
(* that records the use, computed from the meta the first one read.        *)
(***************************************************************************)

get(t, b) ==
  /\ Idle(t)
  /\ \/ /\ b \notin main_store
        /\ outcome' = "notfound"
        /\ UNCHANGED local
     \/ /\ b \in main_store
        /\ ~ IsSynced(b)
        /\ outcome' = "ok"
        /\ UNCHANGED local
     \/ /\ b \in main_store
        /\ IsSynced(b)
        /\ pc' = [pc EXCEPT ![t] = "get"]
        /\ snap' = [snap EXCEPT ![t] = [block |-> b, meta |-> meta_store[b]]]
        /\ UNCHANGED <<todo, total, goal, outcome>>
  /\ UNCHANGED <<disk, now>>

Return(t) ==
  /\ pc' = [pc EXCEPT ![t] = "idle"]
  /\ snap' = [snap EXCEPT ![t] = NoMeta]
  /\ todo' = [todo EXCEPT ![t] = {}]
  /\ total' = [total EXCEPT ![t] = 0]
  /\ goal' = [goal EXCEPT ![t] = 0]

\* Mutant: the new use is recorded in the LRU but not in the meta.
TouchedMetaStale(meta) == meta

TouchedMeta(meta) == [meta EXCEPT !.last_used = now]

get_touch(t) ==
  LET b == snap[t].block
      meta == snap[t].meta
      old == <<meta.last_used, b>>
      new == <<now, b>>
      save == /\ meta_store' =
                   [meta_store EXCEPT ![b] = TouchedMeta(meta)]
              /\ outcome' = "ok"
              /\ UNCHANGED <<main_store, expiry_store>>
  IN  /\ pc[t] = "get"
      /\ IF meta.pin
         THEN save /\ UNCHANGED recently_used_store
         ELSE IF \/ RemoveFromLruFails(recently_used_store, old)
                 \/ AddToLruFails(recently_used_store \ {old}, new)
              THEN Panic
              ELSE /\ recently_used_store' =
                        (recently_used_store \ {old}) \cup {new}
                   /\ save
      /\ Return(t)
      /\ UNCHANGED now

-----------------------------------------------------------------------------
(***************************************************************************)
(* The sweeps: a read transaction collects index entries, then each block  *)
(* is deleted by a transaction of its own.  The result of del is unwrapped.*)
(***************************************************************************)

\* Mutant: off by one minute.
IsExpiredEarly(time) == time <= now + 1

IsExpired(time) == time <= now

remove_expired(t) ==
  LET expired == {e \in expiry_store : IsExpired(e[1])}
  IN  /\ Idle(t)
      /\ IF expired = {}
         THEN outcome' = "ok" /\ UNCHANGED local
         ELSE /\ pc' = [pc EXCEPT ![t] = "expire"]
              /\ todo' = [todo EXCEPT ![t] = expired]
              /\ UNCHANGED <<snap, total, goal, outcome>>
      /\ UNCHANGED <<disk, now>>

\* The latest expiry first, and among equals the smallest identifier.
NextToExpire(e, S) ==
  e \in S /\ \A f \in S : f[1] < e[1] \/ (f[1] = e[1] /\ e[2] <= f[2])

\* del(..).unwrap() panics on NotFound too.
UnwrappedDel(t, b, Continue) ==
  \/ /\ b \in main_store /\ ~ DelPanics(b)
     /\ DelTxn(b)
     /\ Continue
  \/ /\ b \notin main_store \/ DelPanics(b)
     /\ Panic
     /\ Return(t)

expire_one(t) ==
  /\ pc[t] = "expire"
  /\ \E e \in todo[t] :
        /\ NextToExpire(e, todo[t])
        /\ UnwrappedDel(t, e[2],
             IF todo[t] = {e}
             THEN Return(t)
             ELSE /\ todo' = [todo EXCEPT ![t] = @ \ {e}]
                  /\ UNCHANGED <<pc, snap, total, goal>>)
  /\ UNCHANGED now

remove_least_used(t, size) ==
  /\ Idle(t)
  /\ IF recently_used_store = {}
     THEN outcome' = "ok" /\ UNCHANGED local
     ELSE /\ pc' = [pc EXCEPT ![t] = "evict"]
          /\ todo' = [todo EXCEPT ![t] = recently_used_store]
          /\ goal' = [goal EXCEPT ![t] = size]
          /\ UNCHANGED <<snap, total, outcome>>
  /\ UNCHANGED <<disk, now>>

\* Mutant: the most recent use first.
NextToEvictNewest(e, S) == e \in S /\ \A f \in S : f = e \/ Before(f, e)

\* The oldest use first.
NextToEvict(e, S) == e \in S /\ \A f \in S : f = e \/ Before(e, f)

evict_one(t) ==
  /\ pc[t] = "evict"
  /\ \E e \in todo[t] :
        /\ NextToEvict(e, todo[t])
        /\ UnwrappedDel(t, e[2],
             LET reclaimed == total[t] + Size[e[2]]
             IN  IF todo[t] = {e} \/ reclaimed >= goal[t]
                 THEN Return(t)
                 ELSE /\ todo' = [todo EXCEPT ![t] = @ \ {e}]
                      /\ total' = [total EXCEPT ![t] = reclaimed]
                      /\ UNCHANGED <<pc, snap, goal>>)
  /\ UNCHANGED now

-----------------------------------------------------------------------------

Tick ==
  /\ now < MaxTime
  /\ now' = now + 1
  /\ UNCHANGED <<disk, local, outcome>>

\* The process dies and is started again: what is committed stays.
Restart ==
  /\ pc' = [t \in Tasks |-> "idle"]
  /\ snap' = [t \in Tasks |-> NoMeta]
  /\ todo' = [t \in Tasks |-> {}]
  /\ total' = [t \in Tasks |-> 0]
  /\ goal' = [t \in Tasks |-> 0]
  /\ outcome' = "ok"
  /\ UNCHANGED <<disk, now>>

BlockCall(t, b) ==
  \/ put(t, b)
  \/ del(t, b)
  \/ get(t, b)
  \/ \E add \in BOOLEAN : set_pin(t, b, add)
  \/ \E when \in SyncTimes \cup {now} : has_been_synced(t, b, when)

Next ==
  \/ \E t \in Tasks :
        \/ \E b \in Blocks : BlockCall(t, b)
        \/ get_touch(t)
        \/ remove_expired(t)
        \/ expire_one(t)
        \/ \E size \in EvictSizes : remove_least_used(t, size)
        \/ evict_one(t)
  \/ Tick
  \/ Restart

Spec == Init /\ [][Next]_vars

-----------------------------------------------------------------------------
(***************************************************************************)
(* What holds however the tasks interleave.                                *)
(***************************************************************************)

\* The expiry index lists exactly the stored blocks that expire, so
\* remove_expired misses none and the delete in del never fails on it.
ExpiryIndexExact ==
  expiry_store = {<<Expiry[b], b>> : b \in main_store \cap DOMAIN Expiry}

\* A block that may be evicted can be found: if its BlockMeta says synced and
\* not pinned, the LRU has it under its last use.  Otherwise the block could
\* never be evicted, and del and set_pin would panic on it.
EvictableTracked ==
  \A b \in Blocks :
    IsSynced(b) /\ ~ meta_store[b].pin
      => <<meta_store[b].last_used, b>> \in recently_used_store

\* Only a pin makes the store panic on a block it has: whatever was lost to
\* races, del and pin find what they remove when the block is not pinned.
PanicsOnlyIfPinned ==
  \A b \in main_store :
    ~ (HasMeta(b) /\ meta_store[b].pin) =>
      /\ ~ DelPanics(b)
      /\ IsSynced(b) =>
           ~ RemoveFromLruFails(recently_used_store, <<meta_store[b].last_used, b>>)

\* The identifiers remove_expired collected may be stale by the time it
\* deletes them (the block deleted and stored again), but what it deletes has
\* expired all the same.
ExpirerSound ==
  [][\A t \in Tasks : expire_one(t) =>
       \A b \in main_store \ main_store' :
          b \in DOMAIN Expiry /\ Expiry[b] <= now]_vars

-----------------------------------------------------------------------------
(***************************************************************************)
(* What holds when one task uses the store (Tasks is a singleton).         *)
(***************************************************************************)

\* The LRU lists exactly the blocks that are synced and not pinned, each once
\* and under its last use.
LruExact ==
  recently_used_store =
    {<<meta_store[b].last_used, b>> :
        b \in {c \in Blocks : IsSynced(c) /\ ~ meta_store[c].pin}}

\* The store implements the retention policy: blocks leave it by del, by
\* expiry, or as the least recently used of the blocks that may be evicted.
Policy == INSTANCE RetentionPolicy WITH
  blocks <- main_store,
  meta <- meta_store,
  activity <- pc[CHOOSE t \in Tasks : TRUE],
  answer <- outcome

PolicySpec == Policy!Spec

-----------------------------------------------------------------------------
(***************************************************************************)
(* What the comments of repostore.rs say and the code does not do.         *)
(***************************************************************************)

\* "A pin on an object prevents it from being removed when the store is making
\* some disk space by using the LRU."  remove_least_used deletes the blocks it
\* listed earlier whatever happened to them since.
PinnedNotEvicted ==
  [][\A t \in Tasks : evict_one(t) =>
       \A b \in main_store \ main_store' :
          ~ (HasMeta(b) /\ meta_store[b].pin)]_vars
=============================================================================
