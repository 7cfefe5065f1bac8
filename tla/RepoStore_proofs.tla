-------------------------- MODULE RepoStore_proofs --------------------------
(***************************************************************************)
(* Proofs about RepoStore for any blocks, tasks and times.                 *)
(***************************************************************************)
EXTENDS RepoStore, TLAPS

(***************************************************************************)
(* Any number of tasks.  The inductive invariant adds to the checked ones  *)
(* what a task in the middle of a call relies on: the snapshot a get wrote *)
(* down is of a synced block, and whatever remove_expired has collected    *)
(* has expired.  The two halves are preserved separately: DiskInv by the   *)
(* transactions, LocalInv by the control of the calls.                     *)
(***************************************************************************)

\* last_used is 0 until the block is synced.
UnsyncedUnused ==
  \A b \in Blocks :
    HasMeta(b) /\ ~ meta_store[b].synced => meta_store[b].last_used = 0

DiskInv ==
  /\ main_store \subseteq Blocks
  /\ meta_store \in [Blocks -> BlockMeta \cup {NoMeta}]
  /\ expiry_store \subseteq IndexEntry
  /\ recently_used_store \subseteq IndexEntry
  /\ outcome \in {"ok", "notfound", "panic"}
  /\ ExpiryIndexExact
  /\ EvictableTracked
  /\ UnsyncedUnused

Snapshot == [block : Blocks, meta : BlockMeta]

LocalInv ==
  /\ now \in Timestamp
  /\ pc \in [Tasks -> {"idle", "get", "expire", "evict"}]
  /\ snap \in [Tasks -> Snapshot \cup {NoMeta}]
  /\ todo \in [Tasks -> SUBSET IndexEntry]
  /\ total \in [Tasks -> Nat]
  /\ goal \in [Tasks -> Nat]
  /\ \A t \in Tasks :
       /\ pc[t] = "get" => snap[t] \in Snapshot /\ snap[t].meta.synced
       /\ pc[t] = "expire" =>
            \A e \in todo[t] : /\ e[2] \in DOMAIN Expiry
                               /\ Expiry[e[2]] = e[1]
                               /\ e[1] <= now

IInv == DiskInv /\ LocalInv

\* An aborted or empty transaction changes nothing on disk.
LEMMA DiskUnchanged ==
  ASSUME DiskInv, UNCHANGED disk, outcome' \in {"ok", "notfound", "panic"}
  PROVE  DiskInv'
BY DEF DiskInv, disk, ExpiryIndexExact, EvictableTracked, UnsyncedUnused, IsSynced,
       HasMeta

LEMMA LocalUnchanged ==
  ASSUME LocalInv, UNCHANGED <<now, local>>
  PROVE  LocalInv'
BY DEF LocalInv, local

\* A call that returns forgets its local state.
LEMMA ReturnLocal ==
  ASSUME LocalInv, NEW t \in Tasks, Return(t), UNCHANGED now
  PROVE  LocalInv'
BY DEF LocalInv, Return

\* The one transaction that removes blocks keeps both indexes.
LEMMA DelTxnDisk ==
  ASSUME DiskInv, NEW b \in Blocks, DelTxn(b)
  PROVE  DiskInv'
<1>1. CASE b \notin main_store \/ DelPanics(b)
  BY <1>1, DiskUnchanged DEF DelTxn, Panic
<1>2. CASE b \in main_store /\ ~ DelPanics(b)
  <2>1. /\ recently_used_store' = recently_used_store \ LruEntries(b)
        /\ meta_store' = [meta_store EXCEPT ![b] = NoMeta]
        /\ main_store' = main_store \ {b}
        /\ expiry_store' = expiry_store \ ExpiryEntries(b)
        /\ outcome' = "ok"
    BY <1>2 DEF DelTxn
  <2>2. ExpiryIndexExact'
    BY <2>1 DEF DiskInv, ExpiryIndexExact, ExpiryEntries
  <2>3. EvictableTracked'
    <3> SUFFICES ASSUME NEW c \in Blocks, IsSynced(c)', ~ meta_store'[c].pin
                 PROVE  <<meta_store'[c].last_used, c>> \in recently_used_store'
      BY DEF EvictableTracked
    <3>1. c # b /\ meta_store'[c] = meta_store[c]
      BY <2>1 DEF DiskInv, IsSynced, HasMeta
    <3>2. <<meta_store[c].last_used, c>> \in recently_used_store
      BY <3>1 DEF DiskInv, EvictableTracked, IsSynced, HasMeta
    <3> QED BY <2>1, <3>1, <3>2 DEF LruEntries
  <2>4. UnsyncedUnused'
    BY <2>1 DEF DiskInv, UnsyncedUnused, HasMeta
  <2> QED BY <2>1, <2>2, <2>3, <2>4 DEF DiskInv
<1> QED BY <1>1, <1>2

LEMMA PutDisk ==
  ASSUME IInv, NEW t \in Tasks, NEW b \in Blocks, put(t, b)
  PROVE  DiskInv'
<1>1. main_store' \subseteq Blocks /\ expiry_store' \subseteq IndexEntry
  BY ConstantsAssumption DEF IInv, DiskInv, put, ExpiryEntries, IndexEntry
<1>2. ExpiryIndexExact'
  BY DEF IInv, DiskInv, put, ExpiryIndexExact, ExpiryEntries
<1>3. EvictableTracked'
  BY DEF IInv, DiskInv, put, EvictableTracked, IsSynced, HasMeta
<1>4. UnsyncedUnused'
  BY DEF IInv, DiskInv, put, UnsyncedUnused, HasMeta
<1> QED BY <1>1, <1>2, <1>3, <1>4 DEF IInv, DiskInv, put

\* A transaction that saves m as the meta of b, and leaves the LRU with an
\* entry for it if b is now evictable and with the entries of other blocks.
LEMMA SaveDisk ==
  ASSUME DiskInv, NEW b \in Blocks, NEW m \in BlockMeta,
         meta_store' = [meta_store EXCEPT ![b] = m],
         recently_used_store' \subseteq IndexEntry,
         \A e \in recently_used_store : e[2] # b => e \in recently_used_store',
         m.synced /\ ~ m.pin => <<m.last_used, b>> \in recently_used_store',
         m.synced \/ m.last_used = 0,
         UNCHANGED <<main_store, expiry_store>>,
         outcome' = "ok"
  PROVE  DiskInv'
<1>1. ExpiryIndexExact'
  BY DEF DiskInv, ExpiryIndexExact
<1>2. EvictableTracked'
  <2> SUFFICES ASSUME NEW c \in Blocks, IsSynced(c)', ~ meta_store'[c].pin
               PROVE  <<meta_store'[c].last_used, c>> \in recently_used_store'
    BY DEF EvictableTracked
  <2>1. CASE c = b
    BY <2>1 DEF DiskInv, IsSynced, HasMeta
  <2>2. CASE c # b
    <3>1. meta_store'[c] = meta_store[c]
      BY <2>2 DEF DiskInv
    <3>2. <<meta_store[c].last_used, c>> \in recently_used_store
      BY <3>1 DEF DiskInv, EvictableTracked, IsSynced, HasMeta
    <3> QED BY <2>2, <3>1, <3>2
  <2> QED BY <2>1, <2>2
<1>3. UnsyncedUnused'
  BY DEF DiskInv, UnsyncedUnused, HasMeta
<1> QED BY <1>1, <1>2, <1>3 DEF DiskInv

LEMMA SetPinDisk ==
  ASSUME IInv, NEW t \in Tasks, NEW b \in Blocks, NEW add \in BOOLEAN,
         set_pin(t, b, add)
  PROVE  DiskInv'
<1> DEFINE meta == meta_store[b]
           e == <<meta.last_used, b>>
<1> USE DEF IInv
<1>1. CASE ~ HasMeta(b)
  <2>1. CASE ~ add
    BY <1>1, <2>1, DiskUnchanged DEF set_pin
  <2>2. CASE add
    <3> DEFINE m == [pin |-> TRUE, synced |-> FALSE, last_used |-> 0]
    <3>1. m \in BlockMeta
      BY DEF BlockMeta, Timestamp
    <3>2. /\ meta_store' = [meta_store EXCEPT ![b] = m]
          /\ outcome' = "ok"
          /\ UNCHANGED <<main_store, expiry_store, recently_used_store>>
      BY <1>1, <2>2 DEF set_pin
    <3>3. recently_used_store' \subseteq IndexEntry
      BY <3>2 DEF DiskInv
    <3> QED BY <3>1, <3>2, <3>3, SaveDisk
  <2> QED BY <2>1, <2>2
<1>2. CASE HasMeta(b) /\ add = meta.pin
  BY <1>2, DiskUnchanged DEF set_pin
<1>3. CASE HasMeta(b) /\ add # meta.pin
  <2>1. meta \in BlockMeta
    BY <1>3 DEF DiskInv, HasMeta
  <2> DEFINE m == [meta EXCEPT !.pin = add]
  <2>2. /\ m \in BlockMeta
        /\ m.pin = add
        /\ m.synced = meta.synced
        /\ m.last_used = meta.last_used
    BY <2>1 DEF BlockMeta
  <2>3. e \in IndexEntry /\ (m.synced \/ m.last_used = 0)
    BY <1>3, <2>1, <2>2 DEF BlockMeta, IndexEntry, DiskInv, UnsyncedUnused
  <2>4. CASE ~ meta.synced
    <3>1. /\ meta_store' = [meta_store EXCEPT ![b] = m]
          /\ outcome' = "ok"
          /\ UNCHANGED <<main_store, expiry_store, recently_used_store>>
      BY <1>3, <2>4 DEF set_pin
    <3>2. recently_used_store' \subseteq IndexEntry
      BY <3>1 DEF DiskInv
    <3> QED BY <2>2, <2>3, <2>4, <3>1, <3>2, SaveDisk
  <2>5. CASE meta.synced /\ add
    <3>1. CASE RemoveFromLruFails(recently_used_store, e)
      BY <1>3, <2>1, <2>5, <3>1, DiskUnchanged DEF set_pin, Panic, BlockMeta
    <3>2. CASE ~ RemoveFromLruFails(recently_used_store, e)
      <4>1. /\ meta_store' = [meta_store EXCEPT ![b] = m]
            /\ recently_used_store' = recently_used_store \ {e}
            /\ outcome' = "ok"
            /\ UNCHANGED <<main_store, expiry_store>>
        BY <1>3, <2>1, <2>5, <3>2 DEF set_pin, BlockMeta
      <4>2. recently_used_store' \subseteq IndexEntry
        BY <4>1 DEF DiskInv
      <4>3. \A f \in recently_used_store : f[2] # b => f \in recently_used_store'
        BY <4>1
      <4> QED BY <2>2, <2>3, <2>5, <4>1, <4>2, <4>3, SaveDisk
    <3> QED BY <3>1, <3>2
  <2>6. CASE meta.synced /\ ~ add
    <3>1. CASE AddToLruFails(recently_used_store, e)
      BY <1>3, <2>1, <2>6, <3>1, DiskUnchanged DEF set_pin, Panic, BlockMeta
    <3>2. CASE ~ AddToLruFails(recently_used_store, e)
      <4>1. /\ meta_store' = [meta_store EXCEPT ![b] = m]
            /\ recently_used_store' = recently_used_store \cup {e}
            /\ outcome' = "ok"
            /\ UNCHANGED <<main_store, expiry_store>>
        BY <1>3, <2>1, <2>6, <3>2 DEF set_pin, BlockMeta
      <4>2. recently_used_store' \subseteq IndexEntry
        BY <2>3, <4>1 DEF DiskInv
      <4>3. \A f \in recently_used_store : f[2] # b => f \in recently_used_store'
        BY <4>1
      <4>4. <<m.last_used, b>> \in recently_used_store'
        BY <2>2, <4>1
      <4> HIDE DEF m
      <4> QED BY <2>2, <2>3, <4>1, <4>2, <4>3, <4>4, SaveDisk
    <3> QED BY <3>1, <3>2
  <2> QED BY <2>4, <2>5, <2>6
<1> QED BY <1>1, <1>2, <1>3

LEMMA HasBeenSyncedDisk ==
  ASSUME IInv, NEW t \in Tasks, NEW b \in Blocks, NEW when \in Timestamp,
         has_been_synced(t, b, when)
  PROVE  DiskInv'
<1> DEFINE pinned == HasMeta(b) /\ meta_store[b].pin
           e == <<when, b>>
           m == [pin |-> pinned, synced |-> TRUE, last_used |-> when]
<1> USE DEF IInv
<1>1. m \in BlockMeta /\ e \in IndexEntry
  BY DEF DiskInv, BlockMeta, IndexEntry, HasMeta
<1>2. CASE IsSynced(b)
  BY <1>2, DiskUnchanged DEF has_been_synced
<1>3. CASE ~ IsSynced(b) /\ pinned
  <2>1. /\ meta_store' = [meta_store EXCEPT ![b] = m]
        /\ outcome' = "ok"
        /\ UNCHANGED <<main_store, expiry_store, recently_used_store>>
    BY <1>3 DEF has_been_synced
  <2>2. recently_used_store' \subseteq IndexEntry
    BY <2>1 DEF DiskInv
  <2> QED BY <1>1, <1>3, <2>1, <2>2, SaveDisk
<1>4. CASE ~ IsSynced(b) /\ ~ pinned /\ AddToLruFails(recently_used_store, e)
  BY <1>4, DiskUnchanged DEF has_been_synced, Panic
<1>5. CASE ~ IsSynced(b) /\ ~ pinned /\ ~ AddToLruFails(recently_used_store, e)
  <2>1. /\ meta_store' = [meta_store EXCEPT ![b] = m]
        /\ recently_used_store' = recently_used_store \cup {e}
        /\ outcome' = "ok"
        /\ UNCHANGED <<main_store, expiry_store>>
    BY <1>5 DEF has_been_synced
  <2>2. recently_used_store' \subseteq IndexEntry
    BY <1>1, <2>1 DEF DiskInv
  <2>3. \A f \in recently_used_store : f[2] # b => f \in recently_used_store'
    BY <2>1
  <2> QED BY <1>1, <2>1, <2>2, <2>3, SaveDisk
<1> QED BY <1>2, <1>3, <1>4, <1>5

\* A get that writes back a stale snapshot may lose an update, but leaves no
\* evictable block out of the LRU.
LEMMA GetTouchDisk ==
  ASSUME IInv, NEW t \in Tasks, get_touch(t)
  PROVE  DiskInv'
<1> DEFINE b == snap[t].block
           meta == snap[t].meta
           old == <<meta.last_used, b>>
           new == <<now, b>>
           m == [meta EXCEPT !.last_used = now]
<1> USE DEF IInv
<1>1. b \in Blocks /\ meta \in BlockMeta
  BY DEF get_touch, LocalInv, Snapshot
<1>2. /\ m \in BlockMeta
      /\ m.pin = meta.pin
      /\ m.synced
      /\ m.last_used = now
      /\ new \in IndexEntry
  BY <1>1 DEF BlockMeta, LocalInv, IndexEntry, get_touch
<1>3. CASE meta.pin
  <2>1. /\ meta_store' = [meta_store EXCEPT ![b] = m]
        /\ outcome' = "ok"
        /\ UNCHANGED <<main_store, expiry_store, recently_used_store>>
    BY <1>3 DEF get_touch, TouchedMeta
  <2>2. recently_used_store' \subseteq IndexEntry
    BY <2>1 DEF DiskInv
  <2> QED BY <1>1, <1>2, <1>3, <2>1, <2>2, SaveDisk
<1>4. CASE /\ ~ meta.pin
           /\ \/ RemoveFromLruFails(recently_used_store, old)
              \/ AddToLruFails(recently_used_store \ {old}, new)
  BY <1>4, DiskUnchanged DEF get_touch, Panic
<1>5. CASE /\ ~ meta.pin
           /\ ~ RemoveFromLruFails(recently_used_store, old)
           /\ ~ AddToLruFails(recently_used_store \ {old}, new)
  <2>1. /\ meta_store' = [meta_store EXCEPT ![b] = m]
        /\ recently_used_store' = (recently_used_store \ {old}) \cup {new}
        /\ outcome' = "ok"
        /\ UNCHANGED <<main_store, expiry_store>>
    BY <1>5 DEF get_touch, TouchedMeta
  <2>2. recently_used_store' \subseteq IndexEntry
    BY <1>2, <2>1 DEF DiskInv
  <2>3. \A f \in recently_used_store : f[2] # b => f \in recently_used_store'
    BY <2>1
  <2>4. <<m.last_used, b>> \in recently_used_store'
    BY <1>2, <2>1
  <2> QED BY <1>1, <1>2, <2>1, <2>2, <2>3, <2>4, SaveDisk
<1> QED BY <1>3, <1>4, <1>5

LEMMA GetLocal ==
  ASSUME IInv, NEW t \in Tasks, NEW b \in Blocks, get(t, b)
  PROVE  IInv'
<1> USE DEF IInv
<1>1. DiskInv'
  BY DiskUnchanged DEF get, DiskInv
<1>2. CASE UNCHANGED local
  BY <1>1, <1>2, LocalUnchanged DEF get
<1>3. CASE ~ UNCHANGED local
  <2>1. /\ IsSynced(b)
        /\ pc' = [pc EXCEPT ![t] = "get"]
        /\ snap' = [snap EXCEPT ![t] = [block |-> b, meta |-> meta_store[b]]]
        /\ UNCHANGED <<todo, total, goal, now>>
    BY <1>3 DEF get
  <2>2. meta_store[b] \in BlockMeta /\ meta_store[b].synced
    BY <2>1 DEF DiskInv, IsSynced, HasMeta
  <2>3. [block |-> b, meta |-> meta_store[b]] \in Snapshot
    BY <2>2 DEF Snapshot
  <2>4. LocalInv'
    BY <2>1, <2>2, <2>3 DEF LocalInv
  <2> QED BY <1>1, <2>4
<1> QED BY <1>2, <1>3

LEMMA RemoveExpiredInv ==
  ASSUME IInv, NEW t \in Tasks, remove_expired(t)
  PROVE  IInv'
<1> USE DEF IInv
<1>1. DiskInv'
  BY DiskUnchanged DEF remove_expired, DiskInv
<1> DEFINE expired == {e \in expiry_store : IsExpired(e[1])}
<1>2. CASE expired = {}
  BY <1>1, <1>2, LocalUnchanged DEF remove_expired
<1>3. CASE expired # {}
  <2>1. /\ pc' = [pc EXCEPT ![t] = "expire"]
        /\ todo' = [todo EXCEPT ![t] = expired]
        /\ UNCHANGED <<snap, total, goal, now>>
    BY <1>3 DEF remove_expired
  <2>2. expired \subseteq IndexEntry
    BY DEF DiskInv
  <2>3. \A e \in expired : /\ e[2] \in DOMAIN Expiry
                           /\ Expiry[e[2]] = e[1]
                           /\ e[1] <= now
    BY DEF DiskInv, ExpiryIndexExact, IsExpired
  <2>4. LocalInv'
    <3> HIDE DEF expired
    <3> QED BY <2>1, <2>2, <2>3 DEF LocalInv
  <2> QED BY <1>1, <2>4
<1> QED BY <1>2, <1>3

LEMMA ExpireOneInv ==
  ASSUME IInv, NEW t \in Tasks, expire_one(t)
  PROVE  IInv'
<1> USE DEF IInv
<1>1. PICK e \in todo[t] :
        UnwrappedDel(t, e[2],
          IF todo[t] = {e}
          THEN Return(t)
          ELSE /\ todo' = [todo EXCEPT ![t] = @ \ {e}]
               /\ UNCHANGED <<pc, snap, total, goal>>)
  BY DEF expire_one
<1>2. e[2] \in Blocks
  BY DEF LocalInv, IndexEntry
<1>3. DiskInv'
  BY <1>1, <1>2, DelTxnDisk, DiskUnchanged DEF UnwrappedDel, Panic
<1>4. CASE Return(t)
  BY <1>3, <1>4, ReturnLocal DEF expire_one
<1>5. CASE /\ todo' = [todo EXCEPT ![t] = @ \ {e}]
           /\ UNCHANGED <<pc, snap, total, goal>>
  <2>1. LocalInv'
    BY <1>5 DEF LocalInv, expire_one
  <2> QED BY <1>3, <2>1
<1> QED BY <1>1, <1>4, <1>5 DEF UnwrappedDel

LEMMA RemoveLeastUsedInv ==
  ASSUME IInv, NEW t \in Tasks, NEW size \in EvictSizes,
         remove_least_used(t, size)
  PROVE  IInv'
<1> USE DEF IInv
<1>1. DiskInv'
  BY DiskUnchanged DEF remove_least_used, DiskInv
<1>2. CASE recently_used_store = {}
  BY <1>1, <1>2, LocalUnchanged DEF remove_least_used
<1>3. CASE recently_used_store # {}
  <2>1. LocalInv'
    BY <1>3, ConstantsAssumption DEF remove_least_used, LocalInv, DiskInv
  <2> QED BY <1>1, <2>1
<1> QED BY <1>2, <1>3

LEMMA EvictOneInv ==
  ASSUME IInv, NEW t \in Tasks, evict_one(t)
  PROVE  IInv'
<1> USE DEF IInv
<1>1. PICK e \in todo[t] :
        UnwrappedDel(t, e[2],
          IF todo[t] = {e} \/ total[t] + Size[e[2]] >= goal[t]
          THEN Return(t)
          ELSE /\ todo' = [todo EXCEPT ![t] = @ \ {e}]
               /\ total' = [total EXCEPT ![t] = total[t] + Size[e[2]]]
               /\ UNCHANGED <<pc, snap, goal>>)
  BY DEF evict_one
<1>2. e[2] \in Blocks
  BY DEF LocalInv, IndexEntry
<1>3. DiskInv'
  BY <1>1, <1>2, DelTxnDisk, DiskUnchanged DEF UnwrappedDel, Panic
<1>4. CASE Return(t)
  BY <1>3, <1>4, ReturnLocal DEF evict_one
<1>5. CASE /\ todo' = [todo EXCEPT ![t] = @ \ {e}]
           /\ total' = [total EXCEPT ![t] = total[t] + Size[e[2]]]
           /\ UNCHANGED <<pc, snap, goal>>
  <2>1. total[t] + Size[e[2]] \in Nat
    <3>1. total[t] \in Nat /\ Size[e[2]] \in Nat
      BY <1>2, ConstantsAssumption DEF LocalInv
    <3> QED BY <3>1
  <2>2. LocalInv'
    BY <1>5, <2>1 DEF LocalInv, evict_one
  <2> QED BY <1>3, <2>2
<1> QED BY <1>1, <1>4, <1>5 DEF UnwrappedDel

LEMMA InitInv == Init => IInv
<1> SUFFICES ASSUME Init PROVE IInv
  OBVIOUS
<1>1. DiskInv
  BY DEF Init, DiskInv, ExpiryIndexExact, EvictableTracked, UnsyncedUnused, IsSynced,
         HasMeta
<1>2. LocalInv
  BY DEF Init, LocalInv, Timestamp
<1> QED BY <1>1, <1>2 DEF IInv

LEMMA NextInv == IInv /\ [Next]_vars => IInv'
<1> SUFFICES ASSUME IInv, [Next]_vars PROVE IInv'
  OBVIOUS
<1> USE DEF IInv
<1>1. ASSUME NEW t \in Tasks, NEW b \in Blocks, put(t, b)
      PROVE  IInv'
  BY <1>1, PutDisk, LocalUnchanged DEF put
<1>2. ASSUME NEW t \in Tasks, NEW b \in Blocks, del(t, b)
      PROVE  IInv'
  BY <1>2, DelTxnDisk, LocalUnchanged DEF del
<1>3. ASSUME NEW t \in Tasks, NEW b \in Blocks, get(t, b)
      PROVE  IInv'
  BY <1>3, GetLocal
<1>4. ASSUME NEW t \in Tasks, NEW b \in Blocks, NEW add \in BOOLEAN,
             set_pin(t, b, add)
      PROVE  IInv'
  BY <1>4, SetPinDisk, LocalUnchanged DEF set_pin
<1>5. ASSUME NEW t \in Tasks, NEW b \in Blocks,
             NEW when \in SyncTimes \cup {now}, has_been_synced(t, b, when)
      PROVE  IInv'
  <2>1. when \in Timestamp
    BY ConstantsAssumption DEF LocalInv
  <2> QED BY <1>5, <2>1, HasBeenSyncedDisk, LocalUnchanged DEF has_been_synced
<1>6. ASSUME NEW t \in Tasks, get_touch(t)
      PROVE  IInv'
  BY <1>6, GetTouchDisk, ReturnLocal DEF get_touch
<1>7. ASSUME NEW t \in Tasks, remove_expired(t)
      PROVE  IInv'
  BY <1>7, RemoveExpiredInv
<1>8. ASSUME NEW t \in Tasks, expire_one(t)
      PROVE  IInv'
  BY <1>8, ExpireOneInv
<1>9. ASSUME NEW t \in Tasks, NEW size \in EvictSizes, remove_least_used(t, size)
      PROVE  IInv'
  BY <1>9, RemoveLeastUsedInv
<1>10. ASSUME NEW t \in Tasks, evict_one(t)
       PROVE  IInv'
  BY <1>10, EvictOneInv
<1>11. CASE Tick
  <2>1. DiskInv'
    BY <1>11, DiskUnchanged DEF Tick, DiskInv
  <2>2. LocalInv'
    BY <1>11 DEF Tick, local, LocalInv, Timestamp, IndexEntry
  <2> QED BY <2>1, <2>2
<1>12. CASE Restart
  <2>1. DiskInv'
    BY <1>12, DiskUnchanged DEF Restart
  <2>2. LocalInv'
    BY <1>12 DEF Restart, LocalInv
  <2> QED BY <2>1, <2>2
<1>13. CASE UNCHANGED vars
  BY <1>13, DiskUnchanged, LocalUnchanged DEF vars, DiskInv
<1> QED BY <1>1, <1>2, <1>3, <1>4, <1>5, <1>6, <1>7, <1>8, <1>9, <1>10, <1>11,
           <1>12, <1>13 DEF Next, BlockCall

LEMMA InductiveInvariant == Spec => []IInv
BY InitInv, NextInv, PTL DEF Spec

\* Every table and local variable keeps its type.
THEOREM TypeCorrect == Spec => []TypeOK
<1>1. IInv => TypeOK
  BY DEF IInv, DiskInv, LocalInv, Snapshot, TypeOK
<1> QED BY <1>1, InductiveInvariant, PTL

\* For any number of tasks the expiry index of put and del is exact.
THEOREM ExpiryIndexCorrect == Spec => []ExpiryIndexExact
<1>1. IInv => ExpiryIndexExact
  BY DEF IInv, DiskInv
<1> QED BY <1>1, InductiveInvariant, PTL

\* For any number of tasks no evictable block is missing from the LRU, in spite
\* of the updates a get can lose.
THEOREM EvictableBlocksTracked == Spec => []EvictableTracked
<1>1. IInv => EvictableTracked
  BY DEF IInv, DiskInv
<1> QED BY <1>1, InductiveInvariant, PTL

\* For any number of tasks del and pin panic on no block that is not pinned.
THEOREM NoPanicUnlessPinned == Spec => []PanicsOnlyIfPinned
<1>1. ASSUME IInv, NEW b \in main_store, ~ (HasMeta(b) /\ meta_store[b].pin)
      PROVE  /\ ~ DelPanics(b)
             /\ IsSynced(b) => ~ RemoveFromLruFails(recently_used_store,
                                   <<meta_store[b].last_used, b>>)
  <2>1. b \in Blocks
    BY <1>1 DEF IInv, DiskInv
  <2>2. IsSynced(b) => <<meta_store[b].last_used, b>> \in recently_used_store
    BY <1>1, <2>1 DEF IInv, DiskInv, EvictableTracked, IsSynced
  <2>3. HasMeta(b) /\ ~ meta_store[b].synced => meta_store[b].last_used = 0
    BY <1>1, <2>1 DEF IInv, DiskInv, UnsyncedUnused
  <2>4. ExpiryEntries(b) \subseteq expiry_store
    BY <1>1 DEF IInv, DiskInv, ExpiryIndexExact, ExpiryEntries
  <2> QED BY <2>2, <2>3, <2>4 DEF DelPanics, LruEntries, IsSynced, RemoveFromLruFails
<1>2. IInv => PanicsOnlyIfPinned
  BY <1>1 DEF PanicsOnlyIfPinned
<1> QED BY <1>2, InductiveInvariant, PTL

\* remove_expired deletes expired blocks only, however stale its list is.
THEOREM ExpirerRemovesExpired == Spec => ExpirerSound
<1>1. ASSUME IInv, NEW t \in Tasks, expire_one(t),
             NEW b \in main_store \ main_store'
      PROVE  b \in DOMAIN Expiry /\ Expiry[b] <= now
  <2>1. PICK e \in todo[t] : main_store' = main_store \/ main_store' = main_store \ {e[2]}
    BY <1>1 DEF expire_one, UnwrappedDel, DelTxn, Panic, disk
  <2>2. b = e[2]
    BY <1>1, <2>1
  <2> QED BY <1>1, <2>2 DEF IInv, LocalInv, expire_one
<1>2. IInv => \A t \in Tasks : expire_one(t) =>
                \A b \in main_store \ main_store' :
                   b \in DOMAIN Expiry /\ Expiry[b] <= now
  BY <1>1
<1> QED BY <1>2, InductiveInvariant, PTL DEF ExpirerSound
=============================================================================
