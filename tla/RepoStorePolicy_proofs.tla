----------------------- MODULE RepoStorePolicy_proofs -----------------------
(***************************************************************************)
(* Proofs about RepoStore when one task uses the store: its LRU is exact,  *)
(* and it implements RetentionPolicy.  The timestamp 0 stands for "never   *)
(* used" in BlockMeta, so a caller must not pass it to has_been_synced:    *)
(* del would leave such a block in the LRU.                                *)
(***************************************************************************)
EXTENDS RepoStore_proofs

\* An entry of the LRU is that of an evictable block, under its last use.
LruOnly ==
  \A e \in recently_used_store :
    /\ IsSynced(e[2]) /\ ~ meta_store[e[2]].pin
    /\ meta_store[e[2]].last_used = e[1]

SyncedUsed == \A b \in Blocks : IsSynced(b) => meta_store[b].last_used # 0

\* What a call in progress has read is still so: the meta a get read, and the
\* entries remove_least_used listed and has not deleted yet.
CallCurrent ==
  \A t \in Tasks :
    /\ pc[t] = "get" => /\ snap[t].block \in main_store
                        /\ meta_store[snap[t].block] = snap[t].meta
    /\ pc[t] = "evict" => todo[t] = recently_used_store

DiskSeq == LruOnly /\ SyncedUsed
SeqInv == now # 0 /\ DiskSeq /\ CallCurrent

-----------------------------------------------------------------------------
(***************************************************************************)
(* The transactions keep the LRU exact.                                    *)
(***************************************************************************)

LEMMA EntryOf ==
  ASSUME DiskInv, DiskSeq, NEW e \in recently_used_store
  PROVE  /\ e[2] \in Blocks /\ e[1] \in Timestamp
         /\ e = <<meta_store[e[2]].last_used, e[2]>>
         /\ IsSynced(e[2]) /\ ~ meta_store[e[2]].pin
         /\ meta_store[e[2]].last_used # 0
<1>1. e \in Timestamp \X Blocks
  BY DEF DiskInv, IndexEntry
<1>2. e[2] \in Blocks /\ e[1] \in Timestamp /\ e = <<e[1], e[2]>>
  BY <1>1
<1> QED BY <1>2 DEF DiskSeq, LruOnly, SyncedUsed

LEMMA DiskSeqUnchanged ==
  ASSUME DiskSeq, UNCHANGED <<meta_store, recently_used_store>>
  PROVE  DiskSeq'
BY DEF DiskSeq, LruOnly, SyncedUsed, IsSynced, HasMeta

LEMMA DelSeq ==
  ASSUME DiskInv, DiskSeq, NEW b \in main_store, ~ DelPanics(b), DelTxn(b)
  PROVE  /\ DiskSeq'
         /\ recently_used_store' = {e \in recently_used_store : e[2] # b}
<1>1. /\ recently_used_store' = recently_used_store \ LruEntries(b)
      /\ meta_store' = [meta_store EXCEPT ![b] = NoMeta]
  BY DEF DelTxn
<1>2. \A e \in LruEntries(b) : e[2] = b
  BY DEF LruEntries
<1>3. ASSUME NEW e \in recently_used_store, e[2] = b PROVE e \in LruEntries(b)
  BY <1>3, EntryOf DEF LruEntries, IsSynced
<1>4. recently_used_store' = {e \in recently_used_store : e[2] # b}
  BY <1>1, <1>2, <1>3
<1>5. \A c \in Blocks : c # b => meta_store'[c] = meta_store[c]
  BY <1>1 DEF DiskInv
<1>6. b \in Blocks /\ meta_store'[b] = NoMeta
  BY <1>1 DEF DiskInv
<1>7. LruOnly'
  BY <1>4, <1>5, EntryOf DEF DiskSeq, LruOnly, IsSynced, HasMeta
<1>8. SyncedUsed'
  BY <1>5, <1>6 DEF DiskSeq, SyncedUsed, IsSynced, HasMeta
<1> QED BY <1>4, <1>7, <1>8 DEF DiskSeq

\* A transaction that saves m as the meta of b, and leaves the LRU with the
\* entry of b if b is evictable and with none otherwise.
LEMMA SaveSeq ==
  ASSUME DiskInv, DiskSeq, NEW b \in Blocks, NEW m \in BlockMeta,
         meta_store' = [meta_store EXCEPT ![b] = m],
         \A e \in recently_used_store' :
            \/ e \in recently_used_store /\ e[2] # b
            \/ e = <<m.last_used, b>> /\ m.synced /\ ~ m.pin,
         m.synced => m.last_used # 0
  PROVE  DiskSeq'
<1>1. meta_store'[b] = m /\ m # NoMeta
  BY ConstantsAssumption DEF DiskInv
<1>2. \A c \in Blocks : c # b => meta_store'[c] = meta_store[c]
  BY DEF DiskInv
<1>3. LruOnly'
  <2> SUFFICES ASSUME NEW e \in recently_used_store'
               PROVE  /\ IsSynced(e[2])' /\ ~ meta_store'[e[2]].pin
                      /\ meta_store'[e[2]].last_used = e[1]
    BY DEF LruOnly
  <2>1. CASE e \in recently_used_store /\ e[2] # b
    BY <1>2, <2>1, EntryOf DEF IsSynced, HasMeta
  <2>2. CASE e = <<m.last_used, b>> /\ m.synced /\ ~ m.pin
    BY <1>1, <2>2 DEF IsSynced, HasMeta
  <2> QED BY <2>1, <2>2
<1>4. SyncedUsed'
  BY <1>1, <1>2 DEF DiskSeq, SyncedUsed, IsSynced, HasMeta
<1> QED BY <1>3, <1>4 DEF DiskSeq

LEMMA NoEntry ==
  ASSUME DiskInv, DiskSeq, NEW b \in Blocks, ~ (IsSynced(b) /\ ~ meta_store[b].pin)
  PROVE  \A e \in recently_used_store : e[2] # b
BY EntryOf

LEMMA OneEntry ==
  ASSUME DiskInv, DiskSeq, NEW b \in Blocks
  PROVE  \A e \in recently_used_store : e[2] = b => e = <<meta_store[b].last_used, b>>
BY EntryOf

-----------------------------------------------------------------------------
(***************************************************************************)
(* Steps of the store as steps of RetentionPolicy.                         *)
(***************************************************************************)

\* The call in progress, as RetentionPolicy sees it.
activity == pc[CHOOSE t \in Tasks : TRUE]

\* A call begins, ends without effect, or fails.
LEMMA QuietPolicy ==
  ASSUME UNCHANGED <<main_store, meta_store, now>>,
         \/ outcome' \in {outcome, "ok", "panic"}
         \/ outcome' = "notfound" /\ main_store # Blocks
  PROVE  Policy!Next
BY DEF Policy!Next, Policy!Turn, Policy!Fail

LEMMA MarkPolicy ==
  ASSUME DiskInv, NEW b \in Blocks, NEW m \in BlockMeta,
         meta_store' = [meta_store EXCEPT ![b] = m], UNCHANGED <<main_store, now>>,
         outcome' = "ok",
         \/ /\ activity = "idle"
            /\ Policy!Pin(b, m) \/ Policy!Unpin(b, m) \/ Policy!Sync(b, m)
         \/ Policy!Use(b, m)
  PROVE  Policy!Next
<1>1. meta_store'[b] = m /\ m # NoMeta
  BY ConstantsAssumption DEF DiskInv
<1>2. Policy!Mark(b)
  BY <1>1 DEF Policy!Mark, activity
<1> QED BY <1>2 DEF Policy!Next

LEMMA LeavePolicy ==
  ASSUME DiskInv, NEW b \in main_store, ~ DelPanics(b), DelTxn(b), UNCHANGED now,
         \/ activity = "idle"
         \/ activity = "expire" /\ b \in DOMAIN Expiry /\ Expiry[b] <= now
         \/ activity = "evict" /\ Policy!LeastUsed(b)
  PROVE  Policy!Next
<1>1. Policy!Leave(b) /\ outcome' = "ok" /\ b \in Blocks
  BY DEF DelTxn, Policy!Leave, DiskInv
<1>2. Policy!Delete(b) \/ Policy!Expire(b) \/ Policy!Evict(b)
  BY <1>1 DEF Policy!Delete, Policy!Expire, Policy!Evict, activity
<1> QED BY <1>1, <1>2 DEF Policy!Next

LEMMA SetPinStep ==
  ASSUME IInv, DiskSeq, NEW t \in Tasks, NEW b \in Blocks, NEW add \in BOOLEAN,
         set_pin(t, b, add), activity = "idle"
  PROVE  DiskSeq' /\ Policy!Next
<1> DEFINE meta == meta_store[b]
           e == <<meta.last_used, b>>
<1>1. DiskInv /\ UNCHANGED now
  BY DEF IInv, set_pin
<1>2. ASSUME UNCHANGED disk, outcome' \in {"ok", "panic"} PROVE DiskSeq' /\ Policy!Next
  BY <1>1, <1>2, DiskSeqUnchanged, QuietPolicy DEF disk
<1>3. ASSUME NEW m \in BlockMeta, meta_store' = [meta_store EXCEPT ![b] = m],
             outcome' = "ok", UNCHANGED main_store,
             \A f \in recently_used_store' :
                \/ f \in recently_used_store /\ f[2] # b
                \/ f = <<m.last_used, b>> /\ m.synced /\ ~ m.pin,
             m.synced => m.last_used # 0,
             Policy!Pin(b, m) \/ Policy!Unpin(b, m)
      PROVE  DiskSeq' /\ Policy!Next
  BY <1>1, <1>3, SaveSeq, MarkPolicy
<1>4. CASE ~ HasMeta(b)
  <2>1. CASE ~ add
    BY <1>2, <1>4, <2>1 DEF set_pin
  <2>2. CASE add
    <3>1. PICK m : m = [pin |-> TRUE, synced |-> FALSE, last_used |-> 0]
      OBVIOUS
    <3>2. m \in BlockMeta /\ m.pin /\ ~ m.synced /\ m.last_used = 0
      BY <3>1 DEF BlockMeta, Timestamp
    <3>3. /\ meta_store' = [meta_store EXCEPT ![b] = m] /\ outcome' = "ok"
          /\ UNCHANGED <<main_store, recently_used_store>>
      BY <1>4, <2>2, <3>1 DEF set_pin
    <3>4. \A f \in recently_used_store' : f \in recently_used_store /\ f[2] # b
      BY <1>1, <1>4, <3>3, NoEntry DEF IsSynced
    <3>5. m.synced = (HasMeta(b) /\ meta_store[b].synced)
      BY <1>4, <3>1, Zenon
    <3>6. Policy!Pin(b, m)
      BY <1>4, <3>2, <3>5 DEF Policy!Pin, Policy!Pinned, Policy!Known, HasMeta
    <3> QED BY <1>3, <3>2, <3>3, <3>4, <3>6
  <2> QED BY <2>1, <2>2
<1>5. CASE HasMeta(b) /\ add = meta.pin
  BY <1>2, <1>5 DEF set_pin
<1>6. CASE HasMeta(b) /\ add # meta.pin
  <2>1. meta \in BlockMeta
    BY <1>1, <1>6 DEF DiskInv, HasMeta
  <2>2. PICK m : m = [meta EXCEPT !.pin = add]
    OBVIOUS
  <2>3. /\ m \in BlockMeta /\ m.pin = add /\ m.synced = meta.synced
        /\ m.last_used = meta.last_used
    BY <2>1, <2>2 DEF BlockMeta
  <2>4. m.synced => m.last_used # 0
    BY <1>6, <2>3 DEF DiskSeq, SyncedUsed, IsSynced
  <2>5. Policy!Pin(b, m) \/ Policy!Unpin(b, m)
    <3>1. CASE add
      <4>1. ~ meta.pin /\ m.pin
        BY <1>6, <2>1, <2>3, <3>1 DEF BlockMeta
      <4>2. m.synced = (HasMeta(b) /\ meta.synced)
        <5>1. PICK x : x = meta.synced
          OBVIOUS
        <5>2. x \in BOOLEAN /\ m.synced = x
          BY <2>1, <2>3, <5>1 DEF BlockMeta
        <5>3. x = (HasMeta(b) /\ x)
          BY <1>6, <5>2, Zenon
        <5> QED BY <5>1, <5>2, <5>3, Zenon
      <4> QED BY <1>6, <2>3, <4>1, <4>2 DEF Policy!Pin, Policy!Pinned, Policy!Known, HasMeta
    <3>2. CASE ~ add
      <4>1. meta.pin /\ add = FALSE
        BY <1>6, <2>1, <3>2 DEF BlockMeta
      <4> QED BY <1>6, <2>2, <4>1 DEF Policy!Unpin, Policy!Pinned, Policy!Known, HasMeta
    <3> QED BY <3>1, <3>2
  <2>6. CASE ~ meta.synced
    <3>1. /\ meta_store' = [meta_store EXCEPT ![b] = m] /\ outcome' = "ok"
          /\ UNCHANGED <<main_store, recently_used_store>>
      BY <1>6, <2>2, <2>6 DEF set_pin
    <3>2. \A f \in recently_used_store' : f \in recently_used_store /\ f[2] # b
      BY <1>1, <2>6, <3>1, NoEntry DEF IsSynced
    <3> QED BY <1>3, <2>3, <2>4, <2>5, <3>1, <3>2
  <2>7. CASE meta.synced /\ add
    <3>1. CASE RemoveFromLruFails(recently_used_store, e)
      BY <1>2, <1>6, <2>1, <2>7, <3>1 DEF set_pin, Panic, BlockMeta
    <3>2. CASE ~ RemoveFromLruFails(recently_used_store, e)
      <4>1. /\ meta_store' = [meta_store EXCEPT ![b] = m] /\ outcome' = "ok"
            /\ recently_used_store' = recently_used_store \ {e} /\ UNCHANGED main_store
        BY <1>6, <2>1, <2>2, <2>7, <3>2 DEF set_pin, BlockMeta
      <4>2. \A f \in recently_used_store' : f \in recently_used_store /\ f[2] # b
        BY <1>1, <4>1, OneEntry
      <4> QED BY <1>3, <2>3, <2>4, <2>5, <4>1, <4>2
    <3> QED BY <3>1, <3>2
  <2>8. CASE meta.synced /\ ~ add
    <3>1. CASE AddToLruFails(recently_used_store, e)
      BY <1>2, <1>6, <2>1, <2>8, <3>1 DEF set_pin, Panic, BlockMeta
    <3>2. CASE ~ AddToLruFails(recently_used_store, e)
      <4>1. /\ meta_store' = [meta_store EXCEPT ![b] = m] /\ outcome' = "ok"
            /\ recently_used_store' = recently_used_store \cup {e} /\ UNCHANGED main_store
        BY <1>6, <2>1, <2>2, <2>8, <3>2 DEF set_pin, BlockMeta
      <4>2. \A f \in recently_used_store : f[2] # b
        BY <1>1, <1>6, <2>1, <2>8, NoEntry DEF BlockMeta
      <4>3. e = <<m.last_used, b>> /\ m.synced /\ ~ m.pin
        BY <2>3, <2>8
      <4>4. \A f \in recently_used_store' :
               \/ f \in recently_used_store /\ f[2] # b
               \/ f = <<m.last_used, b>> /\ m.synced /\ ~ m.pin
        BY <4>1, <4>2, <4>3
      <4> QED BY <1>3, <2>3, <2>4, <2>5, <4>1, <4>4
    <3> QED BY <3>1, <3>2
  <2> QED BY <2>6, <2>7, <2>8
<1> QED BY <1>4, <1>5, <1>6

LEMMA HasBeenSyncedStep ==
  ASSUME IInv, DiskSeq, NEW t \in Tasks, NEW b \in Blocks, NEW when \in Timestamp, when # 0,
         has_been_synced(t, b, when), activity = "idle"
  PROVE  DiskSeq' /\ Policy!Next
<1>1. DiskInv /\ UNCHANGED now
  BY DEF IInv, has_been_synced
<1>2. ASSUME UNCHANGED disk, outcome' \in {"ok", "panic"} PROVE DiskSeq' /\ Policy!Next
  BY <1>1, <1>2, DiskSeqUnchanged, QuietPolicy DEF disk
<1>3. PICK pinned : pinned = (HasMeta(b) /\ meta_store[b].pin)
  OBVIOUS
<1>4. pinned \in BOOLEAN
  BY <1>3, Zenon
<1>5. PICK m : m = [pin |-> pinned, synced |-> TRUE, last_used |-> when]
  OBVIOUS
<1>6. m \in BlockMeta /\ m.pin = pinned /\ m.synced /\ m.last_used = when
  BY <1>4, <1>5 DEF BlockMeta
<1>7. CASE IsSynced(b)
  BY <1>2, <1>7 DEF has_been_synced
<1>8. CASE ~ IsSynced(b)
  <2>1. \A f \in recently_used_store : f[2] # b
    BY <1>1, <1>8, NoEntry
  <2>2. Policy!Sync(b, m)
    <3>1. m.pin = (HasMeta(b) /\ meta_store[b].pin)
      BY <1>3, <1>6, Zenon
    <3> QED BY <1>6, <1>8, <3>1 DEF Policy!Sync, Policy!Pinned, Policy!Known, HasMeta, IsSynced
  <2>3. ASSUME meta_store' = [meta_store EXCEPT ![b] = m], outcome' = "ok",
               UNCHANGED main_store,
               \A f \in recently_used_store' :
                  \/ f \in recently_used_store
                  \/ f = <<when, b>> /\ ~ pinned
        PROVE  DiskSeq' /\ Policy!Next
    BY <1>1, <1>6, <2>1, <2>2, <2>3, SaveSeq, MarkPolicy
  <2>4. CASE pinned
    <3>1. /\ meta_store' = [meta_store EXCEPT ![b] = m] /\ outcome' = "ok"
          /\ UNCHANGED <<main_store, recently_used_store>>
      BY <1>3, <1>5, <1>8, <2>4 DEF has_been_synced
    <3> QED BY <2>3, <3>1
  <2>5. CASE ~ pinned /\ AddToLruFails(recently_used_store, <<when, b>>)
    BY <1>2, <1>3, <1>8, <2>5 DEF has_been_synced, Panic
  <2>6. CASE ~ pinned /\ ~ AddToLruFails(recently_used_store, <<when, b>>)
    <3>1. /\ meta_store' = [meta_store EXCEPT ![b] = m] /\ outcome' = "ok"
          /\ recently_used_store' = recently_used_store \cup {<<when, b>>}
          /\ UNCHANGED main_store
      BY <1>3, <1>5, <1>8, <2>6 DEF has_been_synced
    <3> QED BY <2>3, <2>6, <3>1
  <2> QED BY <2>4, <2>5, <2>6
<1> QED BY <1>7, <1>8

LEMMA GetTouchStep ==
  ASSUME IInv, SeqInv, NEW t \in Tasks, get_touch(t), activity = "get"
  PROVE  DiskSeq' /\ Policy!Next
<1>1. DiskInv /\ DiskSeq /\ UNCHANGED now /\ now \in Timestamp /\ now # 0
  BY DEF IInv, LocalInv, SeqInv, get_touch
<1>2. PICK b, meta : b = snap[t].block /\ meta = snap[t].meta
  OBVIOUS
<1>3. /\ b \in Blocks /\ b \in main_store
      /\ meta \in BlockMeta /\ meta.synced /\ meta_store[b] = meta
  BY <1>2 DEF get_touch, IInv, LocalInv, Snapshot, SeqInv, CallCurrent
<1>4. PICK m : m = [meta EXCEPT !.last_used = now]
  OBVIOUS
<1>5. m \in BlockMeta /\ m.pin = meta.pin /\ m.synced /\ m.last_used = now
  BY <1>1, <1>3, <1>4 DEF BlockMeta
<1>6. ASSUME UNCHANGED disk, outcome' = "panic" PROVE DiskSeq' /\ Policy!Next
  BY <1>1, <1>6, DiskSeqUnchanged, QuietPolicy DEF disk
<1>7. meta # NoMeta /\ Policy!Use(b, m)
  <2>1. meta # NoMeta
    BY <1>3, ConstantsAssumption
  <2> QED BY <1>3, <1>4, <2>1 DEF Policy!Use, Policy!Known, activity
<1>8. CASE meta.pin
  <2>1. /\ meta_store' = [meta_store EXCEPT ![b] = m] /\ outcome' = "ok"
        /\ UNCHANGED <<main_store, recently_used_store>>
    BY <1>2, <1>4, <1>8 DEF get_touch, TouchedMeta
  <2>2. \A f \in recently_used_store' : f \in recently_used_store /\ f[2] # b
    BY <1>1, <1>3, <1>8, <2>1, NoEntry
  <2> QED BY <1>1, <1>3, <1>5, <1>7, <2>1, <2>2, SaveSeq, MarkPolicy
<1>9. CASE ~ meta.pin
  <2>1. PICK old, new : old = <<meta.last_used, b>> /\ new = <<now, b>>
    OBVIOUS
  <2>2. CASE \/ RemoveFromLruFails(recently_used_store, old)
             \/ AddToLruFails(recently_used_store \ {old}, new)
    BY <1>2, <1>6, <1>9, <2>1, <2>2 DEF get_touch, Panic
  <2>3. CASE /\ ~ RemoveFromLruFails(recently_used_store, old)
             /\ ~ AddToLruFails(recently_used_store \ {old}, new)
    <3>1. /\ meta_store' = [meta_store EXCEPT ![b] = m] /\ outcome' = "ok"
          /\ recently_used_store' = (recently_used_store \ {old}) \cup {new}
          /\ UNCHANGED main_store
      BY <1>2, <1>4, <1>9, <2>1, <2>3 DEF get_touch, TouchedMeta
    <3>2. \A f \in recently_used_store \ {old} : f[2] # b
      BY <1>1, <1>3, <2>1, OneEntry
    <3>3. new = <<m.last_used, b>> /\ m.synced /\ ~ m.pin
      BY <1>5, <1>9, <2>1
    <3>4. \A f \in recently_used_store' :
             \/ f \in recently_used_store /\ f[2] # b
             \/ f = <<m.last_used, b>> /\ m.synced /\ ~ m.pin
      BY <3>1, <3>2, <3>3
    <3> QED BY <1>1, <1>3, <1>5, <1>7, <3>1, <3>4, SaveSeq, MarkPolicy
  <2> QED BY <2>2, <2>3
<1> QED BY <1>8, <1>9

LEMMA PutStep ==
  ASSUME DiskSeq, NEW t \in Tasks, NEW b \in Blocks, put(t, b), activity = "idle"
  PROVE  DiskSeq' /\ Policy!Next
<1>1. DiskSeq'
  BY DiskSeqUnchanged DEF put
<1>2. Policy!Store(b) /\ outcome' = "ok" /\ UNCHANGED now
  BY DEF put, Policy!Store, activity
<1> QED BY <1>1, <1>2 DEF Policy!Next

LEMMA DelStep ==
  ASSUME IInv, DiskSeq, NEW t \in Tasks, NEW b \in Blocks, del(t, b), activity = "idle"
  PROVE  DiskSeq' /\ Policy!Next
<1>1. DiskInv /\ UNCHANGED now /\ DelTxn(b)
  BY DEF IInv, del
<1>2. CASE b \in main_store /\ ~ DelPanics(b)
  BY <1>1, <1>2, DelSeq, LeavePolicy
<1>3. CASE b \notin main_store \/ DelPanics(b)
  <2>1. UNCHANGED disk /\ (outcome' = "panic" \/ (outcome' = "notfound" /\ b \notin main_store))
    BY <1>1, <1>3 DEF DelTxn, Panic
  <2> QED BY <1>1, <2>1, DiskSeqUnchanged, QuietPolicy DEF disk
<1> QED BY <1>2, <1>3

\* The first entry of the LRU is that of the least used block that may leave.
LEMMA FirstLeastUsed ==
  ASSUME DiskInv, DiskSeq, NEW e \in recently_used_store, NextToEvict(e, recently_used_store)
  PROVE  Policy!LeastUsed(e[2])
<1>1. PICK b : b = e[2]
  OBVIOUS
<1>2. /\ b \in Blocks /\ e = <<meta_store[b].last_used, b>>
      /\ IsSynced(b) /\ ~ meta_store[b].pin
  BY <1>1, EntryOf
<1>3. Policy!Evictable(b)
  BY <1>2 DEF Policy!Evictable, Policy!Known, IsSynced, HasMeta
<1>4. ASSUME NEW c \in Blocks \ {b}, Policy!Evictable(c) PROVE Policy!UsedBefore(b, c)
  <2>1. PICK f : f = <<meta_store[c].last_used, c>>
    OBVIOUS
  <2>2. f \in recently_used_store
    BY <1>4, <2>1 DEF Policy!Evictable, Policy!Known, IsSynced, HasMeta, DiskInv,
                      EvictableTracked
  <2>3. f[2] = c /\ f[1] = meta_store[c].last_used /\ e[2] = b /\ e[1] = meta_store[b].last_used
    BY <1>2, <2>1
  <2>4. Before(e, f)
    BY <1>4, <2>2, <2>3 DEF NextToEvict
  <2> QED BY <2>3, <2>4 DEF Before, Policy!UsedBefore
<1> QED BY <1>1, <1>3, <1>4 DEF Policy!LeastUsed

-----------------------------------------------------------------------------
(***************************************************************************)
(* The calls of the one task.                                              *)
(***************************************************************************)

OneTask == \A t, u \in Tasks : t = u

LEMMA ActivityOf ==
  ASSUME OneTask, NEW t \in Tasks
  PROVE  activity = pc[t]
BY DEF OneTask, activity

LEMMA NoCallCurrent ==
  ASSUME OneTask, NEW t \in Tasks, pc'[t] \notin {"get", "evict"}
  PROVE  CallCurrent'
BY DEF OneTask, CallCurrent

LEMMA ReturnCurrent ==
  ASSUME OneTask, LocalInv, NEW t \in Tasks, Return(t)
  PROVE  CallCurrent'
BY NoCallCurrent DEF LocalInv, Return

LEMMA IdleCurrent ==
  ASSUME OneTask, NEW t \in Tasks, Idle(t), UNCHANGED local
  PROVE  CallCurrent'
BY NoCallCurrent DEF Idle, local

LEMMA DiskKept ==
  ASSUME SeqInv, UNCHANGED <<disk, now>>, outcome' \in {outcome, "ok", "panic"}
  PROVE  DiskSeq' /\ Policy!Next
BY DiskSeqUnchanged, QuietPolicy DEF SeqInv, disk

LEMMA GetStep ==
  ASSUME OneTask, IInv, SeqInv, NEW t \in Tasks, NEW b \in Blocks, get(t, b)
  PROVE  DiskSeq' /\ CallCurrent' /\ Policy!Next
<1>1. UNCHANGED <<disk, now>> /\ Idle(t)
  BY DEF get
<1>2. CASE UNCHANGED local
  <2>1. outcome' = "ok" \/ (outcome' = "notfound" /\ b \notin main_store)
        \/ outcome' = outcome
    BY DEF get
  <2>2. DiskSeq' /\ Policy!Next
    BY <1>1, <2>1, DiskSeqUnchanged, QuietPolicy DEF SeqInv, disk
  <2> QED BY <1>1, <1>2, <2>2, IdleCurrent
<1>3. CASE /\ b \in main_store
           /\ pc' = [pc EXCEPT ![t] = "get"]
           /\ snap' = [snap EXCEPT ![t] = [block |-> b, meta |-> meta_store[b]]]
           /\ UNCHANGED outcome
  <2>1. pc'[t] = "get" /\ snap'[t] = [block |-> b, meta |-> meta_store[b]]
    BY <1>3 DEF IInv, LocalInv
  <2>2. CallCurrent'
    BY <1>1, <1>3, <2>1 DEF CallCurrent, OneTask, disk
  <2> QED BY <1>1, <1>3, <2>2, DiskKept
<1> QED BY <1>2, <1>3 DEF get

LEMMA RemoveExpiredStep ==
  ASSUME OneTask, IInv, SeqInv, NEW t \in Tasks, remove_expired(t)
  PROVE  DiskSeq' /\ CallCurrent' /\ Policy!Next
<1>1. UNCHANGED <<disk, now>> /\ Idle(t) /\ outcome' \in {outcome, "ok"}
  BY DEF remove_expired
<1>2. UNCHANGED local \/ pc' = [pc EXCEPT ![t] = "expire"]
  BY DEF remove_expired
<1>3. CallCurrent'
  BY <1>1, <1>2, IdleCurrent, NoCallCurrent DEF IInv, LocalInv
<1> QED BY <1>1, <1>3, DiskKept

LEMMA RemoveLeastUsedStep ==
  ASSUME OneTask, IInv, SeqInv, NEW t \in Tasks, NEW size \in EvictSizes,
         remove_least_used(t, size)
  PROVE  DiskSeq' /\ CallCurrent' /\ Policy!Next
<1>1. UNCHANGED <<disk, now>> /\ Idle(t) /\ outcome' \in {outcome, "ok"}
  BY DEF remove_least_used
<1>2. CASE UNCHANGED local
  BY <1>1, <1>2, IdleCurrent, DiskKept
<1>3. CASE /\ pc' = [pc EXCEPT ![t] = "evict"]
           /\ todo' = [todo EXCEPT ![t] = recently_used_store]
  <2>1. pc'[t] = "evict" /\ todo'[t] = recently_used_store'
    BY <1>1, <1>3 DEF IInv, LocalInv, disk
  <2>2. CallCurrent'
    BY <2>1 DEF CallCurrent, OneTask
  <2> QED BY <1>1, <2>2, DiskKept
<1> QED BY <1>2, <1>3 DEF remove_least_used

LEMMA ExpireOneStep ==
  ASSUME OneTask, IInv, SeqInv, NEW t \in Tasks, expire_one(t)
  PROVE  DiskSeq' /\ CallCurrent' /\ Policy!Next
<1>1. PICK e \in todo[t] :
        UnwrappedDel(t, e[2],
          IF todo[t] = {e}
          THEN Return(t)
          ELSE /\ todo' = [todo EXCEPT ![t] = @ \ {e}]
               /\ UNCHANGED <<pc, snap, total, goal>>)
  BY DEF expire_one
<1>2. pc[t] = "expire" /\ UNCHANGED now /\ activity = "expire" /\ DiskInv /\ LocalInv /\ DiskSeq
  BY ActivityOf DEF expire_one, IInv, SeqInv
<1>3. CallCurrent'
  <2>1. Return(t) \/ UNCHANGED pc
    BY <1>1 DEF UnwrappedDel
  <2> QED BY <1>2, <2>1, ReturnCurrent, NoCallCurrent
<1>4. CASE e[2] \in main_store /\ ~ DelPanics(e[2])
  <2>1. DelTxn(e[2])
    BY <1>1, <1>4 DEF UnwrappedDel
  <2>2. e[2] \in DOMAIN Expiry /\ Expiry[e[2]] <= now
    BY <1>2 DEF LocalInv
  <2>3. PICK b : b = e[2]
    OBVIOUS
  <2>4. DiskSeq' /\ Policy!Next
    BY <1>2, <1>4, <2>1, <2>2, <2>3, DelSeq, LeavePolicy
  <2> QED BY <1>3, <2>4
<1>5. CASE ~ (e[2] \in main_store /\ ~ DelPanics(e[2]))
  BY <1>1, <1>2, <1>3, <1>5, DiskKept DEF UnwrappedDel, Panic
<1> QED BY <1>4, <1>5

LEMMA EvictOneStep ==
  ASSUME OneTask, IInv, SeqInv, NEW t \in Tasks, evict_one(t)
  PROVE  DiskSeq' /\ CallCurrent' /\ Policy!Next
<1>1. PICK e \in todo[t] :
        /\ NextToEvict(e, todo[t])
        /\ UnwrappedDel(t, e[2],
             IF todo[t] = {e} \/ total[t] + Size[e[2]] >= goal[t]
             THEN Return(t)
             ELSE /\ todo' = [todo EXCEPT ![t] = @ \ {e}]
                  /\ total' = [total EXCEPT ![t] = total[t] + Size[e[2]]]
                  /\ UNCHANGED <<pc, snap, goal>>)
  BY DEF evict_one
<1>2. /\ pc[t] = "evict" /\ UNCHANGED now /\ activity = "evict" /\ DiskInv /\ LocalInv
      /\ DiskSeq /\ todo[t] = recently_used_store
  BY ActivityOf DEF evict_one, IInv, SeqInv, CallCurrent
<1>3. CASE e[2] \in main_store /\ ~ DelPanics(e[2])
  <2>1. DelTxn(e[2])
    BY <1>1, <1>3 DEF UnwrappedDel
  <2>2. PICK b : b = e[2]
    OBVIOUS
  <2>3. Policy!LeastUsed(b)
    BY <1>1, <1>2, <2>2, FirstLeastUsed
  <2>4. /\ DiskSeq' /\ Policy!Next
        /\ recently_used_store' = {f \in recently_used_store : f[2] # b}
    BY <1>2, <1>3, <2>1, <2>2, <2>3, DelSeq, LeavePolicy
  <2>5. recently_used_store' = recently_used_store \ {e}
    <3>1. \A f \in recently_used_store : f[2] = b => f = e
      BY <1>2, <2>2, EntryOf
    <3> QED BY <2>2, <2>4, <3>1
  <2>6. CASE Return(t)
    BY <1>2, <2>4, <2>6, ReturnCurrent
  <2>7. CASE todo' = [todo EXCEPT ![t] = @ \ {e}] /\ UNCHANGED <<pc, snap>>
    <3>1. todo'[t] = recently_used_store' /\ pc'[t] = "evict"
      BY <1>2, <2>5, <2>7 DEF LocalInv
    <3>2. CallCurrent'
      BY <3>1 DEF CallCurrent, OneTask
    <3> QED BY <2>4, <3>2
  <2> QED BY <1>1, <1>3, <2>6, <2>7 DEF UnwrappedDel
<1>4. CASE ~ (e[2] \in main_store /\ ~ DelPanics(e[2]))
  <2>1. Panic /\ Return(t)
    BY <1>1, <1>4 DEF UnwrappedDel
  <2> QED BY <1>2, <2>1, ReturnCurrent, DiskKept DEF Panic
<1> QED BY <1>3, <1>4

LEMMA NextSeq ==
  ASSUME OneTask, 0 \notin SyncTimes, IInv, SeqInv, Next
  PROVE  SeqInv' /\ Policy!Next
<1>1. now \in Timestamp /\ now # 0 /\ DiskSeq /\ LocalInv
  BY DEF IInv, LocalInv, SeqInv
<1>2. ASSUME NEW t \in Tasks, NEW b \in Blocks, BlockCall(t, b)
      PROVE  DiskSeq' /\ CallCurrent' /\ Policy!Next /\ UNCHANGED now
  <2>1. Idle(t) /\ activity = "idle" /\ UNCHANGED now
    BY <1>2, ActivityOf
    DEF BlockCall, put, del, get, set_pin, has_been_synced, Idle
  <2>2. CASE get(t, b)
    BY <2>1, <2>2, GetStep
  <2>3. CASE ~ get(t, b)
    <3>1. UNCHANGED local
      BY <1>2, <2>3 DEF BlockCall, put, del, set_pin, has_been_synced
    <3>2. CallCurrent'
      BY <2>1, <3>1, IdleCurrent
    <3>3. \A when \in SyncTimes \cup {now} : when \in Timestamp /\ when # 0
      BY <1>1, ConstantsAssumption
    <3> QED BY <1>1, <1>2, <2>1, <2>3, <3>2, <3>3, PutStep, DelStep, SetPinStep,
               HasBeenSyncedStep DEF BlockCall
  <2> QED BY <2>2, <2>3
<1>3. ASSUME NEW t \in Tasks, get_touch(t)
      PROVE  DiskSeq' /\ CallCurrent' /\ Policy!Next /\ UNCHANGED now
  <2>1. activity = "get" /\ Return(t) /\ UNCHANGED now
    BY <1>3, ActivityOf DEF get_touch
  <2> QED BY <1>1, <1>3, <2>1, GetTouchStep, ReturnCurrent
<1>4. ASSUME NEW t \in Tasks, remove_expired(t)
      PROVE  DiskSeq' /\ CallCurrent' /\ Policy!Next /\ UNCHANGED now
  BY <1>4, RemoveExpiredStep DEF remove_expired
<1>5. ASSUME NEW t \in Tasks, expire_one(t)
      PROVE  DiskSeq' /\ CallCurrent' /\ Policy!Next /\ UNCHANGED now
  BY <1>5, ExpireOneStep DEF expire_one
<1>6. ASSUME NEW t \in Tasks, NEW size \in EvictSizes, remove_least_used(t, size)
      PROVE  DiskSeq' /\ CallCurrent' /\ Policy!Next /\ UNCHANGED now
  BY <1>6, RemoveLeastUsedStep DEF remove_least_used
<1>7. ASSUME NEW t \in Tasks, evict_one(t)
      PROVE  DiskSeq' /\ CallCurrent' /\ Policy!Next /\ UNCHANGED now
  BY <1>7, EvictOneStep DEF evict_one
<1>8. ASSUME Tick PROVE SeqInv' /\ Policy!Next
  <2>1. now' = now + 1 /\ UNCHANGED <<disk, local, outcome>>
    BY <1>8 DEF Tick
  <2>2. DiskSeq' /\ CallCurrent'
    BY <1>1, <2>1, DiskSeqUnchanged DEF disk, local, SeqInv, CallCurrent
  <2>3. now' # 0
    BY <1>1, <2>1 DEF Timestamp
  <2>4. Policy!Pass
    BY <2>1 DEF disk, local, Policy!Pass
  <2> QED BY <2>2, <2>3, <2>4 DEF SeqInv, Policy!Next
<1>9. ASSUME Restart PROVE SeqInv' /\ Policy!Next
  <2>1. CallCurrent'
    BY <1>9 DEF Restart, CallCurrent
  <2> QED BY <1>1, <1>9, <2>1, DiskKept DEF Restart, SeqInv
<1>10. ASSUME DiskSeq', CallCurrent', UNCHANGED now PROVE SeqInv'
  BY <1>1, <1>10 DEF SeqInv
<1> QED BY <1>2, <1>3, <1>4, <1>5, <1>6, <1>7, <1>8, <1>9, <1>10 DEF Next

LEMMA SeqUnchanged ==
  ASSUME SeqInv, UNCHANGED vars
  PROVE  SeqInv'
BY DiskSeqUnchanged DEF SeqInv, vars, disk, local, CallCurrent

LEMMA SeqHolds ==
  ASSUME OneTask, 0 \notin SyncTimes
  PROVE  Spec => []SeqInv
<1>1. Init => SeqInv
  BY DEF Init, SeqInv, DiskSeq, LruOnly, SyncedUsed, IsSynced, HasMeta, CallCurrent
<1>2. IInv /\ SeqInv /\ [Next]_vars => SeqInv'
  BY NextSeq, SeqUnchanged
<1> QED BY <1>1, <1>2, InductiveInvariant, PTL DEF Spec

\* When one task uses the store, the LRU lists exactly the blocks that may be
\* evicted, each once: remove_least_used misses none and removes no other.
THEOREM LruCorrect ==
  ASSUME OneTask, 0 \notin SyncTimes
  PROVE  Spec => []LruExact
<1>1. IInv /\ SeqInv => LruExact
  <2> SUFFICES ASSUME IInv, SeqInv PROVE LruExact
    OBVIOUS
  <2>1. DiskInv /\ DiskSeq
    BY DEF IInv, SeqInv
  <2>2. \A b \in Blocks : IsSynced(b) /\ ~ meta_store[b].pin =>
           <<meta_store[b].last_used, b>> \in recently_used_store
    BY <2>1 DEF DiskInv, EvictableTracked
  <2>3. ASSUME NEW e \in recently_used_store
        PROVE  \E b \in {c \in Blocks : IsSynced(c) /\ ~ meta_store[c].pin} :
                  e = <<meta_store[b].last_used, b>>
    BY <2>1, EntryOf
  <2> QED BY <2>2, <2>3 DEF LruExact
<1> QED BY <1>1, InductiveInvariant, SeqHolds, PTL

\* When one task uses the store, whatever LmdbRepoStore does with its tables,
\* indexes and transactions is a step the retention policy allows: a block
\* leaves by del, when it has expired, or as the least recently used of those
\* synced and not pinned, and a call that fails changes nothing.
THEOREM ImplementsPolicy ==
  ASSUME OneTask, Tasks # {}, 0 \notin SyncTimes
  PROVE  Spec => PolicySpec
<1>1. Init => Policy!Init
  <2>1. (CHOOSE t \in Tasks : TRUE) \in Tasks
    OBVIOUS
  <2> QED BY <2>1 DEF Init, Policy!Init
<1>2. IInv /\ SeqInv /\ [Next]_vars => [Policy!Next]_(Policy!vars)
  <2>1. UNCHANGED vars => UNCHANGED Policy!vars
    BY DEF vars, disk, local, Policy!vars
  <2> QED BY <2>1, NextSeq
<1> QED BY <1>1, <1>2, InductiveInvariant, SeqHolds, PTL DEF Spec, PolicySpec, Policy!Spec
=============================================================================
