---------------------------- MODULE BrokerServer ----------------------------
(***************************************************************************)
(* The broker's overlays and block stores (lofire-broker/src/server.rs):   *)
(* how a task joins an overlay, and how the requests of a task find, open  *)
(* and use the block store of an overlay.                                  *)
(*                                                                         *)
(* Durable state: the records of Account, Overlay, RepoStoreInfo and Peer  *)
(* in the LmdbBrokerStore, where every property of a record may have       *)
(* several values and every access is a transaction of its own, and the    *)
(* key each block store was encrypted with when its files were created.    *)
(* State in memory: the two maps of BrokerServer, each under a             *)
(* std::sync::RwLock, and the environments opened by the process.          *)
(*                                                                         *)
(* A step is one transaction, or what a task does between taking a lock    *)
(* and the next transaction or lock.  Records are never deleted by the     *)
(* server, so a check that a record exists stays true; add_user checks     *)
(* twice and fails either way, which is one step here.                     *)
(***************************************************************************)
EXTENDS Naturals, Sequences, FiniteSets

CONSTANTS
  Modes,      \* the ConfigModes a broker may be configured with
  Overlays,
  RepoOf,     \* the repository that joins name for an overlay; the server does not
              \* check it, and clients that agree always name the same one
  Users,
  Peers,
  PeerLists,  \* the lists of adverts that may come with a join
  Keys,       \* encryption keys, ordered as their bytes
  Tasks,
  NoKey,
  Faults      \* what may go wrong: see FaultKinds

\* The operation on the block store panics, the process is killed and started
\* again, the directory of a block store cannot be created.
FaultKinds == {"panic", "restart", "io"}

RepoStoreIds ==
  {<<"Overlay", o>> : o \in Overlays} \cup {<<"Repo", RepoOf[o]>> : o \in Overlays}

Adverts == [peer : Peers, version : Nat]

ASSUME BrokerConstants ==
  /\ Modes \subseteq {"Local", "Core"}
  /\ PeerLists \subseteq Seq(Adverts)
  /\ Keys \subseteq Nat
  /\ NoKey \notin Keys
  /\ Faults \subseteq FaultKinds

VARIABLES
  mode,              \* ConfigMode of the broker, fixed when it is created
  accounts,          \* users with an account (property ADMIN)
  account_overlay,   \* pairs <<user, overlay>>
  overlay_secret,    \* overlays with the property SECRET: they exist
  overlay_repo,      \* overlays with the property REPO
  overlay_meta,      \* overlays with the property META
  overlay_peer,      \* pairs <<overlay, peer>>
  repostoreinfo,     \* keys of each block store (property KEY)
  peer_version,      \* versions of each peer (property VERSION): it exists
  peer_advert,       \* versions of the adverts of each peer (property ADVERT)
  files,             \* key the files of a block store were created with
  envs,              \* block stores whose environment this process opened
  repo_stores,       \* BrokerServer.repo_stores
  overlayid_to_repostore,  \* overlays mapped (to their RepoStoreId)
  poisoned,          \* locks poisoned by a panic
  holds,             \* guards each task holds: <<lock, "read" or "write">>
  pc,                \* next step of each task
  req                \* arguments and locals of the call of each task

account_vars == <<accounts, account_overlay>>
overlay_vars == <<overlay_secret, overlay_repo, overlay_meta, overlay_peer>>
peer_vars == <<peer_version, peer_advert>>
durable == <<mode, account_vars, overlay_vars, repostoreinfo, peer_vars, files>>
memory == <<envs, repo_stores, overlayid_to_repostore, poisoned, holds>>
vars == <<durable, memory, pc, req>>

\* The locks of BrokerServer and the one of rkv's Manager.
Locks == {"stores", "map", "manager"}
Guards == {"stores", "map"} \X {"read", "write"}

JoinSteps == {"create_overlay", "put_secret", "put_repo", "put_meta",
              "create_info", "put_key", "peers", "create_peer", "put_version",
              "put_advert", "replace_advert", "add_peer"}
StoreSteps == {"lookup_store", "open_overlay", "map_overlay", "open_info",
               "open_env", "insert_store", "run"}
Steps == {"idle", "add_user"} \cup JoinSteps \cup StoreSteps

NoReq == [call |-> "none"]

Requests ==
  [call : {"add_user"}, user : Users]
    \cup [call : {"join"}, overlay : Overlays, user : Users,
          peers : Seq(Adverts)]
    \cup [call : {"store"}, overlay : Overlays, key : Keys \cup {NoKey}]

TypeOK ==
  /\ mode \in Modes
  /\ accounts \subseteq Users
  /\ account_overlay \subseteq Users \X Overlays
  /\ overlay_secret \subseteq Overlays
  /\ overlay_repo \subseteq Overlays
  /\ overlay_meta \subseteq Overlays
  /\ overlay_peer \subseteq Overlays \X Peers
  /\ repostoreinfo \in [RepoStoreIds -> SUBSET Keys]
  /\ peer_version \in [Peers -> SUBSET Nat]
  /\ peer_advert \in [Peers -> SUBSET Nat]
  /\ files \in [RepoStoreIds -> Keys \cup {NoKey}]
  /\ envs \subseteq RepoStoreIds
  /\ repo_stores \subseteq RepoStoreIds
  /\ overlayid_to_repostore \subseteq Overlays
  /\ poisoned \subseteq Locks
  /\ holds \in [Tasks -> SUBSET Guards]
  /\ pc \in [Tasks -> Steps]
  /\ req \in [Tasks -> Requests \cup {NoReq}]

Init ==
  /\ mode \in Modes
  /\ accounts = {}
  /\ account_overlay = {}
  /\ overlay_secret = {}
  /\ overlay_repo = {}
  /\ overlay_meta = {}
  /\ overlay_peer = {}
  /\ repostoreinfo = [s \in RepoStoreIds |-> {}]
  /\ peer_version = [p \in Peers |-> {}]
  /\ peer_advert = [p \in Peers |-> {}]
  /\ files = [s \in RepoStoreIds |-> NoKey]
  /\ envs = {}
  /\ repo_stores = {}
  /\ overlayid_to_repostore = {}
  /\ poisoned = {}
  /\ holds = [t \in Tasks |-> {}]
  /\ pc = [t \in Tasks |-> "idle"]
  /\ req = [t \in Tasks |-> NoReq]

-----------------------------------------------------------------------------

Goto(t, step) ==
  /\ pc' = [pc EXCEPT ![t] = step]
  /\ UNCHANGED req

\* The call returns, with or without an error.
Return(t) ==
  /\ pc' = [pc EXCEPT ![t] = "idle"]
  /\ req' = [req EXCEPT ![t] = NoReq]

Begin(t, r, step) ==
  /\ pc' = [pc EXCEPT ![t] = step]
  /\ req' = [req EXCEPT ![t] = r]

\* compute_repostore_id
RepoStoreId(o) ==
  IF mode = "Core" THEN <<"Overlay", o>> ELSE <<"Repo", RepoOf[o]>>

\* LmdbBrokerStore::get returns the first value in the order of their bytes.
First(S) == CHOOSE k \in S : \A j \in S : k <= j

-----------------------------------------------------------------------------
(***************************************************************************)
(* add_user                                                                *)
(***************************************************************************)

add_user(t, u) ==
  /\ pc[t] = "idle"
  /\ \/ u \in accounts /\ UNCHANGED <<pc, req>>
     \/ u \notin accounts /\ Begin(t, [call |-> "add_user", user |-> u], "add_user")
  /\ UNCHANGED <<durable, memory>>

create_account(t) ==
  /\ pc[t] = "add_user"
  /\ accounts' = accounts \cup {req[t].user}
  /\ Return(t)
  /\ UNCHANGED <<mode, account_overlay, overlay_vars, repostoreinfo, peer_vars, files,
                 memory>>

-----------------------------------------------------------------------------
(***************************************************************************)
(* join_overlay                                                            *)
(***************************************************************************)

\* repo: whether the client names the repository.
join_overlay(t, o, u, ps, repo) ==
  LET r == [call |-> "join", overlay |-> o, user |-> u, peers |-> ps]
  IN  /\ pc[t] = "idle"
      /\ \/ o \in overlay_secret /\ Begin(t, r, "peers")
         \/ /\ o \notin overlay_secret
            /\ mode = "Local" /\ ~ repo
            /\ UNCHANGED <<pc, req>>
         \/ /\ o \notin overlay_secret
            /\ mode = "Core" \/ repo
            /\ Begin(t, r, "create_overlay")
      /\ UNCHANGED <<durable, memory>>

create_overlay(t) ==
  /\ pc[t] = "create_overlay"
  /\ \/ req[t].overlay \in overlay_secret /\ Return(t)
     \/ req[t].overlay \notin overlay_secret /\ Goto(t, "put_secret")
  /\ UNCHANGED <<durable, memory>>

put_secret(t) ==
  /\ pc[t] = "put_secret"
  /\ overlay_secret' = overlay_secret \cup {req[t].overlay}
  /\ Goto(t, IF mode = "Local" THEN "put_repo" ELSE "put_meta")
  /\ UNCHANGED <<mode, account_vars, overlay_repo, overlay_meta, overlay_peer,
                 repostoreinfo, peer_vars, files, memory>>

put_repo(t) ==
  /\ pc[t] = "put_repo"
  /\ overlay_repo' = overlay_repo \cup {req[t].overlay}
  /\ Goto(t, "put_meta")
  /\ UNCHANGED <<mode, account_vars, overlay_secret, overlay_meta, overlay_peer,
                 repostoreinfo, peer_vars, files, memory>>

put_meta(t) ==
  /\ pc[t] = "put_meta"
  /\ overlay_meta' = overlay_meta \cup {req[t].overlay}
  /\ Goto(t, "create_info")
  /\ UNCHANGED <<mode, account_vars, overlay_secret, overlay_repo, overlay_peer,
                 repostoreinfo, peer_vars, files, memory>>

\* Mutant: RepoStoreInfo::create does not check that there is no key yet.
create_info_unchecked(t) ==
  /\ pc[t] = "create_info"
  /\ Goto(t, "put_key")
  /\ UNCHANGED <<durable, memory>>

\* RepoStoreInfo::create: the overlay stays if this fails.
create_info(t) ==
  /\ pc[t] = "create_info"
  /\ \/ repostoreinfo[RepoStoreId(req[t].overlay)] # {} /\ Return(t)
     \/ /\ repostoreinfo[RepoStoreId(req[t].overlay)] = {}
        /\ Goto(t, "put_key")
  /\ UNCHANGED <<durable, memory>>

\* Mutant: a key that was never filled in.
put_key_blank(t) ==
  /\ pc[t] = "put_key"
  /\ repostoreinfo' =
       [repostoreinfo EXCEPT ![RepoStoreId(req[t].overlay)] = @ \cup {NoKey}]
  /\ Goto(t, "peers")
  /\ UNCHANGED <<mode, account_vars, overlay_vars, peer_vars, files, memory>>

\* The key is random: one that no block store has.
put_key(t) ==
  /\ pc[t] = "put_key"
  /\ \E k \in Keys :
        /\ \A s \in RepoStoreIds : k \notin repostoreinfo[s]
        /\ repostoreinfo' =
             [repostoreinfo EXCEPT ![RepoStoreId(req[t].overlay)] = @ \cup {k}]
  /\ Goto(t, "peers")
  /\ UNCHANGED <<mode, account_vars, overlay_vars, peer_vars, files, memory>>

\* After the last advert the overlay is added to the account.
add_overlay(t) ==
  /\ pc[t] = "peers" /\ req[t].peers = <<>>
  /\ account_overlay' =
       IF req[t].user \in accounts
       THEN account_overlay \cup {<<req[t].user, req[t].overlay>>}
       ELSE account_overlay
  /\ Return(t)
  /\ UNCHANGED <<mode, accounts, overlay_vars, repostoreinfo, peer_vars, files, memory>>

\* An advert that is not newer than the one the peer has is ignored.
Stale(current, new) == current >= new

\* Peer::update_or_create: an unknown peer is created, a known one compared
\* with the advert it has, which may not have been put yet.  Which of several
\* adverts get returns depends on their bytes.
update_or_create(t) ==
  /\ pc[t] = "peers" /\ req[t].peers # <<>>
  /\ LET p == Head(req[t].peers).peer
         v == Head(req[t].peers).version
     IN  \/ peer_version[p] = {} /\ Goto(t, "create_peer")
         \/ peer_version[p] # {} /\ peer_advert[p] = {} /\ Return(t)
         \/ /\ peer_version[p] # {}
            /\ \E current \in peer_advert[p] :
                  Goto(t, IF Stale(current, v) THEN "add_peer"
                                               ELSE "replace_advert")
  /\ UNCHANGED <<durable, memory>>

\* Mutant: Peer::create does not look again whether the peer exists.
create_peer_blind(t) ==
  /\ pc[t] = "create_peer"
  /\ Goto(t, "put_version")
  /\ UNCHANGED <<durable, memory>>

\* Peer::create fails if another join has created the peer by now.
create_peer(t) ==
  /\ pc[t] = "create_peer"
  /\ \/ peer_version[Head(req[t].peers).peer] # {} /\ Return(t)
     \/ peer_version[Head(req[t].peers).peer] = {} /\ Goto(t, "put_version")
  /\ UNCHANGED <<durable, memory>>

\* Mutant: Peer::create forgets the ADVERT property.
put_version_only(t) ==
  /\ pc[t] = "put_version"
  /\ peer_version' = [peer_version EXCEPT ![Head(req[t].peers).peer] =
                        @ \cup {Head(req[t].peers).version}]
  /\ Goto(t, "add_peer")
  /\ UNCHANGED <<mode, account_vars, overlay_vars, repostoreinfo, peer_advert, files,
                 memory>>

put_version(t) ==
  /\ pc[t] = "put_version"
  /\ peer_version' = [peer_version EXCEPT ![Head(req[t].peers).peer] =
                        @ \cup {Head(req[t].peers).version}]
  /\ Goto(t, "put_advert")
  /\ UNCHANGED <<mode, account_vars, overlay_vars, repostoreinfo, peer_advert, files,
                 memory>>

put_advert(t) ==
  /\ pc[t] = "put_advert"
  /\ peer_advert' = [peer_advert EXCEPT ![Head(req[t].peers).peer] =
                       @ \cup {Head(req[t].peers).version}]
  /\ Goto(t, "add_peer")
  /\ UNCHANGED <<mode, account_vars, overlay_vars, repostoreinfo, peer_version, files,
                 memory>>

\* The properties of the other record, VERSION included, stay as they are.
replace_advert(t) ==
  /\ pc[t] = "replace_advert"
  /\ peer_advert' = [peer_advert EXCEPT ![Head(req[t].peers).peer] =
                       {Head(req[t].peers).version}]
  /\ Goto(t, "add_peer")
  /\ UNCHANGED <<mode, account_vars, overlay_vars, repostoreinfo, peer_version, files,
                 memory>>

add_peer(t) ==
  /\ pc[t] = "add_peer"
  /\ overlay_peer' =
       overlay_peer \cup {<<req[t].overlay, Head(req[t].peers).peer>>}
  /\ pc' = [pc EXCEPT ![t] = "peers"]
  /\ req' = [req EXCEPT ![t].peers = Tail(@)]
  /\ UNCHANGED <<mode, account_vars, overlay_secret, overlay_repo, overlay_meta,
                 repostoreinfo, peer_vars, files, memory>>

-----------------------------------------------------------------------------
(***************************************************************************)
(* get_repostore_from_overlay_id and open_or_create_repostore.  A guard is *)
(* held until the call returns; a panic poisons the locks it held for      *)
(* writing, and the expect() of the next task to take one panics in turn.  *)
(***************************************************************************)

CanRead(lock) == \A t \in Tasks : <<lock, "write">> \notin holds[t]

CanWrite(lock) ==
  \A t \in Tasks : <<lock, "write">> \notin holds[t] /\ <<lock, "read">> \notin holds[t]

Take(t, guard) == holds' = [holds EXCEPT ![t] = @ \cup {guard}]

Release(t) == holds' = [holds EXCEPT ![t] = {}]

\* The call ends, and its guards are dropped.
Finish(t) ==
  /\ Release(t)
  /\ Return(t)
  /\ UNCHANGED poisoned

PanicHolding(t, locks) ==
  /\ poisoned' = poisoned \cup locks
                   \cup {lock \in Locks : <<lock, "write">> \in holds[t]}
  /\ Release(t)
  /\ Return(t)

store_maps == <<envs, repo_stores, overlayid_to_repostore>>

\* Local mode: the overlay is mapped, or it must be opened.
local_lookup(t, o) ==
  LET r == [call |-> "store", overlay |-> o, key |-> NoKey]
  IN  /\ pc[t] = "idle"
      /\ mode = "Local"
      /\ CanRead("map")
      /\ \/ "map" \in poisoned /\ PanicHolding(t, {})
         \/ /\ "map" \notin poisoned
            /\ o \in overlayid_to_repostore
            /\ Take(t, <<"map", "read">>)
            /\ Begin(t, r, "lookup_store")
            /\ UNCHANGED poisoned
         \/ /\ "map" \notin poisoned
            /\ o \notin overlayid_to_repostore
            /\ Begin(t, r, "open_overlay")
            /\ UNCHANGED <<holds, poisoned>>
      /\ UNCHANGED <<durable, store_maps>>

lookup_store(t) ==
  /\ pc[t] = "lookup_store"
  /\ CanRead("stores")
  /\ \/ "stores" \in poisoned /\ PanicHolding(t, {})
     \/ /\ "stores" \notin poisoned
        /\ RepoStoreId(req[t].overlay) \in repo_stores
        /\ Take(t, <<"stores", "read">>)
        /\ Goto(t, "run")
        /\ UNCHANGED poisoned
     \/ /\ "stores" \notin poisoned
        /\ RepoStoreId(req[t].overlay) \notin repo_stores
        /\ Finish(t)
  /\ UNCHANGED <<durable, store_maps>>

\* Overlay::open and overlay.repo() fail with NotFound.
open_overlay(t) ==
  /\ pc[t] = "open_overlay"
  /\ \/ req[t].overlay \notin overlay_secret \cap overlay_repo /\ Return(t)
     \/ req[t].overlay \in overlay_secret \cap overlay_repo /\ Goto(t, "map_overlay")
  /\ UNCHANGED <<durable, memory>>

\* The overlay is mapped before its store is known to open.
map_overlay(t) ==
  /\ pc[t] = "map_overlay"
  /\ CanWrite("map")
  /\ \/ /\ "map" \in poisoned
        /\ PanicHolding(t, {})
        /\ UNCHANGED overlayid_to_repostore
     \/ /\ "map" \notin poisoned
        /\ Take(t, <<"map", "write">>)
        /\ overlayid_to_repostore' = overlayid_to_repostore \cup {req[t].overlay}
        /\ Goto(t, "open_info")
        /\ UNCHANGED poisoned
  /\ UNCHANGED <<durable, envs, repo_stores>>

\* Core mode: the guard is kept while the store is opened.
core_lookup(t, o) ==
  /\ pc[t] = "idle"
  /\ mode = "Core"
  /\ CanRead("stores")
  /\ \/ "stores" \in poisoned /\ PanicHolding(t, {})
     \/ /\ "stores" \notin poisoned
        /\ Take(t, <<"stores", "read">>)
        /\ Begin(t, [call |-> "store", overlay |-> o, key |-> NoKey],
                 IF RepoStoreId(o) \in repo_stores THEN "run" ELSE "open_info")
        /\ UNCHANGED poisoned
  /\ UNCHANGED <<durable, store_maps>>

open_info(t) ==
  LET keys == repostoreinfo[RepoStoreId(req[t].overlay)]
  IN  /\ pc[t] = "open_info"
      /\ \/ keys = {} /\ Finish(t)
         \/ /\ keys # {}
            /\ pc' = [pc EXCEPT ![t] = "open_env"]
            /\ req' = [req EXCEPT ![t].key = First(keys)]
            /\ UNCHANGED <<holds, poisoned>>
      /\ UNCHANGED <<durable, store_maps>>

\* Mutant: the environment is created without the key.
open_env_plain(t) ==
  /\ pc[t] = "open_env"
  /\ envs' = envs \cup {RepoStoreId(req[t].overlay)}
  /\ Goto(t, "insert_store")
  /\ UNCHANGED <<durable, repo_stores, overlayid_to_repostore, holds, poisoned>>

\* create_dir_all may fail.  LmdbRepoStore::open: an environment the process has
\* open is shared, whatever the key; otherwise the files are created with this
\* key, or cannot be read with another key than theirs.
open_env(t) ==
  LET s == RepoStoreId(req[t].overlay)
      k == req[t].key
  IN  /\ pc[t] = "open_env"
      /\ \/ /\ "io" \in Faults
            /\ Finish(t)
            /\ UNCHANGED <<envs, files>>
         \/ /\ "manager" \in poisoned \/ (s \notin envs /\ files[s] \notin {NoKey, k})
            /\ PanicHolding(t, {"manager"})
            /\ UNCHANGED <<envs, files>>
         \/ /\ "manager" \notin poisoned /\ (s \in envs \/ files[s] \in {NoKey, k})
            /\ envs' = envs \cup {s}
            /\ files' = [files EXCEPT ![s] = IF @ = NoKey THEN k ELSE @]
            /\ Goto(t, "insert_store")
            /\ UNCHANGED <<holds, poisoned>>
      /\ UNCHANGED <<mode, account_vars, overlay_vars, repostoreinfo, peer_vars,
                     repo_stores, overlayid_to_repostore>>

\* Mutant: the map is locked again while the guard on it is still held.
insert_store_upgrade(t) ==
  /\ pc[t] = "insert_store"
  /\ CanWrite("stores") /\ CanRead("map")
  /\ Take(t, <<"stores", "write">>)
  /\ repo_stores' = repo_stores \cup {RepoStoreId(req[t].overlay)}
  /\ Goto(t, "run")
  /\ UNCHANGED <<durable, envs, overlayid_to_repostore, poisoned>>

insert_store(t) ==
  /\ pc[t] = "insert_store"
  /\ CanWrite("stores")
  /\ \/ /\ "stores" \in poisoned
        /\ PanicHolding(t, {})
        /\ UNCHANGED repo_stores
     \/ /\ "stores" \notin poisoned
        /\ Take(t, <<"stores", "write">>)
        /\ repo_stores' = repo_stores \cup {RepoStoreId(req[t].overlay)}
        /\ Goto(t, "run")
        /\ UNCHANGED poisoned
  /\ UNCHANGED <<durable, envs, overlayid_to_repostore>>

\* The operation on the block store, under the guards taken on the way.
run(t) ==
  /\ pc[t] = "run"
  /\ \/ Finish(t)
     \/ "panic" \in Faults /\ PanicHolding(t, {})
  /\ UNCHANGED <<durable, store_maps>>

-----------------------------------------------------------------------------

Restart ==
  /\ "restart" \in Faults
  /\ envs' = {}
  /\ repo_stores' = {}
  /\ overlayid_to_repostore' = {}
  /\ poisoned' = {}
  /\ holds' = [t \in Tasks |-> {}]
  /\ pc' = [t \in Tasks |-> "idle"]
  /\ req' = [t \in Tasks |-> NoReq]
  /\ UNCHANGED durable

Call(t) ==
  \/ \E u \in Users : add_user(t, u)
  \/ \E o \in Overlays : local_lookup(t, o) \/ core_lookup(t, o)
  \/ \E o \in Overlays, u \in Users, ps \in PeerLists, repo \in BOOLEAN :
        join_overlay(t, o, u, ps, repo)

Continue(t) ==
  \/ create_account(t)
  \/ create_overlay(t) \/ put_secret(t) \/ put_repo(t) \/ put_meta(t)
  \/ create_info(t) \/ put_key(t)
  \/ update_or_create(t) \/ create_peer(t) \/ put_version(t) \/ put_advert(t)
  \/ replace_advert(t) \/ add_peer(t) \/ add_overlay(t)
  \/ lookup_store(t) \/ open_overlay(t) \/ map_overlay(t) \/ open_info(t)
  \/ open_env(t) \/ insert_store(t) \/ run(t)

Next ==
  \/ \E t \in Tasks : Call(t) \/ Continue(t)
  \/ Restart

Spec == Init /\ [][Next]_vars

\* A task that can go on does, also one that waits for a lock others keep
\* taking: std's RwLock lets no new reader in while a writer waits.
FairSpec == Spec /\ \A t \in Tasks : SF_vars(Continue(t))

-----------------------------------------------------------------------------
(***************************************************************************)
(* Properties                                                              *)
(***************************************************************************)

\* What a record refers to exists, at every step of every join and after a
\* crash at any point: the overlays of an account, the overlays that have
\* peers, and the peers of an overlay with an advert.
NoDanglingReferences ==
  /\ \A r \in account_overlay : r[1] \in accounts /\ r[2] \in overlay_secret
  /\ \A r \in overlay_peer : r[1] \in overlay_secret /\ peer_advert[r[2]] # {}

\* The files of a block store this process has open are encrypted with a key
\* that RepoStoreInfo keeps, whatever joins are under way: the blocks in them
\* can be decrypted with what is on disk.
OpenStoresReadable ==
  /\ repo_stores \subseteq envs
  /\ \A s \in envs : files[s] \in repostoreinfo[s]

\* Every call returns: no task waits for a lock forever, whatever other tasks
\* hold and whichever of them panicked.
CallsReturn ==
  \A t \in Tasks : pc[t] # "idle" ~> pc[t] = "idle"

\* The same of a server in Local mode, where requests open block stores under
\* the write guards of both maps.
LocalCallsReturn ==
  \A t \in Tasks : mode = "Local" /\ pc[t] # "idle" ~> pc[t] = "idle"

\* The key RepoStoreInfo gives for a block store is the one its files were
\* created with, so that the store can be opened again after a restart.
KeyStable ==
  \A s \in RepoStoreIds :
    files[s] # NoKey => First(repostoreinfo[s]) = files[s]

\* A join that has looked at the advert of a peer and has yet to write its own.
AboutToWrite(t, p) ==
  /\ pc[t] \in {"put_version", "put_advert", "replace_advert"}
  /\ Head(req[t].peers).peer = p

Versions == {a.version : a \in UNION {{ps[i] : i \in DOMAIN ps} : ps \in PeerLists}}

\* A peer has an advert and, whatever the joins under way write, none older than n.
NotOlder(p, n) ==
  /\ peer_advert[p] # {} /\ \A v \in peer_advert[p] : v >= n
  /\ \A t \in Tasks : AboutToWrite(t, p) => Head(req[t].peers).version >= n

\* Joins compare adverts and write them in separate transactions, so that an older
\* advert may replace a newer one; but then both were brought by joins that were
\* under way together.  An advert that was there before they looked is followed
\* by newer ones only, and is never lost, whatever fails and restarts.
SettledAdvertsStay ==
  [][\A p \in Peers, n \in Versions : NotOlder(p, n) => NotOlder(p, n)']_vars
=============================================================================
