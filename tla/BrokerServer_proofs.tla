------------------------ MODULE BrokerServer_proofs ------------------------
(***************************************************************************)
(* Proofs about BrokerServer, for any users, overlays, peers, keys and     *)
(* tasks, in both modes and with every fault.                              *)
(***************************************************************************)
EXTENDS BrokerServer, WellFoundedInduction, TLAPS

AddUserRequest == [call : {"add_user"}, user : Users]
JoinRequest == [call : {"join"}, overlay : Overlays, user : Users, peers : Seq(Adverts)]
StoreRequest == [call : {"store"}, overlay : Overlays, key : Keys \cup {NoKey}]

\* Steps of a join after the overlay exists, and those about a peer.
OverlaySteps == JoinSteps \ {"create_overlay", "put_secret"}
PeerSteps == {"create_peer", "put_version", "put_advert", "replace_advert", "add_peer"}

\* What a task that is to take a step relies on: the records it has seen or
\* written, the key it read, the environment it opened.
StepOK(step, r) ==
  /\ step \in Steps /\ r \in Requests \cup {NoReq}
  /\ step = "add_user" => r \in AddUserRequest
  /\ step \in JoinSteps => r \in JoinRequest
  /\ step \in StoreSteps => r \in StoreRequest
  /\ step \in OverlaySteps => r.overlay \in overlay_secret
  /\ step \in PeerSteps => r.peers # << >>
  /\ step = "add_peer" => peer_advert[Head(r.peers).peer] # {}
  /\ step = "open_env" => r.key \in repostoreinfo[RepoStoreId(r.overlay)]
  /\ step = "insert_store" => RepoStoreId(r.overlay) \in envs

TasksOK == \A t \in Tasks : StepOK(pc[t], req[t])

\* Files are created with a key that was on disk first, and are what an open
\* environment reads.
FilesOK ==
  /\ \A s \in RepoStoreIds : files[s] # NoKey => files[s] \in repostoreinfo[s]
  /\ \A s \in envs : files[s] # NoKey
  /\ repo_stores \subseteq envs

Inv == TypeOK /\ NoDanglingReferences /\ FilesOK /\ TasksOK

-----------------------------------------------------------------------------
(***************************************************************************)
(* Facts about the operators.                                              *)
(***************************************************************************)

\* LmdbBrokerStore::get finds a value whenever there is one.
LEMMA FirstIn ==
  ASSUME NEW S, S \subseteq Nat, S # {}
  PROVE  First(S) \in S /\ \A j \in S : First(S) <= j
<1>1. PICK R : R = {ss \in Nat \X Nat : ss[1] < ss[2]} /\ IsWellFoundedOn(R, Nat)
  BY NatLessThanWellFounded, Zenon DEF OpToRel
<1>2. PICK k \in S : \A j \in S : ~ (<<j, k>> \in R)
  BY <1>1, WFMin
<1>3. ASSUME NEW j \in S PROVE k <= j
  <2>1. ASSUME j < k PROVE <<j, k>> \in R
    BY <1>1, <2>1
  <2> QED BY <1>2, <2>1
<1> QED BY <1>3 DEF First

LEMMA IdTypes ==
  ASSUME NEW o \in Overlays
  PROVE  RepoStoreId(o) \in RepoStoreIds
BY DEF RepoStoreId, RepoStoreIds

LEMMA RequestKinds ==
  /\ AddUserRequest \subseteq Requests /\ JoinRequest \subseteq Requests
  /\ StoreRequest \subseteq Requests
BY DEF AddUserRequest, JoinRequest, StoreRequest, Requests

LEMMA AddUserFields ==
  ASSUME NEW r \in AddUserRequest
  PROVE  r.user \in Users
BY DEF AddUserRequest

LEMMA JoinFields ==
  ASSUME NEW r \in JoinRequest
  PROVE  /\ r.overlay \in Overlays /\ r.user \in Users /\ r.peers \in Seq(Adverts)
         /\ r.peers # << >> =>
              /\ Head(r.peers).peer \in Peers /\ Head(r.peers).version \in Nat
              /\ Tail(r.peers) \in Seq(Adverts)
<1>1. r.overlay \in Overlays /\ r.user \in Users /\ r.peers \in Seq(Adverts)
  BY DEF JoinRequest
<1>2. ASSUME r.peers # << >> PROVE Head(r.peers) \in Adverts /\ Tail(r.peers) \in Seq(Adverts)
  BY <1>1, <1>2
<1> QED BY <1>1, <1>2 DEF Adverts

LEMMA StoreFields ==
  ASSUME NEW r \in StoreRequest
  PROVE  r.overlay \in Overlays /\ r.key \in Keys \cup {NoKey}
BY DEF StoreRequest

\* A step that makes the records of others no poorer.
Grows ==
  /\ mode' = mode
  /\ overlay_secret \subseteq overlay_secret'
  /\ \A p \in Peers : peer_advert[p] # {} => peer_advert'[p] # {}
  /\ \A s \in RepoStoreIds : repostoreinfo[s] \subseteq repostoreinfo'[s]
  /\ envs \subseteq envs'

LEMMA StepKept ==
  ASSUME NEW step, NEW r, StepOK(step, r), Grows
  PROVE  StepOK(step, r)'
<1>1. step \in PeerSteps => step \in JoinSteps
  BY DEF PeerSteps, JoinSteps
<1>2. step = "add_peer" => step \in PeerSteps
  BY DEF PeerSteps
<1>3. step \in {"open_env", "insert_store"} => step \in StoreSteps
  BY DEF StoreSteps
<1>4. \A o : RepoStoreId(o)' = RepoStoreId(o)
  BY DEF Grows, RepoStoreId
<1>5. step = "add_peer" => Head(r.peers).peer \in Peers
  BY <1>1, <1>2, JoinFields DEF StepOK
<1>6. step \in {"open_env", "insert_store"} => RepoStoreId(r.overlay) \in RepoStoreIds
  BY <1>3, StoreFields, IdTypes DEF StepOK
<1>7. step = "open_env" => r.key \in repostoreinfo'[RepoStoreId(r.overlay)']
  BY <1>4, <1>6 DEF StepOK, Grows
<1>8. step = "insert_store" => RepoStoreId(r.overlay)' \in envs'
  BY <1>4, <1>6 DEF StepOK, Grows
<1> QED BY <1>5, <1>7, <1>8 DEF StepOK, Grows

\* The step of a task leaves what the others rely on.
LEMMA TaskMoves ==
  ASSUME Inv, NEW t \in Tasks, NEW step, NEW r,
         pc' = [pc EXCEPT ![t] = step], req' = [req EXCEPT ![t] = r],
         StepOK(step, r)', Grows
  PROVE  TasksOK' /\ pc' \in [Tasks -> Steps] /\ req' \in [Tasks -> Requests \cup {NoReq}]
<1>1. step \in Steps /\ r \in Requests \cup {NoReq}
  BY DEF StepOK
<1>2. ASSUME NEW u \in Tasks PROVE StepOK(pc[u], req[u])'
  <2>1. CASE u = t
    <3>1. pc'[u] = step /\ req'[u] = r
      BY <2>1 DEF Inv, TypeOK
    <3> QED BY <3>1 DEF StepOK
  <2>2. CASE u # t
    <3>1. PICK p, q : p = pc[u] /\ q = req[u]
      OBVIOUS
    <3>2. pc'[u] = p /\ req'[u] = q
      BY <2>2, <3>1 DEF Inv, TypeOK
    <3>3. StepOK(p, q)
      BY <3>1 DEF Inv, TasksOK
    <3>4. StepOK(p, q)'
      BY <3>3, StepKept
    <3> QED BY <3>2, <3>4 DEF StepOK
  <2> QED BY <2>1, <2>2
<1> QED BY <1>1, <1>2 DEF Inv, TypeOK, TasksOK

-----------------------------------------------------------------------------
(***************************************************************************)
(* Steps that write no record and open no store.                           *)
(***************************************************************************)

LEMMA StepsDistinct ==
  /\ "idle" \in Steps /\ "add_user" \in Steps /\ JoinSteps \subseteq Steps
  /\ StoreSteps \subseteq Steps /\ OverlaySteps \subseteq JoinSteps
  /\ PeerSteps \subseteq OverlaySteps
  /\ "idle" \notin JoinSteps \cup StoreSteps /\ "add_user" \notin JoinSteps \cup StoreSteps
  /\ JoinSteps \cap StoreSteps = {}
  /\ {"open_env", "insert_store"} \subseteq StoreSteps
  /\ "add_peer" \in PeerSteps
BY DEF Steps, JoinSteps, StoreSteps, OverlaySteps, PeerSteps

LEMMA IdleOK == StepOK("idle", NoReq)
BY StepsDistinct DEF StepOK

LEMMA ControlStep ==
  ASSUME Inv, NEW t \in Tasks, NEW step, NEW r,
         pc' = [pc EXCEPT ![t] = step], req' = [req EXCEPT ![t] = r], StepOK(step, r),
         UNCHANGED <<durable, envs, repo_stores>>,
         overlayid_to_repostore' \subseteq Overlays,
         poisoned' \subseteq Locks, holds' \in [Tasks -> SUBSET Guards]
  PROVE  Inv'
<1>1. UNCHANGED <<mode, accounts, account_overlay, overlay_secret, overlay_repo, overlay_meta,
                  overlay_peer, repostoreinfo, peer_version, peer_advert, files, envs,
                  repo_stores>>
  BY DEF durable, account_vars, overlay_vars, peer_vars
<1>2. Grows
  BY <1>1 DEF Grows
<1>3. StepOK(step, r)'
  BY <1>2, StepKept
<1>4. TasksOK' /\ pc' \in [Tasks -> Steps] /\ req' \in [Tasks -> Requests \cup {NoReq}]
  BY <1>2, <1>3, TaskMoves
<1>5. TypeOK'
  BY <1>1, <1>4 DEF Inv, TypeOK
<1>6. NoDanglingReferences' /\ FilesOK'
  BY <1>1 DEF Inv, NoDanglingReferences, FilesOK
<1> QED BY <1>4, <1>5, <1>6 DEF Inv

\* The call ends, in one of the three ways it may.
LEMMA ReturnStep ==
  ASSUME Inv, NEW t \in Tasks, UNCHANGED <<durable, envs, repo_stores>>,
         overlayid_to_repostore' = overlayid_to_repostore,
         \/ Return(t) /\ UNCHANGED <<holds, poisoned>>
         \/ Finish(t)
         \/ \E locks \in SUBSET Locks : PanicHolding(t, locks)
  PROVE  Inv'
<1>1. pc' = [pc EXCEPT ![t] = "idle"] /\ req' = [req EXCEPT ![t] = NoReq]
  BY DEF Return, Finish, PanicHolding
<1>2. poisoned' \subseteq Locks /\ holds' \in [Tasks -> SUBSET Guards]
  BY DEF Finish, PanicHolding, Release, Inv, TypeOK
<1>3. overlayid_to_repostore' \subseteq Overlays
  BY DEF Inv, TypeOK
<1> QED BY <1>1, <1>2, <1>3, IdleOK, ControlStep

LEMMA UnchangedInv ==
  ASSUME Inv, UNCHANGED vars
  PROVE  Inv'
BY DEF vars, durable, memory, account_vars, overlay_vars, peer_vars, Inv, TypeOK,
       NoDanglingReferences, FilesOK, TasksOK, StepOK, RepoStoreId

\* A step of a call that has begun.
LEMMA InStep ==
  ASSUME Inv, NEW t \in Tasks
  PROVE  /\ StepOK(pc[t], req[t])
         /\ pc[t] \in JoinSteps => req[t] \in JoinRequest
         /\ pc[t] \in StoreSteps => req[t] \in StoreRequest
BY DEF Inv, TasksOK, StepOK

LEMMA AddUserStep ==
  ASSUME Inv, NEW t \in Tasks, NEW u \in Users, add_user(t, u)
  PROVE  Inv'
<1>1. UNCHANGED <<durable, memory>>
  BY DEF add_user
<1>2. CASE UNCHANGED <<pc, req>>
  BY <1>1, <1>2, UnchangedInv DEF vars
<1>3. CASE Begin(t, [call |-> "add_user", user |-> u], "add_user")
  <2>1. PICK r : r = [call |-> "add_user", user |-> u]
    OBVIOUS
  <2>2. StepOK("add_user", r)
    <3>1. r \in AddUserRequest
      BY <2>1 DEF AddUserRequest
    <3> QED BY <3>1, RequestKinds, StepsDistinct DEF StepOK
  <2>3. pc' = [pc EXCEPT ![t] = "add_user"] /\ req' = [req EXCEPT ![t] = r]
    BY <1>3, <2>1 DEF Begin
  <2>4. /\ overlayid_to_repostore' \subseteq Overlays /\ poisoned' \subseteq Locks
        /\ holds' \in [Tasks -> SUBSET Guards] /\ UNCHANGED <<envs, repo_stores>>
    BY <1>1 DEF memory, Inv, TypeOK
  <2> QED BY <1>1, <2>2, <2>3, <2>4, ControlStep
<1> QED BY <1>2, <1>3 DEF add_user

LEMMA GotoStep ==
  ASSUME Inv, NEW t \in Tasks, NEW step, Goto(t, step), StepOK(step, req[t]),
         UNCHANGED <<durable, envs, repo_stores>>,
         overlayid_to_repostore' \subseteq Overlays,
         poisoned' \subseteq Locks, holds' \in [Tasks -> SUBSET Guards]
  PROVE  Inv'
<1>1. PICK r : r = req[t]
  OBVIOUS
<1>2. pc' = [pc EXCEPT ![t] = step] /\ req' = [req EXCEPT ![t] = r]
  BY <1>1 DEF Goto, Inv, TypeOK
<1>3. StepOK(step, r)
  BY <1>1
<1> QED BY <1>2, <1>3, ControlStep

LEMMA MemoryKept ==
  ASSUME Inv, UNCHANGED memory
  PROVE  /\ overlayid_to_repostore' \subseteq Overlays /\ poisoned' \subseteq Locks
         /\ holds' \in [Tasks -> SUBSET Guards]
         /\ UNCHANGED <<envs, repo_stores, overlayid_to_repostore, holds, poisoned>>
BY DEF memory, Inv, TypeOK

LEMMA TakeTypes ==
  ASSUME Inv, NEW t \in Tasks, NEW guard \in Guards, Take(t, guard)
  PROVE  holds' \in [Tasks -> SUBSET Guards]
BY DEF Take, Inv, TypeOK

LEMMA JoinOverlayStep ==
  ASSUME Inv, NEW t \in Tasks, NEW o \in Overlays, NEW u \in Users, NEW ps \in PeerLists,
         NEW repo \in BOOLEAN, join_overlay(t, o, u, ps, repo)
  PROVE  Inv'
<1>1. UNCHANGED <<durable, memory>>
  BY DEF join_overlay
<1>2. PICK r : r = [call |-> "join", overlay |-> o, user |-> u, peers |-> ps]
  OBVIOUS
<1>3. r \in JoinRequest /\ r.overlay = o
  BY <1>2, BrokerConstants DEF JoinRequest
<1>4. CASE UNCHANGED <<pc, req>>
  BY <1>1, <1>4, UnchangedInv DEF vars
<1>5. CASE o \in overlay_secret /\ Begin(t, r, "peers")
  <2>1. StepOK("peers", r)
    BY <1>3, <1>5, RequestKinds DEF StepOK, Steps, JoinSteps, StoreSteps, PeerSteps
  <2> QED BY <1>1, <1>5, <2>1, MemoryKept, ControlStep DEF Begin
<1>6. CASE Begin(t, r, "create_overlay")
  <2>1. StepOK("create_overlay", r)
    BY <1>3, RequestKinds
    DEF StepOK, Steps, JoinSteps, StoreSteps, PeerSteps, OverlaySteps
  <2> QED BY <1>1, <1>6, <2>1, MemoryKept, ControlStep DEF Begin
<1> QED BY <1>2, <1>4, <1>5, <1>6 DEF join_overlay

LEMMA CreateOverlayStep ==
  ASSUME Inv, NEW t \in Tasks, create_overlay(t)
  PROVE  Inv'
<1>1. UNCHANGED <<durable, memory>> /\ pc[t] = "create_overlay"
  BY DEF create_overlay
<1>2. CASE Return(t)
  BY <1>1, <1>2, MemoryKept, ReturnStep
<1>3. CASE Goto(t, "put_secret")
  <2>1. StepOK("put_secret", req[t])
    BY <1>1, InStep, RequestKinds
    DEF StepOK, Steps, JoinSteps, StoreSteps, PeerSteps, OverlaySteps
  <2> QED BY <1>1, <1>3, <2>1, MemoryKept, GotoStep
<1> QED BY <1>2, <1>3 DEF create_overlay

LEMMA CreateInfoStep ==
  ASSUME Inv, NEW t \in Tasks, create_info(t)
  PROVE  Inv'
<1>1. UNCHANGED <<durable, memory>> /\ pc[t] = "create_info"
  BY DEF create_info
<1>2. CASE Return(t)
  BY <1>1, <1>2, MemoryKept, ReturnStep
<1>3. CASE Goto(t, "put_key")
  <2>1. StepOK("put_key", req[t])
    BY <1>1, InStep DEF StepOK, Steps, JoinSteps, StoreSteps, PeerSteps, OverlaySteps
  <2> QED BY <1>1, <1>3, <2>1, MemoryKept, GotoStep
<1> QED BY <1>2, <1>3 DEF create_info

LEMMA UpdateOrCreateStep ==
  ASSUME Inv, NEW t \in Tasks, update_or_create(t)
  PROVE  Inv'
<1>1. UNCHANGED <<durable, memory>> /\ pc[t] = "peers" /\ req[t].peers # << >>
  BY DEF update_or_create
<1>2. CASE Return(t)
  BY <1>1, <1>2, MemoryKept, ReturnStep
<1>3. CASE Goto(t, "create_peer")
  <2>1. StepOK("create_peer", req[t])
    BY <1>1, InStep DEF StepOK, Steps, JoinSteps, StoreSteps, PeerSteps, OverlaySteps
  <2> QED BY <1>1, <1>3, <2>1, MemoryKept, GotoStep
<1>4. CASE Goto(t, "replace_advert")
  <2>1. StepOK("replace_advert", req[t])
    BY <1>1, InStep DEF StepOK, Steps, JoinSteps, StoreSteps, PeerSteps, OverlaySteps
  <2> QED BY <1>1, <1>4, <2>1, MemoryKept, GotoStep
<1>5. CASE peer_advert[Head(req[t].peers).peer] # {} /\ Goto(t, "add_peer")
  <2>1. StepOK("add_peer", req[t])
    BY <1>1, <1>5, InStep DEF StepOK, Steps, JoinSteps, StoreSteps, PeerSteps, OverlaySteps
  <2> QED BY <1>1, <1>5, <2>1, MemoryKept, GotoStep
<1> QED BY <1>2, <1>3, <1>4, <1>5 DEF update_or_create

LEMMA CreatePeerStep ==
  ASSUME Inv, NEW t \in Tasks, create_peer(t)
  PROVE  Inv'
<1>1. UNCHANGED <<durable, memory>> /\ pc[t] = "create_peer"
  BY DEF create_peer
<1>2. CASE Return(t)
  BY <1>1, <1>2, MemoryKept, ReturnStep
<1>3. CASE Goto(t, "put_version")
  <2>1. StepOK("put_version", req[t])
    BY <1>1, InStep DEF StepOK, Steps, JoinSteps, StoreSteps, PeerSteps, OverlaySteps
  <2> QED BY <1>1, <1>3, <2>1, MemoryKept, GotoStep
<1> QED BY <1>2, <1>3 DEF create_peer

-----------------------------------------------------------------------------
(***************************************************************************)
(* Steps of a request that finds and opens its block store.                *)
(***************************************************************************)

LEMMA GuardsTyped ==
  {<<"map", "read">>, <<"map", "write">>, <<"stores", "read">>, <<"stores", "write">>}
    \subseteq Guards
BY DEF Guards

LEMMA LocalLookupStep ==
  ASSUME Inv, NEW t \in Tasks, NEW o \in Overlays, local_lookup(t, o)
  PROVE  Inv'
<1>1. UNCHANGED <<durable, envs, repo_stores, overlayid_to_repostore>>
  BY DEF local_lookup, store_maps
<1>2. overlayid_to_repostore' \subseteq Overlays
  BY <1>1 DEF Inv, TypeOK
<1>3. PICK r : r = [call |-> "store", overlay |-> o, key |-> NoKey]
  OBVIOUS
<1>4. r \in StoreRequest
  BY <1>3 DEF StoreRequest
<1>5. CASE PanicHolding(t, {})
  BY <1>1, <1>5, ReturnStep
<1>6. CASE Take(t, <<"map", "read">>) /\ Begin(t, r, "lookup_store") /\ UNCHANGED poisoned
  <2>1. StepOK("lookup_store", r)
    BY <1>4, RequestKinds DEF StepOK, Steps, JoinSteps, StoreSteps, PeerSteps, OverlaySteps
  <2>2. holds' \in [Tasks -> SUBSET Guards] /\ poisoned' \subseteq Locks
    BY <1>6, GuardsTyped, TakeTypes DEF Inv, TypeOK
  <2> QED BY <1>1, <1>2, <1>6, <2>1, <2>2, ControlStep DEF Begin
<1>7. CASE Begin(t, r, "open_overlay") /\ UNCHANGED <<holds, poisoned>>
  <2>1. StepOK("open_overlay", r)
    BY <1>4, RequestKinds DEF StepOK, Steps, JoinSteps, StoreSteps, PeerSteps, OverlaySteps
  <2>2. holds' \in [Tasks -> SUBSET Guards] /\ poisoned' \subseteq Locks
    BY <1>7 DEF Inv, TypeOK
  <2> QED BY <1>1, <1>2, <1>7, <2>1, <2>2, ControlStep DEF Begin
<1> QED BY <1>3, <1>5, <1>6, <1>7 DEF local_lookup

LEMMA CoreLookupStep ==
  ASSUME Inv, NEW t \in Tasks, NEW o \in Overlays, core_lookup(t, o)
  PROVE  Inv'
<1>1. UNCHANGED <<durable, envs, repo_stores, overlayid_to_repostore>>
  BY DEF core_lookup, store_maps
<1>2. overlayid_to_repostore' \subseteq Overlays
  BY <1>1 DEF Inv, TypeOK
<1>3. PICK r : r = [call |-> "store", overlay |-> o, key |-> NoKey]
  OBVIOUS
<1>4. PICK step : step = IF RepoStoreId(o) \in repo_stores THEN "run" ELSE "open_info"
  OBVIOUS
<1>5. CASE PanicHolding(t, {})
  BY <1>1, <1>5, ReturnStep
<1>6. CASE Take(t, <<"stores", "read">>) /\ Begin(t, r, step) /\ UNCHANGED poisoned
  <2>1. r \in StoreRequest /\ step \in {"run", "open_info"}
    BY <1>3, <1>4 DEF StoreRequest
  <2>2. StepOK(step, r)
    BY <2>1, RequestKinds DEF StepOK, Steps, JoinSteps, StoreSteps, PeerSteps, OverlaySteps
  <2>3. holds' \in [Tasks -> SUBSET Guards] /\ poisoned' \subseteq Locks
    BY <1>6, GuardsTyped, TakeTypes DEF Inv, TypeOK
  <2> QED BY <1>1, <1>2, <1>6, <2>2, <2>3, ControlStep DEF Begin
<1> QED BY <1>3, <1>4, <1>5, <1>6 DEF core_lookup

LEMMA LookupStoreStep ==
  ASSUME Inv, NEW t \in Tasks, lookup_store(t)
  PROVE  Inv'
<1>1. UNCHANGED <<durable, envs, repo_stores, overlayid_to_repostore>> /\ pc[t] = "lookup_store"
  BY DEF lookup_store, store_maps
<1>2. CASE PanicHolding(t, {}) \/ Finish(t)
  BY <1>1, <1>2, ReturnStep
<1>3. CASE Take(t, <<"stores", "read">>) /\ Goto(t, "run") /\ UNCHANGED poisoned
  <2>1. StepOK("run", req[t])
    BY <1>1, InStep DEF StepOK, Steps, JoinSteps, StoreSteps, PeerSteps, OverlaySteps
  <2>2. /\ holds' \in [Tasks -> SUBSET Guards] /\ poisoned' \subseteq Locks
        /\ overlayid_to_repostore' \subseteq Overlays
    BY <1>1, <1>3, GuardsTyped, TakeTypes DEF Inv, TypeOK
  <2> QED BY <1>1, <1>3, <2>1, <2>2, GotoStep
<1> QED BY <1>2, <1>3 DEF lookup_store

LEMMA OpenOverlayStep ==
  ASSUME Inv, NEW t \in Tasks, open_overlay(t)
  PROVE  Inv'
<1>1. UNCHANGED <<durable, memory>> /\ pc[t] = "open_overlay"
  BY DEF open_overlay
<1>2. CASE Return(t)
  BY <1>1, <1>2, MemoryKept, ReturnStep
<1>3. CASE Goto(t, "map_overlay")
  <2>1. StepOK("map_overlay", req[t])
    BY <1>1, InStep DEF StepOK, Steps, JoinSteps, StoreSteps, PeerSteps, OverlaySteps
  <2> QED BY <1>1, <1>3, <2>1, MemoryKept, GotoStep
<1> QED BY <1>2, <1>3 DEF open_overlay

LEMMA MapOverlayStep ==
  ASSUME Inv, NEW t \in Tasks, map_overlay(t)
  PROVE  Inv'
<1>1. UNCHANGED <<durable, envs, repo_stores>> /\ pc[t] = "map_overlay"
  BY DEF map_overlay
<1>2. CASE PanicHolding(t, {}) /\ UNCHANGED overlayid_to_repostore
  BY <1>1, <1>2, ReturnStep
<1>3. CASE /\ Take(t, <<"map", "write">>)
           /\ overlayid_to_repostore' = overlayid_to_repostore \cup {req[t].overlay}
           /\ Goto(t, "open_info")
           /\ UNCHANGED poisoned
  <2>1. StepOK("open_info", req[t]) /\ req[t] \in StoreRequest
    BY <1>1, InStep DEF StepOK, Steps, JoinSteps, StoreSteps, PeerSteps, OverlaySteps
  <2>2. /\ holds' \in [Tasks -> SUBSET Guards] /\ poisoned' \subseteq Locks
        /\ overlayid_to_repostore' \subseteq Overlays
    BY <1>3, <2>1, GuardsTyped, TakeTypes, StoreFields DEF Inv, TypeOK
  <2> QED BY <1>1, <1>3, <2>1, <2>2, GotoStep
<1> QED BY <1>2, <1>3 DEF map_overlay

LEMMA OpenInfoStep ==
  ASSUME Inv, NEW t \in Tasks, open_info(t)
  PROVE  Inv'
<1>1. UNCHANGED <<durable, envs, repo_stores, overlayid_to_repostore>> /\ pc[t] = "open_info"
  BY DEF open_info, store_maps
<1>2. CASE Finish(t)
  BY <1>1, <1>2, ReturnStep
<1>3. CASE /\ repostoreinfo[RepoStoreId(req[t].overlay)] # {}
           /\ pc' = [pc EXCEPT ![t] = "open_env"]
           /\ req' = [req EXCEPT ![t].key = First(repostoreinfo[RepoStoreId(req[t].overlay)])]
           /\ UNCHANGED <<holds, poisoned>>
  <2>1. PICK keys, k, c : /\ keys = repostoreinfo[RepoStoreId(req[t].overlay)]
                          /\ k = First(keys) /\ c = req[t]
    OBVIOUS
  <2>2. c \in StoreRequest /\ RepoStoreId(c.overlay) \in RepoStoreIds
    BY <1>1, <2>1, InStep, StoreFields, IdTypes DEF StoreSteps
  <2>3. keys \subseteq Keys /\ keys # {} /\ k \in keys
    BY <1>3, <2>1, <2>2, FirstIn, BrokerConstants DEF Inv, TypeOK
  <2>4. PICK r : r = [c EXCEPT !.key = k]
    OBVIOUS
  <2>5. r \in StoreRequest /\ r.overlay = c.overlay /\ r.key = k
    BY <2>2, <2>3, <2>4 DEF StoreRequest
  <2>6. req' = [req EXCEPT ![t] = r]
    BY <1>3, <2>1, <2>4
  <2>7. StepOK("open_env", r)
    BY <2>1, <2>3, <2>5, RequestKinds
    DEF StepOK, Steps, JoinSteps, StoreSteps, PeerSteps, OverlaySteps
  <2>8. /\ holds' \in [Tasks -> SUBSET Guards] /\ poisoned' \subseteq Locks
        /\ overlayid_to_repostore' \subseteq Overlays
    BY <1>1, <1>3 DEF Inv, TypeOK
  <2> QED BY <1>1, <1>3, <2>6, <2>7, <2>8, ControlStep
<1> QED BY <1>2, <1>3 DEF open_info

LEMMA RunStep ==
  ASSUME Inv, NEW t \in Tasks, run(t)
  PROVE  Inv'
BY ReturnStep DEF run, store_maps

-----------------------------------------------------------------------------
(***************************************************************************)
(* Steps that write a record, open an environment or enter a store.        *)
(***************************************************************************)

\* The type of everything but the tasks' own state.
DataOK ==
  /\ mode \in Modes /\ accounts \subseteq Users /\ account_overlay \subseteq Users \X Overlays
  /\ overlay_secret \subseteq Overlays /\ overlay_repo \subseteq Overlays
  /\ overlay_meta \subseteq Overlays /\ overlay_peer \subseteq Overlays \X Peers
  /\ repostoreinfo \in [RepoStoreIds -> SUBSET Keys]
  /\ peer_version \in [Peers -> SUBSET Nat] /\ peer_advert \in [Peers -> SUBSET Nat]
  /\ files \in [RepoStoreIds -> Keys \cup {NoKey}] /\ envs \subseteq RepoStoreIds
  /\ repo_stores \subseteq RepoStoreIds /\ overlayid_to_repostore \subseteq Overlays
  /\ poisoned \subseteq Locks /\ holds \in [Tasks -> SUBSET Guards]

LEMMA WriteStep ==
  ASSUME Inv, NEW t \in Tasks, NEW step, NEW r,
         pc' = [pc EXCEPT ![t] = step], req' = [req EXCEPT ![t] = r],
         StepOK(step, r)', Grows, DataOK', NoDanglingReferences', FilesOK'
  PROVE  Inv'
<1>1. TasksOK' /\ pc' \in [Tasks -> Steps] /\ req' \in [Tasks -> Requests \cup {NoReq}]
  BY TaskMoves
<1>2. TypeOK'
  BY <1>1 DEF DataOK, TypeOK
<1> QED BY <1>1, <1>2 DEF Inv

\* A join goes on with the same request.
LEMMA JoinWrites ==
  ASSUME Inv, NEW t \in Tasks, pc[t] \in JoinSteps, NEW step, Goto(t, step),
         step \in JoinSteps, step \in OverlaySteps => req[t].overlay \in overlay_secret',
         step \in PeerSteps => req[t].peers # << >>,
         step = "add_peer" => peer_advert'[Head(req[t].peers).peer] # {},
         Grows, DataOK', NoDanglingReferences', FilesOK'
  PROVE  Inv'
<1>1. PICK r : r = req[t]
  OBVIOUS
<1>2. pc' = [pc EXCEPT ![t] = step] /\ req' = [req EXCEPT ![t] = r]
  BY <1>1 DEF Goto, Inv, TypeOK
<1>3. StepOK(step, r)'
  BY <1>1, InStep, RequestKinds, StepsDistinct DEF StepOK
<1> QED BY <1>2, <1>3, WriteStep

LEMMA CreateAccountStep ==
  ASSUME Inv, NEW t \in Tasks, create_account(t)
  PROVE  Inv'
<1>1. /\ pc[t] = "add_user" /\ accounts' = accounts \cup {req[t].user} /\ Return(t)
      /\ UNCHANGED <<mode, account_overlay, overlay_secret, overlay_repo, overlay_meta,
                     overlay_peer, repostoreinfo, peer_version, peer_advert, files, envs,
                     repo_stores, overlayid_to_repostore, poisoned, holds>>
  BY DEF create_account, overlay_vars, peer_vars, memory
<1>2. req[t].user \in Users
  BY <1>1, InStep, AddUserFields DEF StepOK
<1>3. DataOK'
  BY <1>1, <1>2 DEF DataOK, Inv, TypeOK
<1>4. Grows
  BY <1>1 DEF Grows
<1>5. NoDanglingReferences' /\ FilesOK'
  BY <1>1 DEF Inv, NoDanglingReferences, FilesOK
<1>6. StepOK("idle", NoReq)'
  BY <1>4, IdleOK, StepKept
<1> QED BY <1>1, <1>3, <1>4, <1>5, <1>6, WriteStep DEF Return

LEMMA PutSecretStep ==
  ASSUME Inv, NEW t \in Tasks, put_secret(t)
  PROVE  Inv'
<1>1. /\ pc[t] = "put_secret" /\ overlay_secret' = overlay_secret \cup {req[t].overlay}
      /\ UNCHANGED <<mode, accounts, account_overlay, overlay_repo, overlay_meta,
                     overlay_peer, repostoreinfo, peer_version, peer_advert, files, envs,
                     repo_stores, overlayid_to_repostore, poisoned, holds>>
  BY DEF put_secret, account_vars, peer_vars, memory
<1>2. PICK step : step = IF mode = "Local" THEN "put_repo" ELSE "put_meta"
  OBVIOUS
<1>3. Goto(t, step) /\ step \in JoinSteps \ PeerSteps
  BY <1>2 DEF put_secret, JoinSteps, PeerSteps
<1>4. pc[t] \in JoinSteps /\ req[t].overlay \in Overlays
  BY <1>1, InStep, JoinFields DEF JoinSteps
<1>5. DataOK'
  BY <1>1, <1>4 DEF DataOK, Inv, TypeOK
<1>6. Grows
  BY <1>1 DEF Grows
<1>7. NoDanglingReferences' /\ FilesOK'
  BY <1>1 DEF Inv, NoDanglingReferences, FilesOK
<1> QED BY <1>1, <1>3, <1>4, <1>5, <1>6, <1>7, StepsDistinct, JoinWrites

LEMMA PutRepoStep ==
  ASSUME Inv, NEW t \in Tasks, put_repo(t)
  PROVE  Inv'
<1>1. /\ pc[t] = "put_repo" /\ overlay_repo' = overlay_repo \cup {req[t].overlay}
      /\ Goto(t, "put_meta")
      /\ UNCHANGED <<mode, accounts, account_overlay, overlay_secret, overlay_meta,
                     overlay_peer, repostoreinfo, peer_version, peer_advert, files, envs,
                     repo_stores, overlayid_to_repostore, poisoned, holds>>
  BY DEF put_repo, account_vars, peer_vars, memory
<1>2. /\ pc[t] \in JoinSteps /\ req[t].overlay \in Overlays
      /\ req[t].overlay \in overlay_secret /\ "put_meta" \in JoinSteps \ PeerSteps
  BY <1>1, InStep, JoinFields DEF JoinSteps, PeerSteps, OverlaySteps, StepOK
<1>3. DataOK'
  BY <1>1, <1>2 DEF DataOK, Inv, TypeOK
<1>4. Grows
  BY <1>1 DEF Grows
<1>5. NoDanglingReferences' /\ FilesOK'
  BY <1>1 DEF Inv, NoDanglingReferences, FilesOK
<1> QED BY <1>1, <1>2, <1>3, <1>4, <1>5, StepsDistinct, JoinWrites

LEMMA PutMetaStep ==
  ASSUME Inv, NEW t \in Tasks, put_meta(t)
  PROVE  Inv'
<1>1. /\ pc[t] = "put_meta" /\ overlay_meta' = overlay_meta \cup {req[t].overlay}
      /\ Goto(t, "create_info")
      /\ UNCHANGED <<mode, accounts, account_overlay, overlay_secret, overlay_repo,
                     overlay_peer, repostoreinfo, peer_version, peer_advert, files, envs,
                     repo_stores, overlayid_to_repostore, poisoned, holds>>
  BY DEF put_meta, account_vars, peer_vars, memory
<1>2. /\ pc[t] \in JoinSteps /\ req[t].overlay \in Overlays
      /\ req[t].overlay \in overlay_secret /\ "create_info" \in JoinSteps \ PeerSteps
  BY <1>1, InStep, JoinFields DEF JoinSteps, PeerSteps, OverlaySteps, StepOK
<1>3. DataOK'
  BY <1>1, <1>2 DEF DataOK, Inv, TypeOK
<1>4. Grows
  BY <1>1 DEF Grows
<1>5. NoDanglingReferences' /\ FilesOK'
  BY <1>1 DEF Inv, NoDanglingReferences, FilesOK
<1> QED BY <1>1, <1>2, <1>3, <1>4, <1>5, StepsDistinct, JoinWrites

LEMMA PutKeyStep ==
  ASSUME Inv, NEW t \in Tasks, put_key(t)
  PROVE  Inv'
<1>1. /\ pc[t] = "put_key" /\ Goto(t, "peers")
      /\ UNCHANGED <<mode, accounts, account_overlay, overlay_secret, overlay_repo,
                     overlay_meta, overlay_peer, peer_version, peer_advert, files, envs,
                     repo_stores, overlayid_to_repostore, poisoned, holds>>
  BY DEF put_key, account_vars, overlay_vars, peer_vars, memory
<1>2. PICK k \in Keys, s \in {RepoStoreId(req[t].overlay)} :
        repostoreinfo' = [repostoreinfo EXCEPT ![s] = @ \cup {k}]
  BY DEF put_key
<1>3. /\ pc[t] \in JoinSteps /\ req[t].overlay \in Overlays
      /\ req[t].overlay \in overlay_secret /\ "peers" \in JoinSteps \ PeerSteps
  BY <1>1, InStep, JoinFields DEF JoinSteps, PeerSteps, OverlaySteps, StepOK
<1>4. s \in RepoStoreIds
  BY <1>3, IdTypes
<1>5. \A i \in RepoStoreIds : repostoreinfo[i] \subseteq repostoreinfo'[i]
  BY <1>2 DEF Inv, TypeOK
<1>6. DataOK'
  BY <1>1, <1>2, <1>4 DEF DataOK, Inv, TypeOK
<1>7. Grows
  BY <1>1, <1>5 DEF Grows
<1>8. NoDanglingReferences' /\ FilesOK'
  BY <1>1, <1>5 DEF Inv, NoDanglingReferences, FilesOK
<1> QED BY <1>1, <1>3, <1>6, <1>7, <1>8, StepsDistinct, JoinWrites

LEMMA PutVersionStep ==
  ASSUME Inv, NEW t \in Tasks, put_version(t)
  PROVE  Inv'
<1>1. /\ pc[t] = "put_version" /\ Goto(t, "put_advert")
      /\ UNCHANGED <<mode, accounts, account_overlay, overlay_secret, overlay_repo,
                     overlay_meta, overlay_peer, repostoreinfo, peer_advert, files, envs,
                     repo_stores, overlayid_to_repostore, poisoned, holds>>
  BY DEF put_version, account_vars, overlay_vars, memory
<1>2. PICK p, v : /\ p = Head(req[t].peers).peer /\ v = Head(req[t].peers).version
                  /\ peer_version' = [peer_version EXCEPT ![p] = @ \cup {v}]
  BY DEF put_version
<1>3. /\ pc[t] \in JoinSteps /\ req[t].peers # << >>
      /\ req[t].overlay \in overlay_secret /\ "put_advert" \in JoinSteps
  BY <1>1, InStep DEF JoinSteps, PeerSteps, OverlaySteps, StepOK
<1>4. p \in Peers /\ v \in Nat
  BY <1>2, <1>3, InStep, JoinFields
<1>5. DataOK'
  BY <1>1, <1>2, <1>4 DEF DataOK, Inv, TypeOK
<1>6. Grows
  BY <1>1 DEF Grows
<1>7. NoDanglingReferences' /\ FilesOK'
  BY <1>1 DEF Inv, NoDanglingReferences, FilesOK
<1> QED BY <1>1, <1>3, <1>5, <1>6, <1>7, JoinWrites

\* Putting an advert and replacing one leave the peer with an advert.
LEMMA AdvertStep ==
  ASSUME Inv, NEW t \in Tasks, put_advert(t) \/ replace_advert(t)
  PROVE  Inv'
<1>1. /\ pc[t] \in {"put_advert", "replace_advert"} /\ Goto(t, "add_peer")
      /\ UNCHANGED <<mode, accounts, account_overlay, overlay_secret, overlay_repo,
                     overlay_meta, overlay_peer, repostoreinfo, peer_version, files, envs,
                     repo_stores, overlayid_to_repostore, poisoned, holds>>
  BY DEF put_advert, replace_advert, account_vars, overlay_vars, memory
<1>2. PICK p, v : p = Head(req[t].peers).peer /\ v = Head(req[t].peers).version
  OBVIOUS
<1>3. /\ pc[t] \in JoinSteps /\ req[t].peers # << >>
      /\ req[t].overlay \in overlay_secret /\ "add_peer" \in JoinSteps
  BY <1>1, InStep DEF JoinSteps, PeerSteps, OverlaySteps, StepOK
<1>4. p \in Peers /\ v \in Nat
  BY <1>2, <1>3, InStep, JoinFields
<1>5. PICK vs \in SUBSET Nat : vs # {} /\ peer_advert' = [peer_advert EXCEPT ![p] = vs]
  <2>1. CASE put_advert(t)
    <3>1. peer_advert' = [peer_advert EXCEPT ![p] = peer_advert[p] \cup {v}]
      BY <1>2, <2>1 DEF put_advert
    <3> QED BY <1>4, <3>1 DEF Inv, TypeOK
  <2>2. CASE replace_advert(t)
    <3>1. peer_advert' = [peer_advert EXCEPT ![p] = {v}]
      BY <1>2, <2>2 DEF replace_advert
    <3> QED BY <1>4, <3>1
  <2> QED BY <2>1, <2>2
<1>6. DataOK'
  BY <1>1, <1>4, <1>5 DEF DataOK, Inv, TypeOK
<1>7. peer_advert'[p] # {} /\ \A q \in Peers : peer_advert[q] # {} => peer_advert'[q] # {}
  BY <1>4, <1>5 DEF Inv, TypeOK
<1>8. Grows
  BY <1>1, <1>7 DEF Grows
<1>9. NoDanglingReferences' /\ FilesOK'
  BY <1>1, <1>7 DEF Inv, TypeOK, NoDanglingReferences, FilesOK
<1> QED BY <1>1, <1>2, <1>3, <1>6, <1>7, <1>8, <1>9, JoinWrites

LEMMA AddPeerStep ==
  ASSUME Inv, NEW t \in Tasks, add_peer(t)
  PROVE  Inv'
<1>1. /\ pc[t] = "add_peer" /\ pc' = [pc EXCEPT ![t] = "peers"]
      /\ overlay_peer' = overlay_peer \cup {<<req[t].overlay, Head(req[t].peers).peer>>}
      /\ req' = [req EXCEPT ![t].peers = Tail(@)]
      /\ UNCHANGED <<mode, accounts, account_overlay, overlay_secret, overlay_repo,
                     overlay_meta, repostoreinfo, peer_version, peer_advert, files, envs,
                     repo_stores, overlayid_to_repostore, poisoned, holds>>
  BY DEF add_peer, account_vars, peer_vars, memory
<1>2. PICK c, o, p : c = req[t] /\ o = c.overlay /\ p = Head(c.peers).peer
  OBVIOUS
<1>3. c \in JoinRequest /\ c.peers # << >> /\ o \in overlay_secret /\ peer_advert[p] # {}
  BY <1>1, <1>2, InStep DEF JoinSteps, PeerSteps, OverlaySteps, StepOK
<1>4. o \in Overlays /\ p \in Peers /\ Tail(c.peers) \in Seq(Adverts)
  BY <1>2, <1>3, JoinFields
<1>5. PICK r : r = [c EXCEPT !.peers = Tail(c.peers)]
  OBVIOUS
<1>6. r \in JoinRequest /\ r.overlay = o
  BY <1>2, <1>3, <1>4, <1>5 DEF JoinRequest
<1>7. req' = [req EXCEPT ![t] = r]
  BY <1>1, <1>2, <1>5
<1>8. overlay_peer' = overlay_peer \cup {<<o, p>>}
  BY <1>1, <1>2
<1>9. StepOK("peers", r)'
  BY <1>1, <1>3, <1>6, RequestKinds
  DEF StepOK, Steps, JoinSteps, StoreSteps, PeerSteps, OverlaySteps
<1>10. DataOK'
  BY <1>1, <1>4, <1>8 DEF DataOK, Inv, TypeOK
<1>11. Grows
  BY <1>1 DEF Grows
<1>12. NoDanglingReferences' /\ FilesOK'
  BY <1>1, <1>3, <1>8 DEF Inv, NoDanglingReferences, FilesOK
<1> QED BY <1>1, <1>7, <1>9, <1>10, <1>11, <1>12, WriteStep

LEMMA AddOverlayStep ==
  ASSUME Inv, NEW t \in Tasks, add_overlay(t)
  PROVE  Inv'
<1>1. /\ pc[t] = "peers" /\ Return(t)
      /\ account_overlay' =
           IF req[t].user \in accounts
           THEN account_overlay \cup {<<req[t].user, req[t].overlay>>}
           ELSE account_overlay
      /\ UNCHANGED <<mode, accounts, overlay_secret, overlay_repo, overlay_meta,
                     overlay_peer, repostoreinfo, peer_version, peer_advert, files, envs,
                     repo_stores, overlayid_to_repostore, poisoned, holds>>
  BY DEF add_overlay, overlay_vars, peer_vars, memory
<1>2. PICK u, o : u = req[t].user /\ o = req[t].overlay
  OBVIOUS
<1>3. u \in Users /\ o \in Overlays /\ o \in overlay_secret
  BY <1>1, <1>2, InStep, JoinFields DEF JoinSteps, OverlaySteps, StepOK
<1>4. account_overlay' = IF u \in accounts THEN account_overlay \cup {<<u, o>>}
                                           ELSE account_overlay
  BY <1>1, <1>2
<1>5. DataOK'
  BY <1>1, <1>3, <1>4 DEF DataOK, Inv, TypeOK
<1>6. Grows
  BY <1>1 DEF Grows
<1>7. NoDanglingReferences' /\ FilesOK'
  BY <1>1, <1>3, <1>4 DEF Inv, NoDanglingReferences, FilesOK
<1>8. StepOK("idle", NoReq)'
  BY <1>6, IdleOK, StepKept
<1> QED BY <1>1, <1>5, <1>6, <1>7, <1>8, WriteStep DEF Return

\* The key a request read is on disk, so files created with it can be read.
LEMMA OpenEnvStep ==
  ASSUME Inv, NEW t \in Tasks, open_env(t)
  PROVE  Inv'
<1>1. /\ pc[t] = "open_env"
      /\ UNCHANGED <<mode, accounts, account_overlay, overlay_secret, overlay_repo,
                     overlay_meta, overlay_peer, repostoreinfo, peer_version, peer_advert,
                     repo_stores, overlayid_to_repostore>>
  BY DEF open_env, account_vars, overlay_vars, peer_vars
<1>2. PICK r, s, k : r = req[t] /\ s = RepoStoreId(r.overlay) /\ k = r.key
  OBVIOUS
<1>3. StepOK("open_env", r) /\ r \in StoreRequest /\ k \in repostoreinfo[s]
  BY <1>1, <1>2, InStep DEF StepOK, StoreSteps
<1>4. s \in RepoStoreIds /\ k \in Keys
  BY <1>2, <1>3, StoreFields, IdTypes DEF Inv, TypeOK
<1>5. CASE /\ Finish(t) \/ PanicHolding(t, {"manager"})
           /\ UNCHANGED <<envs, files>>
  <2>1. UNCHANGED <<durable, envs, repo_stores>>
    BY <1>1, <1>5 DEF durable, account_vars, overlay_vars, peer_vars
  <2>2. {"manager"} \in SUBSET Locks
    BY DEF Locks
  <2> QED BY <1>1, <1>5, <2>1, <2>2, ReturnStep
<1>6. CASE /\ envs' = envs \cup {s}
           /\ files' = [files EXCEPT ![s] = IF files[s] = NoKey THEN k ELSE files[s]]
           /\ Goto(t, "insert_store")
           /\ UNCHANGED <<holds, poisoned>>
  <2>1. DataOK'
    BY <1>1, <1>4, <1>6 DEF DataOK, Inv, TypeOK
  <2>2. Grows
    BY <1>1, <1>6 DEF Grows
  <2>3. \A i \in RepoStoreIds : files'[i] # NoKey => files'[i] \in repostoreinfo'[i]
    BY <1>1, <1>3, <1>4, <1>6 DEF Inv, TypeOK, FilesOK
  <2>4. \A i \in envs' : files'[i] # NoKey
    BY <1>4, <1>6, BrokerConstants DEF Inv, TypeOK, FilesOK
  <2>5. FilesOK'
    BY <1>1, <1>6, <2>3, <2>4 DEF Inv, FilesOK
  <2>6. NoDanglingReferences'
    BY <1>1 DEF Inv, NoDanglingReferences
  <2>7. pc' = [pc EXCEPT ![t] = "insert_store"] /\ req' = [req EXCEPT ![t] = r]
    BY <1>2, <1>6 DEF Goto, Inv, TypeOK
  <2>8. RepoStoreId(r.overlay)' \in envs'
    BY <1>1, <1>2, <1>6 DEF RepoStoreId
  <2>9. StepOK("insert_store", r)'
    BY <1>3, <2>8, RequestKinds
    DEF StepOK, Steps, JoinSteps, StoreSteps, PeerSteps, OverlaySteps
  <2> QED BY <2>1, <2>2, <2>5, <2>6, <2>7, <2>9, WriteStep
<1> QED BY <1>2, <1>5, <1>6 DEF open_env

LEMMA InsertStoreStep ==
  ASSUME Inv, NEW t \in Tasks, insert_store(t)
  PROVE  Inv'
<1>1. UNCHANGED <<durable, envs, overlayid_to_repostore>> /\ pc[t] = "insert_store"
  BY DEF insert_store
<1>2. CASE PanicHolding(t, {}) /\ UNCHANGED repo_stores
  BY <1>1, <1>2, ReturnStep
<1>3. CASE /\ Take(t, <<"stores", "write">>)
           /\ repo_stores' = repo_stores \cup {RepoStoreId(req[t].overlay)}
           /\ Goto(t, "run")
           /\ UNCHANGED poisoned
  <2>1. UNCHANGED <<mode, accounts, account_overlay, overlay_secret, overlay_repo,
                    overlay_meta, overlay_peer, repostoreinfo, peer_version, peer_advert,
                    files, envs, overlayid_to_repostore>>
    BY <1>1 DEF durable, account_vars, overlay_vars, peer_vars
  <2>2. PICK r, s : r = req[t] /\ s = RepoStoreId(r.overlay)
    OBVIOUS
  <2>3. r \in StoreRequest /\ s \in envs
    BY <1>1, <2>2, InStep DEF StepOK, StoreSteps
  <2>4. repo_stores' = repo_stores \cup {s} /\ s \in RepoStoreIds
    BY <1>3, <2>2, <2>3 DEF Inv, TypeOK
  <2>5. holds' \in [Tasks -> SUBSET Guards]
    BY <1>3, GuardsTyped, TakeTypes
  <2>6. DataOK'
    BY <1>3, <2>1, <2>4, <2>5 DEF DataOK, Inv, TypeOK
  <2>7. Grows
    BY <2>1 DEF Grows
  <2>8. NoDanglingReferences' /\ FilesOK'
    BY <2>1, <2>3, <2>4 DEF Inv, NoDanglingReferences, FilesOK
  <2>9. pc' = [pc EXCEPT ![t] = "run"] /\ req' = [req EXCEPT ![t] = r]
    BY <1>3, <2>2 DEF Goto, Inv, TypeOK
  <2>10. StepOK("run", r)'
    BY <2>3, RequestKinds DEF StepOK, Steps, JoinSteps, StoreSteps, PeerSteps, OverlaySteps
  <2> QED BY <2>6, <2>7, <2>8, <2>9, <2>10, WriteStep
<1> QED BY <1>2, <1>3 DEF insert_store

\* A crash at any point keeps the records and forgets the calls.
LEMMA RestartStep ==
  ASSUME Inv, Restart
  PROVE  Inv'
<1>1. UNCHANGED <<mode, accounts, account_overlay, overlay_secret, overlay_repo,
                  overlay_meta, overlay_peer, repostoreinfo, peer_version, peer_advert, files>>
  BY DEF Restart, durable, account_vars, overlay_vars, peer_vars
<1>2. TypeOK'
  BY <1>1, StepsDistinct DEF Restart, Inv, TypeOK
<1>3. NoDanglingReferences' /\ FilesOK'
  BY <1>1 DEF Restart, Inv, NoDanglingReferences, FilesOK
<1>4. TasksOK'
  <2>1. ASSUME NEW t \in Tasks PROVE StepOK(pc[t], req[t])'
    <3>1. pc'[t] = "idle" /\ req'[t] = NoReq
      BY DEF Restart
    <3> QED BY <3>1, StepsDistinct DEF StepOK
  <2> QED BY <2>1 DEF TasksOK
<1> QED BY <1>2, <1>3, <1>4 DEF Inv

-----------------------------------------------------------------------------
(***************************************************************************)
(* The invariants.                                                         *)
(***************************************************************************)

LEMMA InitInv == Init => Inv
<1> SUFFICES ASSUME Init PROVE Inv
  OBVIOUS
<1>1. TypeOK
  BY StepsDistinct DEF Init, TypeOK
<1>2. NoDanglingReferences /\ FilesOK
  BY DEF Init, NoDanglingReferences, FilesOK
<1>3. TasksOK
  BY IdleOK DEF Init, TasksOK
<1> QED BY <1>1, <1>2, <1>3 DEF Inv

LEMMA NextInv == Inv /\ [Next]_vars => Inv'
<1> SUFFICES ASSUME Inv, [Next]_vars PROVE Inv'
  OBVIOUS
<1>1. ASSUME NEW t \in Tasks, Call(t) PROVE Inv'
  BY <1>1, AddUserStep, LocalLookupStep, CoreLookupStep, JoinOverlayStep DEF Call
<1>2. ASSUME NEW t \in Tasks, Continue(t) PROVE Inv'
  <2>1. CASE \/ create_account(t) \/ create_overlay(t) \/ put_secret(t) \/ put_repo(t)
             \/ put_meta(t) \/ create_info(t) \/ put_key(t)
    BY <2>1, CreateAccountStep, CreateOverlayStep, PutSecretStep, PutRepoStep, PutMetaStep,
       CreateInfoStep, PutKeyStep
  <2>2. CASE \/ update_or_create(t) \/ create_peer(t) \/ put_version(t) \/ put_advert(t)
             \/ replace_advert(t) \/ add_peer(t) \/ add_overlay(t)
    BY <2>2, UpdateOrCreateStep, CreatePeerStep, PutVersionStep, AdvertStep, AddPeerStep,
       AddOverlayStep
  <2>3. CASE \/ lookup_store(t) \/ open_overlay(t) \/ map_overlay(t) \/ open_info(t)
             \/ open_env(t) \/ insert_store(t) \/ run(t)
    BY <2>3, LookupStoreStep, OpenOverlayStep, MapOverlayStep, OpenInfoStep, OpenEnvStep,
       InsertStoreStep, RunStep
  <2> QED BY <1>2, <2>1, <2>2, <2>3 DEF Continue
<1> QED BY <1>1, <1>2, RestartStep, UnchangedInv DEF Next

LEMMA InvHolds == Spec => []Inv
BY InitInv, NextInv, PTL DEF Spec

\* The state of BrokerServer stays in its type: among others, no call goes on
\* without the arguments its next step reads.
THEOREM TypeCorrect == Spec => []TypeOK
BY InvHolds, PTL DEF Inv

\* Whatever joins and add_user calls interleave in, wherever the process is
\* killed, the records of Account, Overlay and Peer refer to records that exist.
THEOREM NoDangling == Spec => []NoDanglingReferences
BY InvHolds, PTL DEF Inv

\* However many tasks open block stores while others create their keys, a
\* block store open in this process is encrypted with a key kept on disk.
THEOREM StoresReadable == Spec => []OpenStoresReadable
<1>1. Inv => OpenStoresReadable
  BY DEF Inv, TypeOK, FilesOK, OpenStoresReadable
<1> QED BY <1>1, InvHolds, PTL

-----------------------------------------------------------------------------
(***************************************************************************)
(* The steps of a join that put what they checked in an earlier            *)
(* transaction, and the steps that have no part in that.                   *)
(***************************************************************************)

Records == <<mode, repostoreinfo, peer_version, peer_advert>>
RiskySteps == {"put_key", "put_version", "put_advert", "replace_advert"}

Quiet ==
  /\ UNCHANGED Records
  /\ \A t \in Tasks : pc'[t] \notin RiskySteps \/ (pc'[t] = pc[t] /\ req'[t] = req[t])

\* The steps that neither write a record nor are about to.
LEMMA QuietStep ==
  ASSUME Inv, NEW t \in Tasks, NEW step, step \notin RiskySteps, UNCHANGED Records,
         \/ Goto(t, step)
         \/ \E r : Begin(t, r, step)
  PROVE  Quiet
<1>1. PICK r : pc' = [pc EXCEPT ![t] = step] /\ req' = [req EXCEPT ![t] = r]
  BY DEF Goto, Begin, Inv, TypeOK
<1>2. ASSUME NEW u \in Tasks
      PROVE  pc'[u] \notin RiskySteps \/ (pc'[u] = pc[u] /\ req'[u] = req[u])
  BY <1>1 DEF Inv, TypeOK
<1> QED BY <1>2 DEF Quiet

LEMMA QuietReturn ==
  ASSUME Inv, NEW t \in Tasks, UNCHANGED Records,
         Return(t) \/ Finish(t) \/ \E locks : PanicHolding(t, locks)
  PROVE  Quiet
<1>1. Begin(t, NoReq, "idle") /\ "idle" \notin RiskySteps
  BY DEF Return, Finish, PanicHolding, Begin, RiskySteps
<1> QED BY <1>1, QuietStep

LEMMA StutterQuiet ==
  ASSUME UNCHANGED <<Records, pc, req>>
  PROVE  Quiet
BY DEF Quiet

LEMMA DurableRecords ==
  ASSUME UNCHANGED durable
  PROVE  UNCHANGED Records
BY DEF durable, peer_vars, Records

LEMMA CallQuiet ==
  ASSUME Inv, NEW t \in Tasks, Call(t)
  PROVE  Quiet
<1> DEFINE Calm == {"add_user", "peers", "create_overlay", "lookup_store", "open_overlay",
                    "run", "open_info"}
<1>1. \A s \in Calm : s \notin RiskySteps
  BY DEF RiskySteps
<1>2. ASSUME NEW u \in Users, add_user(t, u) PROVE Quiet
  <2>1. UNCHANGED Records
    BY <1>2, DurableRecords DEF add_user
  <2>2. UNCHANGED <<pc, req>> \/ \E r : Begin(t, r, "add_user")
    BY <1>2 DEF add_user
  <2> QED BY <1>1, <2>1, <2>2, StutterQuiet, QuietStep
<1>3. ASSUME NEW o \in Overlays, local_lookup(t, o) PROVE Quiet
  <2>1. UNCHANGED Records
    BY <1>3, DurableRecords DEF local_lookup
  <2>2. \/ PanicHolding(t, {}) \/ \E r : Begin(t, r, "lookup_store")
        \/ \E r : Begin(t, r, "open_overlay")
    BY <1>3 DEF local_lookup
  <2> QED BY <1>1, <2>1, <2>2, QuietReturn, QuietStep
<1>4. ASSUME NEW o \in Overlays, core_lookup(t, o) PROVE Quiet
  <2>1. UNCHANGED Records
    BY <1>4, DurableRecords DEF core_lookup
  <2>2. \/ PanicHolding(t, {})
        \/ \E r : Begin(t, r, "run")
        \/ \E r : Begin(t, r, "open_info")
    BY <1>4 DEF core_lookup
  <2> QED BY <1>1, <2>1, <2>2, QuietReturn, QuietStep
<1>5. ASSUME NEW o \in Overlays, NEW u \in Users, NEW ps \in PeerLists, NEW repo \in BOOLEAN,
             join_overlay(t, o, u, ps, repo)
      PROVE  Quiet
  <2>1. UNCHANGED Records
    BY <1>5, DurableRecords DEF join_overlay
  <2>2. \/ UNCHANGED <<pc, req>> \/ \E r : Begin(t, r, "peers")
        \/ \E r : Begin(t, r, "create_overlay")
    BY <1>5 DEF join_overlay
  <2> QED BY <1>1, <2>1, <2>2, StutterQuiet, QuietStep
<1> QED BY <1>2, <1>3, <1>4, <1>5 DEF Call

LEMMA StoreQuiet ==
  ASSUME Inv, NEW t \in Tasks,
         \/ create_account(t) \/ lookup_store(t) \/ open_overlay(t) \/ map_overlay(t)
         \/ open_info(t) \/ open_env(t) \/ insert_store(t) \/ run(t)
  PROVE  Quiet
<1> DEFINE Calm == {"run", "map_overlay", "open_info", "open_env", "insert_store"}
<1>1. \A s \in Calm : s \notin RiskySteps
  BY DEF RiskySteps
<1>2. UNCHANGED Records
  BY DEF create_account, lookup_store, open_overlay, map_overlay, open_info, open_env,
         insert_store, run, durable, peer_vars, Records
<1>3. \/ Return(t) \/ Finish(t) \/ \E locks : PanicHolding(t, locks)
      \/ \E s \in Calm : Goto(t, s) \/ \E r : Begin(t, r, s)
  <2>1. CASE create_account(t) \/ lookup_store(t) \/ open_overlay(t) \/ run(t)
    BY <2>1 DEF create_account, lookup_store, open_overlay, run
  <2>2. CASE map_overlay(t) \/ open_env(t) \/ insert_store(t)
    BY <2>2 DEF map_overlay, open_env, insert_store
  <2>3. CASE open_info(t)
    <3>1. CASE Finish(t)
      BY <3>1
    <3>2. CASE /\ pc' = [pc EXCEPT ![t] = "open_env"]
               /\ req' = [req EXCEPT ![t].key =
                            First(repostoreinfo[RepoStoreId(req[t].overlay)])]
      <4>1. PICK r : r = [req[t] EXCEPT !.key =
                            First(repostoreinfo[RepoStoreId(req[t].overlay)])]
        OBVIOUS
      <4>2. Begin(t, r, "open_env")
        BY <3>2, <4>1 DEF Begin
      <4> QED BY <4>2
    <3> QED BY <2>3, <3>1, <3>2 DEF open_info
  <2> QED BY <2>1, <2>2, <2>3
<1> QED BY <1>1, <1>2, <1>3, QuietReturn, QuietStep

LEMMA JoinQuiet ==
  ASSUME Inv, NEW t \in Tasks,
         \/ create_overlay(t) \/ put_secret(t) \/ put_repo(t) \/ put_meta(t)
         \/ add_peer(t) \/ add_overlay(t)
  PROVE  Quiet
<1> DEFINE Calm == {"put_secret", "put_repo", "put_meta", "create_info", "peers"}
<1>1. \A s \in Calm : s \notin RiskySteps
  BY DEF RiskySteps
<1>2. UNCHANGED Records
  BY DEF create_overlay, put_secret, put_repo, put_meta, add_peer, add_overlay, durable,
         peer_vars, Records
<1>3. Return(t) \/ \E s \in Calm : Goto(t, s) \/ \E r : Begin(t, r, s)
  <2>1. CASE create_overlay(t) \/ put_repo(t) \/ put_meta(t) \/ add_overlay(t)
    BY <2>1 DEF create_overlay, put_repo, put_meta, add_overlay
  <2>2. CASE put_secret(t)
    BY <2>2 DEF put_secret
  <2>3. CASE add_peer(t)
    <3>1. PICK r : r = [req[t] EXCEPT !.peers = Tail(req[t].peers)]
      OBVIOUS
    <3>2. Begin(t, r, "peers")
      BY <2>3, <3>1 DEF add_peer, Begin
    <3> QED BY <3>2
  <2> QED BY <2>1, <2>2, <2>3
<1> QED BY <1>1, <1>2, <1>3, QuietReturn, QuietStep

LEMMA RestartQuiet ==
  ASSUME Restart
  PROVE  Quiet
<1>1. UNCHANGED Records
  BY DurableRecords DEF Restart
<1>2. \A t \in Tasks : pc'[t] \notin RiskySteps
  BY DEF Restart, RiskySteps
<1> QED BY <1>1, <1>2 DEF Quiet

-----------------------------------------------------------------------------
(***************************************************************************)
(* The adverts of a peer, however many joins are under way.                *)
(***************************************************************************)

AdvertSteps == {"put_version", "put_advert", "replace_advert"}

PeersQuiet ==
  /\ UNCHANGED <<peer_version, peer_advert>>
  /\ \A t \in Tasks : pc'[t] \notin AdvertSteps \/ (pc'[t] = pc[t] /\ req'[t] = req[t])

\* The join that puts or replaces an advert knows that the peer exists.
Versioned(step, r) ==
  step \in {"put_advert", "replace_advert"} => peer_version[Head(r.peers).peer] # {}

\* A peer has a version before it has an advert: no join that begins to create
\* a peer then can find that there is none.
PeersVersioned ==
  /\ \A p \in Peers : peer_advert[p] # {} => peer_version[p] # {}
  /\ \A t \in Tasks : Versioned(pc[t], req[t])

\* What a join may still write of peer p is not older than n.
WritesNotOlder(step, r, p, n) ==
  step \in AdvertSteps /\ Head(r.peers).peer = p => Head(r.peers).version >= n

LEMMA NotOlderParts ==
  ASSUME NEW p, NEW n
  PROVE  /\ NotOlder(p, n) <=>
              /\ peer_advert[p] # {} /\ \A v \in peer_advert[p] : v >= n
              /\ \A t \in Tasks : WritesNotOlder(pc[t], req[t], p, n)
         /\ NotOlder(p, n)' <=>
              /\ peer_advert'[p] # {} /\ \A v \in peer_advert'[p] : v >= n
              /\ \A t \in Tasks : WritesNotOlder(pc'[t], req'[t], p, n)
BY DEF NotOlder, AboutToWrite, WritesNotOlder, AdvertSteps

LEMMA QuietPeers ==
  ASSUME Quiet
  PROVE  PeersQuiet
BY DEF Quiet, PeersQuiet, Records, RiskySteps, AdvertSteps

LEMMA InfoQuietPeers ==
  ASSUME Inv, NEW t \in Tasks, create_info(t) \/ put_key(t)
  PROVE  PeersQuiet
<1>1. UNCHANGED <<peer_version, peer_advert>>
  BY DEF create_info, put_key, durable, peer_vars
<1>2. Return(t) \/ Goto(t, "put_key") \/ Goto(t, "peers")
  BY DEF create_info, put_key
<1>3. \A u \in Tasks : pc'[u] \notin AdvertSteps \/ (pc'[u] = pc[u] /\ req'[u] = req[u])
  BY <1>2 DEF Return, Goto, AdvertSteps, Inv, TypeOK
<1> QED BY <1>1, <1>3 DEF PeersQuiet

\* Every step either has no part in the adverts of peers or is one of these.
LEMMA AdvertCases ==
  ASSUME Inv, [Next]_vars
  PROVE  \/ PeersQuiet
         \/ \E t \in Tasks : \/ update_or_create(t) \/ create_peer(t) \/ put_version(t)
                             \/ put_advert(t) \/ replace_advert(t)
<1>1. ASSUME NEW t \in Tasks, Continue(t)
      PROVE  \/ PeersQuiet
             \/ \/ update_or_create(t) \/ create_peer(t) \/ put_version(t)
                \/ put_advert(t) \/ replace_advert(t)
  <2>1. CASE \/ create_account(t) \/ lookup_store(t) \/ open_overlay(t) \/ map_overlay(t)
             \/ open_info(t) \/ open_env(t) \/ insert_store(t) \/ run(t)
    BY <2>1, StoreQuiet, QuietPeers
  <2>2. CASE \/ create_overlay(t) \/ put_secret(t) \/ put_repo(t) \/ put_meta(t)
             \/ add_peer(t) \/ add_overlay(t)
    BY <2>2, JoinQuiet, QuietPeers
  <2>3. CASE create_info(t) \/ put_key(t)
    BY <2>3, InfoQuietPeers
  <2> QED BY <1>1, <2>1, <2>2, <2>3 DEF Continue
<1>2. CASE UNCHANGED vars
  BY <1>2, StutterQuiet, QuietPeers, DurableRecords DEF vars
<1>3. ASSUME NEW t \in Tasks, Call(t) PROVE PeersQuiet
  BY <1>3, CallQuiet, QuietPeers
<1>4. ASSUME Restart PROVE PeersQuiet
  BY <1>4, RestartQuiet, QuietPeers
<1> QED BY <1>1, <1>2, <1>3, <1>4 DEF Next

\* The advert that a join which takes one of these steps is about.
LEMMA AdvertAt ==
  ASSUME Inv, NEW t \in Tasks,
         \/ update_or_create(t) \/ create_peer(t) \/ put_version(t)
         \/ put_advert(t) \/ replace_advert(t)
  PROVE  Head(req[t].peers).peer \in Peers /\ Head(req[t].peers).version \in Nat
<1>1. pc[t] \in PeerSteps \/ (pc[t] = "peers" /\ req[t].peers # << >>)
  BY DEF update_or_create, create_peer, put_version, put_advert, replace_advert, PeerSteps
<1>2. pc[t] \in JoinSteps /\ req[t].peers # << >>
  BY <1>1, InStep, StepsDistinct DEF StepOK, JoinSteps
<1> QED BY <1>2, InStep, JoinFields

\* The moves of a join from a look at a peer or a write of it.
LEMMA AdvertMoves ==
  ASSUME Inv, NEW t \in Tasks, NEW step, Goto(t, step)
  PROVE  /\ pc'[t] = step /\ req'[t] = req[t]
         /\ \A u \in Tasks \ {t} : pc'[u] = pc[u] /\ req'[u] = req[u]
BY DEF Goto, Inv, TypeOK

LEMMA ReturnQuiet ==
  ASSUME Inv, NEW t \in Tasks, Return(t), UNCHANGED durable
  PROVE  PeersQuiet
BY QuietReturn, QuietPeers, DurableRecords

\* A look at a peer goes on with a write only if it found what the write needs:
\* no version at all, or an advert older than its own.
LEMMA LookMoves ==
  ASSUME Inv, NEW t \in Tasks, update_or_create(t) \/ create_peer(t),
         NEW p, NEW v, p = Head(req[t].peers).peer, v = Head(req[t].peers).version
  PROVE  /\ UNCHANGED <<peer_version, peer_advert>>
         /\ \/ PeersQuiet
            \/ Goto(t, "put_version") /\ peer_version[p] = {}
            \/ /\ Goto(t, "replace_advert")
               /\ peer_version[p] # {} /\ \E current \in peer_advert[p] : current < v
<1>1. UNCHANGED durable
  BY DEF update_or_create, create_peer
<1>2. ASSUME NEW step, step \in {"create_peer", "add_peer"}, Goto(t, step) PROVE PeersQuiet
  BY <1>1, <1>2, QuietStep, QuietPeers, DurableRecords DEF RiskySteps
<1>3. CASE create_peer(t)
  <2>1. \/ Return(t)
        \/ peer_version[p] = {} /\ Goto(t, "put_version")
    BY <1>3 DEF create_peer
  <2> QED BY <1>1, <2>1, ReturnQuiet DEF durable, peer_vars
<1>4. CASE update_or_create(t)
  <2>1. p \in Peers /\ v \in Nat
    BY <1>4, AdvertAt
  <2>2. \/ Goto(t, "create_peer") \/ Return(t)
        \/ /\ peer_version[p] # {}
           /\ \E current \in peer_advert[p] :
                Goto(t, IF Stale(current, v) THEN "add_peer" ELSE "replace_advert")
    BY <1>4 DEF update_or_create
  <2>3. ASSUME NEW current \in peer_advert[p], ~ Stale(current, v) PROVE current < v
    <3>1. current \in Nat
      BY <2>1 DEF Inv, TypeOK
    <3> QED BY <2>1, <2>3, <3>1 DEF Stale
  <2>4. \/ \E step \in {"create_peer", "add_peer"} : Goto(t, step)
        \/ Return(t)
        \/ /\ Goto(t, "replace_advert")
           /\ peer_version[p] # {} /\ \E current \in peer_advert[p] : current < v
    BY <2>2, <2>3
  <2> QED BY <1>1, <1>2, <2>4, ReturnQuiet DEF durable, peer_vars
<1> QED BY <1>3, <1>4

LEMMA VersionedMove ==
  ASSUME Inv, PeersVersioned, NEW t \in Tasks, NEW step, Goto(t, step),
         \A p \in Peers : peer_version[p] # {} => peer_version'[p] # {},
         \A p \in Peers : peer_advert'[p] # {} => peer_version'[p] # {},
         step \in {"put_advert", "replace_advert"} =>
           peer_version'[Head(req[t].peers).peer] # {}
  PROVE  PeersVersioned'
<1>1. ASSUME NEW u \in Tasks PROVE Versioned(pc[u], req[u])'
  <2>1. CASE u = t
    BY <2>1, AdvertMoves DEF Versioned
  <2>2. CASE u # t
    <3>1. PICK p : p = Head(req[u].peers).peer
      OBVIOUS
    <3>2. CASE pc[u] \in {"put_advert", "replace_advert"}
      <4>1. p \in Peers
        <5>1. pc[u] \in JoinSteps /\ pc[u] \in PeerSteps
          BY <3>2 DEF JoinSteps, PeerSteps
        <5>2. req[u] \in JoinRequest /\ req[u].peers # << >>
          BY <5>1, InStep DEF StepOK
        <5> QED BY <3>1, <5>2, JoinFields
      <4>2. peer_version[p] # {}
        BY <3>1, <3>2 DEF PeersVersioned, Versioned
      <4> QED BY <2>2, <3>1, <4>1, <4>2, AdvertMoves DEF Versioned
    <3>3. CASE pc[u] \notin {"put_advert", "replace_advert"}
      BY <2>2, <3>3, AdvertMoves DEF Versioned
    <3> QED BY <3>2, <3>3
  <2> QED BY <2>1, <2>2
<1> QED BY <1>1 DEF PeersVersioned

LEMMA NextVersioned == Inv /\ PeersVersioned /\ [Next]_vars => PeersVersioned'
<1> SUFFICES ASSUME Inv, PeersVersioned, [Next]_vars PROVE PeersVersioned'
  OBVIOUS
<1>1. CASE PeersQuiet
  <2>1. ASSUME NEW t \in Tasks PROVE Versioned(pc[t], req[t])'
    BY <1>1 DEF PeersQuiet, Versioned, PeersVersioned, AdvertSteps
  <2> QED BY <1>1, <2>1 DEF PeersQuiet, PeersVersioned
<1>2. ASSUME NEW t \in Tasks, update_or_create(t) \/ create_peer(t) PROVE PeersVersioned'
  <2>1. PICK p, v : p = Head(req[t].peers).peer /\ v = Head(req[t].peers).version
    OBVIOUS
  <2>2. UNCHANGED <<peer_version, peer_advert>>
    BY <1>2, <2>1, LookMoves
  <2>3. \/ PeersQuiet \/ Goto(t, "put_version")
        \/ Goto(t, "replace_advert") /\ peer_version[p] # {}
    BY <1>2, <2>1, LookMoves
  <2>4. CASE Goto(t, "put_version")
    BY <2>2, <2>4, VersionedMove DEF PeersVersioned
  <2>5. CASE Goto(t, "replace_advert") /\ peer_version[p] # {}
    BY <2>1, <2>2, <2>5, VersionedMove DEF PeersVersioned
  <2> QED BY <1>1, <2>3, <2>4, <2>5
<1>3. ASSUME NEW t \in Tasks, put_version(t) PROVE PeersVersioned'
  <2>1. Goto(t, "put_advert") /\ UNCHANGED peer_advert
    BY <1>3 DEF put_version
  <2>2. PICK p, v : /\ p = Head(req[t].peers).peer /\ v = Head(req[t].peers).version
                    /\ peer_version' = [peer_version EXCEPT ![p] = @ \cup {v}]
    BY <1>3 DEF put_version
  <2>3. p \in Peers
    BY <1>3, <2>2, AdvertAt
  <2>4. peer_version'[p] # {} /\ \A q \in Peers : peer_version[q] # {} => peer_version'[q] # {}
    BY <2>2, <2>3 DEF Inv, TypeOK
  <2>5. \A q \in Peers : peer_advert'[q] # {} => peer_version'[q] # {}
    BY <2>1, <2>4 DEF PeersVersioned
  <2> QED BY <2>1, <2>2, <2>4, <2>5, VersionedMove
<1>4. ASSUME NEW t \in Tasks, put_advert(t) \/ replace_advert(t) PROVE PeersVersioned'
  <2>1. Goto(t, "add_peer") /\ UNCHANGED peer_version
    BY <1>4 DEF put_advert, replace_advert
  <2>2. PICK p, vs : /\ p = Head(req[t].peers).peer
                     /\ peer_advert' = [peer_advert EXCEPT ![p] = vs]
    BY <1>4 DEF put_advert, replace_advert
  <2>3. peer_version[p] # {}
    BY <1>4, <2>2 DEF put_advert, replace_advert, PeersVersioned, Versioned
  <2>4. \A q \in Peers : peer_advert'[q] # {} => peer_version'[q] # {}
    BY <2>1, <2>2, <2>3 DEF Inv, TypeOK, PeersVersioned
  <2> QED BY <2>1, <2>4, VersionedMove
<1> QED BY <1>1, <1>2, <1>3, <1>4, AdvertCases

LEMMA InitVersioned == Init => PeersVersioned
BY DEF Init, PeersVersioned, Versioned

LEMMA VersionedHolds == Spec => []PeersVersioned
BY InvHolds, InitVersioned, NextVersioned, PTL DEF Spec

LEMMA NotOlderMove ==
  ASSUME Inv, NEW p, NEW n, NotOlder(p, n), NEW t \in Tasks, NEW step, Goto(t, step),
         peer_advert'[p] # {}, \A v \in peer_advert'[p] : v >= n,
         WritesNotOlder(step, req[t], p, n)
  PROVE  NotOlder(p, n)'
<1>1. ASSUME NEW u \in Tasks PROVE WritesNotOlder(pc'[u], req'[u], p, n)
  <2>1. CASE u = t
    BY <2>1, AdvertMoves
  <2>2. CASE u # t
    BY <2>2, AdvertMoves, NotOlderParts
  <2> QED BY <2>1, <2>2
<1> QED BY <1>1, NotOlderParts

LEMMA NotOlderKept ==
  ASSUME Inv, PeersVersioned, [Next]_vars, NEW p \in Peers, NEW n \in Nat, NotOlder(p, n)
  PROVE  NotOlder(p, n)'
<1>1. CASE PeersQuiet
  <2>1. ASSUME NEW t \in Tasks PROVE WritesNotOlder(pc'[t], req'[t], p, n)
    <3>1. WritesNotOlder(pc[t], req[t], p, n)
      BY NotOlderParts
    <3> QED BY <1>1, <3>1 DEF PeersQuiet, WritesNotOlder
  <2> QED BY <1>1, <2>1, NotOlderParts DEF PeersQuiet
<1>2. ASSUME NEW t \in Tasks, update_or_create(t) \/ create_peer(t) PROVE NotOlder(p, n)'
  <2>1. PICK q, v : q = Head(req[t].peers).peer /\ v = Head(req[t].peers).version
    OBVIOUS
  <2>2. UNCHANGED peer_advert
    BY <1>2, <2>1, LookMoves
  <2>3. \/ PeersQuiet
        \/ Goto(t, "put_version") /\ peer_version[q] = {}
        \/ Goto(t, "replace_advert") /\ \E current \in peer_advert[q] : current < v
    BY <1>2, <2>1, LookMoves
  <2>4. peer_advert[p] # {} /\ \A w \in peer_advert[p] : w \in Nat /\ w >= n
    BY NotOlderParts DEF Inv, TypeOK
  <2>5. CASE Goto(t, "put_version") /\ peer_version[q] = {}
    <3>1. q # p
      BY <2>4, <2>5 DEF PeersVersioned
    <3>2. WritesNotOlder("put_version", req[t], p, n)
      BY <2>1, <3>1 DEF WritesNotOlder
    <3> QED BY <2>2, <2>4, <2>5, <3>2, NotOlderMove
  <2>6. CASE Goto(t, "replace_advert") /\ \E current \in peer_advert[q] : current < v
    <3>1. v \in Nat
      BY <1>2, <2>1, AdvertAt
    <3>2. q = p => v >= n
      BY <2>4, <2>6, <3>1
    <3>3. WritesNotOlder("replace_advert", req[t], p, n)
      BY <2>1, <3>2 DEF WritesNotOlder
    <3> QED BY <2>2, <2>4, <2>6, <3>3, NotOlderMove
  <2> QED BY <1>1, <2>3, <2>5, <2>6
<1>3. ASSUME NEW t \in Tasks, put_version(t) PROVE NotOlder(p, n)'
  <2>1. Goto(t, "put_advert") /\ UNCHANGED peer_advert /\ pc[t] = "put_version"
    BY <1>3 DEF put_version
  <2>2. WritesNotOlder("put_advert", req[t], p, n)
    BY <2>1, NotOlderParts DEF WritesNotOlder, AdvertSteps
  <2> QED BY <2>1, <2>2, NotOlderParts, NotOlderMove
<1>4. ASSUME NEW t \in Tasks, put_advert(t) \/ replace_advert(t) PROVE NotOlder(p, n)'
  <2>1. Goto(t, "add_peer") /\ pc[t] \in AdvertSteps
    BY <1>4 DEF put_advert, replace_advert, AdvertSteps
  <2>2. PICK q, v : q = Head(req[t].peers).peer /\ v = Head(req[t].peers).version
    OBVIOUS
  <2>3. q = p => v >= n
    BY <2>1, <2>2, NotOlderParts DEF WritesNotOlder
  <2>4. PICK vs : /\ peer_advert' = [peer_advert EXCEPT ![q] = vs]
                  /\ vs = {v} \/ vs = peer_advert[q] \cup {v}
    BY <1>4, <2>2 DEF put_advert, replace_advert
  <2>5. peer_advert'[p] # {} /\ \A w \in peer_advert'[p] : w >= n
    <3>1. peer_advert'[p] = IF q = p THEN vs ELSE peer_advert[p]
      BY <2>4 DEF Inv, TypeOK
    <3> QED BY <2>3, <2>4, <3>1, NotOlderParts
  <2>6. WritesNotOlder("add_peer", req[t], p, n)
    BY DEF WritesNotOlder, AdvertSteps
  <2> QED BY <2>1, <2>5, <2>6, NotOlderMove
<1> QED BY <1>1, <1>2, <1>3, <1>4, AdvertCases

LEMMA VersionsNat == Versions \subseteq Nat
<1> SUFFICES ASSUME NEW ps \in PeerLists, NEW i \in DOMAIN ps PROVE ps[i].version \in Nat
  BY DEF Versions
<1>1. ps \in Seq(Adverts)
  BY BrokerConstants
<1>2. ps[i] \in Adverts
  BY <1>1
<1> QED BY <1>2 DEF Adverts

\* However many joins bring adverts of one peer at once, and wherever the process
\* is killed between the look at a peer and the write that follows: once a peer
\* has an advert and the joins about to write it bring none older, an older one
\* never takes its place again.
THEOREM AdvertsSettled == Spec => SettledAdvertsStay
<1>1. Inv /\ PeersVersioned /\ [Next]_vars =>
        [\A p \in Peers, n \in Versions : NotOlder(p, n) => NotOlder(p, n)']_vars
  BY NotOlderKept, VersionsNat
<1> QED BY <1>1, InvHolds, VersionedHolds, PTL DEF Spec, SettledAdvertsStay

\* In particular an advert that no join under way is about to follow is there
\* for good, or one that is newer: for every version, over any number of steps.
THEOREM AdvertsForGood ==
  ASSUME NEW CONSTANT p \in Peers, NEW CONSTANT n \in Nat
  PROVE  Spec => [](/\ peer_advert[p] # {} /\ \A v \in peer_advert[p] : v >= n
                    /\ \A t \in Tasks : ~ AboutToWrite(t, p)
                    => [](peer_advert[p] # {} /\ \A v \in peer_advert[p] : v >= n))
<1> DEFINE There == peer_advert[p] # {} /\ \A v \in peer_advert[p] : v >= n
           Calm == \A t \in Tasks : ~ AboutToWrite(t, p)
           Kept == NotOlder(p, n)
<1>1. Inv /\ PeersVersioned /\ Kept /\ [Next]_vars => Kept'
  BY NotOlderKept
<1>2. There /\ Calm => Kept
  BY DEF NotOlder
<1>3. Kept => There
  BY DEF NotOlder
<1> HIDE DEF There, Calm, Kept
<1>4. Spec => [](There /\ Calm => []There)
  BY <1>1, <1>2, <1>3, InvHolds, VersionedHolds, PTL DEF Spec
<1> QED BY <1>4, PTL DEF There, Calm

-----------------------------------------------------------------------------
(***************************************************************************)
(* What holds as long as no two joins overlap.  RepoStoreInfo::create and  *)
(* Peer::create check that there is no record in one transaction and put   *)
(* it in another: only then is what they checked still true.               *)
(***************************************************************************)

\* At most one join is under way; requests to block stores, add_user calls
\* and restarts interleave with it as they like.
JoinsApart ==
  \A t, u \in Tasks : pc[t] \in JoinSteps /\ pc[u] \in JoinSteps => t = u

\* A property has one value, and a peer with an advert has a version.
RecordsSole ==
  /\ \A s \in RepoStoreIds : \A j, k \in repostoreinfo[s] : j = k
  /\ \A p \in Peers : \A v, w \in peer_advert[p] : v = w
  /\ \A p \in Peers : peer_version[p] = {} => peer_advert[p] = {}

\* What a join checked before a put is still true at the put.
JoinSafe(step, r) ==
  /\ step = "put_key" => repostoreinfo[RepoStoreId(r.overlay)] = {}
  /\ step = "put_version" => peer_version[Head(r.peers).peer] = {}
  /\ step = "put_advert" =>
       peer_version[Head(r.peers).peer] # {} /\ peer_advert[Head(r.peers).peer] = {}
  /\ step = "replace_advert" =>
       /\ peer_version[Head(r.peers).peer] # {}
       /\ \A v \in peer_advert[Head(r.peers).peer] : v < Head(r.peers).version

Sole == RecordsSole /\ \A t \in Tasks : JoinSafe(pc[t], req[t])

LEMMA RiskyJoins == RiskySteps \subseteq JoinSteps
BY DEF RiskySteps, JoinSteps

\* A step that writes none of the records.
LEMMA RecordsKept ==
  ASSUME Inv, Sole, NEW t \in Tasks, NEW step, NEW r, UNCHANGED Records,
         pc' = [pc EXCEPT ![t] = step], req' = [req EXCEPT ![t] = r], JoinSafe(step, r)
  PROVE  Sole'
<1>1. RecordsSole'
  BY DEF Sole, RecordsSole, Records
<1>2. ASSUME NEW u \in Tasks PROVE JoinSafe(pc[u], req[u])'
  <2>1. PICK p, q : /\ pc'[u] = p /\ req'[u] = q
                    /\ JoinSafe(p, q)
    <3>1. CASE u = t
      BY <3>1 DEF Inv, TypeOK
    <3>2. CASE u # t
      BY <3>2 DEF Inv, TypeOK, Sole
    <3> QED BY <3>1, <3>2
  <2> QED BY <2>1 DEF JoinSafe, Records, RepoStoreId
<1> QED BY <1>1, <1>2 DEF Sole

\* A step of the only join, which may write them.
LEMMA RecordsWritten ==
  ASSUME Inv, Sole, JoinsApart, NEW t \in Tasks, pc[t] \in JoinSteps, NEW step,
         Goto(t, step), JoinSafe(step, req[t])', RecordsSole'
  PROVE  Sole'
<1>1. ASSUME NEW u \in Tasks PROVE JoinSafe(pc[u], req[u])'
  <2>1. CASE u = t
    <3>1. pc'[u] = step /\ req'[u] = req'[t]
      BY <2>1 DEF Goto, Inv, TypeOK
    <3> QED BY <3>1 DEF JoinSafe
  <2>2. CASE u # t
    <3>1. pc'[u] = pc[u] /\ pc[u] \notin RiskySteps
      BY <2>2, RiskyJoins DEF Goto, Inv, TypeOK, JoinsApart
    <3> QED BY <3>1 DEF JoinSafe, RiskySteps
  <2> QED BY <2>1, <2>2
<1> QED BY <1>1 DEF Sole

LEMMA QuietSole ==
  ASSUME Sole, Quiet
  PROVE  Sole'
<1>1. RecordsSole'
  BY DEF Sole, RecordsSole, Records, Quiet
<1>2. ASSUME NEW t \in Tasks PROVE JoinSafe(pc[t], req[t])'
  <2>1. CASE pc'[t] \notin RiskySteps
    BY <2>1 DEF JoinSafe, RiskySteps
  <2>2. CASE pc'[t] = pc[t] /\ req'[t] = req[t]
    <3>1. PICK p, q : p = pc[t] /\ q = req[t] /\ JoinSafe(p, q)
      BY DEF Sole
    <3> QED BY <2>2, <3>1 DEF JoinSafe, Records, RepoStoreId, Quiet
  <2> QED BY <2>1, <2>2 DEF Quiet
<1> QED BY <1>1, <1>2 DEF Sole

\* A check finds what the put that follows it relies on.
LEMMA CheckSole ==
  ASSUME Inv, Sole, NEW t \in Tasks, create_info(t) \/ create_peer(t) \/ update_or_create(t)
  PROVE  Sole'
<1>1. UNCHANGED Records
  BY DurableRecords DEF create_info, create_peer, update_or_create
<1>2. CASE Return(t)
  BY <1>1, <1>2, QuietReturn, QuietSole
<1>3. CASE \E s \in {"create_peer", "add_peer"} : Goto(t, s)
  BY <1>1, <1>3, QuietStep, QuietSole DEF RiskySteps
<1>4. ASSUME NEW step, Goto(t, step), JoinSafe(step, req[t]) PROVE Sole'
  <2>1. PICK r : r = req[t]
    OBVIOUS
  <2>2. pc' = [pc EXCEPT ![t] = step] /\ req' = [req EXCEPT ![t] = r]
    BY <1>4, <2>1 DEF Goto, Inv, TypeOK
  <2>3. JoinSafe(step, r)
    BY <1>4, <2>1
  <2> QED BY <1>1, <2>2, <2>3, RecordsKept
<1>5. CASE create_info(t) /\ Goto(t, "put_key")
  <2>1. CASE repostoreinfo[RepoStoreId(req[t].overlay)] = {}
    BY <1>4, <1>5, <2>1 DEF JoinSafe
  <2> QED BY <1>2, <1>5, <2>1 DEF create_info
<1>6. CASE create_peer(t) /\ Goto(t, "put_version")
  <2>1. CASE peer_version[Head(req[t].peers).peer] = {}
    BY <1>4, <1>6, <2>1 DEF JoinSafe
  <2> QED BY <1>2, <1>6, <2>1 DEF create_peer
<1>7. CASE update_or_create(t)
  <2>1. PICK p, v : p = Head(req[t].peers).peer /\ v = Head(req[t].peers).version
    OBVIOUS
  <2>2. p \in Peers /\ v \in Nat
    BY <1>7, <2>1, InStep, JoinFields DEF update_or_create, JoinSteps
  <2>3. ASSUME NEW current \in peer_advert[p], peer_version[p] # {}, ~ Stale(current, v),
               Goto(t, "replace_advert")
        PROVE  Sole'
    <3>1. current \in Nat /\ current < v
      BY <2>2, <2>3 DEF Stale, Inv, TypeOK
    <3>2. \A w \in peer_advert[p] : w < v
      BY <2>2, <3>1 DEF Sole, RecordsSole
    <3>3. JoinSafe("replace_advert", req[t])
      BY <2>1, <2>3, <3>2 DEF JoinSafe
    <3> QED BY <1>4, <2>3, <3>3
  <2> QED BY <1>2, <1>3, <1>7, <2>1, <2>3 DEF update_or_create
<1> QED BY <1>2, <1>5, <1>6, <1>7 DEF create_info, create_peer

LEMMA PutKeySole ==
  ASSUME Inv, Sole, JoinsApart, NEW t \in Tasks, put_key(t)
  PROVE  Sole'
<1>1. /\ pc[t] = "put_key" /\ Goto(t, "peers")
      /\ UNCHANGED <<peer_version, peer_advert>>
  BY DEF put_key, peer_vars
<1>2. PICK s, k : /\ s = RepoStoreId(req[t].overlay)
                  /\ repostoreinfo' = [repostoreinfo EXCEPT ![s] = @ \cup {k}]
  BY DEF put_key
<1>3. repostoreinfo[s] = {}
  BY <1>1, <1>2 DEF Sole, JoinSafe
<1>4. repostoreinfo' = [repostoreinfo EXCEPT ![s] = {k}]
  BY <1>2, <1>3
<1>5. \A i \in RepoStoreIds : repostoreinfo'[i] \in {repostoreinfo[i], {k}}
  BY <1>4 DEF Inv, TypeOK
<1>6. RecordsSole'
  BY <1>1, <1>5 DEF Sole, RecordsSole
<1>7. "peers" \notin RiskySteps /\ pc[t] \in JoinSteps
  BY <1>1 DEF RiskySteps, JoinSteps
<1>8. JoinSafe("peers", req[t])'
  BY DEF JoinSafe
<1> QED BY <1>1, <1>6, <1>7, <1>8, RecordsWritten

LEMMA PutVersionSole ==
  ASSUME Inv, Sole, JoinsApart, NEW t \in Tasks, put_version(t)
  PROVE  Sole'
<1>1. /\ pc[t] = "put_version" /\ Goto(t, "put_advert")
      /\ UNCHANGED <<repostoreinfo, peer_advert>>
  BY DEF put_version
<1>2. PICK p, v : /\ p = Head(req[t].peers).peer /\ v = Head(req[t].peers).version
                  /\ peer_version' = [peer_version EXCEPT ![p] = @ \cup {v}]
  BY DEF put_version
<1>3. p \in Peers /\ v \in Nat /\ pc[t] \in JoinSteps
  BY <1>1, <1>2, InStep, JoinFields DEF JoinSteps, PeerSteps, StepOK
<1>4. peer_advert[p] = {}
  BY <1>1, <1>2, <1>3 DEF Sole, JoinSafe, RecordsSole
<1>5. /\ peer_version'[p] # {}
      /\ \A q \in Peers : peer_version'[q] = {} => peer_version[q] = {}
  BY <1>2, <1>3 DEF Inv, TypeOK
<1>6. RecordsSole'
  BY <1>1, <1>5 DEF Sole, RecordsSole
<1>7. JoinSafe("put_advert", req[t])'
  <2>1. p = Head(req'[t].peers).peer
    BY <1>1, <1>2 DEF Goto
  <2> QED BY <1>1, <1>4, <1>5, <2>1 DEF JoinSafe
<1> QED BY <1>1, <1>3, <1>6, <1>7, RecordsWritten

LEMMA AdvertSole ==
  ASSUME Inv, Sole, JoinsApart, NEW t \in Tasks, put_advert(t) \/ replace_advert(t)
  PROVE  Sole'
<1>1. /\ pc[t] \in {"put_advert", "replace_advert"} /\ Goto(t, "add_peer")
      /\ UNCHANGED <<repostoreinfo, peer_version>>
  BY DEF put_advert, replace_advert
<1>2. PICK p, v : p = Head(req[t].peers).peer /\ v = Head(req[t].peers).version
  OBVIOUS
<1>3. p \in Peers /\ v \in Nat /\ pc[t] \in JoinSteps
  BY <1>1, <1>2, InStep, JoinFields DEF JoinSteps, PeerSteps, StepOK
<1>4. peer_version[p] # {} /\ \A w \in peer_advert[p] : w < v
  BY <1>1, <1>2 DEF Sole, JoinSafe
<1>5. peer_advert' = [peer_advert EXCEPT ![p] = {v}]
  <2>1. CASE put_advert(t)
    <3>1. peer_advert' = [peer_advert EXCEPT ![p] = peer_advert[p] \cup {v}]
      BY <1>2, <2>1 DEF put_advert
    <3>2. peer_advert[p] = {}
      BY <1>2, <2>1 DEF put_advert, Sole, JoinSafe
    <3> QED BY <3>1, <3>2
  <2>2. CASE replace_advert(t)
    BY <1>2, <2>2 DEF replace_advert
  <2> QED BY <2>1, <2>2
<1>6. peer_advert'[p] = {v} /\ \A q \in Peers \ {p} : peer_advert'[q] = peer_advert[q]
  BY <1>3, <1>5 DEF Inv, TypeOK
<1>7. \A q \in Peers : \A w \in peer_advert'[q], x \in peer_advert'[q] : w = x
  BY <1>6 DEF Sole, RecordsSole
<1>8. \A q \in Peers : peer_version'[q] = {} => peer_advert'[q] = {}
  BY <1>1, <1>4, <1>6 DEF Sole, RecordsSole
<1>9. RecordsSole'
  BY <1>1, <1>7, <1>8 DEF Sole, RecordsSole
<1>10. JoinSafe("add_peer", req[t])'
  BY DEF JoinSafe
<1> QED BY <1>1, <1>3, <1>9, <1>10, RecordsWritten

LEMMA InitSole == Init => Sole
<1> SUFFICES ASSUME Init PROVE Sole
  OBVIOUS
<1>1. RecordsSole
  BY DEF Init, RecordsSole
<1>2. \A t \in Tasks : JoinSafe(pc[t], req[t])
  BY DEF Init, JoinSafe
<1> QED BY <1>1, <1>2 DEF Sole

LEMMA NextSole == Inv /\ Sole /\ JoinsApart /\ [Next]_vars => Sole'
<1> SUFFICES ASSUME Inv, Sole, JoinsApart, [Next]_vars PROVE Sole'
  OBVIOUS
<1>1. ASSUME NEW t \in Tasks, Continue(t) PROVE Sole'
  <2>1. CASE \/ create_account(t) \/ lookup_store(t) \/ open_overlay(t) \/ map_overlay(t)
             \/ open_info(t) \/ open_env(t) \/ insert_store(t) \/ run(t)
    BY <2>1, StoreQuiet, QuietSole
  <2>2. CASE \/ create_overlay(t) \/ put_secret(t) \/ put_repo(t) \/ put_meta(t)
             \/ add_peer(t) \/ add_overlay(t)
    BY <2>2, JoinQuiet, QuietSole
  <2>3. CASE \/ create_info(t) \/ create_peer(t) \/ update_or_create(t)
             \/ put_key(t) \/ put_version(t) \/ put_advert(t) \/ replace_advert(t)
    BY <2>3, CheckSole, PutKeySole, PutVersionSole, AdvertSole
  <2> QED BY <1>1, <2>1, <2>2, <2>3 DEF Continue
<1>2. CASE UNCHANGED vars
  BY <1>2, StutterQuiet, QuietSole, DurableRecords DEF vars
<1> QED BY <1>1, <1>2, CallQuiet, RestartQuiet, QuietSole DEF Next

LEMMA SoleHolds == Spec /\ []JoinsApart => []Sole
BY InvHolds, InitSole, NextSole, PTL DEF Spec

\* As long as no two joins overlap, the key RepoStoreInfo gives for a block
\* store is the one its files were created with, whatever other requests,
\* panics and restarts come in between: the store opens again.
THEOREM KeysStable == Spec /\ []JoinsApart => []KeyStable
<1>1. Inv /\ Sole => KeyStable
  <2> SUFFICES ASSUME Inv, Sole, NEW s \in RepoStoreIds, files[s] # NoKey
               PROVE  First(repostoreinfo[s]) = files[s]
    BY DEF KeyStable
  <2>1. files[s] \in repostoreinfo[s] /\ repostoreinfo[s] \subseteq Nat
    BY BrokerConstants DEF Inv, TypeOK, FilesOK
  <2>2. PICK S : S = repostoreinfo[s]
    OBVIOUS
  <2>3. First(S) \in S
    BY <2>1, <2>2, FirstIn
  <2> QED BY <2>1, <2>2, <2>3 DEF Sole, RecordsSole
<1> QED BY <1>1, InvHolds, SoleHolds, PTL

\* A server that serves one task at a time always finds the key it needs.
THEOREM OneTaskSafe ==
  ASSUME \A t, u \in Tasks : t = u
  PROVE  Spec => []KeyStable
<1>1. JoinsApart
  BY DEF JoinsApart
<1>2. []JoinsApart
  BY <1>1, PTL
<1> QED BY <1>2, KeysStable, PTL
=============================================================================
