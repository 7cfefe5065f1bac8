# LoFiRe in TLA+

TLA+ modules that model the parts of LoFiRe where state, concurrency and failure meet:
the block store, the objects kept in it, the broker server, the connection between a
client and a broker from its handshake on, and the synchronisation of branches. TLC checks
them on small instances; TLAPS proves for every size the safety properties of the block
store, of the broker server, of the object calls, of the handshake, of the connection and
of branch synchronisation, that the block store implements its retention policy, and the
arithmetic of block sizes.
All paths below are relative to the repository's root.

## The system

| Part | Source | State | Operations |
|---|---|---|---|
| Block store | `lofire-store-lmdb/src/repostore.rs` | four LMDB tables: blocks, `BlockMeta`, index by expiry, index by last use (LRU) | `get`, `put`, `del`, `pin`, `unpin`, `has_been_synced`, `remove_expired`, `remove_least_used` |
| Broker store | `lofire-store-lmdb/src/brokerstore.rs` | one LMDB table of multi-valued properties | `get`, `put`, `replace`, `del`, ... each a transaction |
| Broker records | `lofire-broker/src/{account,overlay,peer,repostoreinfo,topic,config}.rs` | properties in the broker store | `create`, `open`, `add_*`, `remove_*` |
| Broker server | `lofire-broker/src/server.rs` | maps `repo_stores` and `overlayid_to_repostore`, each under an `RwLock` | `add_user`, `join_overlay`, block and object operations, `sync_branch` |
| Protocol handlers | `lofire-broker/src/{server,auth}.rs` | protocol of a connection, authentication state machine, async frames channel | `handle_incoming` |
| Remote connection | `lofire-broker/src/{connection,lib}.rs` | registered actors, writer mutex, shutdown channel | `open_broker_connection`, calls, reader loop, actors |
| Node daemon | `lofire-node/src/main.rs` | a websocket per client | `connection_loop` |
| Objects | `lofire/src/{object,block,store}.rs` | none (a tree of blocks) | `Object::new`, `copy`, `save`, `load`, `content`, `deps` |
| Branches, commits | `lofire/src/{branch,commit}.rs` | none (a graph of objects) | `sync_req`, `verify` |

An application opens a connection with `open_broker_connection`, which authenticates it,
and calls the methods of `BrokerConnectionRemote`; a method starts an actor, registers it,
writes a request and waits. The server's connection loop hands the request to the protocol
handler, which calls `BrokerServer`; this finds the block store of the overlay in its maps,
or opens it, and runs the operation on it under the guards it took. The answer comes back
through the socket to the reader loop, which passes it to the actor. Objects are made and
read by the client; the broker sees blocks, and loads an object only to delete, pin, stream
or synchronise it.

What is hard here, and what makes each part correct:

- the block store has no lock of its own: several tasks work on it and only the LMDB
  transactions exclude each other, while `get` and the two sweeps use several. Both indexes
  must stay usable, and a sweep must not remove what it may not;
- `unwrap()` on a table operation turns a lost race into a panic;
- a join writes four kinds of records, one transaction per property, and a crash may come
  between any two. No record may refer to one that is not there;
- the maps of the server are two `RwLock`s taken in nested scopes, and a panic under a
  write guard poisons them. Every call must still return;
- the first block of a stream and the later ones reach the socket through different tasks,
  and nothing on the client has a timeout. Streams must be whole and calls must return;
- frames carry no type, so the two ends of a handshake must agree on what comes next, and
  the server must serve nobody but the user who signed its nonce, whatever it is sent;
- an object is put, read, deleted and pinned one block at a time, and objects share blocks.
  A get must return the object or an error, and a deleted object must not be readable;
- an object is cut into blocks by arithmetic on sizes and read back from the root down.
  Blocks must fit, the tree must end, and what comes back must be what went in;
- a broker has the commits of a branch with gaps, and a client asks for what it lacks with
  heads and a Bloom filter. A reply must have no gaps the broker does not have, and what
  `verify` accepts must have its whole past in the branch.

`PROJECT.json` lists these hazards one by one, with the line and the properties.

## Modules

| Module | Models | Extended or instantiated by |
|---|---|---|
| `RepoStore` | the block store, used by any number of tasks | `MCRepoStore`, `RepoStore_proofs`, `RepoStorePolicy_proofs` |
| `RetentionPolicy` | what the block store promises, without indexes or transactions | `RepoStore` (refinement) |
| `BrokerServer` | joins, broker records, opening of block stores | `MCBrokerServer`, `BrokerServer_proofs` |
| `BrokerObjects` | block and object calls on one store, by several callers | `MCBrokerObjects`, `BrokerObjects_proofs` |
| `Handshake` | how a connection begins, at both ends | `MCHandshake`, `Handshake_proofs` |
| `BrokerConnection` | client calls, reader loop, actors, server loop | `MCBrokerConnection`, `BrokerConnection_proofs` |
| `ObjectTree` | objects as trees of blocks: pure operators | `ObjectSave` |
| `ObjectSave` | objects saved block by block while blocks are removed | `MCObjectSave` |
| `BlockSizes` | the arithmetic of block sizes, with its theorems | |
| `BranchSync` | commit graphs, `sync_req`, `verify`, one load at a time | `MCBranchSync`, `BranchSync_proofs` |

The modules compose by their promises: `BrokerObjects` takes each transaction of the block
store as one step, as `RepoStore` has it; `BrokerConnection` begins where `Handshake` ends;
`BranchSync` takes an object as present or not, which is what `LoadExact` of `ObjectSave`
says of `Object::load`; `ObjectTree` assumes of `Arity` what `BlockSizes` proves.

### RepoStore

The variables `main_store`, `meta_store`, `expiry_store` and `recently_used_store` are the
tables; `now` is `now_timestamp()`, in minutes. One step is one LMDB transaction. A call
of one transaction is one action (`put`, `del`, `set_pin`, `has_been_synced`). `get` is
`get` (read transaction, keeps the meta in `snap`) and `get_touch` (write transaction);
the sweeps are `remove_expired` and `remove_least_used` (collect `todo`) and then
`expire_one` and `evict_one`, one per deletion. `pc` says what each task is in the middle
of. A failed `unwrap()` is an outcome: the transaction is aborted, the task is replaced.
`Restart` loses what is not on disk.

Block identifiers are numbers, because LMDB orders the entries of a key by their bytes
and `add_to_lru` appends with `APPEND_DUP`: `AddToLruFails` is the condition under which
LMDB refuses. Contents of blocks are left out; a block has an expiry and a size.

### RetentionPolicy

The blocks, what is known of each, the time, the call in progress and how the last one
ended. It says when a block may leave: deleted, expired, or evicted as the least recently
used of those that are synced and not pinned; what may become of the marks of a block; and
that a call that fails changes nothing. `RepoStore` with one task implements it:
`PolicySpec` maps the tables to `blocks` and `meta` and hides both indexes.

### BrokerServer

Durable variables hold the properties of the records (`overlay_secret` is the overlays
with the property SECRET, which is how a record is known to exist) and `files`, the key
each block store was created with. `repo_stores` and `overlayid_to_repostore` are the
maps, `holds` the guards of each task, `poisoned` the locks a panic has poisoned. One step
is one transaction of the broker store, or what a task does from one lock to the next. The
steps of `join_overlay` are those of `Overlay::create`, `RepoStoreInfo::create`,
`Peer::update_or_create` and `Account::add_overlay`. The steps of a block operation follow
`get_repostore_from_overlay_id` in both modes and `open_or_create_repostore`; `run` is the
operation itself, which returns or panics. `RepoOf` is the repository that joins name for an
overlay. It comes from the client and `join_overlay` does not check it; only the join that
creates an overlay has a use for it, and no property depends on which one it is.

Joins that overlap race for the adverts of a peer: each compares its advert with what it
finds in one transaction and writes it in another, so that an older advert may replace a
newer one, and in `broker_joins` does. `SettledAdvertsStay` says what is left:
`NotOlder(p, n)`, which is that peer `p` has adverts, none older than `n`, and that no join
that has looked at `p` and is about to write brings an older one, is never lost again.

`Faults` says which failures happen in a run: a panic in the operation, a crash and
restart, a directory that cannot be created. The mode is chosen in the initial state.

### BrokerObjects

`store` and `pinned` are the blocks and the pins of one block store; `call` is the call of
each task: which operation, whether it is in `Object::load` or past it, the queue of
`load_tree`, what it found, and the blocks the operation has yet to look at, with those it
has seen (`deduplicated`). `begin` starts a call; `load_tree` gets one block in one
transaction; `load_list` goes on with the object that lists the dependencies, for an object
with a `DepListRef`; `loaded` ends the load, with `NotFound` if a block was missing; `put_block`,
`del_object` and `set_pin` are one transaction each; `skip` passes over a repeated block;
`get_object` is the stream and the client's `Object::load` of what it received, which may be
cut short at any block, and never has the blocks of the list; `lose_put` cuts a put off between two requests. Objects and what
they share are constants, and so is which of them lists the dependencies of another
(`DepListRef`): `BlocksAssumption` says of them what `ObjectTree` makes (children before
parents, the root last, a list without a list of its own). `removed` and `gone` are history variables.

### Handshake

`client` is where `open_broker_connection` stands, `protocol`, `machine`, `nonce` and
`user` the fields of `ProtocolHandler` and `AuthProtocolHandler`, `server` the connection
loop; `sent` and `replies` are the two directions of the socket, and what was written before
the transport broke may still be read. A frame is what each of
the three parsers makes of it, because the bytes carry no type. The peer is the client of
this repository (with the right private key or not), or another one that sends any of
`ForeignFrames` in any order. The transport may break at any moment. `start_protocol`,
`handle_incoming` and `broker_message` are the three protocols; their errors close the
connection, and a request of the Ext protocol ends the task with `unimplemented!()`.

### BrokerConnection

`call`, `kind` and `stream` are the application's view of each request; `actor`,
`mailbox`, `reply` and `chan` its actor and their channels; `registered` the two maps of
the reader; `up` and `down` the socket; `rest` and `frames` what the server has yet to send
of a stream. A stop event queues behind the messages of an actor. `read_frame` has the
exits of the reader loop: Close, which stops every registered actor, and a response nobody
can take, which does not. Two more exits of the loop are left out, because neither the broker
nor the transport of the demo leads to them: a stream of frames that ends without a Close
(`None => break`, `connection.rs:955`) and a request sent to the client
(`connection.rs:905`); both leave like the second kind, without stopping an actor. The libraries (xactor, async_channel, the websocket) are
modelled by how the code uses them: once a Close frame was read or written the socket
refuses further writes, and a transport error reads as Close, as the demo's transport does.

### ObjectTree and ObjectSave

`ObjectTree` has `Object::new`, `make_tree`, `make_deps`, `copy`, `load`, `content` and
`deps` as operators. Sizes are in units. A block without its key is its own identifier,
since the identifier is a hash of all but the key; a key is the convergence key with the
text it comes from, and a ciphertext opens with its key only. `ObjectSave` makes an object
and a copy of it with its own expiry, plus the object that lists the dependencies when there
are too many for the root, and saves all of them at once, one block per step, while blocks
are removed. `make_deps` drops the list object after taking its reference and no code of the
repository saves it; saving it is a step the application is given here, so that loads with
all, some and none of its blocks are compared. What happens without it, at the broker and at
the client, is in `BrokerObjects`.

### BranchSync

`dep` and `detail` are the graph of commits and what each commit is; `broker`, `local` and
`bodies` are the stores. The client makes commits and the broker gets and loses them in any
order (`create`, `upload`, `remove`); `fetch_body` gets the body of a commit, which is an
object of its own.

`sync_branch` is a request, with the heads the client heard of, its own and a filter. One
step of the broker is one `Object::load`: `take_head` loads a head and starts a walk from it,
`load_branch` looks at the next dependency of the walk, `all_heads` ends one of the two
loops of `sync_req`, `send` loads a commit of the result for the reply, `sync_error` is a
load that fails with `?`. The recursion of `load_branch` is kept as `visited`, in the order
in which commits were entered, and `todo`, the dependencies nobody has looked at: the next
one is of the commit entered last that has any (`Deepest`). The walk of `verify_deps` is
`visit` and `load_dep` over `seen` and `wait` in the same way. A commit and its body are
loaded in one step of it, since the client's store only grows. `kept`, `held`, `had`,
`hadBodies` and `accepted` are history variables: the properties speak of stores that change
while a walk runs, and say what a reply or an answer may be taken for then. Where nothing
changes, `kept`, `held` and `broker` are the same, and so are `had` and `local`.

`Past` is the smallest set of commits with a closure property, the reference definition that
both walks are compared with. `sync_req` follows every dependency but those of the root.
`verify_deps` stops at a commit whose body says Branch, whatever its dependencies: those of a
fork are the heads of the branch it was made from (`lofire/src/types.rs:297`). `Followed` is the graph
without them, and `AcceptedWhole` and `MissingNamed` are about that graph; as long as the body
of a commit is not there `verify_deps` cannot tell and follows, which `MissingNamed` allows for.
The run has such a fork. A commit with more than eight dependencies and acks has a list object
besides, which `sync_branch` does not send either (see `BrokerObjects`); here a commit is
present with its dependencies or not at all.

### BlockSizes

The constants of `store.rs` and `object.rs`, `store_valid_value_size`, the chunk size and
the arity, against the serialized sizes of the blocks (serde_bare, external).

## Runs

| Run | Instance | Shows |
|---|---|---|
| `repo_concurrent` | 2 tasks, 2 blocks (one expires), 2 minutes | indexes stay usable and only a pin makes `del` panic, whatever races happen; the expiry sweep deletes expired blocks only |
| `repo_sequential` | 1 task, 3 blocks, 3 minutes | the LRU is exact; the store implements the retention policy |
| `repo_pinned_evicted` | 2 tasks | violation: a pinned block is evicted |
| `broker_joins` | 2 tasks, both modes, all faults, fair | no record refers to a missing one; open stores are readable with a key on disk; in Local mode no task waits for a lock forever; an older advert follows a newer one only among joins under way together |
| `broker_sequential` | 1 task, 2 overlays of one repository, restarts and I/O errors | the key of a store is stable |
| `broker_core_deadlock` | 1 task, Core mode, fair | violation: the first use of a store waits for itself |
| `connection_calls` | 2 requests, streams of up to 2 blocks | streams are whole and in order; calls return and streams end unless one was dropped |
| `connection_drop` | the same | violation: a call hangs after a stream was dropped |
| `handshake` | 2 users, 2 nonces, 4 frames, both kinds of client, fair | the server serves only who signed its nonce; replies come in order; both ends agree on the user; opening returns, and a peer that is gone does not keep the task |
| `object_save` | objects of up to 2 units, 0 to 2 dependencies, 2 expiries, 2 removals | an object loads exactly when it is whole, and is what it was made of; what is reported missing is what to fetch |
| `branch_sync` | 2 graphs of 4 commits, up to 2 heads, one change at the broker or body fetched | replies are complete and minimal; an accepted commit has its past in the branch; what is missing is named |
| `object_calls` | 2 tasks, 4 objects that share blocks, one of them the dependencies of another, 4 calls | a root that is found has its object; a get is whole or an error, and an error for the object with the list; a delete is effective |

Each violation is described in `PROJECT.json` with the comment of the source it
contradicts. The passing runs carry one mutant per property: a variant of a definition,
next to it in the module, that a plausible mistake in the code would produce and that
breaks the property.

### Bounds

- Two tasks show every race between two calls; the invariants of `repo_concurrent`, of
  `broker_joins` and of `object_calls` are proved for any number of tasks, those of
  `connection_calls` for any number of requests and blocks.
- Two blocks are enough for one to expire and the other not, and for two entries of the
  LRU to share a minute in either order of their identifiers. Three blocks, in the
  sequential run, let an eviction stop in the middle. With two or three minutes there is a
  past, a present and a timestamp in the future. Timestamp 0, which the code uses for
  "never", is left to the proofs of `RepoStore_proofs`.
- Two overlays of one repository share a block store in Local mode. One peer with adverts
  of three versions, in lists of one and of two, gives every outcome of `update_or_create` and
  lets a join replace an advert between the look and the write of another. Two keys are one more than the
  single store of a repository needs.
- Two requests are one stream and the call after it, or two streams at once; with two
  blocks a stream has a first one, written by the loop, a later one and an end.
- Four frames are one more than a handshake and a request; two users and two nonces give
  another user's signature and a nonce of another connection.
- `MaxData` units with the tag, in chunks of one unit and an arity of two, make objects of
  one block, of one level of leaves and of two levels; with equal units leaves repeat. More
  than one dependency exceeds `MaxInline`, so that the list has an object of its own.
- Four commits are the fewest with two heads on a common commit that is not the root, and
  with a commit that a walk meets twice. The broker lacks one commit at first and gains or
  loses one at any point of a walk; the filter may be wrong about one commit. One assignment
  of authors and types has a commit of each outcome of `verify` and the Branch commit of a
  fork, with a dependency, below the heads. All five invariants are
  proved without these bounds.
- Objects with the same leaves, one with a repetition, one that is a leaf of the others, and
  one that lists the dependencies of another; four calls are two per task, so that one follows another that failed.

Deadlock checking is off in `broker_core_deadlock`, whose subject it is, and where the
system may rest: the application makes no more calls, the peers of a handshake have
finished, or the bounds on calls, saves and removals are used up.

### Fairness

- `BrokerServer`: strong fairness of the steps of each task, so that a task that waits for
  a lock others keep taking gets it in the end; the standard library's `RwLock` lets no new
  reader in while a writer waits. Nothing is assumed about new calls.
- `BrokerConnection`: weak fairness of each task: the call, the actors, the reader, the
  server's loop, the async frames task, and an application that reads the streams it has.
  The executor polls a woken task. Calls, drops, `close` and transport errors are not
  assumed to happen.
- `Handshake`: weak fairness of `open_broker_connection`, a future the application awaits,
  and of the server's task. Nothing is assumed of another client or of requests. The
  transport need not break, but when it does both ends see it. A peer that stays silent on a
  connection that never breaks is outside: neither end has a timeout or sends a ping
  (`lofire-node/src/main.rs:57` has it as a TODO), and both wait.

## Proofs

### RepoStore_proofs

For any sets of blocks, tasks, sizes and timestamps that satisfy `ConstantsAssumption`
(blocks and timestamps are numbers, sizes positive, expiries given for some blocks):

| Theorem | Statement |
|---|---|
| `TypeCorrect` | `Spec => []TypeOK` |
| `ExpiryIndexCorrect` | `Spec => []ExpiryIndexExact` |
| `EvictableBlocksTracked` | `Spec => []EvictableTracked` |
| `NoPanicUnlessPinned` | `Spec => []PanicsOnlyIfPinned` |
| `ExpirerRemovesExpired` | `Spec => ExpirerSound` |

The argument rests on one inductive invariant, `IInv`, in two halves. `DiskInv` is about
the tables: their types, both index properties, and that a block that was never synced has
no last use, without which `del` could look for an LRU entry that was never made.
`LocalInv` is about the locals of the calls: the snapshot of a `get` is of a synced block,
so that writing it back, however stale, adds the LRU entry that `EvictableTracked` asks
for; and what `remove_expired` has collected had expired and still has, because the expiry
of a block is fixed and the clock only advances. Each kind of transaction has a lemma about
`DiskInv` (`DelTxnDisk`, `PutDisk`, `SaveDisk`, which covers every transaction that saves a
meta), each call one about the invariant; `NextInv` puts them together.

### RepoStorePolicy_proofs

For one task (`OneTask`), any blocks and sizes, and timestamps of `has_been_synced` other
than 0, which `BlockMeta` reserves for "never used":

| Theorem | Statement |
|---|---|
| `LruCorrect` | `Spec => []LruExact` |
| `ImplementsPolicy` | `Spec => PolicySpec` |

With two tasks both are false: `repo_pinned_evicted` is such a behaviour. `SeqInv` adds to
`IInv` that the LRU has no entry but those of evictable blocks, under their last use
(`LruOnly`), that a synced block has a last use (`SyncedUsed`), and that what a call in
progress has read is still so (`CallCurrent`): the meta a `get` is about to write back, and
the list `remove_least_used` works from, which with one task is the LRU itself. The
refinement is by steps: each transaction is a step of the policy, or changes only indexes;
for an eviction, the head of the list is the least recently used of the blocks the policy
lets go, by `LruOnly` and `EvictableTracked`.

### BrokerServer_proofs

For any users, overlays, repositories, peers, keys and tasks, in both modes, with crashes,
I/O errors and panics:

| Theorem | Statement |
|---|---|
| `TypeCorrect` | `Spec => []TypeOK` |
| `NoDangling` | `Spec => []NoDanglingReferences` |
| `StoresReadable` | `Spec => []OpenStoresReadable` |
| `AdvertsSettled` | `Spec => SettledAdvertsStay` |
| `AdvertsForGood` | for a peer and a version: once its adverts are not older and no join is between look and write, they never are again |
| `KeysStable` | `Spec /\ []JoinsApart => []KeyStable` |
| `OneTaskSafe` | one task: `Spec => []KeyStable` |

`Inv` has two parts besides the properties. `TasksOK` says for every step what a task in it
relies on, although locks are released and other tasks run in between: the overlay it found
exists, the peer it is about to add has an advert, the key it read is on disk, the
environment it opened is open. These hold because records of others only grow (`Grows`), so
one lemma, `StepKept`, serves every action. `FilesOK` says that files are created with a key
that is on disk already.

`AdvertsSettled` is about joins that overlap. It needs `PeersVersioned`, which is inductive
beside `Inv`: a peer gets its VERSION before its ADVERT, so that once there is an advert no
join can set out to create the peer. The steps that could disturb an advert are then two:
`update_or_create`, which goes on to replace an advert only with a newer one than it found,
and found one not older than `n`; and the writes, of which `NotOlder` speaks already. All
other steps are `Quiet`. Without the second look of `Peer::create` the theorem fails, and the
mutant of the run shows how.

`KeyStable` is false of two joins that overlap, as both may find no key and write one each.
`JoinsApart` says that at most one join is under
way; requests, `add_user`, panics and restarts come in between as they like. `Sole` then
adds that a property has one value and that what a join checked before a put is still so at
the put (`JoinSafe`). The hypothesis holds of every behaviour with one task, and in a
server with more of those whose clients join one after the other.

### Handshake_proofs

For any users, nonces and frames of the peer: `TypeCorrect`, `ServesTheSigner`
(`ServedAsSigner`), `RepliesOrdered` (`RepliesInOrder`) and `BothAgree` (`Agreement`).
None of the three properties is inductive by itself. `ServerPlace` adds how many frames the
server has taken and sent in each protocol, `OkMeansBroker` that an `AuthResult` of success
is sent only on entering the Broker protocol, and `ClientPlace` what the client has sent and
read at each `await`: with these the nonce the client signed is the one the server checks.

### BrokerObjects_proofs

For any callers, objects, lists of dependencies and shared blocks that satisfy
`BlocksAssumption`: `TypeCorrect`,
`RootFindsWhole` (`RootMeansWhole`), `GetIsFaithful` (`GetFaithful`) and
`DeleteIsEffective` (`DeleteEffective`). The invariant has one part about the store,
`ChildrenKept` (the children of a stored block are stored, or were deleted), and one about
each call, `CallsOK`: what a load has found and has queued is closed under children unless
a block was missing, with the root last (`LoadOK`), so that a complete load has every part
of the object (`ClosedIsWhole`); what a put has passed was stored (`PutOK`), so that a block
comes after its children; and what a get streams is the whole object with the root at the
end (`StreamOK`), so that a stream cut short does not load, and a complete one does unless a
block of the list of dependencies is not among the blocks of the object. Each action has its lemma, and
`AdvanceStep` is shared by those that go on to the next block.

### BrokerConnection_proofs

For any number of requests and blocks: `TypeCorrect` and `StreamsFaithful`
(`StreamFaithful`). A block passes five queues on its way, filled and emptied by as many
tasks: what the future of the reply has yet to send, the async frames, the socket, the
mailbox of the actor, the channel to the application; and the first block is written
straight to the socket. The messages of a stream are ranked, the blocks by number and the
end of the stream last. The invariant `Pipeline` says that every queue holds a segment of
the ranks, in order, and that the segments follow each other without a gap (`Segment`);
where the reader has ended or the broker has said Close only the queues behind it are meant.
A step takes a message off one queue and puts it on the next, which `SegHead`, `SegAppend`
and `SegShift` are about. Around it: a request is in transit to the broker at most once
(`UpOnce`), until it is answered no queue has a message of it (`Untouched`), so that the
reply starts from empty segments; a mailbox has messages of its own request only; and an
actor stops because its stream is over or the connection is (`StoppedOK`), which makes a
stream that ends on an open connection a whole one.

### BranchSync_proofs

For every graph of commits, every assignment of types, forks included, every set of requests
and number of changes. That the graph has no cycle is not used.

| Theorem | Statement |
|---|---|
| `TypeCorrect` | `Spec => []TypeOK` |
| `SyncsMinimal` | `Spec => []SyncMinimal` |
| `SyncsComplete` | `Spec => []SyncComplete` |
| `AcceptedIsWhole` | `Spec => []AcceptedWhole` |
| `MissingIsNamed` | `Spec => []MissingNamed` |

`Past` is closed under dependencies (`PastStep`) and part of every closed set that has what
it starts from (`PastLeast`), so no induction over the graph is needed: what a walk visits is
in `Past` because each step of it follows a dependency, and `Past` is in what was visited
once that set is closed. `WalkClosed` and `SeenClosed` say how far it is: a dependency of a
visited commit has yet to be looked at, or was visited, or was not in the store, which for
`sync_req` means that the broker has not kept it, and for `verify_deps` that it has been
named. `HeadsTaken` says the same of the heads, `WalkFrom` and `SeenFrom` that a walk does
not leave `Past`. `SyncsComplete` then takes what was visited from the heads together with
the past of the client's heads as the closed set: the first is sent unless the filter or the
second walk takes it off, and both of these the client has. The invariants of one walk are
kept by all that the other actors do because the broker's store lies between `kept` and
`held` (`BrokerFrame`) and the client's only grows (`CheckFrame`).

### BlockSizes

`BlocksFit`, `TreesEnd` and `ValidSizeStable`: for every size an application may ask for,
every block `Object::new` makes fits in what the store allows, an internal node has at least
two children, and `Object::copy` finds the block size again from a full leaf.

### Only model-checked

- Liveness, under fairness, is beyond the prover: that calls return, streams end, the
  handshake comes to an end.
- `ObjectSave`: `Object::new`, `load` and `content` are recursive, and what a recursive
  operator computes for every tree needs an induction over data. A walk in steps, which is
  how `BranchSync` and `BrokerObjects` are proved, does not help: the tree that is walked is
  itself made by the recursion. That an object with a root is whole is proved for the calls
  of `BrokerObjects`, from what `ObjectTree` makes of an object.
- `LruExact`, `KeyStable` and the retention policy with several tasks or overlapping joins
  are not true, and are neither checked nor proved of them.

## What the models show besides

Behaviour of the code met while modelling that no property states:

- `remove_expired` panics on an expired block that is pinned and synced, because `del`
  looks for an LRU entry that pinning removed; the block stays.
- A request between the creation of an overlay and that of its key leaves the overlay
  mapped to a block store that is not open, until a restart.
- A crash between `Overlay::create` and `RepoStoreInfo::create` leaves an overlay that can
  be joined and has no block store key.
- `put_object` sends the blocks of the object; those of the object that lists more than
  eight dependencies are not among them, and such an object cannot be loaded, deleted, pinned
  or streamed by the broker. With the list at the broker the stream is complete, and
  `get_object` still returns `MissingBlocks`, because the list is not in the stream.
- `verify` accepts a commit of a fork without the past that the fork shares with the branch it
  was made from: `verify_deps` stops at the Branch commit of the fork.
- Two joins that bring adverts of one peer at once may leave the older of the two.
- A request fails, and the client receives nothing, when one of its own heads is not in the
  broker's store, or when a commit is deleted between the search of `sync_req` and its load.
- `sync_req` never sends the root, and passes over missing dependencies without a word;
  `verify` checks signature and permission of the commit it is given, not of its past.
- Two `del_object` calls on objects that share blocks can both stop halfway and leave roots
  that no `del_object` can remove, since it loads the object first.
- `set_pin` makes a meta for a block that was deleted meanwhile, and unpinning an object
  unpins the blocks it shares with a pinned one.

## Not modelled

- Deletions and the remaining setters of broker records (`del`, `del_all`, `remove_*`,
  metadata), which no server operation uses; topics and the configuration, which is read
  once before the server is shared.
- In `BranchSync` an object is loaded at once. How a load of several blocks meets a deletion
  is in `BrokerObjects`. The client stores a reply as a whole.
- Encodings of messages and values, encryption, signatures: hashes are identities, keys are
  values, a signature is right or wrong.
- Connections that neither break nor carry anything: there is no timeout that could end them.
- Two processes on one database, and LMDB itself: a transaction is atomic and isolated.
- The demo, a client of these interfaces. The ext protocol, P2P, topics and events are
  empty or `unimplemented!()` in the source.

## Plan

1. Done: the modules above, with proofs for all of them but `ObjectTree` and `ObjectSave`.
2. The properties of a record as a table: `replace`, `del_all` and the `remove_*`
   operations, once a server operation uses them.
3. `BranchSync` over the blocks of `BrokerObjects`, so that a commit is deleted in the middle
   of its load.
