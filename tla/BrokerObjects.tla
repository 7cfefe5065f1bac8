--------------------------- MODULE BrokerObjects ---------------------------
(***************************************************************************)
(* The calls of an overlay connection on blocks and objects (lofire-broker *)
(* connection.rs: put_object, get_object, get_block, delete_object,        *)
(* pin_object, unpin_object) and what the broker does for them on one      *)
(* block store (server.rs: put_block, get_block, del_object, pin_object,   *)
(* unpin_object).  The broker's tasks share the store: they hold read      *)
(* guards of its maps, and only the transactions exclude each other, so    *)
(* an object is loaded, deleted, pinned or put one block at a time.        *)
(*                                                                         *)
(* Blocks are shared: equal chunks of objects are one block.  An object    *)
(* with more than eight dependencies does not have them in its root: the   *)
(* root names another object that lists them, which has to be put by       *)
(* itself, and without which Object::load does not return the object.      *)
(***************************************************************************)
EXTENDS Naturals, SequencesExt

CONSTANTS
  Tasks,      \* calls in progress at a time, each of its own connection
  Objects,    \* objects
  Blocks,     \* blocks
  Children,   \* the children of each block
  BlocksOf,   \* blocks of each object, leaves first and root last
  DepListRef, \* for an object with a DepListRef, the object that lists its deps
  MaxCalls    \* bound on the calls made

Root(o) == BlocksOf[o][Len(BlocksOf[o])]
Parts(o) == {BlocksOf[o][i] : i \in 1..Len(BlocksOf[o])}

\* Object::blocks() has the children of a block before it, the root at the end
\* and only there, and no block that the root does not lead to.  The list of
\* dependencies is an object without dependencies.
ASSUME BlocksAssumption ==
  /\ Children \in [Blocks -> Seq(Blocks)]
  /\ BlocksOf \in [Objects -> Seq(Blocks) \ {<< >>}]
  /\ DOMAIN DepListRef \subseteq Objects
  /\ \A o \in DOMAIN DepListRef : DepListRef[o] \in Objects \ DOMAIN DepListRef
  /\ MaxCalls \in Nat
  /\ \A o \in Objects : \A i \in 1..Len(BlocksOf[o]) :
       LET b == BlocksOf[o][i]
       IN /\ b = Root(o) => i = Len(BlocksOf[o])
          /\ \A j \in 1..Len(Children[b]) :
               \E k \in 1..(i - 1) : BlocksOf[o][k] = Children[b][j]
  /\ \A o \in Objects : \A S \in SUBSET Parts(o) :
       /\ Root(o) \in S
       /\ \A b \in S : \A i \in 1..Len(Children[b]) : Children[b][i] \in S
       => S = Parts(o)

Ops == {"put", "get", "del", "pin", "unpin"}
Call == [op : Ops, of : Objects,
         phase : {"load", "list", "work"}, \* in Object::load, in that of the list, past it
         queue : Seq(Blocks),        \* blocks load_tree has yet to get
         missing : BOOLEAN,          \* one of them was not there
         found : Seq(Blocks),        \* what it got, the last one first
         todo : Seq(Blocks),         \* blocks the operation has yet to look at
         deduplicated : SUBSET Blocks]
NoCall == [op |-> "none"]

VARIABLES
  store,    \* blocks in main_store
  pinned,   \* blocks with a BlockMeta that says pinned
  call,     \* the call of each task
  result,   \* how the last call of each task ended
  got,      \* what the last get_object received, and whether it was cut short
  calls,    \* number of calls made
  removed,  \* history: blocks that were deleted
  gone      \* history: objects deleted, and no block of them put since

vars == <<store, pinned, call, result, got, calls, removed, gone>>

TypeOK ==
  /\ store \subseteq Blocks /\ pinned \subseteq Blocks
  /\ call \in [Tasks -> Call \cup {NoCall}]
  /\ result \in [Tasks -> {"none", "ok", "NotFound", "MissingBlocks", "lost"}]
  /\ got \in [Tasks -> [of : Objects, blocks : SUBSET Blocks, cut : BOOLEAN]
                       \cup {NoCall}]
  /\ calls \in 0..MaxCalls
  /\ removed \subseteq Blocks /\ gone \subseteq Objects

Init ==
  /\ \E os \in SUBSET Objects : store = UNION {Parts(o) : o \in os}
  /\ pinned = {}
  /\ call = [t \in Tasks |-> NoCall]
  /\ result = [t \in Tasks |-> "none"]
  /\ got = [t \in Tasks |-> NoCall]
  /\ calls = 0
  /\ removed = {} /\ gone = {}

-----------------------------------------------------------------------------
(***************************************************************************)
(* A call begins and ends.                                                 *)
(***************************************************************************)

\* put_object has its blocks from Object::new; the other operations load the
\* object from the store.
begin(t, op, o) ==
  /\ call[t] = NoCall /\ calls < MaxCalls
  /\ calls' = calls + 1
  /\ call' = [call EXCEPT ![t] =
                [op |-> op, of |-> o,
                 phase |-> IF op = "put" THEN "work" ELSE "load",
                 queue |-> IF op = "put" THEN << >> ELSE <<Root(o)>>,
                 missing |-> FALSE, found |-> << >>,
                 todo |-> IF op = "put" THEN BlocksOf[o] ELSE << >>,
                 deduplicated |-> {}]]
  /\ result' = [result EXCEPT ![t] = "none"]
  /\ got' = [got EXCEPT ![t] = NoCall]
  /\ UNCHANGED <<store, pinned, removed, gone>>

End(t, r) ==
  /\ call' = [call EXCEPT ![t] = NoCall]
  /\ result' = [result EXCEPT ![t] = r]

\* get_block without children is one transaction.
get_block(t, b) ==
  /\ call[t] = NoCall /\ calls < MaxCalls
  /\ calls' = calls + 1
  /\ result' = [result EXCEPT ![t] = IF b \in store THEN "ok" ELSE "NotFound"]
  /\ got' = [got EXCEPT ![t] = NoCall]
  /\ UNCHANGED <<store, pinned, call, removed, gone>>

-----------------------------------------------------------------------------
(***************************************************************************)
(* Object::load, a transaction for each block.                             *)
(***************************************************************************)

Loading(t) == call[t] # NoCall /\ call[t].phase \in {"load", "list"}

\* Mutant: the children are pushed as one entry.
load_tree_push(t) ==
  /\ Loading(t) /\ call[t].queue # << >>
  /\ LET c == call[t]
         b == Head(c.queue)
     IN call' = [call EXCEPT ![t] =
                   IF b \in store
                   THEN [c EXCEPT !.found = <<b>> \o c.found,
                                  !.queue = Append(Tail(c.queue), Reverse(Children[b]))]
                   ELSE [c EXCEPT !.missing = TRUE, !.queue = Tail(c.queue)]]
  /\ UNCHANGED <<store, pinned, result, got, calls, removed, gone>>

load_tree(t) ==
  /\ Loading(t) /\ call[t].queue # << >>
  /\ LET c == call[t]
         b == Head(c.queue)
     IN call' = [call EXCEPT ![t] =
                   IF b \in store
                   THEN [c EXCEPT !.found = <<b>> \o c.found,
                                  !.queue = Tail(c.queue) \o Reverse(Children[b])]
                   ELSE [c EXCEPT !.missing = TRUE, !.queue = Tail(c.queue)]]
  /\ UNCHANGED <<store, pinned, result, got, calls, removed, gone>>

\* The tree is there: Object::load goes on with the list of dependencies.
load_list(t) ==
  /\ Loading(t) /\ call[t].queue = << >>
  /\ ~ call[t].missing /\ call[t].phase = "load" /\ call[t].of \in DOMAIN DepListRef
  /\ LET c == call[t]
     IN call' = [call EXCEPT ![t] =
                   [c EXCEPT !.phase = "list", !.queue = <<Root(DepListRef[c.of])>>,
                             !.todo = c.found, !.found = << >>]]
  /\ UNCHANGED <<store, pinned, result, got, calls, removed, gone>>

\* The blocks of the object itself.
LoadedBlocks(c) == IF c.phase = "list" THEN c.todo ELSE c.found

\* Mutant: missing blocks are overlooked.
loaded_partial(t) ==
  /\ Loading(t) /\ call[t].queue = << >>
  /\ LET c == call[t]
     IN call' = [call EXCEPT ![t] = [c EXCEPT !.phase = "work", !.todo = LoadedBlocks(c)]]
  /\ UNCHANGED <<store, pinned, result, got, calls, removed, gone>>

\* With a block missing, of the object or of the list, the operation answers
\* NotFound and does nothing.
loaded(t) ==
  /\ Loading(t) /\ call[t].queue = << >>
  /\ \/ /\ call[t].missing
        /\ End(t, "NotFound")
     \/ /\ ~ call[t].missing
        /\ call[t].phase = "list" \/ call[t].of \notin DOMAIN DepListRef
        /\ LET c == call[t]
           IN call' = [call EXCEPT ![t] =
                         [c EXCEPT !.phase = "work", !.todo = LoadedBlocks(c)]]
        /\ UNCHANGED result
  /\ UNCHANGED <<store, pinned, got, calls, removed, gone>>

-----------------------------------------------------------------------------
(***************************************************************************)
(* The operations, a transaction for each block that is not a repetition.  *)
(***************************************************************************)

Working(t, op) == /\ call[t] # NoCall
                  /\ call[t].op = op /\ call[t].phase = "work"

\* Mutant: the last block comes first.
CurrentFromRoot(t) == call[t].todo[Len(call[t].todo)]

\* The block the operation looks at, from the leaves to the root.
Current(t) == Head(call[t].todo)
Looking(t, op) == Working(t, op) /\ call[t].todo # << >>
New(t) == Current(t) \notin call[t].deduplicated

\* The call goes on with the next block, or returns after the last one.
Advance(t) ==
  IF Tail(call[t].todo) = << >> THEN End(t, "ok")
  ELSE /\ LET c == call[t]
          IN call' = [call EXCEPT ![t] =
                        [c EXCEPT !.todo = Tail(c.todo),
                                  !.deduplicated = c.deduplicated \cup {Current(t)}]]
       /\ UNCHANGED result

skip(t) ==
  /\ \E op \in Ops \ {"get"} : Looking(t, op)
  /\ ~ New(t)
  /\ Advance(t)
  /\ UNCHANGED <<store, pinned, got, calls, removed, gone>>

\* put_object: one put_block request for each block.
put_block(t) ==
  /\ Looking(t, "put") /\ New(t)
  /\ store' = store \cup {Current(t)}
  /\ gone' = {o \in gone : Current(t) \notin Parts(o)}
  /\ Advance(t)
  /\ UNCHANGED <<pinned, got, calls, removed>>

\* The connection is lost between two requests.
lose_put(t) ==
  /\ Looking(t, "put")
  /\ End(t, "lost")
  /\ UNCHANGED <<store, pinned, got, calls, removed, gone>>

\* Mutant: a pinned block is left alone.
del_object_pinned(t) ==
  /\ Looking(t, "del") /\ New(t)
  /\ \/ /\ Current(t) \in store
        /\ store' = store \ ({Current(t)} \ pinned)
        /\ removed' = removed \cup {Current(t)}
        /\ Advance(t)
     \/ /\ Current(t) \notin store
        /\ End(t, "NotFound")
        /\ UNCHANGED <<store, removed>>
  /\ gone' = IF call'[t] = NoCall THEN gone \cup {call[t].of} ELSE gone
  /\ UNCHANGED <<pinned, got, calls>>

\* del_object: del answers NotFound for a block that is gone meanwhile, and `?'
\* leaves the rest.
del_object(t) ==
  /\ Looking(t, "del") /\ New(t)
  /\ \/ /\ Current(t) \in store
        /\ store' = store \ {Current(t)}
        /\ pinned' = pinned \ {Current(t)}
        /\ removed' = removed \cup {Current(t)}
        /\ Advance(t)
     \/ /\ Current(t) \notin store
        /\ End(t, "NotFound")
        /\ UNCHANGED <<store, pinned, removed>>
  /\ gone' = IF call'[t] = NoCall THEN gone \cup {call[t].of} ELSE gone
  /\ UNCHANGED <<got, calls>>

\* pin_object and unpin_object: set_pin makes a meta for a block that is not
\* there as well.
set_pin(t) ==
  /\ \/ Looking(t, "pin") /\ New(t) /\ pinned' = pinned \cup {Current(t)}
     \/ Looking(t, "unpin") /\ New(t) /\ pinned' = pinned \ {Current(t)}
  /\ Advance(t)
  /\ UNCHANGED <<store, got, calls, removed, gone>>

\* load_tree, then Object::load, on the blocks that the client received.
LoadsTree(o, received) ==
  \E S \in SUBSET received :
    /\ Root(o) \in S
    /\ \A b \in S : \A i \in 1..Len(Children[b]) : Children[b][i] \in S
Loads(o, received) ==
  /\ LoadsTree(o, received)
  /\ o \in DOMAIN DepListRef => LoadsTree(DepListRef[o], received)

\* get_object: the blocks of the object, and not those of its list, are streamed in
\* the order of todo, and the stream ends early, like a complete one, when the
\* connection is lost; the client loads the object from what it received.
get_object(t) ==
  /\ Working(t, "get")
  /\ \E n \in 0..Len(call[t].todo) :
       LET received == {call[t].todo[i] : i \in 1..n}
       IN /\ got' = [got EXCEPT ![t] = [of |-> call[t].of, blocks |-> received,
                                        cut |-> n < Len(call[t].todo)]]
          /\ \/ Loads(call[t].of, received) /\ End(t, "ok")
             \/ ~ Loads(call[t].of, received) /\ End(t, "MissingBlocks")
  /\ UNCHANGED <<store, pinned, calls, removed, gone>>

Next ==
  \E t \in Tasks :
    \/ \E op \in Ops, o \in Objects : begin(t, op, o)
    \/ \E b \in Blocks : get_block(t, b)
    \/ load_tree(t) \/ load_list(t) \/ loaded(t) \/ skip(t)
    \/ put_block(t) \/ lose_put(t) \/ del_object(t) \/ set_pin(t) \/ get_object(t)

Spec == Init /\ [][Next]_vars

-----------------------------------------------------------------------------
Whole(o) == Parts(o) \subseteq store

\* put_object puts the root last: an object that can be found by its root has all
\* its own blocks, unless one of them was deleted, also when several puts of
\* objects that share blocks are under way or were cut off.
RootMeansWhole ==
  \A o \in Objects : Root(o) \in store /\ Parts(o) \cap removed = {} => Whole(o)

\* The blocks of an object are all that Object::load needs: it has no list of
\* dependencies, or one whose blocks are among its own.
SelfContained(o) == o \in DOMAIN DepListRef => Parts(DepListRef[o]) \subseteq Parts(o)

\* get_object returns an object exactly when its stream was not cut short and the
\* object does not need more than its own blocks, and then with all of these,
\* whatever was deleted while the broker read it.  One whose dependencies are
\* listed elsewhere is refused, though the broker has it and the list.
GetFaithful ==
  \A t \in Tasks : got[t] # NoCall =>
    /\ result[t] = "ok" <=> ~ got[t].cut /\ SelfContained(got[t].of)
    /\ result[t] = "ok" => got[t].blocks = Parts(got[t].of)

\* A delete_object that got past the load leaves an object that cannot be read,
\* until a block of it is put again: also when it fails halfway because another
\* call took a block away.
DeleteEffective == \A o \in gone : ~ Whole(o)
=============================================================================
