----------------------------- MODULE ObjectSave -----------------------------
(***************************************************************************)
(* Objects saved to a block store, block by block, while blocks are        *)
(* removed from it (Object::save over HashMapRepoStore or LmdbRepoStore).  *)
(* There are two objects, one of them a copy of the other with an expiry   *)
(* of its own, which share blocks when the two expiries are equal; and,    *)
(* when the dependencies are many, the object that lists them.  make_deps  *)
(* drops that object, and no code saves it: here the application makes it  *)
(* again from the dependencies and saves it like the others, or has not    *)
(* done so yet, or only in part, when the object is loaded.                *)
(***************************************************************************)
EXTENDS ObjectTree, FiniteSets

CONSTANTS
  Units,        \* units of data
  MaxData,      \* bound on the units of an object
  DepLists,     \* lists of dependencies an object may have
  Expiries,     \* expiries of objects
  MaxRemovals   \* bound on the blocks that are removed

VARIABLES
  content,   \* what the objects hold
  deps,      \* their dependencies
  objects,   \* the object, its copy, and the list of dependencies
  next,      \* for each, the next block that save looks at
  store,     \* identifiers of the blocks in the store
  removed    \* identifiers of blocks removed so far

vars == <<content, deps, objects, next, store, removed>>

conv == "conv"

Init ==
  /\ content \in [type : {"File"}, data : UNION {[1..n -> Units] : n \in 0..MaxData}]
  /\ deps \in DepLists
  /\ \E e1, e2 \in Expiries :
       LET o == new(content, deps, e1, conv)
       IN objects = <<o, copy(o, e2, conv)>>
                      \o (IF Len(deps) <= MaxInline THEN << >>
                          ELSE <<[blocks |-> dep_blocks(deps, conv), deps |-> << >>]>>)
  /\ next = [k \in DOMAIN objects |-> 1]
  /\ store = {} /\ removed = {}

\* Mutant: the root is put first.
PutPositionRootFirst(k) == Len(objects[k].blocks) + 1 - next[k]

\* The block that save puts: from the leaves to the root.
PutPosition(k) == next[k]

\* Mutant: a block is skipped after each put.
save_skip(k) ==
  /\ next[k] <= Len(objects[k].blocks)
  /\ store' = store \cup {Id(objects[k].blocks[PutPosition(k)])}
  /\ next' = [next EXCEPT ![k] = @ + 2]
  /\ UNCHANGED <<content, deps, objects, removed>>

\* save: put the next block, unless this save has put it already.
save(k) ==
  /\ next[k] <= Len(objects[k].blocks)
  /\ LET id == Id(objects[k].blocks[PutPosition(k)])
         put == {Id(objects[k].blocks[i]) : i \in 1..(next[k] - 1)}
     IN store' = IF id \in put THEN store ELSE store \cup {id}
  /\ next' = [next EXCEPT ![k] = @ + 1]
  /\ UNCHANGED <<content, deps, objects, removed>>

\* RepoStore::del, by whoever else uses the store.
del(id) ==
  /\ Cardinality(removed) < MaxRemovals
  /\ store' = store \ {id}
  /\ removed' = removed \cup {id}
  /\ UNCHANGED <<content, deps, objects, next>>

Next ==
  \/ \E k \in DOMAIN objects : save(k)
  \/ \E id \in store : del(id)

Spec == Init /\ [][Next]_vars

-----------------------------------------------------------------------------
BlockIds(o) == {Id(o.blocks[i]) : i \in DOMAIN o.blocks}

\* The blocks named by a block of ids that is in the store, or by one of those.
RECURSIVE Reached(_)
Reached(ids) ==
  LET below == UNION {Range(id.children) : id \in ids \cap store}
  IN IF below \subseteq ids THEN ids ELSE Reached(ids \cup below)

Frontier(o) == Reached({Id(Root(o))}) \ store

Loaded(k) == load(Id(Root(objects[k])), Root(objects[k]).key, store)

TypeOK ==
  /\ next \in [DOMAIN objects -> Nat]
  /\ \A k \in DOMAIN objects : next[k] \in 1..(Len(objects[k].blocks) + 1)
  /\ store \subseteq UNION {BlockIds(objects[k]) : k \in DOMAIN objects}
  /\ removed \subseteq UNION {BlockIds(objects[k]) : k \in DOMAIN objects}

\* Object::load finds an object exactly when all of its blocks, and those of its
\* list of dependencies, are in the store, and then content() and deps() are
\* what the object was made of, for a copy too.
LoadExact ==
  \A k \in {1, 2} :
    LET parts == {k} \cup (DOMAIN objects \ {1, 2})
        whole == \A p \in parts : BlockIds(objects[p]) \subseteq store
    IN /\ Failed(Loaded(k)) <=> ~ whole
       /\ whole => /\ Loaded(k).object.deps = deps
                   /\ content_of(Loaded(k).object) = [err |-> None, content |-> content]

\* What load reports as missing is what must be fetched next: the blocks that
\* are not there and that a block it could read names.
MissingExact ==
  \A k \in {1, 2} :
    LET partial == {p \in {k} \cup (DOMAIN objects \ {1, 2}) :
                      ~ (BlockIds(objects[p]) \subseteq store)}
        p == IF k \in partial THEN k ELSE 3
    IN partial # {} => /\ Loaded(k).err = "MissingBlocks"
                       /\ Range(Loaded(k).missing) = Frontier(objects[p])

\* The root is saved last: while nothing is removed, an object that can be
\* found can be read, though its save and that of a copy are under way.
RootMeansWhole ==
  \A k \in DOMAIN objects :
    removed = {} /\ Id(Root(objects[k])) \in store =>
      BlockIds(objects[k]) \subseteq store
=============================================================================
