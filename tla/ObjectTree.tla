----------------------------- MODULE ObjectTree -----------------------------
(***************************************************************************)
(* Objects and the Merkle trees of blocks they are kept in (lofire         *)
(* object.rs and block.rs): how an object is cut into blocks, read back    *)
(* from a store, parsed and copied.                                        *)
(*                                                                         *)
(* Sizes are in units instead of bytes: ChunkSize is data_chunk_size, and  *)
(* a dependency in the root takes DepSize.  A block without its key is its *)
(* own identifier, since the identifier is a hash of everything but the    *)
(* key.  A key is the convergence key with the text it was derived from,   *)
(* and a ciphertext is the text with the key that opens it.                *)
(***************************************************************************)
EXTENDS Naturals, SequencesExt

CONSTANTS
  ChunkSize,   \* units of data in a leaf
  DepSize,     \* units a dependency takes in a root
  Arity,       \* children of an internal node, at most
  MaxInline,   \* dependencies kept in the root block, at most (8)
  None         \* the absent Option

ASSUME ObjectTreeAssumption ==
  /\ ChunkSize \in Nat \ {0} /\ DepSize \in Nat
  /\ Arity \in Nat \ {0, 1} /\ MaxInline \in Nat

ContentTypes == {"Commit", "CommitBody", "File", "DepList"}

\* serde_bare on ObjectContent: the tag, then the data.
Serialize(c) == <<c.type>> \o c.data
Deserialize(u) == [type |-> Head(u), data |-> Tail(u)]
Deserializes(u) == u # << >> /\ Head(u) \in ContentTypes

\* chunks(n) of a slice.
Chunks(s, n) ==
  [i \in 1..((Len(s) + n - 1) \div n) |->
     SubSeq(s, (i - 1) * n + 1, IF i * n < Len(s) THEN i * n ELSE Len(s))]

Block(children, deps, expiry, content, key) ==
  [children |-> children, deps |-> deps, expiry |-> expiry,
   content |-> content, key |-> key]

Id(b) == [b EXCEPT !.key = None]
set_key(b, key) == [b EXCEPT !.key = key]
set_expiry(b, expiry) == [b EXCEPT !.expiry = expiry]

\* The two kinds of BlockContentV0.
DataChunk(units) == [kind |-> "DataChunk", data |-> units]
InternalNode(keys) == [kind |-> "InternalNode", keys |-> keys]

DepsList(ids) == [list |-> ids, ref |-> None]
NoDeps == DepsList(<< >>)

make_block(text, conv, children, deps, expiry) ==
  LET key == [conv |-> conv, of |-> text]
  IN Block(children, deps, expiry, [text |-> text, opens |-> key], key)

\* The levels above the leaves; only the root carries the dependencies.
RECURSIVE make_tree(_, _, _, _)
make_tree(leaves, conv, root_deps, expiry) ==
  LET groups == Chunks(leaves, Arity)
      Parent(i) ==
        make_block(InternalNode([j \in DOMAIN groups[i] |-> groups[i][j].key]), conv,
                   [j \in DOMAIN groups[i] |-> Id(groups[i][j])],
                   IF Len(groups) = 1 THEN root_deps ELSE NoDeps, expiry)
      parents == [i \in DOMAIN groups |-> Parent(i)]
  IN IF Len(parents) > 1
     THEN parents \o make_tree(parents, conv, root_deps, expiry)
     ELSE parents

\* The blocks of an object, the leaves first and the root last.
make_blocks(content, n_deps, obj_deps, expiry, conv) ==
  LET units == Serialize(content)
      chunks == Chunks(units, ChunkSize)
      leaves == [i \in DOMAIN chunks |->
                   make_block(DataChunk(chunks[i]), conv, << >>, NoDeps, expiry)]
  IN IF DepSize * n_deps + Len(units) <= ChunkSize
     THEN <<make_block(DataChunk(units), conv, << >>, obj_deps, expiry)>>
     ELSE leaves \o make_tree(leaves, conv, obj_deps, expiry)

\* The object that holds a long list of dependencies.
dep_blocks(deps, conv) ==
  make_blocks([type |-> "DepList", data |-> deps], 0, NoDeps, None, conv)

\* make_deps keeps the reference of that object and drops its blocks.
make_deps(deps, conv) ==
  IF Len(deps) <= MaxInline THEN DepsList(deps)
  ELSE LET root == Last(dep_blocks(deps, conv))
       IN [list |-> << >>, ref |-> [id |-> Id(root), key |-> root.key]]

new(content, deps, expiry, conv) ==
  [blocks |-> make_blocks(content, Len(deps), make_deps(deps, conv), expiry, conv),
   deps |-> deps]

Root(o) == Last(o.blocks)

-----------------------------------------------------------------------------
(***************************************************************************)
(* Reading: an error has the field `err', and `missing' for the blocks     *)
(* that are not in the store.                                              *)
(***************************************************************************)

Error(e) == [err |-> e, missing |-> << >>]
Failed(r) == r.err # None

\* collect_leaves walks the levels down, each of which lies in `blocks' just
\* before the level above it.
RECURSIVE collect_leaves(_, _, _)
collect_leaves(blocks, parents, index) ==
  LET Opens(i) == blocks[index + i].content.opens = parents[i].key
      Text(i) == blocks[index + i].content.text
      Verdict(i) ==
        CASE Id(blocks[index + i]) # parents[i].id -> "InvalidBlockId"
          [] ~ Opens(i) -> "BlockDeserializeError"
          [] Text(i).kind = "InternalNode"
               /\ Len(Text(i).keys) # Len(blocks[index + i].children) -> "InvalidKeys"
          [] OTHER -> None
      Children(i) ==
        IF Text(i).kind = "DataChunk" THEN << >>
        ELSE [j \in DOMAIN Text(i).keys |->
                [id |-> blocks[index + i].children[j], key |-> Text(i).keys[j]]]
      Leaf(i) ==
        IF Text(i).kind = "DataChunk"
        THEN <<set_key(blocks[index + i], parents[i].key)>> ELSE << >>
      bad == {i \in DOMAIN parents : Verdict(i) # None}
      children == FlattenSeq([i \in DOMAIN parents |-> Children(i)])
      leaves == FlattenSeq([i \in DOMAIN parents |-> Leaf(i)])
      below == collect_leaves(blocks, children, index - Len(children))
  IN CASE bad # {} -> Error(Verdict(CHOOSE i \in bad : \A j \in bad : i <= j))
       [] bad = {} /\ children = << >> -> [err |-> None, leaves |-> leaves]
       [] OTHER ->
            IF index < Len(children) THEN Error("InvalidChildren")
            ELSE IF Failed(below) THEN below
            ELSE [err |-> None, leaves |-> leaves \o below.leaves]

leaves_of(o) ==
  collect_leaves(o.blocks, <<[id |-> Id(Root(o)), key |-> Root(o).key]>>,
                 Len(o.blocks) - 1)

content_of(o) ==
  LET r == leaves_of(o)
      units == FlattenSeq([i \in DOMAIN r.leaves |-> r.leaves[i].content.text.data])
  IN CASE Root(o).key = None -> Error("MissingRootKey")
       [] Root(o).key # None ->
            IF Failed(r) THEN r
            ELSE IF ~ Deserializes(units) THEN Error("ObjectDeserializeError")
            ELSE [err |-> None, content |-> Deserialize(units)]

\* Mutant: the children of a block are not reversed.
RECURSIVE load_tree_unreversed(_, _)
load_tree_unreversed(parents, store) ==
  LET got == SelectSeq(parents, LAMBDA id : id \in store)
      lost == SelectSeq(parents, LAMBDA id : id \notin store)
      children == FlattenSeq([i \in DOMAIN got |-> got[i].children])
      below == load_tree_unreversed(children, store)
  IN IF children = << >> THEN [blocks |-> Reverse(got), missing |-> lost]
     ELSE [blocks |-> below.blocks \o Reverse(got), missing |-> lost \o below.missing]

\* Mutant: the walk stops at the first level where a block is missing.
RECURSIVE load_tree_level(_, _)
load_tree_level(parents, store) ==
  LET got == SelectSeq(parents, LAMBDA id : id \in store)
      lost == SelectSeq(parents, LAMBDA id : id \notin store)
      children == FlattenSeq([i \in DOMAIN got |-> Reverse(got[i].children)])
      below == load_tree_level(children, store)
  IN IF children = << >> \/ lost # << >>
     THEN [blocks |-> Reverse(got), missing |-> lost]
     ELSE [blocks |-> below.blocks \o Reverse(got), missing |-> below.missing]

\* The blocks of the tree level by level, each put in front of those before.
RECURSIVE load_tree(_, _)
load_tree(parents, store) ==
  LET got == SelectSeq(parents, LAMBDA id : id \in store)
      lost == SelectSeq(parents, LAMBDA id : id \notin store)
      children == FlattenSeq([i \in DOMAIN got |-> Reverse(got[i].children)])
      below == load_tree(children, store)
  IN IF children = << >> THEN [blocks |-> Reverse(got), missing |-> lost]
     ELSE [blocks |-> below.blocks \o Reverse(got), missing |-> lost \o below.missing]

RECURSIVE load(_, _, _)
load(id, key, store) ==
  LET tree == load_tree(<<id>>, store)
      root == Last(tree.blocks)
      blocks == [tree.blocks EXCEPT ![Len(tree.blocks)] =
                   IF key = None THEN @ ELSE set_key(@, key)]
      dep_obj == load(root.deps.ref.id, root.deps.ref.key, store)
      dep_content == content_of(dep_obj.object)
  IN CASE tree.missing # << >> -> [err |-> "MissingBlocks", missing |-> tree.missing]
       [] OTHER ->
            IF root.deps.ref = None
            THEN [err |-> None, object |-> [blocks |-> blocks, deps |-> root.deps.list]]
            ELSE IF Failed(dep_obj) THEN dep_obj
            ELSE IF Failed(dep_content) THEN dep_content
            ELSE IF dep_content.content.type # "DepList" THEN Error("InvalidDeps")
            ELSE [err |-> None,
                  object |-> [blocks |-> blocks, deps |-> dep_content.content.data]]

\* Object::copy: the same leaves with another expiry under a new tree.  A leaf
\* that was a root keeps its dependencies.
copy(o, expiry, conv) ==
  LET leaves == [i \in DOMAIN leaves_of(o).leaves |->
                   set_expiry(leaves_of(o).leaves[i], expiry)]
  IN [blocks |-> leaves \o make_tree(leaves, conv, Root(o).deps, expiry),
      deps |-> o.deps]
=============================================================================
