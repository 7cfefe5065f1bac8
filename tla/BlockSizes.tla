----------------------------- MODULE BlockSizes -----------------------------
(***************************************************************************)
(* The arithmetic of block sizes (lofire store.rs and object.rs): how many *)
(* bytes of data Object::new puts in a leaf and how many children in an    *)
(* internal node, so that each block it makes fits in the size the store   *)
(* allows, and the tree ends.                                              *)
(***************************************************************************)
EXTENDS Integers, TLAPS

MIN_SIZE == 4072
PAGE_SIZE == 4096
HEADER == PAGE_SIZE - MIN_SIZE
MAX_FACTOR == 512

EMPTY_BLOCK_SIZE == 12
BLOCK_ID_SIZE == 33
BLOCK_KEY_SIZE == 33
BIG_VARINT_EXTRA == 3
DATA_VARINT_EXTRA == 4
MAX_DEPS == 8
MAX_DEPS_SIZE == MAX_DEPS * BLOCK_ID_SIZE

\* ceil of a quotient of f32s: exact, as page sizes are powers of two and the
\* sums that f32 rounds are far above MAX_FACTOR pages.
Pages(size) == (size + HEADER + (PAGE_SIZE - 1)) \div PAGE_SIZE
store_valid_value_size(size) ==
  (IF Pages(size) < MAX_FACTOR THEN Pages(size) ELSE MAX_FACTOR) * PAGE_SIZE - HEADER

store_max_value_size == MAX_FACTOR * PAGE_SIZE - HEADER

\* Of Object::new, for a valid block size.
data_chunk_size(v) == v - EMPTY_BLOCK_SIZE - DATA_VARINT_EXTRA
arity(v) ==
  (v - EMPTY_BLOCK_SIZE - BIG_VARINT_EXTRA * 2 - MAX_DEPS_SIZE)
    \div (BLOCK_ID_SIZE + BLOCK_KEY_SIZE)
OneBlock(v, deps, len) ==
  EMPTY_BLOCK_SIZE + DATA_VARINT_EXTRA + BLOCK_ID_SIZE * deps + len <= v

-----------------------------------------------------------------------------
(***************************************************************************)
(* Serialized sizes, in serde_bare.                                        *)
(***************************************************************************)

\* A length or a tag: seven bits in a byte.
Varint(n) == IF n < 128 THEN 1 ELSE IF n < 16384 THEN 2 ELSE IF n < 2097152 THEN 3 ELSE 4

\* The two kinds of BlockContentV0.
DataChunkSize(len) == 1 + Varint(len) + len
InternalNodeSize(children) == 1 + Varint(children) + BLOCK_KEY_SIZE * children

\* ObjectDeps: a list, or the reference of an object that holds it.
DepsSize(deps) ==
  IF deps <= MAX_DEPS THEN 1 + Varint(deps) + BLOCK_ID_SIZE * deps
  ELSE 1 + BLOCK_ID_SIZE + BLOCK_KEY_SIZE

\* A block with an expiry, which takes 5 bytes where its absence takes 1.
BlockSize(children, deps, content) ==
  1 + Varint(children) + BLOCK_ID_SIZE * children + DepsSize(deps) + 5
    + Varint(content) + content

-----------------------------------------------------------------------------
USE DEF MIN_SIZE, PAGE_SIZE, HEADER, MAX_FACTOR, EMPTY_BLOCK_SIZE, BLOCK_ID_SIZE,
        BLOCK_KEY_SIZE, BIG_VARINT_EXTRA, DATA_VARINT_EXTRA, MAX_DEPS, MAX_DEPS_SIZE

\* What store_valid_value_size returns is a whole number of pages less the header,
\* from one page to MAX_FACTOR.
LEMMA ValidSize ==
  ASSUME NEW size \in Nat
  PROVE  \E k \in 1..MAX_FACTOR : store_valid_value_size(size) = k * PAGE_SIZE - HEADER
BY DEF store_valid_value_size, Pages

\* A valid size is its own: the object that holds a list of dependencies is cut
\* like the object that has them.
THEOREM ValidSizeStable ==
  ASSUME NEW size \in Nat
  PROVE  store_valid_value_size(store_valid_value_size(size)) = store_valid_value_size(size)
<1>1. PICK k \in 1..MAX_FACTOR : store_valid_value_size(size) = k * PAGE_SIZE - HEADER
  BY ValidSize
<1>2. k * PAGE_SIZE - HEADER + HEADER + (PAGE_SIZE - 1) = k * PAGE_SIZE + 4095
  OBVIOUS
<1>3. (k * PAGE_SIZE + 4095) \div PAGE_SIZE = k
  OBVIOUS
<1> QED BY <1>1, <1>2, <1>3 DEF store_valid_value_size, Pages

\* Whatever size the application asks for, every block that Object::new makes
\* fits in the size that the store allows: an object in one block, a leaf, and
\* an internal node with all its children, the root with its dependencies too.
THEOREM BlocksFit ==
  ASSUME NEW size \in Nat, NEW deps \in Nat, NEW len \in Nat, NEW children \in Nat
  PROVE  LET v == store_valid_value_size(size)
         IN /\ v <= store_max_value_size
            /\ OneBlock(v, deps, len) => BlockSize(0, deps, DataChunkSize(len)) <= v
            /\ len <= data_chunk_size(v) => BlockSize(0, 0, DataChunkSize(len)) <= v
            /\ children <= arity(v) =>
                 BlockSize(children, deps, InternalNodeSize(children)) <= v
<1> DEFINE v == store_valid_value_size(size)
<1>1. v \in Nat /\ 4072 <= v /\ v <= 2097128
  BY ValidSize
<1>2. v <= store_max_value_size
  BY <1>1 DEF store_max_value_size
<1> HIDE DEF v
<1>3. ASSUME OneBlock(v, deps, len)
      PROVE  BlockSize(0, deps, DataChunkSize(len)) <= v
  BY <1>1, <1>3 DEF OneBlock, BlockSize, DataChunkSize, DepsSize, Varint
<1>4. ASSUME len <= data_chunk_size(v)
      PROVE  BlockSize(0, 0, DataChunkSize(len)) <= v
  BY <1>1, <1>4 DEF data_chunk_size, BlockSize, DataChunkSize, DepsSize, Varint
<1>5. ASSUME children <= arity(v)
      PROVE  BlockSize(children, deps, InternalNodeSize(children)) <= v
  <2>1. 66 * children <= v - 282
    BY <1>1, <1>5 DEF arity
  <2>2. InternalNodeSize(children) \in Nat /\ InternalNodeSize(children) <= 33 * children + 4
    BY <1>1, <2>1 DEF InternalNodeSize, Varint
  <2>3. DepsSize(deps) \in Nat /\ DepsSize(deps) <= 266
    BY DEF DepsSize, Varint
  <2>4. Varint(children) <= 3 /\ Varint(InternalNodeSize(children)) <= 3
    BY <1>1, <2>1, <2>2 DEF Varint
  <2>5. Varint(children) \in Nat /\ Varint(InternalNodeSize(children)) \in Nat
    BY DEF Varint
  <2> QED BY <1>1, <2>1, <2>2, <2>3, <2>4, <2>5 DEF BlockSize
<1> QED BY <1>2, <1>3, <1>4, <1>5 DEF v

\* A leaf holds some data and an internal node has more than one child, so that
\* the chunking advances and each level of make_tree is smaller than the one
\* below it; and a full leaf gives Object::copy the arity of Object::new.
THEOREM TreesEnd ==
  ASSUME NEW size \in Nat
  PROVE  LET v == store_valid_value_size(size)
         IN /\ data_chunk_size(v) \in Nat \ {0}
            /\ arity(v) \in Nat \ {0, 1}
            /\ store_valid_value_size(DataChunkSize(data_chunk_size(v))) = v
<1>1. PICK k \in 1..MAX_FACTOR : store_valid_value_size(size) = k * PAGE_SIZE - HEADER
  BY ValidSize
<1> DEFINE v == k * PAGE_SIZE - HEADER
<1>2. v \in Nat /\ 4072 <= v /\ v <= 2097128
  OBVIOUS
<1>3. data_chunk_size(v) \in Nat \ {0} /\ arity(v) \in Nat \ {0, 1}
  BY <1>2 DEF data_chunk_size, arity
<1>4. DataChunkSize(data_chunk_size(v)) \in {v - 13, v - 12}
  BY <1>2 DEF DataChunkSize, data_chunk_size, Varint
<1>5. ASSUME NEW c \in {v - 13, v - 12}
      PROVE  store_valid_value_size(c) = v
  BY <1>5 DEF store_valid_value_size, Pages
<1> QED BY <1>1, <1>3, <1>4, <1>5
=============================================================================
