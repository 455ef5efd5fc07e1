---------------------------- MODULE InodeBlocks -----------------------------
(***************************************************************************)
(* One file of easy-fs that grows and is cleared, while other files take   *)
(* blocks of the data area and give them back, so that the file's blocks   *)
(* come from all over it.                                                  *)
(* The blocks are those a bitmap (easy-fs/src/bitmap.rs) has free.         *)
(***************************************************************************)
EXTENDS DiskInode, FiniteSets

(* The bitmap: a bitmap of several blocks, each an array of                *)
(* words (u64), searched block by block for a word that is not all ones.   *)
(* bm is the contents of the blocks.                                       *)

CONSTANTS BitmapBlocks,   \* Bitmap::blocks
          Words,          \* words of a BitmapBlock, 64
          WordBits        \* bits of a word, 64

BlockBits == Words * WordBits           \* BLOCK_BITS
Maximum == BitmapBlocks * BlockBits     \* Bitmap::maximum
Bits == 0 .. Maximum - 1

Bitmaps == [0 .. BitmapBlocks - 1 -> [0 .. Words - 1 -> [0 .. WordBits - 1 -> {0, 1}]]]
NewBitmap == [k \in 0 .. BitmapBlocks - 1 |->
                [w \in 0 .. Words - 1 |-> [i \in 0 .. WordBits - 1 |-> 0]]]

-----------------------------------------------------------------------------
(* Faulty variants, for showing that the properties depend on the code. *)

(* alloc takes the last block that has a free bit. *)
FreeBlockLast(bm) ==
  Max({k \in DOMAIN bm : \E w \in DOMAIN bm[k] : \E i \in DOMAIN bm[k][w] : bm[k][w][i] = 0})

-----------------------------------------------------------------------------
(* Decompose a bit into (block_pos, bits64_pos, inner_pos). *)
decomposition(bit) ==
  LET b == bit % BlockBits IN <<bit \div BlockBits, b \div WordBits, b % WordBits>>

IsMax(word) == \A i \in DOMAIN word : word[i] = 1
trailing_ones(word) == Min({i \in DOMAIN word : word[i] = 0})

(* alloc returns None: it finds no word that is not all ones. *)
IsFull(bm) == \A k \in DOMAIN bm : \A w \in DOMAIN bm[k] : IsMax(bm[k][w])

(* The first block with such a word, and the first such word in it. *)
FreeBlock(bm) == Min({k \in DOMAIN bm : \E w \in DOMAIN bm[k] : ~IsMax(bm[k][w])})
FreeWord(block) == Min({w \in DOMAIN block : ~IsMax(block[w])})

(* The number alloc returns for its position. *)
BitNumber(k, w, i) == k * BlockBits + w * WordBits + i

(* Bitmap::alloc when it does not return None: the bitmap and the number. *)
AllocBit(bm) ==
  LET k == FreeBlock(bm)
      w == FreeWord(bm[k])
      i == trailing_ones(bm[k][w]) IN
  [bm |-> [bm EXCEPT ![k][w][i] = 1], bit |-> BitNumber(k, w, i)]

(* The assert of Bitmap::dealloc, and the bitmap dealloc leaves. *)
DeallocAsserts(bm, bit) ==
  LET d == decomposition(bit) IN bm[d[1]][d[2]][d[3]] = 1

DeallocBit(bm, bit) ==
  LET d == decomposition(bit) IN [bm EXCEPT ![d[1]][d[2]][d[3]] = 0]

-----------------------------------------------------------------------------
(* The file.                                                               *)

CONSTANTS Sizes,      \* the sizes the file may grow to, at most INDIRECT2_BOUND blocks
          MaxOthers   \* bound on the blocks of other files

VARIABLES ino,      \* the DiskInode
          blk,      \* the blocks of the data area, and block 0
          bitmap,   \* the data bitmap
          used,     \* blocks handed out by alloc_data and not given back
          others,   \* those of them that belong to other files
          ok        \* no unwrap and no assert has failed

vars == <<ino, blk, bitmap, used, others, ok>>

(* The data area has a block for every bit, and starts after block 0. *)
Area == 1 .. Maximum
FreeBlocks == Area \ used

Init ==
  /\ ino = NewInode
  /\ blk = [b \in {0} \cup Area |-> ZeroBlock]
  /\ bitmap = NewBitmap
  /\ used = {}
  /\ others = {}
  /\ ok = TRUE

(* data_area_start_block is added to a bit, and subtracted again. *)
DataBlock(bit) == bit + 1
DataBit(block_id) == block_id - 1

(* n calls of alloc_data, each of which unwraps what Bitmap::alloc returns. *)
Taken(n) ==
  FoldLeft(LAMBDA st, k :
             IF IsFull(st.bm) THEN [st EXCEPT !.ok = FALSE]
             ELSE LET a == AllocBit(st.bm) IN
                  [bm |-> a.bm, ids |-> Append(st.ids, DataBlock(a.bit)), ok |-> st.ok],
           [bm |-> bitmap, ids |-> << >>, ok |-> TRUE], From(1, n + 1))

(* dealloc_data of the blocks v, one by one; dealloc asserts that the bit  *)
(* is set.                                                                 *)
Returned(v) ==
  FoldLeft(LAMBDA st, b :
             IF DataBit(b) \in Bits /\ DeallocAsserts(st.bm, DataBit(b))
             THEN [st EXCEPT !.bm = DeallocBit(@, DataBit(b))]
             ELSE [st EXCEPT !.ok = FALSE],
           [bm |-> bitmap, ok |-> TRUE], v)

(* Inode::increase_size to a size that the inode and the area can hold. *)
Grow(new_size) ==
  LET n == blocks_num_needed(ino, new_size)
      new == Taken(n)
      st == increase_size(ino, blk, new_size, new.ids) IN
  /\ new_size > ino.size
  /\ n <= Cardinality(FreeBlocks)
  /\ ino' = st.ino
  /\ blk' = st.blk
  /\ bitmap' = new.bm
  /\ used' = used \cup Range(new.ids)
  /\ ok' = (ok /\ new.ok /\ st.ok)
  /\ UNCHANGED others

(* Inode::clear, with its assert and the one in Bitmap::dealloc. *)
Clear ==
  LET v == ClearedIds(ino, blk)
      old == Returned(v) IN
  /\ ino.size > 0
  /\ ino' = Cleared(ino)
  /\ blk' = Dealloced(blk, v)
  /\ bitmap' = old.bm
  /\ used' = used \ Range(v)
  /\ ok' = (ok /\ old.ok /\ Len(v) = total_blocks(ino.size))
  /\ UNCHANGED others

(* Another file takes a block, or gives one back. *)
OtherAlloc ==
  LET new == Taken(1) IN
  /\ FreeBlocks # {}
  /\ Cardinality(others) < MaxOthers
  /\ bitmap' = new.bm
  /\ others' = others \cup Range(new.ids)
  /\ used' = used \cup Range(new.ids)
  /\ ok' = (ok /\ new.ok)
  /\ UNCHANGED <<ino, blk>>

OtherDealloc(b) ==
  LET old == Returned(<<b>>) IN
  /\ b \in others
  /\ bitmap' = old.bm
  /\ others' = others \ {b}
  /\ used' = used \ {b}
  /\ ok' = (ok /\ old.ok)
  /\ UNCHANGED <<ino, blk>>

Next ==
  \/ \E n \in Sizes : Grow(n)
  \/ Clear
  \/ OtherAlloc
  \/ \E b \in Area : OtherDealloc(b)

Spec == Init /\ [][Next]_vars

-----------------------------------------------------------------------------
(* Properties.                                                             *)

DataIds(i, m) == [k \in 0 .. data_blocks(i.size) - 1 |-> get_block_id(i, m, k)]

(* Types; direct and indirect entries name blocks of the area, or none. *)
TypeOK ==
  /\ ino.size \in 0 .. INDIRECT2_BOUND * BLOCK_SZ
  /\ Range(ino.direct) \cup {ino.indirect1, ino.indirect2} \subseteq {0} \cup Area
  /\ \A b \in Area : Range(blk[b]) \subseteq {0} \cup Area
  /\ bitmap \in Bitmaps
  /\ others \subseteq used
  /\ used \subseteq Area

(* The file's data blocks are different blocks, all allocated, and none    *)
(* belongs to another file.  No block is lost: the file has exactly        *)
(* total_blocks blocks marked.  So no unwrap in increase_size and no       *)
(* assert in clear or dealloc fails, and alloc_data finds a bit while a    *)
(* block is free.                                                          *)
BlocksAccounted ==
  LET ids == DataIds(ino, blk) IN
  /\ ok
  /\ IsInjective(ids)
  /\ Range(ids) \subseteq used \ others
  /\ Cardinality(used \ others) = total_blocks(ino.size)

Allocator == INSTANCE BitAllocator WITH used <- {DataBit(b) : b \in used}

(* The search by blocks and words is an allocator of the least free        *)
(* numbers of the whole bitmap.                                            *)
AllocatorSpec == Allocator!Spec

=============================================================================
