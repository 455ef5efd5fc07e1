----------------------------- MODULE DiskInode -----------------------------
(***************************************************************************)
(* easy-fs/src/layout.rs: the DiskInode of a file, which finds the file's  *)
(* data blocks directly, through one indirect block, or through an         *)
(* indirect block of indirect blocks.                                      *)
(*                                                                         *)
(* A block is an array of cells.  A cell is a byte of a file or an entry   *)
(* of an indirect block; zero is also "no block", because block 0 is the   *)
(* super block.  blk is the function from block ids to blocks.             *)
(***************************************************************************)
EXTENDS Integers, Sequences, SequencesExt

CONSTANTS BLOCK_SZ,               \* cells of a data block
          INODE_DIRECT_COUNT,     \* entries of direct
          INODE_INDIRECT1_COUNT   \* entries of an indirect block

ASSUME DiskInodeAssumption ==
  /\ BLOCK_SZ \in Nat \ {0}
  /\ INODE_DIRECT_COUNT \in Nat \ {0}
  /\ INODE_INDIRECT1_COUNT \in Nat \ {0}

INDIRECT1_BOUND == INODE_DIRECT_COUNT + INODE_INDIRECT1_COUNT
INDIRECT2_BOUND == INDIRECT1_BOUND + INODE_INDIRECT1_COUNT * INODE_INDIRECT1_COUNT

ZeroBlock == [i \in 0 .. Max({BLOCK_SZ, INODE_INDIRECT1_COUNT}) - 1 |-> 0]

(* DiskInode::initialize; the type is that of its place in the tree. *)
NewInode ==
  [size |-> 0, direct |-> [i \in 0 .. INODE_DIRECT_COUNT - 1 |-> 0],
   indirect1 |-> 0, indirect2 |-> 0]

(* The numbers from a to b - 1, in order. *)
From(a, b) == [i \in 1 .. b - a |-> a + i - 1]

-----------------------------------------------------------------------------
(* Faulty variants, for showing that the properties depend on the code. *)

(* total_blocks counts the second-level blocks without rounding up. *)
IndexBlocksRoundedDown(n) ==
  (IF n > INODE_DIRECT_COUNT THEN 1 ELSE 0) +
  (IF n > INDIRECT1_BOUND THEN 1 + (n - INDIRECT1_BOUND) \div INODE_INDIRECT1_COUNT ELSE 0)

(* increase_size takes a new indirect1 block whenever it needs one. *)
AllocIndirect1Always(cur) == TRUE

(* dealloc_data leaves the block as it is. *)
DeallocedNotCleared(blk, v) == blk

(* clear_size forgets the direct blocks. *)
DirectIdsNone(ino, n) == << >>

-----------------------------------------------------------------------------
data_blocks(size) == (size + BLOCK_SZ - 1) \div BLOCK_SZ

(* Blocks that n data blocks need beside themselves. *)
IndexBlocks(n) ==
  (IF n > INODE_DIRECT_COUNT THEN 1 ELSE 0) +
  (IF n > INDIRECT1_BOUND
   THEN 1 + (n - INDIRECT1_BOUND + INODE_INDIRECT1_COUNT - 1) \div INODE_INDIRECT1_COUNT
   ELSE 0)

total_blocks(size) == data_blocks(size) + IndexBlocks(data_blocks(size))

blocks_num_needed(ino, new_size) == total_blocks(new_size) - total_blocks(ino.size)

get_block_id(ino, blk, inner_id) ==
  LET last == inner_id - INDIRECT1_BOUND IN
  IF inner_id < INODE_DIRECT_COUNT THEN ino.direct[inner_id]
  ELSE IF inner_id < INDIRECT1_BOUND THEN blk[ino.indirect1][inner_id - INODE_DIRECT_COUNT]
  ELSE blk[blk[ino.indirect2][last \div INODE_INDIRECT1_COUNT]][last % INODE_INDIRECT1_COUNT]

-----------------------------------------------------------------------------
(* increase_size.  It works on st: the inode, the blocks, the iterator     *)
(* new_blocks, and ok, which is FALSE once next().unwrap() has panicked.   *)

NextBlock(st) == IF st.new_blocks = << >> THEN 0 ELSE Head(st.new_blocks)
Took(st) ==
  [st EXCEPT !.new_blocks = IF @ = << >> THEN @ ELSE Tail(@),
             !.ok = @ /\ st.new_blocks # << >>]

(* Store the next block in direct[i], or in entry i of block b. *)
PutDirect(st, i) == [Took(st) EXCEPT !.ino.direct[i] = NextBlock(st)]
PutEntry(st, b, i) == [Took(st) EXCEPT !.blk[b][i] = NextBlock(st)]

PutIndirect1(st) == [Took(st) EXCEPT !.ino.indirect1 = NextBlock(st)]
PutIndirect2(st) == [Took(st) EXCEPT !.ino.indirect2 = NextBlock(st)]

(* The fill loops, from the current to the total number of blocks. *)
FillDirect(st, cur, total) ==
  FoldLeft(PutDirect, st, From(cur, Min({total, INODE_DIRECT_COUNT})))

FillIndirect1(st, cur, total) ==
  FoldLeft(LAMBDA s, i : PutEntry(s, s.ino.indirect1, i), st,
           From(cur, Min({total, INODE_INDIRECT1_COUNT})))

FillIndirect2(st, cur, total) ==
  LET Step(s, i) ==
        LET a == i \div INODE_INDIRECT1_COUNT
            b == i % INODE_INDIRECT1_COUNT
            s1 == IF b = 0 THEN PutEntry(s, s.ino.indirect2, a) ELSE s IN
        PutEntry(s1, s1.blk[s1.ino.indirect2][a], b)
  IN FoldLeft(Step, st, From(cur, total))

(* The indirect blocks are allocated when the level below is just full. *)
AllocIndirect1(cur) == cur = INODE_DIRECT_COUNT
AllocIndirect2(cur) == cur = INODE_INDIRECT1_COUNT

increase_size(ino, blk, new_size, new_blocks) ==
  LET cur == data_blocks(ino.size)
      total == data_blocks(new_size)
      cur1 == Max({cur, Min({total, INODE_DIRECT_COUNT})})
      cur2 == Max({cur1 - INODE_DIRECT_COUNT,
                   Min({total - INODE_DIRECT_COUNT, INODE_INDIRECT1_COUNT})})
      st0 == [ino |-> [ino EXCEPT !.size = new_size], blk |-> blk,
              new_blocks |-> new_blocks, ok |-> TRUE]
      st1 == FillDirect(st0, cur, total)
      st2 == IF AllocIndirect1(cur1) THEN PutIndirect1(st1) ELSE st1
      st3 == FillIndirect1(st2, cur1 - INODE_DIRECT_COUNT, total - INODE_DIRECT_COUNT)
      st4 == IF AllocIndirect2(cur2) THEN PutIndirect2(st3) ELSE st3
  IN IF total <= INODE_DIRECT_COUNT THEN st1
     ELSE IF total <= INDIRECT1_BOUND THEN st3
     ELSE FillIndirect2(st4, cur2 - INODE_INDIRECT1_COUNT, total - INDIRECT1_BOUND)

-----------------------------------------------------------------------------
(* clear_size: the blocks it returns, in order, for n data blocks. *)

(* The first n entries of block b. *)
Entries(blk, b, n) == [i \in 1 .. n |-> blk[b][i - 1]]

DirectIds(ino, n) == [i \in 1 .. Min({n, INODE_DIRECT_COUNT}) |-> ino.direct[i - 1]]

Indirect1Ids(ino, blk, n) ==
  IF n <= INODE_DIRECT_COUNT THEN << >>
  ELSE <<ino.indirect1>> \o
       Entries(blk, ino.indirect1, Min({n - INODE_DIRECT_COUNT, INODE_INDIRECT1_COUNT}))

Indirect2Ids(ino, blk, n) ==
  LET rest == n - INDIRECT1_BOUND
      a1 == rest \div INODE_INDIRECT1_COUNT
      b1 == rest % INODE_INDIRECT1_COUNT
      Sub(i, k) == LET b == blk[ino.indirect2][i] IN <<b>> \o Entries(blk, b, k) IN
  IF n <= INDIRECT1_BOUND THEN << >>
  ELSE <<ino.indirect2>>
       \o FlattenSeq([i \in 1 .. a1 |-> Sub(i - 1, INODE_INDIRECT1_COUNT)])
       \o (IF b1 > 0 THEN Sub(a1, b1) ELSE << >>)

ClearedIds(ino, blk) ==
  LET n == data_blocks(ino.size) IN
  DirectIds(ino, n) \o Indirect1Ids(ino, blk, n) \o Indirect2Ids(ino, blk, n)

(* What clear_size leaves of the inode. *)
Cleared(ino) ==
  LET n == data_blocks(ino.size) IN
  [size |-> 0,
   direct |-> [i \in DOMAIN ino.direct |-> IF i < n THEN 0 ELSE ino.direct[i]],
   indirect1 |-> IF n > INODE_DIRECT_COUNT THEN 0 ELSE ino.indirect1,
   indirect2 |-> IF n > INDIRECT1_BOUND THEN 0 ELSE ino.indirect2]

(* EasyFileSystem::dealloc_data fills each block with zeros. *)
Dealloced(blk, v) == [b \in DOMAIN blk |-> IF b \in Range(v) THEN ZeroBlock ELSE blk[b]]

-----------------------------------------------------------------------------
(* read_at and write_at go from block to block; chunk k of the range from  *)
(* start to end is what lies in the file's k-th block.                     *)

ChunkStart(k, start) == Max({start, k * BLOCK_SZ})
ChunkEnd(k, end) == Min({(k + 1) * BLOCK_SZ, end})
Chunks(start, end) == From(start \div BLOCK_SZ, data_blocks(end))

(* The bytes read_at puts into a buffer of n bytes. *)
read_at(ino, blk, offset, n) ==
  LET end == Min({offset + n, ino.size})
      ks == Chunks(offset, end)
      Chunk(k) == LET s == ChunkStart(k, offset)
                      first == s % BLOCK_SZ IN
        [i \in 1 .. ChunkEnd(k, end) - s |->
           blk[get_block_id(ino, blk, k)][first + i - 1]] IN
  IF offset >= end THEN << >>
  ELSE FlattenSeq([j \in DOMAIN ks |-> Chunk(ks[j])])

(* The blocks after write_at of a buffer that is not empty. *)
write_at(ino, blk, offset, buf) ==
  LET end == Min({offset + Len(buf), ino.size})
      Put(m, k) == LET s == ChunkStart(k, offset)
                       first == s % BLOCK_SZ
                       past == first + ChunkEnd(k, end) - s IN
        [m EXCEPT ![get_block_id(ino, blk, k)] =
           [i \in DOMAIN @ |-> IF first <= i /\ i < past
                               THEN buf[s - offset + i - first + 1] ELSE @[i]]]
  IN FoldLeft(Put, blk, Chunks(offset, end))

=============================================================================
