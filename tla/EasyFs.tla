------------------------------- MODULE EasyFs -------------------------------
(***************************************************************************)
(* The file system of easy-fs (efs.rs, vfs.rs): inodes and data blocks     *)
(* allocated from two bitmaps, and one directory, the root, whose entries  *)
(* are stored in its data blocks like the bytes of a file.                 *)
(*                                                                         *)
(* Every operation holds the lock of the file system and ends with         *)
(* block_cache_sync_all, so an operation is one step on the blocks.  What  *)
(* open reads from the super block is constant; nothing else is kept in    *)
(* memory, so opening the file system again changes nothing.               *)
(***************************************************************************)
EXTENDS DiskInode, FiniteSets

CONSTANTS Names,        \* file names, numbers other than 0
          BLOCK_BITS,   \* bits of a block
          InodesPerBlock,
          TotalBlocks, InodeBitmapBlocks,   \* arguments of create
          Writes,       \* arguments of write_at: an offset, a buffer
          MaxSize       \* bound on the size of a file

(* The areas EasyFileSystem::create divides the device into: the super     *)
(* block, inode bitmap, inodes, data bitmap, data.                         *)
InodeCount == InodeBitmapBlocks * BLOCK_BITS
InodeAreaBlocks == (InodeCount + InodesPerBlock - 1) \div InodesPerBlock
DataTotalBlocks == TotalBlocks - 1 - (InodeBitmapBlocks + InodeAreaBlocks)
DataBitmapBlocks == (DataTotalBlocks + BLOCK_BITS) \div (BLOCK_BITS + 1)
DataArea == DataTotalBlocks - DataBitmapBlocks
DataBits == DataBitmapBlocks * BLOCK_BITS

ASSUME EasyFsAssumption ==
  /\ Names \subseteq Nat \ {0}
  /\ {BLOCK_BITS, InodesPerBlock, TotalBlocks, InodeBitmapBlocks} \subseteq Nat \ {0}
  /\ DataTotalBlocks > 0
  /\ MaxSize \in Nat
  /\ MaxSize <= INDIRECT2_BOUND * BLOCK_SZ
  /\ \A w \in Writes : w.offset \in Nat /\ Len(w.buf) > 0

VARIABLES inodes,        \* the inode area
          blk,           \* the data area, its first block numbered 1
          inode_bitmap, data_bitmap,   \* the bits that are set
          ok             \* no assert and no unwrap of an iterator has failed

vars == <<inodes, blk, inode_bitmap, data_bitmap, ok>>

DIRENT_SZ == 2           \* a name and an inode number
Root == 0

(* EasyFileSystem::create: all blocks are zero, the root is inode 0. *)
Init ==
  /\ inodes = [i \in 0 .. InodeCount - 1 |-> NewInode]
  /\ blk = [b \in 0 .. DataArea |-> ZeroBlock]
  /\ inode_bitmap = {Root}
  /\ data_bitmap = {}
  /\ ok = TRUE

FreeInodes == (0 .. InodeCount - 1) \ inode_bitmap
FreeBlocks == (1 .. DataBits) \ data_bitmap

-----------------------------------------------------------------------------
(* The directory.                                                          *)

FileCount == inodes[Root].size \div DIRENT_SZ

(* Entry i of the directory: name and inode number. *)
DirEntry(i) == read_at(inodes[Root], blk, i * DIRENT_SZ, DIRENT_SZ)

(* The entries find_inode_id goes through until the name is the same. *)
Found(name) == {i \in 0 .. FileCount - 1 : DirEntry(i)[1] = name}
find_inode_id(name) == DirEntry(Min(Found(name)))[2]

-----------------------------------------------------------------------------
(* Faulty variants, for showing that the properties depend on the code. *)

(* create writes its entry over the last one. *)
NewEntryAt == IF FileCount = 0 THEN 0 ELSE (FileCount - 1) * DIRENT_SZ

(* clear does not give back the file's blocks. *)
ClearLeaks(i) ==
  /\ i \in inode_bitmap \ {Root}
  /\ inodes' = [inodes EXCEPT ![i] = Cleared(@)]
  /\ UNCHANGED <<blk, inode_bitmap, data_bitmap, ok>>

-----------------------------------------------------------------------------
(* n calls of alloc_data: the least free bits. *)
Allocated(n) ==
  [k \in 1 .. n |-> CHOOSE b \in FreeBlocks :
                      Cardinality({a \in FreeBlocks : a < b}) = k - 1]

(* Inode::increase_size returns early for a smaller size. *)
GrownSize(i, new_size) == Max({inodes[i].size, new_size})

Needed(i, new_size) == blocks_num_needed(inodes[i], GrownSize(i, new_size))

(* Whether the data area has the blocks.  The bitmap has bits for more, up *)
(* to a whole block of them; the device panics over a block behind its     *)
(* end, and alloc_data when all bits are set.                              *)
HasRoom(i, new_size) == Needed(i, new_size) <= Cardinality(FreeBlocks \cap 1 .. DataArea)

(* write_at of an inode after increase_size, which took the blocks new. *)
WriteGrown(st, new, offset, buf) ==
  [ino |-> st.ino, blk |-> write_at(st.ino, st.blk, offset, buf),
   used |-> data_bitmap \cup Range(new), ok |-> ok /\ st.ok]

(* modify_disk_inode(i): increase_size, then write_at. *)
Extend(i, offset, buf) ==
  LET new == Allocated(Needed(i, offset + Len(buf))) IN
  WriteGrown(increase_size(inodes[i], blk, GrownSize(i, offset + Len(buf)), new),
           new, offset, buf)

(* Inode i of table becomes what Extend returned. *)
Modify(table, i, x) ==
  /\ inodes' = [table EXCEPT ![i] = x.ino]
  /\ blk' = x.blk
  /\ data_bitmap' = x.used
  /\ ok' = x.ok

(* Where create puts the new entry. *)
NewEntry == FileCount * DIRENT_SZ

(* Inode::create on the root, of a name that is not there yet. *)
Create(name) ==
  /\ Found(name) = {}
  /\ FreeInodes # {}
  /\ HasRoom(Root, NewEntry + DIRENT_SZ)
  /\ LET i == Min(FreeInodes) IN
     /\ Modify([inodes EXCEPT ![i] = NewInode], Root, Extend(Root, NewEntry, <<name, i>>))
     /\ inode_bitmap' = inode_bitmap \cup {i}

(* Inode::write_at on a file. *)
WriteAt(i, offset, buf) ==
  /\ i \in inode_bitmap \ {Root}
  /\ offset + Len(buf) <= MaxSize
  /\ HasRoom(i, offset + Len(buf))
  /\ Modify(inodes, i, Extend(i, offset, buf))
  /\ UNCHANGED inode_bitmap

(* Inode::clear, its assert and the one in dealloc. *)
Clear(i) ==
  LET v == ClearedIds(inodes[i], blk) IN
  /\ i \in inode_bitmap \ {Root}
  /\ inodes' = [inodes EXCEPT ![i] = Cleared(@)]
  /\ blk' = Dealloced(blk, v)
  /\ data_bitmap' = data_bitmap \ Range(v)
  /\ ok' = (ok /\ Len(v) = total_blocks(inodes[i].size)
               /\ Range(v) \subseteq data_bitmap /\ IsInjective(v))
  /\ UNCHANGED inode_bitmap

Next ==
  \/ \E name \in Names : Create(name)
  \/ \E i \in 0 .. InodeCount - 1 :
       Clear(i) \/ \E w \in Writes : WriteAt(i, w.offset, w.buf)

Spec == Init /\ [][Next]_vars

-----------------------------------------------------------------------------
(* Properties.                                                             *)

(* All the blocks of inode i, in the order clear would return them. *)
BlocksOf(i) == ClearedIds(inodes[i], blk)

(* Types and bounds; no assert and no unwrap of an iterator fails. *)
TypeOK ==
  /\ \A i \in DOMAIN inodes : inodes[i].size \in 0 .. INDIRECT2_BOUND * BLOCK_SZ
  /\ \A b \in DOMAIN blk : Range(blk[b]) \subseteq Nat
  /\ Root \in inode_bitmap
  /\ inode_bitmap \subseteq DOMAIN inodes
  /\ data_bitmap \subseteq 1 .. DataBits
  /\ ok

(* The data bitmap is right: a block is marked exactly when it belongs to  *)
(* a file, as data or as index, and it then belongs to one file, once; it  *)
(* is a block of the data area, although the bitmap has more bits.         *)
BlocksPartitioned ==
  /\ \A i \in inode_bitmap : IsInjective(BlocksOf(i))
  /\ \A i, j \in inode_bitmap : i # j => Range(BlocksOf(i)) \cap Range(BlocksOf(j)) = {}
  /\ data_bitmap = UNION {Range(BlocksOf(i)) : i \in inode_bitmap}
  /\ data_bitmap \subseteq 1 .. DataArea

(* The byte of inode i at offset p, and all of them. *)
ByteAt(i, p) == blk[get_block_id(inodes[i], blk, p \div BLOCK_SZ)][p % BLOCK_SZ]
Contents(i) == [p \in 1 .. inodes[i].size |-> ByteAt(i, p - 1)]

(* The files as the directory names them. *)
FilesView ==
  LET dir == Contents(Root)
      InodeOf(n) == CHOOSE x \in inode_bitmap : \E j \in 1 .. FileCount :
                      dir[2 * j - 1] = n /\ dir[2 * j] = x IN
  [n \in {dir[2 * j - 1] : j \in 1 .. FileCount} |-> Contents(InodeOf(n))]
Files == INSTANCE FileStore WITH files <- FilesView

(* The file system implements the store of files: what is written to one   *)
(* file is there and nowhere else, holes and reused blocks read as zeros.  *)
FilesSpec == Files!Spec

=============================================================================
