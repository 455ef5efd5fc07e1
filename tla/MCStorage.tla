----------------------------- MODULE MCStorage -----------------------------
(***************************************************************************)
(* The layers of easy-fs and their users, for TLC: the block cache         *)
(* (BlockCache), the blocks of an inode (InodeBlocks), the file system     *)
(* (EasyFs), and the packer of the image with the kernel's files and the   *)
(* test of easy-fs-fuse on it (FileImage).  Which layer runs is chosen at  *)
(* the start.                                                              *)
(***************************************************************************)
EXTENDS FileImage, BlockCache

VARIABLES layer,
          ino, data, bitmap, used, others, fine   \* of InodeBlocks

Inode == INSTANCE InodeBlocks WITH
  BitmapBlocks <- 2, Words <- 2, WordBits <- 3, Sizes <- {2, 3, 6, 10, 11, 14}, MaxOthers <- 2,
  blk <- data, ok <- fine

inodeVars == <<ino, data, bitmap, used, others, fine>>
imageVars == <<super, mounted, stage, left, fds, calls, meant, got, want>>
storageVars == <<layer, fiVars, cacheVars, inodeVars>>

-----------------------------------------------------------------------------
(* Of a layer that is not chosen there is one initial state. *)
StorageInit ==
  /\ ImageInit /\ CacheInit /\ Inode!Init
  /\ layer \in {"cache", "inode", "files", "image"}
  /\ layer # "cache" => \A b, c \in Blocks : disk[b] = disk[c]
  /\ layer # "cache" => seen = [seen EXCEPT ![1] = CHOOSE b \in Blocks : TRUE]
  /\ layer # "image" => stage = "open"

StorageNext ==
  /\ UNCHANGED layer
  /\ \/ layer = "cache" /\ CacheNext /\ UNCHANGED <<fiVars, inodeVars>>
     \/ layer = "inode" /\ Inode!Next /\ UNCHANGED <<fiVars, cacheVars>>
     \/ layer = "files" /\ Next /\ UNCHANGED <<imageVars, cacheVars, inodeVars>>
     \/ layer = "image" /\ ImageNext /\ UNCHANGED <<cacheVars, inodeVars>>

StorageSpec == StorageInit /\ [][StorageNext]_storageVars

-----------------------------------------------------------------------------
(* Properties, each of its layers, beside FilesAsWritten of FileImage. *)

(* The cache has room for whoever asks: see NeverRunsOut of BlockCache. *)
CacheHasRoom == layer = "cache" => NeverRunsOut

(* The cache is an array of blocks, crashes included: see StoreSpec of     *)
(* BlockCache.                                                             *)
BlocksStored == Store!Init /\ [][layer = "cache" => Store!Next]_<<Stored, versions, seen>>

(* A file that grows and is cleared has the blocks it should, no more and  *)
(* no fewer, and shares none: see BlocksAccounted of InodeBlocks.          *)
BlocksAccounted == layer = "inode" => Inode!BlocksAccounted

(* The bitmap is an allocator of the least free numbers: see AllocatorSpec *)
(* of InodeBlocks.                                                         *)
BitsAllocated == Inode!Allocator!Init /\ [][layer = "inode" => Inode!Allocator!Next]_used

(* Every block of the disk has one owner: see BlocksPartitioned of EasyFs. *)
DiskPartitioned == layer \in {"files", "image"} => BlocksPartitioned

(* The file system implements the store of files: see FilesSpec of EasyFs, *)
(* whose writes these are.                                                 *)
FilesStored == Files!Init /\ [][layer = "files" => Files!Next]_FilesView

-----------------------------------------------------------------------------
(* Values of the constants.                                                *)

(* EasyFs: buffers of ones, some of them after a gap. *)
MCWrites ==
  {[offset |-> w[1], buf |-> [i \in 1 .. w[2] |-> 1]] : w \in {<<3, 1>>, <<0, 5>>, <<3, 5>>}}

(* FileImage: names 1 and 2 are of ordinary length, 3 takes all the bytes  *)
(* of an entry, 4 and 5 more; 5 is not the name of a file of the host.     *)
(* Two programs, in either order, one, or one of them twice, a name        *)
(* without a dot, a missing file, long names.                              *)
Dotted(names) == [k \in DOMAIN names |-> [stem |-> names[k], dot |-> TRUE]]
MCListings ==
  {Dotted(names) : names \in {<<1, 2>>, <<2, 1>>, <<1>>, <<1, 1>>, <<2, 5>>, <<1, 3>>, <<3, 1>>, <<1, 4>>}}
    \cup {<<[stem |-> 1, dot |-> TRUE], [stem |-> 2, dot |-> FALSE]>>}
MCHostData == <<<<3, 4, 5>>, <<6>>, <<7>>, <<7>>>>
MCNameLen == <<2, 3, 4, 5, 5>>

(* Test strings shorter than a block and as long as a file can be. *)
TestString(n, d) == [i \in 1 .. n |-> 1 + ((i * d) % 3)]
MCTestStrings ==
  <<{TestString(2, 1), TestString(2, 2)}, {TestString(5, 1), TestString(5, 2)},
    {TestString(3, 1)}, {TestString(8, 1)}, {TestString(6, 2)}>>
MCGreeting == <<7, 8, 9>>
MCBuffers == {<<8>>, <<8, 9, 8>>}

=============================================================================
