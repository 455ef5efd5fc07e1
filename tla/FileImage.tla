------------------------------ MODULE FileImage ------------------------------
(***************************************************************************)
(* The life of a file system image.  It is made on the host, by the packer *)
(* (easy-fs-fuse/src/main.rs), which puts every application of a directory *)
(* into a new file system; then a kernel mounts it (os8-ref/fs/inode.rs),  *)
(* runs programs from it and lets them open, read, write and truncate      *)
(* files.  The packer's own test, efs_test, is the other way to use the    *)
(* library on the host.                                                    *)
(*                                                                         *)
(* The buffers of read and write lie in one page each; UserMemory has the  *)
(* ones that do not.  A handle keeps whether it is readable and writable,  *)
(* but sys_read and sys_write of an inode never ask, so the model does not *)
(* keep it.  A call that would run out of blocks or inodes panics; the     *)
(* image modelled is large enough.                                         *)
(***************************************************************************)
EXTENDS EasyFs

CONSTANTS
  Listings,     \* what read_dir may return: sequences of [stem, dot]
  HostData,     \* by name, the bytes of the program of that name, if any
  UserNames,    \* names that programs give to open and exec
  NameLen,      \* by name, its length in bytes
  NAME_LENGTH_LIMIT,
  BUFFER,       \* bytes that read_all and the test read at a time
  TestStrings,  \* sequence of sets: what random_str_test may write in turn
  Greeting,     \* the first string of the test
  Buffers,      \* what a user program may write
  MaxCalls      \* bound on the calls of the kernel's programs

VARIABLES
  super,    \* the super block
  mounted,  \* the EasyFileSystem value in use
  stage,    \* "list", "pack", "fill", "kernel", "panic"; step of the test
  left,     \* entries of the listing the packer has still to do
  fds,      \* the OSInodes that are open
  calls,
  meant,    \* by name, what the file should hold
  got, want \* bytes of the last read, and what it should have returned

fiVars == << vars, super, mounted, stage, left, fds, calls, meant, got, want >>

-----------------------------------------------------------------------------
(* Faulty variants, for showing that the property depends on the code. *)

(* The offset stays where it was. *)
AfterWriteStays(h, n) == h

-----------------------------------------------------------------------------
(* Making and mounting. *)

EFS_MAGIC == "EFS"

(* SuperBlock::initialize *)
initialize(total, ibitmap, iarea, dbitmap, darea) ==
  [magic |-> EFS_MAGIC, total_blocks |-> total, inode_bitmap_blocks |-> ibitmap,
   inode_area_blocks |-> iarea, data_bitmap_blocks |-> dbitmap, data_area_blocks |-> darea]

is_valid(s) == s.magic = EFS_MAGIC

(* The EasyFileSystem that create returns. *)
CreatedEfs ==
  [inode_bitmap |-> << 1, InodeBitmapBlocks >>,
   data_bitmap |-> << 1 + InodeBitmapBlocks + InodeAreaBlocks, DataBitmapBlocks >>,
   inode_area_start_block |-> 1 + InodeBitmapBlocks,
   data_area_start_block |-> 1 + InodeBitmapBlocks + InodeAreaBlocks + DataBitmapBlocks]

(* EasyFileSystem::open: the same from the super block. *)
OpenedEfs(s) ==
  LET inode_total_blocks == s.inode_bitmap_blocks + s.inode_area_blocks IN
  [inode_bitmap |-> << 1, s.inode_bitmap_blocks >>,
   data_bitmap |-> << 1 + inode_total_blocks, s.data_bitmap_blocks >>,
   inode_area_start_block |-> 1 + s.inode_bitmap_blocks,
   data_area_start_block |-> 1 + inode_total_blocks + s.data_bitmap_blocks]

(* The file system has just been created, by the packer or by the test. *)
ImageInit ==
  /\ Init
  /\ super = initialize(TotalBlocks, InodeBitmapBlocks, InodeAreaBlocks, DataBitmapBlocks, DataArea)
  /\ mounted = CreatedEfs
  /\ stage \in {"list", "open"}
  /\ left \in IF stage = "list" THEN Listings ELSE {<< >>}
  /\ fds = << >> /\ calls = 0 /\ meant = << >> /\ got = << >> /\ want = << >>

-----------------------------------------------------------------------------
(* Names in the directory. *)

(* DirEntry::name looks for the 0 behind the name, and panics if the name  *)
(* has taken all the bytes.                                                *)
Unreadable(i) == NameLen[DirEntry(i)[1]] > NAME_LENGTH_LIMIT

(* find_inode_id reads the entries up to the one it looks for. *)
SearchPanics(name) ==
  \E i \in 0 .. FileCount - 1 : Unreadable(i) /\ \A j \in Found(name) : i <= j

(* DirEntry::new has NAME_LENGTH_LIMIT + 1 bytes for a name. *)
TooLong(name) == NameLen[name] > NAME_LENGTH_LIMIT + 1

-----------------------------------------------------------------------------
(* The packer: the listing, then application by application. *)

PackLeaves == UNCHANGED << super, mounted, fds, calls, got, want >>

(* name.find('.').unwrap(), for all the files before the first is packed. *)
PackList ==
  /\ stage = "list"
  /\ stage' = IF \A k \in DOMAIN left : left[k].dot THEN "pack" ELSE "panic"
  /\ UNCHANGED << vars, left, meant >> /\ PackLeaves

(* File::open().unwrap() and create().unwrap(). *)
PackCreate ==
  LET name == Head(left).stem
      panics == \/ name \notin DOMAIN HostData
                \/ SearchPanics(name) \/ Found(name) # {} \/ TooLong(name) IN
  /\ stage = "pack" /\ left # << >>
  /\ IF panics
     THEN stage' = "panic" /\ UNCHANGED << vars, meant >>
     ELSE /\ Create(name)
          /\ stage' = "fill"
          /\ meant' = (name :> << >>) @@ meant
  /\ UNCHANGED left /\ PackLeaves

PackWrite ==
  /\ stage = "fill"
  /\ LET name == Head(left).stem IN
     /\ WriteAt(find_inode_id(name), 0, HostData[name])
     /\ meant' = [meant EXCEPT ![name] = HostData[name]]
  /\ stage' = "pack"
  /\ left' = Tail(left)
  /\ PackLeaves

(* The packer lists what it has made.  Then a kernel mounts the image and  *)
(* lists it too: ROOT_INODE and list_apps.                                 *)
ls == [i \in 1 .. FileCount |-> DirEntry(i - 1)[1]]

Boot ==
  /\ stage = "pack" /\ left = << >>
  /\ stage' = IF is_valid(super) /\ \A i \in 0 .. FileCount - 1 : ~Unreadable(i)
              THEN "kernel" ELSE "panic"
  /\ mounted' = OpenedEfs(super)
  /\ got' = SetToSortSeq(Range(ls), <)
  /\ want' = SetToSortSeq(DOMAIN meant, <)
  /\ UNCHANGED << vars, super, left, fds, calls, meant >>

-----------------------------------------------------------------------------
(* The kernel's files. *)

(* OSInode::new.  name is the file's, and at is how far the handle should  *)
(* have got, for what is meant.                                            *)
OSInode(inode, name) == [offset |-> 0, inode |-> inode, name |-> name, at |-> 0]

Counted == stage = "kernel" /\ calls < MaxCalls /\ calls' = calls + 1

(* ROOT_INODE.find(name), then clear. *)
Truncate(name) ==
  /\ Clear(find_inode_id(name))
  /\ fds' = Append(fds, OSInode(find_inode_id(name), name))
  /\ meant' = [meant EXCEPT ![name] = << >>]

(* open_file, as sys_open calls it; the kernel panics when a search or a   *)
(* new entry does.                                                         *)
open_file(name, flags) ==
  LET panics == SearchPanics(name) \/ ("CREATE" \in flags /\ Found(name) = {} /\ TooLong(name)) IN
  /\ Counted
  /\ stage' = IF panics THEN "panic" ELSE stage
  /\ \/ panics /\ UNCHANGED << vars, fds, meant >>
     \/ /\ ~panics /\ Found(name) # {} /\ flags \cap {"CREATE", "TRUNC"} # {}
        /\ Truncate(name)
     \/ /\ ~panics /\ "CREATE" \in flags /\ Found(name) = {}
        /\ Create(name)
        /\ fds' = Append(fds, OSInode(Min(FreeInodes), name))
        /\ meant' = (name :> << >>) @@ meant
     \/ /\ ~panics /\ Found(name) # {} /\ flags \cap {"CREATE", "TRUNC"} = {}
        /\ fds' = Append(fds, OSInode(find_inode_id(name), name))
        /\ UNCHANGED << vars, meant >>
     \/ /\ ~panics /\ "CREATE" \notin flags /\ Found(name) = {}
        /\ UNCHANGED << vars, fds, meant >>
  /\ UNCHANGED << super, mounted, left, got, want >>

(* What file s holds at offset p and the n - 1 bytes behind it. *)
Part(s, p, n) == SubSeq(s, p + 1, Min({p + n, Len(s)}))

(* OSInode::read, n bytes. *)
Read(k, n) ==
  LET h == fds[k]
      bytes == read_at(inodes[h.inode], blk, h.offset, n) IN
  /\ Counted
  /\ got' = bytes
  /\ want' = Part(meant[h.name], h.at, n)
  /\ fds' = [fds EXCEPT ![k] = [@ EXCEPT !.offset = @ + Len(bytes), !.at = @ + Len(want')]]
  /\ UNCHANGED << vars, super, mounted, stage, left, meant >>

(* A write at offset p: what was there, zeros up to p, the bytes. *)
Overwritten(s, p, buf) ==
  [q \in 1 .. Max({Len(s), p + Len(buf)}) |->
     IF q \in p + 1 .. p + Len(buf) THEN buf[q - p] ELSE IF q <= Len(s) THEN s[q] ELSE 0]

(* The OSInode after n bytes were written. *)
AfterWrite(h, n) == [h EXCEPT !.offset = @ + n]

(* OSInode::write.  The bytes are meant to go behind all that the handle   *)
(* has read and written before.                                            *)
Write(k, buf) ==
  LET h == fds[k] IN
  /\ Counted
  /\ WriteAt(h.inode, h.offset, buf)
  /\ fds' = [fds EXCEPT ![k] = [AfterWrite(h, Len(buf)) EXCEPT !.at = @ + Len(buf)]]
  /\ meant' = [meant EXCEPT ![h.name] = Overwritten(@, h.at, buf)]
  /\ UNCHANGED << super, mounted, stage, left, got, want >>

(* OSInode::read_all from an offset: a buffer at a time until nothing is   *)
(* read.                                                                   *)
read_all(i) ==
  LET all[offset \in 0 .. inodes[i].size] ==
        LET bytes == read_at(inodes[i], blk, offset, BUFFER)
        IN  IF bytes = << >> THEN << >> ELSE bytes \o all[offset + Len(bytes)]
  IN  all[0]

(* sys_exec finds its program: open_file(name, RDONLY) and read_all. *)
Load(name) ==
  /\ Counted
  /\ stage' = IF SearchPanics(name) THEN "panic" ELSE stage
  /\ IF SearchPanics(name) \/ Found(name) = {}
     THEN UNCHANGED << got, want >>
     ELSE got' = read_all(find_inode_id(name)) /\ want' = meant[name]
  /\ UNCHANGED << vars, super, mounted, left, fds, meant >>

-----------------------------------------------------------------------------
(* efs_test; its file names are 1 and 2. *)

Filea == 1
Fileb == 2
TestLeaves == UNCHANGED << super, left, fds, calls, meant >>

TestOpen ==
  /\ stage = "open"
  /\ stage' = IF is_valid(super) THEN "filea" ELSE "panic"
  /\ mounted' = OpenedEfs(super)
  /\ UNCHANGED << vars, got, want >> /\ TestLeaves

TestCreate ==
  /\ \/ stage = "filea" /\ Create(Filea) /\ stage' = "fileb"
     \/ stage = "fileb" /\ Create(Fileb) /\ stage' = "greet"
  /\ UNCHANGED << mounted, got, want >> /\ TestLeaves

(* The greeting, written and, in the next step, read. *)
TestGreet ==
  /\ stage = "greet"
  /\ WriteAt(find_inode_id(Filea), 0, Greeting)
  /\ want' = Greeting /\ got' = Greeting
  /\ stage' = "greeted"
  /\ UNCHANGED mounted /\ TestLeaves

TestGreeted ==
  /\ stage = "greeted"
  /\ got' = read_at(inodes[find_inode_id(Filea)], blk, 0, Len(Greeting) + 1)
  /\ stage' = "clear"
  /\ UNCHANGED << vars, mounted, want >> /\ TestLeaves

(* random_str_test: clear, an empty read, a write, reads to the end. *)
TestClear ==
  /\ stage = "clear" /\ calls < Len(TestStrings)
  /\ Clear(find_inode_id(Filea))
  /\ got' = << >> /\ want' = << >>
  /\ stage' = "cleared"
  /\ UNCHANGED mounted /\ TestLeaves

TestCleared ==
  /\ stage = "cleared"
  /\ got' = read_at(inodes[find_inode_id(Filea)], blk, 0, Len(Greeting) + 1)
  /\ want' = << >>
  /\ stage' = "write"
  /\ UNCHANGED << vars, mounted >> /\ TestLeaves

TestWrite ==
  /\ stage = "write"
  /\ \E str \in TestStrings[calls + 1] :
       /\ WriteAt(find_inode_id(Filea), 0, str)
       /\ got' = str /\ want' = str
  /\ stage' = "read"
  /\ UNCHANGED mounted /\ TestLeaves

TestRead ==
  /\ stage = "read"
  /\ got' = read_all(find_inode_id(Filea))
  /\ stage' = "clear"
  /\ calls' = calls + 1
  /\ UNCHANGED << vars, super, mounted, left, fds, meant, want >>

(* The packer or the kernel has panicked, the test or the programs are     *)
(* done.                                                                   *)
Over ==
  /\ \/ stage = "panic"
     \/ stage = "clear" /\ calls = Len(TestStrings)
     \/ stage = "kernel" /\ calls = MaxCalls
  /\ UNCHANGED fiVars

ImageNext ==
  \/ PackList \/ PackCreate \/ PackWrite \/ Boot
  \/ \E name \in UserNames :
       \/ Load(name)
       \/ \E flags \in {{}, {"CREATE", "WRONLY"}, {"TRUNC", "RDWR"}} : open_file(name, flags)
  \/ \E k \in DOMAIN fds : Read(k, BUFFER) \/ \E buf \in Buffers : Write(k, buf)
  \/ TestOpen \/ TestCreate \/ TestGreet \/ TestGreeted
  \/ TestClear \/ TestCleared \/ TestWrite \/ TestRead
  \/ Over

ImageSpec == ImageInit /\ [][ImageNext]_fiVars

-----------------------------------------------------------------------------
(* The image a kernel mounts has the areas it was made with and the        *)
(* programs of the listing.  Whatever files are opened, truncated, read    *)
(* and written through any handles, a read and the loading of a program    *)
(* give the bytes that file was packed with or that were written to it,    *)
(* and efs_test's comparisons hold.  A panic of the packer or of the       *)
(* kernel, over a name or a missing file, ends the run.                    *)
FilesAsWritten ==
  /\ mounted = CreatedEfs
  /\ got = want

=============================================================================
