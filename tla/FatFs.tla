------------------------------- MODULE FatFs -------------------------------
(***************************************************************************)
(* The file system of EC440_HW5: fs.c on top of the block device disk.c.   *)
(*                                                                         *)
(* Files are chains of blocks threaded through a FAT held in memory        *)
(* (fat_table); a directory of MaxFiles entries names the chains; a table  *)
(* of MaxFds descriptors holds offsets.  The library is single-threaded,   *)
(* but every call that loops over a chain (fs_read, fs_write, fs_truncate, *)
(* fs_delete) is modelled one loop iteration per step, with the registers  *)
(* of the loop in op: a crash can fall between two iterations, and each    *)
(* iteration can be reasoned about alone.                                  *)
(*                                                                         *)
(* Calls that return an error before changing anything are not steps.      *)
(***************************************************************************)
EXTENDS Integers, Sequences, FiniteSets

CONSTANTS
  Names,        \* file names of legal length (shorter than FS_MAX_FILENAME_LENGTH)
  NoName,       \* the empty name a cleared directory entry holds
  MaxFiles,     \* FS_MAX_FILES
  MaxFds,       \* FS_MAX_FILE_DESCRIPTORS
  BlockSize,    \* BLOCK_SIZE
  TotalBlocks,  \* DISK_BLOCKS
  DataStart,    \* superblock.data_start_block
  FatSaved,     \* FAT entries held by the fat_block_count blocks on disk
  UintMod,      \* 2^32, the modulus of uint32_t
  Byte,         \* the values of a byte
  Garbage,      \* what uninitialised heap memory may hold in a FAT entry
  MaxNbyte,     \* bound on the nbyte argument of fs_read and fs_write
  MaxLength     \* bound on the offset of fs_lseek and the length of fs_truncate

Blocks      == DataStart .. TotalBlocks - 1
SavedBlocks == {b \in Blocks : b < FatSaved}
Slots       == 0 .. MaxFiles - 1
Fds         == 0 .. MaxFds - 1
FAT_FREE    == 0
FAT_EOF     == UintMod - 1
NoSlot      == MaxFiles
FatValues   == Blocks \cup {FAT_FREE, FAT_EOF}

ASSUME SizesAssumption ==
  /\ MaxFiles \in Nat \ {0} /\ MaxFds \in Nat \ {0}
  /\ BlockSize \in Nat \ {0}
  /\ DataStart \in Nat \ {0}
  /\ TotalBlocks \in Nat /\ DataStart <= TotalBlocks
  /\ FatSaved \in Nat
  /\ UintMod \in Nat /\ TotalBlocks < UintMod /\ TotalBlocks * BlockSize < UintMod
  /\ MaxNbyte \in Nat /\ MaxNbyte < UintMod /\ MaxLength \in Nat
ASSUME ValuesAssumption == 0 \in Byte /\ NoName \notin Names /\ Garbage \subseteq FatValues

VARIABLES
  mounted,  \* fs.c: mounted
  active,   \* disk.c: active
  fat,      \* fat_table; all free while the table is not allocated
  dir,      \* root_directory
  fds,      \* fd_table
  disk,     \* the metadata blocks of the disk file: superblock, FAT, directory
  data,     \* the data blocks of the disk file
  op,       \* the call in progress and its local variables
  reply,    \* what the last call returned: a count, and the bytes read
  own,      \* auxiliary: the directory entry whose chain holds a block
  base      \* auxiliary: the file offset of the first byte of a block

vars == <<mounted, active, fat, dir, fds, disk, data, op, reply, own, base>>

Entry  == [used : BOOLEAN, name : Names \cup {NoName}, size : Nat, first : FatValues]
Fd     == [used : BOOLEAN, ent : Slots, off : Nat]
Image  == [magic : BOOLEAN, fat : [SavedBlocks -> FatValues], dir : [Slots -> Entry],
           own : [Blocks -> Slots \cup {NoSlot}], base : [Blocks -> Nat]]
Kinds  == {"none", "read", "write", "extend", "truncate", "delete", "umount"}
Pcs    == {"idle", "walk", "tail", "chunk", "abort", "cut", "free", "save"}

(***************************************************************************)
(* The local variables of the call in progress.  blk and off are the block *)
(* and offset every loop advances; rem and cnt the bytes left and done     *)
(* (rem is the new length in fs_truncate); aux the block allocated but not *)
(* yet linked (fs_write) or the last block kept (fs_truncate); buf the     *)
(* caller's buffer.  "extend" is the zero-filling first half of fs_write.  *)
(***************************************************************************)
Op     == [kind : Kinds, pc : Pcs, fd : Fds, ent : Slots, blk : FatValues, aux : FatValues,
           off : Nat, rem : Nat, cnt : Nat, buf : Seq(Byte)]
Idle   == [kind |-> "none", pc |-> "idle", fd |-> 0, ent |-> 0, blk |-> FAT_EOF,
           aux |-> FAT_EOF, off |-> 0, rem |-> 0, cnt |-> 0, buf |-> <<>>]
Return(n, bytes) == [val |-> n, bytes |-> bytes]
NoReply == Return(0, <<>>)

EmptyEntry == [used |-> FALSE, name |-> NoName, size |-> 0, first |-> FAT_FREE]
EmptyDir   == [i \in Slots |-> EmptyEntry]
ClosedFd   == [used |-> FALSE, ent |-> 0, off |-> 0]
AllClosed  == [d \in Fds |-> ClosedFd]
AllFree    == [b \in Blocks |-> FAT_FREE]
NoOwner    == [b \in Blocks |-> NoSlot]
NoBase     == [b \in Blocks |-> 0]
ZeroData   == [b \in Blocks |-> [i \in 0 .. BlockSize - 1 |-> 0]]

IsLeast(x, S)  == x \in S /\ \A y \in S : x <= y
Smaller(x, y)  == IF x < y THEN x ELSE y
Larger(x, y)   == IF x > y THEN x ELSE y
-----------------------------------------------------------------------------
(* Helpers of fs.c *)

(* allocate_free_block scans from data_start_block: b is the block it returns. *)
FreeBlocks             == {b \in Blocks : fat[b] = FAT_FREE}
allocate_free_block(b) == IsLeast(b, FreeBlocks)
DiskFull               == FreeBlocks = {}

find_free_directory_entry(i)    == IsLeast(i, {j \in Slots : ~dir[j].used})
find_file_in_directory(i, name) == IsLeast(i, {j \in Slots : dir[j].used /\ dir[j].name = name})

(* What write_metadata_to_disk leaves in the metadata blocks: the superblock,
   as much of the FAT as fat_block_count blocks hold, and the directory. *)
Metadata(f, d, o, p) ==
  [magic |-> TRUE, fat |-> [b \in SavedBlocks |-> f[b]], dir |-> d, own |-> o, base |-> p]

(* Faulty variant: the FAT blocks are not written. *)
write_metadata_no_fat ==
  LET staying == op.kind # "umount" IN
  /\ op.pc = "save"
  /\ disk' = [Metadata(fat, dir, own, base) EXCEPT !.fat = disk.fat]
  /\ op' = Idle
  /\ mounted' = staying /\ active' = staying
  /\ fat' = IF staying THEN fat ELSE AllFree
  /\ UNCHANGED <<dir, fds, data, reply, own, base>>

(* The step that ends fs_write, fs_truncate, fs_delete and umount_fs, which
   all save the metadata last; umount_fs then drops the table and the disk. *)
write_metadata_to_disk ==
  LET staying == op.kind # "umount" IN
  /\ op.pc = "save"
  /\ disk' = Metadata(fat, dir, own, base)
  /\ op' = Idle
  /\ mounted' = staying /\ active' = staying
  /\ fat' = IF staying THEN fat ELSE AllFree
  /\ UNCHANGED <<dir, fds, data, reply, own, base>>

(* A disk file make_disk has just filled with zeros: no magic number. *)
make_disk == [Metadata(AllFree, EmptyDir, NoOwner, NoBase) EXCEPT !.magic = FALSE]

(* A block of `content` bytes copied over offsets off .. off + n - 1 of a block. *)
Patched(old, off, n, content) ==
  [i \in 0 .. BlockSize - 1 |-> IF i \in off .. off + n - 1 THEN content[i - off + 1] ELSE old[i]]
Zeros(n)                      == [i \in 1 .. n |-> 0]
Slice(s, from, n)             == [i \in 1 .. n |-> s[from + i]]
-----------------------------------------------------------------------------
(* make_fs, mount_fs, umount_fs *)

(* make_fs on a disk that is not open: format and close it again. *)
make_fs ==
  /\ op.pc = "idle" /\ ~active
  /\ disk' = Metadata(AllFree, EmptyDir, NoOwner, NoBase)
  /\ data' = ZeroData
  /\ dir' = EmptyDir /\ own' = NoOwner /\ base' = NoBase
  /\ reply' = NoReply
  /\ UNCHANGED <<mounted, active, fat, fds, op>>

(* make_fs on the mounted disk: make_disk truncates and zeroes the file
   before open_disk notices that it is already open and the call fails. *)
make_fs_open ==
  /\ op.pc = "idle" /\ active
  /\ disk' = make_disk
  /\ data' = ZeroData
  /\ reply' = Return(-1, <<>>)
  /\ UNCHANGED <<mounted, active, fat, dir, fds, op, own, base>>

(* Faulty variant: the descriptors of the previous mount stay open. *)
mount_fs_keeps_fds ==
  /\ op.pc = "idle" /\ ~mounted /\ ~active /\ disk.magic
  /\ \E heap \in [Blocks \ SavedBlocks -> Garbage] :
       fat' = [b \in Blocks |-> IF b \in SavedBlocks THEN disk.fat[b] ELSE heap[b]]
  /\ dir' = disk.dir /\ own' = disk.own /\ base' = disk.base
  /\ mounted' = TRUE /\ active' = TRUE
  /\ reply' = NoReply
  /\ UNCHANGED <<fds, disk, data, op>>

(* mount_fs: the FAT is malloc'ed and only its first FatSaved entries are
   read back; the others keep whatever the heap held. *)
mount_fs ==
  /\ op.pc = "idle" /\ ~mounted /\ ~active /\ disk.magic
  /\ \E heap \in [Blocks \ SavedBlocks -> Garbage] :
       fat' = [b \in Blocks |-> IF b \in SavedBlocks THEN disk.fat[b] ELSE heap[b]]
  /\ dir' = disk.dir /\ own' = disk.own /\ base' = disk.base
  /\ fds' = AllClosed
  /\ mounted' = TRUE /\ active' = TRUE
  /\ reply' = NoReply
  /\ UNCHANGED <<disk, data, op>>

umount_fs ==
  /\ op.pc = "idle" /\ mounted
  /\ op' = [Idle EXCEPT !.kind = "umount", !.pc = "save"]
  /\ reply' = NoReply
  /\ UNCHANGED <<mounted, active, fat, dir, fds, disk, data, own, base>>
-----------------------------------------------------------------------------
(* Calls without loops over a chain *)

(* Faulty variant: the name is not looked up first. *)
fs_create_unchecked(name) ==
  /\ op.pc = "idle" /\ mounted
  /\ \E i \in Slots :
       /\ find_free_directory_entry(i)
       /\ dir' = [dir EXCEPT ![i] = [used |-> TRUE, name |-> name, size |-> 0, first |-> FAT_EOF]]
  /\ reply' = NoReply
  /\ UNCHANGED <<mounted, active, fat, fds, disk, data, op, own, base>>

fs_create(name) ==
  /\ op.pc = "idle" /\ mounted
  /\ \A j \in Slots : ~find_file_in_directory(j, name)
  /\ \E i \in Slots :
       /\ find_free_directory_entry(i)
       /\ dir' = [dir EXCEPT ![i] = [used |-> TRUE, name |-> name, size |-> 0, first |-> FAT_EOF]]
  /\ reply' = NoReply
  /\ UNCHANGED <<mounted, active, fat, fds, disk, data, op, own, base>>

fs_open(name) ==
  /\ op.pc = "idle" /\ mounted
  /\ \E i \in Slots, d \in Fds :
       /\ find_file_in_directory(i, name)
       /\ IsLeast(d, {c \in Fds : ~fds[c].used})
       /\ fds' = [fds EXCEPT ![d] = [used |-> TRUE, ent |-> i, off |-> 0]]
       /\ reply' = Return(d, <<>>)
  /\ UNCHANGED <<mounted, active, fat, dir, disk, data, op, own, base>>

(* A closed descriptor's entry and offset are never read again: both are cleared. *)
fs_close(d) ==
  /\ op.pc = "idle" /\ fds[d].used
  /\ fds' = [fds EXCEPT ![d] = ClosedFd]
  /\ reply' = NoReply
  /\ UNCHANGED <<mounted, active, fat, dir, disk, data, op, own, base>>

fs_get_filesize(d) == dir[fds[d].ent].size
fs_listfiles       == {dir[i].name : i \in {j \in Slots : dir[j].used}}

fs_lseek(d, offset) ==
  /\ op.pc = "idle" /\ mounted /\ fds[d].used
  /\ offset <= fs_get_filesize(d)
  /\ fds' = [fds EXCEPT ![d].off = offset]
  /\ reply' = NoReply
  /\ UNCHANGED <<mounted, active, fat, dir, disk, data, op, own, base>>
-----------------------------------------------------------------------------
(* The walk along a chain that opens fs_read and both halves of fs_write *)

(* Faulty variant: the walk starts over instead of going on. *)
walk_restarts ==
  /\ op.pc = "walk" /\ op.off >= BlockSize /\ op.blk # FAT_EOF
  /\ op' = [op EXCEPT !.blk = dir[op.ent].first]
  /\ UNCHANGED <<mounted, active, fat, dir, fds, disk, data, reply, own, base>>

walk ==
  /\ op.pc = "walk" /\ op.off >= BlockSize /\ op.blk # FAT_EOF
  /\ op' = [op EXCEPT !.blk = fat[op.blk], !.off = op.off - BlockSize]
  /\ UNCHANGED <<mounted, active, fat, dir, fds, disk, data, reply, own, base>>

(* Faulty variant: an offset of exactly one block stays in the block before. *)
walk_done_early ==
  /\ op.pc = "walk" /\ op.off <= BlockSize /\ op.blk # FAT_EOF
  /\ op' = [op EXCEPT !.pc = "chunk"]
  /\ UNCHANGED <<mounted, active, fat, dir, fds, disk, data, reply, own, base>>

walk_done ==
  /\ op.pc = "walk" /\ op.off < BlockSize /\ op.blk # FAT_EOF
  /\ op' = [op EXCEPT !.pc = "chunk"]
  /\ UNCHANGED <<mounted, active, fat, dir, fds, disk, data, reply, own, base>>
-----------------------------------------------------------------------------
(* fs_read *)

(* Faulty variant: only an offset right at the end is told from one inside. *)
fs_read_past_end(d, n) ==
  LET e == fds[d].ent IN
  /\ op.pc = "idle" /\ mounted /\ fds[d].used
  /\ IF dir[e].first = FAT_EOF \/ fds[d].off = dir[e].size
     THEN UNCHANGED op
     ELSE op' = [Idle EXCEPT !.kind = "read", !.pc = "walk", !.fd = d, !.ent = e,
                             !.blk = dir[e].first, !.off = fds[d].off,
                             !.rem = Smaller(n, dir[e].size - fds[d].off)]
  /\ reply' = NoReply
  /\ UNCHANGED <<mounted, active, fat, dir, fds, disk, data, own, base>>

fs_read(d, n) ==
  LET e == fds[d].ent IN
  /\ op.pc = "idle" /\ mounted /\ fds[d].used
  /\ IF dir[e].first = FAT_EOF \/ fds[d].off >= dir[e].size
     THEN UNCHANGED op
     ELSE op' = [Idle EXCEPT !.kind = "read", !.pc = "walk", !.fd = d, !.ent = e,
                             !.blk = dir[e].first, !.off = fds[d].off,
                             !.rem = Smaller(n, dir[e].size - fds[d].off)]
  /\ reply' = NoReply
  /\ UNCHANGED <<mounted, active, fat, dir, fds, disk, data, own, base>>

read_chunk ==
  LET n    == Smaller(BlockSize - op.off, op.rem)
      full == op.off + n = BlockSize
  IN
  /\ op.kind = "read" /\ op.pc = "chunk" /\ op.rem > 0 /\ op.blk # FAT_EOF
  /\ op' = [op EXCEPT !.blk = IF full THEN fat[op.blk] ELSE op.blk,
                      !.off = IF full THEN 0 ELSE op.off + n,
                      !.rem = op.rem - n, !.cnt = op.cnt + n,
                      !.buf = op.buf \o [i \in 1 .. n |-> data[op.blk][op.off + i - 1]]]
  /\ UNCHANGED <<mounted, active, fat, dir, fds, disk, data, reply, own, base>>

read_return ==
  /\ op.kind = "read" /\ op.pc = "chunk" /\ (op.rem = 0 \/ op.blk = FAT_EOF)
  /\ fds' = [fds EXCEPT ![op.fd].off = fds[op.fd].off + op.cnt]
  /\ reply' = Return(op.cnt, op.buf)
  /\ op' = Idle
  /\ UNCHANGED <<mounted, active, fat, dir, disk, data, own, base>>

(* block_read failed: the call returns -1 and the offset stays. *)
read_error ==
  /\ op.kind = "read" /\ op.pc = "chunk" /\ op.rem > 0
  /\ reply' = Return(-1, <<>>)
  /\ op' = Idle
  /\ UNCHANGED <<mounted, active, fat, dir, fds, disk, data, own, base>>
-----------------------------------------------------------------------------
(* fs_write *)

(* Faulty variant: no zero fill, the copy starts past the end. *)
write_entry_no_fill(d, e, first, size, buf) ==
  [Idle EXCEPT !.pc = "walk", !.fd = d, !.ent = e, !.blk = first, !.buf = buf,
               !.kind = "write", !.off = fds[d].off, !.rem = Len(buf)]

(* Where fs_write goes once the file has a first block: to the zero fill when
   the offset lies past the end (another descriptor truncated the file), to
   the copy of the caller's bytes otherwise. *)
write_entry(d, e, first, size, buf) ==
  LET regs == [Idle EXCEPT !.pc = "walk", !.fd = d, !.ent = e, !.blk = first, !.buf = buf]
  IN IF fds[d].off > size
     THEN [regs EXCEPT !.kind = "extend", !.off = size, !.rem = fds[d].off - size]
     ELSE [regs EXCEPT !.kind = "write", !.off = fds[d].off, !.rem = Len(buf)]

fs_write(d, buf) ==
  LET e == fds[d].ent IN
  /\ op.pc = "idle" /\ mounted /\ fds[d].used
  /\ \/ /\ dir[e].first # FAT_EOF
        /\ op' = write_entry(d, e, dir[e].first, dir[e].size, buf)
        /\ UNCHANGED <<fat, dir, own, base>>
     \/ /\ dir[e].first = FAT_EOF
        /\ \E b \in Blocks :
             /\ allocate_free_block(b)
             /\ fat' = [fat EXCEPT ![b] = FAT_EOF]
             /\ dir' = [dir EXCEPT ![e].first = b, ![e].size = 0]
             /\ op' = write_entry(d, e, b, 0, buf)
             /\ own' = [own EXCEPT ![b] = e] /\ base' = [base EXCEPT ![b] = 0]
     \/ /\ dir[e].first = FAT_EOF /\ DiskFull
        /\ UNCHANGED <<fat, dir, op, own, base>>
  /\ reply' = NoReply
  /\ UNCHANGED <<mounted, active, fds, disk, data>>

(* The walk ended at FAT_EOF: the file needs a new last block.  The loops of
   fs.c:347-363 and 446-462, for an offset a block or more past the chain's
   end, have no action: ChainReachesOffset below says they are never entered. *)
write_grow ==
  /\ op.kind \in {"extend", "write"} /\ op.pc = "walk"
  /\ op.blk = FAT_EOF /\ op.off < BlockSize
  /\ \/ \E b \in Blocks :
          /\ allocate_free_block(b)
          /\ fat' = [fat EXCEPT ![b] = FAT_EOF]
          /\ op' = [op EXCEPT !.pc = "tail", !.blk = dir[op.ent].first, !.aux = b]
     \/ /\ DiskFull
        /\ op' = [op EXCEPT !.pc = "abort"]
        /\ UNCHANGED fat
  /\ UNCHANGED <<mounted, active, dir, fds, disk, data, reply, own, base>>

(* Look for the last block of the chain, then link the new one behind it. *)
write_tail ==
  /\ op.pc = "tail" /\ fat[op.blk] # FAT_EOF
  /\ op' = [op EXCEPT !.blk = fat[op.blk]]
  /\ UNCHANGED <<mounted, active, fat, dir, fds, disk, data, reply, own, base>>

(* Faulty variant: the new block is not linked. *)
write_link_forgotten ==
  /\ op.pc = "tail" /\ fat[op.blk] = FAT_EOF
  /\ own' = [own EXCEPT ![op.aux] = op.ent]
  /\ base' = [base EXCEPT ![op.aux] = base[op.blk] + BlockSize]
  /\ op' = [op EXCEPT !.pc = "chunk", !.blk = op.aux, !.aux = FAT_EOF]
  /\ UNCHANGED <<mounted, active, fat, dir, fds, disk, data, reply>>

write_link ==
  /\ op.pc = "tail" /\ fat[op.blk] = FAT_EOF
  /\ fat' = [fat EXCEPT ![op.blk] = op.aux]
  /\ own' = [own EXCEPT ![op.aux] = op.ent]
  /\ base' = [base EXCEPT ![op.aux] = base[op.blk] + BlockSize]
  /\ op' = [op EXCEPT !.pc = "chunk", !.blk = op.aux, !.aux = FAT_EOF]
  /\ UNCHANGED <<mounted, active, dir, fds, disk, data, reply>>

(* One iteration of the zero-fill loop or of the copy loop: read the block,
   patch it, write it back, and step to the next block, allocating it at the
   end of the chain. *)
write_chunk ==
  LET n       == Smaller(BlockSize - op.off, op.rem)
      content == IF op.kind = "extend" THEN Zeros(n) ELSE Slice(op.buf, op.cnt, n)
      done    == [op EXCEPT !.off = op.off + n, !.rem = op.rem - n, !.cnt = op.cnt + n]
      more    == op.off + n = BlockSize /\ op.rem - n > 0
  IN
  /\ op.kind \in {"extend", "write"} /\ op.pc = "chunk" /\ op.rem > 0
  /\ data' = [data EXCEPT ![op.blk] = Patched(data[op.blk], op.off, n, content)]
  /\ \/ /\ ~more
        /\ op' = done
        /\ UNCHANGED <<fat, own, base>>
     \/ /\ more /\ fat[op.blk] # FAT_EOF
        /\ op' = [done EXCEPT !.blk = fat[op.blk], !.off = 0]
        /\ UNCHANGED <<fat, own, base>>
     \/ /\ more /\ fat[op.blk] = FAT_EOF
        /\ \E b \in Blocks :
             /\ allocate_free_block(b)
             /\ fat' = [fat EXCEPT ![b] = FAT_EOF, ![op.blk] = b]
             /\ own' = [own EXCEPT ![b] = op.ent]
             /\ base' = [base EXCEPT ![b] = base[op.blk] + BlockSize]
             /\ op' = [done EXCEPT !.blk = b, !.off = 0]
     \/ /\ more /\ fat[op.blk] = FAT_EOF /\ DiskFull
        /\ op' = [done EXCEPT !.pc = "abort"]
        /\ UNCHANGED <<fat, own, base>>
  /\ UNCHANGED <<mounted, active, dir, fds, disk, reply>>

(* The gap is filled: the file now ends at the offset and the copy begins. *)
extend_done ==
  LET to == fds[op.fd].off IN
  /\ op.kind = "extend" /\ op.pc = "chunk" /\ op.rem = 0
  /\ dir' = [dir EXCEPT ![op.ent].size = to]
  /\ op' = [op EXCEPT !.kind = "write", !.pc = "walk", !.blk = dir[op.ent].first,
                      !.off = to, !.rem = Len(op.buf), !.cnt = 0]
  /\ UNCHANGED <<mounted, active, fat, fds, disk, data, reply, own, base>>

(* The ways fs_write returns: the offset and the file size absorb the bytes
   done so far, and the metadata is saved. *)
write_finish(from, result) ==
  LET to == from + op.cnt IN
  /\ fds' = [fds EXCEPT ![op.fd].off = to]
  /\ dir' = [dir EXCEPT ![op.ent].size = Larger(dir[op.ent].size, to)]
  /\ reply' = Return(result, <<>>)
  /\ op' = [op EXCEPT !.pc = "save"]
  /\ UNCHANGED <<mounted, active, fat, disk, data, own, base>>

(* No block left during the zero fill: the bytes zeroed are the return value. *)
extend_abort ==
  /\ op.kind = "extend" /\ op.pc = "abort"
  /\ write_finish(dir[op.ent].size, op.cnt)

write_return ==
  /\ op.kind = "write" /\ (op.pc = "abort" \/ (op.pc = "chunk" /\ op.rem = 0))
  /\ write_finish(fds[op.fd].off, op.cnt)

(* block_read or block_write of a data block failed. *)
extend_error ==
  /\ op.kind = "extend" /\ op.pc = "chunk" /\ op.rem > 0
  /\ write_finish(dir[op.ent].size, op.cnt)

write_error ==
  /\ op.kind = "write" /\ op.pc = "chunk" /\ op.rem > 0
  /\ write_finish(fds[op.fd].off, -1)
-----------------------------------------------------------------------------
(* fs_delete and fs_truncate *)

(* Faulty variants: an open file is deleted, or the chain is not freed. *)
fs_delete_open(name) ==
  /\ op.pc = "idle" /\ mounted
  /\ \E e \in Slots :
       /\ find_file_in_directory(e, name)
       /\ op' = [Idle EXCEPT !.kind = "delete", !.pc = "free", !.ent = e, !.blk = dir[e].first]
  /\ reply' = NoReply
  /\ UNCHANGED <<mounted, active, fat, dir, fds, disk, data, own, base>>
fs_delete_leaks(name) ==
  /\ op.pc = "idle" /\ mounted
  /\ \E e \in Slots :
       /\ find_file_in_directory(e, name)
       /\ \A d \in Fds : ~(fds[d].used /\ fds[d].ent = e)
       /\ op' = [Idle EXCEPT !.kind = "delete", !.pc = "free", !.ent = e]
  /\ reply' = NoReply
  /\ UNCHANGED <<mounted, active, fat, dir, fds, disk, data, own, base>>

fs_delete(name) ==
  /\ op.pc = "idle" /\ mounted
  /\ \E e \in Slots :
       /\ find_file_in_directory(e, name)
       /\ \A d \in Fds : ~(fds[d].used /\ fds[d].ent = e)
       /\ op' = [Idle EXCEPT !.kind = "delete", !.pc = "free", !.ent = e, !.blk = dir[e].first]
  /\ reply' = NoReply
  /\ UNCHANGED <<mounted, active, fat, dir, fds, disk, data, own, base>>

(* One iteration of free_block_chain. *)
free_block_chain ==
  /\ op.pc = "free" /\ op.blk \notin {FAT_EOF, FAT_FREE}
  /\ fat' = [fat EXCEPT ![op.blk] = FAT_FREE]
  /\ own' = [own EXCEPT ![op.blk] = NoSlot]
  /\ op' = [op EXCEPT !.blk = fat[op.blk]]
  /\ UNCHANGED <<mounted, active, dir, fds, disk, data, reply, base>>

(* Faulty variant: the directory entry is not cleared. *)
delete_return_keeps_entry ==
  /\ op.kind = "delete" /\ op.pc = "free" /\ op.blk \in {FAT_EOF, FAT_FREE}
  /\ op' = [op EXCEPT !.pc = "save"]
  /\ UNCHANGED <<mounted, active, fat, dir, fds, disk, data, reply, own, base>>

delete_return ==
  /\ op.kind = "delete" /\ op.pc = "free" /\ op.blk \in {FAT_EOF, FAT_FREE}
  /\ dir' = [dir EXCEPT ![op.ent] = EmptyEntry]
  /\ op' = [op EXCEPT !.pc = "save"]
  /\ UNCHANGED <<mounted, active, fat, fds, disk, data, reply, own, base>>

(* fs_truncate casts its 64-bit length to uint32_t before comparing it. *)
fs_truncate(d, length) ==
  LET e == fds[d].ent
      len == length % UintMod
  IN
  /\ op.pc = "idle" /\ mounted /\ fds[d].used
  /\ len <= dir[e].size
  /\ op' = [Idle EXCEPT !.kind = "truncate", !.pc = "cut", !.fd = d, !.ent = e,
                        !.blk = dir[e].first, !.rem = len]
  /\ reply' = NoReply
  /\ UNCHANGED <<mounted, active, fat, dir, fds, disk, data, own, base>>

(* The block that holds the byte after the new end is the last one kept. *)
truncate_walk ==
  /\ op.pc = "cut" /\ op.blk # FAT_EOF /\ op.off + BlockSize <= op.rem
  /\ op' = [op EXCEPT !.blk = fat[op.blk], !.off = op.off + BlockSize]
  /\ UNCHANGED <<mounted, active, fat, dir, fds, disk, data, reply, own, base>>

truncate_cut ==
  /\ op.pc = "cut" /\ op.blk # FAT_EOF /\ op.off + BlockSize > op.rem
  /\ op' = [op EXCEPT !.pc = "free", !.aux = op.blk, !.blk = fat[op.blk]]
  /\ UNCHANGED <<mounted, active, fat, dir, fds, disk, data, reply, own, base>>

(* Faulty variants: the call returns without saving, or the last block kept
   still leads to a freed one. *)
truncate_return_unsaved ==
  /\ op.kind = "truncate"
  /\ \/ /\ op.pc = "cut" /\ op.blk = FAT_EOF
        /\ UNCHANGED fat
     \/ /\ op.pc = "free" /\ op.blk \in {FAT_EOF, FAT_FREE}
        /\ fat' = [fat EXCEPT ![op.aux] = FAT_EOF]
  /\ dir' = [dir EXCEPT ![op.ent].size = op.rem]
  /\ fds' = [fds EXCEPT ![op.fd].off = Smaller(fds[op.fd].off, op.rem)]
  /\ op' = Idle
  /\ UNCHANGED <<mounted, active, disk, data, reply, own, base>>
truncate_return_dangling ==
  /\ op.kind = "truncate"
  /\ \/ op.pc = "cut" /\ op.blk = FAT_EOF
     \/ op.pc = "free" /\ op.blk \in {FAT_EOF, FAT_FREE}
  /\ dir' = [dir EXCEPT ![op.ent].size = op.rem]
  /\ fds' = [fds EXCEPT ![op.fd].off = Smaller(fds[op.fd].off, op.rem)]
  /\ op' = [op EXCEPT !.pc = "save"]
  /\ UNCHANGED <<mounted, active, fat, disk, data, reply, own, base>>

truncate_return ==
  /\ op.kind = "truncate"
  /\ \/ /\ op.pc = "cut" /\ op.blk = FAT_EOF
        /\ UNCHANGED fat
     \/ /\ op.pc = "free" /\ op.blk \in {FAT_EOF, FAT_FREE}
        /\ fat' = [fat EXCEPT ![op.aux] = FAT_EOF]
  /\ dir' = [dir EXCEPT ![op.ent].size = op.rem]
  /\ fds' = [fds EXCEPT ![op.fd].off = Smaller(fds[op.fd].off, op.rem)]
  /\ op' = [op EXCEPT !.pc = "save"]
  /\ UNCHANGED <<mounted, active, disk, data, reply, own, base>>
-----------------------------------------------------------------------------
(* The process dies: memory is lost, the disk file keeps what was written. *)
lose_memory ==
  /\ mounted
  /\ mounted' = FALSE /\ active' = FALSE
  /\ fat' = AllFree /\ dir' = EmptyDir /\ fds' = AllClosed
  /\ op' = Idle /\ reply' = NoReply
  /\ own' = NoOwner /\ base' = NoBase
  /\ UNCHANGED data

Crash ==
  /\ lose_memory
  /\ UNCHANGED disk
-----------------------------------------------------------------------------
Init ==
  /\ mounted = FALSE /\ active = FALSE
  /\ fat = AllFree /\ dir = EmptyDir /\ fds = AllClosed
  /\ disk = make_disk /\ data = ZeroData
  /\ op = Idle /\ reply = NoReply
  /\ own = NoOwner /\ base = NoBase

Buffers == UNION {[1 .. n -> Byte] : n \in 1 .. MaxNbyte}

(* What the caller of the library may do between two calls. *)
Call ==
  \/ make_fs \/ make_fs_open \/ umount_fs
  \/ \E name \in Names : fs_create(name) \/ fs_open(name) \/ fs_delete(name)
  \/ \E d \in Fds :
       \/ fs_close(d)
       \/ \E n \in 1 .. MaxNbyte : fs_read(d, n)
       \/ \E buf \in Buffers : fs_write(d, buf)
       \/ \E l \in 0 .. MaxLength : fs_lseek(d, l) \/ fs_truncate(d, l)

(* The steps of the call in progress. *)
Step ==
  \/ walk \/ walk_done
  \/ read_chunk \/ read_return \/ read_error
  \/ write_grow \/ write_tail \/ write_link \/ write_chunk
  \/ extend_done \/ extend_abort \/ extend_error
  \/ write_return \/ write_error
  \/ free_block_chain \/ delete_return
  \/ truncate_walk \/ truncate_cut \/ truncate_return
  \/ write_metadata_to_disk

(* No file on the disk uses a block whose FAT entry is beyond the saved part. *)
Covered == \A b \in Blocks \ SavedBlocks : disk.own[b] = NoSlot

(* A call returns before the next is made and, the caller being one process,
   runs on until it does.  A disk is mounted only when the saved part of the
   FAT covers its files. *)
Next      == Call \/ (Covered /\ mount_fs) \/ Step
Spec      == Init /\ [][Next]_vars /\ WF_vars(Step)

(* The same with a process that may die at any point outside the save. *)
CrashNext == Next \/ Crash
CrashSpec == Init /\ [][CrashNext]_vars

(* A disk is mounted whatever its files use. *)
AnyMountSpec == Init /\ [][Next \/ mount_fs]_vars
-----------------------------------------------------------------------------
(* Invariants *)

TypeOK ==
  /\ mounted \in BOOLEAN /\ active \in BOOLEAN
  /\ fat \in [Blocks -> FatValues]
  /\ dir \in [Slots -> Entry]
  /\ fds \in [Fds -> Fd]
  /\ disk \in Image
  /\ data \in [Blocks -> [0 .. BlockSize - 1 -> Byte]]
  /\ op \in Op
  /\ reply \in [val : Int, bytes : Seq(Byte)]
  /\ own \in [Blocks -> Slots \cup {NoSlot}]
  /\ base \in [Blocks -> Nat]

(* A chain is described by the auxiliary own and base: the entry e a block
   belongs to, and the offset in e's file of the block's first byte.  The
   predicates take the FAT f, directory d, owners o and offsets p, because
   they are asserted of the tables in memory and of the copy on disk; the
   last argument is what the call in progress has taken apart. *)

(* A file in the directory, unless it is being deleted, starts at its own block. *)
HeadsSound(d, o, p, deleted) ==
  \A e \in Slots \ deleted : d[e].used =>
    \/ d[e].first = FAT_EOF /\ d[e].size = 0 /\ \A b \in Blocks : o[b] # e
    \/ d[e].first \in Blocks /\ o[d[e].first] = e /\ p[d[e].first] = 0

(* A block of a file is not free, and leads to the file's next block. *)
LinksSound(f, d, o, p, cut) ==
  \A b \in Blocks : o[b] \in Slots =>
    /\ d[o[b]].used
    /\ f[b] # FAT_FREE
    /\ f[b] \in Blocks /\ b \notin cut => o[f[b]] = o[b] /\ p[f[b]] = p[b] + BlockSize

(* Two blocks of a file hold different parts of it. *)
SpacedApart(o, p) ==
  \A b, c \in Blocks :
    b # c /\ o[b] \in Slots /\ o[b] = o[c] => p[b] + BlockSize <= p[c] \/ p[c] + BlockSize <= p[b]

(* The block where a chain ends is its last one, and the file ends in it. *)
EndsSound(f, d, o, p) ==
  \A b \in Blocks : o[b] \in Slots /\ f[b] = FAT_EOF =>
    /\ d[o[b]].size <= p[b] + BlockSize
    /\ \A c \in Blocks : o[c] = o[b] => p[c] <= p[b]

(* A block of a file is its first or has a predecessor. *)
Linked(f, d, o, loose) ==
  \A b \in Blocks \ loose : o[b] \in Slots =>
    b = d[o[b]].first \/ \E c \in Blocks : o[c] = o[b] /\ f[c] = b

(* A block that is not free belongs to a file. *)
NoLeak(f, o, fresh) == \A b \in SavedBlocks \ fresh : f[b] # FAT_FREE => o[b] \in Slots

Deleted == IF op.kind = "delete" /\ op.pc = "free" THEN {op.ent} ELSE {}
CutAt   == IF op.kind = "truncate" /\ op.pc = "free" THEN {op.aux} ELSE {}
Loose   == IF op.pc = "free" THEN {op.blk} ELSE {}
Fresh   == IF op.pc = "tail" THEN {op.aux} ELSE {}

(* The chains in memory. *)
ChainsSound ==
  mounted =>
    /\ HeadsSound(dir, own, base, Deleted)
    /\ LinksSound(fat, dir, own, base, CutAt)
    /\ SpacedApart(own, base)
    /\ EndsSound(fat, dir, own, base)
    /\ Linked(fat, dir, own, Loose)
    /\ NoLeak(fat, own, Fresh)

(* The FAT on disk; the entries that were not saved count as free. *)
SavedFat == [b \in Blocks |-> IF b \in SavedBlocks THEN disk.fat[b] ELSE FAT_FREE]

(* The chains on disk, at any moment: a process that dies between two saves
   leaves files whose chains are whole. *)
DiskSound ==
  disk.magic /\ Covered =>
    /\ HeadsSound(disk.dir, disk.own, disk.base, {})
    /\ LinksSound(SavedFat, disk.dir, disk.own, disk.base, {})
    /\ SpacedApart(disk.own, disk.base)
    /\ EndsSound(SavedFat, disk.dir, disk.own, disk.base)
    /\ Linked(SavedFat, disk.dir, disk.own, {})
    /\ NoLeak(SavedFat, disk.own, {})

(* Open descriptors denote files in the directory, also during a call, and
   no descriptor denotes the file being deleted. *)
DescriptorsSound ==
  /\ active = mounted /\ (~mounted => op.pc = "idle")
  /\ mounted => \A d \in Fds : fds[d].used => dir[fds[d].ent].used /\ fds[d].ent \notin Deleted
  /\ op.kind \in {"read", "write", "extend", "truncate"} =>
       fds[op.fd].used /\ fds[op.fd].ent = op.ent

(* The file offset a walk looks for, and the registers of the call in progress. *)
Target  == IF op.kind = "extend" THEN dir[op.ent].size ELSE fds[op.fd].off
Here    == op.blk \in Blocks /\ own[op.blk] = op.ent /\ base[op.blk] + op.off = Target + op.cnt
EndHere == op.off = 0 /\ \E l \in Blocks : own[l] = op.ent /\ fat[l] = FAT_EOF
                                           /\ base[l] + BlockSize = Target

BytesSound ==
  op.pc \notin {"idle", "save"} =>
    /\ op.kind = "read" => Target + op.cnt + op.rem <= dir[op.ent].size
    /\ op.kind = "write" => Target <= dir[op.ent].size /\ op.cnt + op.rem = Len(op.buf)
    /\ op.kind = "extend" => Target + op.cnt + op.rem = fds[op.fd].off

WalkSound ==
  op.pc = "walk" =>
    /\ op.kind \in {"read", "write", "extend"} /\ op.cnt = 0
    /\ op.kind = "read" => Target < dir[op.ent].size
    /\ Here \/ (op.kind # "read" /\ op.blk = FAT_EOF /\ EndHere)

TailSound ==
  op.pc = "tail" =>
    /\ op.kind \in {"write", "extend"} /\ op.cnt = 0
    /\ op.aux \in Blocks /\ own[op.aux] = NoSlot /\ fat[op.aux] = FAT_EOF
    /\ op.blk \in Blocks /\ own[op.blk] = op.ent
    /\ EndHere

ChunkSound ==
  op.pc = "chunk" =>
    /\ op.kind \in {"read", "write", "extend"}
    /\ op.off <= BlockSize /\ (op.rem > 0 => op.off < BlockSize)
    /\ (op.kind = "read" /\ op.rem = 0) \/ Here

AbortSound ==
  op.pc = "abort" =>
    op.kind \in {"write", "extend"} /\ (op.cnt = 0 \/ (Here /\ op.off <= BlockSize))

CutSound ==
  op.pc = "cut" =>
    /\ op.kind = "truncate" /\ op.rem <= dir[op.ent].size
    /\ op.blk = FAT_EOF \/ (op.blk \in Blocks /\ own[op.blk] = op.ent /\ base[op.blk] = op.off)

FreeSound ==
  op.pc = "free" =>
    /\ op.blk = FAT_EOF \/ (op.blk \in Blocks /\ own[op.blk] = op.ent)
    /\ \/ /\ op.kind = "delete" /\ dir[op.ent].used
          /\ \A c \in Blocks : own[c] = op.ent => op.blk \in Blocks /\ base[op.blk] <= base[c]
       \/ /\ op.kind = "truncate"
          /\ op.aux \in Blocks /\ own[op.aux] = op.ent
          /\ op.rem <= dir[op.ent].size /\ op.rem <= base[op.aux] + BlockSize
          /\ op.blk \in Blocks => base[op.aux] + BlockSize <= base[op.blk]
          /\ fat[op.aux] \in Blocks \ {op.blk} => own[fat[op.aux]] = NoSlot
          /\ \A c \in Blocks : own[c] = op.ent =>
               base[c] <= base[op.aux] \/ (op.blk \in Blocks /\ base[op.blk] <= base[c])

RestSound ==
  /\ op.pc = "idle" => op.kind = "none"
  /\ op.pc = "save" => op.kind \notin {"none", "read"}

CallSound ==
  /\ BytesSound /\ WalkSound /\ TailSound /\ ChunkSound
  /\ AbortSound /\ CutSound /\ FreeSound /\ RestSound

(* The inductive invariant: TypeOK with the four parts above. *)
IndInv == TypeOK /\ ChainsSound /\ DiskSound /\ DescriptorsSound /\ CallSound
-----------------------------------------------------------------------------
(* Properties stated without the auxiliary variables *)

(* The n-th block on the way from b along the FAT f; the end repeats. *)
Chain(f, b) ==
  LET at[n \in 0 .. TotalBlocks] ==
        IF n = 0 THEN b ELSE IF at[n - 1] \in Blocks THEN f[at[n - 1]] ELSE at[n - 1]
  IN at
Reach(f, b) == {Chain(f, b)[n] : n \in 0 .. TotalBlocks} \cap Blocks
Used(d)     == {e \in Slots : d[e].used}

(* The file's chain ends, is long enough for its size, runs through blocks
   that are not free, and shares no block with another file's. *)
Whole(e, f, d) ==
  /\ Chain(f, d[e].first)[TotalBlocks] = FAT_EOF
  /\ d[e].size <= BlockSize * Cardinality(Reach(f, d[e].first))
  /\ \A g \in Used(d) \ {e} : Reach(f, d[e].first) \cap Reach(f, d[g].first) = {}

Consistent(f, d) == \A e \in Used(d) : Whole(e, f, d)

(* Between two calls the files in memory are whole: fs_write, fs_truncate,
   fs_delete and a remount neither break a chain nor give a block to two files. *)
FilesWhole == mounted /\ op.pc = "idle" => Consistent(fat, dir)

(* Between two calls no block is lost, and at most one lies past a file's end. *)
BlocksAccounted ==
  mounted /\ op.pc = "idle" =>
    /\ {b \in SavedBlocks : fat[b] # FAT_FREE}
         \subseteq UNION {Reach(fat, dir[e].first) : e \in Used(dir)}
    /\ \A e \in Used(dir) :
         BlockSize * (Cardinality(Reach(fat, dir[e].first)) - 1) <= dir[e].size

(* mount_fs after a crash finds whole files: what is on disk is consistent
   at every step outside write_metadata_to_disk. *)
RemountConsistent == disk.magic /\ Covered => Consistent(SavedFat, disk.dir)

(* A process that dies inside write_metadata_to_disk leaves a FAT that is new
   below some entry and a directory that is still the old one.  Only the file
   of the call that saves can be damaged by that: every call that changes a
   chain saves before it returns, so no other file's chain is out of date. *)
TornFat(k)       == [b \in Blocks |-> IF b \in SavedBlocks /\ b < k THEN fat[b] ELSE SavedFat[b]]
TornSaveHarmsOne ==
  op.pc = "save" /\ disk.magic /\ Covered =>
    \A k \in 0 .. FatSaved, e \in Used(disk.dir) :
      op.kind = "umount" \/ e # op.ent => Whole(e, TornFat(k), disk.dir)

(* The walk of fs_read and fs_write never runs off the chain before the block
   of the offset, so fs.c's loops that allocate blocks for such an offset
   (347-363 and 446-462) and fs_read's "Offset beyond EOF" are not reached. *)
ChainReachesOffset ==
  op.pc = "walk" /\ op.blk \notin Blocks => op.kind # "read" /\ op.off < BlockSize

(* find_file_in_directory is unambiguous: no two entries have one name. *)
NamesUnique ==
  \A e, g \in Used(dir) : dir[e].name = dir[g].name => e = g

(* While it is open a descriptor denotes one file: its entry is not freed and
   given to another name by fs_delete and fs_create. *)
DescriptorKeepsFile ==
  [][\A d \in Fds : mounted /\ mounted' /\ fds[d].used /\ fds'[d].used =>
       dir'[fds'[d].ent].name = dir[fds[d].ent].name]_vars

(* Every call returns, so that the library is at rest again and again: no loop
   over a chain runs forever. *)
CallsReturn == []<>(op.pc = "idle")
=============================================================================
