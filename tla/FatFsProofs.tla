----------------------------- MODULE FatFsProofs -----------------------------
(***************************************************************************)
(* Proofs that the file system keeps its chains, in memory and on disk,    *)
(* for every number of files, descriptors and blocks and every block size. *)
(***************************************************************************)
EXTENDS FatFs, SequenceTheorems, TLAPS

(* Block numbers are distinct from the two marks, slots from NoSlot. *)
LEMMA Marks ==
  /\ FAT_FREE \in Nat /\ FAT_EOF \in Nat /\ FAT_FREE # FAT_EOF
  /\ FAT_FREE \notin Blocks /\ FAT_EOF \notin Blocks
  /\ \A b \in Blocks : b \in Nat
  /\ NoSlot \notin Slots /\ 0 \in Slots /\ 0 \in Fds
  /\ BlockSize \in Nat /\ BlockSize > 0
BY SizesAssumption DEF FAT_FREE, FAT_EOF, Blocks, NoSlot, Slots, Fds

(* The values that Init, mount_fs and Crash give the tables have their types. *)
LEMMA Constants ==
  /\ AllFree \in [Blocks -> FatValues]
  /\ EmptyEntry \in Entry /\ EmptyDir \in [Slots -> Entry]
  /\ ClosedFd \in Fd /\ AllClosed \in [Fds -> Fd]
  /\ NoOwner \in [Blocks -> Slots \cup {NoSlot}] /\ NoBase \in [Blocks -> Nat]
  /\ ZeroData \in [Blocks -> [0 .. BlockSize - 1 -> Byte]]
  /\ Idle \in Op /\ NoReply \in [val : Int, bytes : Seq(Byte)]
  /\ SavedBlocks \subseteq Blocks
<1>1. /\ AllFree \in [Blocks -> FatValues]
      /\ ClosedFd \in Fd /\ AllClosed \in [Fds -> Fd]
      /\ NoOwner \in [Blocks -> Slots \cup {NoSlot}] /\ NoBase \in [Blocks -> Nat]
      /\ SavedBlocks \subseteq Blocks
  BY Marks DEF AllFree, FatValues, ClosedFd, AllClosed, Fd, NoOwner, NoBase, SavedBlocks
<1>2. EmptyEntry \in Entry /\ EmptyDir \in [Slots -> Entry]
  BY Marks DEF EmptyEntry, Entry, FatValues, EmptyDir
<1>3. ZeroData \in [Blocks -> [0 .. BlockSize - 1 -> Byte]]
  BY ValuesAssumption DEF ZeroData
<1>4. <<>> \in Seq(Byte)
  OBVIOUS
<1>5. Idle \in Op
  BY Marks, <1>4 DEF Idle, Op, Kinds, Pcs, FatValues
<1>6. NoReply \in [val : Int, bytes : Seq(Byte)]
  BY <1>4 DEF NoReply, Return
<1> QED BY <1>1, <1>2, <1>3, <1>5, <1>6

(* A saved copy of well-typed tables is an image. *)
LEMMA MetadataType ==
  ASSUME NEW f \in [Blocks -> FatValues], NEW d \in [Slots -> Entry],
         NEW o \in [Blocks -> Slots \cup {NoSlot}], NEW p \in [Blocks -> Nat]
  PROVE  Metadata(f, d, o, p) \in Image
BY Constants DEF Metadata, Image

LEMMA MakeDiskType == make_disk \in Image
<1> DEFINE M == Metadata(AllFree, EmptyDir, NoOwner, NoBase)
<1>1. M \in Image
  BY Constants, MetadataType
<1>2. make_disk = [M EXCEPT !.magic = FALSE]
  BY DEF make_disk
<1> QED BY <1>1, <1>2 DEF Image

LEMMA InitInd == Init => IndInv
<1> SUFFICES ASSUME Init PROVE IndInv
  OBVIOUS
<1> USE DEF Init
<1>1. TypeOK
  BY Constants, MakeDiskType DEF TypeOK
<1>2. ~mounted /\ op.pc = "idle" /\ op.kind = "none"
  BY DEF Idle
<1>3. ~disk.magic
  BY DEF make_disk, Metadata
<1>4. ChainsSound /\ DiskSound
  BY <1>2, <1>3 DEF ChainsSound, DiskSound
<1>5. DescriptorsSound
  BY <1>2 DEF DescriptorsSound
<1>6. CallSound
  BY <1>2 DEF CallSound, BytesSound, WalkSound, TailSound, ChunkSound, AbortSound, CutSound, FreeSound, RestSound
<1> QED BY <1>1, <1>4, <1>5, <1>6 DEF IndInv
-----------------------------------------------------------------------------
(* Facts about one state that the steps below cite *)

(* The fields of the records TypeOK types. *)
LEMMA Fields ==
  ASSUME TypeOK
  PROVE  /\ op.kind \in Kinds /\ op.pc \in Pcs /\ op.fd \in Fds /\ op.ent \in Slots
         /\ op.blk \in FatValues /\ op.aux \in FatValues
         /\ op.off \in Nat /\ op.rem \in Nat /\ op.cnt \in Nat /\ op.buf \in Seq(Byte)
         /\ \A e \in Slots : dir[e].used \in BOOLEAN /\ dir[e].size \in Nat
                             /\ dir[e].first \in FatValues
         /\ \A d \in Fds : fds[d].used \in BOOLEAN /\ fds[d].off \in Nat /\ fds[d].ent \in Slots
         /\ \A b \in Blocks : fat[b] \in FatValues /\ own[b] \in Slots \cup {NoSlot}
                              /\ base[b] \in Nat
<1>1. /\ op.kind \in Kinds /\ op.pc \in Pcs /\ op.fd \in Fds /\ op.ent \in Slots
      /\ op.blk \in FatValues /\ op.aux \in FatValues
      /\ op.off \in Nat /\ op.rem \in Nat /\ op.cnt \in Nat /\ op.buf \in Seq(Byte)
  BY DEF TypeOK, Op
<1>2. \A e \in Slots : dir[e].used \in BOOLEAN /\ dir[e].size \in Nat /\ dir[e].first \in FatValues
  BY DEF TypeOK, Entry
<1>3. \A d \in Fds : fds[d].used \in BOOLEAN /\ fds[d].off \in Nat /\ fds[d].ent \in Slots
  BY DEF TypeOK, Fd
<1>4. \A b \in Blocks : fat[b] \in FatValues /\ own[b] \in Slots \cup {NoSlot} /\ base[b] \in Nat
  BY DEF TypeOK
<1> QED BY <1>1, <1>2, <1>3, <1>4

(* A block of a chain leads to the end mark or to the next block. *)
LEMMA NextBlock ==
  ASSUME IndInv, mounted, NEW b \in Blocks, own[b] \in Slots, b \notin CutAt
  PROVE  \/ fat[b] = FAT_EOF /\ dir[own[b]].size <= base[b] + BlockSize
         \/ fat[b] \in Blocks /\ own[fat[b]] = own[b] /\ base[fat[b]] = base[b] + BlockSize
<1>1. fat[b] \in FatValues
  BY Fields DEF IndInv
<1>2. LinksSound(fat, dir, own, base, CutAt) /\ EndsSound(fat, dir, own, base)
  BY DEF IndInv, ChainsSound
<1>3. fat[b] # FAT_FREE
  BY <1>2 DEF LinksSound
<1>4. fat[b] = FAT_EOF \/ fat[b] \in Blocks
  BY <1>1, <1>3 DEF FatValues
<1> QED BY <1>2, <1>4 DEF LinksSound, EndsSound

(* A free block belongs to no file. *)
LEMMA FreeUnowned ==
  ASSUME IndInv, mounted, NEW b \in Blocks, fat[b] = FAT_FREE
  PROVE  own[b] = NoSlot
<1>1. own[b] \in Slots \cup {NoSlot}
  BY Fields DEF IndInv
<1>2. LinksSound(fat, dir, own, base, CutAt)
  BY DEF IndInv, ChainsSound
<1> QED BY <1>1, <1>2 DEF LinksSound

(* Nothing changes in the chains when only registers do. *)
LEMMA ChainsFrame ==
  ASSUME ChainsSound, mounted' => mounted, UNCHANGED <<fat, dir, own, base>>,
         Deleted \subseteq Deleted', CutAt \subseteq CutAt', Loose \subseteq Loose',
         Fresh \subseteq Fresh'
  PROVE  ChainsSound'
<1> SUFFICES ASSUME mounted' PROVE ChainsSound'
  BY DEF ChainsSound
<1>1. HeadsSound(dir, own, base, Deleted)'
  BY DEF ChainsSound, HeadsSound
<1>2. LinksSound(fat, dir, own, base, CutAt)'
  BY DEF ChainsSound, LinksSound
<1>3. SpacedApart(own, base)' /\ EndsSound(fat, dir, own, base)'
  BY DEF ChainsSound, SpacedApart, EndsSound
<1>4. Linked(fat, dir, own, Loose)'
  BY DEF ChainsSound, Linked
<1>5. NoLeak(fat, own, Fresh)'
  BY DEF ChainsSound, NoLeak
<1> QED BY <1>1, <1>2, <1>3, <1>4, <1>5 DEF ChainsSound

(* The saved copy changes only when it is written. *)
LEMMA DiskFrame ==
  ASSUME DiskSound, UNCHANGED disk
  PROVE  DiskSound'
BY DEF DiskSound, SavedFat, Covered, HeadsSound, LinksSound, SpacedApart, EndsSound, Linked, NoLeak

(* A walk stays within the file. *)
LEMMA WalkTarget ==
  ASSUME IndInv, op.pc = "walk"
  PROVE  /\ mounted /\ Target \in Nat /\ Target <= dir[op.ent].size
         /\ op.kind \in {"read", "write", "extend"}
         /\ op.blk # FAT_EOF => Here
         /\ op.blk = FAT_EOF => op.kind # "read" /\ EndHere
         /\ Deleted = {} /\ CutAt = {} /\ Loose = {} /\ Fresh = {}
<1> USE DEF IndInv
<1>1. mounted
  BY DEF DescriptorsSound
<1>2. WalkSound /\ BytesSound
  BY DEF CallSound
<1>3. op.kind \in {"read", "write", "extend"}
  BY <1>2 DEF WalkSound
<1>4. Target \in Nat /\ Target <= dir[op.ent].size
  BY <1>2, <1>3, Fields DEF Target, BytesSound, WalkSound
<1>5. Here => op.blk # FAT_EOF
  BY Marks DEF Here
<1>6. Deleted = {} /\ CutAt = {} /\ Loose = {} /\ Fresh = {}
  BY DEF Deleted, CutAt, Loose, Fresh
<1> QED BY <1>1, <1>2, <1>3, <1>4, <1>5, <1>6 DEF WalkSound
(* Outside the loops that take a chain apart every chain is whole. *)
LEMMA AtRest ==
  ASSUME op.pc \notin {"free", "tail"}
  PROVE  Deleted = {} /\ CutAt = {} /\ Loose = {} /\ Fresh = {}
BY DEF Deleted, CutAt, Loose, Fresh

LEMMA AtRestPrimed ==
  ASSUME op'.pc \notin {"free", "tail"}
  PROVE  Deleted' = {} /\ CutAt' = {} /\ Loose' = {} /\ Fresh' = {}
BY DEF Deleted, CutAt, Loose, Fresh

LEMMA Quiet ==
  ASSUME IndInv, op.pc \notin {"free", "tail"},
         UNCHANGED <<mounted, fat, dir, disk, own, base>>
  PROVE  ChainsSound' /\ DiskSound'
BY AtRest, ChainsFrame, DiskFrame DEF IndInv

(* A call that has returned, or has only the save before it, uses no register. *)
LEMMA ToIdle ==
  ASSUME op' = Idle
  PROVE  /\ CallSound' /\ op' \in Op /\ op'.pc = "idle" /\ op'.kind = "none"
         /\ Deleted' = {} /\ CutAt' = {} /\ Loose' = {} /\ Fresh' = {}
<1>1. op'.pc = "idle" /\ op'.kind = "none"
  BY DEF Idle
<1>2. CallSound'
  BY <1>1 DEF CallSound, BytesSound, WalkSound, TailSound, ChunkSound, AbortSound, CutSound,
              FreeSound, RestSound
<1> QED BY <1>1, <1>2, Constants, AtRestPrimed

LEMMA ToSave ==
  ASSUME op'.pc = "save", op'.kind \notin {"none", "read"}
  PROVE  /\ CallSound'
         /\ Deleted' = {} /\ CutAt' = {} /\ Loose' = {} /\ Fresh' = {}
<1>1. CallSound'
  BY DEF CallSound, BytesSound, WalkSound, TailSound, ChunkSound, AbortSound, CutSound,
         FreeSound, RestSound
<1> QED BY <1>1, AtRestPrimed

(* Between two calls. *)
LEMMA IdleNow ==
  ASSUME IndInv, op.pc = "idle"
  PROVE  op.kind = "none" /\ Deleted = {} /\ CutAt = {} /\ Loose = {} /\ Fresh = {}
BY AtRest DEF IndInv, CallSound, RestSound

LEMMA IdleStays ==
  ASSUME IndInv, op.pc = "idle", UNCHANGED op
  PROVE  /\ CallSound' /\ op'.kind = "none" /\ op'.pc = "idle"
         /\ Deleted' = {} /\ CutAt' = {} /\ Loose' = {} /\ Fresh' = {}
<1>1. op'.pc = "idle" /\ op'.kind = "none"
  BY IdleNow
<1>2. CallSound'
  BY <1>1 DEF CallSound, BytesSound, WalkSound, TailSound, ChunkSound, AbortSound, CutSound,
              FreeSound, RestSound
<1> QED BY <1>1, <1>2, AtRestPrimed
-----------------------------------------------------------------------------
(* The walk *)

LEMMA WalkInd ==
  ASSUME IndInv, walk
  PROVE  IndInv'
<1> USE DEF IndInv
<1> DEFINE nxt == fat[op.blk]
           rest == op.off - BlockSize
<1>1. /\ op.pc = "walk" /\ op.blk # FAT_EOF
      /\ op' = [op EXCEPT !.blk = nxt, !.off = rest]
      /\ UNCHANGED <<mounted, active, fat, dir, fds, disk, data, reply, own, base>>
  BY DEF walk
<1>2. /\ mounted /\ Target \in Nat /\ Target <= dir[op.ent].size
      /\ op.kind \in {"read", "write", "extend"}
      /\ Deleted = {} /\ CutAt = {} /\ Loose = {} /\ Fresh = {}
  BY <1>1, WalkTarget
<1>3. Here
  BY <1>1, WalkTarget
<1>4. op.cnt = 0 /\ BytesSound
  BY <1>1 DEF CallSound, WalkSound
<1>5. op.blk \in Blocks /\ own[op.blk] = op.ent /\ base[op.blk] + op.off = Target
      /\ base[op.blk] \in Nat /\ dir[op.ent].size \in Nat
      /\ op.off \in Nat /\ op.rem \in Nat /\ op.ent \in Slots /\ op.fd \in Fds
  BY <1>2, <1>3, <1>4, Fields, Marks DEF Here
<1>6. nxt \in FatValues /\ rest \in Nat
  BY <1>1, <1>5, Fields, Marks DEF walk
<1>7. \/ nxt = FAT_EOF /\ dir[op.ent].size <= base[op.blk] + BlockSize
      \/ nxt \in Blocks /\ own[nxt] = op.ent /\ base[nxt] = base[op.blk] + BlockSize
  BY <1>2, <1>5, NextBlock
<1>8. op'.pc = "walk" /\ op'.kind = op.kind /\ op'.ent = op.ent /\ op'.fd = op.fd
      /\ op'.blk = nxt /\ op'.off = rest /\ op'.cnt = op.cnt /\ op'.rem = op.rem
      /\ op'.buf = op.buf
  BY <1>1 DEF TypeOK, Op
<1>9. Target' = Target
  BY <1>1, <1>8 DEF Target
<1>10. op' \in Op
  BY <1>1, <1>6 DEF TypeOK, Op
<1>11. TypeOK'
  BY <1>1, <1>10 DEF TypeOK
<1>12. Deleted' = {} /\ CutAt' = {} /\ Loose' = {} /\ Fresh' = {}
  BY <1>8 DEF Deleted, CutAt, Loose, Fresh
<1>13. ChainsSound'
  BY <1>1, <1>2, <1>12, ChainsFrame
<1>14. DiskSound'
  BY <1>1, DiskFrame
<1>15. DescriptorsSound'
  BY <1>1, <1>2, <1>8, <1>12 DEF DescriptorsSound
<1>16. BytesSound'
  BY <1>1, <1>4, <1>8, <1>9 DEF BytesSound
<1>17. op.kind = "read" => Target < dir[op.ent].size
  BY <1>1 DEF CallSound, WalkSound
<1>18. nxt \in Blocks => Here'
  BY <1>1, <1>4, <1>5, <1>6, <1>7, <1>8, <1>9, Marks DEF Here
<1>19. nxt = FAT_EOF => op.kind # "read" /\ rest = 0 /\ base[op.blk] + BlockSize = Target
  BY <1>1, <1>2, <1>5, <1>6, <1>7, <1>17, Marks
<1>20. nxt = FAT_EOF => EndHere'
  BY <1>1, <1>5, <1>8, <1>9, <1>19 DEF EndHere
<1>21. WalkSound'
  BY <1>1, <1>2, <1>4, <1>7, <1>8, <1>9, <1>17, <1>18, <1>19, <1>20 DEF WalkSound
<1>22. CallSound'
  BY <1>8, <1>16, <1>21
  DEF CallSound, TailSound, ChunkSound, AbortSound, CutSound, FreeSound, RestSound
<1> QED BY <1>11, <1>13, <1>14, <1>15, <1>22

LEMMA WalkDoneInd ==
  ASSUME IndInv, walk_done
  PROVE  IndInv'
<1> USE DEF IndInv
<1>1. /\ op.pc = "walk" /\ op.blk # FAT_EOF /\ op.off < BlockSize
      /\ op' = [op EXCEPT !.pc = "chunk"]
      /\ UNCHANGED <<mounted, active, fat, dir, fds, disk, data, reply, own, base>>
  BY DEF walk_done
<1>2. /\ mounted /\ op.kind \in {"read", "write", "extend"} /\ Here
      /\ Deleted = {} /\ CutAt = {} /\ Loose = {} /\ Fresh = {}
  BY <1>1, WalkTarget
<1>3. op'.pc = "chunk" /\ op'.kind = op.kind /\ op'.ent = op.ent /\ op'.fd = op.fd
      /\ op'.blk = op.blk /\ op'.off = op.off /\ op'.cnt = op.cnt /\ op'.rem = op.rem
      /\ op'.buf = op.buf
  BY <1>1 DEF TypeOK, Op
<1>4. op' \in Op
  BY <1>1 DEF TypeOK, Op, Pcs
<1>5. TypeOK'
  BY <1>1, <1>4 DEF TypeOK
<1>6. Deleted' = {} /\ CutAt' = {} /\ Loose' = {} /\ Fresh' = {}
  BY <1>3 DEF Deleted, CutAt, Loose, Fresh
<1>7. ChainsSound' /\ DiskSound'
  BY <1>1, <1>2, <1>6, ChainsFrame, DiskFrame
<1>8. DescriptorsSound'
  BY <1>1, <1>2, <1>3, <1>6 DEF DescriptorsSound
<1>9. Target' = Target
  BY <1>1, <1>3 DEF Target
<1>10. BytesSound'
  BY <1>1, <1>3, <1>9 DEF BytesSound, CallSound
<1>11. Here'
  BY <1>1, <1>2, <1>3, <1>9 DEF Here
<1>12. op.off <= BlockSize
  BY <1>1, Fields, Marks
<1>13. ChunkSound'
  BY <1>1, <1>2, <1>3, <1>11, <1>12 DEF ChunkSound
<1>14. CallSound'
  BY <1>3, <1>10, <1>13
  DEF CallSound, WalkSound, TailSound, AbortSound, CutSound, FreeSound, RestSound
<1> QED BY <1>5, <1>7, <1>8, <1>14
-----------------------------------------------------------------------------
(* make_fs, mount_fs, umount_fs *)

LEMMA EmptyImageSound ==
  ASSUME disk' = Metadata(AllFree, EmptyDir, NoOwner, NoBase)
  PROVE  DiskSound'
<1>1. disk'.dir = EmptyDir /\ disk'.own = NoOwner /\ disk'.base = NoBase
      /\ disk'.fat = [b \in SavedBlocks |-> AllFree[b]]
  BY DEF Metadata
<1>2. \A b \in Blocks : SavedFat'[b] = FAT_FREE
  BY <1>1, Constants DEF SavedFat, AllFree
<1>3. \A e \in Slots : ~disk'.dir[e].used
  BY <1>1 DEF EmptyDir, EmptyEntry
<1>4. \A b \in Blocks : disk'.own[b] \notin Slots
  BY <1>1, Marks DEF NoOwner
<1>5. HeadsSound(disk.dir, disk.own, disk.base, {})'
  BY <1>3 DEF HeadsSound
<1>6. /\ LinksSound(SavedFat, disk.dir, disk.own, disk.base, {})'
      /\ SpacedApart(disk.own, disk.base)'
      /\ EndsSound(SavedFat, disk.dir, disk.own, disk.base)'
      /\ Linked(SavedFat, disk.dir, disk.own, {})'
  BY <1>4 DEF LinksSound, SpacedApart, EndsSound, Linked
<1>7. NoLeak(SavedFat, disk.own, {})'
  BY <1>2, Constants DEF NoLeak
<1> QED BY <1>5, <1>6, <1>7 DEF DiskSound

LEMMA MakeFsInd ==
  ASSUME IndInv, make_fs \/ make_fs_open
  PROVE  IndInv'
<1> USE DEF IndInv
<1>1. op.pc = "idle" /\ UNCHANGED <<mounted, active, fat, fds, op>> /\ data' = ZeroData
  BY DEF make_fs, make_fs_open
<1>2. CallSound' /\ op'.kind = "none" /\ op'.pc = "idle" /\ Deleted' = {}
  BY <1>1, IdleStays
<1>3. CASE make_fs
  <2>1. ~mounted /\ ~mounted'
    BY <1>1, <1>3 DEF make_fs, DescriptorsSound
  <2>2. disk' \in Image
    BY <1>3, Constants, MetadataType DEF make_fs
  <2>3. reply' = NoReply /\ dir' = EmptyDir /\ own' = NoOwner /\ base' = NoBase
    BY <1>3 DEF make_fs
  <2>4. TypeOK'
    BY <1>1, <2>2, <2>3, Constants DEF TypeOK
  <2>5. ChainsSound'
    BY <2>1 DEF ChainsSound
  <2>6. DiskSound'
    BY <1>3, EmptyImageSound DEF make_fs
  <2>7. DescriptorsSound'
    BY <1>1, <1>2, <2>1 DEF DescriptorsSound
  <2> QED BY <1>2, <2>4, <2>5, <2>6, <2>7
<1>4. CASE make_fs_open
  <2>1. disk' = make_disk /\ UNCHANGED <<dir, own, base>> /\ reply' = Return(-1, <<>>)
    BY <1>4 DEF make_fs_open
  <2>2. ~disk'.magic
    BY <2>1 DEF make_disk, Metadata
  <2>3. reply' \in [val : Int, bytes : Seq(Byte)]
    BY <2>1 DEF Return
  <2>4. TypeOK'
    BY <1>1, <2>1, <2>3, MakeDiskType, Constants DEF TypeOK
  <2>5. Deleted = {} /\ CutAt = {} /\ Loose = {} /\ Fresh = {}
    BY <1>1, IdleNow
  <2>6. ChainsSound'
    BY <1>1, <2>1, <2>5, ChainsFrame
  <2>7. DiskSound'
    BY <2>2 DEF DiskSound
  <2>8. DescriptorsSound'
    BY <1>1, <1>2, <2>1, <2>5 DEF DescriptorsSound
  <2> QED BY <1>2, <2>4, <2>6, <2>7, <2>8
<1> QED BY <1>3, <1>4

LEMMA MountInd ==
  ASSUME IndInv, Covered, mount_fs
  PROVE  IndInv'
<1> USE DEF IndInv
<1>1. /\ op.pc = "idle" /\ disk.magic
      /\ dir' = disk.dir /\ own' = disk.own /\ base' = disk.base /\ fds' = AllClosed
      /\ mounted' = TRUE /\ active' = TRUE /\ reply' = NoReply
      /\ UNCHANGED <<disk, data, op>>
  BY DEF mount_fs
<1>2. PICK heap \in [Blocks \ SavedBlocks -> Garbage] :
        fat' = [b \in Blocks |-> IF b \in SavedBlocks THEN disk.fat[b] ELSE heap[b]]
  BY DEF mount_fs
<1>3. CallSound' /\ op'.kind = "none" /\ op'.pc = "idle" /\ Deleted' = {} /\ CutAt' = {}
      /\ Loose' = {} /\ Fresh' = {}
  BY <1>1, IdleStays
<1>4. /\ disk.fat \in [SavedBlocks -> FatValues] /\ disk.dir \in [Slots -> Entry]
      /\ disk.own \in [Blocks -> Slots \cup {NoSlot}] /\ disk.base \in [Blocks -> Nat]
  BY DEF TypeOK, Image
<1>5. fat' \in [Blocks -> FatValues]
  BY <1>2, <1>4, ValuesAssumption
<1>6. TypeOK'
  BY <1>1, <1>4, <1>5, Constants DEF TypeOK
<1>7. \A b \in Blocks : disk.own[b] \in Slots => fat'[b] = SavedFat[b]
  BY <1>2, Marks DEF Covered, SavedFat
<1>8. \A b \in SavedBlocks : fat'[b] = SavedFat[b]
  BY <1>2, Constants DEF SavedFat
<1>9. HeadsSound(dir, own, base, Deleted)' /\ SpacedApart(own, base)'
  BY <1>1, <1>3 DEF DiskSound, HeadsSound, SpacedApart
<1>10. LinksSound(fat, dir, own, base, CutAt)'
  BY <1>1, <1>3, <1>7 DEF DiskSound, LinksSound
<1>11. EndsSound(fat, dir, own, base)'
  BY <1>1, <1>7 DEF DiskSound, EndsSound
<1>12. Linked(fat, dir, own, Loose)'
  BY <1>1, <1>3, <1>7 DEF DiskSound, Linked
<1>13. NoLeak(fat, own, Fresh)'
  BY <1>1, <1>3, <1>8 DEF DiskSound, NoLeak
<1>14. ChainsSound'
  BY <1>9, <1>10, <1>11, <1>12, <1>13 DEF ChainsSound
<1>15. DiskSound'
  BY <1>1, DiskFrame
<1>16. \A d \in Fds : ~fds'[d].used
  BY <1>1 DEF AllClosed, ClosedFd
<1>17. DescriptorsSound'
  BY <1>1, <1>3, <1>16 DEF DescriptorsSound
<1> QED BY <1>3, <1>6, <1>14, <1>15, <1>17

LEMMA UmountInd ==
  ASSUME IndInv, umount_fs
  PROVE  IndInv'
<1> USE DEF IndInv
<1>1. /\ op.pc = "idle" /\ mounted /\ reply' = NoReply
      /\ op' = [Idle EXCEPT !.kind = "umount", !.pc = "save"]
      /\ UNCHANGED <<mounted, active, fat, dir, fds, disk, data, own, base>>
  BY DEF umount_fs
<1>2. op' \in Op /\ op'.pc = "save" /\ op'.kind = "umount"
  BY <1>1, Constants DEF Op, Kinds, Pcs
<1>3. CallSound' /\ Deleted' = {}
  BY <1>2, ToSave
<1>4. TypeOK'
  BY <1>1, <1>2, Constants DEF TypeOK
<1>5. ChainsSound' /\ DiskSound'
  BY <1>1, Quiet
<1>6. DescriptorsSound'
  BY <1>1, <1>2, <1>3 DEF DescriptorsSound
<1> QED BY <1>3, <1>4, <1>5, <1>6

LEMMA SaveInd ==
  ASSUME IndInv, write_metadata_to_disk
  PROVE  IndInv'
<1> USE DEF IndInv
<1>1. /\ op.pc = "save" /\ op' = Idle /\ disk' = Metadata(fat, dir, own, base)
      /\ UNCHANGED <<dir, fds, data, reply, own, base>>
  BY DEF write_metadata_to_disk
<1>2. mounted /\ Deleted = {} /\ CutAt = {} /\ Loose = {} /\ Fresh = {}
  BY <1>1, AtRest DEF DescriptorsSound
<1>3. /\ mounted' \in BOOLEAN /\ active' = mounted'
      /\ fat' = IF mounted' THEN fat ELSE AllFree
  BY DEF write_metadata_to_disk
<1>4. /\ CallSound' /\ op' \in Op /\ op'.pc = "idle" /\ op'.kind = "none"
      /\ Deleted' = {} /\ CutAt' = {} /\ Loose' = {} /\ Fresh' = {}
  BY <1>1, ToIdle
<1>5. fat' \in [Blocks -> FatValues]
  BY <1>3, Constants DEF TypeOK
<1>6. disk' \in Image
  BY <1>1, MetadataType DEF TypeOK
<1>7. TypeOK'
  BY <1>1, <1>3, <1>4, <1>5, <1>6 DEF TypeOK
<1>8. mounted' => ChainsSound'
  BY <1>1, <1>2, <1>3, <1>4, ChainsFrame
<1>9. ChainsSound'
  BY <1>8 DEF ChainsSound
<1>10. DescriptorsSound'
  BY <1>1, <1>2, <1>3, <1>4 DEF DescriptorsSound
<1>11. ASSUME Covered' PROVE DiskSound'
  <2>1. disk'.dir = dir /\ disk'.own = own /\ disk'.base = base
        /\ disk'.fat = [b \in SavedBlocks |-> fat[b]]
    BY <1>1 DEF Metadata
  <2>2. \A b \in Blocks : own[b] \in Slots => SavedFat'[b] = fat[b]
    BY <1>11, <2>1, Marks DEF Covered, SavedFat
  <2>3. \A b \in SavedBlocks : SavedFat'[b] = fat[b]
    BY <2>1, Constants DEF SavedFat
  <2>4. HeadsSound(disk.dir, disk.own, disk.base, {})' /\ SpacedApart(disk.own, disk.base)'
    BY <1>2, <2>1 DEF ChainsSound, HeadsSound, SpacedApart
  <2>5. LinksSound(SavedFat, disk.dir, disk.own, disk.base, {})'
    BY <1>2, <2>1, <2>2 DEF ChainsSound, LinksSound
  <2>6. EndsSound(SavedFat, disk.dir, disk.own, disk.base)'
    BY <1>2, <2>1, <2>2 DEF ChainsSound, EndsSound
  <2>7. Linked(SavedFat, disk.dir, disk.own, {})'
    BY <1>2, <2>1, <2>2 DEF ChainsSound, Linked
  <2>8. NoLeak(SavedFat, disk.own, {})'
    BY <1>2, <2>1, <2>3 DEF ChainsSound, NoLeak
  <2> QED BY <2>4, <2>5, <2>6, <2>7, <2>8 DEF DiskSound
<1>12. DiskSound'
  BY <1>11 DEF DiskSound
<1> QED BY <1>4, <1>7, <1>9, <1>10, <1>12
-----------------------------------------------------------------------------
(* Calls without loops, and the crash *)

LEMMA CreateInd ==
  ASSUME IndInv, NEW name \in Names, fs_create(name)
  PROVE  IndInv'
<1> USE DEF IndInv
<1>1. /\ op.pc = "idle" /\ mounted /\ reply' = NoReply
      /\ UNCHANGED <<mounted, active, fat, fds, disk, data, op, own, base>>
  BY DEF fs_create
<1> DEFINE new == [used |-> TRUE, name |-> name, size |-> 0, first |-> FAT_EOF]
<1>2. PICK i \in Slots : ~dir[i].used /\ dir' = [dir EXCEPT ![i] = new]
  BY DEF fs_create, find_free_directory_entry, IsLeast
<1>3. CallSound' /\ op'.kind = "none" /\ op'.pc = "idle" /\ Deleted' = {} /\ CutAt' = {}
      /\ Loose' = {} /\ Fresh' = {}
  BY <1>1, IdleStays
<1>4. op.kind = "none" /\ Deleted = {} /\ CutAt = {} /\ Loose = {} /\ Fresh = {}
  BY <1>1, IdleNow
<1>5. new \in Entry
  BY Marks DEF Entry, FatValues
<1>6. dir' \in [Slots -> Entry]
  BY <1>2, <1>5 DEF TypeOK
<1>7. TypeOK'
  BY <1>1, <1>6, Constants DEF TypeOK
<1>8. dir'[i] = new /\ \A e \in Slots : e # i => dir'[e] = dir[e]
  BY <1>2 DEF TypeOK
<1>9. \A b \in Blocks : own[b] # i
  BY <1>1, <1>2, <1>4 DEF ChainsSound, LinksSound
<1>10. HeadsSound(dir, own, base, Deleted)'
  BY <1>1, <1>3, <1>4, <1>8, <1>9 DEF ChainsSound, HeadsSound
<1>11. LinksSound(fat, dir, own, base, CutAt)'
  BY <1>1, <1>3, <1>4, <1>8, <1>9 DEF ChainsSound, LinksSound
<1>12. SpacedApart(own, base)' /\ EndsSound(fat, dir, own, base)'
  BY <1>1, <1>8, <1>9 DEF ChainsSound, SpacedApart, EndsSound
<1>13. Linked(fat, dir, own, Loose)'
  BY <1>1, <1>3, <1>4, <1>8, <1>9 DEF ChainsSound, Linked
<1>14. NoLeak(fat, own, Fresh)'
  BY <1>1, <1>3, <1>4 DEF ChainsSound, NoLeak
<1>15. ChainsSound'
  BY <1>10, <1>11, <1>12, <1>13, <1>14 DEF ChainsSound
<1>16. DiskSound'
  BY <1>1, DiskFrame
<1>17. DescriptorsSound'
  BY <1>1, <1>3, <1>8, Fields DEF DescriptorsSound
<1> QED BY <1>3, <1>7, <1>15, <1>16, <1>17

LEMMA OpenInd ==
  ASSUME IndInv, NEW name \in Names, fs_open(name)
  PROVE  IndInv'
<1> USE DEF IndInv
<1>1. /\ op.pc = "idle" /\ mounted
      /\ UNCHANGED <<mounted, active, fat, dir, disk, data, op, own, base>>
  BY DEF fs_open
<1>2. PICK i \in Slots, d \in Fds :
        /\ dir[i].used
        /\ fds' = [fds EXCEPT ![d] = [used |-> TRUE, ent |-> i, off |-> 0]]
        /\ reply' = Return(d, <<>>)
  BY DEF fs_open, find_file_in_directory, IsLeast
<1>3. CallSound' /\ op'.kind = "none" /\ op'.pc = "idle" /\ Deleted' = {}
  BY <1>1, IdleStays
<1>4. Deleted = {}
  BY <1>1, IdleNow
<1>5. reply' \in [val : Int, bytes : Seq(Byte)]
  BY <1>2 DEF Return, Fds
<1>6. fds' \in [Fds -> Fd]
  BY <1>2 DEF TypeOK, Fd
<1>7. TypeOK'
  BY <1>1, <1>5, <1>6 DEF TypeOK
<1>8. ChainsSound' /\ DiskSound'
  BY <1>1, Quiet
<1>9. \A c \in Fds : fds'[c].used => dir[fds'[c].ent].used
  BY <1>1, <1>2 DEF TypeOK, DescriptorsSound
<1>10. DescriptorsSound'
  BY <1>1, <1>3, <1>9 DEF DescriptorsSound
<1> QED BY <1>3, <1>7, <1>8, <1>10

LEMMA CloseInd ==
  ASSUME IndInv, NEW d \in Fds, fs_close(d)
  PROVE  IndInv'
<1> USE DEF IndInv
<1>1. /\ op.pc = "idle" /\ fds' = [fds EXCEPT ![d] = ClosedFd] /\ reply' = NoReply
      /\ UNCHANGED <<mounted, active, fat, dir, disk, data, op, own, base>>
  BY DEF fs_close
<1>2. CallSound' /\ op'.kind = "none" /\ op'.pc = "idle" /\ Deleted' = {}
  BY <1>1, IdleStays
<1>3. fds' \in [Fds -> Fd]
  BY <1>1, Constants DEF TypeOK
<1>4. TypeOK'
  BY <1>1, <1>3, Constants DEF TypeOK
<1>5. ChainsSound' /\ DiskSound'
  BY <1>1, Quiet
<1>6. \A c \in Fds : fds'[c].used => fds'[c] = fds[c]
  BY <1>1 DEF TypeOK, ClosedFd
<1>7. DescriptorsSound'
  BY <1>1, <1>2, <1>6 DEF DescriptorsSound
<1> QED BY <1>2, <1>4, <1>5, <1>7

LEMMA SeekInd ==
  ASSUME IndInv, NEW d \in Fds, NEW offset \in Nat, fs_lseek(d, offset)
  PROVE  IndInv'
<1> USE DEF IndInv
<1>1. /\ op.pc = "idle" /\ fds' = [fds EXCEPT ![d].off = offset] /\ reply' = NoReply
      /\ UNCHANGED <<mounted, active, fat, dir, disk, data, op, own, base>>
  BY DEF fs_lseek
<1>2. CallSound' /\ op'.kind = "none" /\ op'.pc = "idle" /\ Deleted' = {}
  BY <1>1, IdleStays
<1>3. fds' \in [Fds -> Fd]
  BY <1>1 DEF TypeOK, Fd
<1>4. TypeOK'
  BY <1>1, <1>3, Constants DEF TypeOK
<1>5. ChainsSound' /\ DiskSound'
  BY <1>1, Quiet
<1>6. \A c \in Fds : fds'[c].used = fds[c].used /\ fds'[c].ent = fds[c].ent
  BY <1>1 DEF TypeOK, Fd
<1>7. DescriptorsSound'
  BY <1>1, <1>2, <1>6 DEF DescriptorsSound
<1> QED BY <1>2, <1>4, <1>5, <1>7

LEMMA CrashInd ==
  ASSUME IndInv, Crash
  PROVE  IndInv'
<1> USE DEF IndInv
<1>1. /\ mounted' = FALSE /\ active' = FALSE /\ op' = Idle /\ reply' = NoReply
      /\ fat' = AllFree /\ dir' = EmptyDir /\ fds' = AllClosed
      /\ own' = NoOwner /\ base' = NoBase /\ UNCHANGED <<disk, data>>
  BY DEF Crash, lose_memory
<1>2. CallSound' /\ op' \in Op /\ op'.pc = "idle" /\ op'.kind = "none"
  BY <1>1, ToIdle
<1>3. TypeOK'
  BY <1>1, <1>2, Constants DEF TypeOK
<1>4. ChainsSound'
  BY <1>1 DEF ChainsSound
<1>5. DiskSound'
  BY <1>1, DiskFrame
<1>6. DescriptorsSound'
  BY <1>1, <1>2 DEF DescriptorsSound
<1> QED BY <1>2, <1>3, <1>4, <1>5, <1>6
-----------------------------------------------------------------------------
(* fs_read *)

(* The first block of an open file that has one. *)
LEMMA FirstBlock ==
  ASSUME IndInv, mounted, op.pc = "idle", NEW e \in Slots, dir[e].used, dir[e].first # FAT_EOF
  PROVE  dir[e].first \in Blocks /\ own[dir[e].first] = e /\ base[dir[e].first] = 0
<1>1. HeadsSound(dir, own, base, Deleted) /\ Deleted = {}
  BY IdleNow DEF IndInv, ChainsSound
<1> QED BY <1>1 DEF HeadsSound

LEMMA ReadInd ==
  ASSUME IndInv, NEW d \in Fds, NEW n \in Nat, fs_read(d, n)
  PROVE  IndInv'
<1> USE DEF IndInv
<1> DEFINE e == fds[d].ent
           k == Smaller(n, dir[e].size - fds[d].off)
<1>1. /\ op.pc = "idle" /\ mounted /\ fds[d].used /\ reply' = NoReply
      /\ UNCHANGED <<mounted, active, fat, dir, fds, disk, data, own, base>>
  BY DEF fs_read
<1>2. ChainsSound' /\ DiskSound'
  BY <1>1, Quiet
<1>3. e \in Slots /\ dir[e].used /\ fds[d].off \in Nat /\ dir[e].size \in Nat
  BY <1>1, Fields DEF DescriptorsSound
<1>4. CASE UNCHANGED op
  <2>1. CallSound' /\ op'.kind = "none" /\ op'.pc = "idle" /\ Deleted' = {}
    BY <1>1, <1>4, IdleStays
  <2>2. TypeOK'
    BY <1>1, <1>4, Constants DEF TypeOK
  <2>3. DescriptorsSound'
    BY <1>1, <2>1 DEF DescriptorsSound
  <2> QED BY <1>2, <2>1, <2>2, <2>3
<1>5. CASE op' # op
  <2>1. /\ dir[e].first # FAT_EOF /\ fds[d].off < dir[e].size
        /\ op' = [Idle EXCEPT !.kind = "read", !.pc = "walk", !.fd = d, !.ent = e,
                              !.blk = dir[e].first, !.off = fds[d].off, !.rem = k]
    BY <1>3, <1>5 DEF fs_read
  <2>2. dir[e].first \in Blocks /\ own[dir[e].first] = e /\ base[dir[e].first] = 0
    BY <1>1, <1>3, <2>1, FirstBlock
  <2>3. k \in Nat /\ fds[d].off + k <= dir[e].size
    BY <1>3, <2>1 DEF Smaller
  <2>4. dir[e].first \in FatValues
    BY <2>2 DEF FatValues
  <2>5. op' \in Op
    BY <1>3, <2>1, <2>3, <2>4, Constants DEF Op, Kinds, Pcs
  <2>6. /\ op'.kind = "read" /\ op'.pc = "walk" /\ op'.fd = d /\ op'.ent = e
        /\ op'.blk = dir[e].first /\ op'.off = fds[d].off /\ op'.rem = k /\ op'.cnt = 0
    BY <2>1 DEF Idle
  <2>7. TypeOK'
    BY <1>1, <2>5, Constants DEF TypeOK
  <2>8. Deleted' = {}
    BY <2>6, AtRestPrimed
  <2>9. DescriptorsSound'
    BY <1>1, <2>6, <2>8 DEF DescriptorsSound
  <2>10. Target' = fds[d].off
    BY <1>1, <2>6 DEF Target
  <2>11. BytesSound'
    BY <1>1, <1>3, <2>3, <2>6, <2>10 DEF BytesSound
  <2>12. Here'
    BY <1>1, <1>3, <2>2, <2>6, <2>10 DEF Here
  <2>13. WalkSound'
    BY <1>1, <2>1, <2>6, <2>10, <2>12 DEF WalkSound
  <2>14. CallSound'
    BY <2>6, <2>11, <2>13
    DEF CallSound, TailSound, ChunkSound, AbortSound, CutSound, FreeSound, RestSound
  <2> QED BY <1>2, <2>7, <2>9, <2>14
<1> QED BY <1>4, <1>5

(* The bytes of one loop iteration stay within the block and the request. *)
LEMMA ChunkSize ==
  ASSUME NEW off \in Nat, NEW rem \in Nat, off < BlockSize, rem > 0
  PROVE  LET n == Smaller(BlockSize - off, rem)
         IN n \in Nat /\ n > 0 /\ n <= rem /\ off + n <= BlockSize /\ rem - n \in Nat
BY Marks DEF Smaller

(* A loop over the blocks of a file is at a block of that file. *)
LEMMA ChunkHere ==
  ASSUME IndInv, op.pc = "chunk", op.rem > 0
  PROVE  /\ mounted /\ op.kind \in {"read", "write", "extend"}
         /\ op.blk \in Blocks /\ own[op.blk] = op.ent /\ op.off < BlockSize
         /\ base[op.blk] + op.off = Target + op.cnt /\ Target \in Nat
         /\ op.ent \in Slots /\ op.fd \in Fds /\ op.off \in Nat /\ op.cnt \in Nat /\ op.rem \in Nat
         /\ base[op.blk] \in Nat /\ dir[op.ent].size \in Nat
         /\ fds[op.fd].used /\ fds[op.fd].ent = op.ent /\ fds[op.fd].off \in Nat
         /\ Deleted = {} /\ CutAt = {} /\ Loose = {} /\ Fresh = {}
<1> USE DEF IndInv
<1>1. ChunkSound /\ mounted
  BY DEF CallSound, DescriptorsSound
<1>2. op.kind \in {"read", "write", "extend"} /\ Here /\ op.off < BlockSize
  BY <1>1, Fields DEF ChunkSound
<1>3. Target \in Nat
  BY Fields DEF Target
<1>4. Deleted = {} /\ CutAt = {} /\ Loose = {} /\ Fresh = {}
  BY AtRest
<1>5. fds[op.fd].used /\ fds[op.fd].ent = op.ent
  BY <1>2 DEF DescriptorsSound
<1> QED BY <1>1, <1>2, <1>3, <1>4, <1>5, Fields DEF Here

LEMMA ReadChunkInd ==
  ASSUME IndInv, read_chunk
  PROVE  IndInv'
<1> USE DEF IndInv
<1> DEFINE n     == Smaller(BlockSize - op.off, op.rem)
           full  == op.off + n = BlockSize
           nxt   == IF full THEN fat[op.blk] ELSE op.blk
           at    == IF full THEN 0 ELSE op.off + n
           piece == [i \in 1 .. n |-> data[op.blk][op.off + i - 1]]
<1>1. /\ op.kind = "read" /\ op.pc = "chunk" /\ op.rem > 0 /\ op.blk # FAT_EOF
      /\ op' = [op EXCEPT !.blk = nxt, !.off = at, !.rem = op.rem - n, !.cnt = op.cnt + n,
                          !.buf = op.buf \o piece]
      /\ UNCHANGED <<mounted, active, fat, dir, fds, disk, data, reply, own, base>>
  BY DEF read_chunk
<1>2. /\ mounted /\ op.blk \in Blocks /\ own[op.blk] = op.ent /\ op.off < BlockSize
      /\ base[op.blk] + op.off = Target + op.cnt /\ Target \in Nat
      /\ op.ent \in Slots /\ op.off \in Nat /\ op.cnt \in Nat /\ op.rem \in Nat
      /\ base[op.blk] \in Nat /\ dir[op.ent].size \in Nat /\ CutAt = {}
  BY <1>1, ChunkHere
<1>3. n \in Nat /\ n > 0 /\ n <= op.rem /\ op.off + n <= BlockSize /\ op.rem - n \in Nat
  BY <1>1, <1>2, ChunkSize
<1>4. \/ fat[op.blk] = FAT_EOF /\ dir[op.ent].size <= base[op.blk] + BlockSize
      \/ fat[op.blk] \in Blocks /\ own[fat[op.blk]] = op.ent
         /\ base[fat[op.blk]] = base[op.blk] + BlockSize
  BY <1>2, NextBlock
<1>5. Target + op.cnt + op.rem <= dir[op.ent].size
  BY <1>1 DEF CallSound, BytesSound
<1> HIDE DEF n
<1>6. nxt \in FatValues /\ at \in Nat /\ op.cnt + n \in Nat
  <2>1. fat[op.blk] \in FatValues /\ op.blk \in FatValues
    BY <1>2, Fields
  <2> QED BY <1>2, <1>3, <2>1
<1>7. op.buf \o piece \in Seq(Byte)
  <2>1. data[op.blk] \in [0 .. BlockSize - 1 -> Byte]
    BY <1>2 DEF TypeOK
  <2>2. \A i \in 1 .. n : op.off + i - 1 \in 0 .. BlockSize - 1
    BY <1>2, <1>3, Marks
  <2>3. piece \in [1 .. n -> Byte]
    BY <2>1, <2>2
  <2>4. piece \in Seq(Byte)
    <3> HIDE DEF piece
    <3> QED BY <1>3, <2>3, SeqDef
  <2>5. op.buf \in Seq(Byte)
    BY Fields
  <2> QED BY <2>4, <2>5, ConcatProperties
<1>8. op' \in Op
  BY <1>1, <1>3, <1>6, <1>7 DEF TypeOK, Op
<1>9. /\ op'.kind = "read" /\ op'.pc = "chunk" /\ op'.ent = op.ent /\ op'.fd = op.fd
      /\ op'.blk = nxt /\ op'.off = at /\ op'.cnt = op.cnt + n /\ op'.rem = op.rem - n
  BY <1>1 DEF TypeOK, Op
<1>10. TypeOK'
  BY <1>1, <1>8 DEF TypeOK
<1>11. ChainsSound' /\ DiskSound'
  BY <1>1, Quiet
<1>12. Deleted' = {}
  BY <1>9, AtRestPrimed
<1>13. DescriptorsSound'
  BY <1>1, <1>2, <1>9, <1>12 DEF DescriptorsSound
<1>14. Target' = Target
  BY <1>1, <1>9 DEF Target
<1>15. BytesSound'
  BY <1>1, <1>2, <1>3, <1>5, <1>9, <1>14 DEF BytesSound
<1>16. op.rem - n > 0 => Here'
  <2>1. CASE full
    BY <1>1, <1>2, <1>3, <1>4, <1>5, <1>9, <1>14, <2>1, Marks DEF Here
  <2>2. CASE ~full
    BY <1>1, <1>2, <1>3, <1>9, <1>14, <2>2, Marks DEF Here
  <2> QED BY <2>1, <2>2
<1>17. at < BlockSize
  BY <1>2, <1>3, Marks
<1>18. ChunkSound'
  BY <1>1, <1>3, <1>6, <1>9, <1>16, <1>17, Marks DEF ChunkSound
<1>19. CallSound'
  BY <1>9, <1>15, <1>18
  DEF CallSound, WalkSound, TailSound, AbortSound, CutSound, FreeSound, RestSound
<1> QED BY <1>10, <1>11, <1>13, <1>19

LEMMA ReadEndInd ==
  ASSUME IndInv, read_return \/ read_error
  PROVE  IndInv'
<1> USE DEF IndInv
<1>1. /\ op.kind = "read" /\ op.pc = "chunk" /\ op' = Idle
      /\ UNCHANGED <<mounted, active, fat, dir, disk, data, own, base>>
  BY DEF read_return, read_error
<1>2. CallSound' /\ op' \in Op /\ op'.pc = "idle" /\ op'.kind = "none" /\ Deleted' = {}
  BY <1>1, ToIdle
<1>3. op.fd \in Fds /\ op.cnt \in Nat /\ op.buf \in Seq(Byte) /\ fds[op.fd].off \in Nat
  BY Fields
<1>4. /\ fds' \in [Fds -> Fd]
      /\ \A c \in Fds : fds'[c].used = fds[c].used /\ fds'[c].ent = fds[c].ent
  <2>1. CASE read_return
    <3>1. fds' = [fds EXCEPT ![op.fd].off = fds[op.fd].off + op.cnt]
      BY <2>1 DEF read_return
    <3>2. fds[op.fd].off + op.cnt \in Nat
      BY <1>3
    <3> QED BY <3>1, <3>2 DEF TypeOK, Fd
  <2>2. CASE read_error
    BY <2>2 DEF read_error, TypeOK
  <2> QED BY <2>1, <2>2
<1>5. reply' \in [val : Int, bytes : Seq(Byte)]
  <2>1. op.cnt \in Int /\ -1 \in Int /\ <<>> \in Seq(Byte)
    BY <1>3
  <2>2. reply' = [val |-> op.cnt, bytes |-> op.buf] \/ reply' = [val |-> -1, bytes |-> <<>>]
    BY DEF read_return, read_error, Return
  <2>3. CASE reply' = [val |-> op.cnt, bytes |-> op.buf]
    BY <1>3, <2>1, <2>3
  <2>4. CASE reply' = [val |-> -1, bytes |-> <<>>]
    BY <2>1, <2>4
  <2> QED BY <2>2, <2>3, <2>4
<1>6. TypeOK'
  BY <1>1, <1>2, <1>4, <1>5 DEF TypeOK
<1>7. ChainsSound' /\ DiskSound'
  BY <1>1, Quiet
<1>8. DescriptorsSound'
  BY <1>1, <1>2, <1>4 DEF DescriptorsSound
<1> QED BY <1>2, <1>6, <1>7, <1>8
-----------------------------------------------------------------------------
(* fs_write *)

(* Both halves of fs_write start their walk at the first block of the file. *)
LEMMA WriteEntry ==
  ASSUME NEW d \in Fds, NEW e \in Slots, NEW first \in Blocks, NEW size \in Nat,
         NEW buf \in Seq(Byte), op' = write_entry(d, e, first, size, buf),
         fds[d].off \in Nat, UNCHANGED fds, dir'[e].size = size,
         own'[first] = e, base'[first] = 0
  PROVE  /\ CallSound' /\ op' \in Op /\ op'.pc = "walk" /\ op'.kind \in {"write", "extend"}
         /\ op'.fd = d /\ op'.ent = e
<1> DEFINE regs == [Idle EXCEPT !.pc = "walk", !.fd = d, !.ent = e, !.blk = first, !.buf = buf]
           fill == fds[d].off > size
           off  == IF fill THEN size ELSE fds[d].off
           rem  == IF fill THEN fds[d].off - size ELSE Len(buf)
           kind == IF fill THEN "extend" ELSE "write"
<1>1. first \in FatValues /\ off \in Nat /\ rem \in Nat /\ kind \in Kinds
  <2>1. Len(buf) \in Nat
    BY LenProperties
  <2> QED BY <2>1 DEF FatValues, Kinds
<1>2. regs \in Op
  BY <1>1, Constants DEF Op, Pcs
<1>3. regs.pc = "walk" /\ regs.fd = d /\ regs.ent = e /\ regs.blk = first /\ regs.buf = buf
      /\ regs.cnt = 0
  BY DEF Idle
<1>4. op' = [regs EXCEPT !.kind = kind, !.off = off, !.rem = rem]
  BY DEF write_entry
<1> HIDE DEF regs, kind, rem, off
<1>5. op' \in Op
  BY <1>1, <1>2, <1>4 DEF Op
<1>6. op'.pc = "walk" /\ op'.fd = d /\ op'.ent = e /\ op'.blk = first /\ op'.buf = buf
      /\ op'.cnt = 0 /\ op'.kind = kind /\ op'.off = off /\ op'.rem = rem
  BY <1>2, <1>3, <1>4 DEF Op
<1> USE DEF kind, rem, off
<1>7. Target' = off
  BY <1>6 DEF Target
<1>8. BytesSound'
  BY <1>1, <1>6, <1>7 DEF BytesSound
<1>9. Here'
  BY <1>1, <1>6, <1>7 DEF Here
<1>10. WalkSound'
  BY <1>6, <1>9 DEF WalkSound
<1>11. CallSound'
  BY <1>6, <1>8, <1>10
  DEF CallSound, TailSound, ChunkSound, AbortSound, CutSound, FreeSound, RestSound
<1> QED BY <1>5, <1>6, <1>11

(* A first block for the empty file e. *)
LEMMA FirstAllocated ==
  ASSUME IndInv, mounted, op.pc = "idle", op'.pc = "walk", UNCHANGED mounted,
         NEW e \in Slots, dir[e].used, dir[e].first = FAT_EOF,
         NEW b \in Blocks, fat[b] = FAT_FREE,
         fat'[b] = FAT_EOF, own'[b] = e, base'[b] = 0,
         \A c \in Blocks : c # b => fat'[c] = fat[c] /\ own'[c] = own[c] /\ base'[c] = base[c],
         dir'[e].first = b, dir'[e].size = 0, dir'[e].used,
         \A g \in Slots : g # e => dir'[g] = dir[g]
  PROVE  ChainsSound'
<1> USE DEF IndInv
<1>1. /\ Deleted = {} /\ CutAt = {} /\ Loose = {} /\ Fresh = {}
      /\ Deleted' = {} /\ CutAt' = {} /\ Loose' = {} /\ Fresh' = {}
  BY IdleNow, AtRestPrimed
<1>2. own[b] = NoSlot /\ \A c \in Blocks : own[c] # e
  BY <1>1, FreeUnowned, Marks DEF ChainsSound, HeadsSound
<1>3. /\ fat'[b] = FAT_EOF /\ own'[b] = e /\ base'[b] = 0
      /\ \A c \in Blocks : c # b => fat'[c] = fat[c] /\ own'[c] = own[c] /\ base'[c] = base[c]
  OBVIOUS
<1>4. /\ dir'[e].first = b /\ dir'[e].size = 0 /\ dir'[e].used
      /\ \A g \in Slots : g # e => dir'[g] = dir[g]
  OBVIOUS
<1>5. HeadsSound(dir, own, base, Deleted)'
  <2> SUFFICES ASSUME NEW g \in Slots, dir'[g].used
               PROVE  \/ /\ dir'[g].first = FAT_EOF /\ dir'[g].size = 0
                         /\ \A c \in Blocks : own'[c] # g
                      \/ /\ dir'[g].first \in Blocks /\ own'[dir'[g].first] = g
                         /\ base'[dir'[g].first] = 0
    BY DEF HeadsSound
  <2>1. CASE g = e
    BY <1>3, <1>4, <2>1
  <2>2. CASE g # e
    <3>1. \/ dir[g].first = FAT_EOF /\ dir[g].size = 0 /\ \A c \in Blocks : own[c] # g
          \/ dir[g].first \in Blocks /\ own[dir[g].first] = g /\ base[dir[g].first] = 0
      BY <1>1, <1>4, <2>2 DEF ChainsSound, HeadsSound
    <3> QED BY <1>2, <1>3, <1>4, <2>2, <3>1, Marks
  <2> QED BY <2>1, <2>2
<1>6. LinksSound(fat, dir, own, base, CutAt)'
  <2> SUFFICES ASSUME NEW c \in Blocks, own'[c] \in Slots
               PROVE  /\ dir'[own'[c]].used /\ fat'[c] # FAT_FREE
                      /\ fat'[c] \in Blocks => /\ own'[fat'[c]] = own'[c]
                                               /\ base'[fat'[c]] = base'[c] + BlockSize
    BY DEF LinksSound
  <2>1. CASE c = b
    BY <1>3, <1>4, <2>1, Marks
  <2>2. CASE c # b
    <3>1. /\ own[c] \in Slots /\ own[c] # e /\ dir[own[c]].used /\ fat[c] # FAT_FREE
          /\ fat[c] \in Blocks => own[fat[c]] = own[c] /\ base[fat[c]] = base[c] + BlockSize
      BY <1>1, <1>2, <1>3, <2>2 DEF ChainsSound, LinksSound
    <3>2. fat[c] # b
      BY <1>2, <3>1, Marks
    <3> QED BY <1>3, <1>4, <2>2, <3>1, <3>2
  <2> QED BY <2>1, <2>2
<1>7. SpacedApart(own, base)'
  BY <1>2, <1>3 DEF ChainsSound, SpacedApart
<1>8. EndsSound(fat, dir, own, base)'
  <2> SUFFICES ASSUME NEW c \in Blocks, own'[c] \in Slots, fat'[c] = FAT_EOF
               PROVE  /\ dir'[own'[c]].size <= base'[c] + BlockSize
                      /\ \A k \in Blocks : own'[k] = own'[c] => base'[k] <= base'[c]
    BY DEF EndsSound
  <2>1. CASE c = b
    BY <1>2, <1>3, <1>4, <2>1, Marks
  <2>2. CASE c # b
    <3>1. /\ own[c] \in Slots /\ own[c] # e /\ dir[own[c]].size <= base[c] + BlockSize
          /\ \A k \in Blocks : own[k] = own[c] => base[k] <= base[c]
      BY <1>2, <1>3, <2>2 DEF ChainsSound, EndsSound
    <3> QED BY <1>3, <1>4, <2>2, <3>1
  <2> QED BY <2>1, <2>2
<1>9. Linked(fat, dir, own, Loose)'
  <2> SUFFICES ASSUME NEW c \in Blocks, own'[c] \in Slots
               PROVE  c = dir'[own'[c]].first \/ \E k \in Blocks : own'[k] = own'[c] /\ fat'[k] = c
    BY DEF Linked
  <2>1. CASE c = b
    BY <1>3, <1>4, <2>1
  <2>2. CASE c # b
    <3>1. own[c] \in Slots /\ own[c] # e /\ own'[c] = own[c]
      BY <1>2, <1>3, <2>2
    <3>2. c = dir[own[c]].first \/ \E k \in Blocks : own[k] = own[c] /\ fat[k] = c
      BY <1>1, <3>1 DEF ChainsSound, Linked
    <3> QED BY <1>2, <1>3, <1>4, <2>2, <3>1, <3>2, Marks
  <2> QED BY <2>1, <2>2
<1>10. NoLeak(fat, own, Fresh)'
  <2> SUFFICES ASSUME NEW c \in SavedBlocks, fat'[c] # FAT_FREE PROVE own'[c] \in Slots
    BY DEF NoLeak
  <2>1. c \in Blocks
    BY Constants
  <2>2. c # b => own[c] \in Slots
    BY <1>1, <1>3, <2>1 DEF ChainsSound, NoLeak
  <2> QED BY <1>3, <2>1, <2>2
<1> QED BY <1>5, <1>6, <1>7, <1>8, <1>9, <1>10 DEF ChainsSound

LEMMA WriteInd ==
  ASSUME IndInv, NEW d \in Fds, NEW buf \in Seq(Byte), fs_write(d, buf)
  PROVE  IndInv'
<1> USE DEF IndInv
<1> DEFINE e == fds[d].ent
<1>1. /\ op.pc = "idle" /\ mounted /\ fds[d].used /\ reply' = NoReply
      /\ UNCHANGED <<mounted, active, fds, disk, data>>
  BY DEF fs_write
<1>2. e \in Slots /\ dir[e].used /\ fds[d].off \in Nat /\ dir[e].size \in Nat
  BY <1>1, Fields DEF DescriptorsSound
<1>3. CASE /\ dir[e].first # FAT_EOF
           /\ op' = write_entry(d, e, dir[e].first, dir[e].size, buf)
           /\ UNCHANGED <<fat, dir, own, base>>
  <2>1. dir[e].first \in Blocks /\ own[dir[e].first] = e /\ base[dir[e].first] = 0
    BY <1>1, <1>2, <1>3, FirstBlock
  <2>2. /\ CallSound' /\ op' \in Op /\ op'.pc = "walk" /\ op'.fd = d /\ op'.ent = e
    BY <1>1, <1>2, <1>3, <2>1, WriteEntry
  <2>3. TypeOK'
    BY <1>1, <1>3, <2>2, Constants DEF TypeOK
  <2>4. ChainsSound' /\ DiskSound'
    BY <1>1, <1>3, Quiet
  <2>5. Deleted' = {}
    BY <2>2, AtRestPrimed
  <2>6. DescriptorsSound'
    BY <1>1, <1>3, <2>2, <2>5 DEF DescriptorsSound
  <2> QED BY <2>2, <2>3, <2>4, <2>6
<1>4. ASSUME dir[e].first = FAT_EOF, NEW b \in Blocks, allocate_free_block(b),
             fat' = [fat EXCEPT ![b] = FAT_EOF],
             dir' = [dir EXCEPT ![e].first = b, ![e].size = 0],
             op' = write_entry(d, e, b, 0, buf),
             own' = [own EXCEPT ![b] = e], base' = [base EXCEPT ![b] = 0]
      PROVE  IndInv'
  <2>1. fat[b] = FAT_FREE
    BY <1>4 DEF allocate_free_block, IsLeast, FreeBlocks
  <2>2. /\ fat'[b] = FAT_EOF /\ own'[b] = e /\ base'[b] = 0
        /\ \A c \in Blocks : c # b => fat'[c] = fat[c] /\ own'[c] = own[c] /\ base'[c] = base[c]
        /\ dir'[e].first = b /\ dir'[e].size = 0 /\ dir'[e].used
        /\ \A g \in Slots : g # e => dir'[g] = dir[g]
    BY <1>2, <1>4 DEF TypeOK, Entry
  <2>3. /\ CallSound' /\ op' \in Op /\ op'.pc = "walk" /\ op'.fd = d /\ op'.ent = e
    <3>1. op' = write_entry(d, e, b, 0, buf) /\ b \in Blocks /\ 0 \in Nat /\ UNCHANGED fds
      BY <1>1, <1>4
    <3> QED BY <1>2, <2>2, <3>1, WriteEntry
  <2>4. FAT_EOF \in FatValues /\ b \in FatValues
    BY DEF FatValues
  <2>5. /\ fat' \in [Blocks -> FatValues] /\ own' \in [Blocks -> Slots \cup {NoSlot}]
        /\ base' \in [Blocks -> Nat]
    BY <1>2, <1>4, <2>4 DEF TypeOK
  <2>6. dir' \in [Slots -> Entry] /\ \A g \in Slots : dir'[g].used = dir[g].used
    BY <1>2, <1>4, <2>4 DEF TypeOK, Entry
  <2>7. TypeOK'
    BY <1>1, <2>3, <2>5, <2>6, Constants DEF TypeOK
  <2>8. ChainsSound'
    BY <1>1, <1>2, <1>4, <2>1, <2>2, <2>3, FirstAllocated
  <2>9. Deleted' = {}
    BY <2>3, AtRestPrimed
  <2>10. DescriptorsSound'
    BY <1>1, <2>3, <2>6, <2>9, Fields DEF DescriptorsSound
  <2> QED BY <1>1, <2>3, <2>7, <2>8, <2>10, DiskFrame
<1>5. CASE UNCHANGED <<fat, dir, op, own, base>>
  <2>1. CallSound' /\ op'.kind = "none" /\ op'.pc = "idle" /\ Deleted' = {}
    BY <1>1, <1>5, IdleStays
  <2>2. TypeOK'
    BY <1>1, <1>5, Constants DEF TypeOK
  <2>3. ChainsSound' /\ DiskSound'
    BY <1>1, <1>5, Quiet
  <2>4. DescriptorsSound'
    BY <1>1, <1>5, <2>1 DEF DescriptorsSound
  <2> QED BY <2>1, <2>2, <2>3, <2>4
<1> QED BY <1>3, <1>4, <1>5 DEF fs_write

(* A block that belongs to no file becomes the last block of the chain of l. *)
LEMMA Appended ==
  ASSUME IndInv, mounted, UNCHANGED <<mounted, dir>>, op.pc # "free", op'.pc = "chunk",
         NEW l \in Blocks, own[l] \in Slots, fat[l] = FAT_EOF,
         NEW b \in Blocks, own[b] = NoSlot, Fresh \subseteq {b},
         fat'[b] = FAT_EOF, own'[b] = own[l], base'[b] = base[l] + BlockSize,
         fat'[l] = b, own'[l] = own[l], base'[l] = base[l],
         \A c \in Blocks : c # b /\ c # l =>
                             fat'[c] = fat[c] /\ own'[c] = own[c] /\ base'[c] = base[c]
  PROVE  ChainsSound'
<1> USE DEF IndInv
<1> DEFINE e == own[l]
<1>1. /\ Deleted = {} /\ CutAt = {} /\ Loose = {}
      /\ Deleted' = {} /\ CutAt' = {} /\ Loose' = {} /\ Fresh' = {}
  BY AtRestPrimed DEF Deleted, CutAt, Loose
<1>2. l # b /\ e \in Slots
  BY Marks
<1>3. \A c \in Blocks : c # b => own'[c] = own[c] /\ base'[c] = base[c]
  OBVIOUS
<1>4. \A c \in Blocks : base[c] \in Nat /\ own[c] \in Slots \cup {NoSlot}
  BY Fields
<1>5. \A e1 \in Slots : dir[e1].size \in Nat
  BY Fields
<1>6. dir[e].size <= base[l] + BlockSize /\ \A c \in Blocks : own[c] = e => base[c] <= base[l]
  BY DEF ChainsSound, EndsSound
<1>7. HeadsSound(dir, own, base, Deleted)'
  <2> SUFFICES ASSUME NEW g \in Slots, dir[g].used
               PROVE  \/ /\ dir[g].first = FAT_EOF /\ dir[g].size = 0
                         /\ \A c \in Blocks : own'[c] # g
                      \/ /\ dir[g].first \in Blocks /\ own'[dir[g].first] = g
                         /\ base'[dir[g].first] = 0
    BY DEF HeadsSound
  <2>1. \/ dir[g].first = FAT_EOF /\ dir[g].size = 0 /\ \A c \in Blocks : own[c] # g
        \/ dir[g].first \in Blocks /\ own[dir[g].first] = g /\ base[dir[g].first] = 0
    BY <1>1 DEF ChainsSound, HeadsSound
  <2> QED BY <1>3, <2>1, Marks
<1>8. LinksSound(fat, dir, own, base, CutAt)'
  <2> SUFFICES ASSUME NEW c \in Blocks, own'[c] \in Slots
               PROVE  /\ dir[own'[c]].used /\ fat'[c] # FAT_FREE
                      /\ fat'[c] \in Blocks => /\ own'[fat'[c]] = own'[c]
                                               /\ base'[fat'[c]] = base'[c] + BlockSize
    BY DEF LinksSound
  <2>1. dir[e].used
    BY DEF ChainsSound, LinksSound
  <2>2. CASE c = b
    BY <2>1, <2>2, Marks
  <2>3. CASE c = l
    BY <2>1, <2>3, Marks
  <2>4. CASE c # b /\ c # l
    <3>1. /\ own[c] \in Slots /\ dir[own[c]].used /\ fat[c] # FAT_FREE
          /\ fat[c] \in Blocks => own[fat[c]] = own[c] /\ base[fat[c]] = base[c] + BlockSize
      BY <1>1, <1>3, <2>4 DEF ChainsSound, LinksSound
    <3>2. fat[c] # b
      BY <3>1, Marks
    <3> QED BY <1>3, <2>4, <3>1, <3>2
  <2> QED BY <2>2, <2>3, <2>4
<1>9. SpacedApart(own, base)'
  <2> SUFFICES ASSUME NEW c \in Blocks, NEW k \in Blocks, c # k, own'[c] \in Slots,
                      own'[c] = own'[k]
               PROVE  \/ base'[c] + BlockSize <= base'[k]
                      \/ base'[k] + BlockSize <= base'[c]
    BY DEF SpacedApart
  <2>1. CASE c = b
    BY <1>3, <1>4, <1>6, <2>1, Marks
  <2>2. CASE k = b
    BY <1>3, <1>4, <1>6, <2>2, Marks
  <2>3. CASE c # b /\ k # b
    BY <1>3, <2>3 DEF ChainsSound, SpacedApart
  <2> QED BY <2>1, <2>2, <2>3
<1>10. EndsSound(fat, dir, own, base)'
  <2> SUFFICES ASSUME NEW c \in Blocks, own'[c] \in Slots, fat'[c] = FAT_EOF
               PROVE  /\ dir[own'[c]].size <= base'[c] + BlockSize
                      /\ \A k \in Blocks : own'[k] = own'[c] => base'[k] <= base'[c]
    BY DEF EndsSound
  <2>1. c # l
    BY Marks
  <2>2. CASE c = b
    BY <1>2, <1>3, <1>4, <1>5, <1>6, <2>2, Marks
  <2>3. CASE c # b
    <3>1. /\ own[c] \in Slots /\ fat[c] = FAT_EOF /\ own'[c] = own[c]
          /\ dir[own[c]].size <= base[c] + BlockSize
          /\ \A k \in Blocks : own[k] = own[c] => base[k] <= base[c]
      BY <1>3, <2>1, <2>3 DEF ChainsSound, EndsSound
    <3>2. own[c] # e
      BY <1>2, <1>4, <1>6, <2>1, <3>1, Marks DEF ChainsSound, SpacedApart
    <3> QED BY <1>3, <2>3, <3>1, <3>2
  <2> QED BY <2>2, <2>3
<1>11. Linked(fat, dir, own, Loose)'
  <2> SUFFICES ASSUME NEW c \in Blocks, own'[c] \in Slots
               PROVE  c = dir[own'[c]].first \/ \E k \in Blocks : own'[k] = own'[c] /\ fat'[k] = c
    BY DEF Linked
  <2>1. CASE c = b
    BY <2>1
  <2>2. CASE c # b
    <3>1. c = dir[own[c]].first \/ \E k \in Blocks : own[k] = own[c] /\ fat[k] = c
      BY <1>1, <1>3, <2>2 DEF ChainsSound, Linked
    <3>2. CASE c = dir[own[c]].first
      BY <1>3, <2>2, <3>2
    <3>3. ASSUME NEW k \in Blocks, own[k] = own[c], fat[k] = c
          PROVE  k # b /\ k # l
      BY <1>3, <2>2, <3>3, Marks
    <3> QED BY <1>3, <2>2, <3>1, <3>2, <3>3
  <2> QED BY <2>1, <2>2
<1>12. NoLeak(fat, own, Fresh)'
  <2> SUFFICES ASSUME NEW c \in SavedBlocks, fat'[c] # FAT_FREE PROVE own'[c] \in Slots
    BY DEF NoLeak
  <2>1. c \in Blocks
    BY Constants
  <2>2. c # b /\ c # l => own[c] \in Slots
    BY <2>1 DEF ChainsSound, NoLeak
  <2> QED BY <1>2, <2>1, <2>2
<1> QED BY <1>7, <1>8, <1>9, <1>10, <1>11, <1>12 DEF ChainsSound

LEMMA GrowInd ==
  ASSUME IndInv, write_grow
  PROVE  IndInv'
<1> USE DEF IndInv
<1>1. /\ op.kind \in {"extend", "write"} /\ op.pc = "walk" /\ op.blk = FAT_EOF
      /\ UNCHANGED <<mounted, active, dir, fds, disk, data, reply, own, base>>
  BY DEF write_grow
<1>2. /\ mounted /\ EndHere /\ op.cnt = 0 /\ BytesSound
      /\ Deleted = {} /\ CutAt = {} /\ Loose = {} /\ Fresh = {}
  BY <1>1, WalkTarget DEF CallSound, WalkSound
<1>3. op.ent \in Slots /\ op.fd \in Fds /\ fds[op.fd].used /\ fds[op.fd].ent = op.ent
  BY <1>1, Fields DEF DescriptorsSound
<1>4. dir[op.ent].used
  BY <1>2, <1>3 DEF DescriptorsSound
<1>5. CASE op' = [op EXCEPT !.pc = "abort"] /\ UNCHANGED fat
  <2>1. op' \in Op
    BY <1>5 DEF TypeOK, Op, Pcs
  <2>2. op'.pc = "abort" /\ op'.kind = op.kind /\ op'.ent = op.ent /\ op'.fd = op.fd
        /\ op'.cnt = op.cnt /\ op'.rem = op.rem /\ op'.buf = op.buf
    BY <1>5 DEF TypeOK, Op
  <2>3. TypeOK'
    BY <1>1, <1>5, <2>1 DEF TypeOK
  <2>4. ChainsSound' /\ DiskSound'
    BY <1>1, <1>5, Quiet
  <2>5. Deleted' = {}
    BY <2>2, AtRestPrimed
  <2>6. DescriptorsSound'
    BY <1>1, <1>2, <2>2, <2>5 DEF DescriptorsSound
  <2>7. Target' = Target
    BY <1>1, <2>2 DEF Target
  <2>8. BytesSound' /\ AbortSound'
    BY <1>1, <1>2, <2>2, <2>7 DEF BytesSound, AbortSound
  <2>9. CallSound'
    BY <2>2, <2>8
    DEF CallSound, WalkSound, TailSound, ChunkSound, CutSound, FreeSound, RestSound
  <2> QED BY <2>3, <2>4, <2>6, <2>9
<1>6. ASSUME NEW b \in Blocks, allocate_free_block(b), fat' = [fat EXCEPT ![b] = FAT_EOF],
             op' = [op EXCEPT !.pc = "tail", !.blk = dir[op.ent].first, !.aux = b]
      PROVE  IndInv'
  <2> DEFINE first == dir[op.ent].first
  <2>1. fat[b] = FAT_FREE /\ own[b] = NoSlot
    BY <1>2, <1>6, FreeUnowned DEF allocate_free_block, IsLeast, FreeBlocks
  <2>2. PICK l \in Blocks : own[l] = op.ent /\ fat[l] = FAT_EOF /\ base[l] + BlockSize = Target
    BY <1>2 DEF EndHere
  <2>3. first \in Blocks /\ own[first] = op.ent
    BY <1>2, <1>3, <1>4, <2>2 DEF ChainsSound, HeadsSound
  <2>4. first \in FatValues /\ b \in FatValues /\ FAT_EOF \in FatValues
    BY <2>3 DEF FatValues
  <2>5. op' \in Op
    BY <1>6, <2>4 DEF TypeOK, Op, Pcs
  <2>6. op'.pc = "tail" /\ op'.kind = op.kind /\ op'.ent = op.ent /\ op'.fd = op.fd
        /\ op'.cnt = op.cnt /\ op'.rem = op.rem /\ op'.buf = op.buf /\ op'.off = op.off
        /\ op'.blk = first /\ op'.aux = b
    BY <1>6 DEF TypeOK, Op
  <2>7. fat' \in [Blocks -> FatValues] /\ fat'[b] = FAT_EOF
        /\ \A c \in Blocks : c # b => fat'[c] = fat[c]
    BY <1>6, <2>4 DEF TypeOK
  <2>8. TypeOK'
    BY <1>1, <2>5, <2>7 DEF TypeOK
  <2>9. Deleted' = {} /\ CutAt' = {} /\ Loose' = {} /\ Fresh' = {b}
    BY <2>6 DEF Deleted, CutAt, Loose, Fresh
  <2>10. \A c \in Blocks : own[c] \in Slots => fat'[c] = fat[c]
    BY <2>1, <2>7, Marks
  <2>11. ChainsSound'
    <3>1. HeadsSound(dir, own, base, Deleted)' /\ SpacedApart(own, base)'
      BY <1>1, <1>2, <2>9 DEF ChainsSound, HeadsSound, SpacedApart
    <3>2. LinksSound(fat, dir, own, base, CutAt)'
      BY <1>1, <1>2, <2>9, <2>10 DEF ChainsSound, LinksSound
    <3>3. EndsSound(fat, dir, own, base)'
      BY <1>1, <1>2, <2>10 DEF ChainsSound, EndsSound
    <3>4. Linked(fat, dir, own, Loose)'
      BY <1>1, <1>2, <2>9, <2>10 DEF ChainsSound, Linked
    <3>5. NoLeak(fat, own, Fresh)'
      BY <1>1, <1>2, <2>7, <2>9, Constants DEF ChainsSound, NoLeak
    <3> QED BY <3>1, <3>2, <3>3, <3>4, <3>5 DEF ChainsSound
  <2>12. DescriptorsSound'
    BY <1>1, <1>2, <2>6, <2>9 DEF DescriptorsSound
  <2>13. Target' = Target
    BY <1>1, <2>6 DEF Target
  <2>14. BytesSound'
    BY <1>1, <1>2, <2>6, <2>13 DEF BytesSound
  <2>15. EndHere'
    <3>1. l # b
      BY <1>3, <2>1, <2>2, Marks
    <3> QED BY <1>1, <1>2, <2>2, <2>6, <2>7, <2>13, <3>1 DEF EndHere
  <2>16. TailSound'
    BY <1>1, <1>2, <2>1, <2>3, <2>6, <2>7, <2>15 DEF TailSound
  <2>17. CallSound'
    BY <2>6, <2>14, <2>16
    DEF CallSound, WalkSound, ChunkSound, AbortSound, CutSound, FreeSound, RestSound
  <2> QED BY <1>1, <2>8, <2>11, <2>12, <2>17, DiskFrame
<1> QED BY <1>5, <1>6 DEF write_grow

(* The search for the last block, and the block waiting to be linked. *)
LEMMA TailHere ==
  ASSUME IndInv, op.pc = "tail"
  PROVE  /\ mounted /\ op.kind \in {"write", "extend"} /\ op.cnt = 0 /\ op.off = 0
         /\ op.aux \in Blocks /\ own[op.aux] = NoSlot /\ fat[op.aux] = FAT_EOF
         /\ op.blk \in Blocks /\ own[op.blk] = op.ent /\ op.ent \in Slots /\ op.fd \in Fds
         /\ EndHere /\ BytesSound /\ fds[op.fd].used /\ fds[op.fd].ent = op.ent
         /\ Deleted = {} /\ CutAt = {} /\ Loose = {} /\ Fresh = {op.aux}
<1> USE DEF IndInv
<1>1. TailSound /\ BytesSound /\ mounted
  BY DEF CallSound, DescriptorsSound
<1>2. op.kind \in {"write", "extend"} /\ EndHere
  BY <1>1 DEF TailSound
<1>3. op.ent \in Slots /\ op.fd \in Fds /\ fds[op.fd].used /\ fds[op.fd].ent = op.ent
  BY <1>2, Fields DEF DescriptorsSound
<1>4. Deleted = {} /\ CutAt = {} /\ Loose = {} /\ Fresh = {op.aux}
  BY DEF Deleted, CutAt, Loose, Fresh
<1> QED BY <1>1, <1>2, <1>3, <1>4 DEF TailSound, EndHere

LEMMA TailInd ==
  ASSUME IndInv, write_tail
  PROVE  IndInv'
<1> USE DEF IndInv
<1>1. /\ op.pc = "tail" /\ fat[op.blk] # FAT_EOF
      /\ op' = [op EXCEPT !.blk = fat[op.blk]]
      /\ UNCHANGED <<mounted, active, fat, dir, fds, disk, data, reply, own, base>>
  BY DEF write_tail
<1>2. /\ mounted /\ op.kind \in {"write", "extend"} /\ op.cnt = 0
      /\ op.aux \in Blocks /\ own[op.aux] = NoSlot /\ fat[op.aux] = FAT_EOF
      /\ op.blk \in Blocks /\ own[op.blk] = op.ent /\ op.ent \in Slots
      /\ EndHere /\ BytesSound
      /\ Deleted = {} /\ CutAt = {} /\ Loose = {} /\ Fresh = {op.aux}
  BY <1>1, TailHere
<1>3. fat[op.blk] \in Blocks /\ own[fat[op.blk]] = op.ent
  BY <1>1, <1>2, NextBlock
<1>4. fat[op.blk] \in FatValues
  BY <1>3 DEF FatValues
<1>5. op' \in Op
  BY <1>1, <1>4 DEF TypeOK, Op
<1>6. op'.pc = "tail" /\ op'.kind = op.kind /\ op'.ent = op.ent /\ op'.fd = op.fd
      /\ op'.cnt = op.cnt /\ op'.rem = op.rem /\ op'.buf = op.buf /\ op'.off = op.off
      /\ op'.blk = fat[op.blk] /\ op'.aux = op.aux
  BY <1>1 DEF TypeOK, Op
<1>7. TypeOK'
  BY <1>1, <1>5 DEF TypeOK
<1>8. Deleted' = {} /\ CutAt' = {} /\ Loose' = {} /\ Fresh' = {op.aux}
  BY <1>6 DEF Deleted, CutAt, Loose, Fresh
<1>9. ChainsSound' /\ DiskSound'
  BY <1>1, <1>2, <1>8, ChainsFrame, DiskFrame
<1>10. DescriptorsSound'
  BY <1>1, <1>2, <1>6, <1>8 DEF DescriptorsSound
<1>11. Target' = Target
  BY <1>1, <1>6 DEF Target
<1>12. BytesSound' /\ EndHere'
  BY <1>1, <1>2, <1>6, <1>11 DEF BytesSound, EndHere
<1>13. TailSound'
  BY <1>1, <1>2, <1>3, <1>6, <1>12 DEF TailSound
<1>14. CallSound'
  BY <1>6, <1>12, <1>13
  DEF CallSound, WalkSound, ChunkSound, AbortSound, CutSound, FreeSound, RestSound
<1> QED BY <1>7, <1>9, <1>10, <1>14

LEMMA LinkInd ==
  ASSUME IndInv, write_link
  PROVE  IndInv'
<1> USE DEF IndInv
<1>1. /\ op.pc = "tail" /\ fat[op.blk] = FAT_EOF
      /\ UNCHANGED <<mounted, active, dir, fds, disk, data, reply>>
  BY DEF write_link
<1>2. /\ mounted /\ op.kind \in {"write", "extend"} /\ op.cnt = 0 /\ op.off = 0
      /\ op.aux \in Blocks /\ own[op.aux] = NoSlot /\ fat[op.aux] = FAT_EOF
      /\ op.blk \in Blocks /\ own[op.blk] = op.ent /\ op.ent \in Slots
      /\ EndHere /\ BytesSound /\ Deleted = {} /\ Fresh = {op.aux}
  BY <1>1, TailHere
<1>3. PICK l \in Blocks : own[l] = op.ent /\ fat[l] = FAT_EOF /\ base[l] + BlockSize = Target
  BY <1>2 DEF EndHere
<1>4. base[op.blk] \in Nat /\ base[l] \in Nat
  BY <1>2, Fields
<1>5. base[op.blk] = base[l]
  BY <1>1, <1>2, <1>3, <1>4, Marks DEF ChainsSound, EndsSound
<1>6. op.blk # op.aux
  BY <1>2, Marks
<1>7. op.aux \in FatValues /\ FAT_EOF \in FatValues /\ base[op.blk] + BlockSize \in Nat
  BY <1>2, <1>4, Marks DEF FatValues
<1>8. /\ fat' \in [Blocks -> FatValues] /\ fat'[op.blk] = op.aux
      /\ \A c \in Blocks : c # op.blk => fat'[c] = fat[c]
  <2>1. fat' = [fat EXCEPT ![op.blk] = op.aux]
    BY DEF write_link
  <2> QED BY <1>2, <1>7, <2>1 DEF TypeOK
<1>9. /\ own' \in [Blocks -> Slots \cup {NoSlot}] /\ own'[op.aux] = op.ent
      /\ \A c \in Blocks : c # op.aux => own'[c] = own[c]
  <2>1. own' = [own EXCEPT ![op.aux] = op.ent]
    BY DEF write_link
  <2> QED BY <1>2, <2>1 DEF TypeOK
<1>10. /\ base' \in [Blocks -> Nat] /\ base'[op.aux] = base[op.blk] + BlockSize
       /\ \A c \in Blocks : c # op.aux => base'[c] = base[c]
  <2>1. base' = [base EXCEPT ![op.aux] = base[op.blk] + BlockSize]
    BY DEF write_link
  <2> QED BY <1>2, <1>7, <2>1 DEF TypeOK
<1>11. op' = [op EXCEPT !.pc = "chunk", !.blk = op.aux, !.aux = FAT_EOF]
  BY DEF write_link
<1>12. op' \in Op
  BY <1>7, <1>11 DEF TypeOK, Op, Pcs
<1>13. op'.pc = "chunk" /\ op'.kind = op.kind /\ op'.ent = op.ent /\ op'.fd = op.fd
       /\ op'.cnt = op.cnt /\ op'.rem = op.rem /\ op'.buf = op.buf /\ op'.off = op.off
       /\ op'.blk = op.aux
  BY <1>11 DEF TypeOK, Op
<1>14. TypeOK'
  BY <1>1, <1>8, <1>9, <1>10, <1>12 DEF TypeOK
<1>15. ChainsSound'
  <2>1. /\ fat'[op.aux] = FAT_EOF /\ own'[op.blk] = own[op.blk] /\ base'[op.blk] = base[op.blk]
        /\ own'[op.aux] = own[op.blk] /\ own[op.blk] \in Slots
    BY <1>2, <1>6, <1>8, <1>9, <1>10
  <2>2. \A c \in Blocks : c # op.aux /\ c # op.blk =>
                            fat'[c] = fat[c] /\ own'[c] = own[c] /\ base'[c] = base[c]
    BY <1>8, <1>9, <1>10
  <2>3. UNCHANGED <<mounted, dir>> /\ op.pc # "free" /\ Fresh \subseteq {op.aux}
    BY <1>1, <1>2
  <2> QED BY <1>1, <1>2, <1>8, <1>10, <1>13, <2>1, <2>2, <2>3, Appended
<1>16. Deleted' = {}
  BY <1>13, AtRestPrimed
<1>17. DescriptorsSound'
  BY <1>1, <1>2, <1>13, <1>16 DEF DescriptorsSound
<1>18. Target' = Target
  BY <1>1, <1>13 DEF Target
<1>19. BytesSound'
  BY <1>1, <1>2, <1>13, <1>18 DEF BytesSound
<1>20. Here'
  BY <1>2, <1>3, <1>4, <1>5, <1>9, <1>10, <1>13, <1>18, Marks DEF Here
<1>21. ChunkSound'
  BY <1>2, <1>13, <1>20, Marks DEF ChunkSound
<1>22. CallSound'
  BY <1>13, <1>19, <1>21
  DEF CallSound, WalkSound, TailSound, AbortSound, CutSound, FreeSound, RestSound
<1> QED BY <1>1, <1>14, <1>15, <1>17, <1>22, DiskFrame

LEMMA ExtendDoneInd ==
  ASSUME IndInv, extend_done
  PROVE  IndInv'
<1> USE DEF IndInv
<1> DEFINE to == fds[op.fd].off
           first == dir[op.ent].first
<1>1. /\ op.kind = "extend" /\ op.pc = "chunk" /\ op.rem = 0
      /\ UNCHANGED <<mounted, active, fat, fds, disk, data, reply, own, base>>
  BY DEF extend_done
<1>2. mounted /\ ChunkSound /\ BytesSound
  BY <1>1 DEF CallSound, DescriptorsSound
<1>3. /\ op.ent \in Slots /\ op.fd \in Fds /\ fds[op.fd].used /\ fds[op.fd].ent = op.ent
      /\ to \in Nat /\ op.off \in Nat /\ op.cnt \in Nat /\ op.buf \in Seq(Byte)
      /\ dir[op.ent].size \in Nat
  BY <1>1, Fields DEF DescriptorsSound
<1>4. /\ Deleted = {} /\ CutAt = {} /\ Loose = {} /\ Fresh = {}
  BY <1>1, AtRest
<1>5. dir[op.ent].used
  BY <1>2, <1>3 DEF DescriptorsSound
<1>6. op.blk \in Blocks /\ own[op.blk] = op.ent /\ base[op.blk] + op.off = to
      /\ op.off <= BlockSize /\ dir[op.ent].size <= to /\ base[op.blk] \in Nat
  <2>1. Target = dir[op.ent].size /\ Target + op.cnt = to
    BY <1>1, <1>2, <1>3 DEF BytesSound, Target
  <2> QED BY <1>1, <1>2, <1>3, <2>1, Fields DEF ChunkSound, Here
<1>7. first \in Blocks /\ own[first] = op.ent /\ base[first] = 0
  BY <1>2, <1>3, <1>4, <1>5, <1>6 DEF ChainsSound, HeadsSound
<1>8. first \in FatValues /\ Len(op.buf) \in Nat
  BY <1>3, <1>7, LenProperties DEF FatValues
<1>9. op' = [op EXCEPT !.kind = "write", !.pc = "walk", !.blk = first, !.off = to,
                       !.rem = Len(op.buf), !.cnt = 0]
  BY DEF extend_done
<1>10. op' \in Op
  BY <1>3, <1>8, <1>9 DEF TypeOK, Op, Kinds, Pcs
<1>11. op'.pc = "walk" /\ op'.kind = "write" /\ op'.ent = op.ent /\ op'.fd = op.fd
       /\ op'.cnt = 0 /\ op'.rem = Len(op.buf) /\ op'.buf = op.buf /\ op'.off = to
       /\ op'.blk = first
  BY <1>9 DEF TypeOK, Op
<1>12. dir' = [dir EXCEPT ![op.ent].size = to]
  BY DEF extend_done
<1>13. /\ dir' \in [Slots -> Entry] /\ dir'[op.ent].size = to
       /\ \A g \in Slots : dir'[g].used = dir[g].used /\ dir'[g].first = dir[g].first
                           /\ (g # op.ent => dir'[g].size = dir[g].size)
  BY <1>3, <1>12 DEF TypeOK, Entry
<1>14. TypeOK'
  BY <1>1, <1>10, <1>13 DEF TypeOK
<1>15. /\ Deleted' = {} /\ CutAt' = {} /\ Loose' = {} /\ Fresh' = {}
  BY <1>11, AtRestPrimed
<1>16. ChainsSound'
  <2>1. HeadsSound(dir, own, base, Deleted)'
    BY <1>1, <1>2, <1>4, <1>6, <1>13, <1>15 DEF ChainsSound, HeadsSound
  <2>2. LinksSound(fat, dir, own, base, CutAt)' /\ SpacedApart(own, base)'
    BY <1>1, <1>2, <1>4, <1>13, <1>15 DEF ChainsSound, LinksSound, SpacedApart
  <2>3. EndsSound(fat, dir, own, base)'
    <3> SUFFICES ASSUME NEW c \in Blocks, own[c] \in Slots, fat[c] = FAT_EOF
                 PROVE  /\ dir'[own[c]].size <= base[c] + BlockSize
                        /\ \A k \in Blocks : own[k] = own[c] => base[k] <= base[c]
      BY <1>1 DEF EndsSound
    <3>1. /\ dir[own[c]].size <= base[c] + BlockSize
          /\ \A k \in Blocks : own[k] = own[c] => base[k] <= base[c]
      BY <1>2 DEF ChainsSound, EndsSound
    <3>2. base[c] \in Nat
      BY Fields
    <3>3. CASE own[c] = op.ent
      <4>1. base[op.blk] <= base[c]
        BY <1>6, <3>1, <3>3
      <4>2. to <= base[c] + BlockSize
        BY <1>3, <1>6, <3>2, <4>1, Marks
      <4> QED BY <1>13, <3>1, <3>3, <4>2
    <3>4. CASE own[c] # op.ent
      BY <1>13, <3>1, <3>4
    <3> QED BY <3>3, <3>4
  <2>4. Linked(fat, dir, own, Loose)' /\ NoLeak(fat, own, Fresh)'
    BY <1>1, <1>2, <1>4, <1>13, <1>15 DEF ChainsSound, Linked, NoLeak
  <2> QED BY <2>1, <2>2, <2>3, <2>4 DEF ChainsSound
<1>17. DescriptorsSound'
  BY <1>1, <1>2, <1>3, <1>4, <1>11, <1>13, <1>15, Fields DEF DescriptorsSound
<1>18. Target' = to
  BY <1>1, <1>11 DEF Target
<1>19. BytesSound'
  BY <1>3, <1>8, <1>11, <1>13, <1>18 DEF BytesSound
<1>20. Here'
  BY <1>1, <1>3, <1>7, <1>11, <1>18 DEF Here
<1>21. WalkSound'
  BY <1>11, <1>20 DEF WalkSound
<1>22. CallSound'
  BY <1>11, <1>19, <1>21
  DEF CallSound, TailSound, ChunkSound, AbortSound, CutSound, FreeSound, RestSound
<1> QED BY <1>1, <1>14, <1>16, <1>17, <1>22, DiskFrame

(* Patching bytes into a block leaves a block of bytes. *)
LEMMA PatchedType ==
  ASSUME NEW old \in [0 .. BlockSize - 1 -> Byte], NEW off \in Nat, NEW n \in Nat,
         NEW content, \A i \in 1 .. n : content[i] \in Byte
  PROVE  Patched(old, off, n, content) \in [0 .. BlockSize - 1 -> Byte]
<1>1. ASSUME NEW i \in 0 .. BlockSize - 1
      PROVE  (IF i \in off .. off + n - 1 THEN content[i - off + 1] ELSE old[i]) \in Byte
  <2>1. i \in off .. off + n - 1 => i - off + 1 \in 1 .. n
    BY Marks
  <2> QED BY <2>1
<1> QED BY <1>1 DEF Patched

(* A slice of m elements behind the first c lies in a sequence of c + r. *)
LEMMA SliceInside ==
  ASSUME NEW c \in Nat, NEW r \in Nat, NEW m \in Nat, NEW l \in Nat, m <= r, c + r = l
  PROVE  \A i \in 1 .. m : c + i \in 1 .. l
OBVIOUS

LEMMA ChunkInd ==
  ASSUME IndInv, write_chunk
  PROVE  IndInv'
<1> USE DEF IndInv
<1> DEFINE n       == Smaller(BlockSize - op.off, op.rem)
           content == IF op.kind = "extend" THEN Zeros(n) ELSE Slice(op.buf, op.cnt, n)
           done    == [op EXCEPT !.off = op.off + n, !.rem = op.rem - n, !.cnt = op.cnt + n]
           more    == op.off + n = BlockSize /\ op.rem - n > 0
<1>1. /\ op.kind \in {"extend", "write"} /\ op.pc = "chunk" /\ op.rem > 0
      /\ data' = [data EXCEPT ![op.blk] = Patched(data[op.blk], op.off, n, content)]
      /\ UNCHANGED <<mounted, active, dir, fds, disk, reply>>
  BY DEF write_chunk
<1>2. \/ ~more /\ op' = done /\ UNCHANGED <<fat, own, base>>
      \/ /\ more /\ fat[op.blk] # FAT_EOF
         /\ op' = [done EXCEPT !.blk = fat[op.blk], !.off = 0] /\ UNCHANGED <<fat, own, base>>
      \/ /\ more /\ fat[op.blk] = FAT_EOF
         /\ \E b \in Blocks :
              /\ allocate_free_block(b)
              /\ fat' = [fat EXCEPT ![b] = FAT_EOF, ![op.blk] = b]
              /\ own' = [own EXCEPT ![b] = op.ent]
              /\ base' = [base EXCEPT ![b] = base[op.blk] + BlockSize]
              /\ op' = [done EXCEPT !.blk = b, !.off = 0]
      \/ more /\ op' = [done EXCEPT !.pc = "abort"] /\ UNCHANGED <<fat, own, base>>
  BY DEF write_chunk
<1>3. /\ mounted /\ op.blk \in Blocks /\ own[op.blk] = op.ent /\ op.off < BlockSize
      /\ base[op.blk] + op.off = Target + op.cnt /\ Target \in Nat
      /\ op.ent \in Slots /\ op.fd \in Fds /\ op.off \in Nat /\ op.cnt \in Nat /\ op.rem \in Nat
      /\ base[op.blk] \in Nat /\ dir[op.ent].size \in Nat /\ fds[op.fd].off \in Nat
      /\ Deleted = {} /\ CutAt = {} /\ Loose = {} /\ Fresh = {}
  BY <1>1, ChunkHere
<1>4. n \in Nat /\ n > 0 /\ n <= op.rem /\ op.off + n <= BlockSize /\ op.rem - n \in Nat
  BY <1>1, <1>3, ChunkSize
<1>5. /\ op.kind = "write" => Target <= dir[op.ent].size /\ op.cnt + op.rem = Len(op.buf)
      /\ op.kind = "extend" => Target + op.cnt + op.rem = fds[op.fd].off
  BY <1>1 DEF CallSound, BytesSound
<1> HIDE DEF n
<1>6. \A i \in 1 .. n : content[i] \in Byte
  <2>1. CASE op.kind = "extend"
    BY <2>1, ValuesAssumption DEF Zeros
  <2>2. CASE op.kind = "write"
    <3>1. op.buf \in Seq(Byte) /\ Len(op.buf) \in Nat
      BY Fields, LenProperties
    <3>2. \A j \in 1 .. Len(op.buf) : op.buf[j] \in Byte
      BY <3>1, ElementOfSeq
    <3>3. \A i \in 1 .. n : op.cnt + i \in 1 .. Len(op.buf)
      <4>1. op.cnt \in Nat /\ op.rem \in Nat /\ n \in Nat /\ n <= op.rem
        BY <1>3, <1>4
      <4>2. op.cnt + op.rem = Len(op.buf)
        BY <1>5, <2>2
      <4> QED BY <3>1, <4>1, <4>2, SliceInside
    <3> QED BY <2>2, <3>2, <3>3 DEF Slice
  <2> QED BY <1>1, <2>1, <2>2
<1>7. data' \in [Blocks -> [0 .. BlockSize - 1 -> Byte]]
  <2> HIDE DEF content
  <2>1. data[op.blk] \in [0 .. BlockSize - 1 -> Byte]
    BY <1>3 DEF TypeOK
  <2>2. Patched(data[op.blk], op.off, n, content) \in [0 .. BlockSize - 1 -> Byte]
    BY <1>3, <1>4, <1>6, <2>1, PatchedType
  <2> QED BY <1>1, <1>3, <2>2 DEF TypeOK
<1>8. op.off + n \in Nat /\ op.cnt + n \in Nat
  BY <1>3, <1>4
<1>9. done \in Op
  BY <1>4, <1>8 DEF TypeOK, Op
<1>10. done.pc = "chunk" /\ done.kind = op.kind /\ done.ent = op.ent /\ done.fd = op.fd
       /\ done.blk = op.blk /\ done.off = op.off + n /\ done.rem = op.rem - n
       /\ done.cnt = op.cnt + n /\ done.buf = op.buf
  BY <1>1 DEF TypeOK, Op
<1> HIDE DEF content, done
(* What every way of going on has in common. *)
<1>11. ASSUME TypeOK', ChainsSound', ChunkSound' /\ AbortSound', op'.pc \in {"chunk", "abort"},
              op'.kind = op.kind, op'.ent = op.ent, op'.fd = op.fd, op'.buf = op.buf,
              op'.rem = op.rem - n, op'.cnt = op.cnt + n
       PROVE  IndInv'
  <2>1. Deleted' = {}
    BY <1>11, AtRestPrimed
  <2>2. DescriptorsSound'
    BY <1>1, <1>3, <1>11, <2>1 DEF DescriptorsSound
  <2>3. Target' = Target
    BY <1>1, <1>11 DEF Target
  <2>4. BytesSound'
    <3>1. op.cnt + n + (op.rem - n) = op.cnt + op.rem
          /\ Target + (op.cnt + n) + (op.rem - n) = Target + op.cnt + op.rem
      BY <1>3, <1>4
    <3> QED BY <1>1, <1>5, <1>11, <2>3, <3>1 DEF BytesSound
  <2>5. CallSound'
    BY <1>11, <2>4
    DEF CallSound, WalkSound, TailSound, CutSound, FreeSound, RestSound
  <2> QED BY <1>1, <1>11, <2>2, <2>5, DiskFrame
<1>12. CASE ~more /\ op' = done /\ UNCHANGED <<fat, own, base>>
  <2>1. TypeOK'
    BY <1>1, <1>7, <1>9, <1>12 DEF TypeOK
  <2>2. ChainsSound'
    BY <1>1, <1>12, Quiet
  <2>3. op'.pc = "chunk" /\ op'.kind = op.kind /\ op'.ent = op.ent /\ op'.fd = op.fd
        /\ op'.blk = op.blk /\ op'.off = op.off + n /\ op'.rem = op.rem - n
        /\ op'.cnt = op.cnt + n /\ op'.buf = op.buf
    BY <1>10, <1>12
  <2>4. Target' = Target /\ own' = own /\ base' = base
    BY <1>1, <1>12, <2>3 DEF Target
  <2>5. Here'
    BY <1>3, <1>4, <2>3, <2>4 DEF Here
  <2>6. op.rem - n > 0 => op.off + n < BlockSize
    BY <1>3, <1>4, <1>12, Marks
  <2>7. ChunkSound' /\ AbortSound'
    BY <1>1, <1>4, <2>3, <2>5, <2>6 DEF ChunkSound, AbortSound
  <2> QED BY <1>11, <2>1, <2>2, <2>3, <2>7
<1>13. CASE /\ more /\ fat[op.blk] # FAT_EOF
            /\ op' = [done EXCEPT !.blk = fat[op.blk], !.off = 0] /\ UNCHANGED <<fat, own, base>>
  <2>1. /\ fat[op.blk] \in Blocks /\ own[fat[op.blk]] = op.ent
        /\ base[fat[op.blk]] = base[op.blk] + BlockSize
    BY <1>3, <1>13, NextBlock
  <2>2. fat[op.blk] \in FatValues
    BY <2>1 DEF FatValues
  <2>3. op' \in Op
    BY <1>9, <1>13, <2>2 DEF Op
  <2>4. op'.pc = "chunk" /\ op'.kind = op.kind /\ op'.ent = op.ent /\ op'.fd = op.fd
        /\ op'.blk = fat[op.blk] /\ op'.off = 0 /\ op'.rem = op.rem - n
        /\ op'.cnt = op.cnt + n /\ op'.buf = op.buf
    BY <1>9, <1>10, <1>13 DEF Op
  <2>5. TypeOK'
    BY <1>1, <1>7, <1>13, <2>3 DEF TypeOK
  <2>6. ChainsSound'
    BY <1>1, <1>13, Quiet
  <2>7. Target' = Target
    BY <1>1, <2>4 DEF Target
  <2>8. Here'
    BY <1>3, <1>4, <1>13, <2>1, <2>4, <2>7, Marks DEF Here
  <2>9. ChunkSound' /\ AbortSound'
    BY <1>1, <2>4, <2>8, Marks DEF ChunkSound, AbortSound
  <2> QED BY <1>11, <2>4, <2>5, <2>6, <2>9
<1>14. ASSUME more, fat[op.blk] = FAT_EOF, NEW b \in Blocks, allocate_free_block(b),
              fat' = [fat EXCEPT ![b] = FAT_EOF, ![op.blk] = b],
              own' = [own EXCEPT ![b] = op.ent],
              base' = [base EXCEPT ![b] = base[op.blk] + BlockSize],
              op' = [done EXCEPT !.blk = b, !.off = 0]
       PROVE  IndInv'
  <2>1. own[b] = NoSlot /\ b # op.blk
    BY <1>3, <1>14, FreeUnowned, Marks DEF allocate_free_block, IsLeast, FreeBlocks
  <2>2. b \in FatValues /\ FAT_EOF \in FatValues /\ base[op.blk] + BlockSize \in Nat
    BY <1>3, Marks DEF FatValues
  <2>3. op' \in Op
    BY <1>9, <1>14, <2>2 DEF Op
  <2>4. op'.pc = "chunk" /\ op'.kind = op.kind /\ op'.ent = op.ent /\ op'.fd = op.fd
        /\ op'.blk = b /\ op'.off = 0 /\ op'.rem = op.rem - n
        /\ op'.cnt = op.cnt + n /\ op'.buf = op.buf
    BY <1>9, <1>10, <1>14 DEF Op
  <2>5. /\ fat' \in [Blocks -> FatValues] /\ fat'[b] = FAT_EOF /\ fat'[op.blk] = b
        /\ \A c \in Blocks : c # b /\ c # op.blk => fat'[c] = fat[c]
    BY <1>3, <1>14, <2>1, <2>2 DEF TypeOK
  <2>6. /\ own' \in [Blocks -> Slots \cup {NoSlot}] /\ own'[b] = op.ent
        /\ \A c \in Blocks : c # b => own'[c] = own[c]
    BY <1>3, <1>14 DEF TypeOK
  <2>7. /\ base' \in [Blocks -> Nat] /\ base'[b] = base[op.blk] + BlockSize
        /\ \A c \in Blocks : c # b => base'[c] = base[c]
    BY <1>14, <2>2 DEF TypeOK
  <2>8. TypeOK'
    BY <1>1, <1>7, <2>3, <2>5, <2>6, <2>7 DEF TypeOK
  <2>9. ChainsSound'
    <3>1. /\ own'[op.blk] = own[op.blk] /\ base'[op.blk] = base[op.blk]
          /\ own'[b] = own[op.blk] /\ own[op.blk] \in Slots /\ fat[op.blk] = FAT_EOF
      BY <1>3, <1>14, <2>1, <2>6, <2>7
    <3>2. \A c \in Blocks : c # b /\ c # op.blk =>
                              fat'[c] = fat[c] /\ own'[c] = own[c] /\ base'[c] = base[c]
      BY <2>5, <2>6, <2>7
    <3>3. UNCHANGED <<mounted, dir>> /\ op.pc # "free" /\ Fresh \subseteq {b} /\ b \in Blocks
      BY <1>1, <1>3
    <3> QED BY <1>3, <2>1, <2>4, <2>5, <2>7, <3>1, <3>2, <3>3, Appended
  <2>10. Target' = Target
    BY <1>1, <2>4 DEF Target
  <2>11. more /\ b \in Blocks
    BY <1>14
  <2>12. Here'
    BY <1>3, <1>4, <2>4, <2>6, <2>7, <2>10, <2>11, Marks DEF Here
  <2>13. ChunkSound' /\ AbortSound'
    BY <1>1, <2>4, <2>12, Marks DEF ChunkSound, AbortSound
  <2> QED BY <1>11, <2>4, <2>8, <2>9, <2>13
<1>15. CASE more /\ op' = [done EXCEPT !.pc = "abort"] /\ UNCHANGED <<fat, own, base>>
  <2>1. op' \in Op
    BY <1>9, <1>15 DEF Op, Pcs
  <2>2. op'.pc = "abort" /\ op'.kind = op.kind /\ op'.ent = op.ent /\ op'.fd = op.fd
        /\ op'.blk = op.blk /\ op'.off = op.off + n /\ op'.rem = op.rem - n
        /\ op'.cnt = op.cnt + n /\ op'.buf = op.buf
    BY <1>9, <1>10, <1>15 DEF Op
  <2>3. TypeOK'
    BY <1>1, <1>7, <1>15, <2>1 DEF TypeOK
  <2>4. ChainsSound'
    BY <1>1, <1>15, Quiet
  <2>5. Target' = Target
    BY <1>1, <2>2 DEF Target
  <2>6. Here'
    BY <1>3, <1>4, <1>15, <2>2, <2>5 DEF Here
  <2>7. ChunkSound' /\ AbortSound'
    BY <1>1, <1>4, <2>2, <2>6 DEF ChunkSound, AbortSound
  <2> QED BY <1>11, <2>2, <2>3, <2>4, <2>7
<1> QED BY <1>2, <1>12, <1>13, <1>14, <1>15

(* A new size for file e that its chain covers keeps the chains sound. *)
LEMMA Resized ==
  ASSUME IndInv, mounted, op.pc \notin {"free", "tail"}, op'.pc = "save",
         UNCHANGED <<mounted, fat, own, base>>, NEW e \in Slots,
         \A g \in Slots : dir'[g].used = dir[g].used /\ dir'[g].first = dir[g].first
                          /\ (g # e => dir'[g].size = dir[g].size),
         dir'[e].size \in Nat,
         \/ dir'[e].size <= dir[e].size
         \/ \E b \in Blocks : own[b] = e /\ dir'[e].size <= base[b] + BlockSize
  PROVE  ChainsSound'
<1> USE DEF IndInv
<1>1. /\ Deleted = {} /\ CutAt = {} /\ Loose = {} /\ Fresh = {}
      /\ Deleted' = {} /\ CutAt' = {} /\ Loose' = {} /\ Fresh' = {}
  BY AtRest, AtRestPrimed
<1>2. \A g \in Slots : dir[g].size \in Nat
  BY Fields
<1>3. \A c \in Blocks : base[c] \in Nat
  BY Fields
<1>4. HeadsSound(dir, own, base, Deleted)'
  <2> SUFFICES ASSUME NEW g \in Slots, dir[g].used
               PROVE  \/ /\ dir[g].first = FAT_EOF /\ dir'[g].size = 0
                         /\ \A c \in Blocks : own[c] # g
                      \/ dir[g].first \in Blocks /\ own[dir[g].first] = g /\ base[dir[g].first] = 0
    BY DEF HeadsSound
  <2>1. \/ dir[g].first = FAT_EOF /\ dir[g].size = 0 /\ \A c \in Blocks : own[c] # g
        \/ dir[g].first \in Blocks /\ own[dir[g].first] = g /\ base[dir[g].first] = 0
    BY <1>1 DEF ChainsSound, HeadsSound
  <2>2. CASE g # e
    BY <2>1, <2>2
  <2>3. CASE g = e
    BY <1>2, <2>1, <2>3
  <2> QED BY <2>2, <2>3
<1>5. LinksSound(fat, dir, own, base, CutAt)' /\ SpacedApart(own, base)'
  BY <1>1 DEF ChainsSound, LinksSound, SpacedApart
<1>6. EndsSound(fat, dir, own, base)'
  <2> SUFFICES ASSUME NEW c \in Blocks, own[c] \in Slots, fat[c] = FAT_EOF
               PROVE  /\ dir'[own[c]].size <= base[c] + BlockSize
                      /\ \A k \in Blocks : own[k] = own[c] => base[k] <= base[c]
    BY DEF EndsSound
  <2>1. /\ dir[own[c]].size <= base[c] + BlockSize
        /\ \A k \in Blocks : own[k] = own[c] => base[k] <= base[c]
    BY DEF ChainsSound, EndsSound
  <2>2. CASE own[c] # e
    BY <2>1, <2>2
  <2>3. CASE own[c] = e
    <3>1. CASE dir'[e].size <= dir[e].size
      BY <1>2, <1>3, <2>1, <2>3, <3>1, Marks
    <3>2. ASSUME NEW b \in Blocks, own[b] = e, dir'[e].size <= base[b] + BlockSize
          PROVE  dir'[e].size <= base[c] + BlockSize
      <4>1. base[b] <= base[c] /\ base[b] \in Nat /\ base[c] \in Nat
        BY <1>3, <2>1, <2>3, <3>2
      <4> QED BY <3>2, <4>1, Marks
    <3> QED BY <2>1, <2>3, <3>1, <3>2
  <2> QED BY <2>2, <2>3
<1>7. Linked(fat, dir, own, Loose)' /\ NoLeak(fat, own, Fresh)'
  BY <1>1 DEF ChainsSound, Linked, NoLeak
<1> QED BY <1>4, <1>5, <1>6, <1>7 DEF ChainsSound

(* A new size for one directory entry leaves the rest of the directory alone. *)
LEMMA SizeChanged ==
  ASSUME NEW d \in [Slots -> Entry], NEW e \in Slots, NEW z \in Nat, NEW d2,
         d2 = [d EXCEPT ![e].size = z]
  PROVE  /\ d2 \in [Slots -> Entry] /\ d2[e].size = z
         /\ \A g \in Slots : d2[g].used = d[g].used /\ d2[g].first = d[g].first
                             /\ (g # e => d2[g].size = d[g].size)
BY DEF Entry

LEMMA FinishInd ==
  ASSUME IndInv, NEW from, NEW result \in Int, write_finish(from, result),
         from = Target, op.kind \in {"write", "extend"}, op.pc \in {"chunk", "abort"}
  PROVE  IndInv'
<1> USE DEF IndInv
<1> DEFINE to   == from + op.cnt
           size == Larger(dir[op.ent].size, to)
<1>1. /\ fds' = [fds EXCEPT ![op.fd].off = to]
      /\ dir' = [dir EXCEPT ![op.ent].size = size]
      /\ reply' = Return(result, <<>>)
      /\ op' = [op EXCEPT !.pc = "save"]
      /\ UNCHANGED <<mounted, active, fat, disk, data, own, base>>
  BY DEF write_finish
<1>2. /\ mounted /\ op.ent \in Slots /\ op.fd \in Fds /\ op.cnt \in Nat /\ op.off \in Nat
      /\ dir[op.ent].size \in Nat /\ Target \in Nat /\ fds[op.fd].used
      /\ fds[op.fd].ent = op.ent
  <2>1. mounted /\ fds[op.fd].used /\ fds[op.fd].ent = op.ent
    BY DEF DescriptorsSound
  <2>2. op.fd \in Fds /\ op.ent \in Slots
    BY Fields
  <2>3. Target \in Nat
    BY <2>2, Fields DEF Target
  <2> QED BY <2>1, <2>2, <2>3, Fields
<1>3. to \in Nat /\ size \in Nat
  BY <1>2 DEF Larger
<1>4. \/ to <= dir[op.ent].size
      \/ op.blk \in Blocks /\ own[op.blk] = op.ent /\ to <= base[op.blk] + BlockSize
  <2>1. Target <= dir[op.ent].size
    BY <1>2 DEF CallSound, BytesSound, Target
  <2>2. op.cnt = 0 \/ (Here /\ op.off <= BlockSize)
    BY DEF CallSound, ChunkSound, AbortSound
  <2>3. CASE op.cnt = 0
    BY <1>2, <2>1, <2>3
  <2>4. CASE Here /\ op.off <= BlockSize
    <3>1. /\ op.blk \in Blocks /\ own[op.blk] = op.ent
          /\ base[op.blk] + op.off = Target + op.cnt
      BY <2>4 DEF Here
    <3>2. base[op.blk] \in Nat
      BY <3>1, Fields
    <3> QED BY <1>2, <2>4, <3>1, <3>2, Marks
  <2> QED BY <2>2, <2>3, <2>4
<1>5. op' \in Op /\ op'.pc = "save" /\ op'.kind = op.kind /\ op'.fd = op.fd /\ op'.ent = op.ent
  BY <1>1 DEF TypeOK, Op, Pcs
<1>6. CallSound' /\ Deleted' = {}
  BY <1>5, ToSave
<1> HIDE DEF size, to
<1>7. /\ fds' \in [Fds -> Fd]
      /\ \A c \in Fds : fds'[c].used = fds[c].used /\ fds'[c].ent = fds[c].ent
  BY <1>1, <1>2, <1>3 DEF TypeOK, Fd
<1>8. /\ dir' \in [Slots -> Entry] /\ dir'[op.ent].size = size
      /\ \A g \in Slots : dir'[g].used = dir[g].used /\ dir'[g].first = dir[g].first
                          /\ (g # op.ent => dir'[g].size = dir[g].size)
  <2>1. dir \in [Slots -> Entry] /\ op.ent \in Slots /\ size \in Nat
    BY <1>2, <1>3 DEF TypeOK
  <2>2. dir' = [dir EXCEPT ![op.ent].size = size]
    BY <1>1
  <2> QED BY <2>1, <2>2, SizeChanged
<1>9. reply' \in [val : Int, bytes : Seq(Byte)]
  <2>1. <<>> \in Seq(Byte)
    OBVIOUS
  <2>2. reply' = [val |-> result, bytes |-> <<>>]
    BY <1>1 DEF Return
  <2> QED BY <2>1, <2>2
<1>10. TypeOK'
  BY <1>1, <1>5, <1>7, <1>8, <1>9 DEF TypeOK
<1>11. \/ dir'[op.ent].size <= dir[op.ent].size
       \/ \E b \in Blocks : own[b] = op.ent /\ dir'[op.ent].size <= base[b] + BlockSize
  <2>1. size = dir[op.ent].size \/ (size = to /\ to > dir[op.ent].size)
    BY <1>2, <1>3 DEF size, Larger
  <2> QED BY <1>2, <1>3, <1>4, <1>8, <2>1
<1>12. ChainsSound'
  <2>1. op.pc \notin {"free", "tail"} /\ UNCHANGED <<mounted, fat, own, base>>
    BY <1>1
  <2> QED BY <1>2, <1>3, <1>5, <1>8, <1>11, <2>1, Resized
<1>13. DescriptorsSound'
  BY <1>1, <1>2, <1>5, <1>6, <1>7, <1>8, Fields DEF DescriptorsSound
<1> QED BY <1>1, <1>6, <1>10, <1>12, <1>13, DiskFrame

LEMMA WriteEndInd ==
  ASSUME IndInv, extend_abort \/ write_return \/ extend_error \/ write_error
  PROVE  IndInv'
<1>1. op.cnt \in Int /\ -1 \in Int
  BY Fields DEF IndInv
<1>2. CASE extend_abort \/ extend_error
  <2>1. op.kind = "extend" /\ op.pc \in {"chunk", "abort"} /\ write_finish(Target, op.cnt)
    BY <1>2 DEF extend_abort, extend_error, Target
  <2> QED BY <1>1, <2>1, FinishInd
<1>3. CASE write_return \/ write_error
  <2>1. /\ op.kind = "write" /\ op.pc \in {"chunk", "abort"}
        /\ write_finish(Target, op.cnt) \/ write_finish(Target, -1)
    BY <1>3 DEF write_return, write_error, Target
  <2> QED BY <1>1, <2>1, FinishInd
<1> QED BY <1>2, <1>3
-----------------------------------------------------------------------------
(* fs_delete and fs_truncate *)

(* A file in the directory and the blocks of its chain, between two calls. *)
LEMMA HeadHere ==
  ASSUME IndInv, mounted, Deleted = {}, NEW e \in Slots, dir[e].used
  PROVE  \/ dir[e].first = FAT_EOF /\ \A b \in Blocks : own[b] # e
         \/ dir[e].first \in Blocks /\ own[dir[e].first] = e /\ base[dir[e].first] = 0
BY DEF IndInv, ChainsSound, HeadsSound

LEMMA DeleteInd ==
  ASSUME IndInv, NEW name \in Names, fs_delete(name)
  PROVE  IndInv'
<1> USE DEF IndInv
<1>1. PICK e \in Slots :
        /\ op.pc = "idle" /\ mounted /\ dir[e].used
        /\ \A d \in Fds : ~(fds[d].used /\ fds[d].ent = e)
        /\ op' = [Idle EXCEPT !.kind = "delete", !.pc = "free", !.ent = e, !.blk = dir[e].first]
        /\ reply' = NoReply
        /\ UNCHANGED <<mounted, active, fat, dir, fds, disk, data, own, base>>
  BY DEF fs_delete, find_file_in_directory, IsLeast
<1>2. dir[e].first \in FatValues
  BY Fields
<1>3. op' \in Op
  BY <1>1, <1>2, Constants DEF Op, Kinds, Pcs
<1>4. op'.kind = "delete" /\ op'.pc = "free" /\ op'.ent = e /\ op'.blk = dir[e].first
  BY <1>1 DEF Idle
<1>5. TypeOK'
  BY <1>1, <1>3, Constants DEF TypeOK
<1>6. Deleted = {} /\ CutAt = {} /\ Loose = {} /\ Fresh = {}
  BY <1>1, IdleNow
<1>7. ChainsSound' /\ DiskSound'
  BY <1>1, <1>6, ChainsFrame, DiskFrame
<1>8. Deleted' = {e}
  BY <1>4 DEF Deleted
<1>9. DescriptorsSound'
  BY <1>1, <1>4, <1>8 DEF DescriptorsSound
<1>10. FreeSound'
  <2>1. \A c \in Blocks : base[c] \in Nat
    BY Fields
  <2>2. \/ dir[e].first = FAT_EOF /\ \A b \in Blocks : own[b] # e
        \/ dir[e].first \in Blocks /\ own[dir[e].first] = e /\ base[dir[e].first] = 0
    BY <1>1, <1>6, HeadHere
  <2>3. \A c \in Blocks : own[c] = e => dir[e].first \in Blocks /\ base[dir[e].first] <= base[c]
    BY <2>1, <2>2
  <2> QED BY <1>1, <1>4, <2>2, <2>3 DEF FreeSound
<1>11. CallSound'
  BY <1>4, <1>10
  DEF CallSound, BytesSound, WalkSound, TailSound, ChunkSound, AbortSound, CutSound, RestSound
<1> QED BY <1>5, <1>7, <1>9, <1>11

(* The block about to be freed: the block kept last is another one, no block
   outside the cut leads to it, and every other block behind it is behind its
   successor. *)
LEMMA FreeHere ==
  ASSUME IndInv, op.pc = "free", op.blk \notin {FAT_EOF, FAT_FREE}
  PROVE  /\ mounted /\ op.blk \in Blocks /\ own[op.blk] = op.ent /\ op.ent \in Slots
         /\ op.blk \notin CutAt
         /\ \/ fat[op.blk] = FAT_EOF
            \/ /\ fat[op.blk] \in Blocks /\ own[fat[op.blk]] = op.ent
               /\ base[fat[op.blk]] = base[op.blk] + BlockSize /\ fat[op.blk] # op.blk
         /\ \A c \in Blocks : own[c] = op.ent /\ base[op.blk] <= base[c] /\ c # op.blk =>
              fat[op.blk] \in Blocks /\ base[fat[op.blk]] <= base[c]
         /\ \A c \in Blocks \ CutAt : own[c] \in Slots => fat[c] # op.blk
<1> USE DEF IndInv
<1>1. mounted /\ FreeSound /\ op.ent \in Slots
  BY Fields DEF DescriptorsSound, CallSound
<1>2. op.blk \in Blocks /\ own[op.blk] = op.ent
  BY <1>1 DEF FreeSound
<1>3. /\ LinksSound(fat, dir, own, base, CutAt) /\ SpacedApart(own, base)
      /\ EndsSound(fat, dir, own, base)
  BY <1>1 DEF ChainsSound
<1>4. \A c \in Blocks : base[c] \in Nat
  BY Fields
<1>5. op.kind = "truncate" => op.aux \in Blocks /\ own[op.aux] = op.ent
                              /\ base[op.aux] + BlockSize <= base[op.blk] /\ op.aux # op.blk
  BY <1>1, <1>2, <1>4, Marks DEF FreeSound
<1>6. op.blk \notin CutAt
  BY <1>5 DEF CutAt
<1>7. \/ fat[op.blk] = FAT_EOF
      \/ /\ fat[op.blk] \in Blocks /\ own[fat[op.blk]] = op.ent
         /\ base[fat[op.blk]] = base[op.blk] + BlockSize /\ fat[op.blk] # op.blk
  BY <1>1, <1>2, <1>4, <1>6, NextBlock, Marks
<1>8. ASSUME NEW c \in Blocks, own[c] = op.ent, base[op.blk] <= base[c], c # op.blk
      PROVE  fat[op.blk] \in Blocks /\ base[fat[op.blk]] <= base[c]
  <2>1. base[op.blk] + BlockSize <= base[c]
    BY <1>1, <1>2, <1>3, <1>4, <1>8, Marks DEF SpacedApart
  <2>2. fat[op.blk] # FAT_EOF
    <3>1. fat[op.blk] = FAT_EOF => base[c] <= base[op.blk]
      BY <1>1, <1>2, <1>3, <1>8 DEF EndsSound
    <3> QED BY <1>2, <1>4, <1>8, <2>1, <3>1, Marks
  <2> QED BY <1>7, <2>1, <2>2
<1>9. ASSUME NEW c \in Blocks \ CutAt, own[c] \in Slots, fat[c] = op.blk
      PROVE  FALSE
  <2>1. own[c] = op.ent /\ base[op.blk] = base[c] + BlockSize
    BY <1>2, <1>3, <1>9 DEF LinksSound
  <2>2. ~(base[op.blk] <= base[c])
    BY <1>2, <1>4, <2>1, Marks
  <2>3. op.kind = "truncate" /\ base[c] <= base[op.aux]
    BY <1>1, <2>1, <2>2 DEF FreeSound
  <2>4. c # op.aux
    BY <1>1, <1>9, <2>3 DEF CutAt
  <2>5. base[c] + BlockSize <= base[op.aux] \/ base[op.aux] + BlockSize <= base[c]
    BY <1>1, <1>3, <1>5, <2>1, <2>3, <2>4 DEF SpacedApart
  <2> QED BY <1>2, <1>4, <1>5, <2>1, <2>3, <2>5, Marks
<1> QED BY <1>1, <1>2, <1>6, <1>7, <1>8, <1>9

LEMMA FreeInd ==
  ASSUME IndInv, free_block_chain
  PROVE  IndInv'
<1> USE DEF IndInv
<1> DEFINE nxt == fat[op.blk]
<1>1. /\ op.pc = "free" /\ op.blk \notin {FAT_EOF, FAT_FREE}
      /\ fat' = [fat EXCEPT ![op.blk] = FAT_FREE]
      /\ own' = [own EXCEPT ![op.blk] = NoSlot]
      /\ op' = [op EXCEPT !.blk = nxt]
      /\ UNCHANGED <<mounted, active, dir, fds, disk, data, reply, base>>
  BY DEF free_block_chain
<1>2. /\ mounted /\ op.blk \in Blocks /\ own[op.blk] = op.ent /\ op.ent \in Slots
      /\ op.blk \notin CutAt
      /\ \/ nxt = FAT_EOF
         \/ /\ nxt \in Blocks /\ own[nxt] = op.ent
            /\ base[nxt] = base[op.blk] + BlockSize /\ nxt # op.blk
      /\ \A c \in Blocks : own[c] = op.ent /\ base[op.blk] <= base[c] /\ c # op.blk =>
           nxt \in Blocks /\ base[nxt] <= base[c]
      /\ \A c \in Blocks \ CutAt : own[c] \in Slots => fat[c] # op.blk
  BY <1>1, FreeHere
<1>3. nxt \in FatValues /\ FAT_FREE \in FatValues
  BY <1>2, Fields DEF FatValues
<1>4. op' \in Op
  BY <1>1, <1>3 DEF TypeOK, Op
<1>5. op'.pc = "free" /\ op'.kind = op.kind /\ op'.ent = op.ent /\ op'.fd = op.fd
      /\ op'.blk = nxt /\ op'.aux = op.aux /\ op'.rem = op.rem
  BY <1>1 DEF TypeOK, Op
<1>6. /\ fat' \in [Blocks -> FatValues] /\ fat'[op.blk] = FAT_FREE
      /\ \A c \in Blocks : c # op.blk => fat'[c] = fat[c]
  BY <1>1, <1>2, <1>3 DEF TypeOK
<1>7. /\ own' \in [Blocks -> Slots \cup {NoSlot}] /\ own'[op.blk] = NoSlot
      /\ \A c \in Blocks : c # op.blk => own'[c] = own[c]
  BY <1>1, <1>2 DEF TypeOK
<1>8. TypeOK'
  BY <1>1, <1>4, <1>6, <1>7 DEF TypeOK
<1>9. Deleted' = Deleted /\ CutAt' = CutAt /\ Loose' = {nxt} /\ Fresh' = {} /\ Fresh = {}
      /\ Loose = {op.blk}
  BY <1>1, <1>5 DEF Deleted, CutAt, Loose, Fresh
<1>10. UNCHANGED <<mounted, active, dir, fds, disk, base>>
  BY <1>1
<1>11. FreeSound /\ \A c \in Blocks : base[c] \in Nat
  BY Fields DEF CallSound
<1>12. \A c \in Blocks : own'[c] \in Slots => c # op.blk /\ own'[c] = own[c] /\ fat'[c] = fat[c]
  BY <1>6, <1>7, Marks
<1> HIDE DEF nxt
<1>13. HeadsSound(dir, own, base, Deleted)'
  <2> SUFFICES ASSUME NEW e \in Slots \ Deleted, dir[e].used
               PROVE  \/ /\ dir[e].first = FAT_EOF /\ dir[e].size = 0
                         /\ \A b \in Blocks : own'[b] # e
                      \/ /\ dir[e].first \in Blocks /\ own'[dir[e].first] = e
                         /\ base[dir[e].first] = 0
    BY <1>9, <1>10 DEF HeadsSound
  <2>1. \/ dir[e].first = FAT_EOF /\ dir[e].size = 0 /\ \A b \in Blocks : own[b] # e
        \/ dir[e].first \in Blocks /\ own[dir[e].first] = e /\ base[dir[e].first] = 0
    BY <1>2 DEF ChainsSound, HeadsSound
  <2>2. CASE dir[e].first = FAT_EOF /\ dir[e].size = 0 /\ \A b \in Blocks : own[b] # e
    BY <1>12, <2>2
  <2>3. CASE dir[e].first \in Blocks /\ own[dir[e].first] = e /\ base[dir[e].first] = 0
    <3>1. dir[e].first # op.blk
      <4>1. CASE op.kind = "delete"
        <5>1. e # op.ent
          BY <1>1, <4>1 DEF Deleted
        <5> QED BY <1>2, <2>3, <5>1
      <4>2. CASE op.kind = "truncate"
        <5>1. op.aux \in Blocks /\ base[op.aux] + BlockSize <= base[op.blk]
          BY <1>1, <1>2, <1>11, <4>2 DEF FreeSound
        <5> QED BY <1>2, <1>11, <2>3, <5>1, Marks
      <4> QED BY <1>1, <1>11, <4>1, <4>2 DEF FreeSound
    <3> QED BY <1>7, <2>3, <3>1
  <2> QED BY <2>1, <2>2, <2>3
<1>14. LinksSound(fat, dir, own, base, CutAt)'
  <2> SUFFICES ASSUME NEW b \in Blocks, own'[b] \in Slots
               PROVE  /\ dir[own'[b]].used
                      /\ fat'[b] # FAT_FREE
                      /\ fat'[b] \in Blocks /\ b \notin CutAt =>
                           own'[fat'[b]] = own'[b] /\ base[fat'[b]] = base[b] + BlockSize
    BY <1>9, <1>10 DEF LinksSound
  <2>1. own'[b] = own[b] /\ fat'[b] = fat[b]
    BY <1>12
  <2>2. /\ dir[own[b]].used
        /\ fat[b] # FAT_FREE
        /\ fat[b] \in Blocks /\ b \notin CutAt => own[fat[b]] = own[b] /\ base[fat[b]] = base[b] + BlockSize
    BY <1>2, <2>1 DEF ChainsSound, LinksSound
  <2>3. b \notin CutAt => fat[b] # op.blk
    BY <1>2, <2>1
  <2> QED BY <1>7, <2>1, <2>2, <2>3
<1>15. SpacedApart(own, base)' /\ EndsSound(fat, dir, own, base)'
  <2>1. SpacedApart(own, base) /\ EndsSound(fat, dir, own, base)
    BY <1>2 DEF ChainsSound
  <2>2. SpacedApart(own, base)'
    BY <1>10, <1>12, <2>1 DEF SpacedApart
  <2>3. EndsSound(fat, dir, own, base)'
    BY <1>10, <1>12, <2>1 DEF EndsSound
  <2> QED BY <2>2, <2>3
<1>16. Linked(fat, dir, own, Loose)'
  <2> SUFFICES ASSUME NEW b \in Blocks, b # nxt, own'[b] \in Slots
               PROVE  b = dir[own'[b]].first
                      \/ \E c \in Blocks : own'[c] = own'[b] /\ fat'[c] = b
    BY <1>9, <1>10 DEF Linked
  <2>1. b # op.blk /\ own'[b] = own[b]
    BY <1>12
  <2>2. b = dir[own[b]].first \/ \E c \in Blocks : own[c] = own[b] /\ fat[c] = b
    BY <1>2, <1>9, <2>1 DEF ChainsSound, Linked
  <2>3. ASSUME NEW c \in Blocks, own[c] = own[b], fat[c] = b
        PROVE  own'[c] = own'[b] /\ fat'[c] = b
    <3>1. c # op.blk
      BY <2>3 DEF nxt
    <3> QED BY <1>6, <1>7, <2>1, <2>3, <3>1
  <2> QED BY <2>1, <2>2, <2>3
<1>17. NoLeak(fat, own, Fresh)'
  <2>1. NoLeak(fat, own, {})
    BY <1>2, <1>9 DEF ChainsSound
  <2> QED BY <1>6, <1>7, <1>9, <2>1, Constants DEF NoLeak
<1>18. ChainsSound'
  BY <1>13, <1>14, <1>15, <1>16, <1>17 DEF ChainsSound
<1>19. DiskSound' /\ DescriptorsSound'
  <2>1. DiskSound'
    BY <1>10, DiskFrame
  <2>2. DescriptorsSound'
    BY <1>2, <1>5, <1>9, <1>10 DEF DescriptorsSound
  <2> QED BY <2>1, <2>2
<1>20. FreeSound'
  <2>1. nxt = FAT_EOF \/ (nxt \in Blocks /\ own'[nxt] = op.ent)
    BY <1>2, <1>7
  <2>2. \A c \in Blocks : own'[c] = op.ent => c # op.blk /\ own[c] = op.ent
    BY <1>2, <1>12
  <2>3. CASE op.kind = "delete"
    <3>1. \A c \in Blocks : own[c] = op.ent => base[op.blk] <= base[c]
      BY <1>1, <1>11, <2>3 DEF FreeSound
    <3>2. \A c \in Blocks : own'[c] = op.ent => nxt \in Blocks /\ base[nxt] <= base[c]
      BY <1>2, <2>2, <3>1
    <3>3. dir[op.ent].used
      BY <1>1, <1>11, <2>3 DEF FreeSound
    <3> QED BY <1>5, <1>10, <2>1, <2>3, <3>2, <3>3 DEF FreeSound
  <2>4. CASE op.kind = "truncate"
    <3>1. /\ op.aux \in Blocks /\ own[op.aux] = op.ent
          /\ op.rem <= dir[op.ent].size /\ op.rem <= base[op.aux] + BlockSize
          /\ base[op.aux] + BlockSize <= base[op.blk]
          /\ fat[op.aux] \in Blocks \ {op.blk} => own[fat[op.aux]] = NoSlot
          /\ \A c \in Blocks : own[c] = op.ent => base[c] <= base[op.aux] \/ base[op.blk] <= base[c]
      BY <1>1, <1>2, <1>11, <2>4 DEF FreeSound
    <3>2. op.aux # op.blk
      BY <1>2, <1>11, <3>1, Marks
    <3>3. own'[op.aux] = op.ent /\ fat'[op.aux] = fat[op.aux]
      BY <1>6, <1>7, <3>1, <3>2
    <3>4. nxt \in Blocks => base[op.aux] + BlockSize <= base[nxt]
      BY <1>2, <1>11, <3>1, Marks
    <3>5. fat'[op.aux] \in Blocks \ {nxt} => own'[fat'[op.aux]] = NoSlot
      BY <1>7, <3>1, <3>3
    <3>6. \A c \in Blocks : own'[c] = op.ent =>
            base[c] <= base[op.aux] \/ (nxt \in Blocks /\ base[nxt] <= base[c])
      BY <1>2, <2>2, <3>1
    <3> QED BY <1>5, <1>10, <2>1, <2>4, <3>1, <3>3, <3>4, <3>5, <3>6 DEF FreeSound
  <2> QED BY <1>1, <1>11, <2>3, <2>4 DEF FreeSound
<1>21. CallSound'
  <2>1. op.kind \in {"delete", "truncate"}
    BY <1>1, <1>11 DEF FreeSound
  <2> QED BY <1>5, <1>20, <2>1
      DEF CallSound, BytesSound, WalkSound, TailSound, ChunkSound, AbortSound, CutSound, RestSound
<1> QED BY <1>8, <1>18, <1>19, <1>21

LEMMA DeleteReturnInd ==
  ASSUME IndInv, delete_return
  PROVE  IndInv'
<1> USE DEF IndInv
<1>1. /\ op.kind = "delete" /\ op.pc = "free" /\ op.blk \in {FAT_EOF, FAT_FREE}
      /\ dir' = [dir EXCEPT ![op.ent] = EmptyEntry]
      /\ op' = [op EXCEPT !.pc = "save"]
      /\ UNCHANGED <<mounted, active, fat, fds, disk, data, reply, own, base>>
  BY DEF delete_return
<1>2. mounted /\ op.ent \in Slots /\ op.blk \notin Blocks
  BY <1>1, Fields, Marks DEF DescriptorsSound
<1>3. \A c \in Blocks : own[c] # op.ent
  BY <1>1, <1>2 DEF CallSound, FreeSound
<1>4. op' \in Op /\ op'.pc = "save" /\ op'.kind = "delete"
  BY <1>1 DEF TypeOK, Op, Pcs
<1>5. CallSound' /\ Deleted' = {} /\ CutAt' = {} /\ Loose' = {} /\ Fresh' = {}
  BY <1>4, ToSave
<1>6. /\ dir' \in [Slots -> Entry] /\ ~dir'[op.ent].used
      /\ \A g \in Slots : g # op.ent => dir'[g] = dir[g]
  BY <1>1, <1>2, Constants DEF TypeOK, EmptyEntry
<1>7. TypeOK'
  BY <1>1, <1>4, <1>6 DEF TypeOK
<1>8. Deleted = {op.ent} /\ CutAt = {} /\ Loose = {op.blk} /\ Fresh = {}
  BY <1>1 DEF Deleted, CutAt, Loose, Fresh
<1>9. UNCHANGED <<mounted, active, fat, fds, disk, own, base>>
  BY <1>1
<1>10. HeadsSound(dir, own, base, Deleted)'
  BY <1>2, <1>5, <1>6, <1>8, <1>9 DEF ChainsSound, HeadsSound
<1>11. LinksSound(fat, dir, own, base, CutAt)'
  BY <1>2, <1>3, <1>5, <1>6, <1>8, <1>9 DEF ChainsSound, LinksSound
<1>12. SpacedApart(own, base)' /\ EndsSound(fat, dir, own, base)'
  BY <1>2, <1>3, <1>6, <1>9 DEF ChainsSound, SpacedApart, EndsSound
<1>13. Linked(fat, dir, own, Loose)'
  BY <1>2, <1>3, <1>6, <1>8, <1>9 DEF ChainsSound, Linked
<1>14. NoLeak(fat, own, Fresh)'
  BY <1>2, <1>5, <1>8, <1>9 DEF ChainsSound, NoLeak
<1>15. ChainsSound'
  BY <1>10, <1>11, <1>12, <1>13, <1>14 DEF ChainsSound
<1>16. DescriptorsSound'
  <2>1. \A d \in Fds : fds[d].ent \in Slots
    BY Fields
  <2> QED BY <1>2, <1>4, <1>5, <1>6, <1>8, <1>9, <2>1 DEF DescriptorsSound
<1> QED BY <1>5, <1>7, <1>9, <1>15, <1>16, DiskFrame

LEMMA TruncateInd ==
  ASSUME IndInv, NEW d \in Fds, NEW length \in Nat, fs_truncate(d, length)
  PROVE  IndInv'
<1> USE DEF IndInv
<1> DEFINE e == fds[d].ent
           len == length % UintMod
<1>1. /\ op.pc = "idle" /\ mounted /\ fds[d].used /\ len <= dir[e].size
      /\ op' = [Idle EXCEPT !.kind = "truncate", !.pc = "cut", !.fd = d, !.ent = e,
                            !.blk = dir[e].first, !.rem = len]
      /\ reply' = NoReply
      /\ UNCHANGED <<mounted, active, fat, dir, fds, disk, data, own, base>>
  BY DEF fs_truncate
<1>2. len \in Nat
  BY SizesAssumption
<1>3. e \in Slots /\ dir[e].first \in FatValues /\ dir[e].used
  BY <1>1, Fields DEF DescriptorsSound
<1> HIDE DEF len
<1>4. op' \in Op
  BY <1>1, <1>2, <1>3, Constants DEF Op, Kinds, Pcs
<1>5. op'.kind = "truncate" /\ op'.pc = "cut" /\ op'.fd = d /\ op'.ent = e
      /\ op'.blk = dir[e].first /\ op'.rem = len /\ op'.off = 0
  BY <1>1 DEF Idle
<1>6. TypeOK'
  BY <1>1, <1>4, Constants DEF TypeOK
<1>7. Deleted = {} /\ CutAt = {} /\ Loose = {} /\ Fresh = {} /\ Deleted' = {}
  BY <1>1, <1>5, IdleNow, AtRestPrimed
<1>8. ChainsSound' /\ DiskSound'
  BY <1>1, Quiet
<1>9. DescriptorsSound'
  BY <1>1, <1>5, <1>7 DEF DescriptorsSound
<1>10. CutSound'
  <2>1. \/ dir[e].first = FAT_EOF
        \/ dir[e].first \in Blocks /\ own[dir[e].first] = e /\ base[dir[e].first] = 0
    BY <1>1, <1>3, <1>7, HeadHere
  <2> QED BY <1>1, <1>5, <2>1 DEF CutSound
<1>11. CallSound'
  BY <1>5, <1>10
  DEF CallSound, BytesSound, WalkSound, TailSound, ChunkSound, AbortSound, FreeSound, RestSound
<1> QED BY <1>6, <1>8, <1>9, <1>11

(* The block fs_truncate looks at, and its successor. *)
LEMMA CutHere ==
  ASSUME IndInv, op.pc = "cut", op.blk # FAT_EOF
  PROVE  /\ mounted /\ op.kind = "truncate" /\ op.ent \in Slots /\ op.rem <= dir[op.ent].size
         /\ op.blk \in Blocks /\ own[op.blk] = op.ent /\ base[op.blk] = op.off
         /\ \/ fat[op.blk] = FAT_EOF
            \/ /\ fat[op.blk] \in Blocks /\ own[fat[op.blk]] = op.ent
               /\ base[fat[op.blk]] = base[op.blk] + BlockSize
         /\ fat[op.blk] \in FatValues /\ op.off \in Nat /\ op.rem \in Nat
         /\ Deleted = {} /\ CutAt = {} /\ Loose = {} /\ Fresh = {}
<1> USE DEF IndInv
<1>1. /\ mounted /\ op.kind = "truncate" /\ op.rem <= dir[op.ent].size
      /\ op.blk \in Blocks /\ own[op.blk] = op.ent /\ base[op.blk] = op.off
  BY DEF DescriptorsSound, CallSound, CutSound
<1>2. op.ent \in Slots /\ fat[op.blk] \in FatValues /\ op.off \in Nat /\ op.rem \in Nat
  BY <1>1, Fields
<1>3. Deleted = {} /\ CutAt = {} /\ Loose = {} /\ Fresh = {}
  BY AtRest
<1>4. \/ fat[op.blk] = FAT_EOF
      \/ /\ fat[op.blk] \in Blocks /\ own[fat[op.blk]] = op.ent
         /\ base[fat[op.blk]] = base[op.blk] + BlockSize
  BY <1>1, <1>2, <1>3, NextBlock
<1> QED BY <1>1, <1>2, <1>3, <1>4

LEMMA TruncateWalkInd ==
  ASSUME IndInv, truncate_walk
  PROVE  IndInv'
<1> USE DEF IndInv
<1> DEFINE nxt == fat[op.blk]
           next == op.off + BlockSize
<1>1. /\ op.pc = "cut" /\ op.blk # FAT_EOF
      /\ op' = [op EXCEPT !.blk = nxt, !.off = next]
      /\ UNCHANGED <<mounted, active, fat, dir, fds, disk, data, reply, own, base>>
  BY DEF truncate_walk
<1>2. /\ mounted /\ op.kind = "truncate" /\ op.ent \in Slots /\ op.rem <= dir[op.ent].size
      /\ base[op.blk] = op.off
      /\ \/ nxt = FAT_EOF
         \/ nxt \in Blocks /\ own[nxt] = op.ent /\ base[nxt] = base[op.blk] + BlockSize
      /\ nxt \in FatValues /\ op.off \in Nat
      /\ Deleted = {}
  BY <1>1, CutHere
<1>3. next \in Nat
  BY <1>2, Marks
<1>4. op' \in Op
  BY <1>1, <1>2, <1>3 DEF TypeOK, Op
<1>5. op'.pc = "cut" /\ op'.kind = "truncate" /\ op'.ent = op.ent /\ op'.fd = op.fd
      /\ op'.blk = nxt /\ op'.off = next /\ op'.rem = op.rem
  BY <1>1, <1>2 DEF TypeOK, Op
<1>6. TypeOK'
  BY <1>1, <1>4 DEF TypeOK
<1>7. ChainsSound' /\ DiskSound' /\ Deleted' = {}
  BY <1>1, <1>5, Quiet, AtRestPrimed
<1>8. DescriptorsSound'
  BY <1>1, <1>2, <1>5, <1>7 DEF DescriptorsSound
<1>9. CutSound'
  BY <1>1, <1>2, <1>5 DEF CutSound
<1>10. CallSound'
  BY <1>5, <1>9
  DEF CallSound, BytesSound, WalkSound, TailSound, ChunkSound, AbortSound, FreeSound, RestSound
<1> QED BY <1>6, <1>7, <1>8, <1>10

LEMMA TruncateCutInd ==
  ASSUME IndInv, truncate_cut
  PROVE  IndInv'
<1> USE DEF IndInv
<1> DEFINE nxt == fat[op.blk]
<1>1. /\ op.pc = "cut" /\ op.blk # FAT_EOF /\ op.off + BlockSize > op.rem
      /\ op' = [op EXCEPT !.pc = "free", !.aux = op.blk, !.blk = nxt]
      /\ UNCHANGED <<mounted, active, fat, dir, fds, disk, data, reply, own, base>>
  BY DEF truncate_cut
<1>2. /\ mounted /\ op.kind = "truncate" /\ op.ent \in Slots /\ op.rem <= dir[op.ent].size
      /\ op.blk \in Blocks /\ own[op.blk] = op.ent /\ base[op.blk] = op.off
      /\ \/ nxt = FAT_EOF
         \/ nxt \in Blocks /\ own[nxt] = op.ent /\ base[nxt] = base[op.blk] + BlockSize
      /\ nxt \in FatValues /\ op.off \in Nat /\ op.rem \in Nat
      /\ Deleted = {} /\ CutAt = {} /\ Loose = {} /\ Fresh = {}
  BY <1>1, CutHere
<1>3. op' \in Op
  BY <1>1, <1>2 DEF TypeOK, Op, Pcs
<1>4. op'.pc = "free" /\ op'.kind = "truncate" /\ op'.ent = op.ent /\ op'.fd = op.fd
      /\ op'.blk = nxt /\ op'.aux = op.blk /\ op'.rem = op.rem
  BY <1>1, <1>2 DEF TypeOK, Op
<1>5. TypeOK'
  BY <1>1, <1>3 DEF TypeOK
<1>6. ChainsSound' /\ DiskSound'
  BY <1>1, <1>2, ChainsFrame, DiskFrame
<1>7. Deleted' = {}
  BY <1>4 DEF Deleted
<1>8. DescriptorsSound'
  BY <1>1, <1>2, <1>4, <1>7 DEF DescriptorsSound
<1>9. FreeSound'
  <2>1. \A c \in Blocks : base[c] \in Nat
    BY Fields
  <2>2. SpacedApart(own, base) /\ EndsSound(fat, dir, own, base)
    BY <1>2 DEF ChainsSound
  <2>3. ASSUME NEW c \in Blocks, own[c] = op.ent
        PROVE  base[c] <= base[op.blk] \/ (nxt \in Blocks /\ base[nxt] <= base[c])
    <3>1. c # op.blk => base[c] + BlockSize <= base[op.blk] \/ base[op.blk] + BlockSize <= base[c]
      BY <1>2, <2>2, <2>3 DEF SpacedApart
    <3>2. nxt = FAT_EOF => base[c] <= base[op.blk]
      BY <1>2, <2>2, <2>3 DEF EndsSound
    <3> QED BY <1>2, <2>1, <3>1, <3>2, Marks
  <2>4. op.rem <= base[op.blk] + BlockSize
    BY <1>1, <1>2, Marks
  <2>5. nxt \in Blocks => base[op.blk] + BlockSize <= base[nxt]
    BY <1>2, <2>1, Marks
  <2> QED BY <1>1, <1>2, <1>4, <2>3, <2>4, <2>5 DEF FreeSound
<1>10. CallSound'
  BY <1>4, <1>9
  DEF CallSound, BytesSound, WalkSound, TailSound, ChunkSound, AbortSound, CutSound, RestSound
<1> QED BY <1>5, <1>6, <1>8, <1>10

LEMMA TruncateReturnInd ==
  ASSUME IndInv, truncate_return
  PROVE  IndInv'
<1> USE DEF IndInv
<1> DEFINE to == Smaller(fds[op.fd].off, op.rem)
<1>1. /\ op.kind = "truncate"
      /\ dir' = [dir EXCEPT ![op.ent].size = op.rem]
      /\ fds' = [fds EXCEPT ![op.fd].off = to]
      /\ op' = [op EXCEPT !.pc = "save"]
      /\ UNCHANGED <<mounted, active, disk, data, reply, own, base>>
  BY DEF truncate_return
<1>2. \/ op.pc = "cut" /\ op.blk = FAT_EOF /\ UNCHANGED fat
      \/ /\ op.pc = "free" /\ op.blk \in {FAT_EOF, FAT_FREE}
         /\ fat' = [fat EXCEPT ![op.aux] = FAT_EOF]
  BY DEF truncate_return
<1>3. /\ mounted /\ op.ent \in Slots /\ op.fd \in Fds /\ op.rem \in Nat /\ op.aux \in FatValues
      /\ \A g \in Slots : dir[g].size \in Nat
      /\ \A c \in Blocks : base[c] \in Nat
      /\ \A d \in Fds : fds[d].off \in Nat /\ fds[d].ent \in Slots
  BY <1>2, Fields DEF DescriptorsSound
<1>4. to \in Nat
  BY <1>3 DEF Smaller
<1> HIDE DEF to
<1>5. op' \in Op /\ op'.pc = "save" /\ op'.kind = "truncate" /\ op'.fd = op.fd
      /\ op'.ent = op.ent
  BY <1>1 DEF TypeOK, Op, Pcs
<1>6. CallSound' /\ Deleted' = {} /\ CutAt' = {} /\ Loose' = {} /\ Fresh' = {}
  BY <1>5, ToSave
<1>7. /\ fds' \in [Fds -> Fd]
      /\ \A c \in Fds : fds'[c].used = fds[c].used /\ fds'[c].ent = fds[c].ent
  BY <1>1, <1>3, <1>4 DEF TypeOK, Fd
<1>8. /\ dir' \in [Slots -> Entry] /\ dir'[op.ent].size = op.rem
      /\ \A g \in Slots : dir'[g].used = dir[g].used /\ dir'[g].first = dir[g].first
                          /\ (g # op.ent => dir'[g].size = dir[g].size)
  BY <1>1, <1>3 DEF TypeOK, Entry
<1>9. FAT_EOF \in FatValues /\ fat' \in [Blocks -> FatValues]
  BY <1>2, <1>3 DEF TypeOK, FatValues
<1>10. TypeOK'
  BY <1>1, <1>5, <1>7, <1>8, <1>9 DEF TypeOK
<1>11. DiskSound'
  BY <1>1, DiskFrame
<1>12. DescriptorsSound'
  <2>1. /\ active = mounted /\ fds[op.fd].used /\ fds[op.fd].ent = op.ent
        /\ \A d \in Fds : fds[d].used => dir[fds[d].ent].used
    BY <1>1, <1>3 DEF DescriptorsSound
  <2> QED BY <1>1, <1>3, <1>5, <1>6, <1>7, <1>8, <2>1 DEF DescriptorsSound
<1>13. CASE op.pc = "cut" /\ op.blk = FAT_EOF /\ UNCHANGED fat
  <2>1. dir'[op.ent].size <= dir[op.ent].size
    BY <1>8, <1>13 DEF CallSound, CutSound
  <2>2. op.pc \notin {"free", "tail"} /\ UNCHANGED <<mounted, fat, own, base>>
    BY <1>1, <1>13
  <2>3. ChainsSound'
    BY <1>3, <1>5, <1>8, <2>1, <2>2, Resized
  <2> QED BY <1>6, <1>10, <1>11, <1>12, <2>3
<1>14. CASE /\ op.pc = "free" /\ op.blk \in {FAT_EOF, FAT_FREE}
            /\ fat' = [fat EXCEPT ![op.aux] = FAT_EOF]
  <2>1. op.pc = "free" /\ op.blk \notin Blocks
    BY <1>14, Marks
  <2>2. /\ op.aux \in Blocks /\ own[op.aux] = op.ent
        /\ op.rem <= dir[op.ent].size /\ op.rem <= base[op.aux] + BlockSize
        /\ fat[op.aux] \in Blocks => own[fat[op.aux]] = NoSlot
        /\ \A c \in Blocks : own[c] = op.ent => base[c] <= base[op.aux]
    BY <1>1, <2>1 DEF CallSound, FreeSound
  <2>3. fat'[op.aux] = FAT_EOF /\ \A c \in Blocks : c # op.aux => fat'[c] = fat[c]
    BY <1>14, <2>2 DEF TypeOK
  <2>4. Deleted = {} /\ CutAt = {op.aux} /\ Loose = {op.blk} /\ Fresh = {}
    BY <1>1, <2>1 DEF Deleted, CutAt, Loose, Fresh
  <2>5. UNCHANGED <<mounted, own, base>>
    BY <1>1
  <2>6. HeadsSound(dir, own, base, Deleted)'
    <3> SUFFICES ASSUME NEW g \in Slots, dir[g].used
                 PROVE  \/ /\ dir[g].first = FAT_EOF /\ dir'[g].size = 0
                           /\ \A c \in Blocks : own[c] # g
                        \/ dir[g].first \in Blocks /\ own[dir[g].first] = g
                           /\ base[dir[g].first] = 0
      BY <1>8, <2>5 DEF HeadsSound
    <3>1. \/ dir[g].first = FAT_EOF /\ dir[g].size = 0 /\ \A c \in Blocks : own[c] # g
          \/ dir[g].first \in Blocks /\ own[dir[g].first] = g /\ base[dir[g].first] = 0
      BY <1>3, <2>4 DEF ChainsSound, HeadsSound
    <3> QED BY <1>8, <2>2, <3>1
  <2>7. LinksSound(fat, dir, own, base, CutAt)'
    <3> SUFFICES ASSUME NEW b \in Blocks, own[b] \in Slots
                 PROVE  /\ dir'[own[b]].used
                        /\ fat'[b] # FAT_FREE
                        /\ fat'[b] \in Blocks =>
                             own[fat'[b]] = own[b] /\ base[fat'[b]] = base[b] + BlockSize
      BY <2>5 DEF LinksSound
    <3>1. /\ dir[own[b]].used
          /\ fat[b] # FAT_FREE
          /\ fat[b] \in Blocks /\ b # op.aux =>
               own[fat[b]] = own[b] /\ base[fat[b]] = base[b] + BlockSize
      BY <1>3, <2>4 DEF ChainsSound, LinksSound
    <3> QED BY <1>8, <2>3, <3>1, Marks
  <2>8. SpacedApart(own, base)'
    BY <1>3, <2>5 DEF ChainsSound, SpacedApart
  <2>9. EndsSound(fat, dir, own, base)'
    <3> SUFFICES ASSUME NEW b \in Blocks, own[b] \in Slots, fat'[b] = FAT_EOF
                 PROVE  /\ dir'[own[b]].size <= base[b] + BlockSize
                        /\ \A c \in Blocks : own[c] = own[b] => base[c] <= base[b]
      BY <2>5 DEF EndsSound
    <3>1. CASE b = op.aux
      BY <1>8, <2>2, <3>1
    <3>2. CASE b # op.aux
      <4>1. /\ dir[own[b]].size <= base[b] + BlockSize
            /\ \A c \in Blocks : own[c] = own[b] => base[c] <= base[b]
        BY <1>3, <2>3, <3>2 DEF ChainsSound, EndsSound
      <4>2. dir'[own[b]].size <= dir[own[b]].size /\ dir'[own[b]].size \in Nat
        BY <1>3, <1>8, <2>2
      <4> QED BY <1>3, <4>1, <4>2, Marks
    <3> QED BY <3>1, <3>2
  <2>10. Linked(fat, dir, own, Loose)'
    <3> SUFFICES ASSUME NEW b \in Blocks, own[b] \in Slots
                 PROVE  b = dir'[own[b]].first
                        \/ \E c \in Blocks : own[c] = own[b] /\ fat'[c] = b
      BY <2>5 DEF Linked
    <3>1. b = dir[own[b]].first \/ \E c \in Blocks : own[c] = own[b] /\ fat[c] = b
      BY <1>3, <2>1, <2>4 DEF ChainsSound, Linked
    <3>2. \A c \in Blocks : fat[c] = b => c # op.aux
      BY <2>2, Marks
    <3> QED BY <1>8, <2>3, <3>1, <3>2
  <2>11. NoLeak(fat, own, Fresh)'
    <3>1. NoLeak(fat, own, {})
      BY <1>3, <2>4 DEF ChainsSound
    <3>2. own[op.aux] \in Slots
      BY <1>3, <2>2
    <3> QED BY <1>6, <2>3, <2>5, <3>1, <3>2, Constants DEF NoLeak
  <2>12. ChainsSound'
    BY <2>6, <2>7, <2>8, <2>9, <2>10, <2>11 DEF ChainsSound
  <2> QED BY <1>6, <1>10, <1>11, <1>12, <2>12
<1> QED BY <1>2, <1>13, <1>14
-----------------------------------------------------------------------------
(* The specification *)

(* One call or one step of a call, or a crash, preserves the invariant. *)
LEMMA NextInd == IndInv /\ [CrashNext]_vars => IndInv'
<1> SUFFICES ASSUME IndInv, [CrashNext]_vars PROVE IndInv'
  OBVIOUS
<1>1. CASE Call
  <2>1. CASE make_fs \/ make_fs_open
    BY <2>1, MakeFsInd
  <2>2. CASE umount_fs
    BY <2>2, UmountInd
  <2>3. ASSUME NEW name \in Names, fs_create(name) \/ fs_open(name) \/ fs_delete(name)
        PROVE  IndInv'
    BY <2>3, CreateInd, OpenInd, DeleteInd
  <2>4. ASSUME NEW d \in Fds, fs_close(d) PROVE IndInv'
    BY <2>4, CloseInd
  <2>5. ASSUME NEW d \in Fds, NEW n \in 1 .. MaxNbyte, fs_read(d, n) PROVE IndInv'
    <3>1. n \in Nat
      BY SizesAssumption
    <3> QED BY <2>5, <3>1, ReadInd
  <2>6. ASSUME NEW d \in Fds, NEW buf \in Buffers, fs_write(d, buf) PROVE IndInv'
    <3>1. PICK n \in 1 .. MaxNbyte : buf \in [1 .. n -> Byte]
      BY DEF Buffers
    <3>2. n \in Nat
      BY SizesAssumption
    <3>3. buf \in Seq(Byte)
      BY <3>1, <3>2, SeqDef
    <3> QED BY <2>6, <3>3, WriteInd
  <2>7. ASSUME NEW d \in Fds, NEW l \in 0 .. MaxLength, fs_lseek(d, l) \/ fs_truncate(d, l)
        PROVE  IndInv'
    <3>1. l \in Nat
      BY SizesAssumption
    <3> QED BY <2>7, <3>1, SeekInd, TruncateInd
  <2> QED BY <1>1, <2>1, <2>2, <2>3, <2>4, <2>5, <2>6, <2>7 DEF Call
<1>2. CASE Covered /\ mount_fs
  BY <1>2, MountInd
<1>3. CASE Step
  BY <1>3, WalkInd, WalkDoneInd, ReadChunkInd, ReadEndInd, GrowInd, TailInd, LinkInd, ChunkInd,
     ExtendDoneInd, WriteEndInd, FreeInd, DeleteReturnInd, TruncateWalkInd, TruncateCutInd,
     TruncateReturnInd, SaveInd
  DEF Step
<1>4. CASE Crash
  BY <1>4, CrashInd
<1>5. CASE UNCHANGED vars
  <2>1. UNCHANGED <<mounted, active, fat, dir, fds, disk, data, op, reply, own, base>>
    BY <1>5 DEF vars
  <2>2. TypeOK'
    BY <2>1 DEF IndInv, TypeOK
  <2>3. ChainsSound'
    BY <2>1 DEF IndInv, ChainsSound, HeadsSound, LinksSound, SpacedApart, EndsSound, Linked,
                NoLeak, Deleted, CutAt, Loose, Fresh
  <2>4. DiskSound'
    BY <2>1 DEF IndInv, DiskSound, HeadsSound, LinksSound, SpacedApart, EndsSound, Linked,
                NoLeak, SavedFat, Covered
  <2>5. DescriptorsSound'
    BY <2>1 DEF IndInv, DescriptorsSound, Deleted
  <2>6. CallSound'
    BY <2>1 DEF IndInv, CallSound, BytesSound, WalkSound, TailSound, ChunkSound, AbortSound,
                CutSound, FreeSound, RestSound, Target, Here, EndHere
  <2> QED BY <2>2, <2>3, <2>4, <2>5, <2>6 DEF IndInv
<1> QED BY <1>1, <1>2, <1>3, <1>4, <1>5 DEF CrashNext, Next

(* The inductive invariant holds of the library at every step of every call,
   whatever the calls are and wherever the process dies outside the save. *)
THEOREM Inductive == CrashSpec => []IndInv
BY InitInd, NextInd, PTL DEF CrashSpec

(* Crashes only add behaviours: what holds with them holds without. *)
LEMMA SpecIsCrashSpec == Spec => CrashSpec
<1>1. [Next]_vars => [CrashNext]_vars
  BY DEF CrashNext
<1> QED BY <1>1, PTL DEF Spec, CrashSpec

(* Every table entry, descriptor, register and reply of fs.c keeps its type:
   in particular no loop leaves the data blocks, no length goes below zero and
   no byte outside the caller's buffer is copied. *)
THEOREM TypeCorrect == CrashSpec => []TypeOK
<1>1. IndInv => TypeOK
  BY DEF IndInv
<1> QED BY Inductive, <1>1, PTL

(* The chains in memory stay disjoint, acyclic, long enough for their files
   and free of leaks through fs_write, fs_truncate and fs_delete. *)
THEOREM ChainsStaySound == CrashSpec => []ChainsSound
<1>1. IndInv => ChainsSound
  BY DEF IndInv
<1> QED BY Inductive, <1>1, PTL

(* The chains on disk are whole at every moment: a process that dies between
   two calls of write_metadata_to_disk leaves files mount_fs can use. *)
THEOREM DiskStaysSound == CrashSpec => []DiskSound
<1>1. IndInv => DiskSound
  BY DEF IndInv
<1> QED BY Inductive, <1>1, PTL

(* An open descriptor never denotes a file that is deleted or being deleted. *)
THEOREM DescriptorsStaySound == CrashSpec => []DescriptorsSound
<1>1. IndInv => DescriptorsSound
  BY DEF IndInv
<1> QED BY Inductive, <1>1, PTL

(* The registers of fs_read, fs_write, fs_truncate and fs_delete always stand
   for the block and the offset the call is about. *)
THEOREM CallsStaySound == CrashSpec => []CallSound
<1>1. IndInv => CallSound
  BY DEF IndInv
<1> QED BY Inductive, <1>1, PTL

(* The loops of fs_write for an offset a block or more beyond the end of the
   chain (fs.c:347-363 and 446-462) and fs_read's "Offset beyond EOF" return
   are dead code. *)
THEOREM OffsetsAreReached == Spec => []ChainReachesOffset
<1>1. IndInv => ChainReachesOffset
  <2> SUFFICES ASSUME IndInv, op.pc = "walk", op.blk \notin Blocks
               PROVE  op.kind # "read" /\ op.off < BlockSize
    BY DEF ChainReachesOffset
  <2>1. op.blk = FAT_EOF
    BY WalkTarget DEF Here
  <2>2. op.kind # "read" /\ op.off = 0
    BY <2>1, WalkTarget DEF EndHere
  <2> QED BY <2>2, Marks
<1> QED BY Inductive, SpecIsCrashSpec, <1>1, PTL
=============================================================================
