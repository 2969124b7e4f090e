-------------------------- MODULE FatFsStoreProofs --------------------------
(***************************************************************************)
(* Proof that the file system FatFs implements the file store FileStore:   *)
(* every call ends in the step of the store that the caller sees, and the  *)
(* steps inside a call change nothing of it.                               *)
(***************************************************************************)
EXTENDS FatFsStore, FatFsFilesProofs

(* What the caller knew of entry e's file, and of the descriptor used, when
   the call in progress began. *)
Old(e) == snap.files[dir[e].name].bytes
Was    == snap.open[op.fd].off

(* The calls that change the content of a file that stays. *)
Changing == op.kind \in {"write", "extend", "truncate"}

(* A file o with c bytes of buf written at offset w, and with c zeros added. *)
Copied(o, w, buf, c) == Store!Overwrite(o, w, SubSeq(buf, 1, c))
Filled(o, c)         == o \o Store!Fill(c)

(* What the call has made of the file so far; the directory learns of the
   new size when the call has done its work. *)
Goal ==
  IF op.kind = "write" THEN Copied(Old(op.ent), Was, op.buf, op.cnt)
  ELSE IF op.kind = "extend" THEN Filled(Old(op.ent), op.cnt)
  ELSE SubSeq(Old(op.ent), 1, op.rem)
SizeNow ==
  IF op.pc = "save" THEN Len(Goal)
  ELSE IF op.kind = "write" THEN Larger(Len(Old(op.ent)), Was) ELSE Len(Old(op.ent))
OffNow ==
  IF op.pc # "save" THEN Was
  ELSE IF op.kind = "write" THEN Was + op.cnt
  ELSE IF op.kind = "extend" THEN Len(Old(op.ent)) + op.cnt
  ELSE Smaller(Was, op.rem)

(* The blocks of entry e hold the bytes s. *)
Match(e, s) ==
  \A b \in Blocks : own[b] = e =>
    \A j \in 0 .. BlockSize - 1 : base[b] + j < Len(s) => data[b][j] = s[base[b] + j + 1]

Known(e) == snap.files[dir[e].name].exists
Same(e)  == Known(e) /\ dir[e].size = Len(Old(e)) /\ Match(e, Old(e))

FilesMatch ==
  /\ \A e \in Slots : dir[e].used /\ ~(Changing /\ e = op.ent) => Same(e)
  /\ Changing => Known(op.ent) /\ dir[op.ent].size = SizeNow /\ Match(op.ent, Goal)

(* The names in the directory are the files', but for the one that fs_delete
   has just taken out. *)
Listed(n) == \E e \in Slots : dir[e].used /\ dir[e].name = n
Removing  == op.kind = "delete" /\ op.pc = "save"
NamesMatch ==
  /\ ~Removing => \A n \in Names : snap.files[n].exists <=> Listed(n)
  /\ Removing => \E m \in Names :
       /\ snap.files[m].exists /\ ~Listed(m)
       /\ \A n \in Names \ {m} : snap.files[n].exists <=> Listed(n)
       /\ \A d \in Fds : snap.open[d].used => snap.open[d].name # m

(* The descriptors; the one the call uses is moved at its end. *)
HandlesMatch ==
  /\ \A d \in Fds : ~(Changing /\ d = op.fd) => snap.open[d] = HandleOf(d)
  /\ Changing => /\ snap.open[op.fd] = Store!At(dir[op.ent].name, Was) /\ Was \in Nat
                 /\ fds[op.fd].off = OffNow

(* The registers of the call in progress, its arguments and its reply. *)
ReadMatch ==
  op.kind = "read" =>
    /\ \E n \in 1 .. MaxNbyte : op.cnt + op.rem = Smaller(n, Len(Old(op.ent)) - Was)
    /\ Len(op.buf) = op.cnt /\ \A i \in 1 .. op.cnt : op.buf[i] = Old(op.ent)[Was + i]
WriteMatch ==
  /\ op.kind \in {"write", "extend"} => op.buf \in Buffers
  /\ op.kind = "write" =>
       op.cnt <= Len(op.buf) /\ (op.pc = "save" => reply \in {Return(op.cnt, <<>>), Return(-1, <<>>)})
  /\ op.kind = "extend" =>
       /\ op.pc \in {"walk", "tail", "abort"} => op.rem > 0
       /\ op.pc = "save" => Len(Old(op.ent)) + op.cnt < Was /\ reply = Return(op.cnt, <<>>)
CutMatch ==
  /\ op.kind = "truncate" =>
       op.rem <= Len(Old(op.ent)) /\ \E l \in 0 .. MaxLength : op.rem = l % UintMod
  /\ op.kind \in {"truncate", "delete", "umount"} => reply = NoReply

SnapType ==
  /\ snap.online = TRUE
  /\ snap.files \in [Names -> [exists : BOOLEAN, bytes : Seq(Byte)]]
  /\ \A n \in Names : ~snap.files[n].exists => snap.files[n].bytes = <<>>
  /\ snap.open = [d \in Fds |-> snap.open[d]]

(* What the caller saw last and what the call in progress has done to it. *)
Midway == SnapType /\ FilesMatch /\ NamesMatch /\ HandlesMatch /\ ReadMatch /\ WriteMatch /\ CutMatch

(* A file without a block has no descriptor past its beginning; the names in
   the directory are names; while nothing is mounted memory and disk agree. *)
OffsetsSound ==
  mounted => \A d \in Fds : fds[d].used /\ dir[fds[d].ent].first = FAT_EOF => fds[d].off = 0
NamesKnown == \A e \in Slots : dir[e].used => dir[e].name \in Names
Unmounted  == ~mounted => disk.dir = dir /\ disk.own = own /\ disk.base = base
SideInv    == OffsetsSound /\ NamesKnown /\ Unmounted

StoreInv ==
  /\ op.pc = "idle" => snap = View /\ (~mounted => reply = NoReply)
  /\ op.pc # "idle" => Midway
-----------------------------------------------------------------------------
(* The byte sequences of the store *)

LEMMA FillIs ==
  ASSUME NEW n \in Nat
  PROVE  /\ Store!Fill(n) \in Seq(Byte) /\ Len(Store!Fill(n)) = n
         /\ \A i \in 1 .. n : Store!Fill(n)[i] = 0
<1>1. Store!Fill(n) = [i \in 1 .. n |-> 0]
  BY DEF Store!Fill
<1>2. Store!Fill(n) \in [1 .. n -> Byte]
  BY <1>1, ValuesAssumption
<1> QED BY <1>1, <1>2, SeqDef

LEMMA ConcatIs ==
  ASSUME NEW s \in Seq(Byte), NEW t \in Seq(Byte)
  PROVE  /\ s \o t \in Seq(Byte) /\ Len(s \o t) = Len(s) + Len(t)
         /\ \A i \in 1 .. Len(s) + Len(t) :
              (s \o t)[i] = IF i <= Len(s) THEN s[i] ELSE t[i - Len(s)]
OBVIOUS

LEMMA PartIs ==
  ASSUME NEW s \in Seq(Byte), NEW i \in Nat, NEW j \in Nat, 1 <= i, i <= j + 1, j <= Len(s)
  PROVE  /\ SubSeq(s, i, j) \in Seq(Byte) /\ Len(SubSeq(s, i, j)) = j + 1 - i
         /\ \A k \in 1 .. j + 1 - i : SubSeq(s, i, j)[k] = s[i + k - 1]
OBVIOUS

(* What is written over a file, byte by byte. *)
LEMMA OverwriteIs ==
  ASSUME NEW s \in Seq(Byte), NEW k \in Nat, NEW t \in Seq(Byte)
  PROVE  /\ Store!Overwrite(s, k, t) \in Seq(Byte)
         /\ Len(Store!Overwrite(s, k, t)) = Larger(Len(s), k + Len(t))
         /\ \A i \in 1 .. Larger(Len(s), k + Len(t)) :
              Store!Overwrite(s, k, t)[i] = IF i > k /\ i <= k + Len(t) THEN t[i - k]
                                            ELSE IF i <= Len(s) THEN s[i] ELSE 0
<1> DEFINE padded == IF k > Len(s) THEN s \o Store!Fill(k - Len(s)) ELSE s
           head   == SubSeq(padded, 1, k)
           rest   == SubSeq(padded, k + Len(t) + 1, Len(padded))
<1>1. Store!Overwrite(s, k, t) = (head \o t) \o rest
  BY DEF Store!Overwrite
<1>2. PICK l \in Nat : l = Len(s)
  OBVIOUS
<1>3. PICK m \in Nat : m = Len(t)
  OBVIOUS
<1>4. PICK q \in Nat : q = Larger(l, k)
  BY DEF Larger
<1>5. /\ padded \in Seq(Byte) /\ Len(padded) = q
      /\ \A i \in 1 .. q : padded[i] = IF i <= l THEN s[i] ELSE 0
  <2>1. CASE k > l
    <3> DEFINE z == Store!Fill(k - l)
    <3>1. k - l \in Nat
      BY <2>1
    <3>2. z \in Seq(Byte) /\ Len(z) = k - l /\ \A i \in 1 .. k - l : z[i] = 0
      BY <3>1, FillIs
    <3> HIDE DEF z
    <3>3. /\ s \o z \in Seq(Byte) /\ Len(s \o z) = l + (k - l)
          /\ \A i \in 1 .. l + (k - l) : (s \o z)[i] = IF i <= l THEN s[i] ELSE z[i - l]
      BY <1>2, <3>2, ConcatIs
    <3>4. padded = s \o z /\ q = k
      BY <1>2, <1>4, <2>1 DEF z, Larger
    <3> HIDE DEF padded
    <3>5. ASSUME NEW i \in 1 .. q PROVE padded[i] = IF i <= l THEN s[i] ELSE 0
      <4>1. i \in 1 .. l + (k - l) /\ (~(i <= l) => i - l \in 1 .. k - l)
        BY <2>1, <3>4
      <4> QED BY <3>2, <3>3, <3>4, <4>1
    <3> QED BY <2>1, <3>3, <3>4, <3>5
  <2>2. CASE ~(k > l)
    BY <1>2, <1>4, <2>2 DEF Larger
  <2> QED BY <2>1, <2>2
<1> HIDE DEF padded
<1>6. /\ head \in Seq(Byte) /\ Len(head) = k
      /\ \A i \in 1 .. k : head[i] = padded[i]
  <2>1. k <= q
    BY <1>4 DEF Larger
  <2>2. /\ head \in Seq(Byte) /\ Len(head) = k + 1 - 1
        /\ \A i \in 1 .. k + 1 - 1 : head[i] = padded[1 + i - 1]
    BY <1>5, <2>1, PartIs
  <2> HIDE DEF head
  <2> QED BY <2>2
<1>7. PICK r \in Nat : (k + m < q => r = q - (k + m)) /\ (~(k + m < q) => r = 0)
  <2>1. CASE k + m < q
    <3>1. q - (k + m) \in Nat
      BY <2>1
    <3> QED BY <2>1, <3>1
  <2>2. CASE ~(k + m < q)
    BY <2>2
  <2> QED BY <2>1, <2>2
<1>8. /\ rest \in Seq(Byte) /\ Len(rest) = r
      /\ \A i \in 1 .. r : rest[i] = padded[k + m + i]
  <2>1. CASE k + m < q
    <3>1. /\ rest \in Seq(Byte) /\ Len(rest) = q + 1 - (k + m + 1)
          /\ \A i \in 1 .. q + 1 - (k + m + 1) : rest[i] = padded[(k + m + 1) + i - 1]
      BY <1>3, <1>5, <2>1, PartIs
    <3> HIDE DEF rest
    <3> QED BY <1>7, <2>1, <3>1
  <2>2. CASE ~(k + m < q)
    <3>1. rest = <<>>
      BY <1>3, <1>5, <2>2
    <3>2. r = 0 /\ <<>> \in Seq(Byte) /\ Len(<<>>) = 0
      BY <1>7, <2>2
    <3> HIDE DEF rest
    <3> QED BY <3>1, <3>2
  <2> QED BY <2>1, <2>2
<1> HIDE DEF head, rest
<1>9. /\ head \o t \in Seq(Byte) /\ Len(head \o t) = k + m
      /\ \A i \in 1 .. k + m : (head \o t)[i] = IF i <= k THEN head[i] ELSE t[i - k]
  BY <1>3, <1>6, ConcatIs
<1> DEFINE front == head \o t
<1>10. front \in Seq(Byte) /\ Len(front) = k + m
  BY <1>9
<1> HIDE DEF front
<1>11. /\ front \o rest \in Seq(Byte) /\ Len(front \o rest) = (k + m) + r
       /\ \A i \in 1 .. (k + m) + r :
            (front \o rest)[i] = IF i <= k + m THEN front[i] ELSE rest[i - (k + m)]
  <2>1. \A x, y \in Seq(Byte) :
          /\ x \o y \in Seq(Byte) /\ Len(x \o y) = Len(x) + Len(y)
          /\ \A i \in 1 .. Len(x) + Len(y) :
               (x \o y)[i] = IF i <= Len(x) THEN x[i] ELSE y[i - Len(x)]
    BY ConcatIs
  <2>2. rest \in Seq(Byte) /\ Len(rest) = r
    BY <1>8
  <2>3. /\ front \o rest \in Seq(Byte) /\ Len(front \o rest) = Len(front) + Len(rest)
        /\ \A i \in 1 .. Len(front) + Len(rest) :
             (front \o rest)[i] = IF i <= Len(front) THEN front[i] ELSE rest[i - Len(front)]
    BY <1>10, <2>1, <2>2
  <2> DEFINE w == front \o rest
  <2> HIDE DEF w
  <2>4. /\ w \in Seq(Byte) /\ Len(w) = Len(front) + Len(rest)
        /\ \A i \in 1 .. Len(front) + Len(rest) :
             w[i] = IF i <= Len(front) THEN front[i] ELSE rest[i - Len(front)]
    BY <2>3 DEF w
  <2>5. /\ w \in Seq(Byte) /\ Len(w) = (k + m) + r
        /\ \A i \in 1 .. (k + m) + r : w[i] = IF i <= k + m THEN front[i] ELSE rest[i - (k + m)]
    BY <1>10, <2>2, <2>4
  <2> QED BY <2>5 DEF w
<1>12. Larger(Len(s), k + Len(t)) = (k + m) + r
  <2>1. Larger(l, k + m) = (k + m) + r
    BY <1>4, <1>7 DEF Larger
  <2> QED BY <1>2, <1>3, <2>1
<1>13. ASSUME NEW i \in 1 .. (k + m) + r
       PROVE  (front \o rest)[i] = IF i > k /\ i <= k + m THEN t[i - k]
                                   ELSE IF i <= l THEN s[i] ELSE 0
  <2>1. CASE i <= k
    <3>1. (front \o rest)[i] = padded[i] /\ i \in 1 .. q
      BY <1>4, <1>6, <1>9, <1>11, <2>1 DEF front, Larger
    <3> QED BY <1>5, <2>1, <3>1
  <2>2. CASE i > k /\ i <= k + m
    BY <1>9, <1>11, <2>2 DEF front
  <2>3. CASE i > k + m
    <3>1. i - (k + m) \in 1 .. r /\ (k + m) + (i - (k + m)) = i /\ i \in 1 .. q
      BY <1>7, <2>3
    <3>2. (front \o rest)[i] = padded[i]
      BY <1>8, <1>11, <2>3, <3>1
    <3> QED BY <1>5, <2>3, <3>1, <3>2
  <2>4. i <= k \/ (i > k /\ i <= k + m) \/ i > k + m
    OBVIOUS
  <2> QED BY <2>1, <2>2, <2>3, <2>4
<1>14. Store!Overwrite(s, k, t) = front \o rest
  BY <1>1 DEF front
<1> QED BY <1>2, <1>3, <1>11, <1>12, <1>13, <1>14
-----------------------------------------------------------------------------
(* What the caller sees of the blocks *)

(* Outside free_block_chain every byte of a file lies in one of its blocks. *)
LEMMA BlockFound ==
  ASSUME IndInv, mounted, op.pc # "free", NEW e \in Slots, dir[e].used,
         NEW i \in Nat, i < dir[e].size
  PROVE  \E b \in Blocks : own[b] = e /\ base[b] <= i /\ i < base[b] + BlockSize
<1>1. fat \in [Blocks -> FatValues] /\ base \in [Blocks -> Nat] /\ dir[e].size \in Nat
  BY Fields DEF IndInv, TypeOK
<1>2. Deleted = {} /\ CutAt = {}
  BY DEF Deleted, CutAt
<1>3. /\ HeadsSound(dir, own, base, {}) /\ LinksSound(fat, dir, own, base, {})
      /\ EndsSound(fat, dir, own, base)
  BY <1>2 DEF IndInv, ChainsSound
<1> DEFINE S == BlocksOf(own, e)
           f == dir[e].first
           at == Chain(fat, f)
<1>4. f \in Blocks /\ own[f] = e /\ base[f] = 0
  <2>1. dir[e].size # 0
    BY <1>1
  <2> QED BY <1>3, <2>1 DEF HeadsSound
<1>5. S \in SUBSET Blocks /\ f \in S /\ Threaded(fat, base, S)
  BY <1>1, <1>3, <1>4, SoundThreads DEF BlocksOf
<1>6. PICK m \in 0 .. TotalBlocks - 1 :
        /\ \A n \in 0 .. m : at[n] \in S /\ base[at[n]] = n * BlockSize
        /\ fat[at[m]] = FAT_EOF
  <2> HIDE DEF S, f
  <2>1. \E m \in 0 .. TotalBlocks - 1 :
           /\ \A n \in 0 .. m : Chain(fat, f)[n] \in S /\ base[Chain(fat, f)[n]] = n * BlockSize
           /\ \A n \in m + 1 .. TotalBlocks : Chain(fat, f)[n] = FAT_EOF
           /\ fat[Chain(fat, f)[m]] = FAT_EOF
    BY <1>1, <1>4, <1>5, ChainEnds
  <2> QED BY <2>1
<1> HIDE DEF at, f
<1>7. m \in Nat /\ m \in 0 .. m
  BY SizesAssumption
<1>8. dir[e].size <= m * BlockSize + BlockSize
  <2>1. at[m] \in Blocks /\ own[at[m]] = e /\ base[at[m]] = m * BlockSize
    BY <1>6, <1>7 DEF BlocksOf
  <2> QED BY <1>3, <1>6, <2>1 DEF EndsSound
<1> DEFINE T == {n \in Nat : i < n * BlockSize + BlockSize}
<1>9. m \in T
  <2>1. m * BlockSize \in Nat /\ BlockSize \in Nat
    BY <1>7, Multiples, Marks
  <2> QED BY <1>1, <1>7, <1>8, <2>1
<1>10. PICK n \in T : \A k \in T : n <= k
  <2>1. T \subseteq Nat /\ T # {}
    BY <1>9
  <2> HIDE DEF T
  <2> QED BY <2>1, LeastNumber
<1>11. n \in Nat /\ i < n * BlockSize + BlockSize /\ n \in 0 .. m
  BY <1>7, <1>9, <1>10
<1>12. n * BlockSize <= i
  <2>1. CASE n = 0
    <3>1. 0 * BlockSize = 0
      BY Marks
    <3> QED BY <2>1, <3>1
  <2>2. CASE n # 0
    <3>1. n - 1 \in Nat /\ ~(n <= n - 1) /\ (n - 1) + 1 = n
      BY <1>11, <2>2
    <3>2. n - 1 \notin T
      BY <1>10, <3>1
    <3>3. ~(i < (n - 1) * BlockSize + BlockSize)
      BY <3>1, <3>2
    <3>4. ((n - 1) + 1) * BlockSize = (n - 1) * BlockSize + BlockSize
      BY <3>1, Multiples
    <3>5. n * BlockSize = (n - 1) * BlockSize + BlockSize /\ n * BlockSize \in Nat
      BY <1>11, <3>1, <3>4, Multiples
    <3> QED BY <3>3, <3>5
  <2> QED BY <2>1, <2>2
<1>13. at[n] \in Blocks /\ own[at[n]] = e /\ base[at[n]] = n * BlockSize
  BY <1>6, <1>11 DEF BlocksOf
<1> QED BY <1>11, <1>12, <1>13

LEMMA BlockOfIs ==
  ASSUME IndInv, mounted, NEW e \in Slots, NEW i \in Nat,
         NEW b \in Blocks, own[b] = e, base[b] <= i, i < base[b] + BlockSize
  PROVE  BlockOf(e, i) = b
<1>1. SpacedApart(own, base) /\ \A c \in Blocks : base[c] \in Nat
  BY Fields DEF IndInv, ChainsSound
<1>2. ASSUME NEW c \in Blocks, own[c] = e, base[c] <= i, i < base[c] + BlockSize
      PROVE  c = b
  <2> SUFFICES ASSUME c # b PROVE FALSE
    OBVIOUS
  <2>1. base[b] + BlockSize <= base[c] \/ base[c] + BlockSize <= base[b]
    BY <1>1, <1>2 DEF SpacedApart
  <2>2. base[b] \in Nat /\ base[c] \in Nat /\ BlockSize \in Nat
    BY <1>1, Marks
  <2> QED BY <1>2, <2>1, <2>2
<1> QED BY <1>2 DEF BlockOf

(* The directory entry of a name. *)
LEMMA EntryFound ==
  ASSUME NamesInv, NEW e \in Slots, dir[e].used
  PROVE  /\ dir[e].name \in fs_listfiles
         /\ (CHOOSE i \in Slots : find_file_in_directory(i, dir[e].name)) = e
         /\ \A i \in Slots : find_file_in_directory(i, dir[e].name) <=> i = e
<1>1. e \in {j \in Slots : dir[j].used}
  OBVIOUS
<1>2. dir[e].name \in fs_listfiles
  BY <1>1 DEF fs_listfiles
<1>3. {j \in Slots : dir[j].used /\ dir[j].name = dir[e].name} = {e}
  BY DEF NamesInv, OneEach
<1>4. e \in Nat
  BY SizesAssumption DEF Slots
<1>5. find_file_in_directory(e, dir[e].name)
  BY <1>3, <1>4 DEF find_file_in_directory, IsLeast
<1>6. \A i \in Slots : find_file_in_directory(i, dir[e].name) => i = e
  BY <1>3 DEF find_file_in_directory, IsLeast
<1> QED BY <1>2, <1>5, <1>6

LEMMA NameListed ==
  ASSUME NEW n
  PROVE  /\ n \in fs_listfiles <=> Listed(n)
         /\ ~Listed(n) => FileOf(n) = [exists |-> FALSE, bytes |-> <<>>]
<1>1. n \in fs_listfiles <=> Listed(n)
  BY DEF fs_listfiles, Listed
<1> QED BY <1>1 DEF FileOf

(* The bytes the caller sees of entry e's file. *)
Shown(e) == [i \in 1 .. dir[e].size |-> ByteOf(e, i - 1)]

LEMMA FileOfIs ==
  ASSUME NamesInv, NEW e \in Slots, dir[e].used
  PROVE  FileOf(dir[e].name) = [exists |-> TRUE, bytes |-> Shown(e)]
<1>1. /\ dir[e].name \in fs_listfiles
      /\ (CHOOSE i \in Slots : find_file_in_directory(i, dir[e].name)) = e
  BY EntryFound
<1> DEFINE c == CHOOSE i \in Slots : find_file_in_directory(i, dir[e].name)
<1>2. FileOf(dir[e].name) =
        [exists |-> TRUE, bytes |-> [i \in 1 .. dir[c].size |-> ByteOf(c, i - 1)]]
  BY <1>1 DEF FileOf
<1>3. c = e
  BY <1>1
<1> HIDE DEF c
<1> QED BY <1>2, <1>3 DEF Shown

(* The blocks hold what the caller sees, *)
LEMMA ShownMatches ==
  ASSUME IndInv, mounted, op.pc # "free", NEW e \in Slots, dir[e].used
  PROVE  Shown(e) \in Seq(Byte) /\ Len(Shown(e)) = dir[e].size /\ Match(e, Shown(e))
<1>1. /\ \A b \in Blocks : base[b] \in Nat
      /\ data \in [Blocks -> [0 .. BlockSize - 1 -> Byte]] /\ dir[e].size \in Nat
  BY Fields DEF IndInv, TypeOK
<1>2. ASSUME NEW i \in 1 .. dir[e].size PROVE ByteOf(e, i - 1) \in Byte
  <2>1. i - 1 \in Nat /\ i - 1 < dir[e].size
    BY <1>1
  <2>2. PICK b \in Blocks : own[b] = e /\ base[b] <= i - 1 /\ i - 1 < base[b] + BlockSize
    BY <2>1, BlockFound
  <2>3. BlockOf(e, i - 1) = b
    BY <2>1, <2>2, BlockOfIs
  <2>4. (i - 1) - base[b] \in 0 .. BlockSize - 1
    <3>1. base[b] \in Nat /\ BlockSize \in Nat
      BY <1>1, Marks
    <3> QED BY <2>1, <2>2, <3>1
  <2> QED BY <1>1, <2>3, <2>4 DEF ByteOf
<1>3. Shown(e) \in [1 .. dir[e].size -> Byte]
  BY <1>2 DEF Shown
<1>4. Shown(e) \in Seq(Byte) /\ Len(Shown(e)) = dir[e].size
  BY <1>1, <1>3, SeqDef
<1>5. ASSUME NEW b \in Blocks, own[b] = e, NEW j \in 0 .. BlockSize - 1,
             base[b] + j < Len(Shown(e))
      PROVE  data[b][j] = Shown(e)[base[b] + j + 1]
  <2>1. PICK k \in Nat : k = base[b]
    BY <1>1
  <2>2. /\ j \in Nat /\ k + j \in Nat /\ k <= k + j /\ k + j < k + BlockSize
        /\ k + j + 1 \in 1 .. dir[e].size /\ (k + j + 1) - 1 = k + j /\ (k + j) - k = j
    <3>1. PICK z \in Nat : z = dir[e].size
      BY <1>1
    <3>2. k + j < z /\ BlockSize \in Nat
      BY <1>4, <1>5, <2>1, <3>1, Marks
    <3> QED BY <3>1, <3>2
  <2>3. BlockOf(e, k + j) = b
    BY <1>5, <2>1, <2>2, BlockOfIs
  <2> QED BY <2>1, <2>2, <2>3 DEF Shown, ByteOf
<1> QED BY <1>4, <1>5 DEF Match

(* and the caller sees what the blocks hold. *)
LEMMA MatchShown ==
  ASSUME IndInv, mounted, op.pc # "free", NEW e \in Slots, dir[e].used,
         NEW s \in Seq(Byte), Len(s) = dir[e].size, Match(e, s)
  PROVE  Shown(e) = s
<1>1. dir[e].size \in Nat /\ \A b \in Blocks : base[b] \in Nat
  BY Fields DEF IndInv
<1>2. ASSUME NEW i \in 1 .. dir[e].size PROVE ByteOf(e, i - 1) = s[i]
  <2>1. i - 1 \in Nat /\ i - 1 < dir[e].size
    BY <1>1
  <2>2. PICK b \in Blocks : own[b] = e /\ base[b] <= i - 1 /\ i - 1 < base[b] + BlockSize
    BY <2>1, BlockFound
  <2>3. BlockOf(e, i - 1) = b
    BY <2>1, <2>2, BlockOfIs
  <2>4. PICK k \in Nat : k = base[b]
    BY <1>1
  <2>5. /\ (i - 1) - k \in 0 .. BlockSize - 1 /\ k + ((i - 1) - k) = i - 1
        /\ k + ((i - 1) - k) < Len(s) /\ k + ((i - 1) - k) + 1 = i
    BY <2>1, <2>2, <2>4, Marks
  <2>6. data[b][(i - 1) - k] = s[k + ((i - 1) - k) + 1]
    BY <2>2, <2>4, <2>5 DEF Match
  <2> QED BY <2>3, <2>4, <2>5, <2>6 DEF ByteOf
<1>3. s = [i \in 1 .. dir[e].size |-> s[i]]
  OBVIOUS
<1> QED BY <1>2, <1>3 DEF Shown
-----------------------------------------------------------------------------
(* Offsets, names and the unmounted disk *)

(* A file without a block is empty, and no call has moved any of its bytes. *)
LEMMA NothingThere ==
  ASSUME IndInv, mounted, NEW e \in Slots, dir[e].used, dir[e].first = FAT_EOF, e \notin Deleted
  PROVE  /\ dir[e].size = 0 /\ \A b \in Blocks : own[b] # e
         /\ op.kind \in {"read", "write", "extend"} /\ op.pc \in {"chunk", "abort"} /\ op.ent = e
              => op.cnt = 0
<1>1. HeadsSound(dir, own, base, Deleted) /\ BytesSound /\ ChunkSound /\ AbortSound
  BY DEF IndInv, ChainsSound, CallSound
<1>2. dir[e].size = 0 /\ \A b \in Blocks : own[b] # e
  BY <1>1, Marks DEF HeadsSound
<1>3. ASSUME op.kind \in {"read", "write", "extend"}, op.pc \in {"chunk", "abort"}, op.ent = e
      PROVE  op.cnt = 0
  <2>1. ~Here
    BY <1>2, <1>3 DEF Here
  <2>2. op.cnt \in Nat /\ op.rem \in Nat /\ op.fd \in Fds /\ fds[op.fd].off \in Nat
    BY Fields DEF IndInv
  <2>3. CASE op.kind = "read"
    <3>1. fds[op.fd].off + op.cnt + op.rem <= 0
      BY <1>1, <1>2, <1>3, <2>3 DEF BytesSound, Target
    <3> QED BY <2>2, <3>1
  <2>4. CASE op.kind # "read"
    BY <1>1, <1>3, <2>1, <2>4 DEF ChunkSound, AbortSound
  <2> QED BY <2>3, <2>4
<1> QED BY <1>2, <1>3

LEMMA OffsetsKept ==
  ASSUME IndInv, SideInv, Next
  PROVE  OffsetsSound'
<1> USE DEF IndInv
<1>1. /\ op.ent \in Slots /\ op.fd \in Fds /\ dir \in [Slots -> Entry] /\ fds \in [Fds -> Fd]
      /\ op.cnt \in Nat /\ op.rem \in Nat
  BY Fields DEF TypeOK
<1>2. \A d \in Fds : fds[d].ent \in Slots /\ fds[d].off \in Nat
  BY Fields
<1>3. ASSUME mounted' => mounted,
             \A e \in Slots : dir[e].used => dir'[e].first = dir[e].first \/ dir'[e].first # FAT_EOF,
             \A d \in Fds : \/ fds'[d].used = fds[d].used /\ fds'[d].ent = fds[d].ent
                               /\ (mounted /\ fds[d].used /\ dir[fds[d].ent].used
                                   /\ dir[fds[d].ent].first = FAT_EOF => fds'[d].off = fds[d].off \/ fds'[d].off = 0)
                            \/ fds'[d].off = 0
      PROVE  OffsetsSound'
  <2> SUFFICES ASSUME mounted', NEW d \in Fds, fds'[d].used, dir'[fds'[d].ent].first = FAT_EOF
               PROVE  fds'[d].off = 0
    BY DEF OffsetsSound
  <2> SUFFICES ASSUME fds'[d].off # 0 PROVE FALSE
    OBVIOUS
  <2>1. fds[d].used /\ fds'[d].ent = fds[d].ent /\ mounted
    BY <1>3
  <2>2. dir[fds[d].ent].used
    BY <2>1 DEF DescriptorsSound
  <2>3. dir[fds[d].ent].first = FAT_EOF
    BY <1>2, <1>3, <2>1, <2>2
  <2>4. fds[d].off = 0
    BY <2>1, <2>3 DEF SideInv, OffsetsSound
  <2> QED BY <1>3, <2>1, <2>2, <2>3, <2>4
<1>4. ASSUME mounted' => mounted, UNCHANGED <<dir, fds>> PROVE OffsetsSound'
  BY <1>3, <1>4
<1>5. CASE make_fs
  <2>1. ~mounted'
    BY <1>5 DEF make_fs, DescriptorsSound
  <2> QED BY <2>1 DEF OffsetsSound
<1>6. ASSUME NEW name \in Names, fs_create(name) PROVE OffsetsSound'
  <2>1. PICK i \in Slots :
          /\ find_free_directory_entry(i)
          /\ dir' = [dir EXCEPT ![i] = [used |-> TRUE, name |-> name, size |-> 0, first |-> FAT_EOF]]
    BY <1>6 DEF fs_create
  <2>2. ~dir[i].used
    BY <2>1 DEF find_free_directory_entry, IsLeast
  <2>3. \A e \in Slots : dir[e].used => dir'[e] = dir[e]
    BY <1>1, <2>1, <2>2
  <2>4. mounted' = mounted /\ fds' = fds
    BY <1>6 DEF fs_create
  <2> QED BY <1>3, <2>3, <2>4
<1>7. ASSUME NEW name \in Names, fs_open(name) PROVE OffsetsSound'
  <2>1. PICK i \in Slots, d \in Fds : fds' = [fds EXCEPT ![d] = [used |-> TRUE, ent |-> i, off |-> 0]]
    BY <1>7 DEF fs_open
  <2>2. fds'[d].off = 0 /\ \A c \in Fds : c # d => fds'[c] = fds[c]
    BY <1>1, <2>1
  <2>3. mounted' = mounted /\ dir' = dir
    BY <1>7 DEF fs_open
  <2> QED BY <1>3, <2>2, <2>3
<1>8. ASSUME NEW d \in Fds, fs_close(d) PROVE OffsetsSound'
  <2>1. fds'[d].off = 0 /\ \A c \in Fds : c # d => fds'[c] = fds[c]
    BY <1>1, <1>8 DEF fs_close, ClosedFd
  <2>2. mounted' = mounted /\ dir' = dir
    BY <1>8 DEF fs_close
  <2> QED BY <1>3, <2>1, <2>2
(* the offset of one descriptor changes *)
<1>9. ASSUME NEW d \in Fds, NEW x, fds' = [fds EXCEPT ![d].off = x], mounted' = mounted,
             \A e \in Slots : dir'[e].first = dir[e].first,
             mounted /\ fds[d].used /\ dir[fds[d].ent].used /\ dir[fds[d].ent].first = FAT_EOF
               => x = fds[d].off \/ x = 0
      PROVE  OffsetsSound'
  <2>1. /\ fds'[d].off = x /\ \A c \in Fds : c # d => fds'[c] = fds[c]
        /\ \A c \in Fds : fds'[c].used = fds[c].used /\ fds'[c].ent = fds[c].ent
    BY <1>1, <1>9 DEF Fd
  <2> QED BY <1>3, <1>9, <2>1
<1>10. ASSUME NEW d \in Fds, NEW l \in 0 .. MaxLength, fs_lseek(d, l) PROVE OffsetsSound'
  <2>1. /\ fds' = [fds EXCEPT ![d].off = l] /\ mounted' = mounted /\ dir' = dir
        /\ l <= dir[fds[d].ent].size /\ op.pc = "idle" /\ l \in Nat
    BY <1>10, SizesAssumption DEF fs_lseek, fs_get_filesize
  <2>2. Deleted = {}
    BY <2>1, AtRest
  <2>3. ASSUME mounted, dir[fds[d].ent].used, dir[fds[d].ent].first = FAT_EOF
        PROVE  l = 0
    BY <1>2, <2>1, <2>2, <2>3, NothingThere
  <2> QED BY <1>9, <2>1, <2>3
<1>11. ASSUME NEW d \in Fds, NEW buf \in Buffers, fs_write(d, buf) PROVE OffsetsSound'
  <2>1. mounted' = mounted /\ fds' = fds
    BY <1>11 DEF fs_write
  <2>2. UNCHANGED dir \/ \E b \in Blocks : dir' = [dir EXCEPT ![fds[d].ent].first = b, ![fds[d].ent].size = 0]
    BY <1>11 DEF fs_write
  <2>3. ASSUME NEW b \in Blocks,
               dir' = [dir EXCEPT ![fds[d].ent].first = b, ![fds[d].ent].size = 0]
        PROVE  \A e \in Slots : dir'[e].first = dir[e].first \/ dir'[e].first # FAT_EOF
    BY <1>1, <1>2, <2>3, Marks DEF Entry
  <2> QED BY <1>3, <2>1, <2>2, <2>3
<1>12. CASE read_return
  <2>1. /\ fds' = [fds EXCEPT ![op.fd].off = fds[op.fd].off + op.cnt] /\ dir' = dir
        /\ mounted' = mounted /\ op.kind = "read" /\ op.pc = "chunk"
    BY <1>12 DEF read_return
  <2>2. fds[op.fd].ent = op.ent /\ Deleted = {}
    BY <2>1, AtRest DEF DescriptorsSound
  <2>3. ASSUME mounted, dir[op.ent].used, dir[op.ent].first = FAT_EOF
        PROVE  fds[op.fd].off + op.cnt = fds[op.fd].off
    <3>1. op.cnt = 0
      BY <1>1, <2>1, <2>2, <2>3, NothingThere
    <3> QED BY <1>1, <1>2, <3>1
  <2>4. \A e \in Slots : dir'[e].first = dir[e].first
    BY <2>1
  <2> QED BY <1>1, <1>9, <2>1, <2>2, <2>3, <2>4
<1>13. ASSUME NEW from, NEW result, write_finish(from, result), op.kind \in {"write", "extend"},
              op.pc \in {"chunk", "abort"}, from \in {fds[op.fd].off, dir[op.ent].size}
       PROVE  OffsetsSound'
  <2>1. /\ fds' = [fds EXCEPT ![op.fd].off = from + op.cnt] /\ mounted' = mounted
        /\ dir' = [dir EXCEPT ![op.ent].size = Larger(dir[op.ent].size, from + op.cnt)]
    BY <1>13 DEF write_finish
  <2>2. fds[op.fd].ent = op.ent /\ Deleted = {}
    BY <1>13, AtRest DEF DescriptorsSound
  <2>3. \A e \in Slots : dir'[e].first = dir[e].first
    BY <1>1, <2>1 DEF Entry
  <2>4. ASSUME mounted, dir[op.ent].used, dir[op.ent].first = FAT_EOF
        PROVE  from + op.cnt = fds[op.fd].off \/ from + op.cnt = 0
    <3>1. op.cnt = 0 /\ dir[op.ent].size = 0
      BY <1>1, <1>13, <2>2, <2>4, NothingThere
    <3> QED BY <1>1, <1>2, <1>13, <3>1
  <2> QED BY <1>1, <1>9, <2>1, <2>2, <2>3, <2>4
<1>14. CASE extend_abort \/ extend_error \/ write_return \/ write_error
  BY <1>13, <1>14 DEF extend_abort, extend_error, write_return, write_error
<1>15. CASE extend_done
  <2>1. /\ fds' = fds /\ mounted' = mounted
        /\ dir' = [dir EXCEPT ![op.ent].size = fds[op.fd].off]
    BY <1>15 DEF extend_done
  <2>2. \A e \in Slots : dir'[e].first = dir[e].first
    BY <1>1, <2>1 DEF Entry
  <2> QED BY <1>3, <2>1, <2>2
<1>16. CASE truncate_return
  <2>1. /\ fds' = [fds EXCEPT ![op.fd].off = Smaller(fds[op.fd].off, op.rem)]
        /\ mounted' = mounted /\ dir' = [dir EXCEPT ![op.ent].size = op.rem]
    BY <1>16 DEF truncate_return
  <2>2. \A e \in Slots : dir'[e].first = dir[e].first
    BY <1>1, <2>1 DEF Entry
  <2>3. ASSUME mounted, fds[op.fd].used, dir[fds[op.fd].ent].first = FAT_EOF
        PROVE  Smaller(fds[op.fd].off, op.rem) = 0
    <3>1. fds[op.fd].off = 0
      BY <1>1, <2>3 DEF SideInv, OffsetsSound
    <3> QED BY <1>1, <3>1 DEF Smaller
  <2> QED BY <1>1, <1>9, <2>1, <2>2, <2>3
<1>17. CASE delete_return
  <2>1. fds' = fds /\ mounted' = mounted /\ dir' = [dir EXCEPT ![op.ent] = EmptyEntry]
    BY <1>17 DEF delete_return
  <2>2. \A e \in Slots : dir'[e].first = dir[e].first \/ dir'[e].first # FAT_EOF
    BY <1>1, <2>1, Marks DEF EmptyEntry
  <2> QED BY <1>3, <2>1, <2>2
<1>18. CASE mount_fs
  <2>1. fds' = AllClosed
    BY <1>18 DEF mount_fs
  <2> QED BY <2>1 DEF OffsetsSound, AllClosed, ClosedFd
<1>19. CASE write_metadata_to_disk
  <2>1. op.pc = "save" /\ UNCHANGED <<dir, fds>>
    BY <1>19 DEF write_metadata_to_disk
  <2>2. mounted
    BY <2>1 DEF DescriptorsSound
  <2> QED BY <1>4, <2>1, <2>2
<1>20. CASE make_fs_open \/ umount_fs
  BY <1>4, <1>20 DEF make_fs_open, umount_fs
<1>21. ASSUME \/ \E name \in Names : fs_delete(name)
              \/ \E d \in Fds : \/ \E n \in 1 .. MaxNbyte : fs_read(d, n)
                                \/ \E l \in 0 .. MaxLength : fs_truncate(d, l)
       PROVE  OffsetsSound'
  BY <1>4, <1>21 DEF fs_delete, fs_read, fs_truncate
<1>22. CASE \/ walk \/ walk_done \/ read_chunk \/ read_error
            \/ write_grow \/ write_tail \/ write_link \/ write_chunk
            \/ free_block_chain \/ truncate_walk \/ truncate_cut
  BY <1>4, <1>22 DEF walk, walk_done, read_chunk, read_error, write_grow, write_tail, write_link,
     write_chunk, free_block_chain, truncate_walk, truncate_cut
<1>23. CASE Call
  BY <1>5, <1>6, <1>7, <1>8, <1>10, <1>11, <1>20, <1>21, <1>23 DEF Call
<1>24. CASE Step
  BY <1>12, <1>14, <1>15, <1>16, <1>17, <1>19, <1>22, <1>24 DEF Step
<1> QED BY <1>18, <1>23, <1>24 DEF Next

LEMMA SideKept ==
  ASSUME IndInv, SideInv, Next
  PROVE  SideInv'
<1> USE DEF IndInv
<1>1. OffsetsSound'
  BY OffsetsKept
<1> SUFFICES NamesKnown' /\ Unmounted'
  BY <1>1 DEF SideInv
<1>2. TypeOK /\ dir \in [Slots -> Entry] /\ op.ent \in Slots
  BY Fields DEF TypeOK
<1>3. NamesKnown /\ Unmounted /\ active = mounted /\ (~mounted => op.pc = "idle")
  BY DEF SideInv, DescriptorsSound
<1>4. ASSUME SameNames(dir, dir') PROVE NamesKnown'
  BY <1>3, <1>4 DEF NamesKnown, SameNames
<1>5. ASSUME UNCHANGED dir PROVE NamesKnown'
  BY <1>3, <1>5 DEF NamesKnown
<1>6. ASSUME mounted' PROVE Unmounted'
  BY <1>6 DEF Unmounted
<1>7. CASE make_fs
  <2>1. /\ dir' = EmptyDir /\ own' = NoOwner /\ base' = NoBase /\ reply' = NoReply
        /\ disk'.dir = EmptyDir /\ disk'.own = NoOwner /\ disk'.base = NoBase
    BY <1>7 DEF make_fs, Metadata
  <2> QED BY <2>1 DEF NamesKnown, Unmounted, EmptyDir, EmptyEntry
<1>8. ASSUME NEW name \in Names, fs_create(name) PROVE NamesKnown'
  <2>1. PICK i \in Slots :
          dir' = [dir EXCEPT ![i] = [used |-> TRUE, name |-> name, size |-> 0, first |-> FAT_EOF]]
    BY <1>8 DEF fs_create
  <2>2. dir'[i].name = name /\ \A j \in Slots : j # i => dir'[j] = dir[j]
    BY <1>2, <2>1
  <2> QED BY <1>3, <2>2 DEF NamesKnown
<1>9. ASSUME delete_return PROVE NamesKnown'
  <2>1. dir' = [dir EXCEPT ![op.ent] = EmptyEntry]
    BY <1>9 DEF delete_return
  <2>2. ~dir'[op.ent].used /\ \A j \in Slots : j # op.ent => dir'[j] = dir[j]
    BY <1>2, <2>1 DEF EmptyEntry
  <2> QED BY <1>3, <2>2 DEF NamesKnown
<1>10. CASE mount_fs
  <2>1. dir' = disk.dir /\ mounted' = TRUE /\ mounted = FALSE
    BY <1>10 DEF mount_fs, TypeOK
  <2>2. UNCHANGED dir
    BY <1>3, <2>1 DEF Unmounted
  <2> QED BY <1>5, <1>6, <2>1, <2>2
<1>11. CASE write_metadata_to_disk
  <2>1. UNCHANGED <<dir, own, base>> /\ disk'.dir = dir /\ disk'.own = own /\ disk'.base = base
    BY <1>11 DEF write_metadata_to_disk, Metadata
  <2> QED BY <1>5, <2>1 DEF Unmounted
<1>12. ASSUME NEW d \in Fds, fs_close(d) PROVE NamesKnown' /\ Unmounted'
  <2>1. UNCHANGED <<mounted, dir, disk, own, base>>
    BY <1>12 DEF fs_close
  <2> QED BY <1>3, <1>5, <2>1 DEF Unmounted
<1>13. ASSUME NEW name \in Names, fs_open(name) PROVE NamesKnown'
  BY <1>5, <1>13 DEF fs_open
<1>14. ASSUME \/ \E name \in Names : fs_create(name) \/ fs_open(name) \/ fs_delete(name)
              \/ make_fs_open \/ umount_fs
              \/ \E d \in Fds : \/ \E n \in 1 .. MaxNbyte : fs_read(d, n)
                                \/ \E buf \in Buffers : fs_write(d, buf)
                                \/ \E l \in 0 .. MaxLength : fs_lseek(d, l) \/ fs_truncate(d, l)
       PROVE  mounted'
  <2>1. mounted' = mounted /\ (mounted \/ active)
    BY <1>14 DEF fs_create, fs_open, fs_delete, make_fs_open, umount_fs, fs_read, fs_write,
                 fs_lseek, fs_truncate
  <2> QED BY <1>3, <2>1
<1>15. ASSUME Step, ~write_metadata_to_disk PROVE mounted'
  <2>1. op.pc # "idle" /\ mounted' = mounted
    BY <1>15 DEF Step, walk, walk_done, read_chunk, read_return, read_error, write_grow, write_tail,
       write_link, write_chunk, extend_done, extend_abort, extend_error, write_return, write_error,
       write_finish, free_block_chain, delete_return, truncate_walk, truncate_cut, truncate_return
  <2> QED BY <1>3, <2>1
<1>16. make_fs_open => UNCHANGED dir
  BY DEF make_fs_open
<1>17. CASE Call
  <2>1. NamesKnown'
    BY <1>2, <1>4, <1>5, <1>7, <1>8, <1>12, <1>13, <1>16, <1>17, ResizeNames, SilentNames DEF Call
  <2>2. Unmounted'
    BY <1>6, <1>7, <1>12, <1>14, <1>17 DEF Call
  <2> QED BY <2>1, <2>2
<1>18. CASE Step
  <2>1. NamesKnown'
    BY <1>2, <1>4, <1>5, <1>9, <1>11, <1>18, ResizeNames, SilentNames DEF Step
  <2>2. Unmounted'
    BY <1>6, <1>11, <1>15, <1>18
  <2> QED BY <2>1, <2>2
<1> QED BY <1>10, <1>17, <1>18 DEF Next
-----------------------------------------------------------------------------
(* What a step leaves alone *)

(* A file whose blocks keep their bytes; it may lose blocks. *)
LEMMA MatchKept ==
  ASSUME NEW e, NEW s, Match(e, s),
         \A b \in Blocks : own'[b] = e => own[b] = e /\ base'[b] = base[b] /\ data'[b] = data[b]
  PROVE  Match(e, s)'
BY DEF Match

LEMMA SameKept ==
  ASSUME NEW e \in Slots, Same(e), UNCHANGED snap,
         dir'[e].name = dir[e].name /\ dir'[e].size = dir[e].size,
         \A b \in Blocks : own'[b] = e => own[b] = e /\ base'[b] = base[b] /\ data'[b] = data[b]
  PROVE  Same(e)'
<1>1. Known(e)' /\ Old(e)' = Old(e) /\ dir'[e].size = Len(Old(e))
  BY DEF Same, Known, Old
<1>2. PICK s : s = Old(e)
  OBVIOUS
<1>3. Match(e, s)'
  BY <1>2, MatchKept DEF Same
<1>4. Match(e, Old(e))'
  BY <1>1, <1>2, <1>3 DEF Match
<1> QED BY <1>1, <1>4 DEF Same

LEMMA ListedKept ==
  ASSUME \A e \in Slots : dir'[e].used = dir[e].used /\ dir'[e].name = dir[e].name, NEW n
  PROVE  Listed(n)' <=> Listed(n)
BY DEF Listed

LEMMA HandleKept ==
  ASSUME TypeOK, NEW d \in Fds, mounted' = mounted, fds'[d] = fds[d], SameNames(dir, dir')
  PROVE  HandleOf(d)' = HandleOf(d)
<1>1. fds[d].ent \in Slots
  BY Fields
<1> QED BY <1>1 DEF HandleOf, SameNames

(* During a call only its own file changes. *)
LEMMA OthersKept ==
  ASSUME FilesMatch, UNCHANGED snap, op'.ent = op.ent, Changing' = Changing,
         \A e \in Slots : dir'[e].used /\ ~(Changing /\ e = op.ent) =>
           /\ dir'[e] = dir[e]
           /\ \A b \in Blocks : own'[b] = e => own[b] = e /\ base'[b] = base[b] /\ data'[b] = data[b]
  PROVE  \A e \in Slots : dir'[e].used /\ ~(Changing' /\ e = op'.ent) => Same(e)'
<1> SUFFICES ASSUME NEW e \in Slots, dir'[e].used, ~(Changing /\ e = op.ent) PROVE Same(e)'
  OBVIOUS
<1>1. dir'[e] = dir[e]
  OBVIOUS
<1>2. Same(e)
  BY <1>1 DEF FilesMatch
<1> QED BY <1>1, <1>2, SameKept

(* Inside a call the descriptors and the directory do not change. *)
LEMMA InsideKept ==
  ASSUME TypeOK, Midway, op.pc \notin {"idle", "save"}, op'.pc \notin {"idle", "save"},
         op'.kind = op.kind, op'.fd = op.fd, op'.ent = op.ent,
         UNCHANGED <<mounted, dir, fds, reply, snap>>
  PROVE  /\ SnapType' /\ NamesMatch' /\ HandlesMatch' /\ Changing' = Changing
         /\ Was' = Was /\ OffNow' = OffNow /\ \A e \in Slots : Old(e)' = Old(e)
         /\ (op'.rem = op.rem => CutMatch')
         /\ (op'.cnt = op.cnt /\ op'.rem = op.rem /\ op'.buf = op.buf =>
               /\ Goal' = Goal /\ SizeNow' = SizeNow /\ ReadMatch'
               /\ (op.kind = "extend" /\ op'.pc \in {"walk", "tail", "abort"} => op.rem > 0)
                    => WriteMatch')
<1>1. op.ent \in Slots /\ op.fd \in Fds
  BY Fields
<1>2. SnapType'
  BY DEF Midway, SnapType
<1>3. Changing' = Changing /\ Was' = Was /\ \A e \in Slots : Old(e)' = Old(e)
  BY DEF Changing, Was, Old
<1>4. NamesMatch'
  <2>1. ~Removing /\ ~Removing'
    BY DEF Removing
  <2>2. \A n \in Names : Listed(n)' = Listed(n)
    BY DEF Listed
  <2>3. \A n \in Names : snap.files[n].exists <=> Listed(n)
    BY <2>1 DEF Midway, NamesMatch
  <2> QED BY <2>1, <2>2, <2>3 DEF NamesMatch
<1>5. OffNow' = OffNow
  BY <1>3 DEF OffNow
<1>6. \A d \in Fds : HandleOf(d)' = HandleOf(d)
  BY DEF HandleOf
<1>7. HandlesMatch'
  BY <1>3, <1>5, <1>6 DEF Midway, HandlesMatch
<1>8. ASSUME op'.rem = op.rem PROVE CutMatch'
  BY <1>1, <1>3, <1>8 DEF Midway, CutMatch
<1>9. ASSUME op'.cnt = op.cnt, op'.rem = op.rem, op'.buf = op.buf
      PROVE  /\ Goal' = Goal /\ SizeNow' = SizeNow /\ ReadMatch'
             /\ (op.kind = "extend" /\ op'.pc \in {"walk", "tail", "abort"} => op.rem > 0)
                  => WriteMatch'
  <2>1. Old(op.ent)' = Old(op.ent)
    BY DEF Old
  <2>2. Goal' = Goal
    BY <1>3, <1>9, <2>1 DEF Goal
  <2>3. SizeNow' = SizeNow
    BY <1>3, <2>1 DEF SizeNow
  <2>4. ReadMatch'
    BY <1>3, <1>9, <2>1 DEF Midway, ReadMatch
  <2>5. (op.kind = "extend" /\ op'.pc \in {"walk", "tail", "abort"} => op.rem > 0) => WriteMatch'
    BY <1>9 DEF Midway, WriteMatch
  <2> QED BY <2>2, <2>3, <2>4, <2>5
<1> QED BY <1>2, <1>3, <1>4, <1>5, <1>7, <1>8, <1>9

(* The steps that only move the registers along a chain, mark a block or free
   one. *)
LEMMA QuietStep ==
  ASSUME TypeOK, Midway, op.pc \notin {"idle", "save"}, op'.pc \notin {"idle", "save"},
         op'.kind = op.kind, op'.fd = op.fd, op'.ent = op.ent,
         op'.cnt = op.cnt, op'.rem = op.rem, op'.buf = op.buf,
         UNCHANGED <<mounted, dir, fds, data, reply, snap>>,
         \A b \in Blocks : own'[b] \in Slots => own'[b] = own[b] /\ base'[b] = base[b],
         op.kind = "extend" /\ op'.pc \in {"walk", "tail", "abort"} => op.rem > 0
  PROVE  Midway'
<1>1. /\ SnapType' /\ NamesMatch' /\ HandlesMatch' /\ Changing' = Changing
      /\ CutMatch' /\ Goal' = Goal /\ SizeNow' = SizeNow /\ ReadMatch' /\ WriteMatch'
  BY InsideKept
<1>2. op.ent \in Slots
  BY Fields
<1>3. FilesMatch
  BY DEF Midway
<1>4. \A e \in Slots, b \in Blocks :
        own'[b] = e => own[b] = e /\ base'[b] = base[b] /\ data'[b] = data[b]
  OBVIOUS
<1>5. \A e \in Slots : dir'[e].used /\ ~(Changing' /\ e = op'.ent) => Same(e)'
  BY <1>1, <1>3, <1>4, OthersKept
<1>6. ASSUME Changing
      PROVE  Known(op.ent)' /\ dir'[op'.ent].size = SizeNow' /\ Match(op.ent, Goal)'
  <2>1. Known(op.ent) /\ dir[op.ent].size = SizeNow /\ Match(op.ent, Goal)
    BY <1>3, <1>6 DEF FilesMatch
  <2>2. PICK e \in Slots : e = op.ent
    BY <1>2
  <2>3. PICK s : s = Goal
    OBVIOUS
  <2>4. Match(e, s)'
    BY <1>4, <2>1, <2>2, <2>3, MatchKept
  <2>5. Match(op.ent, Goal)'
    BY <1>1, <2>2, <2>3, <2>4 DEF Match
  <2> QED BY <1>1, <2>1, <2>5 DEF Known
<1>7. FilesMatch'
  BY <1>1, <1>5, <1>6 DEF FilesMatch
<1> QED BY <1>1, <1>7 DEF Midway

LEMMA QuietSteps ==
  ASSUME IndInv, Midway, UNCHANGED snap,
         \/ walk \/ walk_done \/ write_grow \/ write_tail \/ truncate_walk \/ truncate_cut
         \/ free_block_chain
  PROVE  Midway' /\ op.pc # "idle" /\ op'.pc # "idle"
<1>1. TypeOK /\ op \in Op /\ own \in [Blocks -> Slots \cup {NoSlot}]
  BY DEF IndInv, TypeOK
<1>2. WriteMatch
  BY DEF Midway
<1>3. ASSUME NEW x, NEW y, NEW z, NEW q \in Pcs \ {"idle", "save"},
             op' = [op EXCEPT !.pc = q, !.blk = x, !.off = y, !.aux = z],
             op.pc \notin {"idle", "save"},
             UNCHANGED <<mounted, dir, fds, data, reply>>,
             \A b \in Blocks : own'[b] \in Slots => own'[b] = own[b] /\ base'[b] = base[b],
             op.kind = "extend" /\ q \in {"walk", "tail", "abort"} => op.rem > 0
      PROVE  Midway' /\ op.pc # "idle" /\ op'.pc # "idle"
  <2>1. /\ op'.pc = q /\ op'.kind = op.kind /\ op'.fd = op.fd /\ op'.ent = op.ent
        /\ op'.cnt = op.cnt /\ op'.rem = op.rem /\ op'.buf = op.buf
    BY <1>1, <1>3 DEF Op
  <2> QED BY <1>1, <1>3, <2>1, QuietStep
<1>4. \A b \in Blocks : UNCHANGED <<own, base>> =>
        (own'[b] \in Slots => own'[b] = own[b] /\ base'[b] = base[b])
  OBVIOUS
<1> DEFINE Inner == Pcs \ {"idle", "save"}
<1>5. /\ "walk" \in Inner /\ "tail" \in Inner /\ "chunk" \in Inner /\ "abort" \in Inner
      /\ "cut" \in Inner /\ "free" \in Inner
  BY DEF Pcs
<1>6. CASE walk
  <2>1. /\ op.pc = "walk" /\ UNCHANGED <<mounted, dir, fds, data, reply, own, base>>
        /\ op' = [op EXCEPT !.pc = "walk", !.blk = fat[op.blk], !.off = op.off - BlockSize, !.aux = op.aux]
    BY <1>1, <1>6 DEF walk, Op
  <2> QED BY <1>2, <1>3, <1>4, <1>5, <2>1 DEF WriteMatch
<1>7. CASE walk_done
  <2>1. /\ op.pc = "walk" /\ UNCHANGED <<mounted, dir, fds, data, reply, own, base>>
        /\ op' = [op EXCEPT !.pc = "chunk", !.blk = op.blk, !.off = op.off, !.aux = op.aux]
    BY <1>1, <1>7 DEF walk_done, Op
  <2> QED BY <1>3, <1>4, <1>5, <2>1
<1>8. CASE write_grow
  <2>1. op.pc = "walk" /\ UNCHANGED <<mounted, dir, fds, data, reply, own, base>>
    BY <1>8 DEF write_grow
  <2>2. \/ \E b \in Blocks : op' = [op EXCEPT !.pc = "tail", !.blk = dir[op.ent].first, !.off = op.off, !.aux = b]
        \/ op' = [op EXCEPT !.pc = "abort", !.blk = op.blk, !.off = op.off, !.aux = op.aux]
    BY <1>1, <1>8 DEF write_grow, Op
  <2>3. op.kind = "extend" => op.rem > 0
    BY <1>2, <2>1 DEF WriteMatch
  <2>4. ASSUME NEW b \in Blocks,
               op' = [op EXCEPT !.pc = "tail", !.blk = dir[op.ent].first, !.off = op.off, !.aux = b]
        PROVE  Midway' /\ op.pc # "idle" /\ op'.pc # "idle"
    BY <1>3, <1>4, <1>5, <2>1, <2>3, <2>4
  <2>5. CASE op' = [op EXCEPT !.pc = "abort", !.blk = op.blk, !.off = op.off, !.aux = op.aux]
    BY <1>3, <1>4, <1>5, <2>1, <2>3, <2>5
  <2> QED BY <2>2, <2>4, <2>5
<1>9. CASE write_tail
  <2>1. /\ op.pc = "tail" /\ UNCHANGED <<mounted, dir, fds, data, reply, own, base>>
        /\ op' = [op EXCEPT !.pc = "tail", !.blk = fat[op.blk], !.off = op.off, !.aux = op.aux]
    BY <1>1, <1>9 DEF write_tail, Op
  <2> QED BY <1>2, <1>3, <1>4, <1>5, <2>1 DEF WriteMatch
<1>10. CASE truncate_walk
  <2>1. /\ op.pc = "cut" /\ UNCHANGED <<mounted, dir, fds, data, reply, own, base>>
        /\ op' = [op EXCEPT !.pc = "cut", !.blk = fat[op.blk], !.off = op.off + BlockSize, !.aux = op.aux]
    BY <1>1, <1>10 DEF truncate_walk, Op
  <2> QED BY <1>2, <1>3, <1>4, <1>5, <2>1 DEF WriteMatch
<1>11. CASE truncate_cut
  <2>1. /\ op.pc = "cut" /\ UNCHANGED <<mounted, dir, fds, data, reply, own, base>>
        /\ op' = [op EXCEPT !.pc = "free", !.blk = fat[op.blk], !.off = op.off, !.aux = op.blk]
    BY <1>1, <1>11 DEF truncate_cut, Op
  <2> QED BY <1>3, <1>4, <1>5, <2>1
<1>12. CASE free_block_chain
  <2>1. /\ op.pc = "free" /\ UNCHANGED <<mounted, dir, fds, data, reply, base>>
        /\ op' = [op EXCEPT !.pc = "free", !.blk = fat[op.blk], !.off = op.off, !.aux = op.aux]
        /\ own' = [own EXCEPT ![op.blk] = NoSlot]
    BY <1>1, <1>12 DEF free_block_chain, Op
  <2>2. \A b \in Blocks : own'[b] \in Slots => own'[b] = own[b] /\ base'[b] = base[b]
    BY <1>1, <2>1, Marks
  <2> QED BY <1>2, <1>3, <1>5, <2>1, <2>2 DEF WriteMatch
<1> QED BY <1>6, <1>7, <1>8, <1>9, <1>10, <1>11, <1>12
-----------------------------------------------------------------------------
(* A call begins *)

LEMMA ViewParts ==
  ASSUME snap = View
  PROVE  /\ snap.online = mounted /\ snap.reply = reply
         /\ snap.files = [n \in Names |-> FileOf(n)] /\ snap.open = [d \in Fds |-> HandleOf(d)]
BY DEF View

(* Between two calls the caller sees what the blocks hold. *)
LEMMA AtIdle ==
  ASSUME IndInv, NamesInv, SideInv, StoreInv, op.pc = "idle", mounted
  PROVE  /\ SnapType /\ snap.reply = reply
         /\ \A e \in Slots : dir[e].used => Same(e)
         /\ \A n \in Names : snap.files[n].exists <=> Listed(n)
         /\ \A d \in Fds : snap.open[d] = HandleOf(d)
<1>1. /\ snap.online = mounted /\ snap.reply = reply
      /\ snap.files = [n \in Names |-> FileOf(n)] /\ snap.open = [d \in Fds |-> HandleOf(d)]
  BY ViewParts DEF StoreInv
<1>2. \A n \in Names : snap.files[n] = FileOf(n)
  BY <1>1
<1>3. \A d \in Fds : snap.open[d] = HandleOf(d)
  BY <1>1
<1>4. ASSUME NEW e \in Slots, dir[e].used
      PROVE  /\ snap.files[dir[e].name] = [exists |-> TRUE, bytes |-> Shown(e)]
             /\ Shown(e) \in Seq(Byte) /\ Same(e)
  <2>1. snap.files[dir[e].name] = [exists |-> TRUE, bytes |-> Shown(e)]
    BY <1>2, <1>4, FileOfIs DEF SideInv, NamesKnown
  <2>2. Shown(e) \in Seq(Byte) /\ Len(Shown(e)) = dir[e].size /\ Match(e, Shown(e))
    BY <1>4, ShownMatches
  <2>3. Old(e) = Shown(e) /\ Known(e)
    BY <2>1 DEF Old, Known
  <2> QED BY <2>1, <2>2, <2>3 DEF Same
<1>5. ASSUME NEW n \in Names
      PROVE  /\ snap.files[n] \in [exists : BOOLEAN, bytes : Seq(Byte)]
             /\ ~snap.files[n].exists => snap.files[n].bytes = <<>>
             /\ snap.files[n].exists <=> Listed(n)
  <2>1. CASE Listed(n)
    <3>1. PICK e \in Slots : dir[e].used /\ dir[e].name = n
      BY <2>1 DEF Listed
    <3>2. snap.files[n] = [exists |-> TRUE, bytes |-> Shown(e)] /\ Shown(e) \in Seq(Byte)
      BY <1>4, <3>1
    <3> QED BY <2>1, <3>2
  <2>2. CASE ~Listed(n)
    <3>1. snap.files[n] = [exists |-> FALSE, bytes |-> <<>>]
      BY <1>2, <2>2, NameListed
    <3> QED BY <2>2, <3>1
  <2> QED BY <2>1, <2>2
<1>6. SnapType
  <2>1. snap.files \in [Names -> [exists : BOOLEAN, bytes : Seq(Byte)]]
    <3>1. snap.files = [n \in Names |-> snap.files[n]]
      BY <1>1
    <3> QED BY <1>5, <3>1
  <2>2. snap.open = [d \in Fds |-> snap.open[d]]
    BY <1>1
  <2>3. snap.online = TRUE
    <3>1. mounted \in BOOLEAN
      BY DEF IndInv, TypeOK
    <3> QED BY <1>1, <3>1
  <2> QED BY <1>5, <2>1, <2>2, <2>3 DEF SnapType
<1> QED BY <1>1, <1>3, <1>4, <1>5, <1>6

LEMMA Begun ==
  ASSUME IndInv, NamesInv, SideInv, StoreInv, op.pc = "idle", mounted,
         UNCHANGED <<mounted, dir, fds, data, own, base, snap>>, ~Removing'
  PROVE  /\ SnapType' /\ NamesMatch'
         /\ \A e \in Slots : dir'[e].used => Same(e)'
         /\ \A d \in Fds : snap'.open[d] = HandleOf(d)'
<1>1. /\ SnapType
      /\ \A e \in Slots : dir[e].used => Same(e)
      /\ \A n \in Names : snap.files[n].exists <=> Listed(n)
      /\ \A d \in Fds : snap.open[d] = HandleOf(d)
  BY AtIdle
<1>2. SnapType'
  BY <1>1 DEF SnapType
<1>3. \A n : Listed(n)' = Listed(n)
  BY DEF Listed
<1>4. NamesMatch'
  BY <1>1, <1>3 DEF NamesMatch
<1>5. ASSUME NEW e \in Slots, dir'[e].used PROVE Same(e)'
  <2>1. Same(e)
    BY <1>1, <1>5
  <2> QED BY <2>1, SameKept
<1>6. \A d \in Fds : HandleOf(d)' = HandleOf(d)
  BY DEF HandleOf
<1> QED BY <1>1, <1>2, <1>4, <1>5, <1>6

(* A call that leaves every file as it is. *)
LEMMA BegunQuietly ==
  ASSUME IndInv, NamesInv, SideInv, StoreInv, op.pc = "idle", mounted,
         UNCHANGED <<mounted, dir, fds, data, own, base, snap>>, ~Removing',
         op'.kind \in {"read", "delete", "umount"}, ReadMatch',
         op'.kind # "read" => reply' = NoReply
  PROVE  Midway'
<1>1. /\ SnapType' /\ NamesMatch'
      /\ \A e \in Slots : dir'[e].used => Same(e)'
      /\ \A d \in Fds : snap'.open[d] = HandleOf(d)'
  BY Begun
<1>2. ~Changing'
  BY DEF Changing
<1>3. FilesMatch' /\ HandlesMatch'
  BY <1>1, <1>2 DEF FilesMatch, HandlesMatch
<1>4. WriteMatch' /\ CutMatch'
  BY DEF WriteMatch, CutMatch
<1> QED BY <1>1, <1>3, <1>4 DEF Midway

LEMMA ReadBegins ==
  ASSUME IndInv, NamesInv, SideInv, StoreInv, UNCHANGED snap,
         NEW d \in Fds, NEW n \in 1 .. MaxNbyte, fs_read(d, n), op' # op
  PROVE  Midway' /\ op'.pc # "idle"
<1> DEFINE e == fds[d].ent
<1>1. /\ op.pc = "idle" /\ mounted /\ fds[d].used
      /\ op' = [Idle EXCEPT !.kind = "read", !.pc = "walk", !.fd = d, !.ent = e,
                            !.blk = dir[e].first, !.off = fds[d].off,
                            !.rem = Smaller(n, dir[e].size - fds[d].off)]
      /\ UNCHANGED <<mounted, dir, fds, data, own, base>>
  BY DEF fs_read
<1>2. /\ op'.kind = "read" /\ op'.pc = "walk" /\ op'.fd = d /\ op'.ent = e
      /\ op'.rem = Smaller(n, dir[e].size - fds[d].off) /\ op'.cnt = 0 /\ op'.buf = <<>>
  BY <1>1 DEF Idle
<1>3. e \in Slots /\ dir[e].used /\ dir[e].size \in Nat /\ fds[d].off \in Nat
  BY <1>1, Fields DEF IndInv, DescriptorsSound
<1>4. Same(e) /\ snap.open[d] = HandleOf(d)
  BY <1>1, <1>3, AtIdle
<1>5. snap.open[d].off = fds[d].off
  BY <1>1, <1>4 DEF HandleOf
<1>6. Len(Old(e)) = dir[e].size
  BY <1>4 DEF Same
<1>7. Old(op.ent)' = Old(e) /\ Was' = fds[d].off
  BY <1>1, <1>2, <1>5 DEF Old, Was
<1>8. ReadMatch'
  <2>1. op'.cnt + op'.rem = Smaller(n, Len(Old(op.ent)') - Was')
    <3>1. op'.rem \in Int
      BY <1>2, <1>3 DEF Smaller
    <3> QED BY <1>2, <1>6, <1>7, <3>1
  <2>2. Len(op'.buf) = op'.cnt /\ \A i \in 1 .. op'.cnt : FALSE
    BY <1>2
  <2> QED BY <1>2, <2>1, <2>2 DEF ReadMatch
<1>9. ~Removing'
  BY <1>2 DEF Removing
<1>10. Midway'
  BY <1>1, <1>2, <1>8, <1>9, BegunQuietly
<1> QED BY <1>2, <1>10

LEMMA DeleteBegins ==
  ASSUME IndInv, NamesInv, SideInv, StoreInv, UNCHANGED snap,
         umount_fs \/ \E name \in Names : fs_delete(name)
  PROVE  Midway' /\ op'.pc # "idle"
<1>1. /\ op.pc = "idle" /\ mounted /\ reply' = NoReply
      /\ UNCHANGED <<mounted, dir, fds, data, own, base>>
  BY DEF umount_fs, fs_delete
<1>2. \/ op'.kind = "umount" /\ op'.pc = "save"
      \/ op'.kind = "delete" /\ op'.pc = "free"
  BY DEF umount_fs, fs_delete, Idle
<1>3. ~Removing' /\ ReadMatch'
  BY <1>2 DEF Removing, ReadMatch
<1>4. Midway'
  BY <1>1, <1>2, <1>3, BegunQuietly
<1> QED BY <1>2, <1>4

(* Two names for the same bytes. *)
LEMMA MatchEqual ==
  ASSUME TypeOK, NEW e, NEW s \in Seq(Byte), NEW t \in Seq(Byte), Match(e, s), Len(t) <= Len(s),
         \A i \in 1 .. Len(t) : t[i] = s[i]
  PROVE  Match(e, t)
<1> SUFFICES ASSUME NEW b \in Blocks, own[b] = e, NEW j \in 0 .. BlockSize - 1, base[b] + j < Len(t)
             PROVE  data[b][j] = t[base[b] + j + 1]
  BY DEF Match
<1>1. PICK k \in Nat : k = base[b]
  BY Fields
<1>2. PICK m \in Nat : m = Len(t)
  OBVIOUS
<1>3. PICK l \in Nat : l = Len(s)
  OBVIOUS
<1>4. k + j < l /\ k + j + 1 \in 1 .. m
  BY <1>1, <1>2, <1>3, Marks
<1>5. data[b][j] = s[k + j + 1]
  BY <1>1, <1>3, <1>4 DEF Match
<1> QED BY <1>1, <1>2, <1>4, <1>5

(* A call that changes a file, before it has done anything. *)
LEMMA BegunChanging ==
  ASSUME IndInv, NamesInv, SideInv, StoreInv, op.pc = "idle", mounted,
         UNCHANGED <<mounted, dir, fds, data, own, base, snap>>,
         NEW d \in Fds, fds[d].used, op'.fd = d, op'.ent = fds[d].ent,
         Changing', op'.pc \notin {"idle", "save"},
         SizeNow' = dir[fds[d].ent].size, NEW s \in Seq(Byte), s = Goal',
         Len(s) <= dir[fds[d].ent].size,
         \A i \in 1 .. Len(s) : s[i] = Old(fds[d].ent)[i]
  PROVE  SnapType' /\ NamesMatch' /\ FilesMatch' /\ HandlesMatch'
<1>1. PICK e \in Slots : e = fds[d].ent
  BY Fields DEF IndInv
<1>2. dir[e].used /\ fds[d].off \in Nat
  BY <1>1, Fields DEF IndInv, DescriptorsSound
<1>3. ~Removing'
  BY DEF Removing
<1>4. /\ SnapType' /\ NamesMatch'
      /\ \A g \in Slots : dir'[g].used => Same(g)'
      /\ \A c \in Fds : snap'.open[c] = HandleOf(c)'
  BY <1>3, Begun
<1>5. Same(e) /\ SnapType /\ snap.open[d] = HandleOf(d)
  BY <1>1, <1>2, AtIdle
<1>6. dir[e].name \in Names
  BY <1>2 DEF SideInv, NamesKnown
<1>7. Old(e) \in Seq(Byte)
  BY <1>5, <1>6 DEF SnapType, Old
<1>8. Match(e, s)
  <2>1. Match(e, Old(e)) /\ Len(Old(e)) = dir[e].size
    BY <1>5 DEF Same
  <2>2. PICK o \in Seq(Byte) : o = Old(e)
    BY <1>7
  <2> QED BY <1>1, <2>1, <2>2, MatchEqual DEF IndInv
<1>9. Match(e, s)'
  BY <1>8, MatchKept
<1>10. Match(op.ent, Goal)'
  BY <1>1, <1>9 DEF Match
<1>11. Known(op.ent)' /\ dir'[op'.ent].size = SizeNow'
  BY <1>1, <1>5 DEF Same, Known
<1>12. FilesMatch'
  BY <1>4, <1>10, <1>11 DEF FilesMatch
<1>13. snap.open[d] = [used |-> TRUE, name |-> dir[e].name, off |-> fds[d].off]
  BY <1>1, <1>5 DEF HandleOf
<1>14. Was' = fds[d].off
  BY <1>13 DEF Was
<1>15. HandlesMatch'
  <2>1. snap'.open[op'.fd] = Store!At(dir[op.ent].name, Was)'
    BY <1>1, <1>13, <1>14 DEF Store!At
  <2>2. fds'[op'.fd].off = OffNow' /\ Was' \in Nat
    BY <1>2, <1>14 DEF OffNow
  <2> QED BY <1>4, <2>1, <2>2 DEF HandlesMatch
<1> QED BY <1>4, <1>12, <1>15

LEMMA TruncateBegins ==
  ASSUME IndInv, NamesInv, SideInv, StoreInv, UNCHANGED snap,
         NEW d \in Fds, NEW l \in 0 .. MaxLength, fs_truncate(d, l)
  PROVE  Midway' /\ op'.pc # "idle"
<1> DEFINE len == l % UintMod
<1>1. PICK e \in Slots : e = fds[d].ent
  BY Fields DEF IndInv
<1>2. /\ op.pc = "idle" /\ mounted /\ fds[d].used /\ len <= dir[e].size
      /\ op' = [Idle EXCEPT !.kind = "truncate", !.pc = "cut", !.fd = d, !.ent = e,
                            !.blk = dir[e].first, !.rem = len]
      /\ reply' = NoReply /\ UNCHANGED <<mounted, dir, fds, data, own, base>>
  BY <1>1 DEF fs_truncate
<1>3. op'.kind = "truncate" /\ op'.pc = "cut" /\ op'.fd = d /\ op'.ent = e /\ op'.rem = len
  BY <1>2 DEF Idle
<1>4. dir[e].used /\ dir[e].size \in Nat /\ len \in Nat
  <2>1. UintMod \in Nat /\ UintMod > 0 /\ l \in Nat
    BY SizesAssumption
  <2> QED BY <1>1, <1>2, <2>1, Fields DEF IndInv, DescriptorsSound
<1>5. Same(e) /\ SnapType /\ dir[e].name \in Names
  BY <1>2, <1>4, AtIdle DEF SideInv, NamesKnown
<1>6. Old(e) \in Seq(Byte) /\ Len(Old(e)) = dir[e].size
  BY <1>5 DEF SnapType, Old, Same
<1>7. Old(op.ent)' = Old(e)
  BY <1>2, <1>3 DEF Old
<1> HIDE DEF len
<1> DEFINE s == SubSeq(Old(e), 1, len)
<1>8. /\ s \in Seq(Byte) /\ Len(s) = len + 1 - 1
      /\ \A i \in 1 .. len + 1 - 1 : s[i] = Old(e)[1 + i - 1]
  BY <1>2, <1>4, <1>6, PartIs
<1>9. Goal' = s /\ SizeNow' = dir[e].size /\ Changing'
  BY <1>3, <1>6, <1>7 DEF Goal, SizeNow, Changing
<1> HIDE DEF s
<1>10. PICK t \in Seq(Byte) : t = s
  BY <1>8
<1>11. Len(t) <= dir[e].size /\ \A i \in 1 .. Len(t) : t[i] = Old(e)[i]
  BY <1>2, <1>4, <1>8, <1>10
<1>12. SnapType' /\ NamesMatch' /\ FilesMatch' /\ HandlesMatch'
  BY <1>1, <1>2, <1>3, <1>9, <1>10, <1>11, BegunChanging
<1>13. ReadMatch' /\ WriteMatch'
  BY <1>3 DEF ReadMatch, WriteMatch
<1>14. CutMatch'
  BY <1>2, <1>3, <1>6, <1>7 DEF CutMatch, len
<1> QED BY <1>3, <1>12, <1>13, <1>14 DEF Midway

LEMMA BufferIs ==
  ASSUME NEW buf \in Buffers
  PROVE  /\ buf \in Seq(Byte) /\ Len(buf) \in 1 .. MaxNbyte /\ SubSeq(buf, 1, 0) = <<>>
         /\ buf \in UNION {[1 .. n -> Byte] : n \in 1 .. MaxNbyte}
<1>1. PICK n \in 1 .. MaxNbyte : buf \in [1 .. n -> Byte]
  BY DEF Buffers
<1>2. n \in Nat
  BY SizesAssumption
<1>3. buf \in Seq(Byte)
  BY <1>1, <1>2, SeqDef
<1>4. Len(buf) = n
  BY <1>1, <1>2, <1>3
<1> QED BY <1>3, <1>4 DEF Buffers

(* Nothing written inside the file, nothing filled. *)
LEMMA NothingWritten ==
  ASSUME NEW s \in Seq(Byte), NEW k \in Nat
  PROVE  /\ k <= Len(s) => Store!Overwrite(s, k, <<>>) = s
         /\ s \o Store!Fill(0) = s
<1>1. ASSUME k <= Len(s) PROVE Store!Overwrite(s, k, <<>>) = s
  <2>1. PICK z \in Seq(Byte) : z = <<>> /\ Len(z) = 0
    <3>1. <<>> \in Seq(Byte) /\ Len(<<>>) = 0
      OBVIOUS
    <3> QED BY <3>1
  <2> DEFINE w == Store!Overwrite(s, k, z)
  <2>2. PICK l \in Nat : l = Len(s)
    OBVIOUS
  <2>3. Larger(Len(s), k + Len(z)) = l
    BY <1>1, <2>1, <2>2 DEF Larger
  <2>4. /\ w \in Seq(Byte) /\ Len(w) = l
        /\ \A i \in 1 .. l : w[i] = IF i > k /\ i <= k + Len(z) THEN z[i - k]
                                    ELSE IF i <= Len(s) THEN s[i] ELSE 0
    BY <2>3, OverwriteIs
  <2>5. w = Store!Overwrite(s, k, <<>>)
    BY <2>1
  <2> HIDE DEF w
  <2>6. \A i \in 1 .. l : w[i] = s[i]
    BY <2>1, <2>2, <2>4
  <2>7. w = [i \in 1 .. l |-> w[i]] /\ s = [i \in 1 .. l |-> s[i]]
    BY <2>2, <2>4
  <2>8. w = s
    BY <2>6, <2>7
  <2> QED BY <2>5, <2>8
<1>2. s \o Store!Fill(0) = s
  <2>1. Store!Fill(0) = <<>>
    BY DEF Store!Fill
  <2> QED BY <2>1
<1> QED BY <1>1, <1>2

LEMMA WriteBegins ==
  ASSUME IndInv, NamesInv, SideInv, StoreInv, UNCHANGED snap,
         NEW d \in Fds, NEW buf \in Buffers, fs_write(d, buf), dir[fds[d].ent].first # FAT_EOF
  PROVE  Midway' /\ op'.pc # "idle"
<1>1. PICK e \in Slots : e = fds[d].ent
  BY Fields DEF IndInv
<1>2. /\ op.pc = "idle" /\ mounted /\ fds[d].used
      /\ op' = write_entry(d, e, dir[e].first, dir[e].size, buf)
      /\ UNCHANGED <<mounted, dir, fds, data, own, base>>
  BY <1>1 DEF fs_write
<1>3. /\ op'.pc = "walk" /\ op'.fd = d /\ op'.ent = e /\ op'.cnt = 0 /\ op'.buf = buf
      /\ fds[d].off > dir[e].size => op'.kind = "extend" /\ op'.rem = fds[d].off - dir[e].size
      /\ ~(fds[d].off > dir[e].size) => op'.kind = "write"
  BY <1>2 DEF write_entry, Idle
<1>4. dir[e].used /\ dir[e].size \in Nat /\ fds[d].off \in Nat
  BY <1>1, <1>2, Fields DEF IndInv, DescriptorsSound
<1>5. Same(e) /\ SnapType /\ dir[e].name \in Names /\ snap.open[d] = HandleOf(d)
  BY <1>2, <1>4, AtIdle DEF SideInv, NamesKnown
<1>6. PICK s \in Seq(Byte) : s = Old(e) /\ Len(s) = dir[e].size
  BY <1>5 DEF SnapType, Old, Same
<1>7. Old(op.ent)' = s /\ Was' = fds[d].off
  BY <1>1, <1>2, <1>3, <1>5, <1>6 DEF Old, Was, HandleOf
<1>8. buf \in Seq(Byte) /\ SubSeq(buf, 1, 0) = <<>> /\ Len(buf) \in Nat
  BY BufferIs
<1>9. Goal' = s /\ SizeNow' = dir[e].size /\ Changing'
  <2>1. CASE fds[d].off > dir[e].size
    <3>1. op'.kind = "extend"
      BY <1>3, <2>1
    <3>2. Goal' = s \o Store!Fill(0) /\ SizeNow' = Len(s) /\ Changing'
      BY <1>3, <1>7, <3>1 DEF Goal, SizeNow, Changing, Filled
    <3> QED BY <1>6, <3>2, NothingWritten
  <2>2. CASE ~(fds[d].off > dir[e].size)
    <3>1. op'.kind = "write"
      BY <1>3, <2>2
    <3>2. Goal' = Store!Overwrite(s, fds[d].off, <<>>) /\ SizeNow' = Larger(Len(s), fds[d].off)
          /\ Changing'
      BY <1>3, <1>7, <1>8, <3>1 DEF Goal, SizeNow, Changing, Copied
    <3>3. fds[d].off <= Len(s)
      BY <1>4, <1>6, <2>2
    <3>4. Larger(Len(s), fds[d].off) = dir[e].size
      BY <1>4, <1>6, <3>3 DEF Larger
    <3> QED BY <1>4, <3>2, <3>3, <3>4, NothingWritten
  <2> QED BY <2>1, <2>2
<1>10. SnapType' /\ NamesMatch' /\ FilesMatch' /\ HandlesMatch'
  BY <1>1, <1>2, <1>3, <1>4, <1>6, <1>9, BegunChanging
<1>11. ReadMatch' /\ CutMatch'
  BY <1>3 DEF ReadMatch, CutMatch
<1>12. WriteMatch'
  BY <1>3, <1>4, <1>8 DEF WriteMatch
<1> QED BY <1>3, <1>10, <1>11, <1>12 DEF Midway

(* The first block of a file. *)
LEMMA WriteAllocates ==
  ASSUME IndInv, NamesInv, SideInv, StoreInv, UNCHANGED snap,
         NEW d \in Fds, NEW buf \in Buffers, fs_write(d, buf), dir[fds[d].ent].first = FAT_EOF,
         NEW b \in Blocks, allocate_free_block(b),
         dir' = [dir EXCEPT ![fds[d].ent].first = b, ![fds[d].ent].size = 0],
         op' = write_entry(d, fds[d].ent, b, 0, buf),
         own' = [own EXCEPT ![b] = fds[d].ent], base' = [base EXCEPT ![b] = 0]
  PROVE  Midway' /\ op'.pc # "idle"
<1>1. PICK e \in Slots : e = fds[d].ent
  BY Fields DEF IndInv
<1>2. op.pc = "idle" /\ mounted /\ fds[d].used /\ UNCHANGED <<mounted, fds, data>>
  BY DEF fs_write
<1>3. /\ dir[e].used /\ dir[e].size \in Nat /\ fds[d].off \in Nat
      /\ dir \in [Slots -> Entry] /\ own \in [Blocks -> Slots \cup {NoSlot}]
      /\ base \in [Blocks -> Nat]
  BY <1>1, <1>2, Fields DEF IndInv, DescriptorsSound, TypeOK
<1>4. fds[d].off = 0 /\ dir[e].size = 0
  <2>1. Deleted = {}
    BY <1>2, AtRest
  <2>2. fds[d].off = 0
    BY <1>1, <1>2 DEF SideInv, OffsetsSound
  <2> QED BY <1>1, <1>2, <1>3, <2>1, <2>2, NothingThere
<1>5. /\ op'.pc = "walk" /\ op'.fd = d /\ op'.ent = e /\ op'.cnt = 0 /\ op'.buf = buf
      /\ op'.kind = "write"
  BY <1>1, <1>4 DEF write_entry, Idle
<1>6. /\ dir'[e].size = 0 /\ dir'[e].name = dir[e].name /\ dir'[e].used = dir[e].used
      /\ \A g \in Slots : g # e => dir'[g] = dir[g]
  BY <1>1, <1>3 DEF Entry
<1>7. /\ SnapType
      /\ \A g \in Slots : dir[g].used => Same(g)
      /\ \A n \in Names : snap.files[n].exists <=> Listed(n)
      /\ \A c \in Fds : snap.open[c] = HandleOf(c)
  BY <1>2, AtIdle
<1>8. dir[e].name \in Names /\ Same(e) /\ Known(e)
  BY <1>3, <1>7 DEF SideInv, NamesKnown, Same
<1>9. PICK s \in Seq(Byte) : s = Old(e) /\ Len(s) = 0
  BY <1>4, <1>7, <1>8 DEF SnapType, Old, Same
<1>10. snap.open[d] = [used |-> TRUE, name |-> dir[e].name, off |-> 0]
  BY <1>1, <1>2, <1>4, <1>7 DEF HandleOf
<1>11. Old(op.ent)' = s /\ Was' = 0
  <2>1. snap'.files[dir'[op'.ent].name].bytes = snap.files[dir[e].name].bytes
    BY <1>5, <1>6
  <2>2. snap'.open[op'.fd].off = 0
    BY <1>5, <1>10
  <2> QED BY <1>9, <2>1, <2>2 DEF Old, Was
<1>12. buf \in Seq(Byte) /\ SubSeq(buf, 1, 0) = <<>> /\ Len(buf) \in Nat
  BY BufferIs
<1>13. Goal' = s /\ SizeNow' = 0 /\ Changing' /\ OffNow' = 0
  <2>1. Goal' = Store!Overwrite(s, 0, <<>>)
    BY <1>5, <1>11, <1>12 DEF Goal, Copied
  <2>2. SizeNow' = Larger(0, 0)
    BY <1>5, <1>9, <1>11 DEF SizeNow
  <2>3. 0 \in Nat /\ 0 <= Len(s)
    BY <1>9
  <2> QED BY <1>5, <1>11, <2>1, <2>2, <2>3, NothingWritten DEF Larger, Changing, OffNow
<1>14. SnapType'
  BY <1>7 DEF SnapType
<1>15. SameNames(dir, dir')
  BY <1>6 DEF SameNames
<1>16. NamesMatch'
  <2>1. ~Removing'
    BY <1>5 DEF Removing
  <2>2. \A n \in Names : Listed(n)' <=> Listed(n)
    BY <1>15, ListedKept DEF SameNames
  <2> QED BY <1>7, <2>1, <2>2 DEF NamesMatch
<1>17. FilesMatch'
  <2>1. ASSUME NEW g \in Slots, dir'[g].used, ~(Changing' /\ g = op'.ent) PROVE Same(g)'
    <3>1. g # e /\ dir'[g] = dir[g]
      BY <1>5, <1>6, <1>13, <2>1
    <3>2. \A c \in Blocks : own'[c] = g => own[c] = g /\ base'[c] = base[c] /\ data'[c] = data[c]
      BY <1>1, <1>2, <1>3, <3>1
    <3> QED BY <1>7, <2>1, <3>1, <3>2, SameKept
  <2>2. Known(op.ent)'
    BY <1>5, <1>6, <1>8 DEF Known
  <2>3. Match(op.ent, Goal)'
    <3>1. \A c \in Blocks : base'[c] \in Nat
      BY <1>3
    <3>2. Len(Goal') = 0
      BY <1>9, <1>13
    <3>3. \A c \in Blocks, j \in 0 .. BlockSize - 1 : ~(base'[c] + j < Len(Goal'))
      BY <3>1, <3>2, Marks
    <3> QED BY <3>3 DEF Match
  <2> QED BY <1>5, <1>6, <1>13, <2>1, <2>2, <2>3 DEF FilesMatch
<1>18. HandlesMatch'
  <2>1. \A c \in Fds : snap'.open[c] = HandleOf(c)'
    BY <1>2, <1>7, <1>15, HandleKept DEF IndInv
  <2>2. snap'.open[op'.fd] = Store!At(dir[op.ent].name, Was)'
    BY <1>5, <1>6, <1>10, <1>11 DEF Store!At
  <2>3. fds'[op'.fd].off = OffNow' /\ Was' \in Nat
    BY <1>2, <1>4, <1>5, <1>11, <1>13
  <2> QED BY <2>1, <2>2, <2>3 DEF HandlesMatch
<1>19. ReadMatch' /\ CutMatch' /\ WriteMatch'
  BY <1>5, <1>12 DEF ReadMatch, CutMatch, WriteMatch
<1> QED BY <1>5, <1>14, <1>16, <1>17, <1>18, <1>19 DEF Midway
-----------------------------------------------------------------------------
(* The loops of fs_write *)

(* h is g with the n bytes of content written over it from offset a on. *)
Grown(g, h, a, n, content) ==
  /\ a <= Len(g) /\ Len(h) = Larger(Len(g), a + n)
  /\ \A i \in 1 .. Len(h) : h[i] = IF i > a /\ i <= a + n THEN content[i - a] ELSE g[i]

(* The file after c bytes of the buffer, or c zeros, byte by byte. *)
IsCopy(r, o, w, buf, c) ==
  /\ r \in Seq(Byte) /\ Len(r) = Larger(Len(o), w + c)
  /\ \A i \in 1 .. Larger(Len(o), w + c) :
       r[i] = IF i > w /\ i <= w + c THEN buf[i - w] ELSE IF i <= Len(o) THEN o[i] ELSE 0

LEMMA CopiedIs ==
  ASSUME NEW o \in Seq(Byte), NEW w \in Nat, NEW buf \in Seq(Byte), NEW c \in Nat, c <= Len(buf)
  PROVE  IsCopy(Copied(o, w, buf, c), o, w, buf, c)
<1> DEFINE t == SubSeq(buf, 1, c)
           r == Store!Overwrite(o, w, t)
<1>1. /\ t \in Seq(Byte) /\ Len(t) = c + 1 - 1
      /\ \A k \in 1 .. c + 1 - 1 : t[k] = buf[1 + k - 1]
  BY PartIs
<1> HIDE DEF t
<1>2. t \in Seq(Byte) /\ Len(t) = c /\ \A k \in 1 .. c : t[k] = buf[k]
  BY <1>1
<1>3. /\ r \in Seq(Byte) /\ Len(r) = Larger(Len(o), w + Len(t))
      /\ \A i \in 1 .. Larger(Len(o), w + Len(t)) :
           r[i] = IF i > w /\ i <= w + Len(t) THEN t[i - w] ELSE IF i <= Len(o) THEN o[i] ELSE 0
  <2>1. t \in Seq(Byte)
    BY <1>2
  <2> QED BY <2>1, OverwriteIs
<1> HIDE DEF r
<1>4. Len(t) = c
  BY <1>2
<1>5. PICK q \in Nat : q = Larger(Len(o), w + c)
  BY DEF Larger
<1>6. ASSUME NEW i \in 1 .. q
      PROVE  r[i] = IF i > w /\ i <= w + c THEN buf[i - w] ELSE IF i <= Len(o) THEN o[i] ELSE 0
  <2>1. r[i] = IF i > w /\ i <= w + c THEN t[i - w] ELSE IF i <= Len(o) THEN o[i] ELSE 0
    BY <1>3, <1>4, <1>5
  <2>2. ASSUME i > w, i <= w + c PROVE t[i - w] = buf[i - w]
    <3>1. i - w \in 1 .. c
      BY <2>2
    <3> QED BY <1>2, <3>1
  <2> QED BY <2>1, <2>2
<1>7. r \in Seq(Byte) /\ Len(r) = q
  BY <1>3, <1>4, <1>5
<1>8. IsCopy(r, o, w, buf, c)
  BY <1>5, <1>6, <1>7 DEF IsCopy
<1> QED BY <1>8 DEF r, t, Copied

LEMMA FilledIs ==
  ASSUME NEW o \in Seq(Byte), NEW c \in Nat
  PROVE  /\ Filled(o, c) \in Seq(Byte) /\ Len(Filled(o, c)) = Len(o) + c
         /\ \A i \in 1 .. Len(o) + c : Filled(o, c)[i] = IF i <= Len(o) THEN o[i] ELSE 0
<1> DEFINE z == Store!Fill(c)
           r == o \o z
<1>1. z \in Seq(Byte) /\ Len(z) = c /\ \A i \in 1 .. c : z[i] = 0
  BY FillIs
<1> HIDE DEF z
<1>2. PICK l \in Nat : l = Len(o)
  OBVIOUS
<1>3. /\ r \in Seq(Byte) /\ Len(r) = l + c
      /\ \A i \in 1 .. l + c : r[i] = IF i <= l THEN o[i] ELSE z[i - l]
  BY <1>1, <1>2, ConcatIs
<1> HIDE DEF r
<1>4. ASSUME NEW i \in 1 .. l + c PROVE r[i] = IF i <= l THEN o[i] ELSE 0
  <2>1. ~(i <= l) => i - l \in 1 .. c
    OBVIOUS
  <2> QED BY <1>1, <1>3, <2>1
<1> QED BY <1>2, <1>3, <1>4 DEF r, z, Filled

LEMMA CopyGrows ==
  ASSUME NEW o \in Seq(Byte), NEW w \in Nat, NEW buf \in Seq(Byte), NEW c \in Nat, NEW n \in Nat,
         c + n <= Len(buf)
  PROVE  Grown(Copied(o, w, buf, c),
               Copied(o, w, buf, c + n), w + c, n, Slice(buf, c, n))
<1> DEFINE g == Copied(o, w, buf, c)
           h == Copied(o, w, buf, c + n)
<1>1. PICK l \in Nat : l = Len(o)
  OBVIOUS
<1>2. /\ g \in Seq(Byte) /\ Len(g) = Larger(l, w + c)
      /\ \A i \in 1 .. Larger(l, w + c) :
           g[i] = IF i > w /\ i <= w + c THEN buf[i - w] ELSE IF i <= l THEN o[i] ELSE 0
  <2>1. c <= Len(buf)
    <3>1. Len(buf) \in Nat
      OBVIOUS
    <3> QED BY <3>1
  <2>2. IsCopy(g, o, w, buf, c)
    BY <2>1, CopiedIs
  <2> HIDE DEF g
  <2> QED BY <1>1, <2>2 DEF IsCopy
<1>3. /\ h \in Seq(Byte) /\ Len(h) = Larger(l, w + (c + n))
      /\ \A i \in 1 .. Larger(l, w + (c + n)) :
           h[i] = IF i > w /\ i <= w + (c + n) THEN buf[i - w] ELSE IF i <= l THEN o[i] ELSE 0
  <2>1. PICK m \in Nat : m = c + n
    OBVIOUS
  <2> DEFINE r == Copied(o, w, buf, m)
  <2>2. IsCopy(r, o, w, buf, m)
    BY <2>1, CopiedIs
  <2>3. r = h
    BY <2>1
  <2> HIDE DEF r, h
  <2> QED BY <1>1, <2>1, <2>2, <2>3 DEF IsCopy
<1> HIDE DEF g, h
<1>4. w + c <= Len(g) /\ Len(h) = Larger(Len(g), (w + c) + n)
  BY <1>2, <1>3 DEF Larger
<1>5. ASSUME NEW i \in 1 .. Len(h)
      PROVE  h[i] = IF i > w + c /\ i <= (w + c) + n THEN Slice(buf, c, n)[i - (w + c)] ELSE g[i]
  <2>1. i \in Nat /\ i >= 1 /\ i <= Larger(l, w + (c + n))
    BY <1>3 DEF Larger
  <2>2. h[i] = IF i > w /\ i <= w + (c + n) THEN buf[i - w] ELSE IF i <= l THEN o[i] ELSE 0
    BY <1>3
  <2>3. CASE i > w + c /\ i <= (w + c) + n
    <3>1. i - (w + c) \in 1 .. n /\ c + (i - (w + c)) = i - w
      BY <2>1, <2>3
    <3>2. Slice(buf, c, n)[i - (w + c)] = buf[i - w]
      BY <3>1 DEF Slice
    <3> QED BY <2>1, <2>2, <2>3, <3>2
  <2>4. CASE i <= w + c
    <3>1. i \in 1 .. Larger(l, w + c)
      BY <2>1, <2>4 DEF Larger
    <3>2. g[i] = IF i > w /\ i <= w + c THEN buf[i - w] ELSE IF i <= l THEN o[i] ELSE 0
      BY <1>2, <3>1
    <3> QED BY <2>1, <2>2, <2>4, <3>2
  <2>5. CASE i > (w + c) + n
    <3>1. i \in 1 .. Larger(l, w + c) /\ i <= l
      BY <2>1, <2>5 DEF Larger
    <3>2. g[i] = IF i > w /\ i <= w + c THEN buf[i - w] ELSE IF i <= l THEN o[i] ELSE 0
      BY <1>2, <3>1
    <3> QED BY <2>1, <2>2, <2>5, <3>1, <3>2
  <2> QED BY <2>1, <2>3, <2>4, <2>5
<1>6. Grown(g, h, w + c, n, Slice(buf, c, n))
  BY <1>4, <1>5 DEF Grown
<1> QED BY <1>6 DEF g, h

LEMMA FillGrows ==
  ASSUME NEW o \in Seq(Byte), NEW c \in Nat, NEW n \in Nat
  PROVE  Grown(Filled(o, c), Filled(o, c + n), Len(o) + c, n, Zeros(n))
<1> DEFINE g == Filled(o, c)
           h == Filled(o, c + n)
<1>1. PICK l \in Nat : l = Len(o)
  OBVIOUS
<1>2. /\ g \in Seq(Byte) /\ Len(g) = l + c
      /\ \A i \in 1 .. l + c : g[i] = IF i <= l THEN o[i] ELSE 0
  BY <1>1, FilledIs
<1>3. /\ h \in Seq(Byte) /\ Len(h) = l + (c + n)
      /\ \A i \in 1 .. l + (c + n) : h[i] = IF i <= l THEN o[i] ELSE 0
  <2>1. c + n \in Nat
    OBVIOUS
  <2> QED BY <1>1, <2>1, FilledIs
<1> HIDE DEF g, h
<1>4. l + c <= Len(g) /\ Len(h) = Larger(Len(g), (l + c) + n)
  BY <1>2, <1>3 DEF Larger
<1>5. ASSUME NEW i \in 1 .. Len(h)
      PROVE  h[i] = IF i > l + c /\ i <= (l + c) + n THEN Zeros(n)[i - (l + c)] ELSE g[i]
  <2>1. i \in 1 .. l + (c + n) /\ h[i] = IF i <= l THEN o[i] ELSE 0
    BY <1>3
  <2>2. CASE i > l + c
    <3>1. i - (l + c) \in 1 .. n /\ i <= (l + c) + n /\ ~(i <= l)
      BY <2>1, <2>2
    <3>2. Zeros(n)[i - (l + c)] = 0
      BY <3>1 DEF Zeros
    <3> QED BY <2>1, <2>2, <3>1, <3>2
  <2>3. CASE ~(i > l + c)
    <3>1. i \in 1 .. l + c
      BY <2>1, <2>3
    <3> QED BY <1>2, <2>1, <2>3, <3>1
  <2> QED BY <2>2, <2>3
<1>6. Grown(g, h, l + c, n, Zeros(n))
  BY <1>4, <1>5 DEF Grown
<1> QED BY <1>1, <1>6 DEF g, h

(* One block is patched; a block added behind it lies past the end. *)
LEMMA PatchMatches ==
  ASSUME TypeOK, SpacedApart(own, base), NEW e \in Slots, NEW g \in Seq(Byte), NEW h \in Seq(Byte),
         NEW a \in Nat, NEW n \in Nat, NEW off \in Nat, NEW content, NEW B \in Blocks,
         own[B] = e, base[B] + off = a, off + n <= BlockSize,
         Match(e, g), Grown(g, h, a, n, content),
         data' = [data EXCEPT ![B] = Patched(data[B], off, n, content)],
         \A b \in Blocks : own'[b] = e =>
           (own[b] = e /\ base'[b] = base[b]) \/ (base'[b] \in Nat /\ Len(h) <= base'[b])
  PROVE  Match(e, h)'
<1> SUFFICES ASSUME NEW b \in Blocks, own'[b] = e, NEW j \in 0 .. BlockSize - 1,
                    base'[b] + j < Len(h)
             PROVE  data'[b][j] = h[base'[b] + j + 1]
  BY DEF Match
<1>1. /\ BlockSize \in Nat /\ j \in Nat /\ j < BlockSize
      /\ \A c \in Blocks : base[c] \in Nat
      /\ data \in [Blocks -> [0 .. BlockSize - 1 -> Byte]]
  <2>1. BlockSize \in Nat
    BY Marks
  <2>2. \A c \in Blocks : base[c] \in Nat
    BY Fields
  <2> QED BY <2>1, <2>2 DEF TypeOK
<1>2. PICK m \in Nat : m = Len(h)
  OBVIOUS
<1>3. PICK l \in Nat : l = Len(g)
  OBVIOUS
<1>4. own[b] = e /\ base'[b] = base[b]
  <2> SUFFICES ASSUME base'[b] \in Nat, Len(h) <= base'[b] PROVE FALSE
    OBVIOUS
  <2> QED BY <1>1, <1>2
<1>5. PICK k \in Nat : k = base[b]
  BY <1>1
<1>6. k + j < m /\ k + j + 1 \in 1 .. m
  BY <1>1, <1>2, <1>4, <1>5
<1>7. /\ a <= l /\ (m = l \/ m = a + n) /\ l <= m
      /\ h[k + j + 1] = IF k + j + 1 > a /\ k + j + 1 <= a + n
                        THEN content[(k + j + 1) - a] ELSE g[k + j + 1]
  <2>1. a <= l /\ m = Larger(l, a + n)
    BY <1>2, <1>3 DEF Grown
  <2>2. h[k + j + 1] = IF k + j + 1 > a /\ k + j + 1 <= a + n
                       THEN content[(k + j + 1) - a] ELSE g[k + j + 1]
    BY <1>2, <1>6 DEF Grown
  <2> QED BY <2>1, <2>2 DEF Larger
(* the bytes outside the patch *)
<1>8. ASSUME k + j < a \/ k + j >= a + n, data'[b][j] = data[b][j]
      PROVE  data'[b][j] = h[k + j + 1]
  <2>1. k + j < l /\ h[k + j + 1] = g[k + j + 1]
    BY <1>1, <1>6, <1>7, <1>8
  <2>2. data[b][j] = g[k + j + 1]
    BY <1>3, <1>4, <1>5, <2>1 DEF Match
  <2> QED BY <1>8, <2>1, <2>2
<1>9. CASE b = B
  <2>1. data'[b][j] = IF j \in off .. off + n - 1 THEN content[j - off + 1] ELSE data[b][j]
    BY <1>1, <1>9 DEF Patched
  <2>2. k + off = a
    BY <1>5, <1>9
  <2>3. CASE j \in off .. off + n - 1
    <3>1. k + j + 1 > a /\ k + j + 1 <= a + n /\ (k + j + 1) - a = j - off + 1
      <4>1. j \in Nat /\ off <= j /\ j <= off + n - 1
        BY <1>1, <2>3
      <4> QED BY <2>2, <4>1
    <3> QED BY <1>4, <1>5, <1>7, <2>1, <2>3, <3>1
  <2>4. CASE j \notin off .. off + n - 1
    <3>1. k + j < a \/ k + j >= a + n
      BY <1>1, <2>2, <2>4
    <3> QED BY <1>4, <1>5, <1>8, <2>1, <2>4, <3>1
  <2> QED BY <2>3, <2>4
<1>10. CASE b # B
  <2>1. data'[b] = data[b]
    BY <1>1, <1>10
  <2>2. PICK q \in Nat : q = base[B]
    BY <1>1
  <2>3. k + BlockSize <= q \/ q + BlockSize <= k
    BY <1>4, <1>5, <1>10, <2>2 DEF SpacedApart
  <2>4. k + j < a \/ k + j >= a + n
    <3>1. j \in Nat /\ j < BlockSize /\ BlockSize \in Nat /\ q + off = a
      BY <1>1, <2>2
    <3> QED BY <2>3, <3>1
  <2> QED BY <1>4, <1>5, <1>8, <2>1, <2>4
<1> QED BY <1>9, <1>10

(* The call fs_write in progress. *)
LEMMA Writing ==
  ASSUME IndInv, SideInv, Midway, op.kind \in {"write", "extend"}, op.pc \notin {"idle", "save"}
  PROVE  /\ mounted /\ Changing /\ op.ent \in Slots /\ op.fd \in Fds /\ dir[op.ent].used
         /\ op.cnt \in Nat /\ op.rem \in Nat /\ op.buf \in Seq(Byte) /\ dir[op.ent].size \in Nat
         /\ Old(op.ent) \in Seq(Byte) /\ Was \in Nat /\ fds[op.fd].off = Was
         /\ op.kind = "write" =>
              /\ Target = Was /\ Goal = Copied(Old(op.ent), Was, op.buf, op.cnt)
              /\ dir[op.ent].size = Larger(Len(Old(op.ent)), Was) /\ op.cnt + op.rem = Len(op.buf)
         /\ op.kind = "extend" =>
              /\ Target = Len(Old(op.ent)) /\ Goal = Filled(Old(op.ent), op.cnt)
              /\ dir[op.ent].size = Len(Old(op.ent)) /\ Len(Old(op.ent)) + op.cnt + op.rem = Was
         /\ Goal \in Seq(Byte) /\ Match(op.ent, Goal) /\ Target \in Nat
         /\ Target + op.cnt <= Len(Goal) /\ Len(Goal) <= Larger(dir[op.ent].size, Target + op.cnt)
<1>1. /\ op.ent \in Slots /\ op.fd \in Fds /\ op.cnt \in Nat /\ op.rem \in Nat
      /\ op.buf \in Seq(Byte) /\ dir[op.ent].size \in Nat /\ fds[op.fd].off \in Nat
  BY Fields DEF IndInv
<1>2. mounted /\ dir[op.ent].used
  BY <1>1 DEF IndInv, DescriptorsSound
<1>3. BytesSound
  BY DEF IndInv, CallSound
<1>4. Changing
  BY DEF Changing
<1>5. dir[op.ent].name \in Names
  BY <1>1, <1>2 DEF SideInv, NamesKnown
<1>6. PICK o \in Seq(Byte) : o = Old(op.ent)
  BY <1>5 DEF Midway, SnapType, Old
<1>7. dir[op.ent].size = SizeNow /\ Match(op.ent, Goal)
  BY <1>4 DEF Midway, FilesMatch
<1>8. Was \in Nat /\ fds[op.fd].off = Was
  BY <1>4 DEF Midway, HandlesMatch, OffNow
<1>9. PICK w \in Nat : w = Was
  BY <1>8
<1>10. PICK c \in Nat : c = op.cnt
  BY <1>1
<1>11. PICK l \in Nat : l = Len(o)
  OBVIOUS
<1>12. CASE op.kind = "write"
  <2>1. Target = w /\ Goal = Copied(o, w, op.buf, c) /\ dir[op.ent].size = Larger(l, w)
    BY <1>6, <1>7, <1>8, <1>9, <1>10, <1>11, <1>12 DEF Target, Goal, SizeNow
  <2>2. op.cnt + op.rem = Len(op.buf)
    BY <1>3, <1>12 DEF BytesSound
  <2>3. c <= Len(op.buf)
    BY <1>1, <1>10, <2>2
  <2>4. PICK b \in Seq(Byte) : b = op.buf
    BY <1>1
  <2>5. IsCopy(Copied(o, w, b, c), o, w, b, c)
    BY <2>3, <2>4, CopiedIs
  <2>6. Goal \in Seq(Byte) /\ Len(Goal) = Larger(l, w + c)
    BY <1>11, <2>1, <2>4, <2>5 DEF IsCopy
  <2>7. Target + op.cnt <= Len(Goal) /\ Len(Goal) <= Larger(dir[op.ent].size, Target + op.cnt)
    BY <1>10, <2>1, <2>6 DEF Larger
  <2> QED BY <1>1, <1>2, <1>4, <1>6, <1>7, <1>8, <1>9, <1>10, <1>11, <1>12, <2>1, <2>2, <2>6, <2>7
<1>13. CASE op.kind = "extend"
  <2>1. Goal = Filled(o, c) /\ dir[op.ent].size = l
    BY <1>6, <1>7, <1>10, <1>11, <1>13 DEF Goal, SizeNow
  <2>2. Target = l
    BY <1>13, <2>1 DEF Target
  <2>3. l + op.cnt + op.rem = Was
    BY <1>3, <1>8, <1>13, <2>2 DEF BytesSound
  <2>4. Goal \in Seq(Byte) /\ Len(Goal) = l + c
    BY <1>11, <2>1, FilledIs
  <2>5. Target + op.cnt <= Len(Goal) /\ Len(Goal) <= Larger(dir[op.ent].size, Target + op.cnt)
    BY <1>10, <2>1, <2>2, <2>4 DEF Larger
  <2> QED BY <1>1, <1>2, <1>4, <1>6, <1>7, <1>8, <1>10, <1>11, <1>13, <2>1, <2>2, <2>3, <2>4, <2>5
<1> QED BY <1>12, <1>13

LEMMA LinkKeeps ==
  ASSUME IndInv, SideInv, Midway, UNCHANGED snap, write_link
  PROVE  Midway' /\ op.pc # "idle" /\ op'.pc # "idle"
<1>1. /\ op.pc = "tail" /\ fat[op.blk] = FAT_EOF
      /\ own' = [own EXCEPT ![op.aux] = op.ent]
      /\ base' = [base EXCEPT ![op.aux] = base[op.blk] + BlockSize]
      /\ op' = [op EXCEPT !.pc = "chunk", !.blk = op.aux, !.aux = FAT_EOF]
      /\ UNCHANGED <<mounted, dir, fds, data, reply>>
  BY DEF write_link
<1>2. /\ TypeOK /\ own \in [Blocks -> Slots \cup {NoSlot}] /\ base \in [Blocks -> Nat]
      /\ EndsSound(fat, dir, own, base)
  BY <1>1, TailHere DEF IndInv, TypeOK, ChainsSound
<1>3. /\ op'.pc = "chunk" /\ op'.kind = op.kind /\ op'.fd = op.fd /\ op'.ent = op.ent
      /\ op'.cnt = op.cnt /\ op'.rem = op.rem /\ op'.buf = op.buf
  BY <1>1, <1>2 DEF TypeOK, Op
<1>4. /\ op.kind \in {"write", "extend"} /\ op.cnt = 0 /\ op.aux \in Blocks /\ op.blk \in Blocks
      /\ own[op.blk] = op.ent /\ op.ent \in Slots
  BY <1>1, TailHere
<1>5. /\ SnapType' /\ NamesMatch' /\ HandlesMatch' /\ Changing' = Changing
      /\ CutMatch' /\ Goal' = Goal /\ SizeNow' = SizeNow /\ ReadMatch' /\ WriteMatch'
  BY <1>1, <1>2, <1>3, InsideKept
<1>6. PICK g \in Seq(Byte) : g = Goal
  BY <1>1, <1>4, Writing
<1>7. PICK z \in Nat : z = dir[op.ent].size
  BY <1>4, Fields DEF IndInv
<1>8. PICK p \in Nat : p = base[op.blk]
  BY <1>2, <1>4
<1>9. z <= p + BlockSize /\ Len(g) <= p + BlockSize
  <2>1. z <= p + BlockSize
    BY <1>1, <1>2, <1>4, <1>7, <1>8 DEF EndsSound
  <2>2. EndHere /\ Target \in Nat /\ Len(g) <= Larger(z, Target + 0)
    BY <1>1, <1>4, <1>6, <1>7, TailHere, Writing
  <2>3. PICK l \in Blocks : own[l] = op.ent /\ fat[l] = FAT_EOF /\ base[l] + BlockSize = Target
    BY <2>2 DEF EndHere
  <2>4. base[l] <= p /\ base[l] \in Nat
    BY <1>1, <1>2, <1>4, <1>8, <2>3 DEF EndsSound
  <2>5. PICK t \in Nat : t = Target
    BY <2>2
  <2>6. t <= p + BlockSize
    BY <2>3, <2>4, <2>5, Marks
  <2>7. PICK m \in Nat : m = Len(g)
    OBVIOUS
  <2>8. BlockSize \in Nat /\ m <= Larger(z, t)
    BY <2>2, <2>5, <2>7, Marks
  <2> QED BY <2>1, <2>6, <2>7, <2>8 DEF Larger
<1>10. FilesMatch
  BY DEF Midway
<1>11. /\ own'[op.aux] = op.ent /\ base'[op.aux] = p + BlockSize
       /\ \A b \in Blocks : b # op.aux => own'[b] = own[b] /\ base'[b] = base[b]
  BY <1>1, <1>2, <1>4, <1>8
<1>12. Changing
  BY <1>4 DEF Changing
<1>13. \A e \in Slots : dir'[e].used /\ ~(Changing' /\ e = op'.ent) => Same(e)'
  BY <1>1, <1>3, <1>5, <1>10, <1>11, <1>12, OthersKept
<1>14. Known(op.ent) /\ dir[op.ent].size = SizeNow /\ Match(op.ent, g)
  BY <1>6, <1>10, <1>12 DEF FilesMatch
<1>15. Match(op.ent, Goal)'
  <2> SUFFICES ASSUME NEW b \in Blocks, own'[b] = op.ent, NEW j \in 0 .. BlockSize - 1,
                      base'[b] + j < Len(g)
               PROVE  data[b][j] = g[base'[b] + j + 1]
    BY <1>1, <1>3, <1>5, <1>6 DEF Match
  <2>1. b # op.aux
    <3> SUFFICES ASSUME b = op.aux PROVE FALSE
      OBVIOUS
    <3>1. (p + BlockSize) + j < Len(g)
      BY <1>11
    <3>2. PICK m \in Nat : m = Len(g)
      OBVIOUS
    <3> QED BY <1>9, <3>1, <3>2, Marks
  <2> QED BY <1>11, <1>14, <2>1 DEF Match
<1>16. FilesMatch'
  BY <1>1, <1>3, <1>5, <1>13, <1>14, <1>15 DEF FilesMatch, Known
<1> QED BY <1>1, <1>3, <1>5, <1>16 DEF Midway

LEMMA ChunkKeeps ==
  ASSUME IndInv, SideInv, Midway, UNCHANGED snap, write_chunk
  PROVE  Midway' /\ op.pc # "idle" /\ op'.pc # "idle"
<1> DEFINE n    == Smaller(BlockSize - op.off, op.rem)
           content == IF op.kind = "extend" THEN Zeros(n) ELSE Slice(op.buf, op.cnt, n)
           done == [op EXCEPT !.off = op.off + n, !.rem = op.rem - n, !.cnt = op.cnt + n]
           more == op.off + n = BlockSize /\ op.rem - n > 0
           B    == op.blk
<1>1. /\ op.kind \in {"write", "extend"} /\ op.pc = "chunk" /\ op.rem > 0
      /\ data' = [data EXCEPT ![B] = Patched(data[B], op.off, n, content)]
      /\ UNCHANGED <<mounted, dir, fds, reply>>
  BY DEF write_chunk
<1>2. \/ op' = done /\ UNCHANGED <<own, base>>
      \/ op' = [done EXCEPT !.blk = fat[B], !.off = 0] /\ UNCHANGED <<own, base>>
      \/ /\ more /\ fat[B] = FAT_EOF
         /\ \E b \in Blocks :
              /\ allocate_free_block(b)
              /\ own' = [own EXCEPT ![b] = op.ent]
              /\ base' = [base EXCEPT ![b] = base[B] + BlockSize]
              /\ op' = [done EXCEPT !.blk = b, !.off = 0]
      \/ more /\ op' = [done EXCEPT !.pc = "abort"] /\ UNCHANGED <<own, base>>
  BY DEF write_chunk
<1>3. /\ TypeOK /\ own \in [Blocks -> Slots \cup {NoSlot}] /\ base \in [Blocks -> Nat]
      /\ op \in Op /\ data \in [Blocks -> [0 .. BlockSize - 1 -> Byte]]
  BY DEF IndInv, TypeOK
<1>4. /\ mounted /\ B \in Blocks /\ own[B] = op.ent /\ op.off < BlockSize /\ op.off \in Nat
      /\ base[B] + op.off = Target + op.cnt /\ Target \in Nat /\ op.ent \in Slots /\ op.fd \in Fds
      /\ op.cnt \in Nat /\ op.rem \in Nat /\ base[B] \in Nat
  BY <1>1, ChunkHere
<1>5. SpacedApart(own, base) /\ EndsSound(fat, dir, own, base)
  BY <1>4 DEF IndInv, ChainsSound
<1>6. n \in Nat /\ n > 0 /\ n <= op.rem /\ op.off + n <= BlockSize /\ op.rem - n \in Nat
  BY <1>1, <1>4, ChunkSize
<1> HIDE DEF n
<1>7. /\ op'.kind = op.kind /\ op'.fd = op.fd /\ op'.ent = op.ent /\ op'.buf = op.buf
      /\ op'.cnt = op.cnt + n /\ op'.rem = op.rem - n
      /\ op'.pc = "chunk" \/ (op'.pc = "abort" /\ op.rem - n > 0)
  BY <1>1, <1>2, <1>3 DEF Op
<1>8. PICK g \in Seq(Byte) : g = Goal
  BY <1>1, Writing
<1>9. PICK a \in Nat : a = Target + op.cnt
  BY <1>4
<1>10. /\ Changing /\ Old(op.ent) \in Seq(Byte) /\ Was \in Nat /\ Match(op.ent, g)
       /\ a <= Len(g) /\ Len(g) <= Larger(dir[op.ent].size, a)
       /\ dir[op.ent].size \in Nat /\ op.buf \in Seq(Byte)
  BY <1>1, <1>8, <1>9, Writing
<1>11. /\ SnapType' /\ NamesMatch' /\ HandlesMatch' /\ Changing' = Changing
       /\ Was' = Was /\ \A e \in Slots : Old(e)' = Old(e)
  BY <1>1, <1>3, <1>7, InsideKept
<1>12. Old(op.ent)' = Old(op.ent)
  BY <1>1, <1>7 DEF Old
<1>13. \E h \in Seq(Byte) : h = Goal' /\ Grown(g, h, a, n, content) /\ SizeNow' = SizeNow
  <2>1. CASE op.kind = "write"
    <3>1. /\ Target = Was /\ g = Copied(Old(op.ent), Was, op.buf, op.cnt)
          /\ op.cnt + op.rem = Len(op.buf)
      BY <1>1, <1>8, <2>1, Writing
    <3>2. PICK o \in Seq(Byte) : o = Old(op.ent)
      BY <1>10
    <3>3. PICK w \in Nat : w = Was
      BY <1>10
    <3>4. PICK c \in Nat : c = op.cnt
      BY <1>4
    <3>5. PICK buf \in Seq(Byte) : buf = op.buf
      BY <1>10
    <3>6. c + n <= Len(buf) /\ c + n \in Nat
      <4>1. PICK m \in Nat : m = n
        BY <1>6
      <4>2. PICK r \in Nat : r = op.rem
        BY <1>4
      <4>3. PICK l : l = Len(buf)
        OBVIOUS
      <4>4. m <= r
        BY <1>6, <4>1, <4>2
      <4>5. c + r = l
        BY <3>1, <3>4, <3>5, <4>2, <4>3
      <4>6. c + m <= l /\ c + m \in Nat
        BY <4>4, <4>5
      <4> QED BY <4>1, <4>3, <4>6
    <3>7. Goal' = Copied(o, w, buf, c + n) /\ SizeNow' = SizeNow
      BY <1>7, <1>1, <1>11, <1>12, <2>1, <3>2, <3>3, <3>4, <3>5 DEF Goal, SizeNow
    <3>8. Grown(Copied(o, w, buf, c), Copied(o, w, buf, c + n), w + c, n, Slice(buf, c, n))
      BY <1>6, <3>6, CopyGrows
    <3>9. IsCopy(Copied(o, w, buf, c + n), o, w, buf, c + n)
      BY <3>6, CopiedIs
    <3>10. Copied(o, w, buf, c + n) \in Seq(Byte)
      BY <3>9 DEF IsCopy
    <3>11. content = Slice(buf, c, n) /\ a = w + c /\ g = Copied(o, w, buf, c)
      BY <1>9, <2>1, <3>1, <3>2, <3>3, <3>4, <3>5
    <3> QED BY <3>7, <3>8, <3>10, <3>11
  <2>2. CASE op.kind = "extend"
    <3>1. Target = Len(Old(op.ent)) /\ g = Filled(Old(op.ent), op.cnt)
      BY <1>1, <1>8, <2>2, Writing
    <3>2. PICK o \in Seq(Byte) : o = Old(op.ent)
      BY <1>10
    <3>3. PICK c \in Nat : c = op.cnt
      BY <1>4
    <3>4. c + n \in Nat
      BY <1>6
    <3>5. Goal' = Filled(o, c + n) /\ SizeNow' = SizeNow
      BY <1>7, <1>1, <1>11, <1>12, <2>2, <3>2, <3>3 DEF Goal, SizeNow
    <3>6. Grown(Filled(o, c), Filled(o, c + n), Len(o) + c, n, Zeros(n))
      BY <1>6, FillGrows
    <3>7. Filled(o, c + n) \in Seq(Byte)
      BY <3>4, FilledIs
    <3>8. content = Zeros(n) /\ a = Len(o) + c /\ g = Filled(o, c)
      BY <1>9, <2>2, <3>1, <3>2, <3>3
    <3> QED BY <3>5, <3>6, <3>7, <3>8
  <2> QED BY <1>1, <2>1, <2>2
<1>14. PICK h \in Seq(Byte) : h = Goal' /\ Grown(g, h, a, n, content) /\ SizeNow' = SizeNow
  BY <1>13
<1> HIDE DEF content
(* a new block is the file's and lies past its end *)
<1>15. ASSUME NEW b \in Blocks, own'[b] \in Slots
       PROVE  \/ own'[b] = own[b] /\ base'[b] = base[b]
              \/ own'[b] = op.ent /\ base'[b] \in Nat /\ Len(h) <= base'[b]
  <2> SUFFICES ASSUME more, fat[B] = FAT_EOF, own'[b] = op.ent, base'[b] = base[B] + BlockSize
               PROVE  base'[b] \in Nat /\ Len(h) <= base'[b]
    BY <1>2, <1>3, <1>4
  <2>1. PICK p \in Nat : p = base[B]
    BY <1>4
  <2>2. PICK z \in Nat : z = dir[op.ent].size
    BY <1>10
  <2>3. z <= p + BlockSize
    BY <1>4, <1>5, <2>1, <2>2 DEF EndsSound
  <2>4. a + n = p + BlockSize /\ BlockSize \in Nat
    <3>1. PICK f \in Nat : f = op.off
      BY <1>4
    <3>2. p + f = a
      BY <1>4, <1>9, <2>1, <3>1
    <3>3. f + n = BlockSize
      BY <3>1
    <3>4. PICK m \in Nat : m = n
      BY <1>6
    <3>5. PICK s \in Nat : s = BlockSize
      BY Marks
    <3>6. f + m = s
      BY <3>3, <3>4, <3>5
    <3>7. a + m = p + s
      BY <3>2, <3>6
    <3> QED BY <3>4, <3>5, <3>7
  <2>5. PICK l \in Nat : l = Len(g)
    OBVIOUS
  <2>6. l <= Larger(z, a) /\ Len(h) = Larger(l, a + n)
    BY <1>10, <1>14, <2>2, <2>5 DEF Grown
  <2>7. Len(h) <= p + BlockSize
    BY <1>6, <2>3, <2>4, <2>6 DEF Larger
  <2> QED BY <2>1, <2>4, <2>7
<1>16. FilesMatch
  BY DEF Midway
<1>17. \A b \in Blocks : b # B => data'[b] = data[b]
  BY <1>1, <1>3
<1>18. \A e \in Slots : dir'[e].used /\ ~(Changing' /\ e = op'.ent) => Same(e)'
  <2>1. ASSUME NEW e \in Slots, e # op.ent, NEW b \in Blocks, own'[b] = e
        PROVE  own[b] = e /\ base'[b] = base[b] /\ data'[b] = data[b]
    BY <1>4, <1>15, <1>17, <2>1
  <2> QED BY <1>1, <1>7, <1>10, <1>11, <1>16, <2>1, OthersKept
<1>19. Match(op.ent, Goal)'
  <2>1. PICK e \in Slots : e = op.ent
    BY <1>4
  <2>2. PICK off \in Nat : off = op.off
    BY <1>4
  <2>3. PICK K \in Blocks : K = B
    BY <1>4
  <2>4. /\ own[K] = e /\ base[K] + off = a /\ off + n <= BlockSize /\ Match(e, g)
        /\ data' = [data EXCEPT ![K] = Patched(data[K], off, n, content)]
    BY <1>1, <1>4, <1>6, <1>9, <1>10, <2>1, <2>2, <2>3
  <2>5. \A b \in Blocks : own'[b] = e =>
          (own[b] = e /\ base'[b] = base[b]) \/ (base'[b] \in Nat /\ Len(h) <= base'[b])
    BY <1>15, <2>1
  <2>6. Match(e, h)'
    BY <1>3, <1>5, <1>6, <1>14, <2>4, <2>5, PatchMatches
  <2> QED BY <1>7, <1>14, <2>1, <2>6 DEF Match
<1>20. FilesMatch'
  <2>1. Known(op.ent) /\ dir[op.ent].size = SizeNow
    BY <1>10, <1>16 DEF FilesMatch
  <2>2. Known(op.ent)' /\ dir'[op'.ent].size = SizeNow'
    BY <1>1, <1>7, <1>14, <2>1 DEF Known
  <2> QED BY <1>18, <1>19, <2>2 DEF FilesMatch
<1>21. ReadMatch' /\ CutMatch'
  BY <1>1, <1>7 DEF ReadMatch, CutMatch
<1>22. WriteMatch'
  <2>1. op.buf \in Buffers
    BY <1>1 DEF Midway, WriteMatch
  <2>2. op.kind = "write" => op.cnt + n <= Len(op.buf)
    <3> SUFFICES ASSUME op.kind = "write" PROVE op.cnt + n <= Len(op.buf)
      OBVIOUS
    <3>1. op.cnt + op.rem = Len(op.buf)
      BY <1>1, Writing
    <3> QED BY <1>4, <1>6, <3>1
  <2> QED BY <1>7, <2>1, <2>2 DEF WriteMatch
<1> QED BY <1>1, <1>7, <1>11, <1>20, <1>21, <1>22 DEF Midway
-----------------------------------------------------------------------------
(* The loop of fs_read *)

LEMMA Reading ==
  ASSUME IndInv, SideInv, Midway, op.kind = "read", op.pc \notin {"idle", "save"}
  PROVE  /\ mounted /\ ~Changing /\ op.ent \in Slots /\ op.fd \in Fds /\ dir[op.ent].used
         /\ op.cnt \in Nat /\ op.rem \in Nat /\ op.buf \in Seq(Byte) /\ fds[op.fd].used
         /\ dir[op.ent].name \in Names /\ Target = Was /\ Was = fds[op.fd].off /\ Was \in Nat
         /\ Old(op.ent) \in Seq(Byte) /\ Len(Old(op.ent)) = dir[op.ent].size
         /\ Match(op.ent, Old(op.ent)) /\ Was + op.cnt + op.rem <= Len(Old(op.ent))
         /\ snap.open[op.fd] = Store!At(dir[op.ent].name, Was)
<1>1. /\ op.ent \in Slots /\ op.fd \in Fds /\ op.cnt \in Nat /\ op.rem \in Nat
      /\ op.buf \in Seq(Byte) /\ fds[op.fd].off \in Nat
  BY Fields DEF IndInv
<1>2. mounted /\ fds[op.fd].used /\ fds[op.fd].ent = op.ent /\ dir[op.ent].used
  BY <1>1 DEF IndInv, DescriptorsSound
<1>3. ~Changing
  BY DEF Changing
<1>4. dir[op.ent].name \in Names
  BY <1>1, <1>2 DEF SideInv, NamesKnown
<1>5. Same(op.ent)
  BY <1>1, <1>2, <1>3 DEF Midway, FilesMatch
<1>6. Old(op.ent) \in Seq(Byte)
  BY <1>4 DEF Midway, SnapType, Old
<1>7. snap.open[op.fd] = [used |-> TRUE, name |-> dir[op.ent].name, off |-> fds[op.fd].off]
  BY <1>1, <1>2, <1>3 DEF Midway, HandlesMatch, HandleOf
<1>8. Was = fds[op.fd].off /\ Target = Was
  BY <1>7 DEF Was, Target
<1>9. Target + op.cnt + op.rem <= dir[op.ent].size
  BY DEF IndInv, CallSound, BytesSound
<1> QED BY <1>1, <1>2, <1>3, <1>4, <1>5, <1>6, <1>7, <1>8, <1>9 DEF Same, Store!At

LEMMA ReadKeeps ==
  ASSUME IndInv, SideInv, Midway, UNCHANGED snap, read_chunk
  PROVE  Midway' /\ op.pc # "idle" /\ op'.pc # "idle"
<1> DEFINE n == Smaller(BlockSize - op.off, op.rem)
           t == [i \in 1 .. n |-> data[op.blk][op.off + i - 1]]
<1>1. /\ op.kind = "read" /\ op.pc = "chunk" /\ op.rem > 0
      /\ \E x, y : op' = [op EXCEPT !.blk = x, !.off = y, !.rem = op.rem - n,
                                    !.cnt = op.cnt + n, !.buf = op.buf \o t]
      /\ UNCHANGED <<mounted, dir, fds, data, reply, own, base>>
  BY DEF read_chunk
<1>2. TypeOK /\ op \in Op /\ data \in [Blocks -> [0 .. BlockSize - 1 -> Byte]]
  BY DEF IndInv, TypeOK
<1>3. /\ op.blk \in Blocks /\ own[op.blk] = op.ent /\ op.off < BlockSize /\ op.off \in Nat
      /\ base[op.blk] + op.off = Target + op.cnt /\ base[op.blk] \in Nat
  BY <1>1, ChunkHere
<1>4. /\ ~Changing /\ op.ent \in Slots /\ op.cnt \in Nat /\ op.rem \in Nat /\ op.buf \in Seq(Byte)
      /\ Target = Was /\ Was \in Nat /\ Old(op.ent) \in Seq(Byte)
      /\ Match(op.ent, Old(op.ent)) /\ Was + op.cnt + op.rem <= Len(Old(op.ent))
  BY <1>1, Reading
<1>5. n \in Nat /\ n > 0 /\ n <= op.rem /\ op.off + n <= BlockSize /\ op.rem - n \in Nat
  BY <1>1, <1>3, <1>4, ChunkSize
<1> HIDE DEF n
<1>6. /\ op'.kind = "read" /\ op'.pc = "chunk" /\ op'.fd = op.fd /\ op'.ent = op.ent
      /\ op'.cnt = op.cnt + n /\ op'.rem = op.rem - n /\ op'.buf = op.buf \o t
  BY <1>1, <1>2 DEF Op
<1>7. /\ SnapType' /\ NamesMatch' /\ HandlesMatch' /\ Changing' = Changing
      /\ Was' = Was /\ \A e \in Slots : Old(e)' = Old(e)
  BY <1>1, <1>2, <1>6, InsideKept
<1>8. FilesMatch'
  <2>1. \A e \in Slots, b \in Blocks :
          own'[b] = e => own[b] = e /\ base'[b] = base[b] /\ data'[b] = data[b]
    BY <1>1
  <2>2. FilesMatch
    BY DEF Midway
  <2>3. \A e \in Slots : dir'[e].used /\ ~(Changing' /\ e = op'.ent) => Same(e)'
    BY <1>1, <1>6, <1>7, <2>1, <2>2, OthersKept
  <2> QED BY <1>4, <1>7, <2>3 DEF FilesMatch
<1>9. PICK o \in Seq(Byte) : o = Old(op.ent)
  BY <1>4
<1>10. PICK w \in Nat : w = Was
  BY <1>4
<1>11. PICK c \in Nat : c = op.cnt
  BY <1>4
<1>12. /\ \E k \in 1 .. MaxNbyte : c + op.rem = Smaller(k, Len(o) - w)
       /\ Len(op.buf) = c /\ \A i \in 1 .. c : op.buf[i] = o[w + i]
  BY <1>1, <1>9, <1>10, <1>11 DEF Midway, ReadMatch
(* the bytes of the block *)
<1>13. ASSUME NEW i \in 1 .. n PROVE t[i] = o[w + (c + i)] /\ t[i] \in Byte
  <2>1. PICK off \in Nat : off = op.off
    BY <1>3
  <2>2. PICK p \in Nat : p = base[op.blk]
    BY <1>3
  <2>3. PICK l \in Nat : l = Len(o)
    OBVIOUS
  <2>4. p + off = w + c /\ off + n <= BlockSize /\ w + c + n <= l
    <3>1. p + off = w + c /\ off + n <= BlockSize
      BY <1>3, <1>4, <1>5, <1>10, <1>11, <2>1, <2>2
    <3>2. PICK r \in Nat : r = op.rem
      BY <1>4
    <3>3. w + c + r <= l /\ n <= r
      BY <1>4, <1>5, <1>9, <1>10, <1>11, <2>3, <3>2
    <3> QED BY <1>5, <3>1, <3>3
  <2>5. /\ off + i - 1 \in 0 .. BlockSize - 1 /\ p + (off + i - 1) < l
        /\ p + (off + i - 1) + 1 = w + (c + i)
    BY <1>5, <2>4, Marks
  <2>6. data[op.blk][off + i - 1] = o[p + (off + i - 1) + 1]
    BY <1>3, <1>4, <1>9, <2>2, <2>3, <2>5 DEF Match
  <2>7. data[op.blk][off + i - 1] \in Byte
    BY <1>2, <1>3, <2>5
  <2> QED BY <2>1, <2>5, <2>6, <2>7
<1>14. t \in Seq(Byte) /\ Len(t) = n
  <2>1. t \in [1 .. n -> Byte]
    BY <1>13
  <2> HIDE DEF t
  <2> QED BY <1>5, <2>1, SeqDef
<1> HIDE DEF t
<1>15. /\ Len(op.buf \o t) = c + n
       /\ \A i \in 1 .. c + n : (op.buf \o t)[i] = IF i <= c THEN op.buf[i] ELSE t[i - c]
  BY <1>4, <1>12, <1>14, ConcatIs
<1> DEFINE r == op.buf \o t
<1> HIDE DEF r
<1>16. ASSUME NEW i \in 1 .. c + n PROVE r[i] = o[w + i]
  <2>1. r[i] = IF i <= c THEN op.buf[i] ELSE t[i - c]
    BY <1>15 DEF r
  <2>2. CASE i <= c
    <3>1. i \in 1 .. c
      BY <2>2
    <3> QED BY <1>12, <2>1, <2>2, <3>1
  <2>3. CASE ~(i <= c)
    <3>1. i - c \in 1 .. n /\ c + (i - c) = i
      BY <1>5, <2>3
    <3> QED BY <1>13, <2>1, <2>3, <3>1
  <2> QED BY <2>2, <2>3
<1>17. ReadMatch'
  <2>1. Old(op.ent)' = o /\ Was' = w /\ op'.buf = r /\ op'.cnt = c + n
    BY <1>4, <1>6, <1>7, <1>9, <1>10, <1>11 DEF r, Old
  <2>2. op'.cnt + op'.rem = c + op.rem
    BY <1>4, <1>5, <1>6, <1>11
  <2>3. Len(r) = c + n
    BY <1>15 DEF r
  <2> QED BY <1>12, <1>16, <2>1, <2>2, <2>3 DEF ReadMatch
<1>18. WriteMatch' /\ CutMatch'
  BY <1>6 DEF WriteMatch, CutMatch
<1> QED BY <1>1, <1>6, <1>7, <1>8, <1>17, <1>18 DEF Midway
-----------------------------------------------------------------------------
(* The file takes its new size *)

LEMMA Resizes ==
  ASSUME TypeOK, Midway, Changing, Changing', op'.ent = op.ent, op'.fd = op.fd,
         UNCHANGED <<mounted, data, own, base, snap>>, SameNames(dir, dir'),
         \A e \in Slots : e # op.ent => dir'[e] = dir[e],
         \A d \in Fds : d # op.fd => fds'[d] = fds[d],
         dir'[op.ent].size = SizeNow', fds'[op.fd].off = OffNow',
         NEW s \in Seq(Byte), s = Goal', Match(op.ent, s)
  PROVE  SnapType' /\ FilesMatch' /\ NamesMatch' /\ HandlesMatch'
<1>1. op.ent \in Slots /\ op.fd \in Fds /\ dir'[op.ent].name = dir[op.ent].name
  BY Fields DEF SameNames
<1>2. SnapType'
  BY DEF Midway, SnapType
<1>3. Was' = Was /\ Old(op.ent)' = Old(op.ent)
  BY <1>1 DEF Was, Old
<1>4. NamesMatch'
  <2>1. ~Removing /\ ~Removing'
    BY DEF Removing, Changing
  <2>2. \A n \in Names : Listed(n)' <=> Listed(n)
    BY ListedKept DEF SameNames
  <2> QED BY <2>1, <2>2 DEF Midway, NamesMatch
<1>5. HandlesMatch'
  <2>1. \A d \in Fds : d # op.fd => HandleOf(d)' = HandleOf(d)
    BY HandleKept
  <2>2. \A d \in Fds : d # op.fd => snap.open[d] = HandleOf(d)
    BY DEF Midway, HandlesMatch
  <2>3. snap.open[op.fd] = Store!At(dir[op.ent].name, Was) /\ Was \in Nat
    BY DEF Midway, HandlesMatch
  <2>4. snap'.open[op'.fd] = Store!At(dir[op.ent].name, Was)'
    BY <1>1, <1>3, <2>3
  <2> QED BY <1>3, <2>1, <2>2, <2>3, <2>4 DEF HandlesMatch
<1>6. FilesMatch'
  <2>1. FilesMatch
    BY DEF Midway
  <2>2. \A e \in Slots : dir'[e].used /\ ~(Changing' /\ e = op'.ent) => Same(e)'
    BY <2>1, OthersKept
  <2>3. Known(op.ent)'
    BY <1>1, <2>1 DEF FilesMatch, Known
  <2>4. PICK e \in Slots : e = op.ent
    BY <1>1
  <2>5. Match(e, s)'
    BY <2>4, MatchKept
  <2>6. Match(op.ent, Goal)'
    BY <2>4, <2>5 DEF Match
  <2> QED BY <2>2, <2>3, <2>6 DEF FilesMatch
<1> QED BY <1>2, <1>4, <1>5, <1>6

(* The gap is filled: writing begins where the zeros end. *)
LEMMA FillEnds ==
  ASSUME IndInv, SideInv, Midway, UNCHANGED snap, extend_done
  PROVE  Midway' /\ op.pc # "idle" /\ op'.pc # "idle"
<1>1. /\ op.kind = "extend" /\ op.pc = "chunk" /\ op.rem = 0
      /\ dir' = [dir EXCEPT ![op.ent].size = fds[op.fd].off]
      /\ op' = [op EXCEPT !.kind = "write", !.pc = "walk", !.blk = dir[op.ent].first,
                          !.off = fds[op.fd].off, !.rem = Len(op.buf), !.cnt = 0]
      /\ UNCHANGED <<mounted, fds, data, reply, own, base>>
  BY DEF extend_done
<1>2. TypeOK /\ op \in Op /\ dir \in [Slots -> Entry]
  BY DEF IndInv, TypeOK
<1>3. /\ op'.kind = "write" /\ op'.pc = "walk" /\ op'.fd = op.fd /\ op'.ent = op.ent
      /\ op'.cnt = 0 /\ op'.buf = op.buf
  BY <1>1, <1>2 DEF Op
<1>4. /\ Changing /\ op.ent \in Slots /\ op.fd \in Fds /\ op.cnt \in Nat /\ op.buf \in Seq(Byte)
      /\ Old(op.ent) \in Seq(Byte) /\ Was \in Nat /\ fds[op.fd].off = Was
      /\ Goal = Filled(Old(op.ent), op.cnt) /\ Len(Old(op.ent)) + op.cnt + op.rem = Was
      /\ Match(op.ent, Goal)
  BY <1>1, Writing
<1>5. PICK o \in Seq(Byte) : o = Old(op.ent)
  BY <1>4
<1>6. PICK w \in Nat : w = Was
  BY <1>4
<1>7. PICK c \in Nat : c = op.cnt
  BY <1>4
<1>8. PICK l \in Nat : l = Len(o)
  OBVIOUS
<1>9. l + c = w
  BY <1>1, <1>4, <1>5, <1>6, <1>7, <1>8
<1>10. PICK buf \in Seq(Byte) : buf = op.buf
  BY <1>4
<1>11. /\ Filled(o, c) \in Seq(Byte) /\ Len(Filled(o, c)) = w
       /\ \A i \in 1 .. w : Filled(o, c)[i] = IF i <= l THEN o[i] ELSE 0
  BY <1>8, <1>9, FilledIs
<1>12. IsCopy(Copied(o, w, buf, 0), o, w, buf, 0)
  BY CopiedIs
<1> DEFINE s == Copied(o, w, buf, 0)
           g == Filled(o, c)
<1> HIDE DEF s, g
<1>13. /\ s \in Seq(Byte) /\ Len(s) = w
       /\ \A i \in 1 .. w : s[i] = IF i <= l THEN o[i] ELSE 0
  <2>1. IsCopy(s, o, w, buf, 0)
    BY <1>12 DEF s
  <2>2. Larger(Len(o), w + 0) = w
    BY <1>8, <1>9 DEF Larger
  <2>3. \A i \in 1 .. w : ~(i > w /\ i <= w + 0)
    OBVIOUS
  <2> QED BY <1>8, <2>1, <2>2, <2>3 DEF IsCopy
<1>14. g \in Seq(Byte) /\ Len(g) = w /\ \A i \in 1 .. w : g[i] = s[i]
  BY <1>11, <1>13 DEF g
<1>15. Match(op.ent, s)
  <2>1. Match(op.ent, g)
    BY <1>4, <1>5, <1>7 DEF g
  <2>2. PICK e \in Slots : e = op.ent
    BY <1>4
  <2>3. Len(s) <= Len(g) /\ \A i \in 1 .. Len(s) : s[i] = g[i]
    BY <1>13, <1>14
  <2>4. s \in Seq(Byte) /\ g \in Seq(Byte)
    BY <1>13, <1>14
  <2> QED BY <1>2, <2>1, <2>2, <2>3, <2>4, MatchEqual
<1>16. SameNames(dir, dir')
  BY <1>1, <1>2, <1>4, NewSize
<1>17. /\ dir'[op.ent].size = w /\ \A e \in Slots : e # op.ent => dir'[e] = dir[e]
  BY <1>1, <1>2, <1>4, <1>6 DEF Entry
<1>18. Old(op.ent)' = o /\ Was' = w
  BY <1>3, <1>4, <1>5, <1>6, <1>16 DEF Old, Was, SameNames
<1>19. Goal' = s /\ SizeNow' = w /\ OffNow' = w /\ Changing'
  <2>1. Larger(Len(o), w) = w
    BY <1>8, <1>9 DEF Larger
  <2> QED BY <1>3, <1>10, <1>18, <2>1 DEF Goal, SizeNow, OffNow, Changing, s
<1>20. SnapType' /\ FilesMatch' /\ NamesMatch' /\ HandlesMatch'
  <2>1. PICK h \in Seq(Byte) : h = s
    BY <1>13
  <2>2. fds'[op.fd].off = OffNow' /\ dir'[op.ent].size = SizeNow' /\ h = Goal' /\ Match(op.ent, h)
    BY <1>1, <1>4, <1>6, <1>15, <1>17, <1>19, <2>1
  <2>3. \A d \in Fds : d # op.fd => fds'[d] = fds[d]
    BY <1>1
  <2> QED BY <1>1, <1>2, <1>3, <1>4, <1>16, <1>17, <1>19, <2>2, <2>3, Resizes
<1>21. ReadMatch' /\ CutMatch'
  BY <1>3 DEF ReadMatch, CutMatch
<1>22. WriteMatch'
  <2>1. op.buf \in Buffers /\ 0 <= Len(op.buf)
    BY <1>1, <1>4 DEF Midway, WriteMatch
  <2> QED BY <1>3, <2>1 DEF WriteMatch
<1> QED BY <1>1, <1>3, <1>20, <1>21, <1>22 DEF Midway

(* fs_write has done what it can. *)
LEMMA WriteEnds ==
  ASSUME IndInv, SideInv, Midway, UNCHANGED snap,
         extend_abort \/ extend_error \/ write_return \/ write_error
  PROVE  Midway' /\ op.pc # "idle" /\ op'.pc # "idle"
<1>1. op.kind \in {"write", "extend"} /\ op.pc \in {"chunk", "abort"}
  BY DEF extend_abort, extend_error, write_return, write_error
<1>2. /\ Changing /\ op.ent \in Slots /\ op.fd \in Fds /\ op.cnt \in Nat /\ op.rem \in Nat
      /\ op.buf \in Seq(Byte) /\ dir[op.ent].size \in Nat
      /\ Old(op.ent) \in Seq(Byte) /\ Was \in Nat /\ fds[op.fd].off = Was
      /\ op.kind = "write" =>
           /\ Target = Was /\ dir[op.ent].size = Larger(Len(Old(op.ent)), Was)
           /\ op.cnt + op.rem = Len(op.buf)
      /\ op.kind = "extend" =>
           /\ Target = Len(Old(op.ent)) /\ dir[op.ent].size = Len(Old(op.ent))
           /\ Len(Old(op.ent)) + op.cnt + op.rem = Was
      /\ Goal \in Seq(Byte) /\ Match(op.ent, Goal) /\ Target \in Nat
      /\ Target + op.cnt <= Len(Goal) /\ Len(Goal) <= Larger(dir[op.ent].size, Target + op.cnt)
  BY <1>1, Writing
<1>3. PICK result : /\ write_finish(Target, result)
                    /\ op.kind = "write" => result \in {op.cnt, -1}
                    /\ op.kind = "extend" => result = op.cnt
  <2>1. CASE op.kind = "extend"
    <3>1. Target = dir[op.ent].size
      BY <2>1 DEF Target
    <3> QED BY <2>1, <3>1 DEF extend_abort, extend_error, write_return, write_error
  <2>2. CASE op.kind = "write"
    <3>1. Target = fds[op.fd].off
      BY <2>2 DEF Target
    <3> QED BY <2>2, <3>1 DEF extend_abort, extend_error, write_return, write_error
  <2> QED BY <1>1, <2>1, <2>2
<1>4. TypeOK /\ op \in Op /\ dir \in [Slots -> Entry] /\ fds \in [Fds -> Fd]
  BY DEF IndInv, TypeOK
<1>5. PICK to \in Nat : to = Target + op.cnt
  BY <1>2
<1>6. /\ fds' = [fds EXCEPT ![op.fd].off = to]
      /\ dir' = [dir EXCEPT ![op.ent].size = Larger(dir[op.ent].size, to)]
      /\ reply' = Return(result, <<>>) /\ op' = [op EXCEPT !.pc = "save"]
      /\ UNCHANGED <<mounted, data, own, base>>
  BY <1>3, <1>5 DEF write_finish
<1>7. /\ op'.pc = "save" /\ op'.kind = op.kind /\ op'.fd = op.fd /\ op'.ent = op.ent
      /\ op'.cnt = op.cnt /\ op'.rem = op.rem /\ op'.buf = op.buf
  BY <1>4, <1>6 DEF Op
<1>8. /\ fds'[op.fd].off = to /\ \A d \in Fds : d # op.fd => fds'[d] = fds[d]
  BY <1>2, <1>4, <1>6 DEF Fd
<1>9. /\ dir'[op.ent].size = Larger(dir[op.ent].size, to)
      /\ \A e \in Slots : e # op.ent => dir'[e] = dir[e]
  BY <1>2, <1>4, <1>6 DEF Entry
<1>10. SameNames(dir, dir')
  BY <1>2, <1>4, <1>6, NewSize
<1>11. Old(op.ent)' = Old(op.ent) /\ Was' = Was
  BY <1>2, <1>7, <1>10 DEF Old, Was, SameNames
<1>12. Goal' = Goal /\ Changing'
  BY <1>1, <1>7, <1>11 DEF Goal, Changing
<1>13. PICK g \in Seq(Byte) : g = Goal
  BY <1>2
<1>14. SizeNow' = Len(g)
  BY <1>7, <1>12, <1>13 DEF SizeNow
<1>15. Larger(dir[op.ent].size, to) = Len(g)
  <2>1. PICK z \in Nat : z = dir[op.ent].size
    BY <1>2
  <2>2. PICK m \in Nat : m = Len(g)
    OBVIOUS
  <2>3. to <= m /\ m <= Larger(z, to)
    BY <1>2, <1>5, <1>13, <2>1, <2>2
  <2>4. z <= m
    <3>1. PICK o \in Seq(Byte) : o = Old(op.ent)
      BY <1>2
    <3>2. PICK w \in Nat : w = Was
      BY <1>2
    <3>3. PICK c \in Nat : c = op.cnt
      BY <1>2
    <3>4. CASE op.kind = "write"
      <4>1. PICK b \in Seq(Byte) : b = op.buf
        BY <1>2
      <4>2. c <= Len(b)
        BY <1>2, <3>3, <3>4, <4>1
      <4>3. g = Copied(o, w, b, c)
        BY <1>13, <3>1, <3>2, <3>3, <3>4, <4>1 DEF Goal
      <4>4. IsCopy(g, o, w, b, c)
        BY <4>2, <4>3, CopiedIs
      <4>5. m = Larger(Len(o), w + c) /\ z = Larger(Len(o), w)
        BY <1>2, <2>1, <2>2, <3>1, <3>2, <3>4, <4>4 DEF IsCopy
      <4> QED BY <4>5 DEF Larger
    <3>5. CASE op.kind = "extend"
      <4>1. z = Target
        BY <1>2, <2>1, <3>5
      <4> QED BY <1>2, <1>5, <2>1, <2>3, <4>1
    <3> QED BY <1>1, <3>4, <3>5
  <2> QED BY <2>1, <2>2, <2>3, <2>4 DEF Larger
<1>16. OffNow' = to
  <2>1. CASE op.kind = "write"
    BY <1>2, <1>5, <1>7, <1>11, <2>1 DEF OffNow
  <2>2. CASE op.kind = "extend"
    BY <1>2, <1>5, <1>7, <1>11, <2>2 DEF OffNow
  <2> QED BY <1>1, <2>1, <2>2
<1>17. SnapType' /\ FilesMatch' /\ NamesMatch' /\ HandlesMatch'
  <2>1. /\ dir'[op.ent].size = SizeNow' /\ fds'[op.fd].off = OffNow' /\ g = Goal'
        /\ Match(op.ent, g)
    BY <1>2, <1>8, <1>9, <1>12, <1>13, <1>14, <1>15, <1>16
  <2> QED BY <1>2, <1>4, <1>6, <1>7, <1>8, <1>9, <1>10, <1>12, <2>1, Resizes
<1>18. ReadMatch' /\ CutMatch'
  BY <1>1, <1>7 DEF ReadMatch, CutMatch
<1>19. WriteMatch'
  <2>1. op.buf \in Buffers /\ (op.kind = "extend" /\ op.pc = "abort" => op.rem > 0)
    BY <1>1 DEF Midway, WriteMatch
  <2>2. CASE op.kind = "write"
    <3>1. op.cnt <= Len(op.buf)
      BY <1>2, <2>2
    <3> QED BY <1>3, <1>6, <1>7, <2>1, <2>2, <3>1 DEF WriteMatch
  <2>3. CASE op.kind = "extend"
    <3>1. op.rem > 0
      BY <2>1, <2>3 DEF extend_abort, extend_error, write_return, write_error
    <3>2. PICK l \in Nat : l = Len(Old(op.ent))
      BY <1>2
    <3>3. l + op.cnt < Was
      BY <1>2, <2>3, <3>1, <3>2
    <3> QED BY <1>3, <1>6, <1>7, <1>11, <2>1, <2>3, <3>2, <3>3 DEF WriteMatch
  <2> QED BY <1>1, <2>2, <2>3
<1> QED BY <1>1, <1>7, <1>17, <1>18, <1>19 DEF Midway

(* fs_truncate has freed the blocks past the new end. *)
LEMMA TruncateEnds ==
  ASSUME IndInv, SideInv, Midway, UNCHANGED snap, truncate_return
  PROVE  Midway' /\ op.pc # "idle" /\ op'.pc # "idle"
<1>1. /\ op.kind = "truncate" /\ op.pc \in {"cut", "free"}
      /\ dir' = [dir EXCEPT ![op.ent].size = op.rem]
      /\ fds' = [fds EXCEPT ![op.fd].off = Smaller(fds[op.fd].off, op.rem)]
      /\ op' = [op EXCEPT !.pc = "save"]
      /\ UNCHANGED <<mounted, data, reply, own, base>>
  BY DEF truncate_return
<1>2. TypeOK /\ op \in Op /\ dir \in [Slots -> Entry] /\ fds \in [Fds -> Fd]
  BY DEF IndInv, TypeOK
<1>3. op.ent \in Slots /\ op.fd \in Fds /\ op.rem \in Nat /\ dir[op.ent].used /\ Changing
  BY <1>1, <1>2, Fields DEF IndInv, DescriptorsSound, Changing
<1>4. /\ op'.pc = "save" /\ op'.kind = "truncate" /\ op'.fd = op.fd /\ op'.ent = op.ent
      /\ op'.rem = op.rem
  BY <1>1, <1>2 DEF Op
<1>5. dir[op.ent].name \in Names
  BY <1>3 DEF SideInv, NamesKnown
<1>6. PICK o \in Seq(Byte) : o = Old(op.ent)
  BY <1>5 DEF Midway, SnapType, Old
<1>7. PICK r \in Nat : r = op.rem
  BY <1>3
<1>8. r <= Len(o) /\ \E l \in 0 .. MaxLength : r = l % UintMod
  BY <1>1, <1>6, <1>7 DEF Midway, CutMatch
<1>9. Match(op.ent, Goal) /\ fds[op.fd].off = Was
  BY <1>1, <1>3 DEF Midway, FilesMatch, HandlesMatch, OffNow
<1>10. /\ fds'[op.fd].off = Smaller(Was, r) /\ \A d \in Fds : d # op.fd => fds'[d] = fds[d]
  BY <1>1, <1>2, <1>3, <1>7, <1>9 DEF Fd
<1>11. dir'[op.ent].size = r /\ \A e \in Slots : e # op.ent => dir'[e] = dir[e]
  BY <1>1, <1>2, <1>3, <1>7 DEF Entry
<1>12. SameNames(dir, dir')
  BY <1>1, <1>2, <1>3, NewSize
<1>13. Old(op.ent)' = o /\ Was' = Was
  BY <1>3, <1>4, <1>6, <1>12 DEF Old, Was, SameNames
<1>14. PICK g \in Seq(Byte) : g = SubSeq(o, 1, r) /\ Len(g) = r
  <2> DEFINE h == SubSeq(o, 1, r)
  <2>1. h \in Seq(Byte) /\ Len(h) = r + 1 - 1
    BY <1>8, PartIs
  <2>2. h = SubSeq(o, 1, r)
    OBVIOUS
  <2> HIDE DEF h
  <2>3. Len(h) = r
    BY <2>1
  <2> QED BY <2>1, <2>2, <2>3
<1>15. Goal = g /\ Goal' = g /\ SizeNow' = r /\ OffNow' = Smaller(Was, r) /\ Changing'
  BY <1>1, <1>4, <1>6, <1>7, <1>13, <1>14 DEF Goal, SizeNow, OffNow, Changing
<1>16. SnapType' /\ FilesMatch' /\ NamesMatch' /\ HandlesMatch'
  <2>1. /\ dir'[op.ent].size = SizeNow' /\ fds'[op.fd].off = OffNow' /\ g = Goal'
        /\ Match(op.ent, g)
    BY <1>9, <1>10, <1>11, <1>15
  <2> QED BY <1>1, <1>2, <1>3, <1>4, <1>10, <1>11, <1>12, <1>15, <2>1, Resizes
<1>17. ReadMatch' /\ WriteMatch'
  BY <1>4 DEF ReadMatch, WriteMatch
<1>18. CutMatch'
  <2>1. reply = NoReply
    BY <1>1 DEF Midway, CutMatch
  <2> QED BY <1>1, <1>4, <1>7, <1>8, <1>13, <2>1 DEF CutMatch
<1> QED BY <1>1, <1>4, <1>16, <1>17, <1>18 DEF Midway

(* fs_delete takes the name out of the directory. *)
LEMMA DeleteEnds ==
  ASSUME IndInv, NamesInv, SideInv, Midway, UNCHANGED snap, delete_return
  PROVE  Midway' /\ op.pc # "idle" /\ op'.pc # "idle"
<1>1. /\ op.kind = "delete" /\ op.pc = "free"
      /\ dir' = [dir EXCEPT ![op.ent] = EmptyEntry]
      /\ op' = [op EXCEPT !.pc = "save"]
      /\ UNCHANGED <<mounted, fds, data, reply, own, base>>
  BY DEF delete_return
<1>2. TypeOK /\ op \in Op /\ dir \in [Slots -> Entry]
  BY DEF IndInv, TypeOK
<1>3. /\ op.ent \in Slots /\ dir[op.ent].used /\ mounted
      /\ \A d \in Fds : fds[d].used => dir[fds[d].ent].used /\ fds[d].ent # op.ent
                                       /\ fds[d].ent \in Slots
  BY <1>1, <1>2, Fields DEF IndInv, DescriptorsSound, CallSound, FreeSound, Deleted
<1>4. op'.pc = "save" /\ op'.kind = "delete" /\ op'.ent = op.ent
  BY <1>1, <1>2 DEF Op
<1>5. ~dir'[op.ent].used /\ \A e \in Slots : e # op.ent => dir'[e] = dir[e]
  BY <1>1, <1>2, <1>3 DEF EmptyEntry
<1>6. PICK m \in Names : m = dir[op.ent].name
  BY <1>3 DEF SideInv, NamesKnown
<1>7. ~Changing /\ ~Changing' /\ ~Removing /\ Removing'
  BY <1>1, <1>4 DEF Changing, Removing
<1>8. /\ \A e \in Slots : dir[e].used => Same(e)
      /\ \A n \in Names : snap.files[n].exists <=> Listed(n)
      /\ \A d \in Fds : snap.open[d] = HandleOf(d)
  BY <1>7 DEF Midway, FilesMatch, NamesMatch, HandlesMatch
<1>9. \A e \in Slots : dir[e].used /\ dir[e].name = m => e = op.ent
  BY <1>3, <1>6 DEF NamesInv, OneEach
<1>10. SnapType'
  BY DEF Midway, SnapType
<1>11. NamesMatch'
  <2>1. snap.files[m].exists
    BY <1>3, <1>6, <1>8 DEF Same, Known
  <2>2. ~Listed(m)'
    BY <1>5, <1>9 DEF Listed
  <2>3. ASSUME NEW n \in Names \ {m} PROVE snap.files[n].exists <=> Listed(n)'
    <3>1. Listed(n) <=> Listed(n)'
      BY <1>5, <1>6, <2>3 DEF Listed
    <3> QED BY <1>8, <3>1
  <2>4. ASSUME NEW d \in Fds, snap.open[d].used PROVE snap.open[d].name # m
    <3>1. snap.open[d] = HandleOf(d)
      BY <1>8
    <3>2. fds[d].used /\ snap.open[d].name = dir[fds[d].ent].name
      BY <2>4, <3>1 DEF HandleOf
    <3> QED BY <1>3, <1>9, <3>2
  <2> QED BY <1>7, <2>1, <2>2, <2>3, <2>4 DEF NamesMatch
<1>12. HandlesMatch'
  <2>1. ASSUME NEW d \in Fds PROVE HandleOf(d)' = HandleOf(d)
    BY <1>1, <1>3, <1>5 DEF HandleOf
  <2> QED BY <1>7, <1>8, <2>1 DEF HandlesMatch
<1>13. FilesMatch'
  <2>1. ASSUME NEW e \in Slots, dir'[e].used PROVE Same(e)'
    <3>1. dir'[e] = dir[e]
      BY <1>5, <2>1
    <3>2. Same(e)
      BY <1>8, <2>1, <3>1
    <3> QED BY <1>1, <3>1, <3>2, SameKept
  <2> QED BY <1>7, <2>1 DEF FilesMatch
<1>14. ReadMatch' /\ WriteMatch'
  BY <1>4 DEF ReadMatch, WriteMatch
<1>15. CutMatch'
  BY <1>1, <1>4 DEF Midway, CutMatch
<1> QED BY <1>1, <1>4, <1>10, <1>11, <1>12, <1>13, <1>14, <1>15 DEF Midway
-----------------------------------------------------------------------------
(* A call returns: what the caller sees then *)

LEMMA ViewAfter ==
  ASSUME snap' = View'
  PROVE  /\ snap'.online = mounted' /\ snap'.reply = reply'
         /\ snap'.files = [n \in Names |-> FileOf(n)'] /\ snap'.open = [d \in Fds |-> HandleOf(d)']
BY DEF View

(* The files F are the ones the blocks hold. *)
LEMMA FilesShown ==
  ASSUME IndInv, NamesInv, SideInv, mounted, op.pc # "free",
         NEW F \in [Names -> [exists : BOOLEAN, bytes : Seq(Byte)]],
         \A e \in Slots : dir[e].used =>
           /\ F[dir[e].name].exists /\ dir[e].size = Len(F[dir[e].name].bytes)
           /\ Match(e, F[dir[e].name].bytes),
         \A n \in Names : ~Listed(n) => ~F[n].exists /\ F[n].bytes = <<>>
  PROVE  [n \in Names |-> FileOf(n)] = F
<1>1. ASSUME NEW n \in Names PROVE FileOf(n) = F[n]
  <2>1. PICK f \in [exists : BOOLEAN, bytes : Seq(Byte)] : f = F[n]
    OBVIOUS
  <2>2. f = [exists |-> f.exists, bytes |-> f.bytes]
    OBVIOUS
  <2>3. CASE Listed(n)
    <3>1. PICK e \in Slots : dir[e].used /\ dir[e].name = n
      BY <2>3 DEF Listed
    <3>2. PICK s \in Seq(Byte) : s = f.bytes
      OBVIOUS
    <3>3. f.exists /\ dir[e].size = Len(s) /\ Match(e, s)
      BY <2>1, <3>1, <3>2
    <3>4. Shown(e) = s
      BY <3>1, <3>3, MatchShown
    <3>5. FileOf(n) = [exists |-> TRUE, bytes |-> s]
      BY <3>1, <3>4, FileOfIs
    <3> QED BY <2>1, <2>2, <3>2, <3>3, <3>5
  <2>4. CASE ~Listed(n)
    <3>1. FileOf(n) = [exists |-> FALSE, bytes |-> <<>>]
      BY <2>4, NameListed
    <3> QED BY <2>1, <2>2, <2>4, <3>1
  <2> QED BY <2>3, <2>4
<1> QED BY <1>1

(* FileOf of given tables: the directory D, the data A, the owners O, the
   offsets P. *)
FileIn(n, D, A, O, P) ==
  IF n \in {D[i].name : i \in {j \in Slots : D[j].used}}
  THEN LET e == CHOOSE i \in Slots : IsLeast(i, {j \in Slots : D[j].used /\ D[j].name = n})
           at(k) == CHOOSE b \in Blocks : O[b] = e /\ P[b] <= k /\ k < P[b] + BlockSize
       IN [exists |-> TRUE,
           bytes |-> [i \in 1 .. D[e].size |-> A[at(i - 1)][(i - 1) - P[at(i - 1)]]]]
  ELSE [exists |-> FALSE, bytes |-> <<>>]

(* The directory and the data stay as they are. *)
LEMMA FilesStay ==
  ASSUME UNCHANGED <<dir, data, own, base>>
  PROVE  [n \in Names |-> FileOf(n)'] = [n \in Names |-> FileOf(n)]
<1>1. ASSUME NEW n \in Names PROVE FileOf(n)' = FileOf(n)
  <2>1. FileOf(n) = FileIn(n, dir, data, own, base)
    BY DEF FileOf, FileIn, fs_listfiles, find_file_in_directory, ByteOf, BlockOf
  <2>2. FileOf(n)' = FileIn(n, dir', data', own', base')
    BY DEF FileOf, FileIn, fs_listfiles, find_file_in_directory, ByteOf, BlockOf
  <2> QED BY <2>1, <2>2
<1> QED BY <1>1

(* One descriptor is changed. *)
LEMMA HandleSet ==
  ASSUME snap.open = [d \in Fds |-> snap.open[d]], NEW d \in Fds,
         snap' = View', \A c \in Fds : c # d => HandleOf(c)' = snap.open[c]
  PROVE  snap'.open = [snap.open EXCEPT ![d] = HandleOf(d)']
<1>1. snap'.open = [c \in Fds |-> HandleOf(c)']
  BY ViewAfter
<1> QED BY <1>1

LEMMA HandlesStay ==
  ASSUME snap.open = [d \in Fds |-> snap.open[d]],
         snap' = View', \A c \in Fds : HandleOf(c)' = snap.open[c]
  PROVE  snap'.open = snap.open
<1>1. snap'.open = [c \in Fds |-> HandleOf(c)']
  BY ViewAfter
<1> QED BY <1>1

(* The files during a call that changes none. *)
LEMMA FilesUntouched ==
  ASSUME IndInv, NamesInv, SideInv, Midway, mounted, op.pc # "free", ~Changing, ~Removing
  PROVE  [n \in Names |-> FileOf(n)] = snap.files
<1>1. PICK F \in [Names -> [exists : BOOLEAN, bytes : Seq(Byte)]] : F = snap.files
  BY DEF Midway, SnapType
<1>2. \A e \in Slots : dir[e].used =>
        /\ F[dir[e].name].exists /\ dir[e].size = Len(F[dir[e].name].bytes)
        /\ Match(e, F[dir[e].name].bytes)
  BY <1>1 DEF Midway, FilesMatch, Same, Known, Old
<1>3. \A n \in Names : ~Listed(n) => ~F[n].exists /\ F[n].bytes = <<>>
  BY <1>1 DEF Midway, NamesMatch, SnapType
<1> QED BY <1>1, <1>2, <1>3, FilesShown

LEMMA ReadErrs ==
  ASSUME IndInv, NamesInv, SideInv, Midway, snap' = View', read_error
  PROVE  (\E n \in 1 .. MaxNbyte : Store!Read(op.fd, n)) /\ mounted' /\ op.fd \in Fds
<1>1. /\ op.kind = "read" /\ op.pc = "chunk" /\ reply' = Return(-1, <<>>)
      /\ UNCHANGED <<mounted, dir, fds, data, own, base>>
  BY DEF read_error
<1>2. mounted /\ ~Changing /\ op.fd \in Fds /\ snap.open[op.fd] = Store!At(dir[op.ent].name, Was)
  BY <1>1, Reading
<1>3. snap'.files = snap.files
  <2>1. ~Removing
    BY <1>1 DEF Removing
  <2> QED BY <1>1, <1>2, <2>1, FilesUntouched, FilesStay, ViewAfter
<1>4. snap'.open = snap.open
  <2>1. \A d \in Fds : HandleOf(d)' = HandleOf(d)
    BY <1>1 DEF HandleOf
  <2>2. \A d \in Fds : HandleOf(d) = snap.open[d]
    BY <1>2 DEF Midway, HandlesMatch
  <2>3. snap.open = [d \in Fds |-> snap.open[d]]
    BY DEF Midway, SnapType
  <2> QED BY <2>1, <2>2, <2>3, HandlesStay
<1>5. snap'.online = snap.online /\ snap.online = TRUE /\ snap'.reply = Store!Returned(-1)
  <2>1. mounted = TRUE
    BY <1>2 DEF IndInv, TypeOK
  <2> QED BY <1>1, <2>1, ViewAfter DEF Midway, SnapType, Return, Store!Returned
<1>6. PICK n \in 1 .. MaxNbyte : TRUE
  BY <1>1 DEF Midway, ReadMatch
<1>7. snap.open[op.fd].used
  BY <1>2 DEF Store!At
<1>8. Store!Read(op.fd, n)
  BY <1>3, <1>4, <1>5, <1>7 DEF Store!Read
<1> QED BY <1>1, <1>2, <1>8

LEMMA AtMoved ==
  ASSUME NEW name, NEW j, NEW k
  PROVE  [Store!At(name, j) EXCEPT !.off = k] = Store!At(name, k)
<1> DEFINE R == [used : BOOLEAN, name : {name}, off : {j, k}]
<1>1. PICK r \in R : r = Store!At(name, j)
  <2>1. Store!At(name, j) \in R
    BY DEF Store!At
  <2> QED BY <2>1
<1>2. PICK q \in R : q = [r EXCEPT !.off = k]
  OBVIOUS
<1>3. q.used = r.used /\ q.name = r.name /\ q.off = k
  BY <1>2
<1>4. q = [used |-> q.used, name |-> q.name, off |-> q.off]
  OBVIOUS
<1>5. r.used = TRUE /\ r.name = name
  BY <1>1 DEF Store!At
<1>6. q = Store!At(name, k)
  BY <1>3, <1>4, <1>5 DEF Store!At
<1>7. [Store!At(name, j) EXCEPT !.off = k] = q
  BY <1>1, <1>2
<1> QED BY <1>6, <1>7

(* The bytes a read of n bytes at offset w returns. *)
LEMMA ReadBytes ==
  ASSUME NEW o \in Seq(Byte), NEW w \in Nat, w <= Len(o), NEW n \in Nat, NEW t \in Seq(Byte),
         Len(t) = Smaller(n, Len(o) - w), \A i \in 1 .. Len(t) : t[i] = o[w + i]
  PROVE  SubSeq(o, w + 1, Store!Least(w + n, Len(o))) = t
<1>1. PICK l \in Nat : l = Len(o)
  OBVIOUS
<1>2. PICK c \in Nat : c = Len(t)
  OBVIOUS
<1>3. c = Smaller(n, l - w) /\ w <= l
  BY <1>1, <1>2
<1>4. Store!Least(w + n, l) = w + c /\ w + c <= l
  BY <1>3 DEF Store!Least, Smaller
<1> DEFINE g == SubSeq(o, w + 1, w + c)
<1>5. /\ g \in Seq(Byte) /\ Len(g) = (w + c) + 1 - (w + 1)
      /\ \A k \in 1 .. (w + c) + 1 - (w + 1) : g[k] = o[(w + 1) + k - 1]
  <2>1. PICK q \in Nat : q = w + c
    OBVIOUS
  <2>2. PICK v \in Nat : v = w + 1
    OBVIOUS
  <2>3. 1 <= v /\ v <= q + 1 /\ q <= Len(o)
    BY <1>1, <1>4, <2>1, <2>2
  <2>4. /\ SubSeq(o, v, q) \in Seq(Byte) /\ Len(SubSeq(o, v, q)) = q + 1 - v
        /\ \A k \in 1 .. q + 1 - v : SubSeq(o, v, q)[k] = o[v + k - 1]
    BY <2>3, PartIs
  <2> QED BY <2>1, <2>2, <2>4
<1>6. g = SubSeq(o, w + 1, Store!Least(w + n, Len(o)))
  BY <1>1, <1>4
<1> HIDE DEF g
<1>7. g \in Seq(Byte) /\ Len(g) = c
  BY <1>5
<1>8. ASSUME NEW k \in 1 .. c PROVE g[k] = t[k]
  <2>1. k \in 1 .. (w + c) + 1 - (w + 1) /\ (w + 1) + k - 1 = w + k
    OBVIOUS
  <2> QED BY <1>2, <1>5, <2>1
<1>9. g = [k \in 1 .. c |-> g[k]] /\ t = [k \in 1 .. c |-> t[k]]
  BY <1>2, <1>7
<1>10. g = t
  BY <1>8, <1>9
<1> QED BY <1>6, <1>10

LEMMA ReadReturns ==
  ASSUME IndInv, NamesInv, SideInv, Midway, snap' = View', read_return
  PROVE  (\E n \in 1 .. MaxNbyte : Store!Read(op.fd, n)) /\ mounted' /\ op.fd \in Fds
<1>1. /\ op.kind = "read" /\ op.pc = "chunk" /\ (op.rem = 0 \/ op.blk = FAT_EOF)
      /\ fds' = [fds EXCEPT ![op.fd].off = fds[op.fd].off + op.cnt]
      /\ reply' = Return(op.cnt, op.buf)
      /\ UNCHANGED <<mounted, dir, data, own, base>>
  BY DEF read_return
<1>2. /\ mounted /\ ~Changing /\ op.ent \in Slots /\ op.fd \in Fds /\ op.cnt \in Nat
      /\ op.rem \in Nat /\ op.buf \in Seq(Byte) /\ fds[op.fd].used /\ dir[op.ent].name \in Names
      /\ Was = fds[op.fd].off /\ Was \in Nat /\ Old(op.ent) \in Seq(Byte)
      /\ Was + op.cnt + op.rem <= Len(Old(op.ent))
      /\ snap.open[op.fd] = Store!At(dir[op.ent].name, Was)
  BY <1>1, Reading
<1>3. op.rem = 0
  <2> SUFFICES ASSUME op.rem # 0 PROVE FALSE
    OBVIOUS
  <2>1. op.rem > 0
    BY <1>2
  <2>2. op.blk \in Blocks
    BY <1>1, <2>1, ChunkHere
  <2> QED BY <1>1, <2>2, Marks
<1>4. fds \in [Fds -> Fd] /\ mounted = TRUE /\ fds[op.fd].ent = op.ent
  BY <1>1, <1>2 DEF IndInv, TypeOK, DescriptorsSound
<1>5. PICK o \in Seq(Byte) : o = Old(op.ent)
  BY <1>2
<1>6. PICK w \in Nat : w = Was
  BY <1>2
<1>7. PICK t \in Seq(Byte) : t = op.buf
  BY <1>2
<1>8. PICK n \in 1 .. MaxNbyte : Len(t) = Smaller(n, Len(o) - w)
  <2>1. PICK n \in 1 .. MaxNbyte : op.cnt + op.rem = Smaller(n, Len(o) - w)
    BY <1>1, <1>5, <1>6 DEF Midway, ReadMatch
  <2>2. Len(t) = op.cnt
    BY <1>1, <1>7 DEF Midway, ReadMatch
  <2> QED BY <1>2, <1>3, <2>1, <2>2
<1>9. Len(t) = op.cnt /\ \A i \in 1 .. Len(t) : t[i] = o[w + i]
  BY <1>1, <1>5, <1>6, <1>7 DEF Midway, ReadMatch
<1> DEFINE got == SubSeq(o, w + 1, Store!Least(w + n, Len(o)))
<1>10. got = t
  <2>1. w <= Len(o)
    <3>1. PICK l \in Nat : l = Len(o)
      OBVIOUS
    <3> QED BY <1>2, <1>5, <1>6, <3>1
  <2>2. n \in Nat
    BY SizesAssumption
  <2> QED BY <1>8, <1>9, <2>1, <2>2, ReadBytes
<1> HIDE DEF got
<1>11. snap'.files = snap.files
  <2>1. ~Removing
    BY <1>1 DEF Removing
  <2> QED BY <1>1, <1>2, <2>1, FilesUntouched, FilesStay, ViewAfter
<1>12. snap'.open = [snap.open EXCEPT ![op.fd].off = @ + Len(t)]
  <2>1. PICK d \in Fds : d = op.fd
    BY <1>2
  <2>2. /\ fds'[d] = [fds[d] EXCEPT !.off = w + op.cnt]
        /\ \A c \in Fds : c # d => fds'[c] = fds[c]
    BY <1>1, <1>2, <1>4, <1>6, <2>1
  <2>3. fds'[d].used = fds[d].used /\ fds'[d].ent = op.ent /\ fds'[d].off = w + op.cnt
    BY <1>2, <1>4, <2>1, <2>2 DEF Fd
  <2>4. HandleOf(d)' = Store!At(dir[op.ent].name, w + op.cnt)
    BY <1>1, <1>2, <2>1, <2>3 DEF HandleOf, Store!At
  <2>5. \A c \in Fds : c # d => HandleOf(c)' = snap.open[c]
    <3>1. \A c \in Fds : c # d => HandleOf(c)' = HandleOf(c)
      BY <1>1, <2>2 DEF HandleOf
    <3> QED BY <1>2, <3>1 DEF Midway, HandlesMatch
  <2>6. snap.open = [c \in Fds |-> snap.open[c]]
    BY DEF Midway, SnapType
  <2>7. snap'.open = [snap.open EXCEPT ![d] = HandleOf(d)']
    BY <2>5, <2>6, HandleSet
  <2>8. snap.open[d] = Store!At(dir[op.ent].name, w) /\ snap.open[d].off + Len(t) = w + op.cnt
    BY <1>2, <1>6, <1>9, <2>1 DEF Store!At
  <2>9. [snap.open[d] EXCEPT !.off = @ + Len(t)] = HandleOf(d)'
    BY <2>4, <2>8, AtMoved
  <2> QED BY <2>1, <2>7, <2>9
<1>13. snap'.online = snap.online /\ snap.online = TRUE /\ snap'.reply = [val |-> Len(t), bytes |-> t]
  BY <1>1, <1>4, <1>7, <1>9, ViewAfter DEF Midway, SnapType, Return
<1>14. /\ snap.open[op.fd].used /\ snap.open[op.fd].off = w
       /\ snap.files[snap.open[op.fd].name].bytes = o
  BY <1>2, <1>5, <1>6 DEF Store!At, Old
<1>15. Store!Content(op.fd) = o
  BY <1>14 DEF Store!Content
<1>16. Store!Read(op.fd, n)
  BY <1>10, <1>11, <1>12, <1>13, <1>14, <1>15 DEF Store!Read, got
<1> QED BY <1>1, <1>2, <1>16

(* A read at the end of the file, which returns at once. *)
LEMMA ReadsNothing ==
  ASSUME IndInv, NamesInv, SideInv, StoreInv, snap' = View',
         NEW d \in Fds, NEW n \in 1 .. MaxNbyte, fs_read(d, n), op' = op
  PROVE  Store!Read(d, n) /\ mounted'
<1>1. PICK e \in Slots : e = fds[d].ent
  BY Fields DEF IndInv
<1>2. /\ op.pc = "idle" /\ mounted /\ fds[d].used /\ reply' = NoReply
      /\ UNCHANGED <<mounted, dir, fds, data, own, base>>
  BY DEF fs_read
<1>3. dir[e].first = FAT_EOF \/ fds[d].off >= dir[e].size
  <2> SUFFICES ASSUME ~(dir[e].first = FAT_EOF \/ fds[d].off >= dir[e].size) PROVE FALSE
    OBVIOUS
  <2>1. op'.pc = "walk"
    BY <1>1 DEF fs_read, Idle
  <2> QED BY <1>2, <2>1
<1>4. dir[e].used /\ dir[e].size \in Nat /\ fds[d].off \in Nat /\ mounted = TRUE
  BY <1>1, <1>2, Fields DEF IndInv, DescriptorsSound, TypeOK
<1>5. fds[d].off >= dir[e].size
  <2> SUFFICES ASSUME dir[e].first = FAT_EOF PROVE dir[e].size = 0
    BY <1>3, <1>4
  <2>1. Deleted = {}
    BY <1>2, AtRest
  <2> QED BY <1>2, <1>4, <2>1, NothingThere
<1>6. SnapType /\ Same(e) /\ snap.open[d] = HandleOf(d)
  BY <1>2, <1>4, AtIdle
<1>7. dir[e].name \in Names
  BY <1>4 DEF SideInv, NamesKnown
<1>8. PICK o \in Seq(Byte) : o = Old(e) /\ Len(o) = dir[e].size
  BY <1>6, <1>7 DEF SnapType, Old, Same
<1>9. snap.open[d] = [used |-> TRUE, name |-> dir[e].name, off |-> fds[d].off]
  BY <1>1, <1>2, <1>6 DEF HandleOf
<1>10. Store!Content(d) = o
  BY <1>8, <1>9 DEF Store!Content, Old
<1>11. PICK w \in Nat : w = fds[d].off
  BY <1>4
<1> DEFINE got == SubSeq(o, w + 1, Store!Least(w + n, Len(o)))
<1>12. got = <<>> /\ Len(got) = 0
  <2>1. PICK l \in Nat : l = Len(o)
    OBVIOUS
  <2>2. Store!Least(w + n, l) = l /\ l < w + 1
    <3>1. n \in Nat /\ n >= 1
      BY SizesAssumption
    <3>2. l <= w
      BY <1>4, <1>5, <1>8, <1>11, <2>1
    <3> QED BY <3>1, <3>2 DEF Store!Least
  <2>3. got = SubSeq(o, w + 1, l)
    BY <2>1, <2>2
  <2>4. SubSeq(o, w + 1, l) = <<>>
    BY <2>1, <2>2
  <2>5. Len(<<>>) = 0
    OBVIOUS
  <2> QED BY <2>3, <2>4, <2>5
<1> HIDE DEF got
<1>13. snap = View
  BY <1>2 DEF StoreInv
<1>14. snap'.files = snap.files
  BY <1>2, <1>13, FilesStay, ViewAfter, ViewParts
<1>15. snap'.open = snap.open
  <2>1. \A c \in Fds : HandleOf(c)' = HandleOf(c)
    BY <1>2 DEF HandleOf
  <2> QED BY <1>13, <2>1, ViewAfter, ViewParts
<1>16. snap.open' = [snap.open EXCEPT ![d].off = @ + Len(got)]
  <2>1. [snap.open[d] EXCEPT !.off = @ + Len(got)] = snap.open[d]
    <3>1. snap.open[d] = Store!At(dir[e].name, w) /\ snap.open[d].off + Len(got) = w
      BY <1>9, <1>11, <1>12 DEF Store!At
    <3> QED BY <3>1, AtMoved
  <2>2. snap.open = [c \in Fds |-> snap.open[c]]
    BY <1>6 DEF SnapType
  <2> QED BY <1>15, <2>1, <2>2
<1>17. snap'.online = TRUE /\ snap.online = TRUE /\ snap'.reply = [val |-> Len(got), bytes |-> got]
  BY <1>2, <1>4, <1>6, <1>12, ViewAfter DEF SnapType, NoReply, Return
<1>18. Store!Read(d, n)
  <2>1. snap.open[d].used /\ snap.open[d].off = w
    BY <1>9, <1>11
  <2> QED BY <1>10, <1>14, <1>16, <1>17, <2>1 DEF Store!Read, got
<1> QED BY <1>2, <1>18
-----------------------------------------------------------------------------
(* The calls that return at once *)

LEMMA AtOnce ==
  ASSUME StoreInv, op.pc = "idle", snap' = View'
  PROVE  /\ snap.online = mounted /\ snap'.online = mounted'
         /\ snap.reply = reply /\ snap'.reply = reply'
         /\ \A c \in Fds : snap.open[c] = HandleOf(c)
         /\ snap.open = [c \in Fds |-> snap.open[c]] /\ snap'.open = [c \in Fds |-> HandleOf(c)']
         /\ UNCHANGED <<dir, data, own, base>> => snap'.files = snap.files
<1>1. snap = View
  BY DEF StoreInv
<1>2. /\ snap.online = mounted /\ snap.reply = reply
      /\ snap.files = [n \in Names |-> FileOf(n)] /\ snap.open = [d \in Fds |-> HandleOf(d)]
  BY <1>1, ViewParts
<1>3. /\ snap'.online = mounted' /\ snap'.reply = reply'
      /\ snap'.files = [n \in Names |-> FileOf(n)'] /\ snap'.open = [d \in Fds |-> HandleOf(d)']
  BY ViewAfter
<1>4. ASSUME UNCHANGED <<dir, data, own, base>> PROVE snap'.files = snap.files
  BY <1>2, <1>3, <1>4, FilesStay
<1>5. snap.open = [c \in Fds |-> snap.open[c]] /\ \A c \in Fds : snap.open[c] = HandleOf(c)
  BY <1>2
<1> QED BY <1>2, <1>3, <1>4, <1>5

LEMMA Seeks ==
  ASSUME IndInv, NamesInv, SideInv, StoreInv, snap' = View',
         NEW d \in Fds, NEW k \in 0 .. MaxLength, fs_lseek(d, k)
  PROVE  Store!Seek(d, k) /\ mounted'
<1>1. PICK e \in Slots : e = fds[d].ent
  BY Fields DEF IndInv
<1>2. /\ op.pc = "idle" /\ mounted /\ fds[d].used /\ k <= dir[e].size
      /\ fds' = [fds EXCEPT ![d].off = k] /\ reply' = NoReply
      /\ UNCHANGED <<mounted, dir, data, own, base>>
  BY <1>1 DEF fs_lseek, fs_get_filesize
<1>3. fds \in [Fds -> Fd] /\ mounted = TRUE /\ dir[e].used
  BY <1>1, <1>2 DEF IndInv, TypeOK, DescriptorsSound
<1>4. /\ snap.online = mounted /\ snap'.online = mounted' /\ snap'.reply = reply'
      /\ \A c \in Fds : snap.open[c] = HandleOf(c)
      /\ snap.open = [c \in Fds |-> snap.open[c]] /\ snap'.files = snap.files
  BY <1>2, AtOnce
<1>5. snap.open[d] = Store!At(dir[e].name, fds[d].off)
  BY <1>1, <1>2, <1>4 DEF HandleOf, Store!At
<1>6. /\ fds'[d].used = fds[d].used /\ fds'[d].ent = e /\ fds'[d].off = k
      /\ \A c \in Fds : c # d => fds'[c] = fds[c]
  BY <1>1, <1>2, <1>3 DEF Fd
<1>7. HandleOf(d)' = Store!At(dir[e].name, k)
  BY <1>2, <1>6 DEF HandleOf, Store!At
<1>8. \A c \in Fds : c # d => HandleOf(c)' = snap.open[c]
  BY <1>2, <1>4, <1>6 DEF HandleOf
<1>9. snap'.open = [snap.open EXCEPT ![d].off = k]
  <2>1. snap'.open = [snap.open EXCEPT ![d] = HandleOf(d)']
    BY <1>4, <1>8, HandleSet
  <2>2. [snap.open[d] EXCEPT !.off = k] = HandleOf(d)'
    BY <1>5, <1>7, AtMoved
  <2> QED BY <2>1, <2>2
<1>10. Len(Store!Content(d)) = dir[e].size
  <2>1. Same(e)
    BY <1>2, <1>3, AtIdle
  <2> QED BY <1>5, <2>1 DEF Store!Content, Store!At, Same, Old
<1>11. snap.open[d].used
  BY <1>5 DEF Store!At
<1>12. Store!Seek(d, k)
  BY <1>2, <1>3, <1>4, <1>9, <1>10, <1>11 DEF Store!Seek, NoReply, Return, Store!Returned
<1> QED BY <1>2, <1>12

LEMMA Opens ==
  ASSUME IndInv, NamesInv, SideInv, StoreInv, snap' = View', NEW name \in Names, fs_open(name)
  PROVE  Store!Open(name) /\ mounted'
<1>1. PICK i \in Slots, d \in Fds :
        /\ find_file_in_directory(i, name) /\ ~fds[d].used
        /\ fds' = [fds EXCEPT ![d] = [used |-> TRUE, ent |-> i, off |-> 0]]
        /\ reply' = Return(d, <<>>)
  BY DEF fs_open, IsLeast
<1>2. op.pc = "idle" /\ mounted /\ UNCHANGED <<mounted, dir, data, own, base>>
  BY DEF fs_open
<1>3. fds \in [Fds -> Fd] /\ mounted = TRUE
  BY <1>2 DEF IndInv, TypeOK
<1>4. /\ snap.online = mounted /\ snap'.online = mounted' /\ snap'.reply = reply'
      /\ \A c \in Fds : snap.open[c] = HandleOf(c)
      /\ snap.open = [c \in Fds |-> snap.open[c]] /\ snap'.files = snap.files
  BY <1>2, AtOnce
<1>5. dir[i].used /\ dir[i].name = name
  BY <1>1 DEF find_file_in_directory, IsLeast
<1>6. snap.files[name].exists
  <2>1. Listed(name)
    BY <1>5 DEF Listed
  <2> QED BY <1>2, <2>1, AtIdle
<1>7. /\ fds'[d] = [used |-> TRUE, ent |-> i, off |-> 0]
      /\ \A c \in Fds : c # d => fds'[c] = fds[c]
  BY <1>1, <1>3
<1>8. HandleOf(d)' = Store!At(name, 0)
  <2>1. fds'[d].used /\ fds'[d].ent = i /\ fds'[d].off = 0
    BY <1>7
  <2> QED BY <1>2, <1>5, <2>1 DEF HandleOf, Store!At
<1>9. \A c \in Fds : c # d => HandleOf(c)' = snap.open[c]
  BY <1>2, <1>4, <1>7 DEF HandleOf
<1>10. snap'.open = [snap.open EXCEPT ![d] = Store!At(name, 0)]
  BY <1>4, <1>8, <1>9, HandleSet
<1>11. ~snap.open[d].used
  <2>1. HandleOf(d) = [used |-> FALSE]
    BY <1>1 DEF HandleOf
  <2> QED BY <1>4, <2>1
<1>12. snap'.reply = Store!Returned(d)
  BY <1>1, <1>4 DEF Return, Store!Returned
<1>13. Store!Open(name)
  BY <1>2, <1>3, <1>4, <1>6, <1>10, <1>11, <1>12 DEF Store!Open
<1> QED BY <1>2, <1>13

(* fs_close does not ask whether the disk is mounted; when it is not, there is
   nothing to see of it. *)
LEMMA Closes ==
  ASSUME IndInv, NamesInv, SideInv, StoreInv, snap' = View', NEW d \in Fds, fs_close(d)
  PROVE  Store!Close(d) \/ UNCHANGED Store!vars
<1>1. /\ op.pc = "idle" /\ fds[d].used /\ fds' = [fds EXCEPT ![d] = ClosedFd]
      /\ reply' = NoReply /\ UNCHANGED <<mounted, dir, data, own, base>>
  BY DEF fs_close
<1>2. fds \in [Fds -> Fd] /\ mounted \in BOOLEAN
  BY DEF IndInv, TypeOK
<1>3. /\ snap.online = mounted /\ snap'.online = mounted' /\ snap'.reply = reply'
      /\ snap.reply = reply /\ \A c \in Fds : snap.open[c] = HandleOf(c)
      /\ snap.open = [c \in Fds |-> snap.open[c]] /\ snap'.files = snap.files
  BY <1>1, AtOnce
<1>4. ~fds'[d].used /\ \A c \in Fds : c # d => fds'[c] = fds[c]
  BY <1>1, <1>2 DEF ClosedFd
<1>5. HandleOf(d)' = Store!Closed
  BY <1>4 DEF HandleOf, Store!Closed
<1>6. \A c \in Fds : c # d => HandleOf(c)' = snap.open[c]
  BY <1>1, <1>3, <1>4 DEF HandleOf
<1>7. CASE mounted
  <2>1. snap'.open = [snap.open EXCEPT ![d] = Store!Closed]
    BY <1>3, <1>5, <1>6, HandleSet
  <2>2. snap.open[d].used
    <3>1. HandleOf(d) = [used |-> TRUE, name |-> dir[fds[d].ent].name, off |-> fds[d].off]
      BY <1>1, <1>7 DEF HandleOf
    <3> QED BY <1>3, <3>1
  <2>3. Store!Close(d)
    BY <1>1, <1>2, <1>3, <1>7, <2>1, <2>2 DEF Store!Close, NoReply, Return, Store!Returned
  <2> QED BY <2>3
<1>8. CASE ~mounted
  <2>1. \A c \in Fds : HandleOf(c)' = snap.open[c]
    BY <1>1, <1>3, <1>8 DEF HandleOf
  <2>2. snap'.open = snap.open
    BY <1>3, <2>1, HandlesStay
  <2>3. reply = NoReply
    BY <1>1, <1>8 DEF StoreInv
  <2> QED BY <1>1, <1>3, <2>2, <2>3 DEF Store!vars
<1> QED BY <1>7, <1>8

(* mount_fs finds in the disk's tables what was in memory. *)
LEMMA Mounts ==
  ASSUME IndInv, SideInv, StoreInv, snap' = View', mount_fs
  PROVE  Store!Mount /\ mounted'
<1>1. /\ op.pc = "idle" /\ ~mounted /\ mounted' = TRUE /\ fds' = AllClosed /\ reply' = NoReply
      /\ dir' = disk.dir /\ own' = disk.own /\ base' = disk.base /\ data' = data
  BY DEF mount_fs
<1>2. UNCHANGED <<dir, own, base, data>> /\ mounted = FALSE
  BY <1>1 DEF SideInv, Unmounted, IndInv, TypeOK
<1>3. /\ snap.online = mounted /\ snap'.online = mounted' /\ snap'.reply = reply'
      /\ \A c \in Fds : snap.open[c] = HandleOf(c)
      /\ snap.open = [c \in Fds |-> snap.open[c]] /\ snap'.files = snap.files
  BY <1>1, <1>2, AtOnce
<1>4. \A c \in Fds : HandleOf(c)' = snap.open[c]
  BY <1>1, <1>3 DEF HandleOf, AllClosed, ClosedFd
<1>5. snap'.open = snap.open
  BY <1>3, <1>4, HandlesStay
<1> QED BY <1>1, <1>2, <1>3, <1>5 DEF Store!Mount, NoReply, Return, Store!Returned

LEMMA Formats ==
  ASSUME IndInv, StoreInv, snap' = View', make_fs
  PROVE  Store!Format /\ reply' = NoReply
<1>1. op.pc = "idle" /\ ~active /\ dir' = EmptyDir /\ reply' = NoReply /\ UNCHANGED <<mounted, fds>>
  BY DEF make_fs
<1>2. mounted = FALSE /\ ~mounted
  BY <1>1 DEF IndInv, TypeOK, DescriptorsSound
<1>3. /\ snap.online = mounted /\ snap'.online = mounted' /\ snap'.reply = reply'
      /\ \A c \in Fds : snap.open[c] = HandleOf(c)
      /\ snap.open = [c \in Fds |-> snap.open[c]]
  BY <1>1, AtOnce
<1>4. snap'.files = [n \in Names |-> Store!Absent]
  <2>1. fs_listfiles' = {}
    BY <1>1 DEF fs_listfiles, EmptyDir, EmptyEntry
  <2>2. \A n \in Names : FileOf(n)' = Store!Absent
    BY <2>1 DEF FileOf, Store!Absent
  <2> QED BY <2>2, ViewAfter
<1>5. \A c \in Fds : HandleOf(c)' = snap.open[c]
  BY <1>1, <1>2, <1>3 DEF HandleOf
<1>6. snap'.open = snap.open
  BY <1>3, <1>5, HandlesStay
<1> QED BY <1>1, <1>2, <1>3, <1>4, <1>6 DEF Store!Format, NoReply, Return, Store!Returned

LEMMA BytesSet ==
  ASSUME NEW s, NEW t
  PROVE  [Store!File(s) EXCEPT !.bytes = t] = Store!File(t)
<1> DEFINE R == [exists : BOOLEAN, bytes : {s, t}]
<1>1. PICK r \in R : r = Store!File(s)
  <2>1. Store!File(s) \in R
    BY DEF Store!File
  <2> QED BY <2>1
<1>2. PICK q \in R : q = [r EXCEPT !.bytes = t]
  OBVIOUS
<1>3. q.exists = r.exists /\ q.bytes = t
  BY <1>2
<1>4. q = [exists |-> q.exists, bytes |-> q.bytes]
  OBVIOUS
<1>5. r.exists = TRUE
  BY <1>1 DEF Store!File
<1>6. q = Store!File(t)
  BY <1>3, <1>4, <1>5 DEF Store!File
<1>7. [Store!File(s) EXCEPT !.bytes = t] = q
  BY <1>1, <1>2
<1> QED BY <1>6, <1>7

(* make_fs on the mounted disk: every byte is zero. *)
LEMMA Erases ==
  ASSUME IndInv, NamesInv, SideInv, StoreInv, snap' = View', make_fs_open
  PROVE  Store!Erase /\ mounted'
<1>1. /\ op.pc = "idle" /\ active /\ data' = ZeroData /\ reply' = Return(-1, <<>>)
      /\ UNCHANGED <<mounted, dir, fds, own, base>>
  BY DEF make_fs_open
<1>2. mounted = TRUE /\ mounted
  BY <1>1 DEF IndInv, TypeOK, DescriptorsSound
<1>3. /\ snap.online = mounted /\ snap'.online = mounted' /\ snap'.reply = reply'
      /\ \A c \in Fds : snap.open[c] = HandleOf(c)
      /\ snap.open = [c \in Fds |-> snap.open[c]]
  BY <1>1, AtOnce
<1>4. \A c \in Fds : HandleOf(c)' = snap.open[c]
  BY <1>1, <1>3 DEF HandleOf
<1>5. snap'.open = snap.open
  BY <1>3, <1>4, HandlesStay
<1>6. snap.files = [n \in Names |-> FileOf(n)] /\ snap'.files = [n \in Names |-> FileOf(n)']
  BY <1>1, ViewParts, ViewAfter DEF StoreInv
<1>7. ASSUME NEW n \in Names
      PROVE  FileOf(n)' = [FileOf(n) EXCEPT !.bytes = Store!Fill(Len(FileOf(n).bytes))]
  <2>1. fs_listfiles' = fs_listfiles
    BY <1>1 DEF fs_listfiles
  <2>2. ASSUME NEW s, NEW t
        PROVE  [[exists |-> TRUE, bytes |-> s] EXCEPT !.bytes = t] = [exists |-> TRUE, bytes |-> t]
    BY BytesSet DEF Store!File
  <2>3. CASE Listed(n)
    <3>1. PICK e \in Slots : dir[e].used /\ dir[e].name = n
      BY <2>3 DEF Listed
    <3>2. FileOf(n) = [exists |-> TRUE, bytes |-> Shown(e)]
      BY <3>1, FileOfIs
    <3>3. PICK z \in Nat : z = dir[e].size
      BY Fields DEF IndInv
    <3>4. Len(Shown(e)) = z
      BY <1>1, <1>2, <3>1, <3>3, ShownMatches
    <3>5. n \in fs_listfiles /\ (CHOOSE i \in Slots : find_file_in_directory(i, n)) = e
      BY <3>1, EntryFound
    <3>6. ASSUME NEW i \in 1 .. z PROVE ByteOf(e, i - 1)' = 0
      <4>1. i - 1 \in Nat /\ i - 1 < dir[e].size
        BY <3>3
      <4>2. PICK b \in Blocks : own[b] = e /\ base[b] <= i - 1 /\ i - 1 < base[b] + BlockSize
        BY <1>1, <1>2, <3>1, <4>1, BlockFound
      <4>3. BlockOf(e, i - 1) = b
        BY <1>2, <4>1, <4>2, BlockOfIs
      <4>4. BlockOf(e, i - 1)' = BlockOf(e, i - 1)
        BY <1>1 DEF BlockOf
      <4>5. PICK k \in Nat : k = base[b]
        BY Fields DEF IndInv
      <4>6. (i - 1) - k \in 0 .. BlockSize - 1
        BY <4>1, <4>2, <4>5, Marks
      <4> QED BY <1>1, <4>3, <4>4, <4>5, <4>6 DEF ByteOf, ZeroData
    <3>7. FileOf(n)' = [exists |-> TRUE, bytes |-> [i \in 1 .. z |-> ByteOf(e, i - 1)']]
      <4>1. (CHOOSE i \in Slots : find_file_in_directory(i, n))' =
              (CHOOSE i \in Slots : find_file_in_directory(i, n))
        BY <1>1 DEF find_file_in_directory
      <4> DEFINE c == CHOOSE i \in Slots : find_file_in_directory(i, n)
      <4>2. FileOf(n)' =
              [exists |-> TRUE, bytes |-> [i \in 1 .. dir'[c'].size |-> ByteOf(c, i - 1)']]
        BY <2>1, <3>5 DEF FileOf
      <4>3. c' = e
        BY <3>5, <4>1
      <4> HIDE DEF c
      <4>4. \A i : ByteOf(c, i - 1)' = ByteOf(e, i - 1)'
        BY <4>3 DEF ByteOf, BlockOf
      <4> QED BY <1>1, <3>3, <4>2, <4>3, <4>4
    <3>8. [i \in 1 .. z |-> ByteOf(e, i - 1)'] = Store!Fill(z)
      BY <3>6 DEF Store!Fill
    <3> DEFINE f == FileOf(n)
               s == Shown(e)
    <3>9. f.bytes = s
      BY <3>2
    <3>10. [f EXCEPT !.bytes = Store!Fill(z)] = [exists |-> TRUE, bytes |-> Store!Fill(z)]
      <4> HIDE DEF s
      <4>1. f = [exists |-> TRUE, bytes |-> s]
        BY <3>2 DEF s
      <4> HIDE DEF f
      <4> QED BY <2>2, <4>1
    <3> QED BY <3>4, <3>7, <3>8, <3>9, <3>10
  <2>4. CASE ~Listed(n)
    <3>1. n \notin fs_listfiles /\ FileOf(n) = [exists |-> FALSE, bytes |-> <<>>]
      BY <2>4, NameListed
    <3>2. FileOf(n)' = [exists |-> FALSE, bytes |-> <<>>]
      BY <2>1, <3>1 DEF FileOf
    <3>3. Store!Fill(Len(<<>>)) = <<>>
      BY DEF Store!Fill
    <3>4. [[exists |-> FALSE, bytes |-> <<>>] EXCEPT !.bytes = <<>>] =
            [exists |-> FALSE, bytes |-> <<>>]
      OBVIOUS
    <3> QED BY <3>1, <3>2, <3>3, <3>4
  <2> QED BY <2>3, <2>4
<1>8. snap'.files = [n \in Names |-> [snap.files[n] EXCEPT !.bytes = Store!Fill(Len(snap.files[n].bytes))]]
  BY <1>6, <1>7
<1> QED BY <1>1, <1>2, <1>3, <1>5, <1>8 DEF Store!Erase, Return, Store!Returned

LEMMA Creates ==
  ASSUME IndInv, NamesInv, SideInv, StoreInv, snap' = View', NEW name \in Names, fs_create(name)
  PROVE  Store!Create(name) /\ mounted'
<1>1. PICK i \in Slots :
        /\ ~dir[i].used
        /\ dir' = [dir EXCEPT ![i] = [used |-> TRUE, name |-> name, size |-> 0, first |-> FAT_EOF]]
  BY DEF fs_create, find_free_directory_entry, IsLeast
<1>2. /\ op.pc = "idle" /\ mounted /\ reply' = NoReply
      /\ \A j \in Slots : ~find_file_in_directory(j, name)
      /\ UNCHANGED <<mounted, fds, data, own, base>>
  BY DEF fs_create
<1>3. mounted = TRUE /\ dir \in [Slots -> Entry]
  BY <1>2 DEF IndInv, TypeOK
<1>4. /\ dir'[i].used /\ dir'[i].name = name /\ dir'[i].size = 0
      /\ \A j \in Slots : j # i => dir'[j] = dir[j]
  <2>1. dir'[i] = [used |-> TRUE, name |-> name, size |-> 0, first |-> FAT_EOF]
    BY <1>1, <1>3
  <2> QED BY <1>1, <1>3, <2>1
<1>5. \A j \in Slots : ~(dir[j].used /\ dir[j].name = name)
  BY <1>2, EntryFound
<1>6. /\ snap.online = mounted /\ snap'.online = mounted' /\ snap'.reply = reply'
      /\ \A c \in Fds : snap.open[c] = HandleOf(c)
      /\ snap.open = [c \in Fds |-> snap.open[c]]
  BY <1>2, AtOnce
<1>7. snap.files = [n \in Names |-> FileOf(n)] /\ snap'.files = [n \in Names |-> FileOf(n)']
  BY <1>2, ViewParts, ViewAfter DEF StoreInv
<1>8. ~snap.files[name].exists
  <2>1. ~Listed(name)
    BY <1>5 DEF Listed
  <2> QED BY <1>2, <2>1, AtIdle
<1>9. FileOf(name)' = Store!File(<<>>)
  <2> DEFINE c == CHOOSE j \in Slots : find_file_in_directory(j, name)
  <2>1. name \in fs_listfiles'
    BY <1>4 DEF fs_listfiles
  <2>2. {j \in Slots : dir'[j].used /\ dir'[j].name = name} = {i}
    BY <1>4, <1>5
  <2>3. i \in Nat
    BY SizesAssumption DEF Slots
  <2>4. \A j \in Slots : find_file_in_directory(j, name)' <=> j = i
    BY <2>2, <2>3 DEF find_file_in_directory, IsLeast
  <2>5. c' = i
    BY <2>4
  <2>6. FileOf(name)' = [exists |-> TRUE, bytes |-> [k \in 1 .. dir'[c'].size |-> ByteOf(c, k - 1)']]
    BY <2>1 DEF FileOf
  <2> HIDE DEF c
  <2>7. dir'[c'].size = 0
    BY <1>4, <2>5
  <2>8. [k \in 1 .. dir'[c'].size |-> ByteOf(c, k - 1)'] = <<>>
    BY <2>7
  <2> QED BY <2>6, <2>8 DEF Store!File
<1>10. ASSUME NEW n \in Names, n # name PROVE FileOf(n)' = FileOf(n)
  <2>1. n \in fs_listfiles' <=> n \in fs_listfiles
    BY <1>1, <1>4, <1>10 DEF fs_listfiles
  <2>2. CASE n \in fs_listfiles
    <3> DEFINE c == CHOOSE j \in Slots : find_file_in_directory(j, n)
    <3>1. PICK e \in Slots : dir[e].used /\ dir[e].name = n
      BY <2>2 DEF fs_listfiles
    <3>2. \A j \in Slots : find_file_in_directory(j, n) <=> j = e
      BY <3>1, EntryFound
    <3>3. {j \in Slots : dir'[j].used /\ dir'[j].name = n} =
            {j \in Slots : dir[j].used /\ dir[j].name = n}
      BY <1>1, <1>4, <1>10
    <3>4. \A j \in Slots : find_file_in_directory(j, n)' <=> j = e
      BY <3>2, <3>3 DEF find_file_in_directory
    <3>5. c' = e
      BY <3>4
    <3>6. FileOf(n)' = [exists |-> TRUE, bytes |-> [k \in 1 .. dir'[c'].size |-> ByteOf(c, k - 1)']]
      BY <2>1, <2>2 DEF FileOf
    <3> HIDE DEF c
    <3>7. dir'[e] = dir[e]
      BY <1>1, <1>4, <3>1
    <3>8. \A k : ByteOf(e, k)' = ByteOf(e, k)
      BY <1>2 DEF ByteOf, BlockOf
    <3>9. FileOf(n)' = [exists |-> TRUE, bytes |-> [k \in 1 .. dir[e].size |-> ByteOf(e, k - 1)]]
      <4>1. \A k : ByteOf(c, k)' = ByteOf(e, k)'
        BY <3>5 DEF ByteOf, BlockOf
      <4> QED BY <3>5, <3>6, <3>7, <3>8, <4>1
    <3>10. FileOf(n) = [exists |-> TRUE, bytes |-> Shown(e)]
      BY <3>1, FileOfIs
    <3> QED BY <3>9, <3>10 DEF Shown
  <2>3. CASE n \notin fs_listfiles
    BY <2>1, <2>3 DEF FileOf
  <2> QED BY <2>2, <2>3
<1>11. snap'.files = [snap.files EXCEPT ![name] = Store!File(<<>>)]
  BY <1>7, <1>9, <1>10
<1>12. \A c \in Fds : HandleOf(c)' = snap.open[c]
  <2>1. \A c \in Fds : fds[c].used => fds[c].ent \in Slots /\ fds[c].ent # i
    <3>1. \A c \in Fds : fds[c].ent \in Slots
      BY Fields DEF IndInv
    <3> QED BY <1>1, <1>2, <3>1 DEF IndInv, DescriptorsSound
  <2> QED BY <1>2, <1>4, <1>6, <2>1 DEF HandleOf
<1>13. snap'.open = snap.open
  BY <1>6, <1>12, HandlesStay
<1> QED BY <1>2, <1>3, <1>6, <1>8, <1>11, <1>13 DEF Store!Create, NoReply, Return, Store!Returned

(* No block for the first byte: fs_write returns 0. *)
LEMMA WritesNothing ==
  ASSUME IndInv, NamesInv, SideInv, StoreInv, snap' = View',
         NEW d \in Fds, NEW buf \in Buffers, fs_write(d, buf), dir[fds[d].ent].first = FAT_EOF,
         UNCHANGED <<dir, own, base>>
  PROVE  Store!Write(d, buf) /\ mounted'
<1>1. PICK e \in Slots : e = fds[d].ent
  BY Fields DEF IndInv
<1>2. op.pc = "idle" /\ mounted /\ fds[d].used /\ reply' = NoReply /\ UNCHANGED <<mounted, fds, data>>
  BY DEF fs_write
<1>3. dir[e].used /\ mounted = TRUE
  BY <1>1, <1>2 DEF IndInv, DescriptorsSound, TypeOK
<1>4. fds[d].off = 0 /\ dir[e].size = 0
  <2>1. Deleted = {}
    BY <1>2, AtRest
  <2>2. fds[d].off = 0
    BY <1>2 DEF SideInv, OffsetsSound
  <2> QED BY <1>1, <1>2, <1>3, <2>1, <2>2, NothingThere
<1>5. /\ snap.online = mounted /\ snap'.online = mounted' /\ snap'.reply = reply'
      /\ \A c \in Fds : snap.open[c] = HandleOf(c)
      /\ snap.open = [c \in Fds |-> snap.open[c]] /\ snap'.files = snap.files
  BY <1>2, AtOnce
<1>6. \A c \in Fds : HandleOf(c)' = snap.open[c]
  BY <1>2, <1>5 DEF HandleOf
<1>7. snap'.open = snap.open
  BY <1>5, <1>6, HandlesStay
<1>8. SnapType /\ Same(e) /\ dir[e].name \in Names
  BY <1>2, <1>3, AtIdle DEF SideInv, NamesKnown
<1>9. PICK nm \in Names : nm = dir[e].name
  BY <1>8
<1>10. PICK o \in Seq(Byte) : o = snap.files[nm].bytes /\ Len(o) = 0
  BY <1>4, <1>8, <1>9 DEF SnapType, Same, Old
<1>11. snap.open[d] = Store!At(nm, 0)
  BY <1>1, <1>2, <1>4, <1>5, <1>9 DEF HandleOf, Store!At
<1>12. snap.open[d].used /\ snap.open[d].name = nm /\ snap.open[d].off = 0
  BY <1>11 DEF Store!At
<1>13. snap'.open = [snap.open EXCEPT ![d].off = @ + 0]
  <2>1. [snap.open[d] EXCEPT !.off = @ + 0] = snap.open[d]
    BY <1>11, <1>12, AtMoved
  <2> QED BY <1>5, <1>7, <2>1
<1>14. Store!Overwrite(o, 0, SubSeq(buf, 1, 0)) = o
  <2>1. SubSeq(buf, 1, 0) = <<>>
    BY BufferIs
  <2>2. 0 \in Nat /\ 0 <= Len(o)
    BY <1>10
  <2> QED BY <2>1, <2>2, NothingWritten
<1>15. snap'.files = [snap.files EXCEPT ![nm].bytes = Store!Overwrite(@, 0, SubSeq(buf, 1, 0))]
  <2>1. snap.files \in [Names -> [exists : BOOLEAN, bytes : Seq(Byte)]]
    BY <1>8 DEF SnapType
  <2>2. PICK F \in [Names -> [exists : BOOLEAN, bytes : Seq(Byte)]] : F = snap.files
    BY <2>1
  <2>3. F[nm] = Store!File(o)
    <3>1. F[nm].exists
      BY <1>8, <1>9, <2>2 DEF Same, Known
    <3>2. F[nm] = [exists |-> F[nm].exists, bytes |-> F[nm].bytes]
      OBVIOUS
    <3> QED BY <1>10, <2>2, <3>1, <3>2 DEF Store!File
  <2>4. [F[nm] EXCEPT !.bytes = o] = F[nm]
    BY <2>3, BytesSet
  <2>5. [F EXCEPT ![nm].bytes = o] = F
    BY <2>4
  <2> QED BY <1>5, <1>10, <1>14, <2>2, <2>5
<1>16. 0 \in 0 .. Len(buf)
  BY BufferIs
<1>17. snap'.reply = Store!Returned(0)
  BY <1>2, <1>5 DEF NoReply, Return, Store!Returned
<1>18. Store!Write(d, buf)
  BY <1>2, <1>3, <1>5, <1>12, <1>13, <1>15, <1>16, <1>17 DEF Store!Write
<1> QED BY <1>2, <1>18
-----------------------------------------------------------------------------
(* The calls that save before they return *)

LEMMA Saving ==
  ASSUME IndInv, SideInv, Midway, snap' = View', write_metadata_to_disk
  PROVE  /\ op.pc = "save" /\ mounted /\ op.kind \in {"write", "extend", "truncate", "delete", "umount"}
         /\ op.ent \in Slots /\ op.fd \in Fds /\ snap.online = TRUE /\ snap'.reply = reply
         /\ (op.kind # "umount" => mounted' /\ snap'.online = TRUE)
         /\ snap'.files = [n \in Names |-> FileOf(n)]
         /\ UNCHANGED <<dir, fds, reply>>
<1>1. /\ op.pc = "save" /\ (op.kind # "umount" => mounted' = TRUE)
      /\ UNCHANGED <<dir, fds, data, reply, own, base>>
  BY DEF write_metadata_to_disk
<1>2. mounted /\ op.ent \in Slots /\ op.fd \in Fds /\ op.kind \in Kinds /\ op.kind \notin {"none", "read"}
  BY <1>1, Fields DEF IndInv, DescriptorsSound, CallSound, RestSound
<1>3. op.kind \in {"write", "extend", "truncate", "delete", "umount"}
  BY <1>2 DEF Kinds
<1> QED BY <1>1, <1>2, <1>3, ViewAfter, FilesStay DEF Midway, SnapType

(* The file the call changed holds its new bytes, the others the old. *)
LEMMA SavesChange ==
  ASSUME IndInv, NamesInv, SideInv, Midway, snap' = View', write_metadata_to_disk, Changing,
         NEW g \in Seq(Byte), g = Goal, NEW nm \in Names, nm = dir[op.ent].name,
         NEW d \in Fds, d = op.fd
  PROVE  /\ snap'.files = [snap.files EXCEPT ![nm].bytes = g]
         /\ snap'.open = [snap.open EXCEPT ![d].off = OffNow]
         /\ snap.open[d].used /\ snap.open[d].name = nm /\ snap.open[d].off = Was
<1>1. /\ op.pc = "save" /\ mounted /\ op.ent \in Slots /\ op.fd \in Fds
      /\ snap'.files = [n \in Names |-> FileOf(n)] /\ UNCHANGED <<dir, fds>>
  BY Saving
<1>2. op.kind \in {"write", "extend", "truncate"}
  BY DEF Changing
<1>3. fds[d].used /\ fds[d].ent = op.ent /\ dir[op.ent].used /\ mounted'
  BY <1>1, <1>2, Saving DEF IndInv, DescriptorsSound
<1>4. PICK S \in [Names -> [exists : BOOLEAN, bytes : Seq(Byte)]] : S = snap.files
  BY DEF Midway, SnapType
<1>5. Known(op.ent) /\ dir[op.ent].size = Len(g) /\ Match(op.ent, g)
  BY <1>1 DEF Midway, FilesMatch, SizeNow
<1> DEFINE F == [S EXCEPT ![nm] = Store!File(g)]
<1>6. F \in [Names -> [exists : BOOLEAN, bytes : Seq(Byte)]]
  BY DEF Store!File
<1>7. F[nm].exists /\ F[nm].bytes = g /\ \A n \in Names : n # nm => F[n] = S[n]
  <2>1. F[nm] = [exists |-> TRUE, bytes |-> g]
    BY DEF Store!File
  <2> QED BY <2>1
<1>8. F = [snap.files EXCEPT ![nm].bytes = g]
  <2>1. S[nm] = Store!File(S[nm].bytes)
    <3>1. S[nm].exists
      BY <1>4, <1>5 DEF Known
    <3>2. S[nm] = [exists |-> S[nm].exists, bytes |-> S[nm].bytes]
      OBVIOUS
    <3> QED BY <3>1, <3>2 DEF Store!File
  <2>2. [S[nm] EXCEPT !.bytes = g] = Store!File(g)
    <3>1. PICK o : o = S[nm].bytes
      OBVIOUS
    <3> QED BY <2>1, <3>1, BytesSet
  <2> QED BY <1>4, <2>2
<1> HIDE DEF F
<1>9. ASSUME NEW e \in Slots, dir[e].used
      PROVE  /\ F[dir[e].name].exists /\ dir[e].size = Len(F[dir[e].name].bytes)
             /\ Match(e, F[dir[e].name].bytes)
  <2>1. CASE e = op.ent
    BY <1>5, <1>7, <2>1
  <2>2. CASE e # op.ent
    <3>1. dir[e].name # nm /\ dir[e].name \in Names
      BY <1>1, <1>3, <1>9, <2>2 DEF NamesInv, OneEach, SideInv, NamesKnown
    <3>2. Same(e)
      BY <1>9, <2>2 DEF Midway, FilesMatch
    <3>3. F[dir[e].name] = snap.files[dir[e].name]
      BY <1>4, <1>7, <3>1
    <3> QED BY <3>2, <3>3 DEF Same, Known, Old
  <2> QED BY <2>1, <2>2
<1>10. ASSUME NEW n \in Names, ~Listed(n) PROVE ~F[n].exists /\ F[n].bytes = <<>>
  <2>1. n # nm
    BY <1>1, <1>3, <1>10 DEF Listed
  <2>2. ~Removing
    BY <1>2 DEF Removing
  <2>3. ~snap.files[n].exists /\ snap.files[n].bytes = <<>>
    BY <1>10, <2>2 DEF Midway, NamesMatch, SnapType
  <2> QED BY <1>4, <1>7, <2>1, <2>3
<1>11. [n \in Names |-> FileOf(n)] = F
  <2>1. op.pc # "free"
    BY <1>1
  <2> QED BY <1>1, <1>6, <1>9, <1>10, <2>1, FilesShown
<1>12. snap.open[d] = Store!At(nm, Was) /\ fds[d].off = OffNow
  BY DEF Midway, HandlesMatch
<1>13. HandleOf(d)' = Store!At(nm, OffNow)
  <2>1. fds'[d].used /\ dir'[fds'[d].ent].name = nm /\ fds'[d].off = OffNow
    BY <1>1, <1>3, <1>12
  <2> QED BY <1>3, <2>1 DEF HandleOf, Store!At
<1>14. \A c \in Fds : c # d => HandleOf(c)' = snap.open[c]
  <2>1. \A c \in Fds : c # d => HandleOf(c) = snap.open[c]
    BY DEF Midway, HandlesMatch
  <2>2. \A c \in Fds : HandleOf(c)' = HandleOf(c)
    BY <1>1, <1>3 DEF HandleOf
  <2> QED BY <2>1, <2>2
<1>15. snap'.open = [snap.open EXCEPT ![d].off = OffNow]
  <2>1. snap.open = [c \in Fds |-> snap.open[c]]
    BY DEF Midway, SnapType
  <2>2. snap'.open = [snap.open EXCEPT ![d] = HandleOf(d)']
    BY <1>14, <2>1, HandleSet
  <2>3. [snap.open[d] EXCEPT !.off = OffNow] = HandleOf(d)'
    <3>1. PICK x : x = OffNow
      OBVIOUS
    <3>2. PICK w : w = Was
      OBVIOUS
    <3> QED BY <1>12, <1>13, <3>1, <3>2, AtMoved
  <2> QED BY <2>2, <2>3
<1>16. snap.open[d].used /\ snap.open[d].name = nm /\ snap.open[d].off = Was
  BY <1>12 DEF Store!At
<1> QED BY <1>1, <1>8, <1>11, <1>15, <1>16

(* fs_write, fs_write with a gap it could not fill, and fs_truncate. *)
LEMMA SavesWrite ==
  ASSUME IndInv, NamesInv, SideInv, Midway, snap' = View', write_metadata_to_disk,
         op.kind = "write"
  PROVE  \E d \in Fds : \E buf \in Buffers : Store!Write(d, buf)
<1>1. /\ op.pc = "save" /\ mounted /\ op.ent \in Slots /\ op.fd \in Fds
      /\ snap.online = TRUE /\ snap'.online = TRUE /\ snap'.reply = reply
  BY Saving
<1>2. Changing
  BY DEF Changing
<1>3. PICK d \in Fds : d = op.fd
  BY <1>1
<1>4. dir[op.ent].used
  BY <1>1 DEF IndInv, DescriptorsSound
<1>5. PICK nm \in Names : nm = dir[op.ent].name
  BY <1>1, <1>4 DEF SideInv, NamesKnown
<1>6. PICK o \in Seq(Byte) : o = Old(op.ent) /\ o = snap.files[nm].bytes
  BY <1>5 DEF Midway, SnapType, Old
<1>7. PICK w \in Nat : w = Was
  BY <1>2 DEF Midway, HandlesMatch
<1>8. PICK buf \in Buffers : buf = op.buf
  BY DEF Midway, WriteMatch
<1>9. PICK c \in Nat : c = op.cnt
  BY Fields DEF IndInv
<1>10. c <= Len(buf) /\ reply \in {Return(c, <<>>), Return(-1, <<>>)} /\ buf \in Seq(Byte)
  BY <1>1, <1>8, <1>9, BufferIs DEF Midway, WriteMatch
<1>11. Goal = Copied(o, w, buf, c) /\ OffNow = w + c
  BY <1>1, <1>6, <1>7, <1>8, <1>9 DEF Goal, OffNow
<1>12. PICK g \in Seq(Byte) : g = Copied(o, w, buf, c)
  <2>1. IsCopy(Copied(o, w, buf, c), o, w, buf, c)
    BY <1>10, CopiedIs
  <2> QED BY <2>1 DEF IsCopy
<1>13. /\ snap'.files = [snap.files EXCEPT ![nm].bytes = g]
       /\ snap'.open = [snap.open EXCEPT ![d].off = w + c]
       /\ snap.open[d].used /\ snap.open[d].name = nm /\ snap.open[d].off = w
  <2>1. g = Goal
    BY <1>11, <1>12
  <2>2. /\ snap'.files = [snap.files EXCEPT ![nm].bytes = g]
        /\ snap'.open = [snap.open EXCEPT ![d].off = OffNow]
        /\ snap.open[d].used /\ snap.open[d].name = nm /\ snap.open[d].off = Was
    BY <1>2, <1>3, <1>5, <2>1, SavesChange
  <2> QED BY <1>7, <1>11, <2>2
<1>14. g = Store!Overwrite(snap.files[nm].bytes, w, SubSeq(buf, 1, c))
  BY <1>6, <1>12 DEF Copied
<1>15. snap'.files = [snap.files EXCEPT ![snap.open[d].name].bytes =
                        Store!Overwrite(@, snap.open[d].off, SubSeq(buf, 1, c))]
  BY <1>13, <1>14
<1>16. snap'.open = [snap.open EXCEPT ![d].off = @ + c]
  BY <1>13
<1>17. c \in 0 .. Len(buf)
  BY <1>10
<1>18. snap'.reply = Store!Returned(c) \/ snap'.reply = Store!Returned(-1)
  BY <1>1, <1>10 DEF Return, Store!Returned
<1>19. Store!Write(d, buf)
  BY <1>1, <1>13, <1>15, <1>16, <1>17, <1>18 DEF Store!Write
<1> QED BY <1>19

LEMMA SavesGap ==
  ASSUME IndInv, NamesInv, SideInv, Midway, snap' = View', write_metadata_to_disk,
         op.kind = "extend"
  PROVE  \E d \in Fds : Store!GapShort(d)
<1>1. /\ op.pc = "save" /\ mounted /\ op.ent \in Slots /\ op.fd \in Fds
      /\ snap.online = TRUE /\ snap'.online = TRUE /\ snap'.reply = reply
  BY Saving
<1>2. Changing
  BY DEF Changing
<1>3. PICK d \in Fds : d = op.fd
  BY <1>1
<1>4. dir[op.ent].used
  BY <1>1 DEF IndInv, DescriptorsSound
<1>5. PICK nm \in Names : nm = dir[op.ent].name
  BY <1>1, <1>4 DEF SideInv, NamesKnown
<1>6. PICK o \in Seq(Byte) : o = Old(op.ent) /\ o = snap.files[nm].bytes
  BY <1>5 DEF Midway, SnapType, Old
<1>7. PICK w \in Nat : w = Was
  BY <1>2 DEF Midway, HandlesMatch
<1>8. PICK c \in Nat : c = op.cnt
  BY Fields DEF IndInv
<1>9. Len(o) + c < w /\ reply = Return(c, <<>>)
  BY <1>1, <1>6, <1>7, <1>8 DEF Midway, WriteMatch
<1>10. Goal = Filled(o, c) /\ OffNow = Len(o) + c
  BY <1>1, <1>6, <1>7, <1>8 DEF Goal, OffNow
<1>11. PICK g \in Seq(Byte) : g = Filled(o, c)
  BY FilledIs
<1>12. /\ snap'.files = [snap.files EXCEPT ![nm].bytes = g]
       /\ snap'.open = [snap.open EXCEPT ![d].off = Len(o) + c]
       /\ snap.open[d].used /\ snap.open[d].name = nm /\ snap.open[d].off = w
  <2>1. g = Goal
    BY <1>10, <1>11
  <2>2. /\ snap'.files = [snap.files EXCEPT ![nm].bytes = g]
        /\ snap'.open = [snap.open EXCEPT ![d].off = OffNow]
        /\ snap.open[d].used /\ snap.open[d].name = nm /\ snap.open[d].off = Was
    BY <1>2, <1>3, <1>5, <2>1, SavesChange
  <2> QED BY <1>7, <1>10, <2>2
<1>13. g = snap.files[nm].bytes \o Store!Fill(c)
  BY <1>6, <1>11 DEF Filled
<1>14. snap'.files = [snap.files EXCEPT ![snap.open[d].name].bytes = @ \o Store!Fill(c)]
  BY <1>12, <1>13
<1>15. Store!Content(d) = o
  BY <1>6, <1>12 DEF Store!Content
<1>16. c \in 0 .. w - Len(o) - 1
  <2>1. PICK l \in Nat : l = Len(o)
    OBVIOUS
  <2> QED BY <1>9, <2>1
<1>17. snap'.reply = Store!Returned(c)
  BY <1>1, <1>9 DEF Return, Store!Returned
<1>18. Store!GapShort(d)
  BY <1>1, <1>12, <1>14, <1>15, <1>16, <1>17 DEF Store!GapShort
<1> QED BY <1>18

LEMMA SavesCut ==
  ASSUME IndInv, NamesInv, SideInv, Midway, snap' = View', write_metadata_to_disk,
         op.kind = "truncate"
  PROVE  \E d \in Fds : \E l \in 0 .. MaxLength : Store!Truncate(d, l)
<1>1. /\ op.pc = "save" /\ mounted /\ op.ent \in Slots /\ op.fd \in Fds
      /\ snap.online = TRUE /\ snap'.online = TRUE /\ snap'.reply = reply
  BY Saving
<1>2. Changing
  BY DEF Changing
<1>3. PICK d \in Fds : d = op.fd
  BY <1>1
<1>4. dir[op.ent].used
  BY <1>1 DEF IndInv, DescriptorsSound
<1>5. PICK nm \in Names : nm = dir[op.ent].name
  BY <1>1, <1>4 DEF SideInv, NamesKnown
<1>6. PICK o \in Seq(Byte) : o = Old(op.ent) /\ o = snap.files[nm].bytes
  BY <1>5 DEF Midway, SnapType, Old
<1>7. PICK w \in Nat : w = Was
  BY <1>2 DEF Midway, HandlesMatch
<1>8. PICK r \in Nat : r = op.rem
  BY Fields DEF IndInv
<1>9. PICK l \in 0 .. MaxLength : r = l % UintMod
  BY <1>8 DEF Midway, CutMatch
<1>10. r <= Len(o) /\ reply = NoReply
  BY <1>6, <1>8 DEF Midway, CutMatch
<1>11. Goal = SubSeq(o, 1, r) /\ OffNow = Smaller(w, r)
  BY <1>1, <1>6, <1>7, <1>8 DEF Goal, OffNow
<1>12. PICK g \in Seq(Byte) : g = SubSeq(o, 1, r)
  <2> DEFINE h == SubSeq(o, 1, r)
  <2>1. h \in Seq(Byte) /\ Len(h) = r + 1 - 1
    BY <1>10, PartIs
  <2>2. h = SubSeq(o, 1, r)
    OBVIOUS
  <2> HIDE DEF h
  <2> QED BY <2>1, <2>2
<1>13. /\ snap'.files = [snap.files EXCEPT ![nm].bytes = g]
       /\ snap'.open = [snap.open EXCEPT ![d].off = Smaller(w, r)]
       /\ snap.open[d].used /\ snap.open[d].name = nm /\ snap.open[d].off = w
  <2>1. g = Goal
    BY <1>11, <1>12
  <2>2. /\ snap'.files = [snap.files EXCEPT ![nm].bytes = g]
        /\ snap'.open = [snap.open EXCEPT ![d].off = OffNow]
        /\ snap.open[d].used /\ snap.open[d].name = nm /\ snap.open[d].off = Was
    BY <1>2, <1>3, <1>5, <2>1, SavesChange
  <2> QED BY <1>7, <1>11, <2>2
<1>14. snap'.files = [snap.files EXCEPT ![snap.open[d].name].bytes = SubSeq(@, 1, r)]
  BY <1>6, <1>12, <1>13
<1>15. snap'.open = [snap.open EXCEPT ![d].off = Store!Least(@, r)]
  BY <1>13 DEF Smaller, Store!Least
<1>16. Store!Content(d) = o
  BY <1>6, <1>13 DEF Store!Content
<1>17. snap'.reply = Store!Returned(0)
  BY <1>1, <1>10 DEF NoReply, Return, Store!Returned
<1>18. Store!Truncate(d, l)
  BY <1>1, <1>9, <1>10, <1>13, <1>14, <1>15, <1>16, <1>17 DEF Store!Truncate
<1> QED BY <1>18

LEMMA SavesRemoval ==
  ASSUME IndInv, NamesInv, SideInv, Midway, snap' = View', write_metadata_to_disk,
         op.kind = "delete"
  PROVE  \E name \in Names : Store!Delete(name)
<1>1. /\ op.pc = "save" /\ mounted /\ snap.online = TRUE /\ snap'.online = TRUE /\ mounted'
      /\ snap'.reply = reply /\ snap'.files = [n \in Names |-> FileOf(n)] /\ UNCHANGED <<dir, fds>>
  BY Saving
<1>2. Removing /\ ~Changing
  BY <1>1 DEF Removing, Changing
<1>3. PICK m \in Names : /\ snap.files[m].exists /\ ~Listed(m)
                         /\ \A n \in Names \ {m} : snap.files[n].exists <=> Listed(n)
                         /\ \A d \in Fds : snap.open[d].used => snap.open[d].name # m
  BY <1>2 DEF Midway, NamesMatch
<1>4. PICK S \in [Names -> [exists : BOOLEAN, bytes : Seq(Byte)]] : S = snap.files
  BY DEF Midway, SnapType
<1> DEFINE F == [S EXCEPT ![m] = Store!Absent]
<1>5. F \in [Names -> [exists : BOOLEAN, bytes : Seq(Byte)]]
  <2>1. Store!Absent \in [exists : BOOLEAN, bytes : Seq(Byte)]
    BY DEF Store!Absent
  <2> QED BY <2>1
<1>6. ~F[m].exists /\ F[m].bytes = <<>> /\ \A n \in Names : n # m => F[n] = S[n]
  <2>1. F[m] = [exists |-> FALSE, bytes |-> <<>>]
    BY DEF Store!Absent
  <2> QED BY <2>1
<1>7. F = [snap.files EXCEPT ![m] = Store!Absent]
  BY <1>4
<1> HIDE DEF F
<1>8. ASSUME NEW e \in Slots, dir[e].used
      PROVE  /\ F[dir[e].name].exists /\ dir[e].size = Len(F[dir[e].name].bytes)
             /\ Match(e, F[dir[e].name].bytes)
  <2>1. dir[e].name # m /\ dir[e].name \in Names
    BY <1>3, <1>8 DEF Listed, SideInv, NamesKnown
  <2>2. Same(e)
    BY <1>2, <1>8 DEF Midway, FilesMatch
  <2>3. F[dir[e].name] = snap.files[dir[e].name]
    BY <1>4, <1>6, <2>1
  <2> QED BY <2>2, <2>3 DEF Same, Known, Old
<1>9. ASSUME NEW n \in Names, ~Listed(n) PROVE ~F[n].exists /\ F[n].bytes = <<>>
  <2>1. CASE n = m
    BY <1>6, <2>1
  <2>2. CASE n # m
    BY <1>3, <1>4, <1>6, <1>9, <2>2 DEF Midway, SnapType
  <2> QED BY <2>1, <2>2
<1>10. [n \in Names |-> FileOf(n)] = F
  <2>1. op.pc # "free"
    BY <1>1
  <2> QED BY <1>1, <1>5, <1>8, <1>9, <2>1, FilesShown
<1>11. snap'.open = snap.open
  <2>1. \A c \in Fds : HandleOf(c) = snap.open[c]
    BY <1>2 DEF Midway, HandlesMatch
  <2>2. \A c \in Fds : HandleOf(c)' = HandleOf(c)
    BY <1>1 DEF HandleOf
  <2>3. snap.open = [c \in Fds |-> snap.open[c]]
    BY DEF Midway, SnapType
  <2> QED BY <2>1, <2>2, <2>3, HandlesStay
<1>12. snap'.reply = Store!Returned(0)
  BY <1>1 DEF Midway, CutMatch, NoReply, Return, Store!Returned
<1>13. Store!Delete(m)
  BY <1>1, <1>3, <1>7, <1>10, <1>11, <1>12 DEF Store!Delete
<1> QED BY <1>13

LEMMA SavesUnmount ==
  ASSUME IndInv, NamesInv, SideInv, Midway, snap' = View', write_metadata_to_disk,
         op.kind = "umount"
  PROVE  Store!Unmount /\ reply' = NoReply
<1>1. /\ op.pc = "save" /\ mounted /\ snap.online = TRUE /\ snap'.reply = reply
      /\ snap'.files = [n \in Names |-> FileOf(n)] /\ UNCHANGED reply
  BY Saving
<1>2. ~mounted' /\ mounted' = FALSE
  BY DEF write_metadata_to_disk
<1>3. ~Removing /\ ~Changing
  BY DEF Removing, Changing
<1>4. snap'.files = snap.files
  BY <1>1, <1>3, FilesUntouched
<1>5. snap'.open = [d \in Fds |-> Store!Closed]
  <2>1. \A c \in Fds : HandleOf(c)' = Store!Closed
    BY <1>2 DEF HandleOf, Store!Closed
  <2> QED BY <2>1, ViewAfter
<1>6. reply = NoReply
  BY DEF Midway, CutMatch
<1>7. snap'.online = FALSE
  BY <1>2, ViewAfter
<1> QED BY <1>1, <1>4, <1>5, <1>6, <1>7 DEF Store!Unmount, NoReply, Return, Store!Returned
-----------------------------------------------------------------------------
(* Every step of the file system is a step of the store, or changes nothing a
   caller sees. *)

(* Which steps leave a call in progress, and which return to the caller. *)
LEMMA StepsGoOn ==
  ASSUME IndInv,
         \/ walk \/ walk_done \/ read_chunk \/ write_grow \/ write_tail \/ write_link
         \/ write_chunk \/ extend_done \/ extend_abort \/ extend_error \/ write_return
         \/ write_error \/ free_block_chain \/ delete_return \/ truncate_walk
         \/ truncate_cut \/ truncate_return
  PROVE  op.pc # "idle" /\ op'.pc # "idle"
<1>1. op \in Op
  BY DEF IndInv, TypeOK
<1>2. CASE walk \/ walk_done \/ read_chunk \/ write_tail \/ write_link
  BY <1>1, <1>2 DEF walk, walk_done, read_chunk, write_tail, write_link, Op
<1>3. CASE write_grow \/ extend_done
  BY <1>1, <1>3 DEF write_grow, extend_done, Op
<1>4. CASE write_chunk
  BY <1>1, <1>4 DEF write_chunk, Op
<1>5. CASE extend_abort \/ extend_error \/ write_return \/ write_error
  BY <1>1, <1>5 DEF extend_abort, extend_error, write_return, write_error, write_finish, Op
<1>6. CASE free_block_chain \/ delete_return
  BY <1>1, <1>6 DEF free_block_chain, delete_return, Op
<1>7. CASE truncate_walk \/ truncate_cut \/ truncate_return
  BY <1>1, <1>7 DEF truncate_walk, truncate_cut, truncate_return, Op
<1> QED BY <1>2, <1>3, <1>4, <1>5, <1>6, <1>7

LEMMA CallsGoOn ==
  ASSUME \/ umount_fs
         \/ \E name \in Names : fs_delete(name)
         \/ \E d \in Fds : \E l \in 0 .. MaxLength : fs_truncate(d, l)
  PROVE  op'.pc # "idle"
<1>1. CASE umount_fs
  BY <1>1 DEF umount_fs, Idle
<1>2. CASE \E name \in Names : fs_delete(name)
  BY <1>2 DEF fs_delete, Idle
<1>3. CASE \E d \in Fds : \E l \in 0 .. MaxLength : fs_truncate(d, l)
  <2>1. PICK d \in Fds, l \in 0 .. MaxLength : fs_truncate(d, l)
    BY <1>3
  <2>2. op' = [Idle EXCEPT !.kind = "truncate", !.pc = "cut", !.fd = d, !.ent = fds[d].ent,
                           !.blk = dir[fds[d].ent].first, !.rem = l % UintMod]
    BY <2>1 DEF fs_truncate
  <2> QED BY <2>2 DEF Idle
<1> QED BY <1>1, <1>2, <1>3

(* What a step inside a call owes, and what a step that returns owes. *)
LEMMA GoesOn ==
  ASSUME UNCHANGED snap, Midway', op'.pc # "idle"
  PROVE  StoreInv' /\ (Store!Next \/ UNCHANGED Store!vars)
<1>1. StoreInv'
  BY DEF StoreInv
<1>2. UNCHANGED Store!vars
  BY DEF Store!vars
<1> QED BY <1>1, <1>2

LEMMA ComesBack ==
  ASSUME snap' = View', op'.pc = "idle", mounted' \/ reply' = NoReply
  PROVE  StoreInv'
BY DEF StoreInv

(* The calls that return at once, and those that begin. *)
LEMMA CallFollows ==
  ASSUME IndInv, NamesInv, SideInv, StoreInv, Call,
         snap' = IF op'.pc = "idle" THEN View' ELSE snap
  PROVE  StoreInv' /\ (Store!Next \/ UNCHANGED Store!vars)
<1>1. CASE make_fs
  <2>1. op'.pc = "idle"
    BY <1>1 DEF make_fs
  <2>2. Store!Format /\ reply' = NoReply
    BY <1>1, <2>1, Formats
  <2> QED BY <2>1, <2>2, ComesBack DEF Store!Next
<1>2. CASE make_fs_open
  <2>1. op'.pc = "idle"
    BY <1>2 DEF make_fs_open
  <2>2. Store!Erase /\ mounted'
    BY <1>2, <2>1, Erases
  <2> QED BY <2>1, <2>2, ComesBack DEF Store!Next
<1>3. CASE umount_fs \/ \E name \in Names : fs_delete(name)
  <2>1. op'.pc # "idle" /\ UNCHANGED snap
    BY <1>3, CallsGoOn
  <2> QED BY <1>3, <2>1, DeleteBegins, GoesOn
<1>4. ASSUME NEW name \in Names, fs_create(name)
      PROVE  StoreInv' /\ (Store!Next \/ UNCHANGED Store!vars)
  <2>1. op'.pc = "idle"
    BY <1>4 DEF fs_create
  <2>2. Store!Create(name) /\ mounted'
    BY <1>4, <2>1, Creates
  <2> QED BY <2>1, <2>2, ComesBack DEF Store!Next
<1>5. ASSUME NEW name \in Names, fs_open(name)
      PROVE  StoreInv' /\ (Store!Next \/ UNCHANGED Store!vars)
  <2>1. op'.pc = "idle"
    BY <1>5 DEF fs_open
  <2>2. Store!Open(name) /\ mounted'
    BY <1>5, <2>1, Opens
  <2> QED BY <2>1, <2>2, ComesBack DEF Store!Next
<1>6. ASSUME NEW d \in Fds, fs_close(d)
      PROVE  StoreInv' /\ (Store!Next \/ UNCHANGED Store!vars)
  <2>1. op'.pc = "idle" /\ reply' = NoReply
    BY <1>6 DEF fs_close
  <2>2. Store!Close(d) \/ UNCHANGED Store!vars
    BY <1>6, <2>1, Closes
  <2> QED BY <2>1, <2>2, ComesBack DEF Store!Next
<1>7. ASSUME NEW d \in Fds, NEW n \in 1 .. MaxNbyte, fs_read(d, n)
      PROVE  StoreInv' /\ (Store!Next \/ UNCHANGED Store!vars)
  <2>1. CASE op' = op
    <3>1. op'.pc = "idle"
      BY <1>7, <2>1 DEF fs_read
    <3>2. Store!Read(d, n) /\ mounted'
      BY <1>7, <2>1, <3>1, ReadsNothing
    <3> QED BY <3>1, <3>2, ComesBack DEF Store!Next
  <2>2. CASE op' # op
    <3>1. op'.pc # "idle"
      <4>1. op' = [Idle EXCEPT !.kind = "read", !.pc = "walk", !.fd = d, !.ent = fds[d].ent,
                               !.blk = dir[fds[d].ent].first, !.off = fds[d].off,
                               !.rem = Smaller(n, dir[fds[d].ent].size - fds[d].off)]
        BY <1>7, <2>2 DEF fs_read
      <4> QED BY <4>1 DEF Idle
    <3> QED BY <1>7, <2>2, <3>1, ReadBegins, GoesOn
  <2> QED BY <2>1, <2>2
<1>8. ASSUME NEW d \in Fds, NEW buf \in Buffers, fs_write(d, buf)
      PROVE  StoreInv' /\ (Store!Next \/ UNCHANGED Store!vars)
  <2>1. ASSUME NEW e, NEW f, NEW s PROVE write_entry(d, e, f, s, buf).pc # "idle"
    BY DEF write_entry, Idle
  <2>2. CASE dir[fds[d].ent].first # FAT_EOF
    <3>1. op'.pc # "idle"
      BY <1>8, <2>1, <2>2 DEF fs_write
    <3> QED BY <1>8, <2>2, <3>1, WriteBegins, GoesOn
  <2>3. ASSUME dir[fds[d].ent].first = FAT_EOF, NEW b \in Blocks, allocate_free_block(b),
               dir' = [dir EXCEPT ![fds[d].ent].first = b, ![fds[d].ent].size = 0],
               op' = write_entry(d, fds[d].ent, b, 0, buf),
               own' = [own EXCEPT ![b] = fds[d].ent], base' = [base EXCEPT ![b] = 0]
        PROVE  StoreInv' /\ (Store!Next \/ UNCHANGED Store!vars)
    <3>1. op'.pc # "idle" /\ UNCHANGED snap
      BY <2>1, <2>3
    <3>2. Midway'
      BY <1>8, <2>3, <3>1, WriteAllocates
    <3> QED BY <3>1, <3>2, GoesOn
  <2>4. CASE dir[fds[d].ent].first = FAT_EOF /\ UNCHANGED <<fat, dir, op, own, base>>
    <3>1. op'.pc = "idle"
      BY <1>8, <2>4 DEF fs_write
    <3>2. Store!Write(d, buf) /\ mounted'
      BY <1>8, <2>4, <3>1, WritesNothing
    <3> QED BY <3>1, <3>2, ComesBack DEF Store!Next, Buffers
  <2> QED BY <1>8, <2>2, <2>3, <2>4 DEF fs_write
<1>9. ASSUME NEW d \in Fds, NEW l \in 0 .. MaxLength, fs_lseek(d, l)
      PROVE  StoreInv' /\ (Store!Next \/ UNCHANGED Store!vars)
  <2>1. op'.pc = "idle"
    BY <1>9 DEF fs_lseek
  <2>2. Store!Seek(d, l) /\ mounted'
    BY <1>9, <2>1, Seeks
  <2> QED BY <2>1, <2>2, ComesBack DEF Store!Next
<1>10. ASSUME NEW d \in Fds, NEW l \in 0 .. MaxLength, fs_truncate(d, l)
      PROVE  StoreInv' /\ (Store!Next \/ UNCHANGED Store!vars)
  <2>1. op'.pc # "idle" /\ UNCHANGED snap
    BY <1>10, CallsGoOn
  <2> QED BY <1>10, <2>1, TruncateBegins, GoesOn
<1> QED
  BY <1>1, <1>2, <1>3, <1>4, <1>5, <1>6, <1>7, <1>8, <1>9, <1>10 DEF Call

(* The steps of a call in progress. *)
LEMMA StepFollows ==
  ASSUME IndInv, NamesInv, SideInv, StoreInv, Step,
         snap' = IF op'.pc = "idle" THEN View' ELSE snap
  PROVE  StoreInv' /\ (Store!Next \/ UNCHANGED Store!vars)
<1>1. CASE \/ walk \/ walk_done \/ write_grow \/ write_tail \/ truncate_walk \/ truncate_cut
           \/ free_block_chain
  <2>1. UNCHANGED snap /\ Midway /\ op'.pc # "idle"
    BY <1>1, StepsGoOn DEF StoreInv
  <2> QED BY <1>1, <2>1, QuietSteps, GoesOn
<1>2. CASE write_link \/ write_chunk \/ read_chunk
  <2>1. UNCHANGED snap /\ Midway /\ op'.pc # "idle"
    BY <1>2, StepsGoOn DEF StoreInv
  <2> QED BY <1>2, <2>1, LinkKeeps, ChunkKeeps, ReadKeeps, GoesOn
<1>3. CASE extend_done \/ truncate_return \/ delete_return
  <2>1. UNCHANGED snap /\ Midway /\ op'.pc # "idle"
    BY <1>3, StepsGoOn DEF StoreInv
  <2> QED BY <1>3, <2>1, FillEnds, TruncateEnds, DeleteEnds, GoesOn
<1>4. CASE extend_abort \/ extend_error \/ write_return \/ write_error
  <2>1. UNCHANGED snap /\ Midway /\ op'.pc # "idle"
    BY <1>4, StepsGoOn DEF StoreInv
  <2> QED BY <1>4, <2>1, WriteEnds, GoesOn
<1>5. CASE read_return \/ read_error
  <2>1. op'.pc = "idle" /\ op.pc # "idle"
    BY <1>5 DEF read_return, read_error, Idle
  <2>2. (\E n \in 1 .. MaxNbyte : Store!Read(op.fd, n)) /\ mounted' /\ op.fd \in Fds
    BY <1>5, <2>1, ReadReturns, ReadErrs DEF StoreInv
  <2> QED BY <2>1, <2>2, ComesBack DEF Store!Next
<1>6. CASE write_metadata_to_disk
  <2>1. op'.pc = "idle" /\ op.pc # "idle"
    BY <1>6 DEF write_metadata_to_disk, Idle
  <2>2. Midway /\ snap' = View'
    BY <2>1 DEF StoreInv
  <2>3. /\ op.kind \in {"write", "extend", "truncate", "delete", "umount"}
        /\ op.kind # "umount" => mounted'
    BY <1>6, <2>2, Saving
  <2>4. CASE op.kind = "write"
    <3>1. \E d \in Fds : \E buf \in Buffers : Store!Write(d, buf)
      BY <1>6, <2>2, <2>4, SavesWrite
    <3> QED BY <2>1, <2>2, <2>3, <2>4, <3>1, ComesBack DEF Store!Next, Buffers
  <2>5. CASE op.kind = "extend"
    <3>1. \E d \in Fds : Store!GapShort(d)
      BY <1>6, <2>2, <2>5, SavesGap
    <3> QED BY <2>1, <2>2, <2>3, <2>5, <3>1, ComesBack DEF Store!Next
  <2>6. CASE op.kind = "truncate"
    <3>1. \E d \in Fds : \E l \in 0 .. MaxLength : Store!Truncate(d, l)
      BY <1>6, <2>2, <2>6, SavesCut
    <3> QED BY <2>1, <2>2, <2>3, <2>6, <3>1, ComesBack DEF Store!Next
  <2>7. CASE op.kind = "delete"
    <3>1. \E name \in Names : Store!Delete(name)
      BY <1>6, <2>2, <2>7, SavesRemoval
    <3> QED BY <2>1, <2>2, <2>3, <2>7, <3>1, ComesBack DEF Store!Next
  <2>8. CASE op.kind = "umount"
    <3>1. Store!Unmount /\ reply' = NoReply
      BY <1>6, <2>2, <2>8, SavesUnmount
    <3> QED BY <2>1, <2>2, <3>1, ComesBack DEF Store!Next
  <2> QED BY <2>3, <2>4, <2>5, <2>6, <2>7, <2>8
<1> QED BY <1>1, <1>2, <1>3, <1>4, <1>5, <1>6 DEF Step

LEMMA NextFollows ==
  ASSUME IndInv, NamesInv, SideInv, StoreInv, StoreNext
  PROVE  StoreInv' /\ (Store!Next \/ UNCHANGED Store!vars)
<1>1. snap' = IF op'.pc = "idle" THEN View' ELSE snap
  BY DEF StoreNext
<1>2. CASE Call
  BY <1>1, <1>2, CallFollows
<1>3. CASE mount_fs
  <2>1. op'.pc = "idle"
    BY <1>3 DEF mount_fs
  <2>2. Store!Mount /\ mounted'
    BY <1>1, <1>3, <2>1, Mounts
  <2> QED BY <1>1, <2>1, <2>2, ComesBack DEF Store!Next
<1>4. CASE Step
  BY <1>1, <1>4, StepFollows
<1> QED BY <1>2, <1>3, <1>4 DEF StoreNext, Next

LEMMA StutterKeeps ==
  ASSUME UNCHANGED <<vars, snap>>
  PROVE  /\ SideInv => SideInv'
         /\ StoreInv => StoreInv'
         /\ UNCHANGED Store!vars
<1>1. /\ UNCHANGED <<mounted, active, fat, dir, fds, disk, data, op, reply, own, base>>
      /\ UNCHANGED snap
  BY DEF vars
<1>2. SideInv => SideInv'
  BY <1>1 DEF SideInv, OffsetsSound, NamesKnown, Unmounted
<1>3. UNCHANGED Store!vars
  BY <1>1 DEF Store!vars
<1>4. StoreInv => StoreInv'
  <2>1. View' = View
    BY <1>1 DEF View, FileOf, HandleOf, ByteOf, BlockOf, fs_listfiles, find_file_in_directory,
                IsLeast
  <2>2. Midway => Midway'
    <3>1. Changing' = Changing /\ Was' = Was /\ Old(op.ent)' = Old(op.ent)
      BY <1>1 DEF Changing, Was, Old
    <3>2. Goal' = Goal
      BY <1>1, <3>1 DEF Goal
    <3>3. SizeNow' = SizeNow /\ OffNow' = OffNow
      BY <1>1, <3>1, <3>2 DEF SizeNow, OffNow
    <3>4. FilesMatch => FilesMatch'
      BY <1>1, <3>1, <3>2, <3>3 DEF FilesMatch, Same, Known, Old, Match
    <3>5. NamesMatch => NamesMatch'
      BY <1>1 DEF NamesMatch, Removing, Listed
    <3>6. HandlesMatch => HandlesMatch'
      BY <1>1, <3>1, <3>3 DEF HandlesMatch, HandleOf
    <3>7. (SnapType => SnapType') /\ (ReadMatch => ReadMatch')
      BY <1>1, <3>1 DEF SnapType, ReadMatch
    <3>8. (WriteMatch => WriteMatch') /\ (CutMatch => CutMatch')
      BY <1>1, <3>1 DEF WriteMatch, CutMatch
    <3> QED BY <3>4, <3>5, <3>6, <3>7, <3>8 DEF Midway
  <2> QED BY <1>1, <2>1, <2>2 DEF StoreInv
<1> QED BY <1>2, <1>3, <1>4

LEMMA StoreBegins ==
  ASSUME StoreInit
  PROVE  NamesInv /\ SideInv /\ StoreInv /\ Store!Init
<1>1. Init /\ snap = View
  BY DEF StoreInit
<1>2. /\ mounted = FALSE /\ op.pc = "idle" /\ reply = NoReply
      /\ \A e \in Slots : ~dir[e].used
      /\ disk.dir = dir /\ disk.own = own /\ disk.base = base
  BY <1>1 DEF Init, Idle, EmptyDir, EmptyEntry, make_disk, Metadata
<1>3. NamesInv
  BY <1>2 DEF NamesInv, OneEach
<1>4. SideInv
  BY <1>2 DEF SideInv, OffsetsSound, NamesKnown, Unmounted
<1>5. StoreInv
  BY <1>1, <1>2 DEF StoreInv
<1>6. \A n \in Names : FileOf(n) = Store!Absent
  BY <1>2 DEF FileOf, fs_listfiles, Store!Absent
<1>7. \A d \in Fds : HandleOf(d) = Store!Closed
  BY <1>2 DEF HandleOf, Store!Closed
<1>8. /\ snap.online = FALSE /\ snap.reply = Store!Returned(0)
      /\ snap.files = [n \in Names |-> Store!Absent] /\ snap.open = [d \in Fds |-> Store!Closed]
  BY <1>1, <1>2, <1>6, <1>7 DEF View, NoReply, Return, Store!Returned
<1> QED BY <1>3, <1>4, <1>5, <1>8 DEF Store!Init

(* The file system of fs.c implements the file store: for every size of disk,
   directory, descriptor table and block, what a caller sees from one return
   to the next is a step of FileStore.  Reads give what was written last, a
   short write keeps exactly the bytes it reports, gaps read as zeros, a
   truncation cuts the tail only, a deleted file is gone and no other is
   touched, and every file is found again after umount_fs and mount_fs. *)
THEOREM FileSystemImplementsStore == StoreSpec => ImplementsStore
<1> DEFINE Inv == IndInv /\ NamesInv /\ SideInv /\ StoreInv
<1>1. StoreInit => Inv /\ Store!Init
  <2>1. StoreInit => Init
    BY DEF StoreInit
  <2> QED BY <2>1, InitInd, StoreBegins
<1>2. Inv /\ [StoreNext]_<<vars, snap>> => Inv' /\ [Store!Next]_(Store!vars)
  <2> SUFFICES ASSUME Inv, [StoreNext]_<<vars, snap>> PROVE Inv' /\ [Store!Next]_(Store!vars)
    OBVIOUS
  <2>1. [CrashNext]_vars
    BY DEF StoreNext, CrashNext
  <2>2. IndInv' /\ NamesInv'
    BY <2>1, NextInd, NamesKept
  <2>3. CASE StoreNext
    <3>1. SideInv'
      BY <2>3, SideKept DEF StoreNext
    <3>2. StoreInv' /\ (Store!Next \/ UNCHANGED Store!vars)
      BY <2>3, NextFollows
    <3> QED BY <2>2, <3>1, <3>2
  <2>4. CASE UNCHANGED <<vars, snap>>
    BY <2>2, <2>4, StutterKeeps
  <2> QED BY <2>3, <2>4
<1> QED BY <1>1, <1>2, PTL DEF StoreSpec, ImplementsStore, Store!Spec
=============================================================================
