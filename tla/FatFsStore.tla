----------------------------- MODULE FatFsStore -----------------------------
(***************************************************************************)
(* The file system FatFs implements the file store FileStore: what a       *)
(* caller can see between two calls follows the store.  snap holds that    *)
(* view as of the last return, because a call changes the tables in        *)
(* several steps.                                                          *)
(***************************************************************************)
EXTENDS FatFs

VARIABLE snap

(* The block of entry e's chain that holds byte i of its file, and the byte. *)
BlockOf(e, i) == CHOOSE b \in Blocks : own[b] = e /\ base[b] <= i /\ i < base[b] + BlockSize
ByteOf(e, i)  == data[BlockOf(e, i)][i - base[BlockOf(e, i)]]

FileOf(name) ==
  IF name \in fs_listfiles
  THEN LET e == CHOOSE i \in Slots : find_file_in_directory(i, name)
       IN [exists |-> TRUE, bytes |-> [i \in 1 .. dir[e].size |-> ByteOf(e, i - 1)]]
  ELSE [exists |-> FALSE, bytes |-> <<>>]

HandleOf(d) ==
  IF mounted /\ fds[d].used
  THEN [used |-> TRUE, name |-> dir[fds[d].ent].name, off |-> fds[d].off]
  ELSE [used |-> FALSE]

View == [online |-> mounted, files |-> [n \in Names |-> FileOf(n)],
         open |-> [d \in Fds |-> HandleOf(d)], reply |-> reply]

StoreInit == Init /\ snap = View
StoreNext == Next /\ snap' = IF op'.pc = "idle" THEN View' ELSE snap
StoreSpec == StoreInit /\ [][StoreNext]_<<vars, snap>>

(* The same, in which the caller's process gets on with its call. *)
FairStoreSpec == StoreSpec /\ WF_vars(Step)

Store == INSTANCE FileStore WITH
  Handles <- Fds, LengthMod <- UintMod, online <- snap.online,
  files <- snap.files, open <- snap.open, reply <- snap.reply

(* Reads return what was written last, short writes keep exactly the bytes
   reported, a gap reads as zeros, truncation drops the tail only, and a
   remount finds every file: fs.c implements FileStore. *)
ImplementsStore == Store!Spec
=============================================================================
