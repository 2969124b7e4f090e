------------------------------ MODULE FileStore ------------------------------
(***************************************************************************)
(* What the file system of EC440_HW5 promises its caller, without blocks,  *)
(* tables or a disk: named byte sequences, and open files with an offset.  *)
(* One step is one call, from its arguments to its return value.           *)
(*                                                                         *)
(* It is the contract of fs.c, including where fs.c departs from what one  *)
(* might expect: a write whose gap cannot be filled returns the zeros it   *)
(* added, and a failed make_fs on the mounted disk erases every byte.      *)
(***************************************************************************)
EXTENDS Integers, Sequences

CONSTANTS
  Names,       \* file names
  Handles,     \* descriptors
  Byte,        \* the values of a byte
  LengthMod,   \* fs_truncate takes its length modulo this
  MaxNbyte,    \* bound on the size of a read or a write
  MaxLength    \* bound on the argument of fs_lseek and fs_truncate

VARIABLES
  online,      \* the file system is mounted
  files,       \* the content of each file that exists
  open,        \* each open descriptor's file and offset
  reply        \* what the last call returned

vars == <<online, files, open, reply>>

Absent       == [exists |-> FALSE, bytes |-> <<>>]
File(bytes)  == [exists |-> TRUE, bytes |-> bytes]
Closed       == [used |-> FALSE]
At(name, k)  == [used |-> TRUE, name |-> name, off |-> k]
Returned(n)  == [val |-> n, bytes |-> <<>>]

Content(d)   == files[open[d].name].bytes
Least(x, y)  == IF x < y THEN x ELSE y
Fill(n)      == [i \in 1 .. n |-> 0]

(* s with t written over it from offset k on; a gap is filled with zeros. *)
Overwrite(s, k, t) ==
  LET padded == IF k > Len(s) THEN s \o Fill(k - Len(s)) ELSE s
  IN SubSeq(padded, 1, k) \o t \o SubSeq(padded, k + Len(t) + 1, Len(padded))

Init ==
  /\ online = FALSE
  /\ files = [n \in Names |-> Absent]
  /\ open = [d \in Handles |-> Closed]
  /\ reply = Returned(0)

Format ==
  /\ ~online
  /\ files' = [n \in Names |-> Absent]
  /\ reply' = Returned(0)
  /\ UNCHANGED <<online, open>>

Erase ==
  /\ online
  /\ files' = [n \in Names |-> [files[n] EXCEPT !.bytes = Fill(Len(files[n].bytes))]]
  /\ reply' = Returned(-1)
  /\ UNCHANGED <<online, open>>

(* Mounting and unmounting keep every file; open files are forgotten. *)
Mount ==
  /\ ~online /\ online' = TRUE
  /\ reply' = Returned(0)
  /\ UNCHANGED <<files, open>>

Unmount ==
  /\ online /\ online' = FALSE
  /\ open' = [d \in Handles |-> Closed]
  /\ reply' = Returned(0)
  /\ UNCHANGED files

Create(name) ==
  /\ online /\ ~files[name].exists
  /\ files' = [files EXCEPT ![name] = File(<<>>)]
  /\ reply' = Returned(0)
  /\ UNCHANGED <<online, open>>

Delete(name) ==
  /\ online /\ files[name].exists
  /\ \A d \in Handles : open[d].used => open[d].name # name
  /\ files' = [files EXCEPT ![name] = Absent]
  /\ reply' = Returned(0)
  /\ UNCHANGED <<online, open>>

Open(name) ==
  /\ online /\ files[name].exists
  /\ \E d \in Handles :
       /\ ~open[d].used
       /\ open' = [open EXCEPT ![d] = At(name, 0)]
       /\ reply' = Returned(d)
  /\ UNCHANGED <<online, files>>

Close(d) ==
  /\ online /\ open[d].used
  /\ open' = [open EXCEPT ![d] = Closed]
  /\ reply' = Returned(0)
  /\ UNCHANGED <<online, files>>

Seek(d, k) ==
  /\ online /\ open[d].used /\ k <= Len(Content(d))
  /\ open' = [open EXCEPT ![d].off = k]
  /\ reply' = Returned(0)
  /\ UNCHANGED <<online, files>>

(* All the bytes asked for that exist, or an I/O error. *)
Read(d, n) ==
  /\ online /\ open[d].used
  /\ LET got == SubSeq(Content(d), open[d].off + 1, Least(open[d].off + n, Len(Content(d))))
     IN \/ /\ reply' = [val |-> Len(got), bytes |-> got]
           /\ open' = [open EXCEPT ![d].off = @ + Len(got)]
        \/ reply' = Returned(-1) /\ UNCHANGED open
  /\ UNCHANGED <<online, files>>

(* The first k bytes of buf are written where the offset says; an I/O error
   is reported without saying how many. *)
Write(d, buf) ==
  /\ online /\ open[d].used
  /\ \E k \in 0 .. Len(buf) :
       /\ files' = [files EXCEPT ![open[d].name].bytes =
                      Overwrite(@, open[d].off, SubSeq(buf, 1, k))]
       /\ open' = [open EXCEPT ![d].off = @ + k]
       /\ reply' = Returned(k) \/ reply' = Returned(-1)
  /\ UNCHANGED online

(* The offset was past the end and only z zeros of the gap were added. *)
GapShort(d) ==
  /\ online /\ open[d].used
  /\ \E z \in 0 .. open[d].off - Len(Content(d)) - 1 :
       /\ files' = [files EXCEPT ![open[d].name].bytes = @ \o Fill(z)]
       /\ open' = [open EXCEPT ![d].off = Len(Content(d)) + z]
       /\ reply' = Returned(z)
  /\ UNCHANGED online

Truncate(d, length) ==
  LET k == length % LengthMod IN
  /\ online /\ open[d].used /\ k <= Len(Content(d))
  /\ files' = [files EXCEPT ![open[d].name].bytes = SubSeq(@, 1, k)]
  /\ open' = [open EXCEPT ![d].off = Least(@, k)]
  /\ reply' = Returned(0)
  /\ UNCHANGED online

Next ==
  \/ Format \/ Erase \/ Mount \/ Unmount
  \/ \E name \in Names : Create(name) \/ Delete(name) \/ Open(name)
  \/ \E d \in Handles :
       \/ Close(d) \/ GapShort(d)
       \/ \E n \in 1 .. MaxNbyte : Read(d, n)
       \/ \E buf \in UNION {[1 .. n -> Byte] : n \in 1 .. MaxNbyte} : Write(d, buf)
       \/ \E k \in 0 .. MaxLength : Seek(d, k) \/ Truncate(d, k)

Spec == Init /\ [][Next]_vars
=============================================================================
