-------------------------------- MODULE Tls --------------------------------
(***************************************************************************)
(* The thread-local storage of EC440_HW4, tls.c: areas of whole pages that *)
(* threads reach through calls only.  A page is protected (closed) except  *)
(* while a call works on it; tls_clone shares the pages of another thread  *)
(* and counts the references; tls_write copies a shared page before it     *)
(* changes it; a thread that touches a closed page is ended by the handler *)
(* of SIGSEGV.                                                             *)
(*                                                                         *)
(* The threads are kernel threads and the library uses no lock.  A call is *)
(* one step for the start (the search, the tests and, in tls_read and      *)
(* tls_write, the loop that opens the pages), one per byte or page of its  *)
(* main loop and one for the end.  Calls that return -1 are not steps.     *)
(***************************************************************************)
EXTENDS Integers, Sequences, FiniteSets

CONSTANTS
  Tid,        \* the threads: numbers, for the hash
  Page,       \* the pages mmap can hand out
  HashSize,   \* HASH_SIZE
  PageSize,   \* page_size
  UintMod,    \* 2^32, the modulus of unsigned int
  Byte,       \* the values of a byte
  Written,    \* the bytes tls_write is given
  Sizes,      \* the sizes tls_create is given
  Args,       \* the offsets and lengths tls_read and tls_write are given
  Serial      \* calls that overlap work on different areas and pages

ASSUME SizesAssumption ==
  /\ Tid \subseteq Nat /\ IsFiniteSet(Page)
  /\ HashSize \in Nat \ {0} /\ PageSize \in Nat \ {0} /\ UintMod \in Nat \ {0}
  /\ Sizes \subseteq 0 .. UintMod - 1 /\ Args \subseteq 0 .. UintMod - 1
  /\ 0 \in Byte /\ Written \subseteq Byte /\ Serial \in BOOLEAN

VARIABLES
  table,    \* hash_table: the threads of each list, the head first
  tls,      \* the area of a thread in the table
  page,     \* the pages: ref_count (0: not mapped), protection and contents
  call,     \* the call a thread is in, with its local variables
  dead,     \* the threads the handler has ended
  crashed,  \* the process has ended by SIGSEGV
  want      \* auxiliary: what a thread has written to its area

vars == <<table, tls, page, call, dead, crashed, want>>

Buckets == 0 .. HashSize - 1
Offsets == 0 .. PageSize - 1
NoArea  == [size |-> 0, pages |-> <<>>]
NoPage  == [ref |-> 0, open |-> FALSE, mem |-> [o \in Offsets |-> 0]]
(* i counts the iterations done; from is the thread tls_clone copies; area is
   what tls_clone has built so far. *)
NoCall  == [fn |-> "none", i |-> 0, off |-> 0, len |-> 0, buf |-> <<>>, from |-> 0, area |-> NoArea]

Elements(s)   == {s[i] : i \in 1 .. Len(s)}
hash_func(t)  == t % HashSize
Listed(t)     == t \in Elements(table[hash_func(t)])
PagesOf(t)    == Elements(tls[t].pages)
Unmapped      == {p \in Page : page[p].ref = 0}
page_num(n)   == ((n + PageSize - 1) % UintMod) \div PageSize
Alive(t)      == t \notin dead /\ ~crashed
Idle(t)       == Alive(t) /\ call[t].fn = "none"
In(t, fns)    == Alive(t) /\ call[t].fn \in fns
Finish(t)     == call' = [call EXCEPT ![t] = NoCall]
Loop(t)       == call' = [call EXCEPT ![t].i = call[t].i + 1]

Init ==
  /\ table = [h \in Buckets |-> <<>>]
  /\ tls = [t \in Tid |-> NoArea]
  /\ page = [p \in Page |-> NoPage]
  /\ call = [t \in Tid |-> NoCall]
  /\ dead = {} /\ crashed = FALSE
  /\ want = [t \in Tid |-> <<>>]
-----------------------------------------------------------------------------
(* What the threads take care of: one at a time changes the table, nobody
   looks at the table while tls_destroy takes an area apart and, when they are
   Serial, calls that overlap work on different areas with no page in common.
   Works is the thread whose area a call works on. *)
Works(t)    == IF call[t].fn = "clone" THEN call[t].from ELSE t
MayChange   == \A t \in Tid : call[t].fn \notin {"clone", "destroy"}
Undisturbed == \A t \in Tid : call[t].fn # "destroy"
May(u)      == Serial => \A t \in Tid : call[t].fn # "none" =>
                            Works(t) # u /\ PagesOf(Works(t)) \cap PagesOf(u) = {}
-----------------------------------------------------------------------------
(* tls_create, tls_clone, tls_destroy *)

(* The new element becomes the head of its list. *)
Link(t) == table' = [table EXCEPT ![hash_func(t)] = <<t>> \o table[hash_func(t)]]

(* Nobody knows of the area before it is in the table: one step. *)
tls_create(t, size) ==
  /\ Idle(t) /\ MayChange
  /\ size > 0 /\ ~Listed(t)
  /\ \E ps \in [1 .. page_num(size) -> Unmapped] :
       /\ \A i, j \in DOMAIN ps : ps[i] = ps[j] => i = j
       /\ page' = [p \in Page |-> IF p \in Elements(ps) THEN [NoPage EXCEPT !.ref = 1] ELSE page[p]]
       /\ tls' = [tls EXCEPT ![t] = [size |-> size, pages |-> ps]]
  /\ Link(t)
  /\ want' = [want EXCEPT ![t] = [i \in 1 .. size |-> 0]]
  /\ UNCHANGED <<call, dead, crashed>>

tls_clone(t, u) ==
  /\ Idle(t) /\ MayChange
  /\ Listed(u) /\ ~Listed(t)
  /\ May(u)
  /\ call' = [call EXCEPT ![t] = [NoCall EXCEPT !.fn = "clone", !.from = u,
                                                !.area = [size |-> tls[u].size, pages |-> <<>>]]]
  /\ UNCHANGED <<table, tls, page, dead, crashed, want>>

(* Faulty variant: the page is shared and not counted. *)
clone_page_uncounted(t) ==
  LET c == call[t] IN
  /\ In(t, {"clone"}) /\ c.i < Len(tls[c.from].pages)
  /\ call' = [call EXCEPT ![t].i = c.i + 1,
                          ![t].area.pages = Append(c.area.pages, tls[c.from].pages[c.i + 1])]
  /\ UNCHANGED <<table, tls, page, dead, crashed, want>>

clone_page(t) ==
  LET c == call[t]
      p == tls[c.from].pages[c.i + 1]
  IN
  /\ In(t, {"clone"}) /\ c.i < Len(tls[c.from].pages)
  /\ page' = [page EXCEPT ![p].ref = page[p].ref + 1]
  /\ call' = [call EXCEPT ![t].i = c.i + 1, ![t].area.pages = Append(c.area.pages, p)]
  /\ UNCHANGED <<table, tls, dead, crashed, want>>

clone_link(t) ==
  LET c == call[t] IN
  /\ In(t, {"clone"}) /\ c.i = Len(tls[c.from].pages)
  /\ tls' = [tls EXCEPT ![t] = c.area]
  /\ Link(t) /\ Finish(t)
  /\ want' = [want EXCEPT ![t] = want[c.from]]
  /\ UNCHANGED <<page, dead, crashed>>

tls_destroy(t) ==
  /\ Idle(t) /\ MayChange
  /\ Listed(t)
  /\ May(t)
  /\ call' = [call EXCEPT ![t].fn = "destroy"]
  /\ UNCHANGED <<table, tls, page, dead, crashed, want>>

(* A page nobody refers to any more is unmapped. *)
destroy_page(t) ==
  LET p    == tls[t].pages[call[t].i + 1]
      left == page[p].ref - 1
  IN
  /\ In(t, {"destroy"}) /\ call[t].i < Len(tls[t].pages)
  /\ page' = [page EXCEPT ![p] = IF left = 0 THEN NoPage ELSE [page[p] EXCEPT !.ref = left]]
  /\ Loop(t)
  /\ UNCHANGED <<table, tls, dead, crashed, want>>

(* Faulty variant: the head of the list is taken out, whoever it is. *)
destroy_unlink_head(t) ==
  /\ In(t, {"destroy"}) /\ call[t].i = Len(tls[t].pages)
  /\ table' = [table EXCEPT ![hash_func(t)] = Tail(table[hash_func(t)])]
  /\ tls' = [tls EXCEPT ![t] = NoArea]
  /\ want' = [want EXCEPT ![t] = <<>>]
  /\ Finish(t)
  /\ UNCHANGED <<page, dead, crashed>>

(* The first element of the list that is t's is taken out. *)
destroy_unlink(t) ==
  LET list == table[hash_func(t)] IN
  /\ In(t, {"destroy"}) /\ call[t].i = Len(tls[t].pages)
  /\ \E k \in 1 .. Len(list) :
       /\ list[k] = t /\ \A j \in 1 .. k - 1 : list[j] # t
       /\ table' = [table EXCEPT ![hash_func(t)] = SubSeq(list, 1, k - 1) \o SubSeq(list, k + 1, Len(list))]
  /\ tls' = [tls EXCEPT ![t] = NoArea]
  /\ want' = [want EXCEPT ![t] = <<>>]
  /\ Finish(t)
  /\ UNCHANGED <<page, dead, crashed>>
-----------------------------------------------------------------------------
(* The handler of SIGSEGV, run by the thread that touched a closed page *)

(* Faulty variant: only the heads of the lists are looked at. *)
tls_handle_page_fault_heads(t, p) ==
  LET known == \E h \in Buckets : table[h] # <<>> /\ p \in PagesOf(Head(table[h])) IN
  /\ dead' = IF known THEN dead \cup {t} ELSE dead
  /\ crashed' = ~known

tls_handle_page_fault(t, p) ==
  LET known == \E h \in Buckets : \E u \in Elements(table[h]) : p \in PagesOf(u) IN
  /\ dead' = IF known THEN dead \cup {t} ELSE dead
  /\ crashed' = ~known

(* A thread outside the library uses an address inside a page. *)
stray(t, p) ==
  /\ Idle(t) /\ Undisturbed
  /\ page[p].ref > 0 /\ ~page[p].open
  /\ tls_handle_page_fault(t, p)
  /\ UNCHANGED <<table, tls, page, call, want>>
-----------------------------------------------------------------------------
(* tls_read, tls_write *)

Protect(pages, open) ==
  page' = [p \in Page |-> IF p \in pages THEN [page[p] EXCEPT !.open = open] ELSE page[p]]

(* Faulty variant: the offset alone is compared with the size. *)
InBounds_offset(t, off, len) == off <= tls[t].size
(* The test both calls make, in unsigned arithmetic: a sum that wraps passes. *)
InBounds(t, off, len) == (off + len) % UintMod <= tls[t].size

Start(t, fn, off, len, buf) ==
  /\ Idle(t)
  /\ Listed(t) /\ InBounds(t, off, len)
  /\ Undisturbed /\ May(t)
  /\ Protect(PagesOf(t), TRUE)
  /\ call' = [call EXCEPT ![t] = [NoCall EXCEPT !.fn = fn, !.off = off, !.len = len, !.buf = buf]]
  /\ UNCHANGED <<table, tls, dead, crashed, want>>

tls_read(t, off, len)       == Start(t, "read", off, len, <<>>)
tls_write(t, off, len, buf) == Start(t, "write", off, len, buf)

(* Where the next byte is: its place in the area, the page, the offset in it. *)
At(t)          == (call[t].off + call[t].i) % UintMod
page_index(t)  == At(t) \div PageSize + 1
page_offset(t) == At(t) % PageSize
More(t)        == call[t].fn \in {"read", "write"} /\ call[t].i < call[t].len
Beyond(t)      == More(t) /\ page_index(t) > Len(tls[t].pages)
Copying(t, fn) == In(t, {fn}) /\ More(t) /\ ~Beyond(t)

(* The pointer is taken from behind the array: undefined.  The process ends at
   an address on no TLS page or, whatever else the build makes of it, nothing
   can be said of it any more: the model stops here either way. *)
lookup_beyond(t) ==
  /\ Alive(t) /\ Beyond(t)
  /\ crashed' = TRUE
  /\ UNCHANGED <<table, tls, page, call, dead, want>>

(* Faulty variant: the offset in the page is not reduced by the page's. *)
read_byte_unreduced(t) ==
  LET p == tls[t].pages[page_index(t)] IN
  /\ Copying(t, "read")
  /\ call' = [call EXCEPT ![t].i = call[t].i + 1,
                          ![t].buf = Append(call[t].buf, page[p].mem[call[t].i % PageSize])]
  /\ UNCHANGED <<table, tls, page, dead, crashed, want>>

read_byte(t) ==
  LET p == tls[t].pages[page_index(t)] IN
  /\ Copying(t, "read")
  /\ \/ /\ page[p].open
        /\ call' = [call EXCEPT ![t].i = call[t].i + 1,
                                ![t].buf = Append(call[t].buf, page[p].mem[page_offset(t)])]
        /\ UNCHANGED <<dead, crashed>>
     \/ /\ ~page[p].open
        /\ tls_handle_page_fault(t, p)
        /\ UNCHANGED call
  /\ UNCHANGED <<table, tls, page, want>>

Stored(p, t) == [page[p].mem EXCEPT ![page_offset(t)] = call[t].buf[call[t].i + 1]]
Own(t, q)    == tls' = [tls EXCEPT ![t].pages[page_index(t)] = q]
Wrote(t)     == want' = IF At(t) < tls[t].size THEN [want EXCEPT ![t][At(t) + 1] = call[t].buf[call[t].i + 1]]
                        ELSE want

(* Faulty variant: a shared page is changed in place. *)
write_byte_shared(t) ==
  LET p == tls[t].pages[page_index(t)] IN
  /\ Copying(t, "write")
  /\ page' = [page EXCEPT ![p].mem = Stored(p, t)]
  /\ Loop(t) /\ Wrote(t)
  /\ UNCHANGED <<table, tls, dead, crashed>>

(* One byte: into the page or, when others refer to it, into a copy. *)
write_byte(t) ==
  LET p == tls[t].pages[page_index(t)] IN
  /\ Copying(t, "write")
  /\ \/ /\ page[p].open /\ page[p].ref <= 1
        /\ page' = [page EXCEPT ![p].mem = Stored(p, t)]
        /\ Loop(t) /\ Wrote(t)
        /\ UNCHANGED <<tls, dead, crashed>>
     \/ /\ page[p].open /\ page[p].ref > 1
        /\ \E q \in Unmapped :
             /\ page' = [page EXCEPT ![q] = [ref |-> 1, open |-> TRUE, mem |-> Stored(p, t)],
                                     ![p].ref = page[p].ref - 1, ![p].open = FALSE]
             /\ Own(t, q)
        /\ Loop(t) /\ Wrote(t)
        /\ UNCHANGED <<dead, crashed>>
     \/ /\ ~page[p].open
        /\ tls_handle_page_fault(t, p)
        /\ UNCHANGED <<tls, page, call, want>>
  /\ UNCHANGED table

(* Faulty variant: only the page of the last byte is closed. *)
close_pages_last(t) ==
  /\ In(t, {"read", "write"}) /\ call[t].i = call[t].len
  /\ Protect({tls[t].pages[Len(tls[t].pages)]}, FALSE)
  /\ Finish(t)
  /\ UNCHANGED <<table, tls, dead, crashed, want>>

(* The loop that closes the pages, and the return. *)
close_pages(t) ==
  /\ In(t, {"read", "write"}) /\ call[t].i = call[t].len
  /\ Protect(PagesOf(t), FALSE)
  /\ Finish(t)
  /\ UNCHANGED <<table, tls, dead, crashed, want>>
-----------------------------------------------------------------------------
Next ==
  \E t \in Tid :
    \/ \E size \in Sizes : tls_create(t, size)
    \/ \E u \in Tid : tls_clone(t, u)
    \/ clone_page(t) \/ clone_link(t)
    \/ tls_destroy(t) \/ destroy_page(t) \/ destroy_unlink(t)
    \/ \E off, len \in Args : tls_read(t, off, len)
    \/ \E off, len \in Args : \E buf \in [1 .. len -> Written] : tls_write(t, off, len, buf)
    \/ read_byte(t) \/ write_byte(t) \/ lookup_beyond(t) \/ close_pages(t)
    \/ \E p \in Page : stray(t, p)

Spec == Init /\ [][Next]_vars
-----------------------------------------------------------------------------
(* Properties *)

Area == [size : Nat, pages : Seq(Page)]

TypeOK ==
  /\ table \in [Buckets -> Seq(Tid)]
  /\ tls \in [Tid -> Area]
  /\ page \in [Page -> [ref : Nat, open : BOOLEAN, mem : [Offsets -> Byte]]]
  /\ call \in [Tid -> [fn : {"none", "clone", "destroy", "read", "write"}, i : Nat, off : Nat,
                       len : Nat, buf : Seq(Byte), from : Nat, area : Area]]
  /\ dead \subseteq Tid /\ crashed \in BOOLEAN
  /\ want \in [Tid -> Seq(Byte)]

(* The lists of the table hold the threads that have an area, each once, under
   its own hash: a search finds a thread's own area and no other. *)
TableExact ==
  /\ \A h \in Buckets : \A i, j \in 1 .. Len(table[h]) :
       hash_func(table[h][i]) = h /\ (table[h][i] = table[h][j] => i = j)
  /\ \A t \in Tid : Listed(t) <=> tls[t].size > 0

(* The references to a page, those of a clone or a destruction under way. *)
References(p) ==
  {x \in Tid \X (1 .. Cardinality(Page)) :
     LET t == x[1]
         s == IF call[t].fn = "clone" THEN call[t].area.pages ELSE tls[t].pages
     IN /\ x[2] <= Len(s) /\ s[x[2]] = p
        /\ call[t].fn = "destroy" => x[2] > call[t].i}

(* ref_count is right at every step: a page is unmapped when its last user
   goes and not before, and a page with one user is not copied. *)
RefsExact == \A p \in Page : page[p].ref = Cardinality(References(p))

(* Nothing another thread does shows in a thread's area: what it has pages for
   holds what the thread wrote over the zeros, or the clone, it began with. *)
Isolated ==
  \A t \in Tid : tls[t].size > 0 /\ call[t].fn # "destroy" =>
    \A a \in 0 .. tls[t].size - 1 : a \div PageSize < Len(tls[t].pages) =>
      page[tls[t].pages[a \div PageSize + 1]].mem[a % PageSize] = want[t][a + 1]

(* tls_read has copied the bytes of its range that are in the area, across the
   pages' borders. *)
ReadsOwn ==
  \A t \in Tid : call[t].fn = "read" =>
    /\ Len(call[t].buf) = call[t].i
    /\ \A j \in 1 .. call[t].i : call[t].off + j <= tls[t].size =>
         call[t].buf[j] = want[t][call[t].off + j]

(* The next byte of a call is in the area, and on one of its pages. *)
Inside(t) == More(t) => At(t) < tls[t].size /\ ~Beyond(t)

(* The test keeps both calls inside the area, and the lookup inside the array
   of its pages. *)
StaysInside == \A t \in Tid : Inside(t)

(* It does for the calls whose offset + length, and the areas whose
   size + page_size, are below 2^32. *)
FittingInside ==
  \A t \in Tid : call[t].off + call[t].len < UintMod /\ tls[t].size + PageSize <= UintMod => Inside(t)

(* A page is open only while a call of a thread that has it reads or writes. *)
PagesClosed ==
  \A p \in Page : page[p].open =>
    \E t \in Tid : call[t].fn \in {"read", "write"} /\ p \in PagesOf(t)

(* A thread inside tls_read or tls_write is not ended by the handler: the
   pages it opened stay open for as long as it uses them. *)
CallsSurvive == \A t \in dead : call[t].fn = "none"

(* The handler ends the thread that used an area directly and nothing else: no
   thread that is inside a call and, unless a call has left the array of its
   pages, not the process. *)
HandlerRight == CallsSurvive /\ (crashed => \E t \in Tid : Beyond(t))
=============================================================================
