----------------------------- MODULE TlsProofs -----------------------------
(***************************************************************************)
(* Proofs about the thread-local storage of EC440_HW4, for threads whose   *)
(* overlapping calls work on different pages (Serial).                     *)
(***************************************************************************)
EXTENDS Tls, FiniteSetTheorems, SequenceTheorems, TLAPS

(* The areas: as many pages as tls_create computes, none of them twice. *)
Distinct(s) == \A i, j \in 1 .. Len(s) : s[i] = s[j] => i = j
AreaSound ==
  \A t \in Tid :
    /\ tls[t].size = 0 => tls[t].pages = <<>>
    /\ tls[t].size > 0 => Len(tls[t].pages) = page_num(tls[t].size)
    /\ Distinct(tls[t].pages)

(* The calls: what their tests established still holds in the loops. *)
Copies(t) == call[t].fn \in {"read", "write"}
CloneSound(t) ==
  LET c == call[t]
      u == call[t].from
  IN /\ u \in Tid /\ tls[u].size > 0 /\ call[u].fn = "none" /\ tls[t].size = 0
     /\ c.area.size = tls[u].size
     /\ c.i <= Len(tls[u].pages) /\ Len(c.area.pages) = c.i
     /\ \A j \in 1 .. c.i : c.area.pages[j] = tls[u].pages[j]
CopySound(t) ==
  LET c == call[t]
  IN /\ tls[t].size > 0 /\ c.off < UintMod /\ c.len < UintMod
     /\ (c.off + c.len) % UintMod <= tls[t].size /\ c.i <= c.len
     /\ c.i = 0 \/ c.off + c.i <= PageSize * Len(tls[t].pages)
     /\ c.fn = "write" => Len(c.buf) = c.len
ThreadSound(t) ==
  /\ call[t].fn = "none" => call[t] = NoCall
  /\ call[t].fn = "clone" => CloneSound(t)
  /\ call[t].fn = "destroy" => tls[t].size > 0 /\ call[t].i <= Len(tls[t].pages)
  /\ Copies(t) => CopySound(t)
CallSound == \A t \in Tid : ThreadSound(t)

(* One clone or destruction at a time; the threads that read or write have
   no page in common, and theirs are open. *)
Alone == \A t, u \in Tid :
           call[t].fn \in {"clone", "destroy"} /\ call[u].fn \in {"clone", "destroy"} => t = u
Apart == \A t, u \in Tid : Copies(t) /\ Copies(u) /\ t # u => PagesOf(t) \cap PagesOf(u) = {}
OpenSound == \A t \in Tid : Copies(t) => \A p \in PagesOf(t) : page[p].open

RefsSound == RefsExact /\ \A p \in Page : IsFiniteSet(References(p))

(* What Isolated says, byte by byte, of a thread's area. *)
Holds(t) ==
  /\ Len(want[t]) = tls[t].size
  /\ \A a \in 0 .. tls[t].size - 1 : a \div PageSize < Len(tls[t].pages) =>
       page[tls[t].pages[a \div PageSize + 1]].mem[a % PageSize] = want[t][a + 1]
Contents == \A t \in Tid : tls[t].size > 0 /\ call[t].fn # "destroy" => Holds(t)

Shape   == TypeOK /\ TableExact /\ AreaSound /\ CallSound /\ Alone
Pages   == RefsSound /\ Apart /\ OpenSound /\ PagesClosed
TlsInv  == Shape /\ Pages /\ Contents /\ ReadsOwn /\ HandlerRight
-----------------------------------------------------------------------------
(* The operators the model is built from *)

LEMMA SizeFacts ==
  /\ PageSize \in Nat /\ PageSize > 0 /\ UintMod \in Nat /\ UintMod > 0 /\ HashSize \in Nat /\ HashSize > 0
  /\ Tid \subseteq Nat /\ IsFiniteSet(Page) /\ Cardinality(Page) \in Nat
  /\ 0 \in Byte /\ Written \subseteq Byte
BY SizesAssumption, FS_CardinalityType

LEMMA DivFacts ==
  ASSUME NEW a \in Nat
  PROVE  /\ a \div PageSize \in Nat /\ a % PageSize \in Offsets
         /\ a = PageSize * (a \div PageSize) + (a % PageSize)
BY SizeFacts DEF Offsets

LEMMA SmallMod ==
  ASSUME NEW x \in Nat, x < UintMod
  PROVE  x % UintMod = x
BY SizeFacts

(* A place on one of the first k pages. *)
LEMMA PageBound ==
  ASSUME NEW a \in Nat, NEW k \in Nat, NEW y, y = a \div PageSize
  PROVE  /\ y < k <=> y + 1 \in 1 .. k
         /\ y < k => a + 1 <= PageSize * k
<1>1. /\ y \in Nat /\ a % PageSize \in Offsets /\ a = PageSize * y + (a % PageSize)
      /\ PageSize \in Nat /\ PageSize > 0
  BY DivFacts, SizeFacts
<1>2. a < PageSize * y + PageSize
  BY <1>1 DEF Offsets
<1>3. y < k => PageSize * y + PageSize <= PageSize * k
  <2> SUFFICES ASSUME y < k PROVE PageSize * y + PageSize <= PageSize * k
    OBVIOUS
  <2>1. PICK d \in Nat : k = y + 1 + d
    <3>1. k - (y + 1) \in Nat /\ k = y + 1 + (k - (y + 1))
      BY <1>1
    <3> QED BY <3>1
  <2>2. PageSize * k = PageSize * y + PageSize + PageSize * d /\ PageSize * d \in Nat
    BY <1>1, <2>1
  <2>3. PageSize * y \in Nat
    BY <1>1
  <2> QED BY <1>1, <2>2, <2>3
<1>4. PageSize * y \in Nat /\ PageSize * k \in Nat
  BY <1>1
<1> QED BY <1>1, <1>2, <1>3, <1>4

(* A byte of an area is determined by its page and its offset in the page. *)
LEMMA SamePlace ==
  ASSUME NEW a \in Nat, NEW b \in Nat,
         a \div PageSize = b \div PageSize, a % PageSize = b % PageSize
  PROVE  a = b
BY DivFacts, SizeFacts

(* A byte inside the size is on one of the pages page_num computes. *)
LEMMA OnPage ==
  ASSUME NEW n \in Nat, n > 0, n + PageSize <= UintMod, NEW a \in Nat, a < n
  PROVE  a \div PageSize + 1 \in 1 .. page_num(n)
<1>1. n + PageSize - 1 \in Nat /\ (n + PageSize - 1) % UintMod = n + PageSize - 1
  BY SizeFacts
<1>2. page_num(n) = (n + PageSize - 1) \div PageSize
  BY <1>1 DEF page_num
<1> DEFINE x == a \div PageSize
           y == (n + PageSize - 1) \div PageSize
<1>3. /\ x \in Nat /\ a % PageSize \in Offsets /\ a = PageSize * x + (a % PageSize)
      /\ y \in Nat /\ (n + PageSize - 1) % PageSize \in Offsets
      /\ n + PageSize - 1 = PageSize * y + ((n + PageSize - 1) % PageSize)
  BY <1>1, DivFacts
<1>4. PageSize * x <= a /\ n + PageSize - 1 < PageSize * y + PageSize
  BY <1>3, SizeFacts DEF Offsets
<1>5. PageSize * x < PageSize * y
  <2> HIDE DEF x, y
  <2> QED BY <1>3, <1>4, SizeFacts
<1>6. x < y
  <2> HIDE DEF x, y
  <2>1. x >= y => PageSize * x >= PageSize * y
    BY <1>3, SizeFacts
  <2> QED BY <1>3, <1>5, <2>1, SizeFacts
<1> QED BY <1>2, <1>3, <1>6

(* The pages of an area end below 2^32, for every size. *)
LEMMA SmallPages ==
  ASSUME NEW n \in Nat, n > 0
  PROVE  page_num(n) \in Nat /\ PageSize * page_num(n) < UintMod
<1>1. PICK x \in Nat : x = (n + PageSize - 1) % UintMod /\ x < UintMod
  BY SizeFacts
<1>2. page_num(n) = x \div PageSize /\ x = PageSize * (x \div PageSize) + (x % PageSize) /\ x % PageSize \in Offsets
  BY <1>1, DivFacts DEF page_num
<1>3. PICK y \in Nat : y = x \div PageSize
  BY DivFacts
<1> QED BY <1>1, <1>2, <1>3, SizeFacts DEF Offsets

(* Distinct pages are at most as many as there are pages. *)
LEMMA FewPages ==
  ASSUME NEW s \in Seq(Page), Distinct(s)
  PROVE  Len(s) <= Cardinality(Page) /\ Len(s) \in Nat
<1>1. Len(s) \in Nat /\ s \in [1 .. Len(s) -> Page]
  BY LenProperties
<1>2. IsFiniteSet(1 .. Len(s)) /\ Cardinality(1 .. Len(s)) = Len(s)
  BY <1>1, FS_Interval
<1>3. s \in Injection(1 .. Len(s), Page)
  BY <1>1 DEF Distinct, Injection, IsInjective
<1> QED BY <1>1, <1>2, <1>3, SizeFacts, FS_Injection

LEMMA TypeFacts ==
  ASSUME TypeOK, NEW t \in Tid
  PROVE  /\ tls[t] \in Area /\ tls[t].size \in Nat /\ tls[t].pages \in Seq(Page) /\ Len(tls[t].pages) \in Nat
         /\ call[t].i \in Nat /\ call[t].off \in Nat /\ call[t].len \in Nat /\ call[t].buf \in Seq(Byte)
         /\ call[t].area \in Area /\ call[t].area.size \in Nat /\ call[t].area.pages \in Seq(Page)
         /\ Len(call[t].area.pages) \in Nat /\ Len(call[t].buf) \in Nat
         /\ call[t].fn \in {"none", "clone", "destroy", "read", "write"}
         /\ want[t] \in Seq(Byte)
<1>1. tls[t] \in Area /\ call[t].area \in Area /\ call[t].buf \in Seq(Byte)
  BY DEF TypeOK
<1>2. \A a \in Area : a.size \in Nat /\ a.pages \in Seq(Page) /\ Len(a.pages) \in Nat
  BY DEF Area
<1> QED BY <1>1, <1>2 DEF TypeOK

LEMMA PageTypes ==
  ASSUME TypeOK, NEW p \in Page
  PROVE  page[p].ref \in Nat /\ page[p].open \in BOOLEAN /\ page[p].mem \in [Offsets -> Byte]
BY DEF TypeOK

LEMMA NoPageType ==
  NoPage \in [ref : Nat, open : BOOLEAN, mem : [Offsets -> Byte]]
BY SizeFacts DEF NoPage

LEMMA NoCallType ==
  NoCall \in [fn : {"none", "clone", "destroy", "read", "write"}, i : Nat, off : Nat,
              len : Nat, buf : Seq(Byte), from : Nat, area : Area]
<1>1. <<>> \in Seq(Byte) /\ <<>> \in Seq(Page)
  BY EmptySeq
<1> QED BY <1>1 DEF NoCall, NoArea, Area

LEMMA HashFacts == \A t \in Tid : hash_func(t) \in Buckets
BY SizeFacts DEF hash_func, Buckets

(* A thread is in the table exactly when it has an area. *)
LEMMA ListedFacts ==
  ASSUME TableExact, NEW t \in Tid
  PROVE  Listed(t) <=> tls[t].size > 0
BY DEF TableExact

LEMMA PagesTyped ==
  ASSUME TypeOK, NEW t \in Tid
  PROVE  /\ PagesOf(t) \subseteq Page
         /\ \A k \in 1 .. Len(tls[t].pages) : tls[t].pages[k] \in PagesOf(t) /\ tls[t].pages[k] \in Page
         /\ \A p \in PagesOf(t) : \E k \in 1 .. Len(tls[t].pages) : tls[t].pages[k] = p
<1>1. tls[t].pages \in Seq(Page)
  BY TypeFacts
<1>2. \A k \in 1 .. Len(tls[t].pages) : tls[t].pages[k] \in Page
  BY <1>1, ElementOfSeq
<1> QED BY <1>2 DEF PagesOf, Elements
-----------------------------------------------------------------------------
(* References *)

RefSeq(t)    == IF call[t].fn = "clone" THEN call[t].area.pages ELSE tls[t].pages
Ref(t, k, p) == /\ k \in 1 .. Cardinality(Page)
                /\ k <= Len(RefSeq(t)) /\ RefSeq(t)[k] = p
                /\ call[t].fn = "destroy" => k > call[t].i

LEMMA RefsAre ==
  ASSUME NEW p
  PROVE  \A t, k : <<t, k>> \in References(p) <=> t \in Tid /\ Ref(t, k, p)
BY DEF References, Ref, RefSeq

LEMMA RefsSet ==
  ASSUME NEW p
  PROVE  References(p) = {x \in Tid \X (1 .. Cardinality(Page)) : Ref(x[1], x[2], p)}
BY DEF References, Ref, RefSeq

LEMMA RefsSetNext ==
  ASSUME NEW p
  PROVE  References(p)' = {x \in Tid \X (1 .. Cardinality(Page)) : Ref(x[1], x[2], p)'}
BY DEF References, Ref, RefSeq

LEMMA RefsPairs ==
  ASSUME NEW p
  PROVE  \A x \in References(p) : \E t \in Tid, k \in 1 .. Cardinality(Page) : x = <<t, k>>
BY DEF References

(* Where a thread refers to a page, the page counts it. *)
LEMMA RefBounds ==
  ASSUME Shape, NEW t \in Tid
  PROVE  /\ RefSeq(t) \in Seq(Page) /\ Distinct(RefSeq(t)) /\ Len(RefSeq(t)) <= Cardinality(Page)
         /\ Len(RefSeq(t)) \in Nat
<1>0. TypeOK /\ AreaSound /\ CallSound
  BY DEF Shape
<1>1. CASE call[t].fn # "clone"
  <2>1. RefSeq(t) = tls[t].pages /\ RefSeq(t) \in Seq(Page)
    BY <1>0, <1>1, TypeFacts DEF RefSeq
  <2>2. Distinct(RefSeq(t))
    BY <1>0, <2>1 DEF AreaSound
  <2> QED BY <2>1, <2>2, FewPages
<1>2. CASE call[t].fn = "clone"
  <2>1. RefSeq(t) = call[t].area.pages /\ RefSeq(t) \in Seq(Page)
    BY <1>0, <1>2, TypeFacts DEF RefSeq
  <2>2. CloneSound(t)
    BY <1>0, <1>2 DEF CallSound, ThreadSound
  <2>3. PICK u \in Tid : u = call[t].from
    BY <2>2 DEF CloneSound
  <2>4. Len(RefSeq(t)) <= Len(tls[u].pages) /\ \A j \in 1 .. Len(RefSeq(t)) : RefSeq(t)[j] = tls[u].pages[j]
    BY <2>1, <2>2, <2>3 DEF CloneSound
  <2>5. Distinct(tls[u].pages) /\ Len(tls[u].pages) \in Nat /\ Len(RefSeq(t)) \in Nat
    BY <1>0, <2>1, TypeFacts DEF AreaSound
  <2>6. Distinct(RefSeq(t))
    BY <2>4, <2>5 DEF Distinct
  <2> QED BY <2>1, <2>6, FewPages
<1> QED BY <1>1, <1>2

LEMMA HeldRefs ==
  ASSUME Shape, NEW t \in Tid, call[t].fn # "clone", NEW k \in 1 .. Len(tls[t].pages),
         call[t].fn = "destroy" => k > call[t].i
  PROVE  <<t, k>> \in References(tls[t].pages[k])
<1>1. RefSeq(t) = tls[t].pages
  BY DEF RefSeq
<1>2. Ref(t, k, tls[t].pages[k])
  BY <1>1, RefBounds, SizeFacts DEF Ref
<1> QED BY <1>2, RefsAre

LEMMA RefCounts ==
  ASSUME TypeOK, RefsSound, NEW p \in Page
  PROVE  /\ page[p].ref = 0 => References(p) = {}
         /\ \A x \in References(p) : page[p].ref > 0
         /\ \A x, y \in References(p) : page[p].ref <= 1 => x = y
<1>1. page[p].ref = Cardinality(References(p)) /\ IsFiniteSet(References(p)) /\ page[p].ref \in Nat
  BY PageTypes DEF RefsSound, RefsExact
<1>2. page[p].ref = 0 <=> References(p) = {}
  BY <1>1, FS_EmptySet
<1>3. page[p].ref = 1 => \E x : References(p) = {x}
  BY <1>1, FS_Singleton
<1> QED BY <1>1, <1>2, <1>3
-----------------------------------------------------------------------------
(* What a step of thread t leaves alone *)

LEMMA KeepTable ==
  ASSUME TableExact, table' = table, \A t \in Tid : tls'[t].size = tls[t].size
  PROVE  TableExact'
BY DEF TableExact, Listed

LEMMA KeepCalls ==
  ASSUME CallSound, NEW t \in Tid, ThreadSound(t)',
         \A u \in Tid : u # t => call'[u] = call[u] /\ tls'[u] = tls[u],
         \A u \in Tid : call[u].fn = "clone" => call[u].from # t
  PROVE  CallSound'
<1> SUFFICES ASSUME NEW u \in Tid, u # t PROVE ThreadSound(u)'
  BY DEF CallSound
<1>1. call'[u] = call[u] /\ tls'[u] = tls[u] /\ ThreadSound(u)
  BY DEF CallSound
<1>2. call[u].fn = "clone" => CloneSound(u)'
  <2> SUFFICES ASSUME call[u].fn = "clone" PROVE CloneSound(u)'
    OBVIOUS
  <2>1. CloneSound(u) /\ call[u].from # t
    BY <1>1 DEF ThreadSound
  <2>2. PICK v \in Tid : v = call[u].from
    BY <2>1 DEF CloneSound
  <2>3. tls'[v] = tls[v] /\ call'[v] = call[v]
    BY <2>1, <2>2
  <2> QED BY <1>1, <2>1, <2>2, <2>3 DEF CloneSound
<1>3. Copies(u) => CopySound(u)'
  BY <1>1 DEF ThreadSound, CopySound, Copies
<1> QED BY <1>1, <1>2, <1>3 DEF ThreadSound, Copies

(* A thread that is in a call, or has no area, is not being cloned. *)
LEMMA NotCloned ==
  ASSUME CallSound, NEW t \in Tid, call[t].fn # "none" \/ ~(tls[t].size > 0)
  PROVE  \A u \in Tid : call[u].fn = "clone" => call[u].from # t
BY DEF CallSound, ThreadSound, CloneSound

LEMMA KeepAlone ==
  ASSUME Alone, NEW t \in Tid, \A u \in Tid : u # t => call'[u] = call[u],
         call'[t].fn \in {"clone", "destroy"} => call[t].fn \in {"clone", "destroy"} \/ MayChange
  PROVE  Alone'
BY DEF Alone, MayChange

LEMMA KeepApart ==
  ASSUME Apart, \A u \in Tid : Copies(u)' => Copies(u) /\ tls'[u] = tls[u]
  PROVE  Apart'
BY DEF Apart, PagesOf

LEMMA KeepRefs ==
  ASSUME RefsSound, \A p \in Page : page'[p].ref = page[p].ref,
         \A u \in Tid : \A k, p : Ref(u, k, p)' <=> Ref(u, k, p)
  PROVE  RefsSound'
<1>1. ASSUME NEW p \in Page PROVE References(p)' = References(p)
  <2>1. References(p) = {x \in Tid \X (1 .. Cardinality(Page)) : Ref(x[1], x[2], p)}
    BY RefsSet
  <2>2. References(p)' = {x \in Tid \X (1 .. Cardinality(Page)) : Ref(x[1], x[2], p)'}
    BY RefsSetNext
  <2>3. \A x \in Tid \X (1 .. Cardinality(Page)) : Ref(x[1], x[2], p)' <=> Ref(x[1], x[2], p)
    OBVIOUS
  <2> QED BY <2>1, <2>2, <2>3
<1> QED BY <1>1 DEF RefsSound, RefsExact

LEMMA KeepContents ==
  ASSUME TypeOK, AreaSound, Contents, UNCHANGED <<tls, want>>,
         \A u \in Tid : call[u].fn = "destroy" => call'[u].fn = "destroy",
         \A u \in Tid : call'[u].fn # "destroy" => \A p \in PagesOf(u) : page'[p].mem = page[p].mem
  PROVE  Contents'
<1> SUFFICES ASSUME NEW t \in Tid, tls[t].size > 0, call'[t].fn # "destroy",
                    NEW a \in 0 .. tls[t].size - 1
             PROVE  /\ Len(want[t]) = tls[t].size
                    /\ a \div PageSize < Len(tls[t].pages) =>
                         page'[tls[t].pages[a \div PageSize + 1]].mem[a % PageSize] = want[t][a + 1]
  <2>1. \A t \in Tid : tls[t].size > 0 => 0 \in 0 .. tls[t].size - 1
    BY TypeFacts
  <2> QED BY <2>1 DEF Contents, Holds
<1>1. a \in Nat /\ a < tls[t].size /\ tls[t].size \in Nat
  BY TypeFacts
<1>2. a \div PageSize < Len(tls[t].pages) => a \div PageSize + 1 \in 1 .. Len(tls[t].pages)
  BY <1>1, DivFacts, TypeFacts
<1>3. Holds(t)
  BY DEF Contents
<1>4. a \div PageSize < Len(tls[t].pages) => tls[t].pages[a \div PageSize + 1] \in PagesOf(t)
  BY <1>2, PagesTyped
<1> QED BY <1>3, <1>4 DEF Holds

LEMMA KeepReads ==
  ASSUME ReadsOwn, NEW t \in Tid,
         \A u \in Tid : u # t => call'[u] = call[u] /\ want'[u] = want[u] /\ tls'[u] = tls[u],
         call'[t].fn # "read"
  PROVE  ReadsOwn'
BY DEF ReadsOwn

LEMMA KeepHandler ==
  ASSUME HandlerRight, NEW t \in Tid, Alive(t), \A u \in Tid : u # t => call'[u] = call[u],
         dead \subseteq Tid, UNCHANGED <<dead, crashed>>
  PROVE  HandlerRight'
BY DEF HandlerRight, CallsSurvive, Alive

LEMMA KeepPages ==
  ASSUME Pages, NEW t \in Tid, page' = page,
         \A u \in Tid : u # t => call'[u] = call[u] /\ tls'[u] = tls[u],
         Copies(t)' <=> Copies(t), Copies(t) => tls'[t] = tls[t],
         \A k, p : Ref(t, k, p)' <=> Ref(t, k, p)
  PROVE  Pages'
<1>1. \A u \in Tid : (Copies(u)' <=> Copies(u)) /\ (Copies(u) => tls'[u] = tls[u])
  BY DEF Copies
<1>2. \A u \in Tid : \A k, p : Ref(u, k, p)' <=> Ref(u, k, p)
  <2>1. ASSUME NEW u \in Tid, u # t PROVE \A k, p : Ref(u, k, p)' <=> Ref(u, k, p)
    <3>1. RefSeq(u)' = RefSeq(u) /\ call'[u] = call[u]
      BY <2>1 DEF RefSeq
    <3> QED BY <3>1 DEF Ref
  <2> QED BY <2>1
<1>3. RefsSound'
  BY <1>2, KeepRefs DEF Pages
<1>4. Apart'
  BY <1>1, KeepApart DEF Pages
<1>5. OpenSound' /\ PagesClosed'
  BY <1>1 DEF Pages, OpenSound, PagesClosed, PagesOf, Copies
<1> QED BY <1>3, <1>4, <1>5 DEF Pages

LEMMA Facts ==
  ASSUME TlsInv
  PROVE  /\ TypeOK /\ TableExact /\ AreaSound /\ CallSound /\ Alone
         /\ RefsSound /\ Apart /\ OpenSound /\ PagesClosed
         /\ Contents /\ ReadsOwn /\ HandlerRight /\ Shape /\ Pages /\ dead \subseteq Tid
BY DEF TlsInv, Shape, Pages, TypeOK

Call == [fn : {"none", "clone", "destroy", "read", "write"}, i : Nat, off : Nat,
         len : Nat, buf : Seq(Byte), from : Nat, area : Area]
-----------------------------------------------------------------------------
(* tls_clone *)

LEMMA CloneStep ==
  ASSUME TlsInv, NEW t \in Tid, NEW u \in Tid, tls_clone(t, u), Serial
  PROVE  TlsInv'
<1>0. /\ UNCHANGED <<table, tls, page, dead, crashed, want>> /\ call[t].fn = "none" /\ Alive(t) /\ MayChange
      /\ tls[u].size > 0 /\ ~(tls[t].size > 0) /\ call \in [Tid -> Call]
  BY Facts, ListedFacts DEF tls_clone, Idle, TypeOK, Call
<1> DEFINE c == [NoCall EXCEPT !.fn = "clone", !.from = u, !.area = [size |-> tls[u].size, pages |-> <<>>]]
<1>1. c \in Call /\ c.fn = "clone" /\ c.i = 0 /\ c.from = u /\ c.area.size = tls[u].size /\ c.area.pages = <<>>
  <2>1. [size |-> tls[u].size, pages |-> <<>>] \in Area /\ u \in Nat
    BY Facts, TypeFacts, EmptySeq, SizeFacts DEF Area
  <2>2. NoCall \in Call /\ NoCall.i = 0
    BY NoCallType DEF Call, NoCall
  <2> QED BY <2>1, <2>2 DEF Call
<1>2. call'[t] = c /\ \A v \in Tid : v # t => call'[v] = call[v]
  BY <1>0 DEF tls_clone
<1>3. TypeOK'
  <2>1. call' \in [Tid -> Call]
    BY <1>0, <1>1 DEF tls_clone
  <2> QED BY <1>0, <2>1, Facts DEF TypeOK, Call
<1> HIDE DEF c
<1>4. call[u].fn = "none"
  <2> SUFFICES ASSUME call[u].fn # "none" PROVE FALSE
    OBVIOUS
  <2>1. Works(u) = u
    BY <1>0 DEF Works, MayChange
  <2> QED BY <2>1 DEF tls_clone, May
<1>5. Shape'
  <2>1. TableExact' /\ AreaSound'
    BY <1>0, Facts, KeepTable DEF AreaSound
  <2>2. Alone'
    BY <1>0, <1>2, Facts, KeepAlone
  <2>3. CloneSound(t)'
    <3>1. Len(tls[u].pages) \in Nat /\ Len(c.area.pages) = 0
      BY <1>1, Facts, TypeFacts
    <3>2. u # t /\ tls[t].size = 0
      BY <1>0, Facts, TypeFacts
    <3> QED BY <1>0, <1>1, <1>2, <1>4, <3>1, <3>2 DEF CloneSound
  <2>4. ThreadSound(t)'
    BY <1>1, <1>2, <2>3 DEF ThreadSound, Copies
  <2>5. CallSound'
    BY <1>0, <1>2, <2>4, Facts, NotCloned, KeepCalls
  <2> QED BY <1>3, <2>1, <2>2, <2>5 DEF Shape
<1>6. Pages'
  <2>1. tls[t].pages = <<>> /\ Len(tls[t].pages) = 0
    BY <1>0, Facts, TypeFacts DEF AreaSound
  <2>2. \A k, p : Ref(t, k, p)' <=> Ref(t, k, p)
    BY <1>0, <1>1, <1>2, <2>1, SizeFacts DEF Ref, RefSeq
  <2>3. ~Copies(t) /\ ~Copies(t)'
    BY <1>0, <1>1, <1>2 DEF Copies
  <2> QED BY <1>0, <1>2, <2>2, <2>3, Facts, KeepPages
<1>7. Contents'
  BY <1>0, <1>1, <1>2, Facts, KeepContents
<1>8. ReadsOwn' /\ HandlerRight'
  BY <1>0, <1>1, <1>2, Facts, KeepReads, KeepHandler
<1> QED BY <1>5, <1>6, <1>7, <1>8 DEF TlsInv

LEMMA DestroyStep ==
  ASSUME TlsInv, NEW t \in Tid, tls_destroy(t), Serial
  PROVE  TlsInv'
<1>0. /\ UNCHANGED <<table, tls, page, dead, crashed, want>> /\ call[t].fn = "none" /\ Alive(t) /\ MayChange
      /\ tls[t].size > 0 /\ call \in [Tid -> Call] /\ call[t] = NoCall
  BY Facts, ListedFacts DEF tls_destroy, Idle, TypeOK, Call, CallSound, ThreadSound
<1>1. /\ call'[t] \in Call /\ call'[t].fn = "destroy" /\ call'[t].i = 0
      /\ \A v \in Tid : v # t => call'[v] = call[v]
  <2>1. call'[t] = [NoCall EXCEPT !.fn = "destroy"] /\ \A v \in Tid : v # t => call'[v] = call[v]
    BY <1>0 DEF tls_destroy
  <2>2. NoCall \in Call /\ NoCall.i = 0
    BY NoCallType DEF Call, NoCall
  <2> QED BY <2>1, <2>2 DEF Call
<1>3. TypeOK'
  <2>1. call' \in [Tid -> Call]
    BY <1>0, <1>1 DEF tls_destroy
  <2> QED BY <1>0, <2>1, Facts DEF TypeOK, Call
<1>5. Shape'
  <2>1. TableExact' /\ AreaSound'
    BY <1>0, Facts, KeepTable DEF AreaSound
  <2>2. Alone'
    BY <1>0, <1>1, Facts, KeepAlone
  <2>3. 0 <= Len(tls[t].pages)
    BY Facts, TypeFacts
  <2>4. ThreadSound(t)'
    BY <1>0, <1>1, <2>3 DEF ThreadSound, Copies
  <2>5. \A u \in Tid : call[u].fn # "clone"
    BY <1>0 DEF MayChange
  <2>6. CallSound'
    BY <1>0, <1>1, <2>4, <2>5, Facts, KeepCalls
  <2> QED BY <1>3, <2>1, <2>2, <2>6 DEF Shape
<1>6. Pages'
  <2>1. \A k, p : Ref(t, k, p)' <=> Ref(t, k, p)
    BY <1>0, <1>1, SizeFacts DEF Ref, RefSeq
  <2>2. ~Copies(t) /\ ~Copies(t)'
    BY <1>0, <1>1 DEF Copies
  <2> QED BY <1>0, <1>1, <2>1, <2>2, Facts, KeepPages
<1>7. Contents'
  BY <1>0, <1>1, Facts, KeepContents
<1>8. ReadsOwn' /\ HandlerRight'
  BY <1>0, <1>1, Facts, KeepReads, KeepHandler
<1> QED BY <1>5, <1>6, <1>7, <1>8 DEF TlsInv
-----------------------------------------------------------------------------
(* The handler, tls_read *)

(* A stray access ends the thread that makes it: the page is in an area that
   is in the table. *)
LEMMA StrayStep ==
  ASSUME TlsInv, NEW t \in Tid, NEW p \in Page, stray(t, p)
  PROVE  TlsInv'
<1>0. /\ UNCHANGED <<table, tls, page, call, want>> /\ Idle(t) /\ Undisturbed /\ page[p].ref > 0
      /\ tls_handle_page_fault(t, p)
  BY DEF stray
<1>1. PICK u \in Tid, k \in 1 .. Cardinality(Page) : <<u, k>> \in References(p)
  <2>1. References(p) # {}
    BY <1>0, Facts, FS_EmptySet DEF RefsSound, RefsExact
  <2> QED BY <2>1, RefsPairs
<1>2. Ref(u, k, p)
  BY <1>1, RefsAre
<1>3. \E v \in Tid : p \in PagesOf(v)
  <2>1. CASE call[u].fn # "clone"
    BY <1>2, <2>1, Facts, TypeFacts, SizeFacts DEF Ref, RefSeq, PagesOf, Elements
  <2>2. CASE call[u].fn = "clone"
    <3>1. CloneSound(u)
      BY <2>2, Facts DEF CallSound, ThreadSound
    <3>2. PICK v \in Tid : v = call[u].from
      BY <3>1 DEF CloneSound
    <3>3. k <= Len(call[u].area.pages) /\ call[u].area.pages[k] = p /\ k \in Nat /\ k >= 1
      BY <1>2, <2>2, SizeFacts DEF Ref, RefSeq
    <3>4. call[u].i \in Nat /\ Len(tls[v].pages) \in Nat
      BY Facts, TypeFacts
    <3>5. /\ call[u].i <= Len(tls[v].pages) /\ Len(call[u].area.pages) = call[u].i
          /\ \A j \in 1 .. call[u].i : call[u].area.pages[j] = tls[v].pages[j]
      BY <3>1, <3>2 DEF CloneSound
    <3>6. k \in 1 .. Len(tls[v].pages) /\ tls[v].pages[k] = p
      BY <3>3, <3>4, <3>5
    <3> QED BY <3>6 DEF PagesOf, Elements
  <2> QED BY <2>1, <2>2
<1>4. PICK v \in Tid : p \in PagesOf(v)
  BY <1>3
<1>5. tls[v].size > 0
  <2>1. tls[v].pages # <<>>
    BY <1>4, EmptySeq DEF PagesOf, Elements
  <2> QED BY <2>1, Facts, TypeFacts DEF AreaSound
<1>6. v \in Elements(table[hash_func(v)]) /\ hash_func(v) \in Buckets
  BY <1>5, Facts, ListedFacts, HashFacts DEF Listed
<1>7. dead' = dead \cup {t} /\ crashed' = FALSE
  BY <1>0, <1>4, <1>6 DEF tls_handle_page_fault
<1>8. HandlerRight'
  BY <1>0, <1>7, Facts DEF HandlerRight, CallsSurvive, Idle
<1>9. TypeOK'
  BY <1>0, <1>7, Facts DEF TypeOK
<1>10. /\ TableExact' /\ AreaSound' /\ Contents' /\ ReadsOwn' /\ Alone' /\ Apart' /\ OpenSound'
       /\ PagesClosed'
  <2>1. TableExact' /\ AreaSound' /\ Contents'
    BY <1>0, Facts, KeepTable, KeepContents DEF AreaSound
  <2>2. ReadsOwn' /\ Alone'
    BY <1>0, Facts DEF ReadsOwn, Alone
  <2>3. Apart' /\ OpenSound' /\ PagesClosed'
    BY <1>0, Facts DEF Apart, OpenSound, PagesClosed, PagesOf, Copies
  <2> QED BY <2>1, <2>2, <2>3
<1>11. CallSound'
  BY <1>0, Facts DEF CallSound, ThreadSound, CloneSound, CopySound, Copies
<1>12. RefsSound'
  <2>1. \A w \in Tid : \A j, q : Ref(w, j, q)' <=> Ref(w, j, q)
    BY <1>0 DEF Ref, RefSeq
  <2> QED BY <1>0, <2>1, Facts, KeepRefs
<1> QED BY <1>8, <1>9, <1>10, <1>11, <1>12 DEF TlsInv, Shape, Pages

(* While the loop stays on the pages of the area, offset + i has not wrapped. *)
LEMMA NextByte ==
  ASSUME TlsInv, NEW t \in Tid, Copies(t), call[t].i < call[t].len, ~Beyond(t)
  PROVE  /\ At(t) = call[t].off + call[t].i /\ At(t) \in Nat
         /\ At(t) + 1 <= PageSize * Len(tls[t].pages)
         /\ page_index(t) \in 1 .. Len(tls[t].pages) /\ page_offset(t) \in Offsets
         /\ tls[t].pages[page_index(t)] \in Page /\ tls[t].pages[page_index(t)] \in PagesOf(t)
         /\ page[tls[t].pages[page_index(t)]].open
<1>1. CopySound(t)
  BY Facts DEF CallSound, ThreadSound
<1>2. /\ call[t].i \in Nat /\ call[t].off \in Nat /\ call[t].len \in Nat /\ tls[t].size \in Nat
      /\ UintMod \in Nat /\ Len(tls[t].pages) \in Nat /\ PageSize * Len(tls[t].pages) < UintMod
  BY <1>1, Facts, TypeFacts, SizeFacts, SmallPages DEF AreaSound, CopySound
<1>3. call[t].off + call[t].i < UintMod
  <2> DEFINE e == PageSize * Len(tls[t].pages)
  <2>1. e \in Nat
    BY <1>2, SizeFacts
  <2>2. call[t].i = 0 \/ call[t].off + call[t].i <= e
    BY <1>1 DEF CopySound
  <2>3. call[t].off < UintMod
    BY <1>1 DEF CopySound
  <2> HIDE DEF e
  <2>4. e < UintMod
    BY <1>2 DEF e
  <2> QED BY <1>2, <2>1, <2>2, <2>3, <2>4
<1>4. At(t) = call[t].off + call[t].i /\ At(t) \in Nat
  <2>1. call[t].off + call[t].i \in Nat
    BY <1>2
  <2> QED BY <1>3, <2>1, SmallMod DEF At
<1>y. PICK y \in Nat : y = At(t) \div PageSize /\ page_index(t) = y + 1
  BY <1>4, DivFacts DEF page_index
<1>5. page_index(t) \in 1 .. Len(tls[t].pages) /\ y < Len(tls[t].pages)
  <2>1. ~(page_index(t) > Len(tls[t].pages))
    BY DEF Beyond, More, Copies
  <2> QED BY <1>2, <1>y, <2>1
<1>6. page_offset(t) \in Offsets
  BY <1>4, DivFacts DEF page_offset
<1>7. At(t) + 1 <= PageSize * Len(tls[t].pages)
  BY <1>2, <1>4, <1>y, <1>5, PageBound
<1>8. tls[t].pages[page_index(t)] \in Page /\ tls[t].pages[page_index(t)] \in PagesOf(t)
  BY <1>5, Facts, PagesTyped
<1> QED BY <1>4, <1>5, <1>6, <1>7, <1>8, Facts DEF OpenSound

(* The state after the loop has left the pages: the process is gone. *)
LEMMA BeyondStep ==
  ASSUME TlsInv, NEW t \in Tid, lookup_beyond(t)
  PROVE  TlsInv'
<1>0. UNCHANGED <<table, tls, page, call, dead, want>> /\ crashed' = TRUE /\ Beyond(t)
  BY DEF lookup_beyond
<1>1. TypeOK' /\ TableExact' /\ AreaSound' /\ Alone'
  BY <1>0, Facts, KeepTable DEF TypeOK, AreaSound, Alone
<1>2. CallSound'
  BY <1>0, Facts DEF CallSound, ThreadSound, CloneSound, CopySound, Copies
<1>3. RefsSound'
  <2>1. \A w \in Tid : \A j, q : Ref(w, j, q)' <=> Ref(w, j, q)
    BY <1>0 DEF Ref, RefSeq
  <2> QED BY <1>0, <2>1, Facts, KeepRefs
<1>4. Apart' /\ OpenSound' /\ PagesClosed'
  BY <1>0, Facts DEF Apart, OpenSound, PagesClosed, PagesOf, Copies
<1>5. Contents' /\ ReadsOwn'
  BY <1>0, Facts, KeepContents DEF ReadsOwn
<1>6. HandlerRight'
  <2>1. Beyond(t)'
    BY <1>0 DEF Beyond, More, page_index, At
  <2> QED BY <1>0, <2>1, Facts DEF HandlerRight, CallsSurvive
<1> QED BY <1>1, <1>2, <1>3, <1>4, <1>5, <1>6 DEF TlsInv, Shape, Pages

LEMMA ReadByteStep ==
  ASSUME TlsInv, NEW t \in Tid, read_byte(t)
  PROVE  TlsInv'
<1>0. /\ UNCHANGED <<table, tls, page, want>> /\ Alive(t) /\ call[t].fn = "read" /\ call[t].i < call[t].len
      /\ Copies(t) /\ call \in [Tid -> Call] /\ ~Beyond(t)
  BY Facts DEF read_byte, Copying, In, More, Copies, TypeOK, Call
<1> DEFINE b == page[tls[t].pages[page_index(t)]].mem[page_offset(t)]
<1>1. /\ UNCHANGED <<dead, crashed>>
      /\ call' = [call EXCEPT ![t].i = call[t].i + 1, ![t].buf = Append(call[t].buf, b)]
  BY <1>0, NextByte DEF read_byte
<1>2. /\ b \in Byte
      /\ call[t].off + call[t].i + 1 <= tls[t].size => b = want[t][call[t].off + call[t].i + 1]
  <2>1. b \in Byte
    BY <1>0, NextByte, Facts, PageTypes
  <2>2. tls[t].size > 0
    BY <1>0, Facts DEF CallSound, ThreadSound, CopySound
  <2>3. Holds(t)
    BY <1>0, <2>2, Facts DEF Contents
  <2>4. At(t) \in Nat /\ At(t) = call[t].off + call[t].i /\ At(t) \div PageSize < Len(tls[t].pages)
    <3>1. At(t) \in Nat /\ At(t) = call[t].off + call[t].i /\ page_index(t) \in 1 .. Len(tls[t].pages)
      BY <1>0, NextByte
    <3>2. Len(tls[t].pages) \in Nat
      BY Facts, TypeFacts
    <3> QED BY <3>1, <3>2, PageBound DEF page_index
  <2>5. At(t) + 1 <= tls[t].size => At(t) \in 0 .. tls[t].size - 1
    BY <2>4, Facts, TypeFacts
  <2> QED BY <2>1, <2>3, <2>4, <2>5 DEF Holds, page_index, page_offset
<1> HIDE DEF b
<1>3. /\ call'[t] \in Call /\ call'[t].fn = "read" /\ call'[t].i = call[t].i + 1
      /\ call'[t].off = call[t].off /\ call'[t].len = call[t].len
      /\ call'[t].buf = Append(call[t].buf, b)
      /\ \A u \in Tid : u # t => call'[u] = call[u]
  <2>1. call[t] \in Call /\ Append(call[t].buf, b) \in Seq(Byte) /\ call[t].i + 1 \in Nat
    BY <1>0, <1>2, Facts, TypeFacts, AppendProperties
  <2>2. call'[t] = [call[t] EXCEPT !.i = call[t].i + 1, !.buf = Append(call[t].buf, b)]
    BY <1>0, <1>1
  <2> QED BY <1>0, <1>1, <2>1, <2>2 DEF Call
<1>4. TypeOK'
  <2>1. call' \in [Tid -> Call]
    BY <1>0, <1>1, <1>3
  <2> QED BY <1>0, <1>1, <2>1, Facts DEF TypeOK, Call
<1>5. Shape'
  <2>1. TableExact' /\ AreaSound'
    BY <1>0, Facts, KeepTable DEF AreaSound
  <2>2. Alone'
    BY <1>0, <1>3, Facts, KeepAlone
  <2>3. CopySound(t)'
    <3>1. CopySound(t) /\ call[t].i \in Nat /\ call[t].len \in Nat /\ call[t].off \in Nat
      BY <1>0, Facts, TypeFacts DEF CallSound, ThreadSound
    <3>2. call[t].off + (call[t].i + 1) <= PageSize * Len(tls[t].pages)
      <4>1. call[t].off + (call[t].i + 1) = At(t) + 1 /\ At(t) + 1 <= PageSize * Len(tls[t].pages)
        BY <1>0, <3>1, NextByte
      <4> QED BY <4>1
    <3> QED BY <1>0, <1>3, <3>1, <3>2 DEF CopySound
  <2>4. ThreadSound(t)'
    BY <1>3, <2>3 DEF ThreadSound, Copies
  <2>5. CallSound'
    BY <1>0, <1>3, <2>4, Facts, NotCloned, KeepCalls
  <2> QED BY <1>4, <2>1, <2>2, <2>5 DEF Shape
<1>6. Pages'
  <2>1. \A k, p : Ref(t, k, p)' <=> Ref(t, k, p)
    BY <1>0, <1>3 DEF Ref, RefSeq
  <2>2. Copies(t)'
    BY <1>3 DEF Copies
  <2> QED BY <1>0, <1>3, <2>1, <2>2, Facts, KeepPages
<1>7. Contents'
  BY <1>0, <1>3, Facts, KeepContents
<1>8. HandlerRight'
  BY <1>0, <1>1, <1>3, Facts, KeepHandler
<1>9. ReadsOwn'
  <2> SUFFICES ASSUME NEW u \in Tid, call'[u].fn = "read"
               PROVE  /\ Len(call'[u].buf) = call'[u].i
                      /\ \A j \in 1 .. call'[u].i : call'[u].off + j <= tls[u].size =>
                           call'[u].buf[j] = want[u][call'[u].off + j]
    BY <1>0 DEF ReadsOwn
  <2>1. CASE u # t
    BY <1>3, <2>1, Facts DEF ReadsOwn
  <2>2. CASE u = t
    <3>1. /\ Len(call[t].buf) = call[t].i /\ call[t].buf \in Seq(Byte) /\ call[t].i \in Nat /\ call[t].off \in Nat
          /\ \A j \in 1 .. call[t].i : call[t].off + j <= tls[t].size =>
               call[t].buf[j] = want[t][call[t].off + j]
      BY <1>0, Facts, TypeFacts DEF ReadsOwn
    <3>2. /\ Len(Append(call[t].buf, b)) = call[t].i + 1 /\ Append(call[t].buf, b)[call[t].i + 1] = b
          /\ \A j \in 1 .. call[t].i : Append(call[t].buf, b)[j] = call[t].buf[j]
      BY <1>2, <3>1, AppendProperties
    <3>3. ASSUME NEW j \in 1 .. call[t].i + 1, call[t].off + j <= tls[t].size
          PROVE  Append(call[t].buf, b)[j] = want[t][call[t].off + j]
      <4>1. CASE j \in 1 .. call[t].i
        BY <3>1, <3>2, <3>3, <4>1
      <4>2. CASE j = call[t].i + 1
        <5>1. call[t].off + j = call[t].off + call[t].i + 1
          BY <3>1, <4>2
        <5> QED BY <1>2, <3>2, <3>3, <4>2, <5>1
      <4> QED BY <3>1, <4>1, <4>2
    <3> QED BY <1>0, <1>3, <2>2, <3>1, <3>2, <3>3
  <2> QED BY <2>1, <2>2
<1> QED BY <1>5, <1>6, <1>7, <1>8, <1>9 DEF TlsInv

LEMMA ProtectFacts ==
  ASSUME TypeOK, NEW S, NEW o \in BOOLEAN, Protect(S, o)
  PROVE  /\ page' \in [Page -> [ref : Nat, open : BOOLEAN, mem : [Offsets -> Byte]]]
         /\ \A p \in Page : page'[p].ref = page[p].ref /\ page'[p].mem = page[p].mem
         /\ \A p \in Page : p \in S => page'[p].open = o
         /\ \A p \in Page : p \notin S => page'[p] = page[p]
BY DEF TypeOK, Protect

(* tls_read and tls_write begin. *)
LEMMA StartStep ==
  ASSUME TlsInv, Serial, NEW t \in Tid, NEW fn \in {"read", "write"}, NEW off \in Args, NEW len \in Args,
         NEW buf \in Seq(Byte), IF fn = "write" THEN Len(buf) = len ELSE buf = <<>>,
         Start(t, fn, off, len, buf)
  PROVE  TlsInv'
<1>0. /\ UNCHANGED <<table, tls, dead, crashed, want>> /\ call[t].fn = "none" /\ Alive(t)
      /\ tls[t].size > 0 /\ call \in [Tid -> Call] /\ May(t) /\ Protect(PagesOf(t), TRUE)
  BY Facts, ListedFacts DEF Start, Idle, TypeOK, Call
<1>a. /\ off \in Nat /\ len \in Nat /\ off < UintMod /\ len < UintMod
      /\ (off + len) % UintMod <= tls[t].size
  BY SizesAssumption DEF Start, InBounds
<1> DEFINE c == [NoCall EXCEPT !.fn = fn, !.off = off, !.len = len, !.buf = buf]
<1>1. c \in Call /\ c.fn = fn /\ c.i = 0 /\ c.off = off /\ c.len = len /\ c.buf = buf
  <2>1. NoCall \in Call /\ NoCall.i = 0
    BY NoCallType DEF Call, NoCall
  <2> QED BY <1>a, <2>1 DEF Call
<1>2. call'[t] = c /\ \A v \in Tid : v # t => call'[v] = call[v]
  BY <1>0 DEF Start
<1>3. TypeOK'
  <2>1. call' \in [Tid -> Call]
    BY <1>0, <1>1 DEF Start
  <2> QED BY <1>0, <2>1, Facts, ProtectFacts DEF TypeOK, Call
<1> HIDE DEF c
<1>4. \A v \in Tid : call[v].fn # "none" => Works(v) # t /\ PagesOf(Works(v)) \cap PagesOf(t) = {}
  BY <1>0 DEF May
<1>5. \A v \in Tid : call[v].fn = "clone" => call[v].from # t
  BY <1>4 DEF Works
<1>6. Copies(t)' /\ ~Copies(t) /\ \A v \in Tid : v # t => (Copies(v)' <=> Copies(v))
  BY <1>0, <1>1, <1>2 DEF Copies
<1>7. Shape'
  <2>1. TableExact' /\ AreaSound'
    BY <1>0, Facts, KeepTable DEF AreaSound
  <2>2. Alone'
    BY <1>1, <1>2, Facts, KeepAlone
  <2>3. CopySound(t)'
    BY <1>0, <1>a, <1>1, <1>2 DEF CopySound
  <2>4. ThreadSound(t)'
    BY <1>1, <1>2, <2>3 DEF ThreadSound
  <2>5. CallSound'
    BY <1>0, <1>2, <1>5, <2>4, Facts, KeepCalls
  <2> QED BY <1>3, <2>1, <2>2, <2>5 DEF Shape
<1>8. Pages'
  <2>1. RefsSound'
    <3>1. ASSUME NEW u \in Tid PROVE \A k, p : Ref(u, k, p)' <=> Ref(u, k, p)
      <4>1. RefSeq(u)' = RefSeq(u) /\ (call'[u].fn = "destroy" <=> call[u].fn = "destroy")
        BY <1>0, <1>1, <1>2 DEF RefSeq
      <4>2. u # t => call'[u] = call[u]
        BY <1>2
      <4> QED BY <1>0, <1>1, <1>2, <4>1, <4>2 DEF Ref
    <3> QED BY <1>0, <3>1, Facts, KeepRefs, ProtectFacts
  <2>2. \A v \in Tid : PagesOf(v)' = PagesOf(v) /\ PagesOf(v) \subseteq Page
    BY <1>0, Facts, PagesTyped DEF PagesOf
  <2>3. \A v \in Tid : Copies(v) => PagesOf(v) \cap PagesOf(t) = {}
    BY <1>4 DEF Copies, Works
  <2>4. Apart'
    BY <1>6, <2>2, <2>3, Facts DEF Apart
  <2>5. \A p \in Page : page'[p].open <=> p \in PagesOf(t) \/ page[p].open
    BY <1>0, Facts, ProtectFacts
  <2>6. OpenSound'
    BY <1>6, <2>2, <2>5, Facts DEF OpenSound
  <2>7. PagesClosed'
    BY <1>6, <2>2, <2>5, Facts DEF PagesClosed, Copies
  <2> QED BY <2>1, <2>4, <2>6, <2>7 DEF Pages
<1>9. Contents'
  <2>1. \A v \in Tid : \A p \in PagesOf(v) : page'[p].mem = page[p].mem
    BY <1>0, Facts, PagesTyped, ProtectFacts
  <2> QED BY <1>0, <1>2, <2>1, Facts, KeepContents
<1>10. HandlerRight'
  BY <1>0, <1>2, Facts, KeepHandler
<1>11. ReadsOwn'
  <2>1. fn = "read" => Len(buf) = 0 /\ \A j \in 1 .. 0 : FALSE
    BY EmptySeq
  <2> QED BY <1>0, <1>1, <1>2, <2>1, Facts DEF ReadsOwn
<1> QED BY <1>7, <1>8, <1>9, <1>10, <1>11 DEF TlsInv

(* They end. *)
LEMMA CloseStep ==
  ASSUME TlsInv, NEW t \in Tid, close_pages(t)
  PROVE  TlsInv'
<1>0. /\ UNCHANGED <<table, tls, dead, crashed, want>> /\ Copies(t) /\ Alive(t)
      /\ call \in [Tid -> Call] /\ Protect(PagesOf(t), FALSE)
  BY Facts DEF close_pages, In, TypeOK, Call, Copies
<1>1. call'[t] = NoCall /\ NoCall.fn = "none" /\ NoCall.i = 0 /\ \A v \in Tid : v # t => call'[v] = call[v]
  BY <1>0 DEF close_pages, Finish, NoCall
<1>2. TypeOK'
  <2>1. call' \in [Tid -> Call]
    BY <1>0, NoCallType DEF close_pages, Finish, Call
  <2> QED BY <1>0, <2>1, Facts, ProtectFacts DEF TypeOK, Call
<1>3. ~Copies(t)' /\ \A v \in Tid : v # t => (Copies(v)' <=> Copies(v))
  BY <1>1 DEF Copies
<1>4. Shape'
  <2>1. TableExact' /\ AreaSound'
    BY <1>0, Facts, KeepTable DEF AreaSound
  <2>2. Alone'
    BY <1>1, Facts, KeepAlone
  <2>3. ThreadSound(t)'
    BY <1>1, <1>3 DEF ThreadSound
  <2>4. CallSound'
    BY <1>0, <1>1, <2>3, Facts, NotCloned, KeepCalls DEF Copies
  <2> QED BY <1>2, <2>1, <2>2, <2>4 DEF Shape
<1>5. Pages'
  <2>1. RefsSound'
    <3>1. ASSUME NEW u \in Tid PROVE \A k, p : Ref(u, k, p)' <=> Ref(u, k, p)
      <4>1. RefSeq(u)' = RefSeq(u) /\ (call'[u].fn = "destroy" <=> call[u].fn = "destroy")
        BY <1>0, <1>1 DEF RefSeq, Copies
      <4>2. u # t => call'[u] = call[u]
        BY <1>1
      <4> QED BY <1>0, <1>1, <4>1, <4>2 DEF Ref
    <3> QED BY <1>0, <3>1, Facts, KeepRefs, ProtectFacts
  <2>2. \A v \in Tid : PagesOf(v)' = PagesOf(v) /\ PagesOf(v) \subseteq Page
    BY <1>0, Facts, PagesTyped DEF PagesOf
  <2>3. \A v \in Tid : v # t /\ Copies(v) => PagesOf(v) \cap PagesOf(t) = {}
    BY <1>0, Facts DEF Apart
  <2>4. Apart'
    BY <1>3, <2>2, Facts DEF Apart
  <2>5. \A p \in Page : page'[p].open <=> p \notin PagesOf(t) /\ page[p].open
    BY <1>0, Facts, ProtectFacts
  <2>6. OpenSound'
    BY <1>3, <2>2, <2>3, <2>5, Facts DEF OpenSound
  <2>7. PagesClosed'
    BY <1>3, <2>2, <2>5, Facts DEF PagesClosed, Copies
  <2> QED BY <2>1, <2>4, <2>6, <2>7 DEF Pages
<1>6. Contents'
  <2>1. \A v \in Tid : \A p \in PagesOf(v) : page'[p].mem = page[p].mem
    BY <1>0, Facts, PagesTyped, ProtectFacts
  <2> QED BY <1>0, <1>1, <2>1, Facts, KeepContents DEF Copies
<1>7. HandlerRight' /\ ReadsOwn'
  BY <1>0, <1>1, Facts, KeepHandler, KeepReads
<1> QED BY <1>4, <1>5, <1>6, <1>7 DEF TlsInv
-----------------------------------------------------------------------------
(* The lists of the table *)

LEMMA ConsFacts ==
  ASSUME NEW s \in Seq(Tid), NEW t \in Tid, NEW r, r = <<t>> \o s
  PROVE  /\ r \in Seq(Tid) /\ Elements(r) = {t} \cup Elements(s)
         /\ Distinct(s) /\ t \notin Elements(s) => Distinct(r)
<1>1. <<t>> \in Seq(Tid) /\ Len(<<t>>) = 1 /\ <<t>>[1] = t /\ Len(s) \in Nat
  OBVIOUS
<1>2. /\ r \in Seq(Tid) /\ Len(r) = Len(s) + 1 /\ r[1] = t
      /\ \A i \in 1 .. Len(s) : r[i + 1] = s[i]
  BY <1>1, ConcatProperties
<1>3. \A i \in 1 .. Len(r) : i = 1 \/ (i - 1 \in 1 .. Len(s) /\ r[i] = s[i - 1])
  <2>1. \A i \in 1 .. Len(r) : i # 1 => i - 1 \in 1 .. Len(s) /\ (i - 1) + 1 = i
    BY <1>1, <1>2
  <2> QED BY <1>2, <2>1
<1>4. Elements(r) = {t} \cup Elements(s)
  <2>1. \A x \in Elements(r) : x = t \/ x \in Elements(s)
    BY <1>2, <1>3 DEF Elements
  <2>2. \A i \in 1 .. Len(s) : i + 1 \in 1 .. Len(r)
    BY <1>1, <1>2
  <2>3. t \in Elements(r) /\ \A x \in Elements(s) : x \in Elements(r)
    BY <1>1, <1>2, <2>2 DEF Elements
  <2> QED BY <2>1, <2>3
<1>5. ASSUME Distinct(s), t \notin Elements(s), NEW i \in 1 .. Len(r), NEW j \in 1 .. Len(r), r[i] = r[j]
      PROVE  i = j
  <2>1. \A k \in 1 .. Len(s) : s[k] # t
    BY <1>5 DEF Elements
  <2>2. CASE i = 1 \/ j = 1
    BY <1>2, <1>3, <1>5, <2>1, <2>2
  <2>3. CASE i # 1 /\ j # 1
    <3>1. i - 1 = j - 1
      BY <1>3, <1>5, <2>3 DEF Distinct
    <3> QED BY <3>1
  <2> QED BY <2>2, <2>3
<1> QED BY <1>2, <1>4, <1>5 DEF Distinct

(* s without its k-th element *)
Cut(s, k) == SubSeq(s, 1, k - 1) \o SubSeq(s, k + 1, Len(s))

LEMMA CutIs ==
  ASSUME NEW s \in Seq(Tid), NEW k \in 1 .. Len(s)
  PROVE  /\ Cut(s, k) \in Seq(Tid) /\ Len(Cut(s, k)) = Len(s) - 1
         /\ \A i \in 1 .. k - 1 : Cut(s, k)[i] = s[i]
         /\ \A i \in k .. Len(s) - 1 : Cut(s, k)[i] = s[i + 1]
<1>0. Len(s) \in Nat /\ k \in Nat /\ 1 <= k /\ k <= Len(s) /\ \A i \in 1 .. Len(s) : s[i] \in Tid
  BY ElementOfSeq
<1>a. PICK a : a = SubSeq(s, 1, k - 1)
  OBVIOUS
<1>b. PICK b : b = SubSeq(s, k + 1, Len(s))
  OBVIOUS
<1>1. a \in Seq(Tid) /\ Len(a) = k - 1 /\ \A i \in 1 .. k - 1 : a[i] = s[i]
  BY <1>0, <1>a, SubSeqProperties
<1>2. b \in Seq(Tid) /\ Len(b) = Len(s) - k /\ \A i \in 1 .. Len(s) - k : b[i] = s[k + i]
  BY <1>0, <1>b, SubSeqProperties
<1>c. PICK c : c = a \o b
  OBVIOUS
<1>3. c \in Seq(Tid) /\ Len(c) = Len(a) + Len(b)
  BY <1>c, <1>1, <1>2, ConcatProperties
<1>4. \A i \in 1 .. Len(a) + Len(b) : c[i] = IF i <= Len(a) THEN a[i] ELSE b[i - Len(a)]
  BY <1>c, <1>1, <1>2, ConcatProperties
<1>5. Len(a) + Len(b) = Len(s) - 1
  BY <1>0, <1>1, <1>2
<1>6. \A i \in 1 .. k - 1 : c[i] = s[i]
  BY <1>0, <1>1, <1>4, <1>5
<1>7. ASSUME NEW i \in k .. Len(s) - 1 PROVE c[i] = s[i + 1]
  <2>1. /\ i \in 1 .. Len(a) + Len(b) /\ ~(i <= Len(a))
        /\ i - Len(a) \in 1 .. Len(s) - k /\ k + (i - Len(a)) = i + 1
    BY <1>0, <1>1, <1>5
  <2>2. c[i] = b[i - Len(a)]
    BY <1>4, <2>1
  <2> QED BY <1>2, <2>1, <2>2
<1>8. c = Cut(s, k)
  BY <1>a, <1>b, <1>c DEF Cut
<1> QED BY <1>3, <1>5, <1>6, <1>7, <1>8

LEMMA CutFacts ==
  ASSUME NEW s \in Seq(Tid), Distinct(s), NEW k \in 1 .. Len(s)
  PROVE  Cut(s, k) \in Seq(Tid) /\ Elements(Cut(s, k)) = Elements(s) \ {s[k]} /\ Distinct(Cut(s, k))
<1>0. Len(s) \in Nat /\ k \in Nat /\ 1 <= k /\ k <= Len(s)
  OBVIOUS
<1>r. PICK r : r = Cut(s, k)
  OBVIOUS
<1>n. r \in Seq(Tid) /\ Len(r) = Len(s) - 1
  BY <1>r, CutIs
<1>4. /\ \A i \in 1 .. k - 1 : r[i] = s[i]
      /\ \A i \in k .. Len(s) - 1 : r[i] = s[i + 1]
  BY <1>r, CutIs
<1>5. \A i \in 1 .. Len(r) : i \in 1 .. k - 1 \/ i \in k .. Len(s) - 1
  BY <1>0, <1>n
<1>6. Elements(r) = Elements(s) \ {s[k]}
  <2>1. ASSUME NEW i \in 1 .. Len(r) PROVE r[i] \in Elements(s) /\ r[i] # s[k]
    <3>1. CASE i \in 1 .. k - 1
      <4>1. i \in 1 .. Len(s) /\ i # k
        BY <1>0, <3>1
      <4> QED BY <1>4, <3>1, <4>1 DEF Elements, Distinct
    <3>2. CASE i \in k .. Len(s) - 1
      <4>1. i + 1 \in 1 .. Len(s) /\ i + 1 # k
        BY <1>0, <3>2
      <4> QED BY <1>4, <3>2, <4>1 DEF Elements, Distinct
    <3> QED BY <1>5, <3>1, <3>2
  <2>2. ASSUME NEW i \in 1 .. Len(s), s[i] # s[k] PROVE s[i] \in Elements(r)
    <3>1. CASE i < k
      <4>1. i \in 1 .. k - 1 /\ i \in 1 .. Len(r)
        BY <1>0, <1>n, <3>1
      <4> QED BY <1>4, <4>1 DEF Elements
    <3>2. CASE i > k
      <4>1. i - 1 \in k .. Len(s) - 1 /\ i - 1 \in 1 .. Len(r) /\ (i - 1) + 1 = i
        BY <1>0, <1>n, <3>2
      <4>2. r[i - 1] = s[i]
        BY <1>4, <4>1
      <4> QED BY <4>1, <4>2 DEF Elements
    <3> QED BY <1>0, <2>2, <3>1, <3>2
  <2> QED BY <2>1, <2>2 DEF Elements
<1>7. ASSUME NEW i \in 1 .. Len(r), NEW j \in 1 .. Len(r), r[i] = r[j] PROVE i = j
  <2>1. PICK x \in 1 .. Len(s) : r[i] = s[x] /\ x = (IF i \in 1 .. k - 1 THEN i ELSE i + 1)
    <3>1. i \in 1 .. k - 1 => i \in 1 .. Len(s)
      BY <1>0
    <3>2. i \in k .. Len(s) - 1 => i + 1 \in 1 .. Len(s) /\ i \notin 1 .. k - 1
      BY <1>0
    <3> QED BY <1>4, <1>5, <3>1, <3>2
  <2>2. PICK y \in 1 .. Len(s) : r[j] = s[y] /\ y = (IF j \in 1 .. k - 1 THEN j ELSE j + 1)
    <3>1. j \in 1 .. k - 1 => j \in 1 .. Len(s)
      BY <1>0
    <3>2. j \in k .. Len(s) - 1 => j + 1 \in 1 .. Len(s) /\ j \notin 1 .. k - 1
      BY <1>0
    <3> QED BY <1>4, <1>5, <3>1, <3>2
  <2>3. x = y
    BY <1>7, <2>1, <2>2 DEF Distinct
  <2> QED BY <1>0, <1>n, <2>1, <2>2, <2>3
<1>8. Distinct(r)
  BY <1>7 DEF Distinct
<1> QED BY <1>r, <1>n, <1>6, <1>8

LEMMA TableFacts ==
  ASSUME TypeOK, TableExact, NEW h \in Buckets
  PROVE  /\ table[h] \in Seq(Tid) /\ Distinct(table[h])
         /\ \A u \in Elements(table[h]) : u \in Tid /\ hash_func(u) = h
<1>1. table[h] \in Seq(Tid)
  BY DEF TypeOK
<1>2. \A i \in 1 .. Len(table[h]) : table[h][i] \in Tid
  BY <1>1, ElementOfSeq
<1>3. Distinct(table[h])
  BY DEF TableExact, Distinct
<1> QED BY <1>1, <1>2, <1>3 DEF TableExact, Elements

(* The list of t's bucket is replaced, and only t comes or goes. *)
LEMMA ChangeTable ==
  ASSUME TypeOK, TableExact, NEW t \in Tid, NEW r \in Seq(Tid), Distinct(r),
         table' = [table EXCEPT ![hash_func(t)] = r],
         \A u \in Tid : u # t => (u \in Elements(r) <=> u \in Elements(table[hash_func(t)])),
         t \in Elements(r) <=> tls'[t].size > 0,
         \A u \in Tid : u # t => tls'[u] = tls[u]
  PROVE  TableExact' /\ table' \in [Buckets -> Seq(Tid)]
<1>1. PICK h \in Buckets : h = hash_func(t)
  BY HashFacts
<1>2. table \in [Buckets -> Seq(Tid)] /\ table'[h] = r /\ \A g \in Buckets : g # h => table'[g] = table[g]
  BY <1>1 DEF TypeOK
<1>3. \A u \in Elements(r) : u \in Tid /\ hash_func(u) = h
  <2>1. \A u \in Elements(r) : u \in Tid
    BY ElementOfSeq DEF Elements
  <2> QED BY <1>1, <2>1, TableFacts
<1>4. ASSUME NEW g \in Buckets, NEW i \in 1 .. Len(table'[g]), NEW j \in 1 .. Len(table'[g])
      PROVE  hash_func(table'[g][i]) = g /\ (table'[g][i] = table'[g][j] => i = j)
  <2>1. CASE g = h
    BY <1>2, <1>3, <1>4, <2>1 DEF Distinct, Elements
  <2>2. CASE g # h
    BY <1>2, <1>4, <2>2 DEF TableExact
  <2> QED BY <2>1, <2>2
<1>5. ASSUME NEW u \in Tid PROVE Listed(u)' <=> tls'[u].size > 0
  <2>0. PICK g \in Buckets : g = hash_func(u)
    BY HashFacts
  <2>1. Listed(u)' <=> u \in Elements(table'[g])
    BY <2>0 DEF Listed, hash_func
  <2>2. Listed(u) <=> u \in Elements(table[g])
    BY <2>0 DEF Listed
  <2>3. CASE u = t
    BY <1>1, <1>2, <2>0, <2>1, <2>3
  <2>4. CASE u # t
    BY <1>1, <1>2, <2>1, <2>2, <2>4, ListedFacts
  <2> QED BY <2>3, <2>4
<1> QED BY <1>2, <1>4, <1>5 DEF TableExact
-----------------------------------------------------------------------------
(* The references to one page *)

RefOK(p) == page[p].ref = Cardinality(References(p)) /\ IsFiniteSet(References(p))

LEMMA RefSame ==
  ASSUME NEW p, RefOK(p), page'[p].ref = page[p].ref,
         \A u \in Tid : \A j : Ref(u, j, p)' <=> Ref(u, j, p)
  PROVE  RefOK(p)'
<1>1. \A x \in Tid \X (1 .. Cardinality(Page)) : Ref(x[1], x[2], p)' <=> Ref(x[1], x[2], p)
  OBVIOUS
<1>2. References(p)' = References(p)
  BY <1>1, RefsSet, RefsSetNext
<1> QED BY <1>2 DEF RefOK

LEMMA RefAdd ==
  ASSUME NEW p, RefOK(p), page'[p].ref = page[p].ref + 1,
         NEW t \in Tid, NEW k \in 1 .. Cardinality(Page), ~Ref(t, k, p),
         \A u \in Tid, j \in 1 .. Cardinality(Page) : Ref(u, j, p)' <=> Ref(u, j, p) \/ (u = t /\ j = k)
  PROVE  RefOK(p)'
<1>1. \A x \in Tid \X (1 .. Cardinality(Page)) :
        Ref(x[1], x[2], p)' <=> Ref(x[1], x[2], p) \/ x = <<t, k>>
  OBVIOUS
<1>2. References(p)' = References(p) \cup {<<t, k>>} /\ <<t, k>> \notin References(p)
  <2>1. <<t, k>> \in Tid \X (1 .. Cardinality(Page)) /\ <<t, k>> \notin References(p)
    BY RefsAre
  <2> QED BY <1>1, <2>1, RefsSet, RefsSetNext
<1>3. /\ IsFiniteSet(References(p) \cup {<<t, k>>})
      /\ Cardinality(References(p) \cup {<<t, k>>}) = Cardinality(References(p)) + 1
  BY <1>2, FS_AddElement DEF RefOK
<1> QED BY <1>2, <1>3 DEF RefOK

LEMMA RefDrop ==
  ASSUME NEW p, RefOK(p), page'[p].ref = page[p].ref - 1,
         NEW t \in Tid, NEW k \in 1 .. Cardinality(Page), Ref(t, k, p),
         \A u \in Tid, j \in 1 .. Cardinality(Page) : Ref(u, j, p)' <=> Ref(u, j, p) /\ ~(u = t /\ j = k)
  PROVE  RefOK(p)'
<1>1. \A x \in Tid \X (1 .. Cardinality(Page)) :
        Ref(x[1], x[2], p)' <=> Ref(x[1], x[2], p) /\ x # <<t, k>>
  OBVIOUS
<1>2. References(p)' = References(p) \ {<<t, k>>} /\ <<t, k>> \in References(p)
  <2>1. <<t, k>> \in Tid \X (1 .. Cardinality(Page)) /\ <<t, k>> \in References(p)
    BY RefsAre
  <2> QED BY <1>1, <2>1, RefsSet, RefsSetNext
<1>3. /\ IsFiniteSet(References(p) \ {<<t, k>>})
      /\ Cardinality(References(p) \ {<<t, k>>}) = Cardinality(References(p)) - 1
  BY <1>2, FS_RemoveElement DEF RefOK
<1> QED BY <1>2, <1>3 DEF RefOK

LEMMA RefsEach == RefsSound <=> \A p \in Page : RefOK(p)
BY DEF RefsSound, RefsExact, RefOK

LEMMA RefsEachNext == RefsSound' <=> \A p \in Page : RefOK(p)'
BY DEF RefsSound, RefsExact, RefOK

LEMMA KeepHolds ==
  ASSUME TypeOK, AreaSound, NEW t \in Tid, tls[t].size > 0, Holds(t),
         tls'[t] = tls[t], want'[t] = want[t],
         \A p \in PagesOf(t) : page'[p].mem = page[p].mem
  PROVE  Holds(t)'
<1> SUFFICES ASSUME NEW a \in 0 .. tls[t].size - 1
             PROVE  a \div PageSize < Len(tls[t].pages) =>
                      page'[tls[t].pages[a \div PageSize + 1]].mem[a % PageSize] = want[t][a + 1]
  BY DEF Holds
<1> SUFFICES ASSUME a \div PageSize < Len(tls[t].pages)
             PROVE  page'[tls[t].pages[a \div PageSize + 1]].mem[a % PageSize] = want[t][a + 1]
  OBVIOUS
<1>1. a \in Nat /\ a < tls[t].size /\ tls[t].size \in Nat
  BY TypeFacts
<1>2. a \div PageSize + 1 \in 1 .. Len(tls[t].pages)
  BY <1>1, DivFacts, TypeFacts
<1>3. tls[t].pages[a \div PageSize + 1] \in PagesOf(t)
  BY <1>2, PagesTyped
<1> QED BY <1>3 DEF Holds
-----------------------------------------------------------------------------
(* tls_clone goes on. *)

PageRec == [ref : Nat, open : BOOLEAN, mem : [Offsets -> Byte]]

LEMMA RefUpdate ==
  ASSUME page \in [Page -> PageRec], NEW p \in Page, NEW n \in Nat, page' = [page EXCEPT ![p].ref = n]
  PROVE  /\ page' \in [Page -> PageRec] /\ page'[p].ref = n /\ \A q \in Page : q # p => page'[q] = page[q]
         /\ \A q \in Page : page'[q].open = page[q].open /\ page'[q].mem = page[q].mem
<1>1. \A r \in PageRec : /\ [r EXCEPT !.ref = n] \in PageRec /\ [r EXCEPT !.ref = n].ref = n
                          /\ [r EXCEPT !.ref = n].open = r.open /\ [r EXCEPT !.ref = n].mem = r.mem
  BY DEF PageRec
<1>2. page[p] \in PageRec /\ page'[p] = [page[p] EXCEPT !.ref = n] /\ \A q \in Page : q # p => page'[q] = page[q]
  OBVIOUS
<1>3. page' \in [Page -> PageRec]
  BY <1>1, <1>2
<1> QED BY <1>1, <1>2, <1>3

LEMMA ClonePageStep ==
  ASSUME TlsInv, NEW t \in Tid, clone_page(t)
  PROVE  TlsInv'
<1>0. /\ UNCHANGED <<table, tls, dead, crashed, want>> /\ call[t].fn = "clone" /\ Alive(t)
      /\ call \in [Tid -> Call] /\ CloneSound(t) /\ ~Copies(t)
      /\ page \in [Page -> PageRec]
  BY Facts DEF clone_page, In, TypeOK, Call, PageRec, CallSound, ThreadSound, Copies
<1>u. PICK u \in Tid : u = call[t].from
  BY <1>0 DEF CloneSound
<1>i. PICK i \in Nat : i = call[t].i
  BY Facts, TypeFacts
<1>1. i + 1 \in 1 .. Len(tls[u].pages) /\ i < Len(tls[u].pages) /\ u # t /\ Len(tls[u].pages) <= Cardinality(Page)
      /\ call[u].fn = "none" /\ tls[u].size > 0 /\ tls[t].size = 0
  <2>1. i < Len(tls[u].pages) /\ Len(tls[u].pages) \in Nat
    BY <1>u, <1>i, Facts, TypeFacts DEF clone_page
  <2>2. call[u].fn = "none" /\ tls[u].size > 0 /\ tls[t].size = 0
    BY <1>0, <1>u DEF CloneSound
  <2>3. Len(tls[u].pages) <= Cardinality(Page)
    BY <2>2, Facts, RefBounds DEF RefSeq
  <2> QED BY <1>0, <2>1, <2>2, <2>3
<1>p. PICK p \in Page : p = tls[u].pages[i + 1]
  BY <1>1, Facts, PagesTyped
<1>s. PICK s \in Seq(Page) : s = call[t].area.pages
  BY Facts, TypeFacts
<1>2. /\ Len(s) = i /\ \A j \in 1 .. i : s[j] = tls[u].pages[j]
      /\ call[t].area.size = tls[u].size
  BY <1>0, <1>u, <1>i, <1>s DEF CloneSound
<1>3. /\ Append(s, p) \in Seq(Page) /\ Len(Append(s, p)) = i + 1 /\ Append(s, p)[i + 1] = p
      /\ \A j \in 1 .. i : Append(s, p)[j] = s[j]
  BY <1>2, AppendProperties
<1>4. /\ call' = [call EXCEPT ![t].i = i + 1, ![t].area.pages = Append(s, p)]
      /\ page' = [page EXCEPT ![p].ref = page[p].ref + 1]
  BY <1>u, <1>i, <1>p, <1>s DEF clone_page
<1>5. /\ call'[t] \in Call /\ call'[t].fn = "clone" /\ call'[t].i = i + 1 /\ call'[t].from = u
      /\ call'[t].area.size = tls[u].size /\ call'[t].area.pages = Append(s, p)
      /\ \A v \in Tid : v # t => call'[v] = call[v]
  <2>1. call[t] \in Call /\ call[t].area \in Area
    BY <1>0, Facts, TypeFacts
  <2>n. PICK n \in Nat : n = i + 1
    OBVIOUS
  <2>2. PICK r \in Seq(Page) : r = Append(s, p)
    BY <1>3
  <2>3. call' = [call EXCEPT ![t].i = n, ![t].area.pages = r]
    BY <1>4, <2>n, <2>2
  <2>4. call'[t] = [call[t] EXCEPT !.i = n, !.area.pages = r] /\ \A v \in Tid : v # t => call'[v] = call[v]
    BY <1>0, <2>3
  <2>5. /\ call'[t] \in Call /\ call'[t].fn = call[t].fn /\ call'[t].i = n /\ call'[t].from = call[t].from
        /\ call'[t].area.size = call[t].area.size /\ call'[t].area.pages = r
    <3>1. PICK c \in Call : c = call[t]
      BY <2>1
    <3>2. PICK d : d = call'[t]
      OBVIOUS
    <3>3. PICK b \in Area : b = c.area
      BY <2>1, <3>1
    <3>4. PICK a : a = [b EXCEPT !.pages = r]
      OBVIOUS
    <3>5. a \in Area /\ a.size = b.size /\ a.pages = r
      BY <3>4 DEF Area
    <3>6. d = [c EXCEPT !.i = n, !.area = a]
      BY <2>4, <3>1, <3>2, <3>3, <3>4 DEF Call
    <3>7. d \in Call /\ d.fn = c.fn /\ d.i = n /\ d.from = c.from /\ d.area = a
      BY <3>5, <3>6 DEF Call
    <3> QED BY <3>1, <3>2, <3>3, <3>5, <3>7
  <2> QED BY <1>0, <1>u, <1>2, <2>n, <2>2, <2>4, <2>5
<1>6. /\ page'[p].ref = page[p].ref + 1 /\ \A q \in Page : q # p => page'[q] = page[q]
      /\ \A q \in Page : page'[q].open = page[q].open /\ page'[q].mem = page[q].mem
      /\ page' \in [Page -> PageRec]
  <2>1. PICK n \in Nat : n = page[p].ref + 1
    BY <1>0 DEF PageRec
  <2>2. page' = [page EXCEPT ![p].ref = n]
    BY <1>4, <2>1
  <2> QED BY <1>0, <2>1, <2>2, RefUpdate
<1>7. TypeOK'
  <2>1. call' \in [Tid -> Call]
    BY <1>0, <1>4, <1>5
  <2> QED BY <1>0, <1>6, <2>1, Facts DEF TypeOK, Call, PageRec
<1>8. Shape'
  <2>1. TableExact' /\ AreaSound'
    BY <1>0, Facts, KeepTable DEF AreaSound
  <2>2. Alone'
    BY <1>0, <1>5, Facts, KeepAlone
  <2>3. CloneSound(t)'
    <3>1. \A j \in 1 .. i + 1 : Append(s, p)[j] = tls[u].pages[j]
      <4>1. \A j \in 1 .. i + 1 : j \in 1 .. i \/ j = i + 1
        OBVIOUS
      <4> QED BY <1>p, <1>2, <1>3, <4>1
    <3>2. call'[u].fn = "none" /\ i + 1 <= Len(tls[u].pages)
      BY <1>1, <1>5
    <3> QED BY <1>0, <1>1, <1>3, <1>5, <3>1, <3>2 DEF CloneSound
  <2>4. ThreadSound(t)'
    BY <1>5, <2>3 DEF ThreadSound, Copies
  <2>5. CallSound'
    BY <1>0, <1>5, <2>4, Facts, NotCloned, KeepCalls
  <2> QED BY <1>7, <2>1, <2>2, <2>5 DEF Shape
<1>9. Pages'
  <2>0. \A v \in Tid : Copies(v)' <=> Copies(v)
    BY <1>0, <1>5 DEF Copies
  <2>1. \A v \in Tid : \A k, q : v # t => (Ref(v, k, q)' <=> Ref(v, k, q))
    <3>1. ASSUME NEW v \in Tid, v # t PROVE RefSeq(v)' = RefSeq(v) /\ call'[v] = call[v]
      BY <1>0, <1>5, <3>1 DEF RefSeq
    <3> QED BY <3>1 DEF Ref
  <2>2. RefSeq(t) = s /\ RefSeq(t)' = Append(s, p)
    BY <1>0, <1>s, <1>5 DEF RefSeq
  <2>3. \A k, q : Ref(t, k, q) <=> k \in 1 .. Cardinality(Page) /\ k <= i /\ s[k] = q
    BY <1>0, <1>2, <2>2 DEF Ref
  <2>4. \A k, q : Ref(t, k, q)' <=> k \in 1 .. Cardinality(Page) /\ k <= i + 1 /\ Append(s, p)[k] = q
    BY <1>3, <1>5, <2>2 DEF Ref
  <2>5. \A k \in 1 .. Cardinality(Page) : k <= i + 1 <=> k \in 1 .. i \/ k = i + 1
    BY SizeFacts
  <2>6. \A k, q : Ref(t, k, q)' <=> Ref(t, k, q) \/ (k = i + 1 /\ q = p)
    <3>1. i + 1 \in 1 .. Cardinality(Page)
      BY <1>1, SizeFacts, Facts, TypeFacts
    <3>2. \A k \in 1 .. Cardinality(Page) : k <= i <=> k \in 1 .. i
      BY SizeFacts
    <3> QED BY <1>3, <2>3, <2>4, <2>5, <3>1, <3>2
  <2>7. ASSUME NEW q \in Page PROVE RefOK(q)'
    <3>1. RefOK(q)
      BY Facts, RefsEach
    <3>2. CASE q # p
      BY <1>6, <2>1, <2>6, <3>1, <3>2, RefSame
    <3>3. CASE q = p
      <4>1. ~Ref(t, i + 1, p)
        BY <2>3
      <4>2. i + 1 \in 1 .. Cardinality(Page)
        BY <1>1, SizeFacts, Facts, TypeFacts
      <4>3. \A v \in Tid, j \in 1 .. Cardinality(Page) : Ref(v, j, p)' <=> Ref(v, j, p) \/ (v = t /\ j = i + 1)
        BY <2>1, <2>6
      <4> QED BY <1>6, <3>1, <3>3, <4>1, <4>2, <4>3, RefAdd
    <3> QED BY <3>2, <3>3
  <2>8. RefsSound'
    BY <2>7, RefsEachNext
  <2>9. Apart'
    BY <1>0, <2>0, Facts, KeepApart
  <2>10. \A v \in Tid : PagesOf(v)' = PagesOf(v) /\ PagesOf(v) \subseteq Page
    BY <1>0, Facts, PagesTyped DEF PagesOf
  <2>11. OpenSound'
    BY <1>6, <2>0, <2>10, Facts DEF OpenSound
  <2>12. PagesClosed'
    BY <1>6, <2>0, <2>10, Facts DEF PagesClosed, Copies
  <2> QED BY <2>8, <2>9, <2>11, <2>12 DEF Pages
<1>10. Contents'
  <2>1. \A v \in Tid : \A q \in PagesOf(v) : page'[q].mem = page[q].mem
    BY <1>6, Facts, PagesTyped
  <2> QED BY <1>0, <1>5, <2>1, Facts, KeepContents
<1>11. ReadsOwn' /\ HandlerRight'
  BY <1>0, <1>5, Facts, KeepReads, KeepHandler
<1> QED BY <1>8, <1>9, <1>10, <1>11 DEF TlsInv

(* The clone has the pages, and so the bytes, of the area it was made from. *)
LEMMA CloneLinkStep ==
  ASSUME TlsInv, NEW t \in Tid, clone_link(t)
  PROVE  TlsInv'
<1>0. /\ UNCHANGED <<page, dead, crashed>> /\ call[t].fn = "clone" /\ Alive(t)
      /\ call \in [Tid -> Call] /\ tls \in [Tid -> Area] /\ want \in [Tid -> Seq(Byte)] /\ CloneSound(t) /\ ~Copies(t)
  BY Facts DEF clone_link, In, TypeOK, Call, CallSound, ThreadSound, Copies
<1>u. PICK u \in Tid : u = call[t].from
  BY <1>0 DEF CloneSound
<1>1. u # t /\ call[u].fn = "none" /\ tls[u].size > 0 /\ tls[t].size = 0
  BY <1>0, <1>u DEF CloneSound
<1>a. PICK a \in Area : a = call[t].area
  BY Facts, TypeFacts
<1>2. a.size = tls[u].size /\ a.pages = tls[u].pages
  <2>1. /\ a.pages \in Seq(Page) /\ tls[u].pages \in Seq(Page) /\ call[t].i \in Nat
    BY <1>a, Facts, TypeFacts
  <2>2. Len(a.pages) = Len(tls[u].pages) /\ \A j \in 1 .. Len(a.pages) : a.pages[j] = tls[u].pages[j]
    BY <1>0, <1>u, <1>a DEF CloneSound, clone_link
  <2>3. a.pages = tls[u].pages
    BY <2>1, <2>2, SeqEqual
  <2> QED BY <1>0, <1>u, <1>a, <2>3 DEF CloneSound
<1>3. /\ tls'[t] = a /\ want'[t] = want[u] /\ call'[t] = NoCall
      /\ \A v \in Tid : v # t => tls'[v] = tls[v] /\ want'[v] = want[v] /\ call'[v] = call[v]
  BY <1>0, <1>u, <1>a DEF clone_link, Finish
<1>n. NoCall.fn = "none" /\ NoCall.i = 0
  BY DEF NoCall
<1>4. TableExact' /\ table' \in [Buckets -> Seq(Tid)]
  <2>1. PICK h \in Buckets : h = hash_func(t)
    BY HashFacts
  <2>2. t \notin Elements(table[h])
    BY <1>1, <2>1, Facts, ListedFacts DEF Listed
  <2>3. PICK r : r = <<t>> \o table[h]
    OBVIOUS
  <2>4. r \in Seq(Tid) /\ Elements(r) = {t} \cup Elements(table[h]) /\ Distinct(r)
    BY <2>2, <2>3, Facts, TableFacts, ConsFacts
  <2>5. table' = [table EXCEPT ![hash_func(t)] = r]
    BY <2>1, <2>3 DEF clone_link, Link
  <2>6. tls'[t].size > 0
    BY <1>1, <1>2, <1>3
  <2> QED BY <1>3, <2>1, <2>4, <2>5, <2>6, Facts, ChangeTable
<1>5. TypeOK'
  <2>1. call' \in [Tid -> Call]
    BY <1>0, NoCallType DEF clone_link, Finish, Call
  <2>2. tls' \in [Tid -> Area] /\ want' \in [Tid -> Seq(Byte)]
    BY <1>0, <1>u, <1>a DEF clone_link
  <2> QED BY <1>0, <1>4, <2>1, <2>2, Facts DEF TypeOK, Call
<1>6. Shape'
  <2>1. AreaSound'
    BY <1>2, <1>3, Facts DEF AreaSound
  <2>2. Alone'
    BY <1>3, <1>n, Facts, KeepAlone
  <2>3. ThreadSound(t)'
    BY <1>3, <1>n DEF ThreadSound, Copies
  <2>4. CallSound'
    BY <1>0, <1>3, <2>3, Facts, NotCloned, KeepCalls
  <2> QED BY <1>4, <1>5, <2>1, <2>2, <2>4 DEF Shape
<1>7. Pages'
  <2>1. RefSeq(t)' = RefSeq(t)
    BY <1>0, <1>a, <1>3, <1>n DEF RefSeq
  <2>2. \A k, p : Ref(t, k, p)' <=> Ref(t, k, p)
    BY <1>0, <1>3, <1>n, <2>1 DEF Ref
  <2>3. ~Copies(t)'
    BY <1>3, <1>n DEF Copies
  <2> QED BY <1>0, <1>3, <2>2, <2>3, Facts, KeepPages
<1>8. Contents'
  <2> SUFFICES ASSUME NEW v \in Tid, tls'[v].size > 0, call'[v].fn # "destroy" PROVE Holds(v)'
    BY DEF Contents
  <2>1. CASE v = t
    <3>1. Holds(u)
      BY <1>1, Facts DEF Contents
    <3> QED BY <1>0, <1>2, <1>3, <2>1, <3>1 DEF Holds
  <2>2. CASE v # t
    <3>1. Holds(v) /\ tls[v].size > 0
      BY <1>3, <2>2, Facts DEF Contents
    <3> QED BY <1>0, <1>3, <2>2, <3>1, Facts, KeepHolds
  <2> QED BY <2>1, <2>2
<1>9. ReadsOwn' /\ HandlerRight'
  BY <1>0, <1>3, <1>n, Facts, KeepReads, KeepHandler
<1> QED BY <1>6, <1>7, <1>8, <1>9 DEF TlsInv
-----------------------------------------------------------------------------
(* tls_destroy goes on. *)

LEMMA DestroyPageStep ==
  ASSUME TlsInv, NEW t \in Tid, destroy_page(t)
  PROVE  TlsInv'
<1>0. /\ UNCHANGED <<table, tls, dead, crashed, want>> /\ call[t].fn = "destroy" /\ Alive(t)
      /\ call \in [Tid -> Call] /\ ~Copies(t) /\ page \in [Page -> PageRec] /\ tls[t].size > 0
  BY Facts DEF destroy_page, In, TypeOK, Call, PageRec, CallSound, ThreadSound, Copies
<1>i. PICK i \in Nat : i = call[t].i
  BY Facts, TypeFacts
<1>1. i + 1 \in 1 .. Len(tls[t].pages) /\ Len(tls[t].pages) \in Nat
  BY <1>i, Facts, TypeFacts DEF destroy_page
<1>p. PICK p \in Page : p = tls[t].pages[i + 1]
  BY <1>1, Facts, PagesTyped
<1>2. <<t, i + 1>> \in References(p) /\ Ref(t, i + 1, p)
  BY <1>0, <1>i, <1>1, <1>p, Facts, HeldRefs, RefsAre
<1>l. PICK left \in Nat : left = page[p].ref - 1
  <2>1. page[p].ref > 0 /\ page[p].ref \in Nat
    BY <1>2, Facts, RefCounts, PageTypes
  <2> QED BY <2>1
<1>3. page' = [page EXCEPT ![p] = IF left = 0 THEN NoPage ELSE [page[p] EXCEPT !.ref = left]]
  BY <1>i, <1>p, <1>l DEF destroy_page
<1>4. /\ page'[p] \in PageRec /\ page'[p].ref = left /\ \A q \in Page : q # p => page'[q] = page[q]
      /\ left # 0 => page'[p].mem = page[p].mem /\ page'[p].open = page[p].open
      /\ page'[p].open => page[p].open
  <2>1. \A r \in PageRec : /\ [r EXCEPT !.ref = left] \in PageRec /\ [r EXCEPT !.ref = left].ref = left
                           /\ [r EXCEPT !.ref = left].open = r.open /\ [r EXCEPT !.ref = left].mem = r.mem
    BY DEF PageRec
  <2>2. NoPage \in PageRec /\ NoPage.ref = 0 /\ NoPage.open = FALSE
    BY NoPageType DEF PageRec, NoPage
  <2>3. page[p] \in PageRec /\ page'[p] = IF left = 0 THEN NoPage ELSE [page[p] EXCEPT !.ref = left]
    BY <1>0, <1>3
  <2>4. CASE left = 0
    BY <1>0, <1>3, <2>2, <2>3, <2>4
  <2>5. CASE left # 0
    BY <1>0, <1>3, <2>1, <2>3, <2>5
  <2> QED BY <2>4, <2>5
<1>5. /\ call'[t] \in Call /\ call'[t].fn = "destroy" /\ call'[t].i = i + 1
      /\ \A v \in Tid : v # t => call'[v] = call[v]
  <2>1. PICK n \in Nat : n = i + 1
    OBVIOUS
  <2>2. call[t] \in Call /\ call'[t] = [call[t] EXCEPT !.i = n] /\ \A v \in Tid : v # t => call'[v] = call[v]
    BY <1>0, <1>i, <2>1 DEF destroy_page, Loop
  <2>3. call'[t] \in Call /\ call'[t].fn = call[t].fn /\ call'[t].i = n
    BY <2>2 DEF Call
  <2> QED BY <1>0, <2>1, <2>2, <2>3
<1>6. TypeOK'
  <2>1. call' \in [Tid -> Call]
    BY <1>0, <1>5 DEF destroy_page, Loop
  <2>2. page' \in [Page -> PageRec]
    BY <1>0, <1>3, <1>4
  <2> QED BY <1>0, <2>1, <2>2, Facts DEF TypeOK, Call, PageRec
<1>7. Shape'
  <2>1. TableExact' /\ AreaSound'
    BY <1>0, Facts, KeepTable DEF AreaSound
  <2>2. Alone'
    BY <1>0, <1>5, Facts, KeepAlone
  <2>3. i + 1 <= Len(tls[t].pages)
    BY <1>1
  <2>4. ThreadSound(t)'
    BY <1>0, <1>5, <2>3 DEF ThreadSound, Copies
  <2>5. CallSound'
    BY <1>0, <1>5, <2>4, Facts, NotCloned, KeepCalls
  <2> QED BY <1>6, <2>1, <2>2, <2>5 DEF Shape
<1>8. \A v \in Tid : v # t /\ p \in PagesOf(v) => left # 0
  <2> SUFFICES ASSUME NEW v \in Tid, v # t, p \in PagesOf(v), left = 0 PROVE FALSE
    OBVIOUS
  <2>1. PICK k \in 1 .. Len(tls[v].pages) : tls[v].pages[k] = p
    BY Facts, PagesTyped
  <2>2. call[v].fn \notin {"clone", "destroy"}
    BY <1>0, Facts DEF Alone
  <2>3. <<v, k>> \in References(p)
    BY <2>1, <2>2, Facts, HeldRefs
  <2>4. page[p].ref <= 1
    BY <1>l, Facts, PageTypes
  <2>5. <<v, k>> = <<t, i + 1>>
    BY <1>2, <2>3, <2>4, Facts, RefCounts
  <2> QED BY <2>5
<1>9. Pages'
  <2>0. \A v \in Tid : (Copies(v)' <=> Copies(v)) /\ (Copies(v) => v # t)
    BY <1>0, <1>5 DEF Copies
  <2>1. \A v \in Tid : \A k, q : v # t => (Ref(v, k, q)' <=> Ref(v, k, q))
    <3>1. ASSUME NEW v \in Tid, v # t PROVE RefSeq(v)' = RefSeq(v) /\ call'[v] = call[v]
      BY <1>0, <1>5, <3>1 DEF RefSeq
    <3> QED BY <3>1 DEF Ref
  <2>2. RefSeq(t) = tls[t].pages /\ RefSeq(t)' = tls[t].pages
    BY <1>0, <1>5 DEF RefSeq
  <2>3. \A k, q : Ref(t, k, q)' <=> Ref(t, k, q) /\ k # i + 1
    <3>1. \A k \in 1 .. Cardinality(Page) : k > i + 1 <=> k > i /\ k # i + 1
      BY SizeFacts
    <3> QED BY <1>0, <1>i, <1>5, <2>2, <3>1 DEF Ref
  <2>4. \A q : Ref(t, i + 1, q) => q = p
    BY <1>p, <2>2 DEF Ref
  <2>5. ASSUME NEW q \in Page PROVE RefOK(q)'
    <3>1. RefOK(q)
      BY Facts, RefsEach
    <3>2. CASE q # p
      <4>1. \A v \in Tid : \A k : Ref(v, k, q)' <=> Ref(v, k, q)
        BY <2>1, <2>3, <2>4, <3>2
      <4> QED BY <1>4, <3>1, <3>2, <4>1, RefSame
    <3>3. CASE q = p
      <4>1. i + 1 \in 1 .. Cardinality(Page)
        BY <1>2 DEF Ref
      <4>2. \A v \in Tid, j \in 1 .. Cardinality(Page) : Ref(v, j, p)' <=> Ref(v, j, p) /\ ~(v = t /\ j = i + 1)
        BY <2>1, <2>3
      <4>3. page'[p].ref = page[p].ref - 1
        BY <1>l, <1>4
      <4> QED BY <1>2, <3>1, <3>3, <4>1, <4>2, <4>3, RefDrop
    <3> QED BY <3>2, <3>3
  <2>6. RefsSound'
    BY <2>5, RefsEachNext
  <2>7. Apart'
    BY <1>0, <2>0, Facts, KeepApart
  <2>8. \A v \in Tid : PagesOf(v)' = PagesOf(v) /\ PagesOf(v) \subseteq Page
    BY <1>0, Facts, PagesTyped DEF PagesOf
  <2>9. OpenSound'
    <3> SUFFICES ASSUME NEW v \in Tid, Copies(v), NEW q \in PagesOf(v) PROVE page'[q].open
      BY <2>0, <2>8 DEF OpenSound
    <3>1. q \in Page /\ page[q].open /\ v # t
      BY <2>0, <2>8, Facts DEF OpenSound
    <3> QED BY <1>4, <1>8, <3>1
  <2>10. PagesClosed'
    BY <1>4, <2>0, <2>8, Facts DEF PagesClosed, Copies
  <2> QED BY <2>6, <2>7, <2>9, <2>10 DEF Pages
<1>10. Contents'
  <2>1. ASSUME NEW v \in Tid, call'[v].fn # "destroy", NEW q \in PagesOf(v)
        PROVE  page'[q].mem = page[q].mem
    <3>1. v # t /\ q \in Page
      BY <1>5, <2>1, Facts, PagesTyped
    <3> QED BY <1>4, <1>8, <3>1
  <2> QED BY <1>0, <1>5, <2>1, Facts, KeepContents
<1>11. ReadsOwn' /\ HandlerRight'
  BY <1>0, <1>5, Facts, KeepReads, KeepHandler
<1> QED BY <1>7, <1>9, <1>10, <1>11 DEF TlsInv

(* The area is out of the table and no reference is left in it. *)
LEMMA DestroyUnlinkStep ==
  ASSUME TlsInv, NEW t \in Tid, destroy_unlink(t)
  PROVE  TlsInv'
<1>0. /\ UNCHANGED <<page, dead, crashed>> /\ call[t].fn = "destroy" /\ Alive(t) /\ call[t].i = Len(tls[t].pages)
      /\ call \in [Tid -> Call] /\ tls \in [Tid -> Area] /\ want \in [Tid -> Seq(Byte)] /\ ~Copies(t)
  BY Facts DEF destroy_unlink, In, TypeOK, Call, Copies
<1>1. /\ tls'[t] = NoArea /\ want'[t] = <<>> /\ call'[t] = NoCall
      /\ \A v \in Tid : v # t => tls'[v] = tls[v] /\ want'[v] = want[v] /\ call'[v] = call[v]
  BY <1>0 DEF destroy_unlink, Finish
<1>n. /\ NoCall.fn = "none" /\ NoCall.i = 0 /\ NoArea.size = 0 /\ NoArea.pages = <<>> /\ NoArea \in Area
      /\ Len(<<>>) = 0
  BY EmptySeq DEF NoCall, NoArea, Area
<1>2. TableExact' /\ table' \in [Buckets -> Seq(Tid)]
  <2>1. PICK h \in Buckets : h = hash_func(t)
    BY HashFacts
  <2>s. PICK s \in Seq(Tid) : s = table[h]
    BY Facts, TableFacts
  <2>2. PICK k \in 1 .. Len(s) : /\ s[k] = t
                                 /\ table' = [table EXCEPT ![hash_func(t)] =
                                                SubSeq(s, 1, k - 1) \o SubSeq(s, k + 1, Len(s))]
    BY <2>1, <2>s DEF destroy_unlink
  <2>r. PICK r : r = Cut(s, k)
    OBVIOUS
  <2>3. r \in Seq(Tid) /\ Elements(r) = Elements(s) \ {t} /\ Distinct(r)
    <3>1. Distinct(s)
      BY <2>s, Facts, TableFacts
    <3> QED BY <2>2, <2>r, <3>1, CutFacts
  <2>4. table' = [table EXCEPT ![hash_func(t)] = r]
    BY <2>2, <2>r DEF Cut
  <2>5. ~(tls'[t].size > 0)
    BY <1>1, <1>n
  <2>6. \A u \in Tid : u # t => (u \in Elements(r) <=> u \in Elements(table[hash_func(t)]))
    BY <2>1, <2>s, <2>3
  <2>7. t \notin Elements(r)
    BY <2>3
  <2> HIDE <2>2
  <2> QED BY <1>1, <2>3, <2>4, <2>5, <2>6, <2>7, Facts, ChangeTable
<1>3. TypeOK'
  <2>1. call' \in [Tid -> Call]
    BY <1>0, NoCallType DEF destroy_unlink, Finish, Call
  <2>2. tls' \in [Tid -> Area] /\ want' \in [Tid -> Seq(Byte)]
    BY <1>0, <1>n, EmptySeq DEF destroy_unlink
  <2> QED BY <1>0, <1>2, <2>1, <2>2, Facts DEF TypeOK, Call
<1>4. Shape'
  <2>1. AreaSound'
    <3>1. Distinct(<<>>)
      BY <1>n DEF Distinct
    <3> QED BY <1>1, <1>n, <3>1, Facts DEF AreaSound
  <2>2. Alone'
    BY <1>1, <1>n, Facts, KeepAlone
  <2>3. ThreadSound(t)'
    BY <1>1, <1>n DEF ThreadSound, Copies
  <2>4. CallSound'
    BY <1>0, <1>1, <2>3, Facts, NotCloned, KeepCalls
  <2> QED BY <1>2, <1>3, <2>1, <2>2, <2>4 DEF Shape
<1>5. Pages'
  <2>1. \A k \in 1 .. Cardinality(Page) : ~(k <= Len(tls[t].pages) /\ k > call[t].i) /\ ~(k <= 0)
    BY <1>0, SizeFacts, Facts, TypeFacts
  <2>2. \A k, p : ~Ref(t, k, p)
    BY <1>0, <2>1 DEF Ref, RefSeq
  <2>3. \A k, p : ~Ref(t, k, p)'
    BY <1>1, <1>n, <2>1 DEF Ref, RefSeq
  <2>4. ~Copies(t)'
    BY <1>1, <1>n DEF Copies
  <2> QED BY <1>0, <1>1, <2>2, <2>3, <2>4, Facts, KeepPages
<1>6. Contents'
  <2> SUFFICES ASSUME NEW v \in Tid, tls'[v].size > 0, call'[v].fn # "destroy" PROVE Holds(v)'
    BY DEF Contents
  <2>1. v # t
    BY <1>1, <1>n
  <2>2. Holds(v) /\ tls[v].size > 0
    BY <1>1, <2>1, Facts DEF Contents
  <2> QED BY <1>0, <1>1, <2>1, <2>2, Facts, KeepHolds
<1>7. ReadsOwn' /\ HandlerRight'
  BY <1>0, <1>1, <1>n, Facts, KeepReads, KeepHandler
<1> QED BY <1>4, <1>5, <1>6, <1>7 DEF TlsInv
-----------------------------------------------------------------------------
(* tls_create *)

(* A page that is not mapped is in no area that a thread may still look at. *)
LEMMA FreePages ==
  ASSUME TlsInv, NEW p \in Page, page[p].ref = 0
  PROVE  /\ \A u \in Tid : \A k : ~Ref(u, k, p)
         /\ \A u \in Tid : call[u].fn \notin {"clone", "destroy"} => p \notin PagesOf(u)
<1>1. References(p) = {}
  BY Facts, RefCounts
<1>2. \A u \in Tid : \A k : ~Ref(u, k, p)
  BY <1>1, RefsAre
<1>3. ASSUME NEW u \in Tid, call[u].fn \notin {"clone", "destroy"}, p \in PagesOf(u) PROVE FALSE
  <2>1. PICK k \in 1 .. Len(tls[u].pages) : tls[u].pages[k] = p
    BY <1>3, Facts, PagesTyped
  <2>2. <<u, k>> \in References(p)
    BY <1>3, <2>1, Facts, HeldRefs
  <2> QED BY <1>1, <2>2
<1> QED BY <1>2, <1>3

(* The pages of the new area were nobody's, are closed and hold zeros. *)
LEMMA CreateStep ==
  ASSUME TlsInv, NEW t \in Tid, NEW size \in Sizes, tls_create(t, size)
  PROVE  TlsInv'
<1>0. /\ UNCHANGED <<call, dead, crashed>> /\ call[t].fn = "none" /\ Alive(t) /\ MayChange
      /\ call \in [Tid -> Call] /\ tls \in [Tid -> Area] /\ want \in [Tid -> Seq(Byte)] /\ ~Copies(t)
      /\ page \in [Page -> PageRec] /\ call[t] = NoCall /\ size > 0 /\ ~(tls[t].size > 0)
  BY Facts, ListedFacts DEF tls_create, Idle, TypeOK, Call, Copies, PageRec, CallSound, ThreadSound
<1>z. size \in Nat
  BY SizesAssumption
<1>m. PICK m \in Nat : m = page_num(size)
  BY <1>0, <1>z, SmallPages
<1>s. PICK ps \in [1 .. m -> Unmapped] :
        /\ \A i, j \in DOMAIN ps : ps[i] = ps[j] => i = j
        /\ page' = [p \in Page |-> IF p \in Elements(ps) THEN [NoPage EXCEPT !.ref = 1] ELSE page[p]]
        /\ tls' = [tls EXCEPT ![t] = [size |-> size, pages |-> ps]]
  BY <1>m DEF tls_create
<1>1. /\ ps \in Seq(Page) /\ Len(ps) = m /\ Distinct(ps) /\ m <= Cardinality(Page)
      /\ \A p \in Elements(ps) : p \in Page /\ page[p].ref = 0
  <2>1. ps \in [1 .. m -> Page] /\ DOMAIN ps = 1 .. m /\ \A k \in 1 .. m : page[ps[k]].ref = 0
    BY <1>s DEF Unmapped
  <2>2. ps \in Seq(Page) /\ Len(ps) = m
    BY <2>1, SeqDef
  <2>3. Distinct(ps)
    BY <1>s, <2>1, <2>2 DEF Distinct
  <2> QED BY <2>1, <2>2, <2>3, FewPages DEF Elements
<1>x. PICK z : z = [i \in 1 .. size |-> 0]
  OBVIOUS
<1>w. z \in Seq(Byte) /\ Len(z) = size /\ \A i \in 1 .. size : z[i] = 0
  BY <1>x, <1>z, SizeFacts
<1>y. PICK a : a = [size |-> size, pages |-> ps]
  OBVIOUS
<1>a. a \in Area /\ a.size = size /\ a.pages = ps
  BY <1>y, <1>z, <1>1 DEF Area
<1>2. /\ tls'[t] = a /\ want'[t] = z
      /\ \A v \in Tid : v # t => tls'[v] = tls[v] /\ want'[v] = want[v]
  BY <1>0, <1>s, <1>x, <1>y DEF tls_create
<1>n. NoCall.fn = "none"
  BY DEF NoCall
<1>q. PICK new : new = [NoPage EXCEPT !.ref = 1]
  OBVIOUS
<1>N. new \in PageRec /\ new.ref = 1 /\ new.open = FALSE /\ \A o \in Offsets : new.mem[o] = 0
  BY <1>q, NoPageType DEF PageRec, NoPage
<1>3. /\ \A p \in Page : p \in Elements(ps) => page'[p] = new
      /\ \A p \in Page : p \notin Elements(ps) => page'[p] = page[p]
      /\ page' \in [Page -> PageRec]
  BY <1>0, <1>s, <1>q, <1>N
<1>4. TableExact' /\ table' \in [Buckets -> Seq(Tid)]
  <2>1. PICK h \in Buckets : h = hash_func(t)
    BY HashFacts
  <2>2. t \notin Elements(table[h])
    BY <2>1 DEF tls_create, Listed
  <2>3. PICK r : r = <<t>> \o table[h]
    OBVIOUS
  <2>4. r \in Seq(Tid) /\ Elements(r) = {t} \cup Elements(table[h]) /\ Distinct(r)
    BY <2>2, <2>3, Facts, TableFacts, ConsFacts
  <2>5. table' = [table EXCEPT ![hash_func(t)] = r]
    BY <2>1, <2>3 DEF tls_create, Link
  <2>6. tls'[t].size > 0
    BY <1>0, <1>a, <1>2
  <2> QED BY <1>2, <2>1, <2>4, <2>5, <2>6, Facts, ChangeTable
<1>5. TypeOK'
  <2>1. tls' \in [Tid -> Area] /\ want' \in [Tid -> Seq(Byte)]
    BY <1>0, <1>s, <1>a, <1>w, <1>x, <1>y DEF tls_create
  <2> QED BY <1>0, <1>3, <1>4, <2>1, Facts DEF TypeOK, Call, PageRec
<1>6. Shape'
  <2>1. AreaSound'
    <3>1. Len(a.pages) = page_num(a.size) /\ Distinct(a.pages) /\ a.size # 0
      BY <1>0, <1>z, <1>m, <1>1, <1>a
    <3> QED BY <1>2, <3>1, Facts DEF AreaSound
  <2>2. Alone'
    BY <1>0, Facts, KeepAlone
  <2>3. ThreadSound(t)'
    BY <1>0, <1>n DEF ThreadSound, Copies
  <2>4. CallSound'
    BY <1>0, <1>2, <2>3, Facts, NotCloned, KeepCalls
  <2> QED BY <1>4, <1>5, <2>1, <2>2, <2>4 DEF Shape
<1>7. \A v \in Tid : v # t => PagesOf(v) \cap Elements(ps) = {} /\ PagesOf(v)' = PagesOf(v)
  <2>1. \A v \in Tid : call[v].fn \notin {"clone", "destroy"}
    BY <1>0 DEF MayChange
  <2> QED BY <1>1, <1>2, <2>1, FreePages DEF PagesOf
<1>8. Pages'
  <2>0. \A v \in Tid : (Copies(v)' <=> Copies(v)) /\ (Copies(v) => v # t)
    BY <1>0 DEF Copies
  <2>1. \A v \in Tid : \A k, q : v # t => (Ref(v, k, q)' <=> Ref(v, k, q))
    <3>1. ASSUME NEW v \in Tid, v # t PROVE RefSeq(v)' = RefSeq(v) /\ call'[v] = call[v]
      BY <1>0, <1>2, <3>1 DEF RefSeq
    <3> QED BY <3>1 DEF Ref
  <2>2. RefSeq(t) = <<>> /\ RefSeq(t)' = ps
    BY <1>0, <1>n, <1>a, <1>2, Facts, TypeFacts DEF RefSeq, AreaSound
  <2>3. \A k \in 1 .. Cardinality(Page) : ~(k <= Len(<<>>)) /\ (k <= m <=> k \in 1 .. m)
    BY SizeFacts
  <2>4. \A k, q : ~Ref(t, k, q)
    BY <2>2, <2>3 DEF Ref
  <2>5. \A k, q : Ref(t, k, q)' <=> k \in 1 .. Cardinality(Page) /\ k \in 1 .. m /\ ps[k] = q
    BY <1>0, <1>n, <1>1, <2>2, <2>3 DEF Ref
  <2>6. ASSUME NEW q \in Page PROVE RefOK(q)'
    <3>1. RefOK(q)
      BY Facts, RefsEach
    <3>2. CASE q \notin Elements(ps)
      <4>1. \A v \in Tid : \A k : Ref(v, k, q)' <=> Ref(v, k, q)
        BY <1>1, <2>1, <2>4, <2>5, <3>2 DEF Elements
      <4> QED BY <1>3, <3>1, <3>2, <4>1, RefSame
    <3>3. CASE q \in Elements(ps)
      <4>1. PICK k \in 1 .. m : ps[k] = q
        BY <1>1, <3>3 DEF Elements
      <4>2. k \in 1 .. Cardinality(Page)
        BY <1>1, <4>1, SizeFacts
      <4>3. \A j \in 1 .. m : ps[j] = q => j = k
        BY <1>1, <4>1 DEF Distinct
      <4>4. \A v \in Tid, j \in 1 .. Cardinality(Page) : Ref(v, j, q)' <=> Ref(v, j, q) \/ (v = t /\ j = k)
        BY <2>1, <2>4, <2>5, <4>1, <4>3
      <4>5. page'[q].ref = page[q].ref + 1
        <5>1. page'[q].ref = 1 /\ page[q].ref = 0
          BY <1>1, <1>3, <1>N, <3>3
        <5> QED BY <5>1
      <4> QED BY <2>4, <3>1, <4>2, <4>4, <4>5, RefAdd
    <3> QED BY <3>2, <3>3
  <2>7. RefsSound'
    BY <2>6, RefsEachNext
  <2>8. Apart'
    BY <1>2, <2>0, Facts, KeepApart
  <2>9. OpenSound'
    BY <1>3, <1>7, <2>0, Facts, PagesTyped DEF OpenSound
  <2>10. PagesClosed'
    <3> SUFFICES ASSUME NEW q \in Page, page'[q].open
                 PROVE  \E v \in Tid : Copies(v)' /\ q \in PagesOf(v)'
      BY DEF PagesClosed, Copies
    <3>1. page[q].open
      BY <1>3, <1>N
    <3> QED BY <1>7, <2>0, <3>1, Facts DEF PagesClosed, Copies
  <2> QED BY <2>7, <2>8, <2>9, <2>10 DEF Pages
<1>9. Contents'
  <2> SUFFICES ASSUME NEW v \in Tid, tls'[v].size > 0, call'[v].fn # "destroy" PROVE Holds(v)'
    BY DEF Contents
  <2>1. CASE v = t
    <3> SUFFICES ASSUME NEW b \in 0 .. size - 1, b \div PageSize < m
                 PROVE  page'[ps[b \div PageSize + 1]].mem[b % PageSize] = z[b + 1]
      BY <1>1, <1>w, <1>a, <1>2, <2>1 DEF Holds
    <3>1. b \in Nat /\ b < size /\ b + 1 \in 1 .. size
      BY <1>z
    <3>2. b \div PageSize + 1 \in 1 .. m /\ b % PageSize \in Offsets
      BY <3>1, DivFacts, PageBound
    <3>3. ps[b \div PageSize + 1] \in Elements(ps)
      BY <1>1, <3>2 DEF Elements
    <3>4. z[b + 1] = 0
      BY <1>w, <3>1
    <3> QED BY <1>1, <1>3, <1>N, <3>2, <3>3, <3>4
  <2>2. CASE v # t
    <3>1. Holds(v) /\ tls[v].size > 0
      BY <1>0, <1>2, <2>2, Facts DEF Contents
    <3>2. \A p \in PagesOf(v) : page'[p].mem = page[p].mem
      BY <1>3, <1>7, <2>2, Facts, PagesTyped
    <3> QED BY <1>2, <2>2, <3>1, <3>2, Facts, KeepHolds
  <2> QED BY <2>1, <2>2
<1>10. ReadsOwn' /\ HandlerRight'
  BY <1>0, <1>2, <1>n, Facts, KeepReads, KeepHandler
<1> QED BY <1>6, <1>8, <1>9, <1>10 DEF TlsInv
-----------------------------------------------------------------------------
(* tls_write goes on. *)

(* What thread t has written once b is stored at place n. *)
Put(t, n, b) == IF n < tls[t].size THEN [want[t] EXCEPT ![n + 1] = b] ELSE want[t]

(* A byte is stored on the page that holds its place, and nowhere else; s are
   the pages of the area afterwards. *)
PutAt(t, n, b, s) ==
  LET k == n \div PageSize + 1
      r == tls[t].pages
  IN /\ s = tls'[t].pages /\ tls'[t].size = tls[t].size /\ Len(s) = Len(r)
     /\ want'[t] = Put(t, n, b)
     /\ page'[s[k]].mem = [page[r[k]].mem EXCEPT ![n % PageSize] = b]
     /\ \A j \in 1 .. Len(r) : j # k => page'[s[j]].mem = page[r[j]].mem

LEMMA WroteHolds ==
  ASSUME TlsInv, NEW t \in Tid, tls[t].size > 0, Holds(t), NEW n \in Nat, NEW b \in Byte,
         NEW s, PutAt(t, n, b, s)
  PROVE  Holds(t)'
<1>k. PICK k, o : k = n \div PageSize + 1 /\ o = n % PageSize
  OBVIOUS
<1>0. /\ s = tls'[t].pages /\ tls'[t].size = tls[t].size /\ Len(s) = Len(tls[t].pages)
      /\ want'[t] = Put(t, n, b)
      /\ page'[s[k]].mem = [page[tls[t].pages[k]].mem EXCEPT ![o] = b]
      /\ \A j \in 1 .. Len(tls[t].pages) : j # k => page'[s[j]].mem = page[tls[t].pages[j]].mem
  BY <1>k DEF PutAt
<1>1. tls[t].size \in Nat /\ want[t] \in Seq(Byte) /\ Len(want[t]) = tls[t].size
  BY Facts, TypeFacts DEF Holds
<1>2. /\ Len(want'[t]) = tls[t].size
      /\ n < tls[t].size => want'[t][n + 1] = b
      /\ \A i \in 1 .. tls[t].size : i # n + 1 => want'[t][i] = want[t][i]
  <2>1. CASE n < tls[t].size
    <3>1. n + 1 \in 1 .. tls[t].size /\ want'[t] = [want[t] EXCEPT ![n + 1] = b]
      BY <1>0, <1>1, <2>1 DEF Put
    <3> QED BY <1>1, <2>1, <3>1, ExceptSeq
  <2>2. CASE ~(n < tls[t].size)
    BY <1>0, <1>1, <2>2 DEF Put
  <2> QED BY <2>1, <2>2
<1> SUFFICES ASSUME NEW a \in 0 .. tls[t].size - 1, a \div PageSize < Len(tls[t].pages)
             PROVE  page'[s[a \div PageSize + 1]].mem[a % PageSize] = want'[t][a + 1]
  <2>1. Len(want'[t]) = tls[t].size
    BY <1>2
  <2> HIDE <1>2
  <2> QED BY <1>0, <2>1 DEF Holds
<1>3. a \in Nat /\ a < tls[t].size /\ a + 1 \in 1 .. tls[t].size
  BY <1>1
<1>j. PICK j \in 1 .. Len(tls[t].pages) : j = a \div PageSize + 1
  <2>1. Len(tls[t].pages) \in Nat
    BY Facts, TypeFacts
  <2> QED BY <1>3, <2>1, PageBound
<1>4. page[tls[t].pages[j]].mem[a % PageSize] = want[t][a + 1] /\ page[tls[t].pages[j]].mem \in [Offsets -> Byte]
  BY <1>j, Facts, PagesTyped, PageTypes DEF Holds
<1>5. a % PageSize \in Offsets /\ o \in Offsets
  BY <1>k, <1>3, DivFacts
<1>6. CASE a = n
  BY <1>k, <1>0, <1>2, <1>3, <1>j, <1>4, <1>5, <1>6
<1>7. CASE a # n /\ j # k
  <2>1. a + 1 # n + 1
    BY <1>1, <1>3, <1>7
  <2> QED BY <1>0, <1>2, <1>3, <1>j, <1>4, <1>7, <2>1
<1>8. CASE a # n /\ j = k
  <2>1. a + 1 # n + 1
    BY <1>1, <1>3, <1>8
  <2>2. a \div PageSize = n \div PageSize
    BY <1>k, <1>3, <1>j, <1>8, DivFacts
  <2>3. a % PageSize # o
    BY <1>k, <1>3, <1>8, <2>2, SamePlace
  <2>4. want'[t][a + 1] = want[t][a + 1]
    BY <1>2, <1>3, <2>1
  <2>5. page'[s[j]].mem[a % PageSize] = page[tls[t].pages[j]].mem[a % PageSize]
    BY <1>0, <1>4, <1>5, <1>8, <2>3
  <2> QED BY <1>j, <1>4, <2>4, <2>5
<1> QED BY <1>6, <1>7, <1>8

(* What both ways of storing a byte do. *)
LEMMA WriteFacts ==
  ASSUME TlsInv, NEW t \in Tid, write_byte(t)
  PROVE  /\ table' = table /\ UNCHANGED <<dead, crashed>> /\ Alive(t) /\ Copies(t) /\ Copies(t)'
         /\ call[t].fn = "write" /\ call' \in [Tid -> Call] /\ call'[t].fn = "write"
         /\ call'[t].i = call[t].i + 1 /\ call'[t].off = call[t].off /\ call'[t].len = call[t].len
         /\ call'[t].buf = call[t].buf /\ call[t].i < call[t].len
         /\ \A v \in Tid : v # t => call'[v] = call[v]
         /\ want' \in [Tid -> Seq(Byte)] /\ \A v \in Tid : v # t => want'[v] = want[v]
         /\ want'[t] = IF At(t) < tls[t].size THEN [want[t] EXCEPT ![At(t) + 1] = call[t].buf[call[t].i + 1]]
                       ELSE want[t]
         /\ call[t].buf[call[t].i + 1] \in Byte /\ tls[t].size > 0 /\ Holds(t) /\ ~Beyond(t)
         /\ page[tls[t].pages[page_index(t)]].open
<1>0. /\ call[t].fn = "write" /\ Alive(t) /\ Copies(t) /\ call[t].i < call[t].len /\ call[t] \in Call
      /\ call \in [Tid -> Call] /\ want \in [Tid -> Seq(Byte)] /\ table' = table /\ ~Beyond(t)
  BY Facts DEF write_byte, Copying, In, More, Copies, TypeOK, Call
<1>1. page[tls[t].pages[page_index(t)]].open
  BY <1>0, NextByte
<1>2. Loop(t) /\ Wrote(t) /\ UNCHANGED <<dead, crashed>>
  BY <1>1 DEF write_byte
<1>3. CopySound(t)
  BY <1>0, Facts DEF CallSound, ThreadSound
<1>4. Holds(t) /\ tls[t].size > 0
  BY <1>0, <1>3, Facts DEF Contents, CopySound
<1>b. PICK b \in Byte : b = call[t].buf[call[t].i + 1]
  <2>1. call[t].i + 1 \in 1 .. Len(call[t].buf) /\ call[t].buf \in Seq(Byte)
    BY <1>0, <1>3, Facts, TypeFacts DEF CopySound
  <2> QED BY <2>1, ElementOfSeq
<1>n. PICK n \in Nat : n = At(t)
  BY <1>0, NextByte
<1>w. PICK w : w = IF n < tls[t].size THEN [want[t] EXCEPT ![n + 1] = b] ELSE want[t]
  OBVIOUS
<1>5. w \in Seq(Byte) /\ want' = [want EXCEPT ![t] = w]
  <2>1. want[t] \in Seq(Byte) /\ Len(want[t]) = tls[t].size /\ tls[t].size \in Nat
    BY <1>4, Facts, TypeFacts DEF Holds
  <2>2. CASE n < tls[t].size
    <3>1. n + 1 \in 1 .. Len(want[t])
      BY <2>1, <2>2
    <3>2. want' = [want EXCEPT ![t][n + 1] = b]
      BY <1>2, <1>b, <1>n, <2>2 DEF Wrote
    <3> QED BY <1>w, <2>1, <2>2, <3>1, <3>2, ExceptSeq
  <2>3. CASE ~(n < tls[t].size)
    <3>1. want' = want
      BY <1>2, <1>n, <2>3 DEF Wrote
    <3> QED BY <1>0, <1>w, <2>1, <2>3, <3>1
  <2> QED BY <2>2, <2>3
<1>8. /\ want' \in [Tid -> Seq(Byte)] /\ want'[t] = w /\ \A v \in Tid : v # t => want'[v] = want[v]
  BY <1>0, <1>5
<1>m. PICK m \in Nat : m = call[t].i + 1
  BY Facts, TypeFacts
<1>9. call' = [call EXCEPT ![t].i = m]
  BY <1>2, <1>m DEF Loop
<1>10. call'[t] = [call[t] EXCEPT !.i = m] /\ \A v \in Tid : v # t => call'[v] = call[v]
  BY <1>0, <1>9
<1>11. /\ call'[t] \in Call /\ call'[t].fn = "write" /\ call'[t].i = m /\ call'[t].off = call[t].off
       /\ call'[t].len = call[t].len /\ call'[t].buf = call[t].buf
  BY <1>0, <1>10 DEF Call
<1>12. call' \in [Tid -> Call]
  BY <1>0, <1>9, <1>10, <1>11
<1>13. Copies(t)'
  BY <1>11 DEF Copies
<1> HIDE <1>5, <1>9
<1> QED BY <1>0, <1>1, <1>2, <1>4, <1>b, <1>n, <1>w, <1>8, <1>m, <1>10, <1>11, <1>12, <1>13

(* The parts of the invariant that both ways keep. *)
LEMMA WriteKeeps ==
  ASSUME TlsInv, NEW t \in Tid, write_byte(t), tls'[t].size = tls[t].size,
         tls' \in [Tid -> Area], page' \in [Page -> PageRec],
         Len(tls'[t].pages) = Len(tls[t].pages), Distinct(tls'[t].pages),
         \A v \in Tid : v # t => tls'[v] = tls[v]
  PROVE  Shape' /\ ReadsOwn' /\ HandlerRight'
<1>1. TypeOK'
  BY WriteFacts, Facts DEF TypeOK, Call, PageRec
<1>2. TableExact'
  BY WriteFacts, Facts, KeepTable
<1>3. AreaSound'
  <2>1. tls[t].size > 0
    BY WriteFacts
  <2>2. tls[t].size # 0 /\ tls[t].size \in Nat
    BY <2>1, Facts, TypeFacts
  <2> QED BY <2>1, <2>2, Facts DEF AreaSound
<1>4. Alone'
  BY WriteFacts, Facts, KeepAlone
<1>5. CopySound(t)'
  <2>1. CopySound(t) /\ call[t].i \in Nat /\ call[t].len \in Nat /\ call[t].off \in Nat
    BY WriteFacts, Facts, TypeFacts DEF CallSound, ThreadSound
  <2>2. /\ call'[t].i = call[t].i + 1 /\ call'[t].off = call[t].off /\ call'[t].len = call[t].len
        /\ call'[t].buf = call[t].buf /\ call[t].i < call[t].len /\ call[t].fn = "write"
    BY WriteFacts
  <2>3. call[t].off + (call[t].i + 1) <= PageSize * Len(tls[t].pages)
    <3>1. At(t) = call[t].off + call[t].i /\ At(t) + 1 <= PageSize * Len(tls[t].pages)
      BY WriteFacts, NextByte
    <3>2. call[t].off + (call[t].i + 1) = At(t) + 1
      BY <2>1, <3>1
    <3> QED BY <3>1, <3>2
  <2> QED BY <2>1, <2>2, <2>3 DEF CopySound
<1>6. CallSound'
  <2>1. ThreadSound(t)'
    BY <1>5, WriteFacts DEF ThreadSound
  <2>2. call[t].fn # "none" /\ \A v \in Tid : v # t => call'[v] = call[v] /\ tls'[v] = tls[v]
    BY WriteFacts
  <2>3. \A v \in Tid : call[v].fn = "clone" => call[v].from # t
    BY <2>2, Facts, NotCloned
  <2> QED BY <2>1, <2>2, <2>3, Facts, KeepCalls
<1>7. ReadsOwn' /\ HandlerRight'
  <2>1. /\ call'[t].fn # "read" /\ Alive(t) /\ UNCHANGED <<dead, crashed>>
        /\ \A v \in Tid : v # t => call'[v] = call[v] /\ want'[v] = want[v] /\ tls'[v] = tls[v]
    BY WriteFacts
  <2> QED BY <2>1, Facts, KeepReads, KeepHandler
<1> QED BY <1>1, <1>2, <1>3, <1>4, <1>6, <1>7 DEF Shape

(* Nobody else refers to the page: it is changed in place. *)
LEMMA InPlaceStep ==
  ASSUME TlsInv, NEW t \in Tid, write_byte(t), page[tls[t].pages[page_index(t)]].ref <= 1
  PROVE  TlsInv'
<1>1. /\ Copies(t) /\ call[t].fn = "write" /\ call[t].i < call[t].len /\ tls[t].size > 0 /\ Holds(t)
      /\ ~Beyond(t)
  BY WriteFacts
<1>n. PICK n \in Nat : n = At(t)
  BY <1>1, NextByte
<1>k. PICK k \in 1 .. Len(tls[t].pages) : k = page_index(t)
  BY <1>1, NextByte
<1>o. PICK o \in Offsets : o = page_offset(t)
  BY <1>1, NextByte
<1>p. PICK p \in Page : p = tls[t].pages[k]
  BY <1>k, Facts, PagesTyped
<1>b. PICK b \in Byte : b = call[t].buf[call[t].i + 1]
  BY WriteFacts
<1>2. page[p].open /\ page[p].ref <= 1
  BY <1>k, <1>p, WriteFacts
<1>m. PICK m : m = [page[p].mem EXCEPT ![o] = b]
  OBVIOUS
<1>3. m \in [Offsets -> Byte]
  BY <1>m, Facts, PageTypes
<1>4. page' = [page EXCEPT ![p].mem = m] /\ tls' = tls
  <2>1. ~(page[p].ref > 1)
    BY <1>2, Facts, PageTypes
  <2>2. Stored(p, t) = m
    BY <1>o, <1>b, <1>m DEF Stored
  <2> QED BY <1>k, <1>p, <1>2, <2>1, <2>2 DEF write_byte
<1>5. /\ page' \in [Page -> PageRec] /\ page'[p].mem = m /\ page'[p].ref = page[p].ref /\ page'[p].open = page[p].open
      /\ \A q \in Page : q # p => page'[q] = page[q]
  <2>1. page \in [Page -> PageRec] /\ page[p] \in PageRec
    BY Facts DEF TypeOK, PageRec
  <2>2. page'[p] = [page[p] EXCEPT !.mem = m] /\ \A q \in Page : q # p => page'[q] = page[q]
    BY <1>4, <2>1
  <2>3. page'[p] \in PageRec /\ page'[p].mem = m /\ page'[p].ref = page[p].ref /\ page'[p].open = page[p].open
    BY <1>3, <2>1, <2>2 DEF PageRec
  <2>4. page' \in [Page -> PageRec]
    BY <1>4, <2>1, <2>2, <2>3
  <2> QED BY <2>2, <2>3, <2>4
<1>6. Shape' /\ ReadsOwn' /\ HandlerRight'
  <2>1. Distinct(tls[t].pages) /\ tls \in [Tid -> Area]
    BY Facts DEF AreaSound, TypeOK
  <2> QED BY <1>4, <1>5, <2>1, WriteKeeps
<1>7. Pages'
  <2>0. \A v \in Tid : Copies(v)' <=> Copies(v)
    BY WriteFacts DEF Copies
  <2>1. \A v \in Tid : \A j, q : Ref(v, j, q)' <=> Ref(v, j, q)
    <3>1. \A v \in Tid : v # t => call'[v] = call[v]
      BY WriteFacts
    <3>2. call[t].fn = "write" /\ call'[t].fn = "write"
      BY WriteFacts
    <3>3. \A v \in Tid : RefSeq(v)' = RefSeq(v)
      BY <1>4, <3>1, <3>2 DEF RefSeq
    <3>4. \A v \in Tid : v # t => \A j, q : Ref(v, j, q)' <=> Ref(v, j, q)
      BY <3>1, <3>3 DEF Ref
    <3>5. \A j, q : Ref(t, j, q)' <=> Ref(t, j, q)
      BY <3>2, <3>3 DEF Ref
    <3> QED BY <3>4, <3>5
  <2>2. RefsSound'
    BY <1>5, <2>1, Facts, KeepRefs
  <2>3. Apart'
    BY <1>4, <2>0, Facts, KeepApart
  <2>4. \A v \in Tid : PagesOf(v)' = PagesOf(v) /\ PagesOf(v) \subseteq Page
    BY <1>4, Facts, PagesTyped DEF PagesOf
  <2>5. OpenSound' /\ PagesClosed'
    BY <1>5, <2>0, <2>4, Facts DEF OpenSound, PagesClosed, Copies
  <2> QED BY <2>2, <2>3, <2>5 DEF Pages
<1>8. Contents'
  <2> SUFFICES ASSUME NEW v \in Tid, tls'[v].size > 0, call'[v].fn # "destroy" PROVE Holds(v)'
    BY DEF Contents
  <2>1. CASE v = t
    <3>1. \A j \in 1 .. Len(tls[t].pages) : j # k => page'[tls[t].pages[j]].mem = page[tls[t].pages[j]].mem
      <4>1. \A j \in 1 .. Len(tls[t].pages) : j # k => tls[t].pages[j] # p
        BY <1>p, Facts DEF AreaSound, Distinct
      <4> QED BY <1>5, <4>1, Facts, PagesTyped
    <3>2. k = n \div PageSize + 1 /\ o = n % PageSize
      BY <1>n, <1>k, <1>o DEF page_index, page_offset
    <3>3. page'[tls[t].pages[k]].mem = [page[tls[t].pages[k]].mem EXCEPT ![o] = b]
      BY <1>p, <1>m, <1>5
    <3>4. want'[t] = Put(t, n, b)
      BY <1>n, <1>b, WriteFacts DEF Put
    <3>s. PICK s : s = tls[t].pages
      OBVIOUS
    <3>5. s = tls'[t].pages /\ tls'[t].size = tls[t].size /\ Len(s) = Len(tls[t].pages)
      BY <1>4, <3>s
    <3>6. \A j \in 1 .. Len(tls[t].pages) : j # k => page'[s[j]].mem = page[tls[t].pages[j]].mem
      BY <3>1, <3>s
    <3>7. page'[s[k]].mem = [page[tls[t].pages[k]].mem EXCEPT ![o] = b]
      BY <3>3, <3>s
    <3>8. Holds(t)'
      <4>1. PutAt(t, n, b, s)
        BY <3>2, <3>4, <3>5, <3>6, <3>7 DEF PutAt
      <4> QED BY <1>1, <4>1, WroteHolds
    <3> QED BY <2>1, <3>8
  <2>2. CASE v # t
    <3>1. tls[v].size > 0 /\ call'[v] = call[v] /\ want'[v] = want[v] /\ tls'[v] = tls[v]
      BY <1>4, <2>2, WriteFacts
    <3>2. call[v].fn \notin {"clone", "destroy"}
      BY <3>1, Facts DEF CallSound, ThreadSound, CloneSound
    <3>3. p \notin PagesOf(v)
      <4> SUFFICES ASSUME p \in PagesOf(v) PROVE FALSE
        OBVIOUS
      <4>1. PICK j \in 1 .. Len(tls[v].pages) : tls[v].pages[j] = p
        BY Facts, PagesTyped
      <4>2. <<v, j>> \in References(p)
        BY <3>2, <4>1, Facts, HeldRefs
      <4>3. <<t, k>> \in References(p)
        BY <1>1, <1>p, Facts, HeldRefs
      <4>4. <<v, j>> = <<t, k>>
        BY <1>2, <4>2, <4>3, Facts, RefCounts
      <4> QED BY <2>2, <4>4
    <3>4. \A q \in PagesOf(v) : page'[q].mem = page[q].mem
      BY <1>5, <3>3, Facts, PagesTyped
    <3>5. Holds(v)
      BY <3>1, <3>2, Facts DEF Contents
    <3> QED BY <3>1, <3>4, <3>5, Facts, KeepHolds
  <2> QED BY <2>1, <2>2
<1> QED BY <1>6, <1>7, <1>8 DEF TlsInv

(* Others refer to the page: the byte goes into a copy on a page that nobody
   had, and the shared page is closed and loses one reference. *)
LEMMA CopyStep ==
  ASSUME TlsInv, NEW t \in Tid, write_byte(t), ~(page[tls[t].pages[page_index(t)]].ref <= 1)
  PROVE  TlsInv'
<1>1. /\ Copies(t) /\ call[t].fn = "write" /\ call[t].i < call[t].len /\ tls[t].size > 0 /\ Holds(t)
      /\ ~Beyond(t)
  BY WriteFacts
<1>n. PICK n \in Nat : n = At(t)
  BY <1>1, NextByte
<1>s. PICK s \in Seq(Page) : s = tls[t].pages /\ Len(s) \in Nat /\ Len(s) <= Cardinality(Page) /\ Distinct(s)
  BY Facts, TypeFacts, FewPages DEF AreaSound
<1>k. PICK k \in 1 .. Len(s) : k = page_index(t)
  BY <1>1, <1>s, NextByte
<1>o. PICK o \in Offsets : o = page_offset(t)
  BY <1>1, NextByte
<1>p. PICK p \in Page : p = s[k] /\ p \in PagesOf(t)
  BY <1>s, <1>k, Facts, PagesTyped
<1>b. PICK b \in Byte : b = call[t].buf[call[t].i + 1]
  BY WriteFacts
<1>2. page[p].open /\ ~(page[p].ref <= 1) /\ page[p].ref \in Nat
  BY <1>s, <1>k, <1>p, WriteFacts, Facts, PageTypes
<1>m. PICK m : m = [page[p].mem EXCEPT ![o] = b]
  OBVIOUS
<1>3. m \in [Offsets -> Byte]
  BY <1>m, Facts, PageTypes
<1>c. PICK c \in Nat : c = page[p].ref - 1
  BY <1>2
<1>q. PICK q \in Page : /\ page[q].ref = 0
                        /\ page' = [page EXCEPT ![q] = [ref |-> 1, open |-> TRUE, mem |-> m],
                                                ![p].ref = c, ![p].open = FALSE]
                        /\ tls' = [tls EXCEPT ![t].pages[k] = q]
  <2>1. Stored(p, t) = m
    BY <1>o, <1>b, <1>m DEF Stored
  <2> QED BY <1>s, <1>k, <1>p, <1>c, <1>2, <2>1 DEF write_byte, Unmapped, Own
<1>r. PICK r : r = [s EXCEPT ![k] = q]
  OBVIOUS
<1>4. /\ r \in Seq(Page) /\ Len(r) = Len(s) /\ r[k] = q /\ \A j \in 1 .. Len(s) : j # k => r[j] = s[j]
  BY <1>r, ExceptSeq
<1>5. /\ \A v \in Tid : \A j : ~Ref(v, j, q)
      /\ \A v \in Tid : call[v].fn \notin {"clone", "destroy"} => q \notin PagesOf(v)
  BY <1>q, FreePages
<1>6. q # p /\ \A j \in 1 .. Len(s) : s[j] # q
  <2>1. q \notin PagesOf(t)
    BY <1>1, <1>5
  <2> QED BY <1>s, <1>p, <2>1 DEF PagesOf, Elements
<1>7. /\ tls' \in [Tid -> Area] /\ tls'[t].size = tls[t].size /\ tls'[t].pages = r
      /\ \A v \in Tid : v # t => tls'[v] = tls[v]
  <2>1. tls \in [Tid -> Area] /\ tls[t] \in Area
    BY Facts, TypeFacts DEF TypeOK
  <2>2. tls'[t] = [tls[t] EXCEPT !.pages = r] /\ \A v \in Tid : v # t => tls'[v] = tls[v]
    BY <1>q, <1>r, <1>s, <2>1
  <2>3. tls'[t] \in Area /\ tls'[t].size = tls[t].size /\ tls'[t].pages = r
    BY <1>4, <2>1, <2>2 DEF Area
  <2>4. tls' \in [Tid -> Area]
    BY <1>q, <2>1, <2>2, <2>3
  <2> QED BY <2>2, <2>3, <2>4
<1>8. /\ page' \in [Page -> PageRec] /\ page'[q].ref = 1 /\ page'[q].open = TRUE /\ page'[q].mem = m
      /\ page'[p].ref = c /\ page'[p].open = FALSE /\ page'[p].mem = page[p].mem
      /\ \A x \in Page : x # p /\ x # q => page'[x] = page[x]
  <2>1. page \in [Page -> PageRec] /\ page[p] \in PageRec
    BY Facts DEF TypeOK, PageRec
  <2>e. PICK e : e = [ref |-> 1, open |-> TRUE, mem |-> m]
    OBVIOUS
  <2>2. e \in PageRec /\ e.ref = 1 /\ e.open = TRUE /\ e.mem = m
    BY <1>3, <2>e DEF PageRec
  <2>f. PICK f : f = [page[p] EXCEPT !.ref = c, !.open = FALSE]
    OBVIOUS
  <2>3. f \in PageRec /\ f.ref = c /\ f.open = FALSE /\ f.mem = page[p].mem
    BY <2>1, <2>f DEF PageRec
  <2>4. page' = [page EXCEPT ![q] = e, ![p] = f]
    BY <1>q, <1>6, <2>e, <2>f, <2>1
  <2>5. /\ page' \in [Page -> PageRec] /\ page'[q] = e /\ page'[p] = f
        /\ \A x \in Page : x # p /\ x # q => page'[x] = page[x]
    BY <1>6, <2>1, <2>2, <2>3, <2>4
  <2> QED BY <2>2, <2>3, <2>5
<1>9. Distinct(r)
  BY <1>s, <1>4, <1>6 DEF Distinct
<1>10. Shape' /\ ReadsOwn' /\ HandlerRight'
  BY <1>s, <1>4, <1>7, <1>8, <1>9, WriteKeeps
<1>11. /\ \A v \in Tid : Copies(v)' <=> Copies(v)
       /\ \A v \in Tid : v # t => PagesOf(v)' = PagesOf(v)
       /\ \A v \in Tid : PagesOf(v) \subseteq Page
  BY <1>7, WriteFacts, Facts, PagesTyped DEF Copies, PagesOf
<1>12. PagesOf(t)' = (PagesOf(t) \ {p}) \cup {q}
  <2>1. PagesOf(t) = Elements(s) /\ PagesOf(t)' = Elements(r)
    BY <1>s, <1>7 DEF PagesOf
  <2>2. \A j \in 1 .. Len(s) : j # k => s[j] # p
    BY <1>s, <1>p DEF Distinct
  <2>3. \A x : x \in Elements(r) <=> (x \in Elements(s) /\ x # p) \/ x = q
    BY <1>p, <1>4, <2>2 DEF Elements
  <2> QED BY <2>1, <2>3
<1>13. Pages'
  <2>1. \A v \in Tid : \A j, x : v # t => (Ref(v, j, x)' <=> Ref(v, j, x))
    <3>1. \A v \in Tid : v # t => call'[v] = call[v]
      BY WriteFacts
    <3>2. \A v \in Tid : v # t => RefSeq(v)' = RefSeq(v)
      BY <1>7, <3>1 DEF RefSeq
    <3> QED BY <3>1, <3>2 DEF Ref
  <2>2. call[t].fn = "write" /\ call'[t].fn = "write"
    BY WriteFacts
  <2>3. RefSeq(t) = s /\ RefSeq(t)' = r
    BY <1>s, <1>7, <2>2 DEF RefSeq
  <2>4. \A j \in 1 .. Cardinality(Page) : j <= Len(s) <=> j \in 1 .. Len(s)
    BY <1>s, SizeFacts
  <2>5. \A j, x : Ref(t, j, x) <=> j \in 1 .. Cardinality(Page) /\ j \in 1 .. Len(s) /\ s[j] = x
    BY <2>2, <2>3, <2>4 DEF Ref
  <2>6. \A j, x : Ref(t, j, x)' <=> j \in 1 .. Cardinality(Page) /\ j \in 1 .. Len(s) /\ r[j] = x
    BY <1>4, <2>2, <2>3, <2>4 DEF Ref
  <2>7. \A j, x : Ref(t, j, x)' <=> (Ref(t, j, x) /\ j # k) \/ (j = k /\ x = q)
    <3>1. k \in 1 .. Cardinality(Page)
      BY <1>s, SizeFacts
    <3> QED BY <1>4, <2>5, <2>6, <3>1
  <2>8. ASSUME NEW x \in Page PROVE RefOK(x)'
    <3>0. k \in 1 .. Cardinality(Page)
      BY <1>s, SizeFacts
    <3>1. RefOK(x)
      BY Facts, RefsEach
    <3>2. CASE x # p /\ x # q
      <4>1. \A v \in Tid : \A j : Ref(v, j, x)' <=> Ref(v, j, x)
        BY <1>p, <2>1, <2>5, <2>7, <3>2
      <4> QED BY <1>8, <3>1, <3>2, <4>1, RefSame
    <3>3. CASE x = p
      <4>1. Ref(t, k, p)
        BY <1>p, <2>5, <3>0
      <4>2. \A v \in Tid, j \in 1 .. Cardinality(Page) : Ref(v, j, p)' <=> Ref(v, j, p) /\ ~(v = t /\ j = k)
        BY <1>6, <2>1, <2>7
      <4>3. page'[p].ref = page[p].ref - 1
        BY <1>c, <1>8
      <4> QED BY <3>0, <3>1, <3>3, <4>1, <4>2, <4>3, RefDrop
    <3>4. CASE x = q
      <4>1. ~Ref(t, k, q)
        BY <1>5
      <4>2. \A v \in Tid, j \in 1 .. Cardinality(Page) : Ref(v, j, q)' <=> Ref(v, j, q) \/ (v = t /\ j = k)
        BY <1>5, <2>1, <2>7
      <4>3. page'[q].ref = page[q].ref + 1
        BY <1>q, <1>8
      <4> QED BY <3>0, <3>1, <3>4, <4>1, <4>2, <4>3, RefAdd
    <3> QED BY <3>2, <3>3, <3>4
  <2>9. RefsSound'
    BY <2>8, RefsEachNext
  <2>10. \A v \in Tid : Copies(v) /\ v # t => q \notin PagesOf(v) /\ p \notin PagesOf(v)
    <3>1. \A v \in Tid : Copies(v) => call[v].fn \notin {"clone", "destroy"}
      BY DEF Copies
    <3> QED BY <1>1, <1>p, <1>5, <3>1, Facts DEF Apart
  <2>11. Apart'
    BY <1>11, <1>12, <2>10, Facts DEF Apart
  <2>12. OpenSound'
    <3> SUFFICES ASSUME NEW v \in Tid, Copies(v), NEW x \in PagesOf(v)' PROVE page'[x].open
      BY <1>11 DEF OpenSound
    <3>1. CASE v = t
      BY <1>1, <1>8, <1>11, <1>12, <3>1, Facts DEF OpenSound
    <3>2. CASE v # t
      BY <1>8, <1>11, <2>10, <3>2, Facts DEF OpenSound
    <3> QED BY <3>1, <3>2
  <2>13. PagesClosed'
    <3> SUFFICES ASSUME NEW x \in Page, page'[x].open
                 PROVE  \E v \in Tid : Copies(v)' /\ x \in PagesOf(v)'
      BY DEF PagesClosed, Copies
    <3>1. CASE x = q
      BY <1>1, <1>11, <1>12, <3>1
    <3>2. CASE x # q
      <4>1. x # p /\ page[x].open
        BY <1>8, <3>2
      <4>2. PICK v \in Tid : Copies(v) /\ x \in PagesOf(v)
        BY <4>1, Facts DEF PagesClosed, Copies
      <4> QED BY <1>11, <1>12, <4>1, <4>2
    <3> QED BY <3>1, <3>2
  <2> QED BY <2>9, <2>11, <2>12, <2>13 DEF Pages
<1>14. Contents'
  <2> SUFFICES ASSUME NEW v \in Tid, tls'[v].size > 0, call'[v].fn # "destroy" PROVE Holds(v)'
    BY DEF Contents
  <2>1. CASE v = t
    <3>1. \A j \in 1 .. Len(tls[t].pages) : j # k => page'[r[j]].mem = page[tls[t].pages[j]].mem
      <4>1. \A j \in 1 .. Len(s) : j # k => s[j] # p /\ s[j] # q /\ s[j] \in Page
        BY <1>s, <1>p, <1>6, ElementOfSeq DEF Distinct
      <4> QED BY <1>s, <1>4, <1>8, <4>1
    <3>2. k = n \div PageSize + 1 /\ o = n % PageSize
      BY <1>n, <1>k, <1>o DEF page_index, page_offset
    <3>3. page'[r[k]].mem = [page[tls[t].pages[k]].mem EXCEPT ![o] = b]
      BY <1>s, <1>p, <1>m, <1>4, <1>8
    <3>4. want'[t] = Put(t, n, b)
      BY <1>n, <1>b, WriteFacts DEF Put
    <3>5. r = tls'[t].pages /\ tls'[t].size = tls[t].size /\ Len(r) = Len(tls[t].pages)
      BY <1>s, <1>4, <1>7
    <3>6. Holds(t)'
      <4>1. PutAt(t, n, b, r)
        BY <3>1, <3>2, <3>3, <3>4, <3>5 DEF PutAt
      <4> QED BY <1>1, <4>1, WroteHolds
    <3> QED BY <2>1, <3>6
  <2>2. CASE v # t
    <3>1. tls[v].size > 0 /\ call'[v] = call[v] /\ want'[v] = want[v] /\ tls'[v] = tls[v]
      BY <1>7, <2>2, WriteFacts
    <3>2. call[v].fn \notin {"clone", "destroy"}
      BY <3>1, Facts DEF CallSound, ThreadSound, CloneSound
    <3>3. \A x \in PagesOf(v) : page'[x].mem = page[x].mem
      BY <1>5, <1>8, <1>11, <3>2
    <3>4. Holds(v)
      BY <3>1, <3>2, Facts DEF Contents
    <3> QED BY <3>1, <3>3, <3>4, Facts, KeepHolds
  <2> QED BY <2>1, <2>2
<1> QED BY <1>10, <1>13, <1>14 DEF TlsInv

LEMMA WriteByteStep ==
  ASSUME TlsInv, NEW t \in Tid, write_byte(t)
  PROVE  TlsInv'
BY InPlaceStep, CopyStep
-----------------------------------------------------------------------------
(* The specification *)

LEMMA InitTls == Init => TlsInv
<1> SUFFICES ASSUME Init PROVE TlsInv
  OBVIOUS
<1>n. /\ NoCall.fn = "none" /\ NoArea.size = 0 /\ NoArea.pages = <<>> /\ NoArea \in Area
      /\ Len(<<>>) = 0 /\ NoPage.ref = 0 /\ NoPage.open = FALSE
  BY EmptySeq DEF NoCall, NoArea, Area, NoPage
<1>0. /\ \A t \in Tid : tls[t] = NoArea /\ call[t] = NoCall /\ want[t] = <<>>
      /\ \A p \in Page : page[p] = NoPage
      /\ \A h \in Buckets : table[h] = <<>>
      /\ dead = {} /\ crashed = FALSE
  BY DEF Init
<1>1. TypeOK
  <2>1. <<>> \in Seq(Byte) /\ <<>> \in Seq(Tid)
    BY EmptySeq
  <2> QED BY <1>n, <2>1, NoPageType, NoCallType DEF Init, TypeOK
<1>2. TableExact
  <2>1. \A i \in 1 .. 0 : FALSE
    OBVIOUS
  <2>2. \A h \in Buckets : Len(table[h]) = 0 /\ Elements(table[h]) = {}
    BY <1>0, <1>n, <2>1 DEF Elements
  <2> QED BY <1>0, <1>n, <2>1, <2>2, HashFacts DEF TableExact, Listed
<1>3. AreaSound /\ CallSound /\ Alone
  <2>1. Distinct(<<>>)
    BY <1>n DEF Distinct
  <2> QED BY <1>0, <1>n, <2>1 DEF AreaSound, CallSound, ThreadSound, Alone, Copies
<1>4. RefsSound
  <2> SUFFICES ASSUME NEW p \in Page PROVE References(p) = {} /\ page[p].ref = 0
    BY FS_EmptySet DEF RefsSound, RefsExact
  <2>1. \A t \in Tid, k \in 1 .. Cardinality(Page) : ~Ref(t, k, p)
    <3>1. \A t \in Tid : RefSeq(t) = <<>>
      BY <1>0, <1>n DEF RefSeq
    <3>2. \A k \in 1 .. Cardinality(Page) : ~(k <= 0)
      BY SizeFacts
    <3> QED BY <1>n, <3>1, <3>2 DEF Ref
  <2>2. References(p) = {}
    BY <2>1, RefsPairs, RefsAre
  <2> QED BY <1>0, <1>n, <2>2
<1>5. Apart /\ OpenSound /\ PagesClosed /\ Contents /\ ReadsOwn /\ HandlerRight
  BY <1>0, <1>n DEF Apart, OpenSound, PagesClosed, Contents, ReadsOwn, HandlerRight, CallsSurvive, Copies
<1> QED BY <1>1, <1>2, <1>3, <1>4, <1>5 DEF TlsInv, Shape, Pages

LEMMA StutterTls ==
  ASSUME TlsInv, UNCHANGED vars
  PROVE  TlsInv'
<1>0. UNCHANGED <<table, tls, page, call, dead, crashed, want>>
  BY DEF vars
<1>1. TypeOK' /\ TableExact' /\ AreaSound' /\ Alone'
  BY <1>0, Facts, KeepTable DEF TypeOK, AreaSound, Alone
<1>2. CallSound'
  BY <1>0, Facts DEF CallSound, ThreadSound, CloneSound, CopySound, Copies
<1>3. RefsSound'
  <2>1. \A w \in Tid : \A j, q : Ref(w, j, q)' <=> Ref(w, j, q)
    BY <1>0 DEF Ref, RefSeq
  <2> QED BY <1>0, <2>1, Facts, KeepRefs
<1>4. Apart' /\ OpenSound' /\ PagesClosed'
  BY <1>0, Facts DEF Apart, OpenSound, PagesClosed, PagesOf, Copies
<1>5. Contents'
  BY <1>0, Facts, KeepContents
<1>6. ReadsOwn' /\ HandlerRight'
  BY <1>0, Facts DEF ReadsOwn, HandlerRight, CallsSurvive, Beyond, More, page_index, At
<1> QED BY <1>1, <1>2, <1>3, <1>4, <1>5, <1>6 DEF TlsInv, Shape, Pages

LEMMA NextTls ==
  ASSUME Serial, TlsInv, [Next]_vars
  PROVE  TlsInv'
<1>1. CASE UNCHANGED vars
  BY <1>1, StutterTls
<1>2. ASSUME NEW t \in Tid, NEW size \in Sizes, tls_create(t, size) PROVE TlsInv'
  BY <1>2, CreateStep
<1>3. ASSUME NEW t \in Tid, NEW u \in Tid, tls_clone(t, u) PROVE TlsInv'
  BY <1>3, CloneStep
<1>4. ASSUME NEW t \in Tid, clone_page(t) \/ clone_link(t) PROVE TlsInv'
  BY <1>4, ClonePageStep, CloneLinkStep
<1>5. ASSUME NEW t \in Tid, tls_destroy(t) \/ destroy_page(t) \/ destroy_unlink(t) PROVE TlsInv'
  BY <1>5, DestroyStep, DestroyPageStep, DestroyUnlinkStep
<1>6. ASSUME NEW t \in Tid, NEW off \in Args, NEW len \in Args, tls_read(t, off, len) PROVE TlsInv'
  <2>1. <<>> \in Seq(Byte)
    BY EmptySeq
  <2>2. Start(t, "read", off, len, <<>>)
    BY <1>6 DEF tls_read
  <2> QED BY <2>1, <2>2, StartStep
<1>7. ASSUME NEW t \in Tid, NEW off \in Args, NEW len \in Args, NEW buf \in [1 .. len -> Written],
             tls_write(t, off, len, buf)
      PROVE  TlsInv'
  <2>1. len \in Nat /\ buf \in [1 .. len -> Byte]
    BY SizesAssumption
  <2>2. buf \in Seq(Byte) /\ Len(buf) = len
    BY <2>1, SeqDef
  <2>3. Start(t, "write", off, len, buf)
    BY <1>7 DEF tls_write
  <2> QED BY <2>2, <2>3, StartStep
<1>8. ASSUME NEW t \in Tid, read_byte(t) \/ write_byte(t) \/ close_pages(t) PROVE TlsInv'
  BY <1>8, ReadByteStep, WriteByteStep, CloseStep
<1>9. ASSUME NEW t \in Tid, NEW p \in Page, stray(t, p) PROVE TlsInv'
  BY <1>9, StrayStep
<1>10. ASSUME NEW t \in Tid, lookup_beyond(t) PROVE TlsInv'
  BY <1>10, BeyondStep
<1> QED BY <1>1, <1>2, <1>3, <1>4, <1>5, <1>6, <1>7, <1>8, <1>9, <1>10 DEF Next

(* Calls that overlap on different pages keep the table, the areas, the page
   counts, the protection and the contents right, at every step of tls.c. *)
THEOREM StorageSound ==
  ASSUME Serial
  PROVE  Spec => []TlsInv
<1>1. TlsInv /\ [Next]_vars => TlsInv'
  BY NextTls
<1> QED BY <1>1, InitTls, PTL DEF Spec

(* The state of the library keeps its type. *)
THEOREM StorageTyped ==
  ASSUME Serial
  PROVE  Spec => []TypeOK
<1>1. TlsInv => TypeOK
  BY Facts
<1> QED BY <1>1, StorageSound, PTL

(* A search of hash_table finds a thread's own area, and only a thread that
   has one is found: tls_create and tls_clone never list a thread twice, and
   tls_destroy takes out the right element. *)
THEOREM SearchesRight ==
  ASSUME Serial
  PROVE  Spec => []TableExact
<1>1. TlsInv => TableExact
  BY Facts
<1> QED BY <1>1, StorageSound, PTL

(* ref_count is the number of references to a page at every step of tls_clone,
   tls_destroy and the copy in tls_write. *)
THEOREM CountsExact ==
  ASSUME Serial
  PROVE  Spec => []RefsExact
<1>1. TlsInv => RefsExact
  BY Facts DEF RefsSound
<1> QED BY <1>1, StorageSound, PTL

(* Copy on write isolates: an area holds what its own thread wrote, whatever
   the threads it shares pages with write. *)
THEOREM CopiesIsolate ==
  ASSUME Serial
  PROVE  Spec => []Isolated
<1>1. TlsInv => Isolated
  BY Facts DEF Contents, Holds, Isolated
<1> QED BY <1>1, StorageSound, PTL

(* tls_read returns the bytes of its own area, in order, across the borders of
   pages that others share, copy or give back meanwhile. *)
THEOREM ReadsRight ==
  ASSUME Serial
  PROVE  Spec => []ReadsOwn
<1>1. TlsInv => ReadsOwn
  BY Facts
<1> QED BY <1>1, StorageSound, PTL

(* Whatever sizes, offsets and lengths the threads use, a call whose sum does
   not wrap, on an area whose size does not, stays inside the area and inside
   the array of its pages: the wrap is the only way out of them. *)
THEOREM CallsInside ==
  ASSUME Serial
  PROVE  Spec => []FittingInside
<1>1. ASSUME TlsInv, NEW t \in Tid, More(t), call[t].off + call[t].len < UintMod, tls[t].size + PageSize <= UintMod
      PROVE  At(t) < tls[t].size /\ ~Beyond(t)
  <2>1. CopySound(t)
    BY <1>1, Facts DEF CallSound, ThreadSound, Copies, More
  <2>2. /\ call[t].i \in Nat /\ call[t].off \in Nat /\ call[t].len \in Nat /\ tls[t].size \in Nat
        /\ Len(tls[t].pages) \in Nat /\ UintMod \in Nat /\ call[t].i < call[t].len
    BY <1>1, Facts, TypeFacts, SizeFacts DEF More
  <2>3. call[t].off + call[t].len <= tls[t].size
    <3>1. (call[t].off + call[t].len) % UintMod = call[t].off + call[t].len
      <4>1. call[t].off + call[t].len \in Nat
        BY <2>2
      <4> QED BY <1>1, <4>1, SmallMod
    <3> QED BY <2>1, <3>1 DEF CopySound
  <2>4. At(t) = call[t].off + call[t].i /\ At(t) \in Nat /\ At(t) < tls[t].size
    <3>1. call[t].off + call[t].i \in Nat /\ call[t].off + call[t].i < UintMod /\ call[t].off + call[t].i < tls[t].size
      BY <1>1, <2>2, <2>3
    <3> QED BY <3>1, SmallMod DEF At
  <2>5. page_index(t) \in 1 .. Len(tls[t].pages)
    BY <1>1, <2>1, <2>2, <2>4, Facts, OnPage DEF AreaSound, CopySound, page_index
  <2> QED BY <2>2, <2>4, <2>5 DEF Beyond
<1>2. TlsInv => FittingInside
  BY <1>1 DEF FittingInside, Inside
<1> QED BY <1>2, StorageSound, PTL

(* A page that is readable belongs to a call that reads or writes: the page
   that tls_write leaves behind and those of a finished call are protected. *)
THEOREM ClosedOutside ==
  ASSUME Serial
  PROVE  Spec => []PagesClosed
<1>1. TlsInv => PagesClosed
  BY Facts
<1> QED BY <1>1, StorageSound, PTL

(* tls_handle_page_fault finds the page of every fault in the table: it ends
   the thread that strayed, never a thread in a call and never the process,
   which only a lookup behind an array of pages ends. *)
THEOREM HandlerFinds ==
  ASSUME Serial
  PROVE  Spec => []HandlerRight
<1>1. TlsInv => HandlerRight
  BY Facts
<1> QED BY <1>1, StorageSound, PTL
=============================================================================
