-------------------------- MODULE FatFsFilesProofs --------------------------
(***************************************************************************)
(* Proofs about the files a caller sees, from the invariant of FatFsProofs: *)
(* their names, and the chains as mount_fs and the loops of fs.c follow    *)
(* them, without the auxiliary variables.                                  *)
(***************************************************************************)
EXTENDS FatFsProofs, NumberInduction, FiniteSetTheorems

(* One step along the FAT f, and how Chain unfolds. *)
Hop(f, c) == IF c \in Blocks THEN f[c] ELSE c

LEMMA ChainUnfolds ==
  ASSUME NEW f, NEW b
  PROVE  /\ Chain(f, b)[0] = b
         /\ \A n \in 1 .. TotalBlocks : Chain(f, b)[n] = Hop(f, Chain(f, b)[n - 1])
<1> DEFINE Follows(g, N) == g = [n \in 0 .. N |-> IF n = 0 THEN b ELSE Hop(f, g[n - 1])]
           Stuck == {N \in Nat : ~\E g : Follows(g, N)}
<1>1. Stuck = {}
  <2> SUFFICES ASSUME Stuck # {} PROVE FALSE
    OBVIOUS
  <2>1. PICK m \in Stuck : \A k \in Stuck : m <= k
    <3>1. Stuck \subseteq Nat
      OBVIOUS
    <3> HIDE DEF Stuck
    <3> QED BY <3>1, LeastNumber
  <2>2. m \in Nat /\ ~\E g : Follows(g, m)
    OBVIOUS
  <2>3. m # 0
    <3>1. Follows([n \in 0 .. 0 |-> b], 0)
      OBVIOUS
    <3> QED BY <2>2, <3>1
  <2>4. m - 1 \in Nat /\ m - 1 \notin Stuck
    <3> HIDE DEF Stuck
    <3>1. m - 1 \in Nat /\ ~(m <= m - 1)
      BY <2>2, <2>3
    <3> QED BY <2>1, <3>1
  <2>5. PICK g : Follows(g, m - 1)
    BY <2>4
  <2> DEFINE h == [n \in 0 .. m |-> IF n = m THEN Hop(f, g[m - 1]) ELSE g[n]]
  <2>6. \A n \in 0 .. m : h[n] = IF n = 0 THEN b ELSE Hop(f, h[n - 1])
    <3> SUFFICES ASSUME NEW n \in 0 .. m PROVE h[n] = IF n = 0 THEN b ELSE Hop(f, h[n - 1])
      OBVIOUS
    <3>1. \A k \in 0 .. m - 1 : g[k] = IF k = 0 THEN b ELSE Hop(f, g[k - 1])
      BY <2>5
    <3>2. CASE n = m
      <4>1. m - 1 \in 0 .. m /\ m - 1 # m
        BY <2>2, <2>3
      <4> QED BY <2>2, <2>3, <3>2, <4>1
    <3>3. CASE n # m
      <4>1. n \in 0 .. m - 1 /\ (n # 0 => n - 1 \in 0 .. m /\ n - 1 # m)
        BY <2>2, <3>3
      <4>2. h[n] = g[n] /\ (n # 0 => h[n - 1] = g[n - 1])
        BY <3>3, <4>1
      <4> HIDE DEF h
      <4> QED BY <3>1, <4>1, <4>2
    <3> QED BY <3>2, <3>3
  <2>7. Follows(h, m)
    <3>1. h = [n \in 0 .. m |-> h[n]]
      OBVIOUS
    <3> HIDE DEF h
    <3> QED BY <2>6, <3>1
  <2> QED BY <2>2, <2>7
<1>2. TotalBlocks \in Nat
  BY SizesAssumption
<1>3. \E g : Follows(g, TotalBlocks)
  BY <1>1, <1>2
<1>4. Chain(f, b) = CHOOSE g : Follows(g, TotalBlocks)
  BY DEF Chain, Hop
<1>5. Follows(Chain(f, b), TotalBlocks)
  BY <1>3, <1>4
<1>6. \A n \in 0 .. TotalBlocks :
        Chain(f, b)[n] = IF n = 0 THEN b ELSE Hop(f, Chain(f, b)[n - 1])
  BY <1>5
<1> QED BY <1>2, <1>6

(* Offsets of whole blocks. *)
LEMMA Multiples ==
  ASSUME NEW m \in Nat, NEW n \in Nat
  PROVE  /\ m * BlockSize \in Nat
         /\ (m + 1) * BlockSize = m * BlockSize + BlockSize
         /\ m < n => m * BlockSize + BlockSize <= n * BlockSize
         /\ m * BlockSize = n * BlockSize => m = n
<1>1. BlockSize \in Nat /\ BlockSize > 0
  BY Marks
<1>2. \A i, j \in Nat : /\ i * BlockSize \in Nat
                        /\ (i + j) * BlockSize = i * BlockSize + j * BlockSize
  BY <1>1
<1>3. \A i, j \in Nat : i < j => i * BlockSize + BlockSize <= j * BlockSize
  <2> SUFFICES ASSUME NEW i \in Nat, NEW j \in Nat, i < j
               PROVE  i * BlockSize + BlockSize <= j * BlockSize
    OBVIOUS
  <2>1. PICK k \in Nat : j = (i + 1) + k
    <3>1. j - (i + 1) \in Nat /\ j = (i + 1) + (j - (i + 1))
      OBVIOUS
    <3> QED BY <3>1
  <2>2. i + 1 \in Nat /\ 1 \in Nat /\ 1 * BlockSize = BlockSize
    BY <1>1
  <2>3. j * BlockSize = (i * BlockSize + BlockSize) + k * BlockSize
    BY <1>2, <2>1, <2>2
  <2>4. i * BlockSize \in Nat /\ k * BlockSize \in Nat
    BY <1>2
  <2> QED BY <1>1, <2>3, <2>4
<1>4. m * BlockSize = n * BlockSize => m = n
  <2>1. m * BlockSize \in Nat /\ n * BlockSize \in Nat
    BY <1>2
  <2>2. m < n => m * BlockSize + BlockSize <= n * BlockSize
    BY <1>3
  <2>3. n < m => n * BlockSize + BlockSize <= m * BlockSize
    BY <1>3
  <2> QED BY <1>1, <2>1, <2>2, <2>3
<1>5. (m + 1) * BlockSize = m * BlockSize + BlockSize
  <2>1. 1 \in Nat /\ 1 * BlockSize = BlockSize
    BY <1>1
  <2> QED BY <1>2, <2>1
<1> QED BY <1>2, <1>3, <1>4, <1>5
-----------------------------------------------------------------------------
(* What following the FAT from the first block of a file finds *)

(* S stands for the blocks of a file, p for their offsets in it: each leads to
   the next one of S or is marked as the last. *)
Threaded(f, p, S) ==
  \A c \in S : f[c] = FAT_EOF \/ (f[c] \in S /\ p[f[c]] = p[c] + BlockSize)

(* The n-th block on the way holds the n-th part of the file. *)
LEMMA ChainInside ==
  ASSUME NEW f, NEW p \in [Blocks -> Nat], NEW S \in SUBSET Blocks, NEW b \in S,
         p[b] = 0, Threaded(f, p, S),
         NEW n \in 0 .. TotalBlocks
  PROVE  \/ Chain(f, b)[n] = FAT_EOF
         \/ Chain(f, b)[n] \in S /\ p[Chain(f, b)[n]] = n * BlockSize
<1> DEFINE at == Chain(f, b)
           Good(k) == at[k] = FAT_EOF \/ (at[k] \in S /\ p[at[k]] = k * BlockSize)
           G == {k \in Nat : Good(k)}
<1>1. at[0] = b /\ \A k \in 1 .. TotalBlocks : at[k] = Hop(f, at[k - 1])
  BY ChainUnfolds
<1> HIDE DEF at
<1>2. TotalBlocks \in Nat
  BY SizesAssumption
<1>3. 0 \in G
  <2>1. 0 * BlockSize = 0
    BY Marks
  <2> QED BY <1>1, <2>1
<1>4. ASSUME NEW k \in Nat, 0 <= k, k < TotalBlocks, k \in G PROVE k + 1 \in G
  <2>1. at[k + 1] = Hop(f, at[k])
    <3>1. k + 1 \in 1 .. TotalBlocks /\ (k + 1) - 1 = k
      BY <1>2, <1>4
    <3> QED BY <1>1, <3>1
  <2>2. CASE at[k] = FAT_EOF
    BY <2>1, <2>2, Marks DEF Hop
  <2>3. CASE at[k] \in S /\ p[at[k]] = k * BlockSize
    <3>1. at[k + 1] = f[at[k]]
      BY <2>1, <2>3 DEF Hop
    <3>2. at[k + 1] = FAT_EOF \/ (at[k + 1] \in S /\ p[at[k + 1]] = p[at[k]] + BlockSize)
      BY <2>3, <3>1 DEF Threaded
    <3>3. (k + 1) * BlockSize = k * BlockSize + BlockSize
      BY Multiples
    <3> QED BY <2>3, <3>2, <3>3
  <2> QED BY <1>4, <2>2, <2>3
<1>5. \A k \in 0 .. TotalBlocks : k \in G
  <2> HIDE DEF G
  <2> QED BY <1>2, <1>3, <1>4, Induct
<1>6. Good(n)
  BY <1>5
<1> QED BY <1>6 DEF at

LEMMA PigeonHole ==
  ASSUME NEW D, NEW B, IsFiniteSet(D), IsFiniteSet(B), Cardinality(B) < Cardinality(D),
         NEW g \in [D -> B]
  PROVE  \E x, y \in D : x # y /\ g[x] = g[y]
BY FS_PigeonHole

(* The way ends: a chain that went on for TotalBlocks steps would visit more
   blocks than there are.  m + 1 is the number of blocks on it. *)
LEMMA ChainEnds ==
  ASSUME NEW f, NEW p \in [Blocks -> Nat], NEW S \in SUBSET Blocks, NEW b \in S,
         p[b] = 0, Threaded(f, p, S)
  PROVE  \E m \in 0 .. TotalBlocks - 1 :
           /\ \A n \in 0 .. m : Chain(f, b)[n] \in S /\ p[Chain(f, b)[n]] = n * BlockSize
           /\ \A n \in m + 1 .. TotalBlocks : Chain(f, b)[n] = FAT_EOF
           /\ f[Chain(f, b)[m]] = FAT_EOF
<1> DEFINE at == Chain(f, b)
           Off == {n \in Nat : n <= TotalBlocks /\ at[n] \notin S}
<1>1. at[0] = b /\ \A k \in 1 .. TotalBlocks : at[k] = Hop(f, at[k - 1])
  BY ChainUnfolds
<1>2. \A k \in 0 .. TotalBlocks :
        at[k] = FAT_EOF \/ (at[k] \in S /\ p[at[k]] = k * BlockSize)
  BY ChainInside
<1> HIDE DEF at
<1>3. TotalBlocks \in Nat /\ DataStart \in Nat /\ DataStart > 0 /\ DataStart <= TotalBlocks
  BY SizesAssumption
<1>4. Off # {}
  <2> SUFFICES ASSUME Off = {} PROVE FALSE
    OBVIOUS
  <2>1. \A k \in 0 .. TotalBlocks : at[k] \in S /\ p[at[k]] = k * BlockSize
    <3>1. \A k \in 0 .. TotalBlocks : k \notin Off
      OBVIOUS
    <3>2. \A k \in 0 .. TotalBlocks : at[k] \in S
      BY <1>3, <3>1
    <3> QED BY <1>2, <3>2, Marks
  <2> DEFINE g == [k \in 0 .. TotalBlocks |-> at[k]]
  <2>2. g \in [0 .. TotalBlocks -> Blocks]
    BY <2>1
  <2>3. /\ IsFiniteSet(0 .. TotalBlocks) /\ Cardinality(0 .. TotalBlocks) = TotalBlocks + 1
    <3>1. 0 \in Int /\ TotalBlocks \in Int /\ ~(0 > TotalBlocks)
      BY <1>3
    <3>2. /\ IsFiniteSet(0 .. TotalBlocks)
          /\ Cardinality(0 .. TotalBlocks) = IF 0 > TotalBlocks THEN 0 ELSE TotalBlocks - 0 + 1
      BY <3>1, FS_Interval
    <3> QED BY <1>3, <3>2
  <2>4. /\ IsFiniteSet(Blocks) /\ Cardinality(Blocks) \in Nat /\ Cardinality(Blocks) <= TotalBlocks
    <3>1. DataStart \in Int /\ TotalBlocks - 1 \in Int
      BY <1>3
    <3>2. /\ IsFiniteSet(Blocks)
          /\ Cardinality(Blocks)
               = IF DataStart > TotalBlocks - 1 THEN 0 ELSE TotalBlocks - 1 - DataStart + 1
      BY <3>1, FS_Interval DEF Blocks
    <3> QED BY <1>3, <3>2
  <2>5. Cardinality(Blocks) < Cardinality(0 .. TotalBlocks)
    BY <1>3, <2>3, <2>4
  <2>6. \E x, y \in 0 .. TotalBlocks : x # y /\ g[x] = g[y]
    <3> DEFINE D == 0 .. TotalBlocks
    <3>1. g \in [D -> Blocks] /\ IsFiniteSet(D) /\ Cardinality(Blocks) < Cardinality(D)
      BY <2>2, <2>3, <2>5
    <3> HIDE DEF g, D
    <3>2. \E x, y \in D : x # y /\ g[x] = g[y]
      BY <2>4, <3>1, PigeonHole
    <3> QED BY <3>2 DEF D
  <2>7. PICK x \in 0 .. TotalBlocks, y \in 0 .. TotalBlocks : x # y /\ at[x] = at[y]
    BY <2>6
  <2>8. x * BlockSize = y * BlockSize
    BY <2>1, <2>7
  <2>9. x \in Nat /\ y \in Nat
    OBVIOUS
  <2> QED BY <2>7, <2>8, <2>9, Multiples
<1>5. PICK k \in Off : \A j \in Off : k <= j
  <2>1. Off \subseteq Nat
    OBVIOUS
  <2> HIDE DEF Off
  <2> QED BY <1>4, <2>1, LeastNumber
<1>6. k \in Nat /\ k <= TotalBlocks /\ at[k] \notin S /\ k # 0
  BY <1>1
<1>7. \A n \in 0 .. k - 1 : at[n] \in S /\ p[at[n]] = n * BlockSize
  <2> SUFFICES ASSUME NEW n \in 0 .. k - 1 PROVE at[n] \in S /\ p[at[n]] = n * BlockSize
    OBVIOUS
  <2>1. n \in Nat /\ n <= TotalBlocks /\ n \in 0 .. TotalBlocks /\ ~(k <= n)
    BY <1>3, <1>6
  <2>2. n \notin Off
    <3> HIDE DEF Off
    <3> QED BY <1>5, <2>1
  <2>3. at[n] \in S
    BY <2>1, <2>2
  <2> QED BY <1>2, <2>1, <2>3, Marks
<1>8. k - 1 \in 0 .. TotalBlocks - 1 /\ k - 1 \in 0 .. k - 1 /\ k \in 1 .. TotalBlocks
      /\ k \in 0 .. TotalBlocks
  BY <1>3, <1>6
<1>9. at[k] = FAT_EOF
  BY <1>2, <1>6, <1>8
<1>10. f[at[k - 1]] = FAT_EOF
  <2>1. at[k - 1] \in Blocks
    BY <1>7, <1>8
  <2>2. at[k] = f[at[k - 1]]
    BY <1>1, <1>8, <2>1 DEF Hop
  <2> QED BY <1>9, <2>2
<1>11. \A n \in k .. TotalBlocks : at[n] = FAT_EOF
  <2> DEFINE E == {n \in Nat : at[n] = FAT_EOF}
  <2>1. k \in E
    BY <1>6, <1>9
  <2>2. ASSUME NEW n \in Nat, k <= n, n < TotalBlocks, n \in E PROVE n + 1 \in E
    <3>1. n + 1 \in 1 .. TotalBlocks /\ (n + 1) - 1 = n
      BY <1>3, <2>2
    <3>2. at[n + 1] = Hop(f, at[n])
      BY <1>1, <3>1
    <3> QED BY <2>2, <3>2, Marks DEF Hop
  <2>3. \A n \in k .. TotalBlocks : n \in E
    <3> HIDE DEF E
    <3> QED BY <1>3, <1>6, <2>1, <2>2, Induct
  <2> QED BY <2>3
<1>12. (k - 1) + 1 = k
  BY <1>6
<1> QED BY <1>7, <1>8, <1>10, <1>11, <1>12 DEF at

(* The blocks on the way: they are the file's, the last one is marked, and
   there is one for each part of the file up to it. *)
LEMMA ReachCounts ==
  ASSUME NEW f, NEW p \in [Blocks -> Nat], NEW S \in SUBSET Blocks, NEW b \in S,
         p[b] = 0, Threaded(f, p, S)
  PROVE  /\ Chain(f, b)[TotalBlocks] = FAT_EOF
         /\ Reach(f, b) \subseteq S /\ b \in Reach(f, b)
         /\ \A c \in Reach(f, b) : f[c] \in Blocks => f[c] \in Reach(f, b)
         /\ \E l \in Reach(f, b), m \in Nat :
              /\ f[l] = FAT_EOF /\ p[l] = m * BlockSize
              /\ Cardinality(Reach(f, b)) = m + 1
<1> DEFINE at == Chain(f, b)
           R  == Reach(f, b)
<1>1. PICK m \in 0 .. TotalBlocks - 1 :
        /\ \A n \in 0 .. m : at[n] \in S /\ p[at[n]] = n * BlockSize
        /\ \A n \in m + 1 .. TotalBlocks : at[n] = FAT_EOF
        /\ f[at[m]] = FAT_EOF
  BY ChainEnds
<1>2. at[0] = b /\ \A k \in 1 .. TotalBlocks : at[k] = Hop(f, at[k - 1])
  BY ChainUnfolds
<1>3. R = {at[n] : n \in 0 .. TotalBlocks} \cap Blocks
  BY DEF Reach
<1> HIDE DEF at, R
<1>4. TotalBlocks \in Nat /\ m \in Nat /\ m < TotalBlocks
  BY SizesAssumption
<1>5. R = {at[n] : n \in 0 .. m}
  <2>1. ASSUME NEW c \in R PROVE c \in {at[n] : n \in 0 .. m}
    <3>1. PICK n \in 0 .. TotalBlocks : c = at[n]
      BY <1>3
    <3>2. c # FAT_EOF
      BY <1>3, Marks
    <3>3. n \in 0 .. m
      BY <1>1, <1>4, <3>1, <3>2
    <3> QED BY <3>1, <3>3
  <2>2. ASSUME NEW n \in 0 .. m PROVE at[n] \in R
    BY <1>1, <1>3, <1>4
  <2> QED BY <2>1, <2>2
<1>6. at[TotalBlocks] = FAT_EOF
  BY <1>1, <1>4
<1>7. R \subseteq S /\ b \in R /\ at[m] \in R
  BY <1>1, <1>2, <1>4, <1>5
<1>8. ASSUME NEW c \in R, f[c] \in Blocks PROVE f[c] \in R
  <2>1. PICK n \in 0 .. m : c = at[n]
    BY <1>5
  <2>2. n # m
    BY <1>1, <1>8, <2>1, Marks
  <2>3. n + 1 \in 1 .. TotalBlocks /\ (n + 1) - 1 = n /\ n + 1 \in 0 .. m
    BY <1>4, <2>2
  <2>4. at[n + 1] = f[c]
    <3>1. c \in Blocks
      BY <1>7
    <3> QED BY <1>2, <2>1, <2>3, <3>1 DEF Hop
  <2> QED BY <1>5, <2>3, <2>4
<1>9. Cardinality(R) = m + 1
  <2> DEFINE D == 0 .. m
             g == [n \in D |-> at[n]]
  <2>1. g \in [D -> R]
    BY <1>5
  <2>2. \A x, y \in D : g[x] = g[y] => x = y
    <3> SUFFICES ASSUME NEW x \in D, NEW y \in D, at[x] = at[y] PROVE x = y
      OBVIOUS
    <3>1. x * BlockSize = y * BlockSize /\ x \in Nat /\ y \in Nat
      BY <1>1
    <3> QED BY <3>1, Multiples
  <2>3. \A c \in R : \E x \in D : g[x] = c
    BY <1>5
  <2>4. IsFiniteSet(D) /\ Cardinality(D) = m + 1
    <3>1. 0 \in Int /\ m \in Int /\ ~(0 > m) /\ m - 0 + 1 = m + 1
      BY <1>4
    <3> QED BY <3>1, FS_Interval
  <2> HIDE DEF D, g
  <2>5. g \in Bijection(D, R)
    BY <2>1, <2>2, <2>3 DEF Bijection, Injection, Surjection, IsInjective
  <2>6. ExistsBijection(D, R)
    BY <2>5 DEF ExistsBijection
  <2> QED BY <2>4, <2>6, FS_Bijection
<1>10. m \in 0 .. m
  BY <1>4
<1>11. f[at[m]] = FAT_EOF /\ p[at[m]] = m * BlockSize
  BY <1>1, <1>10
<1> QED BY <1>4, <1>6, <1>7, <1>8, <1>9, <1>11 DEF at, R

(* A file without blocks. *)
LEMMA ReachNothing ==
  ASSUME NEW f
  PROVE  Chain(f, FAT_EOF)[TotalBlocks] = FAT_EOF /\ Reach(f, FAT_EOF) = {}
<1> DEFINE at == Chain(f, FAT_EOF)
           E  == {n \in Nat : at[n] = FAT_EOF}
<1>1. at[0] = FAT_EOF /\ \A k \in 1 .. TotalBlocks : at[k] = Hop(f, at[k - 1])
  BY ChainUnfolds
<1>2. Reach(f, FAT_EOF) = {at[n] : n \in 0 .. TotalBlocks} \cap Blocks
  BY DEF Reach
<1> HIDE DEF at
<1>3. TotalBlocks \in Nat
  BY SizesAssumption
<1>4. ASSUME NEW n \in Nat, 0 <= n, n < TotalBlocks, n \in E PROVE n + 1 \in E
  <2>1. n + 1 \in 1 .. TotalBlocks /\ (n + 1) - 1 = n
    BY <1>3, <1>4
  <2>2. at[n + 1] = Hop(f, at[n])
    BY <1>1, <2>1
  <2> QED BY <1>4, <2>2, Marks DEF Hop
<1>5. \A n \in 0 .. TotalBlocks : n \in E
  <2>1. 0 \in E
    BY <1>1
  <2> HIDE DEF E
  <2> QED BY <1>3, <1>4, <2>1, Induct
<1>6. \A n \in 0 .. TotalBlocks : at[n] = FAT_EOF
  BY <1>5
<1>7. TotalBlocks \in 0 .. TotalBlocks
  BY <1>3
<1> QED BY <1>2, <1>6, <1>7, Marks DEF at

(* A file whose blocks, and no others, are threaded is as long as it says. *)
LEMMA FileReached ==
  ASSUME NEW f, NEW p \in [Blocks -> Nat], NEW S \in SUBSET Blocks, NEW first, NEW size \in Nat,
         \/ first = FAT_EOF /\ size = 0
         \/ /\ first \in S /\ p[first] = 0 /\ Threaded(f, p, S)
            /\ \A c \in S : f[c] = FAT_EOF => size <= p[c] + BlockSize
  PROVE  /\ Chain(f, first)[TotalBlocks] = FAT_EOF
         /\ size <= BlockSize * Cardinality(Reach(f, first))
         /\ Reach(f, first) \subseteq S
<1>1. CASE first = FAT_EOF /\ size = 0
  <2>1. Chain(f, first)[TotalBlocks] = FAT_EOF /\ Reach(f, first) = {}
    BY <1>1, ReachNothing
  <2>2. Cardinality(Reach(f, first)) = 0
    BY <2>1, FS_EmptySet
  <2> QED BY <1>1, <2>1, <2>2, Marks
<1>2. CASE /\ first \in S /\ p[first] = 0 /\ Threaded(f, p, S)
           /\ \A c \in S : f[c] = FAT_EOF => size <= p[c] + BlockSize
  <2>1. /\ Chain(f, first)[TotalBlocks] = FAT_EOF
        /\ Reach(f, first) \subseteq S
        /\ \E l \in Reach(f, first), m \in Nat :
             /\ f[l] = FAT_EOF /\ p[l] = m * BlockSize
             /\ Cardinality(Reach(f, first)) = m + 1
    BY <1>2, ReachCounts
  <2>2. PICK l \in Reach(f, first), m \in Nat :
             /\ f[l] = FAT_EOF /\ p[l] = m * BlockSize
             /\ Cardinality(Reach(f, first)) = m + 1
    BY <2>1
  <2>3. size <= m * BlockSize + BlockSize
    BY <1>2, <2>1, <2>2
  <2>4. BlockSize * (m + 1) = m * BlockSize + BlockSize
    BY Marks
  <2> QED BY <2>1, <2>2, <2>3, <2>4
<1> QED BY <1>1, <1>2
-----------------------------------------------------------------------------
(* Files are whole *)

(* The blocks that o gives to the file of entry e. *)
BlocksOf(o, e) == {b \in Blocks : o[b] = e}

(* The chain predicates make the blocks of a file threaded. *)
LEMMA SoundThreads ==
  ASSUME NEW f \in [Blocks -> FatValues], NEW d, NEW o, NEW p, NEW e \in Slots,
         LinksSound(f, d, o, p, {})
  PROVE  Threaded(f, p, BlocksOf(o, e))
<1> SUFFICES ASSUME NEW c \in Blocks, o[c] = e
             PROVE  f[c] = FAT_EOF \/ (f[c] \in BlocksOf(o, e) /\ p[f[c]] = p[c] + BlockSize)
  BY DEF Threaded, BlocksOf
<1>1. /\ f[c] # FAT_FREE
      /\ f[c] \in Blocks => o[f[c]] = o[c] /\ p[f[c]] = p[c] + BlockSize
  BY DEF LinksSound
<1>2. f[c] = FAT_EOF \/ f[c] \in Blocks
  BY <1>1 DEF FatValues
<1> QED BY <1>1, <1>2 DEF BlocksOf

(* Every file of a sound FAT and directory is whole. *)
LEMMA SoundConsistent ==
  ASSUME NEW f \in [Blocks -> FatValues], NEW d \in [Slots -> Entry],
         NEW o, NEW p \in [Blocks -> Nat],
         HeadsSound(d, o, p, {}), LinksSound(f, d, o, p, {}), EndsSound(f, d, o, p)
  PROVE  Consistent(f, d)
<1>1. ASSUME NEW e \in Slots, d[e].used
      PROVE  /\ Chain(f, d[e].first)[TotalBlocks] = FAT_EOF
             /\ d[e].size <= BlockSize * Cardinality(Reach(f, d[e].first))
             /\ Reach(f, d[e].first) \subseteq BlocksOf(o, e)
  <2>1. \/ d[e].first = FAT_EOF /\ d[e].size = 0
        \/ d[e].first \in Blocks /\ o[d[e].first] = e /\ p[d[e].first] = 0
    BY <1>1 DEF HeadsSound
  <2>2. Threaded(f, p, BlocksOf(o, e))
    BY SoundThreads
  <2>3. \A c \in BlocksOf(o, e) : f[c] = FAT_EOF => d[e].size <= p[c] + BlockSize
    BY DEF EndsSound, BlocksOf
  <2>4. d[e].first \in Blocks /\ o[d[e].first] = e => d[e].first \in BlocksOf(o, e)
    BY DEF BlocksOf
  <2>5. BlocksOf(o, e) \in SUBSET Blocks /\ d[e].size \in Nat
    BY DEF BlocksOf, Entry
  <2> QED BY <2>1, <2>2, <2>3, <2>4, <2>5, FileReached
<1>2. ASSUME NEW e \in Used(d) PROVE Whole(e, f, d)
  <2>1. e \in Slots /\ d[e].used
    BY DEF Used
  <2>2. ASSUME NEW g \in Used(d) \ {e}
        PROVE  Reach(f, d[e].first) \cap Reach(f, d[g].first) = {}
    <3>1. g \in Slots /\ d[g].used /\ g # e
      BY DEF Used
    <3>2. Reach(f, d[e].first) \subseteq BlocksOf(o, e) /\ Reach(f, d[g].first) \subseteq BlocksOf(o, g)
      BY <1>1, <2>1, <3>1
    <3> QED BY <3>1, <3>2 DEF BlocksOf
  <2> QED BY <1>1, <2>1, <2>2 DEF Whole
<1> QED BY <1>2 DEF Consistent

(* The FAT on disk has the type of the one in memory. *)
LEMMA SavedType ==
  ASSUME TypeOK
  PROVE  /\ SavedFat \in [Blocks -> FatValues] /\ disk.dir \in [Slots -> Entry]
         /\ disk.own \in [Blocks -> Slots \cup {NoSlot}] /\ disk.base \in [Blocks -> Nat]
<1>1. disk \in Image
  BY DEF TypeOK
<1>2. FAT_FREE \in FatValues
  BY DEF FatValues
<1> QED BY <1>1, <1>2, Constants DEF Image, SavedFat

(* Between two calls the files in memory are whole: fs_write, fs_truncate,
   fs_delete, a remount and a crash neither break a chain nor give a block to
   two files, for every number of blocks and files. *)
THEOREM FilesStayWhole == CrashSpec => []FilesWhole
<1>1. IndInv => FilesWhole
  <2> SUFFICES ASSUME IndInv, mounted, op.pc = "idle" PROVE Consistent(fat, dir)
    BY DEF FilesWhole
  <2>1. Deleted = {} /\ CutAt = {}
    BY DEF Deleted, CutAt
  <2>2. /\ HeadsSound(dir, own, base, {}) /\ LinksSound(fat, dir, own, base, {})
        /\ EndsSound(fat, dir, own, base)
    BY <2>1 DEF IndInv, ChainsSound
  <2>3. fat \in [Blocks -> FatValues] /\ dir \in [Slots -> Entry] /\ base \in [Blocks -> Nat]
    BY DEF IndInv, TypeOK
  <2> QED BY <2>2, <2>3, SoundConsistent
<1> QED BY Inductive, <1>1, PTL

(* What is on disk is whole at every step outside write_metadata_to_disk: a
   process that dies anywhere else leaves files mount_fs can use. *)
THEOREM DiskStaysConsistent == CrashSpec => []RemountConsistent
<1>1. IndInv => RemountConsistent
  <2> SUFFICES ASSUME IndInv, disk.magic, Covered PROVE Consistent(SavedFat, disk.dir)
    BY DEF RemountConsistent
  <2>1. /\ HeadsSound(disk.dir, disk.own, disk.base, {})
        /\ LinksSound(SavedFat, disk.dir, disk.own, disk.base, {})
        /\ EndsSound(SavedFat, disk.dir, disk.own, disk.base)
    BY DEF IndInv, DiskSound
  <2>2. SavedFat \in [Blocks -> FatValues] /\ disk.dir \in [Slots -> Entry]
        /\ disk.base \in [Blocks -> Nat]
    BY SavedType DEF IndInv
  <2> QED BY <2>1, <2>2, SoundConsistent
<1> QED BY Inductive, <1>1, PTL
-----------------------------------------------------------------------------
(* Names, and what an open descriptor denotes *)

(* No two files of a directory have one name; in memory and, because mount_fs
   reads it back, on disk. *)
OneEach(d)  == \A e, g \in Slots : d[e].used /\ d[g].used /\ d[e].name = d[g].name => e = g
NamesInv    == OneEach(dir) /\ OneEach(disk.dir)

(* The names of a directory stay as they are. *)
SameNames(d, n) == \A e \in Slots : n[e].used = d[e].used /\ n[e].name = d[e].name

LEMMA NewSize ==
  ASSUME NEW d \in [Slots -> Entry], NEW e \in Slots, NEW s
  PROVE  SameNames(d, [d EXCEPT ![e].size = s])
BY DEF SameNames, Entry

(* fs_write, fs_truncate and the steps that return from them change the first
   block and the size of an entry, and leave the disk alone. *)
LEMMA ResizeNames ==
  ASSUME TypeOK,
         \/ \E d \in Fds, buf \in Buffers : fs_write(d, buf)
         \/ extend_done \/ extend_abort \/ extend_error \/ write_return \/ write_error
         \/ truncate_return
  PROVE  SameNames(dir, dir') /\ UNCHANGED <<mounted, disk>>
         /\ \A d \in Fds : fds'[d].used = fds[d].used /\ fds'[d].ent = fds[d].ent
<1>1. op.ent \in Slots /\ op.fd \in Fds
  BY Fields
<1>2. dir \in [Slots -> Entry] /\ fds \in [Fds -> Fd]
  BY DEF TypeOK
<1>3. SameNames(dir, dir)
  BY DEF SameNames
<1>4. ASSUME NEW d \in Fds, NEW buf \in Buffers, fs_write(d, buf)
      PROVE  SameNames(dir, dir') /\ UNCHANGED <<mounted, disk, fds>>
  <2>1. UNCHANGED <<mounted, disk, fds>>
    BY <1>4 DEF fs_write
  <2>2. UNCHANGED dir \/ \E b \in Blocks : dir' = [dir EXCEPT ![fds[d].ent].first = b, ![fds[d].ent].size = 0]
    BY <1>4 DEF fs_write
  <2>3. fds[d].ent \in Slots
    BY Fields
  <2>4. ASSUME NEW b \in Blocks,
               dir' = [dir EXCEPT ![fds[d].ent].first = b, ![fds[d].ent].size = 0]
        PROVE  SameNames(dir, dir')
    BY <1>2, <2>3, <2>4 DEF SameNames, Entry
  <2> QED BY <1>3, <2>1, <2>2, <2>4
<1>5. CASE extend_done
  BY <1>1, <1>2, <1>5, NewSize DEF extend_done
<1>6. ASSUME NEW from, NEW result, write_finish(from, result)
      PROVE  SameNames(dir, dir') /\ UNCHANGED <<mounted, disk>>
             /\ fds' = [fds EXCEPT ![op.fd].off = from + op.cnt]
  BY <1>1, <1>2, <1>6, NewSize DEF write_finish
<1>7. ASSUME truncate_return PROVE SameNames(dir, dir')
  BY <1>1, <1>2, <1>7, NewSize DEF truncate_return
<1>8. ASSUME NEW x, fds' = [fds EXCEPT ![op.fd].off = x]
      PROVE  \A d \in Fds : fds'[d].used = fds[d].used /\ fds'[d].ent = fds[d].ent
  BY <1>1, <1>2, <1>8 DEF Fd
<1>9. CASE extend_abort \/ extend_error \/ write_return \/ write_error
  BY <1>6, <1>8, <1>9 DEF extend_abort, extend_error, write_return, write_error
<1>10. truncate_return => \E x : fds' = [fds EXCEPT ![op.fd].off = x]
  BY DEF truncate_return
<1>11. extend_done => UNCHANGED <<mounted, disk, fds>>
  BY DEF extend_done
<1>12. truncate_return => UNCHANGED <<mounted, disk>>
  BY DEF truncate_return
<1> QED BY <1>4, <1>5, <1>7, <1>8, <1>9, <1>10, <1>11, <1>12

(* The steps that change no directory entry and open no descriptor. *)
LEMMA SilentNames ==
  ASSUME TypeOK,
         \/ umount_fs \/ \E name \in Names : fs_delete(name)
         \/ \E d \in Fds : \/ \E n \in 1 .. MaxNbyte : fs_read(d, n)
                           \/ \E l \in 0 .. MaxLength : fs_lseek(d, l) \/ fs_truncate(d, l)
         \/ walk \/ walk_done \/ read_chunk \/ read_return \/ read_error
         \/ write_grow \/ write_tail \/ write_link \/ write_chunk
         \/ free_block_chain \/ truncate_walk \/ truncate_cut
  PROVE  UNCHANGED <<mounted, dir, disk>>
         /\ \A d \in Fds : fds'[d].used = fds[d].used /\ fds'[d].ent = fds[d].ent
<1>1. op.fd \in Fds /\ fds \in [Fds -> Fd]
  BY Fields DEF TypeOK
<1>2. UNCHANGED <<mounted, dir, disk>>
  BY DEF umount_fs, fs_delete, fs_read, fs_lseek, fs_truncate, walk, walk_done, read_chunk,
         read_return, read_error, write_grow, write_tail, write_link, write_chunk,
         free_block_chain, truncate_walk, truncate_cut
<1>3. ASSUME NEW d \in Fds, NEW x, fds' = [fds EXCEPT ![d].off = x]
      PROVE  \A c \in Fds : fds'[c].used = fds[c].used /\ fds'[c].ent = fds[c].ent
  BY <1>1, <1>3 DEF Fd
<1>4. UNCHANGED fds \/ \E d \in Fds : \E x : fds' = [fds EXCEPT ![d].off = x]
  BY <1>1 DEF umount_fs, fs_delete, fs_read, fs_lseek, fs_truncate, walk, walk_done, read_chunk,
         read_return, read_error, write_grow, write_tail, write_link, write_chunk,
         free_block_chain, truncate_walk, truncate_cut
<1> QED BY <1>2, <1>3, <1>4

(* Names stay unique: fs_create refuses a name in use, fs_delete only takes
   names away, and mount_fs finds what was saved. *)
LEMMA NamesKept == IndInv /\ NamesInv /\ [CrashNext]_vars => NamesInv'
<1> SUFFICES ASSUME IndInv, NamesInv, [CrashNext]_vars PROVE NamesInv'
  OBVIOUS
<1>1. TypeOK
  BY DEF IndInv
<1>2. OneEach(dir) /\ OneEach(disk.dir)
  BY DEF NamesInv
<1>3. OneEach(EmptyDir)
  BY DEF OneEach, EmptyDir, EmptyEntry
<1>4. ASSUME SameNames(dir, dir'), UNCHANGED disk PROVE NamesInv'
  BY <1>2, <1>4 DEF NamesInv, OneEach, SameNames
<1>5. ASSUME UNCHANGED <<dir, disk>> PROVE NamesInv'
  BY <1>2, <1>5 DEF NamesInv, OneEach
<1>6. CASE make_fs
  <2>1. dir' = EmptyDir /\ disk'.dir = EmptyDir
    BY <1>6 DEF make_fs, Metadata
  <2> QED BY <1>3, <2>1 DEF NamesInv, OneEach
<1>7. CASE make_fs_open
  <2>1. dir' = dir /\ disk'.dir = EmptyDir
    BY <1>7 DEF make_fs_open, make_disk, Metadata
  <2> QED BY <1>2, <1>3, <2>1 DEF NamesInv, OneEach
<1>8. ASSUME NEW name \in Names, fs_create(name) PROVE NamesInv'
  <2>1. PICK i \in Slots :
          dir' = [dir EXCEPT ![i] = [used |-> TRUE, name |-> name, size |-> 0, first |-> FAT_EOF]]
    BY <1>8 DEF fs_create
  <2>2. UNCHANGED disk
    BY <1>8 DEF fs_create
  <2>3. \A j \in Slots : ~(dir[j].used /\ dir[j].name = name)
    <3> DEFINE T == {j \in Slots : dir[j].used /\ dir[j].name = name}
    <3>1. T \subseteq Nat
      BY SizesAssumption DEF Slots
    <3>2. \A j \in Slots : ~IsLeast(j, T)
      BY <1>8 DEF fs_create, find_file_in_directory
    <3>3. T = {}
      <4> SUFFICES ASSUME T # {} PROVE FALSE
        OBVIOUS
      <4>1. T \subseteq Slots
        OBVIOUS
      <4> HIDE DEF T
      <4>2. PICK j \in T : \A k \in T : j <= k
        BY <3>1, LeastNumber
      <4> QED BY <3>2, <4>1, <4>2 DEF IsLeast
    <3> QED BY <3>3
  <2>4. dir \in [Slots -> Entry]
    BY <1>1 DEF TypeOK
  <2>5. /\ dir'[i].name = name
        /\ \A j \in Slots : j # i => dir'[j] = dir[j]
    BY <2>1, <2>4
  <2> QED BY <1>2, <2>2, <2>3, <2>5 DEF NamesInv, OneEach
<1>9. CASE delete_return
  <2>1. dir' = [dir EXCEPT ![op.ent] = EmptyEntry] /\ UNCHANGED disk
    BY <1>9 DEF delete_return
  <2>2. op.ent \in Slots /\ dir \in [Slots -> Entry]
    BY <1>1, Fields DEF TypeOK
  <2>3. ~dir'[op.ent].used /\ \A j \in Slots : j # op.ent => dir'[j] = dir[j]
    BY <2>1, <2>2 DEF EmptyEntry
  <2> QED BY <1>2, <2>1, <2>3 DEF NamesInv, OneEach
<1>10. CASE mount_fs
  <2>1. dir' = disk.dir /\ UNCHANGED disk
    BY <1>10 DEF mount_fs
  <2> QED BY <1>2, <2>1 DEF NamesInv, OneEach
<1>11. CASE write_metadata_to_disk
  <2>1. UNCHANGED dir /\ disk'.dir = dir
    BY <1>11 DEF write_metadata_to_disk, Metadata
  <2> QED BY <1>2, <2>1 DEF NamesInv, OneEach
<1>12. CASE Crash
  <2>1. dir' = EmptyDir /\ UNCHANGED disk
    BY <1>12 DEF Crash, lose_memory
  <2> QED BY <1>2, <1>3, <2>1 DEF NamesInv, OneEach
<1>13. ASSUME \/ \E name \in Names : fs_open(name)
              \/ \E d \in Fds : fs_close(d)
       PROVE  NamesInv'
  BY <1>5, <1>13 DEF fs_open, fs_close
<1>14. CASE Call
  BY <1>1, <1>4, <1>5, <1>6, <1>7, <1>8, <1>13, <1>14, ResizeNames, SilentNames DEF Call
<1>15. CASE Step
  BY <1>1, <1>4, <1>5, <1>9, <1>11, <1>15, ResizeNames, SilentNames DEF Step
<1>16. CASE UNCHANGED vars
  BY <1>5, <1>16 DEF vars
<1> QED BY <1>10, <1>12, <1>14, <1>15, <1>16 DEF CrashNext, Next

(* find_file_in_directory is unambiguous at every step of every call, also
   after a crash and a remount: no two entries in use have one name. *)
THEOREM NamesStayUnique == CrashSpec => []NamesUnique
<1>1. Init => NamesInv
  <2> SUFFICES ASSUME Init PROVE NamesInv
    OBVIOUS
  <2>1. dir = EmptyDir /\ disk.dir = EmptyDir
    BY DEF Init, make_disk, Metadata
  <2> QED BY <2>1 DEF NamesInv, OneEach, EmptyDir, EmptyEntry
<1>2. NamesInv => NamesUnique
  BY DEF NamesInv, OneEach, NamesUnique, Used
<1> QED BY Inductive, <1>1, <1>2, NamesKept, PTL DEF CrashSpec

(* One step leaves alone the name behind every descriptor that stays open. *)
LEMMA DescriptorStep ==
  ASSUME IndInv, [CrashNext]_vars, NEW d \in Fds, mounted, mounted', fds[d].used, fds'[d].used
  PROVE  dir'[fds'[d].ent].name = dir[fds[d].ent].name
<1>1. TypeOK
  BY DEF IndInv
<1>2. fds \in [Fds -> Fd] /\ dir \in [Slots -> Entry] /\ fds[d].ent \in Slots /\ op.ent \in Slots
  BY <1>1, Fields DEF TypeOK
<1>3. active /\ dir[fds[d].ent].used /\ fds[d].ent \notin Deleted
  BY DEF IndInv, DescriptorsSound
<1>4. ASSUME \/ SameNames(dir, dir')
             \/ UNCHANGED dir,
             \A c \in Fds : fds'[c].used = fds[c].used /\ fds'[c].ent = fds[c].ent
      PROVE  dir'[fds'[d].ent].name = dir[fds[d].ent].name
  BY <1>2, <1>4 DEF SameNames
<1>5. CASE make_fs \/ make_fs_open
  BY <1>3, <1>4, <1>5 DEF make_fs, make_fs_open
<1>6. ASSUME NEW name \in Names, fs_create(name)
      PROVE  dir'[fds'[d].ent].name = dir[fds[d].ent].name
  <2>1. PICK i \in Slots :
          /\ ~dir[i].used
          /\ dir' = [dir EXCEPT ![i] = [used |-> TRUE, name |-> name, size |-> 0, first |-> FAT_EOF]]
    BY <1>6 DEF fs_create, find_free_directory_entry, IsLeast
  <2>2. UNCHANGED fds
    BY <1>6 DEF fs_create
  <2> QED BY <1>2, <1>3, <2>1, <2>2
<1>7. ASSUME NEW name \in Names, fs_open(name)
      PROVE  dir'[fds'[d].ent].name = dir[fds[d].ent].name
  <2>1. PICK i \in Slots, c \in Fds :
          /\ ~fds[c].used
          /\ fds' = [fds EXCEPT ![c] = [used |-> TRUE, ent |-> i, off |-> 0]]
    BY <1>7 DEF fs_open, IsLeast
  <2>2. UNCHANGED dir /\ fds'[d] = fds[d]
    BY <1>2, <1>7, <2>1 DEF fs_open
  <2> QED BY <2>2
<1>8. ASSUME NEW c \in Fds, fs_close(c)
      PROVE  dir'[fds'[d].ent].name = dir[fds[d].ent].name
  <2>1. fds' = [fds EXCEPT ![c] = ClosedFd] /\ UNCHANGED dir
    BY <1>8 DEF fs_close
  <2>2. c # d
    BY <1>2, <2>1 DEF ClosedFd
  <2> QED BY <1>2, <2>1, <2>2
<1>9. CASE delete_return
  <2>1. op.kind = "delete" /\ op.pc = "free" /\ UNCHANGED fds
        /\ dir' = [dir EXCEPT ![op.ent] = EmptyEntry]
    BY <1>9 DEF delete_return
  <2>2. fds[d].ent # op.ent
    BY <1>3, <2>1 DEF Deleted
  <2> QED BY <1>2, <2>1, <2>2
<1>10. CASE write_metadata_to_disk
  BY <1>4, <1>10 DEF write_metadata_to_disk
<1>11. ~mount_fs /\ ~Crash
  BY DEF mount_fs, Crash, lose_memory
<1>12. CASE Call
  BY <1>1, <1>4, <1>5, <1>6, <1>7, <1>8, <1>12, ResizeNames, SilentNames DEF Call
<1>13. CASE Step
  BY <1>1, <1>4, <1>9, <1>10, <1>13, ResizeNames, SilentNames DEF Step
<1>14. CASE UNCHANGED vars
  BY <1>4, <1>14 DEF vars
<1> QED BY <1>11, <1>12, <1>13, <1>14 DEF CrashNext, Next

(* While it is open a descriptor denotes one file: fs_delete refuses a file
   with an open descriptor, so fs_create never gives its entry to another. *)
THEOREM DescriptorsKeepFiles == CrashSpec => DescriptorKeepsFile
<1>1. IndInv /\ [CrashNext]_vars =>
        [\A d \in Fds : mounted /\ mounted' /\ fds[d].used /\ fds'[d].used =>
           dir'[fds'[d].ent].name = dir[fds[d].ent].name]_vars
  BY DescriptorStep
<1> QED BY Inductive, <1>1, PTL DEF CrashSpec, DescriptorKeepsFile
-----------------------------------------------------------------------------
(* A save that is cut short *)

(* The file the call in progress may have changed since the last save. *)
Busy == IF op.kind \in {"none", "read", "umount"} THEN {} ELSE {op.ent}

(* Memory and disk agree on the chains of all other files. *)
SyncInv ==
  mounted /\ disk.magic =>
    \A b \in Blocks : disk.own[b] \in Slots \ Busy \/ own[b] \in Slots \ Busy =>
      own[b] = disk.own[b] /\ (b \in SavedBlocks => fat[b] = disk.fat[b])

(* A step that leaves the chains alone, or changes only those of file g. *)
LEMMA SyncFrame ==
  ASSUME SyncInv, mounted' => mounted, UNCHANGED <<fat, own, disk>>, Busy \subseteq Busy'
  PROVE  SyncInv'
BY DEF SyncInv

LEMMA SyncChange ==
  ASSUME SyncInv, mounted, UNCHANGED disk, NEW g \in Slots, Busy \subseteq {g}, Busy' = {g},
         \A c \in Blocks :
           \/ own'[c] = own[c] /\ fat'[c] = fat[c]
           \/ own[c] \in {NoSlot, g} /\ own'[c] \in {NoSlot, g}
  PROVE  SyncInv'
<1> SUFFICES ASSUME disk.magic, NEW b \in Blocks,
                    disk.own[b] \in Slots \ {g} \/ own'[b] \in Slots \ {g}
             PROVE  own'[b] = disk.own[b] /\ (b \in SavedBlocks => fat'[b] = disk.fat[b])
  BY DEF SyncInv
<1>1. disk.own[b] \in Slots \ {g} \/ own[b] \in Slots \ {g} =>
        own[b] = disk.own[b] /\ (b \in SavedBlocks => fat[b] = disk.fat[b])
  BY DEF SyncInv
<1>2. NoSlot \notin Slots
  BY Marks
<1>3. ~(own[b] \in {NoSlot, g} /\ own'[b] \in {NoSlot, g})
  BY <1>1, <1>2
<1>4. own'[b] = own[b] /\ fat'[b] = fat[b]
  BY <1>3
<1> QED BY <1>1, <1>4

(* Steps of a call keep the call's kind and file. *)
LEMMA SyncQuiet ==
  ASSUME IndInv, SyncInv, mounted' => mounted, UNCHANGED <<fat, own, disk>>,
         op.pc = "idle" \/ (op'.kind = op.kind /\ op'.ent = op.ent)
  PROVE  SyncInv'
<1>1. op.pc = "idle" => Busy = {}
  BY IdleNow DEF Busy
<1>2. op'.kind = op.kind /\ op'.ent = op.ent => Busy' = Busy
  BY DEF Busy
<1> QED BY <1>1, <1>2, SyncFrame

(* The steps that change no chain. *)
LEMMA SyncSilent ==
  ASSUME IndInv, SyncInv,
         \/ umount_fs
         \/ \E name \in Names : fs_create(name) \/ fs_open(name) \/ fs_delete(name)
         \/ \E d \in Fds : \/ fs_close(d)
                           \/ \E n \in 1 .. MaxNbyte : fs_read(d, n)
                           \/ \E l \in 0 .. MaxLength : fs_lseek(d, l) \/ fs_truncate(d, l)
         \/ walk \/ walk_done \/ read_chunk \/ write_tail
         \/ extend_abort \/ extend_error \/ write_return \/ write_error
         \/ delete_return \/ truncate_walk \/ truncate_cut
  PROVE  SyncInv'
<1>1. UNCHANGED <<mounted, fat, own, disk>>
  BY DEF umount_fs, fs_create, fs_open, fs_delete, fs_close, fs_read, fs_lseek, fs_truncate, walk,
         walk_done, read_chunk, write_tail, extend_abort, extend_error, write_return, write_error,
         write_finish, delete_return, truncate_walk, truncate_cut
<1>2. op \in Op
  BY DEF IndInv, TypeOK
<1>3. CASE op.pc = "idle"
  BY <1>1, <1>3, SyncQuiet
<1>4. CASE op.pc # "idle"
  <2>1. CASE walk \/ walk_done \/ read_chunk \/ write_tail
    <3>1. op'.kind = op.kind /\ op'.ent = op.ent
      BY <1>2, <2>1 DEF Op, walk, walk_done, read_chunk, write_tail
    <3> QED BY <1>1, <3>1, SyncQuiet
  <2>2. CASE extend_abort \/ extend_error \/ write_return \/ write_error
    <3>1. op'.kind = op.kind /\ op'.ent = op.ent
      BY <1>2, <2>2 DEF Op, extend_abort, extend_error, write_return, write_error, write_finish
    <3> QED BY <1>1, <3>1, SyncQuiet
  <2>3. CASE delete_return \/ truncate_walk \/ truncate_cut
    <3>1. op'.kind = op.kind /\ op'.ent = op.ent
      BY <1>2, <2>3 DEF Op, delete_return, truncate_walk, truncate_cut
    <3> QED BY <1>1, <3>1, SyncQuiet
  <2> QED BY <1>4, <2>1, <2>2, <2>3 DEF umount_fs, fs_create, fs_open, fs_delete, fs_close, fs_read,
                                        fs_lseek, fs_truncate
<1> QED BY <1>3, <1>4

(* The steps that read a file return with nothing changed. *)
LEMMA SyncRead ==
  ASSUME IndInv, SyncInv, read_return \/ read_error
  PROVE  SyncInv'
<1>1. UNCHANGED <<mounted, fat, own, disk>> /\ op.kind = "read"
  BY DEF read_return, read_error
<1>2. Busy = {}
  BY <1>1 DEF Busy
<1> QED BY <1>1, <1>2, SyncFrame

(* A step of a call whose blocks that change are free or the file's own. *)
LEMMA SyncOwnBlocks ==
  ASSUME IndInv, SyncInv, mounted, UNCHANGED disk,
         op.kind \in {"write", "extend", "truncate", "delete"},
         op'.kind = op.kind, op'.ent = op.ent,
         \A c \in Blocks :
           \/ own'[c] = own[c] /\ fat'[c] = fat[c]
           \/ own[c] \in {NoSlot, op.ent} /\ own'[c] \in {NoSlot, op.ent}
  PROVE  SyncInv'
<1>1. Busy = {op.ent} /\ Busy' = {op.ent} /\ op.ent \in Slots
  BY Fields DEF Busy, IndInv
<1> QED BY <1>1, SyncChange

(* fs_write allocates the first block of an empty file. *)
LEMMA SyncWrite ==
  ASSUME IndInv, SyncInv, NEW d \in Fds, NEW buf, fs_write(d, buf)
  PROVE  SyncInv'
<1>1. mounted /\ op.pc = "idle" /\ UNCHANGED <<mounted, disk>> /\ Busy = {}
  BY IdleNow DEF fs_write, Busy
<1>2. CASE UNCHANGED <<fat, own>>
  BY <1>1, <1>2, SyncQuiet
<1>3. ASSUME NEW b \in Blocks, allocate_free_block(b),
             fat' = [fat EXCEPT ![b] = FAT_EOF], own' = [own EXCEPT ![b] = fds[d].ent],
             op' = write_entry(d, fds[d].ent, b, 0, buf)
      PROVE  SyncInv'
  <2>1. own[b] = NoSlot
    BY <1>1, <1>3, FreeUnowned DEF allocate_free_block, IsLeast, FreeBlocks
  <2>2. fat \in [Blocks -> FatValues] /\ own \in [Blocks -> Slots \cup {NoSlot}]
        /\ fds[d].ent \in Slots
    BY Fields DEF IndInv, TypeOK
  <2>3. Busy' = {fds[d].ent}
    BY <1>3 DEF Busy, write_entry, Idle
  <2>4. \A c \in Blocks :
          \/ own'[c] = own[c] /\ fat'[c] = fat[c]
          \/ own[c] \in {NoSlot, fds[d].ent} /\ own'[c] \in {NoSlot, fds[d].ent}
    BY <1>3, <2>1, <2>2
  <2> QED BY <1>1, <2>2, <2>3, <2>4, SyncChange
<1> QED BY <1>2, <1>3 DEF fs_write

(* fs_write takes a free block for its file. *)
LEMMA SyncGrow ==
  ASSUME IndInv, SyncInv, write_grow \/ write_link
  PROVE  SyncInv'
<1>1. op \in Op /\ fat \in [Blocks -> FatValues] /\ own \in [Blocks -> Slots \cup {NoSlot}]
  BY DEF IndInv, TypeOK
<1>2. mounted /\ UNCHANGED <<mounted, disk>>
  BY DEF write_grow, write_link, IndInv, DescriptorsSound
<1>3. op'.kind = op.kind /\ op'.ent = op.ent
  BY <1>1 DEF write_grow, write_link, Op
<1>4. CASE write_grow
  <2>1. op.kind \in {"write", "extend"} /\ UNCHANGED own
    BY <1>4 DEF write_grow
  <2>2. UNCHANGED fat \/ \E b \in Blocks : fat[b] = FAT_FREE /\ fat' = [fat EXCEPT ![b] = FAT_EOF]
    BY <1>4 DEF write_grow, allocate_free_block, IsLeast, FreeBlocks
  <2>3. \A c \in Blocks : fat'[c] = fat[c] \/ own[c] = NoSlot
    BY <1>1, <1>2, <2>2, FreeUnowned
  <2> QED BY <1>2, <1>3, <2>1, <2>3, SyncOwnBlocks
<1>5. CASE write_link
  <2>1. /\ op.kind \in {"write", "extend"}
        /\ op.aux \in Blocks /\ own[op.aux] = NoSlot /\ op.blk \in Blocks /\ own[op.blk] = op.ent
    BY <1>5 DEF write_link, IndInv, CallSound, TailSound
  <2>2. fat' = [fat EXCEPT ![op.blk] = op.aux] /\ own' = [own EXCEPT ![op.aux] = op.ent]
    BY <1>5 DEF write_link
  <2>3. \A c \in Blocks :
          \/ own'[c] = own[c] /\ fat'[c] = fat[c]
          \/ own[c] \in {NoSlot, op.ent} /\ own'[c] \in {NoSlot, op.ent}
    BY <1>1, <2>1, <2>2
  <2> QED BY <1>2, <1>3, <2>1, <2>3, SyncOwnBlocks
<1> QED BY <1>4, <1>5

LEMMA SyncChunk ==
  ASSUME IndInv, SyncInv, write_chunk
  PROVE  SyncInv'
<1>1. op \in Op /\ fat \in [Blocks -> FatValues] /\ own \in [Blocks -> Slots \cup {NoSlot}]
  BY DEF IndInv, TypeOK
<1>2. mounted /\ UNCHANGED <<mounted, disk>> /\ op.kind \in {"write", "extend"}
  BY DEF write_chunk, IndInv, DescriptorsSound
<1>3. op'.kind = op.kind /\ op'.ent = op.ent
  BY <1>1 DEF write_chunk, Op
<1>4. op.blk \in Blocks /\ own[op.blk] = op.ent
  BY DEF write_chunk, IndInv, CallSound, ChunkSound, Here
<1>5. \/ UNCHANGED <<fat, own>>
      \/ \E b \in Blocks : /\ fat[b] = FAT_FREE
                           /\ fat' = [fat EXCEPT ![b] = FAT_EOF, ![op.blk] = b]
                           /\ own' = [own EXCEPT ![b] = op.ent]
  BY DEF write_chunk, allocate_free_block, IsLeast, FreeBlocks
<1>6. \A c \in Blocks :
        \/ own'[c] = own[c] /\ fat'[c] = fat[c]
        \/ own[c] \in {NoSlot, op.ent} /\ own'[c] \in {NoSlot, op.ent}
  <2>1. CASE UNCHANGED <<fat, own>>
    BY <2>1
  <2>2. ASSUME NEW b \in Blocks, fat[b] = FAT_FREE,
               fat' = [fat EXCEPT ![b] = FAT_EOF, ![op.blk] = b], own' = [own EXCEPT ![b] = op.ent],
               NEW c \in Blocks
        PROVE  \/ own'[c] = own[c] /\ fat'[c] = fat[c]
               \/ own[c] \in {NoSlot, op.ent} /\ own'[c] \in {NoSlot, op.ent}
    <3>1. own[b] = NoSlot
      BY <1>2, <2>2, FreeUnowned
    <3> QED BY <1>1, <1>4, <2>2, <3>1
  <2> QED BY <1>5, <2>1, <2>2
<1> QED BY <1>2, <1>3, <1>6, SyncOwnBlocks

(* fs_delete and fs_truncate free blocks of their file, and truncate ends it. *)
LEMMA SyncFree ==
  ASSUME IndInv, SyncInv, free_block_chain \/ truncate_return
  PROVE  SyncInv'
<1>1. op \in Op /\ fat \in [Blocks -> FatValues] /\ own \in [Blocks -> Slots \cup {NoSlot}]
      /\ op.blk \in FatValues
  BY Fields DEF IndInv, TypeOK
<1>2. mounted /\ UNCHANGED <<mounted, disk>>
  BY DEF free_block_chain, truncate_return, IndInv, DescriptorsSound
<1>3. op'.kind = op.kind /\ op'.ent = op.ent
  BY <1>1 DEF free_block_chain, truncate_return, Op
<1>4. CASE free_block_chain
  <2>1. op.kind \in {"truncate", "delete"} /\ op.blk \in Blocks /\ own[op.blk] = op.ent
    BY <1>4 DEF free_block_chain, IndInv, CallSound, FreeSound
  <2>2. fat' = [fat EXCEPT ![op.blk] = FAT_FREE] /\ own' = [own EXCEPT ![op.blk] = NoSlot]
    BY <1>4 DEF free_block_chain
  <2>3. \A c \in Blocks :
          \/ own'[c] = own[c] /\ fat'[c] = fat[c]
          \/ own[c] \in {NoSlot, op.ent} /\ own'[c] \in {NoSlot, op.ent}
    BY <1>1, <2>1, <2>2
  <2> QED BY <1>2, <1>3, <2>1, <2>3, SyncOwnBlocks
<1>5. CASE truncate_return
  <2>1. op.kind = "truncate" /\ UNCHANGED own
    BY <1>5 DEF truncate_return
  <2>2. UNCHANGED fat \/ (op.pc = "free" /\ fat' = [fat EXCEPT ![op.aux] = FAT_EOF])
    BY <1>5 DEF truncate_return
  <2>3. op.pc = "free" => op.aux \in Blocks /\ own[op.aux] = op.ent
    BY <2>1 DEF IndInv, CallSound, FreeSound
  <2>4. \A c \in Blocks : fat'[c] = fat[c] \/ own[c] = op.ent
    BY <1>1, <2>2, <2>3
  <2> QED BY <1>2, <1>3, <2>1, <2>4, SyncOwnBlocks
<1> QED BY <1>4, <1>5

LEMMA SyncKept == IndInv /\ SyncInv /\ [CrashNext]_vars => SyncInv'
<1> SUFFICES ASSUME IndInv, SyncInv, [CrashNext]_vars PROVE SyncInv'
  OBVIOUS
<1>1. CASE make_fs \/ make_fs_open
  <2>1. active = mounted /\ UNCHANGED mounted
    BY <1>1 DEF IndInv, DescriptorsSound, make_fs, make_fs_open
  <2>2. make_fs => ~mounted'
    BY <2>1 DEF make_fs
  <2>3. make_fs_open => ~disk'.magic
    BY DEF make_fs_open, make_disk, Metadata
  <2> QED BY <1>1, <2>2, <2>3 DEF SyncInv
<1>2. CASE mount_fs
  <2>1. own' = disk.own /\ UNCHANGED disk /\ \A b \in SavedBlocks : fat'[b] = disk.fat[b]
    BY <1>2, Constants DEF mount_fs
  <2> QED BY <2>1 DEF SyncInv
<1>3. CASE write_metadata_to_disk
  <2>1. disk'.own = own /\ own' = own /\ disk'.fat = [b \in SavedBlocks |-> fat[b]]
    BY <1>3 DEF write_metadata_to_disk, Metadata
  <2>2. mounted' => fat' = fat
    BY <1>3 DEF write_metadata_to_disk
  <2> QED BY <2>1, <2>2 DEF SyncInv
<1>4. CASE Crash
  BY <1>4 DEF Crash, lose_memory, SyncInv
<1>5. CASE extend_done
  <2>1. UNCHANGED <<mounted, fat, own, disk>> /\ op.kind = "extend" /\ op \in Op
    BY <1>5 DEF extend_done, IndInv, TypeOK
  <2>2. op'.kind = "write" /\ op'.ent = op.ent
    BY <1>5, <2>1 DEF extend_done, Op
  <2>3. Busy' = Busy
    BY <2>1, <2>2 DEF Busy
  <2> QED BY <2>1, <2>3, SyncFrame
<1>6. CASE Call
  BY <1>1, <1>6, SyncSilent, SyncWrite DEF Call
<1>7. CASE Step
  BY <1>3, <1>5, <1>7, SyncSilent, SyncRead, SyncGrow, SyncChunk, SyncFree DEF Step
<1>8. CASE UNCHANGED vars
  BY <1>8, SyncFrame DEF vars, Busy
<1> QED BY <1>2, <1>4, <1>6, <1>7, <1>8 DEF CrashNext, Next

(* Following a FAT from a block of a set that the FAT does not lead out of. *)
LEMMA ReachClosed ==
  ASSUME NEW f, NEW S \in SUBSET Blocks, NEW b, b \in Blocks => b \in S,
         \A c \in S : f[c] \in Blocks => f[c] \in S
  PROVE  Reach(f, b) \subseteq S
<1> DEFINE at == Chain(f, b)
           G  == {n \in Nat : at[n] \in Blocks => at[n] \in S}
<1>1. at[0] = b /\ \A k \in 1 .. TotalBlocks : at[k] = Hop(f, at[k - 1])
  BY ChainUnfolds
<1>2. Reach(f, b) = {at[n] : n \in 0 .. TotalBlocks} \cap Blocks
  BY DEF Reach
<1> HIDE DEF at
<1>3. TotalBlocks \in Nat
  BY SizesAssumption
<1>4. ASSUME NEW n \in Nat, 0 <= n, n < TotalBlocks, n \in G PROVE n + 1 \in G
  <2>1. n + 1 \in 1 .. TotalBlocks /\ (n + 1) - 1 = n
    BY <1>3, <1>4
  <2>2. at[n + 1] = Hop(f, at[n])
    BY <1>1, <2>1
  <2> QED BY <1>4, <2>2 DEF Hop
<1>5. \A n \in 0 .. TotalBlocks : n \in G
  <2>1. 0 \in G
    BY <1>1
  <2> HIDE DEF G
  <2> QED BY <1>3, <1>4, <2>1, Induct
<1>6. \A n \in 0 .. TotalBlocks : at[n] \in Blocks => at[n] \in S
  BY <1>5
<1> QED BY <1>2, <1>6

(* A FAT of which the entries below k are new: the files whose chains memory
   and disk agree on are untouched, and the one that changed stays among the
   blocks it had or has. *)
LEMMA TornWhole ==
  ASSUME IndInv, SyncInv, op.pc = "save", disk.magic, Covered,
         NEW k \in 0 .. FatSaved, NEW e \in Used(disk.dir), e \notin Busy
  PROVE  Whole(e, TornFat(k), disk.dir)
<1> DEFINE T  == TornFat(k)
           d  == disk.dir
           S(g) == BlocksOf(disk.own, g)
           X(g) == {b \in Blocks : own[b] = g \/ disk.own[b] = g}
<1>1. mounted /\ TypeOK /\ Deleted = {} /\ CutAt = {} /\ Fresh = {}
  BY AtRest DEF IndInv, DescriptorsSound
<1>2. /\ SavedFat \in [Blocks -> FatValues] /\ d \in [Slots -> Entry]
      /\ disk.own \in [Blocks -> Slots \cup {NoSlot}] /\ disk.base \in [Blocks -> Nat]
  BY <1>1, SavedType
<1>3. fat \in [Blocks -> FatValues] /\ own \in [Blocks -> Slots \cup {NoSlot}]
  BY <1>1 DEF TypeOK
<1>4. /\ HeadsSound(d, disk.own, disk.base, {})
      /\ LinksSound(SavedFat, d, disk.own, disk.base, {})
      /\ EndsSound(SavedFat, d, disk.own, disk.base)
      /\ NoLeak(SavedFat, disk.own, {})
  BY DEF IndInv, DiskSound
<1>5. LinksSound(fat, dir, own, base, {}) /\ NoLeak(fat, own, {})
  BY <1>1 DEF IndInv, ChainsSound
<1>6. \A b \in Blocks : T[b] = IF b \in SavedBlocks /\ b < k THEN fat[b] ELSE SavedFat[b]
  BY DEF TornFat
<1>7. \A b \in Blocks : SavedFat[b] = IF b \in SavedBlocks THEN disk.fat[b] ELSE FAT_FREE
  BY DEF SavedFat
<1>8. \A b \in Blocks : disk.own[b] \in Slots \ Busy \/ own[b] \in Slots \ Busy =>
        own[b] = disk.own[b] /\ (b \in SavedBlocks => fat[b] = disk.fat[b])
  BY <1>1 DEF SyncInv
<1> HIDE DEF T, d
<1>9. ASSUME NEW g \in Slots \ Busy, d[g].used
      PROVE  /\ Chain(T, d[g].first)[TotalBlocks] = FAT_EOF
             /\ d[g].size <= BlockSize * Cardinality(Reach(T, d[g].first))
             /\ Reach(T, d[g].first) \subseteq S(g)
  <2>1. \A b \in S(g) : T[b] = SavedFat[b]
    BY <1>6, <1>7, <1>8 DEF BlocksOf
  <2>2. Threaded(SavedFat, disk.base, S(g))
    BY <1>2, <1>4, SoundThreads
  <2>3. Threaded(T, disk.base, S(g))
    BY <2>1, <2>2 DEF Threaded
  <2>4. \A c \in S(g) : T[c] = FAT_EOF => d[g].size <= disk.base[c] + BlockSize
    BY <1>4, <2>1 DEF EndsSound, BlocksOf
  <2>5. \/ d[g].first = FAT_EOF /\ d[g].size = 0
        \/ d[g].first \in S(g) /\ disk.base[d[g].first] = 0
    BY <1>4, <1>9 DEF HeadsSound, BlocksOf
  <2>6. S(g) \in SUBSET Blocks /\ d[g].size \in Nat
    BY <1>2 DEF BlocksOf, Entry
  <2> HIDE DEF S
  <2> QED BY <1>2, <2>3, <2>4, <2>5, <2>6, FileReached
<1>10. ASSUME NEW g \in Slots, g \in Busy, d[g].used
       PROVE  Reach(T, d[g].first) \subseteq X(g)
  <2>1. ASSUME NEW c \in X(g), T[c] \in Blocks PROVE T[c] \in X(g)
    <3>1. c \in Blocks /\ (own[c] = g \/ disk.own[c] = g)
      OBVIOUS
    <3>2. Busy = {g}
      BY <1>10 DEF Busy
    <3>3. own[c] \in {g, NoSlot} /\ disk.own[c] \in {g, NoSlot}
      BY <1>2, <1>3, <1>8, <1>10, <3>1, <3>2, Marks
    <3>4. CASE c \in SavedBlocks /\ c < k
      <4>1. T[c] = fat[c] /\ fat[c] \in Blocks
        BY <1>6, <2>1, <3>1, <3>4
      <4>2. own[c] = g
        BY <1>5, <3>3, <3>4, <4>1, Marks DEF NoLeak
      <4>3. own[fat[c]] = g
        BY <1>5, <1>10, <3>1, <4>1, <4>2 DEF LinksSound
      <4> QED BY <4>1, <4>3
    <3>5. CASE ~(c \in SavedBlocks /\ c < k)
      <4>1. T[c] = SavedFat[c] /\ SavedFat[c] \in Blocks
        BY <1>6, <2>1, <3>1, <3>5
      <4>2. c \in SavedBlocks
        BY <1>7, <3>1, <4>1, Marks
      <4>3. disk.own[c] = g
        BY <1>4, <3>3, <4>1, <4>2, Marks DEF NoLeak
      <4>4. disk.own[SavedFat[c]] = g
        BY <1>4, <1>10, <3>1, <4>1, <4>3 DEF LinksSound
      <4> QED BY <4>1, <4>4
    <3> QED BY <3>4, <3>5
  <2>2. d[g].first \in Blocks => d[g].first \in X(g)
    BY <1>4, <1>10, Marks DEF HeadsSound
  <2>3. X(g) \in SUBSET Blocks
    OBVIOUS
  <2> HIDE DEF X
  <2> QED BY <2>1, <2>2, <2>3, ReachClosed
<1>11. e \in Slots \ Busy /\ d[e].used
  BY DEF Used, d
<1>12. ASSUME NEW g \in Used(d) \ {e}
       PROVE  Reach(T, d[e].first) \cap Reach(T, d[g].first) = {}
  <2>1. g \in Slots /\ d[g].used /\ g # e
    BY DEF Used
  <2>2. Reach(T, d[e].first) \subseteq S(e)
    BY <1>9, <1>11
  <2>3. CASE g \notin Busy
    <3>1. Reach(T, d[g].first) \subseteq S(g)
      BY <1>9, <2>1, <2>3
    <3> QED BY <2>1, <2>2, <3>1 DEF BlocksOf
  <2>4. CASE g \in Busy
    <3>1. Reach(T, d[g].first) \subseteq X(g)
      BY <1>10, <2>1, <2>4
    <3>2. \A b \in S(e) : own[b] = e /\ disk.own[b] = e
      BY <1>8, <1>11 DEF BlocksOf
    <3> QED BY <2>1, <2>2, <3>1, <3>2
  <2> QED BY <2>3, <2>4
<1>13. Whole(e, T, d)
  BY <1>9, <1>11, <1>12 DEF Whole
<1> QED BY <1>13 DEF T, d

(* A process that dies inside write_metadata_to_disk, with part of the FAT
   written and the directory not, can damage only the file of the call that
   saves: every call that changes a chain saves before it returns. *)
THEOREM TornSaveStaysLocal == CrashSpec => []TornSaveHarmsOne
<1>1. Init => SyncInv
  BY DEF Init, SyncInv
<1>2. IndInv /\ SyncInv => TornSaveHarmsOne
  <2> SUFFICES ASSUME IndInv, SyncInv, op.pc = "save", disk.magic, Covered,
                      NEW k \in 0 .. FatSaved, NEW e \in Used(disk.dir),
                      op.kind = "umount" \/ e # op.ent
               PROVE  Whole(e, TornFat(k), disk.dir)
    BY DEF TornSaveHarmsOne
  <2>1. e \notin Busy
    BY DEF Busy
  <2> QED BY <2>1, TornWhole
<1> QED BY Inductive, <1>1, <1>2, SyncKept, PTL DEF CrashSpec
-----------------------------------------------------------------------------
(* No block is lost, and at most one lies past the end of its file *)

(* The end of what fs_write has written but not yet added to the file's size. *)
Written == IF op.kind \in {"write", "extend"} /\ op.pc \in {"chunk", "abort"}
           THEN Target + op.cnt ELSE 0

(* A block of a file starts inside it or where it ends; in memory, or within
   what the call in progress has written; and fs_truncate cuts the chain so. *)
TightNow  == mounted =>
  \A b \in Blocks : own[b] \in Slots =>
    base[b] <= dir[own[b]].size \/ (own[b] = op.ent /\ base[b] <= Written)
DiskTight == disk.magic =>
  \A b \in Blocks : disk.own[b] \in Slots => disk.base[b] <= disk.dir[disk.own[b]].size
CutTight  == op.pc = "cut" =>
  /\ op.blk \in Blocks => op.off <= op.rem
  /\ op.blk = FAT_EOF => \A c \in Blocks : own[c] = op.ent => base[c] <= op.rem
FreeTight == op.pc = "free" /\ op.kind = "truncate" => base[op.aux] <= op.rem
TightInv  == TightNow /\ DiskTight /\ CutTight /\ FreeTight

LEMMA TargetType ==
  ASSUME TypeOK
  PROVE  Target \in Nat /\ Written \in Nat
BY Fields DEF Target, Written

(* Steps that leave the chains and sizes alone and do not finish a write. *)
LEMMA TightFrame ==
  ASSUME IndInv, TightInv, mounted' => mounted, UNCHANGED <<dir, own, base, disk>>, TypeOK',
         Written = 0 \/ (op'.ent = op.ent /\ Written <= Written')
  PROVE  TightNow' /\ DiskTight'
<1>1. DiskTight'
  BY DEF TightInv, DiskTight
<1>2. Written \in Nat /\ Written' \in Nat
  <2>1. Written \in Nat
    BY TargetType DEF IndInv
  <2>2. (TypeOK => Written \in Nat)'
    BY TargetType, PTL
  <2> QED BY <2>1, <2>2
<1>3. TightNow'
  <2> SUFFICES ASSUME mounted', NEW b \in Blocks, own[b] \in Slots
               PROVE  base[b] <= dir[own[b]].size \/ (own[b] = op'.ent /\ base[b] <= Written')
    BY DEF TightNow
  <2>1. base[b] <= dir[own[b]].size \/ (own[b] = op.ent /\ base[b] <= Written)
    BY DEF TightInv, TightNow
  <2>2. base[b] \in Nat /\ dir[own[b]].size \in Nat
    BY Fields DEF IndInv
  <2> QED BY <1>2, <2>1, <2>2
<1> QED BY <1>1, <1>3

(* Outside fs_truncate's loops nothing more is claimed. *)
LEMMA NoCut ==
  ASSUME op'.pc \notin {"cut", "free"}
  PROVE  CutTight' /\ FreeTight'
BY DEF CutTight, FreeTight

(* The steps that neither change a chain nor a size. *)
LEMMA TightSilent ==
  ASSUME IndInv, IndInv', TightInv,
         \/ umount_fs
         \/ \E name \in Names : fs_open(name) \/ fs_delete(name)
         \/ \E d \in Fds : \/ fs_close(d)
                           \/ \E n \in 1 .. MaxNbyte : fs_read(d, n)
                           \/ \E l \in 0 .. MaxLength : fs_lseek(d, l)
         \/ walk \/ walk_done \/ read_chunk \/ read_return \/ read_error
         \/ write_grow \/ write_tail
  PROVE  TightInv'
<1>1. UNCHANGED <<mounted, dir, own, base, disk>> /\ TypeOK'
  BY DEF umount_fs, fs_open, fs_delete, fs_close, fs_read, fs_lseek, walk, walk_done, read_chunk,
         read_return, read_error, write_grow, write_tail, IndInv
<1>2. Written = 0
  BY DEF umount_fs, fs_open, fs_delete, fs_close, fs_read, fs_lseek, walk, walk_done, read_chunk,
         read_return, read_error, write_grow, write_tail, Written
<1>3. TightNow' /\ DiskTight'
  BY <1>1, <1>2, TightFrame
<1>4. op \in Op
  BY DEF IndInv, TypeOK
<1>5. CASE op'.pc \notin {"cut", "free"}
  BY <1>3, <1>5, NoCut DEF TightInv
<1>6. CASE op'.pc \in {"cut", "free"}
  <2>1. /\ walk \/ walk_done \/ read_chunk => op'.pc \in {"walk", "chunk"}
        /\ write_grow \/ write_tail => op'.pc \in {"tail", "abort"}
    BY <1>4 DEF walk, walk_done, read_chunk, write_grow, write_tail, Op
  <2>2. read_return \/ read_error => op'.pc = "idle"
    BY DEF read_return, read_error, Idle
  <2>3. umount_fs => op'.pc = "save"
    BY DEF umount_fs, Idle
  <2>4. \A name \in Names : fs_open(name) => op'.pc = "idle"
    BY DEF fs_open
  <2>5. \A name \in Names : fs_delete(name) => op'.kind = "delete" /\ op'.pc = "free"
    BY DEF fs_delete, Idle
  <2>6. \A d \in Fds : /\ fs_close(d) => op'.pc = "idle"
                       /\ \A n \in 1 .. MaxNbyte : fs_read(d, n) => op'.pc \in {"idle", "walk"}
                       /\ \A l \in 0 .. MaxLength : fs_lseek(d, l) => op'.pc = "idle"
    BY DEF fs_close, fs_read, fs_lseek, Idle
  <2>7. op'.kind = "delete" /\ op'.pc = "free"
    BY <1>6, <2>1, <2>2, <2>3, <2>4, <2>5, <2>6
  <2>8. CutTight' /\ FreeTight'
    BY <2>7 DEF CutTight, FreeTight
  <2> QED BY <1>3, <2>8 DEF TightInv
<1> QED BY <1>5, <1>6

(* fs_create takes an entry no block belongs to. *)
LEMMA TightCreate ==
  ASSUME IndInv, TightInv, NEW name \in Names, fs_create(name)
  PROVE  TightInv'
<1>1. PICK i \in Slots :
        /\ ~dir[i].used
        /\ dir' = [dir EXCEPT ![i] = [used |-> TRUE, name |-> name, size |-> 0, first |-> FAT_EOF]]
  BY DEF fs_create, find_free_directory_entry, IsLeast
<1>2. mounted /\ op.pc = "idle" /\ UNCHANGED <<mounted, disk, op, own, base>>
  BY DEF fs_create
<1>3. dir \in [Slots -> Entry]
  BY DEF IndInv, TypeOK
<1>4. \A b \in Blocks : own[b] \in Slots => dir'[own[b]] = dir[own[b]]
  BY <1>1, <1>2, <1>3 DEF IndInv, ChainsSound, LinksSound
<1>5. Written = 0 /\ Written' = 0
  BY <1>2 DEF Written
<1>6. TightNow' /\ DiskTight'
  BY <1>2, <1>4, <1>5 DEF TightInv, TightNow, DiskTight
<1>7. CutTight' /\ FreeTight'
  BY <1>2, NoCut
<1> QED BY <1>6, <1>7 DEF TightInv

(* fs_write gives an empty file its first block. *)
LEMMA TightWrite ==
  ASSUME IndInv, IndInv', TightInv, NEW d \in Fds, NEW buf, fs_write(d, buf)
  PROVE  TightInv'
<1>1. mounted /\ op.pc = "idle" /\ fds[d].used /\ UNCHANGED <<mounted, disk>> /\ Written = 0
  BY DEF fs_write, Written
<1>2. op' = op \/ \E e, b, s : op' = write_entry(d, e, b, s, buf)
  BY DEF fs_write
<1>3. op'.pc \in {"idle", "walk"} /\ Written' = 0
  <2>1. \A e, b, s : write_entry(d, e, b, s, buf).pc = "walk"
    BY DEF write_entry, Idle
  <2>2. op'.pc \in {"idle", "walk"}
    BY <1>1, <1>2, <2>1
  <2> QED BY <2>2 DEF Written
<1>4. CutTight' /\ FreeTight'
  BY <1>3, NoCut
<1>5. CASE UNCHANGED <<dir, own, base>>
  <2>1. TightNow' /\ DiskTight'
    BY <1>1, <1>5, TightFrame DEF IndInv
  <2> QED BY <1>4, <2>1 DEF TightInv
<1>6. ASSUME NEW b \in Blocks, dir[fds[d].ent].first = FAT_EOF,
             dir' = [dir EXCEPT ![fds[d].ent].first = b, ![fds[d].ent].size = 0],
             own' = [own EXCEPT ![b] = fds[d].ent], base' = [base EXCEPT ![b] = 0]
      PROVE  TightInv'
  <2> DEFINE e == fds[d].ent
  <2>1. /\ dir \in [Slots -> Entry] /\ own \in [Blocks -> Slots \cup {NoSlot}]
        /\ base \in [Blocks -> Nat] /\ e \in Slots
    BY Fields DEF IndInv, TypeOK
  <2>2. dir[e].used /\ Deleted = {}
    BY <1>1, IdleNow DEF IndInv, DescriptorsSound
  <2>3. \A c \in Blocks : own[c] # e
    BY <1>1, <1>6, <2>1, <2>2, Marks DEF IndInv, ChainsSound, HeadsSound
  <2>4. dir'[e].size = 0 /\ \A g \in Slots : g # e => dir'[g] = dir[g]
    BY <1>6, <2>1 DEF Entry
  <2>5. own'[b] = e /\ base'[b] = 0 /\ \A c \in Blocks : c # b => own'[c] = own[c] /\ base'[c] = base[c]
    BY <1>6, <2>1
  <2>6. ASSUME NEW c \in Blocks, own'[c] \in Slots PROVE base'[c] <= dir'[own'[c]].size
    <3>1. CASE c = b
      BY <2>4, <2>5, <3>1
    <3>2. CASE c # b
      <4>1. own'[c] = own[c] /\ base'[c] = base[c] /\ own[c] # e /\ own[c] \in Slots
        BY <2>3, <2>5, <2>6, <3>2
      <4>2. base[c] <= dir[own[c]].size \/ base[c] <= 0
        BY <1>1, <4>1 DEF TightInv, TightNow
      <4>3. base[c] \in Nat /\ dir[own[c]].size \in Nat
        BY <4>1, Fields DEF IndInv
      <4> QED BY <2>4, <4>1, <4>2, <4>3
    <3> QED BY <3>1, <3>2
  <2>7. TightNow' /\ DiskTight'
    BY <1>1, <2>6 DEF TightInv, TightNow, DiskTight
  <2> QED BY <1>4, <2>7 DEF TightInv
<1> QED BY <1>5, <1>6 DEF fs_write

(* A block fs_write links behind the last one starts where the file ends. *)
LEMMA TightLink ==
  ASSUME IndInv, TightInv, write_link
  PROVE  TightInv'
<1>1. mounted /\ op.pc = "tail" /\ fat[op.blk] = FAT_EOF /\ UNCHANGED <<mounted, dir, fds, disk>>
  BY DEF write_link, IndInv, DescriptorsSound
<1>2. /\ op.kind \in {"write", "extend"} /\ op.cnt = 0
      /\ op.aux \in Blocks /\ own[op.aux] = NoSlot
      /\ op.blk \in Blocks /\ own[op.blk] = op.ent /\ EndHere
  BY <1>1 DEF IndInv, CallSound, TailSound
<1>3. /\ op \in Op /\ own \in [Blocks -> Slots \cup {NoSlot}] /\ base \in [Blocks -> Nat]
      /\ op.ent \in Slots /\ Target \in Nat
  BY Fields, TargetType DEF IndInv, TypeOK
<1>4. base[op.blk] + BlockSize = Target
  <2>1. PICK l \in Blocks : own[l] = op.ent /\ fat[l] = FAT_EOF /\ base[l] + BlockSize = Target
    BY <1>2 DEF EndHere
  <2>2. base[l] <= base[op.blk] /\ base[op.blk] <= base[l]
    BY <1>1, <1>2, <1>3, <2>1 DEF IndInv, ChainsSound, EndsSound
  <2>3. base[l] \in Nat /\ base[op.blk] \in Nat /\ BlockSize \in Nat
    BY <1>2, <1>3, Marks
  <2> QED BY <2>1, <2>2, <2>3
<1>5. op'.kind = op.kind /\ op'.pc = "chunk" /\ op'.ent = op.ent /\ op'.fd = op.fd /\ op'.cnt = 0
  BY <1>2, <1>3 DEF write_link, Op
<1>6. Written = 0 /\ Written' = Target
  <2>1. Target' = Target
    BY <1>1, <1>5 DEF Target
  <2> QED BY <1>1, <1>2, <1>3, <1>5, <2>1 DEF Written
<1>7. /\ own'[op.aux] = op.ent /\ base'[op.aux] = Target
      /\ \A c \in Blocks : c # op.aux => own'[c] = own[c] /\ base'[c] = base[c]
  BY <1>2, <1>3, <1>4 DEF write_link
<1>8. ASSUME NEW c \in Blocks, own'[c] \in Slots
      PROVE  base'[c] <= dir'[own'[c]].size \/ (own'[c] = op'.ent /\ base'[c] <= Written')
  <2>1. CASE c = op.aux
    BY <1>3, <1>5, <1>6, <1>7, <2>1
  <2>2. CASE c # op.aux
    <3>1. own[c] \in Slots /\ own'[c] = own[c] /\ base'[c] = base[c]
      BY <1>7, <1>8, <2>2
    <3>2. base[c] <= dir[own[c]].size \/ base[c] <= 0
      BY <1>1, <1>6, <3>1 DEF TightInv, TightNow
    <3>3. base[c] \in Nat /\ dir[own[c]].size \in Nat
      BY <3>1, Fields DEF IndInv
    <3> QED BY <1>1, <3>1, <3>2, <3>3
  <2> QED BY <2>1, <2>2
<1>9. TightNow' /\ DiskTight'
  BY <1>1, <1>8 DEF TightInv, TightNow, DiskTight
<1> QED BY <1>5, <1>9, NoCut DEF TightInv

(* So does a block the copy loop allocates when it has filled the one before. *)
LEMMA TightChunk ==
  ASSUME IndInv, TightInv, write_chunk
  PROVE  TightInv'
<1> DEFINE n == Smaller(BlockSize - op.off, op.rem)
<1>1. /\ mounted /\ op.pc = "chunk" /\ op.kind \in {"write", "extend"} /\ op.rem > 0
      /\ UNCHANGED <<mounted, dir, fds, disk>>
  BY DEF write_chunk, IndInv, DescriptorsSound
<1>2. /\ op.off < BlockSize
      /\ op.blk \in Blocks /\ own[op.blk] = op.ent /\ base[op.blk] + op.off = Target + op.cnt
  BY <1>1 DEF IndInv, CallSound, ChunkSound, Here
<1>3. /\ op \in Op /\ own \in [Blocks -> Slots \cup {NoSlot}] /\ base \in [Blocks -> Nat]
      /\ op.ent \in Slots /\ Target \in Nat /\ op.cnt \in Nat /\ op.off \in Nat /\ op.rem \in Nat
      /\ BlockSize \in Nat
  BY Fields, TargetType, Marks DEF IndInv, TypeOK
<1>4. n \in Nat
  BY <1>2, <1>3 DEF Smaller
<1>5. /\ op'.kind = op.kind /\ op'.pc \in {"chunk", "abort"} /\ op'.ent = op.ent /\ op'.fd = op.fd
      /\ op'.cnt = op.cnt + n
  BY <1>1, <1>3 DEF write_chunk, Op
<1>6. Written = Target + op.cnt /\ Written' = Target + (op.cnt + n)
  <2>1. Target' = Target
    BY <1>1, <1>5 DEF Target
  <2> QED BY <1>1, <1>5, <2>1 DEF Written
<1>7. \/ UNCHANGED <<own, base>>
      \/ \E b \in Blocks : /\ op.off + n = BlockSize
                           /\ own' = [own EXCEPT ![b] = op.ent]
                           /\ base' = [base EXCEPT ![b] = base[op.blk] + BlockSize]
  BY DEF write_chunk
<1> HIDE DEF n
<1>8. ASSUME NEW c \in Blocks, own'[c] \in Slots
      PROVE  base'[c] <= dir'[own'[c]].size \/ (own'[c] = op'.ent /\ base'[c] <= Written')
  <2>1. CASE own'[c] = own[c] /\ base'[c] = base[c]
    <3>1. base[c] <= dir[own[c]].size \/ (own[c] = op.ent /\ base[c] <= Written)
      BY <1>1, <1>8, <2>1 DEF TightInv, TightNow
    <3>2. base[c] \in Nat /\ dir[own[c]].size \in Nat
      BY <1>8, <2>1, Fields DEF IndInv
    <3> QED BY <1>1, <1>3, <1>4, <1>5, <1>6, <2>1, <3>1, <3>2
  <2>2. CASE op.off + n = BlockSize /\ own'[c] = op.ent /\ base'[c] = base[op.blk] + BlockSize
    <3>1. base[op.blk] \in Nat
      BY <1>2, <1>3
    <3>2. base'[c] = Written'
      BY <1>2, <1>3, <1>4, <1>6, <2>2, <3>1
    <3>3. Written' \in Nat
      BY <1>3, <1>4, <1>6
    <3> QED BY <1>5, <2>2, <3>2, <3>3
  <2> QED BY <1>3, <1>7, <2>1, <2>2
<1>9. TightNow' /\ DiskTight'
  BY <1>1, <1>8 DEF TightInv, TightNow, DiskTight
<1>10. op'.pc \notin {"cut", "free"}
  BY <1>5
<1> QED BY <1>9, <1>10, NoCut DEF TightInv

(* When fs_write sets the size, the file reaches all its blocks. *)
LEMMA TightResize ==
  ASSUME IndInv, TightInv, mounted, UNCHANGED <<mounted, own, base, disk>>,
         op'.pc \notin {"cut", "free"}, NEW s \in Nat,
         dir' = [dir EXCEPT ![op.ent].size = s], dir[op.ent].size <= s, Written <= s
  PROVE  TightInv'
<1>1. dir \in [Slots -> Entry] /\ op.ent \in Slots /\ dir[op.ent].size \in Nat /\ Written \in Nat
  BY Fields, TargetType DEF IndInv, TypeOK
<1>2. dir'[op.ent].size = s /\ \A g \in Slots : g # op.ent => dir'[g] = dir[g]
  BY <1>1 DEF Entry
<1>3. ASSUME NEW c \in Blocks, own[c] \in Slots PROVE base[c] <= dir'[own[c]].size
  <2>1. base[c] <= dir[own[c]].size \/ (own[c] = op.ent /\ base[c] <= Written)
    BY <1>3 DEF TightInv, TightNow
  <2>2. base[c] \in Nat /\ dir[own[c]].size \in Nat
    BY <1>3, Fields DEF IndInv
  <2> QED BY <1>1, <1>2, <1>3, <2>1, <2>2
<1>4. TightNow' /\ DiskTight'
  BY <1>3 DEF TightInv, TightNow, DiskTight
<1> QED BY <1>4, NoCut DEF TightInv

LEMMA TightExtendDone ==
  ASSUME IndInv, TightInv, extend_done
  PROVE  TightInv'
<1>1. /\ mounted /\ op.kind = "extend" /\ op.pc = "chunk" /\ op.rem = 0
      /\ UNCHANGED <<mounted, own, base, disk>>
      /\ dir' = [dir EXCEPT ![op.ent].size = fds[op.fd].off]
  BY DEF extend_done, IndInv, DescriptorsSound
<1>2. op'.pc = "walk"
  BY DEF extend_done, IndInv, TypeOK, Op
<1>3. op.cnt \in Nat /\ fds[op.fd].off \in Nat /\ dir[op.ent].size \in Nat /\ op.rem \in Nat
  BY Fields DEF IndInv
<1>4. Target = dir[op.ent].size /\ Target + op.cnt + op.rem = fds[op.fd].off
  BY <1>1 DEF IndInv, CallSound, BytesSound, Target
<1>5. Written = Target + op.cnt
  BY <1>1 DEF Written
<1>6. dir[op.ent].size <= fds[op.fd].off /\ Written <= fds[op.fd].off
  BY <1>1, <1>3, <1>4, <1>5
<1>7. op'.pc \notin {"cut", "free"}
  BY <1>2
<1> QED BY <1>1, <1>3, <1>6, <1>7, TightResize

LEMMA TightFinish ==
  ASSUME IndInv, TightInv, extend_abort \/ extend_error \/ write_return \/ write_error
  PROVE  TightInv'
<1>1. /\ mounted /\ op.kind \in {"write", "extend"} /\ op.pc \in {"chunk", "abort"}
  BY DEF extend_abort, extend_error, write_return, write_error, IndInv, DescriptorsSound
<1>2. \E result : write_finish(Target, result)
  BY DEF extend_abort, extend_error, write_return, write_error, Target
<1>3. /\ UNCHANGED <<mounted, own, base, disk>>
      /\ dir' = [dir EXCEPT ![op.ent].size = Larger(dir[op.ent].size, Target + op.cnt)]
      /\ op' = [op EXCEPT !.pc = "save"]
  BY <1>2 DEF write_finish
<1>4. op.cnt \in Nat /\ Target \in Nat /\ dir[op.ent].size \in Nat /\ op \in Op
  BY Fields, TargetType DEF IndInv, TypeOK
<1>5. op'.pc \notin {"cut", "free"}
  BY <1>3, <1>4 DEF Op
<1>6. Written = Target + op.cnt
  BY <1>1 DEF Written
<1> DEFINE s == Larger(dir[op.ent].size, Target + op.cnt)
<1>7. s \in Nat /\ dir[op.ent].size <= s /\ Written <= s
  BY <1>4, <1>6 DEF Larger
<1>8. dir' = [dir EXCEPT ![op.ent].size = s]
  BY <1>3
<1> HIDE DEF s
<1> QED BY <1>1, <1>3, <1>5, <1>7, <1>8, TightResize

(* Fewer blocks and no change of size. *)
LEMMA TightFree ==
  ASSUME IndInv, TightInv, free_block_chain
  PROVE  TightInv'
<1>1. /\ mounted /\ op.pc = "free" /\ op.blk \in Blocks /\ UNCHANGED <<mounted, dir, base, disk>>
      /\ own' = [own EXCEPT ![op.blk] = NoSlot]
  BY DEF free_block_chain, IndInv, DescriptorsSound, CallSound, FreeSound
<1>2. op \in Op /\ own \in [Blocks -> Slots \cup {NoSlot}]
  BY DEF IndInv, TypeOK
<1>3. op'.kind = op.kind /\ op'.pc = "free" /\ op'.aux = op.aux /\ op'.rem = op.rem /\ op'.ent = op.ent
  BY <1>1, <1>2 DEF free_block_chain, Op
<1>4. \A c \in Blocks : own'[c] \in Slots => own'[c] = own[c]
  BY <1>1, <1>2, Marks
<1>5. Written = 0 /\ Written' = 0
  BY <1>1, <1>3 DEF Written
<1>6. TightNow' /\ DiskTight'
  BY <1>1, <1>3, <1>4, <1>5 DEF TightInv, TightNow, DiskTight
<1>7. CutTight' /\ FreeTight'
  BY <1>1, <1>3 DEF TightInv, CutTight, FreeTight
<1> QED BY <1>6, <1>7 DEF TightInv

(* The file that was deleted has no block left. *)
LEMMA TightDelete ==
  ASSUME IndInv, TightInv, delete_return
  PROVE  TightInv'
<1>1. /\ mounted /\ op.pc = "free" /\ op.kind = "delete" /\ op.blk \notin Blocks
      /\ UNCHANGED <<mounted, own, base, disk>>
      /\ dir' = [dir EXCEPT ![op.ent] = EmptyEntry]
  BY Marks DEF delete_return, IndInv, DescriptorsSound
<1>2. \A c \in Blocks : own[c] # op.ent
  BY <1>1 DEF IndInv, CallSound, FreeSound
<1>3. dir \in [Slots -> Entry] /\ op.ent \in Slots /\ op \in Op
  BY Fields DEF IndInv, TypeOK
<1>4. op'.pc = "save"
  BY <1>3 DEF delete_return, Op
<1>5. Written = 0 /\ Written' = 0
  BY <1>1, <1>4 DEF Written
<1>6. \A c \in Blocks : own[c] \in Slots => dir'[own[c]] = dir[own[c]]
  BY <1>1, <1>2, <1>3
<1>7. TightNow' /\ DiskTight'
  BY <1>1, <1>2, <1>5, <1>6 DEF TightInv, TightNow, DiskTight
<1>8. op'.pc \notin {"cut", "free"}
  BY <1>4
<1> QED BY <1>7, <1>8, NoCut DEF TightInv

(* fs_truncate looks for the block that holds the new end: all blocks up to it
   start inside the new length. *)
LEMMA TightTruncate ==
  ASSUME IndInv, IndInv', TightInv, NEW d \in Fds, NEW l \in Nat, fs_truncate(d, l)
  PROVE  TightInv'
<1> DEFINE e == fds[d].ent
<1>1. /\ mounted /\ op.pc = "idle" /\ fds[d].used
      /\ UNCHANGED <<mounted, fat, dir, fds, own, base, disk>>
      /\ op' = [Idle EXCEPT !.kind = "truncate", !.pc = "cut", !.fd = d, !.ent = e,
                            !.blk = dir[e].first, !.rem = l % UintMod]
  BY DEF fs_truncate
<1>2. /\ op'.kind = "truncate" /\ op'.pc = "cut" /\ op'.ent = e /\ op'.blk = dir[e].first
      /\ op'.off = 0 /\ op'.rem = l % UintMod
  BY <1>1 DEF Idle
<1>3. Written = 0
  BY <1>1 DEF Written
<1>4. TightNow' /\ DiskTight'
  BY <1>1, <1>3, TightFrame DEF IndInv
<1>5. op'.rem \in Nat
  BY DEF IndInv, TypeOK, Op
<1>6. e \in Slots /\ dir[e].used /\ Deleted = {}
  BY <1>1, IdleNow, Fields DEF IndInv, DescriptorsSound
<1>7. dir[e].first = FAT_EOF => \A c \in Blocks : own[c] # e
  BY <1>1, <1>6, Marks DEF IndInv, ChainsSound, HeadsSound
<1>8. CutTight'
  BY <1>1, <1>2, <1>5, <1>7 DEF CutTight
<1>9. FreeTight'
  BY <1>2 DEF FreeTight
<1> QED BY <1>4, <1>8, <1>9 DEF TightInv

LEMMA TightCut ==
  ASSUME IndInv, IndInv', TightInv, truncate_walk \/ truncate_cut
  PROVE  TightInv'
<1>1. /\ mounted /\ op.pc = "cut" /\ op.blk # FAT_EOF
      /\ UNCHANGED <<mounted, fat, dir, own, base, disk>>
  BY DEF truncate_walk, truncate_cut, IndInv, DescriptorsSound
<1>2. /\ op.kind = "truncate"
      /\ op.blk \in Blocks /\ own[op.blk] = op.ent /\ base[op.blk] = op.off
  BY <1>1 DEF IndInv, CallSound, CutSound
<1>3. op.off <= op.rem
  BY <1>1, <1>2 DEF TightInv, CutTight
<1>4. op \in Op /\ op.ent \in Slots /\ op.off \in Nat /\ op.rem \in Nat /\ BlockSize \in Nat
  BY Fields, Marks DEF IndInv, TypeOK
<1>5. Written = 0 /\ CutAt = {}
  BY <1>1, AtRest DEF Written
<1>6. TightNow' /\ DiskTight'
  BY <1>1, <1>5, TightFrame DEF IndInv
<1>7. CASE truncate_walk
  <2>1. /\ op'.pc = "cut" /\ op'.ent = op.ent /\ op'.rem = op.rem
        /\ op'.blk = fat[op.blk] /\ op'.off = op.off + BlockSize /\ op.off + BlockSize <= op.rem
    BY <1>1, <1>4, <1>7 DEF truncate_walk, Op
  <2>2. ASSUME fat[op.blk] = FAT_EOF, NEW c \in Blocks, own[c] = op.ent
        PROVE  base[c] <= op.rem
    <3>1. base[c] <= base[op.blk]
      BY <1>1, <1>2, <1>4, <2>2 DEF IndInv, ChainsSound, EndsSound
    <3>2. base[c] \in Nat
      BY Fields DEF IndInv
    <3> QED BY <1>2, <1>3, <1>4, <3>1, <3>2
  <2>3. CutTight'
    BY <1>1, <2>1, <2>2 DEF CutTight
  <2>4. FreeTight'
    BY <2>1 DEF FreeTight
  <2> QED BY <1>6, <2>3, <2>4 DEF TightInv
<1>8. CASE truncate_cut
  <2>1. op'.pc = "free" /\ op'.aux = op.blk /\ op'.rem = op.rem
    BY <1>4, <1>8 DEF truncate_cut, Op
  <2>2. CutTight' /\ FreeTight'
    BY <1>1, <1>2, <1>3, <2>1 DEF CutTight, FreeTight
  <2> QED BY <1>6, <2>2 DEF TightInv
<1> QED BY <1>7, <1>8

LEMMA TightTruncateReturn ==
  ASSUME IndInv, TightInv, truncate_return
  PROVE  TightInv'
<1>1. /\ mounted /\ op.kind = "truncate" /\ UNCHANGED <<mounted, own, base, disk>>
      /\ dir' = [dir EXCEPT ![op.ent].size = op.rem] /\ op' = [op EXCEPT !.pc = "save"]
      /\ (op.pc = "cut" /\ op.blk = FAT_EOF) \/ (op.pc = "free" /\ op.blk \notin Blocks)
  BY Marks DEF truncate_return, IndInv, DescriptorsSound
<1>2. dir \in [Slots -> Entry] /\ op.ent \in Slots /\ op \in Op /\ op.rem \in Nat
  BY Fields DEF IndInv, TypeOK
<1>3. op'.pc = "save"
  BY <1>1, <1>2 DEF Op
<1>4. Written = 0
  BY <1>1 DEF Written
<1>5. \A c \in Blocks : own[c] = op.ent => base[c] <= op.rem
  <2>1. CASE op.pc = "cut" /\ op.blk = FAT_EOF
    BY <2>1 DEF TightInv, CutTight
  <2>2. CASE op.pc = "free" /\ op.blk \notin Blocks
    <3>1. op.aux \in Blocks /\ \A c \in Blocks : own[c] = op.ent => base[c] <= base[op.aux]
      BY <1>1, <2>2 DEF IndInv, CallSound, FreeSound
    <3>2. base[op.aux] <= op.rem
      BY <1>1, <2>2 DEF TightInv, FreeTight
    <3>3. \A c \in Blocks : base[c] \in Nat
      BY Fields DEF IndInv
    <3> QED BY <1>2, <3>1, <3>2, <3>3
  <2> QED BY <1>1, <2>1, <2>2
<1>6. dir'[op.ent].size = op.rem /\ \A g \in Slots : g # op.ent => dir'[g] = dir[g]
  BY <1>1, <1>2 DEF Entry
<1>7. ASSUME NEW c \in Blocks, own[c] \in Slots PROVE base[c] <= dir'[own[c]].size
  <2>1. CASE own[c] = op.ent
    BY <1>5, <1>6, <2>1
  <2>2. CASE own[c] # op.ent
    BY <1>1, <1>6, <1>7, <2>2 DEF TightInv, TightNow
  <2> QED BY <2>1, <2>2
<1>8. TightNow' /\ DiskTight'
  BY <1>1, <1>7 DEF TightInv, TightNow, DiskTight
<1>9. op'.pc \notin {"cut", "free"}
  BY <1>3
<1> QED BY <1>8, <1>9, NoCut DEF TightInv

LEMMA TightKept == IndInv /\ TightInv /\ [CrashNext]_vars => TightInv'
<1> SUFFICES ASSUME IndInv, TightInv, [CrashNext]_vars PROVE TightInv'
  OBVIOUS
<1>1. IndInv'
  BY NextInd
<1>2. NoSlot \notin Slots /\ \A b \in Blocks : NoOwner[b] = NoSlot
  BY Marks DEF NoOwner
<1>3. CASE make_fs
  <2>1. ~mounted' /\ op'.pc = "idle"
    BY <1>3 DEF make_fs, IndInv, DescriptorsSound
  <2>2. disk'.own = NoOwner
    BY <1>3 DEF make_fs, Metadata
  <2>3. TightNow' /\ DiskTight'
    BY <1>2, <2>1, <2>2 DEF TightNow, DiskTight
  <2> QED BY <2>1, <2>3, NoCut DEF TightInv
<1>4. CASE make_fs_open
  <2>1. op.pc = "idle" /\ UNCHANGED <<mounted, dir, fds, own, base, op>>
    BY <1>4 DEF make_fs_open
  <2>2. ~disk'.magic
    BY <1>4 DEF make_fs_open, make_disk, Metadata
  <2>3. Written = 0 /\ Written' = 0
    BY <2>1 DEF Written
  <2>4. TightNow' /\ DiskTight'
    BY <2>1, <2>2, <2>3 DEF TightInv, TightNow, DiskTight
  <2> QED BY <2>1, <2>4, NoCut DEF TightInv
<1>5. CASE mount_fs
  <2>1. /\ op.pc = "idle" /\ disk.magic /\ UNCHANGED <<disk, op>>
        /\ dir' = disk.dir /\ own' = disk.own /\ base' = disk.base
    BY <1>5 DEF mount_fs
  <2>2. TightNow' /\ DiskTight'
    BY <2>1 DEF TightInv, TightNow, DiskTight
  <2> QED BY <2>1, <2>2, NoCut DEF TightInv
<1>6. CASE write_metadata_to_disk
  <2>1. /\ op.pc = "save" /\ UNCHANGED <<dir, own, base>> /\ op' = Idle
        /\ disk'.dir = dir /\ disk'.own = own /\ disk'.base = base
    BY <1>6 DEF write_metadata_to_disk, Metadata
  <2>2. mounted /\ Written = 0 /\ op'.pc = "idle"
    BY <2>1 DEF IndInv, DescriptorsSound, Written, Idle
  <2>3. \A b \in Blocks : own[b] \in Slots => base[b] <= dir[own[b]].size
    <3> SUFFICES ASSUME NEW b \in Blocks, own[b] \in Slots PROVE base[b] <= dir[own[b]].size
      OBVIOUS
    <3>1. base[b] <= dir[own[b]].size \/ base[b] <= 0
      BY <2>2 DEF TightInv, TightNow
    <3>2. base[b] \in Nat /\ dir[own[b]].size \in Nat
      BY Fields DEF IndInv
    <3> QED BY <3>1, <3>2
  <2>4. TightNow' /\ DiskTight'
    BY <2>1, <2>3 DEF TightNow, DiskTight
  <2> QED BY <2>2, <2>4, NoCut DEF TightInv
<1>7. CASE Crash
  <2>1. ~mounted' /\ op'.pc = "idle" /\ UNCHANGED disk
    BY <1>7 DEF Crash, lose_memory, Idle
  <2>2. TightNow' /\ DiskTight'
    BY <2>1 DEF TightInv, TightNow, DiskTight
  <2> QED BY <2>1, <2>2, NoCut DEF TightInv
<1>8. CASE Call
  <2>1. 0 .. MaxLength \subseteq Nat
    BY SizesAssumption
  <2> QED BY <1>1, <1>3, <1>4, <1>8, <2>1, TightSilent, TightCreate, TightWrite, TightTruncate DEF Call
<1>9. CASE Step
  BY <1>1, <1>6, <1>9, TightSilent, TightLink, TightChunk, TightExtendDone, TightFinish, TightFree,
     TightDelete, TightCut, TightTruncateReturn DEF Step
<1>10. CASE UNCHANGED vars
  BY <1>10 DEF vars, TightInv, TightNow, DiskTight, CutTight, FreeTight, Written, Target
<1> QED BY <1>5, <1>7, <1>8, <1>9, <1>10 DEF CrashNext, Next

(* Between two calls every block of a file is on its chain. *)
LEMMA AllReached ==
  ASSUME IndInv, mounted, op.pc = "idle", NEW e \in Slots, NEW b \in Blocks, own[b] = e
  PROVE  b \in Reach(fat, dir[e].first)
<1> DEFINE R == Reach(fat, dir[e].first)
           M == {c \in BlocksOf(own, e) : c \notin R}
           T == {base[c] : c \in M}
<1>1. /\ HeadsSound(dir, own, base, {}) /\ LinksSound(fat, dir, own, base, {})
      /\ Linked(fat, dir, own, {})
  BY IdleNow DEF IndInv, ChainsSound
<1>2. fat \in [Blocks -> FatValues] /\ base \in [Blocks -> Nat] /\ BlockSize \in Nat /\ BlockSize > 0
  BY Marks DEF IndInv, TypeOK
<1>3. dir[e].used
  BY <1>1 DEF LinksSound
<1>4. dir[e].first \in BlocksOf(own, e) /\ base[dir[e].first] = 0
  BY <1>1, <1>3 DEF HeadsSound, BlocksOf
<1>5. Threaded(fat, base, BlocksOf(own, e))
  BY <1>1, <1>2, SoundThreads
<1>6. BlocksOf(own, e) \in SUBSET Blocks
  BY DEF BlocksOf
<1>7. dir[e].first \in R /\ \A c \in R : fat[c] \in Blocks => fat[c] \in R
  BY <1>2, <1>4, <1>5, <1>6, ReachCounts
<1> HIDE DEF R
<1>8. T \subseteq Nat
  BY <1>2, <1>6
<1>9. ASSUME T # {} PROVE FALSE
  <2>1. PICK k \in T : \A j \in T : k <= j
    <3> HIDE DEF T
    <3> QED BY <1>8, <1>9, LeastNumber
  <2>2. PICK c \in BlocksOf(own, e) : c \notin R /\ base[c] = k
    BY <2>1
  <2>3. c \in Blocks /\ own[c] = e /\ c # dir[e].first
    BY <1>7, <2>2 DEF BlocksOf
  <2>4. PICK x \in Blocks : own[x] = e /\ fat[x] = c
    BY <1>1, <2>3 DEF Linked
  <2>5. base[c] = base[x] + BlockSize
    BY <1>1, <2>3, <2>4 DEF LinksSound
  <2>6. x \notin R
    BY <1>7, <2>2, <2>3, <2>4
  <2>7. base[x] \in T
    BY <2>4, <2>6 DEF BlocksOf
  <2>8. k <= base[x]
    BY <2>1, <2>7
  <2>9. base[x] \in Nat /\ k = base[x] + BlockSize
    BY <1>2, <2>2, <2>4, <2>5
  <2> QED BY <1>2, <2>8, <2>9
<1>10. b \in BlocksOf(own, e)
  BY DEF BlocksOf
<1>11. b \in R
  BY <1>9, <1>10
<1> QED BY <1>11 DEF R

(* Between two calls every block that is not free is on the chain of a file,
   so that fs_delete and fs_truncate can give it back, and a chain is at most
   one block longer than the file's bytes need. *)
THEOREM BlocksStayAccounted == CrashSpec => []BlocksAccounted
<1>1. Init => TightInv
  <2> SUFFICES ASSUME Init PROVE TightInv
    OBVIOUS
  <2>1. ~mounted /\ op.pc = "idle"
    BY DEF Init, Idle
  <2>2. ~disk.magic
    BY DEF Init, make_disk, Metadata
  <2> QED BY <2>1, <2>2 DEF TightInv, TightNow, DiskTight, CutTight, FreeTight
<1>2. IndInv /\ TightInv => BlocksAccounted
  <2> SUFFICES ASSUME IndInv, TightInv, mounted, op.pc = "idle"
               PROVE  /\ {b \in SavedBlocks : fat[b] # FAT_FREE}
                           \subseteq UNION {Reach(fat, dir[e].first) : e \in Used(dir)}
                      /\ \A e \in Used(dir) :
                           BlockSize * (Cardinality(Reach(fat, dir[e].first)) - 1) <= dir[e].size
    BY DEF BlocksAccounted
  <2>1. /\ HeadsSound(dir, own, base, {}) /\ LinksSound(fat, dir, own, base, {})
        /\ NoLeak(fat, own, {})
    BY IdleNow DEF IndInv, ChainsSound
  <2>2. fat \in [Blocks -> FatValues] /\ base \in [Blocks -> Nat] /\ dir \in [Slots -> Entry]
        /\ BlockSize \in Nat /\ SavedBlocks \subseteq Blocks
    BY Marks, Constants DEF IndInv, TypeOK
  <2>3. ASSUME NEW b \in SavedBlocks, fat[b] # FAT_FREE
        PROVE  \E e \in Used(dir) : b \in Reach(fat, dir[e].first)
    <3>1. own[b] \in Slots /\ b \in Blocks
      BY <2>1, <2>2, <2>3 DEF NoLeak
    <3>2. own[b] \in Used(dir)
      BY <2>1, <3>1 DEF LinksSound, Used
    <3>3. b \in Reach(fat, dir[own[b]].first)
      BY <3>1, AllReached
    <3> QED BY <3>2, <3>3
  <2>4. ASSUME NEW e \in Used(dir)
        PROVE  BlockSize * (Cardinality(Reach(fat, dir[e].first)) - 1) <= dir[e].size
    <3>1. e \in Slots /\ dir[e].used /\ dir[e].size \in Nat
      BY <2>2 DEF Used, Entry
    <3>2. CASE dir[e].first = FAT_EOF
      <4>1. Cardinality(Reach(fat, dir[e].first)) = 0
        BY <3>2, ReachNothing, FS_EmptySet
      <4>2. BlockSize * (0 - 1) <= 0
        BY <2>2
      <4>3. BlockSize * (0 - 1) \in Int
        BY <2>2
      <4> QED BY <3>1, <4>1, <4>2, <4>3
    <3>3. CASE dir[e].first # FAT_EOF
      <4>1. dir[e].first \in BlocksOf(own, e) /\ base[dir[e].first] = 0
        BY <2>1, <3>1, <3>3 DEF HeadsSound, BlocksOf
      <4>2. Threaded(fat, base, BlocksOf(own, e)) /\ BlocksOf(own, e) \in SUBSET Blocks
        BY <2>1, <2>2, <3>1, SoundThreads DEF BlocksOf
      <4>3. Reach(fat, dir[e].first) \subseteq BlocksOf(own, e)
            /\ \E x \in Reach(fat, dir[e].first), n \in Nat :
                 base[x] = n * BlockSize /\ Cardinality(Reach(fat, dir[e].first)) = n + 1
        BY <2>2, <4>1, <4>2, ReachCounts
      <4>4. PICK l \in Reach(fat, dir[e].first), m \in Nat :
              base[l] = m * BlockSize /\ Cardinality(Reach(fat, dir[e].first)) = m + 1
        BY <4>3
      <4>5. l \in Blocks /\ own[l] = e
        BY <4>3 DEF BlocksOf
      <4>6. base[l] <= dir[e].size \/ base[l] <= 0
        BY <3>1, <4>5 DEF TightInv, TightNow, Written
      <4>7. base[l] \in Nat
        BY <2>2, <4>5
      <4>8. BlockSize * ((m + 1) - 1) = m * BlockSize
        BY <2>2
      <4> QED BY <3>1, <4>4, <4>6, <4>7, <4>8
    <3> QED BY <3>2, <3>3
  <2> QED BY <2>3, <2>4
<1> QED BY Inductive, <1>1, <1>2, TightKept, PTL DEF CrashSpec
=============================================================================
