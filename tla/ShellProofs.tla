---------------------------- MODULE ShellProofs ----------------------------
(***************************************************************************)
(* Proofs about the shell of EC440_HW1, for every set of lines, every      *)
(* number of processes and every capacity of a pipe.                       *)
(***************************************************************************)
EXTENDS Shell, NumberInduction, FiniteSetTheorems, SequenceTheorems, TLAPS

(* The pipe whose reader is still to be started, by its writer, and the
   command that will read it, if it reads its input. *)
Feeding  == CASE pc = "wait" -> last [] pc = "fork" -> input [] OTHER -> Nobody
NextCmd  == IF pc = "wait" THEN i + 1 ELSE i
Reads(n) == n <= Count /\ line.cmds[n].reads /\ Files(line.cmds[n]).in = {}

Position ==
  /\ line \in Line
  /\ pc = "wait" => last \in Pids /\ i <= Count

(* Nobody has read from it. *)
Fresh ==
  Feeding # Nobody =>
    /\ kid[Feeding].fill = kid[Feeding].wrote
    /\ \A q \in Pids : Runs(q) => kid[q].from # Feeding
    /\ kid[Feeding].heard => Reads(NextCmd)

(* A pipe has one reader; what went in was read or is still in the pipe; a
   reader that has seen the end has left it empty, without a writer. *)
Reader(q) == Runs(q) /\ kid[q].reads # "no"
PipeSound(q) ==
  /\ kid[q].from \in Pids /\ kid[q].from # q
  /\ kid[q].got + kid[kid[q].from].fill = kid[kid[q].from].wrote
  /\ kid[q].reads = "end" => ~Runs(kid[q].from) /\ kid[kid[q].from].fill = 0
PipesSound == \A q \in Pids : Reader(q) => PipeSound(q)
OneReader  == \A q, r \in Pids : Reader(q) /\ Reader(r) /\ kid[q].from = kid[r].from => q = r

(* A pipe that is to be read is being filled or read, or is empty for good. *)
Drained(p) ==
  \/ p = Feeding
  \/ ~Runs(p) /\ kid[p].fill = 0
  \/ \E q \in Pids : Runs(q) /\ kid[q].reads = "open" /\ kid[q].from = p
HeardDrained == pc # "ended" => \A p \in Pids : kid[p].heard => Drained(p)

ShellInv == TypeOK /\ Position /\ ReapsBalance /\ Fresh /\ PipesSound /\ OneReader /\ HeardDrained
-----------------------------------------------------------------------------
(* Types *)

Kid == [st : {"none", "running", "zombie"}, left : Nat, wrote : Nat, reads : {"no", "open", "end"},
        got : Nat, from : Pids \cup {Nobody}, piped : BOOLEAN, fill : 0 .. PipeCap,
        held : BOOLEAN, heard : BOOLEAN, bg : BOOLEAN]

LEMMA ShellFacts ==
  /\ Nobody \notin Pids /\ IsFiniteSet(Pids) /\ PipeCap \in Nat /\ Lines \subseteq Line
BY ShellAssumption

LEMMA NoKidType ==
  /\ NoKid \in Kid /\ NoKid.st = "none" /\ NoKid.wrote = 0 /\ NoKid.fill = 0 /\ NoKid.got = 0
BY ShellFacts DEF NoKid, Kid

LEMMA KidFacts ==
  ASSUME TypeOK, NEW p \in Pids
  PROVE  /\ kid \in [Pids -> Kid] /\ kid[p] \in Kid
         /\ kid[p].st \in {"none", "running", "zombie"} /\ kid[p].left \in Nat /\ kid[p].wrote \in Nat
         /\ kid[p].reads \in {"no", "open", "end"} /\ kid[p].got \in Nat /\ kid[p].from \in Pids \cup {Nobody}
         /\ kid[p].piped \in BOOLEAN /\ kid[p].fill \in 0 .. PipeCap /\ kid[p].fill \in Nat
         /\ kid[p].held \in BOOLEAN /\ kid[p].heard \in BOOLEAN /\ kid[p].bg \in BOOLEAN
<1>1. kid \in [Pids -> Kid]
  BY DEF TypeOK, Kid
<1>2. kid[p] \in Kid
  BY <1>1
<1> QED BY <1>1, <1>2, ShellFacts DEF Kid

LEMMA LineFacts ==
  ASSUME Position
  PROVE  Count \in Nat /\ line.cmds \in Seq(Command) /\ line.amp \in BOOLEAN
         /\ \A n \in 1 .. Count : line.cmds[n] \in Command /\ line.cmds[n].out \in Nat /\ line.cmds[n].reads \in BOOLEAN
<1>1. line \in Line
  BY DEF Position
<1>2. line.cmds \in Seq(Command) /\ line.amp \in BOOLEAN
  BY <1>1 DEF Line
<1>3. \A n \in 1 .. Len(line.cmds) : line.cmds[n] \in Command
  BY <1>2, ElementOfSeq
<1>4. \A c \in Command : c.out \in Nat /\ c.reads \in BOOLEAN
  BY DEF Command
<1> QED BY <1>2, <1>3, <1>4 DEF Count

LEMMA UnreapedFinite == IsFiniteSet(Unreaped)
BY ShellFacts, FS_Subset DEF Unreaped

LEMMA InvFacts ==
  ASSUME ShellInv
  PROVE  TypeOK /\ Position /\ ReapsBalance /\ Fresh /\ PipesSound /\ OneReader /\ HeardDrained
BY DEF ShellInv
-----------------------------------------------------------------------------
(* The programs *)

(* What the steps of the programs leave alone. *)
LEMMA ProgramKeeps ==
  ASSUME ShellInv, UNCHANGED <<pc, line, i, input, last, jobs>>, kid' \in [Pids -> Kid],
         \A q \in Pids : kid'[q].st = "none" <=> kid[q].st = "none"
  PROVE  TypeOK' /\ Position' /\ ReapsBalance' /\ Feeding' = Feeding /\ NextCmd' = NextCmd
         /\ \A n : Reads(n)' <=> Reads(n)
<1>1. TypeOK' /\ Position'
  BY InvFacts DEF TypeOK, Position, Count, Kid
<1>2. Unreaped' = Unreaped
  BY DEF Unreaped
<1>3. ReapsBalance'
  BY <1>2, InvFacts DEF ReapsBalance
<1>4. Feeding' = Feeding /\ NextCmd' = NextCmd /\ \A n : Reads(n)' <=> Reads(n)
  BY DEF Feeding, NextCmd, Reads, Count
<1> QED BY <1>1, <1>3, <1>4

LEMMA WriteStep ==
  ASSUME ShellInv, NEW p \in Pids, child_write(p)
  PROVE  ShellInv'
<1>0. /\ UNCHANGED <<pc, line, i, input, last, jobs>> /\ Runs(p) /\ kid[p].left > 0
      /\ kid[p].piped => kid[p].fill < PipeCap
  BY DEF child_write
<1>d. PICK d \in {0, 1} : d = IF kid[p].piped THEN 1 ELSE 0
  BY InvFacts, KidFacts
<1>1. /\ kid[p].left - 1 \in Nat /\ kid[p].wrote + d \in Nat /\ kid[p].fill + d \in 0 .. PipeCap
      /\ kid[p] \in Kid /\ kid \in [Pids -> Kid]
  BY <1>0, <1>d, InvFacts, KidFacts, ShellFacts
<1>l. PICK l \in Nat : l = kid[p].left - 1
  BY <1>1
<1>w. PICK w \in Nat : w = kid[p].wrote + d
  BY <1>1
<1>f. PICK f \in 0 .. PipeCap : f = kid[p].fill + d
  BY <1>1
<1>2. kid' = [kid EXCEPT ![p].left = l, ![p].wrote = w, ![p].fill = f]
  BY <1>d, <1>l, <1>w, <1>f DEF child_write
<1>3. kid'[p] = [kid[p] EXCEPT !.left = l, !.wrote = w, !.fill = f] /\ \A q \in Pids : q # p => kid'[q] = kid[q]
  BY <1>1, <1>2
<1>4. /\ kid'[p] \in Kid /\ kid'[p].wrote = w /\ kid'[p].fill = f /\ kid'[p].st = kid[p].st
      /\ kid'[p].reads = kid[p].reads /\ kid'[p].got = kid[p].got /\ kid'[p].from = kid[p].from
      /\ kid'[p].heard = kid[p].heard
  BY <1>1, <1>3 DEF Kid
<1>5. kid' \in [Pids -> Kid]
  BY <1>1, <1>2, <1>3, <1>4
<1>6. /\ \A q \in Pids : /\ kid'[q].st = kid[q].st /\ kid'[q].reads = kid[q].reads /\ kid'[q].got = kid[q].got
                         /\ kid'[q].from = kid[q].from /\ kid'[q].heard = kid[q].heard
                         /\ (Runs(q)' <=> Runs(q)) /\ (Reader(q)' <=> Reader(q))
      /\ \A q \in Pids : q # p => kid'[q].fill = kid[q].fill /\ kid'[q].wrote = kid[q].wrote
  BY <1>3, <1>4 DEF Runs, Reader
<1> HIDE <1>2
<1>7. TypeOK' /\ Position' /\ ReapsBalance' /\ Feeding' = Feeding /\ NextCmd' = NextCmd /\ \A n : Reads(n)' <=> Reads(n)
  BY <1>0, <1>5, <1>6, ProgramKeeps
<1>8. Fresh'
  <2> SUFFICES ASSUME Feeding # Nobody
               PROVE  /\ kid'[Feeding].fill = kid'[Feeding].wrote
                      /\ \A q \in Pids : Runs(q)' => kid'[q].from # Feeding
                      /\ kid'[Feeding].heard => Reads(NextCmd)
    BY <1>7 DEF Fresh
  <2>u. PICK u \in Pids : u = Feeding
    BY InvFacts DEF Feeding, TypeOK
  <2>1. kid[u].fill = kid[u].wrote /\ (\A q \in Pids : Runs(q) => kid[q].from # u) /\ (kid[u].heard => Reads(NextCmd))
    BY <2>u, InvFacts DEF Fresh
  <2>2. kid'[u].fill = kid'[u].wrote
    BY <1>w, <1>f, <1>4, <1>6, <2>1
  <2> QED BY <1>6, <2>u, <2>1, <2>2
<1>9. PipesSound'
  <2> SUFFICES ASSUME NEW q \in Pids, Reader(q) PROVE PipeSound(q)'
    BY <1>6 DEF PipesSound
  <2>1. PipeSound(q)
    BY InvFacts DEF PipesSound
  <2>u. PICK u \in Pids : u = kid[q].from
    BY <2>1 DEF PipeSound
  <2>2. u # q /\ kid[q].got + kid[u].fill = kid[u].wrote /\ (kid[q].reads = "end" => ~Runs(u) /\ kid[u].fill = 0)
    BY <2>1, <2>u DEF PipeSound
  <2>3. kid[q].got + kid'[u].fill = kid'[u].wrote
    <3>1. CASE u = p
      <4>1. kid[q].got \in Nat /\ kid[p].fill \in Nat /\ kid[p].wrote \in Nat
        BY InvFacts, KidFacts
      <4> QED BY <1>w, <1>f, <1>4, <2>2, <3>1, <4>1
    <3>2. CASE u # p
      BY <1>6, <2>2, <3>2
    <3> QED BY <3>1, <3>2
  <2>4. kid[q].reads = "end" => ~Runs(u)' /\ kid'[u].fill = 0
    BY <1>0, <1>6, <2>2
  <2> QED BY <1>6, <2>u, <2>2, <2>3, <2>4 DEF PipeSound
<1>10. OneReader'
  BY <1>6, InvFacts DEF OneReader
<1>11. HeardDrained'
  <2> SUFFICES ASSUME pc # "ended", NEW q \in Pids, kid[q].heard PROVE Drained(q)'
    BY <1>0, <1>6 DEF HeardDrained
  <2>1. Drained(q)
    BY InvFacts DEF HeardDrained
  <2>2. ~Runs(q) => q # p
    BY <1>0
  <2> QED BY <1>6, <1>7, <2>1, <2>2 DEF Drained
<1> QED BY <1>7, <1>8, <1>9, <1>10, <1>11 DEF ShellInv

LEMMA ReadStep ==
  ASSUME ShellInv, NEW p \in Pids, child_read(p)
  PROVE  ShellInv'
<1>0. UNCHANGED <<pc, line, i, input, last, jobs>> /\ Runs(p) /\ kid[p].reads = "open" /\ Reader(p)
  BY DEF child_read, Reader
<1>1. PipeSound(p)
  BY <1>0, InvFacts DEF PipesSound
<1>w. PICK w \in Pids : w = kid[p].from
  BY <1>1 DEF PipeSound
<1>2. w # p /\ kid[p].got + kid[w].fill = kid[w].wrote /\ kid[w].fill > 0
  BY <1>1, <1>w DEF PipeSound, child_read
<1>3. /\ kid[p].got + 1 \in Nat /\ kid[w].fill - 1 \in 0 .. PipeCap /\ kid[p] \in Kid /\ kid[w] \in Kid
      /\ kid \in [Pids -> Kid]
  BY <1>2, InvFacts, KidFacts, ShellFacts
<1>g. PICK g \in Nat : g = kid[p].got + 1
  BY <1>3
<1>f. PICK f \in 0 .. PipeCap : f = kid[w].fill - 1
  BY <1>3
<1>4. kid' = [kid EXCEPT ![p].got = g, ![w].fill = f]
  BY <1>w, <1>g, <1>f DEF child_read
<1>5. /\ kid'[p] = [kid[p] EXCEPT !.got = g] /\ kid'[w] = [kid[w] EXCEPT !.fill = f]
      /\ \A q \in Pids : q # p /\ q # w => kid'[q] = kid[q]
  BY <1>2, <1>3, <1>4
<1>6. /\ kid'[p] \in Kid /\ kid'[p].got = g /\ kid'[p].st = kid[p].st /\ kid'[p].reads = kid[p].reads
      /\ kid'[p].from = kid[p].from /\ kid'[p].heard = kid[p].heard /\ kid'[p].fill = kid[p].fill
      /\ kid'[p].wrote = kid[p].wrote
  BY <1>3, <1>5 DEF Kid
<1>7. /\ kid'[w] \in Kid /\ kid'[w].got = kid[w].got /\ kid'[w].st = kid[w].st /\ kid'[w].reads = kid[w].reads
      /\ kid'[w].from = kid[w].from /\ kid'[w].heard = kid[w].heard /\ kid'[w].fill = f
      /\ kid'[w].wrote = kid[w].wrote
  BY <1>3, <1>5 DEF Kid
<1>8. kid' \in [Pids -> Kid]
  BY <1>3, <1>4, <1>5, <1>6, <1>7
<1>9. /\ \A q \in Pids : /\ kid'[q].st = kid[q].st /\ kid'[q].reads = kid[q].reads /\ kid'[q].wrote = kid[q].wrote
                         /\ kid'[q].from = kid[q].from /\ kid'[q].heard = kid[q].heard
                         /\ (Runs(q)' <=> Runs(q)) /\ (Reader(q)' <=> Reader(q))
      /\ \A q \in Pids : q # w => kid'[q].fill = kid[q].fill
      /\ \A q \in Pids : q # p => kid'[q].got = kid[q].got
  BY <1>5, <1>6, <1>7 DEF Runs, Reader
<1> HIDE <1>4
<1>10. TypeOK' /\ Position' /\ ReapsBalance' /\ Feeding' = Feeding /\ NextCmd' = NextCmd /\ \A n : Reads(n)' <=> Reads(n)
  BY <1>0, <1>8, <1>9, ProgramKeeps
<1>11. Fresh'
  <2> SUFFICES ASSUME Feeding # Nobody
               PROVE  /\ kid'[Feeding].fill = kid'[Feeding].wrote
                      /\ \A q \in Pids : Runs(q)' => kid'[q].from # Feeding
                      /\ kid'[Feeding].heard => Reads(NextCmd)
    BY <1>10 DEF Fresh
  <2>u. PICK u \in Pids : u = Feeding
    BY InvFacts DEF Feeding, TypeOK
  <2>1. kid[u].fill = kid[u].wrote /\ (\A q \in Pids : Runs(q) => kid[q].from # u) /\ (kid[u].heard => Reads(NextCmd))
    BY <2>u, InvFacts DEF Fresh
  <2>2. u # w
    BY <1>0, <1>w, <2>1
  <2> QED BY <1>9, <2>u, <2>1, <2>2
<1>12. PipesSound'
  <2> SUFFICES ASSUME NEW q \in Pids, Reader(q) PROVE PipeSound(q)'
    BY <1>9 DEF PipesSound
  <2>1. PipeSound(q)
    BY InvFacts DEF PipesSound
  <2>u. PICK u \in Pids : u = kid[q].from
    BY <2>1 DEF PipeSound
  <2>2. u # q /\ kid[q].got + kid[u].fill = kid[u].wrote /\ (kid[q].reads = "end" => ~Runs(u) /\ kid[u].fill = 0)
    BY <2>1, <2>u DEF PipeSound
  <2>3. kid'[q].got + kid'[u].fill = kid'[u].wrote /\ (kid[q].reads = "end" => ~Runs(u)' /\ kid'[u].fill = 0)
    <3>1. CASE q = p
      <4>1. kid[p].got \in Nat /\ kid[w].fill \in Nat /\ kid[w].wrote \in Nat
        BY InvFacts, KidFacts
      <4>2. g + f = kid[w].wrote
        BY <1>2, <1>g, <1>f, <4>1
      <4> QED BY <1>0, <1>w, <1>6, <1>7, <2>u, <3>1, <4>2
    <3>2. CASE q # p
      <4>1. u # w
        BY <1>0, <1>w, <2>u, <3>2, InvFacts DEF OneReader
      <4> QED BY <1>9, <2>2, <3>2, <4>1
    <3> QED BY <3>1, <3>2
  <2> QED BY <1>9, <2>u, <2>2, <2>3 DEF PipeSound
<1>13. OneReader'
  BY <1>9, InvFacts DEF OneReader
<1>14. HeardDrained'
  <2> SUFFICES ASSUME pc # "ended", NEW q \in Pids, kid[q].heard PROVE Drained(q)'
    BY <1>0, <1>9 DEF HeardDrained
  <2>1. Drained(q)
    BY InvFacts DEF HeardDrained
  <2>2. kid[q].fill = 0 => q # w
    BY <1>2
  <2> QED BY <1>9, <1>10, <2>1, <2>2 DEF Drained
<1> QED BY <1>10, <1>11, <1>12, <1>13, <1>14 DEF ShellInv

(* A program comes to the end of its input, or ends. *)
LEMMA EofExitStep ==
  ASSUME ShellInv, NEW p \in Pids, child_eof(p) \/ child_exit(p)
  PROVE  ShellInv'
<1>0. UNCHANGED <<pc, line, i, input, last, jobs>> /\ Runs(p) /\ kid[p] \in Kid /\ kid \in [Pids -> Kid]
  BY InvFacts, KidFacts DEF child_eof, child_exit
<1>1. \/ kid[p].reads = "open" /\ kid'[p] = [kid[p] EXCEPT !.reads = "end"]
      \/ kid[p].reads # "open" /\ kid'[p] = [kid[p] EXCEPT !.st = "zombie"]
  BY <1>0 DEF child_eof, child_exit
<1>2. kid' \in [Pids -> Kid] /\ \A q \in Pids : q # p => kid'[q] = kid[q]
  <2>1. \A k \in Kid : [k EXCEPT !.reads = "end"] \in Kid /\ [k EXCEPT !.st = "zombie"] \in Kid
    BY DEF Kid
  <2> QED BY <1>0, <2>1 DEF child_eof, child_exit
<1>3. /\ kid'[p].wrote = kid[p].wrote /\ kid'[p].fill = kid[p].fill /\ kid'[p].got = kid[p].got
      /\ kid'[p].from = kid[p].from /\ kid'[p].heard = kid[p].heard
      /\ \/ kid[p].reads = "open" /\ kid'[p].reads = "end" /\ kid'[p].st = kid[p].st
         \/ kid[p].reads # "open" /\ kid'[p].reads = kid[p].reads /\ kid'[p].st = "zombie"
  BY <1>0, <1>1 DEF Kid
<1>4. /\ \A q \in Pids : /\ kid'[q].wrote = kid[q].wrote /\ kid'[q].fill = kid[q].fill /\ kid'[q].got = kid[q].got
                         /\ kid'[q].from = kid[q].from /\ kid'[q].heard = kid[q].heard
                         /\ (Runs(q)' => Runs(q)) /\ (Reader(q)' => Reader(q))
      /\ \A q \in Pids : q # p => (Runs(q)' <=> Runs(q)) /\ kid'[q].reads = kid[q].reads
  BY <1>0, <1>2, <1>3 DEF Runs, Reader
<1>5. \A q \in Pids : kid'[q].st = "none" <=> kid[q].st = "none"
  BY <1>0, <1>2, <1>3 DEF Runs
<1>6. TypeOK' /\ Position' /\ ReapsBalance' /\ Feeding' = Feeding /\ NextCmd' = NextCmd /\ \A n : Reads(n)' <=> Reads(n)
  BY <1>0, <1>2, <1>5, ProgramKeeps
<1>7. Fresh'
  <2> SUFFICES ASSUME Feeding # Nobody
               PROVE  /\ kid'[Feeding].fill = kid'[Feeding].wrote
                      /\ \A q \in Pids : Runs(q)' => kid'[q].from # Feeding
                      /\ kid'[Feeding].heard => Reads(NextCmd)
    BY <1>6 DEF Fresh
  <2>u. PICK u \in Pids : u = Feeding
    BY InvFacts DEF Feeding, TypeOK
  <2> QED BY <1>4, <2>u, InvFacts DEF Fresh
<1>8. kid[p].reads = "open" => LET w == kid[p].from IN w \in Pids /\ ~Runs(w) /\ kid[w].fill = 0
  <2>1. kid[p].reads = "open" => child_eof(p) /\ PipeSound(p)
    BY <1>0, InvFacts DEF child_exit, PipesSound, Reader
  <2> QED BY <2>1 DEF child_eof, PipeSound
<1>9. PipesSound'
  <2> SUFFICES ASSUME NEW q \in Pids, Reader(q)' PROVE PipeSound(q)'
    BY DEF PipesSound
  <2>1. PipeSound(q)
    BY <1>4, InvFacts DEF PipesSound
  <2>u. PICK u \in Pids : u = kid[q].from
    BY <2>1 DEF PipeSound
  <2>2. u # q /\ kid[q].got + kid[u].fill = kid[u].wrote /\ (kid[q].reads = "end" => ~Runs(u) /\ kid[u].fill = 0)
    BY <2>1, <2>u DEF PipeSound
  <2>3. kid'[q].reads = "end" => ~Runs(u)' /\ kid'[u].fill = 0
    BY <1>3, <1>4, <1>8, <2>u, <2>2
  <2> QED BY <1>4, <2>u, <2>2, <2>3 DEF PipeSound
<1>10. OneReader'
  BY <1>4, InvFacts DEF OneReader
<1>11. HeardDrained'
  <2> SUFFICES ASSUME pc # "ended", NEW q \in Pids, kid[q].heard PROVE Drained(q)'
    BY <1>0, <1>4 DEF HeardDrained
  <2>1. Drained(q)
    BY InvFacts DEF HeardDrained
  <2>2. CASE q = Feeding
    BY <1>6, <2>2 DEF Drained
  <2>3. CASE ~Runs(q) /\ kid[q].fill = 0
    BY <1>4, <2>3 DEF Drained
  <2>4. CASE \E r \in Pids : Runs(r) /\ kid[r].reads = "open" /\ kid[r].from = q
    <3>1. PICK r \in Pids : Runs(r) /\ kid[r].reads = "open" /\ kid[r].from = q
      BY <2>4
    <3>2. CASE r = p
      BY <1>4, <1>8, <3>1, <3>2 DEF Drained
    <3>3. CASE r # p
      BY <1>4, <3>1, <3>3 DEF Drained
    <3> QED BY <3>2, <3>3
  <2> QED BY <2>1, <2>2, <2>3, <2>4 DEF Drained
<1> QED BY <1>6, <1>7, <1>9, <1>10, <1>11 DEF ShellInv
-----------------------------------------------------------------------------
(* The shell *)

LEMMA WaitStep ==
  ASSUME ShellInv, NEW p \in Pids, wait(p)
  PROVE  ShellInv'
<1>0. /\ UNCHANGED <<line, last, jobs>> /\ pc = "wait" /\ kid[p].st = "zombie" /\ last \in Pids
      /\ kid[p] \in Kid /\ kid \in [Pids -> Kid] /\ Count \in Nat /\ i \in 1 .. Count
  <2>1. UNCHANGED <<line, last, jobs>> /\ pc = "wait" /\ kid[p].st = "zombie"
    BY DEF wait
  <2>2. Count \in Nat /\ last \in Pids /\ i <= Count
    BY <2>1, InvFacts, LineFacts DEF Position
  <2>3. i \in 1 .. Count + 1
    BY <2>1, InvFacts DEF TypeOK
  <2> QED BY <2>1, <2>2, <2>3, InvFacts, KidFacts
<1>1. \/ i < Count /\ pc' = "fork" /\ i' = i + 1 /\ input' = last
      \/ ~(i < Count) /\ pc' = "prompt" /\ input' = Nobody /\ i' = i
  BY DEF wait
<1>k. PICK k : k = Reaped(kid[p])
  OBVIOUS
<1>2. /\ k \in Kid /\ k.st = "none" /\ k.wrote = kid[p].wrote /\ k.fill = kid[p].fill /\ k.heard = kid[p].heard
  BY <1>0, <1>k, NoKidType DEF Reaped, Kid
<1>m. PICK m : m = [kid EXCEPT ![p] = k]
  OBVIOUS
<1>3. m \in [Pids -> Kid] /\ m[p] = k /\ \A q \in Pids : q # p => m[q] = kid[q]
  BY <1>0, <1>2, <1>m
<1>4. kid' = [m EXCEPT ![last].held = FALSE]
  BY <1>k, <1>m DEF wait
<1>5. /\ kid'[last] = [m[last] EXCEPT !.held = FALSE] /\ m[last] \in Kid /\ \A q \in Pids : q # last => kid'[q] = m[q]
  BY <1>0, <1>3, <1>4
<1>6. /\ kid'[last] \in Kid /\ kid'[last].st = m[last].st /\ kid'[last].wrote = m[last].wrote
      /\ kid'[last].fill = m[last].fill /\ kid'[last].heard = m[last].heard /\ kid'[last].reads = m[last].reads
      /\ kid'[last].got = m[last].got /\ kid'[last].from = m[last].from
  BY <1>5 DEF Kid
<1>7. kid' \in [Pids -> Kid]
  BY <1>3, <1>4, <1>5, <1>6
<1>8. \A q \in Pids : /\ kid'[q].st = m[q].st /\ kid'[q].wrote = m[q].wrote /\ kid'[q].fill = m[q].fill
                      /\ kid'[q].heard = m[q].heard /\ kid'[q].reads = m[q].reads
                      /\ kid'[q].got = m[q].got /\ kid'[q].from = m[q].from
  BY <1>5, <1>6
<1> HIDE <1>4
<1>9. /\ \A q \in Pids : /\ kid'[q].wrote = kid[q].wrote /\ kid'[q].fill = kid[q].fill /\ kid'[q].heard = kid[q].heard
                         /\ (Runs(q)' <=> Runs(q)) /\ (Reader(q)' <=> Reader(q))
      /\ \A q \in Pids : Runs(q) => /\ kid'[q].reads = kid[q].reads /\ kid'[q].got = kid[q].got
                                    /\ kid'[q].from = kid[q].from
  <2>1. \A q \in Pids : q # p => Reader(q)' <=> Reader(q)
    BY <1>3, <1>8 DEF Reader, Runs
  <2>2. ~Runs(p) /\ ~Runs(p)'
    BY <1>0, <1>2, <1>3, <1>8 DEF Runs
  <2> QED BY <1>2, <1>3, <1>8, <2>1, <2>2 DEF Runs, Reader
<1>10. TypeOK' /\ Position'
  <2>1. Count' = Count
    BY <1>0 DEF Count
  <2>2. i' \in 1 .. (IF pc' = "fork" THEN Count ELSE Count + 1)
    BY <1>0, <1>1
  <2> QED BY <1>0, <1>1, <1>7, <2>1, <2>2, InvFacts DEF TypeOK, Position, Kid
<1>11. ReapsBalance'
  <2>1. Unreaped' = Unreaped \ {p} /\ p \in Unreaped
    BY <1>0, <1>2, <1>3, <1>8 DEF Unreaped
  <2>2. Cardinality(Unreaped') = Cardinality(Unreaped) - 1
    BY <2>1, UnreapedFinite, FS_RemoveElement
  <2>3. Cardinality(Unreaped) = jobs + 1 /\ jobs \in Nat
    BY <1>0, InvFacts DEF ReapsBalance, TypeOK
  <2> QED BY <1>0, <1>1, <2>2, <2>3 DEF ReapsBalance
<1>12. Feeding = last /\ NextCmd = i + 1
  BY <1>0 DEF Feeding, NextCmd
<1>13. /\ kid[last].fill = kid[last].wrote /\ \A q \in Pids : Runs(q) => kid[q].from # last
       /\ kid[last].heard => Reads(i + 1)
  BY <1>0, <1>12, ShellFacts, InvFacts DEF Fresh
<1>14. \/ i < Count /\ Feeding' = last /\ NextCmd' = i + 1
       \/ ~(i < Count) /\ Feeding' = Nobody
  BY <1>1 DEF Feeding, NextCmd
<1>15. \A n : Reads(n)' <=> Reads(n)
  BY <1>0 DEF Reads, Count
<1>16. Fresh'
  BY <1>0, <1>9, <1>13, <1>14, <1>15 DEF Fresh
<1>17. PipesSound'
  <2> SUFFICES ASSUME NEW q \in Pids, Reader(q) PROVE PipeSound(q)'
    BY <1>9 DEF PipesSound
  <2>1. PipeSound(q) /\ Runs(q)
    BY InvFacts DEF PipesSound, Reader
  <2>u. PICK u \in Pids : u = kid[q].from
    BY <2>1 DEF PipeSound
  <2> QED BY <1>9, <2>1, <2>u DEF PipeSound
<1>18. OneReader'
  BY <1>9, InvFacts DEF OneReader, Reader
<1>19. HeardDrained'
  <2> SUFFICES ASSUME NEW q \in Pids, kid[q].heard PROVE Drained(q)'
    BY <1>9 DEF HeardDrained
  <2>1. Drained(q)
    BY <1>0, InvFacts DEF HeardDrained
  <2>2. q = last => i < Count
    <3>1. q = last => i + 1 <= Count
      BY <1>13 DEF Reads
    <3> QED BY <1>0, <3>1
  <2> QED BY <1>9, <1>12, <1>14, <2>1, <2>2 DEF Drained
<1> QED BY <1>10, <1>11, <1>16, <1>17, <1>18, <1>19 DEF ShellInv

LEMMA ForkStep ==
  ASSUME ShellInv, NEW p \in Pids, fork(p)
  PROVE  ShellInv'
<1>0. /\ UNCHANGED <<line, i, input>> /\ pc = "fork" /\ last' = p /\ p \in Spare
      /\ kid \in [Pids -> Kid] /\ Count \in Nat /\ i \in 1 .. Count /\ input \in Pids \cup {Nobody} /\ jobs \in Nat
  <2>1. UNCHANGED <<line, i, input>> /\ pc = "fork" /\ last' = p /\ p \in Spare
    BY DEF fork, Free
  <2>2. i \in 1 .. Count /\ input \in Pids \cup {Nobody} /\ jobs \in Nat
    BY <2>1, InvFacts DEF TypeOK
  <2> QED BY <2>1, <2>2, InvFacts, LineFacts, KidFacts
<1>1. /\ kid[p].st = "none" /\ p # input /\ \A q \in Pids : Runs(q) => kid[q].from # p
  BY <1>0 DEF Spare, Runs
<1>2. \/ Awaited /\ pc' = "wait" /\ jobs' = jobs
      \/ ~Awaited /\ pc' = "prompt" /\ jobs' = jobs + 1
  BY DEF fork
<1>c. PICK c \in Command : c = line.cmds[i] /\ c.out \in Nat
  BY <1>0, InvFacts, LineFacts
<1>k. PICK k : k = Started(c, i < Count)
  OBVIOUS
<1>r. PICK r \in {"no", "open"} : r = IF c.reads /\ Files(c).in = {} /\ input # Nobody THEN "open" ELSE "no"
  OBVIOUS
<1>h. PICK h \in BOOLEAN : h = (i < Count /\ line.cmds[i + 1].reads /\ Files(line.cmds[i + 1]).in = {})
  OBVIOUS
<1>x. PICK x \in BOOLEAN : x = (i < Count /\ Files(c).out = {})
  OBVIOUS
<1>y. PICK y \in BOOLEAN : y = Piped
  <2>1. Piped \in BOOLEAN
    BY <1>0 DEF Piped
  <2> QED BY <2>1
<1>z. PICK z \in BOOLEAN : z = ~Awaited
  OBVIOUS
<1>3. k = [NoKid EXCEPT !.st = "running", !.left = c.out, !.from = input, !.reads = r, !.piped = x, !.held = y,
                        !.heard = h, !.bg = z]
  BY <1>k, <1>r, <1>h, <1>x, <1>y, <1>z DEF Started
<1>4. /\ k \in Kid /\ k.st = "running" /\ k.from = input /\ k.reads = r /\ k.heard = h /\ k.fill = 0 /\ k.wrote = 0
      /\ k.got = 0
  <2>1. PICK n \in Kid : n = NoKid /\ n.wrote = 0 /\ n.fill = 0 /\ n.got = 0
    BY NoKidType
  <2>2. PICK o \in Nat : o = c.out
    BY <1>c
  <2>3. PICK a : a = [n EXCEPT !.st = "running", !.left = o, !.from = input, !.reads = r]
    OBVIOUS
  <2>4. /\ a \in Kid /\ a.st = "running" /\ a.from = input /\ a.reads = r /\ a.fill = 0 /\ a.wrote = 0 /\ a.got = 0
    BY <1>0, <2>1, <2>3 DEF Kid
  <2>5. k = [a EXCEPT !.piped = x, !.held = y, !.heard = h, !.bg = z]
    BY <1>3, <2>1, <2>2, <2>3
  <2> HIDE <1>3, <2>3
  <2> QED BY <2>4, <2>5 DEF Kid
<1>5. kid' = [kid EXCEPT ![p] = k]
  BY <1>c, <1>k DEF fork
<1>6. kid' \in [Pids -> Kid] /\ kid'[p] = k /\ \A q \in Pids : q # p => kid'[q] = kid[q]
  BY <1>0, <1>4, <1>5
<1> HIDE <1>3, <1>5
<1>7. /\ ~Runs(p) /\ Runs(p)' /\ \A q \in Pids : q # p => (Runs(q)' <=> Runs(q)) /\ (Reader(q)' <=> Reader(q))
  BY <1>1, <1>4, <1>6 DEF Runs, Reader
<1>8. TypeOK' /\ Position'
  <2>1. Count' = Count
    BY <1>0 DEF Count
  <2> QED BY <1>0, <1>2, <1>6, <2>1, InvFacts DEF TypeOK, Position, Kid
<1>9. ReapsBalance'
  <2>1. Unreaped' = Unreaped \cup {p} /\ p \notin Unreaped
    BY <1>1, <1>4, <1>6 DEF Unreaped
  <2>2. Cardinality(Unreaped') = Cardinality(Unreaped) + 1
    BY <2>1, UnreapedFinite, FS_AddElement
  <2>3. Cardinality(Unreaped) = jobs
    BY <1>0, InvFacts DEF ReapsBalance, TypeOK
  <2> QED BY <1>0, <1>2, <2>2, <2>3 DEF ReapsBalance
<1>10. /\ Feeding = input /\ NextCmd = i
       /\ Awaited => Feeding' = p /\ NextCmd' = i + 1
       /\ ~Awaited => Feeding' = Nobody
  BY <1>0, <1>2 DEF Feeding, NextCmd
<1>11. h => Reads(i + 1)' /\ Awaited
  <2>0. h => i < Count
    BY <1>h
  <2>1. h => i + 1 <= Count /\ Count > 1
    BY <1>0, <2>0
  <2> QED BY <1>0, <1>h, <2>1 DEF Reads, Count, Awaited, Piped
<1>12. Fresh'
  <2>1. \A q \in Pids : Runs(q)' => kid'[q].from # p
    BY <1>1, <1>4, <1>6, <1>7
  <2>2. CASE Awaited
    <3>n. PICK n : n = i + 1
      OBVIOUS
    <3>1. Feeding' = p /\ NextCmd' = n
      BY <1>10, <2>2, <3>n
    <3>2. h => Reads(n)'
      BY <1>0, <1>11, <3>n DEF Reads
    <3> QED BY <1>4, <1>6, <2>1, <3>1, <3>2 DEF Fresh
  <2>3. CASE ~Awaited
    BY <1>10, <2>3 DEF Fresh
  <2> QED BY <2>2, <2>3
<1>13. /\ input # Nobody => /\ kid[input].fill = kid[input].wrote /\ \A q \in Pids : Runs(q) => kid[q].from # input
                            /\ kid[input].heard => Reads(i)
  BY <1>10, InvFacts DEF Fresh
<1>14. PipesSound'
  <2> SUFFICES ASSUME NEW q \in Pids, Reader(q)' PROVE PipeSound(q)'
    BY DEF PipesSound
  <2>1. CASE q = p
    <3>1. input \in Pids /\ r = "open"
      BY <1>0, <1>r, <1>4, <1>6, <2>1 DEF Reader
    <3>2. kid'[input] = kid[input] /\ kid[input].wrote \in Nat
      BY <1>1, <1>6, <3>1, InvFacts, KidFacts
    <3>3. kid'[p].from = input /\ kid'[p].got = 0 /\ kid'[p].reads = "open"
      BY <1>4, <1>6, <3>1
    <3>4. 0 + kid[input].fill = kid[input].wrote
      BY <1>13, <3>1, <3>2, ShellFacts
    <3> QED BY <1>1, <2>1, <3>1, <3>2, <3>3, <3>4 DEF PipeSound
  <2>2. CASE q # p
    <3>1. PipeSound(q) /\ Runs(q)
      BY <1>7, <2>2, InvFacts DEF PipesSound, Reader
    <3>u. PICK u \in Pids : u = kid[q].from
      BY <3>1 DEF PipeSound
    <3>2. u # p
      BY <1>1, <3>1, <3>u
    <3> QED BY <1>6, <1>7, <2>2, <3>1, <3>u, <3>2 DEF PipeSound
  <2> QED BY <2>1, <2>2
<1>15. OneReader'
  <2>1. \A q \in Pids : Reader(q) /\ input \in Pids => kid[q].from # input
    BY <1>13, ShellFacts DEF Reader
  <2>2. Reader(p)' => input \in Pids
    BY <1>0, <1>r, <1>4, <1>6 DEF Reader
  <2>3. kid'[p].from = input
    BY <1>4, <1>6
  <2> QED BY <1>6, <1>7, <2>1, <2>2, <2>3, InvFacts DEF OneReader
<1>16. HeardDrained'
  <2> SUFFICES ASSUME NEW q \in Pids, kid'[q].heard PROVE Drained(q)'
    BY DEF HeardDrained
  <2>1. CASE q = p
    BY <1>4, <1>6, <1>10, <1>11, <2>1 DEF Drained
  <2>2. CASE q # p
    <3>1. Drained(q) /\ kid'[q] = kid[q] /\ kid[q].heard
      BY <1>0, <1>6, <2>2, InvFacts DEF HeardDrained
    <3>2. CASE q = input
      <4>1. Reads(i)
        BY <1>13, <3>1, <3>2, ShellFacts
      <4>2. r = "open"
        BY <1>c, <1>r, <3>2, <4>1, ShellFacts DEF Reads
      <4> QED BY <1>4, <1>6, <1>7, <3>2, <4>2 DEF Drained
    <3>3. CASE ~Runs(q) /\ kid[q].fill = 0
      BY <1>7, <2>2, <3>1, <3>3 DEF Drained
    <3>4. CASE \E s \in Pids : Runs(s) /\ kid[s].reads = "open" /\ kid[s].from = q
      BY <1>6, <1>7, <3>4 DEF Drained
    <3> QED BY <1>10, <3>1, <3>2, <3>3, <3>4 DEF Drained
  <2> QED BY <2>1, <2>2
<1> QED BY <1>8, <1>9, <1>12, <1>14, <1>15, <1>16 DEF ShellInv

(* The shell reads a line, ends, or fails to start a process. *)
LEMMA QuietStep ==
  ASSUME ShellInv, leave \/ fork_fails \/ \E l \in Lines : read_line(l)
  PROVE  ShellInv'
<1>0. /\ UNCHANGED <<last, kid, jobs>> /\ pc \in {"prompt", "fork"}
      /\ \A q \in Pids : (Runs(q)' <=> Runs(q)) /\ (Reader(q)' <=> Reader(q))
  BY DEF leave, fork_fails, read_line, Runs, Reader
<1>1. Feeding' = Nobody
  BY DEF leave, fork_fails, read_line, Feeding
<1>2. TypeOK' /\ Position' /\ pc' \in {"fork", "ended"} /\ (pc' # "ended" => pc = "prompt")
  <2>1. CASE leave \/ fork_fails
    <3>1. UNCHANGED <<line, i, input>> /\ pc' = "ended" /\ Count' = Count
      BY <2>1 DEF leave, fork_fails, Count
    <3>2. Count \in Nat /\ i \in 1 .. (IF pc = "fork" THEN Count ELSE Count + 1)
      BY InvFacts, LineFacts DEF TypeOK
    <3>3. i \in 1 .. Count + 1
      BY <3>2
    <3> QED BY <1>0, <3>1, <3>3, InvFacts DEF TypeOK, Position
  <2>2. ASSUME NEW l \in Lines, read_line(l) PROVE TypeOK' /\ Position' /\ pc' = "fork" /\ pc = "prompt"
    <3>1. line' = l /\ pc' = "fork" /\ i' = 1 /\ input' = Nobody /\ l \in Line /\ l.cmds # <<>> /\ pc = "prompt"
      BY <2>2, ShellFacts DEF read_line
    <3>2. l.cmds \in Seq(Command)
      BY <3>1 DEF Line
    <3>3. Len(l.cmds) \in Nat /\ Len(l.cmds) # 0
      BY <3>1, <3>2, EmptySeq
    <3>4. Count' = Len(l.cmds) /\ 1 \in 1 .. Len(l.cmds)
      BY <3>1, <3>3 DEF Count
    <3> QED BY <1>0, <3>1, <3>4, InvFacts DEF TypeOK, Position
  <2> QED BY <2>1, <2>2 DEF leave, fork_fails
<1>3. ReapsBalance'
  <2>1. Unreaped' = Unreaped
    BY <1>0 DEF Unreaped
  <2> QED BY <1>0, <1>2, <2>1, InvFacts DEF ReapsBalance
<1>4. Fresh'
  BY <1>1 DEF Fresh
<1>5. PipesSound' /\ OneReader'
  <2>1. \A q \in Pids : PipeSound(q)' <=> PipeSound(q)
    BY <1>0 DEF PipeSound, Runs
  <2> QED BY <1>0, <2>1, InvFacts DEF PipesSound, OneReader
<1>6. HeardDrained'
  <2> SUFFICES ASSUME pc' # "ended", NEW q \in Pids, kid[q].heard PROVE Drained(q)'
    BY <1>0 DEF HeardDrained
  <2>1. Drained(q) /\ Feeding = Nobody
    BY <1>2, InvFacts DEF HeardDrained, Feeding
  <2> QED BY <1>0, <2>1, ShellFacts DEF Drained
<1> QED BY <1>2, <1>3, <1>4, <1>5, <1>6 DEF ShellInv
-----------------------------------------------------------------------------
(* The specification *)

LEMMA InitShell == Init => ShellInv
<1> SUFFICES ASSUME Init PROVE ShellInv
  OBVIOUS
<1>1. /\ pc = "prompt" /\ line = [cmds |-> <<>>, amp |-> FALSE] /\ i = 1 /\ input = Nobody /\ last = Nobody
      /\ jobs = 0 /\ kid = [p \in Pids |-> NoKid]
  BY DEF Init
<1>2. line \in Line /\ Count = 0
  <2>1. <<>> \in Seq(Command) /\ Len(<<>>) = 0
    BY EmptySeq
  <2> QED BY <1>1, <2>1 DEF Line, Count
<1>3. \A p \in Pids : kid[p] = NoKid /\ ~Runs(p) /\ kid[p].fill = 0
  BY <1>1, NoKidType DEF Runs
<1>4. TypeOK /\ Position
  <2>1. kid \in [Pids -> Kid]
    BY <1>1, NoKidType
  <2> QED BY <1>1, <1>2, <2>1 DEF TypeOK, Position, Kid
<1>5. ReapsBalance
  <2>1. Unreaped = {}
    BY <1>3, NoKidType DEF Unreaped
  <2> QED BY <1>1, <2>1, FS_EmptySet DEF ReapsBalance
<1>6. Fresh /\ PipesSound /\ OneReader /\ HeardDrained
  BY <1>1, <1>3 DEF Fresh, Feeding, PipesSound, OneReader, HeardDrained, Reader, Drained
<1> QED BY <1>4, <1>5, <1>6 DEF ShellInv

LEMMA NextShell ==
  ASSUME ShellInv, [Next]_vars
  PROVE  ShellInv'
<1>1. CASE UNCHANGED vars
  <2>0. UNCHANGED <<pc, line, i, input, last, kid, jobs>>
    BY <1>1 DEF vars
  <2>1. TypeOK' /\ Position' /\ ReapsBalance'
    BY <2>0, InvFacts DEF TypeOK, Position, ReapsBalance, Unreaped, Count
  <2>2. Feeding' = Feeding /\ NextCmd' = NextCmd /\ (Reads(NextCmd)' <=> Reads(NextCmd))
    BY <2>0 DEF Feeding, NextCmd, Reads, Count
  <2>3. \A q \in Pids : /\ (Runs(q)' <=> Runs(q)) /\ (Reader(q)' <=> Reader(q)) /\ (PipeSound(q)' <=> PipeSound(q))
                        /\ (Drained(q)' <=> Drained(q))
    BY <2>0, <2>2 DEF Runs, Reader, PipeSound, Drained
  <2>4. Fresh' /\ PipesSound' /\ OneReader' /\ HeardDrained'
    BY <2>0, <2>2, <2>3, InvFacts DEF Fresh, PipesSound, OneReader, HeardDrained
  <2> QED BY <2>1, <2>4 DEF ShellInv
<1>2. CASE leave \/ fork_fails \/ \E l \in Lines : read_line(l)
  BY <1>2, QuietStep
<1>3. ASSUME NEW p \in Pids, fork(p) \/ wait(p) PROVE ShellInv'
  BY <1>3, ForkStep, WaitStep
<1>4. ASSUME NEW p \in Pids, Program(p) PROVE ShellInv'
  BY <1>4, WriteStep, ReadStep, EofExitStep DEF Program
<1> QED BY <1>1, <1>2, <1>3, <1>4 DEF Next, ShellStep

(* The shell's bookkeeping, its children and its pipes stay right at every step
   of myshell.c and of the programs it starts. *)
THEOREM ShellSound == Spec => []ShellInv
<1>1. ShellInv /\ [Next]_vars => ShellInv'
  BY NextShell
<1> QED BY <1>1, InitShell, PTL DEF Spec

(* The state keeps its type: the loop of parse_and_execute stays inside the
   line, and no pipe holds more than it can. *)
THEOREM ShellTyped == Spec => []TypeOK
<1>1. ShellInv => TypeOK
  BY InvFacts
<1> QED BY <1>1, ShellSound, PTL

(* Every wait(NULL) has a child to reap, and every child that is not reaped is
   accounted for by a command with an ampersand, whichever child ends first. *)
THEOREM ChildrenCounted == Spec => []ReapsBalance
<1>1. ShellInv => ReapsBalance
  BY InvFacts
<1> QED BY <1>1, ShellSound, PTL

(* What a command writes into its pipe reaches the command that reads it,
   however the commands, the waits and background children interleave. *)
THEOREM PipesDeliver == Spec => []NoInputLost
<1>1. ASSUME ShellInv, NEW p \in Pids, Runs(p), kid[p].reads = "end" PROVE kid[p].got = kid[kid[p].from].wrote
  <2>1. PipeSound(p)
    BY <1>1, InvFacts DEF PipesSound, Reader
  <2>w. PICK w \in Pids : w = kid[p].from
    BY <2>1 DEF PipeSound
  <2>2. kid[p].got + kid[w].fill = kid[w].wrote /\ kid[w].fill = 0 /\ kid[p].got \in Nat
    BY <1>1, <2>1, <2>w, InvFacts, KidFacts DEF PipeSound
  <2> QED BY <2>w, <2>2
<1>2. ASSUME ShellInv, pc = "prompt", \A q \in Pids : ~Runs(q), NEW p \in Pids, kid[p].heard PROVE kid[p].fill = 0
  <2>1. Drained(p) /\ Feeding = Nobody
    BY <1>2, InvFacts DEF HeardDrained, Feeding
  <2> QED BY <1>2, <2>1, ShellFacts DEF Drained
<1>3. ShellInv => NoInputLost
  BY <1>1, <1>2 DEF NoInputLost
<1> QED BY <1>3, ShellSound, PTL

(* As long as no command has been started with an ampersand the shell starts a
   command, and comes back to the user, only when the one before has ended. *)
THEOREM RunsInOrder == Spec => []AloneInOrder
<1>1. ASSUME ShellInv, jobs = 0, pc \in {"prompt", "fork"} PROVE Foreground = {}
  <2>1. Cardinality(Unreaped) = 0
    BY <1>1, InvFacts DEF ReapsBalance
  <2>2. Unreaped = {}
    BY <2>1, UnreapedFinite, FS_EmptySet
  <2> QED BY <2>2 DEF Unreaped, Foreground, Runs
<1>2. ShellInv => AloneInOrder
  BY <1>1 DEF AloneInOrder, WaitsForEach
<1> QED BY <1>2, ShellSound, PTL
-----------------------------------------------------------------------------
(* Redirection.  Pre(s, n) is what the first n sequences of s make together. *)
Pre(s, n) == Pieces(SubSeq(s, 1, n))

LEMMA PiecesUnfold ==
  ASSUME NEW D, NEW s \in Seq(Seq(D))
  PROVE  \E g : /\ Pieces(s) = g[Len(s)]
                /\ g[0] = <<>>
                /\ \A n \in 1 .. Len(s) : g[n] = g[n - 1] \o s[n]
<1> DEFINE Joins(g, N) == g = [n \in 0 .. N |-> IF n = 0 THEN <<>> ELSE g[n - 1] \o s[n]]
           Done == {N \in Nat : \E g : Joins(g, N)}
<1>1. 0 \in Done
  <2>1. Joins([n \in 0 .. 0 |-> <<>>], 0)
    OBVIOUS
  <2> QED BY <2>1
<1>2. ASSUME NEW m \in Nat, m \in Done PROVE m + 1 \in Done
  <2>1. PICK g : Joins(g, m)
    BY <1>2
  <2> DEFINE h == [n \in 0 .. m + 1 |-> IF n = m + 1 THEN g[m] \o s[m + 1] ELSE g[n]]
  <2>2. \A n \in 0 .. m + 1 : h[n] = IF n = 0 THEN <<>> ELSE h[n - 1] \o s[n]
    <3> SUFFICES ASSUME NEW n \in 0 .. m + 1 PROVE h[n] = IF n = 0 THEN <<>> ELSE h[n - 1] \o s[n]
      OBVIOUS
    <3>1. \A k \in 0 .. m : g[k] = IF k = 0 THEN <<>> ELSE g[k - 1] \o s[k]
      BY <2>1
    <3>2. CASE n = m + 1
      <4>1. n # 0 /\ n - 1 = m /\ m \in 0 .. m + 1 /\ m # m + 1
        BY <3>2
      <4>2. h[n] = g[m] \o s[m + 1] /\ h[n - 1] = g[m]
        BY <3>2, <4>1
      <4> HIDE DEF h
      <4> QED BY <3>2, <4>1, <4>2
    <3>3. CASE n # m + 1
      <4>1. n \in 0 .. m /\ (n # 0 => n - 1 \in 0 .. m + 1 /\ n - 1 # m + 1)
        BY <3>3
      <4>2. h[n] = g[n] /\ (n # 0 => h[n - 1] = g[n - 1])
        BY <3>3, <4>1
      <4> HIDE DEF h
      <4> QED BY <3>1, <4>1, <4>2
    <3> QED BY <3>2, <3>3
  <2>3. Joins(h, m + 1)
    <3>1. h = [n \in 0 .. m + 1 |-> h[n]]
      OBVIOUS
    <3> HIDE DEF h
    <3> QED BY <2>2, <3>1
  <2> HIDE DEF h
  <2>4. \E f : Joins(f, m + 1)
    BY <2>3
  <2>5. m + 1 \in Nat
    OBVIOUS
  <2> HIDE DEF Joins
  <2> QED BY <2>4, <2>5
<1>3. Len(s) \in Nat /\ Len(s) \in 0 .. Len(s)
  BY LenProperties
<1>4. Len(s) \in Done
  <2> HIDE DEF Done
  <2>1. \A n \in 0 .. Len(s) : n \in Done
    BY <1>1, <1>2, <1>3, Induct
  <2> QED BY <1>3, <2>1
<1> DEFINE all == CHOOSE g : Joins(g, Len(s))
<1>5. Joins(all, Len(s))
  BY <1>4
<1>6. Pieces(s) = all[Len(s)]
  BY DEF Pieces
<1> HIDE DEF all
<1>7. \A n \in 0 .. Len(s) : all[n] = IF n = 0 THEN <<>> ELSE all[n - 1] \o s[n]
  BY <1>5
<1>8. 0 \in 0 .. Len(s) /\ \A n \in 1 .. Len(s) : n \in 0 .. Len(s) /\ n # 0
  BY <1>3
<1>9. all[0] = <<>> /\ \A n \in 1 .. Len(s) : all[n] = all[n - 1] \o s[n]
  BY <1>7, <1>8, Zenon
<1> QED BY <1>6, <1>9

(* The first n of s. *)
LEMMA PrefixSeq ==
  ASSUME NEW E, NEW s \in Seq(E), NEW n \in 0 .. Len(s)
  PROVE  /\ SubSeq(s, 1, n) \in Seq(E) /\ Len(SubSeq(s, 1, n)) = n
         /\ \A k \in 1 .. n : SubSeq(s, 1, n)[k] = s[k]
<1>1. Len(s) \in Nat /\ n \in Int /\ n >= 0 /\ \A k \in 1 .. n : s[k] \in E
  BY LenProperties, ElementOfSeq
<1>2. /\ SubSeq(s, 1, n) \in Seq(E)
      /\ Len(SubSeq(s, 1, n)) = IF 1 <= n THEN n - 1 + 1 ELSE 0
      /\ \A k \in 1 .. n - 1 + 1 : SubSeq(s, 1, n)[k] = s[1 + k - 1]
  BY <1>1, SubSeqProperties, 1 \in Int
<1>3. Len(SubSeq(s, 1, n)) = n
  BY <1>1, <1>2
<1>4. \A k \in 1 .. n : SubSeq(s, 1, n)[k] = s[k]
  <2> SUFFICES ASSUME NEW k \in 1 .. n PROVE SubSeq(s, 1, n)[k] = s[k]
    OBVIOUS
  <2>1. k \in 1 .. n - 1 + 1 /\ 1 + k - 1 = k
    BY <1>1
  <2> QED BY <1>2, <2>1
<1> QED BY <1>2, <1>3, <1>4

(* Two sequences that begin alike make the same so far. *)
LEMMA PreUnfold ==
  ASSUME NEW D, NEW s \in Seq(Seq(D))
  PROVE  /\ Pre(s, 0) = <<>>
         /\ \A n \in 1 .. Len(s) : Pre(s, n) = Pre(s, n - 1) \o s[n]
         /\ Pre(s, Len(s)) = Pieces(s)
         /\ \A n \in 0 .. Len(s) : Pre(s, n) \in Seq(D)
<1>0. Len(s) \in Nat /\ 0 \in 0 .. Len(s) /\ Len(s) \in 0 .. Len(s)
  BY LenProperties
<1>1. PICK g : /\ Pieces(s) = g[Len(s)]
               /\ g[0] = <<>>
               /\ \A n \in 1 .. Len(s) : g[n] = g[n - 1] \o s[n]
  BY PiecesUnfold
<1>2. ASSUME NEW n \in 0 .. Len(s) PROVE Pre(s, n) = g[n]
  <2> DEFINE t == SubSeq(s, 1, n)
  <2>1. t \in Seq(Seq(D)) /\ Len(t) = n /\ \A k \in 1 .. n : t[k] = s[k]
    BY PrefixSeq
  <2>2. Pre(s, n) = Pieces(t)
    BY DEF Pre
  <2> HIDE DEF t
  <2>3. PICK h : /\ Pieces(t) = h[Len(t)]
                 /\ h[0] = <<>>
                 /\ \A k \in 1 .. Len(t) : h[k] = h[k - 1] \o t[k]
    BY <2>1, PiecesUnfold
  <2> DEFINE Same == {k \in Nat : h[k] = g[k]}
  <2>4. 0 \in Same
    BY <1>1, <2>3
  <2>5. ASSUME NEW k \in Nat, k < n, k \in Same PROVE k + 1 \in Same
    <3>1. k + 1 \in 1 .. n /\ k + 1 \in 1 .. Len(s) /\ (k + 1) - 1 = k
      BY <1>0, <2>5
    <3>2. h[k + 1] = h[k] \o s[k + 1] /\ g[k + 1] = g[k] \o s[k + 1]
      BY <1>1, <2>1, <2>3, <3>1
    <3>3. h[k] = g[k]
      BY <2>5
    <3>4. h[k + 1] = g[k + 1]
      BY <3>2, <3>3
    <3> QED BY <3>4
  <2>6. n \in Same
    <3> HIDE DEF Same
    <3>1. n \in Nat /\ n \in 0 .. n
      BY <1>0
    <3>2. \A k \in 0 .. n : k \in Same
      BY <2>4, <2>5, <3>1, Induct
    <3> QED BY <3>1, <3>2
  <2> QED BY <2>1, <2>2, <2>3, <2>6
<1> DEFINE Typed == {k \in Nat : g[k] \in Seq(D)}
<1>3. 0 \in Typed
  BY <1>1, EmptySeq
<1>4. ASSUME NEW k \in Nat, k < Len(s), k \in Typed PROVE k + 1 \in Typed
  <2>1. k + 1 \in 1 .. Len(s) /\ (k + 1) - 1 = k
    BY <1>0, <1>4
  <2>2. g[k + 1] = g[k] \o s[k + 1] /\ s[k + 1] \in Seq(D)
    BY <1>1, <2>1, ElementOfSeq
  <2>3. g[k] \in Seq(D)
    BY <1>4
  <2>4. g[k + 1] \in Seq(D)
    BY <2>2, <2>3, ConcatProperties
  <2> QED BY <2>4
<1>5. \A n \in 0 .. Len(s) : n \in Typed
  <2> HIDE DEF Typed
  <2> QED BY <1>0, <1>3, <1>4, Induct
<1>6. \A n \in 1 .. Len(s) : n \in 0 .. Len(s) /\ n - 1 \in 0 .. Len(s)
  BY <1>0
<1>7. \A n \in 0 .. Len(s) : g[n] \in Seq(D)
  BY <1>5
<1> HIDE DEF Typed
<1> QED BY <1>0, <1>1, <1>2, <1>6, <1>7

LEMMA PiecesEmpty == Pieces(<<>>) = <<>>
<1>1. <<>> \in Seq(Seq({})) /\ Len(<<>>) = 0
  BY EmptySeq
<1> QED BY <1>1, PiecesUnfold

(* One more sequence, and a sequence of one or two. *)
LEMMA PiecesAppend ==
  ASSUME NEW D, NEW s \in Seq(Seq(D)), NEW e \in Seq(D)
  PROVE  Pieces(Append(s, e)) = Pieces(s) \o e
<1> DEFINE t == Append(s, e)
           n == Len(s)
<1>1. /\ t \in Seq(Seq(D)) /\ Len(t) = n + 1 /\ t[n + 1] = e
      /\ \A k \in 1 .. n : t[k] = s[k]
  BY AppendProperties
<1>2. n \in Nat /\ n + 1 \in 1 .. n + 1 /\ (n + 1) - 1 = n /\ n \in 0 .. n + 1
  BY LenProperties
<1>3. SubSeq(t, 1, n) = s
  <2> HIDE DEF t
  <2>1. /\ SubSeq(t, 1, n) \in Seq(Seq(D)) /\ Len(SubSeq(t, 1, n)) = n
        /\ \A k \in 1 .. n : SubSeq(t, 1, n)[k] = t[k]
    BY <1>1, <1>2, PrefixSeq
  <2> QED BY <1>1, <2>1, SeqEqual
<1>4. Pieces(t) = Pre(t, n) \o e
  <2> HIDE DEF t, n
  <2>1. Pre(t, n + 1) = Pre(t, (n + 1) - 1) \o t[n + 1] /\ Pre(t, n + 1) = Pieces(t)
    BY <1>1, <1>2, PreUnfold
  <2> QED BY <1>1, <1>2, <2>1
<1> QED BY <1>3, <1>4 DEF Pre

LEMMA PiecesTuples ==
  ASSUME NEW D, NEW a \in Seq(D), NEW b \in Seq(D)
  PROVE  Pieces(<<a>>) = a /\ Pieces(<<a, b>>) = a \o b
<1>1. <<>> \in Seq(Seq(D)) /\ <<a>> \in Seq(Seq(D))
  OBVIOUS
<1>2. <<a>> = Append(<<>>, a) /\ <<a, b>> = Append(<<a>>, b)
  OBVIOUS
<1>3. Pieces(<<a>>) = a
  <2>1. Pieces(<<a>>) = Pieces(<<>>) \o a
    BY <1>1, <1>2, PiecesAppend
  <2>2. <<>> \o a = a
    BY ConcatEmptySeq
  <2> QED BY <2>1, <2>2, PiecesEmpty
<1>4. Pieces(<<a, b>>) = a \o b
  BY <1>1, <1>2, <1>3, PiecesAppend
<1> QED BY <1>3, <1>4

LEMMA PiecesConcat ==
  ASSUME NEW D, NEW s \in Seq(Seq(D)), NEW t \in Seq(Seq(D))
  PROVE  Pieces(s \o t) = Pieces(s) \o Pieces(t)
<1> DEFINE u == s \o t
           m == Len(s)
           N == Len(t)
<1>1. /\ u \in Seq(Seq(D)) /\ Len(u) = m + N /\ m \in Nat /\ N \in Nat
      /\ \A k \in 1 .. m + N : u[k] = IF k <= m THEN s[k] ELSE t[k - m]
  BY ConcatProperties, LenProperties
<1>2. SubSeq(u, 1, m) = s
  <2> HIDE DEF u
  <2>1. m \in 0 .. Len(u) /\ \A k \in 1 .. m : k \in 1 .. m + N /\ k <= m
    BY <1>1
  <2>2. /\ SubSeq(u, 1, m) \in Seq(Seq(D)) /\ Len(SubSeq(u, 1, m)) = m
        /\ \A k \in 1 .. m : SubSeq(u, 1, m)[k] = u[k]
    BY <1>1, <2>1, PrefixSeq
  <2>3. \A k \in 1 .. m : SubSeq(u, 1, m)[k] = s[k]
    BY <1>1, <2>1, <2>2
  <2> QED BY <2>2, <2>3, SeqEqual
<1>3. Pre(u, m) = Pieces(s) /\ Pieces(s) \in Seq(D)
  <2>0. m \in 0 .. Len(s)
    BY <1>1
  <2>1. Pre(s, m) = Pieces(s) /\ Pre(s, m) \in Seq(D)
    <3>1. Pre(s, Len(s)) = Pieces(s) /\ \A n \in 0 .. Len(s) : Pre(s, n) \in Seq(D)
      BY PreUnfold
    <3> QED BY <2>0, <3>1
  <2> QED BY <1>2, <2>1 DEF Pre
<1> HIDE DEF u, m, N
<1> DEFINE Good == {n \in Nat : Pre(u, m + n) = Pieces(s) \o Pre(t, n)}
<1>4. 0 \in Good
  <2>1. Pre(t, 0) = <<>>
    BY PreUnfold
  <2>2. m + 0 = m
    BY <1>1
  <2>3. Pieces(s) \o <<>> = Pieces(s)
    BY <1>3, ConcatEmptySeq
  <2>4. Pre(u, m + 0) = Pieces(s) \o Pre(t, 0)
    BY <1>3, <2>1, <2>2, <2>3
  <2> QED BY <2>4
<1>5. ASSUME NEW n \in Nat, n < N, n \in Good PROVE n + 1 \in Good
  <2>1. /\ m + (n + 1) \in 1 .. Len(u) /\ (m + (n + 1)) - 1 = m + n /\ n + 1 \in 1 .. N /\ (n + 1) - 1 = n
        /\ m + (n + 1) \in 1 .. m + N /\ ~(m + (n + 1) <= m) /\ (m + (n + 1)) - m = n + 1 /\ n \in 0 .. N
    BY <1>1, <1>5
  <2>2. Pre(u, m + (n + 1)) = Pre(u, m + n) \o t[n + 1]
    BY <1>1, <2>1, PreUnfold
  <2>3. Pre(t, n + 1) = Pre(t, n) \o t[n + 1] /\ Pre(t, n) \in Seq(D) /\ t[n + 1] \in Seq(D)
    BY <2>1, PreUnfold, ElementOfSeq DEF N
  <2>4. Pre(u, m + n) = Pieces(s) \o Pre(t, n)
    BY <1>5
  <2>5. Pre(u, m + (n + 1)) = Pieces(s) \o Pre(t, n + 1)
    <3>1. (Pieces(s) \o Pre(t, n)) \o t[n + 1] = Pieces(s) \o (Pre(t, n) \o t[n + 1])
      <4>1. \A x, y, z \in Seq(D) : (x \o y) \o z = x \o (y \o z)
        BY ConcatAssociative
      <4> QED BY <1>3, <2>3, <4>1
    <3> QED BY <2>2, <2>3, <2>4, <3>1
  <2> QED BY <2>5
<1>6. N \in Good
  <2> HIDE DEF Good
  <2>1. \A n \in 0 .. N : n \in Good
    BY <1>1, <1>4, <1>5, Induct
  <2> QED BY <1>1, <2>1
<1>7. Pre(u, Len(u)) = Pieces(u) /\ Pre(t, N) = Pieces(t)
  BY <1>1, PreUnfold DEF N
<1> QED BY <1>1, <1>6, <1>7 DEF u

LEMMA FirstIs ==
  ASSUME NEW S, S \subseteq Nat, NEW m \in S, \A j \in S : m <= j
  PROVE  First(S) = m
<1>1. First(S) \in S /\ \A j \in S : First(S) <= j
  BY DEF First
<1>2. First(S) <= m /\ m <= First(S) /\ First(S) \in Nat /\ m \in Nat
  BY <1>1
<1> QED BY <1>2

LEMMA FinalIs ==
  ASSUME NEW S, S \subseteq Nat, NEW m \in S, \A j \in S : j <= m
  PROVE  Final(S) = m
<1>1. Final(S) \in S /\ \A j \in S : j <= Final(S)
  BY DEF Final
<1>2. Final(S) <= m /\ m <= Final(S) /\ Final(S) \in Nat /\ m \in Nat
  BY <1>1
<1> QED BY <1>2

LEMMA FirstOf ==
  ASSUME NEW S, S \subseteq Nat, S # {}
  PROVE  First(S) \in S /\ \A j \in S : First(S) <= j
<1>1. PICK m \in S : \A j \in S : m <= j
  BY LeastNumber
<1> QED BY <1>1 DEF First

LEMMA FinalOf ==
  ASSUME NEW N \in Nat, NEW S, S \subseteq 0 .. N, S # {}
  PROVE  Final(S) \in S /\ \A j \in S : j <= Final(S)
<1>1. PICK m \in S : \A j \in S : j <= m
  BY GreatestNumber
<1> QED BY <1>1 DEF Final

(* A token with at most one symbol, which is not its end unless it is its
   beginning; a symbol of its own, or a word without symbols. *)
Apart(t) ==
  \A k, j \in 1 .. Len(t) :
    t[k] \in Symbols => /\ t[j] \in Symbols => j = k
                        /\ k = 1 \/ k < Len(t)
Symbol(a) == \E x \in Symbols : a = <<x>>
Sound(a)  == /\ a \in Seq(STRING) /\ a # <<>>
             /\ Symbol(a) \/ \A k \in 1 .. Len(a) : a[k] \notin Symbols

LEMMA TupleSeqs ==
  ASSUME NEW E, NEW a \in E, NEW b \in E, NEW c \in E
  PROVE  /\ <<a>> \in Seq(E) /\ Len(<<a>>) = 1 /\ <<a>>[1] = a
         /\ <<a, b>> \in Seq(E) /\ Len(<<a, b>>) = 2
         /\ \A n \in 1 .. 2 : <<a, b>>[n] = a \/ <<a, b>>[n] = b
         /\ <<a, b, c>> \in Seq(E) /\ Len(<<a, b, c>>) = 3
         /\ \A n \in 1 .. 3 : <<a, b, c>>[n] = a \/ <<a, b, c>>[n] = b \/ <<a, b, c>>[n] = c
OBVIOUS

LEMMA SplitToken ==
  ASSUME NEW t \in Token, Apart(t), NEW x \in Symbols, Where(t, x) # {}
  PROVE  /\ Split(t, x) \in Seq(Seq(STRING)) /\ Pieces(Split(t, x)) = t
         /\ \A n \in 1 .. Len(Split(t, x)) : Sound(Split(t, x)[n])
<1> DEFINE k == First(Where(t, x))
           after == SubSeq(t, k + 1, Len(t))
           front == SubSeq(t, 1, k - 1)
<1>0. t \in Seq(STRING) /\ t # <<>> /\ Len(t) \in Nat /\ \A n \in 1 .. Len(t) : t[n] \in STRING
  BY LenProperties, ElementOfSeq DEF Token
<1>1. k \in 1 .. Len(t) /\ t[k] = x
  <2>1. Where(t, x) \subseteq Nat /\ Where(t, x) # {}
    BY <1>0 DEF Where
  <2>2. k \in Where(t, x)
    BY <2>1, FirstOf
  <2> QED BY <2>2 DEF Where
<1>s. Split(t, x) = IF k = 1 THEN IF after = <<>> THEN <<<<x>>>> ELSE <<<<x>>, after>>
                    ELSE <<front, <<x>>, after>>
  BY DEF Split
<1> HIDE DEF k
<1>2. k \in Nat /\ k + 1 \in Int /\ k - 1 \in Int /\ Len(t) \in Int
  BY <1>0, <1>1
<1>3. /\ after \in Seq(STRING) /\ Len(after) = Len(t) - k
      /\ \A n \in 1 .. Len(t) - k : after[n] = t[k + n]
  <2>1. \A n \in k + 1 .. Len(t) : t[n] \in STRING
    BY <1>0, <1>1
  <2>2. /\ after \in Seq(STRING) /\ Len(after) = IF k + 1 <= Len(t) THEN Len(t) - (k + 1) + 1 ELSE 0
        /\ \A n \in 1 .. Len(t) - (k + 1) + 1 : after[n] = t[(k + 1) + n - 1]
    BY <1>2, <2>1, SubSeqProperties
  <2>3. Len(t) - (k + 1) + 1 = Len(t) - k /\ \A n \in 1 .. Len(t) - k : (k + 1) + n - 1 = k + n
    BY <1>0, <1>1
  <2> HIDE DEF after
  <2>4. Len(after) = Len(t) - k
    <3>1. CASE k + 1 <= Len(t)
      BY <2>2, <2>3, <3>1
    <3>2. CASE ~(k + 1 <= Len(t))
      <4>1. Len(after) = 0
        BY <2>2, <3>2
      <4>2. Len(t) - k = 0
        BY <1>0, <1>1, <3>2
      <4> QED BY <4>1, <4>2
    <3> QED BY <3>1, <3>2
  <2>5. \A n \in 1 .. Len(t) - k : after[n] = t[k + n]
    BY <2>2, <2>3
  <2> QED BY <2>2, <2>4, <2>5
<1>4. /\ front \in Seq(STRING) /\ Len(front) = k - 1
      /\ \A n \in 1 .. k - 1 : front[n] = t[n]
  <2>1. k - 1 \in 0 .. Len(t)
    BY <1>0, <1>1
  <2> QED BY <1>0, <2>1, PrefixSeq
<1> HIDE DEF after, front
<1>5. x \in STRING /\ <<x>> \in Seq(STRING) /\ Len(<<x>>) = 1 /\ <<x>>[1] = x
  <2>1. x \in STRING
    BY <1>0, <1>1
  <2> QED BY <2>1, TupleSeqs
<1>6. Sound(<<x>>)
  BY <1>5 DEF Sound, Symbol
<1>7. after # <<>> => Sound(after)
  <2>1. \A n \in 1 .. Len(t) - k : k + n \in 1 .. Len(t) /\ k + n # k
    BY <1>0, <1>1
  <2>2. \A n \in 1 .. Len(t) - k : t[k + n] \notin Symbols
    BY <1>1, <2>1 DEF Apart
  <2> QED BY <1>3, <2>2 DEF Sound
<1>8. k # 1 => Sound(front) /\ after # <<>>
  <2> SUFFICES ASSUME k # 1 PROVE Sound(front) /\ after # <<>>
    OBVIOUS
  <2>1. k < Len(t)
    BY <1>1 DEF Apart
  <2>2. Len(after) # 0 /\ Len(front) # 0
    BY <1>0, <1>1, <1>3, <1>4, <2>1
  <2>3. front # <<>> /\ after # <<>>
    BY <2>2, EmptySeq
  <2>4. \A n \in 1 .. k - 1 : n \in 1 .. Len(t) /\ n # k
    BY <1>0, <1>1
  <2>5. \A n \in 1 .. k - 1 : t[n] \notin Symbols
    BY <1>1, <2>4 DEF Apart
  <2> QED BY <1>4, <2>3, <2>5 DEF Sound
<1>9. t = (front \o <<x>>) \o after
  <2> DEFINE p == front \o <<x>>
  <2>1. /\ p \in Seq(STRING) /\ Len(p) = k
        /\ \A n \in 1 .. k : p[n] = IF n <= k - 1 THEN front[n] ELSE <<x>>[n - (k - 1)]
    <3>1. /\ p \in Seq(STRING) /\ Len(p) = Len(front) + Len(<<x>>)
          /\ \A n \in 1 .. Len(front) + Len(<<x>>) :
               p[n] = IF n <= Len(front) THEN front[n] ELSE <<x>>[n - Len(front)]
      BY <1>4, <1>5, ConcatProperties
    <3>2. Len(front) + Len(<<x>>) = k
      BY <1>2, <1>4, <1>5
    <3> HIDE DEF p
    <3> QED BY <1>4, <3>1, <3>2
  <2>2. \A n \in 1 .. k : p[n] = t[n]
    <3> SUFFICES ASSUME NEW n \in 1 .. k PROVE p[n] = t[n]
      OBVIOUS
    <3> HIDE DEF p
    <3>1. CASE n = k
      <4>1. ~(n <= k - 1) /\ n - (k - 1) = 1
        BY <1>2, <3>1
      <4> QED BY <1>1, <1>5, <2>1, <3>1, <4>1
    <3>2. CASE n # k
      <4>1. n <= k - 1 /\ n \in 1 .. k - 1
        BY <1>2, <3>2
      <4> QED BY <1>4, <2>1, <4>1
    <3> QED BY <3>1, <3>2
  <2> HIDE DEF p
  <2>3. /\ p \o after \in Seq(STRING) /\ Len(p \o after) = Len(p) + Len(after)
        /\ \A n \in 1 .. Len(p) + Len(after) :
             (p \o after)[n] = IF n <= Len(p) THEN p[n] ELSE after[n - Len(p)]
    BY <1>3, <2>1, ConcatProperties
  <2>4. Len(p) + Len(after) = Len(t)
    BY <1>0, <1>2, <1>3, <2>1
  <2>5. ASSUME NEW n \in 1 .. Len(t) PROVE (p \o after)[n] = t[n]
    <3>1. CASE n <= k
      <4>1. n \in 1 .. k
        BY <1>2, <3>1
      <4> QED BY <2>1, <2>2, <2>3, <2>4, <4>1
    <3>2. CASE ~(n <= k)
      <4>1. n - k \in 1 .. Len(t) - k /\ k + (n - k) = n
        BY <1>0, <1>2, <3>2
      <4>2. (p \o after)[n] = after[n - k]
        BY <2>1, <2>3, <2>4, <3>2
      <4> QED BY <1>3, <4>1, <4>2
    <3> QED BY <3>1, <3>2
  <2>6. p \o after = t
    BY <1>0, <2>3, <2>4, <2>5, SeqEqual
  <2> QED BY <2>6 DEF p
<1>y. PICK y \in Seq(STRING) : y = <<x>>
  BY <1>5
<1>10. Sound(y) /\ t = (front \o y) \o after
  BY <1>6, <1>9, <1>y
<1>11. Split(t, x) = IF k = 1 THEN IF after = <<>> THEN <<y>> ELSE <<y, after>> ELSE <<front, y, after>>
  BY <1>s, <1>y
<1>12. after \in Seq(STRING) /\ front \in Seq(STRING)
  BY <1>3, <1>4
<1>13. CASE k = 1
  <2>1. front = <<>> /\ front \o y = y
    <3>1. Len(front) = 0
      BY <1>4, <1>13
    <3>2. front = <<>>
      BY <1>4, <3>1, EmptySeq
    <3> QED BY <3>2, ConcatEmptySeq
  <2>2. t = y \o after
    BY <1>10, <2>1
  <2>3. CASE after = <<>>
    <3>1. Split(t, x) = <<y>> /\ t = y
      BY <1>11, <1>13, <2>2, <2>3, ConcatEmptySeq
    <3>2. Pieces(<<y>>) = y
      BY PiecesTuples
    <3>3. <<y>> \in Seq(Seq(STRING)) /\ Len(<<y>>) = 1 /\ <<y>>[1] = y
      BY TupleSeqs
    <3> QED BY <1>10, <3>1, <3>2, <3>3
  <2>4. CASE after # <<>>
    <3>1. Split(t, x) = <<y, after>>
      BY <1>11, <1>13, <2>4
    <3>2. Pieces(<<y, after>>) = y \o after
      BY <1>12, PiecesTuples
    <3>3. /\ <<y, after>> \in Seq(Seq(STRING)) /\ Len(<<y, after>>) = 2
          /\ \A n \in 1 .. 2 : <<y, after>>[n] = y \/ <<y, after>>[n] = after
      BY <1>12, TupleSeqs
    <3> QED BY <1>7, <1>10, <2>2, <2>4, <3>1, <3>2, <3>3
  <2> QED BY <2>3, <2>4
<1>14. CASE k # 1
  <2> DEFINE r == <<front, y, after>>
  <2>1. Split(t, x) = r
    BY <1>11, <1>14
  <2>2. Pieces(r) = (front \o y) \o after
    <3>1. Pieces(<<front, y>>) = front \o y /\ <<front, y>> \in Seq(Seq(STRING))
      BY <1>12, PiecesTuples, TupleSeqs
    <3>2. r = Append(<<front, y>>, after)
      BY <1>12
    <3> HIDE DEF r
    <3> QED BY <1>12, <3>1, <3>2, PiecesAppend
  <2>3. /\ r \in Seq(Seq(STRING)) /\ Len(r) = 3
        /\ \A n \in 1 .. 3 : r[n] = front \/ r[n] = y \/ r[n] = after
    BY <1>12, TupleSeqs
  <2> HIDE DEF r
  <2> QED BY <1>7, <1>8, <1>10, <1>14, <2>1, <2>2, <2>3
<1> QED BY <1>13, <1>14

LEMMA CutToken ==
  ASSUME NEW t \in Token, Apart(t)
  PROVE  /\ Cut(t) \in Seq(Seq(STRING)) /\ Pieces(Cut(t)) = t
         /\ \A n \in 1 .. Len(Cut(t)) : Sound(Cut(t)[n])
<1>1. CASE Where(t, "<") # {}
  <2>1. Cut(t) = Split(t, "<") /\ "<" \in Symbols
    BY <1>1 DEF Cut, Symbols
  <2> QED BY <1>1, <2>1, SplitToken
<1>2. CASE Where(t, "<") = {} /\ Where(t, ">") # {}
  <2>1. Cut(t) = Split(t, ">") /\ ">" \in Symbols
    BY <1>2 DEF Cut, Symbols
  <2> QED BY <1>2, <2>1, SplitToken
<1>3. CASE Where(t, "<") = {} /\ Where(t, ">") = {}
  <2>1. Cut(t) = <<t>> /\ t \in Seq(STRING) /\ t # <<>>
    BY <1>3 DEF Cut, Token
  <2>2. Sound(t)
    BY <1>3, <2>1 DEF Sound, Where, Symbols
  <2>3. <<t>> \in Seq(Seq(STRING)) /\ Len(<<t>>) = 1 /\ <<t>>[1] = t
    BY <2>1, TupleSeqs
  <2>4. Pieces(<<t>>) = t
    BY <2>1, PiecesTuples
  <2> QED BY <2>1, <2>2, <2>3, <2>4
<1> QED BY <1>1, <1>2, <1>3

(* split_redirection_symbols loses nothing and leaves symbols and words. *)
LEMMA CutTokens ==
  ASSUME NEW ts \in Seq(Token), \A n \in 1 .. Len(ts) : Apart(ts[n]),
         NEW args, args = split_redirection_symbols(ts)
  PROVE  /\ args \in Seq(Seq(STRING)) /\ Pieces(args) = Pieces(ts)
         /\ \A k \in 1 .. Len(args) : Sound(args[k])
<1> DEFINE N == Len(ts)
           C == [n \in 1 .. N |-> Cut(ts[n])]
<1>0. N \in Nat /\ ts \in Seq(Seq(STRING)) /\ \A n \in 1 .. N : ts[n] \in Token
  <2>1. Token \subseteq Seq(STRING)
    BY DEF Token
  <2> QED BY <2>1, SeqMonotonic, LenProperties, ElementOfSeq
<1>1. \A n \in 1 .. N : /\ Cut(ts[n]) \in Seq(Seq(STRING)) /\ Pieces(Cut(ts[n])) = ts[n]
                        /\ \A k \in 1 .. Len(Cut(ts[n])) : Sound(Cut(ts[n])[k])
  BY <1>0, CutToken
<1>2. C \in Seq(Seq(Seq(STRING))) /\ Len(C) = N /\ \A n \in 1 .. N : C[n] = Cut(ts[n])
  BY <1>0, <1>1
<1>3. args = Pieces(C)
  BY DEF split_redirection_symbols
<1> HIDE DEF C, N
<1>4. /\ Pre(C, 0) = <<>> /\ \A n \in 1 .. N : Pre(C, n) = Pre(C, n - 1) \o C[n]
      /\ Pre(C, N) = args /\ \A n \in 0 .. N : Pre(C, n) \in Seq(Seq(STRING))
  BY <1>2, <1>3, PreUnfold
<1>5. /\ Pre(ts, 0) = <<>> /\ \A n \in 1 .. N : Pre(ts, n) = Pre(ts, n - 1) \o ts[n]
      /\ Pre(ts, N) = Pieces(ts)
  BY <1>0, PreUnfold DEF N
<1> DEFINE Fine(n) == \A k \in 1 .. Len(Pre(C, n)) : Sound(Pre(C, n)[k])
           Good == {n \in Nat : Pieces(Pre(C, n)) = Pre(ts, n) /\ Fine(n)}
<1>6. 0 \in Good
  <2>1. Pieces(Pre(C, 0)) = Pre(ts, 0)
    BY <1>4, <1>5, PiecesEmpty
  <2>2. Fine(0)
    BY <1>4
  <2> QED BY <2>1, <2>2
<1>7. ASSUME NEW n \in Nat, n < N, n \in Good PROVE n + 1 \in Good
  <2>1. n + 1 \in 1 .. N /\ (n + 1) - 1 = n /\ n \in 0 .. N /\ Pieces(Pre(C, n)) = Pre(ts, n) /\ Fine(n)
    BY <1>0, <1>7
  <2> DEFINE a == Pre(C, n)
             b == C[n + 1]
  <2>2. a \in Seq(Seq(STRING)) /\ b \in Seq(Seq(STRING)) /\ Pre(C, n + 1) = a \o b
    BY <1>1, <1>2, <1>4, <2>1
  <2>3. Pieces(b) = ts[n + 1] /\ \A k \in 1 .. Len(b) : Sound(b[k])
    BY <1>1, <1>2, <2>1
  <2>4. Pieces(Pre(C, n + 1)) = Pre(ts, n + 1)
    <3>1. Pieces(a \o b) = Pieces(a) \o Pieces(b)
      BY <2>2, PiecesConcat
    <3> QED BY <1>5, <2>1, <2>2, <2>3, <3>1
  <2>5. Fine(n + 1)
    <3>1. \A k \in 1 .. Len(a) : Sound(a[k])
      BY <2>1
    <3> HIDE DEF a, b
    <3>2. /\ Len(a \o b) = Len(a) + Len(b)
          /\ \A k \in 1 .. Len(a) + Len(b) : (a \o b)[k] = IF k <= Len(a) THEN a[k] ELSE b[k - Len(a)]
      BY <2>2, ConcatProperties
    <3>3. ASSUME NEW k \in 1 .. Len(a \o b) PROVE Sound((a \o b)[k])
      <4>1. Len(a) \in Nat /\ Len(b) \in Nat
        BY <2>2, LenProperties
      <4>2. CASE k <= Len(a)
        <5>1. k \in 1 .. Len(a) /\ (a \o b)[k] = a[k]
          BY <3>2, <4>1, <4>2
        <5> QED BY <3>1, <5>1
      <4>3. CASE ~(k <= Len(a))
        <5>1. k - Len(a) \in 1 .. Len(b) /\ (a \o b)[k] = b[k - Len(a)]
          BY <3>2, <4>1, <4>3
        <5> QED BY <2>3, <5>1
      <4> QED BY <4>2, <4>3
    <3> QED BY <2>2, <3>3
  <2> HIDE DEF Fine
  <2> QED BY <2>4, <2>5
<1>8. N \in Good
  <2> HIDE DEF Good
  <2>1. \A n \in 0 .. N : n \in Good
    BY <1>0, <1>6, <1>7, Induct
  <2> QED BY <1>0, <2>1
<1>9. Pieces(args) = Pieces(ts) /\ \A k \in 1 .. Len(args) : Sound(args[k])
  BY <1>4, <1>5, <1>8
<1>10. args \in Seq(Seq(STRING))
  BY <1>0, <1>4
<1> QED BY <1>9, <1>10

(* Where the n-th element of args ends in the text. *)
End(args, n) == Len(Pre(args, n))

LEMMA Ends ==
  ASSUME NEW args \in Seq(Seq(STRING)), \A k \in 1 .. Len(args) : Sound(args[k])
  PROVE  /\ End(args, 0) = 0 /\ End(args, Len(args)) = Len(Pieces(args))
         /\ \A n \in 0 .. Len(args) : End(args, n) \in Nat
         /\ \A n \in 1 .. Len(args) : /\ End(args, n) = End(args, n - 1) + Len(args[n])
                                      /\ args[n] \in Seq(STRING) /\ Len(args[n]) \in Nat /\ Len(args[n]) > 0
         /\ \A n \in 1 .. Len(args) : \A j \in 1 .. Len(args[n]) :
              Pre(args, n)[End(args, n - 1) + j] = args[n][j]
<1>1. /\ Pre(args, 0) = <<>> /\ \A n \in 1 .. Len(args) : Pre(args, n) = Pre(args, n - 1) \o args[n]
      /\ Pre(args, Len(args)) = Pieces(args) /\ \A n \in 0 .. Len(args) : Pre(args, n) \in Seq(STRING)
  BY PreUnfold
<1>2. Len(args) \in Nat /\ \A n \in 1 .. Len(args) : n - 1 \in 0 .. Len(args)
  BY LenProperties
<1>3. \A n \in 1 .. Len(args) : args[n] \in Seq(STRING) /\ Len(args[n]) \in Nat /\ Len(args[n]) > 0
  <2> SUFFICES ASSUME NEW n \in 1 .. Len(args)
               PROVE  args[n] \in Seq(STRING) /\ Len(args[n]) \in Nat /\ Len(args[n]) > 0
    OBVIOUS
  <2>1. args[n] \in Seq(STRING) /\ args[n] # <<>>
    BY DEF Sound
  <2>2. Len(args[n]) \in Nat \ {0}
    BY <2>1, EmptySeq
  <2> QED BY <2>1, <2>2
<1>4. \A n \in 0 .. Len(args) : End(args, n) \in Nat
  BY <1>1, LenProperties DEF End
<1>5. ASSUME NEW n \in 1 .. Len(args)
      PROVE  /\ End(args, n) = End(args, n - 1) + Len(args[n])
             /\ \A j \in 1 .. Len(args[n]) : Pre(args, n)[End(args, n - 1) + j] = args[n][j]
  <2> DEFINE a == Pre(args, n - 1)
             b == args[n]
  <2>1. a \in Seq(STRING) /\ b \in Seq(STRING) /\ Pre(args, n) = a \o b /\ End(args, n - 1) = Len(a)
    BY <1>1, <1>2, <1>3 DEF End
  <2>2. Len(a) \in Nat /\ Len(b) \in Nat
    BY <2>1, LenProperties
  <2>3. End(args, n) = Len(Pre(args, n))
    BY DEF End
  <2> HIDE DEF a, b
  <2>4. /\ Len(a \o b) = Len(a) + Len(b)
        /\ \A k \in 1 .. Len(a) + Len(b) : (a \o b)[k] = IF k <= Len(a) THEN a[k] ELSE b[k - Len(a)]
    BY <2>1, ConcatProperties
  <2>5. ASSUME NEW j \in 1 .. Len(b) PROVE (a \o b)[Len(a) + j] = b[j]
    <3>1. Len(a) + j \in 1 .. Len(a) + Len(b) /\ ~(Len(a) + j <= Len(a)) /\ (Len(a) + j) - Len(a) = j
      BY <2>2
    <3> QED BY <2>4, <3>1
  <2>6. /\ End(args, n) = End(args, n - 1) + Len(b)
        /\ \A j \in 1 .. Len(b) : Pre(args, n)[End(args, n - 1) + j] = b[j]
    BY <2>1, <2>3, <2>4, <2>5
  <2> QED BY <2>6 DEF b
<1>6. End(args, 0) = 0 /\ End(args, Len(args)) = Len(Pieces(args))
  BY <1>1, EmptySeq DEF End
<1> QED BY <1>3, <1>4, <1>5, <1>6

(* The text up to the end of an element does not depend on what follows. *)
LEMMA EndsGrow ==
  ASSUME NEW args \in Seq(Seq(STRING)), \A k \in 1 .. Len(args) : Sound(args[k]),
         NEW n \in 0 .. Len(args), NEW m \in n .. Len(args)
  PROVE  /\ End(args, n) <= End(args, m) /\ (n < m => End(args, n) < End(args, m))
         /\ \A p \in 1 .. End(args, n) : Pre(args, m)[p] = Pre(args, n)[p]
<1> DEFINE N == Len(args)
           Good == {k \in Nat : /\ End(args, n) + (k - n) <= End(args, k)
                                /\ \A p \in 1 .. End(args, n) : Pre(args, k)[p] = Pre(args, n)[p]}
<1>1. /\ \A k \in 0 .. N : End(args, k) \in Nat
      /\ \A k \in 1 .. N : End(args, k) = End(args, k - 1) + Len(args[k]) /\ Len(args[k]) \in Nat /\ Len(args[k]) > 0
  BY Ends
<1>2. N \in Nat /\ n \in Nat /\ m \in Nat /\ n <= m /\ m <= N
  BY LenProperties
<1>3. /\ \A k \in 1 .. N : Pre(args, k) = Pre(args, k - 1) \o args[k]
      /\ \A k \in 0 .. N : Pre(args, k) \in Seq(STRING)
      /\ \A k \in 1 .. N : args[k] \in Seq(STRING)
  BY PreUnfold, ElementOfSeq
<1> HIDE DEF N
<1>4. n \in Good
  BY <1>1, <1>2
<1>5. ASSUME NEW k \in Nat, n <= k, k < N, k \in Good PROVE k + 1 \in Good
  <2>1. k + 1 \in 1 .. N /\ (k + 1) - 1 = k /\ k \in 0 .. N /\ n \in 0 .. N /\ k + 1 \in 0 .. N
    BY <1>2, <1>5
  <2>2. /\ End(args, n) + (k - n) <= End(args, k)
        /\ \A p \in 1 .. End(args, n) : Pre(args, k)[p] = Pre(args, n)[p]
    BY <1>5
  <2>3. End(args, n) + ((k + 1) - n) <= End(args, k + 1)
    <3>1. /\ End(args, k + 1) = End(args, k) + Len(args[k + 1]) /\ Len(args[k + 1]) \in Nat /\ Len(args[k + 1]) > 0
          /\ End(args, k) \in Nat /\ End(args, n) \in Nat
      BY <1>1, <2>1
    <3> QED BY <1>2, <2>2, <3>1
  <2>4. ASSUME NEW p \in 1 .. End(args, n) PROVE Pre(args, k + 1)[p] = Pre(args, n)[p]
    <3> DEFINE a == Pre(args, k)
               b == args[k + 1]
    <3>1. a \in Seq(STRING) /\ b \in Seq(STRING) /\ Pre(args, k + 1) = a \o b /\ Len(a) = End(args, k)
      BY <1>3, <2>1 DEF End
    <3>2. Len(a) \in Nat /\ Len(b) \in Nat
      BY <3>1, LenProperties
    <3> HIDE DEF a, b
    <3>3. \A q \in 1 .. Len(a) + Len(b) : (a \o b)[q] = IF q <= Len(a) THEN a[q] ELSE b[q - Len(a)]
      BY <3>1, ConcatProperties
    <3>4. p \in 1 .. Len(a) + Len(b) /\ p <= Len(a)
      <4>1. End(args, n) \in Nat /\ End(args, n) + (k - n) <= Len(a)
        BY <1>1, <2>1, <2>2, <3>1
      <4> QED BY <1>2, <1>5, <3>2, <4>1
    <3>5. (a \o b)[p] = a[p]
      BY <3>3, <3>4
    <3> QED BY <2>2, <3>1, <3>5 DEF a
  <2> QED BY <2>3, <2>4
<1>6. m \in Good
  <2> HIDE DEF Good
  <2>1. \A k \in n .. N : k \in Good
    BY <1>2, <1>4, <1>5, Induct
  <2> QED BY <1>2, <2>1
<1>7. End(args, n) + (m - n) <= End(args, m) /\ End(args, n) \in Nat /\ End(args, m) \in Nat
  BY <1>1, <1>2, <1>6
<1> QED BY <1>2, <1>6, <1>7

(* Every place of the text belongs to an element. *)
LEMMA PlaceOwned ==
  ASSUME NEW args \in Seq(Seq(STRING)), \A k \in 1 .. Len(args) : Sound(args[k]),
         NEW p \in 1 .. Len(Pieces(args))
  PROVE  \E n \in 1 .. Len(args) : End(args, n - 1) < p /\ p <= End(args, n)
<1> DEFINE N == Len(args)
           T == {n \in Nat : n <= N /\ p <= End(args, n)}
<1>1. /\ \A k \in 0 .. N : End(args, k) \in Nat
      /\ End(args, 0) = 0 /\ End(args, N) = Len(Pieces(args)) /\ N \in Nat
  BY Ends, LenProperties
<1>2. N \in T /\ T \subseteq Nat
  <2>1. N \in 0 .. N
    BY <1>1
  <2> QED BY <1>1, <2>1
<1>3. PICK n \in T : \A k \in T : n <= k
  <2> HIDE DEF T
  <2> QED BY <1>2, LeastNumber
<1>4. n \in Nat /\ n <= N /\ p <= End(args, n)
  OBVIOUS
<1>5. n # 0
  BY <1>1, <1>4
<1>6. n \in 1 .. N /\ n - 1 \in Nat /\ n - 1 <= N /\ n - 1 \in 0 .. N /\ ~(n <= n - 1)
  BY <1>1, <1>4, <1>5
<1>7. n - 1 \notin T
  <2> HIDE DEF T
  <2> QED BY <1>3, <1>6
<1>8. ~(p <= End(args, n - 1))
  BY <1>6, <1>7
<1>9. End(args, n - 1) < p
  <2>1. End(args, n - 1) \in Nat /\ p \in Int
    BY <1>1, <1>6
  <2> QED BY <1>8, <2>1
<1> QED BY <1>4, <1>6, <1>9

(* The symbols of the text are the elements that are symbols. *)
LEMMA SymbolEnds ==
  ASSUME NEW args \in Seq(Seq(STRING)), \A k \in 1 .. Len(args) : Sound(args[k]),
         NEW n \in 1 .. Len(args)
  PROVE  /\ End(args, n - 1) \in Nat /\ End(args, n) \in 1 .. Len(Pieces(args))
         /\ \A j \in 1 .. Len(args[n]) : /\ End(args, n - 1) + j \in 1 .. Len(Pieces(args))
                                         /\ Pieces(args)[End(args, n - 1) + j] = args[n][j]
         /\ \A x : args[n] = <<x>> =>
              Len(args[n]) = 1 /\ End(args, n) = End(args, n - 1) + 1 /\ Pieces(args)[End(args, n)] = x
<1> DEFINE N == Len(args)
<1>1. /\ End(args, n) = End(args, n - 1) + Len(args[n]) /\ Len(args[n]) \in Nat /\ Len(args[n]) > 0
      /\ \A j \in 1 .. Len(args[n]) : Pre(args, n)[End(args, n - 1) + j] = args[n][j]
      /\ \A k \in 0 .. N : End(args, k) \in Nat
      /\ End(args, N) = Len(Pieces(args)) /\ N \in Nat
  BY Ends, LenProperties
<1>2. n \in 0 .. N /\ N \in n .. N /\ n - 1 \in 0 .. N /\ N \in 0 .. N
  BY <1>1
<1>3. End(args, n) <= End(args, N) /\ \A p \in 1 .. End(args, n) : Pre(args, N)[p] = Pre(args, n)[p]
  BY <1>2, EndsGrow
<1>4. Pre(args, N) = Pieces(args)
  BY PreUnfold
<1>5. End(args, n - 1) \in Nat /\ End(args, n) \in Nat /\ End(args, N) \in Nat
  BY <1>1, <1>2
<1> HIDE DEF N
<1>6. ASSUME NEW j \in 1 .. Len(args[n])
      PROVE  /\ End(args, n - 1) + j \in 1 .. Len(Pieces(args))
             /\ Pieces(args)[End(args, n - 1) + j] = args[n][j]
  <2>1. End(args, n - 1) + j \in 1 .. End(args, n) /\ End(args, n - 1) + j \in 1 .. Len(Pieces(args))
    BY <1>1, <1>3, <1>5
  <2> QED BY <1>1, <1>3, <1>4, <2>1
<1>7. ASSUME NEW x, args[n] = <<x>>
      PROVE  Len(args[n]) = 1 /\ End(args, n) = End(args, n - 1) + 1 /\ Pieces(args)[End(args, n)] = x
  <2>1. Len(<<x>>) = 1 /\ <<x>>[1] = x
    BY TupleSeqs
  <2>2. Len(args[n]) = 1 /\ 1 \in 1 .. Len(args[n]) /\ args[n][1] = x
    BY <1>7, <2>1
  <2> QED BY <1>1, <1>6, <2>2
<1>8. End(args, n) \in 1 .. Len(Pieces(args))
  BY <1>1, <1>3, <1>5
<1> QED BY <1>5, <1>6, <1>7, <1>8

LEMMA SymbolEnd ==
  ASSUME NEW args \in Seq(Seq(STRING)), \A k \in 1 .. Len(args) : Sound(args[k]),
         NEW n \in 1 .. Len(args), NEW x, args[n] = <<x>>
  PROVE  /\ End(args, n) \in 1 .. Len(Pieces(args)) /\ Pieces(args)[End(args, n)] = x
         /\ End(args, n) = End(args, n - 1) + 1
<1>1. /\ \A y : args[n] = <<y>> =>
           Len(args[n]) = 1 /\ End(args, n) = End(args, n - 1) + 1 /\ Pieces(args)[End(args, n)] = y
      /\ End(args, n) \in 1 .. Len(Pieces(args))
  BY SymbolEnds
<1> QED BY <1>1

LEMMA SymbolPlaced ==
  ASSUME NEW args \in Seq(Seq(STRING)), \A k \in 1 .. Len(args) : Sound(args[k]),
         NEW p \in 1 .. Len(Pieces(args)), Pieces(args)[p] \in Symbols
  PROVE  \E n \in 1 .. Len(args) : args[n] = <<Pieces(args)[p]>> /\ p = End(args, n)
<1>1. PICK n \in 1 .. Len(args) : End(args, n - 1) < p /\ p <= End(args, n)
  BY PlaceOwned
<1>2. /\ End(args, n) = End(args, n - 1) + Len(args[n]) /\ Len(args[n]) \in Nat /\ Len(args[n]) > 0
  BY Ends
<1>3. /\ End(args, n - 1) \in Nat
      /\ \A j \in 1 .. Len(args[n]) : Pieces(args)[End(args, n - 1) + j] = args[n][j]
      /\ \A x : args[n] = <<x>> => Len(args[n]) = 1 /\ End(args, n) = End(args, n - 1) + 1 /\ Pieces(args)[End(args, n)] = x
  BY SymbolEnds
<1>4. p - End(args, n - 1) \in 1 .. Len(args[n]) /\ End(args, n - 1) + (p - End(args, n - 1)) = p
  BY <1>1, <1>2, <1>3
<1>5. args[n][p - End(args, n - 1)] \in Symbols
  BY <1>3, <1>4
<1>6. PICK x \in Symbols : args[n] = <<x>>
  BY <1>4, <1>5 DEF Sound, Symbol
<1>7. p = End(args, n) /\ Pieces(args)[End(args, n)] = x
  BY <1>1, <1>3, <1>6
<1> QED BY <1>6, <1>7

(* What Plain says of the text: behind a symbol stands one word. *)
OneWord(all) ==
  /\ \A k \in 1 .. Len(all) : all[k] \in Symbols => k < Len(all) /\ all[k + 1] \notin Symbols
  /\ \A k \in 1 .. Len(all) - 2 : all[k] \in Symbols => all[k + 2] \in Symbols

LEMMA WordBehind ==
  ASSUME NEW args \in Seq(Seq(STRING)), \A k \in 1 .. Len(args) : Sound(args[k]),
         OneWord(Pieces(args)), NEW n \in 1 .. Len(args), NEW x \in Symbols, args[n] = <<x>>
  PROVE  n < Len(args) /\ args[n + 1] = <<Pieces(args)[End(args, n) + 1]>>
<1> DEFINE all == Pieces(args)
           e == End(args, n)
<1>0. Len(args) \in Nat /\ End(args, Len(args)) = Len(all)
  BY Ends, LenProperties
<1>1. e \in 1 .. Len(all) /\ all[e] = x
  BY SymbolEnd
<1>2. e < Len(all) /\ all[e + 1] \notin Symbols /\ e \in Nat
  BY <1>1 DEF OneWord
<1>3. n < Len(args)
  <2>1. n # Len(args)
    BY <1>0, <1>2
  <2> QED BY <1>0, <2>1
<1>4. n + 1 \in 1 .. Len(args) /\ (n + 1) - 1 = n
  BY <1>0, <1>3
<1>w. PICK w : w = args[n + 1]
  OBVIOUS
<1>5. Len(w) \in Nat /\ Len(w) > 0 /\ w \in Seq(STRING)
  BY <1>4, <1>w, Ends
<1>6. \A j \in 1 .. Len(w) : e + j \in 1 .. Len(all) /\ all[e + j] = w[j]
  <2>1. \A j \in 1 .. Len(w) : /\ End(args, (n + 1) - 1) + j \in 1 .. Len(all)
                              /\ all[End(args, (n + 1) - 1) + j] = w[j]
    BY <1>4, <1>w, SymbolEnds
  <2> QED BY <1>4, <2>1
<1>7. OneWord(all)
  OBVIOUS
<1> HIDE DEF all, e
<1>8. w[1] = all[e + 1] /\ w[1] \notin Symbols
  <2>1. 1 \in 1 .. Len(w)
    BY <1>5
  <2> QED BY <1>2, <1>6, <2>1
<1>9. \A j \in 1 .. Len(w) : w[j] \notin Symbols
  <2>1. Sound(w)
    BY <1>4, <1>w
  <2>2. ~Symbol(w)
    <3> SUFFICES ASSUME NEW y \in Symbols, w = <<y>> PROVE FALSE
      BY DEF Symbol
    <3>1. <<y>>[1] = y
      BY TupleSeqs
    <3> QED BY <1>8, <3>1
  <2> QED BY <2>1, <2>2 DEF Sound
<1>10. Len(w) = 1
  <2> SUFFICES ASSUME Len(w) # 1 PROVE FALSE
    OBVIOUS
  <2>1. 2 \in 1 .. Len(w)
    <3>1. PICK l \in Nat : l = Len(w)
      BY <1>5
    <3>2. l > 0 /\ l # 1
      BY <1>5, <3>1
    <3>3. 2 \in 1 .. l
      BY <3>2
    <3> QED BY <3>1, <3>3
  <2>2. all[e + 2] \notin Symbols /\ e + 2 \in 1 .. Len(all)
    BY <1>6, <1>9, <2>1
  <2>3. e \in 1 .. Len(all) - 2
    BY <1>1, <1>2, <2>2
  <2> QED BY <1>1, <1>7, <2>2, <2>3 DEF OneWord
<1>11. w = <<all[e + 1]>>
  <2>1. all[e + 1] \in STRING
    <3>1. 1 \in 1 .. Len(w)
      BY <1>5
    <3> QED BY <1>5, <1>8, <3>1, ElementOfSeq
  <2>2. <<all[e + 1]>> \in Seq(STRING) /\ Len(<<all[e + 1]>>) = 1 /\ <<all[e + 1]>>[1] = all[e + 1]
    BY <2>1, TupleSeqs
  <2>3. \A j \in 1 .. Len(w) : w[j] = <<all[e + 1]>>[j]
    BY <1>8, <1>10, <2>2
  <2> QED BY <1>5, <1>10, <2>2, <2>3, SeqEqual
<1> QED BY <1>3, <1>11, <1>w DEF all, e

(* Standard input, or output, becomes the file that is written. *)
LEMMA FileNamed ==
  ASSUME NEW args \in Seq(Seq(STRING)), \A k \in 1 .. Len(args) : Sound(args[k]),
         OneWord(Pieces(args)), NEW x \in Symbols,
         NEW symbols, \A n \in 1 .. Len(args) : args[n] \in symbols <=> args[n] = <<x>>
  PROVE  FileOf(args, symbols) = Named(Pieces(args), x)
<1> DEFINE all == Pieces(args)
           at == {k \in 1 .. Len(args) - 1 : args[k] \in symbols}
           W == Where(all, x)
<1>0. Len(args) \in Nat
  BY LenProperties
<1>1. \A k \in at : k \in 1 .. Len(args) /\ args[k] = <<x>>
  BY <1>0
<1>2. \A k \in 1 .. Len(args) : args[k] = <<x>> => k \in at
  <2> SUFFICES ASSUME NEW k \in 1 .. Len(args), args[k] = <<x>> PROVE k \in at
    OBVIOUS
  <2>1. k < Len(args)
    BY WordBehind
  <2> QED BY <1>0, <2>1
<1>3. \A p \in W : \E k \in at : p = End(args, k)
  <2> SUFFICES ASSUME NEW p \in W PROVE \E k \in at : p = End(args, k)
    OBVIOUS
  <2>1. p \in 1 .. Len(all) /\ all[p] = x
    BY DEF Where
  <2>2. PICK k \in 1 .. Len(args) : args[k] = <<x>> /\ p = End(args, k)
    BY <2>1, SymbolPlaced
  <2> HIDE DEF at
  <2> QED BY <1>2, <2>2
<1>4. \A k \in at : End(args, k) \in W
  <2> SUFFICES ASSUME NEW k \in at PROVE End(args, k) \in W
    OBVIOUS
  <2>1. End(args, k) \in 1 .. Len(all) /\ all[End(args, k)] = x
    BY <1>1, SymbolEnd
  <2> QED BY <2>1 DEF Where
<1>5. FileOf(args, symbols) = IF at = {} THEN {} ELSE {args[Final(at) + 1]}
  BY DEF FileOf
<1>6. Named(all, x) = IF W = {} THEN {} ELSE {<<all[Final(W) + 1]>>}
  BY DEF Named
<1>7. at \subseteq 0 .. Len(args) /\ W \subseteq Nat
  BY <1>0 DEF Where
<1> HIDE DEF at, W
<1>8. CASE at = {}
  BY <1>3, <1>5, <1>6, <1>8
<1>9. CASE at # {}
  <2>1. Final(at) \in at /\ \A k \in at : k <= Final(at)
    BY <1>0, <1>7, <1>9, FinalOf
  <2>2. Final(at) \in 1 .. Len(args) /\ args[Final(at)] = <<x>>
    BY <1>1, <2>1
  <2>3. End(args, Final(at)) \in W
    BY <1>4, <2>1
  <2>4. \A p \in W : p <= End(args, Final(at))
    <3> SUFFICES ASSUME NEW p \in W PROVE p <= End(args, Final(at))
      OBVIOUS
    <3>1. PICK k \in at : p = End(args, k)
      BY <1>3
    <3>2. k \in 0 .. Len(args) /\ Final(at) \in k .. Len(args)
      BY <1>0, <1>1, <2>1, <2>2
    <3> QED BY <3>1, <3>2, EndsGrow
  <2>5. Final(W) = End(args, Final(at))
    BY <1>7, <2>3, <2>4, FinalIs
  <2>6. args[Final(at) + 1] = <<all[End(args, Final(at)) + 1]>>
    BY <2>2, WordBehind
  <2>7. W # {}
    BY <2>3
  <2> QED BY <1>5, <1>6, <1>9, <2>5, <2>6, <2>7
<1> QED BY <1>8, <1>9

(* The command gets the words in front of the first symbol. *)
LEMMA ArgumentsLeft ==
  ASSUME NEW args \in Seq(Seq(STRING)), \A k \in 1 .. Len(args) : Sound(args[k]),
         NEW at, at = {k \in 1 .. Len(args) : Symbol(args[k])},
         NEW cut, cut = {p \in 1 .. Len(Pieces(args)) : Pieces(args)[p] \in Symbols}
  PROVE  Pieces(IF at = {} THEN args ELSE SubSeq(args, 1, First(at) - 1))
           = IF cut = {} THEN Pieces(args) ELSE SubSeq(Pieces(args), 1, First(cut) - 1)
<1> DEFINE all == Pieces(args)
<1>0. Len(args) \in Nat /\ all \in Seq(STRING) /\ Len(all) \in Nat
  <2>1. Len(args) \in Nat /\ Len(args) \in 0 .. Len(args)
    BY LenProperties
  <2>2. all \in Seq(STRING)
    BY <2>1, PreUnfold
  <2> QED BY <2>1, <2>2, LenProperties
<1>1. \A p \in cut : \E k \in at : p = End(args, k)
  <2> SUFFICES ASSUME NEW p \in cut PROVE \E k \in at : p = End(args, k)
    OBVIOUS
  <2>1. PICK k \in 1 .. Len(args) : args[k] = <<all[p]>> /\ p = End(args, k)
    BY SymbolPlaced
  <2>2. Symbol(args[k])
    BY <2>1 DEF Symbol
  <2> QED BY <2>1, <2>2
<1>2. \A k \in at : End(args, k) \in cut /\ End(args, k) = End(args, k - 1) + 1
  <2> SUFFICES ASSUME NEW k \in at PROVE End(args, k) \in cut /\ End(args, k) = End(args, k - 1) + 1
    OBVIOUS
  <2>1. k \in 1 .. Len(args)
    OBVIOUS
  <2>2. PICK x \in Symbols : args[k] = <<x>>
    BY DEF Symbol
  <2>3. /\ End(args, k) \in 1 .. Len(all) /\ all[End(args, k)] = x
        /\ End(args, k) = End(args, k - 1) + 1
    BY <2>1, <2>2, SymbolEnd
  <2> QED BY <2>3
<1>3. at \subseteq 1 .. Len(args) /\ at \subseteq Nat /\ cut \subseteq Nat
  BY <1>0
<1>4. CASE at = {}
  BY <1>1, <1>4
<1>5. CASE at # {}
  <2> DEFINE K == First(at)
  <2>1. K \in at /\ \A k \in at : K <= k
    BY <1>3, <1>5, FirstOf
  <2> HIDE DEF K
  <2>2. K \in 1 .. Len(args) /\ End(args, K) \in cut /\ End(args, K) = End(args, K - 1) + 1
    BY <1>2, <1>3, <2>1
  <2>3. \A p \in cut : End(args, K) <= p
    <3> SUFFICES ASSUME NEW p \in cut PROVE End(args, K) <= p
      OBVIOUS
    <3>1. PICK k \in at : p = End(args, k)
      BY <1>1
    <3>2. K \in 0 .. Len(args) /\ k \in K .. Len(args)
      BY <1>0, <1>3, <2>1, <2>2
    <3> QED BY <3>1, <3>2, EndsGrow
  <2>4. First(cut) = End(args, K)
    BY <1>3, <2>2, <2>3, FirstIs
  <2>5. K - 1 \in 0 .. Len(args) /\ Len(args) \in K - 1 .. Len(args)
    BY <1>0, <2>2
  <2>6. End(args, K - 1) \in Nat /\ End(args, K) - 1 = End(args, K - 1)
    <3>1. End(args, K - 1) \in Nat
      BY <2>5, Ends
    <3> QED BY <2>2, <3>1
  <2> DEFINE a == Pre(args, K - 1)
             m == End(args, K - 1)
  <2>7. a \in Seq(STRING) /\ Len(a) = m
    BY <2>5, PreUnfold DEF End
  <2>8. m <= Len(all) /\ \A p \in 1 .. m : all[p] = a[p]
    <3>1. m <= End(args, Len(args)) /\ \A p \in 1 .. m : Pre(args, Len(args))[p] = a[p]
      BY <2>5, EndsGrow
    <3>2. End(args, Len(args)) = Len(all) /\ Pre(args, Len(args)) = all
      BY Ends, PreUnfold
    <3> QED BY <3>1, <3>2
  <2> HIDE DEF a, m, all
  <2>9. /\ SubSeq(all, 1, m) \in Seq(STRING) /\ Len(SubSeq(all, 1, m)) = m
        /\ \A p \in 1 .. m : SubSeq(all, 1, m)[p] = all[p]
    <3>1. m \in 0 .. Len(all)
      BY <1>0, <2>6, <2>8 DEF m
    <3> QED BY <1>0, <3>1, PrefixSeq
  <2>10. a = SubSeq(all, 1, m)
    <3>1. \A p \in 1 .. Len(a) : a[p] = SubSeq(all, 1, m)[p]
      BY <2>7, <2>8, <2>9
    <3> QED BY <2>7, <2>9, <3>1, SeqEqual
  <2>11. Pieces(SubSeq(args, 1, K - 1)) = a
    BY DEF a, Pre
  <2>12. First(cut) - 1 = m /\ cut # {}
    BY <2>2, <2>4, <2>6 DEF m
  <2> QED BY <1>5, <2>10, <2>11, <2>12 DEF K, all
<1> QED BY <1>4, <1>5

(* What split_redirection_symbols and handle_redirection make of a command
   whose redirections are written plainly. *)
LEMMA PlainRedirects ==
  ASSUME NEW ts \in Seq(Token), Plain(ts),
         NEW files, files = handle_redirection(split_redirection_symbols(ts)),
         NEW cut, cut = {n \in 1 .. Len(Pieces(ts)) : Pieces(ts)[n] \in Symbols}
  PROVE  /\ files.in = Named(Pieces(ts), "<") /\ files.out = Named(Pieces(ts), ">") /\ ~files.append
         /\ Pieces(files.argv) = IF cut = {} THEN Pieces(ts) ELSE SubSeq(Pieces(ts), 1, First(cut) - 1)
<1>1. \A n \in 1 .. Len(ts) : Apart(ts[n])
  BY DEF Plain, Apart
<1>2. OneWord(Pieces(ts))
  BY DEF Plain, OneWord
<1> DEFINE args == split_redirection_symbols(ts)
<1>3. args \in Seq(Seq(STRING)) /\ Pieces(args) = Pieces(ts) /\ \A k \in 1 .. Len(args) : Sound(args[k])
  BY <1>1, CutTokens
<1>f. files = handle_redirection(args)
  OBVIOUS
<1> HIDE DEF args
<1> DEFINE outs == {<<">">>, <<">", ">">>}
           at   == {k \in 1 .. Len(args) : args[k] \in outs \cup {<<"<">>}}
           to   == {k \in 1 .. Len(args) : args[k] \in outs}
<1>4. \A k \in 1 .. Len(args) : args[k] # <<">", ">">>
  <2> SUFFICES ASSUME NEW k \in 1 .. Len(args), args[k] = <<">", ">">> PROVE FALSE
    OBVIOUS
  <2>1. Len(<<">", ">">>) = 2 /\ 1 \in 1 .. 2 /\ <<">", ">">>[1] = ">" /\ ">" \in Symbols
    BY DEF Symbols
  <2>2. Symbol(args[k])
    BY <1>3, <2>1 DEF Sound
  <2>3. PICK x \in Symbols : args[k] = <<x>>
    BY <2>2 DEF Symbol
  <2>4. Len(<<x>>) = 1
    BY TupleSeqs
  <2>5. Len(args[k]) = 2 /\ Len(args[k]) = 1
    BY <2>1, <2>3, <2>4
  <2> QED BY <2>5
<1>5. \A k \in 1 .. Len(args) : args[k] \in outs <=> args[k] = <<">">>
  BY <1>4
<1>6. at = {k \in 1 .. Len(args) : Symbol(args[k])}
  BY <1>5 DEF Symbol, Symbols
<1>7. files = [in |-> FileOf(args, {<<"<">>}), out |-> FileOf(args, outs),
               append |-> to # {} /\ args[Final(to)] = <<">", ">">>,
               argv |-> IF at = {} THEN args ELSE SubSeq(args, 1, First(at) - 1)]
  BY <1>f DEF handle_redirection
<1>8. FileOf(args, {<<"<">>}) = Named(Pieces(ts), "<")
  <2>1. "<" \in Symbols /\ \A k \in 1 .. Len(args) : args[k] \in {<<"<">>} <=> args[k] = <<"<">>
    BY DEF Symbols
  <2> QED BY <1>2, <1>3, <2>1, FileNamed
<1>9. FileOf(args, outs) = Named(Pieces(ts), ">")
  <2>1. ">" \in Symbols
    BY DEF Symbols
  <2> HIDE DEF outs
  <2> QED BY <1>2, <1>3, <1>5, <2>1, FileNamed
<1>10. ~(to # {} /\ args[Final(to)] = <<">", ">">>)
  <2> SUFFICES ASSUME to # {} PROVE args[Final(to)] # <<">", ">">>
    OBVIOUS
  <2>1. Len(args) \in Nat
    BY <1>3, LenProperties
  <2>2. to \subseteq 0 .. Len(args) /\ to \subseteq 1 .. Len(args)
    BY <2>1
  <2> HIDE DEF to
  <2>3. Final(to) \in 1 .. Len(args)
    BY <2>1, <2>2, FinalOf
  <2> QED BY <1>4, <2>3
<1> HIDE DEF at, to, outs
<1>11. Pieces(IF at = {} THEN args ELSE SubSeq(args, 1, First(at) - 1))
         = IF cut = {} THEN Pieces(ts) ELSE SubSeq(Pieces(ts), 1, First(cut) - 1)
  <2>1. cut = {p \in 1 .. Len(Pieces(args)) : Pieces(args)[p] \in Symbols}
    BY <1>3
  <2>2. Pieces(IF at = {} THEN args ELSE SubSeq(args, 1, First(at) - 1))
          = IF cut = {} THEN Pieces(args) ELSE SubSeq(Pieces(args), 1, First(cut) - 1)
    BY <1>3, <1>6, <2>1, ArgumentsLeft
  <2> QED BY <1>3, <2>2
<1>12. /\ files.in = FileOf(args, {<<"<">>}) /\ files.out = FileOf(args, outs)
       /\ files.append = (to # {} /\ args[Final(to)] = <<">", ">">>)
       /\ files.argv = IF at = {} THEN args ELSE SubSeq(args, 1, First(at) - 1)
  BY <1>7
<1> QED BY <1>8, <1>9, <1>10, <1>11, <1>12

(* However a plain command's redirections are spaced, its standard files and
   its arguments are the ones that are written: the cuts that
   split_redirection_symbols makes in the tokens lose nothing, and
   handle_redirection finds each file behind its symbol. *)
THEOREM RedirectionsFollow == Spec => []RedirectsRight
<1>1. ASSUME ShellInv, NEW k \in 1 .. Count PROVE line.cmds[k].tokens \in Seq(Token)
  <2>1. line.cmds[k] \in Command
    BY <1>1, InvFacts, LineFacts DEF Position
  <2> QED BY <2>1 DEF Command
<1>2. ShellInv => RedirectsRight
  <2> SUFFICES ASSUME ShellInv, NEW k \in 1 .. Count, Plain(line.cmds[k].tokens)
               PROVE  LET all   == Pieces(line.cmds[k].tokens)
                          cut   == {n \in 1 .. Len(all) : all[n] \in Symbols}
                          files == Files(line.cmds[k])
                      IN /\ files.in = Named(all, "<") /\ files.out = Named(all, ">") /\ ~files.append
                         /\ Pieces(files.argv) = IF cut = {} THEN all ELSE SubSeq(all, 1, First(cut) - 1)
    BY DEF RedirectsRight
  <2> DEFINE ts == line.cmds[k].tokens
             files == Files(line.cmds[k])
             cut == {n \in 1 .. Len(Pieces(ts)) : Pieces(ts)[n] \in Symbols}
  <2>1. files = handle_redirection(split_redirection_symbols(ts))
    BY DEF Files
  <2>2. ts \in Seq(Token)
    BY <1>1
  <2>3. Plain(ts) /\ cut = {n \in 1 .. Len(Pieces(ts)) : Pieces(ts)[n] \in Symbols}
    OBVIOUS
  <2> HIDE DEF ts, files, cut
  <2>4. /\ files.in = Named(Pieces(ts), "<") /\ files.out = Named(Pieces(ts), ">") /\ ~files.append
        /\ Pieces(files.argv) = IF cut = {} THEN Pieces(ts) ELSE SubSeq(Pieces(ts), 1, First(cut) - 1)
    BY <2>1, <2>2, <2>3, PlainRedirects
  <2> QED BY <2>4 DEF ts, files, cut
<1> QED BY <1>2, ShellSound, PTL
=============================================================================
