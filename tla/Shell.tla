------------------------------- MODULE Shell -------------------------------
(***************************************************************************)
(* The shell of EC440_HW1, myshell.c, and the processes it starts.  A line *)
(* is a sequence of commands joined by pipes, perhaps with an ampersand.   *)
(* The commands of a pipeline are started one after the other; before it   *)
(* starts the next the shell waits, with wait(NULL), for whichever child   *)
(* ends first.                                                             *)
(*                                                                         *)
(* A program is known by what it does with its standard files: the amount  *)
(* it writes and whether it reads its input to the end.  A text is a       *)
(* sequence of pieces, redirection symbols and words.                      *)
(***************************************************************************)
EXTENDS Integers, Sequences, FiniteSets

CONSTANTS
  Lines,    \* the lines the user may type: [cmds, amp]
  Pids,     \* the process numbers
  PipeCap   \* what a pipe holds before its writer has to wait

Nobody == 0

(* A command: its tokens, which strtok never leaves empty, the amount it
   writes, whether it reads its input. *)
Token   == Seq(STRING) \ {<<>>}
Command == [tokens : Seq(Token), out : Nat, reads : BOOLEAN]
Line    == [cmds : Seq(Command), amp : BOOLEAN]

ASSUME ShellAssumption ==
  /\ Pids \subseteq Nat \ {Nobody} /\ IsFiniteSet(Pids) /\ PipeCap \in Nat
  /\ Lines \subseteq Line

VARIABLES
  pc,     \* where the shell is: prompt, fork, wait or ended
  line,   \* the line it executes
  i,      \* the command of the line it has come to
  input,  \* input_fd: the process that writes the pipe, or Nobody
  last,   \* the process it has started last
  kid,    \* its child processes, each with the pipe made for it
  jobs    \* auxiliary: the commands started and not waited for

vars == <<pc, line, i, input, last, kid, jobs>>

(* st is none (reaped or not started), running or zombie; left is what remains
   to be written and wrote what went into the pipe; reads is whether it reads a
   pipe, open until it has seen the end, and got counts what was read; from is the writer of the pipe it
   reads; fill is what is in its own pipe and held whether the shell has the
   write end open; heard tells that the next command of the line reads. *)
NoKid == [st |-> "none", left |-> 0, wrote |-> 0, reads |-> "no", got |-> 0, from |-> Nobody,
          piped |-> FALSE, fill |-> 0, held |-> FALSE, heard |-> FALSE, bg |-> FALSE]

Init ==
  /\ pc = "prompt" /\ line = [cmds |-> <<>>, amp |-> FALSE] /\ i = 1
  /\ input = Nobody /\ last = Nobody
  /\ kid = [p \in Pids |-> NoKid]
  /\ jobs = 0
-----------------------------------------------------------------------------
(* Redirection *)

Symbols    == {"<", ">"}
First(S)   == CHOOSE k \in S : \A j \in S : k <= j
Final(S)   == CHOOSE k \in S : \A j \in S : j <= k
Where(s, x) == {k \in 1 .. Len(s) : s[k] = x}

(* Faulty variant: the file's name keeps the symbol. *)
Split_keeps_symbol(token, x) ==
  LET k     == First(Where(token, x))
      after == SubSeq(token, k, Len(token))
  IN IF k = 1 THEN IF after = <<>> THEN <<<<x>>>> ELSE <<<<x>>, after>>
     ELSE <<SubSeq(token, 1, k - 1), <<x>>, after>>

(* A token cut at the first symbol x in it. *)
Split(token, x) ==
  LET k     == First(Where(token, x))
      after == SubSeq(token, k + 1, Len(token))
  IN IF k = 1 THEN IF after = <<>> THEN <<<<x>>>> ELSE <<<<x>>, after>>
     ELSE <<SubSeq(token, 1, k - 1), <<x>>, after>>

(* The sequences of seqs one behind the other. *)
Pieces(seqs) ==
  LET all[n \in 0 .. Len(seqs)] == IF n = 0 THEN <<>> ELSE all[n - 1] \o seqs[n] IN all[Len(seqs)]

(* A token is cut once, at "<" if it has one and at ">" if not: the longer
   symbols of redir_symbols are found as ">" and "<" before their turn comes. *)
Cut(token) ==
  CASE Where(token, "<") # {} -> Split(token, "<")
    [] Where(token, "<") = {} /\ Where(token, ">") # {} -> Split(token, ">")
    [] OTHER -> <<token>>
split_redirection_symbols(tokens) == Pieces([n \in 1 .. Len(tokens) |-> Cut(tokens[n])])

(* The file behind the last of the symbols in the array, if there is one: a
   symbol at the end of the array changes nothing. *)
FileOf(args, symbols) ==
  LET at == {k \in 1 .. Len(args) - 1 : args[k] \in symbols} IN
  IF at = {} THEN {} ELSE {args[Final(at) + 1]}

(* Standard input and output, whether the output is appended to the file, and
   the arguments left in front of the first symbol, which becomes NULL. *)
handle_redirection(args) ==
  LET outs == {<<">">>, <<">", ">">>}
      at   == {k \in 1 .. Len(args) : args[k] \in outs \cup {<<"<">>}}
      to   == {k \in 1 .. Len(args) : args[k] \in outs}
  IN [in |-> FileOf(args, {<<"<">>}), out |-> FileOf(args, outs),
      append |-> to # {} /\ args[Final(to)] = <<">", ">">>,
      argv |-> IF at = {} THEN args ELSE SubSeq(args, 1, First(at) - 1)]

Files(c) == handle_redirection(split_redirection_symbols(c.tokens))
-----------------------------------------------------------------------------
(* The shell *)

Count   == Len(line.cmds)
Piped   == Count > 1
Awaited == Piped \/ ~line.amp

(* main and parse_and_execute: an empty line executes nothing. *)
read_line(l) ==
  /\ pc = "prompt"
  /\ l.cmds # <<>>
  /\ line' = l /\ pc' = "fork" /\ i' = 1 /\ input' = Nobody
  /\ UNCHANGED <<last, kid, jobs>>

(* The end of the input, or the command exit. *)
leave ==
  /\ pc = "prompt"
  /\ pc' = "ended"
  /\ UNCHANGED <<line, i, input, last, kid, jobs>>

(* A process number is taken again when its child is reaped and nobody has an
   end of the pipe: the least such number. *)
Spare   == {p \in Pids : kid[p].st = "none" /\ p # input
                         /\ \A q \in Pids : kid[q].st = "running" => kid[q].from # p}
Free(p) == p \in Spare /\ p = First(Spare)

(* A child that is reaped leaves its pipe. *)
Reaped(k) == [NoKid EXCEPT !.wrote = k.wrote, !.fill = k.fill, !.held = k.held, !.heard = k.heard]

(* What fork, dup2 and the redirections make of command c: redirection comes
   last and takes the place of a pipe. *)
Started(c, more) ==
  [NoKid EXCEPT !.st = "running", !.left = c.out, !.from = input,
                !.reads = IF c.reads /\ Files(c).in = {} /\ input # Nobody THEN "open" ELSE "no",
                !.piped = more /\ Files(c).out = {},
                !.held = Piped,
                !.heard = more /\ line.cmds[i + 1].reads /\ Files(line.cmds[i + 1]).in = {},
                !.bg = ~Awaited]

(* Faulty variants: a pipeline is not waited for; a command with an ampersand
   is waited for. *)
fork_no_wait(p) ==
  /\ pc = "fork" /\ Free(p)
  /\ kid' = [kid EXCEPT ![p] = [Started(line.cmds[i], i < Count) EXCEPT !.held = FALSE]]
  /\ last' = p
  /\ IF i < Count
     THEN i' = i + 1 /\ input' = p /\ UNCHANGED <<pc, jobs>>
     ELSE /\ IF Awaited THEN pc' = "wait" /\ UNCHANGED jobs ELSE pc' = "prompt" /\ jobs' = jobs + 1
          /\ UNCHANGED <<i, input>>
  /\ UNCHANGED line
fork_always_wait(p) ==
  /\ pc = "fork" /\ Free(p)
  /\ kid' = [kid EXCEPT ![p] = Started(line.cmds[i], i < Count)]
  /\ last' = p
  /\ pc' = "wait" /\ jobs' = IF Awaited THEN jobs ELSE jobs + 1
  /\ UNCHANGED <<line, i, input>>

(* The parent of a fork waits, or takes the next line. *)
fork(p) ==
  /\ pc = "fork" /\ Free(p)
  /\ kid' = [kid EXCEPT ![p] = Started(line.cmds[i], i < Count)]
  /\ last' = p
  /\ IF Awaited THEN pc' = "wait" /\ UNCHANGED jobs ELSE pc' = "prompt" /\ jobs' = jobs + 1
  /\ UNCHANGED <<line, i, input>>

fork_fails ==
  /\ pc = "fork"
  /\ pc' = "ended"
  /\ UNCHANGED <<line, i, input, last, kid, jobs>>

(* Faulty variants: the loop goes one round too far, the write end stays open,
   or the read end is not passed on. *)
wait_past_end(p) ==
  /\ pc = "wait" /\ kid[p].st = "zombie"
  /\ kid' = [[kid EXCEPT ![p] = Reaped(kid[p])] EXCEPT ![last].held = FALSE]
  /\ IF i <= Count
     THEN pc' = "fork" /\ i' = i + 1 /\ input' = last
     ELSE pc' = "prompt" /\ input' = Nobody /\ UNCHANGED i
  /\ UNCHANGED <<line, last, jobs>>
wait_keeps_end(p) ==
  /\ pc = "wait" /\ kid[p].st = "zombie"
  /\ kid' = [kid EXCEPT ![p] = Reaped(kid[p])]
  /\ IF i < Count
     THEN pc' = "fork" /\ i' = i + 1 /\ input' = last
     ELSE pc' = "prompt" /\ input' = Nobody /\ UNCHANGED i
  /\ UNCHANGED <<line, last, jobs>>
wait_no_input(p) ==
  /\ pc = "wait" /\ kid[p].st = "zombie"
  /\ kid' = [[kid EXCEPT ![p] = Reaped(kid[p])] EXCEPT ![last].held = FALSE]
  /\ IF i < Count
     THEN pc' = "fork" /\ i' = i + 1
     ELSE pc' = "prompt" /\ UNCHANGED i
  /\ UNCHANGED <<line, last, input, jobs>>

(* wait(NULL) reaps any child that has ended.  The shell then closes its write
   end of the pipe and passes the read end to the next command. *)
wait(p) ==
  /\ pc = "wait" /\ kid[p].st = "zombie"
  /\ kid' = [[kid EXCEPT ![p] = Reaped(kid[p])] EXCEPT ![last].held = FALSE]
  /\ IF i < Count
     THEN pc' = "fork" /\ i' = i + 1 /\ input' = last
     ELSE pc' = "prompt" /\ input' = Nobody /\ UNCHANGED i
  /\ UNCHANGED <<line, last, jobs>>
-----------------------------------------------------------------------------
(* The programs and the pipes of the kernel *)

Runs(p) == kid[p].st = "running"

(* The shell keeps the read end of every pipe: a writer waits, or is never told
   that its reader has gone. *)
child_write(p) ==
  /\ Runs(p) /\ kid[p].left > 0
  /\ kid[p].piped => kid[p].fill < PipeCap
  /\ kid' = [kid EXCEPT ![p].left = kid[p].left - 1,
                        ![p].wrote = kid[p].wrote + IF kid[p].piped THEN 1 ELSE 0,
                        ![p].fill = kid[p].fill + IF kid[p].piped THEN 1 ELSE 0]
  /\ UNCHANGED <<pc, line, i, input, last, jobs>>

child_read(p) ==
  LET w == kid[p].from IN
  /\ Runs(p) /\ kid[p].reads = "open" /\ kid[w].fill > 0
  /\ kid' = [kid EXCEPT ![p].got = kid[p].got + 1, ![w].fill = kid[w].fill - 1]
  /\ UNCHANGED <<pc, line, i, input, last, jobs>>

(* The pipe is empty and nobody has its write end. *)
child_eof(p) ==
  LET w == kid[p].from IN
  /\ Runs(p) /\ kid[p].reads = "open" /\ kid[w].fill = 0
  /\ ~kid[w].held /\ ~Runs(w)
  /\ kid' = [kid EXCEPT ![p].reads = "end"]
  /\ UNCHANGED <<pc, line, i, input, last, jobs>>

child_exit(p) ==
  /\ Runs(p) /\ kid[p].left = 0 /\ kid[p].reads # "open"
  /\ kid' = [kid EXCEPT ![p].st = "zombie"]
  /\ UNCHANGED <<pc, line, i, input, last, jobs>>
-----------------------------------------------------------------------------
ShellStep  == fork_fails \/ \E p \in Pids : fork(p) \/ wait(p)
Program(p) == child_write(p) \/ child_read(p) \/ child_eof(p) \/ child_exit(p)
Next       == leave \/ (\E l \in Lines : read_line(l)) \/ ShellStep \/ \E p \in Pids : Program(p)

(* The shell and every process it has started go on when they can. *)
Spec == Init /\ [][Next]_vars /\ WF_vars(ShellStep) /\ \A p \in Pids : WF_vars(Program(p))
-----------------------------------------------------------------------------
(* Properties *)

Unreaped == {p \in Pids : kid[p].st # "none"}

TypeOK ==
  /\ pc \in {"prompt", "fork", "wait", "ended"}
  /\ i \in 1 .. (IF pc = "fork" THEN Count ELSE Count + 1) /\ jobs \in Nat
  /\ input \in Pids \cup {Nobody} /\ last \in Pids \cup {Nobody}
  /\ kid \in [Pids -> [st : {"none", "running", "zombie"}, left : Nat, wrote : Nat, reads : {"no", "open", "end"},
                       got : Nat, from : Pids \cup {Nobody}, piped : BOOLEAN, fill : 0 .. PipeCap,
                       held : BOOLEAN, heard : BOOLEAN, bg : BOOLEAN]]

(* The children not reaped are as many as the commands started with an
   ampersand, and the one being waited for: wait(NULL) always has a child to
   wait for, whichever it reaps. *)
ReapsBalance == Cardinality(Unreaped) = jobs + IF pc = "wait" THEN 1 ELSE 0

(* A command that has read its input to the end has got all its predecessor
   wrote; and when all have ended, nothing is left in a pipe the next command
   of the line reads. *)
NoInputLost ==
  /\ \A p \in Pids : Runs(p) /\ kid[p].reads = "end" => kid[p].got = kid[kid[p].from].wrote
  /\ pc = "prompt" /\ (\A p \in Pids : ~Runs(p)) => \A p \in Pids : kid[p].heard => kid[p].fill = 0

Foreground == {p \in Pids : Runs(p) /\ ~kid[p].bg}

(* Each command has ended when the next one of the pipeline is started and the
   line's last when the shell reads another. *)
WaitsForEach == pc \in {"prompt", "fork"} => Foreground = {}

(* That holds as long as no command has been started with an ampersand. *)
AloneInOrder == jobs = 0 => WaitsForEach

(* The pipes hold what the commands before the last write. *)
Fits == \A k \in 1 .. Count - 1 : line.cmds[k].out <= PipeCap

(* The shell comes back to the user from a line whose output fits the pipes:
   nobody waits for somebody who waits for him. *)
FittingLineEnds == pc \in {"fork", "wait"} /\ Fits ~> pc \in {"prompt", "ended"}

(* A command whose symbols stand apart, one to a token, behind its arguments.
   A word with a symbol right behind it has its file's name in the same token:
   Split leaves an empty name otherwise. *)
Plain(tokens) ==
  LET all == Pieces(tokens) IN
  /\ \A n \in 1 .. Len(tokens) :
       \A k, j \in 1 .. Len(tokens[n]) :
         tokens[n][k] \in Symbols =>
           /\ tokens[n][j] \in Symbols => j = k
           /\ k = 1 \/ k < Len(tokens[n])
  /\ \A k \in 1 .. Len(all) : all[k] \in Symbols => k < Len(all) /\ all[k + 1] \notin Symbols
  /\ \A k \in 1 .. Len(all) - 2 : all[k] \in Symbols => all[k + 2] \in Symbols

(* The word behind the last symbol x. *)
Named(all, x) == IF Where(all, x) = {} THEN {} ELSE {<<all[Final(Where(all, x)) + 1]>>}

(* Such a command is redirected as it is written, with or without spaces
   around the symbols, and gets the words in front of them. *)
RedirectsRight ==
  \A k \in 1 .. Count :
    LET tokens == line.cmds[k].tokens
        all    == Pieces(tokens)
        cut    == {n \in 1 .. Len(all) : all[n] \in Symbols}
        files  == Files(line.cmds[k])
    IN Plain(tokens) =>
         /\ files.in = Named(all, "<") /\ files.out = Named(all, ">") /\ ~files.append
         /\ Pieces(files.argv) = IF cut = {} THEN all ELSE SubSeq(all, 1, First(cut) - 1)
=============================================================================
