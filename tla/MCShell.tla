------------------------------ MODULE MCShell ------------------------------
(* Lines for TLC: programs that write nothing, a little, or more than a pipe
   holds, that read or ignore their input, with and without redirections. *)
EXTENDS Shell

Prog(tokens, out, reads) == [tokens |-> tokens, out |-> out, reads |-> reads]
Quiet   == Prog(<< <<"a">> >>, 0, FALSE)
Talker  == Prog(<< <<"a">> >>, 1, FALSE)
Flood   == Prog(<< <<"a">> >>, PipeCap + 1, FALSE)
Filter  == Prog(<< <<"a">> >>, 1, TRUE)
Sink    == Prog(<< <<"a">>, <<"b">> >>, 0, TRUE)
ToFile  == Prog(<< <<"a", ">", "f">> >>, PipeCap + 1, TRUE)
Both    == Prog(<< <<"a", "<", "f">>, <<">", "g">> >>, 1, TRUE)
Spaced  == Prog(<< <<"a">>, <<"b">>, <<"<">>, <<"f">>, <<">">>, <<"g">> >>, 0, TRUE)
Glued   == Prog(<< <<"a", ">">>, <<"f">> >>, 1, FALSE)
Appends == Prog(<< <<"a">>, <<">", ">">>, <<"f">> >>, 1, FALSE)

MCLines ==
  {[cmds |-> c, amp |-> b] : c \in {<<Quiet>>, <<Talker>>, <<Talker, Sink>>}, b \in BOOLEAN} \cup
  {[cmds |-> c, amp |-> FALSE] :
     c \in {<<Flood, Sink>>, <<Talker, Quiet>>, <<Talker, Filter, Sink>>,
            <<Talker, ToFile, Sink>>, <<Talker, Both>>, <<Appends>>, <<Spaced>>, <<Glued, Sink>>}}
=============================================================================
