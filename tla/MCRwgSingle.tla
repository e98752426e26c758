----------------------------- MODULE MCRwgSingle -----------------------------
(* RwgSingle on small tables and sets of lines. *)
EXTENDS RwgSingle

CONSTANTS t, v, x, y, red

C(kind) == [kind |-> kind, mark |-> NoMark, lineToPipe |-> 0, tag |-> t,
            arg |-> NoArg, send |-> 0, receive |-> 0]
Arg(kind, a) == [C(kind) EXCEPT !.arg = a]
Ends(c, mark, n) == [c EXCEPT !.mark = mark, !.lineToPipe = n]
Send(n) == [C("exec") EXCEPT !.send = n]
Receive(n) == [C("exec") EXCEPT !.receive = n]
Nothing == C("nothing")

\* User pipes to, from, and through each of two users, output for a later line,
\* and a way out.
UserPipeLines ==
  {<<Send(n)>> : n \in 1 .. 2} \cup {<<Receive(n)>> : n \in 1 .. 2}
  \cup {<<[Receive(1) EXCEPT !.send = 2]>>, <<Ends(C("exec"), "|", 1), Nothing>>,
         <<C("exit")>>}

\* The lines that pile up user pipes.
SendLines == {<<Send(1)>>, <<Send(2)>>, <<C("exit")>>}

\* What users leave behind: a name, a setting, a pipe that is still due.
SessionLines ==
  {<<Arg("name", x)>>, <<Ends(Arg("name", y), "|", 1), Nothing>>, <<Arg("setenv", red)>>,
   <<C("exit")>>}

\* Numbered and ordinary pipes, blanks, messages, a missing argument, exit at
\* the end of a pipeline: lines that change when two are read at once.
HastyLines ==
  {<<C("exec")>>, <<Ends([C("exec") EXCEPT !.tag = v], "|", 1), Nothing>>,
   <<Ends(C("exec"), "|", 0), Ends(C("exec"), "!", 3), Nothing>>,
   <<Arg("printenv", red)>>, <<Arg("tell", 1)>>, <<C("yell")>>, <<C("setenv")>>,
   <<Nothing>>, <<Ends(Receive(1), "|", 0), C("exit")>>}

BusyLines == {<<C("exec")>>, <<Nothing>>, <<C("exit")>>}
=============================================================================
