------------------------------ MODULE MCNpshell ------------------------------
(* Npshell on small sets of lines. *)
EXTENDS Npshell

CONSTANTS a, b

C(kind, mark, n, tag) ==
  [kind |-> kind, mark |-> mark, lineToPipe |-> n, tag |-> tag]
Nothing == C("nothing", NoMark, 0, a)

\* The lines of the specification: a builtin alone, a program with or without
\* a numbered pipe, a pipeline, and two ways to say nothing or to leave.
SpecLines ==
  {<<C("exec", NoMark, 0, a)>>, <<C("setenv", NoMark, 0, a)>>,
   <<C("exit", NoMark, 0, a)>>, <<C("spaces", NoMark, 0, a)>>,
   <<C("exec", "|", 1, a), Nothing>>, <<C("exec", "!", 2, b), Nothing>>,
   <<C("exec", "|", 2, a), Nothing>>,
   <<C("exec", "|", 0, a), C("exec", NoMark, 0, b)>>,
   <<C("exec", "|", 0, b), C("exec", "|", 0, a), C("exec", "|", 3, b), Nothing>>}

\* Lines that break its rules: builtins in pipelines, a mark at the end of a
\* line or without a command, a numbered pipe in the middle, blanks after one.
OddLines ==
  {<<C("exec", NoMark, 0, a)>>, <<C("printenv", NoMark, 0, a)>>,
   <<C("exec", "|", 1, a), Nothing>>, <<C("exec", "|", 2, b), Nothing>>,
   <<C("exec", "|", 0, a), Nothing>>, <<Nothing, Nothing>>,
   <<C("nothing", "|", 0, a), Nothing>>,
   <<C("setenv", "|", 0, a), C("exec", NoMark, 0, b)>>,
   <<C("exec", "|", 2, a), C("exec", "|", 0, b), C("exec", "|", 1, a), Nothing>>,
   <<C("exec", "|", 0, b), C("printenv", "|", 2, a), Nothing>>,
   <<C("exec", "|", 1, a), C("spaces", NoMark, 0, a)>>}
=============================================================================
