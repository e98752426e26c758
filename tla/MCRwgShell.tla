------------------------------ MODULE MCRwgShell ------------------------------
(* RwgShell on a small set of lines. *)
EXTENDS RwgShell

CONSTANTS a, b

C(kind, mark, n, tag) ==
  [kind |-> kind, mark |-> mark, lineToPipe |-> n, tag |-> tag]
Nothing == C("nothing", NoMark, 0, a)

\* A builtin alone, a program, a pipeline, numbered pipes at every distance up
\* to three after one command, after several and after none, and the lines
\* without any.
SpecLines ==
  {<<C("exec", NoMark, 0, a)>>, <<C("setenv", NoMark, 0, a)>>,
   <<C("printenv", NoMark, 0, a)>>, <<C("exit", NoMark, 0, a)>>, <<Nothing>>,
   <<C("spaces", NoMark, 0, a)>>, <<C("spaces", "|", 2, a), Nothing>>,
   <<C("exec", "|", 1, a), Nothing>>, <<C("exec", "!", 2, b), Nothing>>,
   <<C("exec", "|", 2, a), Nothing>>, <<C("exec", "!", 3, a), Nothing>>,
   <<C("exec", "|", 0, a), C("exec", NoMark, 0, b)>>,
   <<C("exec", "|", 0, b), C("exec", "|", 0, a), C("exec", "|", 3, b), Nothing>>}
=============================================================================
