------------------------------ MODULE ShellLine ------------------------------
(***************************************************************************)
(* What a user types at the shell of Project 1 and what its parser makes   *)
(* of it.  A typed line is the sequence of its segments, what stands       *)
(* between two marks, each with the mark that ends it (none for the last)  *)
(* and the number written after the mark (0: no number).                   *)
(***************************************************************************)
EXTENDS PipeTable

Builtin == {"printenv", "setenv"}
\* "spaces": nothing but blanks; "nothing": not even a blank.
Kind == Builtin \cup {"exec", "exit", "spaces", "nothing"}
Segment == [kind : Kind, mark : Mark, lineToPipe : Nat, tag : Tag]
Cmd == {s \in Segment : s.kind # "nothing"}

\* The parser keeps every segment that is not empty, blanks included.
Input(line) ==
  LET kept(s) == s.kind # "nothing" IN SelectSeq(line, kept)

\* The lines the main loop ignores.
IsBlank(line) ==
  \A j \in DOMAIN line : /\ line[j].kind \in {"spaces", "nothing"}
                         /\ line[j].mark = NoMark
=============================================================================
