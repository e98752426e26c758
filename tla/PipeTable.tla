------------------------------ MODULE PipeTable ------------------------------
(***************************************************************************)
(* The table of open pipes that every shell of the repository keeps: a     *)
(* vector of PipeInfo, in creation order.  An entry's count is the number  *)
(* of lines until the pipe is due (0: its reader is the first command of   *)
(* the current line), or -1 for an ordinary pipe of the current line.      *)
(* The file descriptors of an entry are abstracted to its position in the  *)
(* vector; "from" is what the shell cannot see: the commands whose output  *)
(* the pipe carries.                                                       *)
(***************************************************************************)
EXTENDS Integers, Sequences, FiniteSetsExt, SequencesExt

CONSTANT Tag            \* the outputs the properties tell apart

\* What ends a command: nothing, | or !.
NoMark == "none"
Mark == {NoMark, "|", "!"}

\* An entry of the table.
PipeInfo == [count : Int, from : SUBSET Tag]

\* The position of the first entry with this count, 0 when there is none.
FirstWith(table, count) ==
  LET found == {j \in 1 .. Len(table) : table[j].count = count}
  IN  IF found = {} THEN 0 ELSE Min(found)

-----------------------------------------------------------------------------
\* The count of the pipe the command writes to: N for "|N" and "!N" at the
\* end of the line, -1 (ordinary) anywhere else.
AnywhereNumbered(cmd, isLast) ==
  IF cmd.lineToPipe > 0 THEN cmd.lineToPipe ELSE -1
OutCount(cmd, isLast) ==
  IF isLast /\ cmd.lineToPipe > 0 THEN cmd.lineToPipe ELSE -1

\* A numbered pipe for that very line exists already and is shared.
NeverShared(table, cmd, isLast) == FALSE
Shared(table, cmd, isLast) ==
  OutCount(cmd, isLast) > 0 /\ FirstWith(table, OutCount(cmd, isLast)) > 0

\* The table after a command's output pipe has been opened.
Pipee(table, cmd, isLast) ==
  IF cmd.mark = NoMark \/ Shared(table, cmd, isLast)
  THEN table
  ELSE Append(table, [count |-> OutCount(cmd, isLast), from |-> {}])

\* The entry the command writes to in that table, 0 for the terminal.
NewestOut(table, cmd, isLast) == IF cmd.mark = NoMark THEN 0 ELSE Len(table)
FdOut(table, cmd, isLast) ==
  IF cmd.mark = NoMark THEN 0
  ELSE IF OutCount(cmd, isLast) > 0
       THEN FirstWith(table, OutCount(cmd, isLast))
       ELSE Len(table)

\* The entry the command at position i of the line reads from: the first one
\* that is due if it opens the line, else the first ordinary one.
DueIn(table, i) == FirstWith(table, 0)
FdIn(table, i) == FirstWith(table, IF i = 1 THEN 0 ELSE -1)

-----------------------------------------------------------------------------
\* A child that writes "tag" has been forked with entry "out" as its stdout.
Write(table, out, tag) ==
  [j \in DOMAIN table |->
     IF j = out THEN [table[j] EXCEPT !.from = @ \cup {tag}] ELSE table[j]]

\* The shell closes its ends of entry "in" and erases it.
StaysOpen(table, in) == table
Close(table, in) == IF in = 0 THEN table ELSE RemoveAt(table, in)

\* The end of a line.
CountDown(table) == [j \in DOMAIN table |-> [table[j] EXCEPT !.count = @ - 1]]

\* No two entries count down to the same line.
Distinct(table) ==
  \A j, k \in DOMAIN table :
    table[j].count = table[k].count /\ table[j].count >= 0 => j = k

\* What entry "in" delivers; the terminal (0) delivers nothing.
Content(table, in) == IF in = 0 THEN {} ELSE table[in].from

-----------------------------------------------------------------------------
(* Properties *)

\* What is on its way, by the number of lines it is away: what the entries
\* counting down carry.
CountsDown(table) == {j \in DOMAIN table : table[j].count >= 0 /\ table[j].from # {}}
OnItsWay(table) ==
  [n \in {table[j].count : j \in CountsDown(table)} |->
     UNION {table[j].from : j \in {k \in CountsDown(table) : table[k].count = n}}]
=============================================================================
