------------------------------- MODULE Npshell -------------------------------
(***************************************************************************)
(* The shell of Project 1 (npshell.cpp; np_simple.cpp runs the same loop   *)
(* once per connection): one process that reads a line, parses it into     *)
(* commands, and for each of them opens its output pipe, finds its input   *)
(* pipe and runs it.                                                       *)
(***************************************************************************)
EXTENDS ShellLine

CONSTANTS Lines,        \* the lines a user may type
          Courteous,    \* the user keeps to the lines of the assignment, and never
                        \* pipes to a builtin (NP_Project1_Spec.pdf 3.3.3)
          MaxStale      \* bound: how long a pipe nobody read is followed

\* A mark stands between two commands, and a number behind a mark.
ASSUME NpshellAssumption ==
  /\ MaxStale \in Nat
  /\ Courteous \in BOOLEAN
  /\ \A line \in Lines :
       LET list == Input(line)
       IN  /\ list \in Seq(Cmd)
           /\ \A j \in 1 .. Len(list) - 1 : list[j].mark # NoMark
           /\ \A j \in 1 .. Len(list) : list[j].mark = NoMark => list[j].lineToPipe = 0

\* A courteous user types the lines of the assignment: a command in each, a
\* builtin only at its beginning, and no | at its end but a numbered one.
ASSUME CourteousAssumption ==
  Courteous =>
    \A line \in Lines :
      LET list == Input(line)
      IN  ~IsBlank(line) =>
            /\ list # <<>>
            /\ \A j \in 2 .. Len(list) : list[j].kind \notin Builtin
            /\ list[Len(list)].mark # NoMark => list[Len(list)].lineToPipe > 0

VARIABLES
  pipeList,     \* the table of open pipes
  cmdList,      \* the commands of the current line
  i,            \* the position of the next command to run
  pc,           \* where the shell's loop stands
  stdinOpen,    \* the input has not ended
  received      \* what the last program started got as its input

vars == <<pipeList, cmdList, i, pc, stdinOpen, received>>

State == {"prompt", "getline", "run", "exited", "aborted"}

TypeOK ==
  /\ pipeList \in Seq(PipeInfo)
  /\ cmdList \in Seq(Cmd) /\ (pc \in {"prompt", "getline"} => cmdList = <<>>)
  /\ i \in Nat \ {0}
  /\ pc \in State
  /\ stdinOpen \in BOOLEAN
  /\ received \in SUBSET Tag

Init ==
  /\ pipeList = <<>>
  /\ cmdList = <<>>
  /\ i = 1
  /\ pc = "prompt"
  /\ stdinOpen = TRUE
  /\ received = {}

-----------------------------------------------------------------------------
\* The user's side.

CloseStdin ==
  /\ stdinOpen
  /\ stdinOpen' = FALSE
  /\ UNCHANGED <<pipeList, cmdList, i, pc, received>>

\* A courteous user types no builtin on the line a numbered pipe is due at.
Polite(line) ==
  Courteous /\ FirstWith(pipeList, 0) # 0 =>
    \A j \in DOMAIN Input(line) : Input(line)[j].kind \notin Builtin

WithinBound == \A j \in DOMAIN pipeList : pipeList[j].count >= -MaxStale

-----------------------------------------------------------------------------
\* The shell's loop.

Prompt ==
  /\ pc = "prompt"
  /\ pc' = "getline"
  /\ UNCHANGED <<pipeList, cmdList, i, stdinOpen, received>>

\* A blank line is not a line; getline at the end of the input returns one.
ReadBlank ==
  /\ pc = "getline"
  /\ ~stdinOpen \/ \E line \in Lines : IsBlank(line)
  /\ pc' = "prompt"
  /\ UNCHANGED <<pipeList, cmdList, i, stdinOpen, received>>

ReadLine ==
  /\ pc = "getline"
  /\ stdinOpen
  /\ WithinBound
  /\ \E line \in Lines :
       /\ ~IsBlank(line)
       /\ Polite(line)
       /\ cmdList' = Input(line)
  /\ i' = 1
  /\ pc' = "run"
  /\ UNCHANGED <<pipeList, stdinOpen, received>>

-----------------------------------------------------------------------------
\* One turn of the command loop: Pipee, the search for the input pipe, and
\* Execommand, one action for each of its branches.

Running(kinds) ==
  /\ pc = "run"
  /\ i <= Len(cmdList)
  /\ cmdList[i].kind \in kinds

IsLast == i = Len(cmdList)
Opened == Pipee(pipeList, cmdList[i], IsLast)
In == FdIn(Opened, i)
Out == FdOut(Opened, cmdList[i], IsLast)

\* A builtin with its arguments runs in the shell itself: it takes nothing from its input pipe
\* and leaves it in the table.
RunBuiltin ==
  /\ Running(Builtin)
  /\ pipeList' = Opened
  /\ i' = i + 1
  /\ UNCHANGED <<cmdList, pc, stdinOpen, received>>

RunExit ==
  /\ Running({"exit"})
  /\ pc' = "exited"
  /\ pipeList' = Opened
  /\ UNCHANGED <<cmdList, i, stdinOpen, received>>

\* tokens.at(0) of a command without a word throws, and so does tokens.at(1) or
\* tokens.at(2) of a builtin without its arguments; nobody catches it.
Abort ==
  /\ Running({"spaces"} \cup Builtin)
  /\ pc' = "aborted"
  /\ pipeList' = Opened
  /\ UNCHANGED <<cmdList, i, stdinOpen, received>>

\* A program: the child gets the two ends, the shell drops the one it read.
Fork ==
  /\ Running({"exec"})
  /\ received' = Content(Opened, In)
  /\ pipeList' = Close(Write(Opened, Out, cmdList[i].tag), In)
  /\ i' = i + 1
  /\ UNCHANGED <<cmdList, pc, stdinOpen>>

\* The list of commands is emptied for the next line.
NotCleared == cmdList' = cmdList /\ i' = 1
Cleared == cmdList' = <<>> /\ i' = 1

EndLine ==
  /\ pc = "run"
  /\ i > Len(cmdList)
  /\ pipeList' = CountDown(pipeList)
  /\ Cleared
  /\ pc' = "prompt"
  /\ UNCHANGED <<stdinOpen, received>>

Shell ==
  \/ Prompt \/ ReadBlank \/ ReadLine
  \/ RunBuiltin \/ RunExit \/ Abort \/ Fork \/ EndLine

Next == Shell \/ CloseStdin

Spec == Init /\ [][Next]_vars /\ WF_vars(Shell)

-----------------------------------------------------------------------------
(* Properties *)

\* No two pipes are due at the same line: Execommand erases only the first
\* match, so the output of the other one would never be read (Pipee's search
\* for an equal count is what shares the pipe).
DueDistinct == Distinct(pipeList)

\* A program never reads the pipe it writes, and the shell never closes it:
\* when a piped program has been started, its output is in the table, due at
\* the line its mark names or, for an ordinary pipe, on the current line.
OutputKept ==
  [][Fork /\ cmdList[i].mark # NoMark
       => \E j \in DOMAIN pipeList' :
            /\ cmdList[i].tag \in pipeList'[j].from
            /\ pipeList'[j].count = OutCount(cmdList[i], IsLast)]_vars

\* Between two lines every open pipe is due later: none is left over to be
\* read by a command it was not meant for, as long as the user is courteous.
NothingStale ==
  Courteous /\ pc \in {"prompt", "getline"} =>
    \A j \in DOMAIN pipeList : pipeList[j].count >= 0

\* The table implements the promise.  In its terms, what the entries counting
\* down carry is on its way, and what the first ordinary entry carries is what
\* the next command of the line gets.
Carried ==
  IF Courteous THEN Content(pipeList, FirstWith(pipeList, -1)) ELSE {}

Promise == INSTANCE PipePromise WITH due <- OnItsWay(pipeList), carried <- Carried

\* Every program that opens a line reads the output of exactly the commands
\* piped to that line, whatever the users type; and if they are courteous,
\* every other one reads exactly the output of the command on its left.
KeepsPromise == Promise!Spec

\* "The npshell terminates after receiving the exit command or EOF"
\* (NP_Project1_Spec.pdf, section 3.1, item 3).
TerminatesAtEOF == ~stdinOpen ~> pc \in {"exited", "aborted"}
=============================================================================
