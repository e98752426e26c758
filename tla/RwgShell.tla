------------------------------- MODULE RwgShell -------------------------------
(***************************************************************************)
(* The shell a session of the multi-process remote working ground runs     *)
(* (np_shell.cpp).  It was rewritten since Project 1: the pipes are        *)
(* counted down when a line is read, the numbered pipe of the line is      *)
(* opened and the one that is due taken out of the table before anything   *)
(* is run, and the ordinary pipes of the line are in no table.  What the   *)
(* session shares with the others, the user table, the messages and the    *)
(* user pipes, is left out.  A builtin's name behind a |, and exit with    *)
(* more than itself on its line, are looked up like programs, and count    *)
(* as programs here.                                                       *)
(***************************************************************************)
EXTENDS ShellLine

CONSTANT Lines          \* the lines a user may type

\* Only the end of a line has a number, and a | stands between two commands.  The
\* parser keeps the first command in any case, and one without a word counts as
\* blanks: only a line without a character has none.
ASSUME RwgShellAssumption ==
  \A line \in Lines :
    LET list == Input(line)
        last == Len(list)
    IN  /\ list \in Seq(Cmd)
        /\ list = <<>> => \A j \in DOMAIN line : line[j].mark = NoMark
        /\ \A j \in 1 .. last - 1 : list[j].mark # NoMark /\ list[j].lineToPipe = 0
        /\ last > 0 => (list[last].mark = NoMark <=> list[last].lineToPipe = 0)
        /\ \A j \in 2 .. last : list[j].kind = "exec"
        /\ last > 0 /\ list[1].kind = "exit" => Len(line) = 1

VARIABLES
  userPipes,    \* the numbered pipes (the source's name), oldest first
  cmds,         \* the commands of the current line
  i,            \* the position of the next command to run
  prePipeRd,    \* what the next command gets as its input
  pc,           \* where the shell's loop stands
  stdinOpen,    \* the user has not closed the connection
  received      \* what the last program started got as its input

vars == <<userPipes, cmds, i, prePipeRd, pc, stdinOpen, received>>

State == {"prompt", "getline", "run", "exited", "aborted"}

TypeOK ==
  /\ userPipes \in Seq(PipeInfo)
  /\ cmds \in Seq(Cmd) /\ (pc = "run" => cmds # <<>>)
  /\ i \in Nat \ {0}
  /\ prePipeRd \in SUBSET Tag
  /\ pc \in State
  /\ stdinOpen \in BOOLEAN
  /\ received \in SUBSET Tag

Init ==
  /\ userPipes = <<>>
  /\ cmds = <<>> /\ i = 1
  /\ prePipeRd = {}
  /\ pc = "prompt"
  /\ stdinOpen = TRUE
  /\ received = {}

-----------------------------------------------------------------------------
CloseStdin ==
  /\ stdinOpen
  /\ stdinOpen' = FALSE
  /\ UNCHANGED <<userPipes, cmds, i, prePipeRd, pc, received>>

Prompt ==
  /\ pc = "prompt"
  /\ pc' = "getline"
  /\ UNCHANGED <<userPipes, cmds, i, prePipeRd, stdinOpen, received>>

\* getline fails at the end of the input, and the session ends.
GoOn == pc' = "prompt"
EndSession == pc' = "exited"

ReadEnd ==
  /\ pc = "getline"
  /\ ~stdinOpen
  /\ EndSession
  /\ UNCHANGED <<userPipes, cmds, i, prePipeRd, stdinOpen, received>>

\* The line that is exit ends it too; an empty line is not a line.
IsExit(line) == Len(line) = 1 /\ line[1].kind = "exit"
NeverEmpty(line) == FALSE
IsEmpty(line) == Input(line) = <<>>

ReadExit ==
  /\ pc = "getline" /\ stdinOpen
  /\ \E line \in Lines : IsExit(line)
  /\ EndSession
  /\ UNCHANGED <<userPipes, cmds, i, prePipeRd, stdinOpen, received>>

ReadEmpty ==
  /\ pc = "getline" /\ stdinOpen
  /\ \E line \in Lines : IsEmpty(line)
  /\ pc' = "prompt"
  /\ UNCHANGED <<userPipes, cmds, i, prePipeRd, stdinOpen, received>>

\* The number of the pipe the line ends in (PipeCount), 0 when there is none.
PipeCount(list) == IF list = <<>> THEN 0 ELSE list[Len(list)].lineToPipe

\* The table with that pipe in it: the one due at the same line, or a new one.
AlwaysNew(table, count) == Append(table, [count |-> count, from |-> {}])
WithPipeOut(table, count) ==
  IF count = 0 \/ FirstWith(table, count) # 0
  THEN table
  ELSE Append(table, [count |-> count, from |-> {}])

\* The pipe that is due has reached 0.
Late(table) == table
Counted(table) == CountDown(table)

ReadLine ==
  /\ pc = "getline" /\ stdinOpen
  /\ \E line \in Lines :
       /\ ~IsEmpty(line) /\ ~IsExit(line)
       /\ cmds' = Input(line)
       /\ LET table == WithPipeOut(Counted(userPipes), PipeCount(Input(line)))
              due == FirstWith(table, 0)
          IN  /\ prePipeRd' = Content(table, due)
              /\ userPipes' = Close(table, due)
  /\ i' = 1
  /\ pc' = "run"
  /\ UNCHANGED <<stdinOpen, received>>

-----------------------------------------------------------------------------
(* The commands of the line. *)

Running(kinds) == pc = "run" /\ i <= Len(cmds) /\ cmds[i].kind \in kinds

\* Only a line that begins with a builtin runs one, and nothing after it.
RunBuiltin ==
  /\ Running(Builtin) /\ i = 1
  /\ i' = Len(cmds) + 1
  /\ UNCHANGED <<userPipes, cmds, prePipeRd, pc, stdinOpen, received>>

\* A line of blanks, or of nothing but a number, has no word: cmds[0][0] is read
\* all the same, from a vector that is empty, and cmds[0][1] of a printenv that
\* names no variable.
Abort ==
  /\ Running({"spaces", "printenv"}) /\ i = 1
  /\ pc' = "aborted"
  /\ UNCHANGED <<userPipes, cmds, i, prePipeRd, stdinOpen, received>>

\* A program; the last of the line writes to the pipe the line ends in.
PipeOut == FirstWith(userPipes, PipeCount(cmds))

Fork ==
  /\ Running({"exec"})
  /\ received' = prePipeRd
  /\ IF i < Len(cmds)
     THEN prePipeRd' = {cmds[i].tag} /\ UNCHANGED userPipes
     ELSE /\ prePipeRd' = {}
          /\ userPipes' = IF PipeCount(cmds) = 0 THEN userPipes
                          ELSE Write(userPipes, PipeOut, cmds[i].tag)
  /\ i' = i + 1
  /\ UNCHANGED <<cmds, pc, stdinOpen>>

EndLine ==
  /\ pc = "run" /\ i > Len(cmds)
  /\ pc' = "prompt"
  /\ cmds' = <<>> /\ i' = 1
  /\ prePipeRd' = {}
  /\ UNCHANGED <<userPipes, stdinOpen, received>>

Shell ==
  \/ Prompt \/ ReadEnd \/ ReadExit \/ ReadEmpty \/ ReadLine
  \/ RunBuiltin \/ Abort \/ Fork \/ EndLine

Next == Shell \/ CloseStdin

Spec == Init /\ [][Next]_vars /\ WF_vars(Shell)

-----------------------------------------------------------------------------
(* Properties *)

\* The loop that looks for the pipe that is due stops at the first: no two
\* pipes are due at the same line, and none is left from a line that is over.
OneDuePerLine ==
  /\ Distinct(userPipes)
  /\ \A j \in DOMAIN userPipes : userPipes[j].count >= 1

\* In the promise's terms, a pipe is one line nearer between two lines, since
\* it is counted down when the next one is read; the pipe that is due is still
\* on its way until a program has read it.
Now(j) == userPipes[j].count - (IF pc \in {"run", "aborted"} THEN 0 ELSE 1)
Unread == pc \in {"run", "aborted"} /\ (i = 1 \/ cmds[1].kind \in Builtin)
Filled == {j \in DOMAIN userPipes : userPipes[j].from # {}}
DueLines ==
  {Now(j) : j \in Filled} \cup (IF Unread /\ prePipeRd # {} THEN {0} ELSE {})
Due ==
  [n \in DueLines |->
     (UNION {userPipes[j].from : j \in {k \in Filled : Now(k) = n}})
       \cup (IF n = 0 /\ Unread THEN prePipeRd ELSE {})]
Carried == IF Unread THEN {} ELSE prePipeRd

Promise == INSTANCE PipePromise
             WITH Courteous <- TRUE, cmdList <- cmds, due <- Due, carried <- Carried

\* The rewritten shell keeps the promise of Project 1 to users who keep to
\* its lines: every program reads what was piped to it, and nothing else.
KeepsPromise == Promise!Spec

\* "The npshell terminates after receiving the exit command or EOF"
\* (NP_Project1_Spec.pdf, section 3.1, item 3): this shell does.
TerminatesAtEOF == ~stdinOpen ~> pc \in {"exited", "aborted"}
=============================================================================
