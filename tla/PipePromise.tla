----------------------------- MODULE PipePromise -----------------------------
(***************************************************************************)
(* What the shell promises about pipes, with no table: the output piped    *)
(* with |N or !N goes to the first command of the N-th next line, together *)
(* with all other output sent there; the output piped with | goes to the   *)
(* next command of the line.  The control of the shell (which line is run, *)
(* how far) is that of Npshell and RwgShell, which both keep the promise,  *)
(* each with a table of its own kind.                                      *)
(***************************************************************************)
EXTENDS ShellLine, Functions

CONSTANTS Lines,        \* the lines a user may type
          Courteous     \* the promise covers ordinary pipes

VARIABLES
  due,          \* what is on its way, by the number of lines it is away
  carried,      \* what the command before piped to the next one
  cmdList, i, pc, received

vars == <<due, carried, cmdList, i, pc, received>>

Init ==
  /\ due = [n \in {} |-> {}]
  /\ carried = {}
  /\ cmdList = <<>> /\ i = 1 /\ pc = "prompt" /\ received = {}

\* The shell talks to its user, or ends.
Idle ==
  \/ pc = "prompt" /\ pc' = "getline"
  \/ pc = "getline" /\ pc' \in {"prompt", "exited"}
  \/ pc = "run" /\ pc' \in {"exited", "aborted"}

Start ==
  /\ pc = "getline" /\ pc' = "run"
  /\ \E line \in Lines : cmdList' = Input(line)
  /\ i' = 1
  /\ UNCHANGED <<due, carried, received>>

At(n) == IF n \in DOMAIN due THEN due[n] ELSE {}

\* A builtin neither reads nor writes a pipe.
Skip ==
  /\ pc = "run" /\ i <= Len(cmdList) /\ cmdList[i].kind \in Builtin
  /\ i' = i + 1
  /\ UNCHANGED <<due, carried, cmdList, pc, received>>

Run ==
  /\ pc = "run" /\ i <= Len(cmdList) /\ cmdList[i].kind = "exec"
  /\ LET cmd == cmdList[i]
         numbered == cmd.lineToPipe > 0 /\ i = Len(cmdList)
         rest == IF i = 1 THEN Restrict(due, DOMAIN due \ {0}) ELSE due
     IN  /\ CASE i = 1 -> received' = At(0)
              [] i > 1 /\ Courteous -> received' = carried
              [] OTHER -> received' \in SUBSET Tag
         /\ due' = IF numbered
                   THEN [n \in DOMAIN rest \cup {cmd.lineToPipe} |->
                           IF n = cmd.lineToPipe THEN At(n) \cup {cmd.tag} ELSE rest[n]]
                   ELSE rest
         /\ carried' = IF Courteous /\ cmd.mark # NoMark /\ ~numbered THEN {cmd.tag} ELSE {}
  /\ i' = i + 1
  /\ UNCHANGED <<cmdList, pc>>

\* One line less to go for all that is on its way.
Turn ==
  /\ pc = "run" /\ i > Len(cmdList) /\ pc' = "prompt"
  /\ due' = [n \in {m - 1 : m \in DOMAIN due \ {0}} |-> due[n + 1]]
  /\ carried' = {}
  /\ cmdList' = <<>> /\ i' = 1
  /\ UNCHANGED received

Next ==
  \/ Idle /\ UNCHANGED <<due, carried, cmdList, i, received>>
  \/ Start \/ Skip \/ Run \/ Turn

Spec == Init /\ [][Next]_vars
=============================================================================
