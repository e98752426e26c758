----------------------------- MODULE UsersPromise -----------------------------
(***************************************************************************)
(* What a server of many users promises about numbered pipes, with no      *)
(* table: the output a user pipes with |N or !N goes to the first command  *)
(* of that user's N-th next line, together with all else that user sent    *)
(* there; nobody else's lines count, and nobody else reads it.  One line   *)
(* is run at a time.  A command that reads or writes a user pipe leaves    *)
(* its user's own pipes alone at that end.                                 *)
(***************************************************************************)
EXTENDS RwgLine, Functions

CONSTANT Users

VARIABLES
  due,          \* for each user, what is on its way, by the lines it is away
  who,          \* whose line is run, 0 for nobody's
  cmdList, i,   \* the line and its next command
  received      \* what the line's last program got from its input pipe

vars == <<due, who, cmdList, i, received>>

NothingDue == [n \in {} |-> {}]

Init ==
  /\ due = [u \in Users |-> NothingDue]
  /\ who = 0
  /\ cmdList = <<>> /\ i = 1 /\ received = {}

Start ==
  /\ who = 0 /\ who' \in Users
  /\ cmdList' \in Seq(Cmd) /\ i' = 1
  /\ UNCHANGED <<due, received>>

cmd == cmdList[i]
Running == who # 0 /\ i <= Len(cmdList)

\* A builtin neither reads nor writes a pipe.
Skip ==
  /\ Running /\ cmd.kind # "exec"
  /\ i' = i + 1
  /\ UNCHANGED <<due, who, cmdList, received>>

At(n) == IF n \in DOMAIN due[who] THEN due[who][n] ELSE {}

Run ==
  /\ Running /\ cmd.kind = "exec"
  /\ LET n == cmd.lineToPipe
         opens == i = 1 /\ cmd.receive = 0
         sends == i = Len(cmdList) /\ cmd.mark # NoMark /\ n > 0 /\ cmd.send = 0
         rest == IF opens THEN Restrict(due[who], DOMAIN due[who] \ {0}) ELSE due[who]
     IN  /\ received' \in SUBSET Tag
         /\ opens => received' = At(0)
         /\ cmd.receive > 0 => received' = {}
         /\ due' = [due EXCEPT ![who] =
                      IF sends
                      THEN [m \in DOMAIN rest \cup {n} |->
                              IF m = n THEN At(n) \cup {cmd.tag} ELSE rest[m]]
                      ELSE rest]
  /\ i' = i + 1
  /\ UNCHANGED <<who, cmdList>>

LineEnds ==
  /\ who # 0 /\ i > Len(cmdList)
  /\ who' = 0
  /\ cmdList' = <<>> /\ i' = 1 /\ received' = {}
SaysExit == \E j \in DOMAIN cmdList : cmdList[j].kind = "exit"

\* One line less to go for all of the user's output that is on its way.
Turn ==
  /\ LineEnds /\ ~SaysExit
  /\ due' = [due EXCEPT ![who] =
               [n \in {m - 1 : m \in DOMAIN due[who] \ {0}} |-> due[who][n + 1]]]

\* Who leaves takes it along.
Leave ==
  /\ LineEnds /\ SaysExit
  /\ due' = [due EXCEPT ![who] = NothingDue]

Next == Start \/ Skip \/ Run \/ Turn \/ Leave

Spec == Init /\ [][Next]_vars
=============================================================================
