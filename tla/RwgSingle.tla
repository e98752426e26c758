------------------------------ MODULE RwgSingle ------------------------------
(***************************************************************************)
(* The single-process remote working ground (np_single_proc.cpp): one      *)
(* process serves every user.  Its loop calls select, accepts at most one  *)
(* connection, and then visits every slot of the user table: a user who is *)
(* owed a prompt gets it, and if select saw input from that user, a line   *)
(* is read and run to its end before the next slot is visited.  Next to    *)
(* one pipe table for each user there are the user pipes, the names, and   *)
(* the environment each user has set, seen through one variable.           *)
(***************************************************************************)
EXTENDS RwgLine, FiniteSets

CONSTANTS N,            \* the number of slots (30)
          Lines,        \* the lines users may type
          MaxTyped,     \* bound: lines typed and not yet read
          MaxWaiting,   \* bound: connections not yet accepted
          MaxStale,     \* bound: how long a pipe nobody read is followed
          TypeAhead,    \* users type before they are prompted
          HangUp,       \* users may leave without typing exit
          SelfPipes,    \* users may pipe to themselves
          NoName, Unset

Users == 1 .. N

ASSUME RwgAssumption ==
  /\ N \in Nat \ {0} /\ MaxTyped \in Nat /\ MaxWaiting \in Nat /\ MaxStale \in Nat
  /\ TypeAhead \in BOOLEAN /\ HangUp \in BOOLEAN /\ SelfPipes \in BOOLEAN
  /\ NoName \notin Argument
  /\ \A n \in 1 .. MaxTyped : \A typed \in [1 .. n -> Lines] :
       LET list == Input(Text(typed))
       IN  /\ list \in Seq(Cmd)
           /\ \A j \in 1 .. Len(list) - 1 : list[j].mark # NoMark

VARIABLES
  \* the user table
  hasUser, done, name, env, pipes,
  \* the rest of the server's state
  userPipes,    \* the user pipes, oldest first
  processEnv,   \* the environment of the process
  servingID,    \* the slot the loop has come to
  pc,           \* where the loop stands
  readfds,      \* the users whose socket select found readable
  cmdList, i,   \* the line being run and its next command
  byebye,       \* the line said exit
  received,     \* what the line's last program got from its input pipe
  sweep,        \* the place logout has come to in userPipes
  \* the clients
  waiting,      \* how many have connected and are not yet accepted
  inbox,        \* for each user, the lines typed and not yet read
  gone,         \* the users who have closed their connection
  credit        \* for each user, prompts sent less reads made

table == <<hasUser, done, name, env, pipes>>
commands == <<cmdList, i, byebye, received>>
clients == <<waiting, inbox, gone>>
vars == <<table, userPipes, processEnv, servingID, pc, readfds, commands, sweep,
          clients, credit>>

Online == {u \in Users : hasUser[u]}
UserInfo == [sourceID : Users, targetID : Users]
State == {"select", "accept", "visit", "run", "sweep", "dead"}

TypeOK ==
  /\ hasUser \in [Users -> BOOLEAN]
  /\ done \in [Users -> BOOLEAN]
  /\ name \in [Users -> Argument \cup {NoName}]
  /\ env \in [Users -> Values \cup {Unset}]
  /\ pipes \in [Users -> Seq(PipeInfo)]
  /\ userPipes \in Seq(UserInfo)
  /\ processEnv \in Values \cup {Unset}
  /\ servingID \in 1 .. N + 1
  /\ pc \in State
  /\ readfds \in SUBSET Users
  /\ cmdList \in Seq(Cmd) /\ (pc \in {"run", "dead"} \/ cmdList = <<>>)
  /\ i \in Nat \ {0}
  /\ byebye \in BOOLEAN
  /\ received \in SUBSET Tag
  /\ sweep \in Nat \ {0}
  /\ waiting \in Nat
  /\ inbox \in [Users -> Seq(Lines)] /\ \A u \in Users : Len(inbox[u]) <= MaxTyped
  /\ gone \in SUBSET Users
  /\ credit \in [Users -> Int]

Init ==
  /\ hasUser = [u \in Users |-> FALSE]
  /\ done = [u \in Users |-> TRUE]
  /\ name = [u \in Users |-> NoName]
  /\ env = [u \in Users |-> Unset]
  /\ pipes = [u \in Users |-> <<>>]
  /\ userPipes = <<>>
  /\ processEnv = Unset
  /\ servingID = 1
  /\ pc = "select"
  /\ readfds = {}
  /\ cmdList = <<>> /\ i = 1 /\ byebye = FALSE /\ received = {}
  /\ sweep = 1
  /\ waiting = 0
  /\ inbox = [u \in Users |-> <<>>]
  /\ gone = {}
  /\ credit = [u \in Users |-> 0]

-----------------------------------------------------------------------------
(* The clients. *)

Connect ==
  /\ pc # "dead"
  /\ waiting < MaxWaiting
  /\ waiting' = waiting + 1
  /\ UNCHANGED <<table, userPipes, processEnv, servingID, pc, readfds, commands,
                 sweep, inbox, gone, credit>>

WithinBound(u) == \A j \in DOMAIN pipes[u] : pipes[u][j].count >= -MaxStale

Type(u) ==
  /\ pc # "dead"
  /\ hasUser[u] /\ u \notin gone
  /\ Len(inbox[u]) < MaxTyped
  /\ WithinBound(u)
  /\ TypeAhead \/ (credit[u] = 1 /\ inbox[u] = <<>>)
  /\ \E line \in Lines :
       /\ SelfPipes \/ \A k \in DOMAIN line : line[k].send # u
       /\ inbox' = [inbox EXCEPT ![u] = Append(@, line)]
  /\ UNCHANGED <<table, userPipes, processEnv, servingID, pc, readfds, commands,
                 sweep, waiting, gone, credit>>

Leave(u) ==
  /\ HangUp
  /\ pc # "dead"
  /\ hasUser[u] /\ u \notin gone
  /\ gone' = gone \cup {u}
  /\ UNCHANGED <<table, userPipes, processEnv, servingID, pc, readfds, commands,
                 sweep, waiting, inbox, credit>>

-----------------------------------------------------------------------------
(* The server's loop. *)

\* Writing to users S, the server goes on to place "next", unless a user who
\* has closed the connection is among them: then SIGPIPE may end it.
After(S, next) == {next} \cup (IF S \cap gone = {} THEN {} ELSE {"dead"})

\* What select waits for: input or its end on a user's connection, and
\* connections to accept.
AnyUser == Online
Readable == {u \in Online : inbox[u] # <<>> \/ u \in gone}
OnlyWhenIdle == waiting > 0 /\ Readable = {}
Pending == waiting > 0

Select ==
  /\ pc = "select"
  /\ readfds' = Readable
  /\ pc' = IF Pending THEN "accept" ELSE "visit"
  /\ servingID' = 1
  /\ UNCHANGED <<table, userPipes, processEnv, commands, sweep, clients, credit>>

Free == Users \ Online

\* A full house leaves the connection where it is.
NewUser ==
  /\ pc = "accept"
  /\ IF Free = {}
     THEN pc' = "visit" /\ UNCHANGED <<hasUser, waiting>>
     ELSE /\ hasUser' = [hasUser EXCEPT ![Min(Free)] = TRUE]
          /\ waiting' = waiting - 1
          /\ pc' \in After(Online, "visit")
  /\ UNCHANGED <<done, name, env, pipes, userPipes, processEnv, servingID,
                 readfds, commands, sweep, inbox, gone, credit>>

Visiting(u) == pc = "visit" /\ servingID = u /\ hasUser[u]

\* The environment of the process becomes the user's.
NoClearenv(u) == processEnv' = IF env[u] = Unset THEN processEnv ELSE env[u]
Init_shell(u) == processEnv' = env[u]

\* A prompt that is owed is paid; "reads" is 1 if a read follows.
PayPrompt(u, reads) ==
  credit' = [credit EXCEPT ![u] = @ + (IF done[u] THEN 1 ELSE 0) - reads]
Prompted(u) == IF done[u] THEN {u} ELSE {}

\* The user is owed a prompt.
Forget(u) == UNCHANGED done
Owe(u) == done' = [done EXCEPT ![u] = TRUE]

\* The loop goes on to the next slot.
StartOver == pc' = "select" /\ UNCHANGED servingID
NextSlot == pc' = "visit" /\ servingID' = servingID + 1

PassFree ==
  /\ pc = "visit"
  /\ servingID \in Free
  /\ pc' = "visit" /\ servingID' = servingID + 1
  /\ UNCHANGED <<table, userPipes, processEnv, readfds, commands, sweep,
                 clients, credit>>

NoInput(u) ==
  /\ Visiting(u)
  /\ u \notin readfds
  /\ Init_shell(u)
  /\ PayPrompt(u, 0)
  /\ done' = [done EXCEPT ![u] = FALSE]
  /\ pc' \in After(Prompted(u), "visit")
  /\ servingID' = u + 1
  /\ UNCHANGED <<hasUser, name, env, pipes, userPipes, readfds, commands, sweep,
                 clients>>

\* A blank line, or the end of the connection: read returns 0, which is taken
\* for a blank line too.
ReadBlank(u) ==
  /\ Visiting(u)
  /\ u \in readfds
  /\ IF inbox[u] = <<>> THEN u \in gone ELSE IsBlank(Text(inbox[u]))
  /\ Init_shell(u)
  /\ PayPrompt(u, 1)
  /\ Owe(u)
  /\ inbox' = [inbox EXCEPT ![u] = <<>>]
  /\ pc' \in After(Prompted(u), "visit")
  /\ servingID' = u + 1
  /\ UNCHANGED <<hasUser, name, env, pipes, userPipes, readfds, commands, sweep,
                 waiting, gone>>

ReadLine(u) ==
  /\ Visiting(u)
  /\ u \in readfds
  /\ inbox[u] # <<>>
  /\ ~IsBlank(Text(inbox[u]))
  /\ Init_shell(u)
  /\ PayPrompt(u, 1)
  /\ done' = [done EXCEPT ![u] = FALSE]
  /\ inbox' = [inbox EXCEPT ![u] = <<>>]
  /\ cmdList' = Input(Text(inbox[u]))
  /\ i' = 1
  /\ pc' \in After(Prompted(u), "run")
  /\ UNCHANGED <<hasUser, name, env, pipes, userPipes, servingID, readfds, byebye,
                 received, sweep, waiting, gone>>

Rescan ==
  /\ pc = "visit"
  /\ servingID > N
  /\ pc' = "select"
  /\ UNCHANGED <<table, userPipes, processEnv, servingID, readfds, commands, sweep,
                 clients, credit>>

-----------------------------------------------------------------------------
(* One turn of the command loop: Pipee, the search for the input pipe,     *)
(* handleUserPipe and Execommand, one action for each of its branches.     *)

me == servingID
cmd == cmdList[i]
IsLast == i = Len(cmdList)

Running(kinds) == pc = "run" /\ i <= Len(cmdList) /\ cmd.kind \in kinds

Opened == Pipee(pipes[me], cmd, IsLast)

\* The oldest user pipe from one user to another, 0 when there is none.
PipeAt(source, target) ==
  LET found == {j \in DOMAIN userPipes :
                  userPipes[j].sourceID = source /\ userPipes[j].targetID = target}
  IN  IF found = {} THEN 0 ELSE Min(found)

\* The user pipe the command reads, and whether it opens one to write; in all
\* other cases it gets /dev/null and its user a message.
Backwards == IF cmd.receive \in Online THEN PipeAt(me, cmd.receive) ELSE 0
Received == IF cmd.receive \in Online THEN PipeAt(cmd.receive, me) ELSE 0
SendsAnyway == cmd.send \in Online
Sends == cmd.send \in Online /\ PipeAt(me, cmd.send) = 0
Handled ==
  IF Sends THEN Append(userPipes, [sourceID |-> me, targetID |-> cmd.send])
  ELSE userPipes

\* Who is told about the command's user pipes.
Told ==
  UNION {IF cmd.receive = 0 THEN {} ELSE IF Received # 0 THEN Online ELSE {me},
         IF cmd.send = 0 THEN {} ELSE IF Sends THEN Online ELSE {me}}

\* What all commands but programs do to the pipes.  "heard" is who the
\* command itself writes to.
Builtin(heard) ==
  /\ pipes' = [pipes EXCEPT ![me] = Opened]
  /\ userPipes' = Handled
  /\ i' = i + 1
  /\ pc' \in After(heard \cup Told, "run")
  /\ UNCHANGED <<hasUser, done, servingID, readfds, cmdList, received, sweep, clients,
                 credit>>

Throws ==
  \/ cmd.kind \in Wordless
  \/ cmd.kind \in NeedArg /\ cmd.arg = NoArg
  \/ cmd.kind = "tell" /\ cmd.arg = Word

\* printenv and who write to their user only.
PrintenvOrWho ==
  /\ Running({"printenv", "who"}) /\ ~Throws
  /\ Builtin({me})
  /\ UNCHANGED <<name, env, processEnv, byebye>>

\* Another variable is set when the value is not one of Values.
Setenv ==
  /\ Running({"setenv"}) /\ ~Throws
  /\ IF cmd.arg \in Values
     THEN env' = [env EXCEPT ![me] = cmd.arg] /\ processEnv' = cmd.arg
     ELSE UNCHANGED <<env, processEnv>>
  /\ Builtin({})
  /\ UNCHANGED <<name, byebye>>

Tell ==
  /\ Running({"tell"}) /\ ~Throws
  /\ Builtin(IF cmd.arg \in Online THEN {cmd.arg} ELSE {me})
  /\ UNCHANGED <<name, env, processEnv, byebye>>

Yell ==
  /\ Running({"yell"})
  /\ Builtin(Online)
  /\ UNCHANGED <<name, env, processEnv, byebye>>

TakenBelow(newName) == \E u \in Online : u < me /\ name[u] = newName
Taken(newName) == \E u \in Online \ {me} : name[u] = newName

Name ==
  /\ Running({"name"}) /\ ~Throws
  /\ IF Taken(cmd.arg)
     THEN UNCHANGED name /\ Builtin({me})
     ELSE name' = [name EXCEPT ![me] = cmd.arg] /\ Builtin(Online)
  /\ UNCHANGED <<env, processEnv, byebye>>

\* exit says good-bye; the rest of the line is still run.
Exit ==
  /\ Running({"exit"})
  /\ byebye' = TRUE
  /\ Builtin(Online)
  /\ UNCHANGED <<name, env, processEnv>>

\* An argument is missing or is no number, or the segment has no word: the
\* exception ends the server.  It may also end in tell's access to a slot
\* outside the table, or in setenv's to a second argument.
Die ==
  /\ Running(Kind)
  /\ \/ Throws
     \/ cmd.kind = "tell" /\ cmd.arg \notin Users
     \/ cmd.kind = "setenv" /\ cmd.arg = Word
  /\ pc' = "dead"
  /\ UNCHANGED <<table, userPipes, processEnv, servingID, readfds, commands, sweep,
                 clients, credit>>

\* A program: <n takes the place of the input pipe, >n that of the output
\* pipe, and the server drops the pipe the program reads.  The call returns
\* when a program that writes to its user has ended.
Fork ==
  /\ Running({"exec"})
  /\ LET in == IF cmd.receive > 0 THEN 0 ELSE FdIn(Opened, i)
         out == IF cmd.send > 0 THEN 0 ELSE FdOut(Opened, cmd, IsLast)
     IN  /\ received' = Content(Opened, in)
         /\ pipes' = [pipes EXCEPT ![me] = Close(Write(Opened, out, cmd.tag), in)]
  /\ userPipes' = Close(Handled, Received)
  /\ i' = i + 1
  /\ pc' \in After(Told, "run")
  /\ UNCHANGED <<hasUser, done, name, env, processEnv, servingID, readfds, cmdList,
                 byebye, sweep, clients, credit>>

-----------------------------------------------------------------------------
(* The end of a line and of a session. *)

LineEnds == pc = "run" /\ i > Len(cmdList)

\* The list of commands is emptied for the next line.
NotCleared == cmdList' = cmdList /\ i' = 1 /\ received' = {}
Cleared == cmdList' = <<>> /\ i' = 1 /\ received' = {}

\* The user's pipes are one line nearer.
ForEveryone == pipes' = [u \in Users |-> CountDown(pipes[u])]
OneLineLess == pipes' = [pipes EXCEPT ![me] = CountDown(@)]

EndLine ==
  /\ LineEnds /\ ~byebye
  /\ OneLineLess
  /\ Cleared
  /\ Owe(me)
  /\ NextSlot
  /\ UNCHANGED <<hasUser, name, env, userPipes, processEnv, readfds, byebye, sweep,
                 clients, credit>>

\* The user's row of the table is as it was before anyone came.
KeepsPipes(u) ==
  /\ hasUser' = [hasUser EXCEPT ![u] = FALSE]
  /\ done' = [done EXCEPT ![u] = TRUE]
  /\ name' = [name EXCEPT ![u] = NoName]
  /\ env' = [env EXCEPT ![u] = Unset]
  /\ pipes' = [pipes EXCEPT ![u] = CountDown(@)]

Init_userData(u) ==
  /\ hasUser' = [hasUser EXCEPT ![u] = FALSE]
  /\ done' = [done EXCEPT ![u] = TRUE]
  /\ name' = [name EXCEPT ![u] = NoName]
  /\ env' = [env EXCEPT ![u] = Unset]
  /\ pipes' = [pipes EXCEPT ![u] = <<>>]

Logout ==
  /\ LineEnds /\ byebye
  /\ byebye' = FALSE
  /\ Cleared
  /\ Init_userData(me)
  /\ inbox' = [inbox EXCEPT ![me] = <<>>]
  /\ gone' = gone \ {me}
  /\ credit' = [credit EXCEPT ![me] = 0]
  /\ pc' = "sweep" /\ sweep' = 1
  /\ UNCHANGED <<userPipes, processEnv, servingID, readfds, waiting>>

\* The last loop of Init_userData closes the user's user pipes.  It steps on
\* after an erasure too, although the next pipe has just taken the place of
\* the one erased.
About(p) == me \in {p.sourceID, p.targetID}

Sweep ==
  /\ pc = "sweep"
  /\ sweep <= Len(userPipes)
  /\ userPipes' = IF About(userPipes[sweep]) THEN RemoveAt(userPipes, sweep)
                  ELSE userPipes
  /\ sweep' = sweep + 1
  /\ UNCHANGED <<table, processEnv, servingID, pc, readfds, commands, clients, credit>>

EndSession ==
  /\ pc = "sweep"
  /\ sweep > Len(userPipes)
  /\ sweep' = 1
  /\ NextSlot
  /\ UNCHANGED <<table, userPipes, processEnv, readfds, commands, clients, credit>>

-----------------------------------------------------------------------------
Command ==
  \/ PrintenvOrWho \/ Setenv \/ Tell \/ Yell \/ Name \/ Exit \/ Die \/ Fork

Visit == PassFree \/ \E u \in Users : NoInput(u) \/ ReadBlank(u) \/ ReadLine(u)

Server ==
  \/ Select \/ NewUser \/ Visit \/ Rescan
  \/ Command \/ EndLine \/ Logout \/ Sweep \/ EndSession

Client == Connect \/ \E u \in Users : Type(u) \/ Leave(u)

Next == Server \/ Client

Spec == Init /\ [][Next]_vars /\ WF_vars(Server)

-----------------------------------------------------------------------------
(* Properties *)

\* A user pipe is found by its two ends alone, and the search stops at the
\* first: of two with the same ends one would never be read (the check before
\* a send, and the erasure of the pipe that has been received).
NoTwins ==
  \A j, k \in DOMAIN userPipes : userPipes[j] = userPipes[k] => j = k

\* Two users who are online never have the same name, whatever the order in
\* which they take, refuse and give up names.
NamesDistinct ==
  \A u, v \in Online : name[u] = name[v] /\ name[u] # NoName => u = v

\* Who comes into a slot finds nothing of the user who had it before: no name,
\* no setting, no pipe, no unread line, and a prompt to come.
FreshSlot ==
  \A u \in Free : /\ done[u] /\ credit[u] = 0 /\ inbox[u] = <<>> /\ u \notin gone
                  /\ name[u] = NoName /\ env[u] = Unset /\ pipes[u] = <<>>

\* A user has one prompt for each read the server has made, and one more once
\* the prompt that opens the session or follows a line has been sent.
OnePrompt ==
  pc # "dead" =>
    \A u \in Online :
      credit[u] = IF done[u] \/ (pc = "run" /\ u = servingID) THEN 0 ELSE 1

\* The programs and builtins of a line see the environment of its user.
OwnEnvironment == pc = "run" => processEnv = env[servingID]

\* The server reads only what is there: a read that blocks would stop it for
\* all users (the set select filled is used slots and lines later).
ReadNeverBlocks ==
  pc = "visit" =>
    \A u \in readfds :
      u >= servingID => /\ hasUser[u]
                        /\ inbox[u] # <<>> \/ u \in gone

\* No two numbered pipes of a user are due at the same line.
DueDistinct == \A u \in Users : Distinct(pipes[u])

\* When a program that is piped on has been started, its pipe is in its user's
\* table, due when its mark says.
OutputKept ==
  [][Fork /\ cmd.mark # NoMark /\ cmd.send = 0
       => \E j \in DOMAIN pipes[me]' :
            /\ cmd.tag \in pipes'[me][j].from
            /\ pipes'[me][j].count = OutCount(cmd, IsLast)]_vars

\* Each user's numbered pipes keep the promise: whoever else is served, and
\* whatever a user's own lines do with user pipes, the program that opens a line
\* reads exactly what was piped to that line.
Served == IF pc = "run" \/ cmdList # <<>> THEN servingID ELSE 0

Promise == INSTANCE UsersPromise
             WITH due <- [u \in Users |-> OnItsWay(pipes[u])], who <- Served

KeepsPromise == Promise!Spec

\* A user pipe is closed only by a program of its target that reads it, or at
\* the logout of one of its ends.
ClosedByItsEnds ==
  [][\A p \in ToSet(userPipes) :
       \/ p \in ToSet(userPipes')
       \/ pc = "run" /\ cmd.kind = "exec" /\ me = p.targetID /\ cmd.receive = p.sourceID
       \/ pc = "sweep" /\ About(p)]_vars

\* "If you disconnect from the server, all user pipe about you (send or
\* receive) should be closed" (NP_Project2_Spec.pdf, section 5, item 9).
UserPipesOnline ==
  pc # "sweep" =>
    \A j \in DOMAIN userPipes : {userPipes[j].sourceID, userPipes[j].targetID} \subseteq Online

\* What a user types is read, however busy the others keep the server.
LineServed == \A u \in Users : inbox[u] # <<>> ~> inbox[u] = <<>>

\* A user who is owed a prompt gets it, unless a line is typed before it comes.
PromptPaid ==
  \A u \in Users :
    hasUser[u] /\ done[u] ~> credit[u] = 1 \/ inbox[u] # <<>> \/ ~hasUser[u]

\* Connections do not wait for ever while there is a free slot: time and again
\* nobody waits, or the house is full.
Admission == []<>(waiting = 0 \/ Free = {})
=============================================================================
