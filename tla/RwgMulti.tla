------------------------------ MODULE RwgMulti ------------------------------
(***************************************************************************)
(* The multi-process remote working ground: the master (np_multi_proc.cpp) *)
(* and what its sessions (np_shell.cpp) share, a table of users and one    *)
(* message in shared memory, and the user pipes, which are files.  There   *)
(* is no lock: a step is what a process does between two accesses to what  *)
(* others may change.  A message is written in one step; the text being    *)
(* copied while it is read is left out, and so are lines that end in a     *)
(* number, which RwgShell has.  A connection's number is the pid of its    *)
(* session; 0 is no pid.                                                   *)
(***************************************************************************)
EXTENDS Naturals, FiniteSets, FiniteSetsExt

CONSTANTS N,            \* slots of the table (30)
          M,            \* connections, a bound of the model
          MaxLines,     \* lines typed in all sessions, a bound of the model
          MaxOverlaps,  \* overlaps the clients bring about, a bound of the model
          MaxHasty,     \* lines and connections in whose time they do, a bound of the model
          Names, NoName,
          Lines,        \* the lines a user may type
          NoLine, NoFile

Users == 1 .. N         \* the slots every loop goes over
Slots == 1 .. N + 1     \* and the memory behind the last
Pids == 1 .. M

Line == [kind : {"quiet", "exec", "tell", "yell", "name", "exit"},
         to : 0 .. N + 1, newName : Names \cup {NoName},
         receive : 0 .. N + 1, send : 0 .. N + 1]
File == [by : Pids, for : SUBSET Pids, whole : BOOLEAN]

ASSUME RwgMultiAssumption ==
  /\ N \in Nat \ {0} /\ M \in Nat \ {0} /\ MaxLines \in Nat
  /\ MaxOverlaps \in Nat /\ MaxHasty \in Nat
  /\ Lines \subseteq Line /\ NoLine \notin Line
  /\ \A line \in Lines :
       /\ line.kind = "tell" => line.to # 0
       /\ line.kind = "exit" => line.receive = 0 /\ line.send = 0
  /\ NoFile \notin File /\ NoName \notin Names

VARIABLES
  hasUser, name, pid,       \* the table
  msg,                      \* the message: who wrote it, and for whom
  file, renamed,            \* the user pipes a_b, and those renamed to !a_b
  mpc, ID, accepted,        \* the master's loop
  sigchld, reaped, told,    \* its SIGCHLD handler: the slot it clears
  pc, slot, line,           \* the sessions
  at, aim, next,            \* how far a broadcast has come, the one slot it is for
                            \* (0: all), and what follows it
  userPipeIn,               \* the user pipe a session reads
  pending,                  \* sessions with a SIGUSR1 to handle
  typed,                    \* how many lines have been typed
  \* for the properties only
  seen,                     \* who has printed the message
  audience,                 \* whom of the table it was for when it was written
  late,                     \* who had yet to print another when it was written
  early,                    \* sessions that ended before the master had entered them
  overlaps                  \* how often clients began something before others were done

table == <<hasUser, name, pid>>
board == <<msg, seen, audience, late>>
files == <<file, renamed>>
loop == <<mpc, ID, accepted>>
handler == <<reaped, told>>
cast == <<at, aim, next>>
rest == <<typed, early, overlaps>>
vars == <<table, board, files, loop, sigchld, handler, pc, slot, line, cast,
          userPipeIn, pending, rest>>

State == {"none", "fork", "login", "prompt", "check", "receive", "rename", "send",
          "cast", "run", "named", "wait", "leave", "remove", "zombie", "gone"}

TypeOK ==
  /\ hasUser \in [Slots -> BOOLEAN]
  /\ name \in [Slots -> Names \cup {NoName}]
  /\ pid \in [Slots -> 0 .. M]
  /\ msg \in [by : 0 .. M, for : SUBSET Pids]
  /\ file \in [Slots \X Slots -> File \cup {NoFile}]
  /\ renamed \in [Slots \X Slots -> File \cup {NoFile}]
  /\ mpc \in {"accept", "fork", "user", "pid", "down"}
  /\ ID \in Slots
  /\ accepted \in 0 .. M /\ (mpc \in {"fork", "user", "pid"} => accepted # 0)
  /\ sigchld \in BOOLEAN
  /\ reaped \in 0 .. N /\ told \in 0 .. N
  /\ pc \in [Pids -> State]
  /\ slot \in [Pids -> Slots]
  /\ line \in [Pids -> Lines \cup {NoLine}]
  /\ \A p \in Pids :
       pc[p] \in {"check", "receive", "rename", "send", "run", "named", "wait"}
         => line[p] # NoLine
  /\ at \in [Pids -> Users] /\ aim \in [Pids -> 0 .. N + 1]
  /\ next \in [Pids -> State]
  /\ userPipeIn \in [Pids -> File \cup {NoFile}]
  /\ pending \in SUBSET Pids
  /\ typed \in Nat
  /\ seen \in SUBSET Pids /\ audience \in SUBSET Pids
  /\ late \in SUBSET Pids /\ early \in SUBSET Pids
  /\ overlaps \in Nat

Init ==
  /\ hasUser = [u \in Slots |-> FALSE]
  /\ name = [u \in Slots |-> NoName]
  /\ pid = [u \in Slots |-> 0]
  /\ msg = [by |-> 0, for |-> {}]
  /\ file = [f \in Slots \X Slots |-> NoFile]
  /\ renamed = [f \in Slots \X Slots |-> NoFile]
  /\ mpc = "accept" /\ ID = 1 /\ accepted = 0
  /\ sigchld = FALSE /\ reaped = 0 /\ told = 0
  /\ pc = [p \in Pids |-> "none"]
  /\ slot = [p \in Pids |-> 1]
  /\ line = [p \in Pids |-> NoLine]
  /\ at = [p \in Pids |-> 1] /\ aim = [p \in Pids |-> 0]
  /\ next = [p \in Pids |-> "prompt"]
  /\ userPipeIn = [p \in Pids |-> NoFile]
  /\ pending = {} /\ typed = 0
  /\ seen = {} /\ audience = {} /\ late = {} /\ early = {} /\ overlaps = 0

Online == {u \in Users : hasUser[u]}
Live == {p \in Pids : pc[p] \notin {"none", "zombie", "gone"}}

\* Whoever has taken slot u last, entered or not, there or not.
Holder(u) ==
  {p \in Pids : /\ pc[p] # "none" /\ slot[p] = u
                /\ \A q \in Pids : pc[q] # "none" /\ slot[q] = u => q <= p}

\* The sessions that are not doing anything; what they have ended with is the
\* reaper's.
Resting(p) == pc[p] \in {"none", "prompt", "zombie", "gone"}

\* Nothing is under way.
Idle == mpc = "accept" /\ reaped = 0 /\ ~sigchld /\ \A p \in Pids : Resting(p)

-----------------------------------------------------------------------------
(* The message and the signal. *)

\* The message is written.
Post(by, for) ==
  /\ msg' = [by |-> by, for |-> for]
  /\ seen' = {}
  /\ audience' = {pid[u] : u \in Online} \cap for
  /\ late' = pending \ for

\* kill(target, SIGUSR1) by process "self": a session that has not installed
\* its handler dies of it, and so does the master, who never installs one; 0
\* is everybody.  A process that signals itself handles that before it goes on.
Hit(target) == IF target = 0 THEN Live ELSE {target} \cap Live

Signal(target, self, pcs) ==
  LET deaf == {p \in Hit(target) : pc[p] = "fork"}
  IN  /\ pc' = [p \in Pids |-> IF p \in deaf THEN "zombie" ELSE pcs[p]]
      /\ pending' = pending \cup ((Hit(target) \ deaf) \ {self})
      /\ seen' = seen \cup (Hit(target) \cap {self})
      /\ sigchld' = (sigchld \/ deaf # {})
      /\ mpc' = IF target = 0 THEN "down" ELSE mpc
      /\ UNCHANGED <<msg, audience, late>>

\* The handler prints what the message is by now.
Handle(p) ==
  /\ p \in pending
  /\ pending' = pending \ {p}
  /\ seen' = seen \cup {p}
  /\ UNCHANGED <<table, msg, audience, late, files, loop, sigchld, handler, pc, slot,
                 line, cast, userPipeIn, rest>>

Late == 2
First == 1

\* broadcast: the message is written and the loop over the slots begins, or the
\* one slot "to" is signalled, then the session goes on at "then".
Broadcast(p, for, to, then) ==
  /\ Post(p, for)
  /\ pc' = [pc EXCEPT ![p] = "cast"]
  /\ at' = [at EXCEPT ![p] = First]
  /\ aim' = [aim EXCEPT ![p] = to]
  /\ next' = [next EXCEPT ![p] = then]

Yell(p, then) == Broadcast(p, Pids, 0, then)

\* One turn of the loop; a single slot is signalled whoever is there by now.
Cast(p) ==
  /\ pc[p] = "cast"
  /\ LET u == IF aim[p] = 0 THEN at[p] ELSE aim[p]
         over == aim[p] # 0 \/ at[p] = N
         pcs == [pc EXCEPT ![p] = IF over THEN next[p] ELSE "cast"]
     IN  /\ at' = [at EXCEPT ![p] = IF over THEN 1 ELSE @ + 1]
         /\ aim' = [aim EXCEPT ![p] = IF over THEN 0 ELSE @]
         /\ next' = [next EXCEPT ![p] = IF over THEN "prompt" ELSE @]
         /\ IF aim[p] # 0 \/ hasUser[u]
            THEN Signal(pid[u], p, pcs)
            ELSE pc' = pcs /\ UNCHANGED <<pending, board, sigchld, mpc>>
  /\ UNCHANGED <<table, files, ID, accepted, handler, slot, line,
                 userPipeIn, rest>>

-----------------------------------------------------------------------------
(* The master. *)

\* Nothing that another client has begun is under way: no other connection is
\* being entered, no other session is doing anything or has just ended.  That
\* the master is entering the client's own session does not count.
OthersDone(p) ==
  /\ mpc \in {"accept", "down"} \/ accepted = p
  /\ mpc = "down" \/ (reaped = 0 /\ ~sigchld)
  /\ \A q \in Pids \ {p} : Resting(q)

\* The client of session p begins something, with others done or not.  How long
\* clients do so while others are busy, or have a message to print, is a bound
\* of the model.
Hasty == typed < MaxHasty /\ accepted <= MaxHasty
Begin(p) ==
  /\ OthersDone(p) \/ overlaps < MaxOverlaps
  /\ (OthersDone(p) /\ pending = {}) \/ Hasty
  /\ overlaps' = IF OthersDone(p) THEN overlaps ELSE overlaps + 1

Free == {u \in Users : ~hasUser[u]}

\* The first free slot, or the memory behind the table.
OneTooFar == IF Free = {} THEN N + 2 ELSE Min(Free)
NewID == IF Free = {} THEN N + 1 ELSE Min(Free)

Accept ==
  /\ mpc = "accept" /\ reaped = 0 /\ accepted < M
  /\ accepted' = accepted + 1
  /\ ID' = NewID
  /\ mpc' = "fork"
  /\ Begin(accepted + 1)
  /\ UNCHANGED <<table, board, files, sigchld, handler, pc, slot, line, cast,
                 userPipeIn, pending, typed, early>>

Fork ==
  /\ mpc = "fork" /\ reaped = 0
  /\ mpc' = "user"
  /\ pc' = [pc EXCEPT ![accepted] = "fork"]
  /\ slot' = [slot EXCEPT ![accepted] = ID]
  /\ UNCHANGED <<table, board, files, ID, accepted, sigchld, handler, line, cast,
                 userPipeIn, pending, rest>>

EnterUser ==
  /\ mpc = "user" /\ reaped = 0
  /\ name' = [name EXCEPT ![ID] = NoName]
  /\ hasUser' = [hasUser EXCEPT ![ID] = TRUE]
  /\ mpc' = "pid"
  /\ UNCHANGED <<pid, board, files, ID, accepted, sigchld, handler, pc, slot, line,
                 cast, userPipeIn, pending, rest>>

Stale(p) == IF pid[ID] # 0 THEN pid[ID] ELSE p
Known(p) == p
EnterPid ==
  /\ mpc = "pid" /\ reaped = 0
  /\ pid' = [pid EXCEPT ![ID] = Known(accepted)]
  /\ mpc' = "accept"
  /\ UNCHANGED <<hasUser, name, board, files, ID, accepted, sigchld, handler, pc,
                 slot, line, cast, userPipeIn, pending, rest>>

\* reap, which interrupts all of this: it waits for all who have ended, and
\* clears the first slot whose process is no more, and only the first.
NeverCleared == {}
Dead == {u \in Online : pid[u] # 0 /\ pc[pid[u]] \in {"zombie", "gone"}}

Reap ==
  /\ mpc # "down" /\ sigchld /\ reaped = 0
  /\ sigchld' = FALSE
  /\ pc' = [p \in Pids |-> IF pc[p] = "zombie" THEN "gone" ELSE pc[p]]
  /\ IF Dead = {}
     THEN UNCHANGED <<hasUser, board, handler>>
     ELSE /\ hasUser' = [hasUser EXCEPT ![Min(Dead)] = FALSE]
          /\ reaped' = Min(Dead) /\ told' = 0
          /\ msg' = [by |-> 0, for |-> Pids]
          /\ seen' = {}
          /\ audience' = {pid[u] : u \in Online \ {Min(Dead)}} \ {0}
          /\ late' = {}
  /\ UNCHANGED <<name, pid, files, loop, slot, line, cast, userPipeIn, pending, rest>>

ReapTell ==
  /\ mpc # "down" /\ reaped # 0 /\ told < N
  /\ told' = told + 1
  /\ IF hasUser[told + 1]
     THEN Signal(pid[told + 1], 0, pc)
     ELSE UNCHANGED <<pc, pending, board, sigchld, mpc>>
  /\ UNCHANGED <<table, files, ID, accepted, reaped, slot, line, cast, userPipeIn, rest>>

\* The files of user u, in both directions, as far as the loop over the table
\* goes.
Of(u) == ({u} \X Users) \cup (Users \X {u})
Remove(u) ==
  file' = [f \in Slots \X Slots |-> IF f \in Of(u) THEN NoFile ELSE file[f]]

ReapRemove ==
  /\ mpc # "down" /\ reaped # 0 /\ told = N
  /\ Remove(reaped)
  /\ reaped' = 0 /\ told' = 0
  /\ UNCHANGED <<table, board, renamed, loop, sigchld, pc, slot, line, cast,
                 userPipeIn, pending, rest>>

-----------------------------------------------------------------------------
(* A session. *)

GoTo(p, place) == pc' = [pc EXCEPT ![p] = place]

\* Back to the prompt: nothing is kept of the line.
EndLine(p) ==
  /\ GoTo(p, "prompt")
  /\ line' = [line EXCEPT ![p] = NoLine]
  /\ userPipeIn' = [userPipeIn EXCEPT ![p] = NoFile]

Install(p) ==
  /\ pc[p] = "fork"
  /\ GoTo(p, "login")
  /\ UNCHANGED <<table, board, files, loop, sigchld, handler, slot, line, cast,
                 userPipeIn, pending, rest>>

\* The usleep before it is to give the master the time to enter the user.
Login(p) ==
  /\ pc[p] = "login"
  /\ Yell(p, "prompt")
  /\ UNCHANGED <<table, files, loop, sigchld, handler, slot, line, userPipeIn,
                 pending, rest>>

\* A line is read.  Without a user pipe it comes to its first command at once.
Piped(l) == l.receive # 0 \/ l.send # 0

ReadLine(p) ==
  /\ pc[p] = "prompt" /\ typed + overlaps < MaxLines
  /\ typed' = typed + 1
  /\ \E l \in Lines :
       /\ line' = [line EXCEPT ![p] = l]
       /\ GoTo(p, IF Piped(l) THEN "check" ELSE "run")
  /\ Begin(p)
  /\ UNCHANGED <<table, board, files, loop, sigchld, handler, slot, cast, userPipeIn,
                 pending, early>>

\* The session ends, and perhaps before the master has entered it.
Entered(p) == mpc \notin {"user", "pid"} \/ accepted # p
Die(p) ==
  /\ GoTo(p, "zombie")
  /\ sigchld' = TRUE
  /\ pending' = pending \ {p}
  /\ early' = IF Entered(p) THEN early ELSE early \cup {p}

\* getline fails, and the slot is left to the master.
HangUp(p) ==
  /\ pc[p] = "prompt"
  /\ Die(p)
  /\ Begin(p)
  /\ UNCHANGED <<table, board, files, loop, handler, slot, line, cast, userPipeIn, typed>>

\* Both users of the line's user pipes must be there.
Absent(u) == u # 0 /\ ~hasUser[u]

Check(p) ==
  /\ pc[p] = "check"
  /\ IF Absent(line[p].receive) \/ Absent(line[p].send)
     THEN EndLine(p)
     ELSE /\ GoTo(p, IF line[p].receive # 0 THEN "receive" ELSE "send")
          /\ UNCHANGED <<line, userPipeIn>>
  /\ UNCHANGED <<table, board, files, loop, sigchld, handler, slot, cast, pending, rest>>

SwappedEnds(p) == <<slot[p], line[p].receive>>
FromPipe(p) == <<line[p].receive, slot[p]>>
ToPipe(p) == <<slot[p], line[p].send>>

Receive(p) ==
  /\ pc[p] = "receive"
  /\ IF file[FromPipe(p)] = NoFile
     THEN EndLine(p)
     ELSE GoTo(p, "rename") /\ UNCHANGED <<line, userPipeIn>>
  /\ UNCHANGED <<table, board, files, loop, sigchld, handler, slot, cast, pending, rest>>

\* rename, open and the message.  If the file is gone by now, the rename fails
\* and what is opened is what an abandoned line has left there.
AfterReceive(p) == IF line[p].send # 0 THEN "send" ELSE "run"

Rename(p) ==
  /\ pc[p] = "rename"
  /\ LET f == FromPipe(p)
         opened == IF file[f] = NoFile THEN renamed[f] ELSE file[f]
     IN  /\ file' = [file EXCEPT ![f] = NoFile]
         /\ renamed' = [renamed EXCEPT ![f] = opened]
         /\ userPipeIn' = [userPipeIn EXCEPT ![p] = opened]
  /\ Yell(p, AfterReceive(p))
  /\ UNCHANGED <<table, loop, sigchld, handler, slot, line, pending, rest>>

\* The file is created, empty, and only a program will write into it; a line that
\* may not send is abandoned, and with it what it has received.
Send(p) ==
  /\ pc[p] = "send"
  /\ IF file[ToPipe(p)] # NoFile
     THEN EndLine(p) /\ UNCHANGED <<file, board, cast>>
     ELSE /\ file' = [file EXCEPT ![ToPipe(p)] =
                        [by |-> p, for |-> Holder(line[p].send),
                         whole |-> line[p].kind # "exec"]]
          /\ Yell(p, "run")
          /\ UNCHANGED <<line, userPipeIn>>
  /\ UNCHANGED <<table, renamed, loop, sigchld, handler, slot, pending, rest>>

-----------------------------------------------------------------------------
(* The line's command. *)

Running(p, kind) == pc[p] = "run" /\ line[p].kind = kind

\* What a builtin leaves behind: the user pipes it has opened are not used.
Drop(p) ==
  /\ line' = [line EXCEPT ![p] = NoLine]
  /\ userPipeIn' = [userPipeIn EXCEPT ![p] = NoFile]

\* who, printenv and setenv change nothing others see.
Quiet(p) ==
  /\ Running(p, "quiet")
  /\ EndLine(p)
  /\ UNCHANGED <<table, board, files, loop, sigchld, handler, slot, cast, pending, rest>>

YellLine(p) ==
  /\ Running(p, "yell")
  /\ Yell(p, "prompt") /\ Drop(p)
  /\ UNCHANGED <<table, files, loop, sigchld, handler, slot, pending, rest>>

NoAim(u) == 0
Aim(u) == u

Tell(p) ==
  /\ Running(p, "tell")
  /\ LET u == line[p].to
     IN  IF hasUser[u]
         THEN Broadcast(p, Holder(u), Aim(u), "prompt") /\ Drop(p)
         ELSE EndLine(p) /\ UNCHANGED <<board, cast>>
  /\ UNCHANGED <<table, files, loop, sigchld, handler, slot, pending, rest>>

\* The names are compared first; the own one is written later.
TakenBelow(p) == \E u \in Online : u < slot[p] /\ name[u] = line[p].newName
Taken(p) == \E u \in Online \ {slot[p]} : name[u] = line[p].newName

Name(p) ==
  /\ Running(p, "name")
  /\ IF Taken(p)
     THEN Broadcast(p, {p}, slot[p], "prompt") /\ Drop(p)
     ELSE GoTo(p, "named") /\ UNCHANGED <<board, cast, line, userPipeIn>>
  /\ UNCHANGED <<table, files, loop, sigchld, handler, slot, pending, rest>>

Named(p) ==
  /\ pc[p] = "named"
  /\ name' = [name EXCEPT ![slot[p]] = line[p].newName]
  /\ Yell(p, "prompt") /\ Drop(p)
  /\ UNCHANGED <<hasUser, pid, files, loop, sigchld, handler, slot, pending, rest>>

\* exit: all are told, the slot is given up, the user pipes are removed.
Exit(p) ==
  /\ Running(p, "exit")
  /\ Yell(p, "leave") /\ Drop(p)
  /\ UNCHANGED <<table, files, loop, sigchld, handler, slot, pending, rest>>

Leave(p) ==
  /\ pc[p] = "leave"
  /\ hasUser' = [hasUser EXCEPT ![slot[p]] = FALSE]
  /\ early' = IF Entered(p) THEN early ELSE early \cup {p}
  /\ GoTo(p, "remove")
  /\ UNCHANGED <<name, pid, board, files, loop, sigchld, handler, slot, line, cast,
                 userPipeIn, pending, typed, overlaps>>

RemovePipes(p) ==
  /\ pc[p] = "remove"
  /\ Remove(slot[p])
  /\ Die(p)
  /\ UNCHANGED <<table, board, renamed, loop, handler, slot, line, cast, userPipeIn,
                 typed, overlaps>>

\* The programs of the line run, and the session waits for them.
NoWait(p) == EndLine(p)
Wait(p) == GoTo(p, "wait") /\ UNCHANGED <<line, userPipeIn>>

Exec(p) ==
  /\ Running(p, "exec")
  /\ Wait(p)
  /\ UNCHANGED <<table, board, files, loop, sigchld, handler, slot, cast, pending, rest>>

\* They have ended: what they sent is whole, wherever its file is by now, and
\* the file they read is removed.
Whole(p, f) == IF f # NoFile /\ f.by = p THEN [f EXCEPT !.whole = TRUE] ELSE f

Finish(p) ==
  /\ pc[p] = "wait"
  /\ file' = [f \in Slots \X Slots |-> Whole(p, file[f])]
  /\ renamed' = [f \in Slots \X Slots |->
                   IF f = FromPipe(p) /\ userPipeIn[p] # NoFile
                   THEN NoFile ELSE Whole(p, renamed[f])]
  /\ userPipeIn' = [q \in Pids |-> IF q = p THEN NoFile ELSE Whole(p, userPipeIn[q])]
  /\ line' = [line EXCEPT ![p] = NoLine]
  /\ GoTo(p, "prompt")
  /\ UNCHANGED <<table, board, loop, sigchld, handler, slot, cast, pending, rest>>

-----------------------------------------------------------------------------
Master == Fork \/ EnterUser \/ EnterPid \/ Reap \/ ReapTell \/ ReapRemove

Session(p) ==
  \/ Handle(p) \/ Cast(p) \/ Install(p) \/ Login(p)
  \/ Check(p) \/ Receive(p) \/ Rename(p) \/ Send(p)
  \/ Quiet(p) \/ YellLine(p) \/ Tell(p) \/ Name(p) \/ Named(p)
  \/ Exit(p) \/ Leave(p) \/ RemovePipes(p) \/ Exec(p) \/ Finish(p)

Client == Accept \/ \E p \in Pids : ReadLine(p) \/ HangUp(p)

Next == Master \/ Client \/ \E p \in Pids : Session(p)

\* The system runs every process that can run; users owe nothing.
Spec == Init /\ [][Next]_vars /\ WF_vars(Master) /\ \A p \in Pids : WF_vars(Session(p))

-----------------------------------------------------------------------------
(* Properties *)

\* A session is there once it is entered, until its slot is given up or to another.
Here ==
  {p \in Live : slot[p] \in Online /\ pid[slot[p]] = p /\ ~(mpc = "pid" /\ ID = slot[p])}
\* What the assignment promises of the clients: "The maximum number of online
\* users is 30", and "To avoid race conditions, different clients don't execute
\* commands at the same time" (NP_Project2_Spec.pdf, section 5, items 1 and 7).
\* A client connects, types or hangs up while nothing of another client's is
\* under way.  The master's race with the child it has just forked, and a
\* session's with its own messages, need no second client and stay inside; a
\* session that signals before its pid is entered signals the whole group, the
\* master included, and most of what follows is said of a master that is there.
calm == overlaps = 0 /\ \A p \in Pids : slot[p] \in Users

\* The slots of which nobody is left.
Abandoned == {u \in Online : pid[u] \notin Live}

Over == IF msg.by = 0 THEN reaped = 0 ELSE pc[msg.by] # "cast"

\* No message is missed by being announced too early, whatever overlaps: when the
\* signals for the message in the slot have been sent, whoever it was for and is
\* still there has printed it or is about to (broadcast, np_shell.cpp:33-43, and
\* reap, np_multi_proc.cpp:46-50).  A second message may take its place, which
\* then is this one.
LatestSeen ==
  Over /\ mpc # "down" => \A p \in audience \cap Here : p \in seen \cup pending

\* As long as the promises hold, only the addressee of a tell, or of a refused
\* name, prints it (np_shell.cpp:59-72, 88-91), unless an earlier message was
\* still to be printed when it was written: the announcement of a user pipe
\* that the same line is taken to have (np_shell.cpp:236-243, 298-315), or that
\* of a login.
PrivateMessage == calm /\ mpc # "down" => seen \subseteq msg.for \cup late

\* Nor do two users who are online have the same name (np_shell.cpp:82-98).
NamesDistinct ==
  calm => \A u, v \in Online : u # v /\ name[u] = name[v] => name[u] = NoName

\* And when all is over, the table tells who is there: each session has its
\* slot to itself, and a slot whose session has ended, by exit or otherwise, is
\* free (np_multi_proc.cpp:122-125, 152-161, 39-43, np_shell.cpp:180), but for
\* one slot for each session that had ended before the master entered it.
TableTrue ==
  calm /\ Idle =>
    /\ \A p \in Live : slot[p] \in Users => slot[p] \in Online /\ pid[slot[p]] = p
    /\ Cardinality(Abandoned) <= Cardinality(early)

\* A program then reads all that was piped to its user, and from the user who
\* is there now (np_shell.cpp:298-331, 478-489): user pipes are files, and only
\* waiting for the writer makes them whole.
Reads(p) == pc[p] \in {"run", "wait"} /\ line[p].kind = "exec" /\ userPipeIn[p] # NoFile
PipeWhole == calm => \A p \in Pids : Reads(p) => userPipeIn[p].whole

\* And the user pipes of those who have left are gone (np_shell.cpp:182-193,
\* np_multi_proc.cpp:51-62).
OwnPipes ==
  calm => \A p \in Pids : Reads(p) =>
            /\ p \in userPipeIn[p].for
            /\ userPipeIn[p].by \in Holder(line[p].receive)

\* The master comes to give up the slot of every session that has ended
\* without exit, as long as nothing overlaps (np_multi_proc.cpp:34-67), again
\* but for those it entered too late.
SlotFreed ==
  []<>(calm /\ mpc # "down" => Cardinality(Abandoned) <= Cardinality(early))
=============================================================================
