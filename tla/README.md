# Models and proofs of the network-programming projects

TLA+ modules, TLC configurations and TLAPS proofs for the programs of this
repository: two generations of a shell, three servers that put it on the
network, and two projects that build on those. The repository states its
requirements in the PDF files under `src/Project N/attached files/`; they are
quoted below as "P1 spec", "P2 spec".

## 1. Inventory

| part | source | state | operations |
|---|---|---|---|
| npshell | `Project 1/npshell.cpp` | `pipeList`, `cmdList`, the environment | read and parse a line; per command: open the output pipe (`Pipee`), find the input pipe, run a builtin or fork; end of line |
| np_simple | `Project 2/np_simple.cpp` | the same, one process per connection | the same, behind an accept loop |
| np_single_proc | `Project 2/np_single_proc.cpp` | `users[30]` (name, settings, pipes, owed prompt), `userPipes`, the process environment, `readfds`, `byebye` | select, accept, visit each slot; builtins `who tell yell name setenv printenv exit`; programs with numbered, ordinary and user pipes; logout |
| np_multi_proc, multi.h | `Project 2/` | `users[30]` and one message slot in shared memory, files `user_pipe/a_b` | accept, fork, enter the user; reap the dead |
| np_shell | `Project 2/np_shell.cpp` | `userPipes` (a session's numbered pipes), and everything shared above | a session of the multi-process server: shell, messages by SIGUSR1, user pipes as files |
| http_server | `Project 3/http_server.cpp` | one request per connection | accept, read, fork and exec the CGI program, wait |
| console.cgi | `Project 3/console.cpp`, `Project 4/console.cpp` | five hosts with a script each | connect (Project 4: and the SOCKS request), read up to a prompt, send the next line |
| socks_server | `Project 4/socks_server.cpp` | the request, two sockets per session | accept and fork; decide; CONNECT or BIND; relay both ways |

`panel_socks.cgi` prints a form; makefiles, PDFs, archives and Homework 0
hold no program logic of their own.

How the parts interact: the shells fork programs and talk to them through
pipes; the users of a server share its user table, receive each other's
messages and pipe to each other. In `np_single_proc` all of this happens in
one process whose select loop takes the users in turn. In `np_multi_proc`
it happens in shared memory, by signals and files. `http_server` starts
`console.cgi`, which is a client of any of the Project 2 servers, directly or
(as intended) through `socks_server`.

What is hard, and so what the properties are about:

* *Pipes found by a number.* A pipe is recognised only by the count of lines
  until it is due, which every line changes. The output must reach the command
  it was piped to: nothing lost, nothing delivered to a stranger, no two pipes
  due at once. (Each shell: `DueDistinct`/`OneDuePerLine`, `OutputKept`,
  `NothingStale`, `KeepsPromise`.)
* *Vectors erased from while they are searched*: user pipes after receives,
  failed receives, self pipes and logouts (`NoTwins`, `ClosedByItsEnds`,
  `UserPipesOnline`).
* *State of one user in a process that serves all*: environment, names, slots
  that are taken over, prompts (`OwnEnvironment`, `NamesDistinct`, `FreshSlot`,
  `OnePrompt`).
* *Readiness used late*: select's answer is used slots and whole lines later
  (`ReadNeverBlocks`).
* *Progress*: one loop for all (`LineServed`, `PromptPaid`, `Admission`), and a
  shell's end with its input (`TerminatesAtEOF`).
* *Shared memory without locks, one message slot, signals that coalesce, pipes
  that are files* (the multi-process server): who prints a message
  (`LatestSeen`, `PrivateMessage`), names (`NamesDistinct`), the table against
  the sessions there are (`TableTrue`, `SlotFreed`), user pipes read too early or
  by the wrong user (`PipeWhole`, `OwnPipes`).
* *Two directions of one connection, each with one buffer and an end of its own*
  (`socks_server`): `KeepsPromise`, `Delivered`, and whom one gets connected to,
  `AsAsked`.
* *A prompt looked for in reads that are cut anywhere* (the consoles): `InStep`;
  and *a server that waits for the program of one connection* (`http_server`):
  `OwnScript`, `Served`.

`PROJECT.json` lists the hazards one by one, each at its line.

## 2. Modules

| module | models | extends |
|---|---|---|
| `PipeTable` | the table of open pipes and the operators on it, common to all shells | |
| `ShellLine` | a typed line of the shell and what the parser makes of it | `PipeTable` |
| `Npshell` | the shell of Project 1 | `ShellLine` |
| `PipePromise` | what the shell promises about pipes, without a table (the abstract specification) | `ShellLine` |
| `RwgShell` | the shell of a session of the multi-process server | `ShellLine` |
| `RwgLine` | a line of the remote working ground: `<n`, `>n`, arguments, lines that were read as one | `PipeTable` |
| `UsersPromise` | what a server of many users promises about their numbered pipes (the abstract specification) | `RwgLine` |
| `RwgSingle` | the single-process server with its users | `RwgLine`, instance of `UsersPromise` |
| `RwgMulti` | the multi-process server: the master, its sessions, and what they share | |
| `RelayPromise` | what a SOCKS server promises for one direction (the abstract specification) | |
| `Socks` | a session of the SOCKS server: request, firewall, CONNECT, BIND, relay | instance of `RelayPromise` |
| `Console` | `console.cgi` of Projects 3 and 4, and the shells it talks to | |
| `HttpServer` | the HTTP server, composed with a console | `Console` |
| `MCNpshell`, `MCRwgShell`, `MCRwgSingle`, `MCRwgMulti`, `MCSocks`, `MCHttpServer` | the lines, requests and values of the runs | |
| `PipeTableTheorems`, `MinTheorems` | what a search and a least element give | |
| `NpshellTheorems`, `RwgShellTheorems`, `RwgSingleTheorems`, `RwgMultiTheorems`, `SocksTheorems`, `HttpServerTheorems` | theorems and proofs | |

**Common to all.** An entry of the pipe table is a record of its `count` and of
`from`, the set of outputs written to it; its descriptors are its position. A
`Tag` is the output of one program of a line. A command is a record of its
kind (which branch of `Execommand` it takes), the mark after it, the number
after the mark, and its tag. Parsing is kept where it decides something: which
segments become commands, the number after a mark, blanks that become a
command without a word. Text, PATH lookup, redirection to files and stderr are
left out.

**Npshell.** `pc` follows the loop of `main`: `Prompt`, then `ReadBlank` or
`ReadLine` (the `getline` and the test after it, and the parser), then for each
command one action that is the whole turn `Pipee` + search for the input pipe +
the branch of `Execommand`: `RunBuiltin`, `RunExit`, `Abort` (the uncaught
exception of `tokens.at(0)`, or of `tokens.at(1)` and `tokens.at(2)` for a
`printenv` or `setenv` without arguments), `Fork` with the parent's closing of the input
pipe; then `EndLine` (count down, clear `cmdList`). One action per turn is
sound because nothing else touches the shell's state in between.
`CloseStdin` is the end of the input. `received` records what the last program
started would read.

How they fit together. A session of the multi-process server is `RwgShell`
for its numbered pipes and `RwgMulti` for all it shares with others; both begin
at the same `getline`. `HttpServer` extends `Console`: the handler of a request
starts the console and is held up by it. The shells a console talks to are
external in `Console`, cut down to what a client can tell of the programs of
Project 2: a greeting, a prompt after each line, an end after `exit`.

**RwgShell.** `ReadLine` is everything between `getline` and the execution:
parse, count down, open the line's numbered pipe, take out the due one. Only a
line without a character is `IsEmpty`; the parser keeps a first command in any
case, so a lone `|2` has one without a word, counts down, and ends the shell when
it is run (`Abort`), as does `printenv` without a variable.
`Fork` is one iteration of the exec loop; `prePipeRd` is what the code keeps as
a descriptor. What the session shares with others is left out here.

**RwgSingle.** `pc` and `servingID` follow the loop of `main`: `Select`
(one call; what it reports), `NewUser`, then the slots in turn: `PassFree`,
`NoInput`, `ReadBlank`, `ReadLine` are the exits and the main path of
`np_shell` up to the parser, each including `Init_shell` and the prompt that
is owed; `PrintenvOrWho, Setenv, Tell, Yell, Name, Exit, Fork, Die` are one turn
of its command loop (`Pipee`, the input pipe, `handleUserPipe`, the branch of
`Execommand`); `EndLine` and `Logout` are its end. `Logout` resets the slot;
the last loop of `Init_userData`, over the user pipes, is one `Sweep` per
iteration, because how it steps is what matters about it. Clients `Connect`,
`Type` and `Leave` at any moment. A write to a user who has closed the
connection may end the server (SIGPIPE is not handled): `After` adds `"dead"`
to the next place. The environment is one variable, `Unset` or one of `Values`;
`credit` is a history variable, prompts sent less reads made, and `received` another:
what the last program of the line would read from its input pipe.

The abrupt endings are there because the code has them: `Die` (an argument is
missing or out of range, and the exception ends the server) and `Abort`.

**RwgMulti.** A step is what one process does between two accesses to what
others may change; the processes interleave freely. Process numbers are the
connections' (`Pids`), 0 is what a slot has before the master writes it. The
master: `Accept` (and the search for a slot), `Fork`, `EnterUser` (name and
`hasUser`), `EnterPid`. Its SIGCHLD handler interrupts all of these: `Reap`
(wait, the first dead user, the message), `ReapTell` (a signal per slot),
`ReapRemove` (the files). A session: `Install` (its handler), `Login`,
`ReadLine`, `Check`, `Receive`, `Rename`, `Send` for the user pipes, then one of
`Quiet YellLine Tell Name Named Exit Leave RemovePipes Exec Finish`. `Cast` is one
turn of the loop of `broadcast`, and `Handle` the SIGUSR1 handler, which prints
what the message is by then; the pending signals are a set, since they
coalesce. A signal that comes before the handler is installed ends the session;
`kill(0, ...)` reaches the whole group and ends the master (`mpc = "down"`). The
search for a slot may end one past the table: the memory there is slot `N + 1`,
which sessions then share. A line whose text has `<n` in it is taken for a user
pipe also when it is a `tell` (np_shell.cpp:238-243; the scenario of P2 spec 3.2
tells "You can use 'cat <2' to show it!"). Written in one step although the code
takes several: copying a message, a user's name and `hasUser`, and
rename + open + message in `Rename`. History variables: `seen`, who has printed the
message; `audience`, whom of the table it was for; `late`, who still had an
earlier one to print when it was written; `early`, sessions that ended before the
master had entered them; `overlaps`, how often a client began something before
all the others were done. `Begin` counts that: a client is in nobody's way if
nothing of another client's is under way (`OthersDone`). The master's entering
this client's own session is not another client's, so a line or a hang-up before
`EnterUser` or `EnterPid`, and a login that is faster than the master, are no
overlaps.

**Socks.** One session: `Accept` (the fork), `ReadRequest`, then `Connect` or
`PeerConnects`, `Granted` or `Refused`, then for each way (`"up"` from the source,
`"down"` from the destination) `Read(w)`, `Write(w)`, `WriteFails(w)`,
`ReadEnds(w)`, one per completed operation of asio; `SourceIsGone` and `PeerIsGone`
are the exceptions of `remote_endpoint` (403, 248), which end the child. The two sides `Send`,
`Receive`, `Shutdown` (half-close) and `Leave`, and one may be deaf: never read.
Data is numbered pieces; reads return any number of what is there, a write
takes up what the receiver has room for. Faithful to the code are also: the
firewall flags, which are never taken back between rules (lines 107-149), so that
two rules together may permit what neither does; a request read in two halves,
whose rest is whatever the buffer has (`Understood`); what the source sends right
behind its request, which is lost with it; SOCKS4A, where the name looked up is
that of the last request, and there is none (427-429); the missing reply when
a destination cannot be reached; BIND's `accept`, which does not notice the source
leaving, and which the first to connect ends; CONNECT's one way stopping without
the other being told. If the master's `accept` fails it is not armed again, and
the server ends (482-497).

**Console.** `Start` is `main`. A client: `Connect`, `Reply` (Project 4),
`Read`, with `do_write` in it when there is a prompt in what was read, `Written`,
`Fails`, and `Killed`: SIGPIPE when the browser is gone. A prompt is two bytes,
`"%"` and `" "`, and a read may end between them. A script without an `exit`
sends empty lines once it is used up; a line with `exit` anywhere in it is taken
for the last. The console of Project 4 (`version = 4`) connects to the host
itself and not to the SOCKS server of its form; the shell's greeting is then read
as the reply and no script is ever played.

**HttpServer.** `Accept(c)`, `Handle(c)` (one read, taken for the whole
request; parse, fork, exec) and `Reaped` (`waitpid`, inside the handler: nothing
else is handled before it). Browsers `Dial`, send in one piece or two (`Arrive`),
`Drop`. The first line of a request is a sequence of words and of the signs
between them; a read may `Come` with the first of them only, the last word cut.
`ParseReq` works on this line as the code does on the text: `Find` and `Between` are
`find` and `substr`, where what is not found means the end; the path goes from the
first blank to the question mark or the next blank, the query from there to the
blank after it, and is reset when there is no question mark. The header behind
the first line, and the variables made of it, are left out. A query that is
incomplete makes the console read past its vector: it ends or starts with any
query. `data_[length] = '\0'` writes one byte past the buffer for a read of 1024
bytes; requests of that size are left out. `played` in `Console` is a history
variable, how many lines of its script a shell has read.

## 3. Runs

| run | question | bounds | states |
|---|---|---|---|
| `npshell_spec` | does the shell keep its promise to users who follow the spec? | 9 lines, numbers to 3, 2 tags | 1,560 |
| `npshell_odd` | what remains when they do not? | 11 lines, stale pipes followed to -2 | 3,662 |
| `npshell_eof` | does it end with its input? **No** | as `npshell_spec` | |
| `rwg_shell` | does the rewritten shell keep the same promise, and end? | 13 lines, numbers to 3, and a lone `\|2` | 4,382 |
| `rwg_userpipes` | user pipes, and numbered pipes among them | 2 slots, 7 lines, one typed at a time | 1,071,585 |
| `rwg_users` | names, slots, prompts, environment, blocking reads | 2 slots, 4 lines, users hang up | 424,199 |
| `rwg_hasty` | two lines read as one | 1 slot, 9 lines, 2 typed ahead | 1,125,011 |
| `rwg_live` | progress | 2 slots, 2 connections waiting, typing ahead | 3,453 |
| `rwg_multi` | the multi-process server: table, messages, signals, user pipes | 2 slots, 3 connections, 3 lines, 1 overlap | 734,464 |
| `socks` | is what is relayed whole and in order, for whom was named, and does it arrive? | addresses of 2 parts, requests of 2 pieces, 2 and 1 pieces relayed | 227,941 |
| `web` | does each request get its own program and scripts, does the console keep in step, is everyone served? | 2 connections, 2 hosts, scripts of 1 and 2 lines | 251,280 |
| `rwg_logout` | are a user's pipes closed at logout? **No** | 2 slots | |

What each shows:

* `TypeOK` (each component): types, and that `cmdList` is empty between lines.
* `DueDistinct`: no two pipes due at the same line; `Execommand` would erase
  only the first of them. `OneDuePerLine` adds for `RwgShell` that no pipe
  outlives its line.
* `OutputKept`: when a piped program has been started its output is in the
  table, due when its mark says.
* `NothingStale`: between lines, no pipe is left for a command it was not
  meant for. It holds for courteous users, who type the lines of the assignment
  (a command in each, a builtin only at its beginning, no `|` at its end but a
  numbered one) and do not pipe to builtins (P1 spec 3.3.3); a builtin does leave
  its input pipe behind, which is why `npshell_odd` does not check it.
* `KeepsPromise`: `Npshell` and `RwgShell` implement `PipePromise` under a
  refinement mapping: `due` is the union of what the entries of each count
  carry, `carried` what the ordinary pipe carries. With `Courteous = FALSE` the
  promise covers numbered pipes only. The mapping of `RwgShell` shifts the
  counts by one outside a line, since it counts down when a line is read and
  `Npshell` when it ends: this is the difference the run is about.
  `RwgSingle` implements `UsersPromise`: there `due` is a function of the users, a
  line counts for its own user only, a command that reads or writes a user pipe
  leaves its user's table alone at that end, and a line runs on behind `exit`. Ordinary
  pipes are left out of this promise, since a user may type ahead, and the two
  lines that are then one may have a builtin in the middle of a pipeline.
* `NoTwins`, `ClosedByItsEnds`: no two user pipes with the same ends (only the
  first would be found); a user pipe is closed only by its reader or at the
  logout of one of its ends.
* `NamesDistinct`, `FreshSlot`, `OnePrompt`, `OwnEnvironment`,
  `ReadNeverBlocks`: see section 1.
* `LineServed`, `PromptPaid`, `Admission`: lines typed are read, prompts that are
  owed are sent unless a line overtakes them, and the queue of connections does
  not stand still while a slot is free.
* `LatestSeen`: once all signals of a message have been sent, everyone it was for
  and who is still there has printed it or is about to, unless another message
  has come. Whoever is there (`Here`) has been entered and still has its slot:
  with several overlaps a slot may be given to two sessions, and the one the
  table does not know is passed over. The run has one overlap (below), the theorem
  any number.
* `PrivateMessage`, `NamesDistinct`, `TableTrue`, `PipeWhole`, `OwnPipes` are about
  what the assignment promises (`calm`): P2 spec 5, item 1, "The maximum number of
  online users is 30", and item 7, "To avoid race conditions, different clients
  don't execute commands at the same time". `calm` is no more than this: every
  client begins when nothing of another client's is under way, and what one
  client's session, its messages and the master do to one another remains.
  Without `calm` every one of the five is violated in the same model: the shared
  memory has no lock, and the steps are as fine as the accesses. With it they
  still depend on the order of steps within one command, on the race of the master
  with its new child, on the reaper, and on what those who left have left behind,
  which is what their mutants change.
* `PrivateMessage`: a tell, or the answer to a refused name, is printed by its
  addressee, or by someone who still had an earlier message to print when this one
  was written (`late`), and by nobody else. The second case is real and needs no
  second client: `tell 1 ... <2 ...` from a user to whom 2 has piped announces the
  user pipe, then writes the private message over the announcement, and
  whoever has not handled the signal by then prints what was told to user 1.
* `TableTrue`: when all is over, every session that is there has its slot and its
  own pid in it, and the slots of which nobody is left are no more than the
  sessions that ended before they were entered (`early`). These are real too: a
  client that leaves before the parent has written `hasUser` is entered
  afterwards, and its slot is given up only when the reaper is called for someone
  else. `SlotFreed`: all
  other slots of sessions that ended without `exit` are given up.
* `PipeWhole`, `OwnPipes`: a program that reads a user pipe has all of it, from the
  user who is there now and for its own.
* A session that signals while its own slot has `hasUser` and pid still 0 signals the
  whole group, and the master dies of it (`mpc = "down"`). This too happens inside
  `calm`; `PrivateMessage`, `LatestSeen` and `SlotFreed` are said of a server whose
  master is there, and `TableTrue` of one at rest, which that one is never again.

  Two places where the code and the specification part, seen while modelling and
  not stated as runs: the login message may miss a user who is there, the new one
  itself, when its session broadcasts before the parent has entered it (P2 spec
  4.3, and 5, item 10: "welcome message -> login Broadcast message -> "%""); and in
  the scenario of P2 spec 3.2 user 2 types `tell 1 You can use 'cat <2' to show it!`,
  whose `<2'` np_shell.cpp:236-243 and 281-303 take for a user pipe of user 2 to
  itself: the line ends with an error and user 1 is told nothing.
* `KeepsPromise` (`Socks`): each way implements `RelayPromise`: what is on its way
  is what has been written and not read, then the buffer, then what has not been
  read by the server.
* `AsAsked`: who gets connected to the source is whom it named, and what a rule
  permits is not refused, unless a third party takes the port of a BIND first. The
  converse, that what no rule permits is refused, does not hold, for the flags.
* `Delivered`: what is sent over a granted connection arrives, whatever the other
  way does, also when its receiver is deaf. With BIND the end of one way ends
  both, so it is stated for receivers who have not ended theirs.
* `OwnScript`: the program that runs for a request which has come whole has no query
  if the request has none, whatever is left in the one global; and a console sends
  to each shell the lines of the script that this request names for this host,
  from the first to the one with `exit` in it, in order, each once, blank lines
  when there are no more, and nothing to a host that is not named. It
  depends on the parser, on the reset of the query, on the global being copied into
  the environment before the next request, and on the client's turns.
* `InStep`: console and shell take turns, unless some output has a prompt in it.
* `Served`: whoever has sent a request is served, or a console hangs, for one of
  two reasons the formula names (`Hangs`): a prompt that came in two reads, or a
  script without `exit`.
* `TerminatesAtEOF` fails for `Npshell` and holds for `RwgShell`: P1 spec 3.1,
  item 3. At the end of the input `npshell.cpp:295-298` takes the empty string
  for a blank line and prompts again, for ever.
* `UserPipesOnline` fails: P2 spec 5, item 9. `np_single_proc.cpp:344-350`
  skips the entry after each one it erases, so that of two adjacent user pipes
  of a user one survives the logout.

Bounds. The pipe table is bounded by the lines: numbers up to 3 give pipes that
overlap in every order (a new one between, before and on an old one); a longer
distance adds idle lines only. `MaxStale` stops typing once a pipe nobody read
is that many lines past due: such a pipe never matches a search again except at
-1, and -2 is beyond that. Two slots are enough for user pipes in both
directions and to oneself, for a name that is taken, and for a slot taken over
while the other user is online; the theorems lift this to any number.
`MaxTyped = 2` is two lines in one read, `MaxWaiting` the connections in the
queue. Stated in the configuration: `SelfPipes`, `HangUp`, `TypeAhead` switch
behaviours of users off in runs that are about something else.

`rwg_multi`: two slots and three connections are the least with which a slot is
taken over, the table is full, and a connection comes into the memory behind
it. `MaxLines` bounds lines and overlaps together. An overlap is something a client
begins while something of another client's is under way (`Begin`);
`MaxOverlaps = 1` allows one. While others are busy, or have a message to print,
clients begin only in the time of the first `MaxHasty` lines and connections
(`Hasty`); the rest of the behaviour is what follows from it. The model may be made
to overlap without limit; the state space then grows past what a run can visit.
The theorems are without these bounds: they are constants of any value there.
`socks`: two pieces behind a request of two give a request read short, whole, and
with data behind it; `Capacity = 1` makes every writer wait. Two parts of an
address are enough for rules that match in different parts. `web`: the second
connection waits for the program of the first; of two hosts one may hang.

`CHECK_DEADLOCK FALSE` where the program may really end: after `exit`, an
exception or SIGPIPE, a session's last way, or a bound of the model.

Fairness: `WF_vars(Shell)`, `WF_vars(Server)`: the process itself goes on when
it can, which is what an operating system gives a runnable process. Nothing is
assumed about users: they need not type, connect or leave. In `RwgMulti` the
master and each session are fair, being processes of their own. In `Socks` the
handlers of a session are (`Server`, each `Relay(w)`, since asio handles what is
ready in turn), and receivers who are not deaf read. In `HttpServer` each
connection's `Accept` and `Handle`, and each client and shell. It is also assumed
that programs end, since the shells wait for the last program of a line.

## 4. Proofs

TLAPS checks, for all values of the constants under the named assumptions:

* `NpshellTheorems`: `TypeCorrect`, `NeverDueTogether` (`[]DueDistinct`),
  `OutputNeverLost` (`OutputKept`), `NothingStaleHolds` (`[]NothingStale`),
  `ShellKeepsPromise` (`KeepsPromise`, the refinement).
* `RwgShellTheorems`: `TypeCorrect`, `AlwaysOneDue` (`[]OneDuePerLine`),
  `ShellKeepsPromise` (`KeepsPromise`, the refinement).
* `RwgSingleTheorems`: `TypeCorrect`, `NeverTwins` (`[]NoTwins`),
  `NamesStayDistinct` (`[]NamesDistinct`), `NeverDueTogether` (`[]DueDistinct`),
  `SlotsStayFresh` (`[]FreshSlot`), `EnvironmentIsOwn` (`[]OwnEnvironment`),
  `ReadsDoNotBlock` (`[]ReadNeverBlocks`), `PromptsBalance` (`[]OnePrompt`),
  `OutputNeverLost` (`OutputKept`), `OnlyEndsClose` (`ClosedByItsEnds`),
  `PipesKeepPromise` (`KeepsPromise`, the refinement).
* `RwgMultiTheorems`: `TypeCorrect`, `NamesDistinctHolds`, `PrivateMessageHolds`,
  `TableTrueHolds`, `PipeWholeHolds`, `OwnPipesHolds`, and, whatever overlaps,
  `LatestSeenHolds`.
* `SocksTheorems`: `TypeCorrect`, `AsAskedHolds`,
  `RelayKeepsPromise` (`KeepsPromise`, the refinement).
* `HttpServerTheorems`: `TypeCorrect`, `OwnScriptHolds`, `InStepHolds`.

`PipeTableTheorems` has what the shells' rest on: what a search finds
(`FirstWithFinds`, from a least element of a set of naturals), and what
`Pipee`, `Write`, `Close` and `CountDown` do to types, counts and `Distinct`;
that a program's output pipe is never the one it reads (`InIsNotOut`), which is
why its output stays (`OthersStay`); what the entries with one count carry
together (`From`), and how a function of all numbers of lines (`Support`) changes
when a line ends, is read, or sends. From this follows what each step does to what
is on its way in a table (`OnItsWay`): an output pipe that is opened moves nothing
(`OpenedOnItsWay`), the end of a line brings all of it one line nearer
(`CountedOnItsWay`), and a program takes what is due if it opens its line
(`FirstOnItsWay`, `LaterOnItsWay`) and adds its output.
`MinTheorems` has that a non-empty set of naturals has a least element, which is
what `Min` finds.

Assumptions. `NpshellAssumption`, `RwgShellAssumption` and `RwgAssumption` say
that the parser's result for any line that may be typed is a sequence of
commands, and that commands other than the last have a mark after them, which
is what the source's parser does; for `Npshell` also that a number stands behind a
mark only. `CourteousAssumption` says what a courteous user types: nothing when
`Courteous` is false. Numbers of slots, lines and connections are naturals. `RwgMultiAssumption` says that `tell` names a slot (of any number: one
that is not there has no user), `SocksAssumption` and `ConsoleAssumption` that
requests, rules and queries are such. TLC evaluates them in every run.

Arguments.

* *Due together.* `Distinct` is inductive given types: `Pipee` adds an entry
  with a count of 0 or more only if the search found none, counting down keeps
  counts different, writing and closing change none.
* *Output kept* (`Npshell`). The danger is that the shell closes the entry it
  has just given the program to write. The input pipe of the first command has
  count 0 and the output pipe has not. For a later command both may be ordinary
  pipes (count -1), and the output pipe is the newest of them: it differs from
  the first one only if there is an older one. `IInv` says so: while a line is
  run, commands but the last are marked (`MarksBetween`), and before each
  command but the first an ordinary pipe is in the table (`LeftPipe`), left by
  the command before or by a builtin that did not take it.
  The same argument serves `RwgSingle`, where a line may also be two that were read
  together.
* *Nothing stale* (`Npshell`). `Tidy` says for each place of a courteous user's line
  which ordinary pipes are there: none when it begins, one before each later
  command, which takes it and leaves one of its own (`ForkLeaves`), none when it
  is over; and that the pipe that is due has been taken by the first command,
  unless that is a builtin, before which nothing is due. So all counts are at
  least 1 when they are counted down.
* *One due per line* (`RwgShell`). Between lines all counts are at least 1;
  reading a line counts down to at least 0 and takes out the one that is 0.
* *Twins*. A send appends only after the search for its ends found nothing; the
  erasures keep an injective sequence injective. `Serving` says where the loop
  is while a line is run (the served slot is online) and is proved with types.
* *Names*. Inductive with `Nameless`: a free slot has no name, so that nobody
  brings one along.
* *Fresh slots*. Every step but `NewUser` and `Logout` changes the row of an
  online user only.
* *Reads* (`StillReady`). What select reported stays true for the slots not yet
  visited, at every place of the loop and not only where the next one is read:
  input is taken only from the slot that is served, and a slot is given up only
  when it is served.
* *Prompts* (`Balanced`). The credit of every user is what `done` and the place in
  the loop make it, with the served user set apart while a line is run; free
  slots are fresh.
* *The multi-process server*. What `calm` keeps apart is `Solo`: at most one session
  is doing something, and while the master enters a session, only that one;
  while it forks or clears up, none. `Own`, whatever overlaps: a session's number
  and its slot belong together from the fork on, and what the master has yet to
  enter is nowhere in the table. `Agree`: whoever is there has its pid in its
  slot, but for the one that is being entered, at each place of the master's loop,
  of the handler and of a session that leaves. `NameFree`: a name compared and
  not yet stored is still free. `Addressed`: whoever may still print the message
  is one it is for or was `late`; since it says for whom a tell is meant by who has
  taken the slot last (`Holder`), entered or not, it goes through the races with
  the master. `Counted` (for `TableTrue`): the slots that are lost, and the one that
  will be when a session that has ended is entered, are at most the sessions
  in `early` and the one the reaper is about to find. For the user pipes: `Wholes`, a
  file that is not whole is one whose writer has not ended; `Theirs`, a file's
  ends are the holders of its two slots, or its removal is to come.
* *The latest message* (`LatestSeen`), whatever overlaps. `Heard`: whoever the message in
  the one slot is for, is there, and has been passed by the loop that sends the
  signals (`Passed`: the master's, or that of the session whose message it is) has
  printed it or has the signal; and a loop with a signal under way aims it at
  that session (`Aimed`). A second message makes this one the latest, with an audience
  and a loop of its own. `Newest`: the connection that is being entered has a
  process number nobody had, so that it is in no audience yet.
* *Closed by its ends*. Only two actions erase user pipes: a program of the
  target erases the one its line names, and a sweep those about the one it is for.
* *Asked* (`Socks`). `Negotiated`: from the request on, what is asked has passed the
  firewall and has the version and command; `Confined`: nothing is received before
  there is a peer; `Justified`: a rejection was sent because a flag is missing,
  which no permitting rule leaves missing, or for the wrong peer.
* *The rewritten shell's promise* (`ShellKeepsPromise`). `Waits` gives for every
  number of lines what is on its way, whether in the table or taken out of it
  for the next command, and `Due` is `Waits` without its empty places. Reading a
  line moves what is due without changing `Waits`, a program takes `Waits[0]` and
  adds to one other place, the end of a line shifts it by one. `OneDuePerLine`
  makes the entry that is found all that is due; `InLine` says that the pipe a
  line ends in is in the table while the line is run, and that nothing is left
  over between lines. The hypothesis `BuiltinsAlone` (no command stands behind a
  builtin, as in the assignment) is needed: the shell drops such a command.
* *The shell's promise* (`ShellKeepsPromise` of `NpshellTheorems`) for numbered pipes
  is the lemmas about `OnItsWay`, step by step: an ordinary entry that is opened,
  written or closed moves nothing, and `Distinct` makes the entry that is found all
  that is due. It needs no hypothesis, since a builtin is skipped with its pipes
  left where they are. For ordinary pipes `ForkCarried` rests on `Tidy`.
* *The users' promise* (`PipesKeepPromise` of `RwgSingleTheorems`) rests on the same
  lemmas, for the one table that a step of the loop touches (`OneTable`). While no
  line is run all steps are stutters (`OthersStandStill`), also the one that ends
  the server. `ByeSaid`: during a line, `byebye` is whether an `exit` is among the
  commands already run, so that the end of the line is a `Leave` exactly if the
  line says `exit`.
* *The relay's promise* (`RelayKeepsPromise`). A step simulation: `WayStep` says of
  each action what it does to what is on its way (the `Chain` of what is sent,
  what the server holds and what it has written). It rests on `Quiet` and
  `Negotiated` (nothing is relayed before the request is granted) and `Closed`
  (who is gone has ended its stream, and nothing goes on in a session that is
  over).
* *Own script*. `ParsesWhole`: given the whole first line of a request, `ParseReq`
  finds the request, from where the first blank, question mark and second blank are
  (`FindAt`, `FindNothing`, `Positions`); so while a program runs, the environment is
  its request (`OwnRequest`). `ScriptsPlayed`: for each host, what its shell has read,
  what is on its way (`SoFar`) and what the client has left (`ToCome`) make up the
  script, line by line, and nothing went past the one that ends it.
* *In step* (`TakeTurns`). For each host, where client and shell are, how many
  lines and how much output are on their way go together: one of them has the
  turn.

Only model-checked: all liveness properties (`TerminatesAtEOF` of `RwgShell`,
`LineServed`, `PromptPaid`, `Admission`, `SlotFreed`, `Delivered`, `Served`), which need
fairness and `ENABLED` and are out of the prover's reach. Every invariant, every
action property and every refinement that a passing run checks is a theorem (the
refinement of `RwgShell` under `BuiltinsAlone`).

## 5. Not modelled

* What programs do, how long they take, and descriptors that forked children
  inherit. A child of `np_single_proc` closes the pipes of its own user only;
  whether a reader then sees its end of input is outside the models.
* Text: parsing character by character, messages, redirection. Lines on which
  the parser of `npshell.cpp` does not terminate (a digit in the first place,
  lines 126-135) are not typed.
* A `!` without a number in `np_single_proc` (it has one in all lines).
* What happens when `fork`, `pipe` or `accept` fail.
* `np_simple`'s accept loop: its sessions share nothing, and what each runs is
  `Npshell`.
* Of the multi-process server: a message being overwritten while it is copied,
  process numbers used again, and numbered pipes together with user pipes (a
  line `cat <2 |1` neither waits for its program nor removes the file).
* Of the SOCKS server: several sessions (they share the listening socket only),
  and the file of rules changing while it is read.
* Of the consoles: the page that is printed, and its escaping.
* `panel_socks.cgi`, the makefiles, the specifications and Homework 0, which have
  no state.

## 6. Order of work

The shells and the single-process server came first, since they carry the most
logic and the abstract promise about pipes; then what sessions share in the
multi-process server; then the relay, the console and the HTTP server, with
their composition. Of what was planned, a composition of `RwgShell` with
`RwgMulti` in one state space is not done: the numbered pipes of a session are
its own, so that a product would only multiply states; what it would add is the
line that has both kinds of pipes, named in section 5.
