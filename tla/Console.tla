------------------------------ MODULE Console ------------------------------
(***************************************************************************)
(* console.cgi: one client for each host of the query, which plays a       *)
(* script to the shell there.  It sends the next line of its script for    *)
(* each read that has a prompt in it.  A read returns some of what the     *)
(* shell has written, cut anywhere.  The consoles of Projects 3 and 4      *)
(* differ in the handshake of a SOCKS client, which that of Project 4 has  *)
(* with the shell.  Lines and output are kinds of lines and of output.     *)
(***************************************************************************)
EXTENDS Naturals, Sequences, SequencesExt

CONSTANTS Hosts,      \* the hosts a query may name (5)
          Scripts,    \* the scripts it may name, sequences of lines
          NoScript,   \* a host the query leaves out
          Query       \* the queries, a script or none for each host

\* A line that is exit, one that has exit in it, any other; and what is sent
\* when the script has no more lines.
Line == {"exit", "exitish", "cmd"}
Blank == "blank"
\* What a shell writes: the two bytes of the prompt, text, text with a prompt in it.
Piece == {"%", " ", "text", "mark"}
Prompt == <<"%", " ">>
Text == <<"text", "%", " ">>
Mark == <<"mark", "%", " ">>

ASSUME ConsoleAssumption ==
  /\ Scripts \subseteq Seq(Line) /\ NoScript \notin Scripts
  /\ Query \subseteq [Hosts -> Scripts \cup {NoScript}]

VARIABLES
  version,    \* whose console it is, that of Project 3 or 4
  client,     \* what the client for a host waits for
  used,       \* hostInfo[].used
  left,       \* the rest of its script
  typing,     \* data2, the line it sends
  lines,      \* sent, and not yet read by the shell
  wire,       \* written by the shell, and not yet read
  shell,      \* external: the shell, which greets, runs a line, or is gone
  browser,    \* is the browser there to print for
  \* for the properties only
  marked,     \* hosts whose output had a prompt in it
  torn,       \* hosts whose prompt came in two reads
  played      \* how many lines of its script each shell has read

script == <<client, used, left, typing>>
remote == <<wire, shell, marked, played>>
consoleVars == <<version, script, lines, remote, browser, torn>>

ConsoleTypeOK ==
  /\ version \in {3, 4}
  /\ client \in [Hosts -> {"connect", "reply", "read", "write", "over"}]
  /\ used \in [Hosts -> BOOLEAN]
  /\ left \in [Hosts -> Seq(Line)]
  /\ typing \in [Hosts -> Line \cup {Blank}]
  /\ lines \in [Hosts -> Seq(Line \cup {Blank})]
  /\ wire \in [Hosts -> Seq(Piece)]
  /\ shell \in [Hosts -> {"greet", "prompt", "gone"}]
  /\ browser \in BOOLEAN
  /\ marked \subseteq Hosts /\ torn \subseteq Hosts /\ played \in [Hosts -> Nat]
  /\ \A h \in Hosts : client[h] \in {"connect", "reply", "read"} => used[h]

\* No console runs.
ConsoleInit ==
  /\ version \in {3, 4}
  /\ client = [h \in Hosts |-> "over"]
  /\ used = [h \in Hosts |-> FALSE]
  /\ left = [h \in Hosts |-> <<>>]
  /\ typing = [h \in Hosts |-> Blank]
  /\ lines = [h \in Hosts |-> <<>>]
  /\ wire = [h \in Hosts |-> <<>>]
  /\ shell = [h \in Hosts |-> "gone"]
  /\ browser = TRUE
  /\ marked = {} /\ torn = {} /\ played = [h \in Hosts |-> 0]

\* main: the query is parsed and a client started for every host it names.
Start(query) ==
  /\ used' = [h \in Hosts |-> query[h] # NoScript]
  /\ client' = [h \in Hosts |-> IF query[h] # NoScript THEN "connect" ELSE "over"]
  /\ left' = [h \in Hosts |-> IF query[h] # NoScript THEN query[h] ELSE <<>>]
  /\ typing' = [h \in Hosts |-> Blank]
  /\ lines' = [h \in Hosts |-> <<>>]
  /\ wire' = [h \in Hosts |-> <<>>]
  /\ shell' = [h \in Hosts |-> "greet"]
  /\ browser' = TRUE
  /\ marked' = {} /\ torn' = {} /\ played' = [h \in Hosts |-> 0]
  /\ UNCHANGED version

\* io_context::run returns when no client has anything to wait for.
Ended == \A h \in Hosts : client[h] = "over"

-----------------------------------------------------------------------------
(* A client. *)

Go(h, place) == client' = [client EXCEPT ![h] = place]

\* Nothing is waited for any more, which ends the client.
Stops(h) ==
  /\ Go(h, "over")
  /\ left' = [left EXCEPT ![h] = <<>>]
  /\ typing' = [typing EXCEPT ![h] = Blank]
  /\ UNCHANGED used

\* Both consoles connect to the host itself; that of Project 4 then sends it a
\* request, and waits for the reply of a SOCKS server.
Connect(h) ==
  /\ client[h] = "connect"
  /\ Go(h, IF version = 4 THEN "reply" ELSE "read")
  /\ UNCHANGED <<version, used, left, typing, lines, remote, browser, torn>>

ConnectFails(h) ==
  /\ client[h] = "connect"
  /\ Stops(h)
  /\ UNCHANGED <<version, lines, remote, browser, torn>>

\* No shell greets with the code of a granted request.
Reply(h) ==
  /\ client[h] = "reply" /\ wire[h] # <<>>
  /\ Stops(h)
  /\ wire' = [wire EXCEPT ![h] = Tail(@)]
  /\ UNCHANGED <<version, lines, shell, marked, played, browser, torn>>

EitherByte(t) == ToSet(t) \cap {"%", " ", "mark"} # {}
HasPrompt(t) ==
  \/ "mark" \in ToSet(t)
  \/ \E i \in 1 .. Len(t) - 1 : t[i] = "%" /\ t[i + 1] = " "

\* do_write: the next line of the script, or an empty one when it has none; a
\* line with exit in it is the last.
do_write(h) ==
  LET line == IF left[h] = <<>> THEN Blank ELSE Head(left[h])
      last == line \in {"exit", "exitish"}
  IN  /\ typing' = [typing EXCEPT ![h] = line]
      /\ left' = [left EXCEPT ![h] = IF last \/ @ = <<>> THEN <<>> ELSE Tail(@)]
      /\ used' = [used EXCEPT ![h] = @ /\ ~last]
      /\ Go(h, "write")

Read(h) ==
  /\ client[h] = "read" /\ wire[h] # <<>>
  /\ \E k \in 1 .. Len(wire[h]) :
       LET text == SubSeq(wire[h], 1, k)
           rest == SubSeq(wire[h], k + 1, Len(wire[h]))
       IN  /\ wire' = [wire EXCEPT ![h] = rest]
           /\ torn' = IF Last(text) = "%" /\ rest # <<>> THEN torn \cup {h} ELSE torn
           /\ IF HasPrompt(text)
              THEN do_write(h)
              ELSE UNCHANGED script
  /\ UNCHANGED <<version, lines, shell, marked, played, browser>>

ReadsOn(h) == "read"
Onward(h) == IF used[h] THEN "read" ELSE "over"

Written(h) ==
  /\ client[h] = "write"
  /\ lines' = [lines EXCEPT ![h] = Append(@, typing[h])]
  /\ typing' = [typing EXCEPT ![h] = Blank]
  /\ Go(h, Onward(h))
  /\ UNCHANGED <<version, used, left, remote, browser, torn>>

\* The shell has closed the connection: a read or a write fails.
Fails(h) ==
  /\ shell[h] = "gone"
  /\ (client[h] \in {"read", "reply"} /\ wire[h] = <<>>) \/ client[h] = "write"
  /\ Stops(h)
  /\ UNCHANGED <<version, lines, remote, browser, torn>>

\* Nobody is there to print for: SIGPIPE ends the console.
Killed(h) ==
  /\ ~browser
  /\ client[h] = "read" /\ wire[h] # <<>>
  /\ client' = [g \in Hosts |-> "over"]
  /\ left' = [g \in Hosts |-> <<>>]
  /\ typing' = [g \in Hosts |-> Blank]
  /\ UNCHANGED <<version, used, lines, remote, browser, torn>>

Client(h) ==
  \/ Connect(h) \/ ConnectFails(h) \/ Reply(h) \/ Read(h) \/ Written(h)
  \/ Fails(h) \/ Killed(h)

-----------------------------------------------------------------------------
(* External: the shells and the browser. *)

Says(h, output) == wire' = [wire EXCEPT ![h] = @ \o output]

Greet(h) ==
  /\ shell[h] = "greet" /\ client[h] \in {"reply", "read"}
  /\ Says(h, Text)
  /\ shell' = [shell EXCEPT ![h] = "prompt"]
  /\ UNCHANGED <<version, script, lines, marked, played, browser, torn>>

\* What a line writes, and the prompt after it.
Output(line) == IF line = Blank THEN {Prompt} ELSE {Text, Mark}

RunLine(h) ==
  /\ shell[h] = "prompt" /\ lines[h] # <<>>
  /\ lines' = [lines EXCEPT ![h] = Tail(@)]
  /\ played' = [played EXCEPT ![h] = IF Head(lines[h]) = Blank THEN @ ELSE @ + 1]
  /\ IF Head(lines[h]) = "exit"
     THEN shell' = [shell EXCEPT ![h] = "gone"] /\ UNCHANGED <<wire, marked>>
     ELSE \E output \in Output(Head(lines[h])) :
            /\ Says(h, output)
            /\ marked' = IF output = Mark THEN marked \cup {h} ELSE marked
            /\ UNCHANGED shell
  /\ UNCHANGED <<version, script, browser, torn>>

\* It reads the end of its input, and the connection is closed at both ends.
HangUp(h) ==
  /\ shell[h] # "gone" /\ client[h] = "over" /\ lines[h] = <<>>
  /\ shell' = [shell EXCEPT ![h] = "gone"]
  /\ wire' = [wire EXCEPT ![h] = <<>>]
  /\ UNCHANGED <<version, script, lines, marked, played, browser, torn>>

Shell(h) == Greet(h) \/ RunLine(h) \/ HangUp(h)

BrowserLeaves ==
  /\ ~Ended /\ browser
  /\ browser' = FALSE
  /\ UNCHANGED <<version, script, lines, remote, torn>>
=============================================================================
