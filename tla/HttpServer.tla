----------------------------- MODULE HttpServer -----------------------------
(***************************************************************************)
(* The HTTP server of Project 3 (http_server.cpp), with one console as the *)
(* CGI program that it may run.  One thread handles what asio reports: a   *)
(* connection, a request that has come.  The handler of a request forks    *)
(* the program and then waits for it to end, and so does all the rest.     *)
(***************************************************************************)
EXTENDS Console

CONSTANTS Conns,             \* connections that browsers make
          Asked,             \* the requests they may send
          NoQuery, BadQuery  \* no query; one that is cut short or incomplete

Path == {"console", "page", "absent"}
Request == [path : Path, query : Query \cup {NoQuery, BadQuery}]
Nothing == [path |-> "absent", query |-> NoQuery]

ASSUME HttpServerAssumption ==
  /\ Asked \subseteq Request
  /\ {NoQuery, BadQuery} \cap Query = {}

VARIABLES
  conn,      \* the connections
  request,   \* what the browser sends on each
  arrived,   \* how much of it has come: nothing, some, all
  req,       \* the global the request is parsed into
  env        \* the environment of the program that runs

server == <<req, env>>
httpVars == <<conn, request, arrived, server>>
vars == <<consoleVars, httpVars>>

\* The connections whose program has been started and not been waited for.
Running == {c \in Conns : conn[c] = "cgi"}
NeverWaits == FALSE
Waits == Running # {}

TypeOK ==
  /\ ConsoleTypeOK
  /\ conn \in [Conns -> {"none", "backlog", "open", "cgi", "done", "closed"}]
  /\ request \in [Conns -> Asked \cup {Nothing}]
  /\ arrived \in [Conns -> {"nothing", "some", "all"}]
  /\ \A b, c \in Running : b = c
  /\ req \in Request /\ env \in Request
  /\ ~Ended => Running # {} /\ env.path = "console"

Init ==
  /\ ConsoleInit
  /\ conn = [c \in Conns |-> "none"]
  /\ request = [c \in Conns |-> Nothing]
  /\ arrived = [c \in Conns |-> "nothing"]
  /\ req = Nothing /\ env = Nothing

-----------------------------------------------------------------------------
(* The browsers. *)

Dial(c) ==
  /\ conn[c] = "none"
  /\ conn' = [conn EXCEPT ![c] = "backlog"]
  /\ UNCHANGED <<consoleVars, request, arrived, server>>

\* The request arrives, in one piece or in two.
Arrive(c) ==
  /\ conn[c] \in {"backlog", "open"} /\ arrived[c] # "all"
  /\ \E much \in {"some", "all"} : arrived' = [arrived EXCEPT ![c] = much]
  /\ \E r \in IF arrived[c] = "nothing" THEN Asked ELSE {request[c]} :
       request' = [request EXCEPT ![c] = r]
  /\ UNCHANGED <<consoleVars, conn, server>>

\* The browser closes a connection on which it has sent nothing.
Drop(c) ==
  /\ conn[c] = "open" /\ arrived[c] = "nothing" /\ ~Waits
  /\ conn' = [conn EXCEPT ![c] = "closed"]
  /\ UNCHANGED <<consoleVars, request, arrived, server>>

-----------------------------------------------------------------------------
(* The server. *)

Accept(c) ==
  /\ ~Waits /\ conn[c] = "backlog"
  /\ conn' = [conn EXCEPT ![c] = "open"]
  /\ UNCHANGED <<consoleVars, request, arrived, server>>

\* The first line of a request, as its words and the signs between them.
Word(kind, value) == [kind |-> kind, value |-> value]
Sign(kind) == [kind |-> kind]
RequestLine(r) ==
  IF r.query = NoQuery
  THEN <<Word("method", "GET"), Sign(" "), Word("path", r.path),
         Sign(" "), Word("protocol", "HTTP")>>
  ELSE <<Word("method", "GET"), Sign(" "), Word("path", r.path),
         Sign("?"), Word("query", r.query), Sign(" "), Word("protocol", "HTTP")>>

\* What one read may take of it: all, or when no more has come the first n tokens,
\* the last one whole or, when it is a word, a part of it.
MayCome(line, n, whole, much) ==
  /\ much = "all" => n = Len(line) /\ whole
  /\ whole \/ line[n].kind \notin {" ", "?"}
Come(line, n, whole) ==
  IF whole THEN SubSeq(line, 1, n) ELSE Append(SubSeq(line, 1, n - 1), Word("part", ""))

\* string::find and string::substr; what is not found is 0, and means the end.
Find(line, kind, from) ==
  LET Fits(token) == token.kind = kind
  IN  SelectInSubSeq(line, from, Len(line), Fits)
Between(line, from, to) == SubSeq(line, from, IF to = 0 THEN Len(line) ELSE to - 1)

\* Text is taken for what it is when it is one word of the kind.
IsOnly(text, kind) == Len(text) = 1 /\ text[1].kind = kind

\* The path goes from the first blank to the question mark after it, or else to
\* the next blank; the query from the question mark to the next blank.
UriAt(line) == Find(line, " ", 1) + 1
QueryAt(line) == Find(line, "?", UriAt(line))
REQUEST_URI(line) ==
  LET end == IF QueryAt(line) # 0 THEN QueryAt(line) ELSE Find(line, " ", UriAt(line))
      text == Between(line, UriAt(line), end)
  IN  IF IsOnly(text, "path") THEN text[1].value ELSE "absent"
GivenQuery(line) ==
  LET text == Between(line, QueryAt(line) + 1, Find(line, " ", QueryAt(line) + 1))
  IN  IF text = <<>> THEN NoQuery
      ELSE IF IsOnly(text, "query") THEN text[1].value ELSE BadQuery

\* Without a question mark the query is reset, req holds that of the last request.
KeptQuery(line) == IF QueryAt(line) # 0 THEN GivenQuery(line) ELSE req.query
QUERY_STRING(line) == IF QueryAt(line) # 0 THEN GivenQuery(line) ELSE NoQuery

ParseReq(line) == [path |-> REQUEST_URI(line), query |-> QUERY_STRING(line)]

\* What has come is taken for the whole request, parsed into req, and the program
\* started with it: a console plays the scripts the query names, one without a
\* complete query reads past the end of it, and ends or finds anything; others
\* end by themselves.
Named(query) == IF query \in Query THEN {query} ELSE Query

NoConsole == UNCHANGED consoleVars
Run(r) ==
  IF r.path # "console" THEN NoConsole
  ELSE \/ r.query \notin Query /\ NoConsole
       \/ \E query \in Named(r.query) : Start(query)

Handle(c) ==
  /\ ~Waits /\ conn[c] = "open" /\ arrived[c] # "nothing"
  /\ conn' = [conn EXCEPT ![c] = "cgi"]
  /\ UNCHANGED <<request, arrived>>
  /\ \E n \in 1 .. Len(RequestLine(request[c])), whole \in BOOLEAN :
       /\ MayCome(RequestLine(request[c]), n, whole, arrived[c])
       /\ \E line \in {Come(RequestLine(request[c]), n, whole)} :
            \E r \in {ParseReq(line)} : req' = r /\ env' = r /\ Run(r)

\* waitpid returns.
Reaped ==
  /\ Waits /\ Ended
  /\ conn' = [c \in Conns |-> IF c \in Running THEN "done" ELSE conn[c]]
  /\ UNCHANGED <<consoleVars, request, arrived, req, env>>

-----------------------------------------------------------------------------
Server == Reaped \/ \E c \in Conns : Accept(c) \/ Handle(c) \/ Drop(c)
Program(h) == (Client(h) \/ Shell(h)) /\ UNCHANGED httpVars

Next ==
  \/ Server
  \/ \E c \in Conns : Dial(c) \/ Arrive(c)
  \/ \E h \in Hosts : Program(h)
  \/ BrowserLeaves /\ UNCHANGED httpVars

\* The server handles every connection that is ready, in turn; clients and
\* shells run when they can.  Browsers owe nothing.
Spec ==
  /\ Init /\ [][Next]_vars
  /\ WF_vars(Reaped)
  /\ \A c \in Conns : WF_vars(Accept(c)) /\ WF_vars(Handle(c))
  /\ \A h \in Hosts : WF_vars(Client(h) /\ UNCHANGED httpVars)
                      /\ WF_vars(Shell(h) /\ UNCHANGED httpVars)

-----------------------------------------------------------------------------
(* Properties *)

\* The program that a request starts is that of this request, whatever earlier
\* ones have left in the one global they are parsed into: it has no query when
\* there is none, and a console sends the shell of every host of the query the
\* lines of the script that is named for this host, from the first to the one
\* with exit in it, in order, none twice, and no other lines but blank ones when
\* the script has no more; it sends nothing to any other host
\* (http_server.cpp:30, 38-71, 107-109, console.cpp:69-81, 201-225).
LineOf(s, n) == IF n <= Len(s) THEN s[n] ELSE Blank
OnItsWay(h) == IF client[h] = "write" THEN Append(lines[h], typing[h]) ELSE lines[h]
Plays(h, s) ==
  /\ \A i \in 1 .. Len(OnItsWay(h)) : OnItsWay(h)[i] = LineOf(s, played[h] + i)
  /\ \A n \in 1 .. played[h] + Len(OnItsWay(h)) - 1 : LineOf(s, n) \notin {"exit", "exitish"}
OwnScript ==
  \A c \in Running : arrived[c] = "all" =>
    /\ request[c].query = NoQuery => env.query = NoQuery
    /\ request[c].path = "console" /\ request[c].query \in Query =>
         \A h \in Hosts :
           LET s == request[c].query[h]
           IN  IF s = NoScript THEN OnItsWay(h) = <<>> /\ played[h] = 0 ELSE Plays(h, s)

\* A console does not type ahead: a line is sent for a prompt of its own, and
\* the shell is ready for it, unless a prompt was part of some output
\* (console.cpp:69-110 of Project 3, 80-121 of Project 4).
InStep ==
  \A h \in Hosts \ marked :
    client[h] = "write" \/ lines[h] # <<>> =>
      /\ shell[h] # "greet" /\ Len(lines[h]) <= 1
      /\ client[h] = "write" => lines[h] = <<>>
      /\ \A i \in DOMAIN wire[h] : wire[h][i] # "%"

\* Whoever has sent a request is served, whatever else goes on, unless a console
\* hangs: because a prompt came in two reads, so that console and shell wait
\* for one another, or because a script has no exit, and empty lines are sent
\* for ever (http_server.cpp:95-128, 157-162, console.cpp:69-110).
Waiting(h) ==
  /\ client[h] = "read" /\ shell[h] = "prompt" /\ lines[h] = <<>>
  /\ ~HasPrompt(wire[h])
Hangs ==
  \E h \in Hosts :
    client[h] # "over" /\ ((h \in torn /\ Waiting(h)) \/ (used[h] /\ left[h] = <<>>))

Served ==
  \A c \in Conns : arrived[c] # "nothing" ~> conn[c] = "done" \/ Hangs
=============================================================================
