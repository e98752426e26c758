---------------------------- MODULE MCHttpServer ----------------------------
(* HttpServer with two connections and one or two hosts. *)
EXTENDS HttpServer

CONSTANTS h1, h2, c1, c2

Short == <<"cmd", "exit">>
Stopped == <<"exitish", "cmd">>
Endless == <<"cmd">>
SomeScripts == {Short, Stopped, Endless}

Alone(s) == [h \in Hosts |-> IF h = h1 THEN s ELSE NoScript]
Both(s) == [h \in Hosts |-> s]
SomeQueries == {Alone(Short), Alone(Endless), Both(Stopped)}

Ask(p, q) == [path |-> p, query |-> q]
SomeRequests ==
  {Ask("console", Alone(Short)), Ask("console", NoQuery), Ask("page", Both(Stopped))}
=============================================================================
