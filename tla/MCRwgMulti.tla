----------------------------- MODULE MCRwgMulti -----------------------------
(* RwgMulti with a table of two slots and three connections. *)
EXTENDS RwgMulti

CONSTANT x

L(kind) == [kind |-> kind, to |-> 0, newName |-> NoName, receive |-> 0, send |-> 0]

\* One line of each kind, user pipes to, from and through each slot, and a text
\* told that is taken for a user pipe.
AllLines ==
  {L("quiet"), L("yell"), L("exit"), [L("name") EXCEPT !.newName = x]}
  \cup {[L("tell") EXCEPT !.to = u] : u \in 1 .. 2}
  \cup {[L("exec") EXCEPT !.send = u] : u \in 1 .. 2}
  \cup {[L("exec") EXCEPT !.receive = u] : u \in 1 .. 2}
  \cup {[L("exec") EXCEPT !.receive = 1, !.send = 2], [L("tell") EXCEPT !.to = 2, !.receive = 1],
        [L("quiet") EXCEPT !.send = 1]}
=============================================================================
