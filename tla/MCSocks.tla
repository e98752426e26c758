------------------------------ MODULE MCSocks ------------------------------
(* Socks with addresses of two parts and streams of a few pieces. *)
EXTENDS Socks

CONSTANTS x, y

To1 == [i \in Parts |-> IF i = 1 THEN x ELSE y]
AllX == [i \in Parts |-> x]
Ask4(cd, ip) == [VN |-> 4, CD |-> cd, DSTIP |-> ip, byName |-> FALSE]

\* CONNECT, BIND, a command that is neither, another version, a name.
SomeRequests ==
  {Ask4(CONNECT, To1), Ask4(BIND, To1), Ask4(3, AllX), [Ask4(CONNECT, To1) EXCEPT !.VN = 5],
   [Ask4(CONNECT, AllX) EXCEPT !.byName = TRUE]}

R(cmd, first, second) == [cmd |-> cmd, ip |-> [i \in Parts |-> IF i = 1 THEN first ELSE second]]

\* All CONNECTs permitted; some BINDs; two lines that only together cover an
\* address.  Each refuses the other command.
SomeConfs ==
  {{R("c", Any, Any)}, {R("b", x, Any)}, {R("c", x, x), R("c", y, y)}}

FewPieces == [w \in Ways |-> IF w = "up" THEN 2 ELSE 1]
=============================================================================
