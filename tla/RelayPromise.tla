---------------------------- MODULE RelayPromise ----------------------------
(***************************************************************************)
(* What a SOCKS server promises for one direction of a connection: what    *)
(* one side sends after its request comes out at the other in that order,  *)
(* each piece once, none before the request is granted, and with nothing   *)
(* missing except at the end, when a side has left or the server ends.     *)
(***************************************************************************)
EXTENDS Naturals, Sequences

CONSTANT Pieces

VARIABLES queue,    \* what is on its way, the oldest first
          state, broken

vars == <<queue, state, broken>>

Init == queue = <<>> /\ state = "asking" /\ broken = FALSE

Send ==
  /\ state # "over" /\ ~broken
  /\ \E x \in Pieces : queue' = Append(queue, x)
  /\ UNCHANGED <<state, broken>>

\* The request is taken out of the stream, with all that was read with it.
Ask ==
  /\ state = "asking" /\ state' = "asked"
  /\ \E k \in 0 .. Len(queue) : queue' = SubSeq(queue, k + 1, Len(queue))
  /\ UNCHANGED broken

Grant ==
  /\ state = "asked" /\ state' = "open"
  /\ UNCHANGED <<queue, broken>>

Receive ==
  /\ state \in {"open", "over"} /\ queue # <<>>
  /\ queue' = Tail(queue)
  /\ UNCHANGED <<state, broken>>

\* A side leaves: what has not come out yet is lost, from some piece on.
Lose ==
  /\ broken' = TRUE
  /\ \E k \in 0 .. Len(queue) : queue' = SubSeq(queue, 1, k)
  /\ UNCHANGED state

End ==
  /\ state' = "over"
  /\ \E k \in 0 .. Len(queue) : queue' = SubSeq(queue, 1, k)
  /\ state \in {"asking", "asked"} => queue' = <<>>
  /\ UNCHANGED broken

Next == Send \/ Ask \/ Grant \/ Receive \/ Lose \/ End

Spec == Init /\ [][Next]_vars
=============================================================================
