------------------------------- MODULE Socks -------------------------------
(***************************************************************************)
(* The SOCKS server of Project 4 (socks_server.cpp), for one connection.   *)
(* The server forks for each, and the processes share nothing.  What is    *)
(* relayed is cut into pieces, numbered in each direction in the order in  *)
(* which they are sent; the first pieces of the source are its request.  A *)
(* step is the handler of one completed operation.  Addresses are cut into *)
(* parts, the numbers between the dots.                                    *)
(***************************************************************************)
EXTENDS Naturals, Sequences

CONSTANTS Parts, Octets,   \* an address has an octet in each part
          Any,             \* the * of a rule
          Requests, Confs, \* what a source may ask, what socks.conf may say
          RequestLen,      \* pieces of a request, a bound of the model
          MaxSent,         \* pieces to be relayed in each direction, a bound of the model
          BufferLen,       \* pieces a buffer of the server holds
          Capacity,        \* pieces on their way to one who does not read
          MayBeDeaf,       \* sides that may never read
          NoAddr, NoRequest

Address == [Parts -> Octets]
Rule == [cmd : {"c", "b"}, ip : [Parts -> Octets \cup {Any}]]
Request == [VN : {4, 5}, CD : 1 .. 3, DSTIP : Address, byName : BOOLEAN]
CONNECT == 1
BIND == 2
ACCEPT == 90
REJECT == 91

Sides == {"source", "dest"}
Ways == {"up", "down"}
Sender(w) == IF w = "up" THEN "source" ELSE "dest"
Receiver(w) == IF w = "up" THEN "dest" ELSE "source"
From(s) == IF s = "source" THEN "up" ELSE "down"
To(s) == IF s = "source" THEN "down" ELSE "up"
Other(w) == IF w = "up" THEN "down" ELSE "up"
Most(w) == MaxSent[w] + (IF w = "up" THEN RequestLen ELSE 0)

ASSUME SocksAssumption ==
  /\ Requests \subseteq Request /\ Confs \subseteq SUBSET Rule
  /\ Any \notin Octets /\ NoAddr \notin Address /\ NoRequest \notin Request
  /\ RequestLen \in Nat \ {0} /\ MaxSent \in [Ways -> Nat]
  /\ BufferLen \in Nat \ {0} /\ Capacity \in Nat \ {0} /\ MayBeDeaf \subseteq Sides

VARIABLES
  req, conf, deaf,        \* what the source will ask, what the file says, who never reads
  phase, asked,           \* the session, and what it takes the request for
  peer,                   \* whom socket_D is connected to
  replies,                \* the codes the source has been sent
  taken,                  \* pieces of the source read as its request
  sent,                   \* pieces sent,
  inq,                    \* still to be read by the session,
  buf, rd,                \* in its buffer, and what it is doing about this way,
  outq,                   \* written, still to be read by the receiver,
  got,                    \* and read by it
  fin, gone               \* who sends no more, who is not there any more

world == <<req, conf, deaf>>
session == <<phase, asked, peer, replies, taken, rd>>
vars == <<world, session, sent, inq, buf, outq, got, fin, gone>>

Pieces == 1 .. Most("up") + Most("down")

TypeOK ==
  /\ req \in Requests /\ conf \in Confs /\ deaf \in SUBSET MayBeDeaf
  /\ phase \in {"accept", "request", "connect", "accepting", "reply", "refuse",
                "relay", "ended"}
  /\ asked \in Requests \cup {NoRequest}
  /\ phase \in {"connect", "accepting", "reply", "refuse", "relay"} => asked # NoRequest
  /\ peer \in Address \cup {NoAddr}
  /\ replies \in Seq({ACCEPT, REJECT})
  /\ taken \in Nat
  /\ sent \in [Ways -> Nat] /\ \A w \in Ways : sent[w] <= Most(w)
  /\ inq \in [Ways -> Seq(Pieces)]
  /\ buf \in [Ways -> Seq(Pieces)]
  /\ outq \in [Ways -> Seq(Pieces)] /\ \A w \in Ways : Len(outq[w]) <= Capacity
  /\ got \in [Ways -> Nat]
  /\ rd \in [Ways -> {"off", "read", "write", "stop"}]
  /\ \A w \in Ways : rd[w] = "write" <=> buf[w] # <<>>
  /\ fin \subseteq Sides /\ gone \subseteq Sides

Nothing == [w \in Ways |-> <<>>]

Init ==
  /\ req \in Requests /\ conf \in Confs /\ deaf \in SUBSET MayBeDeaf
  /\ phase = "accept" /\ asked = NoRequest /\ peer = NoAddr
  /\ replies = <<>> /\ taken = 0
  /\ sent = [w \in Ways |-> 0] /\ got = [w \in Ways |-> 0]
  /\ inq = Nothing /\ buf = Nothing /\ outq = Nothing
  /\ rd = [w \in Ways |-> "off"]
  /\ fin = {} /\ gone = {}

FirstOf(s, k) == SubSeq(s, 1, k)
Without(s, k) == SubSeq(s, k + 1, Len(s))

-----------------------------------------------------------------------------
(* The two sides. *)

Connected(s) == s = "source" \/ peer # NoAddr

Send(s) ==
  LET w == From(s)
  IN  /\ phase # "ended" /\ Connected(s) /\ s \notin fin
      /\ sent[w] < Most(w)
      /\ sent' = [sent EXCEPT ![w] = @ + 1]
      /\ inq' = [inq EXCEPT ![w] = Append(@, sent[w] + 1)]
      /\ UNCHANGED <<world, session, buf, outq, got, fin, gone>>

Receive(s) ==
  LET w == To(s)
  IN  /\ s \notin gone \cup deaf /\ outq[w] # <<>>
      /\ outq' = [outq EXCEPT ![w] = Tail(@)]
      /\ got' = [got EXCEPT ![w] = @ + 1]
      /\ UNCHANGED <<world, session, sent, inq, buf, fin, gone>>

\* One side has sent all it wants to send, and goes on receiving.
Shutdown(s) ==
  /\ phase # "ended" /\ Connected(s) /\ s \notin fin
  /\ fin' = fin \cup {s}
  /\ UNCHANGED <<world, session, sent, inq, buf, outq, got, gone>>

\* One side is gone; what it sent is lost with it if it left anything unread or
\* broke the connection off.
Leave(s) ==
  /\ phase # "ended" /\ Connected(s) /\ s \notin gone
  /\ fin' = fin \cup {s} /\ gone' = gone \cup {s}
  /\ outq' = [outq EXCEPT ![To(s)] = <<>>]
  /\ inq' \in {inq, [inq EXCEPT ![From(s)] = <<>>]}
  /\ UNCHANGED <<world, session, sent, buf, got>>

-----------------------------------------------------------------------------
(* The server and the request. *)

\* The session is over and its sockets are closed.  What a side has sent and
\* nobody has read makes it lose what it has not read itself.
End ==
  /\ phase' = "ended"
  /\ rd' = [w \in Ways |-> "stop"] /\ buf' = Nothing
  /\ \E k \in [Ways -> 0 .. Capacity] :
       /\ \A w \in Ways : IF inq[Other(w)] = <<>> THEN k[w] = Len(outq[w])
                                                  ELSE k[w] <= Len(outq[w])
       /\ outq' = [w \in Ways |-> FirstOf(outq[w], k[w])]

Silence == End /\ UNCHANGED <<asked, peer, replies>>

\* fork, and the child goes on; if there is none, or accept fails, nobody does.
Accept ==
  /\ phase = "accept"
  /\ phase' = "request"
  /\ UNCHANGED <<world, asked, peer, replies, taken, rd, sent, inq, buf, outq, got, fin, gone>>

AcceptFails ==
  /\ phase = "accept"
  /\ Silence
  /\ UNCHANGED <<world, taken, sent, inq, got, fin, gone>>

\* do_FireWall: the four flags are never taken back, so each part may be
\* permitted by another line.  A CD that is neither takes every line.
Applies(rule, r) ==
  CASE r.CD = CONNECT -> rule.cmd = "c"
    [] r.CD = BIND -> rule.cmd = "b"
    [] OTHER -> TRUE
Matches(rule, r, i) == rule.ip[i] \in {Any, r.DSTIP[i]}
do_FireWall(r) ==
  IF \A i \in Parts : \E rule \in conf : Applies(rule, r) /\ Matches(rule, r, i)
  THEN ACCEPT ELSE REJECT

\* A reply reaches the source if it is there.
Reply(code) == replies' = IF "source" \in gone THEN replies ELSE Append(replies, code)

\* The first read is taken for the request, whole or not; what is missing of
\* it is whatever the buffer holds.  With a name instead of an address, the
\* name of the last request is looked up, and there is none: the exception
\* ends the child.
Understood(k) == IF k >= RequestLen THEN {req} ELSE Requests

ReadRequest ==
  /\ phase = "request" /\ inq["up"] # <<>>
  /\ \E k \in 1 .. Len(inq["up"]) : \E r \in Understood(k) :
       /\ taken' = k
       /\ inq' = [inq EXCEPT !["up"] = Without(@, k)]
       /\ asked' = r
       /\ IF r.byName \/ r.VN # 4 \/ (do_FireWall(r) = ACCEPT /\ r.CD \notin {CONNECT, BIND})
          THEN End /\ UNCHANGED replies
          ELSE IF do_FireWall(r) = REJECT
          THEN End /\ Reply(REJECT)
          ELSE /\ phase' = IF r.CD = CONNECT THEN "connect" ELSE "accepting"
               /\ IF r.CD = BIND THEN Reply(ACCEPT) ELSE UNCHANGED replies
               /\ UNCHANGED <<rd, buf, outq>>
  /\ UNCHANGED <<world, peer, sent, got, fin, gone>>

\* Its source broke the connection off since: asking for its address throws.
SourceIsGone ==
  /\ phase = "request" /\ inq["up"] # <<>> /\ "source" \in gone
  /\ \E k \in 1 .. Len(inq["up"]) :
       /\ taken' = k
       /\ inq' = [inq EXCEPT !["up"] = Without(@, k)]
  /\ Silence
  /\ UNCHANGED <<world, sent, got, fin, gone>>

NoRequestComes ==
  /\ phase = "request" /\ inq["up"] = <<>> /\ "source" \in fin
  /\ Silence
  /\ UNCHANGED <<world, taken, sent, inq, got, fin, gone>>

\* connect_session: without a connection there is no reply.
Connect ==
  /\ phase = "connect"
  /\ peer' = asked.DSTIP
  /\ phase' = "reply"
  /\ UNCHANGED <<world, asked, replies, taken, rd, sent, inq, buf, outq, got, fin, gone>>

ConnectFails ==
  /\ phase = "connect"
  /\ Silence
  /\ UNCHANGED <<world, taken, sent, inq, got, fin, gone>>

\* bind_session: whoever connects first is the one, if its address is right.
AnyPeer(a) == TRUE
IsNamed(a) == a = asked.DSTIP

PeerConnects ==
  /\ phase = "accepting"
  /\ \E a \in Address :
       /\ peer' = a
       /\ phase' = IF IsNamed(a) THEN "reply" ELSE "refuse"
  /\ UNCHANGED <<world, asked, replies, taken, rd, sent, inq, buf, outq, got, fin, gone>>

\* accept fails, or the one who came is gone before it is asked for its address.
PeerIsGone ==
  /\ phase = "accepting"
  /\ Silence
  /\ UNCHANGED <<world, taken, sent, inq, got, fin, gone>>

-----------------------------------------------------------------------------
(* The relay. *)

\* The reply is out and both ways are opened, or it cannot be sent.
Granted ==
  /\ phase = "reply"
  /\ Reply(ACCEPT)
  /\ phase' = "relay"
  /\ rd' = [w \in Ways |-> "read"]
  /\ UNCHANGED <<world, asked, peer, taken, sent, inq, buf, outq, got, fin, gone>>

ReplyFails ==
  /\ phase = "reply" /\ "source" \in gone
  /\ Silence
  /\ UNCHANGED <<world, taken, sent, inq, got, fin, gone>>

Refused ==
  /\ phase = "refuse"
  /\ Reply(REJECT) /\ End
  /\ UNCHANGED <<world, asked, peer, taken, sent, inq, got, fin, gone>>

\* async_read_some, then async_write of all of it, then the next read.
Read(w) ==
  /\ rd[w] = "read" /\ inq[w] # <<>>
  /\ \E k \in 1 .. Len(inq[w]) :
       /\ k <= BufferLen
       /\ buf' = [buf EXCEPT ![w] = FirstOf(inq[w], k)]
       /\ inq' = [inq EXCEPT ![w] = Without(@, k)]
  /\ rd' = [rd EXCEPT ![w] = "write"]
  /\ UNCHANGED <<world, phase, asked, peer, replies, taken, sent, outq, got, fin, gone>>

\* The next read waits until all of the buffer is written.
AtOnce(rest) == "read"
Never(rest) == IF rest = <<>> THEN "stop" ELSE "write"
AfterWrite(rest) == IF rest = <<>> THEN "read" ELSE "write"

Write(w) ==
  /\ rd[w] = "write"
  /\ IF Receiver(w) \in gone
     THEN /\ buf' = [buf EXCEPT ![w] = <<>>]
          /\ rd' = [rd EXCEPT ![w] = "read"]
          /\ UNCHANGED outq
     ELSE /\ Len(outq[w]) < Capacity
          /\ outq' = [outq EXCEPT ![w] = Append(@, Head(buf[w]))]
          /\ buf' = [buf EXCEPT ![w] = Tail(@)]
          /\ rd' = [rd EXCEPT ![w] = AfterWrite(Tail(buf[w]))]
  /\ UNCHANGED <<world, phase, asked, peer, replies, taken, sent, inq, got, fin, gone>>

\* One way stops: with CONNECT the other goes on, and the session ends with
\* it; with BIND a read that fails closes both sockets.
Stop(w, both) ==
  IF both \/ rd[Other(w)] = "stop"
  THEN End
  ELSE /\ rd' = [rd EXCEPT ![w] = "stop"]
       /\ buf' = [buf EXCEPT ![w] = <<>>]
       /\ UNCHANGED <<phase, outq>>

WriteFails(w) ==
  /\ rd[w] = "write" /\ Receiver(w) \in gone
  /\ Stop(w, FALSE)
  /\ UNCHANGED <<world, asked, peer, replies, taken, sent, inq, got, fin, gone>>

ReadEnds(w) ==
  /\ rd[w] = "read" /\ inq[w] = <<>> /\ Sender(w) \in fin
  /\ Stop(w, asked.CD = BIND)
  /\ UNCHANGED <<world, asked, peer, replies, taken, sent, inq, got, fin, gone>>

-----------------------------------------------------------------------------
Server ==
  \/ Accept \/ ReadRequest \/ NoRequestComes \/ Granted \/ ReplyFails \/ Refused
  \/ Connect \/ ConnectFails
Relay(w) == Read(w) \/ Write(w) \/ WriteFails(w) \/ ReadEnds(w)

Next ==
  \/ Server \/ AcceptFails \/ SourceIsGone \/ PeerConnects \/ PeerIsGone
  \/ \E w \in Ways : Relay(w)
  \/ \E s \in Sides : Send(s) \/ Receive(s) \/ Shutdown(s) \/ Leave(s)

\* The server handles what is ready; who is not deaf reads what has come.
Spec ==
  /\ Init /\ [][Next]_vars
  /\ WF_vars(Server)
  /\ \A w \in Ways : WF_vars(Relay(w))
  /\ \A s \in Sides : WF_vars(Receive(s))

-----------------------------------------------------------------------------
(* Properties *)

\* Each way of the connection is as the abstract specification has it: the one
\* buffer of a way is never overwritten or sent twice, nothing is relayed
\* before the request is granted (socks_server.cpp:308-362, 176-245).
Over(w) == phase = "ended" \/ rd[w] = "stop"
OnItsWay(w) ==
  IF Receiver(w) \in gone THEN <<>>
  ELSE IF Over(w) THEN outq[w] ELSE outq[w] \o buf[w] \o inq[w]
WayState(w) ==
  CASE Over(w) -> "over"
    [] ~Over(w) /\ asked = NoRequest -> "asking"
    [] ~Over(w) /\ phase = "relay" -> "open"
    [] OTHER -> "asked"

Up == INSTANCE RelayPromise WITH
        queue <- OnItsWay("up"), state <- WayState("up"), broken <- gone # {}
Down == INSTANCE RelayPromise WITH
          queue <- OnItsWay("down"), state <- WayState("down"), broken <- gone # {}
KeepsPromise == Up!Spec /\ Down!Spec

\* When the request has been read in one piece, who is connected to the source
\* is whom it named, and an address that a line of socks.conf permits is not
\* refused.  Only a third party that connects first may spoil a BIND
\* (socks_server.cpp:107-149, 247-261, 444-463).
Whole == taken >= RequestLen
Permitted(r) ==
  \E rule \in conf : Applies(rule, r) /\ \A i \in Parts : Matches(rule, r, i)

AsAsked ==
  Whole =>
    /\ phase = "relay" \/ got["down"] > 0 \/ got["up"] > 0
         => peer = req.DSTIP /\ req.VN = 4 /\ req.CD \in {CONNECT, BIND}
    /\ REJECT \in {replies[i] : i \in DOMAIN replies}
         => ~Permitted(req) \/ (req.CD = BIND /\ peer # req.DSTIP)

\* What is sent once the connection is granted arrives, even when the other way
\* is stuck because its receiver never reads, and also when the sender has
\* ended its stream since; with BIND the end of one stream ends both, so the
\* receiver must not end or use its own (socks_server.cpp:308-350, 176-230).
Count(w) == IF w = "up" THEN sent[w] - taken ELSE sent[w]
Arrives(w) ==
  /\ gone = {} /\ Receiver(w) \notin deaf
  /\ asked # NoRequest /\ asked.CD = BIND => Receiver(w) \notin fin /\ Count(Other(w)) = 0

Delivered ==
  \A w \in Ways : \A n \in 1 .. MaxSent[w] :
    phase = "relay" /\ Count(w) = n /\ Arrives(w) ~> got[w] >= n \/ ~Arrives(w)
=============================================================================
