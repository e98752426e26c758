---------------------------- MODULE SocksTheorems ----------------------------
(***************************************************************************)
(* Theorems about the SOCKS server, for all addresses, requests, files of  *)
(* rules, and lengths of streams and buffers.                              *)
(***************************************************************************)
EXTENDS Socks, SequenceTheorems, TLAPS

LEMMA FirstOfProperties ==
  ASSUME NEW S, NEW s \in Seq(S), NEW k \in 0 .. Len(s)
  PROVE  FirstOf(s, k) \in Seq(S) /\ Len(FirstOf(s, k)) = k
<1>1. Len(s) \in Nat /\ 1 \in Int /\ k \in Int /\ \A i \in 1 .. k : s[i] \in S
  OBVIOUS
<1>2. FirstOf(s, k) \in Seq(S) /\ Len(FirstOf(s, k)) = IF 1 <= k THEN k - 1 + 1 ELSE 0
  BY <1>1, SubSeqProperties, Z3 DEF FirstOf
<1> QED
  BY <1>1, <1>2

LEMMA WithoutProperties ==
  ASSUME NEW S, NEW s \in Seq(S), NEW k \in 0 .. Len(s)
  PROVE  Without(s, k) \in Seq(S) /\ Len(Without(s, k)) = Len(s) - k
<1>1. Len(s) \in Nat /\ k + 1 \in Int /\ \A i \in k + 1 .. Len(s) : s[i] \in S
  OBVIOUS
<1>2. /\ Without(s, k) \in Seq(S)
      /\ Len(Without(s, k)) = IF k + 1 <= Len(s) THEN Len(s) - (k + 1) + 1 ELSE 0
  BY <1>1, SubSeqProperties, Z3 DEF Without
<1> QED
  BY <1>1, <1>2

\* What the end of the session leaves on its way.
LEMMA EndTypes ==
  ASSUME TypeOK, End
  PROVE  /\ phase' = "ended"
         /\ rd' = [w \in Ways |-> "stop"] /\ buf' = Nothing
         /\ outq' \in [Ways -> Seq(Pieces)]
         /\ \A w \in Ways : Len(outq'[w]) <= Len(outq[w])
<1>1. PICK k \in [Ways -> 0 .. Capacity] :
        /\ \A w \in Ways : k[w] <= Len(outq[w])
        /\ outq' = [w \in Ways |-> FirstOf(outq[w], k[w])]
  <2>1. \A w \in Ways : Len(outq[w]) \in Nat
    BY DEF TypeOK
  <2>2. PICK k \in [Ways -> 0 .. Capacity] :
          /\ \A w \in Ways : IF inq[Other(w)] = <<>> THEN k[w] = Len(outq[w])
                                                     ELSE k[w] <= Len(outq[w])
          /\ outq' = [w \in Ways |-> FirstOf(outq[w], k[w])]
    BY DEF End
  <2>3. \A w \in Ways : k[w] <= Len(outq[w])
    BY <2>1, <2>2
  <2> QED
    BY <2>2, <2>3
<1>2. ASSUME NEW w \in Ways
      PROVE  /\ FirstOf(outq[w], k[w]) \in Seq(Pieces)
             /\ Len(FirstOf(outq[w], k[w])) <= Len(outq[w])
  <2>1. outq[w] \in Seq(Pieces) /\ Len(outq[w]) \in Nat /\ k[w] \in 0 .. Len(outq[w])
    BY <1>1, SocksAssumption DEF TypeOK
  <2> QED
    BY <2>1, FirstOfProperties
<1> QED
  BY <1>1, <1>2 DEF End

\* Nothing is relayed before the request is granted.
Quiet ==
  phase \notin {"relay", "ended"} =>
    \A w \in Ways : rd[w] = "off" /\ buf[w] = <<>> /\ outq[w] = <<>> /\ got[w] = 0

\* Every variable has its type, and what a way does is in step with its buffer,
\* which is empty when the ways are opened.
THEOREM TypeCorrect == Spec => [](TypeOK /\ Quiet)
<1>1. Init => TypeOK /\ Quiet
  <2> SUFFICES ASSUME Init PROVE TypeOK /\ Quiet
    OBVIOUS
  <2>1. \A w \in Ways : Most(w) \in Nat
    BY SocksAssumption DEF Most, Ways
  <2> QED
    BY <2>1, SocksAssumption DEF Init, TypeOK, Quiet, Nothing
<1>2. TypeOK /\ Quiet /\ [Next]_vars => TypeOK'
  <2> SUFFICES ASSUME TypeOK, Quiet, [Next]_vars
               PROVE  TypeOK'
    OBVIOUS
  <2> USE SocksAssumption DEF world, session
  <2>a. \A w \in Ways : Most(w) \in Nat /\ Other(w) \in Ways /\ 1 .. Most(w) \subseteq Pieces
    BY DEF Most, Ways, Other, Pieces
  <2>b. \A s \in Sides : From(s) \in Ways /\ To(s) \in Ways
    BY DEF Ways, From, To
  <2>r. ASSUME NEW code \in {ACCEPT, REJECT}, Reply(code)
        PROVE  replies' \in Seq({ACCEPT, REJECT})
    BY <2>r DEF Reply, TypeOK
  <2>e. ASSUME End, UNCHANGED <<world, sent, got>>,
               asked' \in Requests \cup {NoRequest}, peer' \in Address \cup {NoAddr},
               replies' \in Seq({ACCEPT, REJECT}), taken' \in Nat,
               inq' \in [Ways -> Seq(Pieces)], fin' \subseteq Sides, gone' \subseteq Sides
        PROVE  TypeOK'
    <3>1. \A w \in Ways : Len(outq[w]) \in Nat /\ Len(outq[w]) <= Capacity
      BY DEF TypeOK
    <3>2. /\ phase' = "ended" /\ rd' = [w \in Ways |-> "stop"] /\ buf' = Nothing
          /\ outq' \in [Ways -> Seq(Pieces)]
          /\ \A w \in Ways : Len(outq'[w]) <= Len(outq[w])
      BY <2>e, EndTypes
    <3>3. \A w \in Ways : Len(outq'[w]) <= Capacity
      <4> TAKE w \in Ways
      <4>1. outq'[w] \in Seq(Pieces)
        BY <3>2
      <4>2. Len(outq'[w]) \in Nat
        BY <4>1
      <4> QED
        BY <3>1, <3>2, <4>2
    <3>4. /\ rd' \in [Ways -> {"off", "read", "write", "stop"}]
          /\ buf' \in [Ways -> Seq(Pieces)]
          /\ \A w \in Ways : rd'[w] = "write" <=> buf'[w] # <<>>
      BY <3>2 DEF Nothing
    <3> QED
      BY <2>e, <3>2, <3>3, <3>4 DEF TypeOK
  <2>1. ASSUME NEW s \in Sides, Send(s) PROVE TypeOK'
    <3> DEFINE w == From(s)
    <3>1. /\ w \in Ways /\ sent[w] < Most(w)
          /\ sent' = [sent EXCEPT ![w] = sent[w] + 1]
          /\ inq' = [inq EXCEPT ![w] = Append(inq[w], sent[w] + 1)]
          /\ UNCHANGED <<world, session, buf, outq, got, fin, gone>>
      BY <2>1, <2>b DEF Send
    <3> HIDE DEF w
    <3>2. sent \in [Ways -> Nat] /\ inq \in [Ways -> Seq(Pieces)] /\ Most(w) \in Nat
      BY <2>a, <3>1 DEF TypeOK
    <3>3. sent[w] + 1 \in 1 .. Most(w)
      BY <3>1, <3>2
    <3>4. Append(inq[w], sent[w] + 1) \in Seq(Pieces)
      BY <2>a, <3>1, <3>2, <3>3
    <3>5. sent' \in [Ways -> Nat] /\ inq' \in [Ways -> Seq(Pieces)]
      BY <3>1, <3>2, <3>3, <3>4
    <3>6. \A v \in Ways : sent'[v] <= Most(v)
      BY <3>1, <3>2, <3>3 DEF TypeOK
    <3> QED
      BY <3>1, <3>5, <3>6 DEF TypeOK
  <2>2. ASSUME NEW s \in Sides, Receive(s) PROVE TypeOK'
    <3> DEFINE w == To(s)
    <3>1. /\ w \in Ways /\ outq[w] # <<>>
          /\ outq' = [outq EXCEPT ![w] = Tail(outq[w])]
          /\ got' = [got EXCEPT ![w] = got[w] + 1]
          /\ UNCHANGED <<world, session, sent, inq, buf, fin, gone>>
      BY <2>2, <2>b DEF Receive
    <3> HIDE DEF w
    <3>2. outq \in [Ways -> Seq(Pieces)] /\ \A v \in Ways : Len(outq[v]) <= Capacity
      BY DEF TypeOK
    <3>3. /\ Tail(outq[w]) \in Seq(Pieces) /\ Len(outq[w]) \in Nat
          /\ Len(Tail(outq[w])) = Len(outq[w]) - 1
      BY <3>1, <3>2, HeadTailProperties
    <3>4. outq' \in [Ways -> Seq(Pieces)] /\ \A v \in Ways : Len(outq'[v]) <= Capacity
      BY <3>1, <3>2, <3>3
    <3>5. got' \in [Ways -> Nat]
      BY <3>1 DEF TypeOK
    <3> QED
      BY <3>1, <3>4, <3>5 DEF TypeOK
  <2>3. ASSUME NEW s \in Sides, Shutdown(s) PROVE TypeOK'
    BY <2>3 DEF Shutdown, TypeOK
  <2>4. ASSUME NEW s \in Sides, Leave(s) PROVE TypeOK'
    <3>0. /\ outq \in [Ways -> Seq(Pieces)] /\ inq \in [Ways -> Seq(Pieces)]
          /\ \A w \in Ways : Len(outq[w]) <= Capacity
          /\ <<>> \in Seq(Pieces) /\ Len(<<>>) <= Capacity
      BY DEF TypeOK
    <3>1. outq' \in [Ways -> Seq(Pieces)] /\ \A w \in Ways : Len(outq'[w]) <= Capacity
      BY <2>4, <2>b, <3>0 DEF Leave
    <3>2. inq' \in [Ways -> Seq(Pieces)]
      BY <2>4, <2>b, <3>0 DEF Leave
    <3> QED
      BY <2>4, <3>1, <3>2 DEF Leave, TypeOK
  <2>5. CASE Accept
    BY <2>5 DEF Accept, TypeOK
  <2>6. CASE AcceptFails \/ PeerIsGone \/ NoRequestComes \/ ConnectFails \/ ReplyFails
    BY <2>6, <2>e DEF AcceptFails, PeerIsGone, NoRequestComes, ConnectFails,
                  ReplyFails, Silence, TypeOK
  <2>7. CASE ReadRequest
    <3>1. "up" \in Ways
      BY DEF Ways
    <3>2. PICK k \in 1 .. Len(inq["up"]) : \E r \in Understood(k) :
            /\ taken' = k
            /\ inq' = [inq EXCEPT !["up"] = Without(@, k)]
            /\ asked' = r
            /\ \/ End /\ UNCHANGED replies
               \/ End /\ Reply(REJECT)
               \/ /\ phase' \in {"connect", "accepting"}
                  /\ Reply(ACCEPT) \/ UNCHANGED replies
                  /\ UNCHANGED <<rd, buf, outq>>
      BY <2>7 DEF ReadRequest
    <3>3. inq["up"] \in Seq(Pieces) /\ k \in 0 .. Len(inq["up"])
      BY <3>1, <3>2 DEF TypeOK
    <3>4. inq' \in [Ways -> Seq(Pieces)]
      BY <3>1, <3>2, <3>3, WithoutProperties DEF TypeOK
    <3>5. k \in Nat /\ asked' \in Requests /\ asked' # NoRequest
      BY <3>2, <3>3 DEF Understood, TypeOK
    <3>6. replies' \in Seq({ACCEPT, REJECT})
      BY <3>2, <2>r DEF TypeOK
    <3>7. UNCHANGED <<world, peer, sent, got, fin, gone>>
      BY <2>7 DEF ReadRequest
    <3>8. CASE End
      BY <2>e, <3>2, <3>4, <3>5, <3>6, <3>7, <3>8 DEF TypeOK
    <3>9. CASE ~End
      BY <3>2, <3>4, <3>5, <3>6, <3>7, <3>9 DEF TypeOK
    <3> QED
      BY <3>8, <3>9
  <2>16. CASE SourceIsGone
    <3>1. "up" \in Ways
      BY DEF Ways
    <3>2. PICK k \in 1 .. Len(inq["up"]) :
            taken' = k /\ inq' = [inq EXCEPT !["up"] = Without(@, k)]
      BY <2>16 DEF SourceIsGone
    <3>3. inq["up"] \in Seq(Pieces) /\ k \in 0 .. Len(inq["up"])
      BY <3>1, <3>2 DEF TypeOK
    <3>4. inq' \in [Ways -> Seq(Pieces)] /\ taken' \in Nat
      BY <3>1, <3>2, <3>3, WithoutProperties DEF TypeOK
    <3>5. End /\ UNCHANGED <<world, asked, peer, replies, sent, got, fin, gone>>
      BY <2>16 DEF SourceIsGone, Silence
    <3> QED
      BY <2>e, <3>4, <3>5 DEF TypeOK
  <2>8. CASE Connect
    BY <2>8 DEF Connect, TypeOK, Request
  <2>9. CASE PeerConnects
    BY <2>9 DEF PeerConnects, TypeOK
  <2>10. CASE Granted
    <3>1. replies' \in Seq({ACCEPT, REJECT})
      BY <2>10, <2>r DEF Granted
    <3>2. /\ phase' = "relay" /\ rd' = [v \in Ways |-> "read"]
          /\ UNCHANGED <<world, asked, peer, taken, sent, inq, buf, outq, got, fin, gone>>
      BY <2>10 DEF Granted
    <3>3. asked # NoRequest /\ \A v \in Ways : buf[v] = <<>>
      BY <2>10 DEF Granted, TypeOK, Quiet
    <3> QED
      BY <3>1, <3>2, <3>3 DEF TypeOK
  <2>11. CASE Refused
    <3>1. replies' \in Seq({ACCEPT, REJECT})
      BY <2>11, <2>r DEF Refused
    <3> QED
      BY <2>11, <2>e, <3>1 DEF Refused, TypeOK
  <2>12. ASSUME NEW w \in Ways, Read(w) PROVE TypeOK'
    <3>1. PICK k \in 1 .. Len(inq[w]) :
            /\ buf' = [buf EXCEPT ![w] = FirstOf(inq[w], k)]
            /\ inq' = [inq EXCEPT ![w] = Without(@, k)]
      BY <2>12 DEF Read
    <3>2. inq[w] \in Seq(Pieces) /\ k \in 0 .. Len(inq[w]) /\ k # 0
      BY <3>1 DEF TypeOK
    <3>3. /\ FirstOf(inq[w], k) \in Seq(Pieces) /\ FirstOf(inq[w], k) # <<>>
          /\ Without(inq[w], k) \in Seq(Pieces)
      BY <3>2, FirstOfProperties, WithoutProperties
    <3>4. inq' \in [Ways -> Seq(Pieces)] /\ buf' \in [Ways -> Seq(Pieces)]
      BY <3>1, <3>3 DEF TypeOK
    <3>5. \A v \in Ways : rd'[v] = "write" <=> buf'[v] # <<>>
      BY <2>12, <3>1, <3>3 DEF Read, TypeOK
    <3> QED
      BY <2>12, <3>4, <3>5 DEF Read, TypeOK
  <2>13. ASSUME NEW w \in Ways, Write(w) PROVE TypeOK'
    <3> DEFINE Doing == {"off", "read", "write", "stop"}
    <3>1. /\ buf \in [Ways -> Seq(Pieces)] /\ outq \in [Ways -> Seq(Pieces)]
          /\ rd \in [Ways -> Doing] /\ \A v \in Ways : Len(outq[v]) <= Capacity
          /\ \A v \in Ways : rd[v] = "write" <=> buf[v] # <<>>
      BY DEF TypeOK
    <3>2. /\ UNCHANGED <<world, phase, asked, peer, replies, taken, sent, inq, got, fin, gone>>
          /\ buf[w] # <<>>
      BY <2>13, <3>1 DEF Write
    <3>3. /\ Head(buf[w]) \in Pieces /\ Tail(buf[w]) \in Seq(Pieces)
          /\ Len(outq[w]) \in Nat /\ outq[w] \in Seq(Pieces)
      BY <3>1, <3>2, HeadTailProperties
    <3>4. /\ outq' \in [Ways -> Seq(Pieces)] /\ buf' \in [Ways -> Seq(Pieces)]
          /\ rd' \in [Ways -> Doing] /\ \A v \in Ways : Len(outq'[v]) <= Capacity
          /\ \A v \in Ways : rd'[v] = "write" <=> buf'[v] # <<>>
      <4>1. CASE Receiver(w) \in gone
        <5>1. /\ buf' = [buf EXCEPT ![w] = <<>>] /\ rd' = [rd EXCEPT ![w] = "read"]
              /\ outq' = outq /\ <<>> \in Seq(Pieces)
          BY <2>13, <4>1 DEF Write
        <5> QED
          BY <3>1, <5>1
      <4>2. CASE Receiver(w) \notin gone
        <5> DEFINE q == Append(outq[w], Head(buf[w]))
                   rest == Tail(buf[w])
        <5>1. /\ Len(outq[w]) < Capacity
              /\ outq' = [outq EXCEPT ![w] = q] /\ buf' = [buf EXCEPT ![w] = rest]
              /\ rd' = [rd EXCEPT ![w] = AfterWrite(rest)]
          BY <2>13, <4>2 DEF Write
        <5>2. q \in Seq(Pieces) /\ Len(q) = Len(outq[w]) + 1
          BY <3>3
        <5>3. Len(q) <= Capacity
          BY <3>3, <5>1, <5>2
        <5>4. AfterWrite(rest) \in Doing /\ (AfterWrite(rest) = "write" <=> rest # <<>>)
          BY DEF AfterWrite
        <5> HIDE DEF q, rest, Doing
        <5>5. outq' \in [Ways -> Seq(Pieces)] /\ \A v \in Ways : Len(outq'[v]) <= Capacity
          BY <3>1, <5>1, <5>2, <5>3
        <5>6. buf' \in [Ways -> Seq(Pieces)] /\ rd' \in [Ways -> Doing]
          BY <3>1, <3>3, <5>1, <5>4 DEF rest
        <5>7. \A v \in Ways : rd'[v] = "write" <=> buf'[v] # <<>>
          BY <3>1, <5>1, <5>4
        <5> QED
          BY <5>5, <5>6, <5>7
      <4> QED
        BY <4>1, <4>2
    <3> QED
      BY <3>2, <3>4 DEF TypeOK
  <2>14. ASSUME NEW w \in Ways, WriteFails(w) \/ ReadEnds(w) PROVE TypeOK'
    <3>1. UNCHANGED <<world, asked, peer, replies, taken, sent, inq, got, fin, gone>>
      BY <2>14 DEF WriteFails, ReadEnds
    <3>2. CASE End
      BY <2>e, <3>1, <3>2 DEF TypeOK
    <3>3. CASE ~End
      <4>1. /\ rd' = [rd EXCEPT ![w] = "stop"] /\ buf' = [buf EXCEPT ![w] = <<>>]
            /\ UNCHANGED <<phase, outq>>
        BY <2>14, <3>3 DEF WriteFails, ReadEnds, Stop
      <4>2. /\ rd' \in [Ways -> {"off", "read", "write", "stop"}]
            /\ buf' \in [Ways -> Seq(Pieces)]
            /\ \A v \in Ways : rd'[v] = "write" <=> buf'[v] # <<>>
        <5>1. /\ rd \in [Ways -> {"off", "read", "write", "stop"}]
              /\ buf \in [Ways -> Seq(Pieces)] /\ <<>> \in Seq(Pieces)
              /\ \A v \in Ways : rd[v] = "write" <=> buf[v] # <<>>
          BY DEF TypeOK
        <5> QED
          BY <4>1, <5>1
      <4> QED
        BY <3>1, <4>1, <4>2 DEF TypeOK
    <3> QED
      BY <3>2, <3>3
  <2>15. CASE UNCHANGED vars
    BY <2>15 DEF vars, TypeOK
  <2> QED
    BY <2>1, <2>2, <2>3, <2>4, <2>5, <2>6, <2>7, <2>8, <2>9, <2>10, <2>11, <2>12, <2>13,
       <2>14, <2>15, <2>16 DEF Next, Server, Relay
<1>3. TypeOK /\ Quiet /\ [Next]_vars => Quiet'
  <2> SUFFICES ASSUME TypeOK, Quiet, [Next]_vars, phase' \notin {"relay", "ended"}
               PROVE  \A w \in Ways : /\ rd'[w] = "off" /\ buf'[w] = <<>>
                                       /\ outq'[w] = <<>> /\ got'[w] = 0
    BY DEF Quiet
  <2>a. \A s \in Sides : To(s) \in Ways
    BY DEF Ways, To
  <2>1. ASSUME NEW s \in Sides, Send(s) \/ Receive(s) \/ Shutdown(s) \/ Leave(s)
        PROVE  /\ UNCHANGED <<phase, rd, buf>>
               /\ \A w \in Ways : outq[w] = <<>> /\ got[w] = 0 => outq'[w] = <<>> /\ got'[w] = 0
    <3>1. CASE Receive(s)
      BY <2>a, <3>1 DEF Receive, session, TypeOK
    <3>2. CASE Leave(s)
      BY <2>a, <3>2 DEF Leave, session, TypeOK
    <3>3. CASE Send(s) \/ Shutdown(s)
      BY <3>3 DEF Send, Shutdown, session
    <3> QED
      BY <2>1, <3>1, <3>2, <3>3
  <2>2. ASSUME NEW w \in Ways, Relay(w) PROVE phase' \in {"relay", "ended"}
    <3>1. rd[w] # "off"
      BY <2>2 DEF Relay, Read, Write, WriteFails, ReadEnds
    <3>2. phase \in {"relay", "ended"}
      BY <3>1 DEF Quiet
    <3>3. phase' = phase \/ phase' = "ended"
      BY <2>2 DEF Relay, Read, Write, WriteFails, ReadEnds, Stop, End
    <3> QED
      BY <3>2, <3>3
  <2>3. CASE Server \/ AcceptFails \/ SourceIsGone \/ PeerConnects \/ PeerIsGone
    <3>1. phase' # "ended" => phase \notin {"relay", "ended"} /\ UNCHANGED <<rd, buf, outq, got>>
      BY <2>3 DEF Server, Accept, ReadRequest, NoRequestComes, Granted, ReplyFails, Refused,
                  Connect, ConnectFails, AcceptFails, SourceIsGone, PeerConnects, PeerIsGone,
                  Silence, End
    <3> QED
      BY <3>1 DEF Quiet
  <2>4. CASE UNCHANGED vars
    BY <2>4 DEF vars, session, Quiet
  <2>5. CASE \E s \in Sides : Send(s) \/ Receive(s) \/ Shutdown(s) \/ Leave(s)
    BY <2>1, <2>5 DEF Quiet
  <2> QED
    BY <2>2, <2>3, <2>4, <2>5 DEF Next
<1> QED
  BY <1>1, <1>2, <1>3, PTL DEF Spec

-----------------------------------------------------------------------------
\* What a session in its phase knows of the request and of its peer.
Negotiated ==
  /\ phase \in {"accept", "request"} => asked = NoRequest
  /\ Whole /\ asked # NoRequest => asked = req
  /\ phase \in {"connect", "accepting", "reply", "refuse", "relay"}
       => asked.VN = 4 /\ asked.CD \in {CONNECT, BIND}
  /\ phase \in {"accepting", "refuse"} => asked.CD = BIND
  /\ phase \in {"reply", "relay"} => peer = asked.DSTIP
  /\ phase = "refuse" => peer # asked.DSTIP

\* A way in use has a connection with the peer the request names.
InUse(w) == rd[w] \in {"read", "write"} \/ outq[w] # <<>> \/ got[w] > 0
Connection ==
  asked # NoRequest /\ asked.VN = 4 /\ asked.CD \in {CONNECT, BIND} /\ peer = asked.DSTIP
Confined == \A w \in Ways : InUse(w) => Connection

\* A request is refused once, for a reason.
Refusals == REJECT \in {replies[i] : i \in DOMAIN replies}
Justified ==
  Refusals =>
    /\ phase = "ended" /\ asked # NoRequest
    /\ ~Permitted(asked) \/ (asked.CD = BIND /\ peer # asked.DSTIP)

LEMMA NegotiatedStep ==
  TypeOK /\ Quiet /\ Negotiated /\ [Next]_vars => Negotiated'
<1> SUFFICES ASSUME TypeOK, Quiet, Negotiated, [Next]_vars
             PROVE  Negotiated'
  OBVIOUS
<1> USE DEF world, session
<1>1. ASSUME NEW s \in Sides, Send(s) \/ Receive(s) \/ Shutdown(s) \/ Leave(s)
      PROVE  Negotiated'
  BY <1>1 DEF Send, Receive, Shutdown, Leave, Negotiated, Whole
<1>2. ASSUME NEW w \in Ways, Relay(w) PROVE Negotiated'
  <2>1. UNCHANGED <<world, asked, peer, taken>> /\ (phase' = phase \/ phase' = "ended")
    BY <1>2 DEF Relay, Read, Write, WriteFails, ReadEnds, Stop, End
  <2> QED
    BY <2>1 DEF Negotiated, Whole
<1>3. CASE AcceptFails \/ SourceIsGone \/ PeerIsGone \/ NoRequestComes
              \/ ConnectFails \/ ReplyFails \/ Refused
  <2>1. /\ UNCHANGED <<world, asked, peer>> /\ phase' = "ended"
        /\ taken' = taken \/ asked = NoRequest
    BY <1>3 DEF Negotiated, AcceptFails, SourceIsGone, PeerIsGone, NoRequestComes, ConnectFails,
                ReplyFails, Refused, Silence, End
  <2> QED
    BY <2>1 DEF Negotiated, Whole
<1>4. CASE Accept
  BY <1>4 DEF Accept, Negotiated, Whole
<1>5. CASE ReadRequest
  <2>1. PICK k \in 1 .. Len(inq["up"]) : \E r \in Understood(k) :
          /\ taken' = k /\ asked' = r
          /\ \/ End
             \/ /\ r.VN = 4 /\ ~(do_FireWall(r) = ACCEPT /\ r.CD \notin {CONNECT, BIND})
                /\ do_FireWall(r) # REJECT
                /\ phase' = IF r.CD = CONNECT THEN "connect" ELSE "accepting"
    BY <1>5 DEF ReadRequest
  <2>2. PICK r \in Understood(k) :
          /\ taken' = k /\ asked' = r
          /\ \/ phase' = "ended"
             \/ /\ r.VN = 4 /\ r.CD \in {CONNECT, BIND}
                /\ phase' = IF r.CD = CONNECT THEN "connect" ELSE "accepting"
    BY <2>1 DEF End, do_FireWall
  <2>3. k >= RequestLen => r = req
    BY DEF Understood
  <2>4. req' = req
    BY <1>5 DEF ReadRequest
  <2> QED
    BY <2>2, <2>3, <2>4 DEF Negotiated, Whole, CONNECT, BIND
<1>6. CASE Connect
  BY <1>6 DEF Connect, Negotiated, Whole
<1>7. CASE PeerConnects
  BY <1>7 DEF PeerConnects, IsNamed, Negotiated, Whole
<1>8. CASE Granted
  BY <1>8 DEF Granted, Negotiated, Whole
<1>9. CASE UNCHANGED vars
  BY <1>9 DEF vars, Negotiated, Whole
<1> QED
  BY <1>1, <1>2, <1>3, <1>4, <1>5, <1>6, <1>7, <1>8, <1>9 DEF Next, Server

LEMMA ConfinedStep ==
  TypeOK /\ Quiet /\ Negotiated /\ Confined /\ [Next]_vars => Confined'
<1> SUFFICES ASSUME TypeOK, Quiet, Negotiated, Confined, [Next]_vars,
                    NEW w \in Ways, InUse(w)'
             PROVE  Connection'
  BY DEF Confined
<1> USE DEF world, session
<1>a. \A s \in Sides : To(s) \in Ways
  BY DEF Ways, To
<1>b. ASSUME UNCHANGED <<asked, peer>>, InUse(w) PROVE Connection'
  BY <1>b DEF Confined, Connection
<1>c. ASSUME UNCHANGED <<asked, peer, got>>, End PROVE Connection'
  <2>1. /\ rd'[w] = "stop" /\ outq'[w] \in Seq(Pieces) /\ Len(outq'[w]) <= Len(outq[w])
        /\ outq[w] \in Seq(Pieces)
    BY <1>c, EndTypes DEF TypeOK
  <2>2. outq'[w] # <<>> => outq[w] # <<>>
    BY <2>1
  <2> QED
    BY <1>b, <1>c, <2>1, <2>2 DEF InUse
<1>1. ASSUME NEW s \in Sides, Send(s) \/ Receive(s) \/ Shutdown(s) \/ Leave(s)
      PROVE  Connection'
  <2>1. UNCHANGED <<asked, peer, rd>>
    BY <1>1 DEF Send, Receive, Shutdown, Leave
  <2>2. CASE Receive(s)
    BY <1>a, <1>b, <2>1, <2>2 DEF Receive, InUse, TypeOK
  <2>3. CASE Leave(s)
    BY <1>a, <1>b, <2>1, <2>3 DEF Leave, InUse, TypeOK
  <2>4. CASE Send(s) \/ Shutdown(s)
    BY <1>b, <2>1, <2>4 DEF Send, Shutdown, InUse
  <2> QED
    BY <1>1, <2>2, <2>3, <2>4
<1>2. ASSUME NEW v \in Ways, Relay(v) PROVE Connection'
  <2>1. rd[v] \in {"read", "write"} /\ UNCHANGED <<asked, peer>>
    BY <1>2 DEF Relay, Read, Write, WriteFails, ReadEnds
  <2> QED
    BY <2>1 DEF Confined, InUse, Connection
<1>3. CASE AcceptFails \/ SourceIsGone \/ PeerIsGone \/ NoRequestComes
              \/ ConnectFails \/ ReplyFails \/ Refused
  BY <1>3, <1>c DEF AcceptFails, SourceIsGone, PeerIsGone, NoRequestComes, ConnectFails,
                ReplyFails, Refused, Silence
<1>4. CASE Accept
  BY <1>4, <1>b DEF Accept, InUse
<1>5. CASE ReadRequest
  <2>1. outq[w] = <<>> /\ got[w] = 0 /\ rd[w] = "off" /\ got' = got
    BY <1>5 DEF ReadRequest, Quiet
  <2>2. End \/ UNCHANGED <<rd, outq>>
    BY <1>5 DEF ReadRequest
  <2>3. CASE End
    <3>1. /\ rd'[w] = "stop" /\ outq'[w] \in Seq(Pieces) /\ Len(outq'[w]) <= Len(outq[w])
      BY <2>3, EndTypes
    <3>2. outq'[w] = <<>>
      BY <2>1, <3>1
    <3> QED
      BY <2>1, <3>1, <3>2 DEF InUse
  <2> QED
    BY <2>1, <2>2, <2>3 DEF InUse
<1>6. CASE Connect \/ PeerConnects
  BY <1>6 DEF Connect, PeerConnects, Quiet, InUse
<1>7. CASE Granted
  BY <1>7 DEF Granted, Negotiated, Connection, TypeOK
<1>8. CASE UNCHANGED vars
  BY <1>8, <1>b DEF vars, InUse
<1> QED
  BY <1>1, <1>2, <1>3, <1>4, <1>5, <1>6, <1>7, <1>8 DEF Next, Server

LEMMA JustifiedStep ==
  TypeOK /\ Negotiated /\ Justified /\ [Next]_vars => Justified'
<1> SUFFICES ASSUME TypeOK, Negotiated, Justified, [Next]_vars, Refusals'
             PROVE  /\ phase' = "ended" /\ asked' # NoRequest
                    /\ ~Permitted(asked)' \/ (asked'.CD = BIND /\ peer' # asked'.DSTIP)
  BY DEF Justified
<1> USE DEF world, session
<1>a. ASSUME UNCHANGED <<conf, asked, peer, replies>>, phase' = phase \/ phase' = "ended"
      PROVE  /\ phase' = "ended" /\ asked' # NoRequest
             /\ ~Permitted(asked)' \/ (asked'.CD = BIND /\ peer' # asked'.DSTIP)
  <2>1. Refusals
    BY <1>a DEF Refusals
  <2>2. Permitted(asked)' <=> Permitted(asked)
    BY <1>a DEF Permitted
  <2> QED
    BY <1>a, <2>1, <2>2 DEF Justified
<1>b. ASSUME NEW code \in {ACCEPT, REJECT}, Reply(code), phase # "ended"
      PROVE  code = REJECT
  <2>1. ~Refusals
    BY <1>b DEF Justified
  <2>2. replies \in Seq({ACCEPT, REJECT})
    BY DEF TypeOK
  <2>3. replies' = Append(replies, code)
    BY <1>b, <2>1 DEF Reply, Refusals
  <2> QED
    BY <2>1, <2>2, <2>3 DEF Refusals, ACCEPT, REJECT
<1>1. ASSUME NEW s \in Sides, Send(s) \/ Receive(s) \/ Shutdown(s) \/ Leave(s)
      PROVE  UNCHANGED <<conf, asked, peer, replies, phase>>
  BY <1>1 DEF Send, Receive, Shutdown, Leave
<1>2. ASSUME NEW w \in Ways, Relay(w)
      PROVE  UNCHANGED <<conf, asked, peer, replies>> /\ (phase' = phase \/ phase' = "ended")
  BY <1>2 DEF Relay, Read, Write, WriteFails, ReadEnds, Stop, End
<1>3. CASE AcceptFails \/ SourceIsGone \/ PeerIsGone \/ NoRequestComes
              \/ ConnectFails \/ ReplyFails
  <2>1. UNCHANGED <<conf, asked, peer, replies>> /\ phase' = "ended"
    BY <1>3 DEF AcceptFails, SourceIsGone, PeerIsGone, NoRequestComes, ConnectFails,
                ReplyFails, Silence, End
  <2> QED
    BY <1>a, <2>1
<1>4. ASSUME phase # "ended", UNCHANGED replies PROVE FALSE
  BY <1>4 DEF Justified, Refusals
<1>5. CASE Accept \/ Connect \/ PeerConnects
  BY <1>4, <1>5 DEF Accept, Connect, PeerConnects
<1>6. CASE Granted
  BY <1>6, <1>b DEF Granted, ACCEPT, REJECT
<1>7. CASE Refused
  BY <1>7 DEF Refused, End, Negotiated, TypeOK
<1>8. CASE ReadRequest
  <2>1. PICK k \in 1 .. Len(inq["up"]) : \E r \in Understood(k) :
          /\ asked' = r
          /\ \/ UNCHANGED replies
             \/ End /\ Reply(REJECT) /\ do_FireWall(r) = REJECT
             \/ Reply(ACCEPT)
    BY <1>8 DEF ReadRequest
  <2>2. phase # "ended" /\ UNCHANGED conf
    BY <1>8 DEF ReadRequest
  <2>3. PICK r \in Understood(k) : asked' = r /\ End /\ do_FireWall(r) = REJECT
    BY <1>4, <1>b, <2>1, <2>2 DEF ACCEPT, REJECT
  <2>4. r \in Requests
    BY DEF Understood, TypeOK
  <2>5. ~Permitted(asked)'
    BY <2>2, <2>3 DEF do_FireWall, Permitted, ACCEPT, REJECT
  <2> QED
    BY <2>3, <2>4, <2>5, SocksAssumption DEF End
<1>9. CASE UNCHANGED vars
  BY <1>9, <1>a DEF vars
<1> QED
  BY <1>a, <1>1, <1>2, <1>3, <1>5, <1>6, <1>7, <1>8, <1>9 DEF Next, Server

\* Whoever is connected to the source is whom it named, and no permitted
\* address is refused.
THEOREM AsAskedHolds == Spec => []AsAsked
<1>1. Init => Negotiated /\ Confined /\ Justified
  BY SocksAssumption DEF Init, Negotiated, Confined, InUse, Justified, Refusals, Whole, Nothing
<1>2. TypeOK /\ Negotiated /\ Confined /\ Justified => AsAsked
  <2> SUFFICES ASSUME TypeOK, Negotiated, Confined, Justified, Whole
               PROVE  /\ phase = "relay" \/ got["down"] > 0 \/ got["up"] > 0
                           => peer = req.DSTIP /\ req.VN = 4 /\ req.CD \in {CONNECT, BIND}
                      /\ Refusals => ~Permitted(req) \/ (req.CD = BIND /\ peer # req.DSTIP)
    BY DEF AsAsked, Refusals
  <2>1. asked # NoRequest => asked = req
    BY DEF Negotiated
  <2>2. phase = "relay" => asked # NoRequest /\ Connection
    BY DEF TypeOK, Negotiated, Connection
  <2>3. got["down"] > 0 \/ got["up"] > 0 => Connection
    BY DEF Confined, InUse, Ways
  <2> QED
    BY <2>1, <2>2, <2>3 DEF Connection, Justified
<1> QED
  BY <1>1, <1>2, TypeCorrect, NegotiatedStep, ConfinedStep, JustifiedStep, PTL DEF Spec

-----------------------------------------------------------------------------
(* Each way of the relay implements RelayPromise.  First, sequences. *)

\* What is on its way: written, in the buffer, still to be read.
Chain(a, b, c) == a \o b \o c

LEMMA Chained ==
  ASSUME NEW S, NEW a \in Seq(S), NEW b \in Seq(S), NEW c \in Seq(S)
  PROVE  Chain(a, b, c) \in Seq(S)
<1>1. a \o b \in Seq(S)
  BY ConcatProperties
<1>2. (a \o b) \o c \in Seq(S)
  BY <1>1, ConcatProperties
<1> QED
  BY <1>2 DEF Chain

\* A piece is sent.
LEMMA AppendedToChain ==
  ASSUME NEW S, NEW a \in Seq(S), NEW b \in Seq(S), NEW c \in Seq(S), NEW x \in S
  PROVE  Chain(a, b, Append(c, x)) = Append(Chain(a, b, c), x)
<1>1. /\ a \o b \in Seq(S) /\ (a \o b) \o c \in Seq(S) /\ <<x>> \in Seq(S)
  BY ConcatProperties
<1>2. (a \o b) \o (c \o <<x>>) = ((a \o b) \o c) \o <<x>>
  BY <1>1, ConcatAssociative
<1> QED
  BY <1>1, <1>2, AppendIsConcat DEF Chain

\* The oldest is received.
LEMMA TailOfConcat ==
  ASSUME NEW S, NEW a \in Seq(S), NEW t \in Seq(S), a # <<>>
  PROVE  a \o t # <<>> /\ Tail(a) \o t = Tail(a \o t)
<1>1. /\ Len(a) \in Nat \ {0} /\ Len(t) \in Nat
      /\ Tail(a) \in Seq(S) /\ Len(Tail(a)) = Len(a) - 1
      /\ \A i \in 1 .. Len(Tail(a)) : Tail(a)[i] = a[i + 1]
  BY EmptySeq, LenProperties, HeadTailProperties
<1>2. /\ a \o t \in Seq(S) /\ Len(a \o t) = Len(a) + Len(t)
      /\ \A i \in 1 .. Len(a) + Len(t) :
           (a \o t)[i] = IF i <= Len(a) THEN a[i] ELSE t[i - Len(a)]
  BY ConcatProperties
<1>3. a \o t # <<>>
  BY <1>1, <1>2, EmptySeq
<1>4. /\ Tail(a \o t) \in Seq(S) /\ Len(Tail(a \o t)) = Len(a \o t) - 1
      /\ \A i \in 1 .. Len(Tail(a \o t)) : Tail(a \o t)[i] = (a \o t)[i + 1]
  BY <1>2, <1>3, HeadTailProperties
<1>5. /\ Tail(a) \o t \in Seq(S) /\ Len(Tail(a) \o t) = Len(Tail(a)) + Len(t)
      /\ \A i \in 1 .. Len(Tail(a)) + Len(t) :
           (Tail(a) \o t)[i] = IF i <= Len(Tail(a)) THEN Tail(a)[i] ELSE t[i - Len(Tail(a))]
  BY <1>1, ConcatProperties
<1>6. Len(Tail(a) \o t) = Len(Tail(a \o t))
  BY <1>1, <1>2, <1>4, <1>5
<1>7. ASSUME NEW i \in 1 .. Len(Tail(a) \o t)
      PROVE  (Tail(a) \o t)[i] = Tail(a \o t)[i]
  <2>1. /\ i \in 1 .. Len(Tail(a \o t)) /\ i + 1 \in 1 .. Len(a) + Len(t)
        /\ i \in 1 .. Len(Tail(a)) + Len(t)
    BY <1>1, <1>2, <1>4, <1>5
  <2>2. Tail(a \o t)[i] = IF i + 1 <= Len(a) THEN a[i + 1] ELSE t[i + 1 - Len(a)]
    BY <1>2, <1>4, <2>1
  <2>3. (Tail(a) \o t)[i] = IF i <= Len(a) - 1 THEN a[i + 1] ELSE t[i - (Len(a) - 1)]
    BY <1>1, <1>5, <2>1
  <2> QED
    BY <1>1, <2>2, <2>3
<1> QED
  BY <1>3, <1>4, <1>5, <1>6, <1>7, SeqEqual

LEMMA TailOfChain ==
  ASSUME NEW S, NEW a \in Seq(S), NEW b \in Seq(S), NEW c \in Seq(S), a # <<>>
  PROVE  Chain(a, b, c) # <<>> /\ Chain(Tail(a), b, c) = Tail(Chain(a, b, c))
<1>1. Tail(a) \in Seq(S) /\ b \o c \in Seq(S)
  BY HeadTailProperties, ConcatProperties
<1>2. a \o b \o c = a \o (b \o c)
  BY ConcatAssociative
<1>3. Tail(a) \o b \o c = Tail(a) \o (b \o c)
  BY <1>1, ConcatAssociative
<1>4. a \o (b \o c) # <<>> /\ Tail(a) \o (b \o c) = Tail(a \o (b \o c))
  BY <1>1, TailOfConcat
<1> QED
  BY <1>2, <1>3, <1>4 DEF Chain

\* Some pieces are read into the buffer.
LEMMA ReadIn ==
  ASSUME NEW S, NEW a \in Seq(S), NEW s \in Seq(S), NEW k \in 0 .. Len(s)
  PROVE  Chain(a, FirstOf(s, k), Without(s, k)) = Chain(a, <<>>, s)
<1>1. Len(s) \in Nat /\ 1 \in 1 .. Len(s) + 1 /\ k \in 1 - 1 .. Len(s)
      /\ Len(s) \in k .. Len(s)
  BY LenProperties
<1>2. SubSeq(s, 1, k) \o SubSeq(s, k + 1, Len(s)) = SubSeq(s, 1, Len(s))
  BY <1>1, ConcatAdjacentSubSeq
<1>3. FirstOf(s, k) \o Without(s, k) = s
  BY <1>2, SubSeqFull DEF FirstOf, Without
<1>4. FirstOf(s, k) \in Seq(S) /\ Without(s, k) \in Seq(S)
  BY FirstOfProperties, WithoutProperties
<1>5. (a \o FirstOf(s, k)) \o Without(s, k) = a \o (FirstOf(s, k) \o Without(s, k))
  BY <1>4, ConcatAssociative
<1>6. a \o <<>> = a
  BY ConcatEmptySeq
<1> QED
  BY <1>3, <1>5, <1>6 DEF Chain

\* One piece of the buffer is written.
LEMMA HeadMoved ==
  ASSUME NEW S, NEW a \in Seq(S), NEW b \in Seq(S), NEW c \in Seq(S), b # <<>>
  PROVE  Chain(Append(a, Head(b)), Tail(b), c) = Chain(a, b, c)
<1>1. Head(b) \in S /\ Tail(b) \in Seq(S) /\ Len(b) \in Nat \ {0} /\ <<Head(b)>> \in Seq(S)
  BY HeadTailProperties, EmptySeq
<1>2. Append(a, Head(b)) = a \o <<Head(b)>>
  BY <1>1, AppendIsConcat
<1>3. <<Head(b)>> \o Tail(b) = b
  <2>1. 1 \in 1 .. Len(b) /\ Len(b) \in 1 .. Len(b)
    BY <1>1
  <2>2. SubSeq(b, 1, Len(b)) = <<b[1]>> \o SubSeq(b, 1 + 1, Len(b))
    BY <2>1, SubSeqRecursiveFirst
  <2>3. Tail(b) = SubSeq(b, 2, Len(b)) /\ SubSeq(b, 1, Len(b)) = b /\ Head(b) = b[1]
    BY TailIsSubSeq, SubSeqFull
  <2> QED
    BY <2>2, <2>3
<1>4. (a \o <<Head(b)>>) \o Tail(b) = a \o b
  BY <1>1, <1>3, ConcatAssociative
<1> QED
  BY <1>2, <1>4 DEF Chain

\* What has been written is a beginning of what is on its way.
LEMMA BeginningOfConcat ==
  ASSUME NEW S, NEW a \in Seq(S), NEW t \in Seq(S), NEW k \in 0 .. Len(a)
  PROVE  /\ Len(a \o t) \in Nat /\ k \in 0 .. Len(a \o t)
         /\ FirstOf(a, k) = SubSeq(a \o t, 1, k)
<1>1. Len(a) \in Nat /\ Len(t) \in Nat /\ Len(a \o t) = Len(a) + Len(t)
  BY LenProperties, ConcatProperties
<1>2. CASE k = 0
  BY <1>1, <1>2, SubSeqEmpty DEF FirstOf
<1>3. CASE k # 0
  <2>1. 1 \in 1 .. Len(a) /\ k \in 1 .. Len(a)
    BY <1>1, <1>3
  <2> QED
    BY <1>1, <2>1, SubSeqOfConcat1 DEF FirstOf
<1> QED
  BY <1>2, <1>3

LEMMA Beginning ==
  ASSUME NEW S, NEW a \in Seq(S), NEW b \in Seq(S), NEW c \in Seq(S), NEW k \in 0 .. Len(a)
  PROVE  k \in 0 .. Len(Chain(a, b, c)) /\ FirstOf(a, k) = SubSeq(Chain(a, b, c), 1, k)
<1>1. b \o c \in Seq(S)
  BY ConcatProperties
<1>2. k \in 0 .. Len(a \o (b \o c)) /\ FirstOf(a, k) = SubSeq(a \o (b \o c), 1, k)
  BY <1>1, BeginningOfConcat
<1>3. a \o b \o c = a \o (b \o c)
  BY ConcatAssociative
<1> QED
  BY <1>2, <1>3 DEF Chain

LEMMA WithoutTheLast ==
  ASSUME NEW S, NEW a \in Seq(S), NEW b \in Seq(S), NEW c \in Seq(S)
  PROVE  \E k \in 0 .. Len(Chain(a, b, c)) : Chain(a, b, <<>>) = SubSeq(Chain(a, b, c), 1, k)
<1> DEFINE s == a \o b
<1>1. s \in Seq(S)
  BY ConcatProperties
<1> HIDE DEF s
<1>2. s \o <<>> = s /\ Len(s) \in 0 .. Len(s) /\ SubSeq(s, 1, Len(s)) = s
  BY <1>1, ConcatEmptySeq, SubSeqFull, LenProperties
<1>3. Len(s) \in 0 .. Len(s \o c) /\ FirstOf(s, Len(s)) = SubSeq(s \o c, 1, Len(s))
  BY <1>1, <1>2, BeginningOfConcat
<1>4. Chain(a, b, c) = s \o c /\ Chain(a, b, <<>>) = s \o <<>>
  BY DEF Chain, s
<1> QED
  BY <1>2, <1>3, <1>4 DEF FirstOf

LEMMA NothingBefore ==
  ASSUME NEW S, NEW c \in Seq(S)
  PROVE  Chain(<<>>, <<>>, c) = c
<1>1. <<>> \o <<>> = <<>> /\ <<>> \o c = c
  BY EmptySeq, ConcatEmptySeq
<1> QED
  BY <1>1 DEF Chain

LEMMA Edges ==
  ASSUME NEW S, NEW s \in Seq(S)
  PROVE  /\ Len(s) \in Nat /\ 0 \in 0 .. Len(s) /\ Len(s) \in 0 .. Len(s)
         /\ SubSeq(s, 1, 0) = <<>> /\ SubSeq(s, 1, Len(s)) = s
         /\ SubSeq(s, 0 + 1, Len(s)) = s
<1>1. SubSeq(s, 1, Len(s)) = s /\ Len(s) \in Nat
  BY SubSeqFull, LenProperties
<1>2. SubSeq(s, 1, 0) = <<>>
  BY SubSeqEmpty
<1> QED
  BY <1>1, <1>2

-----------------------------------------------------------------------------
(* Second, the steps of one way. *)

\* A step of RelayPromise, or none, as a relation of two states.
Promised(q, q2, s, s2, b, b2) ==
  \/ s # "over" /\ ~b /\ (\E x \in Pieces : q2 = Append(q, x)) /\ s2 = s /\ b2 = b
  \/ /\ s = "asking" /\ s2 = "asked" /\ b2 = b
     /\ \E k \in 0 .. Len(q) : q2 = SubSeq(q, k + 1, Len(q))
  \/ s = "asked" /\ s2 = "open" /\ q2 = q /\ b2 = b
  \/ s \in {"open", "over"} /\ q # <<>> /\ q2 = Tail(q) /\ s2 = s /\ b2 = b
  \/ b2 = TRUE /\ (\E k \in 0 .. Len(q) : q2 = SubSeq(q, 1, k)) /\ s2 = s
  \/ /\ s2 = "over" /\ b2 = b
     /\ \E k \in 0 .. Len(q) : q2 = SubSeq(q, 1, k)
     /\ s \in {"asking", "asked"} => q2 = <<>>
  \/ q2 = q /\ s2 = s /\ b2 = b

WayStep(w) ==
  Promised(OnItsWay(w), OnItsWay(w)', WayState(w), WayState(w)', gone # {}, (gone # {})')

\* A side that is gone has ended its stream, and nothing goes on in a session
\* that has ended.
Closed ==
  /\ gone \subseteq fin
  /\ phase = "ended" => \A w \in Ways : rd[w] = "stop"

LEMMA ClosedStep == TypeOK /\ Quiet /\ Closed /\ [Next]_vars => Closed'
<1> SUFFICES ASSUME TypeOK, Quiet, Closed, [Next]_vars
             PROVE  Closed'
  OBVIOUS
<1> USE DEF world, session
<1>1. ASSUME NEW s \in Sides, Send(s) \/ Receive(s) \/ Shutdown(s) \/ Leave(s)
      PROVE  Closed'
  BY <1>1 DEF Send, Receive, Shutdown, Leave, Closed
<1>2. ASSUME NEW w \in Ways, Relay(w) PROVE Closed'
  <2>1. UNCHANGED <<gone, fin>> /\ phase # "ended"
    BY <1>2 DEF Relay, Read, Write, WriteFails, ReadEnds, Closed
  <2>2. phase' # "ended" \/ rd' = [v \in Ways |-> "stop"]
    BY <1>2, <2>1 DEF Relay, Read, Write, WriteFails, ReadEnds, Stop, End
  <2> QED
    BY <2>1, <2>2 DEF Closed
<1>3. CASE Server \/ AcceptFails \/ SourceIsGone \/ PeerConnects \/ PeerIsGone
  <2>1. UNCHANGED <<gone, fin>> /\ (phase' # "ended" \/ rd' = [v \in Ways |-> "stop"])
    BY <1>3 DEF Server, Accept, ReadRequest, NoRequestComes, Granted, ReplyFails, Refused,
                Connect, ConnectFails, AcceptFails, SourceIsGone, PeerConnects, PeerIsGone,
                  Silence, End
  <2> QED
    BY <2>1 DEF Closed
<1>4. CASE UNCHANGED vars
  BY <1>4 DEF vars, Closed
<1> QED
  BY <1>1, <1>2, <1>3, <1>4 DEF Next

\* The two ways and the two sides.
LEMMA Ends ==
  /\ \A w \in Ways : /\ Sender(w) \in Sides /\ Receiver(w) \in Sides /\ Other(w) \in Ways
                     /\ Sender(w) # Receiver(w) /\ Other(w) # w
                     /\ From(Sender(w)) = w /\ To(Receiver(w)) = w
  /\ \A s \in Sides : /\ From(s) \in Ways /\ To(s) \in Ways
                      /\ \A w \in Ways : /\ s = Sender(w) \/ s = Receiver(w)
                                         /\ From(s) = w <=> s = Sender(w)
                                         /\ To(s) = w <=> s = Receiver(w)
  BY DEF Ways, Sides, Sender, Receiver, Other, From, To

\* The session ends, or a way does: what has been written stays, as far as it
\* is not lost.
LEMMA WayEnds ==
  ASSUME TypeOK, Quiet, NEW w \in Ways, UNCHANGED gone, Over(w)',
         outq'[w] = <<>> \/ \E k \in 0 .. Len(outq[w]) : outq'[w] = FirstOf(outq[w], k)
  PROVE  WayStep(w)
<1>1. /\ outq[w] \in Seq(Pieces) /\ buf[w] \in Seq(Pieces) /\ inq[w] \in Seq(Pieces)
      /\ <<>> \in Seq(Pieces)
  BY EmptySeq DEF TypeOK
<1>2. OnItsWay(w) \in Seq(Pieces)
  BY <1>1, Chained DEF OnItsWay, Chain
<1>3. WayState(w)' = "over"
  BY DEF WayState
<1>4. OnItsWay(w)' = IF Receiver(w) \in gone THEN <<>> ELSE outq'[w]
  BY DEF OnItsWay
<1>5. WayState(w) \in {"asking", "asked"} => outq[w] = <<>>
  BY DEF WayState, Quiet, Over, TypeOK
<1>6. ASSUME outq[w] = <<>>, Receiver(w) \notin gone PROVE outq'[w] = <<>>
  <2>1. Len(outq[w]) = 0 /\ SubSeq(<<>>, 1, 0) = <<>>
    BY <1>6, EmptySeq, SubSeqEmpty
  <2> QED
    BY <1>6, <2>1 DEF FirstOf
<1>7. \E k \in 0 .. Len(OnItsWay(w)) : OnItsWay(w)' = SubSeq(OnItsWay(w), 1, k)
  <2>1. CASE OnItsWay(w)' = <<>>
    BY <1>2, <2>1, Edges
  <2>2. CASE OnItsWay(w)' # <<>>
    <3>1. /\ Receiver(w) \notin gone /\ OnItsWay(w)' = outq'[w]
          /\ \E k \in 0 .. Len(outq[w]) : outq'[w] = FirstOf(outq[w], k)
      BY <1>4, <2>2
    <3>2. PICK k \in 0 .. Len(outq[w]) : OnItsWay(w)' = FirstOf(outq[w], k)
      BY <3>1
    <3>3. OnItsWay(w) = outq[w] \/ OnItsWay(w) = Chain(outq[w], buf[w], inq[w])
      BY <3>1 DEF OnItsWay, Chain
    <3>4. CASE OnItsWay(w) = outq[w]
      BY <3>2, <3>4 DEF FirstOf
    <3>5. CASE OnItsWay(w) = Chain(outq[w], buf[w], inq[w])
      <4> DEFINE a == outq[w]  b == buf[w]  c == inq[w]
      <4>1. a \in Seq(Pieces) /\ b \in Seq(Pieces) /\ c \in Seq(Pieces) /\ k \in 0 .. Len(a)
        BY <1>1
      <4>2. OnItsWay(w) = Chain(a, b, c) /\ OnItsWay(w)' = FirstOf(a, k)
        BY <3>2, <3>5
      <4> HIDE DEF a, b, c
      <4>3. k \in 0 .. Len(Chain(a, b, c)) /\ FirstOf(a, k) = SubSeq(Chain(a, b, c), 1, k)
        BY <4>1, Beginning
      <4> QED
        BY <4>2, <4>3
    <3> QED
      BY <3>3, <3>4, <3>5
  <2> QED
    BY <2>1, <2>2
<1>8. WayState(w) \in {"asking", "asked"} => OnItsWay(w)' = <<>>
  BY <1>4, <1>5, <1>6
<1> QED
  BY <1>3, <1>7, <1>8 DEF WayStep, Promised

LEMMA SessionEnds ==
  ASSUME TypeOK, Quiet, End, UNCHANGED gone, NEW w \in Ways
  PROVE  WayStep(w)
<1>1. /\ phase' = "ended"
      /\ \E k \in 0 .. Len(outq[w]) : outq'[w] = FirstOf(outq[w], k)
  <2>1. PICK k \in [Ways -> 0 .. Capacity] :
          /\ IF inq[Other(w)] = <<>> THEN k[w] = Len(outq[w]) ELSE k[w] <= Len(outq[w])
          /\ outq' = [v \in Ways |-> FirstOf(outq[v], k[v])]
    BY DEF End
  <2>2. Len(outq[w]) \in Nat /\ k[w] \in Nat
    BY SocksAssumption DEF TypeOK
  <2>3. k[w] \in 0 .. Len(outq[w])
    BY <2>1, <2>2
  <2> QED
    BY <2>1, <2>3 DEF End
<1> QED
  BY <1>1, WayEnds DEF Over

\* What leaves a way as it is.
LEMMA WayUntouched ==
  ASSUME NEW w \in Ways, UNCHANGED <<phase, asked, gone>>, rd'[w] = rd[w],
         outq'[w] = outq[w], buf'[w] = buf[w], inq'[w] = inq[w]
  PROVE  WayStep(w)
  BY DEF WayStep, Promised, OnItsWay, WayState, Over

LEMMA SendStep ==
  ASSUME TypeOK, Quiet, Closed, NEW s \in Sides, Send(s), NEW w \in Ways
  PROVE  WayStep(w)
<1> USE DEF world, session
<1>1. /\ phase # "ended" /\ s \notin fin /\ sent[From(s)] < Most(From(s))
      /\ inq' = [inq EXCEPT ![From(s)] = Append(inq[From(s)], sent[From(s)] + 1)]
      /\ UNCHANGED <<world, session, buf, outq, got, fin, gone>>
  BY DEF Send
<1>2. /\ outq[w] \in Seq(Pieces) /\ buf[w] \in Seq(Pieces) /\ inq[w] \in Seq(Pieces)
      /\ sent[w] \in Nat
  BY DEF TypeOK
<1>3. CASE s # Sender(w)
  <2>1. From(s) # w
    BY <1>3, Ends
  <2>2. inq'[w] = inq[w]
    BY <1>1, <2>1 DEF TypeOK
  <2> QED
    BY <1>1, <2>2, WayUntouched
<1>4. CASE s = Sender(w)
  <2>1. From(s) = w /\ Receiver(w) \in Sides /\ s # Receiver(w)
    BY <1>4, Ends
  <2>2. inq'[w] = Append(inq[w], sent[w] + 1)
    BY <1>1, <2>1 DEF TypeOK
  <2>3. WayState(w)' = WayState(w) /\ (Over(w)' <=> Over(w))
    BY <1>1 DEF WayState, Over
  <2>4. CASE Receiver(w) \in gone \/ Over(w)
    BY <1>1, <2>3, <2>4 DEF OnItsWay, WayStep, Promised
  <2>5. CASE Receiver(w) \notin gone /\ ~Over(w)
    <3>1. gone = {}
      <4>1. s \notin gone
        BY <1>1 DEF Closed
      <4>2. \A r \in Sides : r = s \/ r = Receiver(w)
        BY <2>1 DEF Sides
      <4> QED
        BY <2>5, <4>1, <4>2 DEF TypeOK
    <3>2. sent[w] + 1 \in Pieces
      <4>1. Most("up") \in Nat /\ Most("down") \in Nat /\ w \in {"up", "down"}
        BY SocksAssumption DEF Most, Ways
      <4> QED
        BY <1>1, <1>2, <2>1, <4>1 DEF Pieces
    <3>3. OnItsWay(w) = Chain(outq[w], buf[w], inq[w])
      BY <2>5 DEF OnItsWay, Chain
    <3>4. OnItsWay(w)' = Chain(outq[w], buf[w], inq'[w])
      BY <1>1, <2>3, <2>5 DEF OnItsWay, Chain
    <3>5. \E x \in Pieces : OnItsWay(w)' = Append(OnItsWay(w), x)
      <4>1. PICK x \in Pieces : inq'[w] = Append(inq[w], x)
        BY <2>2, <3>2
      <4>2. Chain(outq[w], buf[w], Append(inq[w], x)) = Append(Chain(outq[w], buf[w], inq[w]), x)
        <5> DEFINE a == outq[w]  b == buf[w]  c == inq[w]
        <5>1. a \in Seq(Pieces) /\ b \in Seq(Pieces) /\ c \in Seq(Pieces)
          BY <1>2
        <5> HIDE DEF a, b, c
        <5>2. Chain(a, b, Append(c, x)) = Append(Chain(a, b, c), x)
          BY <5>1, AppendedToChain
        <5> QED
          BY <5>2 DEF a, b, c
      <4> QED
        BY <3>3, <3>4, <4>1, <4>2
    <3>6. WayState(w) # "over"
      BY <2>5 DEF WayState
    <3> QED
      BY <1>1, <2>3, <3>1, <3>5, <3>6 DEF WayStep, Promised
  <2> QED
    BY <2>4, <2>5
<1> QED
  BY <1>3, <1>4

LEMMA ReceiveStep ==
  ASSUME TypeOK, Quiet, NEW s \in Sides, Receive(s), NEW w \in Ways
  PROVE  WayStep(w)
<1> USE DEF world, session
<1>1. /\ s \notin gone /\ outq[To(s)] # <<>>
      /\ outq' = [outq EXCEPT ![To(s)] = Tail(outq[To(s)])]
      /\ UNCHANGED <<world, session, sent, inq, buf, fin, gone>>
  BY DEF Receive
<1>2. /\ outq[w] \in Seq(Pieces) /\ buf[w] \in Seq(Pieces) /\ inq[w] \in Seq(Pieces)
  BY DEF TypeOK
<1>3. CASE s # Receiver(w)
  <2>1. To(s) # w
    BY <1>3, Ends
  <2>2. outq'[w] = outq[w]
    BY <1>1, <2>1 DEF TypeOK
  <2> QED
    BY <1>1, <2>2, WayUntouched
<1>4. CASE s = Receiver(w)
  <2>1. To(s) = w
    BY <1>4, Ends
  <2>2. outq[w] # <<>> /\ outq'[w] = Tail(outq[w])
    BY <1>1, <2>1 DEF TypeOK
  <2>3. WayState(w)' = WayState(w) /\ (Over(w)' <=> Over(w))
    BY <1>1 DEF WayState, Over
  <2>4. WayState(w) \in {"open", "over"}
    <3>1. phase \in {"relay", "ended"}
      BY <2>2 DEF Quiet
    <3> QED
      BY <3>1 DEF WayState, Over, TypeOK
  <2>5. OnItsWay(w) # <<>> /\ OnItsWay(w)' = Tail(OnItsWay(w))
    <3>1. CASE Over(w)
      BY <1>1, <1>4, <2>2, <2>3, <3>1 DEF OnItsWay
    <3>2. CASE ~Over(w)
      <4>1. /\ OnItsWay(w) = Chain(outq[w], buf[w], inq[w])
            /\ OnItsWay(w)' = Chain(Tail(outq[w]), buf[w], inq[w])
        BY <1>1, <1>4, <2>2, <2>3, <3>2 DEF OnItsWay, Chain
      <4> QED
        BY <1>2, <2>2, <4>1, TailOfChain
    <3> QED
      BY <3>1, <3>2
  <2> QED
    BY <1>1, <2>3, <2>4, <2>5 DEF WayStep, Promised
<1> QED
  BY <1>3, <1>4

LEMMA LeaveStep ==
  ASSUME TypeOK, Quiet, NEW s \in Sides, Leave(s), NEW w \in Ways
  PROVE  WayStep(w)
<1> USE DEF world, session
<1>1. /\ phase # "ended"
      /\ gone' = gone \cup {s}
      /\ outq' = [outq EXCEPT ![To(s)] = <<>>]
      /\ inq' = inq \/ inq' = [inq EXCEPT ![From(s)] = <<>>]
      /\ UNCHANGED <<world, session, sent, buf, got>>
  BY DEF Leave
<1>2. /\ outq[w] \in Seq(Pieces) /\ buf[w] \in Seq(Pieces) /\ inq[w] \in Seq(Pieces)
      /\ <<>> \in Seq(Pieces)
  BY EmptySeq DEF TypeOK
<1>3. OnItsWay(w) \in Seq(Pieces)
  BY <1>2, Chained DEF OnItsWay, Chain
<1>4. WayState(w)' = WayState(w) /\ (Over(w)' <=> Over(w))
  BY <1>1 DEF WayState, Over
<1>5. \E k \in 0 .. Len(OnItsWay(w)) : OnItsWay(w)' = SubSeq(OnItsWay(w), 1, k)
  <2>1. CASE OnItsWay(w)' = <<>> \/ OnItsWay(w)' = OnItsWay(w)
    BY <1>3, <2>1, Edges
  <2>2. CASE OnItsWay(w)' # <<>> /\ OnItsWay(w)' # OnItsWay(w)
    <3>1. Receiver(w) \notin gone' /\ Receiver(w) \notin gone
      BY <1>1, <2>2 DEF OnItsWay
    <3>2. s # Receiver(w)
      BY <1>1, <3>1
    <3>3. To(s) # w
      BY <3>2, Ends
    <3>4. outq'[w] = outq[w] /\ (inq'[w] = inq[w] \/ inq'[w] = <<>>)
      BY <1>1, <3>3 DEF TypeOK
    <3>5. ~Over(w) /\ inq'[w] = <<>>
      BY <1>1, <1>4, <2>2, <3>1, <3>4 DEF OnItsWay
    <3>6. OnItsWay(w) = Chain(outq[w], buf[w], inq[w])
      BY <3>1, <3>5 DEF OnItsWay, Chain
    <3>7. OnItsWay(w)' = Chain(outq[w], buf[w], <<>>)
      BY <1>1, <1>4, <3>1, <3>4, <3>5 DEF OnItsWay, Chain
    <3> QED
      BY <1>2, <3>6, <3>7, WithoutTheLast
  <2> QED
    BY <2>1, <2>2
<1>6. (gone' # {}) = TRUE
  BY <1>1
<1> QED
  BY <1>4, <1>5, <1>6 DEF WayStep, Promised

\* The handlers of a relay.
LEMMA ReadStep ==
  ASSUME TypeOK, Quiet, Closed, NEW v \in Ways, Read(v), NEW w \in Ways
  PROVE  WayStep(w)
<1>1. PICK k \in 1 .. Len(inq[v]) :
        /\ rd[v] = "read" /\ inq[v] # <<>>
        /\ buf' = [buf EXCEPT ![v] = FirstOf(inq[v], k)]
        /\ inq' = [inq EXCEPT ![v] = Without(inq[v], k)]
        /\ rd' = [rd EXCEPT ![v] = "write"]
        /\ UNCHANGED <<phase, asked, outq, gone>>
  BY DEF Read
<1>2. CASE v # w
  <2>1. buf'[w] = buf[w] /\ inq'[w] = inq[w] /\ rd'[w] = rd[w] /\ outq'[w] = outq[w]
    BY <1>1, <1>2 DEF TypeOK
  <2> QED
    BY <1>1, <2>1, WayUntouched
<1>3. CASE v = w
  <2>1. /\ buf[w] = <<>> /\ rd[w] = "read" /\ rd'[w] = "write"
        /\ buf'[w] = FirstOf(inq[w], k) /\ inq'[w] = Without(inq[w], k)
        /\ outq'[w] = outq[w]
    BY <1>1, <1>3 DEF TypeOK
  <2>2. phase # "ended"
    BY <2>1 DEF Closed
  <2>3. WayState(w)' = WayState(w) /\ ~Over(w) /\ ~Over(w)'
    BY <1>1, <2>1, <2>2 DEF WayState, Over
  <2>4. OnItsWay(w)' = OnItsWay(w)
    <3> DEFINE a == outq[w]  c == inq[w]
    <3>1. a \in Seq(Pieces) /\ c \in Seq(Pieces) /\ k \in 0 .. Len(c)
      BY <1>1, <1>3 DEF TypeOK
    <3>2. /\ OnItsWay(w) = IF Receiver(w) \in gone THEN <<>> ELSE Chain(a, <<>>, c)
          /\ OnItsWay(w)' = IF Receiver(w) \in gone THEN <<>>
                            ELSE Chain(a, FirstOf(c, k), Without(c, k))
      BY <1>1, <2>1, <2>3 DEF OnItsWay, Chain
    <3> HIDE DEF a, c
    <3>3. Chain(a, FirstOf(c, k), Without(c, k)) = Chain(a, <<>>, c)
      BY <3>1, ReadIn
    <3> QED
      BY <3>2, <3>3
  <2> QED
    BY <1>1, <2>3, <2>4 DEF WayStep, Promised
<1> QED
  BY <1>2, <1>3

LEMMA WriteStep ==
  ASSUME TypeOK, Quiet, Closed, NEW v \in Ways, Write(v), NEW w \in Ways
  PROVE  WayStep(w)
<1>1. /\ rd[v] = "write" /\ UNCHANGED <<phase, asked, inq, gone>>
      /\ \/ /\ Receiver(v) \in gone
            /\ buf' = [buf EXCEPT ![v] = <<>>]
            /\ rd' = [rd EXCEPT ![v] = "read"]
            /\ UNCHANGED outq
         \/ /\ Receiver(v) \notin gone
            /\ outq' = [outq EXCEPT ![v] = Append(outq[v], Head(buf[v]))]
            /\ buf' = [buf EXCEPT ![v] = Tail(buf[v])]
            /\ rd' = [rd EXCEPT ![v] = AfterWrite(Tail(buf[v]))]
  BY DEF Write
<1>2. CASE v # w
  <2>1. buf'[w] = buf[w] /\ inq'[w] = inq[w] /\ rd'[w] = rd[w] /\ outq'[w] = outq[w]
    BY <1>1, <1>2 DEF TypeOK
  <2> QED
    BY <1>1, <2>1, WayUntouched
<1>3. CASE v = w
  <2>1. /\ buf[w] # <<>> /\ inq'[w] = inq[w] /\ rd'[w] \in {"read", "write"}
        /\ Receiver(w) \notin gone =>
             outq'[w] = Append(outq[w], Head(buf[w])) /\ buf'[w] = Tail(buf[w])
    BY <1>1, <1>3 DEF TypeOK, AfterWrite
  <2>2. phase # "ended" /\ rd[w] = "write"
    BY <1>1, <1>3 DEF Closed
  <2>3. WayState(w)' = WayState(w) /\ ~Over(w) /\ ~Over(w)'
    BY <1>1, <2>1, <2>2 DEF WayState, Over
  <2>4. OnItsWay(w)' = OnItsWay(w)
    <3> DEFINE a == outq[w]  b == buf[w]  c == inq[w]
    <3>1. a \in Seq(Pieces) /\ b \in Seq(Pieces) /\ c \in Seq(Pieces) /\ b # <<>>
      BY <2>1 DEF TypeOK
    <3>2. /\ OnItsWay(w) = IF Receiver(w) \in gone THEN <<>> ELSE Chain(a, b, c)
          /\ OnItsWay(w)' = IF Receiver(w) \in gone THEN <<>>
                            ELSE Chain(Append(a, Head(b)), Tail(b), c)
      BY <1>1, <2>1, <2>3 DEF OnItsWay, Chain
    <3> HIDE DEF a, b, c
    <3>3. Chain(Append(a, Head(b)), Tail(b), c) = Chain(a, b, c)
      BY <3>1, HeadMoved
    <3> QED
      BY <3>2, <3>3
  <2> QED
    BY <1>1, <2>3, <2>4 DEF WayStep, Promised
<1> QED
  BY <1>2, <1>3

LEMMA StopStep ==
  ASSUME TypeOK, Quiet, NEW v \in Ways, WriteFails(v) \/ ReadEnds(v), NEW w \in Ways
  PROVE  WayStep(w)
<1>1. /\ UNCHANGED <<asked, inq, gone>>
      /\ End \/ /\ rd' = [rd EXCEPT ![v] = "stop"]
                /\ buf' = [buf EXCEPT ![v] = <<>>]
                /\ UNCHANGED <<phase, outq>>
  BY DEF WriteFails, ReadEnds, Stop
<1>2. CASE End
  BY <1>1, <1>2, SessionEnds
<1>3. CASE ~End /\ v # w
  <2>1. buf'[w] = buf[w] /\ inq'[w] = inq[w] /\ rd'[w] = rd[w] /\ outq'[w] = outq[w]
    BY <1>1, <1>3 DEF TypeOK
  <2> QED
    BY <1>1, <1>3, <2>1, WayUntouched
<1>4. CASE ~End /\ v = w
  <2>1. Over(w)' /\ outq'[w] = outq[w] /\ outq[w] \in Seq(Pieces)
    BY <1>1, <1>4 DEF TypeOK, Over
  <2>2. \E k \in 0 .. Len(outq[w]) : outq'[w] = FirstOf(outq[w], k)
    BY <2>1, Edges DEF FirstOf
  <2> QED
    BY <1>1, <2>1, <2>2, WayEnds
<1> QED
  BY <1>2, <1>3, <1>4

\* The request.
LEMMA AskStep ==
  ASSUME TypeOK, Quiet, Negotiated, ReadRequest, NEW w \in Ways
  PROVE  WayStep(w)
<1> USE DEF world, session
<1>1. PICK k \in 1 .. Len(inq["up"]) : \E r \in Understood(k) :
        /\ phase = "request"
        /\ inq' = [inq EXCEPT !["up"] = Without(inq["up"], k)]
        /\ asked' = r
        /\ UNCHANGED gone
        /\ End \/ /\ phase' \in {"connect", "accepting"}
                  /\ UNCHANGED <<rd, buf, outq>>
  BY DEF ReadRequest
<1>2. CASE End
  BY <1>1, <1>2, SessionEnds
<1>3. CASE ~End
  <2>1. asked = NoRequest /\ asked' # NoRequest
    BY <1>1, SocksAssumption DEF Negotiated, Understood, TypeOK
  <2>2. rd[w] = "off" /\ buf[w] = <<>> /\ outq[w] = <<>>
    BY <1>1 DEF Quiet
  <2>3. WayState(w) = "asking" /\ WayState(w)' = "asked" /\ ~Over(w) /\ ~Over(w)'
    BY <1>1, <1>3, <2>1, <2>2 DEF WayState, Over
  <2>4. inq[w] \in Seq(Pieces) /\ inq'[w] \in Seq(Pieces)
        /\ \E n \in 0 .. Len(inq[w]) : inq'[w] = SubSeq(inq[w], n + 1, Len(inq[w]))
    <3>1. inq["up"] \in Seq(Pieces) /\ inq[w] \in Seq(Pieces) /\ k \in 0 .. Len(inq["up"])
      BY <1>1 DEF TypeOK, Ways
    <3>2. CASE w = "up"
      <4>1. inq'[w] = Without(inq["up"], k)
        BY <1>1, <3>2 DEF TypeOK
      <4>2. inq'[w] \in Seq(Pieces)
        BY <3>1, <4>1, WithoutProperties
      <4> QED
        BY <3>1, <3>2, <4>1, <4>2 DEF Without
    <3>3. CASE w # "up"
      <4>1. inq'[w] = inq[w]
        BY <1>1, <3>3 DEF TypeOK
      <4> QED
        BY <3>1, <4>1, Edges
    <3> QED
      BY <3>2, <3>3
  <2>5. /\ OnItsWay(w) = IF Receiver(w) \in gone THEN <<>> ELSE inq[w]
        /\ OnItsWay(w)' = IF Receiver(w) \in gone THEN <<>> ELSE inq'[w]
    <3>1. /\ OnItsWay(w) = IF Receiver(w) \in gone THEN <<>> ELSE Chain(<<>>, <<>>, inq[w])
          /\ OnItsWay(w)' = IF Receiver(w) \in gone THEN <<>> ELSE Chain(<<>>, <<>>, inq'[w])
      BY <1>1, <1>3, <2>2, <2>3 DEF OnItsWay, Chain
    <3>2. Chain(<<>>, <<>>, inq[w]) = inq[w] /\ Chain(<<>>, <<>>, inq'[w]) = inq'[w]
      BY <2>4, NothingBefore
    <3> QED
      BY <3>1, <3>2
  <2>6. \E n \in 0 .. Len(OnItsWay(w)) :
          OnItsWay(w)' = SubSeq(OnItsWay(w), n + 1, Len(OnItsWay(w)))
    <3>1. CASE Receiver(w) \in gone
      <4>1. OnItsWay(w) = <<>> /\ OnItsWay(w)' = <<>> /\ <<>> \in Seq(Pieces)
        BY <2>5, <3>1, EmptySeq
      <4> QED
        BY <4>1, Edges
    <3>2. CASE Receiver(w) \notin gone
      BY <2>4, <2>5, <3>2
    <3> QED
      BY <3>1, <3>2
  <2> QED
    BY <1>1, <2>3, <2>6 DEF WayStep, Promised
<1> QED
  BY <1>2, <1>3

\* The rest of the negotiation.
LEMMA NegotiationStep ==
  ASSUME TypeOK, Quiet, Negotiated, NEW w \in Ways,
         Accept \/ Connect \/ PeerConnects \/ Granted
  PROVE  WayStep(w)
<1>1. /\ phase \notin {"relay", "ended"} /\ phase' # "ended"
      /\ rd[w] = "off" /\ rd'[w] # "stop"
      /\ UNCHANGED <<asked, inq, buf, outq, gone>>
      /\ phase' = "relay" => phase = "reply"
  BY DEF Accept, Connect, PeerConnects, Granted, Quiet
<1>2. ~Over(w) /\ ~Over(w)' /\ OnItsWay(w)' = OnItsWay(w)
  BY <1>1 DEF Over, OnItsWay
<1>3. WayState(w)' = WayState(w) \/ (WayState(w) = "asked" /\ WayState(w)' = "open")
  BY <1>1, <1>2 DEF WayState, TypeOK
<1> QED
  BY <1>1, <1>2, <1>3 DEF WayStep, Promised

LEMMA WaySteps ==
  TypeOK /\ Quiet /\ Negotiated /\ Closed /\ [Next]_vars => \A w \in Ways : WayStep(w)
<1> SUFFICES ASSUME TypeOK, Quiet, Negotiated, Closed, [Next]_vars, NEW w \in Ways
             PROVE  WayStep(w)
  OBVIOUS
<1> USE DEF world, session
<1>1. ASSUME NEW s \in Sides, Send(s) \/ Receive(s) \/ Shutdown(s) \/ Leave(s)
      PROVE  WayStep(w)
  <2>1. CASE Shutdown(s)
    BY <2>1, WayUntouched DEF Shutdown
  <2> QED
    BY <1>1, <2>1, SendStep, ReceiveStep, LeaveStep
<1>2. ASSUME NEW v \in Ways, Relay(v) PROVE WayStep(w)
  BY <1>2, ReadStep, WriteStep, StopStep DEF Relay
<1>3. CASE AcceptFails \/ SourceIsGone \/ PeerIsGone \/ NoRequestComes
              \/ ConnectFails \/ ReplyFails \/ Refused
  <2>1. End /\ UNCHANGED gone
    BY <1>3 DEF AcceptFails, SourceIsGone, PeerIsGone, NoRequestComes, ConnectFails,
                ReplyFails, Refused, Silence
  <2> QED
    BY <2>1, SessionEnds
<1>4. CASE ReadRequest
  BY <1>4, AskStep
<1>5. CASE Accept \/ Connect \/ PeerConnects \/ Granted
  BY <1>5, NegotiationStep
<1>6. CASE UNCHANGED vars
  BY <1>6, WayUntouched DEF vars
<1> QED
  BY <1>1, <1>2, <1>3, <1>4, <1>5, <1>6 DEF Next, Server

\* Both ways of every session are as RelayPromise has them: what one side sends
\* after its request comes out at the other in that order, each piece once.
THEOREM RelayKeepsPromise == Spec => KeepsPromise
<1>1. "up" \in Ways /\ "down" \in Ways
  BY DEF Ways
<1>2. Init => Negotiated /\ Closed
  BY SocksAssumption DEF Init, Negotiated, Whole, Closed
<1>3. Init => Up!Init /\ Down!Init
  <2> SUFFICES ASSUME Init, NEW w \in Ways
               PROVE  OnItsWay(w) = <<>> /\ WayState(w) = "asking" /\ (gone # {}) = FALSE
    BY <1>1 DEF Up!Init, Down!Init
  <2>1. outq[w] = <<>> /\ buf[w] = <<>> /\ inq[w] = <<>> /\ ~Over(w) /\ gone = {}
    BY DEF Init, Nothing, Over
  <2>2. OnItsWay(w) = Chain(<<>>, <<>>, <<>>)
    BY <2>1 DEF OnItsWay, Chain
  <2>3. OnItsWay(w) = <<>>
    BY <2>2, NothingBefore, EmptySeq
  <2> QED
    BY <2>1, <2>3 DEF Init, WayState
<1>4. WayStep("up") => [Up!Next]_Up!vars
  BY DEF WayStep, Promised, Up!Next, Up!vars, Up!Send, Up!Ask, Up!Grant, Up!Receive, Up!Lose,
         Up!End
<1>5. WayStep("down") => [Down!Next]_Down!vars
  BY DEF WayStep, Promised, Down!Next, Down!vars, Down!Send, Down!Ask, Down!Grant,
         Down!Receive, Down!Lose, Down!End
<1>6. TypeOK /\ Quiet /\ Negotiated /\ Closed /\ [Next]_vars
        => [Up!Next]_Up!vars /\ [Down!Next]_Down!vars
  BY <1>1, <1>4, <1>5, WaySteps
<1> QED
  BY <1>2, <1>3, <1>6, TypeCorrect, NegotiatedStep, ClosedStep, PTL
     DEF Spec, KeepsPromise, Up!Spec, Down!Spec
=============================================================================
