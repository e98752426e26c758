-------------------------- MODULE RwgMultiTheorems --------------------------
(***************************************************************************)
(* Theorems about the multi-process remote working ground, for all sizes   *)
(* of its table, numbers of connections, names and lines.                  *)
(***************************************************************************)
EXTENDS RwgMulti, MinTheorems, FiniteSetTheorems, TLAPS

\* What a session in its place knows of its line.
Out == {"none", "fork", "login", "prompt", "leave", "remove", "zombie", "gone"}
Reading == {"check", "receive", "rename", "send", "run", "named", "wait"}
InLine(p) ==
  /\ pc[p] = "check" => line[p].receive # 0 \/ line[p].send # 0
  /\ pc[p] \in {"receive", "rename"} => line[p].receive # 0
  /\ pc[p] = "send" \/ (pc[p] = "cast" /\ next[p] = "send") => line[p].send # 0
  /\ pc[p] = "cast" =>
       /\ next[p] \in {"prompt", "leave", "send", "run"}
       /\ next[p] \in {"send", "run"} => line[p] # NoLine
InLines == \A p \in Pids : InLine(p)

LEMMA SlotsProperties ==
  /\ 1 \in Users /\ Users \subseteq Slots /\ 1 \in Slots /\ N + 1 \in Slots
  /\ \A u \in 0 .. N + 1 : u # 0 => u \in Slots
  /\ Pids \subseteq 0 .. M /\ Slots \subseteq 0 .. N + 1
  /\ \A u \in 0 .. N - 1 : u + 1 \in Users
BY RwgMultiAssumption DEF Users, Slots, Pids

LEMMA LineTypes ==
  ASSUME NEW l \in Lines
  PROVE  /\ l # NoLine
         /\ l.to \in 0 .. N + 1 /\ l.receive \in 0 .. N + 1 /\ l.send \in 0 .. N + 1
         /\ l.newName \in Names \cup {NoName}
         /\ l.kind = "tell" => l.to # 0
BY RwgMultiAssumption DEF Line

LEMMA FirstSlot ==
  ASSUME NEW S, S \subseteq Users, S # {}
  PROVE  Min(S) \in S
<1>1. S \in SUBSET Nat
  BY RwgMultiAssumption DEF Users
<1> QED
  BY <1>1, MinOfNaturals

\* The types of the shared state, of the master and of the sessions apart.
SharedOK ==
  /\ hasUser \in [Slots -> BOOLEAN]
  /\ name \in [Slots -> Names \cup {NoName}]
  /\ pid \in [Slots -> 0 .. M]
BoardOK ==
  /\ msg \in [by : 0 .. M, for : SUBSET Pids]
  /\ seen \in SUBSET Pids /\ audience \in SUBSET Pids /\ late \in SUBSET Pids
FilesOK ==
  /\ file \in [Slots \X Slots -> File \cup {NoFile}]
  /\ renamed \in [Slots \X Slots -> File \cup {NoFile}]
  /\ userPipeIn \in [Pids -> File \cup {NoFile}]
MasterOK ==
  /\ mpc \in {"accept", "fork", "user", "pid", "down"}
  /\ ID \in Slots
  /\ accepted \in 0 .. M /\ (mpc \in {"fork", "user", "pid"} => accepted # 0)
  /\ sigchld \in BOOLEAN
  /\ reaped \in 0 .. N /\ told \in 0 .. N
CastOK == at \in [Pids -> Users] /\ aim \in [Pids -> 0 .. N + 1] /\ next \in [Pids -> State]
SessionsOK ==
  /\ pc \in [Pids -> State] /\ slot \in [Pids -> Slots]
  /\ line \in [Pids -> Lines \cup {NoLine}]
  /\ \A p \in Pids : pc[p] \in Reading => line[p] # NoLine
RestOK ==
  pending \in SUBSET Pids /\ typed \in Nat /\ early \in SUBSET Pids /\ overlaps \in Nat
Parts ==
  SharedOK /\ BoardOK /\ FilesOK /\ MasterOK /\ CastOK /\ SessionsOK /\ RestOK

LEMMA TypeParts == TypeOK <=> Parts
BY DEF TypeOK, Parts, SharedOK, BoardOK, FilesOK, MasterOK, CastOK, SessionsOK, RestOK, Reading

\* A session that is left alone, or that is between two lines.
Alone(p) == pc'[p] = pc[p] /\ line'[p] = line[p] /\ next'[p] = next[p]

LEMMA LeftAlone ==
  ASSUME SessionsOK, InLines, NEW p \in Pids, Alone(p) \/ pc'[p] \in Out
  PROVE  InLine(p)' /\ (pc'[p] \in Reading => line'[p] # NoLine)
BY DEF SessionsOK, InLines, InLine, Alone, Out, Reading

\* One session takes a step, others at most end.
LEMMA OneMoves ==
  ASSUME SessionsOK, InLines, NEW p \in Pids,
         pc' \in [Pids -> State], line' \in [Pids -> Lines \cup {NoLine}], UNCHANGED slot,
         \A q \in Pids \ {p} : Alone(q) \/ pc'[q] \in Out,
         InLine(p)', pc'[p] \in Reading => line'[p] # NoLine
  PROVE  SessionsOK' /\ InLines'
<1>1. \A q \in Pids \ {p} : InLine(q)' /\ (pc'[q] \in Reading => line'[q] # NoLine)
  BY LeftAlone
<1> QED
  BY <1>1 DEF SessionsOK, InLines

LEMMA HolderTypes == \A u : Holder(u) \in SUBSET Pids
BY DEF Holder

LEMMA PostTypes ==
  ASSUME NEW by \in 0 .. M, NEW for \in SUBSET Pids, Post(by, for), RestOK
  PROVE  BoardOK'
BY DEF Post, BoardOK, RestOK

LEMMA BroadcastTypes ==
  ASSUME RestOK, CastOK, SessionsOK, InLines, NEW p \in Pids,
         NEW for \in SUBSET Pids, NEW to \in 0 .. N + 1,
         NEW then \in {"prompt", "leave", "send", "run"}, Broadcast(p, for, to, then),
         UNCHANGED slot,
         line' \in [Pids -> Lines \cup {NoLine}], \A q \in Pids \ {p} : line'[q] = line[q],
         then \in {"send", "run"} => line'[p] # NoLine,
         then = "send" => line'[p].send # 0
  PROVE  BoardOK' /\ CastOK' /\ SessionsOK' /\ InLines'
<1>1. BoardOK'
  BY PostTypes, SlotsProperties DEF Broadcast
<1>2. CastOK'
  BY SlotsProperties DEF Broadcast, First, CastOK, State, Users
<1>3. pc' \in [Pids -> State] /\ pc'[p] = "cast" /\ next'[p] = then
  BY DEF Broadcast, CastOK, SessionsOK, State
<1>4. \A q \in Pids \ {p} : Alone(q)
  BY DEF Broadcast, CastOK, SessionsOK, Alone
<1>5. InLine(p)'
  BY <1>3 DEF InLine
<1>6. pc'[p] \notin Reading
  BY <1>3 DEF Reading
<1> QED
  BY <1>1, <1>2, <1>3, <1>4, <1>5, <1>6, OneMoves

\* A signal ends sessions that are deaf to it, and moves no other.
LEMMA SignalTypes ==
  ASSUME BoardOK, MasterOK, RestOK, NEW target, NEW self, NEW pcs \in [Pids -> State],
         Signal(target, self, pcs), UNCHANGED <<ID, accepted>>
  PROVE  /\ BoardOK' /\ pending' \in SUBSET Pids /\ sigchld' \in BOOLEAN
         /\ mpc' \in {mpc, "down"}
         /\ pc' \in [Pids -> State]
         /\ \A p \in Pids : pc'[p] = pcs[p] \/ pc'[p] = "zombie"
<1>1. Hit(target) \subseteq Pids
  BY DEF Hit, Live
<1>2. sigchld' \in BOOLEAN /\ mpc' \in {mpc, "down"}
  BY DEF Signal, MasterOK
<1>3. pending' \in SUBSET Pids /\ BoardOK'
  BY <1>1 DEF Signal, BoardOK, RestOK
<1>4. pc' \in [Pids -> State] /\ \A p \in Pids : pc'[p] = pcs[p] \/ pc'[p] = "zombie"
  BY DEF Signal, State
<1> QED
  BY <1>2, <1>3, <1>4

LEMMA EndLineTypes ==
  ASSUME FilesOK, SessionsOK, InLines, NEW p \in Pids, EndLine(p), UNCHANGED <<slot, next>>
  PROVE  SessionsOK' /\ InLines' /\ userPipeIn' \in [Pids -> File \cup {NoFile}]
<1>1. /\ pc' \in [Pids -> State] /\ line' \in [Pids -> Lines \cup {NoLine}]
      /\ pc'[p] = "prompt" /\ \A q \in Pids \ {p} : Alone(q)
  BY DEF EndLine, GoTo, SessionsOK, State, Alone
<1>2. InLine(p)' /\ pc'[p] \notin Reading
  BY <1>1 DEF InLine, Reading
<1>3. userPipeIn' \in [Pids -> File \cup {NoFile}]
  BY DEF EndLine, FilesOK
<1> QED
  BY <1>1, <1>2, <1>3, OneMoves

\* A session goes on with the line it has, or to a place where it has none.
LEMMA GoToTypes ==
  ASSUME SessionsOK, InLines, NEW p \in Pids, NEW place \in State \ {"cast"}, GoTo(p, place),
         UNCHANGED <<slot, line, next>>,
         place \in Reading => line[p] # NoLine,
         place = "check" => line[p].receive # 0 \/ line[p].send # 0,
         place \in {"receive", "rename"} => line[p].receive # 0,
         place = "send" => line[p].send # 0
  PROVE  SessionsOK' /\ InLines'
<1>1. pc' \in [Pids -> State] /\ pc'[p] = place /\ \A q \in Pids \ {p} : Alone(q)
  BY DEF GoTo, SessionsOK, Alone
<1>2. InLine(p)'
  BY <1>1 DEF InLine
<1>3. line' \in [Pids -> Lines \cup {NoLine}]
  BY DEF SessionsOK
<1> QED
  BY <1>1, <1>2, <1>3, OneMoves

LEMMA DropTypes ==
  ASSUME FilesOK, SessionsOK, NEW p \in Pids, Drop(p)
  PROVE  /\ line' \in [Pids -> Lines \cup {NoLine}]
         /\ \A q \in Pids \ {p} : line'[q] = line[q]
         /\ userPipeIn' \in [Pids -> File \cup {NoFile}]
BY DEF Drop, FilesOK, SessionsOK

LEMMA MasterStep == Parts /\ InLines /\ (Master \/ Accept) => Parts' /\ InLines'
<1> SUFFICES ASSUME Parts, InLines, Master \/ Accept
             PROVE  Parts' /\ InLines'
  OBVIOUS
<1> USE DEF table, board, files, loop, handler, cast, rest
<1>0. SharedOK /\ BoardOK /\ FilesOK /\ MasterOK /\ CastOK /\ SessionsOK /\ RestOK
  BY DEF Parts
<1>s. ASSUME UNCHANGED <<pc, slot, line, next>> PROVE SessionsOK' /\ InLines'
  BY <1>0, <1>s DEF SessionsOK, InLines, InLine
<1>t. ASSUME UNCHANGED <<slot, line, next>>, pc' \in [Pids -> State],
             \A q \in Pids : pc'[q] = pc[q] \/ pc'[q] \in Out
      PROVE  SessionsOK' /\ InLines'
  <2>1. \A q \in Pids : InLine(q)' /\ (pc'[q] \in Reading => line'[q] # NoLine)
    BY <1>0, <1>t, LeftAlone DEF Alone
  <2> QED
    BY <1>0, <1>t, <2>1 DEF SessionsOK, InLines
<1>1. CASE Accept
  <2>1. NewID \in Slots
    BY SlotsProperties, FirstSlot DEF NewID, Free
  <2>2. accepted + 1 \in 0 .. M /\ accepted + 1 # 0
    BY <1>0, <1>1, RwgMultiAssumption DEF Accept, MasterOK
  <2>3. MasterOK'
    BY <1>0, <1>1, <2>1, <2>2 DEF Accept, MasterOK
  <2>4. overlaps' \in Nat
    BY <1>0, <1>1 DEF Accept, Begin, RestOK
  <2> QED
    BY <1>0, <1>1, <1>s, <2>3, <2>4
       DEF Accept, Parts, SharedOK, BoardOK, FilesOK, CastOK, RestOK
<1>2. CASE Fork
  <2>1. accepted \in Pids
    BY <1>0, <1>2, RwgMultiAssumption DEF Fork, MasterOK, Pids
  <2>2. /\ pc' \in [Pids -> State] /\ slot' \in [Pids -> Slots]
        /\ \A q \in Pids : pc'[q] = pc[q] \/ pc'[q] \in Out
    BY <1>0, <1>2, <2>1 DEF Fork, SessionsOK, MasterOK, State, Out
  <2>3. \A q \in Pids : InLine(q)' /\ (pc'[q] \in Reading => line'[q] # NoLine)
    BY <1>0, <1>2, <2>2, LeftAlone DEF Fork, Alone
  <2>4. SessionsOK' /\ InLines'
    BY <1>0, <1>2, <2>2, <2>3 DEF Fork, SessionsOK, InLines
  <2> QED
    BY <1>0, <1>2, <2>4
       DEF Fork, Parts, SharedOK, BoardOK, FilesOK, MasterOK, CastOK, RestOK
<1>3. CASE EnterUser
  <2>1. SharedOK' /\ MasterOK'
    BY <1>0, <1>3 DEF EnterUser, SharedOK, MasterOK
  <2> QED
    BY <1>0, <1>3, <1>s, <2>1 DEF EnterUser, Parts, BoardOK, FilesOK, CastOK, RestOK
<1>4. CASE EnterPid
  <2>1. SharedOK' /\ MasterOK'
    BY <1>0, <1>4 DEF EnterPid, Known, SharedOK, MasterOK
  <2> QED
    BY <1>0, <1>4, <1>s, <2>1 DEF EnterPid, Parts, BoardOK, FilesOK, CastOK, RestOK
<1>5. CASE Reap
  <2>1. SessionsOK' /\ InLines'
    <3>1. pc' \in [Pids -> State] /\ \A q \in Pids : pc'[q] = pc[q] \/ pc'[q] \in Out
      BY <1>0, <1>5 DEF Reap, SessionsOK, State, Out
    <3> QED
      BY <1>5, <1>t, <3>1 DEF Reap
  <2>2. Dead # {} => Min(Dead) \in Users /\ Min(Dead) \in 0 .. N
    BY FirstSlot, SlotsProperties, RwgMultiAssumption DEF Dead, Online, Users
  <2>3. SharedOK'
    BY <1>0, <1>5, <2>2, SlotsProperties DEF Reap, SharedOK
  <2>4. MasterOK'
    BY <1>0, <1>5, <2>2 DEF Reap, MasterOK
  <2>5. BoardOK'
    <3>1. {pid[u] : u \in Online \ {Min(Dead)}} \ {0} \in SUBSET Pids
      BY <1>0, SlotsProperties, RwgMultiAssumption DEF SharedOK, Online, Pids
    <3>2. 0 \in 0 .. M
      BY RwgMultiAssumption
    <3>3. CASE Dead = {}
      BY <1>0, <1>5, <3>3 DEF Reap, BoardOK
    <3>4. CASE Dead # {}
      <4>1. /\ msg' = [by |-> 0, for |-> Pids] /\ seen' = {}
            /\ audience' = {pid[u] : u \in Online \ {Min(Dead)}} \ {0}
        BY <1>5, <3>4 DEF Reap
      <4>2. msg' \in [by : 0 .. M, for : SUBSET Pids] /\ late' = {}
        BY <1>5, <3>2, <3>4, <4>1 DEF Reap
      <4> QED
        BY <3>1, <4>1, <4>2 DEF BoardOK
    <3> QED
      BY <3>3, <3>4
  <2> QED
    BY <1>0, <1>5, <2>1, <2>3, <2>4, <2>5 DEF Reap, Parts, FilesOK, CastOK, RestOK
<1>6. CASE ReapTell
  <2>1. told + 1 \in Users /\ told + 1 \in 0 .. N
    BY <1>0, <1>6, RwgMultiAssumption DEF ReapTell, MasterOK, Users
  <2>2. told' = told + 1 /\ UNCHANGED <<table, files, ID, accepted, reaped, slot, line, cast, userPipeIn, rest>>
    BY <1>6 DEF ReapTell
  <2>3. /\ BoardOK' /\ pending' \in SUBSET Pids /\ sigchld' \in BOOLEAN
        /\ mpc' \in {mpc, "down"}
        /\ pc' \in [Pids -> State]
        /\ \A p \in Pids : pc'[p] = pc[p] \/ pc'[p] = "zombie"
    <3>1. CASE hasUser[told + 1]
      <4>1. Signal(pid[told + 1], 0, pc)
        BY <1>6, <3>1 DEF ReapTell
      <4> QED
        BY <1>0, <2>2, <4>1, SignalTypes DEF SessionsOK
    <3>2. CASE ~hasUser[told + 1]
      BY <1>0, <1>6, <3>2 DEF ReapTell, BoardOK, RestOK, MasterOK, SessionsOK
    <3> QED
      BY <3>1, <3>2
  <2>4. SessionsOK' /\ InLines'
    BY <1>t, <2>2, <2>3 DEF Out
  <2>5. MasterOK'
    BY <1>0, <2>1, <2>2, <2>3 DEF MasterOK
  <2> QED
    BY <1>0, <2>2, <2>3, <2>4, <2>5 DEF Parts, SharedOK, FilesOK, CastOK, RestOK
<1>7. CASE ReapRemove
  <2>1. FilesOK'
    BY <1>0, <1>7 DEF ReapRemove, Remove, FilesOK
  <2>2. MasterOK'
    BY <1>0, <1>7, RwgMultiAssumption DEF ReapRemove, MasterOK
  <2> QED
    BY <1>0, <1>7, <1>s, <2>1, <2>2
       DEF ReapRemove, Parts, SharedOK, BoardOK, CastOK, RestOK
<1> QED
  BY <1>1, <1>2, <1>3, <1>4, <1>5, <1>6, <1>7 DEF Master

\* The steps of a session: its signals, its broadcasts and its login.
LEMMA BroadcastStep ==
  ASSUME Parts, InLines, NEW p \in Pids, Handle(p) \/ Cast(p) \/ Install(p) \/ Login(p)
  PROVE  Parts' /\ InLines'
<1> USE DEF table, board, files, loop, handler, cast, rest
<1>0. SharedOK /\ BoardOK /\ FilesOK /\ MasterOK /\ CastOK /\ SessionsOK /\ RestOK
  BY DEF Parts
<1>1. CASE Handle(p)
  BY <1>0, <1>1 DEF Handle, Parts, SharedOK, BoardOK, FilesOK, MasterOK, CastOK, SessionsOK,
                    RestOK, InLines, InLine
<1>2. CASE Cast(p)
  <2> DEFINE u == IF aim[p] = 0 THEN at[p] ELSE aim[p]
             over == aim[p] # 0 \/ at[p] = N
             pcs == [pc EXCEPT ![p] = IF over THEN next[p] ELSE "cast"]
  <2>1. /\ at' = [at EXCEPT ![p] = IF over THEN 1 ELSE at[p] + 1]
        /\ aim' = [aim EXCEPT ![p] = IF over THEN 0 ELSE aim[p]]
        /\ next' = [next EXCEPT ![p] = IF over THEN "prompt" ELSE next[p]]
        /\ \/ Signal(pid[u], p, pcs)
           \/ pc' = pcs /\ UNCHANGED <<pending, board, sigchld, mpc>>
        /\ UNCHANGED <<table, files, ID, accepted, handler, slot, line, userPipeIn, rest>>
        /\ pc[p] = "cast"
    BY <1>2 DEF Cast
  <2>2. pcs \in [Pids -> State]
    BY <1>0 DEF SessionsOK, CastOK, State
  <2>3. over \in BOOLEAN
    OBVIOUS
  <2> HIDE DEF u, pcs
  <2>4. /\ BoardOK' /\ pending' \in SUBSET Pids /\ sigchld' \in BOOLEAN
        /\ mpc' \in {mpc, "down"}
        /\ pc' \in [Pids -> State]
        /\ \A q \in Pids : pc'[q] = pcs[q] \/ pc'[q] = "zombie"
    <3>1. CASE Signal(pid[u], p, pcs)
      BY <1>0, <2>1, <2>2, <3>1, SignalTypes
    <3>2. CASE pc' = pcs /\ UNCHANGED <<pending, board, sigchld, mpc>>
      BY <1>0, <2>2, <3>2 DEF BoardOK, RestOK, MasterOK
    <3> QED
      BY <2>1, <3>1, <3>2
  <2>5. MasterOK'
    BY <1>0, <2>1, <2>4 DEF MasterOK
  <2>6. CastOK'
    <3>1. ~over => at[p] + 1 \in Users
      BY <1>0, RwgMultiAssumption DEF CastOK, Users
    <3>2. "prompt" \in State /\ 0 \in 0 .. N + 1
      BY RwgMultiAssumption DEF State
    <3> HIDE DEF over
    <3> QED
      BY <1>0, <2>1, <3>1, <3>2, SlotsProperties DEF CastOK
  <2>7. \A q \in Pids \ {p} : Alone(q) \/ pc'[q] \in Out
    BY <1>0, <2>1, <2>4 DEF pcs, Alone, Out, SessionsOK, CastOK
  <2>8. pc'[p] = "zombie" \/ pc'[p] = IF over THEN next[p] ELSE "cast"
    BY <1>0, <2>4 DEF pcs, SessionsOK
  <2>9. next'[p] = IF over THEN "prompt" ELSE next[p]
    BY <1>0, <2>1 DEF CastOK
  <2> HIDE DEF over
  <2>10. InLine(p)' /\ (pc'[p] \in Reading => line'[p] # NoLine)
    BY <1>0, <2>1, <2>8, <2>9 DEF InLines, InLine, Reading
  <2>11. SessionsOK' /\ InLines'
    <3>1. line' \in [Pids -> Lines \cup {NoLine}] /\ UNCHANGED slot
      BY <1>0, <2>1 DEF SessionsOK
    <3> QED
      BY <1>0, <2>4, <2>7, <2>10, <3>1, OneMoves
  <2> QED
    BY <1>0, <2>1, <2>4, <2>5, <2>6, <2>11 DEF Parts, SharedOK, FilesOK, RestOK
<1>3. CASE Install(p)
  <2>1. SessionsOK' /\ InLines'
    BY <1>0, <1>3, GoToTypes DEF Install, State, Reading
  <2> QED
    BY <1>0, <1>3, <2>1
       DEF Install, Parts, SharedOK, BoardOK, FilesOK, MasterOK, CastOK, RestOK
<1>4. CASE Login(p)
  <2>1. BoardOK' /\ CastOK' /\ SessionsOK' /\ InLines'
    <3>1. Broadcast(p, Pids, 0, "prompt") /\ UNCHANGED <<slot, line>>
      BY <1>4 DEF Login, Yell
    <3>2. Pids \in SUBSET Pids /\ 0 \in 0 .. N + 1
      BY RwgMultiAssumption
    <3>3. line' \in [Pids -> Lines \cup {NoLine}] /\ line' = line
      BY <1>0, <3>1 DEF SessionsOK
    <3> QED
      BY <1>0, <3>1, <3>2, <3>3, BroadcastTypes
  <2> QED
    BY <1>0, <1>4, <2>1 DEF Login, Parts, SharedOK, FilesOK, MasterOK, RestOK
<1> QED
  BY <1>1, <1>2, <1>3, <1>4

\* The line is read, and its user pipes are opened.
LEMMA LineStep ==
  ASSUME Parts, InLines, NEW p \in Pids,
         ReadLine(p) \/ HangUp(p) \/ Check(p) \/ Receive(p) \/ Rename(p) \/ Send(p)
  PROVE  Parts' /\ InLines'
<1> USE DEF table, board, files, loop, handler, cast, rest
<1>0. SharedOK /\ BoardOK /\ FilesOK /\ MasterOK /\ CastOK /\ SessionsOK /\ RestOK
  BY DEF Parts
<1>a. Pids \in SUBSET Pids /\ 0 \in 0 .. N + 1
  BY RwgMultiAssumption
<1>1. CASE ReadLine(p)
  <2>1. PICK l \in Lines :
          line' = [line EXCEPT ![p] = l] /\ GoTo(p, IF Piped(l) THEN "check" ELSE "run")
    BY <1>1 DEF ReadLine
  <2>2. /\ pc' \in [Pids -> State] /\ line' \in [Pids -> Lines \cup {NoLine}]
        /\ line'[p] = l /\ pc'[p] = IF Piped(l) THEN "check" ELSE "run"
    BY <1>0, <2>1 DEF GoTo, SessionsOK, State
  <2>3. \A q \in Pids \ {p} : Alone(q)
    BY <1>0, <1>1, <2>1 DEF ReadLine, GoTo, Alone, SessionsOK
  <2>4. InLine(p)' /\ line'[p] # NoLine
    BY <2>2, LineTypes DEF InLine, Piped
  <2>5. SessionsOK' /\ InLines'
    BY <1>0, <1>1, <2>2, <2>3, <2>4, OneMoves DEF ReadLine
  <2>6. RestOK'
    BY <1>0, <1>1 DEF ReadLine, Begin, RestOK
  <2> QED
    BY <1>0, <1>1, <2>5, <2>6
       DEF ReadLine, Parts, SharedOK, BoardOK, FilesOK, MasterOK, CastOK
<1>2. CASE HangUp(p)
  <2>1. SessionsOK' /\ InLines'
    BY <1>0, <1>2, GoToTypes DEF HangUp, Die, State, Reading
  <2>2. RestOK' /\ MasterOK'
    BY <1>0, <1>2 DEF HangUp, Die, Begin, RestOK, MasterOK
  <2> QED
    BY <1>0, <1>2, <2>1, <2>2
       DEF HangUp, Die, Parts, SharedOK, BoardOK, FilesOK, CastOK
<1>3. CASE Check(p)
  <2>1. SessionsOK' /\ InLines' /\ userPipeIn' \in [Pids -> File \cup {NoFile}]
    <3>1. CASE EndLine(p)
      BY <1>0, <1>3, <3>1, EndLineTypes DEF Check
    <3>2. CASE ~EndLine(p)
      <4>1. /\ pc[p] = "check" /\ UNCHANGED <<slot, line, next, userPipeIn>>
            /\ GoTo(p, IF line[p].receive # 0 THEN "receive" ELSE "send")
        BY <1>3, <3>2 DEF Check
      <4>2. line[p].receive # 0 \/ line[p].send # 0
        BY <4>1 DEF InLines, InLine
      <4>3. line[p] # NoLine
        BY <1>0, <4>1 DEF SessionsOK, Reading
      <4>4. CASE line[p].receive # 0
        BY <1>0, <4>1, <4>3, <4>4, GoToTypes DEF State, FilesOK
      <4>5. CASE line[p].receive = 0
        BY <1>0, <4>1, <4>2, <4>3, <4>5, GoToTypes DEF State, FilesOK
      <4> QED
        BY <4>4, <4>5
    <3> QED
      BY <3>1, <3>2
  <2> QED
    BY <1>0, <1>3, <2>1 DEF Check, Parts, SharedOK, BoardOK, FilesOK, MasterOK, CastOK, RestOK
<1>4. CASE Receive(p)
  <2>1. SessionsOK' /\ InLines' /\ userPipeIn' \in [Pids -> File \cup {NoFile}]
    <3>1. CASE EndLine(p)
      BY <1>0, <1>4, <3>1, EndLineTypes DEF Receive
    <3>2. CASE ~EndLine(p)
      <4>1. pc[p] = "receive" /\ UNCHANGED <<slot, line, next, userPipeIn>> /\ GoTo(p, "rename")
        BY <1>4, <3>2 DEF Receive
      <4>2. line[p].receive # 0 /\ line[p] # NoLine
        BY <1>0, <4>1 DEF InLines, InLine, SessionsOK, Reading
      <4> QED
        BY <1>0, <4>1, <4>2, GoToTypes DEF State, FilesOK
    <3> QED
      BY <3>1, <3>2
  <2> QED
    BY <1>0, <1>4, <2>1
       DEF Receive, Parts, SharedOK, BoardOK, FilesOK, MasterOK, CastOK, RestOK
<1>5. CASE Rename(p)
  <2>1. line[p] \in Lines /\ line[p].receive # 0 /\ line[p].receive \in Slots /\ slot[p] \in Slots
    <3>1. pc[p] = "rename"
      BY <1>5 DEF Rename
    <3>2. line[p] \in Lines /\ line[p].receive # 0 /\ slot[p] \in Slots
      BY <1>0, <3>1 DEF InLines, InLine, SessionsOK, Reading
    <3> QED
      BY <3>2, LineTypes, SlotsProperties
  <2>2. FilesOK'
    <3> DEFINE f == FromPipe(p)
               opened == IF file[f] = NoFile THEN renamed[f] ELSE file[f]
    <3>1. f \in Slots \X Slots
      BY <2>1 DEF FromPipe
    <3>2. opened \in File \cup {NoFile}
      BY <1>0, <3>1 DEF FilesOK
    <3>3. /\ file' = [file EXCEPT ![f] = NoFile] /\ renamed' = [renamed EXCEPT ![f] = opened]
          /\ userPipeIn' = [userPipeIn EXCEPT ![p] = opened]
      BY <1>5 DEF Rename
    <3> HIDE DEF f, opened
    <3> QED
      BY <1>0, <3>2, <3>3 DEF FilesOK
  <2>3. BoardOK' /\ CastOK' /\ SessionsOK' /\ InLines'
    <3>1. Broadcast(p, Pids, 0, AfterReceive(p)) /\ UNCHANGED <<slot, line>>
      BY <1>5 DEF Rename, Yell
    <3>2. /\ AfterReceive(p) \in {"prompt", "leave", "send", "run"}
          /\ AfterReceive(p) = "send" => line[p].send # 0
      BY DEF AfterReceive
    <3>3. /\ line' \in [Pids -> Lines \cup {NoLine}] /\ line' = line
          /\ line[p] # NoLine
      BY <1>0, <2>1, <3>1, LineTypes DEF SessionsOK
    <3> QED
      BY <1>0, <1>a, <3>1, <3>2, <3>3, BroadcastTypes
  <2> QED
    BY <1>0, <1>5, <2>2, <2>3 DEF Rename, Parts, SharedOK, MasterOK, RestOK
<1>6. CASE Send(p)
  <2>1. line[p] \in Lines /\ line[p].send \in Slots /\ slot[p] \in Slots /\ line[p] # NoLine
    <3>1. pc[p] = "send"
      BY <1>6 DEF Send
    <3>2. line[p] \in Lines /\ line[p].send # 0 /\ slot[p] \in Slots
      BY <1>0, <3>1 DEF InLines, InLine, SessionsOK, Reading
    <3> QED
      BY <3>2, LineTypes, SlotsProperties
  <2>2. CASE file[ToPipe(p)] # NoFile
    <3>1. EndLine(p) /\ UNCHANGED <<file, board, cast, slot>>
      BY <1>6, <2>2 DEF Send
    <3>2. SessionsOK' /\ InLines' /\ userPipeIn' \in [Pids -> File \cup {NoFile}]
      BY <1>0, <3>1, EndLineTypes
    <3> QED
      BY <1>0, <1>6, <3>1, <3>2
         DEF Send, Parts, SharedOK, BoardOK, FilesOK, MasterOK, CastOK, RestOK
  <2>3. CASE file[ToPipe(p)] = NoFile
    <3> DEFINE f == [by |-> p, for |-> Holder(line[p].send), whole |-> line[p].kind # "exec"]
    <3>1. /\ file' = [file EXCEPT ![ToPipe(p)] = f] /\ Broadcast(p, Pids, 0, "run")
          /\ UNCHANGED <<line, userPipeIn, slot, renamed>>
      BY <1>6, <2>3 DEF Send, Yell
    <3>2. f \in File
      BY HolderTypes DEF File
    <3> HIDE DEF f
    <3>3. FilesOK'
      BY <1>0, <3>1, <3>2 DEF FilesOK
    <3>4. line' \in [Pids -> Lines \cup {NoLine}] /\ line' = line
      BY <1>0, <3>1 DEF SessionsOK
    <3>5. BoardOK' /\ CastOK' /\ SessionsOK' /\ InLines'
      BY <1>0, <1>a, <2>1, <3>1, <3>4, BroadcastTypes
    <3> QED
      BY <1>0, <1>6, <3>3, <3>5 DEF Send, Parts, SharedOK, MasterOK, RestOK
  <2> QED
    BY <2>2, <2>3
<1> QED
  BY <1>1, <1>2, <1>3, <1>4, <1>5, <1>6

\* The commands.
LEMMA CommandStep ==
  ASSUME Parts, InLines, NEW p \in Pids,
         \/ Quiet(p) \/ YellLine(p) \/ Tell(p) \/ Name(p) \/ Named(p)
         \/ Exit(p) \/ Leave(p) \/ RemovePipes(p) \/ Exec(p) \/ Finish(p)
  PROVE  Parts' /\ InLines'
<1> USE DEF table, board, files, loop, handler, cast, rest
<1>0. SharedOK /\ BoardOK /\ FilesOK /\ MasterOK /\ CastOK /\ SessionsOK /\ RestOK
  BY DEF Parts
<1>a. 0 \in 0 .. N + 1 /\ p \in 0 .. M /\ slot[p] \in 0 .. N + 1
  <2>1. M \in Nat /\ N \in Nat
    BY RwgMultiAssumption
  <2>3. p \in 0 .. M
    BY <2>1 DEF Pids
  <2>4. 0 \in 0 .. N + 1
    BY <2>1
  <2>5. slot[p] \in Slots
    BY <1>0 DEF SessionsOK
  <2>6. slot[p] \in 0 .. N + 1
    BY <2>1, <2>5 DEF Slots
  <2> QED
    BY <2>3, <2>4, <2>6
<1>b. ASSUME NEW for \in SUBSET Pids, NEW to \in 0 .. N + 1,
             NEW then \in {"prompt", "leave"}, Broadcast(p, for, to, then), Drop(p),
             UNCHANGED slot
      PROVE  /\ BoardOK' /\ CastOK' /\ SessionsOK' /\ InLines'
             /\ userPipeIn' \in [Pids -> File \cup {NoFile}]
  <2>1. /\ line' \in [Pids -> Lines \cup {NoLine}]
        /\ \A q \in Pids \ {p} : line'[q] = line[q]
        /\ userPipeIn' \in [Pids -> File \cup {NoFile}]
    BY <1>0, <1>b, DropTypes
  <2> QED
    BY <1>0, <1>b, <2>1, BroadcastTypes
<1>c. ASSUME EndLine(p), UNCHANGED <<slot, next>>
      PROVE  SessionsOK' /\ InLines' /\ userPipeIn' \in [Pids -> File \cup {NoFile}]
  BY <1>0, <1>c, EndLineTypes
<1>d. pc[p] \in {"run", "named"} => line[p] \in Lines /\ line[p] # NoLine
  BY <1>0 DEF SessionsOK, Reading
<1>1. CASE Quiet(p)
  BY <1>0, <1>1, <1>c
     DEF Quiet, Parts, SharedOK, BoardOK, FilesOK, MasterOK, CastOK, RestOK
<1>2. CASE YellLine(p)
  BY <1>0, <1>2, <1>a, <1>b
     DEF YellLine, Yell, Parts, SharedOK, FilesOK, MasterOK, RestOK
<1>3. CASE Tell(p)
  <2>1. line[p].to \in Slots /\ line[p].to \in 0 .. N + 1
    BY <1>3, <1>d, LineTypes, SlotsProperties DEF Tell, Running
  <2>3. RestOK' /\ UNCHANGED <<table, files, loop, sigchld, handler, slot>>
    BY <1>0, <1>3 DEF Tell, RestOK
  <2>4. /\ BoardOK' /\ CastOK' /\ SessionsOK' /\ InLines'
        /\ userPipeIn' \in [Pids -> File \cup {NoFile}]
    <3>1. CASE hasUser[line[p].to]
      <4>1. Broadcast(p, Holder(line[p].to), line[p].to, "prompt") /\ Drop(p)
        BY <1>3, <3>1 DEF Tell, Aim
      <4> QED
        BY <1>b, <2>1, <2>3, <4>1, HolderTypes
    <3>2. CASE ~hasUser[line[p].to]
      <4>1. EndLine(p) /\ UNCHANGED <<board, cast>>
        BY <1>3, <3>2 DEF Tell
      <4> QED
        BY <1>0, <1>c, <2>3, <4>1 DEF BoardOK, CastOK
    <3> QED
      BY <3>1, <3>2
  <2> QED
    BY <1>0, <2>3, <2>4 DEF Parts, SharedOK, FilesOK, MasterOK
<1>4. CASE Name(p)
  <2>1. RestOK' /\ UNCHANGED <<table, files, loop, sigchld, handler, slot>>
    BY <1>0, <1>4 DEF Name, RestOK
  <2>2. /\ BoardOK' /\ CastOK' /\ SessionsOK' /\ InLines'
        /\ userPipeIn' \in [Pids -> File \cup {NoFile}]
    <3>1. CASE Taken(p)
      <4>1. Broadcast(p, {p}, slot[p], "prompt") /\ Drop(p)
        BY <1>4, <3>1 DEF Name
      <4> QED
        BY <1>a, <1>b, <2>1, <4>1
    <3>2. CASE ~Taken(p)
      <4>1. GoTo(p, "named") /\ UNCHANGED <<board, cast, line, userPipeIn>> /\ pc[p] = "run"
        BY <1>4, <3>2 DEF Name, Running
      <4>2. SessionsOK' /\ InLines'
        BY <1>0, <1>d, <2>1, <4>1, GoToTypes DEF State
      <4> QED
        BY <1>0, <4>1, <4>2 DEF BoardOK, CastOK, FilesOK
    <3> QED
      BY <3>1, <3>2
  <2> QED
    BY <1>0, <2>1, <2>2 DEF Parts, SharedOK, FilesOK, MasterOK
<1>5. CASE Named(p)
  <2>1. line[p].newName \in Names \cup {NoName}
    BY <1>5, <1>d, LineTypes DEF Named
  <2>2. SharedOK'
    BY <1>0, <1>5, <2>1 DEF Named, SharedOK
  <2>3. /\ BoardOK' /\ CastOK' /\ SessionsOK' /\ InLines'
        /\ userPipeIn' \in [Pids -> File \cup {NoFile}]
    BY <1>5, <1>a, <1>b DEF Named, Yell
  <2> QED
    BY <1>0, <1>5, <2>2, <2>3 DEF Named, Parts, FilesOK, MasterOK, RestOK
<1>6. CASE Exit(p)
  BY <1>0, <1>6, <1>a, <1>b DEF Exit, Yell, Parts, SharedOK, FilesOK, MasterOK, RestOK
<1>7. CASE Leave(p)
  <2>1. SessionsOK' /\ InLines'
    BY <1>0, <1>7, GoToTypes DEF Leave, State, Reading
  <2> QED
    BY <1>0, <1>7, <2>1
       DEF Leave, Parts, SharedOK, BoardOK, FilesOK, MasterOK, CastOK, RestOK
<1>8. CASE RemovePipes(p)
  <2>1. SessionsOK' /\ InLines'
    BY <1>0, <1>8, GoToTypes DEF RemovePipes, Die, State, Reading
  <2>2. FilesOK'
    BY <1>0, <1>8 DEF RemovePipes, Remove, FilesOK
  <2> QED
    BY <1>0, <1>8, <2>1, <2>2
       DEF RemovePipes, Die, Parts, SharedOK, BoardOK, MasterOK, CastOK, RestOK
<1>9. CASE Exec(p)
  <2>1. SessionsOK' /\ InLines'
    BY <1>0, <1>9, <1>d, GoToTypes DEF Exec, Wait, Running, State
  <2> QED
    BY <1>0, <1>9, <2>1
       DEF Exec, Wait, Parts, SharedOK, BoardOK, FilesOK, MasterOK, CastOK, RestOK
<1>10. CASE Finish(p)
  <2>1. \A f \in File \cup {NoFile} : Whole(p, f) \in File \cup {NoFile}
    BY DEF Whole, File
  <2>2. FilesOK'
    BY <1>0, <1>10, <2>1 DEF Finish, FilesOK
  <2>3. /\ pc' \in [Pids -> State] /\ line' \in [Pids -> Lines \cup {NoLine}]
        /\ pc'[p] = "prompt" /\ \A q \in Pids \ {p} : Alone(q)
    BY <1>0, <1>10 DEF Finish, GoTo, SessionsOK, State, Alone
  <2>4. InLine(p)' /\ pc'[p] \notin Reading
    BY <2>3 DEF InLine, Reading
  <2>5. SessionsOK' /\ InLines'
    BY <1>0, <1>10, <2>3, <2>4, OneMoves DEF Finish
  <2> QED
    BY <1>0, <1>10, <2>2, <2>5
       DEF Finish, Parts, SharedOK, BoardOK, MasterOK, CastOK, RestOK
<1> QED
  BY <1>1, <1>2, <1>3, <1>4, <1>5, <1>6, <1>7, <1>8, <1>9, <1>10

LEMMA PartsAlways == Spec => [](Parts /\ InLines)
<1>1. Init => Parts /\ InLines
  <2> SUFFICES ASSUME Init PROVE Parts /\ InLines
    OBVIOUS
  <2>1. BoardOK
    BY RwgMultiAssumption DEF Init, BoardOK
  <2>2. CastOK /\ SessionsOK /\ InLines
    BY SlotsProperties, RwgMultiAssumption
       DEF Init, CastOK, SessionsOK, InLines, InLine, State, Reading
  <2>3. MasterOK
    <3>1. N \in Nat \ {0} /\ M \in Nat /\ 1 \in Slots
      BY RwgMultiAssumption DEF Slots
    <3>2. 0 \in 0 .. N /\ 0 \in 0 .. M
      BY <3>1
    <3> QED
      BY <3>1, <3>2 DEF Init, MasterOK
  <2>4. SharedOK /\ FilesOK /\ RestOK
    BY RwgMultiAssumption DEF Init, SharedOK, FilesOK, RestOK
  <2> QED
    BY <2>1, <2>2, <2>3, <2>4 DEF Parts
<1>2. Parts /\ InLines /\ [Next]_vars => Parts' /\ InLines'
  <2> SUFFICES ASSUME Parts, InLines, [Next]_vars PROVE Parts' /\ InLines'
    OBVIOUS
  <2>1. CASE UNCHANGED vars
    BY <2>1 DEF vars, table, board, files, loop, handler, cast, rest, Parts, SharedOK, BoardOK,
                FilesOK, MasterOK, CastOK, SessionsOK, RestOK, InLines, InLine
  <2> QED
    BY <2>1, MasterStep, BroadcastStep, LineStep, CommandStep DEF Next, Client, Session
<1> QED
  BY <1>1, <1>2, PTL DEF Spec

\* Every variable has its type, with any number of users, connections and
\* lines; a session that needs its line has one.
THEOREM TypeCorrect == Spec => []TypeOK
BY PartsAlways, TypeParts, PTL
-----------------------------------------------------------------------------
(* What the promises of the assignment keep apart. *)

\* A session, its number and its slot belong together from the fork on; what the
\* master has yet to enter is nowhere in the table.
Still == {"none", "prompt", "zombie", "gone"}
Own ==
  /\ \A p \in Pids :
       /\ pc[p] = "none" => slot[p] = 1
       /\ p > accepted \/ (p = accepted /\ mpc = "fork") => pc[p] = "none"
       /\ p = accepted /\ mpc \in {"user", "pid"} => slot[p] = ID /\ pc[p] # "none"
  /\ \A u \in Slots : \A p \in Pids : pid[u] = p => slot[p] = u /\ pc[p] # "none"
  /\ mpc \in {"user", "pid"} => \A u \in Slots : pid[u] # accepted

\* Nothing overlaps: one session at most is doing anything, and none while the
\* master forks or clears up; while it enters a session, no other does.
Solo ==
  overlaps = 0 =>
    /\ \A p, q \in Pids : pc[p] \notin Still /\ pc[q] \notin Still => p = q
    /\ mpc = "fork" \/ (reaped # 0 /\ mpc # "down") => \A p \in Pids : pc[p] \in Still
    /\ \A p \in Pids : mpc \in {"user", "pid"} /\ pc[p] \notin Still => p = accepted
    /\ sigchld /\ mpc # "down" => \A p \in Pids : pc[p] \in Still
    /\ mpc = "fork" => ~sigchld /\ reaped = 0
    /\ mpc \in {"user", "pid"} /\ (sigchld \/ reaped # 0) => accepted \notin Live

\* Names are distinct, and the one that a session is about to take is free.
NameFree ==
  overlaps = 0 =>
    /\ \A u, v \in Online : u # v /\ name[u] = name[v] => name[u] = NoName
    /\ \A p \in Pids : pc[p] = "named" =>
         \A u \in Online \ {slot[p]} : name[u] # line[p].newName

\* Whoever is there holds its slot, and the table and the sessions agree, but
\* for one that is being entered.
Agree ==
  calm =>
    /\ \A u \in Slots : hasUser[u] => u \in Users
    /\ \A p \in Live : \A q \in Pids : pc[q] # "none" /\ slot[q] = slot[p] => q <= p
    /\ mpc = "fork" => \A p \in Live : slot[p] # ID
    /\ mpc # "down" =>
         /\ \A p \in Live :
              \/ mpc \in {"user", "pid"} /\ p = accepted
              \/ pid[slot[p]] = p /\ (pc[p] # "remove" => hasUser[slot[p]])
         /\ mpc = "pid" /\ accepted \in Live /\ pc[accepted] # "remove" => hasUser[ID]
         /\ \A u \in Slots : hasUser[u] /\ ~(mpc = "pid" /\ u = ID) => pid[u] \in Pids

\* Only those the message is for have been signalled, or will be, and those who
\* had not printed another by then.
Addressed ==
  calm /\ mpc # "down" =>
    /\ pending \subseteq msg.for \cup late /\ seen \subseteq msg.for \cup late
    /\ reaped # 0 => Pids \subseteq msg.for
    /\ \A p \in Pids : pc[p] = "cast" =>
         \/ aim[p] = 0 /\ Pids \subseteq msg.for
         \/ /\ aim[p] \in Slots
            /\ pid[aim[p]] \in Live => pid[aim[p]] \in msg.for
            /\ mpc \in {"user", "pid"} /\ aim[p] = ID => accepted \in msg.for

Apart == Own /\ Solo /\ NameFree /\ Agree /\ Addressed

\* A step of one session, as the others see it: who speaks, who moves, and what
\* becomes of the table.
Moves(p) ==
  /\ pc[p] \notin {"none", "gone", "zombie"} /\ pc'[p] \notin {"none", "gone", "fork"}
  /\ pc[p] = "remove" => pc'[p] = "zombie"
  /\ \A q \in Pids \ {p} : pc'[q] = pc[q] /\ line'[q] = line[q] /\ aim'[q] = aim[q]
  /\ UNCHANGED <<pid, slot, ID, accepted, reaped>>
  /\ mpc' \in {mpc, "down"}
  /\ sigchld' <=> sigchld \/ pc'[p] = "zombie"
  /\ overlaps' = 0 => overlaps = 0
Starts(p) == pc[p] \in Still /\ overlaps' = 0 => OthersDone(p)
Speaks(p) ==
  \/ pc'[p] # "cast" /\ UNCHANGED <<msg, seen, late>>
  \/ aim'[p] = 0 /\ msg'.for = Pids /\ seen' = {}
  \/ /\ pc[p] = "run" /\ seen' = {} /\ late' = pending \ msg'.for
     /\ \E u \in Slots :
          aim'[p] = u /\ (msg'.for = Holder(u) \/ (u = slot[p] /\ msg'.for = {p}))
Enters(p) ==
  /\ \/ hasUser' = hasUser
     \/ hasUser' = [hasUser EXCEPT ![slot[p]] = FALSE] /\ pc'[p] = "remove"
  /\ \/ name' = name
     \/ pc[p] = "named" /\ name' = [name EXCEPT ![slot[p]] = line[p].newName]
  /\ pc'[p] = "named" => ~Taken(p) /\ line'[p] = line[p] /\ UNCHANGED <<name, hasUser>>
  /\ pending' \subseteq pending
  /\ early' = IF pc'[p] \in {"remove", "zombie"} /\ ~Entered(p) THEN early \cup {p} ELSE early
Steps(p) == Moves(p) /\ Starts(p) /\ Speaks(p) /\ Enters(p)

\* The parts that steps are made of.
LEMMA BroadcastMoves ==
  ASSUME CastOK, SessionsOK, NEW p \in Pids, NEW for, NEW to, NEW then, Broadcast(p, for, to, then)
  PROVE  /\ pc'[p] = "cast" /\ aim'[p] = to /\ msg'.for = for /\ seen' = {}
         /\ late' = pending \ for
         /\ \A q \in Pids \ {p} : pc'[q] = pc[q] /\ aim'[q] = aim[q]
BY DEF Broadcast, Post, CastOK, SessionsOK

LEMMA DropMoves ==
  ASSUME SessionsOK, NEW p \in Pids, Drop(p)
  PROVE  \A q \in Pids \ {p} : line'[q] = line[q]
BY DEF Drop, SessionsOK

LEMMA EndLineMoves ==
  ASSUME SessionsOK, NEW p \in Pids, EndLine(p)
  PROVE  /\ pc'[p] = "prompt"
         /\ \A q \in Pids \ {p} : pc'[q] = pc[q] /\ line'[q] = line[q]
BY DEF EndLine, GoTo, SessionsOK

LEMMA GoToMoves ==
  ASSUME SessionsOK, NEW p \in Pids, NEW place, GoTo(p, place)
  PROVE  pc'[p] = place /\ \A q \in Pids \ {p} : pc'[q] = pc[q]
BY DEF GoTo, SessionsOK

\* A session that is doing something goes on, without a word or with one to all.
LEMMA GoesOn ==
  ASSUME NEW p \in Pids, pc[p] \notin Still \cup {"remove"},
         pc'[p] \notin {"none", "gone", "fork", "zombie", "named", "remove"},
         \A q \in Pids \ {p} : pc'[q] = pc[q] /\ line'[q] = line[q] /\ aim'[q] = aim[q],
         UNCHANGED <<pid, hasUser, slot, ID, accepted, reaped, mpc, sigchld, pending, early>>,
         overlaps' = 0 => overlaps = 0, name' = name, Speaks(p)
  PROVE  Steps(p)
BY DEF Steps, Moves, Starts, Enters, Still

LEMMA SessionFacts ==
  ASSUME Parts, InLines, NEW p \in Pids,
         \/ Install(p) \/ Login(p) \/ ReadLine(p) \/ HangUp(p)
         \/ Check(p) \/ Receive(p) \/ Rename(p) \/ Send(p)
         \/ Quiet(p) \/ YellLine(p) \/ Tell(p) \/ Name(p) \/ Named(p)
         \/ Exit(p) \/ Leave(p) \/ RemovePipes(p) \/ Exec(p) \/ Finish(p)
  PROVE  Steps(p)
<1> USE DEF table, board, files, loop, handler, cast, rest
<1>0. SharedOK /\ CastOK /\ SessionsOK /\ RestOK
  BY DEF Parts
<1>a. ASSUME NEW place, GoTo(p, place), UNCHANGED <<line, aim>>
      PROVE  pc'[p] = place /\ \A q \in Pids \ {p} :
               pc'[q] = pc[q] /\ line'[q] = line[q] /\ aim'[q] = aim[q]
  BY <1>0, <1>a, GoToMoves
<1>b. ASSUME EndLine(p), UNCHANGED aim
      PROVE  pc'[p] = "prompt" /\ \A q \in Pids \ {p} :
               pc'[q] = pc[q] /\ line'[q] = line[q] /\ aim'[q] = aim[q]
  BY <1>0, <1>b, EndLineMoves
<1>c. ASSUME NEW for, NEW to, NEW then, Broadcast(p, for, to, then), Drop(p) \/ UNCHANGED line
      PROVE  /\ pc'[p] = "cast" /\ aim'[p] = to /\ msg'.for = for /\ seen' = {}
             /\ late' = pending \ for
             /\ \A q \in Pids \ {p} : pc'[q] = pc[q] /\ line'[q] = line[q] /\ aim'[q] = aim[q]
  BY <1>0, <1>c, BroadcastMoves, DropMoves
<1>d. overlaps \in Nat
  BY <1>0 DEF RestOK
<1>1. CASE Install(p)
  BY <1>1, <1>a, GoesOn DEF Install, Speaks, Still
<1>2. CASE Login(p)
  BY <1>2, <1>c, GoesOn DEF Login, Yell, Speaks, Still
<1>3. CASE ReadLine(p)
  <2>1. PICK l \in Lines :
          line' = [line EXCEPT ![p] = l] /\ GoTo(p, IF Piped(l) THEN "check" ELSE "run")
    BY <1>3 DEF ReadLine
  <2>2. /\ pc'[p] \in {"check", "run"}
        /\ \A q \in Pids \ {p} : pc'[q] = pc[q] /\ line'[q] = line[q]
    BY <1>0, <2>1, GoToMoves DEF SessionsOK
  <2>3. overlaps' = 0 => overlaps = 0 /\ OthersDone(p)
    BY <1>3, <1>d DEF ReadLine, Begin
  <2>4. /\ pc[p] = "prompt" /\ UNCHANGED <<pid, hasUser, name, slot, ID, accepted, reaped, mpc>>
        /\ UNCHANGED <<sigchld, pending, early, msg, seen, late, aim>>
    BY <1>3 DEF ReadLine
  <2> QED
    BY <2>2, <2>3, <2>4 DEF Steps, Moves, Starts, Speaks, Enters
<1>4. CASE HangUp(p)
  <2>1. overlaps' = 0 => overlaps = 0 /\ OthersDone(p)
    BY <1>4, <1>d DEF HangUp, Begin
  <2> QED
    BY <1>4, <1>a, <2>1 DEF HangUp, Die, Steps, Moves, Starts, Speaks, Enters
<1>5. CASE Check(p)
  BY <1>5, <1>a, <1>b, GoesOn DEF Check, Speaks, Still
<1>6. CASE Receive(p)
  BY <1>6, <1>a, <1>b, GoesOn DEF Receive, Speaks, Still
<1>7. CASE Rename(p)
  BY <1>7, <1>c, GoesOn DEF Rename, Yell, Speaks, Still
<1>8. CASE Send(p)
  BY <1>8, <1>b, <1>c, GoesOn DEF Send, Yell, Speaks, Still
<1>9. CASE Quiet(p)
  BY <1>9, <1>b, GoesOn DEF Quiet, Running, Speaks, Still
<1>10. CASE YellLine(p)
  BY <1>10, <1>c, GoesOn DEF YellLine, Running, Yell, Speaks, Still
<1>11. CASE Tell(p)
  <2>1. /\ pc[p] = "run"
        /\ UNCHANGED <<table, loop, sigchld, handler, slot, pending, rest>>
    BY <1>11 DEF Tell, Running
  <2>2. line[p].to \in Slots
    <3>1. line[p] \in Lines
      BY <1>0, <2>1 DEF SessionsOK, Reading
    <3>2. line[p].kind = "tell"
      BY <1>11 DEF Tell, Running
    <3> QED
      BY <3>1, <3>2, LineTypes, SlotsProperties
  <2>3. CASE hasUser[line[p].to]
    <3>1. Broadcast(p, Holder(line[p].to), line[p].to, "prompt") /\ Drop(p)
      BY <1>11, <2>3 DEF Tell, Aim
    <3>2. Speaks(p)
      BY <1>c, <2>1, <2>2, <3>1 DEF Speaks
    <3> QED
      BY <1>c, <2>1, <3>1, <3>2, GoesOn DEF Still
  <2>4. CASE ~hasUser[line[p].to]
    <3>1. EndLine(p) /\ UNCHANGED <<board, cast>>
      BY <1>11, <2>4 DEF Tell
    <3> QED
      BY <1>b, <2>1, <3>1, GoesOn DEF Speaks, Still
  <2> QED
    BY <2>3, <2>4
<1>12. CASE Name(p)
  <2>1. /\ pc[p] = "run"
        /\ UNCHANGED <<table, loop, sigchld, handler, slot, pending, rest>>
    BY <1>12 DEF Name, Running
  <2>2. slot[p] \in Slots
    BY <1>0 DEF SessionsOK
  <2>3. CASE Taken(p)
    <3>1. Broadcast(p, {p}, slot[p], "prompt") /\ Drop(p)
      BY <1>12, <2>3 DEF Name
    <3>2. Speaks(p)
      BY <1>c, <2>1, <2>2, <3>1 DEF Speaks
    <3> QED
      BY <1>c, <2>1, <3>1, <3>2, GoesOn DEF Still
  <2>4. CASE ~Taken(p)
    <3>1. GoTo(p, "named") /\ UNCHANGED <<board, cast, line, userPipeIn>>
      BY <1>12, <2>4 DEF Name
    <3> QED
      BY <1>a, <2>1, <2>4, <3>1 DEF Steps, Moves, Starts, Speaks, Enters, Still
  <2> QED
    BY <2>3, <2>4
<1>13. CASE Named(p)
  BY <1>13, <1>c DEF Named, Yell, Steps, Moves, Starts, Speaks, Enters, Still
<1>14. CASE Exit(p)
  BY <1>14, <1>c, GoesOn DEF Exit, Running, Yell, Speaks, Still
<1>15. CASE Leave(p)
  BY <1>15, <1>a DEF Leave, Steps, Moves, Starts, Speaks, Enters, Still
<1>16. CASE RemovePipes(p)
  BY <1>16, <1>a DEF RemovePipes, Die, Steps, Moves, Starts, Speaks, Enters, Still
<1>17. CASE Exec(p)
  BY <1>17, <1>a, GoesOn DEF Exec, Wait, Running, Speaks, Still
<1>18. CASE Finish(p)
  <2>1. pc'[p] = "prompt" /\ \A q \in Pids \ {p} : pc'[q] = pc[q] /\ line'[q] = line[q]
    BY <1>0, <1>18, GoToMoves DEF Finish, SessionsOK
  <2> QED
    BY <1>18, <2>1, GoesOn DEF Finish, Speaks, Still
<1> QED
  BY <1>1, <1>2, <1>3, <1>4, <1>5, <1>6, <1>7, <1>8, <1>9, <1>10, <1>11, <1>12, <1>13,
     <1>14, <1>15, <1>16, <1>17, <1>18

\* Nothing of this is undone by a session.
LEMMA OwnKept ==
  ASSUME Own, UNCHANGED <<pid, slot, ID, accepted>>, mpc' \in {mpc, "down"},
         \A q \in Pids : pc'[q] = "none" <=> pc[q] = "none"
  PROVE  Own'
BY DEF Own

\* When nothing overlaps and a session takes a step, no other is doing anything.
LEMMA Turn ==
  ASSUME Own, Solo, NEW p \in Pids, Moves(p), Starts(p), overlaps' = 0
  PROVE  /\ \A q \in Pids \ {p} : pc[q] \in Still
         /\ mpc # "fork" /\ (mpc = "down" \/ (reaped = 0 /\ ~sigchld))
         /\ mpc \in {"user", "pid"} => p = accepted
<1>1. overlaps = 0
  BY DEF Moves
<1>2. CASE pc[p] \in Still
  <2>1. OthersDone(p)
    BY <1>2 DEF Starts
  <2>2. pc[p] # "none"
    BY DEF Moves
  <2>3. mpc # "fork"
    BY <2>1, <2>2 DEF OthersDone, Own
  <2> QED
    BY <2>1, <2>3 DEF OthersDone, Resting, Still
<1>3. CASE pc[p] \notin Still
  BY <1>1, <1>3 DEF Solo
<1> QED
  BY <1>2, <1>3

LEMMA SoloKept ==
  ASSUME Own, Solo, NEW p \in Pids, Moves(p), Starts(p)
  PROVE  Solo'
<1> SUFFICES ASSUME overlaps' = 0
             PROVE  /\ \A q, r \in Pids : pc'[q] \notin Still /\ pc'[r] \notin Still => q = r
                    /\ mpc' = "fork" \/ (reaped' # 0 /\ mpc' # "down") =>
                         \A q \in Pids : pc'[q] \in Still
                    /\ \A q \in Pids : mpc' \in {"user", "pid"} /\ pc'[q] \notin Still => q = accepted'
                    /\ sigchld' /\ mpc' # "down" => \A q \in Pids : pc'[q] \in Still
                    /\ mpc' = "fork" => ~sigchld' /\ reaped' = 0
                    /\ mpc' \in {"user", "pid"} /\ (sigchld' \/ reaped' # 0) => accepted' \notin Live'
  BY DEF Solo
<1>1. /\ \A q \in Pids \ {p} : pc'[q] = pc[q]
      /\ UNCHANGED <<accepted, reaped>> /\ mpc' \in {mpc, "down"}
      /\ sigchld' <=> sigchld \/ pc'[p] = "zombie"
  BY DEF Moves
<1>2. /\ \A q \in Pids \ {p} : pc[q] \in Still
      /\ mpc # "fork" /\ (mpc = "down" \/ (reaped = 0 /\ ~sigchld))
      /\ mpc \in {"user", "pid"} => p = accepted
  BY Turn
<1>3. \A q \in Pids \ {p} : pc'[q] \in Still
  BY <1>1, <1>2
<1>4. mpc' # "down" => mpc' = mpc /\ reaped' = 0 /\ (sigchld' => pc'[p] = "zombie")
  BY <1>1, <1>2
<1>5. "zombie" \in Still
  BY DEF Still
<1> QED
  BY <1>1, <1>2, <1>3, <1>4, <1>5 DEF Live

LEMMA NameFreeKept ==
  ASSUME NameFree, name' = name, \A u \in Users : hasUser'[u] => hasUser[u],
         overlaps' = 0 => overlaps = 0,
         \A q \in Pids : pc'[q] = "named" =>
           pc[q] = "named" /\ line'[q] = line[q] /\ slot'[q] = slot[q]
  PROVE  NameFree'
BY DEF NameFree, Online

LEMMA NameFreeTaken ==
  ASSUME Parts, Solo, NameFree, NEW p \in Pids, Steps(p)
  PROVE  NameFree'
<1>0. SharedOK /\ SessionsOK /\ \A u \in Users : u \in Slots
  BY SlotsProperties DEF Parts
<1>1. \A q \in Pids \ {p} : pc'[q] = "named" =>
        pc[q] = "named" /\ line'[q] = line[q] /\ slot'[q] = slot[q]
  BY DEF Steps, Moves
<1>2. \A u \in Users : hasUser'[u] => hasUser[u]
  BY <1>0 DEF Steps, Enters, SharedOK
<1>3. CASE pc'[p] = "named"
  <2>1. ~Taken(p) /\ line'[p] = line[p] /\ UNCHANGED <<name, hasUser, slot>>
    BY <1>3 DEF Steps, Enters, Moves
  <2> QED
    BY <1>1, <2>1 DEF NameFree, Online, Taken, Steps, Moves
<1>4. CASE pc'[p] # "named" /\ name' = name
  BY <1>1, <1>2, <1>4, NameFreeKept DEF Steps, Moves
<1>5. CASE pc'[p] # "named" /\ name' # name
  <2>1. pc[p] = "named" /\ name' = [name EXCEPT ![slot[p]] = line[p].newName]
    BY <1>5 DEF Steps, Enters
  <2> SUFFICES ASSUME overlaps' = 0
               PROVE  /\ \A u, v \in Online' : u # v /\ name'[u] = name'[v] => name'[u] = NoName
                      /\ \A q \in Pids : pc'[q] # "named"
    BY DEF NameFree
  <2>2. overlaps = 0 /\ \A q \in Pids \ {p} : pc[q] \in Still
    BY <2>1 DEF Steps, Moves, Solo, Still
  <2>3. \A q \in Pids : pc'[q] # "named"
    BY <1>1, <1>5, <2>2 DEF Still
  <2>4. \A u \in Online \ {slot[p]} : name[u] # line[p].newName
    BY <2>1, <2>2 DEF NameFree
  <2>5. \A u, v \in Online : u # v /\ name[u] = name[v] => name[u] = NoName
    BY <2>2 DEF NameFree
  <2>6. Online' \subseteq Online /\ \A u \in Online : u \in Slots
    BY <1>0, <1>2 DEF Online
  <2>7. \A u \in Slots : name'[u] = IF u = slot[p] THEN line[p].newName ELSE name[u]
    BY <1>0, <2>1 DEF SharedOK
  <2> QED
    BY <2>3, <2>4, <2>5, <2>6, <2>7
<1> QED
  BY <1>3, <1>4, <1>5

\* Calm does not come back once it is over.
LEMMA CalmBefore ==
  ASSUME calm', overlaps' = 0 => overlaps = 0, UNCHANGED slot
  PROVE  calm
BY DEF calm

LEMMA AgreeKept ==
  ASSUME Parts, Own, Solo, Agree, NEW p \in Pids, Moves(p), Starts(p),
         \/ hasUser' = hasUser
         \/ hasUser' = [hasUser EXCEPT ![slot[p]] = FALSE] /\ pc'[p] = "remove"
  PROVE  Agree'
<1>0. SharedOK /\ SessionsOK
  BY DEF Parts
<1> SUFFICES ASSUME calm' PROVE Agree'
  BY DEF Agree
<1>1. calm /\ overlaps' = 0
  BY CalmBefore DEF Moves, calm
<1>2. \A q \in Pids \ {p} : pc'[q] = pc[q]
  BY DEF Moves
<1>3. /\ pc[p] \notin {"none", "gone", "zombie"} /\ pc'[p] \notin {"none", "gone", "fork"}
      /\ UNCHANGED <<pid, slot, ID, accepted>> /\ mpc' \in {mpc, "down"}
      /\ pc[p] = "remove" => pc'[p] = "zombie"
  BY DEF Moves
<1>4. mpc # "fork" /\ (mpc \in {"user", "pid"} => p = accepted)
  BY <1>1, Turn
<1>5. Live' \subseteq Live /\ \A q \in Live' : q \in Pids
  BY <1>2, <1>3 DEF Live
<1>6. /\ \A u \in Slots : hasUser'[u] => hasUser[u]
      /\ \A u \in Slots : hasUser[u] /\ ~hasUser'[u] => u = slot[p] /\ pc'[p] = "remove"
  BY <1>0 DEF SharedOK
<1>7. \A q \in Pids : slot[q] \in Slots
  BY <1>0 DEF SessionsOK
<1>8. \A q \in Live : \A r \in Pids : pc[r] # "none" /\ slot[r] = slot[q] => r <= q
  BY <1>1 DEF Agree
<1>9. \A q \in Live' : \A r \in Pids : pc'[r] # "none" /\ slot'[r] = slot'[q] => r <= q
  BY <1>2, <1>3, <1>5, <1>8
<1>10. \A q \in Live : slot[q] = slot[p] => q = p
  <2>1. p \in Live /\ \A q \in Live : q \in Pids /\ pc[q] # "none"
    BY <1>3 DEF Live
  <2>2. \A q, r \in Pids : q <= r /\ r <= q => q = r
    BY RwgMultiAssumption DEF Pids
  <2> QED
    BY <1>8, <2>1, <2>2
<1>11. ASSUME mpc' # "down", NEW q \in Live'
       PROVE  \/ mpc' \in {"user", "pid"} /\ q = accepted'
              \/ pid'[slot'[q]] = q /\ (pc'[q] # "remove" => hasUser'[slot'[q]])
  <2>1. q \in Live /\ q \in Pids /\ slot[q] \in Slots /\ mpc' = mpc
    BY <1>3, <1>5, <1>7, <1>11
  <2>2. \/ mpc \in {"user", "pid"} /\ q = accepted
        \/ pid[slot[q]] = q /\ (pc[q] # "remove" => hasUser[slot[q]])
    BY <1>1, <1>11, <2>1 DEF Agree
  <2>3. ASSUME pid[slot[q]] = q, pc[q] # "remove" => hasUser[slot[q]], pc'[q] # "remove"
        PROVE  hasUser'[slot[q]]
    <3>1. pc[q] # "remove"
      BY <1>2, <1>3, <1>11, <2>1, <2>3 DEF Live
    <3>2. ~(slot[q] = slot[p] /\ pc'[p] = "remove")
      BY <1>10, <2>1, <2>3
    <3> QED
      BY <1>6, <2>1, <2>3, <3>1, <3>2
  <2> QED
    BY <1>3, <2>1, <2>2, <2>3
<1>12. ASSUME mpc' = "pid", accepted' \in Live', pc'[accepted'] # "remove"
       PROVE  hasUser'[ID']
  <2>1. mpc = "pid" /\ p = accepted /\ accepted \in Live
    BY <1>3, <1>4, <1>5, <1>12
  <2>2. pc[p] # "remove"
    BY <1>3, <1>12, <2>1 DEF Live
  <2>3. hasUser[ID] /\ ID \in Slots
    BY <1>1, <2>1, <2>2 DEF Agree, Parts, MasterOK
  <2> QED
    BY <1>3, <1>6, <1>12, <2>1, <2>3
<1>13. ASSUME mpc' # "down", NEW u \in Slots, hasUser'[u], ~(mpc' = "pid" /\ u = ID')
       PROVE  pid'[u] \in Pids
  BY <1>1, <1>3, <1>6, <1>13 DEF Agree
<1>14. mpc' # "fork" /\ \A u \in Slots : hasUser'[u] => u \in Users
  BY <1>1, <1>3, <1>4, <1>6 DEF Agree
<1> QED
  BY <1>9, <1>11, <1>12, <1>13, <1>14 DEF Agree

\* Whoever is there is the holder of its slot, and so is the one being entered.
LEMMA Holds ==
  ASSUME Parts, Own, Agree, calm, NEW p \in Pids
  PROVE  /\ p \in Live => Holder(slot[p]) = {p}
         /\ mpc \in {"user", "pid"} /\ p = accepted => Holder(ID) = {p}
<1>1. \A q, r \in Pids : q <= r /\ r <= q => q = r
  BY RwgMultiAssumption DEF Pids
<1>2. ASSUME p \in Live PROVE Holder(slot[p]) = {p}
  <2>1. pc[p] # "none" /\ \A q \in Pids : pc[q] # "none" /\ slot[q] = slot[p] => q <= p
    BY <1>2 DEF Agree, Live
  <2> QED
    BY <1>1, <2>1 DEF Holder
<1>3. ASSUME mpc \in {"user", "pid"}, p = accepted PROVE Holder(ID) = {p}
  <2>1. slot[p] = ID /\ pc[p] # "none" /\ \A q \in Pids : q > p => pc[q] = "none"
    BY <1>3 DEF Own
  <2>2. \A q \in Pids : q > p \/ q <= p
    BY RwgMultiAssumption DEF Pids
  <2> QED
    BY <1>1, <2>1, <2>2 DEF Holder
<1> QED
  BY <1>2, <1>3

LEMMA AddressedKept ==
  ASSUME Parts, Parts', Own, Solo, Agree, Addressed, NEW p \in Pids, Steps(p)
  PROVE  Addressed'
<1>0. SharedOK /\ SessionsOK /\ MasterOK /\ RestOK' /\ BoardOK
  BY DEF Parts
<1> SUFFICES ASSUME calm', mpc' # "down" PROVE Addressed'
  BY DEF Addressed
<1>1. calm /\ overlaps' = 0 /\ mpc' = mpc
  BY CalmBefore DEF Steps, Moves, calm
<1>2. /\ \A q \in Pids \ {p} : pc'[q] = pc[q]
      /\ pc[p] \notin {"none", "gone", "zombie"} /\ pc'[p] \notin {"none", "gone", "fork"}
      /\ UNCHANGED <<pid, slot, ID, accepted, reaped>> /\ pending' \subseteq pending
  BY DEF Steps, Moves, Enters
<1>3. /\ \A q \in Pids \ {p} : pc[q] \in Still
      /\ reaped = 0 /\ (mpc \in {"user", "pid"} => p = accepted)
  BY <1>1, Turn DEF Steps
<1>4. \A q \in Pids \ {p} : pc'[q] # "cast"
  BY <1>2, <1>3 DEF Still
<1>5. CASE pc'[p] # "cast" /\ UNCHANGED <<msg, seen, late>>
  <2>1. pending \subseteq msg.for \cup late /\ seen \subseteq msg.for \cup late
    BY <1>1 DEF Addressed
  <2> QED
    BY <1>2, <1>3, <1>4, <1>5, <2>1 DEF Addressed
<1>6. CASE aim'[p] = 0 /\ msg'.for = Pids /\ seen' = {}
  <2>1. pending' \subseteq Pids
    BY <1>0 DEF RestOK
  <2> QED
    BY <1>2, <1>3, <1>4, <1>6, <2>1 DEF Addressed
<1>7. ASSUME pc[p] = "run", seen' = {}, late' = pending \ msg'.for,
             NEW u \in Slots, aim'[p] = u,
             msg'.for = Holder(u) \/ (u = slot[p] /\ msg'.for = {p})
      PROVE  Addressed'
  <2>1. p \in Live /\ Holder(slot[p]) = {p}
    BY <1>1, <1>2, Holds DEF Live
  <2>2. msg'.for = Holder(u)
    BY <1>7, <2>1
  <2>3. pid'[u] \in Live' => pid'[u] \in msg'.for
    <3>1. SUFFICES ASSUME pid[u] \in Live' PROVE pid[u] \in Holder(u)
      BY <1>2, <2>2
    <3>2. pid[u] \in Live /\ pid[u] \in Pids
      BY <1>2, <3>1 DEF Live
    <3>3. slot[pid[u]] = u
      BY <3>2 DEF Own
    <3> QED
      BY <1>1, <3>2, <3>3, Holds
  <2>4. mpc' \in {"user", "pid"} /\ u = ID' => accepted' \in msg'.for
    BY <1>1, <1>2, <1>3, <2>2, Holds
  <2>5. pending' \subseteq msg'.for \cup late'
    BY <1>2, <1>7
  <2> QED
    BY <1>2, <1>3, <1>4, <1>7, <2>3, <2>4, <2>5 DEF Addressed
<1> QED
  BY <1>5, <1>6, <1>7 DEF Steps, Speaks

LEMMA SessionApart ==
  ASSUME Parts, Parts', Apart, NEW p \in Pids, Steps(p)
  PROVE  Apart'
<1>1. Own'
  <2>1. \A q \in Pids : pc'[q] = "none" <=> pc[q] = "none"
    BY DEF Steps, Moves
  <2>2. UNCHANGED <<pid, slot, ID, accepted>> /\ mpc' \in {mpc, "down"}
    BY DEF Steps, Moves
  <2> QED
    BY <2>1, <2>2, OwnKept DEF Apart
<1>2. Solo'
  BY SoloKept DEF Apart, Steps
<1>3. Agree'
  BY AgreeKept DEF Apart, Steps, Enters
<1> QED
  BY <1>1, <1>2, <1>3, NameFreeTaken, AddressedKept DEF Apart

\* A signal ends nobody, and reaches those it is for, while nothing overlaps.
LEMMA SignalReaches ==
  ASSUME SessionsOK, MasterOK, NEW target, NEW self \in 0 .. M, NEW pcs \in [Pids -> State],
         Signal(target, self, pcs), \A q \in Pids : pc[q] # "fork"
  PROVE  /\ pc' = pcs /\ sigchld' = sigchld
         /\ mpc' = mpc \/ mpc' = "down"
         /\ target = 0 => mpc' = "down"
         /\ pending' \subseteq pending \cup Hit(target) /\ seen' \subseteq seen \cup Hit(target)
         /\ msg' = msg /\ late' = late
<1>1. {q \in Hit(target) : pc[q] = "fork"} = {}
  BY DEF Hit, Live
<1>2. pc' = [q \in Pids |-> pcs[q]]
  BY <1>1 DEF Signal
<1>3. pc' = pcs
  BY <1>2
<1>4. sigchld' = sigchld
  BY <1>1 DEF Signal, MasterOK
<1> QED
  BY <1>3, <1>4 DEF Signal

\* What one turn of a session's broadcast is when nothing overlaps.
LEMMA CastMoves ==
  ASSUME Parts, InLines, Own, Solo, NEW p \in Pids, Cast(p), overlaps = 0
  PROVE  /\ Moves(p) /\ Starts(p)
         /\ pc'[p] \in {"cast", "prompt", "leave", "send", "run"}
         /\ pc'[p] = "cast" => aim[p] = 0 /\ aim'[p] = 0
         /\ UNCHANGED <<hasUser, name, msg, late, sigchld>>
         /\ \/ UNCHANGED <<pending, seen>>
            \/ mpc' = "down"
            \/ LET u == IF aim[p] = 0 THEN at[p] ELSE aim[p]
               IN  pid[u] # 0 /\ pending' \subseteq pending \cup ({pid[u]} \cap Live)
                             /\ seen' \subseteq seen \cup ({pid[u]} \cap Live)
<1> USE DEF table, files, handler, rest
<1>0. SharedOK /\ SessionsOK /\ CastOK /\ MasterOK /\ p \in 0 .. M
  BY SlotsProperties DEF Parts
<1> DEFINE u == IF aim[p] = 0 THEN at[p] ELSE aim[p]
           over == aim[p] # 0 \/ at[p] = N
           pcs == [pc EXCEPT ![p] = IF over THEN next[p] ELSE "cast"]
<1>1. /\ pc[p] = "cast"
      /\ aim' = [aim EXCEPT ![p] = IF over THEN 0 ELSE aim[p]]
      /\ \/ Signal(pid[u], p, pcs)
         \/ pc' = pcs /\ UNCHANGED <<pending, board, sigchld, mpc>>
      /\ UNCHANGED <<table, files, ID, accepted, handler, slot, line, userPipeIn, rest>>
  BY DEF Cast
<1>2. pcs \in [Pids -> State]
  BY <1>0 DEF SessionsOK, CastOK, State
<1>3. \A q \in Pids \ {p} : pcs[q] = pc[q] /\ aim'[q] = aim[q]
  BY <1>0, <1>1 DEF SessionsOK, CastOK
<1>4. next[p] \in {"prompt", "leave", "send", "run"}
  BY <1>1 DEF InLines, InLine
<1>5. /\ pcs[p] \in {"cast", "prompt", "leave", "send", "run"}
      /\ pcs[p] = "cast" => ~over
  BY <1>0, <1>4 DEF SessionsOK
<1>6. ~over => aim'[p] = aim[p] /\ aim[p] = 0
  BY <1>0, <1>1 DEF CastOK
<1>7. \A q \in Pids : pc[q] # "fork"
  BY <1>1 DEF Solo, Still
<1> HIDE DEF u, over, pcs
<1>8. /\ pc' = pcs /\ sigchld' = sigchld /\ mpc' \in {mpc, "down"} /\ msg' = msg /\ late' = late
      /\ \/ UNCHANGED <<pending, seen>>
         \/ mpc' = "down"
         \/ /\ pid[u] # 0 /\ pending' \subseteq pending \cup Hit(pid[u])
            /\ seen' \subseteq seen \cup Hit(pid[u])
  <2>1. CASE Signal(pid[u], p, pcs)
    BY <1>0, <1>2, <1>7, <2>1, SignalReaches
  <2>2. CASE pc' = pcs /\ UNCHANGED <<pending, board, sigchld, mpc>>
    BY <2>2 DEF board
  <2> QED
    BY <1>1, <2>1, <2>2
<1>9. pid[u] # 0 => Hit(pid[u]) = {pid[u]} \cap Live
  BY DEF Hit
<1>10. Moves(p) /\ Starts(p)
  <2>1. sigchld' <=> sigchld \/ pc'[p] = "zombie"
    BY <1>5, <1>8
  <2>2. /\ pc'[p] \in {"cast", "prompt", "leave", "send", "run"}
        /\ \A q \in Pids \ {p} : pc'[q] = pc[q] /\ line'[q] = line[q] /\ aim'[q] = aim[q]
        /\ UNCHANGED <<pid, slot, ID, accepted, reaped>> /\ mpc' \in {mpc, "down"}
    BY <1>1, <1>3, <1>5, <1>8
  <2> QED
    BY <1>1, <2>1, <2>2 DEF Moves, Starts, Still
<1>11. pc'[p] = "cast" => aim[p] = 0 /\ aim'[p] = 0
  BY <1>5, <1>6, <1>8
<1>12. \/ UNCHANGED <<pending, seen>>
       \/ mpc' = "down"
       \/ LET w == IF aim[p] = 0 THEN at[p] ELSE aim[p]
          IN  pid[w] # 0 /\ pending' \subseteq pending \cup ({pid[w]} \cap Live)
                        /\ seen' \subseteq seen \cup ({pid[w]} \cap Live)
  BY <1>8, <1>9 DEF u
<1> QED
  BY <1>1, <1>5, <1>8, <1>10, <1>11, <1>12

\* Nobody is born of it, in any case.
LEMMA CastStays ==
  ASSUME Parts, InLines, NEW p \in Pids, Cast(p)
  PROVE  mpc' \in {mpc, "down"} /\ \A q \in Pids : pc'[q] = "none" <=> pc[q] = "none"
<1> DEFINE pcs == [pc EXCEPT ![p] = IF aim[p] # 0 \/ at[p] = N THEN next[p] ELSE "cast"]
<1>1. pc[p] = "cast" /\ next[p] \in {"prompt", "leave", "send", "run"}
  BY DEF Cast, InLines, InLine
<1>2. pcs[p] # "none" /\ \A q \in Pids \ {p} : pcs[q] = pc[q]
  BY <1>1 DEF Parts, SessionsOK
<1>3. mpc' \in {mpc, "down"}
      /\ \A q \in Pids : pc'[q] = pcs[q] \/ (pc'[q] = "zombie" /\ pc[q] # "none")
  <2>1. \A t : Signal(t, p, pcs) => /\ mpc' \in {mpc, "down"}
          /\ \A q \in Pids : pc'[q] = pcs[q] \/ (pc'[q] = "zombie" /\ pc[q] # "none")
    BY DEF Signal, Hit, Live
  <2> QED
    BY <2>1 DEF Cast
<1> HIDE DEF pcs
<1> QED
  BY <1>1, <1>2, <1>3

LEMMA CastApart ==
  ASSUME Parts, Parts', InLines, Apart, NEW p \in Pids, Cast(p)
  PROVE  Apart'
<1> USE DEF table, files, handler, rest
<1>0. SharedOK /\ SessionsOK /\ CastOK /\ MasterOK /\ p \in 0 .. M
  BY SlotsProperties DEF Parts
<1>1. UNCHANGED <<hasUser, name, pid, ID, accepted, slot, line, overlaps>>
  BY DEF Cast
<1>2. Own'
  BY <1>1, CastStays, OwnKept DEF Apart
<1>3. CASE overlaps # 0
  <2>1. overlaps' # 0
    BY <1>1, <1>3
  <2> QED
    BY <1>2, <2>1 DEF Apart, Solo, NameFree, Agree, Addressed, calm
<1>4. CASE overlaps = 0
  <2>1. /\ Moves(p) /\ Starts(p)
        /\ pc'[p] \in {"cast", "prompt", "leave", "send", "run"}
        /\ pc'[p] = "cast" => aim[p] = 0 /\ aim'[p] = 0
        /\ UNCHANGED <<hasUser, name, msg, late, sigchld>>
    BY <1>4, CastMoves DEF Apart
  <2>2. Solo'
    BY <2>1, SoloKept DEF Apart
  <2>3. NameFree'
    <3>1. \A q \in Pids : pc'[q] = "named" => pc[q] = "named"
      BY <2>1 DEF Moves
    <3> QED
      BY <1>1, <3>1, NameFreeKept DEF Apart
  <2>4. Agree'
    BY <2>1, AgreeKept DEF Apart
  <2>5. Addressed'
    <3> SUFFICES ASSUME calm', mpc' # "down" PROVE Addressed'
      BY DEF Addressed
    <3>1. calm /\ mpc' = mpc /\ UNCHANGED reaped
      BY <1>1, <2>1, CalmBefore DEF Moves
    <3>2. /\ pending \subseteq msg.for \cup late /\ seen \subseteq msg.for \cup late
          /\ \/ aim[p] = 0 /\ Pids \subseteq msg.for
             \/ aim[p] \in Slots /\ (pid[aim[p]] \in Live => pid[aim[p]] \in msg.for)
      BY <3>1 DEF Addressed, Apart, Cast
    <3>3. pending' \subseteq msg.for \cup late /\ seen' \subseteq msg.for \cup late
      <4> DEFINE u == IF aim[p] = 0 THEN at[p] ELSE aim[p]
      <4>1. {pid[u]} \cap Live \subseteq msg.for
        BY <3>2, RwgMultiAssumption DEF Live, Slots
      <4>2. \/ UNCHANGED <<pending, seen>>
            \/ pid[u] # 0 /\ pending' \subseteq pending \cup ({pid[u]} \cap Live)
                         /\ seen' \subseteq seen \cup ({pid[u]} \cap Live)
        BY <1>4, CastMoves DEF Apart
      <4> HIDE DEF u
      <4> QED
        BY <3>2, <4>1, <4>2
    <3>4. pc'[p] = "cast" => aim'[p] = 0 /\ Pids \subseteq msg.for
      BY <2>1, <3>2, RwgMultiAssumption DEF Slots
    <3>5. reaped = 0 /\ \A q \in Pids \ {p} : pc'[q] # "cast"
      <4>1. /\ \A q \in Pids \ {p} : pc[q] \in Still /\ pc'[q] = pc[q]
            /\ mpc = "down" \/ reaped = 0
        BY <1>1, <1>4, <2>1, Turn DEF Apart, Moves
      <4> QED
        BY <3>1, <4>1 DEF Still
    <3> QED
      BY <2>1, <3>1, <3>3, <3>4, <3>5 DEF Addressed
  <2> QED
    BY <1>2, <2>2, <2>3, <2>4, <2>5 DEF Apart
<1> QED
  BY <1>3, <1>4

LEMMA HandleApart ==
  ASSUME Apart, NEW p \in Pids, Handle(p)
  PROVE  Apart'
<1> USE DEF table, files, loop, handler, rest, cast
<1>1. Own' /\ Solo' /\ NameFree'
  BY DEF Apart, Handle, Own, Solo, NameFree, Online, Live
<1>2. Agree'
  BY DEF Apart, Handle, Agree, Live, calm
<1>3. Addressed'
  BY DEF Apart, Handle, Addressed, calm, Live
<1> QED
  BY <1>1, <1>2, <1>3 DEF Apart

\* The master keeps them apart.
LEMMA AcceptFacts ==
  ASSUME Parts, Own, Accept, overlaps' = 0
  PROVE  overlaps = 0 /\ ~sigchld /\ reaped = 0 /\ \A p \in Pids : pc[p] \in Still
<1>0. MasterOK /\ RestOK
  BY DEF Parts
<1>1. overlaps = 0 /\ OthersDone(accepted + 1) /\ mpc = "accept" /\ reaped = 0
  BY <1>0 DEF Accept, Begin, RestOK
<1>2. \A p \in Pids : p = accepted + 1 => pc[p] = "none"
  BY <1>0 DEF Own, MasterOK, Pids
<1> QED
  BY <1>1, <1>2 DEF OthersDone, Resting, Still

LEMMA AcceptApart ==
  ASSUME Parts, Apart, Accept
  PROVE  Apart'
<1> USE DEF table, board, files, handler, cast
<1>0. MasterOK /\ RestOK /\ SessionsOK
  BY DEF Parts
<1>1. /\ mpc = "accept" /\ mpc' = "fork" /\ accepted' = accepted + 1 /\ ID' = NewID
      /\ UNCHANGED <<hasUser, name, pid, msg, seen, late, sigchld, reaped, pc, slot, line, aim, pending>>
  BY DEF Accept
<1>2. overlaps' = 0 =>
        overlaps = 0 /\ ~sigchld /\ reaped = 0 /\ \A p \in Pids : pc[p] \in Still
  BY AcceptFacts DEF Apart
<1>3. Own'
  BY <1>0, <1>1 DEF Own, Apart, MasterOK, Pids
<1>4. Solo'
  BY <1>1, <1>2 DEF Solo
<1>5. NameFree'
  BY <1>1, <1>2, NameFreeKept DEF Apart
<1>6. calm' => calm
  BY <1>1, <1>2 DEF calm
<1>7. Agree'
  <2> SUFFICES ASSUME calm' PROVE Agree'
    BY DEF Agree
  <2>1. calm /\ \A p \in Live : p \in Pids /\ pc[p] = "prompt"
    BY <1>2, <1>6 DEF Live, Still, calm
  <2>2. \A p \in Live : pid[slot[p]] = p /\ hasUser[slot[p]] /\ slot[p] \in Users
    BY <1>1, <2>1 DEF Agree, Apart, calm
  <2>3. NewID \notin Users \/ ~hasUser[NewID]
    <3>1. CASE Free = {}
      BY <3>1, RwgMultiAssumption DEF NewID, Users
    <3>2. CASE Free # {}
      BY <3>2, FirstSlot DEF NewID, Free
    <3> QED
      BY <3>1, <3>2
  <2>4. \A p \in Live : slot'[p] # ID'
    BY <1>1, <2>2, <2>3
  <2>5. Live' = Live
    BY <1>1 DEF Live
  <2>6. /\ \A u \in Slots : hasUser[u] => u \in Users /\ pid[u] \in Pids
        /\ \A p \in Live : \A q \in Pids : pc[q] # "none" /\ slot[q] = slot[p] => q <= p
    BY <1>1, <2>1 DEF Agree, Apart
  <2> QED
    BY <1>1, <2>2, <2>4, <2>5, <2>6 DEF Agree
<1>8. Addressed'
  <2>1. \A p \in Pids : calm' => pc'[p] # "cast"
    BY <1>1, <1>2 DEF calm, Still
  <2> QED
    BY <1>1, <1>6, <2>1 DEF Addressed, Apart
<1> QED
  BY <1>3, <1>4, <1>5, <1>7, <1>8 DEF Apart

\* The one being forked is the last to be entered, and the last to have its slot.
LEMMA ForkFacts ==
  ASSUME Parts, Own, Fork
  PROVE  /\ accepted \in Pids /\ pc[accepted] = "none" /\ slot[accepted] = 1
         /\ pc'[accepted] = "fork" /\ slot'[accepted] = ID
         /\ \A q \in Pids \ {accepted} : pc'[q] = pc[q] /\ slot'[q] = slot[q]
         /\ \A u \in Slots : pid[u] # accepted
         /\ calm' => calm
         /\ Live' = Live \cup {accepted} /\ accepted \notin Live
         /\ \A u \in Slots : u # ID => Holder(u)' = Holder(u)
<1>0. MasterOK /\ SessionsOK
  BY DEF Parts
<1>1. /\ mpc = "fork" /\ UNCHANGED <<overlaps, ID, accepted>>
      /\ pc' = [pc EXCEPT ![accepted] = "fork"] /\ slot' = [slot EXCEPT ![accepted] = ID]
  BY DEF Fork, rest
<1>2. accepted \in Pids /\ pc[accepted] = "none" /\ slot[accepted] = 1
  BY <1>0, <1>1, RwgMultiAssumption DEF Own, MasterOK, Pids
<1>3. /\ pc'[accepted] = "fork" /\ slot'[accepted] = ID
      /\ \A q \in Pids \ {accepted} : pc'[q] = pc[q] /\ slot'[q] = slot[q]
  BY <1>0, <1>1, <1>2 DEF SessionsOK
<1>4. \A u \in Slots : pid[u] # accepted
  BY <1>2 DEF Own
<1>5. calm' => calm
  BY <1>1, <1>2, <1>3, SlotsProperties DEF calm
<1>6. Live' = Live \cup {accepted} /\ accepted \notin Live
  BY <1>2, <1>3 DEF Live
<1>7. ASSUME NEW u \in Slots, u # ID PROVE Holder(u)' = Holder(u)
  <2>1. \A q \in Pids : pc'[q] # "none" /\ slot'[q] = u <=> pc[q] # "none" /\ slot[q] = u
    BY <1>2, <1>3, <1>7
  <2> QED
    BY <2>1 DEF Holder
<1> QED
  BY <1>2, <1>3, <1>4, <1>5, <1>6, <1>7

LEMMA ForkApart ==
  ASSUME Parts, Apart, Fork
  PROVE  Apart'
<1> USE DEF table, board, files, handler, cast, rest
<1>0. SharedOK /\ MasterOK /\ SessionsOK
  BY DEF Parts
<1>1. /\ mpc = "fork" /\ mpc' = "user" /\ reaped = 0
      /\ UNCHANGED <<hasUser, name, pid, msg, seen, late, ID, accepted, sigchld, reaped, line, aim,
                     pending, overlaps>>
  BY DEF Fork
<1>2. /\ accepted \in Pids /\ pc[accepted] = "none" /\ slot[accepted] = 1
      /\ pc'[accepted] = "fork" /\ slot'[accepted] = ID
      /\ \A q \in Pids \ {accepted} : pc'[q] = pc[q] /\ slot'[q] = slot[q]
      /\ \A u \in Slots : pid[u] # accepted
      /\ calm' => calm
      /\ Live' = Live \cup {accepted} /\ accepted \notin Live
  BY ForkFacts DEF Apart
<1>3. \A q \in Pids : q > accepted => pc[q] = "none"
  BY DEF Apart, Own
<1>4. Own'
  <2>1. \A q \in Pids : pc'[q] = "none" => slot'[q] = 1
    BY <1>2 DEF Apart, Own
  <2>2. \A q \in Pids : q > accepted => pc'[q] = "none"
    BY <1>2, <1>3, RwgMultiAssumption DEF Pids
  <2>3. \A u \in Slots : \A q \in Pids : pid[u] = q => slot'[q] = u /\ pc'[q] # "none"
    BY <1>2 DEF Apart, Own
  <2> QED
    BY <1>1, <1>2, <2>1, <2>2, <2>3 DEF Own
<1>5. Solo'
  <2>1. overlaps = 0 => ~sigchld /\ reaped = 0 /\ \A q \in Pids : pc[q] \in Still
    BY <1>1 DEF Apart, Solo
  <2> QED
    BY <1>1, <1>2, <2>1 DEF Solo
<1>6. NameFree'
  <2>1. \A q \in Pids : pc'[q] = "named" => pc[q] = "named" /\ slot'[q] = slot[q]
    BY <1>2
  <2> QED
    BY <1>1, <2>1, NameFreeKept DEF Apart
<1>7. Agree'
  <2> SUFFICES ASSUME calm' PROVE Agree'
    BY DEF Agree
  <2>1. /\ \A q \in Live :
             /\ slot[q] # ID
             /\ pid[slot[q]] = q /\ (pc[q] # "remove" => hasUser[slot[q]])
             /\ \A r \in Pids : pc[r] # "none" /\ slot[r] = slot[q] => r <= q
        /\ \A u \in Slots : hasUser[u] => u \in Users /\ pid[u] \in Pids
    BY <1>1, <1>2 DEF Apart, Agree
  <2>2. \A q \in Live : q \in Pids /\ q # accepted /\ slot'[q] = slot[q] /\ pc'[q] = pc[q]
    BY <1>2 DEF Live
  <2>3. \A q \in Live' : \/ q = accepted
                         \/ pid[slot'[q]] = q /\ (pc'[q] # "remove" => hasUser[slot'[q]])
    BY <1>2, <2>1, <2>2
  <2>4. ASSUME NEW q \in Live', NEW r \in Pids, pc'[r] # "none", slot'[r] = slot'[q] PROVE r <= q
    <3>1. CASE q = accepted
      <4>1. r = accepted \/ ~(r > accepted)
        BY <1>2, <1>3, <2>4
      <4> QED
        BY <1>2, <3>1, <4>1, RwgMultiAssumption DEF Pids
    <3>2. CASE q # accepted
      <4>1. q \in Live /\ slot'[q] # ID
        BY <1>2, <2>1, <2>2, <3>2
      <4>2. r # accepted
        BY <1>2, <2>4, <4>1
      <4> QED
        BY <1>2, <2>1, <2>2, <2>4, <4>1, <4>2
    <3> QED
      BY <3>1, <3>2
  <2> QED
    BY <1>1, <2>1, <2>3, <2>4 DEF Agree
<1>8. Addressed'
  <2>1. overlaps = 0 => \A q \in Pids : pc'[q] # "cast"
    BY <1>1, <1>2 DEF Apart, Solo, Still
  <2> QED
    BY <1>1, <1>2, <2>1 DEF Apart, Addressed, calm
<1> QED
  BY <1>4, <1>5, <1>6, <1>7, <1>8 DEF Apart

LEMMA EnterUserApart ==
  ASSUME Parts, Apart, EnterUser
  PROVE  Apart'
<1> USE DEF table, board, files, handler, cast, rest
<1>0. SharedOK /\ MasterOK /\ SessionsOK
  BY DEF Parts
<1>1. /\ mpc = "user" /\ mpc' = "pid" /\ reaped = 0
      /\ hasUser' = [hasUser EXCEPT ![ID] = TRUE] /\ name' = [name EXCEPT ![ID] = NoName]
      /\ UNCHANGED <<pid, msg, seen, late, ID, accepted, sigchld, reaped, pc, slot, line, aim,
                     pending, overlaps>>
  BY DEF EnterUser
<1>2. /\ hasUser'[ID] /\ name'[ID] = NoName
      /\ \A u \in Slots \ {ID} : hasUser'[u] = hasUser[u] /\ name'[u] = name[u]
  BY <1>0, <1>1 DEF SharedOK, MasterOK
<1>3. accepted \in Pids /\ slot[accepted] = ID
  <2>1. accepted \in Pids
    BY <1>0, <1>1, RwgMultiAssumption DEF MasterOK, Pids
  <2> QED
    BY <1>1, <2>1 DEF Apart, Own
<1>4. Own'
  BY <1>1 DEF Apart, Own
<1>5. Live' = Live
  BY <1>1 DEF Live
<1>6. Solo'
  BY <1>1, <1>5 DEF Apart, Solo
<1>7. NameFree'
  <2> SUFFICES ASSUME overlaps' = 0
               PROVE  /\ \A u, v \in Online' : u # v /\ name'[u] = name'[v] => name'[u] = NoName
                      /\ \A p \in Pids : pc[p] = "named" =>
                           \A u \in Online' \ {slot[p]} : name'[u] # line[p].newName
    BY <1>1 DEF NameFree
  <2>1. Users \subseteq Slots
    BY SlotsProperties
  <2>2. \A p \in Pids : pc[p] = "named" => slot[p] = ID
    BY <1>1, <1>3 DEF Apart, Solo, Still
  <2>3. \A u \in Online' : u # ID => u \in Online /\ name'[u] = name[u]
    BY <1>2, <2>1 DEF Online
  <2>4. /\ \A u, v \in Online : u # v /\ name[u] = name[v] => name[u] = NoName
        /\ \A p \in Pids : pc[p] = "named" =>
             \A u \in Online \ {slot[p]} : name[u] # line[p].newName
    BY <1>1 DEF Apart, NameFree
  <2>5. ASSUME NEW u \in Online', NEW v \in Online', u # v, name'[u] = name'[v]
        PROVE  name'[u] = NoName
    BY <1>2, <2>3, <2>4, <2>5
  <2>6. ASSUME NEW p \in Pids, pc[p] = "named", NEW u \in Online' \ {slot[p]}
        PROVE  name'[u] # line[p].newName
    BY <2>2, <2>3, <2>4, <2>6
  <2> QED
    BY <2>5, <2>6
<1>8. Agree'
  <2> SUFFICES ASSUME calm' PROVE Agree'
    BY DEF Agree
  <2>1. calm /\ ID \in Users /\ ID \in Slots
    BY <1>0, <1>1, <1>3 DEF calm, MasterOK
  <2>2. \A q \in Live : slot[q] \in Slots
    BY <1>0 DEF SessionsOK, Live
  <2>3. \A u \in Slots : hasUser[u] => hasUser'[u]
    BY <1>2
  <2> QED
    BY <1>1, <1>2, <1>5, <2>1, <2>2, <2>3 DEF Apart, Agree
<1>9. Addressed'
  BY <1>1, <1>5 DEF Apart, Addressed, calm
<1> QED
  BY <1>4, <1>6, <1>7, <1>8, <1>9 DEF Apart

LEMMA EnterPidApart ==
  ASSUME Parts, Apart, EnterPid
  PROVE  Apart'
<1> USE DEF board, files, handler, cast, rest
<1>0. SharedOK /\ MasterOK /\ SessionsOK
  BY DEF Parts
<1>1. /\ mpc = "pid" /\ mpc' = "accept" /\ reaped = 0
      /\ pid' = [pid EXCEPT ![ID] = accepted]
      /\ UNCHANGED <<hasUser, name, msg, seen, late, ID, accepted, sigchld, reaped, pc, slot, line,
                     aim, pending, overlaps>>
  BY DEF EnterPid, Known
<1>2. /\ pid'[ID] = accepted /\ \A u \in Slots \ {ID} : pid'[u] = pid[u]
  BY <1>0, <1>1 DEF SharedOK, MasterOK
<1>3. accepted \in Pids /\ slot[accepted] = ID /\ pc[accepted] # "none" /\ ID \in Slots
  <2>1. accepted \in Pids
    BY <1>0, <1>1, RwgMultiAssumption DEF MasterOK, Pids
  <2> QED
    BY <1>0, <1>1, <2>1 DEF Apart, Own, MasterOK
<1>4. Own'
  BY <1>1, <1>2, <1>3 DEF Apart, Own
<1>5. Live' = Live /\ (calm' => calm)
  BY <1>1 DEF Live, calm
<1>6. Solo'
  BY <1>1, <1>5 DEF Apart, Solo, Live
<1>7. NameFree'
  BY <1>1, NameFreeKept DEF Apart
<1>8. Agree'
  <2> SUFFICES ASSUME calm' PROVE Agree'
    BY DEF Agree
  <2>1. calm /\ \A q \in Live : q \in Pids /\ slot[q] \in Slots
    BY <1>0, <1>5 DEF Live, SessionsOK
  <2>2. ASSUME NEW q \in Live
        PROVE  pid'[slot[q]] = q /\ (pc[q] # "remove" => hasUser[slot[q]])
    <3>1. CASE q = accepted
      BY <1>1, <1>2, <1>3, <2>1, <2>2, <3>1 DEF Apart, Agree
    <3>2. CASE q # accepted
      <4>1. slot[q] # ID
        <5>1. Holder(ID) = {accepted}
          BY <1>1, <1>3, <2>1, Holds DEF Apart
        <5>2. Holder(slot[q]) = {q}
          BY <2>1, Holds DEF Apart
        <5> QED
          BY <3>2, <5>1, <5>2
      <4>2. pid[slot[q]] = q /\ (pc[q] # "remove" => hasUser[slot[q]])
        BY <1>1, <2>1, <3>2 DEF Apart, Agree
      <4> QED
        BY <1>2, <2>1, <4>1, <4>2
    <3> QED
      BY <3>1, <3>2
  <2>3. ASSUME NEW u \in Slots, hasUser[u] PROVE pid'[u] \in Pids
    <3>1. CASE u = ID
      BY <1>2, <1>3, <3>1
    <3>2. CASE u # ID
      BY <1>1, <1>2, <2>1, <2>3, <3>2 DEF Apart, Agree
    <3> QED
      BY <3>1, <3>2
  <2>4. /\ \A u \in Slots : hasUser[u] => u \in Users
        /\ \A p \in Live : \A q \in Pids : pc[q] # "none" /\ slot[q] = slot[p] => q <= p
    BY <2>1 DEF Apart, Agree
  <2> QED
    BY <1>1, <1>5, <2>2, <2>3, <2>4 DEF Agree
<1>9. Addressed'
  <2> SUFFICES ASSUME calm' PROVE Addressed'
    BY DEF Addressed
  <2>1. /\ pending \subseteq msg.for \cup late /\ seen \subseteq msg.for \cup late
        /\ reaped # 0 => Pids \subseteq msg.for
        /\ \A p \in Pids : pc[p] = "cast" =>
             \/ aim[p] = 0 /\ Pids \subseteq msg.for
             \/ /\ aim[p] \in Slots
                /\ pid[aim[p]] \in Live => pid[aim[p]] \in msg.for
                /\ aim[p] = ID => accepted \in msg.for
    BY <1>1, <1>5 DEF Apart, Addressed
  <2>2. \A u \in Slots : u = ID \/ pid'[u] = pid[u]
    BY <1>2
  <2> QED
    BY <1>1, <1>2, <1>5, <2>1, <2>2 DEF Addressed
<1> QED
  BY <1>4, <1>6, <1>7, <1>8, <1>9 DEF Apart

\* The reaper: nobody is doing anything, and the slot it gives up is nobody's.
LEMMA ReapFacts ==
  ASSUME Parts, Reap
  PROVE  /\ mpc # "down" /\ sigchld /\ ~sigchld' /\ reaped = 0
         /\ UNCHANGED <<name, pid, file, renamed, mpc, ID, accepted, slot, line, aim, next,
                        userPipeIn, pending, early, overlaps>>
         /\ \A p \in Pids : pc'[p] = IF pc[p] = "zombie" THEN "gone" ELSE pc[p]
         /\ Live' = Live
         /\ \A u \in Slots : hasUser'[u] => hasUser[u]
         /\ \A u \in Slots : hasUser[u] /\ ~hasUser'[u] => u = Min(Dead) /\ u \in Dead
         /\ Dead = {} => UNCHANGED <<hasUser, reaped>>
         /\ Dead # {} => /\ Min(Dead) \in Dead /\ ~hasUser'[Min(Dead)]
                         /\ reaped' = Min(Dead)
<1> USE DEF table, board, files, handler, loop, cast, rest
<1>0. SharedOK
  BY DEF Parts
<1>1. Dead # {} => Min(Dead) \in Dead /\ Min(Dead) \in Slots
  BY FirstSlot, SlotsProperties DEF Dead, Online
<1>2. \A p \in Pids : pc'[p] = IF pc[p] = "zombie" THEN "gone" ELSE pc[p]
  BY DEF Reap
<1>3. Live' = Live
  BY <1>2 DEF Live
<1>4. \A u \in Slots : hasUser[u] /\ ~hasUser'[u] => u = Min(Dead) /\ u \in Dead
  BY <1>0, <1>1 DEF Reap, SharedOK
<1>5. \A u \in Slots : hasUser'[u] => hasUser[u]
  BY <1>0 DEF Reap, SharedOK
<1>6. Dead # {} => ~hasUser'[Min(Dead)] /\ reaped' = Min(Dead)
  BY <1>0, <1>1 DEF Reap, SharedOK
<1> QED
  BY <1>1, <1>2, <1>3, <1>4, <1>5, <1>6 DEF Reap

LEMMA ReapApart ==
  ASSUME Parts, Parts', Apart, Reap
  PROVE  Apart'
<1>0. SharedOK /\ SessionsOK /\ RestOK /\ \A u \in Users : u \in Slots
  BY SlotsProperties DEF Parts
<1>1. /\ mpc # "down" /\ sigchld /\ ~sigchld' /\ reaped = 0
      /\ UNCHANGED <<name, pid, mpc, ID, accepted, slot, line, aim, pending, overlaps>>
      /\ \A p \in Pids : pc'[p] = IF pc[p] = "zombie" THEN "gone" ELSE pc[p]
      /\ Live' = Live
      /\ \A u \in Slots : hasUser'[u] => hasUser[u]
      /\ \A u \in Slots : hasUser[u] /\ ~hasUser'[u] => u \in Dead
  BY ReapFacts
<1>2. Own'
  BY <1>1, OwnKept DEF Apart
<1>3. overlaps = 0 =>
        /\ mpc # "fork" /\ (mpc \in {"user", "pid"} => accepted \notin Live)
        /\ \A p \in Pids : pc[p] \in Still /\ pc'[p] \in Still
  BY <1>1 DEF Apart, Solo, Still
<1>4. Solo'
  BY <1>1, <1>3 DEF Solo
<1>5. NameFree'
  BY <1>0, <1>1, NameFreeKept DEF Apart
<1>6. calm' => calm /\ overlaps = 0
  BY <1>1 DEF calm
<1>7. Agree'
  <2> SUFFICES ASSUME calm' PROVE Agree'
    BY DEF Agree
  <2>1. calm /\ mpc # "fork" /\ (mpc \in {"user", "pid"} => accepted \notin Live)
    BY <1>3, <1>6
  <2>2. \A q \in Live : q \in Pids /\ pc[q] = "prompt" /\ pc'[q] = "prompt" /\ slot[q] \in Slots
    BY <1>0, <1>1, <1>3, <1>6 DEF Live, Still, SessionsOK
  <2>3. \A q \in Live : pid[slot[q]] = q /\ hasUser[slot[q]]
    BY <1>1, <2>1, <2>2 DEF Apart, Agree
  <2>4. \A q \in Live : slot[q] \notin Dead
    BY <2>2, <2>3 DEF Dead
  <2>5. \A q \in Live : hasUser'[slot[q]]
    BY <1>1, <2>2, <2>3, <2>4
  <2>6. /\ \A u \in Slots : hasUser[u] => u \in Users
        /\ \A u \in Slots : hasUser[u] /\ ~(mpc = "pid" /\ u = ID) => pid[u] \in Pids
        /\ \A p \in Live : \A q \in Pids : pc[q] # "none" /\ slot[q] = slot[p] => q <= p
    BY <1>1, <2>1 DEF Apart, Agree
  <2>7. \A q \in Pids : pc'[q] # "none" <=> pc[q] # "none"
    BY <1>1
  <2> QED
    BY <1>1, <2>1, <2>3, <2>5, <2>6, <2>7 DEF Agree
<1>8. Addressed'
  <2> SUFFICES ASSUME calm' PROVE Addressed'
    BY DEF Addressed
  <2>1. \A p \in Pids : pc'[p] # "cast"
    BY <1>3, <1>6 DEF Still
  <2>2. CASE Dead = {}
    <3>1. UNCHANGED <<msg, seen, late, reaped>>
      BY <2>2 DEF Reap, board, handler
    <3> QED
      BY <1>1, <1>6, <2>1, <3>1 DEF Apart, Addressed
  <2>3. CASE Dead # {}
    <3>1. msg'.for = Pids /\ seen' = {}
      BY <2>3 DEF Reap
    <3> QED
      BY <1>0, <1>1, <2>1, <3>1 DEF Addressed, RestOK
  <2> QED
    BY <2>2, <2>3
<1> QED
  BY <1>2, <1>4, <1>5, <1>7, <1>8 DEF Apart

LEMMA ReapTellFacts ==
  ASSUME Parts, Own, Solo, ReapTell
  PROVE  /\ mpc # "down" /\ reaped # 0 /\ mpc' \in {mpc, "down"}
         /\ UNCHANGED <<hasUser, name, pid, file, renamed, ID, accepted, reaped, slot, line, aim,
                        next, userPipeIn, early, overlaps>>
         /\ \A q \in Pids : pc'[q] = "none" <=> pc[q] = "none"
         /\ overlaps = 0 =>
              /\ UNCHANGED <<pc, sigchld, msg, late>>
              /\ pending' \subseteq pending \cup Pids /\ seen' \subseteq seen \cup Pids
<1> USE DEF table, board, files, cast, rest
<1>0. SessionsOK /\ MasterOK
  BY DEF Parts
<1>1. /\ mpc # "down" /\ reaped # 0
      /\ \/ Signal(pid[told + 1], 0, pc)
         \/ UNCHANGED <<pc, pending, board, sigchld, mpc>>
      /\ UNCHANGED <<hasUser, name, pid, file, renamed, ID, accepted, reaped, slot, line, aim, next,
                     userPipeIn, early, overlaps>>
  BY DEF ReapTell
<1>2. mpc' \in {mpc, "down"} /\ \A q \in Pids : pc'[q] = "none" <=> pc[q] = "none"
  BY <1>1 DEF Signal, Hit, Live
<1>3. ASSUME overlaps = 0
      PROVE  /\ UNCHANGED <<pc, sigchld, msg, late>>
             /\ pending' \subseteq pending \cup Pids /\ seen' \subseteq seen \cup Pids
  <2>1. \A q \in Pids : pc[q] # "fork"
    BY <1>1, <1>3 DEF Solo, Still
  <2>2. CASE Signal(pid[told + 1], 0, pc)
    <3>1. 0 \in 0 .. M /\ pc \in [Pids -> State]
      BY <1>0, RwgMultiAssumption DEF SessionsOK
    <3>2. Hit(pid[told + 1]) \subseteq Pids
      BY DEF Hit, Live
    <3> QED
      BY <1>0, <2>1, <2>2, <3>1, <3>2, SignalReaches
  <2>3. CASE UNCHANGED <<pc, pending, board, sigchld, mpc>>
    BY <2>3
  <2> QED
    BY <1>1, <2>2, <2>3
<1> QED
  BY <1>1, <1>2, <1>3

LEMMA ReapTellApart ==
  ASSUME Parts, Parts', Apart, ReapTell
  PROVE  Apart'
<1>1. /\ mpc # "down" /\ reaped # 0 /\ mpc' \in {mpc, "down"}
      /\ UNCHANGED <<hasUser, name, pid, ID, accepted, reaped, slot, line, aim, overlaps>>
      /\ \A q \in Pids : pc'[q] = "none" <=> pc[q] = "none"
      /\ overlaps = 0 =>
           /\ UNCHANGED <<pc, sigchld, msg, late>>
           /\ pending' \subseteq pending \cup Pids /\ seen' \subseteq seen \cup Pids
  BY ReapTellFacts DEF Apart
<1>2. Own'
  BY <1>1, OwnKept DEF Apart
<1>3. CASE overlaps # 0
  BY <1>1, <1>2, <1>3 DEF Apart, Solo, NameFree, Agree, Addressed, calm
<1>4. CASE overlaps = 0
  <2>1. mpc # "fork" /\ Live' = Live /\ \A q \in Pids : pc[q] \in Still
    BY <1>1, <1>4 DEF Apart, Solo, Live
  <2>2. Solo'
    BY <1>1, <1>4, <2>1 DEF Apart, Solo
  <2>3. NameFree'
    BY <1>1, <1>4, NameFreeKept DEF Apart
  <2>4. Agree'
    BY <1>1, <1>4, <2>1 DEF Apart, Agree, calm
  <2>5. Addressed'
    <3> SUFFICES ASSUME calm' PROVE Addressed'
      BY DEF Addressed
    <3>1. calm
      BY <1>1, CalmBefore
    <3>2. pending \subseteq msg.for \cup late /\ seen \subseteq msg.for \cup late /\ Pids \subseteq msg.for
      BY <1>1, <3>1 DEF Apart, Addressed
    <3>3. \A q \in Pids : pc'[q] # "cast"
      BY <1>1, <1>4, <2>1 DEF Still
    <3>4. UNCHANGED <<msg, late>> /\ pending' \subseteq pending \cup Pids /\ seen' \subseteq seen \cup Pids
      BY <1>1, <1>4
    <3> QED
      BY <3>2, <3>3, <3>4 DEF Addressed
  <2> QED
    BY <1>2, <2>2, <2>3, <2>4, <2>5 DEF Apart
<1> QED
  BY <1>3, <1>4

LEMMA ReapRemoveApart ==
  ASSUME Parts, Apart, ReapRemove
  PROVE  Apart'
<1> USE DEF table, board, loop, cast, rest
<1>1. /\ reaped # 0 /\ reaped' = 0
      /\ UNCHANGED <<hasUser, name, pid, msg, seen, late, mpc, ID, accepted, sigchld, pc, slot, line,
                     aim, pending, overlaps>>
  BY DEF ReapRemove
<1>2. Own' /\ Solo' /\ NameFree'
  BY <1>1 DEF Apart, Own, Solo, NameFree, Online, Live
<1>3. Agree' /\ Addressed'
  BY <1>1 DEF Apart, Agree, Addressed, Live, calm
<1> QED
  BY <1>2, <1>3 DEF Apart

LEMMA ApartAlways == Spec => [](TypeOK /\ Apart)
<1>1. Init => Apart
  <2> SUFFICES ASSUME Init PROVE Apart
    OBVIOUS
  <2>1. Own
    BY RwgMultiAssumption DEF Init, Own, Slots, Pids
  <2>2. Solo
    BY DEF Init, Solo, Still
  <2>3. NameFree
    <3>1. Online = {}
      BY SlotsProperties DEF Init, Online
    <3>2. \A p \in Pids : pc[p] # "named"
      BY DEF Init
    <3> QED
      BY <3>1, <3>2 DEF NameFree
  <2>4. Agree
    BY DEF Init, Agree, Live
  <2>5. Addressed
    BY DEF Init, Addressed
  <2> QED
    BY <2>1, <2>2, <2>3, <2>4, <2>5 DEF Apart
<1>2. Parts /\ InLines /\ Parts' /\ Apart /\ [Next]_vars => Apart'
  <2> SUFFICES ASSUME Parts, InLines, Parts', Apart, [Next]_vars PROVE Apart'
    OBVIOUS
  <2>1. CASE Master
    BY <2>1, ForkApart, EnterUserApart, EnterPidApart, ReapApart, ReapTellApart,
       ReapRemoveApart DEF Master
  <2>2. CASE Client
    <3>1. CASE Accept
      BY <3>1, AcceptApart
    <3>2. ASSUME NEW p \in Pids, ReadLine(p) \/ HangUp(p) PROVE Apart'
      BY <3>2, SessionFacts, SessionApart
    <3> QED
      BY <2>2, <3>1, <3>2 DEF Client
  <2>3. ASSUME NEW p \in Pids, Session(p) PROVE Apart'
    <3>1. CASE Handle(p)
      BY <3>1, HandleApart
    <3>2. CASE Cast(p)
      BY <3>2, CastApart
    <3>3. CASE ~Handle(p) /\ ~Cast(p)
      <4>1. Steps(p)
        BY <2>3, <3>3, SessionFacts DEF Session
      <4> QED
        BY <4>1, SessionApart
    <3> QED
      BY <3>1, <3>2, <3>3
  <2>4. CASE UNCHANGED vars
    <3>1. UNCHANGED <<hasUser, name, pid, msg, seen, late, mpc, ID, accepted, sigchld, reaped, pc, slot,
                      line, aim, pending, overlaps>>
      BY <2>4 DEF vars, table, board, files, loop, handler, cast, rest
    <3>2. Own' /\ Solo' /\ NameFree'
      BY <3>1 DEF Apart, Own, Solo, NameFree, Online, Live
    <3>3. Agree' /\ Addressed'
      BY <3>1 DEF Apart, Agree, Addressed, Live, calm
    <3> QED
      BY <3>2, <3>3 DEF Apart
  <2> QED
    BY <2>1, <2>2, <2>3, <2>4 DEF Next
<1>3. Spec => [](Parts /\ InLines)
  BY PartsAlways
<1> QED
  BY <1>1, <1>2, <1>3, TypeParts, PTL DEF Spec

\* Two users who are online have different names, for all sizes of the table,
\* names and lines, as long as clients wait for one another.
THEOREM NamesDistinctHolds == Spec => []NamesDistinct
<1>1. Apart => NamesDistinct
  BY DEF Apart, NameFree, NamesDistinct, calm
<1> QED
  BY <1>1, ApartAlways, PTL

\* Then only those a message is for print it, and those whom it came before the
\* last they had to print.
THEOREM PrivateMessageHolds == Spec => []PrivateMessage
<1>1. Apart => PrivateMessage
  BY DEF Apart, Addressed, PrivateMessage
<1> QED
  BY <1>1, ApartAlways, PTL
-----------------------------------------------------------------------------
(* The slots whose sessions are gone. *)

LEMMA SmallSets ==
  /\ \A S \in SUBSET Users : IsFiniteSet(S) /\ Cardinality(S) \in Nat
  /\ \A S \in SUBSET Pids : IsFiniteSet(S) /\ Cardinality(S) \in Nat
<1>1. IsFiniteSet(Users) /\ IsFiniteSet(Pids)
  BY FS_Interval, RwgMultiAssumption DEF Users, Pids
<1> QED
  BY <1>1, FS_Subset, FS_CardinalityType

LEMMA OneMore ==
  ASSUME NEW S, IsFiniteSet(S), NEW x, NEW T, T \subseteq S \cup {x}
  PROVE  Cardinality(T) <= Cardinality(S) + 1
<1>1. IsFiniteSet(S \cup {x}) /\ Cardinality(S \cup {x}) \in {Cardinality(S), Cardinality(S) + 1}
  BY FS_AddElement
<1>2. Cardinality(T) <= Cardinality(S \cup {x}) /\ Cardinality(T) \in Nat
  BY <1>1, FS_Subset, FS_CardinalityType
<1>3. Cardinality(S) \in Nat
  BY FS_CardinalityType
<1> QED
  BY <1>1, <1>2, <1>3

LEMMA OneLess ==
  ASSUME NEW S, IsFiniteSet(S), NEW x \in S, NEW T, T \subseteq S \ {x}
  PROVE  Cardinality(T) + 1 <= Cardinality(S)
<1>1. IsFiniteSet(S \ {x}) /\ Cardinality(S \ {x}) = Cardinality(S) - 1
  BY FS_RemoveElement
<1>2. Cardinality(T) <= Cardinality(S \ {x}) /\ Cardinality(T) \in Nat
  BY <1>1, FS_Subset, FS_CardinalityType
<1>3. Cardinality(S) \in Nat
  BY FS_CardinalityType
<1> QED
  BY <1>1, <1>2, <1>3

\* The slots of those who are gone; one is still to come if the session that is
\* being entered has ended, and one will go if the reaper has yet to run.
Lost == {u \in Users : hasUser[u] /\ pid[u] \notin Live /\ ~(mpc = "pid" /\ u = ID)}
Owed == IF mpc \in {"user", "pid"} /\ accepted \in early THEN 1 ELSE 0
Due == IF sigchld /\ mpc = "accept" THEN 1 ELSE 0

\* No more of them than there are sessions that ended before they were entered.
Counted ==
  /\ \A p \in early : pc[p] # "none"
  /\ calm =>
       /\ mpc \in {"user", "pid"} /\ accepted \notin Live => accepted \in early
       /\ mpc # "down" => Cardinality(Lost) + Owed <= Cardinality(early) + Due

\* How a step may change these numbers.
Balanced ==
  \/ early' = early /\ Lost' \subseteq Lost /\ Owed' <= Owed /\ Due <= Due'
  \/ /\ early' = early /\ Owed' = Owed /\ Due = 0 /\ Due' = 1
     /\ \E u \in Users : Lost' \subseteq Lost \cup {u}
  \/ /\ early' = early /\ Owed = 1 /\ Owed' = 0 /\ Due <= Due'
     /\ \E u \in Users : Lost' \subseteq Lost \cup {u}
  \/ /\ \E p \in Pids : p \notin early /\ early' = early \cup {p}
     /\ Lost' \subseteq Lost /\ Owed' <= Owed + 1 /\ Due <= Due'
  \/ /\ early' = early /\ Owed' = 0 /\ Due = 1 /\ Due' = 0
     /\ Lost' = {} \/ \E u \in Lost : Lost' \subseteq Lost \ {u}

LEMMA Sums ==
  ASSUME NEW l \in Nat, NEW l1 \in Nat, NEW e \in Nat, NEW e1 \in Nat,
         NEW o \in {0, 1}, NEW o1 \in {0, 1}, NEW d \in {0, 1}, NEW d1 \in {0, 1},
         l + o <= e + d,
         \/ e1 = e /\ l1 <= l /\ o1 <= o /\ d <= d1
         \/ e1 = e /\ o1 = o /\ d = 0 /\ d1 = 1 /\ l1 <= l + 1
         \/ e1 = e /\ o = 1 /\ o1 = 0 /\ d <= d1 /\ l1 <= l + 1
         \/ e1 = e + 1 /\ l1 <= l /\ o1 <= o + 1 /\ d <= d1
         \/ e1 = e /\ o1 = 0 /\ d = 1 /\ d1 = 0 /\ (l1 = 0 \/ l1 + 1 <= l)
  PROVE  l1 + o1 <= e1 + d1
OBVIOUS

LEMMA BalanceKept ==
  ASSUME RestOK, RestOK', Balanced, Cardinality(Lost) + Owed <= Cardinality(early) + Due
  PROVE  Cardinality(Lost') + Owed' <= Cardinality(early') + Due'
<1>1. /\ Lost \in SUBSET Users /\ Lost' \in SUBSET Users
      /\ early \in SUBSET Pids /\ early' \in SUBSET Pids
  BY DEF Lost, RestOK
<1>2. /\ IsFiniteSet(Lost) /\ IsFiniteSet(early)
      /\ Cardinality(Lost) \in Nat /\ Cardinality(Lost') \in Nat
      /\ Cardinality(early) \in Nat /\ Cardinality(early') \in Nat
  BY <1>1, SmallSets
<1>3. Owed \in {0, 1} /\ Owed' \in {0, 1} /\ Due \in {0, 1} /\ Due' \in {0, 1}
  BY DEF Owed, Due
<1>4. Lost' \subseteq Lost => Cardinality(Lost') <= Cardinality(Lost)
  BY <1>2, FS_Subset
<1>5. \A u : Lost' \subseteq Lost \cup {u} => Cardinality(Lost') <= Cardinality(Lost) + 1
  BY <1>2, OneMore
<1>6. \A u \in Lost : Lost' \subseteq Lost \ {u} => Cardinality(Lost') + 1 <= Cardinality(Lost)
  BY <1>2, OneLess
<1>7. \A p : p \notin early /\ early' = early \cup {p} => Cardinality(early') = Cardinality(early) + 1
  BY <1>2, FS_AddElement
<1>8. Lost' = {} => Cardinality(Lost') = 0
  BY FS_EmptySet
<1>9. early' = early => Cardinality(early') = Cardinality(early)
  OBVIOUS
<1> DEFINE l == Cardinality(Lost)
           l1 == Cardinality(Lost')
           e == Cardinality(early)
           e1 == Cardinality(early')
           o == Owed
           o1 == Owed'
           d == Due
           d1 == Due'
<1>10. \/ e1 = e /\ l1 <= l /\ o1 <= o /\ d <= d1
       \/ e1 = e /\ o1 = o /\ d = 0 /\ d1 = 1 /\ l1 <= l + 1
       \/ e1 = e /\ o = 1 /\ o1 = 0 /\ d <= d1 /\ l1 <= l + 1
       \/ e1 = e + 1 /\ l1 <= l /\ o1 <= o + 1 /\ d <= d1
       \/ e1 = e /\ o1 = 0 /\ d = 1 /\ d1 = 0 /\ (l1 = 0 \/ l1 + 1 <= l)
  BY <1>4, <1>5, <1>6, <1>7, <1>8, <1>9 DEF Balanced
<1>11. l \in Nat /\ l1 \in Nat /\ e \in Nat /\ e1 \in Nat /\ l + o <= e + d
  BY <1>2
<1>12. o \in {0, 1} /\ o1 \in {0, 1} /\ d \in {0, 1} /\ d1 \in {0, 1}
  BY <1>3
<1> HIDE DEF l, l1, e, e1, o, o1, d, d1
<1>13. l1 + o1 <= e1 + d1
  BY <1>10, <1>11, <1>12, Sums
<1> QED
  BY <1>13 DEF l1, e1, o1, d1

LEMMA CountedKept ==
  ASSUME RestOK, RestOK', Counted, calm' => calm, \A p \in early' : pc'[p] # "none",
         calm' /\ mpc' \in {"user", "pid"} /\ accepted' \notin Live' => accepted' \in early',
         calm' /\ mpc' # "down" => mpc # "down" /\ Balanced
  PROVE  Counted'
<1>1. calm' /\ mpc' # "down" => Cardinality(Lost') + Owed' <= Cardinality(early') + Due'
  BY BalanceKept DEF Counted
<1> QED
  BY <1>1 DEF Counted

\* A session's step, when nothing overlaps.
LEMMA CountedMoves ==
  ASSUME Parts, Parts', Own, Solo, Agree, Counted, NEW p \in Pids, Moves(p), Starts(p),
         \A u \in Slots : hasUser'[u] => hasUser[u],
         early' = IF pc'[p] \in {"remove", "zombie"} /\ ~Entered(p) THEN early \cup {p} ELSE early
  PROVE  Counted'
<1>0. RestOK /\ RestOK' /\ MasterOK /\ early \in SUBSET Pids
  BY DEF Parts, RestOK
<1>1. /\ \A q \in Pids \ {p} : pc'[q] = pc[q]
      /\ pc[p] \notin {"none", "gone", "zombie"} /\ pc'[p] \notin {"none", "gone", "fork"}
      /\ UNCHANGED <<pid, slot, ID, accepted>> /\ mpc' \in {mpc, "down"}
      /\ sigchld' <=> sigchld \/ pc'[p] = "zombie"
  BY DEF Moves
<1>2. calm' => calm
  BY CalmBefore DEF Moves
<1>3. \A q \in early' : pc'[q] # "none"
  BY <1>0, <1>1 DEF Counted
<1>4. calm' => mpc # "fork" /\ (mpc = "down" \/ ~sigchld) /\ (mpc \in {"user", "pid"} => p = accepted)
  BY Turn DEF calm
<1>5. Entered(p) <=> mpc \notin {"user", "pid"} \/ accepted # p
  BY DEF Entered
<1>6. ASSUME calm', mpc' \in {"user", "pid"}, accepted' \notin Live' PROVE accepted' \in early'
  <2>1. mpc \in {"user", "pid"} /\ accepted = p /\ accepted' = p
    BY <1>1, <1>4, <1>6
  <2>2. pc'[p] = "zombie"
    BY <1>1, <1>6, <2>1 DEF Live
  <2> QED
    BY <1>5, <2>1, <2>2
<1>7. ASSUME calm', mpc' # "down" PROVE mpc # "down" /\ Balanced
  <2>1. mpc' = mpc /\ mpc # "down" /\ mpc # "fork" /\ ~sigchld /\ (mpc \in {"user", "pid"} => p = accepted)
    BY <1>1, <1>4, <1>7
  <2>2. \A u \in Users : hasUser'[u] => hasUser[u]
    BY SlotsProperties
  <2>3. CASE pc'[p] \notin {"remove", "zombie"}
    <3>1. Live' = Live /\ early' = early /\ sigchld' = sigchld
      BY <1>0, <1>1, <2>1, <2>3, <2>3 DEF Live, MasterOK, Parts
    <3>2. Lost' \subseteq Lost /\ Owed' = Owed /\ Due' = Due
      BY <1>1, <2>1, <2>2, <3>1 DEF Lost, Owed, Due
    <3>3. Owed' <= Owed /\ Due <= Due'
      BY <3>2 DEF Owed, Due
    <3> QED
      BY <2>1, <3>1, <3>2, <3>3 DEF Balanced
  <2>4. CASE pc'[p] = "remove" /\ Entered(p)
    <3>1. Live' = Live /\ early' = early /\ sigchld' = sigchld
      BY <1>0, <1>1, <2>1, <2>4 DEF Live, MasterOK, Parts
    <3>2. Lost' \subseteq Lost /\ Owed' = Owed /\ Due' = Due
      BY <1>1, <2>1, <2>2, <3>1 DEF Lost, Owed, Due
    <3>3. Owed' <= Owed /\ Due <= Due'
      BY <3>2 DEF Owed, Due
    <3> QED
      BY <2>1, <3>1, <3>2, <3>3 DEF Balanced
  <2>5. CASE pc'[p] = "zombie" /\ Entered(p)
    <3>1. mpc = "accept"
      BY <1>0, <1>5, <2>1, <2>5 DEF MasterOK
    <3>2. Due = 0 /\ Due' = 1 /\ Owed' = Owed /\ early' = early
      BY <1>1, <2>1, <2>5, <3>1 DEF Due, Owed
    <3>3. \A q \in Live : q = p \/ q \in Live'
      BY <1>1 DEF Live
    <3>4. \A u \in Slots : pid[u] = p => slot[p] = u
      BY DEF Own
    <3>5. slot[p] \in Users
      BY <1>2, <1>7 DEF calm
    <3>6. ASSUME NEW u \in Lost' PROVE u \in Lost \cup {slot[p]}
      <4>1. u \in Users /\ u \in Slots /\ hasUser[u] /\ pid[u] \notin Live'
        BY <1>1, <2>2, <3>6, SlotsProperties DEF Lost
      <4> QED
        BY <3>1, <3>3, <3>4, <4>1 DEF Lost
    <3>7. \E u \in Users : Lost' \subseteq Lost \cup {u}
      BY <3>5, <3>6
    <3> QED
      BY <2>1, <3>2, <3>7 DEF Balanced
  <2>6. CASE pc'[p] \in {"remove", "zombie"} /\ ~Entered(p)
    <3>1. mpc \in {"user", "pid"} /\ accepted = p /\ early' = early \cup {p}
      BY <1>5, <2>6
    <3>2. \A u \in Slots : pid[u] # p
      BY <3>1 DEF Own
    <3>3. \A q \in Live : q = p \/ q \in Live'
      BY <1>1 DEF Live
    <3>4. Lost' \subseteq Lost
      BY <1>1, <2>1, <2>2, <3>2, <3>3, SlotsProperties DEF Lost
    <3>5. Due = 0 /\ Due' = 0 /\ Owed' = 1
      BY <1>1, <2>1, <3>1 DEF Due, Owed
    <3>6. CASE p \in early
      <4>1. Owed = 1 /\ early' = early
        BY <3>1, <3>6 DEF Owed
      <4> QED
        BY <2>1, <3>4, <3>5, <4>1 DEF Balanced
    <3>7. CASE p \notin early
      <4>1. Owed = 0
        BY <3>1, <3>7 DEF Owed
      <4>2. Owed' <= Owed + 1 /\ Due <= Due'
        BY <3>5, <4>1
      <4> QED
        BY <2>1, <3>1, <3>4, <3>7, <4>2 DEF Balanced
    <3> QED
      BY <3>6, <3>7
  <2> QED
    BY <2>3, <2>4, <2>5, <2>6
<1> QED
  BY <1>0, <1>2, <1>3, <1>6, <1>7, CountedKept

LEMMA CountedCast ==
  ASSUME Parts, Parts', InLines, Own, Solo, Agree, Counted, NEW p \in Pids, Cast(p)
  PROVE  Counted'
<1>0. early \in SUBSET Pids /\ early' = early /\ overlaps' = overlaps
  BY DEF Parts, RestOK, Cast, rest
<1>1. CASE overlaps # 0
  BY <1>0, <1>1, CastStays DEF Counted, calm
<1>2. CASE overlaps = 0
  <2>1. /\ Moves(p) /\ Starts(p) /\ hasUser' = hasUser
        /\ pc'[p] \in {"cast", "prompt", "leave", "send", "run"}
    BY <1>2, CastMoves
  <2>2. early' = IF pc'[p] \in {"remove", "zombie"} /\ ~Entered(p) THEN early \cup {p} ELSE early
    BY <1>0, <2>1
  <2>3. \A u \in Slots : hasUser'[u] => hasUser[u]
    BY <2>1
  <2> QED
    BY <2>1, <2>2, <2>3, CountedMoves
<1> QED
  BY <1>1, <1>2

LEMMA CountedEnters ==
  ASSUME Parts, Parts', Own, Counted, Accept \/ Fork \/ EnterUser \/ EnterPid
  PROVE  Counted'
<1> USE DEF table, board, files, handler, cast, rest
<1>0. SharedOK /\ MasterOK /\ RestOK /\ RestOK' /\ early \in SUBSET Pids
  BY DEF Parts, RestOK
<1>1. CASE Accept
  <2>1. /\ mpc = "accept" /\ mpc' = "fork"
        /\ UNCHANGED <<hasUser, pid, pc, slot, early, sigchld>>
    BY <1>1 DEF Accept
  <2>2. overlaps' = 0 => overlaps = 0 /\ ~sigchld
    BY <1>1, AcceptFacts
  <2>3. calm' => calm
    BY <2>1, <2>2 DEF calm
  <2>4. Lost' = Lost /\ Owed = 0 /\ Owed' = 0
    BY <2>1 DEF Lost, Owed, Live
  <2>5. calm' => Due = 0 /\ Due' = 0
    BY <2>1, <2>2 DEF Due, calm
  <2>6. calm' => Balanced
    BY <2>1, <2>4, <2>5 DEF Balanced
  <2> QED
    BY <1>0, <2>1, <2>3, <2>6, CountedKept DEF Counted
<1>2. CASE Fork
  <2>1. /\ mpc = "fork" /\ mpc' = "user"
        /\ UNCHANGED <<hasUser, pid, early, sigchld, accepted>>
    BY <1>2 DEF Fork
  <2>2. /\ accepted \in Pids /\ pc[accepted] = "none" /\ pc'[accepted] = "fork"
        /\ \A q \in Pids \ {accepted} : pc'[q] = pc[q]
        /\ calm' => calm
        /\ Live' = Live \cup {accepted}
    BY <1>2, ForkFacts
  <2>3. accepted \notin early
    BY <2>2 DEF Counted
  <2>4. Lost' \subseteq Lost /\ Owed = 0 /\ Owed' = 0 /\ Due = 0 /\ Due' = 0
    BY <2>1, <2>2, <2>3 DEF Lost, Owed, Due
  <2>5. Balanced
    BY <2>1, <2>4 DEF Balanced
  <2>6. \A q \in early' : pc'[q] # "none"
    BY <1>0, <2>1, <2>2 DEF Counted
  <2> QED
    BY <1>0, <2>1, <2>2, <2>5, <2>6, CountedKept
<1>3. CASE EnterUser
  <2>1. /\ mpc = "user" /\ mpc' = "pid"
        /\ UNCHANGED <<pid, pc, slot, early, sigchld, accepted, ID, overlaps>>
        /\ \A u \in Slots \ {ID} : hasUser'[u] = hasUser[u]
    BY <1>0, <1>3 DEF EnterUser, SharedOK, MasterOK
  <2>2. Live' = Live /\ (calm' => calm)
    BY <2>1 DEF Live, calm
  <2>3. Lost' \subseteq Lost /\ Owed' = Owed /\ Due = 0 /\ Due' = 0
    BY <2>1, <2>2, SlotsProperties DEF Lost, Owed, Due
  <2>4. Owed' <= Owed
    BY <2>3 DEF Owed
  <2>5. Balanced
    BY <2>1, <2>3, <2>4 DEF Balanced
  <2> QED
    BY <1>0, <2>1, <2>2, <2>5, CountedKept DEF Counted
<1>4. CASE EnterPid
  <2>1. /\ mpc = "pid" /\ mpc' = "accept" /\ accepted \in Pids
        /\ UNCHANGED <<hasUser, pc, slot, early, sigchld, accepted, ID, overlaps>>
        /\ pid'[ID] = accepted /\ \A u \in Slots \ {ID} : pid'[u] = pid[u]
    BY <1>0, <1>4, RwgMultiAssumption DEF EnterPid, Known, SharedOK, MasterOK, Pids
  <2>2. Live' = Live /\ (calm' => calm)
    BY <2>1 DEF Live, calm
  <2>3. Due = 0 /\ Due <= Due' /\ Owed' = 0
    BY <2>1 DEF Due, Owed
  <2>4. Lost' \subseteq Lost \cup {ID} /\ (accepted \in Live => Lost' \subseteq Lost)
    BY <2>1, <2>2, SlotsProperties DEF Lost
  <2>5. ASSUME calm' PROVE Balanced
    <3>1. CASE accepted \in Live
      <4>1. Owed' <= Owed
        BY <2>3 DEF Owed
      <4> QED
        BY <2>1, <2>3, <2>4, <3>1, <4>1 DEF Balanced
    <3>2. CASE accepted \notin Live
      <4>1. Owed = 1
        BY <2>1, <2>2, <2>5, <3>2 DEF Counted, Owed
      <4>2. ID \in Users
        <5>1. slot[accepted] = ID
          BY <2>1 DEF Own
        <5> QED
          BY <2>1, <2>2, <2>5, <5>1 DEF calm
      <4> QED
        BY <2>1, <2>3, <2>4, <4>1, <4>2 DEF Balanced
    <3> QED
      BY <3>1, <3>2
  <2> QED
    BY <1>0, <2>1, <2>2, <2>5, CountedKept DEF Counted
<1> QED
  BY <1>1, <1>2, <1>3, <1>4

LEMMA CountedReap ==
  ASSUME Parts, Parts', Own, Solo, Agree, Counted, Reap
  PROVE  Counted'
<1>0. RestOK /\ RestOK' /\ MasterOK /\ early \in SUBSET Pids /\ \A u \in Users : u \in Slots
  BY SlotsProperties DEF Parts, RestOK
<1>1. /\ mpc # "down" /\ sigchld /\ ~sigchld'
      /\ UNCHANGED <<pid, mpc, ID, accepted, slot, early, overlaps>>
      /\ \A p \in Pids : pc'[p] = IF pc[p] = "zombie" THEN "gone" ELSE pc[p]
      /\ Live' = Live
      /\ \A u \in Slots : hasUser'[u] => hasUser[u]
      /\ Dead = {} => UNCHANGED <<hasUser, reaped>>
      /\ Dead # {} => Min(Dead) \in Dead /\ ~hasUser'[Min(Dead)]
  BY ReapFacts
<1>2. calm' => calm
  BY <1>1 DEF calm
<1>3. \A p \in early' : pc'[p] # "none"
  BY <1>0, <1>1 DEF Counted
<1>4. calm' /\ mpc' \in {"user", "pid"} /\ accepted' \notin Live' => accepted' \in early'
  BY <1>1, <1>2 DEF Counted
<1>5. Lost' \subseteq Lost
  BY <1>0, <1>1 DEF Lost
<1>6. ASSUME calm' PROVE Balanced
  <2>1. calm /\ mpc # "fork"
    BY <1>1, <1>2, <1>6 DEF Solo, calm
  <2>2. CASE mpc \in {"user", "pid"}
    <3>1. Due = 0 /\ Due' = 0 /\ Owed' = Owed
      BY <1>1, <2>2 DEF Due, Owed
    <3>2. Owed' <= Owed
      BY <3>1 DEF Owed
    <3> QED
      BY <1>1, <1>5, <3>1, <3>2 DEF Balanced
  <2>3. CASE mpc = "accept"
    <3>1. Due = 1 /\ Due' = 0 /\ Owed' = 0
      BY <1>1, <2>3 DEF Due, Owed
    <3>2. Lost \subseteq Dead
      <4> SUFFICES ASSUME NEW u \in Lost PROVE u \in Dead
        OBVIOUS
      <4>1. u \in Slots /\ u \in Online /\ hasUser[u] /\ pid[u] \notin Live
        BY <1>0 DEF Lost, Online
      <4>2. pid[u] \in Pids
        BY <1>1, <2>1, <2>3, <4>1 DEF Agree
      <4>3. pc[pid[u]] # "none" /\ pid[u] # 0
        BY <4>1, <4>2, RwgMultiAssumption DEF Own, Pids
      <4> QED
        BY <4>1, <4>2, <4>3 DEF Dead, Live
    <3>3. CASE Dead = {}
      <4>1. Lost' = {}
        BY <1>5, <3>2, <3>3
      <4> QED
        BY <1>1, <3>1, <4>1 DEF Balanced
    <3>4. CASE Dead # {}
      <4> DEFINE m == Min(Dead)
      <4>1. m \in Dead /\ ~hasUser'[m]
        BY <1>1, <3>4
      <4>2. m \in Lost
        BY <2>3, <4>1 DEF Lost, Dead, Online, Live
      <4>3. m \notin Lost'
        BY <4>1 DEF Lost
      <4> HIDE DEF m
      <4>4. Lost' \subseteq Lost \ {m}
        BY <1>5, <4>3
      <4> QED
        BY <1>1, <3>1, <4>2, <4>4 DEF Balanced
    <3> QED
      BY <3>3, <3>4
  <2> QED
    BY <1>0, <1>1, <2>1, <2>2, <2>3 DEF MasterOK
<1> QED
  BY <1>0, <1>1, <1>2, <1>3, <1>4, <1>6, CountedKept

LEMMA CountedStill ==
  ASSUME Parts, Parts', Counted, UNCHANGED <<pc, hasUser, pid, ID, accepted, slot, sigchld, early>>,
         calm' => calm, mpc' \in {mpc, "down"}
  PROVE  Counted'
<1>0. RestOK /\ RestOK'
  BY DEF Parts
<1>1. \A p \in early' : pc'[p] # "none"
  BY DEF Counted
<1>2. mpc' # "down" => mpc # "down" /\ Balanced
  <2>1. SUFFICES ASSUME mpc' = mpc PROVE Balanced
    OBVIOUS
  <2>2. Lost' = Lost /\ Owed' = Owed /\ Due' = Due
    BY <2>1 DEF Lost, Owed, Due, Live
  <2>3. Owed' <= Owed /\ Due <= Due'
    BY <2>2 DEF Owed, Due
  <2> QED
    BY <2>2, <2>3 DEF Balanced
<1>3. calm' /\ mpc' \in {"user", "pid"} /\ accepted' \notin Live' => accepted' \in early'
  BY DEF Counted, Live
<1> QED
  BY <1>0, <1>1, <1>2, <1>3, CountedKept

LEMMA CountedReapTell ==
  ASSUME Parts, Parts', Own, Solo, Counted, ReapTell
  PROVE  Counted'
<1>1. /\ mpc' \in {mpc, "down"}
      /\ UNCHANGED <<hasUser, pid, ID, accepted, slot, early, overlaps>>
      /\ \A q \in Pids : pc'[q] = "none" <=> pc[q] = "none"
      /\ overlaps = 0 => UNCHANGED <<pc, sigchld>>
  BY ReapTellFacts
<1>2. CASE overlaps # 0
  BY <1>1, <1>2 DEF Counted, calm, Parts, RestOK
<1>3. CASE overlaps = 0
  BY <1>1, <1>3, CountedStill DEF calm
<1> QED
  BY <1>2, <1>3

LEMMA CountedStep ==
  Parts /\ InLines /\ Parts' /\ Apart /\ Counted /\ [Next]_vars => Counted'
<1> SUFFICES ASSUME Parts, InLines, Parts', Apart, Counted, [Next]_vars PROVE Counted'
  OBVIOUS
<1>0. Own /\ Solo /\ Agree
  BY DEF Apart
<1>1. CASE Fork \/ EnterUser \/ EnterPid \/ Accept
  BY <1>0, <1>1, CountedEnters
<1>2. CASE Reap
  BY <1>0, <1>2, CountedReap
<1>3. CASE ReapTell
  BY <1>0, <1>3, CountedReapTell
<1>4. CASE ReapRemove \/ UNCHANGED vars \/ \E p \in Pids : Handle(p)
  <2>1. /\ UNCHANGED <<pc, hasUser, pid, ID, accepted, slot, sigchld, early, overlaps, mpc>>
    BY <1>4 DEF ReapRemove, Handle, vars, table, loop, rest
  <2> QED
    BY <2>1, CountedStill DEF calm
<1>5. ASSUME NEW p \in Pids, Cast(p) PROVE Counted'
  BY <1>0, <1>5, CountedCast
<1>6. ASSUME NEW p \in Pids, Session(p) \/ ReadLine(p) \/ HangUp(p), ~Handle(p), ~Cast(p)
      PROVE  Counted'
  <2>1. Steps(p)
    BY <1>6, SessionFacts DEF Session
  <2>2. \A u \in Slots : hasUser'[u] => hasUser[u]
    BY <2>1 DEF Steps, Enters, Parts, SharedOK
  <2> QED
    BY <1>0, <2>1, <2>2, CountedMoves DEF Steps, Enters
<1> QED
  BY <1>1, <1>2, <1>3, <1>4, <1>5, <1>6 DEF Next, Master, Client

LEMMA CountedAlways == Spec => []Counted
<1>1. Init => Counted
  <2> SUFFICES ASSUME Init PROVE Counted
    OBVIOUS
  <2>1. Lost = {} /\ Owed = 0 /\ Due = 0 /\ early = {} /\ mpc = "accept"
    BY SlotsProperties DEF Init, Lost, Owed, Due
  <2>2. Cardinality({}) = 0
    BY FS_EmptySet
  <2> QED
    BY <2>1, <2>2 DEF Counted
<1>2. Spec => [](Parts /\ InLines) /\ [](TypeOK /\ Apart)
  BY PartsAlways, ApartAlways
<1> QED
  BY <1>1, <1>2, CountedStep, PTL DEF Spec

\* And when all is over the table tells who is there, and holds no more slots
\* of those who are gone than there were sessions that ended before the master
\* had entered them.
THEOREM TableTrueHolds == Spec => []TableTrue
<1>1. Parts /\ Apart /\ Counted => TableTrue
  <2> SUFFICES ASSUME Parts, Apart, Counted, calm, Idle
               PROVE  /\ \A p \in Live : slot[p] \in Users =>
                           slot[p] \in Online /\ pid[slot[p]] = p
                      /\ Cardinality(Abandoned) <= Cardinality(early)
    BY DEF TableTrue
  <2>1. mpc = "accept" /\ ~sigchld /\ \A p \in Live : p \in Pids /\ pc[p] = "prompt"
    BY DEF Idle, Live, Resting
  <2>2. \A p \in Live : pid[slot[p]] = p /\ hasUser[slot[p]]
    BY <2>1 DEF Apart, Agree
  <2>3. Lost = Abandoned /\ Owed = 0 /\ Due = 0
    BY <2>1 DEF Lost, Abandoned, Online, Owed, Due
  <2>4. Cardinality(Abandoned) + 0 <= Cardinality(early) + 0
    BY <2>1, <2>3 DEF Counted
  <2>5. Cardinality(Abandoned) \in Nat /\ Cardinality(early) \in Nat
    BY SmallSets DEF Abandoned, Online, Parts, RestOK
  <2>6. Cardinality(Abandoned) <= Cardinality(early)
    BY <2>4, <2>5
  <2> QED
    BY <2>2, <2>6 DEF Online
<1>2. Spec => [](Parts /\ InLines) /\ [](TypeOK /\ Apart)
  BY PartsAlways, ApartAlways
<1> QED
  BY <1>1, <1>2, CountedAlways, PTL
-----------------------------------------------------------------------------
(* What the user pipes hold. *)

\* A program that may still write, and a line whose user pipes are checked or open.
Writes(p) ==
  /\ line[p].kind = "exec"
  /\ pc[p] \in {"run", "wait"} \/ (pc[p] = "cast" /\ next[p] = "run")
Checked(p) ==
  pc[p] \in {"receive", "rename", "send"} \/ (pc[p] = "cast" /\ next[p] = "send")
Held(p) ==
  pc[p] \in {"send", "run", "named", "wait"} \/ (pc[p] = "cast" /\ next[p] \in {"send", "run"})

\* Only what is being written is not whole.
Wholes ==
  overlaps = 0 =>
    /\ \A f \in Slots \X Slots : \A p \in Pids :
         /\ file[f] # NoFile /\ ~file[f].whole /\ file[f].by = p => Writes(p)
         /\ renamed[f] # NoFile /\ ~renamed[f].whole /\ renamed[f].by = p => Writes(p)
    /\ \A p \in Pids : userPipeIn[p] # NoFile => userPipeIn[p].whole

\* A user is there, or coming, or its user pipes are about to be removed.
There(u) ==
  \/ hasUser[u] \/ reaped = u \/ mpc = "down" \/ (mpc = "user" /\ u = ID)
  \/ \E p \in Pids : pc[p] = "remove" /\ slot[p] = u

\* A user pipe's ends are those who have the slots now.
FromTo(x, a, b) == x.by \in Holder(a) /\ x.for = Holder(b)
Theirs ==
  calm =>
    /\ \A a, b \in Slots : file[<<a, b>>] # NoFile =>
         /\ a \in Users /\ b \in Users /\ There(a) /\ There(b)
         /\ FromTo(file[<<a, b>>], a, b)
         /\ mpc = "fork" => a # ID /\ b # ID
    /\ \A p \in Pids :
         /\ Checked(p) /\ line[p].send # 0 => hasUser[line[p].send]
         /\ pc[p] = "rename" => file[FromPipe(p)] # NoFile
         /\ userPipeIn[p] # NoFile =>
              Held(p) /\ FromTo(userPipeIn[p], line[p].receive, slot[p])

\* What a session does with its user pipes in a step that leaves the files alone.
Uses(p) ==
  /\ \A q \in Pids \ {p} : userPipeIn'[q] = userPipeIn[q] /\ next'[q] = next[q]
  /\ \/ userPipeIn'[p] = NoFile
     \/ /\ userPipeIn'[p] = userPipeIn[p]
        /\ Held(p) => line'[p] = line[p] /\ Held(p)'
  /\ Checked(p)' =>
       line'[p] = line[p] /\ (Checked(p) \/ (line[p].send # 0 => hasUser[line[p].send]))
  /\ pc'[p] = "rename" => file[FromPipe(p)] # NoFile /\ line'[p] = line[p]
  /\ Writes(p) => Writes(p)'

LEMMA EndLineUses ==
  ASSUME Parts, NEW p \in Pids, EndLine(p), UNCHANGED next, ~Writes(p)
  PROVE  Uses(p)
BY DEF EndLine, GoTo, Uses, Parts, SessionsOK, FilesOK, Checked

LEMMA BroadcastUses ==
  ASSUME Parts, NEW p \in Pids, NEW for, NEW to, NEW then \in {"prompt", "leave"},
         Broadcast(p, for, to, then), Drop(p), ~Writes(p)
  PROVE  Uses(p)
<1>1. CastOK /\ SessionsOK /\ FilesOK
  BY DEF Parts
<1>2. /\ pc'[p] = "cast" /\ next'[p] = then
      /\ \A q \in Pids \ {p} : next'[q] = next[q]
  BY <1>1 DEF Broadcast, CastOK, SessionsOK
<1>3. userPipeIn'[p] = NoFile /\ \A q \in Pids \ {p} : userPipeIn'[q] = userPipeIn[q]
  BY <1>1 DEF Drop, FilesOK
<1> QED
  BY <1>2, <1>3 DEF Uses, Checked

LEMMA UsesFacts ==
  ASSUME Parts, InLines, NEW p \in Pids,
         \/ Install(p) \/ Login(p) \/ ReadLine(p) \/ HangUp(p)
         \/ Check(p) \/ Receive(p)
         \/ Quiet(p) \/ YellLine(p) \/ Tell(p) \/ Name(p) \/ Named(p)
         \/ Exit(p) \/ Leave(p) \/ Exec(p)
  PROVE  Uses(p) /\ UNCHANGED <<file, renamed>> /\ pc[p] # "remove"
<1> USE DEF table, board, files, loop, handler, cast, rest
<1>0. CastOK /\ SessionsOK /\ FilesOK
  BY DEF Parts
<1>a. ASSUME NEW place, GoTo(p, place)
      PROVE  pc'[p] = place
  BY <1>0, <1>a DEF GoTo, SessionsOK
<1>1. CASE Install(p)
  BY <1>1, <1>a DEF Install, Uses, Held, Checked, Writes
<1>2. CASE Login(p)
  <2>1. /\ pc[p] = "login" /\ pc'[p] = "cast" /\ next'[p] = "prompt"
        /\ \A q \in Pids \ {p} : next'[q] = next[q]
    BY <1>0, <1>2 DEF Login, Yell, Broadcast, CastOK, SessionsOK
  <2> QED
    BY <1>2, <2>1 DEF Login, Uses, Held, Checked, Writes
<1>3. CASE ReadLine(p)
  <2>1. pc[p] = "prompt" /\ pc'[p] \in {"check", "run"}
    BY <1>0, <1>3 DEF ReadLine, GoTo, SessionsOK
  <2> QED
    BY <1>3, <2>1 DEF ReadLine, Uses, Held, Checked, Writes
<1>4. CASE HangUp(p)
  BY <1>4, <1>a DEF HangUp, Die, Uses, Held, Checked, Writes
<1>5. CASE Check(p)
  <2>1. pc[p] = "check" /\ UNCHANGED <<file, renamed, next>>
    BY <1>5 DEF Check
  <2>2. CASE Absent(line[p].receive) \/ Absent(line[p].send)
    BY <1>5, <2>1, <2>2, EndLineUses DEF Check, Writes
  <2>3. CASE ~(Absent(line[p].receive) \/ Absent(line[p].send))
    <3>1. pc'[p] \in {"receive", "send"} /\ UNCHANGED <<line, userPipeIn>>
      BY <1>5, <1>a, <2>3 DEF Check
    <3>2. line[p].send # 0 => hasUser[line[p].send]
      BY <2>3 DEF Absent
    <3> QED
      BY <2>1, <3>1, <3>2 DEF Uses, Held, Checked, Writes
  <2> QED
    BY <2>2, <2>3
<1>6. CASE Receive(p)
  <2>1. pc[p] = "receive" /\ UNCHANGED <<file, renamed, next>>
    BY <1>6 DEF Receive
  <2>2. CASE file[FromPipe(p)] = NoFile
    BY <1>6, <2>1, <2>2, EndLineUses DEF Receive, Writes
  <2>3. CASE file[FromPipe(p)] # NoFile
    <3>1. pc'[p] = "rename" /\ UNCHANGED <<line, userPipeIn>>
      BY <1>6, <1>a, <2>3 DEF Receive
    <3> QED
      BY <2>1, <2>3, <3>1 DEF Uses, Held, Checked, Writes
  <2> QED
    BY <2>2, <2>3
<1>7. CASE Quiet(p)
  BY <1>7, EndLineUses DEF Quiet, Running, Writes
<1>8. CASE YellLine(p)
  BY <1>8, BroadcastUses DEF YellLine, Yell, Running, Writes
<1>9. CASE Tell(p)
  <2>1. ~Writes(p) /\ pc[p] = "run" /\ UNCHANGED <<file, renamed>>
    BY <1>9 DEF Tell, Running, Writes
  <2>2. CASE hasUser[line[p].to]
    BY <1>9, <2>1, <2>2, BroadcastUses DEF Tell
  <2>3. CASE ~hasUser[line[p].to]
    BY <1>9, <2>1, <2>3, EndLineUses DEF Tell
  <2> QED
    BY <2>1, <2>2, <2>3
<1>10. CASE Name(p)
  <2>1. ~Writes(p) /\ pc[p] = "run" /\ UNCHANGED <<file, renamed>>
    BY <1>10 DEF Name, Running, Writes
  <2>2. CASE Taken(p)
    BY <1>10, <2>1, <2>2, BroadcastUses DEF Name
  <2>3. CASE ~Taken(p)
    <3>1. pc'[p] = "named" /\ UNCHANGED <<line, userPipeIn, next>>
      BY <1>10, <1>a, <2>3 DEF Name
    <3> QED
      BY <2>1, <3>1 DEF Uses, Held, Checked
  <2> QED
    BY <2>1, <2>2, <2>3
<1>11. CASE Named(p)
  BY <1>11, BroadcastUses DEF Named, Yell, Writes
<1>12. CASE Exit(p)
  BY <1>12, BroadcastUses DEF Exit, Yell, Running, Writes
<1>13. CASE Leave(p)
  BY <1>13, <1>a DEF Leave, Uses, Held, Checked, Writes
<1>14. CASE Exec(p)
  BY <1>14, <1>a DEF Exec, Wait, Running, Uses, Held, Checked, Writes
<1> QED
  BY <1>1, <1>2, <1>3, <1>4, <1>5, <1>6, <1>7, <1>8, <1>9, <1>10, <1>11, <1>12, <1>13, <1>14

\* As long as no file is cut short, and a writer goes on until its file is whole.
Kept(x) ==
  \/ x = NoFile \/ x.whole
  \/ \E g \in Slots \X Slots : x = file[g] \/ x = renamed[g]

LEMMA WholesKept ==
  ASSUME Parts, Wholes, overlaps' = 0 => overlaps = 0,
         \A q \in Pids : Writes(q) => Writes(q)',
         \A f \in Slots \X Slots : Kept(file'[f]) /\ Kept(renamed'[f]),
         \A q \in Pids : overlaps' = 0 /\ userPipeIn'[q] # NoFile => userPipeIn'[q].whole
  PROVE  Wholes'
<1>1. ASSUME overlaps' = 0, NEW x, NEW q \in Pids, Kept(x), x # NoFile, ~x.whole, x.by = q
      PROVE  Writes(q)'
  <2>1. PICK g \in Slots \X Slots : x = file[g] \/ x = renamed[g]
    BY <1>1 DEF Kept
  <2>2. Writes(q)
    BY <1>1, <2>1 DEF Wholes
  <2> QED
    BY <2>2
<1> QED
  BY <1>1 DEF Wholes

\* A session's step that uses no user pipe.
LEMMA WholesAlone ==
  ASSUME Parts, Wholes, NEW p \in Pids, Moves(p), Uses(p), UNCHANGED <<file, renamed>>
  PROVE  Wholes'
<1>1. \A q \in Pids : Writes(q) => Writes(q)'
  BY DEF Moves, Uses, Writes
<1>2. overlaps' = 0 => overlaps = 0
  BY DEF Moves
<1>3. \A f \in Slots \X Slots : Kept(file'[f]) /\ Kept(renamed'[f])
  BY DEF Kept
<1>4. \A q \in Pids : overlaps' = 0 /\ userPipeIn'[q] # NoFile => userPipeIn'[q].whole
  BY <1>2 DEF Uses, Wholes
<1> QED
  BY <1>1, <1>2, <1>3, <1>4, WholesKept

\* The only thing a session may do to the table of who is there.
Yields(p) ==
  hasUser' = hasUser \/ (hasUser' = [hasUser EXCEPT ![slot[p]] = FALSE] /\ pc'[p] = "remove")

\* Who holds a slot changes only when one is forked.
LEMMA HolderStays ==
  ASSUME UNCHANGED slot, \A q \in Pids : pc'[q] = "none" <=> pc[q] = "none"
  PROVE  \A a : Holder(a)' = Holder(a)
BY DEF Holder

LEMMA EndsStay ==
  ASSUME UNCHANGED slot, \A q \in Pids : pc'[q] = "none" <=> pc[q] = "none"
  PROVE  \A x, a, b : FromTo(x, a, b)' <=> FromTo(x, a, b)
BY HolderStays DEF FromTo

LEMMA TheirsKept ==
  ASSUME Parts, Own, Solo, Theirs, NEW p \in Pids, Moves(p), Starts(p), Yields(p), Uses(p),
         UNCHANGED file, pc[p] # "remove"
  PROVE  Theirs'
<1>0. SharedOK /\ SessionsOK /\ FilesOK
  BY DEF Parts
<1> SUFFICES ASSUME calm' PROVE Theirs'
  BY DEF Theirs
<1>1. calm /\ overlaps = 0 /\ overlaps' = 0
  BY CalmBefore DEF Moves, calm
<1>2. \A q \in Pids \ {p} : pc'[q] = pc[q] /\ line'[q] = line[q]
  BY DEF Moves
<1>3. /\ UNCHANGED <<slot, ID, reaped>> /\ mpc' \in {mpc, "down"} /\ mpc' # "fork"
      /\ \A q \in Pids \ {p} : pc[q] \in Still
  BY <1>1, Turn DEF Moves
<1>4. \A x, a, b : FromTo(x, a, b)' <=> FromTo(x, a, b)
  <2>1. \A q \in Pids : pc'[q] = "none" <=> pc[q] = "none"
    BY DEF Moves
  <2> QED
    BY <1>3, <2>1, EndsStay
<1>7. \A u \in Slots : There(u) => There(u)'
  <2> SUFFICES ASSUME NEW u \in Slots, There(u) PROVE There(u)'
    OBVIOUS
  <2>1. CASE hasUser[u]
    <3>1. hasUser'[u] \/ (u = slot[p] /\ pc'[p] = "remove")
      BY <1>0, <2>1 DEF Yields, SharedOK
    <3> QED
      BY <1>3, <3>1 DEF There
  <2>2. CASE reaped = u \/ mpc = "down" \/ (mpc = "user" /\ u = ID)
    BY <1>3, <2>2 DEF There
  <2>3. ASSUME NEW q \in Pids, pc[q] = "remove", slot[q] = u PROVE There(u)'
    BY <1>2, <1>3, <2>3 DEF There
  <2> QED
    BY <2>1, <2>2, <2>3 DEF There
<1>5. \A q \in Pids \ {p} : Checked(q)' <=> Checked(q)
  BY <1>2 DEF Uses, Checked
<1>6. \A q \in Pids \ {p} : Held(q)' <=> Held(q)
  BY <1>2 DEF Uses, Held
<1>8. \A q \in Pids \ {p} : ~Checked(q)
  BY <1>3 DEF Still, Checked
<1>9. ASSUME NEW a \in Slots, NEW b \in Slots, file'[<<a, b>>] # NoFile
      PROVE  /\ a \in Users /\ b \in Users /\ There(a)' /\ There(b)'
             /\ FromTo(file[<<a, b>>], a, b)'
  <2>1. /\ a \in Users /\ b \in Users /\ There(a) /\ There(b)
        /\ FromTo(file[<<a, b>>], a, b)
    BY <1>1, <1>9 DEF Theirs
  <2> QED
    BY <1>4, <1>7, <2>1
<1>10. /\ Checked(p)' /\ line'[p].send # 0 => hasUser'[line'[p].send]
       /\ pc'[p] = "rename" => file'[FromPipe(p)'] # NoFile
  <2>1. Checked(p)' => line'[p] = line[p] /\ (line[p].send # 0 => hasUser[line[p].send])
    BY <1>1 DEF Uses, Theirs
  <2>2. Checked(p)' => hasUser' = hasUser
    BY DEF Yields, Checked
  <2>3. pc'[p] = "rename" => file'[FromPipe(p)'] # NoFile
    BY <1>3 DEF Uses, FromPipe
  <2> QED
    BY <2>1, <2>2, <2>3
<1>11. ASSUME userPipeIn'[p] # NoFile
       PROVE  /\ Held(p)'
              /\ FromTo(userPipeIn[p], line[p].receive, slot[p])'
  <2>1. userPipeIn'[p] = userPipeIn[p] /\ (Held(p) => line'[p] = line[p] /\ Held(p)')
    BY <1>11 DEF Uses
  <2>2. Held(p) /\ FromTo(userPipeIn[p], line[p].receive, slot[p])
    BY <1>1, <1>11, <2>1 DEF Theirs
  <2> QED
    BY <1>3, <1>4, <2>1, <2>2
<1>12. ASSUME NEW q \in Pids \ {p}
       PROVE  /\ ~Checked(q)' /\ pc'[q] # "rename"
              /\ userPipeIn'[q] # NoFile =>
                   Held(q)' /\ FromTo(userPipeIn[q], line[q].receive, slot[q])'
  <2>1. ~Checked(q)' /\ pc'[q] # "rename"
    BY <1>2, <1>5, <1>8 DEF Checked
  <2>2. userPipeIn'[q] = userPipeIn[q] /\ line'[q] = line[q] /\ slot'[q] = slot[q]
    BY <1>2, <1>3 DEF Uses
  <2>3. userPipeIn[q] # NoFile =>
          Held(q) /\ FromTo(userPipeIn[q], line[q].receive, slot[q])
    BY <1>1 DEF Theirs
  <2> QED
    BY <1>4, <1>6, <2>1, <2>2, <2>3
<1> QED
  BY <1>3, <1>9, <1>10, <1>11, <1>12 DEF Theirs

\* While one session is at work, the others' user pipes are what they were.
LEMMA OthersKeep ==
  ASSUME Parts, Own, Solo, Theirs, calm', NEW p \in Pids, Moves(p), pc[p] \notin Still,
         \A q \in Pids \ {p} :
           /\ next'[q] = next[q]
           /\ userPipeIn'[q] # NoFile =>
                /\ userPipeIn[q] # NoFile
                /\ userPipeIn'[q].for = userPipeIn[q].for
                /\ userPipeIn'[q].by = userPipeIn[q].by
  PROVE  /\ \A q \in Pids \ {p} :
              /\ ~Checked(q)' /\ pc'[q] # "rename"
              /\ userPipeIn'[q] # NoFile =>
                   Held(q)' /\ FromTo(userPipeIn[q], line[q].receive, slot[q])'
         /\ \A u : Holder(u)' = Holder(u)
         /\ mpc' # "fork"
<1>1. calm /\ overlaps = 0 /\ overlaps' = 0
  BY CalmBefore DEF Moves, calm
<1>2. /\ UNCHANGED slot /\ mpc' \in {mpc, "down"}
      /\ \A q \in Pids \ {p} : pc'[q] = pc[q] /\ line'[q] = line[q]
      /\ \A q \in Pids : pc'[q] = "none" <=> pc[q] = "none"
  BY DEF Moves
<1>3. /\ \A q \in Pids \ {p} : pc[q] \in Still
      /\ mpc # "fork"
  BY <1>1, Turn DEF Starts
<1>4. \A u : Holder(u)' = Holder(u)
  BY <1>2, HolderStays
<1>5. ASSUME NEW q \in Pids \ {p}
      PROVE  /\ ~Checked(q)' /\ pc'[q] # "rename"
             /\ userPipeIn'[q] # NoFile =>
                  Held(q)' /\ FromTo(userPipeIn[q], line[q].receive, slot[q])'
  <2>1. ~Checked(q)' /\ pc'[q] # "rename"
    BY <1>2, <1>3 DEF Checked, Still
  <2>2. userPipeIn[q] # NoFile =>
          Held(q) /\ FromTo(userPipeIn[q], line[q].receive, slot[q])
    BY <1>1 DEF Theirs
  <2>3. Held(q) => Held(q)'
    BY <1>2 DEF Held
  <2>4. line'[q] = line[q] /\ slot'[q] = slot[q]
    BY <1>2
  <2> QED
    BY <1>4, <2>1, <2>2, <2>3, <2>4 DEF FromTo
<1> QED
  BY <1>2, <1>3, <1>4, <1>5

\* A session at work holds its slot, and is there, or coming.
LEMMA AtWork ==
  ASSUME Parts, Own, Solo, Agree, calm, NEW p \in Pids, pc[p] = "send"
  PROVE  /\ slot[p] \in Users /\ p \in Holder(slot[p]) /\ There(slot[p])
         /\ \A u \in Slots : hasUser[u] => u \in Users
<1>1. overlaps = 0 /\ p \in Live /\ slot[p] \in Users
  BY DEF calm, Live
<1>2. p \in Holder(slot[p])
  BY <1>1, Holds
<1>3. There(slot[p])
  <2>1. CASE mpc = "down"
    BY <2>1 DEF There
  <2>2. CASE mpc \in {"user", "pid"} /\ p = accepted
    <3>1. slot[p] = ID
      BY <2>2 DEF Own
    <3> QED
      BY <1>1, <2>2, <3>1 DEF Agree, There
  <2>3. CASE mpc # "down" /\ ~(mpc \in {"user", "pid"} /\ p = accepted)
    BY <1>1, <2>3 DEF Agree, There
  <2> QED
    BY <2>1, <2>2, <2>3
<1> QED
  BY <1>1, <1>2, <1>3 DEF Agree

LEMMA RenamePipes ==
  ASSUME Parts, Parts', InLines, Own, Solo, Agree, Wholes, Theirs, NEW p \in Pids, Rename(p)
  PROVE  Wholes' /\ Theirs'
<1> USE DEF table, board, loop, handler, cast, rest
<1>0. SharedOK /\ SessionsOK /\ CastOK /\ FilesOK
  BY DEF Parts
<1> DEFINE f == FromPipe(p)
           opened == IF file[f] = NoFile THEN renamed[f] ELSE file[f]
<1>1. /\ pc[p] = "rename"
      /\ file' = [file EXCEPT ![f] = NoFile]
      /\ renamed' = [renamed EXCEPT ![f] = opened]
      /\ userPipeIn' = [userPipeIn EXCEPT ![p] = opened]
      /\ UNCHANGED <<hasUser, pid, mpc, ID, accepted, reaped, slot, line, overlaps>>
  BY DEF Rename
<1>2. Moves(p)
  BY SessionFacts DEF Steps
<1>3. /\ pc'[p] = "cast" /\ next'[p] = AfterReceive(p)
      /\ \A q \in Pids \ {p} : pc'[q] = pc[q] /\ next'[q] = next[q]
  BY <1>0 DEF Rename, Yell, Broadcast, SessionsOK, CastOK
<1>4. line[p].receive \in Slots /\ slot[p] \in Slots /\ f \in Slots \X Slots
  <2>1. line[p] \in Lines /\ line[p].receive # 0
    BY <1>0, <1>1 DEF SessionsOK, InLines, InLine, Reading
  <2> QED
    BY <1>0, <2>1, LineTypes, SlotsProperties DEF SessionsOK, FromPipe
<1> HIDE DEF f
<1>5. /\ file'[f] = NoFile /\ renamed'[f] = opened
      /\ \A g \in Slots \X Slots : g # f => file'[g] = file[g] /\ renamed'[g] = renamed[g]
      /\ userPipeIn'[p] = opened /\ \A q \in Pids \ {p} : userPipeIn'[q] = userPipeIn[q]
  BY <1>0, <1>1, <1>4 DEF FilesOK
<1>6. overlaps = 0 => \A q \in Pids : ~Writes(q)
  BY <1>1 DEF Solo, Still, Writes
<1>7. Wholes'
  <2>1. \A q \in Pids : Writes(q) => Writes(q)'
    BY <1>1, <1>3 DEF Writes
  <2>2. \A g \in Slots \X Slots : Kept(file'[g]) /\ Kept(renamed'[g])
    BY <1>4, <1>5 DEF Kept
  <2>3. overlaps = 0 => (opened # NoFile => opened.whole)
    <3>1. file[f] # NoFile => file[f].by \in Pids
      BY <1>0, <1>4 DEF FilesOK, File
    <3>2. renamed[f] # NoFile => renamed[f].by \in Pids
      BY <1>0, <1>4 DEF FilesOK, File
    <3> QED
      BY <1>4, <1>6, <3>1, <3>2 DEF Wholes
  <2>4. \A q \in Pids : overlaps' = 0 /\ userPipeIn'[q] # NoFile => userPipeIn'[q].whole
    BY <1>1, <1>5, <2>3 DEF Wholes
  <2> QED
    BY <1>1, <2>1, <2>2, <2>4, WholesKept
<1>8. Theirs'
  <2> SUFFICES ASSUME calm' PROVE Theirs'
    BY DEF Theirs
  <2>1. calm /\ overlaps = 0
    BY <1>1, CalmBefore DEF calm
  <2>3. /\ \A q \in Pids \ {p} :
             /\ ~Checked(q)' /\ pc'[q] # "rename"
             /\ userPipeIn'[q] # NoFile =>
                  Held(q)' /\ FromTo(userPipeIn[q], line[q].receive, slot[q])'
        /\ \A u : Holder(u)' = Holder(u)
        /\ mpc' # "fork"
    BY <1>1, <1>2, <1>3, <1>5, OthersKeep DEF Still
  <2>4. \A u \in Slots : There(u) => There(u)'
    BY <1>1, <1>3 DEF There
  <2>5. \A a, b \in Slots : file'[<<a, b>>] # NoFile =>
          file[<<a, b>>] # NoFile /\ file'[<<a, b>>] = file[<<a, b>>]
    BY <1>5
  <2>6. \A a, b \in Slots : file[<<a, b>>] # NoFile =>
          /\ a \in Users /\ b \in Users /\ There(a) /\ There(b)
          /\ FromTo(file[<<a, b>>], a, b)
    BY <2>1 DEF Theirs
  <2>7. FromTo(opened, line[p].receive, slot[p])
    <3>1. file[f] # NoFile /\ f = <<line[p].receive, slot[p]>>
      BY <1>1, <2>1 DEF Theirs, f, FromPipe
    <3> QED
      BY <1>4, <2>6, <3>1
  <2>8. Held(p)' /\ FromTo(userPipeIn[p], line[p].receive, slot[p])'
    BY <1>1, <1>3, <1>5, <2>3, <2>7 DEF Held, AfterReceive, FromTo
  <2>9. line[p].send # 0 => hasUser[line[p].send]
    BY <1>1, <2>1 DEF Theirs, Checked
  <2>10. ASSUME NEW a \in Slots, NEW b \in Slots, file'[<<a, b>>] # NoFile
         PROVE  /\ a \in Users /\ b \in Users /\ There(a)' /\ There(b)'
                /\ FromTo(file[<<a, b>>], a, b)'
    BY <2>3, <2>4, <2>5, <2>6, <2>10 DEF FromTo
  <2>11. pc'[p] # "rename" /\ (line'[p].send # 0 => hasUser'[line'[p].send])
    BY <1>1, <1>3, <2>9
  <2> QED
    BY <2>3, <2>8, <2>10, <2>11 DEF Theirs
<1> QED
  BY <1>7, <1>8

LEMMA SendPipes ==
  ASSUME Parts, Parts', InLines, Own, Solo, Agree, Wholes, Theirs, NEW p \in Pids, Send(p)
  PROVE  Wholes' /\ Theirs'
<1> USE DEF table, board, loop, handler, cast, rest
<1>0. SharedOK /\ SessionsOK /\ CastOK /\ FilesOK
  BY DEF Parts
<1>1. /\ pc[p] = "send"
      /\ UNCHANGED <<hasUser, pid, renamed, mpc, ID, accepted, reaped, slot, overlaps>>
  BY DEF Send
<1>2. Moves(p) /\ Starts(p) /\ Yields(p)
  BY SessionFacts DEF Steps, Enters, Yields
<1>3. CASE file[ToPipe(p)] # NoFile
  <2>1. EndLine(p) /\ UNCHANGED <<file, next>>
    BY <1>3 DEF Send
  <2>2. Uses(p)
    BY <1>1, <2>1, EndLineUses DEF Writes
  <2> QED
    BY <1>1, <1>2, <2>1, <2>2, WholesAlone, TheirsKept
<1>4. CASE file[ToPipe(p)] = NoFile
  <2> DEFINE f == ToPipe(p)
             new == [by |-> p, for |-> Holder(line[p].send), whole |-> line[p].kind # "exec"]
  <2>1. /\ file' = [file EXCEPT ![f] = new]
        /\ UNCHANGED <<line, userPipeIn>>
    BY <1>4 DEF Send
  <2>2. /\ pc'[p] = "cast" /\ next'[p] = "run"
        /\ \A q \in Pids \ {p} : pc'[q] = pc[q] /\ next'[q] = next[q]
    BY <1>0, <1>4 DEF Send, Yell, Broadcast, SessionsOK, CastOK
  <2>3. line[p].send \in Slots /\ slot[p] \in Slots /\ f \in Slots \X Slots
    <3>1. line[p] \in Lines /\ line[p].send # 0
      BY <1>0, <1>1 DEF SessionsOK, InLines, InLine, Reading
    <3> QED
      BY <1>0, <3>1, LineTypes, SlotsProperties DEF SessionsOK, ToPipe
  <2> HIDE DEF f, new
  <2>4. file'[f] = new /\ \A g \in Slots \X Slots : g # f => file'[g] = file[g]
    BY <1>0, <2>1, <2>3 DEF FilesOK
  <2>5. Wholes'
    <3>1. \A q \in Pids : Writes(q) => Writes(q)'
      BY <1>1, <2>1, <2>2 DEF Writes
    <3>2. ~new.whole => Writes(p)'
      BY <2>1, <2>2 DEF Writes, new
    <3>3. new.by = p
      BY DEF new
    <3> QED
      BY <1>1, <2>1, <2>4, <3>1, <3>2, <3>3 DEF Wholes
  <2>6. Theirs'
    <3> SUFFICES ASSUME calm' PROVE Theirs'
      BY DEF Theirs
    <3>1. calm /\ overlaps = 0
      BY <1>1, CalmBefore DEF calm
    <3>2. /\ slot[p] \in Users /\ p \in Holder(slot[p]) /\ There(slot[p])
          /\ \A u \in Slots : hasUser[u] => u \in Users
      BY <1>1, <3>1, AtWork
    <3>3. hasUser[line[p].send]
      BY <1>1, <2>3, <3>1, SlotsProperties, RwgMultiAssumption DEF Theirs, Checked, Slots
    <3>4. /\ \A q \in Pids \ {p} :
               /\ ~Checked(q)' /\ pc'[q] # "rename"
               /\ userPipeIn'[q] # NoFile =>
                    Held(q)' /\ FromTo(userPipeIn[q], line[q].receive, slot[q])'
          /\ \A u : Holder(u)' = Holder(u)
          /\ mpc' # "fork"
      BY <1>1, <1>2, <2>1, <2>2, OthersKeep DEF Still
    <3>5. \A u \in Slots : There(u) => There(u)'
      BY <1>1, <2>2 DEF There
    <3>6. ASSUME NEW a \in Slots, NEW b \in Slots, file'[<<a, b>>] # NoFile
          PROVE  /\ a \in Users /\ b \in Users /\ There(a)' /\ There(b)'
                 /\ FromTo(file[<<a, b>>], a, b)'
      <4>1. CASE <<a, b>> = f
        <5>1. a = slot[p] /\ b = line[p].send
          BY <4>1 DEF f, ToPipe
        <5>2. FromTo(new, a, b)
          BY <3>2, <5>1 DEF new, FromTo
        <5> QED
          BY <2>3, <2>4, <3>2, <3>3, <3>4, <3>5, <4>1, <5>1, <5>2 DEF There, FromTo
      <4>2. CASE <<a, b>> # f
        <5>1. file'[<<a, b>>] = file[<<a, b>>]
          BY <2>4, <4>2
        <5>2. /\ a \in Users /\ b \in Users /\ There(a) /\ There(b)
              /\ FromTo(file[<<a, b>>], a, b)
          BY <3>1, <3>6, <5>1 DEF Theirs
        <5> QED
          BY <3>4, <3>5, <5>1, <5>2 DEF FromTo
      <4> QED
        BY <4>1, <4>2
    <3>7. ~Checked(p)' /\ pc'[p] # "rename" /\ Held(p)'
      BY <2>2 DEF Checked, Held
    <3>8. userPipeIn'[p] # NoFile => FromTo(userPipeIn[p], line[p].receive, slot[p])'
      <4>1. userPipeIn[p] # NoFile => FromTo(userPipeIn[p], line[p].receive, slot[p])
        BY <3>1 DEF Theirs
      <4> QED
        BY <1>1, <2>1, <3>4, <4>1 DEF FromTo
    <3> QED
      BY <3>4, <3>6, <3>7, <3>8 DEF Theirs
  <2> QED
    BY <2>5, <2>6
<1> QED
  BY <1>3, <1>4

LEMMA RemovePipesPipes ==
  ASSUME Parts, Parts', InLines, Own, Solo, Agree, Wholes, Theirs, NEW p \in Pids, RemovePipes(p)
  PROVE  Wholes' /\ Theirs'
<1> USE DEF table, board, loop, handler, cast, rest
<1>0. SessionsOK /\ FilesOK
  BY DEF Parts
<1>1. /\ pc[p] = "remove"
      /\ UNCHANGED <<hasUser, pid, renamed, mpc, ID, reaped, slot, line, next, userPipeIn, overlaps>>
      /\ \A f \in Slots \X Slots : file'[f] = IF f \in Of(slot[p]) THEN NoFile ELSE file[f]
  BY DEF RemovePipes, Remove
<1>2. Moves(p)
  BY SessionFacts DEF Steps
<1>3. pc'[p] = "zombie" /\ \A q \in Pids \ {p} : pc'[q] = pc[q]
  BY <1>0 DEF RemovePipes, Die, GoTo, SessionsOK
<1>4. Wholes'
  <2>1. \A q \in Pids : Writes(q) => Writes(q)'
    BY <1>1, <1>3 DEF Writes
  <2>2. \A f \in Slots \X Slots : Kept(file'[f]) /\ Kept(renamed'[f])
    BY <1>1 DEF Kept
  <2>3. \A q \in Pids : overlaps' = 0 /\ userPipeIn'[q] # NoFile => userPipeIn'[q].whole
    BY <1>1 DEF Wholes
  <2> QED
    BY <1>1, <2>1, <2>2, <2>3, WholesKept
<1>5. Theirs'
  <2> SUFFICES ASSUME calm' PROVE Theirs'
    BY DEF Theirs
  <2>1. calm
    BY <1>1, CalmBefore
  <2>2. /\ \A q \in Pids \ {p} :
             /\ ~Checked(q)' /\ pc'[q] # "rename"
             /\ userPipeIn'[q] # NoFile =>
                  Held(q)' /\ FromTo(userPipeIn[q], line[q].receive, slot[q])'
        /\ \A u : Holder(u)' = Holder(u)
        /\ mpc' # "fork"
    BY <1>1, <1>2, OthersKeep DEF Still
  <2>3. userPipeIn'[p] = NoFile /\ ~Checked(p)'
    BY <1>1, <1>3, <2>1 DEF Theirs, Held, Checked
  <2>4. ASSUME NEW a \in Slots, NEW b \in Slots, file'[<<a, b>>] # NoFile
        PROVE  /\ a \in Users /\ b \in Users /\ There(a)' /\ There(b)'
               /\ FromTo(file[<<a, b>>], a, b)'
    <3>1. file'[<<a, b>>] = file[<<a, b>>] /\ <<a, b>> \notin Of(slot[p])
      BY <1>1, <2>4
    <3>2. /\ a \in Users /\ b \in Users /\ There(a) /\ There(b)
          /\ FromTo(file[<<a, b>>], a, b)
      BY <2>1, <2>4, <3>1 DEF Theirs
    <3>3. a # slot[p] /\ b # slot[p]
      BY <3>1, <3>2 DEF Of
    <3>4. There(a)' /\ There(b)'
      BY <1>1, <1>3, <3>2, <3>3 DEF There
    <3> QED
      BY <2>2, <3>1, <3>2, <3>4 DEF FromTo
  <2> QED
    BY <1>1, <1>3, <2>2, <2>3, <2>4 DEF Theirs
<1> QED
  BY <1>4, <1>5

LEMMA WholeFile ==
  ASSUME NEW p, NEW x \in File \cup {NoFile}
  PROVE  /\ Whole(p, x) = NoFile <=> x = NoFile
         /\ x # NoFile =>
              /\ Whole(p, x).by = x.by /\ Whole(p, x).for = x.for
              /\ x.whole \/ x.by = p => Whole(p, x).whole
              /\ x.by # p => Whole(p, x) = x
<1>1. x \in File => [x EXCEPT !.whole = TRUE] \in File
  BY DEF File
<1>2. NoFile \notin File
  BY RwgMultiAssumption
<1> QED
  BY <1>1, <1>2 DEF Whole, File

LEMMA FinishPipes ==
  ASSUME Parts, Parts', InLines, Own, Solo, Agree, Wholes, Theirs, NEW p \in Pids, Finish(p)
  PROVE  Wholes' /\ Theirs'
<1> USE DEF table, board, loop, handler, cast, rest
<1>0. SessionsOK /\ FilesOK /\ CastOK
  BY DEF Parts
<1>1. /\ pc[p] = "wait"
      /\ UNCHANGED <<hasUser, pid, mpc, ID, reaped, slot, next, overlaps>>
      /\ \A f \in Slots \X Slots :
           /\ file'[f] = Whole(p, file[f])
           /\ renamed'[f] = NoFile \/ renamed'[f] = Whole(p, renamed[f])
      /\ userPipeIn'[p] = NoFile
      /\ \A q \in Pids \ {p} : userPipeIn'[q] = Whole(p, userPipeIn[q])
  BY DEF Finish
<1>2. Moves(p)
  BY SessionFacts DEF Steps
<1>3. pc'[p] = "prompt" /\ \A q \in Pids \ {p} : pc'[q] = pc[q] /\ line'[q] = line[q]
  BY <1>0 DEF Finish, GoTo, SessionsOK
<1>4. \A f \in Slots \X Slots : file[f] \in File \cup {NoFile} /\ renamed[f] \in File \cup {NoFile}
  BY <1>0 DEF FilesOK
<1>5. \A q \in Pids : userPipeIn[q] \in File \cup {NoFile}
  BY <1>0 DEF FilesOK
<1>6. Wholes'
  <2> SUFFICES ASSUME overlaps = 0
               PROVE  /\ \A f \in Slots \X Slots : \A q \in Pids :
                           /\ file'[f] # NoFile /\ ~file'[f].whole /\ file'[f].by = q => Writes(q)'
                           /\ renamed'[f] # NoFile /\ ~renamed'[f].whole /\ renamed'[f].by = q
                                => Writes(q)'
                      /\ \A q \in Pids : userPipeIn'[q] # NoFile => userPipeIn'[q].whole
    BY <1>1 DEF Wholes
  <2>1. \A q \in Pids \ {p} : Writes(q) => Writes(q)'
    BY <1>1, <1>3 DEF Writes
  <2>2. ASSUME NEW x \in File \cup {NoFile}, NEW q \in Pids,
               Whole(p, x) # NoFile, ~Whole(p, x).whole, Whole(p, x).by = q
        PROVE  x # NoFile /\ ~x.whole /\ x.by = q /\ q # p
    BY <2>2, WholeFile
  <2>3. ASSUME NEW f \in Slots \X Slots, NEW q \in Pids,
               file'[f] # NoFile, ~file'[f].whole, file'[f].by = q
        PROVE  Writes(q)'
    <3>1. file[f] # NoFile /\ ~file[f].whole /\ file[f].by = q /\ q # p
      BY <1>1, <1>4, <2>2, <2>3
    <3> QED
      BY <2>1, <3>1 DEF Wholes
  <2>4. ASSUME NEW f \in Slots \X Slots, NEW q \in Pids,
               renamed'[f] # NoFile, ~renamed'[f].whole, renamed'[f].by = q
        PROVE  Writes(q)'
    <3>1. renamed'[f] = Whole(p, renamed[f])
      BY <1>1, <2>4
    <3>2. renamed[f] # NoFile /\ ~renamed[f].whole /\ renamed[f].by = q /\ q # p
      BY <1>4, <2>2, <2>4, <3>1
    <3> QED
      BY <2>1, <3>2 DEF Wholes
  <2>5. ASSUME NEW q \in Pids, userPipeIn'[q] # NoFile PROVE userPipeIn'[q].whole
    <3>1. q # p /\ userPipeIn'[q] = Whole(p, userPipeIn[q])
      BY <1>1, <2>5
    <3> QED
      BY <1>5, <2>5, <3>1, WholeFile DEF Wholes
  <2> QED
    BY <2>3, <2>4, <2>5
<1>7. Theirs'
  <2> SUFFICES ASSUME calm' PROVE Theirs'
    BY DEF Theirs
  <2>1. calm
    BY <1>1, CalmBefore
  <2>2. \A q \in Pids \ {p} :
          userPipeIn'[q] # NoFile =>
            /\ userPipeIn[q] # NoFile
            /\ userPipeIn'[q].for = userPipeIn[q].for
            /\ userPipeIn'[q].by = userPipeIn[q].by
    BY <1>1, <1>5, WholeFile
  <2>3. /\ \A q \in Pids \ {p} :
             /\ ~Checked(q)' /\ pc'[q] # "rename"
             /\ userPipeIn'[q] # NoFile =>
                  Held(q)' /\ FromTo(userPipeIn[q], line[q].receive, slot[q])'
        /\ \A u : Holder(u)' = Holder(u)
        /\ mpc' # "fork"
    BY <1>1, <1>2, <2>2, OthersKeep DEF Still
  <2>4. ASSUME NEW a \in Slots, NEW b \in Slots, file'[<<a, b>>] # NoFile
        PROVE  /\ a \in Users /\ b \in Users /\ There(a)' /\ There(b)'
               /\ FromTo(file[<<a, b>>], a, b)'
    <3>1. /\ file[<<a, b>>] # NoFile /\ file'[<<a, b>>].by = file[<<a, b>>].by
          /\ file'[<<a, b>>].for = file[<<a, b>>].for
      BY <1>1, <1>4, <2>4, WholeFile
    <3>2. /\ a \in Users /\ b \in Users /\ There(a) /\ There(b)
          /\ FromTo(file[<<a, b>>], a, b)
      BY <2>1, <3>1 DEF Theirs
    <3>3. There(a)' /\ There(b)'
      BY <1>1, <1>3, <3>2 DEF There
    <3> QED
      BY <2>3, <3>1, <3>2, <3>3 DEF FromTo
  <2>5. ~Checked(p)' /\ pc'[p] # "rename"
    BY <1>3 DEF Checked
  <2> QED
    BY <1>1, <2>3, <2>4, <2>5 DEF Theirs
<1> QED
  BY <1>6, <1>7

LEMMA CastPipes ==
  ASSUME Parts, Parts', InLines, Apart, Wholes, Theirs, NEW p \in Pids, Cast(p)
  PROVE  Wholes' /\ Theirs'
<1> USE DEF table, files, handler, rest
<1>0. SharedOK /\ SessionsOK /\ CastOK /\ MasterOK /\ p \in 0 .. M
  BY SlotsProperties DEF Parts
<1> DEFINE u == IF aim[p] = 0 THEN at[p] ELSE aim[p]
           over == aim[p] # 0 \/ at[p] = N
           pcs == [pc EXCEPT ![p] = IF over THEN next[p] ELSE "cast"]
<1>1. /\ pc[p] = "cast"
      /\ next' = [next EXCEPT ![p] = IF over THEN "prompt" ELSE next[p]]
      /\ aim' = [aim EXCEPT ![p] = IF over THEN 0 ELSE aim[p]]
      /\ Signal(pid[u], p, pcs) \/ (pc' = pcs /\ UNCHANGED <<pending, board, sigchld, mpc>>)
      /\ UNCHANGED <<hasUser, pid, file, renamed, ID, accepted, reaped, slot, line, userPipeIn, overlaps>>
  BY <1>0 DEF Cast, CastOK
<1>2. pcs \in [Pids -> State]
  BY <1>0 DEF SessionsOK, CastOK, State
<1>3. \A q \in Pids \ {p} : pcs[q] = pc[q] /\ next'[q] = next[q] /\ aim'[q] = aim[q]
  BY <1>0, <1>1 DEF SessionsOK, CastOK
<1>4. \/ pcs[p] = "cast" /\ next'[p] = next[p]
      \/ pcs[p] = next[p]
  BY <1>0, <1>1 DEF SessionsOK, CastOK
<1>5. next[p] \in {"prompt", "leave", "send", "run"}
  BY <1>1 DEF InLines, InLine
<1> HIDE DEF u, over, pcs
<1>6. CASE overlaps # 0
  BY <1>1, <1>6 DEF Wholes, Theirs, calm
<1>7. CASE overlaps = 0
  <2>1. \A q \in Pids : pc[q] # "fork"
    BY <1>1, <1>7 DEF Apart, Solo, Still
  <2>2. pc' = pcs /\ sigchld' = sigchld /\ (mpc' = mpc \/ mpc' = "down")
    BY <1>0, <1>1, <1>2, <2>1, SignalReaches
  <2>3. Moves(p) /\ Starts(p) /\ Yields(p)
    BY <1>1, <1>3, <1>4, <1>5, <2>1, <2>2 DEF Moves, Starts, Yields, Still
  <2>4. Uses(p)
    BY <1>1, <1>3, <1>4, <1>5, <2>2 DEF Uses, Held, Checked, Writes
  <2> QED
    BY <1>1, <2>3, <2>4, WholesAlone, TheirsKept DEF Apart
<1> QED
  BY <1>6, <1>7

\* Nothing is taken away that a user pipe depends on.
Settled(u) == There(u) /\ ~(mpc = "fork" /\ u = ID)

LEMMA TheirsStays ==
  ASSUME Parts, InLines, Theirs, calm' => calm, UNCHANGED <<file, line, userPipeIn>>,
         \A u \in Users : calm' /\ Settled(u) => Settled(u)' /\ Holder(u)' = Holder(u),
         \A q \in Pids : calm' =>
           /\ Checked(q)' => Checked(q) /\ \A u \in Slots : hasUser[u] => hasUser'[u]
           /\ pc'[q] = "rename" => pc[q] = "rename" /\ slot'[q] = slot[q]
           /\ Held(q) => /\ Held(q)' /\ slot'[q] = slot[q]
                         /\ \A x, a, b : FromTo(x, a, b) => FromTo(x, a, b)'
  PROVE  Theirs'
<1> SUFFICES ASSUME calm' PROVE Theirs'
  BY DEF Theirs
<1>1. calm
  OBVIOUS
<1>2. ASSUME NEW a \in Slots, NEW b \in Slots, file'[<<a, b>>] # NoFile
      PROVE  /\ a \in Users /\ b \in Users /\ There(a)' /\ There(b)'
             /\ FromTo(file[<<a, b>>], a, b)'
             /\ mpc' = "fork" => a # ID' /\ b # ID'
  <2>1. /\ a \in Users /\ b \in Users /\ Settled(a) /\ Settled(b)
        /\ FromTo(file[<<a, b>>], a, b)
    BY <1>1, <1>2 DEF Theirs, Settled
  <2>2. /\ Settled(a)' /\ Holder(a)' = Holder(a)
        /\ Settled(b)' /\ Holder(b)' = Holder(b)
    BY <2>1
  <2> QED
    BY <2>1, <2>2 DEF Settled, FromTo
<1>3. ASSUME NEW q \in Pids
      PROVE  /\ Checked(q)' /\ line'[q].send # 0 => hasUser'[line'[q].send]
             /\ pc'[q] = "rename" => file'[FromPipe(q)'] # NoFile
  <2>1. pc'[q] = "rename" => FromPipe(q)' = FromPipe(q)
    BY DEF FromPipe
  <2>2. ASSUME Checked(q)', line[q].send # 0 PROVE hasUser'[line[q].send]
    <3>1. Checked(q) /\ hasUser[line[q].send]
      BY <1>1, <2>2 DEF Theirs
    <3>2. line[q] \in Lines
      <4>1. SessionsOK /\ CastOK
        BY DEF Parts
      <4> QED
        BY <3>1, <4>1 DEF SessionsOK, InLines, InLine, Checked, Reading
    <3> QED
      BY <2>2, <3>1, <3>2, LineTypes, SlotsProperties
  <2> QED
    BY <1>1, <2>1, <2>2 DEF Theirs
<1>4. ASSUME NEW q \in Pids, userPipeIn'[q] # NoFile
      PROVE  Held(q)' /\ FromTo(userPipeIn[q], line[q].receive, slot[q])'
  <2>1. Held(q) /\ FromTo(userPipeIn[q], line[q].receive, slot[q])
    BY <1>1, <1>4 DEF Theirs
  <2>2. Held(q)' /\ slot'[q] = slot[q] /\ \A x, a, b : FromTo(x, a, b) => FromTo(x, a, b)'
    BY <2>1
  <2> QED
    BY <2>1, <2>2
<1> QED
  BY <1>2, <1>3, <1>4 DEF Theirs

\* Nor from a file or its writer.
LEMMA WholesStays ==
  ASSUME Parts, Wholes, overlaps' = 0 => overlaps = 0, UNCHANGED <<line, next, renamed, userPipeIn>>,
         \A f \in Slots \X Slots : file'[f] = file[f] \/ file'[f] = NoFile,
         \A q \in Pids : pc[q] \in {"run", "wait", "cast"} => pc'[q] = pc[q]
  PROVE  Wholes'
<1>1. \A q \in Pids : Writes(q) => Writes(q)'
  BY DEF Writes
<1>2. \A f \in Slots \X Slots : Kept(file'[f]) /\ Kept(renamed'[f])
  BY DEF Kept
<1>3. \A q \in Pids : overlaps' = 0 /\ userPipeIn'[q] # NoFile => userPipeIn'[q].whole
  BY DEF Wholes
<1> QED
  BY <1>1, <1>2, <1>3, WholesKept

\* A step of the master, or a message handled: what the sessions hold is theirs.
LEMMA TheirsLeft ==
  ASSUME Parts, InLines, Theirs, overlaps' = 0 => overlaps = 0,
         UNCHANGED <<file, line, userPipeIn, slot, next>>,
         \A q \in Pids : overlaps' = 0 => pc'[q] = pc[q],
         \A u \in Slots : hasUser[u] => hasUser'[u],
         \A u \in Users : calm' /\ Settled(u) => Settled(u)'
  PROVE  Theirs'
<1>1. calm' => calm
  BY DEF calm
<1>2. ASSUME calm'
      PROVE  /\ \A q \in Pids : pc'[q] = pc[q]
             /\ \A u : Holder(u)' = Holder(u)
             /\ \A x, a, b : FromTo(x, a, b) => FromTo(x, a, b)'
  <2>1. \A q \in Pids : pc'[q] = pc[q]
    BY <1>2 DEF calm
  <2> QED
    BY <2>1, HolderStays, EndsStay
<1>3. \A q \in Pids : calm' =>
        /\ Checked(q)' => Checked(q)
        /\ Held(q) => Held(q)'
  BY <1>2 DEF Checked, Held
<1> QED
  BY <1>1, <1>2, <1>3, TheirsStays

\* While the master forks or clears up no session is at work, and no user pipe
\* is open.
LEMMA NoneAtWork ==
  ASSUME Solo, Theirs, calm, mpc = "fork" \/ (mpc # "down" /\ (reaped # 0 \/ sigchld))
  PROVE  \A q \in Pids : ~Checked(q) /\ ~Held(q) /\ pc[q] # "rename"
BY DEF Solo, Checked, Held, Still, calm

LEMMA HandlePipes ==
  ASSUME Parts, InLines, Wholes, Theirs, NEW p \in Pids, Handle(p)
  PROVE  Wholes' /\ Theirs'
<1> USE DEF table, files, loop, handler, cast, rest
<1>1. UNCHANGED <<hasUser, pid, file, renamed, mpc, ID, reaped, pc, slot, line, next, userPipeIn, overlaps>>
  BY DEF Handle
<1>2. Wholes'
  BY <1>1, WholesStays
<1>3. Theirs'
  BY <1>1, TheirsLeft DEF Settled, There
<1> QED
  BY <1>2, <1>3

LEMMA AcceptPipes ==
  ASSUME Parts, InLines, Own, Wholes, Theirs, Accept
  PROVE  Wholes' /\ Theirs'
<1> USE DEF table, board, files, handler, cast
<1>1. /\ mpc = "accept" /\ ID' = NewID /\ reaped = 0
      /\ UNCHANGED <<hasUser, pid, file, renamed, reaped, pc, slot, line, next, userPipeIn>>
  BY DEF Accept
<1>2. overlaps' = 0 => overlaps = 0 /\ \A q \in Pids : pc[q] \in Still
  BY AcceptFacts
<1>3. Wholes'
  BY <1>1, <1>2, WholesStays
<1>4. calm' => calm /\ \A q \in Pids : pc[q] \in Still
  BY <1>1, <1>2 DEF calm
<1>5. ASSUME NEW u \in Users, calm', Settled(u)
      PROVE  Settled(u)'
  <2>1. hasUser[u]
    BY <1>1, <1>4, <1>5, RwgMultiAssumption DEF Settled, There, Still, Users
  <2>2. u # NewID
    <3>1. CASE Free = {}
      BY <3>1, RwgMultiAssumption DEF NewID, Users
    <3>2. CASE Free # {}
      BY <2>1, <3>2, FirstSlot DEF NewID, Free
    <3> QED
      BY <3>1, <3>2
  <2> QED
    BY <1>1, <2>1, <2>2 DEF Settled, There
<1>6. Theirs'
  BY <1>1, <1>2, <1>5, TheirsLeft
<1> QED
  BY <1>3, <1>6

LEMMA ForkPipes ==
  ASSUME Parts, InLines, Own, Solo, Wholes, Theirs, Fork
  PROVE  Wholes' /\ Theirs'
<1> USE DEF table, board, files, handler, cast, rest
<1>1. /\ mpc = "fork" /\ mpc' = "user"
      /\ UNCHANGED <<hasUser, pid, file, renamed, ID, accepted, reaped, line, next,
                     userPipeIn, overlaps>>
  BY DEF Fork
<1>2. /\ accepted \in Pids /\ pc[accepted] = "none" /\ pc'[accepted] = "fork"
      /\ \A q \in Pids \ {accepted} : pc'[q] = pc[q] /\ slot'[q] = slot[q]
      /\ calm' => calm
      /\ \A u \in Slots : u # ID => Holder(u)' = Holder(u)
  BY ForkFacts
<1>3. Wholes'
  <2>1. \A q \in Pids : pc[q] \in {"run", "wait", "cast"} => pc'[q] = pc[q]
    BY <1>2
  <2> QED
    BY <1>1, <2>1, WholesStays
<1>4. calm' => \A q \in Pids : ~Checked(q) /\ ~Held(q) /\ pc[q] # "rename"
  BY <1>1, <1>2, NoneAtWork
<1>5. \A q \in Pids : calm' => ~Checked(q)' /\ pc'[q] # "rename"
  BY <1>1, <1>2, <1>4 DEF Checked
<1>6. \A u \in Users : calm' /\ Settled(u) => Settled(u)' /\ Holder(u)' = Holder(u)
  BY <1>1, <1>2, SlotsProperties DEF Settled, There
<1>7. Theirs'
  BY <1>1, <1>2, <1>4, <1>5, <1>6, TheirsStays
<1> QED
  BY <1>3, <1>7

LEMMA EnterPipes ==
  ASSUME Parts, InLines, Wholes, Theirs, EnterUser \/ EnterPid
  PROVE  Wholes' /\ Theirs'
<1> USE DEF board, files, handler, cast, rest
<1>0. SharedOK /\ MasterOK
  BY DEF Parts
<1>1. /\ mpc \in {"user", "pid"} /\ mpc' \in {"pid", "accept"}
      /\ UNCHANGED <<file, renamed, ID, reaped, pc, slot, line, next, userPipeIn, overlaps>>
      /\ \A u \in Slots : hasUser[u] => hasUser'[u]
      /\ mpc = "user" => hasUser'[ID]
  BY <1>0 DEF EnterUser, EnterPid, SharedOK, MasterOK
<1>2. Wholes'
  BY <1>1, WholesStays
<1>3. \A u \in Users : Settled(u) => Settled(u)'
  BY <1>1, SlotsProperties DEF Settled, There
<1>4. Theirs'
  BY <1>1, <1>3, TheirsLeft
<1> QED
  BY <1>2, <1>4

LEMMA ReapPipes ==
  ASSUME Parts, InLines, Solo, Wholes, Theirs, Reap
  PROVE  Wholes' /\ Theirs'
<1>1. /\ mpc # "down" /\ sigchld /\ reaped = 0
      /\ UNCHANGED <<file, renamed, mpc, ID, slot, line, next, userPipeIn, overlaps>>
      /\ \A q \in Pids : pc'[q] = IF pc[q] = "zombie" THEN "gone" ELSE pc[q]
      /\ \A u \in Slots : hasUser[u] /\ ~hasUser'[u] => u = Min(Dead) /\ u \in Dead
      /\ Dead # {} => reaped' = Min(Dead)
  BY ReapFacts
<1>2. Wholes'
  BY <1>1, WholesStays
<1>3. (calm' => calm) /\ \A q \in Pids : pc'[q] = "none" <=> pc[q] = "none"
  BY <1>1 DEF calm
<1>4. calm => \A q \in Pids : ~Checked(q) /\ ~Held(q) /\ pc[q] # "rename"
  BY <1>1, NoneAtWork
<1>5. \A q \in Pids : (Checked(q)' => Checked(q)) /\ (pc'[q] = "rename" => pc[q] = "rename")
  BY <1>1 DEF Checked
<1>6. ASSUME NEW u \in Users, Settled(u) PROVE Settled(u)'
  <2>1. u \in Slots /\ u # 0
    BY SlotsProperties, RwgMultiAssumption DEF Slots
  <2>2. CASE hasUser[u]
    BY <1>1, <1>6, <2>1, <2>2 DEF Settled, There
  <2>3. CASE ~hasUser[u]
    BY <1>1, <1>6, <2>1, <2>3 DEF Settled, There
  <2> QED
    BY <2>2, <2>3
<1>7. \A u : Holder(u)' = Holder(u)
  BY <1>1, <1>3, HolderStays
<1>8. Theirs'
  BY <1>1, <1>3, <1>4, <1>5, <1>6, <1>7, TheirsStays
<1> QED
  BY <1>2, <1>8

LEMMA ReapTellPipes ==
  ASSUME Parts, InLines, Own, Solo, Wholes, Theirs, ReapTell
  PROVE  Wholes' /\ Theirs'
<1>1. /\ mpc # "down" /\ reaped # 0 /\ mpc' \in {mpc, "down"}
      /\ UNCHANGED <<hasUser, file, renamed, ID, reaped, slot, line, next, userPipeIn, overlaps>>
      /\ overlaps = 0 => UNCHANGED pc
  BY ReapTellFacts
<1>2. CASE overlaps # 0
  BY <1>1, <1>2 DEF Wholes, Theirs, calm
<1>3. CASE overlaps = 0
  <2>1. pc' = pc
    BY <1>1, <1>3
  <2>2. Wholes'
    BY <1>1, <2>1, WholesStays
  <2>3. \A u \in Users : Settled(u) => Settled(u)'
    BY <1>1, <2>1 DEF Settled, There
  <2>4. Theirs'
    BY <1>1, <2>1, <2>3, TheirsLeft
  <2> QED
    BY <2>2, <2>4
<1> QED
  BY <1>2, <1>3

LEMMA ReapRemovePipes ==
  ASSUME Parts, InLines, Solo, Wholes, Theirs, ReapRemove
  PROVE  Wholes' /\ Theirs'
<1> USE DEF table, board, loop, cast, rest
<1>1. /\ mpc # "down" /\ reaped # 0 /\ reaped' = 0
      /\ UNCHANGED <<hasUser, pid, renamed, mpc, ID, pc, slot, line, next, userPipeIn, overlaps>>
      /\ \A f \in Slots \X Slots : file'[f] = IF f \in Of(reaped) THEN NoFile ELSE file[f]
  BY DEF ReapRemove, Remove
<1>2. Wholes'
  BY <1>1, WholesStays
<1>3. Theirs'
  <2> SUFFICES ASSUME calm' PROVE Theirs'
    BY DEF Theirs
  <2>1. calm
    BY <1>1 DEF calm
  <2>2. \A q \in Pids : ~Checked(q)' /\ pc'[q] # "rename" /\ userPipeIn'[q] = NoFile
    <3>1. \A q \in Pids : ~Checked(q) /\ ~Held(q) /\ pc[q] # "rename"
      BY <1>1, <2>1, NoneAtWork
    <3>2. \A q \in Pids : userPipeIn[q] = NoFile
      BY <2>1, <3>1 DEF Theirs
    <3> QED
      BY <1>1, <3>1, <3>2 DEF Checked
  <2>3. ASSUME NEW a \in Slots, NEW b \in Slots, file'[<<a, b>>] # NoFile
        PROVE  /\ a \in Users /\ b \in Users /\ There(a)' /\ There(b)'
               /\ FromTo(file[<<a, b>>], a, b)'
               /\ mpc = "fork" => a # ID /\ b # ID
    <3>1. file'[<<a, b>>] = file[<<a, b>>] /\ <<a, b>> \notin Of(reaped)
      BY <1>1, <2>3
    <3>2. /\ a \in Users /\ b \in Users /\ There(a) /\ There(b)
          /\ FromTo(file[<<a, b>>], a, b)
          /\ mpc = "fork" => a # ID /\ b # ID
      BY <2>1, <2>3, <3>1 DEF Theirs
    <3>3. a # reaped /\ b # reaped
      BY <3>1, <3>2 DEF Of
    <3>4. There(a)' /\ There(b)'
      BY <1>1, <3>2, <3>3 DEF There
    <3>5. \A x : FromTo(x, a, b)' <=> FromTo(x, a, b)
      BY <1>1, EndsStay
    <3> QED
      BY <3>1, <3>2, <3>4, <3>5
  <2> QED
    BY <1>1, <2>2, <2>3 DEF Theirs
<1> QED
  BY <1>2, <1>3

LEMMA PipesStep ==
  Parts /\ InLines /\ Parts' /\ Apart /\ Wholes /\ Theirs /\ [Next]_vars => Wholes' /\ Theirs'
<1> SUFFICES ASSUME Parts, InLines, Parts', Apart, Wholes, Theirs, [Next]_vars
             PROVE  Wholes' /\ Theirs'
  OBVIOUS
<1>0. Own /\ Solo /\ Agree
  BY DEF Apart
<1>1. CASE Master
  BY <1>0, <1>1, ForkPipes, EnterPipes, ReapPipes, ReapTellPipes, ReapRemovePipes DEF Master
<1>2. ASSUME NEW p \in Pids, Session(p) \/ ReadLine(p) \/ HangUp(p)
      PROVE  Wholes' /\ Theirs'
  <2>1. CASE Handle(p)
    BY <2>1, HandlePipes
  <2>2. CASE Cast(p)
    BY <2>2, CastPipes
  <2>3. CASE Rename(p) \/ Send(p) \/ RemovePipes(p) \/ Finish(p)
    BY <1>0, <2>3, RenamePipes, SendPipes, RemovePipesPipes, FinishPipes
  <2>4. CASE ~Handle(p) /\ ~Cast(p) /\ ~(Rename(p) \/ Send(p) \/ RemovePipes(p) \/ Finish(p))
    <3>1. Moves(p) /\ Starts(p) /\ Yields(p)
      BY <1>2, <2>4, SessionFacts DEF Session, Steps, Enters, Yields
    <3>2. Uses(p) /\ UNCHANGED <<file, renamed>> /\ pc[p] # "remove"
      BY <1>2, <2>4, UsesFacts DEF Session
    <3> QED
      BY <1>0, <3>1, <3>2, WholesAlone, TheirsKept
  <2> QED
    BY <2>1, <2>2, <2>3, <2>4
<1>3. CASE Accept
  BY <1>0, <1>3, AcceptPipes
<1>4. CASE UNCHANGED vars
  <2>1. UNCHANGED <<hasUser, pid, file, renamed, mpc, ID, reaped, pc, slot, line, next,
                    userPipeIn, overlaps>>
    BY <1>4 DEF vars, table, files, loop, handler, cast, rest
  <2>2. Wholes'
    BY <2>1, WholesStays
  <2>3. \A u \in Users : Settled(u) => Settled(u)'
    BY <2>1 DEF Settled, There
  <2>4. Theirs'
    BY <2>1, <2>3, TheirsLeft
  <2> QED
    BY <2>2, <2>4
<1> QED
  BY <1>1, <1>2, <1>3, <1>4 DEF Next, Client

LEMMA PipesAlways == Spec => [](Wholes /\ Theirs)
<1>1. Init => Wholes /\ Theirs
  BY DEF Init, Wholes, Theirs, Checked, Held
<1>2. Spec => [](Parts /\ InLines) /\ [](TypeOK /\ Apart)
  BY PartsAlways, ApartAlways
<1> QED
  BY <1>1, <1>2, PipesStep, PTL DEF Spec

\* Then a program that reads a user pipe reads all of it.
THEOREM PipeWholeHolds == Spec => []PipeWhole
<1>1. Wholes => PipeWhole
  BY DEF Wholes, PipeWhole, Reads, calm
<1> QED
  BY <1>1, PipesAlways, PTL

\* And what it reads is for its own user, from the one who is there now.
THEOREM OwnPipesHolds == Spec => []OwnPipes
<1>1. Parts /\ Apart /\ Theirs => OwnPipes
  <2> SUFFICES ASSUME Parts, Apart, Theirs, calm, NEW p \in Pids, Reads(p)
               PROVE  p \in userPipeIn[p].for /\ userPipeIn[p].by \in Holder(line[p].receive)
    BY DEF OwnPipes
  <2>1. p \in Live /\ FromTo(userPipeIn[p], line[p].receive, slot[p])
    BY DEF Theirs, Reads, Live
  <2>2. p \in Holder(slot[p])
    BY <2>1, Holds DEF Apart
  <2> QED
    BY <2>1, <2>2 DEF FromTo
<1> QED
  BY <1>1, PartsAlways, ApartAlways, PipesAlways, PTL
-----------------------------------------------------------------------------
(* No message is missed, whatever overlaps. *)

\* Whom of its audience the message in the slot has come to: the master's loop,
\* or that of the session who wrote it, has passed the slot.
Passed(p) ==
  /\ msg.by = 0 => reaped = 0 \/ slot[p] <= told
  /\ msg.by # 0 => pc[msg.by] # "cast" \/ (aim[msg.by] = 0 /\ slot[p] < at[msg.by])
Aimed(p) ==
  msg.by # 0 /\ pc[msg.by] = "cast" /\ aim[msg.by] # 0 => aim[msg.by] = slot[p]
Heard ==
  mpc # "down" =>
    \A p \in audience \cap Here : (Passed(p) => p \in seen \cup pending) /\ Aimed(p)

\* And the connection that is being entered is not in it.
Entering == {"fork", "user", "pid"}
Newest ==
  /\ \A u \in Slots : pid[u] <= accepted /\ (mpc \in Entering => pid[u] # accepted)
  /\ \A p \in audience : p <= accepted /\ (mpc \in Entering => p # accepted)

\* A session's step, as the others hear it.
Voice(p) ==
  /\ UNCHANGED <<pid, slot, mpc, ID, accepted, reaped, told>>
  /\ pc[p] \notin {"none", "gone", "zombie"}
  /\ \A q \in Pids \ {p} : pc'[q] = pc[q] /\ at'[q] = at[q] /\ aim'[q] = aim[q]
  /\ \A u \in Slots : hasUser'[u] => hasUser[u]
  /\ pending' = pending \/ (pending' = pending \ {p} /\ pc'[p] = "zombie")
Silent(p) == pc[p] # "cast" /\ pc'[p] # "cast" /\ UNCHANGED board
Says(p) ==
  \E for \in SUBSET Pids, to \in 0 .. N + 1, then \in State :
    /\ Broadcast(p, for, to, then)
    /\ \A q \in for : to # 0 => slot[q] = to

LEMMA NewestKept ==
  ASSUME Newest, UNCHANGED <<pid, accepted>>, mpc' \in {mpc, "down"},
         audience' \subseteq audience \cup {pid[u] : u \in Slots}
  PROVE  Newest'
<1>1. "down" \notin Entering
  BY DEF Entering
<1> QED
  BY <1>1 DEF Newest

LEMMA SilentHeard ==
  ASSUME Parts, Heard, Newest, NEW p \in Pids, Voice(p), Silent(p)
  PROVE  Heard' /\ Newest'
<1> USE DEF board
<1>1. BoardOK /\ UNCHANGED <<msg, seen, audience>>
  BY DEF Parts, Silent
<1>2. Newest'
  BY <1>1, NewestKept DEF Voice
<1>3. ASSUME mpc' # "down", NEW q \in audience', q \in Here'
      PROVE  (Passed(q)' => q \in (seen \cup pending)') /\ Aimed(q)'
  <2>1. q \in Pids /\ q \in audience
    BY <1>1, <1>3 DEF BoardOK
  <2>2. q \in Here
    BY <1>3, <2>1, SlotsProperties DEF Here, Live, Online, Voice
  <2>3. msg.by # 0 => msg.by \in Pids
    BY <1>1, RwgMultiAssumption DEF BoardOK, Pids
  <2>4. Passed(q)' => Passed(q)
    BY <1>1, <2>3 DEF Passed, Voice, Silent
  <2>5. Aimed(q) => Aimed(q)'
    BY <1>1, <2>3 DEF Aimed, Voice, Silent
  <2>6. q \in pending => q \in pending'
    BY <1>3 DEF Here, Live, Voice
  <2> QED
    BY <1>1, <1>3, <2>1, <2>2, <2>4, <2>5, <2>6 DEF Heard, Voice
<1> QED
  BY <1>2, <1>3 DEF Heard

LEMMA SaidHeard ==
  ASSUME Parts, Newest, NEW p \in Pids, Voice(p), Says(p)
  PROVE  Heard' /\ Newest'
<1>0. BoardOK /\ CastOK /\ SessionsOK
  BY DEF Parts
<1>1. PICK for \in SUBSET Pids, to \in 0 .. N + 1, then \in State :
        /\ Broadcast(p, for, to, then)
        /\ \A q \in for : to # 0 => slot[q] = to
  BY DEF Says
<1>2. /\ msg'.by = p /\ pc'[p] = "cast" /\ at'[p] = 1 /\ aim'[p] = to
      /\ audience' \subseteq for /\ audience' \subseteq {pid[u] : u \in Slots}
  BY <1>0, <1>1, SlotsProperties DEF Broadcast, Post, First, Online, CastOK, SessionsOK
<1>3. p # 0
  BY DEF Pids
<1>4. \A q \in audience' : slot'[q] \in Slots /\ ~Passed(q)' /\ Aimed(q)'
  <2>1. \A q \in audience' : slot'[q] \in Slots /\ (to # 0 => slot'[q] = to)
    BY <1>0, <1>1, <1>2 DEF Voice, SessionsOK
  <2>2. \A u \in Slots : ~(u < 1)
    BY RwgMultiAssumption DEF Slots
  <2> QED
    BY <1>2, <1>3, <2>1, <2>2 DEF Passed, Aimed
<1>5. Heard'
  BY <1>4 DEF Heard
<1>6. Newest'
  BY <1>2, NewestKept DEF Voice
<1> QED
  BY <1>5, <1>6

LEMMA HandleHeard ==
  ASSUME Parts, Heard, Newest, NEW p \in Pids, Handle(p)
  PROVE  Heard' /\ Newest'
<1> USE DEF table, files, loop, handler, cast, rest
<1>1. /\ UNCHANGED <<hasUser, pid, msg, audience, mpc, ID, accepted, reaped, told, pc, slot, at, aim>>
      /\ seen' \cup pending' = seen \cup pending
  BY DEF Handle
<1>2. Newest'
  BY <1>1 DEF Newest
<1>3. Heard'
  BY <1>1 DEF Heard, Here, Live, Online, Passed, Aimed
<1> QED
  BY <1>2, <1>3

\* Whoever is signalled ends, or will print what is in the slot.
LEMMA SignalHeard ==
  ASSUME NEW target, NEW self, NEW pcs \in [Pids -> State], Signal(target, self, pcs)
  PROVE  /\ seen \subseteq seen' /\ pending \subseteq pending' /\ UNCHANGED <<msg, audience>>
         /\ \A q \in Pids : pc'[q] = pcs[q] \/ (pc'[q] = "zombie" /\ pc[q] = "fork")
         /\ \A q \in Hit(target) : pc'[q] = "zombie" \/ q \in seen' \cup pending'
         /\ mpc' \in {mpc, "down"}
<1>1. Hit(target) \subseteq Pids
  BY DEF Hit, Live
<1>2. \A q \in Hit(target) : pc'[q] = "zombie" \/ q \in seen' \cup pending'
  BY <1>1 DEF Signal
<1> QED
  BY <1>2 DEF Signal

LEMMA CastHeard ==
  ASSUME Parts, InLines, Heard, Newest, NEW p \in Pids, Cast(p)
  PROVE  Heard' /\ Newest'
<1> USE DEF table, board, files, handler, rest
<1>0. BoardOK /\ SessionsOK /\ CastOK
  BY DEF Parts
<1> DEFINE u == IF aim[p] = 0 THEN at[p] ELSE aim[p]
           over == aim[p] # 0 \/ at[p] = N
           pcs == [pc EXCEPT ![p] = IF over THEN next[p] ELSE "cast"]
<1>1. /\ pc[p] = "cast"
      /\ at' = [at EXCEPT ![p] = IF over THEN 1 ELSE at[p] + 1]
      /\ aim' = [aim EXCEPT ![p] = IF over THEN 0 ELSE aim[p]]
      /\ \/ Signal(pid[u], p, pcs)
         \/ pc' = pcs /\ ~hasUser[u] /\ UNCHANGED <<pending, board, mpc>>
      /\ UNCHANGED <<hasUser, pid, ID, accepted, reaped, told, slot>>
  BY DEF Cast
<1>2. pcs \in [Pids -> State]
  BY <1>0 DEF SessionsOK, CastOK, State
<1>3. /\ \A q \in Pids \ {p} : pcs[q] = pc[q] /\ at'[q] = at[q] /\ aim'[q] = aim[q]
      /\ over => pcs[p] # "cast"
      /\ ~over => pcs[p] = "cast" /\ at'[p] = at[p] + 1 /\ aim[p] = 0 /\ aim'[p] = 0
  <2>1. next[p] # "cast"
    BY <1>1 DEF InLines, InLine
  <2> QED
    BY <1>0, <1>1, <2>1 DEF SessionsOK, CastOK
<1>4. over <=> aim[p] # 0 \/ at[p] = N
  OBVIOUS
<1>5. (aim[p] = 0 => u = at[p]) /\ (aim[p] # 0 => u = aim[p])
  OBVIOUS
<1> HIDE DEF u, over, pcs
<1>6. /\ seen \subseteq seen' /\ pending \subseteq pending' /\ UNCHANGED <<msg, audience>>
      /\ \A q \in Pids : pc'[q] = pcs[q] \/ (pc'[q] = "zombie" /\ pc[q] = "fork")
      /\ mpc' \in {mpc, "down"}
  <2>1. CASE Signal(pid[u], p, pcs)
    BY <1>2, <2>1, SignalHeard
  <2>2. CASE pc' = pcs /\ UNCHANGED <<pending, board, mpc>>
    BY <2>2
  <2> QED
    BY <1>1, <2>1, <2>2
<1>7. Newest'
  BY <1>1, <1>6, NewestKept
<1>8. ASSUME mpc' # "down", NEW q \in audience', q \in Here'
      PROVE  (Passed(q)' => q \in seen' \cup pending') /\ Aimed(q)'
  <2>1. q \in Pids /\ q \in audience
    BY <1>0, <1>6, <1>8 DEF BoardOK
  <2>2. pc'[q] # "zombie" /\ q \in Here
    BY <1>1, <1>3, <1>6, <1>8, <2>1 DEF Here, Live, Online
  <2>3. slot[q] = u => q \in seen' \cup pending'
    <3> SUFFICES ASSUME slot[q] = u PROVE q \in seen' \cup pending'
      OBVIOUS
    <3>1. hasUser[u] /\ pid[u] = q /\ q # 0 /\ q \in Live
      BY <2>2 DEF Here, Online, Live, Pids
    <3>2. Signal(q, p, pcs)
      BY <1>1, <3>1
    <3>3. q \in Hit(q)
      BY <3>1 DEF Hit
    <3> QED
      BY <1>2, <2>2, <3>2, <3>3, SignalHeard
  <2>4. (Passed(q) => q \in seen' \cup pending') /\ Aimed(q)
    BY <1>6, <1>8, <2>1, <2>2 DEF Heard
  <2>5. CASE msg.by = 0
    BY <1>1, <1>6, <2>4, <2>5 DEF Passed, Aimed
  <2>6. CASE msg.by # 0 /\ msg.by # p
    <3>1. msg.by \in Pids \ {p}
      BY <1>0, <2>6, RwgMultiAssumption DEF BoardOK, Pids
    <3>2. /\ pc'[msg.by] = "cast" <=> pc[msg.by] = "cast"
          /\ at'[msg.by] = at[msg.by] /\ aim'[msg.by] = aim[msg.by]
      BY <1>3, <1>6, <3>1
    <3> QED
      BY <1>1, <1>6, <2>4, <2>6, <3>2 DEF Passed, Aimed
  <2>7. CASE msg.by = p
    <3>1. p # 0 /\ pc'[p] = pcs[p]
      BY <1>1, <1>6 DEF Pids
    <3>2. slot[q] \in Users /\ at[p] \in Users
      BY <1>0, <2>2 DEF Here, Online, CastOK
    <3>3. aim[p] = 0 /\ slot[q] < at[p] => q \in seen' \cup pending'
      BY <2>4, <2>7, <3>1 DEF Passed
    <3>4. CASE over
      <4>1. Aimed(q)'
        BY <1>3, <1>6, <2>7, <3>1, <3>4 DEF Aimed
      <4>2. aim[p] # 0 => slot[q] = u
        BY <1>1, <1>5, <2>4, <2>7, <3>1 DEF Aimed
      <4>3. aim[p] = 0 => slot[q] = u \/ slot[q] < at[p]
        BY <1>4, <1>5, <3>2, <3>4, RwgMultiAssumption DEF Users
      <4> QED
        BY <2>3, <3>3, <4>1, <4>2, <4>3
    <3>5. CASE ~over
      <4>1. Aimed(q)'
        BY <1>3, <1>6, <2>7, <3>1, <3>5 DEF Aimed
      <4>2. Passed(q)' => slot[q] < at[p] + 1
        BY <1>1, <1>3, <1>6, <2>7, <3>1, <3>5 DEF Passed
      <4>3. Passed(q)' => slot[q] < at[p] \/ slot[q] = u
        BY <1>3, <1>5, <3>2, <3>5, <4>2, RwgMultiAssumption DEF Users
      <4> QED
        BY <1>3, <2>3, <3>3, <3>5, <4>1, <4>3
    <3> QED
      BY <3>4, <3>5
  <2> QED
    BY <2>5, <2>6, <2>7
<1> QED
  BY <1>7, <1>8 DEF Heard

LEMMA VoiceFacts ==
  ASSUME Parts, InLines, Own, NEW p \in Pids,
         \/ Install(p) \/ Login(p) \/ ReadLine(p) \/ HangUp(p)
         \/ Check(p) \/ Receive(p) \/ Rename(p) \/ Send(p)
         \/ Quiet(p) \/ YellLine(p) \/ Tell(p) \/ Name(p) \/ Named(p)
         \/ Exit(p) \/ Leave(p) \/ RemovePipes(p) \/ Exec(p) \/ Finish(p)
  PROVE  Voice(p) /\ (Silent(p) \/ Says(p))
<1> USE DEF table, board, files, loop, handler, cast, rest
<1>0. SharedOK /\ CastOK /\ SessionsOK /\ RestOK
  BY DEF Parts
<1>a. /\ Pids \in SUBSET Pids /\ {p} \in SUBSET Pids /\ slot[p] \in Slots
      /\ 0 \in 0 .. N + 1 /\ Slots \subseteq 0 .. N + 1
  BY <1>0, SlotsProperties, RwgMultiAssumption DEF SessionsOK
<1>b. ASSUME NEW place, GoTo(p, place), place # "cast", pc[p] # "cast", UNCHANGED <<at, aim, board>>
      PROVE  pc'[p] = place /\ Silent(p) /\ \A q \in Pids \ {p} :
               pc'[q] = pc[q] /\ at'[q] = at[q] /\ aim'[q] = aim[q]
  BY <1>0, <1>b, GoToMoves DEF Silent
<1>c. ASSUME EndLine(p), pc[p] # "cast", UNCHANGED <<at, aim, board>>
      PROVE  Silent(p) /\ \A q \in Pids \ {p} :
               pc'[q] = pc[q] /\ at'[q] = at[q] /\ aim'[q] = aim[q]
  BY <1>0, <1>c, EndLineMoves DEF Silent
<1>d. ASSUME NEW for \in SUBSET Pids, NEW to \in 0 .. N + 1, NEW then \in State,
             Broadcast(p, for, to, then)
      PROVE  \A q \in Pids \ {p} : pc'[q] = pc[q] /\ at'[q] = at[q] /\ aim'[q] = aim[q]
  BY <1>0, <1>d DEF Broadcast, CastOK, SessionsOK
<1>e. ASSUME NEW then \in {"prompt", "leave", "send", "run"}, Yell(p, then)
      PROVE  Says(p) /\ \A q \in Pids \ {p} : pc'[q] = pc[q] /\ at'[q] = at[q] /\ aim'[q] = aim[q]
  <2>1. then \in State /\ Broadcast(p, Pids, 0, then)
    BY <1>e DEF Yell, State
  <2> QED
    BY <1>a, <1>d, <2>1 DEF Says
<1>1. CASE Install(p)
  BY <1>1, <1>b DEF Install, Voice
<1>2. CASE Login(p)
  BY <1>2, <1>e DEF Login, Voice
<1>3. CASE ReadLine(p)
  <2>1. PICK l \in Lines :
          line' = [line EXCEPT ![p] = l] /\ GoTo(p, IF Piped(l) THEN "check" ELSE "run")
    BY <1>3 DEF ReadLine
  <2>2. pc[p] = "prompt" /\ UNCHANGED <<at, aim, board>>
    BY <1>3 DEF ReadLine
  <2>3. Silent(p) /\ \A q \in Pids \ {p} : pc'[q] = pc[q] /\ at'[q] = at[q] /\ aim'[q] = aim[q]
    BY <1>b, <2>1, <2>2
  <2> QED
    BY <1>3, <2>3 DEF ReadLine, Voice
<1>4. CASE HangUp(p)
  BY <1>4, <1>b DEF HangUp, Die, Voice
<1>5. CASE Check(p)
  BY <1>5, <1>b, <1>c DEF Check, Voice
<1>6. CASE Receive(p)
  BY <1>6, <1>b, <1>c DEF Receive, Voice
<1>7. CASE Rename(p)
  BY <1>7, <1>e DEF Rename, AfterReceive, Voice
<1>8. CASE Send(p)
  BY <1>8, <1>c, <1>e DEF Send, Voice
<1>9. CASE Quiet(p)
  BY <1>9, <1>c DEF Quiet, Running, Voice
<1>10. CASE YellLine(p)
  BY <1>10, <1>e DEF YellLine, Running, Voice
<1>11. CASE Tell(p)
  <2>1. /\ pc[p] = "run"
        /\ UNCHANGED <<table, loop, sigchld, handler, slot, pending>>
    BY <1>11 DEF Tell, Running
  <2>2. line[p].to \in Slots
    <3>1. line[p] \in Lines
      BY <1>0, <2>1 DEF SessionsOK, Reading
    <3>2. line[p].kind = "tell"
      BY <1>11 DEF Tell, Running
    <3> QED
      BY <3>1, <3>2, LineTypes, SlotsProperties
  <2>3. CASE hasUser[line[p].to]
    <3> DEFINE u == line[p].to
    <3>1. Broadcast(p, Holder(u), u, "prompt")
      BY <1>11, <2>3 DEF Tell, Aim
    <3>2. Holder(u) \in SUBSET Pids /\ u \in 0 .. N + 1 /\ "prompt" \in State
      BY <1>a, <2>2, HolderTypes DEF State
    <3>3. \A q \in Holder(u) : slot[q] = u
      BY DEF Holder
    <3> HIDE DEF u
    <3>4. Says(p)
      BY <3>1, <3>2, <3>3 DEF Says
    <3> QED
      BY <1>d, <2>1, <3>1, <3>2, <3>4 DEF Voice
  <2>4. CASE ~hasUser[line[p].to]
    <3>1. EndLine(p) /\ UNCHANGED <<board, cast>>
      BY <1>11, <2>4 DEF Tell
    <3> QED
      BY <1>c, <2>1, <3>1 DEF Voice
  <2> QED
    BY <2>3, <2>4
<1>12. CASE Name(p)
  <2>1. /\ pc[p] = "run"
        /\ UNCHANGED <<table, loop, sigchld, handler, slot, pending>>
    BY <1>12 DEF Name, Running
  <2>2. CASE Taken(p)
    <3>1. Broadcast(p, {p}, slot[p], "prompt") /\ "prompt" \in State
      BY <1>12, <2>2 DEF Name, State
    <3>2. Says(p)
      BY <1>a, <3>1 DEF Says
    <3> QED
      BY <1>a, <1>d, <2>1, <3>1, <3>2 DEF Voice
  <2>3. CASE ~Taken(p)
    <3>1. GoTo(p, "named") /\ UNCHANGED <<board, cast, line, userPipeIn>>
      BY <1>12, <2>3 DEF Name
    <3> QED
      BY <1>b, <2>1, <3>1 DEF Voice
  <2> QED
    BY <2>2, <2>3
<1>13. CASE Named(p)
  BY <1>13, <1>e DEF Named, Voice
<1>14. CASE Exit(p)
  BY <1>14, <1>e DEF Exit, Running, Voice
<1>15. CASE Leave(p)
  BY <1>0, <1>15, <1>b DEF Leave, Voice, SharedOK
<1>16. CASE RemovePipes(p)
  BY <1>16, <1>b DEF RemovePipes, Die, Voice
<1>17. CASE Exec(p)
  BY <1>17, <1>b DEF Exec, Wait, Running, Voice
<1>18. CASE Finish(p)
  BY <1>18, <1>b DEF Finish, Voice
<1> QED
  BY <1>1, <1>2, <1>3, <1>4, <1>5, <1>6, <1>7, <1>8, <1>9, <1>10, <1>11, <1>12, <1>13,
     <1>14, <1>15, <1>16, <1>17, <1>18

\* A step that writes no message, after which no session is there that was not.
LEMMA SameHeard ==
  ASSUME Heard, UNCHANGED <<board, slot, at, aim, reaped, told, pending>>, mpc # "down",
         \A q \in audience : q \in Here' => q \in Here,
         msg.by # 0 => (pc'[msg.by] = "cast" <=> pc[msg.by] = "cast")
  PROVE  Heard'
<1>1. UNCHANGED <<msg, seen, audience>>
  BY DEF board
<1>2. \A q \in audience : (Passed(q)' <=> Passed(q)) /\ (Aimed(q)' <=> Aimed(q))
  BY <1>1 DEF Passed, Aimed
<1> QED
  BY <1>1, <1>2 DEF Heard

LEMMA EnterHeard ==
  ASSUME Parts, Own, Heard, Newest, Accept \/ Fork \/ EnterUser \/ EnterPid
  PROVE  Heard' /\ Newest'
<1> USE DEF table, board, files, handler, cast, rest
<1>0. SharedOK /\ BoardOK /\ SessionsOK /\ MasterOK
  BY DEF Parts
<1>1. CASE Accept
  <2>1. /\ UNCHANGED <<hasUser, pid, board, pc, slot, at, aim, reaped, told, pending>>
        /\ mpc = "accept" /\ mpc' = "fork" /\ accepted' = accepted + 1
    BY <1>1 DEF Accept
  <2>2. Newest'
    <3>1. /\ accepted \in Nat /\ \A u \in Slots : pid[u] \in Nat
          /\ \A q \in audience : q \in Nat
      BY <1>0, SlotsProperties, RwgMultiAssumption DEF SharedOK, BoardOK, MasterOK
    <3> QED
      BY <2>1, <3>1 DEF Newest
  <2>3. Here' = Here
    BY <2>1 DEF Here, Live, Online
  <2> QED
    BY <2>1, <2>2, <2>3, SameHeard
<1>2. CASE Fork
  <2>1. /\ UNCHANGED <<hasUser, pid, board, at, aim, reaped, told, pending, accepted>>
        /\ pc' = [pc EXCEPT ![accepted] = "fork"] /\ slot' = [slot EXCEPT ![accepted] = ID]
        /\ mpc = "fork" /\ mpc' = "user"
    BY <1>2 DEF Fork
  <2>2. accepted \in Pids /\ pc[accepted] = "none"
    BY <1>0, <2>1, RwgMultiAssumption DEF Own, MasterOK, Pids
  <2>3. /\ pc'[accepted] = "fork"
        /\ \A q \in Pids \ {accepted} : pc'[q] = pc[q] /\ slot'[q] = slot[q]
    BY <1>0, <2>1, <2>2 DEF SessionsOK
  <2>4. accepted \notin audience
    BY <2>1 DEF Newest, Entering
  <2>5. Newest'
    BY <2>1 DEF Newest, Entering
  <2>6. \A q \in audience : q \in Here' => q \in Here
    BY <1>0, <2>1, <2>3, <2>4 DEF Here, Live, Online, BoardOK
  <2>7. msg.by # 0 => (pc'[msg.by] = "cast" <=> pc[msg.by] = "cast")
    <3>1. msg.by # 0 => msg.by \in Pids
      BY <1>0, RwgMultiAssumption DEF BoardOK, Pids
    <3> QED
      BY <2>2, <2>3, <3>1
  <2>8. \A q \in audience : q \in Pids /\ q # accepted /\ slot'[q] = slot[q]
    BY <1>0, <2>3, <2>4 DEF BoardOK
  <2>9. Heard'
    <3>1. \A q \in audience : (Passed(q)' <=> Passed(q)) /\ (Aimed(q)' <=> Aimed(q))
      BY <2>1, <2>7, <2>8 DEF Passed, Aimed
    <3> QED
      BY <2>1, <2>6, <3>1 DEF Heard
  <2> QED
    BY <2>5, <2>9
<1>3. CASE EnterUser
  <2>1. /\ UNCHANGED <<pid, board, pc, slot, at, aim, reaped, told, pending, accepted, ID>>
        /\ hasUser' = [hasUser EXCEPT ![ID] = TRUE] /\ mpc = "user" /\ mpc' = "pid"
    BY <1>3 DEF EnterUser
  <2>2. Newest'
    BY <2>1 DEF Newest, Entering
  <2>3. \A q \in audience : q \in Here' => q \in Here
    BY <1>0, <2>1, SlotsProperties DEF Here, Live, Online, SharedOK
  <2> QED
    BY <2>1, <2>2, <2>3, SameHeard
<1>4. CASE EnterPid
  <2>1. /\ UNCHANGED <<hasUser, board, pc, slot, at, aim, reaped, told, pending, accepted, ID>>
        /\ pid' = [pid EXCEPT ![ID] = accepted] /\ mpc = "pid" /\ mpc' = "accept"
    BY <1>4 DEF EnterPid, Known
  <2>2. Newest'
    <3>1. \A u \in Slots : pid'[u] = pid[u] \/ pid'[u] = accepted
      BY <1>0, <2>1 DEF SharedOK
    <3>2. accepted <= accepted /\ "accept" \notin Entering
      BY <1>0, RwgMultiAssumption DEF MasterOK, Entering
    <3> QED
      BY <2>1, <3>1, <3>2 DEF Newest
  <2>3. accepted \notin audience
    BY <2>1 DEF Newest, Entering
  <2>4. \A q \in audience : q \in Here' => q \in Here
    <3> SUFFICES ASSUME NEW q \in audience, q \in Here' PROVE q \in Here
      OBVIOUS
    <3>1. slot[q] \in Users /\ pid'[slot[q]] = q
      BY <2>1 DEF Here, Online
    <3>2. slot[q] # ID
      BY <1>0, <2>1, <2>3, <3>1 DEF SharedOK, MasterOK
    <3> QED
      BY <1>0, <2>1, <3>1, <3>2, SlotsProperties DEF Here, Live, Online, SharedOK
  <2> QED
    BY <2>1, <2>2, <2>4, SameHeard
<1> QED
  BY <1>1, <1>2, <1>3, <1>4

LEMMA ReapHeard ==
  ASSUME Parts, Heard, Newest, Reap \/ ReapTell \/ ReapRemove
  PROVE  Heard' /\ Newest'
<1> USE DEF table, board, files, loop, cast, rest
<1>0. SharedOK /\ BoardOK /\ SessionsOK /\ MasterOK
  BY DEF Parts
<1>a. mpc # "down"
  BY DEF Reap, ReapTell, ReapRemove
<1>1. CASE Reap
  <2>1. /\ UNCHANGED <<pid, slot, at, aim, pending, accepted, mpc, ID>>
        /\ pc' = [q \in Pids |-> IF pc[q] = "zombie" THEN "gone" ELSE pc[q]]
    BY <1>1 DEF Reap
  <2>2. CASE Dead = {}
    <3>1. UNCHANGED <<hasUser, board, reaped, told>>
      BY <1>1, <2>2 DEF Reap, handler
    <3>2. \A q \in audience : q \in Here' => q \in Here
      BY <1>0, <2>1, <3>1 DEF Here, Live, Online, BoardOK
    <3>3. msg.by # 0 => (pc'[msg.by] = "cast" <=> pc[msg.by] = "cast")
      <4>1. msg.by # 0 => msg.by \in Pids
        BY <1>0, RwgMultiAssumption DEF BoardOK, Pids
      <4> QED
        BY <2>1, <4>1
    <3>4. Newest'
      BY <2>1, <3>1 DEF Newest
    <3> QED
      BY <1>a, <2>1, <3>1, <3>2, <3>3, <3>4, SameHeard
  <2>3. CASE Dead # {}
    <3>1. /\ reaped' = Min(Dead) /\ told' = 0 /\ msg' = [by |-> 0, for |-> Pids]
          /\ audience' = {pid[u] : u \in Online \ {Min(Dead)}} \ {0}
      BY <1>1, <2>3 DEF Reap
    <3>2. reaped' \in Users
      BY <2>3, <3>1, FirstSlot DEF Dead, Online
    <3>3. Newest'
      <4>1. audience' \subseteq audience \cup {pid[u] : u \in Slots}
        BY <3>1, SlotsProperties DEF Online
      <4> QED
        BY <2>1, <4>1, NewestKept
    <3>4. Heard'
      <4>1. ASSUME NEW q \in Here' PROVE ~Passed(q)' /\ Aimed(q)'
        <5>1. slot'[q] \in Users
          BY <4>1 DEF Here, Online
        <5> QED
          BY <3>1, <3>2, <5>1, RwgMultiAssumption DEF Passed, Aimed, Users
      <4> QED
        BY <4>1 DEF Heard
    <3> QED
      BY <3>3, <3>4
  <2> QED
    BY <2>2, <2>3
<1>2. CASE ReapTell
  <2>1. /\ UNCHANGED <<hasUser, pid, slot, at, aim, accepted, reaped, ID>>
        /\ reaped # 0 /\ told' = told + 1
        /\ IF hasUser[told + 1] THEN Signal(pid[told + 1], 0, pc)
           ELSE UNCHANGED <<pc, pending, board, sigchld, mpc>>
    BY <1>2 DEF ReapTell
  <2>2. /\ seen \subseteq seen' /\ pending \subseteq pending' /\ UNCHANGED <<msg, audience>>
        /\ \A q \in Pids : pc'[q] = pc[q] \/ (pc'[q] = "zombie" /\ pc[q] = "fork")
        /\ mpc' \in {mpc, "down"}
    <3>1. CASE hasUser[told + 1]
      BY <1>0, <2>1, <3>1, SignalHeard DEF SessionsOK
    <3>2. CASE ~hasUser[told + 1]
      BY <2>1, <3>2
    <3> QED
      BY <3>1, <3>2
  <2>3. Newest'
    BY <2>1, <2>2, NewestKept
  <2>4. ASSUME mpc' # "down", NEW q \in audience', q \in Here'
        PROVE  (Passed(q)' => q \in seen' \cup pending') /\ Aimed(q)'
    <3>1. q \in Pids /\ q \in audience
      BY <1>0, <2>2, <2>4 DEF BoardOK
    <3>2. pc'[q] # "zombie" /\ q \in Here
      BY <2>1, <2>2, <2>4, <3>1 DEF Here, Live, Online
    <3>3. (Passed(q) => q \in seen' \cup pending') /\ Aimed(q)
      BY <1>a, <2>2, <3>1, <3>2 DEF Heard
    <3>4. CASE msg.by # 0
      <4>1. msg.by \in Pids
        BY <1>0, <3>4, RwgMultiAssumption DEF BoardOK, Pids
      <4>2. pc'[msg.by] = "cast" <=> pc[msg.by] = "cast"
        BY <2>2, <4>1
      <4> QED
        BY <2>1, <2>2, <3>3, <3>4, <4>2 DEF Passed, Aimed
    <3>5. CASE msg.by = 0
      <4>1. slot[q] \in Users /\ hasUser[slot[q]] /\ pid[slot[q]] = q /\ q \in Live /\ q # 0
        BY <3>2 DEF Here, Online, Live, Pids
      <4>2. Passed(q)' => slot[q] <= told + 1
        BY <2>1, <2>2, <3>5 DEF Passed
      <4>3. slot[q] <= told => Passed(q)
        BY <3>5 DEF Passed
      <4>4. slot[q] <= told + 1 => slot[q] <= told \/ slot[q] = told + 1
        BY <1>0, <4>1, RwgMultiAssumption DEF Users, MasterOK
      <4>5. slot[q] = told + 1 => q \in seen' \cup pending'
        <5> SUFFICES ASSUME slot[q] = told + 1 PROVE q \in seen' \cup pending'
          OBVIOUS
        <5>1. Signal(q, 0, pc)
          BY <2>1, <4>1
        <5>2. q \in Hit(q) /\ pc \in [Pids -> State]
          BY <1>0, <4>1 DEF Hit, SessionsOK
        <5> QED
          BY <3>2, <5>1, <5>2, SignalHeard
      <4>6. Aimed(q)'
        BY <2>2, <3>5 DEF Aimed
      <4> QED
        BY <3>3, <4>2, <4>3, <4>4, <4>5, <4>6
    <3> QED
      BY <3>4, <3>5
  <2> QED
    BY <2>3, <2>4 DEF Heard
<1>3. CASE ReapRemove
  <2>1. /\ UNCHANGED <<hasUser, pid, board, pc, slot, at, aim, pending, accepted, mpc, ID>>
        /\ told = N
    BY <1>3 DEF ReapRemove
  <2>2. Newest'
    BY <2>1 DEF Newest
  <2>3. Here' = Here
    BY <2>1 DEF Here, Live, Online
  <2>4. \A q \in Here : (Passed(q)' => Passed(q)) /\ (Aimed(q)' <=> Aimed(q))
    <3>1. \A q \in Here : slot[q] <= told
      BY <2>1, RwgMultiAssumption DEF Here, Online, Users
    <3> QED
      BY <2>1, <3>1 DEF Passed, Aimed
  <2>5. Heard'
    BY <2>1, <2>3, <2>4 DEF Heard
  <2> QED
    BY <2>2, <2>5
<1> QED
  BY <1>1, <1>2, <1>3

LEMMA HeardStep ==
  Parts /\ InLines /\ Own /\ Heard /\ Newest /\ [Next]_vars => Heard' /\ Newest'
<1> SUFFICES ASSUME Parts, InLines, Own, Heard, Newest, [Next]_vars
             PROVE  Heard' /\ Newest'
  OBVIOUS
<1>1. CASE Master \/ Accept
  BY <1>1, EnterHeard, ReapHeard DEF Master
<1>2. ASSUME NEW p \in Pids, Session(p) \/ ReadLine(p) \/ HangUp(p)
      PROVE  Heard' /\ Newest'
  <2>1. CASE Handle(p)
    BY <2>1, HandleHeard
  <2>2. CASE Cast(p)
    BY <2>2, CastHeard
  <2>3. CASE ~Handle(p) /\ ~Cast(p)
    <3>1. Voice(p) /\ (Silent(p) \/ Says(p))
      BY <1>2, <2>3, VoiceFacts DEF Session
    <3> QED
      BY <3>1, SilentHeard, SaidHeard
  <2> QED
    BY <2>1, <2>2, <2>3
<1>3. CASE UNCHANGED vars
  <2>1. UNCHANGED <<hasUser, pid, msg, seen, audience, mpc, ID, accepted, reaped, told, pc, slot,
                    at, aim, pending>>
    BY <1>3 DEF vars, table, board, files, loop, handler, cast, rest
  <2> QED
    BY <2>1 DEF Heard, Newest, Here, Live, Online, Passed, Aimed
<1> QED
  BY <1>1, <1>2, <1>3 DEF Next, Client

LEMMA HeardAlways == Spec => [](Heard /\ Newest)
<1>1. Init => Heard /\ Newest
  <2> SUFFICES ASSUME Init PROVE Heard /\ Newest
    OBVIOUS
  <2>1. audience = {} /\ accepted = 0 /\ mpc \notin Entering /\ \A u \in Slots : pid[u] = 0
    BY DEF Init, Entering
  <2> QED
    BY <2>1 DEF Heard, Newest
<1>2. Apart => Own
  BY DEF Apart
<1>3. Spec => [](Parts /\ InLines) /\ [](TypeOK /\ Apart)
  BY PartsAlways, ApartAlways
<1> QED
  BY <1>1, <1>2, <1>3, HeardStep, PTL DEF Spec

\* When the signals for a message have been sent, whoever it was for and is
\* still there has printed it or is about to, whatever overlaps.
THEOREM LatestSeenHolds == Spec => []LatestSeen
<1>1. Heard => LatestSeen
  BY DEF Heard, LatestSeen, Over, Passed
<1> QED
  BY <1>1, HeardAlways, PTL
=============================================================================
