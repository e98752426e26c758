-------------------------- MODULE RwgSingleTheorems --------------------------
(***************************************************************************)
(* Theorems about the single-process server, for every number of slots,    *)
(* every set of lines, and users who behave in any way the model allows.   *)
(***************************************************************************)
EXTENDS RwgSingle, PipeTableTheorems

\* Where the loop stands: there is someone to accept, a line is run for a user
\* who is online, and pipes are swept for a slot of the table.
Serving ==
  /\ pc = "accept" => waiting > 0
  /\ pc = "run" => servingID \in Online
  /\ pc = "sweep" => servingID \in Users

\* The search for a user pipe finds one if there is one.
LEMMA PipeAtFinds ==
  ASSUME TypeOK, NEW s, NEW r
  PROVE  /\ PipeAt(s, r) \in 0 .. Len(userPipes)
         /\ PipeAt(s, r) = 0 =>
              \A j \in 1 .. Len(userPipes) :
                ~(userPipes[j].sourceID = s /\ userPipes[j].targetID = r)
<1> DEFINE found == {j \in DOMAIN userPipes :
                       userPipes[j].sourceID = s /\ userPipes[j].targetID = r}
<1>1. PipeAt(s, r) = IF found = {} THEN 0 ELSE Min(found)
  BY DEF PipeAt
<1>2. DOMAIN userPipes = 1 .. Len(userPipes) /\ Len(userPipes) \in Nat
  BY DEF TypeOK
<1>3. found \subseteq 1 .. Len(userPipes)
  BY <1>2
<1>4. CASE found = {}
  <2>1. PipeAt(s, r) = 0
    BY <1>1, <1>4
  <2> QED
    BY <1>2, <1>4, <2>1
<1>5. CASE found # {}
  <2> HIDE DEF found
  <2>1. Min(found) \in found
    BY <1>2, <1>3, <1>5, MinOfNaturals
  <2>2. PipeAt(s, r) \in 1 .. Len(userPipes)
    BY <1>1, <1>3, <1>5, <2>1
  <2> QED
    BY <1>2, <2>2
<1> QED
  BY <1>4, <1>5

\* What the command loop does to its user's table.
LEMMA TurnProperties ==
  ASSUME TypeOK, Serving, pc = "run", i \in 1 .. Len(cmdList)
  PROVE  /\ me \in Users
         /\ cmd \in Cmd
         /\ Opened \in Seq(PipeInfo)
         /\ Received \in 0 .. Len(userPipes)
         /\ Handled \in Seq(UserInfo)
         /\ Len(userPipes) <= Len(Handled)
<1>1. me \in Users /\ cmd \in Cmd
  BY DEF TypeOK, Serving, Online, me, cmd
<1>2. Opened \in Seq(PipeInfo)
  <2>1. pipes[me] \in Seq(PipeInfo) /\ cmd.lineToPipe \in Nat /\ IsLast \in BOOLEAN
    BY <1>1 DEF TypeOK, Cmd, Segment, IsLast
  <2> QED
    BY <2>1, PipeeProperties DEF Opened
<1>3. \A s, r : PipeAt(s, r) \in 0 .. Len(userPipes)
  BY PipeAtFinds
<1>4. Received \in 0 .. Len(userPipes)
  BY <1>3 DEF Received, TypeOK
<1>5. Handled \in Seq(UserInfo) /\ Len(userPipes) <= Len(Handled)
  <2>1. CASE Sends
    <3>1. [sourceID |-> me, targetID |-> cmd.send] \in UserInfo
      BY <1>1, <2>1 DEF Sends, Online, UserInfo
    <3> QED
      BY <2>1, <3>1 DEF Handled, TypeOK
  <2>2. CASE ~Sends
    BY <2>2 DEF Handled, TypeOK
  <2> QED
    BY <2>1, <2>2
<1> QED
  BY <1>1, <1>2, <1>4, <1>5

LEMMA Slots == N \in Nat \ {0} /\ Users = 1 .. N /\ MaxTyped \in Nat
BY RwgAssumption DEF Users

\* Where an action that writes to users may go on.
LEMMA AfterPlaces ==
  ASSUME NEW S, NEW next, pc' \in After(S, next)
  PROVE  pc' = next \/ pc' = "dead"
BY DEF After

LEMMA MinFree ==
  ASSUME Free # {}
  PROVE  Min(Free) \in Free
<1>1. Free \subseteq Nat
  BY Slots DEF Free
<1> QED
  BY <1>1, MinOfNaturals

LEMMA EmptiedInbox ==
  ASSUME TypeOK, NEW u \in Users, inbox' = [inbox EXCEPT ![u] = <<>>]
  PROVE  /\ inbox' \in [Users -> Seq(Lines)]
         /\ \A v \in Users : Len(inbox'[v]) <= MaxTyped
<1>1. <<>> \in Seq(Lines) /\ Len(<<>>) = 0
  OBVIOUS
<1>2. inbox' \in [Users -> Seq(Lines)]
  BY <1>1 DEF TypeOK
<1>3. ASSUME NEW v \in Users PROVE Len(inbox'[v]) <= MaxTyped
  <2>1. CASE v = u
    BY <1>1, <2>1, Slots DEF TypeOK
  <2>2. CASE v # u
    BY <2>2 DEF TypeOK
  <2> QED
    BY <2>1, <2>2
<1> QED
  BY <1>2, <1>3

\* Types, and the places at which users are served.
LEMMA TypeAndServing == Spec => [](TypeOK /\ Serving)
<1>1. Init => TypeOK /\ Serving
  <2> SUFFICES ASSUME Init PROVE TypeOK /\ Serving
    OBVIOUS
  <2>1. servingID \in 1 .. N + 1
    BY Slots DEF Init
  <2>2. \A u \in Users : Len(inbox[u]) <= MaxTyped
    BY Slots DEF Init
  <2>3. \A S : <<>> \in Seq(S)
    OBVIOUS
  <2>4. pipes \in [Users -> Seq(PipeInfo)] /\ inbox \in [Users -> Seq(Lines)]
    BY <2>3 DEF Init
  <2>5. /\ name \in [Users -> Argument \cup {NoName}]
        /\ env \in [Users -> Values \cup {Unset}]
        /\ processEnv \in Values \cup {Unset}
        /\ hasUser \in [Users -> BOOLEAN] /\ done \in [Users -> BOOLEAN]
        /\ credit \in [Users -> Int]
    BY DEF Init
  <2>6. userPipes \in Seq(UserInfo) /\ cmdList \in Seq(Cmd) /\ cmdList = <<>>
    BY <2>3 DEF Init
  <2>7. /\ pc = "select"
        /\ readfds \in SUBSET Users /\ gone \in SUBSET Users
        /\ byebye \in BOOLEAN /\ received \in SUBSET Tag
        /\ i \in Nat \ {0} /\ sweep \in Nat \ {0} /\ waiting \in Nat
    <3>1. i \in Nat \ {0} /\ sweep \in Nat \ {0} /\ waiting \in Nat
      BY DEF Init
    <3>2. /\ pc = "select" /\ readfds \in SUBSET Users /\ gone \in SUBSET Users
          /\ received \in SUBSET Tag
      BY DEF Init
    <3>3. byebye \in BOOLEAN
      BY Zenon DEF Init
    <3> QED
      BY <3>1, <3>2, <3>3
  <2>8. TypeOK
    BY <2>1, <2>2, <2>4, <2>5, <2>6, <2>7, Zenon DEF TypeOK, State
  <2>9. Serving
    BY <2>7 DEF Serving
  <2> QED
    BY <2>8, <2>9
<1>2. TypeOK /\ Serving /\ [Next]_vars => TypeOK' /\ Serving'
  <2> SUFFICES ASSUME TypeOK, Serving, [Next]_vars PROVE TypeOK' /\ Serving'
    OBVIOUS
  <2> USE DEF State
  <2>1. CASE Connect
    BY <2>1 DEF Connect, TypeOK, Serving, Online, table, commands
  <2>2. ASSUME NEW u \in Users, Type(u) PROVE TypeOK' /\ Serving'
    <3>1. PICK line \in Lines : inbox' = [inbox EXCEPT ![u] = Append(@, line)]
      BY <2>2 DEF Type
    <3>2. inbox' \in [Users -> Seq(Lines)]
      BY <3>1 DEF TypeOK
    <3>3. \A v \in Users : Len(inbox'[v]) <= MaxTyped
      BY <2>2, <3>1, Slots DEF TypeOK, Type
    <3> QED
      BY <2>2, <3>2, <3>3 DEF Type, TypeOK, Serving, Online, table, commands
  <2>3. ASSUME NEW u \in Users, Leave(u) PROVE TypeOK' /\ Serving'
    BY <2>3 DEF Leave, TypeOK, Serving, Online, table, commands
  <2>4. CASE Select
    BY <2>4, Slots DEF Select, Pending, Readable, TypeOK, Serving, Online, table, commands, clients
  <2>5. CASE NewUser
    <3>1. CASE Free = {}
      BY <2>5, <3>1 DEF NewUser, TypeOK, Serving, commands
    <3>2. CASE Free # {}
      <4>1. pc' = "visit" \/ pc' = "dead"
        BY <2>5, <3>2, AfterPlaces DEF NewUser
      <4>2. waiting' \in Nat
        BY <2>5, <3>2 DEF NewUser, TypeOK, Serving
      <4> QED
        BY <2>5, <3>2, <4>1, <4>2 DEF NewUser, TypeOK, Serving, commands
    <3> QED
      BY <3>1, <3>2
  <2>6. CASE PassFree
    <3>1. servingID' \in 1 .. N + 1 /\ pc' = "visit"
      BY <2>6, Slots DEF PassFree, Free
    <3> QED
      BY <2>6, <3>1 DEF PassFree, TypeOK, Serving, commands, clients, table
  <2>7. ASSUME NEW u \in Users, NoInput(u) PROVE TypeOK' /\ Serving'
    <3>1. pc' = "visit" \/ pc' = "dead"
      BY <2>7, AfterPlaces DEF NoInput
    <3>2. credit' \in [Users -> Int] /\ processEnv' \in Values \cup {Unset}
      BY <2>7 DEF NoInput, PayPrompt, Init_shell, TypeOK
    <3>3. done' \in [Users -> BOOLEAN] /\ servingID' \in 1 .. N + 1
      BY <2>7, Slots DEF NoInput, TypeOK
    <3> QED
      BY <2>7, <3>1, <3>2, <3>3 DEF NoInput, Visiting, TypeOK, Serving, commands, clients
  <2>8. ASSUME NEW u \in Users, ReadBlank(u) PROVE TypeOK' /\ Serving'
    <3>1. pc' = "visit" \/ pc' = "dead"
      BY <2>8, AfterPlaces DEF ReadBlank
    <3>2. credit' \in [Users -> Int] /\ processEnv' \in Values \cup {Unset}
      BY <2>8 DEF ReadBlank, PayPrompt, Init_shell, TypeOK
    <3>3. inbox' \in [Users -> Seq(Lines)] /\ \A v \in Users : Len(inbox'[v]) <= MaxTyped
      BY <2>8, EmptiedInbox DEF ReadBlank
    <3>4. done' \in [Users -> BOOLEAN] /\ servingID' \in 1 .. N + 1
      BY <2>8, Slots DEF ReadBlank, Owe, TypeOK
    <3> QED
      BY <2>8, <3>1, <3>2, <3>3, <3>4 DEF ReadBlank, Visiting, TypeOK, Serving, commands
  <2>9. ASSUME NEW u \in Users, ReadLine(u) PROVE TypeOK' /\ Serving'
    <3>1. pc' = "run" \/ pc' = "dead"
      BY <2>9, AfterPlaces DEF ReadLine
    <3>2. credit' \in [Users -> Int] /\ processEnv' \in Values \cup {Unset}
      BY <2>9 DEF ReadLine, PayPrompt, Init_shell, TypeOK
    <3>3. inbox' \in [Users -> Seq(Lines)] /\ \A v \in Users : Len(inbox'[v]) <= MaxTyped
      BY <2>9, EmptiedInbox DEF ReadLine
    <3>4. cmdList' \in Seq(Cmd)
      <4>1. /\ inbox[u] \in Seq(Lines) /\ inbox[u] # <<>> /\ Len(inbox[u]) <= MaxTyped
            /\ cmdList' = Input(Text(inbox[u]))
        BY <2>9 DEF ReadLine, TypeOK
      <4>2. Len(inbox[u]) \in 1 .. MaxTyped /\ inbox[u] \in [1 .. Len(inbox[u]) -> Lines]
        BY <4>1, Slots
      <4> QED
        BY <4>1, <4>2, RwgAssumption
    <3>5. servingID' \in Online'
      BY <2>9 DEF ReadLine, Visiting, Online
    <3> QED
      BY <2>9, <3>1, <3>2, <3>3, <3>4, <3>5 DEF ReadLine, TypeOK, Serving
  <2>10. CASE Rescan
    BY <2>10 DEF Rescan, TypeOK, Serving, commands, clients, table
  <2>11. CASE Die
    BY <2>11 DEF Die, TypeOK, Serving, commands, clients, table
  <2>12. CASE PrintenvOrWho \/ Setenv \/ Tell \/ Yell \/ Name \/ Exit
    <3>1. pc = "run" /\ i \in 1 .. Len(cmdList)
      BY <2>12 DEF TypeOK, PrintenvOrWho, Setenv, Tell, Yell, Name, Exit, Running
    <3>2. PICK heard : Builtin(heard)
      BY <2>12, Zenon DEF PrintenvOrWho, Setenv, Tell, Yell, Name, Exit
    <3>3. /\ pipes' \in [Users -> Seq(PipeInfo)]
          /\ userPipes' \in Seq(UserInfo)
          /\ i' \in Nat \ {0}
      BY <3>1, <3>2, TurnProperties DEF Builtin, TypeOK
    <3>4. pc' = "run" \/ pc' = "dead"
      BY <3>2, AfterPlaces DEF Builtin
    <3>5. /\ name' \in [Users -> Argument \cup {NoName}]
          /\ env' \in [Users -> Values \cup {Unset}]
          /\ processEnv' \in Values \cup {Unset}
          /\ byebye' \in BOOLEAN
      BY <2>12, <3>1, TurnProperties
      DEF PrintenvOrWho, Setenv, Tell, Yell, Name, Exit, TypeOK, Cmd, Segment
    <3> QED
      BY <3>1, <3>2, <3>3, <3>4, <3>5 DEF Builtin, TypeOK, Serving, Online, clients
  <2>13. CASE Fork
    <3>1. pc = "run" /\ i \in 1 .. Len(cmdList)
      BY <2>13 DEF TypeOK, Fork, Running
    <3>2. PICK in, out :
            /\ in = 0 \/ in = FdIn(Opened, i)
            /\ received' = Content(Opened, in)
            /\ pipes' = [pipes EXCEPT ![me] = Close(Write(Opened, out, cmd.tag), in)]
      BY <2>13 DEF Fork
    <3>3. pipes' \in [Users -> Seq(PipeInfo)] /\ received' \in SUBSET Tag
      <4> DEFINE t == Write(Opened, out, cmd.tag)
      <4>1. Opened \in Seq(PipeInfo) /\ cmd.tag \in Tag /\ me \in Users
        BY <3>1, TurnProperties DEF Cmd, Segment
      <4>2. in \in 0 .. Len(Opened)
        BY <3>2, <4>1, FirstWithFinds DEF FdIn
      <4>3. t \in Seq(PipeInfo) /\ Len(t) = Len(Opened)
        BY <4>1, WriteProperties
      <4> HIDE DEF t
      <4>4. Close(t, in) \in Seq(PipeInfo)
        BY <4>2, <4>3, CloseProperties
      <4>5. Content(Opened, in) \in SUBSET Tag
        <5>1. in # 0 => Opened[in] \in PipeInfo
          BY <4>1, <4>2
        <5> QED
          BY <5>1 DEF Content, PipeInfo
      <4> QED
        BY <3>2, <4>1, <4>4, <4>5 DEF TypeOK, t
    <3>4. userPipes' \in Seq(UserInfo)
      <4>1. Handled \in Seq(UserInfo) /\ Received \in 0 .. Len(Handled)
        BY <3>1, TurnProperties DEF TypeOK
      <4>2. Received # 0 => RemoveAt(Handled, Received) \in Seq(UserInfo)
        BY <4>1, RemoveAtProperties
      <4> QED
        BY <2>13, <4>1, <4>2 DEF Fork, Close
    <3>5. pc' = "run" \/ pc' = "dead"
      BY <2>13, AfterPlaces DEF Fork
    <3> QED
      BY <2>13, <3>1, <3>3, <3>4, <3>5 DEF Fork, TypeOK, Serving, Online, clients
  <2>14. CASE EndLine
    <3>1. me \in Users /\ me = servingID
      BY <2>14 DEF EndLine, LineEnds, Serving, Online, me
    <3>2. pipes' \in [Users -> Seq(PipeInfo)]
      <4>1. CountDown(pipes[me]) \in Seq(PipeInfo)
        BY <3>1, CountDownProperties DEF TypeOK
      <4> QED
        BY <2>14, <4>1 DEF EndLine, OneLineLess, TypeOK
    <3>3. done' \in [Users -> BOOLEAN] /\ servingID' \in 1 .. N + 1
      BY <2>14, <3>1, Slots DEF EndLine, Owe, NextSlot, TypeOK
    <3>4. cmdList' \in Seq(Cmd) /\ cmdList' = <<>> /\ i' = 1 /\ received' = {}
      BY <2>14 DEF EndLine, Cleared
    <3> QED
      BY <2>14, <3>2, <3>3, <3>4 DEF EndLine, NextSlot, TypeOK, Serving, clients
  <2>15. CASE Logout
    <3>1. me \in Users /\ me = servingID
      BY <2>15 DEF Logout, LineEnds, Serving, Online, me
    <3>2. /\ hasUser' \in [Users -> BOOLEAN] /\ done' \in [Users -> BOOLEAN]
          /\ name' \in [Users -> Argument \cup {NoName}]
          /\ env' \in [Users -> Values \cup {Unset}]
          /\ credit' \in [Users -> Int]
      <4>1. hasUser' \in [Users -> BOOLEAN] /\ done' \in [Users -> BOOLEAN]
        BY <2>15 DEF Logout, Init_userData, TypeOK
      <4>2. name' \in [Users -> Argument \cup {NoName}]
        BY <2>15 DEF Logout, Init_userData, TypeOK
      <4>3. env' \in [Users -> Values \cup {Unset}]
        BY <2>15 DEF Logout, Init_userData, TypeOK
      <4>4. credit' \in [Users -> Int]
        <5>1. credit \in [Users -> Int] /\ credit' = [credit EXCEPT ![me] = 0]
          BY <2>15 DEF Logout, TypeOK
        <5>2. credit' = [v \in Users |-> IF v = me THEN 0 ELSE credit[v]]
          BY <5>1
        <5>3. \A v \in Users : (IF v = me THEN 0 ELSE credit[v]) \in Int
          BY <5>1
        <5> QED
          BY <5>2, <5>3
      <4> QED
        BY <4>1, <4>2, <4>3, <4>4
    <3>3. pipes' \in [Users -> Seq(PipeInfo)]
      <4>1. <<>> \in Seq(PipeInfo)
        OBVIOUS
      <4> QED
        BY <2>15, <4>1 DEF Logout, Init_userData, TypeOK
    <3>4. inbox' \in [Users -> Seq(Lines)] /\ \A v \in Users : Len(inbox'[v]) <= MaxTyped
      BY <2>15, <3>1, EmptiedInbox DEF Logout
    <3>5. cmdList' \in Seq(Cmd) /\ cmdList' = <<>> /\ i' = 1 /\ sweep' = 1 /\ received' = {}
      BY <2>15 DEF Logout, Cleared
    <3>6. byebye' \in BOOLEAN
      BY <2>15, Zenon DEF Logout
    <3> QED
      BY <2>15, <3>1, <3>2, <3>3, <3>4, <3>5, <3>6 DEF Logout, TypeOK, Serving
  <2>16. CASE Sweep
    <3>1. userPipes' \in Seq(UserInfo)
      BY <2>16, RemoveAtProperties DEF Sweep, TypeOK
    <3> QED
      BY <2>16, <3>1 DEF Sweep, TypeOK, Serving, table, commands, clients
  <2>17. CASE EndSession
    <3>1. servingID' \in 1 .. N + 1
      BY <2>17, Slots DEF EndSession, NextSlot, Serving
    <3> QED
      BY <2>17, <3>1 DEF EndSession, NextSlot, TypeOK, Serving, table, commands, clients
  <2>18. CASE UNCHANGED vars
    BY <2>18 DEF vars, table, commands, clients, TypeOK, Serving, Online
  <2> QED
    BY <2>1, <2>2, <2>3, <2>4, <2>5, <2>6, <2>7, <2>8, <2>9, <2>10, <2>11, <2>12, <2>13,
       <2>14, <2>15, <2>16, <2>17, <2>18 DEF Next, Server, Client, Visit, Command
<1> QED
  BY <1>1, <1>2, PTL DEF Spec

\* The type invariant.
THEOREM TypeCorrect == Spec => []TypeOK
BY TypeAndServing, PTL

-----------------------------------------------------------------------------
Unique(p) == \A k, l \in DOMAIN p : p[k] = p[l] => k = l

LEMMA UniqueAfterErasure ==
  ASSUME NEW p \in Seq(UserInfo), NEW j \in 1 .. Len(p), Unique(p)
  PROVE  Unique(RemoveAt(p, j))
<1> DEFINE t == RemoveAt(p, j)
           old(k) == IF k < j THEN k ELSE k + 1
<1>1. /\ t \in Seq(UserInfo) /\ Len(t) = Len(p) - 1
      /\ \A k \in 1 .. Len(p) - 1 : t[k] = IF k < j THEN p[k] ELSE p[k + 1]
  BY RemoveAtProperties
<1> HIDE DEF t
<1>2. Len(p) \in Nat /\ DOMAIN p = 1 .. Len(p)
  OBVIOUS
<1>3. ASSUME NEW k \in DOMAIN t
      PROVE  k \in 1 .. Len(p) - 1 /\ t[k] = p[old(k)] /\ old(k) \in DOMAIN p
  <2>1. k \in 1 .. Len(p) - 1
    BY <1>1
  <2> QED
    BY <1>1, <1>2, <2>1
<1>4. ASSUME NEW k \in DOMAIN t, NEW l \in DOMAIN t, t[k] = t[l] PROVE k = l
  <2>1. old(k) = old(l)
    BY <1>3, <1>4 DEF Unique
  <2> QED
    BY <1>3, <2>1
<1> QED
  BY <1>4 DEF Unique, t

LEMMA UniqueAfterSend ==
  ASSUME TypeOK, Serving, Unique(userPipes), pc = "run", i \in 1 .. Len(cmdList)
  PROVE  Unique(Handled)
<1> DEFINE e == [sourceID |-> me, targetID |-> cmd.send]
           t == Append(userPipes, e)
<1>1. CASE ~Sends
  BY <1>1 DEF Handled
<1>2. CASE Sends
  <2>1. Handled = t /\ PipeAt(me, cmd.send) = 0
    BY <1>2 DEF Handled, Sends
  <2>2. /\ Len(userPipes) \in Nat
        /\ DOMAIN userPipes = 1 .. Len(userPipes)
        /\ DOMAIN t = 1 .. Len(userPipes) + 1
        /\ \A k \in 1 .. Len(userPipes) : t[k] = userPipes[k]
        /\ t[Len(userPipes) + 1] = e
    BY DEF TypeOK
  <2>3. \A k \in 1 .. Len(userPipes) : userPipes[k] # e
    BY <2>1, PipeAtFinds
  <2> HIDE DEF e, t
  <2>4. ASSUME NEW k \in DOMAIN t, NEW l \in DOMAIN t, t[k] = t[l] PROVE k = l
    <3>1. CASE k \in 1 .. Len(userPipes) /\ l \in 1 .. Len(userPipes)
      BY <2>2, <2>4, <3>1 DEF Unique
    <3>2. CASE k = Len(userPipes) + 1 \/ l = Len(userPipes) + 1
      BY <2>2, <2>3, <2>4, <3>2
    <3> QED
      BY <2>2, <3>1, <3>2
  <2> QED
    BY <2>1, <2>4 DEF Unique
<1> QED
  BY <1>1, <1>2

\* Of two user pipes with the same ends one would never be read: there are
\* never two, whoever pipes to whom in whatever order.
THEOREM NeverTwins == Spec => []NoTwins
<1>1. Init => NoTwins
  BY DEF Init, NoTwins
<1>2. TypeOK /\ Serving /\ NoTwins /\ [Next]_vars => NoTwins'
  <2> SUFFICES ASSUME TypeOK, Serving, Unique(userPipes), [Next]_vars
               PROVE  Unique(userPipes')
    BY DEF NoTwins, Unique
  <2>1. CASE UNCHANGED userPipes
    BY <2>1
  <2>2. CASE PrintenvOrWho \/ Setenv \/ Tell \/ Yell \/ Name \/ Exit
    <3>1. pc = "run" /\ i \in 1 .. Len(cmdList)
      BY <2>2 DEF TypeOK, PrintenvOrWho, Setenv, Tell, Yell, Name, Exit, Running
    <3>2. userPipes' = Handled
      BY <2>2, Zenon DEF PrintenvOrWho, Setenv, Tell, Yell, Name, Exit, Builtin
    <3> QED
      BY <3>1, <3>2, UniqueAfterSend
  <2>3. CASE Fork
    <3>1. pc = "run" /\ i \in 1 .. Len(cmdList) /\ userPipes' = Close(Handled, Received)
      BY <2>3 DEF TypeOK, Fork, Running
    <3>2. Unique(Handled) /\ Handled \in Seq(UserInfo) /\ Received \in 0 .. Len(Handled)
      BY <3>1, UniqueAfterSend, TurnProperties DEF TypeOK
    <3>3. CASE Received = 0
      BY <3>1, <3>2, <3>3 DEF Close
    <3>4. CASE Received # 0
      BY <3>1, <3>2, <3>4, UniqueAfterErasure DEF Close
    <3> QED
      BY <3>3, <3>4
  <2>4. CASE Sweep
    BY <2>4, UniqueAfterErasure DEF Sweep, TypeOK
  <2> QED
    BY <2>1, <2>2, <2>3, <2>4
    DEF Next, Server, Client, Visit, Command, Connect, Type, Leave, Select, NewUser,
        PassFree, NoInput, ReadBlank, ReadLine, Rescan, Die, EndLine, Logout, EndSession, vars
<1> QED
  BY <1>1, <1>2, TypeAndServing, PTL DEF Spec

-----------------------------------------------------------------------------
\* A free slot has no name: the strengthening the next theorem needs.
Nameless == \A u \in Users : ~hasUser[u] => name[u] = NoName

\* No two users who are online have the same name.  (A user who takes a name
\* looks only at the others who are online; a slot that is free must not bring
\* a name with it when somebody comes.)
THEOREM NamesStayDistinct == Spec => []NamesDistinct
<1> DEFINE IInv == Nameless /\ NamesDistinct
<1>1. Init => IInv
  BY DEF Init, Nameless, NamesDistinct, Online
<1>2. TypeOK /\ Serving /\ IInv /\ [Next]_vars => IInv'
  <2> SUFFICES ASSUME TypeOK, Serving, Nameless, NamesDistinct, [Next]_vars
               PROVE  IInv'
    OBVIOUS
  <2>1. CASE UNCHANGED <<hasUser, name>>
    BY <2>1 DEF Nameless, NamesDistinct, Online
  <2>2. CASE NewUser
    <3>1. UNCHANGED name /\ \A u \in Users : hasUser[u] => hasUser'[u]
      BY <2>2 DEF NewUser, TypeOK
    <3>2. \A u, v \in Users : name[u] = name[v] /\ name[u] # NoName => u = v
      BY DEF Nameless, NamesDistinct, Online
    <3> QED
      BY <3>1, <3>2 DEF Nameless, NamesDistinct, Online
  <2>3. CASE Name
    <3>1. me \in Users /\ hasUser[me] /\ UNCHANGED hasUser
      BY <2>3, Zenon DEF Name, Running, Builtin, Serving, Online, me
    <3>2. CASE UNCHANGED name
      BY <3>1, <3>2 DEF Nameless, NamesDistinct, Online
    <3>3. CASE ~Taken(cmd.arg) /\ name' = [name EXCEPT ![me] = cmd.arg]
      <4>1. ASSUME NEW u \in Users
            PROVE  /\ u = me => name'[u] = cmd.arg
                   /\ u # me => name'[u] = name[u]
        BY <3>3 DEF TypeOK
      <4>2. \A u \in Online : u # me => name[u] # cmd.arg
        BY <3>3 DEF Taken
      <4> QED
        BY <3>1, <4>1, <4>2 DEF Nameless, NamesDistinct, Online
    <3> QED
      BY <2>3, <3>2, <3>3 DEF Name
  <2>4. CASE Logout
    <3>1. /\ hasUser' = [hasUser EXCEPT ![me] = FALSE]
          /\ name' = [name EXCEPT ![me] = NoName]
      BY <2>4 DEF Logout, Init_userData
    <3>2. ASSUME NEW u \in Users
          PROVE  /\ u = me => name'[u] = NoName
                 /\ u # me => name'[u] = name[u] /\ hasUser'[u] = hasUser[u]
      BY <3>1 DEF TypeOK
    <3> QED
      BY <3>1, <3>2 DEF Nameless, NamesDistinct, Online
  <2> QED
    BY <2>1, <2>2, <2>3, <2>4
    DEF Next, Server, Client, Visit, Command, Connect, Type, Leave, Select, PrintenvOrWho,
        Setenv, Tell, Yell, Exit, Fork, Builtin, PassFree, NoInput, ReadBlank, ReadLine,
        Rescan, Die, EndLine, Sweep, EndSession, vars, table
<1> QED
  BY <1>1, <1>2, TypeAndServing, PTL DEF Spec

-----------------------------------------------------------------------------
\* No two numbered pipes of a user are due at the same line, whatever was
\* typed, and even when two lines were read as one.
THEOREM NeverDueTogether == Spec => []DueDistinct
<1>1. Init => DueDistinct
  BY DEF Init, DueDistinct, Distinct
<1>2. TypeOK /\ Serving /\ DueDistinct /\ [Next]_vars => DueDistinct'
  <2> SUFFICES ASSUME TypeOK, Serving, \A u \in Users : Distinct(pipes[u]), [Next]_vars
               PROVE  \A u \in Users : Distinct(pipes'[u])
    BY DEF DueDistinct
  <2>1. CASE UNCHANGED pipes
    BY <2>1
  <2>2. ASSUME NEW t, pipes' = [pipes EXCEPT ![me] = t], Distinct(t)
        PROVE  \A u \in Users : Distinct(pipes'[u])
    BY <2>2 DEF TypeOK
  <2>3. ASSUME pc = "run", i \in 1 .. Len(cmdList) PROVE Distinct(Opened)
    <3>1. me \in Users /\ cmd \in Cmd
      BY <2>3, TurnProperties
    <3>2. pipes[me] \in Seq(PipeInfo) /\ cmd.lineToPipe \in Nat /\ IsLast \in BOOLEAN
      BY <3>1 DEF TypeOK, Cmd, Segment, IsLast
    <3> QED
      BY <3>1, <3>2, PipeeProperties DEF Opened
  <2>4. CASE PrintenvOrWho \/ Setenv \/ Tell \/ Yell \/ Name \/ Exit
    <3>1. pc = "run" /\ i \in 1 .. Len(cmdList)
      BY <2>4 DEF TypeOK, PrintenvOrWho, Setenv, Tell, Yell, Name, Exit, Running
    <3>2. pipes' = [pipes EXCEPT ![me] = Opened]
      BY <2>4, Zenon DEF PrintenvOrWho, Setenv, Tell, Yell, Name, Exit, Builtin
    <3> QED
      BY <2>2, <2>3, <3>1, <3>2
  <2>5. CASE Fork
    <3>1. pc = "run" /\ i \in 1 .. Len(cmdList)
      BY <2>5 DEF TypeOK, Fork, Running
    <3>2. PICK in, out :
            /\ in = 0 \/ in = FdIn(Opened, i)
            /\ pipes' = [pipes EXCEPT ![me] = Close(Write(Opened, out, cmd.tag), in)]
      BY <2>5 DEF Fork
    <3> DEFINE t == Write(Opened, out, cmd.tag)
    <3>3. Opened \in Seq(PipeInfo) /\ cmd.tag \in Tag /\ in \in 0 .. Len(Opened)
      <4>1. Opened \in Seq(PipeInfo) /\ cmd.tag \in Tag
        BY <3>1, TurnProperties DEF Cmd, Segment
      <4>2. in \in 0 .. Len(Opened)
        BY <3>2, <4>1, FirstWithFinds DEF FdIn
      <4> QED
        BY <4>1, <4>2
    <3>4. t \in Seq(PipeInfo) /\ Len(t) = Len(Opened) /\ Distinct(t)
      BY <2>3, <3>1, <3>3, WriteProperties
    <3>5. Distinct(Close(t, in))
      <4> HIDE DEF t
      <4> QED
        BY <3>3, <3>4, CloseProperties
    <3> QED
      BY <2>2, <3>2, <3>5
  <2>6. CASE EndLine
    <3>1. me \in Users
      BY <2>6 DEF EndLine, LineEnds, Serving, Online, me
    <3>2. Distinct(CountDown(pipes[me]))
      BY <3>1, CountDownProperties DEF TypeOK
    <3>3. pipes' = [pipes EXCEPT ![me] = CountDown(pipes[me])]
      BY <2>6 DEF EndLine, OneLineLess
    <3> QED
      BY <2>2, <3>2, <3>3
  <2>7. CASE Logout
    <3>1. pipes' = [pipes EXCEPT ![me] = <<>>]
      BY <2>7 DEF Logout, Init_userData
    <3>2. Distinct(<<>>)
      BY DEF Distinct
    <3> QED
      BY <2>2, <3>1, <3>2
  <2> QED
    BY <2>1, <2>4, <2>5, <2>6, <2>7
    DEF Next, Server, Client, Visit, Command, Connect, Type, Leave, Select, NewUser,
        PassFree, NoInput, ReadBlank, ReadLine, Rescan, Die, Sweep, EndSession, vars, table
<1> QED
  BY <1>1, <1>2, TypeAndServing, PTL DEF Spec

-----------------------------------------------------------------------------
\* Who comes into a slot finds nothing of the user who had it before.
THEOREM SlotsStayFresh == Spec => []FreshSlot
<1>1. Init => FreshSlot
  BY DEF Init, FreshSlot, Free
<1>2. TypeOK /\ Serving /\ FreshSlot /\ [Next]_vars => FreshSlot'
  <2> SUFFICES ASSUME TypeOK, Serving, FreshSlot, [Next]_vars, NEW u \in Users, ~hasUser'[u]
               PROVE  /\ done'[u] /\ credit'[u] = 0 /\ inbox'[u] = <<>> /\ u \notin gone'
                      /\ name'[u] = NoName /\ env'[u] = Unset /\ pipes'[u] = <<>>
    BY DEF FreshSlot, Free, Online
  <2> DEFINE Fresh == /\ done'[u] /\ credit'[u] = 0 /\ inbox'[u] = <<>> /\ u \notin gone'
                      /\ name'[u] = NoName /\ env'[u] = Unset /\ pipes'[u] = <<>>
             Same == /\ done'[u] = done[u] /\ credit'[u] = credit[u]
                     /\ inbox'[u] = inbox[u] /\ (u \in gone' <=> u \in gone)
                     /\ name'[u] = name[u] /\ env'[u] = env[u] /\ pipes'[u] = pipes[u]
  <2>1. ASSUME ~hasUser[u], Same PROVE Fresh
    BY <2>1 DEF FreshSlot, Free, Online
  <2>2. CASE UNCHANGED <<hasUser, done, credit, inbox, gone, name, env, pipes>>
    BY <2>1, <2>2
  <2>3. ASSUME NEW v \in Users, hasUser[v], UNCHANGED hasUser, u # v => Same
        PROVE  Fresh
    BY <2>1, <2>3
  <2>4. ASSUME NEW v \in Users, Type(v) PROVE Fresh
    BY <2>3, <2>4 DEF Type, table, TypeOK
  <2>5. ASSUME NEW v \in Users, Leave(v) PROVE Fresh
    BY <2>3, <2>5 DEF Leave, table, TypeOK
  <2>6. CASE NewUser
    <3>1. ~hasUser[u]
      BY <2>6 DEF NewUser, TypeOK
    <3> QED
      BY <2>1, <2>6, <3>1 DEF NewUser
  <2>7. ASSUME NEW v \in Users, NoInput(v) PROVE Fresh
    BY <2>3, <2>7 DEF NoInput, Visiting, PayPrompt, TypeOK, clients
  <2>8. ASSUME NEW v \in Users, ReadBlank(v) PROVE Fresh
    BY <2>3, <2>8 DEF ReadBlank, Visiting, PayPrompt, Owe, TypeOK
  <2>9. ASSUME NEW v \in Users, ReadLine(v) PROVE Fresh
    BY <2>3, <2>9 DEF ReadLine, Visiting, PayPrompt, TypeOK
  <2>10. ASSUME pc = "run" PROVE me \in Users /\ hasUser[me]
    BY <2>10 DEF Serving, Online, me
  <2>11. CASE PrintenvOrWho \/ Setenv \/ Tell \/ Yell \/ Name \/ Exit
    <3>1. pc = "run" /\ \E heard : Builtin(heard)
      BY <2>11, Zenon DEF PrintenvOrWho, Setenv, Tell, Yell, Name, Exit, Running
    <3>2. /\ UNCHANGED <<hasUser, done, credit, inbox, gone>>
          /\ pipes' = [pipes EXCEPT ![me] = Opened]
      BY <3>1 DEF Builtin, clients
    <3>3. u # me => name'[u] = name[u] /\ env'[u] = env[u]
      BY <2>11 DEF PrintenvOrWho, Setenv, Tell, Yell, Name, Exit, TypeOK
    <3>4. u # me => Same
      BY <3>2, <3>3 DEF TypeOK
    <3> QED
      BY <2>3, <2>10, <3>1, <3>2, <3>4
  <2>12. CASE Fork
    <3>1. PICK t : pipes' = [pipes EXCEPT ![me] = t]
      BY <2>12 DEF Fork
    <3>2. pc = "run" /\ UNCHANGED <<hasUser, done, credit, inbox, gone, name, env>>
      BY <2>12 DEF Fork, Running, clients
    <3> QED
      BY <2>3, <2>10, <3>1, <3>2 DEF TypeOK
  <2>13. CASE EndLine
    <3>1. pc = "run" /\ UNCHANGED <<hasUser, credit, inbox, gone, name, env>>
      BY <2>13 DEF EndLine, LineEnds, clients
    <3>2. u # me => done'[u] = done[u] /\ pipes'[u] = pipes[u]
      BY <2>13 DEF EndLine, OneLineLess, Owe, TypeOK
    <3> QED
      BY <2>3, <2>10, <3>1, <3>2
  <2>14. CASE Logout
    <3>1. me \in Users
      BY <2>10, <2>14 DEF Logout, LineEnds
    <3>2. CASE u = me
      BY <2>14, <3>1, <3>2 DEF Logout, Init_userData, TypeOK
    <3>3. CASE u # me
      <4>1. ~hasUser[u]
        BY <2>14, <3>3 DEF Logout, Init_userData, TypeOK
      <4>2. Same
        BY <2>14, <3>3 DEF Logout, Init_userData, TypeOK
      <4> QED
        BY <2>1, <4>1, <4>2
    <3> QED
      BY <3>2, <3>3
  <2> QED
    BY <2>2, <2>4, <2>5, <2>6, <2>7, <2>8, <2>9, <2>11, <2>12, <2>13, <2>14
    DEF Next, Server, Client, Visit, Command, Connect, Select, PassFree, Rescan, Die,
        Sweep, EndSession, vars, table, clients
<1> QED
  BY <1>1, <1>2, TypeAndServing, PTL DEF Spec

-----------------------------------------------------------------------------
\* What builtins leave alone.
LEMMA BuiltinLeaves ==
  ASSUME PrintenvOrWho \/ Setenv \/ Tell \/ Yell \/ Name \/ Exit
  PROVE  /\ pc = "run" /\ pc' \in {"run", "dead"}
         /\ UNCHANGED <<hasUser, done, servingID, readfds, inbox, gone, credit>>
<1>1. pc = "run" /\ \E heard : Builtin(heard)
  BY Zenon DEF PrintenvOrWho, Setenv, Tell, Yell, Name, Exit, Running
<1> QED
  BY <1>1 DEF Builtin, After, clients

\* While a line is run the process has the environment of the line's user, who
\* may set it on the way.
THEOREM EnvironmentIsOwn == Spec => []OwnEnvironment
<1>1. Init => OwnEnvironment
  BY DEF Init, OwnEnvironment
<1>2. TypeOK /\ Serving /\ OwnEnvironment /\ [Next]_vars => OwnEnvironment'
  <2> SUFFICES ASSUME TypeOK, Serving, OwnEnvironment, [Next]_vars, pc' = "run"
               PROVE  processEnv' = env'[servingID']
    BY DEF OwnEnvironment
  <2>1. CASE pc = "run" /\ UNCHANGED <<env, processEnv, servingID>>
    BY <2>1 DEF OwnEnvironment
  <2>2. ASSUME NEW u \in Users, ReadLine(u) PROVE processEnv' = env'[servingID']
    BY <2>2 DEF ReadLine, Visiting, Init_shell
  <2>3. CASE Setenv
    <3>1. pc = "run" /\ UNCHANGED servingID /\ servingID \in Users
      BY <2>3, BuiltinLeaves DEF Serving, Online
    <3>2. \/ env' = [env EXCEPT ![servingID] = cmd.arg] /\ processEnv' = cmd.arg
          \/ UNCHANGED <<env, processEnv>>
      BY <2>3 DEF Setenv, me
    <3> QED
      BY <3>1, <3>2 DEF OwnEnvironment, TypeOK
  <2>4. CASE PrintenvOrWho \/ Tell \/ Yell \/ Name \/ Exit
    <3>1. UNCHANGED <<env, processEnv>>
      BY <2>4, Zenon DEF PrintenvOrWho, Tell, Yell, Name, Exit
    <3> QED
      BY <2>1, <2>4, <3>1, BuiltinLeaves
  <2>5. CASE Fork
    BY <2>1, <2>5 DEF Fork, Running
  <2> QED
    BY <2>1, <2>2, <2>3, <2>4, <2>5
    DEF Next, Server, Client, Visit, Command, Connect, Type, Leave, Select, NewUser, PassFree,
        NoInput, ReadBlank, Rescan, Die, EndLine, NextSlot, Logout, Sweep, EndSession,
        After, vars, table
<1> QED
  BY <1>1, <1>2, TypeAndServing, PTL DEF Spec

-----------------------------------------------------------------------------
\* What select has seen and the loop has not come to is still there to be read.
Ready(u) == hasUser[u] /\ (inbox[u] # <<>> \/ u \in gone)
ToCome(u) ==
  pc \notin {"select", "dead"} /\ u \in readfds
    /\ (u > servingID \/ (u = servingID /\ pc \in {"accept", "visit"}))
StillReady == \A u \in Users : ToCome(u) => Ready(u)

\* A read never blocks: nobody but the visited user's own line takes input away
\* or logs a user out.
THEOREM ReadsDoNotBlock == Spec => []ReadNeverBlocks
<1>1. Init => StillReady
  BY DEF Init, StillReady, ToCome
<1>2. TypeOK /\ Serving /\ StillReady /\ [Next]_vars => StillReady'
  <2> SUFFICES ASSUME TypeOK, Serving, StillReady, [Next]_vars, NEW u \in Users, ToCome(u)'
               PROVE  Ready(u)'
    BY DEF StillReady
  <2>1. ASSUME ToCome(u), hasUser[u] => hasUser'[u], inbox[u] # <<>> => inbox'[u] # <<>>,
               u \in gone => u \in gone'
        PROVE  Ready(u)'
    BY <2>1 DEF StillReady, Ready
  <2>2. CASE Select
    BY <2>2 DEF Select, Readable, Online, Ready, ToCome, table, clients
  <2>3. CASE UNCHANGED <<hasUser, inbox, gone, readfds, servingID, pc>>
    BY <2>1, <2>3 DEF ToCome
  <2>4. ASSUME NEW v \in Users, Type(v) PROVE Ready(u)'
    <3>1. ToCome(u) /\ UNCHANGED <<hasUser, gone>>
      BY <2>4 DEF Type, ToCome, table
    <3>2. PICK l \in Lines : inbox' = [inbox EXCEPT ![v] = Append(inbox[v], l)]
      BY <2>4 DEF Type
    <3>3. inbox[v] \in Seq(Lines)
      BY DEF TypeOK
    <3>4. Append(inbox[v], l) # <<>>
      BY <3>3
    <3>5. inbox[u] # <<>> => inbox'[u] # <<>>
      BY <3>2, <3>4 DEF TypeOK
    <3> QED
      BY <2>1, <3>1, <3>5
  <2>5. ASSUME NEW v \in Users, Leave(v) PROVE Ready(u)'
    BY <2>1, <2>5 DEF Leave, ToCome, table
  <2>6. CASE NewUser
    <3>1. ToCome(u) /\ UNCHANGED <<inbox, gone>>
      BY <2>6 DEF NewUser, ToCome, After
    <3>2. hasUser[u] => hasUser'[u]
      BY <2>6 DEF NewUser, TypeOK
    <3> QED
      BY <2>1, <3>1, <3>2
  <2>7. CASE PassFree
    BY <2>1, <2>7 DEF PassFree, ToCome, TypeOK, table, clients, Users
  <2>8. ASSUME NEW v \in Users, NoInput(v) PROVE Ready(u)'
    BY <2>1, <2>8 DEF NoInput, Visiting, ToCome, After, Users, clients
  <2>9. ASSUME NEW v \in Users, ReadBlank(v) PROVE Ready(u)'
    <3>1. ToCome(u) /\ u # v /\ UNCHANGED <<hasUser, gone>>
      BY <2>9 DEF ReadBlank, Visiting, ToCome, After, Users
    <3>2. inbox'[u] = inbox[u]
      BY <2>9, <3>1 DEF ReadBlank, TypeOK
    <3> QED
      BY <2>1, <3>1, <3>2
  <2>10. ASSUME NEW v \in Users, ReadLine(v) PROVE Ready(u)'
    <3>1. ToCome(u) /\ u # v /\ UNCHANGED <<hasUser, gone>>
      BY <2>10 DEF ReadLine, Visiting, ToCome, After, Users
    <3>2. inbox'[u] = inbox[u]
      BY <2>10, <3>1 DEF ReadLine, TypeOK
    <3> QED
      BY <2>1, <3>1, <3>2
  <2>11. CASE PrintenvOrWho \/ Setenv \/ Tell \/ Yell \/ Name \/ Exit
    BY <2>1, <2>11, BuiltinLeaves DEF ToCome
  <2>12. CASE Fork
    BY <2>1, <2>12 DEF Fork, Running, After, ToCome, clients
  <2>13. CASE EndLine
    <3>1. ToCome(u) /\ UNCHANGED <<hasUser, inbox, gone>>
      BY <2>13 DEF EndLine, LineEnds, NextSlot, ToCome, TypeOK, Users, clients
    <3> QED
      BY <2>1, <3>1
  <2>14. CASE Logout
    <3>1. ToCome(u) /\ u # me
      BY <2>14 DEF Logout, LineEnds, ToCome, me, Users
    <3>2. hasUser'[u] = hasUser[u] /\ inbox'[u] = inbox[u] /\ (u \in gone => u \in gone')
      BY <2>14, <3>1 DEF Logout, Init_userData, TypeOK
    <3> QED
      BY <2>1, <3>1, <3>2
  <2>15. CASE EndSession
    <3>1. ToCome(u) /\ UNCHANGED <<hasUser, inbox, gone>>
      BY <2>15 DEF EndSession, NextSlot, ToCome, TypeOK, Users, table, clients
    <3> QED
      BY <2>1, <3>1
  <2> QED
    BY <2>2, <2>3, <2>4, <2>5, <2>6, <2>7, <2>8, <2>9, <2>10, <2>11, <2>12, <2>13, <2>14, <2>15
    DEF Next, Server, Client, Visit, Command, Connect, Rescan, Die, Sweep, ToCome, vars, table, clients
<1>3. TypeOK /\ StillReady => ReadNeverBlocks
  BY DEF StillReady, ToCome, Ready, ReadNeverBlocks, TypeOK, Users
<1> QED
  BY <1>1, <1>2, <1>3, TypeAndServing, PTL DEF Spec

-----------------------------------------------------------------------------
\* Prompts and reads are in balance.
PromptDue(u) == done[u] \/ (pc = "run" /\ u = servingID)
Balanced == pc # "dead" => \A u \in Users : hasUser[u] => credit[u] = IF PromptDue(u) THEN 0 ELSE 1

\* A user has one prompt for each read, and one more once it has been sent: no
\* path through a line forgets it, and none sends it twice.
THEOREM PromptsBalance == Spec => []OnePrompt
<1>1. Init => Balanced
  BY DEF Init, Balanced
<1>2. TypeOK /\ Serving /\ FreshSlot /\ Balanced /\ [Next]_vars => Balanced'
  <2> SUFFICES ASSUME TypeOK, Serving, FreshSlot, Balanced, [Next]_vars, pc' # "dead",
                      NEW u \in Users, hasUser'[u]
               PROVE  credit'[u] = IF PromptDue(u)' THEN 0 ELSE 1
    BY DEF Balanced
  <2> DEFINE Due == credit'[u] = IF PromptDue(u)' THEN 0 ELSE 1
  <2>1. ASSUME pc # "dead", hasUser[u], credit'[u] = credit[u], PromptDue(u)' <=> PromptDue(u)
        PROVE  Due
    BY <2>1 DEF Balanced
  <2>2. CASE pc # "dead" /\ UNCHANGED <<hasUser, done, credit, servingID, pc>>
    BY <2>1, <2>2 DEF PromptDue
  <2>3. CASE (Select \/ Rescan \/ EndSession) /\ pc # "run" /\ pc' # "run"
    BY <2>1, <2>3 DEF Select, Rescan, EndSession, PromptDue, table
  <2>4. CASE NewUser
    <3>1. pc = "accept" /\ pc' # "run" /\ UNCHANGED <<done, credit>>
      BY <2>4 DEF NewUser, After
    <3>2. CASE hasUser[u]
      BY <2>1, <3>1, <3>2 DEF PromptDue
    <3>3. CASE ~hasUser[u]
      BY <3>1, <3>3 DEF FreshSlot, Free, Online, PromptDue
    <3> QED
      BY <3>2, <3>3
  <2>5. CASE PassFree
    BY <2>1, <2>5 DEF PassFree, PromptDue, table
  <2>6. ASSUME NEW v \in Users, NoInput(v) \/ ReadBlank(v) \/ ReadLine(v) PROVE Due
    <3>1. pc = "visit" /\ servingID = v /\ hasUser[v] /\ UNCHANGED hasUser
      BY <2>6 DEF NoInput, ReadBlank, ReadLine, Visiting
    <3>2. PICK reads \in {0, 1} : PayPrompt(v, reads) /\ (reads = 0 <=> NoInput(v))
      <4>1. CASE NoInput(v)
        BY <4>1 DEF NoInput
      <4>2. CASE ReadBlank(v) \/ ReadLine(v)
        BY <4>2 DEF NoInput, ReadBlank, ReadLine
      <4> QED
        BY <2>6, <4>1, <4>2
    <3>3. credit \in [Users -> Int]
      BY DEF TypeOK
    <3>4. credit[v] = IF done[v] THEN 0 ELSE 1
      BY <3>1 DEF Balanced, PromptDue
    <3>5. credit'[v] = 1 - reads /\ \A w \in Users \ {v} : credit'[w] = credit[w]
      BY <3>2, <3>3, <3>4 DEF PayPrompt
    <3>6. \A w \in Users \ {v} : done'[w] = done[w] /\ (PromptDue(w)' <=> PromptDue(w))
      BY <2>6, <3>1 DEF NoInput, ReadBlank, ReadLine, Owe, TypeOK, PromptDue, After
    <3>7. CASE u # v
      BY <2>1, <3>1, <3>5, <3>6, <3>7
    <3>8. CASE u = v
      <4>1. PromptDue(v)' <=> reads = 1
        BY <2>6, <3>1, <3>2 DEF NoInput, ReadBlank, ReadLine, Owe, TypeOK, PromptDue, After
      <4> QED
        BY <3>2, <3>5, <3>8, <4>1
    <3> QED
      BY <3>7, <3>8
  <2>7. CASE PrintenvOrWho \/ Setenv \/ Tell \/ Yell \/ Name \/ Exit
    BY <2>1, <2>7, BuiltinLeaves DEF PromptDue
  <2>8. CASE Fork
    BY <2>1, <2>8 DEF Fork, Running, After, PromptDue
  <2>9. CASE EndLine
    <3>1. /\ pc = "run" /\ pc' = "visit" /\ UNCHANGED <<hasUser, credit>>
          /\ done' = [done EXCEPT ![servingID] = TRUE]
      BY <2>9 DEF EndLine, LineEnds, NextSlot, Owe, me
    <3>2. PromptDue(u)' <=> PromptDue(u)
      BY <3>1 DEF PromptDue, TypeOK
    <3> QED
      BY <2>1, <3>1, <3>2
  <2>10. CASE Logout
    <3>1. /\ pc = "run" /\ pc' = "sweep"
          /\ hasUser' = [hasUser EXCEPT ![servingID] = FALSE]
          /\ done' = [done EXCEPT ![servingID] = TRUE]
          /\ credit' = [credit EXCEPT ![servingID] = 0]
      BY <2>10 DEF Logout, LineEnds, Init_userData, me
    <3>2. u # servingID /\ hasUser[u]
      BY <3>1 DEF TypeOK
    <3> QED
      BY <2>1, <3>1, <3>2 DEF PromptDue, TypeOK
  <2> QED
    BY <2>2, <2>3, <2>4, <2>5, <2>6, <2>7, <2>8, <2>9, <2>10
    DEF Next, Server, Client, Visit, Command, Connect, Type, Leave, Select, Rescan, Die,
        Sweep, EndSession, NextSlot, vars, table
<1>3. Balanced => OnePrompt
  BY DEF Balanced, PromptDue, OnePrompt, Online
<1> QED
  BY <1>1, <1>2, <1>3, TypeAndServing, SlotsStayFresh, PTL DEF Spec

-----------------------------------------------------------------------------
(* What OutputKept rests on, as in the shell of Project 1: the command on  *)
(* the left of the next one has a mark, also where two lines were read as  *)
(* one, and has left an ordinary pipe behind, be it its own or, after >n   *)
(* or <n, one that nobody reads.                                           *)
MarksBetween ==
  pc = "run" => \A j \in 1 .. Len(cmdList) - 1 : cmdList[j].mark # NoMark
LeftPipe ==
  pc = "run" /\ 1 < i /\ i <= Len(cmdList)
    => \E j \in 1 .. Len(pipes[me]) : pipes[me][j].count = -1

\* What a program reads and writes besides user pipes.
ForkIn == IF cmd.receive > 0 THEN 0 ELSE FdIn(Opened, i)
ForkOut == IF cmd.send > 0 THEN 0 ELSE FdOut(Opened, cmd, IsLast)

\* The pipe a command opens is in the table after it.
LEMMA OutIsKept ==
  ASSUME TypeOK, Serving, LeftPipe, pc = "run", i \in 1 .. Len(cmdList), cmd.mark # NoMark
  PROVE  /\ Opened \in Seq(PipeInfo) /\ ForkIn \in 0 .. Len(Opened)
         /\ FdOut(Opened, cmd, IsLast) \in 1 .. Len(Opened)
         /\ Opened[FdOut(Opened, cmd, IsLast)].count = OutCount(cmd, IsLast)
         /\ FdOut(Opened, cmd, IsLast) # ForkIn
<1>1. /\ me \in Users /\ cmd \in Cmd /\ Opened \in Seq(PipeInfo)
      /\ pipes[me] \in Seq(PipeInfo)
      /\ i \in Nat \ {0}
  BY TurnProperties DEF TypeOK
<1>2. cmd.lineToPipe \in Nat /\ IsLast \in BOOLEAN
  BY <1>1 DEF Cmd, Segment, IsLast
<1>3. i > 1 => \E j \in 1 .. Len(pipes[me]) : pipes[me][j].count = -1
  BY DEF LeftPipe
<1>4. /\ FdOut(Opened, cmd, IsLast) \in 1 .. Len(Opened)
      /\ Opened[FdOut(Opened, cmd, IsLast)].count = OutCount(cmd, IsLast)
      /\ FdOut(Opened, cmd, IsLast) # FdIn(Opened, i)
  BY <1>1, <1>2, <1>3, InIsNotOut DEF Opened
<1>5. FdIn(Opened, i) \in 0 .. Len(Opened)
  <2> DEFINE o == Opened
             d == IF i = 1 THEN 0 ELSE -1
  <2>1. o \in Seq(PipeInfo) /\ d \in Int /\ FdIn(Opened, i) = FirstWith(o, d)
    BY <1>1 DEF FdIn
  <2> HIDE DEF o, d
  <2>2. FdIn(Opened, i) \in 0 .. Len(o)
    BY <2>1, FirstWithFinds
  <2> QED
    BY <2>2 DEF o
<1>6. ForkIn = 0 \/ ForkIn = FdIn(Opened, i)
  BY DEF ForkIn
<1> QED
  BY <1>1, <1>4, <1>5, <1>6

LEMMA ForkKeepsOutput ==
  ASSUME TypeOK, Serving, LeftPipe, Fork, cmd.mark # NoMark
  PROVE  \E j \in 1 .. Len(pipes'[me]) :
           /\ pipes'[me][j].count = OutCount(cmd, IsLast)
           /\ cmd.send = 0 => cmd.tag \in pipes'[me][j].from
<1>1. pc = "run" /\ i \in 1 .. Len(cmdList)
      /\ pipes' = [pipes EXCEPT ![me] = Close(Write(Opened, ForkOut, cmd.tag), ForkIn)]
  BY DEF TypeOK, Fork, Running, ForkIn, ForkOut
<1>2. me \in Users /\ cmd.tag \in Tag
  BY <1>1, TurnProperties DEF Cmd, Segment
<1> DEFINE o == Opened
           w == ForkOut
           r == ForkIn
           k == FdOut(Opened, cmd, IsLast)
           tag == cmd.tag
           t == Close(Write(o, w, tag), r)
<1>3. o \in Seq(PipeInfo) /\ r \in 0 .. Len(o) /\ k \in 1 .. Len(o) /\ k # r
      /\ o[k].count = OutCount(cmd, IsLast)
  BY <1>1, OutIsKept
<1>4. cmd.send = 0 => w = k
  BY DEF ForkOut
<1>5. pipes'[me] = t
  BY <1>1, <1>2 DEF TypeOK
<1>6. tag \in Tag
  BY <1>2
<1> HIDE DEF o, w, r, k, tag
<1>7. \E j \in 1 .. Len(t) : t[j].count = o[k].count /\ (w = k => tag \in t[j].from)
  BY <1>3, <1>6, OthersStay
<1> QED
  BY <1>3, <1>4, <1>5, <1>7 DEF tag

LEMMA LeftPipeAlways == Spec => [](MarksBetween /\ LeftPipe)
<1>1. Init => MarksBetween /\ LeftPipe
  BY DEF Init, MarksBetween, LeftPipe
<1>2. TypeOK /\ Serving /\ MarksBetween /\ LeftPipe /\ TypeOK' /\ [Next]_vars
        => MarksBetween' /\ LeftPipe'
  <2> SUFFICES ASSUME TypeOK, Serving, MarksBetween, LeftPipe, TypeOK', [Next]_vars, pc' = "run"
               PROVE  MarksBetween' /\ LeftPipe'
    BY DEF MarksBetween, LeftPipe
  <2>1. CASE UNCHANGED <<pc, cmdList, i, pipes, servingID>>
    BY <2>1 DEF MarksBetween, LeftPipe, me
  <2>2. ASSUME NEW u \in Users, ReadLine(u) PROVE MarksBetween' /\ LeftPipe'
    <3>1. /\ inbox[u] \in Seq(Lines) /\ inbox[u] # <<>> /\ Len(inbox[u]) <= MaxTyped
          /\ cmdList' = Input(Text(inbox[u])) /\ i' = 1
      BY <2>2 DEF ReadLine, TypeOK
    <3>2. Len(inbox[u]) \in 1 .. MaxTyped /\ inbox[u] \in [1 .. Len(inbox[u]) -> Lines]
      BY <3>1, Slots
    <3> QED
      BY <3>1, <3>2, RwgAssumption DEF MarksBetween, LeftPipe
  <2>3. CASE PrintenvOrWho \/ Setenv \/ Tell \/ Yell \/ Name \/ Exit \/ Fork
    <3>1. /\ pc = "run" /\ i \in 1 .. Len(cmdList)
          /\ i' = i + 1 /\ UNCHANGED <<cmdList, servingID>>
      <4>1. CASE Fork
        BY <4>1 DEF TypeOK, Fork, Running
      <4>2. CASE PrintenvOrWho \/ Setenv \/ Tell \/ Yell \/ Name \/ Exit
        <5>1. pc = "run" /\ i <= Len(cmdList) /\ \E heard : Builtin(heard)
          BY <4>2, Zenon DEF PrintenvOrWho, Setenv, Tell, Yell, Name, Exit, Running
        <5> QED
          BY <5>1 DEF Builtin, TypeOK
      <4> QED
        BY <2>3, <4>1, <4>2
    <3>2. MarksBetween'
      BY <3>1 DEF MarksBetween
    <3>3. ASSUME i' <= Len(cmdList')
          PROVE  \E j \in 1 .. Len(pipes'[me]) : pipes'[me][j].count = -1
      <4>1. cmd.mark # NoMark /\ ~IsLast
        BY <3>1, <3>3 DEF TypeOK, MarksBetween, IsLast, cmd
      <4>2. OutCount(cmd, IsLast) = -1
        BY <4>1 DEF OutCount
      <4>3. CASE Fork
        BY <4>1, <4>2, <4>3, ForkKeepsOutput
      <4>4. CASE PrintenvOrWho \/ Setenv \/ Tell \/ Yell \/ Name \/ Exit
        <5>1. pipes' = [pipes EXCEPT ![me] = Opened]
          BY <4>4, Zenon DEF PrintenvOrWho, Setenv, Tell, Yell, Name, Exit, Builtin
        <5>2. me \in Users
          BY <3>1, TurnProperties
        <5>3. pipes'[me] = Opened
          BY <5>1, <5>2 DEF TypeOK
        <5> QED
          BY <3>1, <4>1, <4>2, <5>3, OutIsKept
      <4> QED
        BY <2>3, <4>3, <4>4
    <3>4. me' = me
      BY <3>1 DEF me
    <3> QED
      BY <3>2, <3>3, <3>4 DEF LeftPipe
  <2> QED
    BY <2>1, <2>2, <2>3
    DEF Next, Server, Client, Visit, Command, Connect, Type, Leave, Select, NewUser, PassFree,
        NoInput, ReadBlank, Rescan, Die, EndLine, NextSlot, Logout, Sweep, EndSession,
        After, vars, table, commands
<1> QED
  BY <1>1, <1>2, TypeAndServing, PTL DEF Spec

\* No program's output is lost on its way into a pipe of its user, whatever else
\* is on the line: user pipes, builtins, a second line read with it.
THEOREM OutputNeverLost == Spec => OutputKept
<1>1. TypeOK /\ Serving /\ LeftPipe /\ TypeOK' /\ [Next]_vars
        => [Fork /\ cmd.mark # NoMark /\ cmd.send = 0
              => \E j \in DOMAIN pipes[me]' :
                   /\ cmd.tag \in pipes'[me][j].from
                   /\ pipes'[me][j].count = OutCount(cmd, IsLast)]_vars
  <2> SUFFICES ASSUME TypeOK, Serving, LeftPipe, TypeOK', Fork, cmd.mark # NoMark, cmd.send = 0
               PROVE  \E j \in DOMAIN pipes[me]' :
                        /\ cmd.tag \in pipes'[me][j].from
                        /\ pipes'[me][j].count = OutCount(cmd, IsLast)
    OBVIOUS
  <2>1. me' = me /\ me \in Users
    <3>1. pc = "run" /\ i \in 1 .. Len(cmdList) /\ servingID' = servingID
      BY DEF Fork, Running, TypeOK
    <3> QED
      BY <3>1, TurnProperties DEF me
  <2>2. PICK j \in 1 .. Len(pipes'[me]) :
          /\ pipes'[me][j].count = OutCount(cmd, IsLast)
          /\ cmd.tag \in pipes'[me][j].from
    BY ForkKeepsOutput
  <2>3. j \in DOMAIN pipes'[me]
    BY <2>1, <2>2 DEF TypeOK
  <2> QED
    BY <2>1, <2>2, <2>3
<1> QED
  BY <1>1, LeftPipeAlways, TypeAndServing, PTL DEF Spec, OutputKept

-----------------------------------------------------------------------------
\* An erasure takes one user pipe and leaves all others.
LEMMA OnlyOneErased ==
  ASSUME NEW p \in Seq(UserInfo), NEW j \in 1 .. Len(p), NEW x \in ToSet(p)
  PROVE  x = p[j] \/ x \in ToSet(RemoveAt(p, j))
<1> DEFINE t == RemoveAt(p, j)
<1>1. /\ t \in Seq(UserInfo) /\ Len(t) = Len(p) - 1
      /\ \A k \in 1 .. Len(p) - 1 : t[k] = IF k < j THEN p[k] ELSE p[k + 1]
  BY RemoveAtProperties
<1>2. PICK k \in 1 .. Len(p) : x = p[k]
  BY DEF ToSet
<1>3. Len(p) \in Nat
  OBVIOUS
<1> HIDE DEF t
<1>4. CASE k < j
  <2>1. k \in 1 .. Len(p) - 1 /\ t[k] = x
    BY <1>1, <1>2, <1>3, <1>4
  <2> QED
    BY <1>1, <2>1 DEF ToSet, t
<1>5. CASE k > j
  <2>1. k - 1 \in 1 .. Len(p) - 1 /\ t[k - 1] = x
    BY <1>1, <1>2, <1>3, <1>5
  <2> QED
    BY <1>1, <2>1 DEF ToSet, t
<1>6. CASE k = j
  BY <1>2, <1>6
<1> QED
  BY <1>3, <1>4, <1>5, <1>6

\* The search finds a pipe with the ends it is given.
LEMMA PipeAtEnds ==
  ASSUME TypeOK, NEW s, NEW r, PipeAt(s, r) # 0
  PROVE  userPipes[PipeAt(s, r)].sourceID = s /\ userPipes[PipeAt(s, r)].targetID = r
<1> DEFINE found == {j \in DOMAIN userPipes :
                       userPipes[j].sourceID = s /\ userPipes[j].targetID = r}
<1>1. PipeAt(s, r) = Min(found) /\ found # {}
  BY DEF PipeAt
<1>2. found \subseteq Nat
  BY DEF TypeOK
<1>3. Min(found) \in found
  <2> HIDE DEF found
  <2> QED
    BY <1>1, <1>2, MinOfNaturals
<1> QED
  BY <1>1, <1>3

\* A send leaves the user pipes there are.
LEMMA HandledKeeps ==
  ASSUME TypeOK
  PROVE  /\ ToSet(userPipes) \subseteq ToSet(Handled)
         /\ \A j \in 1 .. Len(userPipes) : Handled[j] = userPipes[j]
<1> DEFINE e == [sourceID |-> me, targetID |-> cmd.send]
           t == Append(userPipes, e)
<1>1. DOMAIN userPipes = 1 .. Len(userPipes) /\ Len(userPipes) \in Nat
  BY DEF TypeOK
<1>2. DOMAIN t = 1 .. Len(userPipes) + 1 /\ \A j \in 1 .. Len(userPipes) : t[j] = userPipes[j]
  BY DEF TypeOK
<1> HIDE DEF e, t
<1>3. ToSet(userPipes) \subseteq ToSet(t)
  BY <1>1, <1>2 DEF ToSet
<1>4. Handled = t \/ Handled = userPipes
  BY DEF Handled, t, e
<1> QED
  BY <1>2, <1>3, <1>4

\* Nobody's user pipe is closed but by a program of its target that reads it or
\* at the logout of one of its ends.
THEOREM OnlyEndsClose == Spec => ClosedByItsEnds
<1> DEFINE Allowed(p) ==
             \/ p \in ToSet(userPipes')
             \/ pc = "run" /\ cmd.kind = "exec" /\ me = p.targetID /\ cmd.receive = p.sourceID
             \/ pc = "sweep" /\ About(p)
<1>1. TypeOK /\ Serving /\ [Next]_vars => [\A p \in ToSet(userPipes) : Allowed(p)]_vars
  <2> SUFFICES ASSUME TypeOK, Serving, Next, NEW p \in ToSet(userPipes) PROVE Allowed(p)
    BY DEF vars
  <2>1. CASE UNCHANGED userPipes
    BY <2>1
  <2>2. CASE PrintenvOrWho \/ Setenv \/ Tell \/ Yell \/ Name \/ Exit
    <3>1. userPipes' = Handled
      BY <2>2, Zenon DEF PrintenvOrWho, Setenv, Tell, Yell, Name, Exit, Builtin
    <3> QED
      BY <3>1, HandledKeeps
  <2>3. CASE Fork
    <3>1. /\ pc = "run" /\ i \in 1 .. Len(cmdList) /\ cmd.kind = "exec"
          /\ userPipes' = Close(Handled, Received)
      BY <2>3 DEF TypeOK, Fork, Running
    <3>2. /\ Handled \in Seq(UserInfo) /\ Received \in 0 .. Len(userPipes)
          /\ Len(userPipes) <= Len(Handled) /\ Len(userPipes) \in Nat /\ Len(Handled) \in Nat
      BY <3>1, TurnProperties DEF TypeOK
    <3>3. p \in ToSet(Handled) /\ \A j \in 1 .. Len(userPipes) : Handled[j] = userPipes[j]
      BY HandledKeeps
    <3>4. CASE Received = 0
      BY <3>1, <3>3, <3>4 DEF Close
    <3>5. CASE Received # 0
      <4>1. Received \in 1 .. Len(Handled) /\ userPipes' = RemoveAt(Handled, Received)
        BY <3>1, <3>2, <3>5 DEF Close
      <4>2. p = Handled[Received] \/ p \in ToSet(userPipes')
        BY <3>2, <3>3, <4>1, OnlyOneErased
      <4>3. Received = PipeAt(cmd.receive, me)
        BY <3>5 DEF Received
      <4>4. userPipes[Received].sourceID = cmd.receive /\ userPipes[Received].targetID = me
        BY <3>5, <4>3, PipeAtEnds
      <4>5. Handled[Received] = userPipes[Received]
        BY <3>2, <3>3, <3>5
      <4> QED
        BY <3>1, <4>2, <4>4, <4>5
    <3> QED
      BY <3>4, <3>5
  <2>4. CASE Sweep
    <3>1. CASE About(userPipes[sweep])
      <4>1. /\ sweep \in 1 .. Len(userPipes) /\ userPipes \in Seq(UserInfo)
            /\ userPipes' = RemoveAt(userPipes, sweep) /\ pc = "sweep"
        BY <2>4, <3>1 DEF Sweep, TypeOK
      <4>2. p = userPipes[sweep] \/ p \in ToSet(userPipes')
        BY <4>1, OnlyOneErased
      <4> QED
        BY <3>1, <4>1, <4>2
    <3>2. CASE ~About(userPipes[sweep])
      BY <2>4, <3>2 DEF Sweep
    <3> QED
      BY <3>1, <3>2
  <2> QED
    BY <2>1, <2>2, <2>3, <2>4
    DEF Next, Server, Client, Visit, Command, Connect, Type, Leave, Select, NewUser,
        PassFree, NoInput, ReadBlank, ReadLine, Rescan, Die, EndLine, Logout, EndSession
<1> QED
  BY <1>1, TypeAndServing, PTL DEF Spec, ClosedByItsEnds

-----------------------------------------------------------------------------
(* Each user's numbered pipes implement the promise. *)

\* Between two lines the command loop is at its beginning, and during a line
\* the server knows whether exit has been said.
Said == \E j \in 1 .. Len(cmdList) : j < i /\ cmdList[j].kind = "exit"
ByeSaid ==
  /\ pc \notin {"run", "dead"} => i = 1 /\ byebye = FALSE
  /\ pc = "run" => byebye = Said

LEMMA ByeSaidAlways == Spec => []ByeSaid
<1>1. Init => ByeSaid
  BY DEF Init, ByeSaid
<1>2. TypeOK /\ Serving /\ ByeSaid /\ [Next]_vars => ByeSaid'
  <2> SUFFICES ASSUME TypeOK, Serving, ByeSaid, [Next]_vars PROVE ByeSaid'
    OBVIOUS
  <2>1. CASE UNCHANGED <<cmdList, i, byebye>> /\ (pc = pc' \/ {pc, pc'} \cap {"run", "dead"} = {})
    BY <2>1 DEF ByeSaid, Said
  <2>2. CASE pc' = "dead"
    BY <2>2 DEF ByeSaid
  <2>3. ASSUME NEW u \in Users, ReadLine(u), pc' # "dead" PROVE ByeSaid'
    <3>1. pc = "visit" /\ pc' = "run" /\ i' = 1 /\ byebye' = byebye
      BY <2>3, AfterPlaces DEF ReadLine, Visiting
    <3>2. \A j \in 1 .. Len(cmdList') : ~(j < i')
      BY <3>1
    <3> QED
      BY <3>1, <3>2 DEF ByeSaid, Said
  <2>4. ASSUME Running(Kind), i' = i + 1, cmdList' = cmdList, pc' # "dead",
               pc' \in {"run", "dead"},
               byebye' = (byebye \/ cmd.kind = "exit")
        PROVE  ByeSaid'
    <3>1. /\ i \in 1 .. Len(cmdList) /\ i' = i + 1 /\ cmdList' = cmdList /\ byebye = Said
          /\ pc = "run" /\ pc' = "run"
      BY <2>4 DEF Running, TypeOK, ByeSaid
    <3>2. Said' <=> Said \/ cmdList[i].kind = "exit"
      BY <3>1 DEF Said
    <3> QED
      BY <2>4, <3>1, <3>2 DEF ByeSaid, cmd
  <2>5. CASE PrintenvOrWho \/ Setenv \/ Tell \/ Yell \/ Name
    <3>1. PICK heard : Builtin(heard)
      BY <2>5, Zenon DEF PrintenvOrWho, Setenv, Tell, Yell, Name
    <3>2. Running(Kind \ {"exit"}) /\ byebye' = byebye
      BY <2>5 DEF PrintenvOrWho, Setenv, Tell, Yell, Name, Running, Kind, NeedArg
    <3>3. pc' \in {"run", "dead"}
      BY <3>1, AfterPlaces DEF Builtin
    <3>4. byebye' = (byebye \/ cmd.kind = "exit")
      BY <3>2 DEF Running, TypeOK
    <3> QED
      BY <2>2, <2>4, <3>1, <3>2, <3>3, <3>4 DEF Running, Builtin
  <2>6. CASE Exit
    <3>1. Builtin(Online) /\ Running({"exit"}) /\ byebye' = TRUE
      BY <2>6 DEF Exit
    <3>2. pc' \in {"run", "dead"}
      BY <3>1, AfterPlaces DEF Builtin
    <3>3. byebye' = (byebye \/ cmd.kind = "exit") /\ Running(Kind)
      BY <3>1 DEF Running, Kind
    <3> QED
      BY <2>2, <2>4, <3>1, <3>2, <3>3 DEF Builtin
  <2>7. CASE Fork
    <3>1. /\ Running({"exec"}) /\ i' = i + 1 /\ cmdList' = cmdList /\ byebye' = byebye
      BY <2>7 DEF Fork
    <3>2. pc' \in {"run", "dead"}
      BY <2>7, AfterPlaces DEF Fork
    <3>3. byebye' = (byebye \/ cmd.kind = "exit") /\ Running(Kind)
      BY <3>1 DEF Running, Kind, TypeOK
    <3> QED
      BY <2>2, <2>4, <3>1, <3>2, <3>3
  <2>8. CASE EndLine \/ Logout
    <3>1. i' = 1 /\ byebye' = FALSE /\ pc' \in {"visit", "sweep"}
      BY <2>8 DEF EndLine, Logout, Cleared, NextSlot, LineEnds, ByeSaid
    <3> QED
      BY <3>1 DEF ByeSaid
  <2>9. CASE Connect \/ \E u \in Users : Type(u) \/ Leave(u)
    BY <2>1, <2>9 DEF Connect, Type, Leave, commands
  <2>10. CASE Select \/ PassFree \/ Rescan \/ Die \/ Sweep \/ EndSession
    BY <2>1, <2>2, <2>10 DEF Select, PassFree, Rescan, Die, Sweep, EndSession, NextSlot, commands
  <2>11. CASE NewUser
    <3>1. pc' \in {"visit", "dead"}
      BY <2>11, AfterPlaces DEF NewUser
    <3> QED
      BY <2>1, <2>2, <2>11, <3>1 DEF NewUser, commands
  <2>12. ASSUME NEW u \in Users, NoInput(u) \/ ReadBlank(u) PROVE ByeSaid'
    <3>1. pc' \in {"visit", "dead"}
      BY <2>12, AfterPlaces DEF NoInput, ReadBlank
    <3> QED
      BY <2>1, <2>2, <2>12, <3>1 DEF NoInput, ReadBlank, Visiting, commands
  <2>13. CASE UNCHANGED vars
    BY <2>1, <2>13 DEF vars, commands
  <2> QED
    BY <2>2, <2>3, <2>5, <2>6, <2>7, <2>8, <2>9, <2>10, <2>11, <2>12, <2>13
    DEF Next, Server, Client, Visit, Command
<1> QED
  BY <1>1, <1>2, TypeAndServing, PTL DEF Spec

OnTheirWay == [u \in Users |-> OnItsWay(pipes[u])]

\* The promise speaks of the same commands.
LEMMA SameCommands == Promise!Cmd = Cmd
BY DEF Promise!Cmd, Promise!Segment, Promise!Kind, Promise!NeedArg, Promise!Wordless,
       Promise!Mark, Promise!NoMark, Promise!Argument,
       Cmd, Segment, Kind, NeedArg, Wordless, Mark, NoMark, Argument

LEMMA AtIsFrom ==
  ASSUME TypeOK, Served \in Users, NEW n \in Nat
  PROVE  Promise!At(n) = From(pipes[Served], n)
<1>1. pipes[Served] \in Seq(PipeInfo)
  BY DEF TypeOK
<1>2. (IF n \in DOMAIN OnItsWay(pipes[Served]) THEN OnItsWay(pipes[Served])[n] ELSE {})
        = From(pipes[Served], n)
  BY <1>1, OnItsWayAt
<1> QED
  BY <1>2 DEF Promise!At

\* Only the table of the user who is served changes.
LEMMA OneTable ==
  ASSUME TypeOK, me \in Users, NEW t, pipes' = [pipes EXCEPT ![me] = t]
  PROVE  OnTheirWay' = [OnTheirWay EXCEPT ![me] = OnItsWay(t)]
<1>1. ASSUME NEW u \in Users PROVE pipes'[u] = IF u = me THEN t ELSE pipes[u]
  BY DEF TypeOK
<1>2. OnTheirWay' = [u \in Users |-> OnItsWay(pipes'[u])]
  BY DEF OnTheirWay
<1>3. [OnTheirWay EXCEPT ![me] = OnItsWay(t)] =
        [u \in Users |-> IF u = me THEN OnItsWay(t) ELSE OnItsWay(pipes[u])]
  BY DEF OnTheirWay
<1> QED
  BY <1>1, <1>2, <1>3

\* While a line is run, and when it has ended the server.
LEMMA OnALine ==
  ASSUME TypeOK, Serving, pc = "run"
  PROVE  /\ Served = me /\ me \in Users /\ me # 0
         /\ pipes[me] \in Seq(PipeInfo)
         /\ i <= Len(cmdList) /\ pc' \in {"run", "dead"} /\ UNCHANGED <<servingID, cmdList>>
              => Served' = me
<1>1. Served = me /\ me \in Users
  BY DEF Served, me, Serving, Online
<1>2. me # 0
  BY <1>1, Slots
<1>3. ASSUME i <= Len(cmdList), pc' \in {"run", "dead"}, UNCHANGED <<servingID, cmdList>>
      PROVE  Served' = me
  <2>1. i \in 1 .. Len(cmdList)
    BY <1>3 DEF TypeOK
  <2>2. cmdList # <<>>
    BY <2>1
  <2> QED
    BY <1>3, <2>2 DEF Served, me
<1> QED
  BY <1>1, <1>2, <1>3 DEF TypeOK

\* What nobody's table and no line takes part in.
LEMMA StandStill ==
  ASSUME UNCHANGED <<pipes, cmdList, i, received>>, Served' = Served
  PROVE  [Promise!Next]_Promise!vars
<1>1. OnTheirWay' = OnTheirWay
  BY DEF OnTheirWay
<1> QED
  BY <1>1 DEF Promise!vars, OnTheirWay

LEMMA NobodyServed ==
  ASSUME TypeOK, TypeOK', pc \notin {"run", "dead"}, pc' # "run", UNCHANGED cmdList
  PROVE  Served' = Served
<1>1. cmdList = <<>>
  BY DEF TypeOK
<1> QED
  BY <1>1 DEF Served

LEMMA OthersStandStill ==
  ASSUME TypeOK, TypeOK', Serving,
         \/ Connect \/ Select \/ NewUser \/ PassFree \/ Rescan \/ Die \/ Sweep \/ EndSession
         \/ \E u \in Users : Type(u) \/ Leave(u) \/ NoInput(u) \/ ReadBlank(u)
         \/ UNCHANGED vars
  PROVE  [Promise!Next]_Promise!vars
<1>1. UNCHANGED <<pipes, cmdList, i, received>>
  BY DEF Connect, Select, NewUser, PassFree, Rescan, Die, Sweep, EndSession, Type, Leave,
         NoInput, ReadBlank, commands, table, vars
<1>2. Served' = Served
  <2>1. CASE UNCHANGED <<servingID, pc>>
    BY <1>1, <2>1 DEF Served
  <2>2. CASE Select \/ PassFree \/ Rescan \/ EndSession
    <3>1. pc \notin {"run", "dead"} /\ pc' # "run"
      BY <2>2 DEF Select, PassFree, Rescan, EndSession, NextSlot
    <3> QED
      BY <1>1, <3>1, NobodyServed
  <2>3. CASE NewUser \/ \E u \in Users : NoInput(u) \/ ReadBlank(u)
    <3>1. pc \notin {"run", "dead"}
      BY <2>3 DEF NewUser, NoInput, ReadBlank, Visiting
    <3>2. pc' \in {"visit", "dead"}
      BY <2>3, AfterPlaces DEF NewUser, NoInput, ReadBlank
    <3> QED
      BY <1>1, <3>1, <3>2, NobodyServed
  <2>4. CASE Die
    <3>1. pc = "run" /\ i <= Len(cmdList) /\ pc' = "dead" /\ UNCHANGED <<servingID, cmdList>>
      BY <2>4 DEF Die, Running, commands
    <3> QED
      BY <3>1, OnALine
  <2> QED
    BY <2>1, <2>2, <2>3, <2>4 DEF Connect, Type, Leave, Sweep, vars
<1> QED
  BY <1>1, <1>2, StandStill

LEMMA LineStarts ==
  ASSUME TypeOK, TypeOK', Serving', ByeSaid, NEW u \in Users, ReadLine(u)
  PROVE  [Promise!Next]_Promise!vars
<1>1. /\ pc = "visit" /\ servingID = u /\ servingID' = u /\ i' = 1
      /\ UNCHANGED <<pipes, received>>
      /\ pc' \in {"run", "dead"}
  BY AfterPlaces DEF ReadLine, Visiting
<1>2. Served = 0 /\ i = 1 /\ cmdList = <<>>
  BY <1>1 DEF Served, ByeSaid, TypeOK
<1>3. OnTheirWay' = OnTheirWay
  BY <1>1 DEF OnTheirWay
<1>4. CASE Served' = 0
  <2>1. cmdList' = <<>>
    BY <1>1, <1>4, Slots DEF Served
  <2> QED
    BY <1>1, <1>2, <1>4, <2>1, StandStill
<1>5. CASE Served' = u
  <2>1. cmdList' \in Seq(Promise!Cmd)
    BY SameCommands DEF TypeOK
  <2>2. Promise!Start
    BY <1>1, <1>2, <1>3, <1>5, <2>1 DEF Promise!Start, OnTheirWay
  <2> QED
    BY <2>2 DEF Promise!Next
<1> QED
  BY <1>1, <1>4, <1>5 DEF Served

\* Opening an output pipe moves nothing.
LEMMA OpenedKeeps ==
  ASSUME TypeOK, Serving, pc = "run", i \in 1 .. Len(cmdList)
  PROVE  /\ OnItsWay(Opened) = OnItsWay(pipes[me])
         /\ \A n \in Nat : From(Opened, n) = From(pipes[me], n)
<1>1. /\ pipes[me] \in Seq(PipeInfo) /\ cmd.lineToPipe \in Nat /\ IsLast \in BOOLEAN
  BY TurnProperties DEF TypeOK, Cmd, Segment, IsLast
<1> DEFINE command == cmd
           o == Pipee(pipes[me], command, IsLast)
<1>2. Opened = o
  BY DEF Opened
<1>3. OnItsWay(o) = OnItsWay(pipes[me])
  BY <1>1, OpenedOnItsWay
<1>4. \A n \in Nat : From(o, n) = From(pipes[me], n)
  BY <1>1, PipeeFrom
<1> QED
  BY <1>2, <1>3, <1>4

LEMMA BuiltinsSkip ==
  ASSUME TypeOK, Serving, PrintenvOrWho \/ Setenv \/ Tell \/ Yell \/ Name \/ Exit
  PROVE  Promise!Skip
<1>1. /\ pc = "run" /\ i \in 1 .. Len(cmdList) /\ i <= Len(cmdList)
      /\ cmdList[i].kind # "exec"
  BY DEF TypeOK, PrintenvOrWho, Setenv, Tell, Yell, Name, Exit, Running, cmd
<1>2. PICK heard : Builtin(heard)
  BY Zenon DEF PrintenvOrWho, Setenv, Tell, Yell, Name, Exit
<1>3. /\ pipes' = [pipes EXCEPT ![me] = Opened] /\ i' = i + 1
      /\ UNCHANGED <<servingID, cmdList, received>>
      /\ pc' \in {"run", "dead"}
  BY <1>2, AfterPlaces DEF Builtin
<1>4. Served = me /\ Served' = me /\ me \in Users /\ me # 0
  BY <1>1, <1>3, OnALine
<1>5. OnTheirWay' = OnTheirWay
  <2>1. OnTheirWay' = [OnTheirWay EXCEPT ![me] = OnItsWay(pipes[me])]
    BY <1>1, <1>3, <1>4, OneTable, OpenedKeeps
  <2> QED
    BY <2>1 DEF OnTheirWay
<1> QED
  BY <1>1, <1>3, <1>4, <1>5
     DEF Promise!Skip, Promise!Running, Promise!cmd, OnTheirWay

\* A program takes what is due if it opens the line and reads no user pipe, and
\* adds its output to what is on its way if it is piped to a later line and
\* writes no user pipe.
LEMMA ForkMoves ==
  ASSUME TypeOK, Serving, DueDistinct, Fork
  PROVE  LET opens == i = 1 /\ cmd.receive = 0
             n == cmd.lineToPipe
             sends == i = Len(cmdList) /\ cmd.mark # NoMark /\ n > 0 /\ cmd.send = 0
             due == OnItsWay(pipes[me])
             rest == IF opens THEN AfterRead(due) ELSE due
         IN  /\ opens => received' = From(pipes[me], 0)
             /\ cmd.receive > 0 => received' = {}
             /\ OnTheirWay' = [OnTheirWay EXCEPT ![me] =
                                 IF sends
                                 THEN WithMore(rest, n, From(pipes[me], n) \cup {cmd.tag})
                                 ELSE rest]
<1> DEFINE o == Opened
           r == ForkIn
           w == ForkOut
           c == cmd.lineToPipe
           tag == cmd.tag
           t == Close(Write(o, w, tag), r)
           opens == i = 1 /\ cmd.receive = 0
           sends == i = Len(cmdList) /\ cmd.mark # NoMark /\ c > 0 /\ cmd.send = 0
           due == OnItsWay(pipes[me])
           rest == IF opens THEN AfterRead(due) ELSE due
           left == IF sends THEN WithMore(rest, c, From(pipes[me], c) \cup {tag}) ELSE rest
<1>1. /\ pc = "run" /\ i \in 1 .. Len(cmdList) /\ i \in Nat \ {0}
      /\ received' = Content(o, r)
      /\ pipes' = [pipes EXCEPT ![me] = t]
  BY DEF TypeOK, Fork, Running, ForkIn, ForkOut
<1>2. /\ o \in Seq(PipeInfo) /\ tag \in Tag /\ c \in Nat /\ cmd.receive \in Nat /\ cmd.send \in Nat
      /\ me \in Users /\ pipes[me] \in Seq(PipeInfo) /\ IsLast \in BOOLEAN
      /\ Distinct(o)
      /\ OnItsWay(o) = due /\ \A n \in Nat : From(o, n) = From(pipes[me], n)
  <2>1. /\ o \in Seq(PipeInfo) /\ tag \in Tag /\ c \in Nat /\ cmd.receive \in Nat /\ cmd.send \in Nat
        /\ me \in Users /\ pipes[me] \in Seq(PipeInfo) /\ IsLast \in BOOLEAN
    BY <1>1, TurnProperties DEF TypeOK, Cmd, Segment, IsLast
  <2>2. Distinct(o)
    BY <2>1, PipeeProperties DEF Opened, DueDistinct
  <2> QED
    BY <1>1, <2>1, <2>2, OpenedKeeps
<1>3. r = IF cmd.receive > 0 THEN 0 ELSE FirstWith(o, IF i = 1 THEN 0 ELSE -1)
  BY DEF ForkIn, FdIn
<1>4. /\ cmd.mark = NoMark \/ cmd.send > 0 => w = 0
      /\ cmd.mark # NoMark /\ cmd.send = 0 =>
           /\ w \in 1 .. Len(o)
           /\ o[w].count = IF IsLast /\ c > 0 THEN c ELSE -1
  <2>1. cmd.mark = NoMark \/ cmd.send > 0 => w = 0
    BY DEF ForkOut, FdOut
  <2>2. ASSUME cmd.mark # NoMark, cmd.send = 0
        PROVE  /\ w \in 1 .. Len(o)
               /\ o[w].count = IF IsLast /\ c > 0 THEN c ELSE -1
    <3>1. w = FdOut(Opened, cmd, IsLast)
      BY <1>2, <2>2 DEF ForkOut
    <3>2. /\ FdOut(Opened, cmd, IsLast) \in 1 .. Len(Opened)
          /\ Opened[FdOut(Opened, cmd, IsLast)].count = OutCount(cmd, IsLast)
      BY <1>2, <2>2, FdOutProperties DEF Opened
    <3> QED
      BY <3>1, <3>2 DEF OutCount
  <2> QED
    BY <2>1, <2>2
<1> HIDE DEF o, r, w, tag, c, due
<1>5. /\ w \in 0 .. Len(o)
      /\ w # 0 => o[w].count # 0
      /\ w # 0 /\ o[w].count > 0 <=> sends
      /\ sends => o[w].count = c
  BY <1>2, <1>4 DEF IsLast
<1>6. From(o, c) = From(pipes[me], c)
  BY <1>2
<1>7. CASE opens
  <2>1. r = FirstWith(o, 0)
    BY <1>2, <1>3, <1>7
  <2>2. /\ Content(o, r) = From(o, 0)
        /\ ~(w # 0 /\ o[w].count > 0) => OnItsWay(t) = AfterRead(OnItsWay(o))
        /\ w # 0 /\ o[w].count > 0 =>
             OnItsWay(t) = WithMore(AfterRead(OnItsWay(o)), o[w].count,
                                    From(o, o[w].count) \cup {tag})
    <3>1. /\ o \in Seq(PipeInfo) /\ Distinct(o) /\ tag \in Tag /\ w \in 0 .. Len(o)
          /\ w # 0 => o[w].count # 0
      BY <1>2, <1>5
    <3> HIDE DEF sends, left, rest, opens
    <3> QED
      BY <2>1, <3>1, FirstOnItsWay
  <2> HIDE DEF t
  <2>3. OnItsWay(t) = left
    BY <1>2, <1>5, <1>6, <1>7, <2>2
  <2>4. received' = From(pipes[me], 0)
    BY <1>1, <1>2, <2>2
  <2> HIDE DEF left
  <2>5. OnTheirWay' = [OnTheirWay EXCEPT ![me] = left]
    BY <1>1, <1>2, <2>3, OneTable
  <2> QED
    BY <1>7, <2>4, <2>5 DEF left, tag, c, due
<1>8. CASE ~opens
  <2>1. /\ r \in 0 .. Len(o) /\ (r # 0 => o[r].count = -1)
        /\ cmd.receive > 0 => r = 0
    <3> DEFINE d == -1
    <3>1. d \in Int /\ (r = 0 \/ r = FirstWith(o, d)) /\ (cmd.receive > 0 => r = 0)
      BY <1>2, <1>3, <1>8
    <3> HIDE DEF d
    <3>2. FirstWith(o, d) \in 0 .. Len(o) /\ (FirstWith(o, d) # 0 => o[FirstWith(o, d)].count = d)
      BY <1>2, <3>1, FirstWithFinds
    <3>3. Len(o) \in Nat
      BY <1>2
    <3>4. r \in 0 .. Len(o) /\ (r # 0 => o[r].count = d)
      BY <3>1, <3>2, <3>3
    <3> QED
      BY <3>1, <3>4 DEF d
  <2>2. /\ ~(w # 0 /\ o[w].count > 0) => OnItsWay(t) = OnItsWay(o)
        /\ w # 0 /\ o[w].count > 0 =>
             OnItsWay(t) = WithMore(OnItsWay(o), o[w].count, From(o, o[w].count) \cup {tag})
    BY <1>2, <1>5, <2>1, LaterOnItsWay
  <2> HIDE DEF t
  <2>3. OnItsWay(t) = left
    BY <1>2, <1>5, <1>6, <1>8, <2>2
  <2>4. cmd.receive > 0 => received' = {}
    BY <1>1, <2>1 DEF Content
  <2> HIDE DEF left
  <2>5. OnTheirWay' = [OnTheirWay EXCEPT ![me] = left]
    BY <1>1, <1>2, <2>3, OneTable
  <2> QED
    BY <1>8, <2>4, <2>5 DEF left, tag, c, due
<1> QED
  BY <1>7, <1>8

LEMMA ProgramRuns ==
  ASSUME TypeOK, TypeOK', Serving, DueDistinct, Fork
  PROVE  Promise!Run
<1> DEFINE n == cmd.lineToPipe
           opens == i = 1 /\ cmd.receive = 0
           sends == i = Len(cmdList) /\ cmd.mark # NoMark /\ n > 0 /\ cmd.send = 0
           due == OnItsWay(pipes[me])
           rest == IF opens THEN Promise!Restrict(due, DOMAIN due \ {0}) ELSE due
           left == IF sends
                   THEN [m \in DOMAIN rest \cup {n} |->
                           IF m = n THEN Promise!At(n) \cup {cmd.tag} ELSE rest[m]]
                   ELSE rest
<1>1. /\ pc = "run" /\ i \in 1 .. Len(cmdList) /\ i <= Len(cmdList)
      /\ cmd.kind = "exec" /\ i' = i + 1
      /\ UNCHANGED <<cmdList, servingID>>
      /\ pc' \in {"run", "dead"}
      /\ received' \in SUBSET Tag
  BY AfterPlaces DEF Fork, Running, TypeOK
<1>2. Served = me /\ Served' = me /\ me \in Users /\ me # 0
  BY <1>1, OnALine
<1>3. n \in Nat /\ 0 \in Nat
  BY <1>1, TurnProperties DEF Cmd, Segment
<1>4. Promise!At(0) = From(pipes[me], 0) /\ Promise!At(n) = From(pipes[me], n)
  BY <1>2, <1>3, AtIsFrom
<1>5. rest = IF opens THEN AfterRead(due) ELSE due
  BY DEF Promise!Restrict, AfterRead
<1> HIDE DEF rest
<1>6. /\ opens => received' = Promise!At(0)
      /\ cmd.receive > 0 => received' = {}
      /\ OnTheirWay' = [OnTheirWay EXCEPT ![me] =
                          IF sends THEN WithMore(rest, n, From(pipes[me], n) \cup {cmd.tag})
                          ELSE rest]
  BY <1>4, <1>5, ForkMoves
<1>7. WithMore(rest, n, From(pipes[me], n) \cup {cmd.tag}) =
        [m \in DOMAIN rest \cup {n} |->
           IF m = n THEN Promise!At(n) \cup {cmd.tag} ELSE rest[m]]
  BY <1>4 DEF WithMore
<1>8. OnTheirWay' = [OnTheirWay EXCEPT ![me] = left]
  BY <1>6, <1>7
<1>9. OnTheirWay[me] = due
  BY <1>2 DEF OnTheirWay
<1> QED
  BY <1>1, <1>2, <1>6, <1>8, <1>9
     DEF Promise!Run, Promise!Running, Promise!cmd, Promise!NoMark, NoMark, cmd, OnTheirWay, rest

LEMMA NothingOnItsWay == OnItsWay(<<>>) = [n \in {} |-> {}]
<1>1. CountsDown(<<>>) = {}
  BY DEF CountsDown
<1> QED
  BY <1>1 DEF OnItsWay

LEMMA LineOver ==
  ASSUME TypeOK, Serving, ByeSaid, EndLine \/ Logout
  PROVE  Promise!Turn \/ Promise!Leave
<1>1. /\ pc = "run" /\ i > Len(cmdList) /\ i \in Nat \ {0}
      /\ cmdList' = <<>> /\ i' = 1 /\ received' = {}
      /\ pc' \in {"visit", "sweep"}
  BY DEF EndLine, Logout, LineEnds, Cleared, NextSlot, TypeOK
<1>2. Served = me /\ me \in Users /\ me # 0 /\ Served' = 0 /\ pipes[me] \in Seq(PipeInfo)
  <2>1. Served' = 0
    BY <1>1 DEF Served
  <2> QED
    BY <1>1, <2>1, OnALine
<1>3. byebye <=> Promise!SaysExit
  <2>1. DOMAIN cmdList = 1 .. Len(cmdList) /\ Len(cmdList) \in Nat
    BY DEF TypeOK
  <2>2. Said <=> Promise!SaysExit
    BY <1>1, <2>1 DEF Said, Promise!SaysExit
  <2> QED
    BY <1>1, <2>2 DEF ByeSaid
<1>4. OnTheirWay[me] = OnItsWay(pipes[me])
  BY <1>2 DEF OnTheirWay
<1>5. Promise!LineEnds
  BY <1>1, <1>2 DEF Promise!LineEnds
<1>6. CASE EndLine
  <2>1. ~byebye /\ pipes' = [pipes EXCEPT ![me] = CountDown(pipes[me])]
    BY <1>6 DEF EndLine, OneLineLess
  <2>2. OnTheirWay' = [OnTheirWay EXCEPT ![me] = OnItsWay(CountDown(pipes[me]))]
    BY <1>2, <2>1, OneTable
  <2>3. OnItsWay(CountDown(pipes[me])) =
          [n \in {m - 1 : m \in DOMAIN OnTheirWay[me] \ {0}} |-> OnTheirWay[me][n + 1]]
    BY <1>2, <1>4, CountedOnItsWay
  <2> QED
    BY <1>2, <1>3, <1>5, <2>1, <2>2, <2>3 DEF Promise!Turn, OnTheirWay
<1>7. CASE Logout
  <2>1. byebye /\ pipes' = [pipes EXCEPT ![me] = <<>>]
    BY <1>7 DEF Logout, Init_userData
  <2>2. OnTheirWay' = [OnTheirWay EXCEPT ![me] = OnItsWay(<<>>)]
    BY <1>2, <2>1, OneTable
  <2> QED
    BY <1>2, <1>3, <1>5, <2>1, <2>2, NothingOnItsWay
       DEF Promise!Leave, Promise!NothingDue, OnTheirWay
<1> QED
  BY <1>6, <1>7

\* The program that opens a line reads exactly what its user has piped to that
\* line: no other user's lines bring it nearer, no other user's program reads it,
\* and no user pipe takes it away.
THEOREM PipesKeepPromise == Spec => KeepsPromise
<1>1. Init => Promise!Init
  <2> SUFFICES ASSUME Init PROVE Promise!Init
    OBVIOUS
  <2>1. [u \in Users |-> OnItsWay(pipes[u])] = [u \in Users |-> Promise!NothingDue]
    BY NothingOnItsWay DEF Init, Promise!NothingDue
  <2>2. Served = 0
    BY DEF Init, Served
  <2> QED
    BY <2>1, <2>2 DEF Init, Promise!Init
<1>2. /\ TypeOK /\ Serving /\ DueDistinct /\ ByeSaid
      /\ [Next]_vars /\ TypeOK' /\ Serving'
      => [Promise!Next]_Promise!vars
  <2> SUFFICES ASSUME TypeOK, Serving, DueDistinct, ByeSaid, [Next]_vars, TypeOK', Serving'
               PROVE  [Promise!Next]_Promise!vars
    OBVIOUS
  <2>1. CASE \E u \in Users : ReadLine(u)
    BY <2>1, LineStarts
  <2>2. CASE PrintenvOrWho \/ Setenv \/ Tell \/ Yell \/ Name \/ Exit
    BY <2>2, BuiltinsSkip DEF Promise!Next
  <2>3. CASE Fork
    BY <2>3, ProgramRuns DEF Promise!Next
  <2>4. CASE EndLine \/ Logout
    BY <2>4, LineOver DEF Promise!Next
  <2>5. CASE \/ Connect \/ Select \/ NewUser \/ PassFree \/ Rescan \/ Die \/ Sweep \/ EndSession
             \/ \E u \in Users : Type(u) \/ Leave(u) \/ NoInput(u) \/ ReadBlank(u)
             \/ UNCHANGED vars
    BY <2>5, OthersStandStill
  <2> QED
    BY <2>1, <2>2, <2>3, <2>4, <2>5 DEF Next, Server, Client, Visit, Command
<1> QED
  BY <1>1, <1>2, TypeAndServing, NeverDueTogether, ByeSaidAlways, PTL
     DEF Spec, KeepsPromise, Promise!Spec
=============================================================================
