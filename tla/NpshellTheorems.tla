--------------------------- MODULE NpshellTheorems ---------------------------
(***************************************************************************)
(* Theorems about the shell of Project 1, for every set of lines, every    *)
(* user (courteous or not) and every bound.                                *)
(***************************************************************************)
EXTENDS Npshell, PipeTableTheorems

\* What the steps of the command loop do to the table, in one place: the table
\* once the command's output pipe is open, and the entry it reads from.
LEMMA OpenedProperties ==
  ASSUME TypeOK, i \in 1 .. Len(cmdList)
  PROVE  /\ cmdList[i] \in Cmd
         /\ Opened \in Seq(PipeInfo)
         /\ In \in 0 .. Len(Opened)
         /\ Distinct(pipeList) => Distinct(Opened)
<1>1. cmdList[i] \in Cmd /\ pipeList \in Seq(PipeInfo) /\ IsLast \in BOOLEAN
  BY DEF TypeOK, IsLast
<1>2. cmdList[i].lineToPipe \in Nat
  BY <1>1 DEF Cmd, Segment
<1>3. Opened \in Seq(PipeInfo) /\ (Distinct(pipeList) => Distinct(Opened))
  BY <1>1, <1>2, PipeeProperties DEF Opened
<1>4. In \in 0 .. Len(Opened)
  BY <1>3, FirstWithFinds DEF In, FdIn
<1> QED
  BY <1>1, <1>3, <1>4

\* The type invariant: the table stays a sequence of pipes with integer
\* counts and known writers, whatever is typed and wherever the loop stands.
THEOREM TypeCorrect == Spec => []TypeOK
<1>1. Init => TypeOK
  BY DEF Init, TypeOK, State
<1>2. TypeOK /\ [Next]_vars => TypeOK'
  <2> SUFFICES ASSUME TypeOK, [Next]_vars PROVE TypeOK'
    OBVIOUS
  <2> USE DEF TypeOK, State
  <2>1. CASE Prompt
    BY <2>1 DEF Prompt
  <2>2. CASE ReadBlank
    BY <2>2 DEF ReadBlank
  <2>3. CASE ReadLine
    <3>1. PICK line \in Lines : cmdList' = Input(line)
      BY <2>3 DEF ReadLine
    <3>2. cmdList' \in Seq(Cmd)
      BY <3>1, NpshellAssumption
    <3> QED
      BY <2>3, <3>2 DEF ReadLine
  <2>4. CASE RunBuiltin
    <3>1. Opened \in Seq(PipeInfo)
      BY <2>4, OpenedProperties DEF RunBuiltin, Running
    <3> QED
      BY <2>4, <3>1 DEF RunBuiltin, Running
  <2>5. CASE RunExit
    <3>1. Opened \in Seq(PipeInfo)
      BY <2>5, OpenedProperties DEF RunExit, Running
    <3> QED
      BY <2>5, <3>1 DEF RunExit, Running
  <2>6. CASE Abort
    <3>1. Opened \in Seq(PipeInfo)
      BY <2>6, OpenedProperties DEF Abort, Running
    <3> QED
      BY <2>6, <3>1 DEF Abort, Running
  <2>7. CASE Fork
    <3>1. cmdList[i] \in Cmd /\ Opened \in Seq(PipeInfo) /\ In \in 0 .. Len(Opened)
      BY <2>7, OpenedProperties DEF Fork, Running
    <3>2. cmdList[i].tag \in Tag
      BY <3>1 DEF Cmd, Segment
    <3> DEFINE t == Write(Opened, Out, cmdList[i].tag)
    <3>3. t \in Seq(PipeInfo) /\ Len(t) = Len(Opened)
      BY <3>1, <3>2, WriteProperties
    <3>4. Close(t, In) \in Seq(PipeInfo)
      <4> HIDE DEF t
      <4> QED  BY <3>1, <3>3, CloseProperties
    <3>5. Content(Opened, In) \in SUBSET Tag
      <4>1. CASE In = 0
        BY <4>1 DEF Content
      <4>2. CASE In # 0
        <5>1. In \in 1 .. Len(Opened)
          BY <3>1, <4>2
        <5>2. Opened[In] \in PipeInfo
          BY <3>1, <5>1
        <5> QED
          BY <4>2, <5>2 DEF Content, PipeInfo
      <4> QED
        BY <4>1, <4>2
    <3> QED
      BY <2>7, <3>4, <3>5 DEF Fork, Running
  <2>8. CASE EndLine
    <3>1. CountDown(pipeList) \in Seq(PipeInfo)
      BY CountDownProperties
    <3> QED
      BY <2>8, <3>1 DEF EndLine, Cleared
  <2>9. CASE CloseStdin
    BY <2>9 DEF CloseStdin
  <2>10. CASE UNCHANGED vars
    BY <2>10 DEF vars
  <2> QED
    BY <2>1, <2>2, <2>3, <2>4, <2>5, <2>6, <2>7, <2>8, <2>9, <2>10 DEF Next, Shell
<1> QED
  BY <1>1, <1>2, PTL DEF Spec

\* No two entries of the table are ever due at the same line, so the one that
\* is found when a line opens is all that was sent to it.
THEOREM NeverDueTogether == Spec => []DueDistinct
<1>1. Init => DueDistinct
  BY DEF Init, DueDistinct, Distinct
<1>2. TypeOK /\ DueDistinct /\ [Next]_vars => DueDistinct'
  <2> SUFFICES ASSUME TypeOK, Distinct(pipeList), [Next]_vars
               PROVE  Distinct(pipeList')
    BY DEF DueDistinct
  <2>1. CASE UNCHANGED pipeList
    BY <2>1
  <2>2. CASE RunBuiltin \/ RunExit \/ Abort
    <3>1. i \in 1 .. Len(cmdList) /\ pipeList' = Opened
      BY <2>2 DEF TypeOK, RunBuiltin, RunExit, Abort, Running
    <3> QED
      BY <3>1, OpenedProperties
  <2>3. CASE Fork
    <3> DEFINE t == Write(Opened, Out, cmdList[i].tag)
    <3>1. i \in 1 .. Len(cmdList) /\ pipeList' = Close(t, In)
      BY <2>3 DEF TypeOK, Fork, Running
    <3>2. /\ cmdList[i] \in Cmd
          /\ Opened \in Seq(PipeInfo)
          /\ In \in 0 .. Len(Opened)
          /\ Distinct(Opened)
      BY <3>1, OpenedProperties
    <3>3. cmdList[i].tag \in Tag
      BY <3>2 DEF Cmd, Segment
    <3>4. t \in Seq(PipeInfo) /\ Len(t) = Len(Opened) /\ Distinct(t)
      BY <3>2, <3>3, WriteProperties
    <3> HIDE DEF t
    <3>5. Distinct(Close(t, In))
      BY <3>2, <3>4, CloseProperties
    <3> QED
      BY <3>1, <3>5
  <2>4. CASE EndLine
    BY <2>4, CountDownProperties DEF TypeOK, EndLine
  <2> QED
    BY <2>1, <2>2, <2>3, <2>4
    DEF Next, Shell, Prompt, ReadBlank, ReadLine, CloseStdin, vars
<1> QED
  BY <1>1, <1>2, TypeCorrect, PTL DEF Spec

-----------------------------------------------------------------------------
(* The strengthening OutputKept needs: the command on the left of the next  *)
(* one has a mark, and the pipe it opened, or an older one that is found    *)
(* before it, still stands in front of the pipe the next command opens.     *)
MarksBetween ==
  pc = "run" => \A j \in 1 .. Len(cmdList) - 1 : cmdList[j].mark # NoMark
LeftPipe ==
  pc = "run" /\ 1 < i /\ i <= Len(cmdList)
    => \E j \in 1 .. Len(pipeList) : pipeList[j].count = -1
IInv == TypeOK /\ MarksBetween /\ LeftPipe

\* So what a command writes stays in the table, due when its mark says: the pipe
\* it opens, and for a program what it has written.
LEMMA OutIsKept ==
  ASSUME TypeOK, LeftPipe, pc = "run", i \in 1 .. Len(cmdList), cmdList[i].mark # NoMark
  PROVE  /\ Out \in 1 .. Len(Opened)
         /\ Opened[Out].count = OutCount(cmdList[i], IsLast)
         /\ Out # In
<1>1. /\ cmdList[i].lineToPipe \in Nat
      /\ pipeList \in Seq(PipeInfo)
      /\ IsLast \in BOOLEAN
      /\ i \in Nat \ {0}
  BY OpenedProperties DEF TypeOK, Cmd, Segment, IsLast
<1>2. i > 1 => \E j \in 1 .. Len(pipeList) : pipeList[j].count = -1
  BY DEF LeftPipe
<1> QED
  BY <1>1, <1>2, InIsNotOut DEF Opened, Out, In

LEMMA ForkKeepsOutput ==
  ASSUME TypeOK, LeftPipe, Fork, cmdList[i].mark # NoMark
  PROVE  \E j \in 1 .. Len(pipeList') :
           /\ cmdList[i].tag \in pipeList'[j].from
           /\ pipeList'[j].count = OutCount(cmdList[i], IsLast)
<1>1. pc = "run" /\ i \in 1 .. Len(cmdList)
      /\ pipeList' = Close(Write(Opened, Out, cmdList[i].tag), In)
  BY DEF TypeOK, Fork, Running
<1>2. cmdList[i].tag \in Tag /\ Opened \in Seq(PipeInfo) /\ In \in 0 .. Len(Opened)
  BY <1>1, OpenedProperties DEF Cmd, Segment
<1>3. /\ Out \in 1 .. Len(Opened)
      /\ Opened[Out].count = OutCount(cmdList[i], IsLast)
      /\ Out # In
  BY <1>1, OutIsKept
<1> DEFINE o == Opened
           w == Out
           r == In
           tag == cmdList[i].tag
<1> HIDE DEF o, w, r, tag
<1>4. \E j \in 1 .. Len(Close(Write(o, w, tag), r)) :
        /\ Close(Write(o, w, tag), r)[j].count = o[w].count
        /\ tag \in Close(Write(o, w, tag), r)[j].from
  <2>1. /\ o \in Seq(PipeInfo) /\ tag \in Tag /\ r \in 0 .. Len(o)
        /\ w \in 1 .. Len(o) /\ w # r
    BY <1>2, <1>3 DEF o, w, r, tag
  <2> QED
    BY <2>1, OthersStay
<1> QED
  BY <1>1, <1>3, <1>4 DEF o, w, r, tag

LEMMA IInvCorrect == Spec => []IInv
<1>1. Init => MarksBetween /\ LeftPipe
  BY DEF Init, MarksBetween, LeftPipe
<1>2. IInv /\ TypeOK' /\ [Next]_vars => MarksBetween' /\ LeftPipe'
  <2> SUFFICES ASSUME IInv, TypeOK', [Next]_vars, pc' = "run"
               PROVE  MarksBetween' /\ LeftPipe'
    BY DEF MarksBetween, LeftPipe
  <2>1. CASE ReadLine
    <3>1. PICK line \in Lines : cmdList' = Input(line)
      BY <2>1 DEF ReadLine
    <3>2. MarksBetween'
      BY <3>1, NpshellAssumption DEF MarksBetween
    <3>3. LeftPipe'
      BY <2>1 DEF ReadLine, LeftPipe
    <3> QED
      BY <3>2, <3>3
  <2>2. CASE RunBuiltin \/ Fork
    <3>1. /\ pc = "run" /\ i \in 1 .. Len(cmdList)
          /\ i' = i + 1 /\ UNCHANGED cmdList
      BY <2>2 DEF IInv, TypeOK, RunBuiltin, Fork, Running
    <3>2. MarksBetween'
      BY <3>1 DEF IInv, MarksBetween
    <3>3. ASSUME i' <= Len(cmdList')
          PROVE  \E j \in 1 .. Len(pipeList') : pipeList'[j].count = -1
      <4>1. cmdList[i].mark # NoMark /\ ~IsLast
        BY <3>1, <3>3 DEF IInv, TypeOK, MarksBetween, IsLast
      <4>2. OutCount(cmdList[i], IsLast) = -1
        BY <4>1 DEF OutCount
      <4>3. CASE RunBuiltin
        <5>1. pipeList' = Opened
          BY <4>3 DEF RunBuiltin
        <5> QED
          BY <3>1, <4>1, <4>2, <5>1, OutIsKept DEF IInv
      <4>4. CASE Fork
        BY <4>1, <4>2, <4>4, ForkKeepsOutput DEF IInv
      <4> QED
        BY <2>2, <4>3, <4>4
    <3> QED
      BY <3>2, <3>3 DEF LeftPipe
  <2>3. CASE UNCHANGED <<pc, cmdList, i, pipeList>>
    BY <2>3 DEF IInv, MarksBetween, LeftPipe
  <2> QED
    BY <2>1, <2>2, <2>3
    DEF Next, Shell, Prompt, ReadBlank, RunExit, Abort, EndLine, CloseStdin, vars
<1> QED
  BY <1>1, <1>2, TypeCorrect, PTL DEF Spec, IInv

\* No program's output is lost: whatever was piped is in the table after the
\* program has been started, due at the line its mark names.
THEOREM OutputNeverLost == Spec => OutputKept
<1>1. IInv /\ IInv' /\ [Next]_vars => [Fork /\ cmdList[i].mark # NoMark
         => \E j \in DOMAIN pipeList' :
              /\ cmdList[i].tag \in pipeList'[j].from
              /\ pipeList'[j].count = OutCount(cmdList[i], IsLast)]_vars
  <2>1. ASSUME IInv, IInv', Fork, cmdList[i].mark # NoMark
        PROVE  \E j \in DOMAIN pipeList' :
                 /\ cmdList[i].tag \in pipeList'[j].from
                 /\ pipeList'[j].count = OutCount(cmdList[i], IsLast)
    BY <2>1, ForkKeepsOutput DEF IInv, TypeOK
  <2> QED
    BY <2>1
<1> QED
  BY <1>1, IInvCorrect, PTL DEF Spec, OutputKept

-----------------------------------------------------------------------------
(* What a courteous user's lines keep in order. *)

\* The line that is run is one of the user's.
InLine == pc = "run" => \E line \in Lines : ~IsBlank(line) /\ cmdList = Input(line)

\* The pipe that is due is read by the line's first command, and an ordinary one
\* by the command behind it, so neither is left when the line is over.
NoneWith(n) == \A j \in 1 .. Len(pipeList) : pipeList[j].count # n
OneWith(n) ==
  \A j, k \in 1 .. Len(pipeList) : pipeList[j].count = n /\ pipeList[k].count = n => j = k
Tidy ==
  /\ \A j \in 1 .. Len(pipeList) : pipeList[j].count >= -1
  /\ pc \in {"prompt", "getline"} \/ (pc = "run" /\ i = 1) => NoneWith(-1)
  /\ pc = "run" /\ i = 1 => NoneWith(0) \/ cmdList[1].kind \notin Builtin
  /\ pc = "run" /\ i > 1 => NoneWith(0) /\ OneWith(-1)
  /\ pc = "run" /\ i > Len(cmdList) => NoneWith(0) /\ NoneWith(-1)

LEMMA InLineAlways == Spec => []InLine
<1>1. Init => InLine
  BY DEF Init, InLine
<1>2. InLine /\ [Next]_vars => InLine'
  <2> SUFFICES ASSUME InLine, [Next]_vars PROVE InLine'
    OBVIOUS
  <2>1. CASE ReadLine
    BY <2>1 DEF ReadLine, InLine
  <2>2. CASE UNCHANGED <<cmdList, pc>>
    BY <2>2 DEF InLine
  <2>3. CASE pc' # "run"
    BY <2>3 DEF InLine
  <2> QED
    BY <2>1, <2>2, <2>3
       DEF Next, Shell, Prompt, ReadBlank, RunBuiltin, RunExit, Abort, Fork, EndLine,
           CloseStdin, vars
<1> QED
  BY <1>1, <1>2, PTL DEF Spec

\* What is known of a command that is run.
LEMMA CommandKnown ==
  ASSUME TypeOK, InLine, pc = "run", i \in 1 .. Len(cmdList)
  PROVE  /\ cmdList[i] \in Cmd /\ cmdList[i].lineToPipe \in Nat /\ cmdList[i].tag \in Tag
         /\ cmdList[i].mark = NoMark => cmdList[i].lineToPipe = 0
         /\ ~IsLast => cmdList[i].mark # NoMark
         /\ Courteous /\ i > 1 => cmdList[i].kind \notin Builtin
         /\ Courteous /\ IsLast /\ cmdList[i].mark # NoMark => cmdList[i].lineToPipe > 0
<1>1. PICK line \in Lines : ~IsBlank(line) /\ cmdList = Input(line)
  BY DEF InLine
<1>2. /\ cmdList[i] \in Cmd /\ cmdList[i].lineToPipe \in Nat /\ cmdList[i].tag \in Tag
  BY OpenedProperties DEF Cmd, Segment
<1>3. i \in Nat \ {0} /\ Len(cmdList) \in Nat
  BY DEF TypeOK
<1>4. /\ \A j \in 1 .. Len(cmdList) - 1 : cmdList[j].mark # NoMark
      /\ \A j \in 1 .. Len(cmdList) : cmdList[j].mark = NoMark => cmdList[j].lineToPipe = 0
  BY <1>1, NpshellAssumption
<1>5. Courteous =>
        /\ \A j \in 2 .. Len(cmdList) : cmdList[j].kind \notin Builtin
        /\ cmdList[Len(cmdList)].mark # NoMark => cmdList[Len(cmdList)].lineToPipe > 0
  BY <1>1, CourteousAssumption
<1> QED
  BY <1>2, <1>3, <1>4, <1>5 DEF IsLast

\* The ordinary pipes of a table once a command's output pipe is open: those that
\* were there, and the one a | opens.
LEMMA OpenedCounts ==
  ASSUME TypeOK, InLine, pc = "run", i \in 1 .. Len(cmdList)
  PROVE  LET c == OutCount(cmdList[i], IsLast)
             new == Len(pipeList) + 1
         IN  /\ c = -1 \/ c > 0
             /\ Len(Opened) \in Nat /\ Len(pipeList) \in Nat /\ Len(pipeList) <= Len(Opened)
             /\ \A j \in 1 .. Len(pipeList) : Opened[j] = pipeList[j]
             /\ \A j \in 1 .. Len(Opened) :
                  j \in 1 .. Len(pipeList) \/ (j = new /\ Opened[j].count = c /\ Opened[j].from = {})
             /\ cmdList[i].mark # NoMark /\ c = -1 => Out = new
             /\ cmdList[i].mark = NoMark => Len(Opened) = Len(pipeList)
<1> DEFINE c == OutCount(cmdList[i], IsLast)
           e == [count |-> c, from |-> {}]
<1>1. cmdList[i].lineToPipe \in Nat /\ pipeList \in Seq(PipeInfo) /\ IsLast \in BOOLEAN
  BY CommandKnown DEF TypeOK, IsLast
<1>2. c = -1 \/ c > 0
  BY <1>1 DEF OutCount
<1>3. e \in PipeInfo /\ e.count = c /\ e.from = {}
  BY <1>1 DEF PipeInfo, OutCount
<1>4. \/ Opened = pipeList /\ (cmdList[i].mark = NoMark \/ c > 0)
      \/ Opened = Append(pipeList, e) /\ cmdList[i].mark # NoMark
  BY <1>1, PipeeAdds DEF Opened
<1>5. cmdList[i].mark # NoMark /\ c = -1 => Out = Len(pipeList) + 1
  <2> DEFINE t == Pipee(pipeList, cmdList[i], IsLast)
             out == FdOut(t, cmdList[i], IsLast)
  <2> SUFFICES ASSUME cmdList[i].mark # NoMark, c = -1 PROVE out = Len(pipeList) + 1
    BY DEF Opened, Out
  <2> QED
    BY <1>1, FdOutProperties
<1> HIDE DEF c, e
<1>6. CASE Opened = pipeList /\ (cmdList[i].mark = NoMark \/ c > 0)
  BY <1>1, <1>2, <1>5, <1>6 DEF c
<1>7. CASE Opened = Append(pipeList, e) /\ cmdList[i].mark # NoMark
  <2>1. /\ Len(Opened) = Len(pipeList) + 1 /\ Len(pipeList) \in Nat
        /\ \A j \in 1 .. Len(pipeList) : Opened[j] = pipeList[j]
        /\ Opened[Len(pipeList) + 1] = e
    BY <1>1, <1>3, <1>7, AppendProperties
  <2> QED
    BY <1>2, <1>3, <1>5, <1>7, <2>1 DEF c
<1> QED
  BY <1>4, <1>6, <1>7

\* What a program leaves in the table: nothing that was for itself, and of
\* ordinary pipes only its own, with what it has written.
LEMMA ForkLeaves ==
  ASSUME TypeOK, LeftPipe, DueDistinct, InLine, Tidy, Courteous, Fork
  PROVE  /\ \A k \in 1 .. Len(pipeList') :
              /\ pipeList'[k].count >= -1 /\ pipeList'[k].count # 0
              /\ pipeList'[k].count = -1 =>
                   /\ cmdList[i].mark # NoMark /\ OutCount(cmdList[i], IsLast) = -1
                   /\ pipeList'[k].from = {cmdList[i].tag}
         /\ OneWith(-1)'
<1>1. /\ pc = "run" /\ i \in 1 .. Len(cmdList) /\ i \in Nat \ {0}
      /\ pipeList' = Close(Write(Opened, Out, cmdList[i].tag), In)
  BY DEF TypeOK, Fork, Running
<1> DEFINE o == Opened
           r == In
           w == Out
           tag == cmdList[i].tag
           u == Write(o, w, tag)
           s == Close(u, r)
           c == OutCount(cmdList[i], IsLast)
           new == Len(pipeList) + 1
<1>2. /\ o \in Seq(PipeInfo) /\ tag \in Tag /\ r \in 0 .. Len(o) /\ Distinct(o)
      /\ cmdList[i].lineToPipe \in Nat /\ pipeList \in Seq(PipeInfo) /\ IsLast \in BOOLEAN
  BY <1>1, OpenedProperties, CommandKnown DEF TypeOK, DueDistinct, IsLast
<1>3. /\ c = -1 \/ c > 0
      /\ Len(o) \in Nat /\ Len(pipeList) \in Nat /\ Len(pipeList) <= Len(o)
      /\ \A j \in 1 .. Len(pipeList) : o[j] = pipeList[j]
      /\ \A j \in 1 .. Len(o) :
           j \in 1 .. Len(pipeList) \/ (j = new /\ o[j].count = c /\ o[j].from = {})
      /\ cmdList[i].mark # NoMark /\ c = -1 => w = new
      /\ cmdList[i].mark = NoMark => Len(o) = Len(pipeList)
  BY <1>1, OpenedCounts
<1>4. r = FirstWith(o, IF i = 1 THEN 0 ELSE -1)
  BY DEF In, FdIn
<1>5. i > 1 => r = FirstWith(pipeList, -1) /\ r # 0
  <2> SUFFICES ASSUME i > 1 PROVE r = FirstWith(pipeList, -1) /\ r # 0
    OBVIOUS
  <2>1. FirstWith(pipeList, -1) # 0
    BY <1>1, <1>2, Found DEF LeftPipe
  <2>2. FirstWith(o, -1) = FirstWith(pipeList, -1)
    BY <1>2, <2>1, PipeeFirst DEF Opened
  <2> QED
    BY <1>4, <2>1, <2>2
<1>6. /\ r # 0 => o[r].count = IF i = 1 THEN 0 ELSE -1
      /\ \A j \in 1 .. Len(o) : o[j].count = (IF i = 1 THEN 0 ELSE -1) => r # 0
  <2> DEFINE d == IF i = 1 THEN 0 ELSE -1
  <2>1. d \in Int
    OBVIOUS
  <2> HIDE DEF d, o, r
  <2>2. /\ FirstWith(o, d) \in 0 .. Len(o)
        /\ FirstWith(o, d) # 0 => o[FirstWith(o, d)].count = d
        /\ \A j \in 1 .. Len(o) : o[j].count = d => FirstWith(o, d) \in 1 .. j
    BY <1>2, <2>1, FirstWithFinds
  <2>3. r = FirstWith(o, d)
    BY <1>4 DEF d
  <2> QED
    BY <1>3, <2>2, <2>3 DEF d
<1> HIDE DEF o, r, w, tag, c
<1>7. \A j \in 1 .. Len(o) : o[j].count = 0 => j = r
  <2>1. CASE i = 1
    BY <1>2, <1>6, <2>1 DEF Distinct
  <2>2. CASE i > 1
    BY <1>1, <1>3, <2>2 DEF Tidy, NoneWith
  <2> QED
    BY <1>1, <2>1, <2>2
<1>8. \A j \in 1 .. Len(o) : o[j].count = -1 => j = r \/ j = new
  <2>1. CASE i = 1
    BY <1>1, <1>3, <2>1 DEF Tidy, NoneWith
  <2>2. CASE i > 1
    <3>1. FirstWith(pipeList, -1) \in 1 .. Len(pipeList) /\ pipeList[FirstWith(pipeList, -1)].count = -1
      <4>1. FirstWith(pipeList, -1) # 0
        BY <1>5, <2>2
      <4> QED
        BY <1>2, <4>1, FirstWithFinds
    <3> QED
      BY <1>1, <1>3, <1>5, <2>2, <3>1 DEF Tidy, OneWith
  <2> QED
    BY <1>1, <2>1, <2>2
<1>9. /\ u \in Seq(PipeInfo) /\ Len(u) = Len(o)
      /\ \A j \in 1 .. Len(o) : u[j].count = o[j].count
  BY <1>2, WriteProperties
<1>10. \A j \in 1 .. Len(o) :
         u[j].from = IF j = w THEN o[j].from \cup {tag} ELSE o[j].from
  <2>1. \A j \in 1 .. Len(o) : o[j] \in PipeInfo
    BY <1>2
  <2>2. DOMAIN o = 1 .. Len(o)
    BY <1>2
  <2>3. \A j \in 1 .. Len(o) :
          u[j] = IF j = w THEN [o[j] EXCEPT !.from = o[j].from \cup {tag}] ELSE o[j]
    BY <2>2 DEF Write
  <2> HIDE DEF u
  <2> QED
    BY <2>1, <2>3 DEF PipeInfo
<1> HIDE DEF u
<1>11. /\ s \in Seq(PipeInfo)
       /\ \A k \in 1 .. Len(s) : \E j \in 1 .. Len(u) \ {r} : s[k] = u[j]
  <2>1. u \in Seq(PipeInfo) /\ r \in 0 .. Len(u)
    BY <1>2, <1>9
  <2> QED
    BY <2>1, CloseProperties
<1>12. \A k, l \in 1 .. Len(s) : s[k].count = -1 /\ s[l].count = -1 => k = l
  <2>1. u \in Seq(PipeInfo) /\ r \in 0 .. Len(u)
    BY <1>2, <1>9
  <2>2. \A k, l \in 1 .. Len(u) \ {r} : u[k].count = -1 /\ u[l].count = -1 => k = l
    BY <1>8, <1>9
  <2> QED
    BY <2>1, <2>2, OneLeft
<1> HIDE DEF s
<1>13. ASSUME NEW k \in 1 .. Len(s)
       PROVE  /\ s[k].count >= -1 /\ s[k].count # 0
              /\ s[k].count = -1 => /\ cmdList[i].mark # NoMark /\ c = -1
                                    /\ s[k].from = {tag}
  <2>1. PICK j \in 1 .. Len(u) \ {r} : s[k] = u[j]
    BY <1>11
  <2>2. j \in 1 .. Len(o) /\ j # r /\ s[k].count = o[j].count
    BY <1>9, <2>1
  <2>3. s[k].count >= -1
    <3>1. \A m \in 1 .. Len(pipeList) : pipeList[m].count >= -1
      BY DEF Tidy
    <3>2. CASE j \in 1 .. Len(pipeList)
      BY <1>3, <2>2, <3>1, <3>2
    <3>3. CASE j = new /\ o[j].count = c
      BY <1>2, <1>3, <2>2, <3>3 DEF c, OutCount
    <3> QED
      BY <1>3, <2>2, <3>2, <3>3
  <2>4. s[k].count # 0
    BY <1>7, <2>2
  <2>5. ASSUME s[k].count = -1
        PROVE  cmdList[i].mark # NoMark /\ c = -1 /\ s[k].from = {tag}
    <3>1. j = new
      BY <1>8, <2>2, <2>5
    <3>2. cmdList[i].mark # NoMark /\ o[j].count = c /\ o[j].from = {}
      BY <1>3, <2>2, <3>1
    <3>3. c = -1 /\ w = new
      BY <1>3, <2>2, <2>5, <3>2
    <3> QED
      BY <1>10, <2>1, <2>2, <3>1, <3>2, <3>3
  <2> QED
    BY <2>3, <2>4, <2>5
<1>14. pipeList' = s
  BY <1>1 DEF s, u, o, w, r, tag
<1> QED
  BY <1>12, <1>13, <1>14 DEF OneWith, c, tag

LEMMA TidyStep ==
  Courteous /\ TypeOK /\ LeftPipe /\ DueDistinct /\ InLine /\ Tidy /\ TypeOK' /\ [Next]_vars
    => Tidy'
<1> SUFFICES ASSUME Courteous, TypeOK, LeftPipe, DueDistinct, InLine, Tidy, TypeOK', [Next]_vars
             PROVE  Tidy'
  OBVIOUS
<1>1. CASE Prompt \/ ReadBlank
  BY <1>1 DEF Prompt, ReadBlank, Tidy, NoneWith, OneWith
<1>2. CASE ReadLine
  <2>1. PICK line \in Lines : ~IsBlank(line) /\ Polite(line) /\ cmdList' = Input(line)
    BY <1>2 DEF ReadLine
  <2>2. cmdList' # <<>> /\ cmdList' \in Seq(Cmd)
    BY <2>1, CourteousAssumption DEF TypeOK
  <2>3. 1 \in DOMAIN cmdList' /\ ~(1 > Len(cmdList'))
    BY <2>2
  <2>4. NoneWith(0) \/ cmdList'[1].kind \notin Builtin
    <3>1. CASE FirstWith(pipeList, 0) # 0
      BY <2>1, <2>3, <3>1 DEF Polite
    <3>2. CASE FirstWith(pipeList, 0) = 0
      <4>1. 0 \in Int /\ pipeList \in Seq(PipeInfo)
        BY DEF TypeOK
      <4> QED
        BY <3>2, <4>1, Found DEF NoneWith
    <3> QED
      BY <3>1, <3>2
  <2>5. pc = "getline" /\ pc' = "run" /\ i' = 1 /\ pipeList' = pipeList
    BY <1>2 DEF ReadLine
  <2> QED
    BY <2>3, <2>4, <2>5 DEF Tidy, NoneWith, OneWith
<1>3. CASE RunBuiltin
  <2>1. /\ pc = "run" /\ i \in 1 .. Len(cmdList) /\ cmdList[i].kind \in Builtin
        /\ pipeList' = Opened /\ i' = i + 1 /\ pc' = "run" /\ cmdList' = cmdList
        /\ i \in Nat \ {0} /\ Len(cmdList) \in Nat
    BY <1>3 DEF RunBuiltin, Running, TypeOK
  <2>2. i = 1 /\ NoneWith(0) /\ NoneWith(-1)
    BY <2>1, CommandKnown DEF Tidy
  <2>3. /\ \A j \in 1 .. Len(Opened) : Opened[j].count >= -1 /\ Opened[j].count # 0
        /\ \A j \in 1 .. Len(Opened) : Opened[j].count = -1 =>
             j = Len(pipeList) + 1 /\ cmdList[i].mark # NoMark /\ OutCount(cmdList[i], IsLast) = -1
    <3> DEFINE c == OutCount(cmdList[i], IsLast)
    <3>1. /\ c = -1 \/ (c \in Nat /\ c > 0)
          /\ \A j \in 1 .. Len(pipeList) : Opened[j] = pipeList[j]
          /\ \A j \in 1 .. Len(Opened) :
               j \in 1 .. Len(pipeList) \/ (j = Len(pipeList) + 1 /\ Opened[j].count = c)
          /\ cmdList[i].mark = NoMark => Len(Opened) = Len(pipeList)
          /\ Len(pipeList) \in Nat
      BY <2>1, OpenedCounts, CommandKnown DEF OutCount
    <3>2. \A j \in 1 .. Len(pipeList) :
            pipeList[j].count >= -1 /\ pipeList[j].count # 0 /\ pipeList[j].count # -1
      BY <2>2 DEF Tidy, NoneWith
    <3> HIDE DEF c
    <3>3. ASSUME NEW j \in 1 .. Len(Opened)
          PROVE  /\ Opened[j].count >= -1 /\ Opened[j].count # 0
                 /\ Opened[j].count = -1 =>
                      j = Len(pipeList) + 1 /\ cmdList[i].mark # NoMark /\ c = -1
      BY <3>1, <3>2
    <3> QED
      BY <3>3 DEF c
  <2>4. i' > Len(cmdList') => \A j \in 1 .. Len(Opened) : Opened[j].count # -1
    BY <2>1, <2>3, CommandKnown DEF IsLast, OutCount
  <2> QED
    BY <2>1, <2>2, <2>3, <2>4 DEF Tidy, NoneWith, OneWith
<1>4. CASE RunExit \/ Abort
  <2>1. /\ pc = "run" /\ i \in 1 .. Len(cmdList) /\ pipeList' = Opened
        /\ pc' \in {"exited", "aborted"}
    BY <1>4 DEF RunExit, Abort, Running, TypeOK
  <2>2. \A j \in 1 .. Len(Opened) : Opened[j].count >= -1
    <3>1. /\ OutCount(cmdList[i], IsLast) >= -1
          /\ \A j \in 1 .. Len(pipeList) : Opened[j] = pipeList[j]
          /\ \A j \in 1 .. Len(Opened) :
               \/ j \in 1 .. Len(pipeList)
               \/ Opened[j].count = OutCount(cmdList[i], IsLast)
      BY <2>1, OpenedCounts, CommandKnown DEF OutCount
    <3> QED
      BY <3>1 DEF Tidy
  <2> QED
    BY <2>1, <2>2 DEF Tidy
<1>5. CASE Fork
  <2>1. /\ pc = "run" /\ i \in 1 .. Len(cmdList)
        /\ i' = i + 1 /\ pc' = "run" /\ cmdList' = cmdList
        /\ i \in Nat \ {0} /\ Len(cmdList) \in Nat
    BY <1>5 DEF Fork, Running, TypeOK
  <2>2. /\ \A k \in 1 .. Len(pipeList') :
              /\ pipeList'[k].count >= -1 /\ pipeList'[k].count # 0
              /\ pipeList'[k].count = -1 =>
                   cmdList[i].mark # NoMark /\ OutCount(cmdList[i], IsLast) = -1
        /\ OneWith(-1)'
    BY <1>5, ForkLeaves
  <2>3. i' > Len(cmdList') => NoneWith(-1)'
    BY <2>1, <2>2, CommandKnown DEF IsLast, OutCount, NoneWith
  <2> QED
    BY <2>1, <2>2, <2>3 DEF Tidy, NoneWith
<1>6. CASE EndLine
  <2>1. /\ pc = "run" /\ i > Len(cmdList) /\ pc' = "prompt" /\ pipeList' = CountDown(pipeList)
    BY <1>6 DEF EndLine
  <2>2. \A j \in 1 .. Len(pipeList) :
          pipeList[j].count \in Int /\ pipeList[j].count >= -1 /\ pipeList[j].count \notin {0, -1}
    <3>1. \A j \in 1 .. Len(pipeList) : pipeList[j] \in PipeInfo
      BY DEF TypeOK
    <3> QED
      BY <2>1, <3>1 DEF Tidy, NoneWith, PipeInfo
  <2>3. /\ Len(pipeList') = Len(pipeList)
        /\ \A j \in 1 .. Len(pipeList) : pipeList'[j].count = pipeList[j].count - 1
    BY <2>1, CountDownProperties DEF TypeOK
  <2>4. \A j \in 1 .. Len(pipeList') : pipeList'[j].count >= -1 /\ pipeList'[j].count # -1
    BY <2>2, <2>3
  <2> QED
    BY <2>1, <2>4 DEF Tidy, NoneWith
<1>7. CASE UNCHANGED <<pipeList, cmdList, i, pc>>
  BY <1>7 DEF Tidy, NoneWith, OneWith
<1> QED
  BY <1>1, <1>2, <1>3, <1>4, <1>5, <1>6, <1>7 DEF Next, Shell, CloseStdin, vars

LEMMA TidyAlways == Courteous => (Spec => []Tidy)
<1> SUFFICES ASSUME Courteous PROVE Spec => []Tidy
  OBVIOUS
<1>1. Init => Tidy
  BY DEF Init, Tidy, NoneWith, OneWith
<1>2. TypeOK /\ LeftPipe /\ DueDistinct /\ InLine /\ Tidy /\ TypeOK' /\ [Next]_vars => Tidy'
  BY TidyStep
<1> QED
  BY <1>1, <1>2, TypeCorrect, IInvCorrect, NeverDueTogether, InLineAlways, PTL
     DEF Spec, IInv

\* Between two lines of a courteous user nothing in the table is overdue, so no
\* command reads what was meant for another.
THEOREM NothingStaleHolds == Spec => []NothingStale
<1>1. CASE Courteous
  <2>1. TypeOK /\ Tidy => NothingStale
    <3> SUFFICES ASSUME TypeOK, Tidy, pc \in {"prompt", "getline"}, NEW j \in DOMAIN pipeList
                 PROVE  pipeList[j].count >= 0
      BY DEF NothingStale
    <3>1. j \in 1 .. Len(pipeList) /\ pipeList[j] \in PipeInfo
      BY DEF TypeOK
    <3>2. pipeList[j].count \in Int
      BY <3>1 DEF PipeInfo
    <3>3. pipeList[j].count >= -1 /\ pipeList[j].count # -1
      BY <3>1 DEF Tidy, NoneWith
    <3> QED
      BY <3>2, <3>3
  <2> QED
    BY <1>1, <2>1, TidyAlways, TypeCorrect, PTL
<1>2. CASE ~Courteous
  <2>1. NothingStale
    BY <1>2 DEF NothingStale
  <2> QED
    BY <2>1, PTL
<1> QED
  BY <1>1, <1>2

-----------------------------------------------------------------------------
(* The table implements the promise. *)

Due == OnItsWay(pipeList)

LEMMA AtIsFrom ==
  ASSUME TypeOK, NEW n \in Nat
  PROVE  Promise!At(n) = From(pipeList, n)
<1>1. (IF n \in DOMAIN OnItsWay(pipeList) THEN OnItsWay(pipeList)[n] ELSE {}) = From(pipeList, n)
  BY OnItsWayAt DEF TypeOK
<1> QED
  BY <1>1 DEF Promise!At

\* Opening an output pipe moves nothing.
LEMMA OpenedKeeps ==
  ASSUME TypeOK, i \in 1 .. Len(cmdList)
  PROVE  /\ OnItsWay(Opened) = Due
         /\ \A n \in Nat : From(Opened, n) = From(pipeList, n)
         /\ Content(Opened, FirstWith(Opened, -1)) = Content(pipeList, FirstWith(pipeList, -1))
<1>1. /\ cmdList[i].lineToPipe \in Nat /\ pipeList \in Seq(PipeInfo) /\ IsLast \in BOOLEAN
      /\ -1 \in Int
  BY OpenedProperties DEF TypeOK, Cmd, Segment, IsLast
<1> DEFINE command == cmdList[i]
           o == Pipee(pipeList, command, IsLast)
           n == -1
<1>2. Opened = o
  BY DEF Opened
<1>3. OnItsWay(o) = OnItsWay(pipeList)
  BY <1>1, OpenedOnItsWay
<1>5. \A m \in Nat : From(o, m) = From(pipeList, m)
  BY <1>1, PipeeFrom
<1> HIDE DEF n
<1>4. Content(o, FirstWith(o, n)) = Content(pipeList, FirstWith(pipeList, n))
  BY <1>1, PipeeFirst DEF n
<1> QED
  BY <1>2, <1>3, <1>4, <1>5 DEF n, Due

\* A program is started: the first one of the line reads all that is due, and one
\* with a number behind it adds its output to what is on its way.
LEMMA ForkMoves ==
  ASSUME TypeOK, LeftPipe, DueDistinct, InLine, Fork
  PROVE  LET c == cmdList[i].lineToPipe
             rest == IF i = 1 THEN AfterRead(Due) ELSE Due
         IN  /\ i = 1 => received' = From(pipeList, 0)
             /\ Due' = IF c > 0 /\ IsLast
                       THEN WithMore(rest, c, From(pipeList, c) \cup {cmdList[i].tag})
                       ELSE rest
<1>1. /\ pc = "run" /\ i \in 1 .. Len(cmdList) /\ i \in Nat \ {0}
      /\ received' = Content(Opened, In)
      /\ pipeList' = Close(Write(Opened, Out, cmdList[i].tag), In)
  BY DEF TypeOK, Fork, Running
<1> DEFINE o == Opened
           r == In
           w == Out
           c == cmdList[i].lineToPipe
           tag == cmdList[i].tag
           out == OutCount(cmdList[i], IsLast)
           t == Close(Write(o, w, tag), r)
<1>2. /\ o \in Seq(PipeInfo) /\ tag \in Tag /\ r \in 0 .. Len(o) /\ Distinct(o)
      /\ c \in Nat /\ IsLast \in BOOLEAN
      /\ cmdList[i].mark = NoMark => c = 0 /\ w = 0
      /\ cmdList[i].mark # NoMark => w \in 1 .. Len(o) /\ o[w].count = out
  BY <1>1, OpenedProperties, CommandKnown, OutIsKept DEF DueDistinct, IsLast, Out, FdOut
<1>3. out = IF c > 0 /\ IsLast THEN c ELSE -1
  BY <1>2 DEF OutCount
<1>4. r = FirstWith(o, IF i = 1 THEN 0 ELSE -1)
  BY DEF In, FdIn
<1>5. OnItsWay(o) = Due /\ \A n \in Nat : From(o, n) = From(pipeList, n)
  BY <1>1, OpenedKeeps
<1>6. Due' = OnItsWay(t) /\ received' = Content(o, r)
  BY <1>1 DEF Due
<1> HIDE DEF o, r, w, tag, c, out
<1>7. /\ w \in 0 .. Len(o)
      /\ w # 0 => o[w].count # 0
      /\ w # 0 /\ o[w].count > 0 <=> c > 0 /\ IsLast
      /\ c > 0 /\ IsLast => o[w].count = c
  BY <1>2, <1>3
<1>8. From(o, c) = From(pipeList, c)
  BY <1>2, <1>5
<1>9. CASE i = 1
  <2>1. r = FirstWith(o, 0)
    BY <1>4, <1>9
  <2>2. /\ Content(o, r) = From(o, 0)
        /\ ~(w # 0 /\ o[w].count > 0) => OnItsWay(t) = AfterRead(OnItsWay(o))
        /\ w # 0 /\ o[w].count > 0 =>
             OnItsWay(t) = WithMore(AfterRead(OnItsWay(o)), o[w].count,
                                    From(o, o[w].count) \cup {tag})
    BY <1>2, <1>7, <2>1, FirstOnItsWay
  <2> HIDE DEF t
  <2> QED
    BY <1>5, <1>6, <1>7, <1>8, <1>9, <2>2 DEF tag, c
<1>10. CASE i # 1
  <2>1. r # 0 => o[r].count = -1
    <3> DEFINE d == -1
    <3>1. d \in Int /\ r = FirstWith(o, d)
      BY <1>4, <1>10
    <3> HIDE DEF d
    <3>2. r # 0 => o[r].count = d
      BY <1>2, <3>1, FirstWithFinds
    <3> QED
      BY <3>2 DEF d
  <2>2. /\ ~(w # 0 /\ o[w].count > 0) => OnItsWay(t) = OnItsWay(o)
        /\ w # 0 /\ o[w].count > 0 =>
             OnItsWay(t) = WithMore(OnItsWay(o), o[w].count, From(o, o[w].count) \cup {tag})
    BY <1>2, <1>7, <2>1, LaterOnItsWay
  <2> HIDE DEF t
  <2> QED
    BY <1>5, <1>6, <1>7, <1>8, <1>10, <2>2 DEF tag, c
<1> QED
  BY <1>9, <1>10

\* On a courteous user's line it reads what the command on its left has written,
\* and leaves what it has written itself to the one on its right.
LEMMA ForkCarried ==
  ASSUME TypeOK, LeftPipe, DueDistinct, InLine, Tidy, Courteous, Fork, TypeOK'
  PROVE  /\ i # 1 => received' = Carried
         /\ Carried' = IF cmdList[i].mark # NoMark /\ ~(cmdList[i].lineToPipe > 0 /\ IsLast)
                       THEN {cmdList[i].tag} ELSE {}
<1>1. /\ pc = "run" /\ i \in 1 .. Len(cmdList) /\ i \in Nat \ {0}
      /\ received' = Content(Opened, In) /\ pipeList' \in Seq(PipeInfo)
      /\ cmdList[i].lineToPipe \in Nat
  BY CommandKnown DEF TypeOK, Fork, Running
<1>2. i # 1 => received' = Carried
  BY <1>1, OpenedKeeps DEF In, FdIn, Carried
<1> DEFINE ordinary == cmdList[i].mark # NoMark /\ OutCount(cmdList[i], IsLast) = -1
           f == FirstWith(pipeList', -1)
<1>3. ordinary <=> cmdList[i].mark # NoMark /\ ~(cmdList[i].lineToPipe > 0 /\ IsLast)
  BY <1>1 DEF OutCount
<1>4. Carried' = Content(pipeList', f)
  BY DEF Carried
<1>5. f # 0 => f \in 1 .. Len(pipeList') /\ pipeList'[f].count = -1
  <2> DEFINE d == -1
             t == pipeList'
  <2>1. t \in Seq(PipeInfo) /\ d \in Int
    BY <1>1
  <2> HIDE DEF d, t
  <2>2. /\ FirstWith(t, d) \in 0 .. Len(t)
        /\ FirstWith(t, d) # 0 => t[FirstWith(t, d)].count = d
    BY <2>1, FirstWithFinds
  <2> QED
    BY <2>1, <2>2 DEF d, t
<1>6. f # 0 => ordinary /\ pipeList'[f].from = {cmdList[i].tag}
  BY <1>5, ForkLeaves
<1>7. ordinary => f # 0
  <2> SUFFICES ASSUME ordinary PROVE f # 0
    OBVIOUS
  <2> DEFINE d == -1
             t == pipeList'
  <2>1. \E j \in 1 .. Len(t) : t[j].count = d
    BY ForkKeepsOutput
  <2>2. t \in Seq(PipeInfo) /\ d \in Int
    BY <1>1
  <2> HIDE DEF d, t
  <2>3. FirstWith(t, d) # 0
    BY <2>1, <2>2, Found
  <2> QED
    BY <2>3 DEF d, t
<1> HIDE DEF f, ordinary
<1>8. Carried' = IF ordinary THEN {cmdList[i].tag} ELSE {}
  BY <1>4, <1>6, <1>7 DEF Content
<1> QED
  BY <1>2, <1>3, <1>8

-----------------------------------------------------------------------------
(* Last, the steps. *)

LEMMA OpeningKeeps ==
  ASSUME TypeOK, i \in 1 .. Len(cmdList), pipeList' = Opened
  PROVE  Due' = Due /\ Carried' = Carried
<1>1. /\ OnItsWay(pipeList') = Due
      /\ Content(pipeList', FirstWith(pipeList', -1)) = Content(pipeList, FirstWith(pipeList, -1))
  BY OpenedKeeps
<1> QED
  BY <1>1 DEF Due, Carried

LEMMA IdleStep ==
  ASSUME TypeOK, Prompt \/ ReadBlank \/ RunExit \/ Abort \/ CloseStdin \/ UNCHANGED vars
  PROVE  [Promise!Next]_Promise!vars
<1>1. /\ UNCHANGED <<cmdList, i, received>>
      /\ \/ pc = "prompt" /\ pc' = "getline"
         \/ pc = "getline" /\ pc' = "prompt"
         \/ pc = "run" /\ pc' \in {"exited", "aborted"}
         \/ pc' = pc
  <2>1. CASE Prompt \/ ReadBlank
    BY <2>1 DEF Prompt, ReadBlank
  <2>2. CASE RunExit \/ Abort
    BY <2>2 DEF RunExit, Abort, Running
  <2>3. CASE CloseStdin \/ UNCHANGED vars
    BY <2>3 DEF CloseStdin, vars
  <2> QED
    BY <2>1, <2>2, <2>3
<1>2. Due' = Due /\ Carried' = Carried
  <2>1. CASE RunExit \/ Abort
    <3>1. i \in 1 .. Len(cmdList) /\ pipeList' = Opened
      BY <2>1 DEF RunExit, Abort, Running, TypeOK
    <3> QED
      BY <3>1, OpeningKeeps
  <2>2. CASE pipeList' = pipeList
    BY <2>2 DEF Due, Carried
  <2> QED
    BY <2>1, <2>2 DEF Prompt, ReadBlank, CloseStdin, vars
<1> QED
  BY <1>1, <1>2 DEF Promise!Next, Promise!Idle, Promise!vars, Due

LEMMA SkipStep ==
  ASSUME TypeOK, RunBuiltin
  PROVE  Promise!Skip
<1>1. i \in 1 .. Len(cmdList) /\ pipeList' = Opened
  BY DEF RunBuiltin, Running, TypeOK
<1>2. Due' = Due /\ Carried' = Carried
  BY <1>1, OpeningKeeps
<1> QED
  BY <1>2 DEF RunBuiltin, Running, Promise!Skip, Promise!Builtin, Builtin, Due

LEMMA StartStep ==
  ASSUME ReadLine
  PROVE  Promise!Start
<1>1. Due' = Due /\ Carried' = Carried
  BY DEF ReadLine, Due, Carried
<1> QED
  BY <1>1 DEF ReadLine, Promise!Start, Promise!Input, Input, Due

LEMMA TurnStep ==
  ASSUME TypeOK, TypeOK', Courteous => Tidy', EndLine
  PROVE  Promise!Turn
<1>1. Due' = [n \in {m - 1 : m \in DOMAIN Due \ {0}} |-> Due[n + 1]]
  BY CountedOnItsWay DEF TypeOK, EndLine, Due
<1>2. Carried' = {}
  <2>1. CASE ~Courteous
    BY <2>1 DEF Carried
  <2>2. CASE Courteous
    <3> DEFINE d == -1
               t == pipeList'
    <3>1. t \in Seq(PipeInfo) /\ d \in Int /\ \A j \in 1 .. Len(t) : t[j].count # d
      BY <2>2 DEF TypeOK, EndLine, Tidy, NoneWith
    <3>2. Carried' = Content(t, FirstWith(t, d))
      BY <2>2 DEF Carried
    <3> HIDE DEF d, t
    <3>3. FirstWith(t, d) = 0
      BY <3>1, Found
    <3> QED
      BY <3>2, <3>3 DEF Content
  <2> QED
    BY <2>1, <2>2
<1> QED
  BY <1>1, <1>2 DEF EndLine, Cleared, Promise!Turn, Due

LEMMA RunStep ==
  ASSUME TypeOK, TypeOK', LeftPipe, DueDistinct, InLine, Courteous => Tidy, Fork
  PROVE  Promise!Run
<1> DEFINE c == cmdList[i].lineToPipe
           tag == cmdList[i].tag
           numbered == c > 0 /\ i = Len(cmdList)
           rest == IF i = 1 THEN Promise!Restrict(Due, DOMAIN Due \ {0}) ELSE Due
<1>1. /\ pc = "run" /\ i <= Len(cmdList) /\ cmdList[i].kind = "exec"
      /\ i \in 1 .. Len(cmdList) /\ i' = i + 1
      /\ UNCHANGED <<cmdList, pc>>
      /\ received' \in SUBSET Tag
      /\ i = 1 \/ i > 1
  BY DEF Fork, Running, TypeOK
<1>2. c \in Nat /\ 0 \in Nat
  BY <1>1, CommandKnown
<1>3. rest = IF i = 1 THEN AfterRead(Due) ELSE Due
  BY DEF Promise!Restrict, AfterRead
<1> HIDE DEF rest
<1>4. /\ i = 1 => received' = Promise!At(0)
      /\ Due' = IF numbered
                THEN [n \in DOMAIN rest \cup {c} |->
                        IF n = c THEN Promise!At(n) \cup {tag} ELSE rest[n]]
                ELSE rest
  <2>1. Promise!At(0) = From(pipeList, 0) /\ Promise!At(c) = From(pipeList, c)
    BY <1>2, AtIsFrom
  <2>2. /\ i = 1 => received' = From(pipeList, 0)
        /\ Due' = IF numbered THEN WithMore(rest, c, From(pipeList, c) \cup {tag}) ELSE rest
    BY <1>3, ForkMoves DEF IsLast
  <2>3. WithMore(rest, c, From(pipeList, c) \cup {tag}) =
          [n \in DOMAIN rest \cup {c} |->
             IF n = c THEN Promise!At(n) \cup {tag} ELSE rest[n]]
    BY <2>1 DEF WithMore
  <2> QED
    BY <2>1, <2>2, <2>3
<1>5. Carried' = IF Courteous /\ cmdList[i].mark # NoMark /\ ~numbered THEN {tag} ELSE {}
  BY ForkCarried DEF Carried, IsLast
<1>6. Courteous /\ i # 1 => received' = Carried
  BY ForkCarried
<1> QED
  BY <1>1, <1>4, <1>5, <1>6
     DEF Promise!Run, Promise!NoMark, NoMark, rest, Due

InOrder == Courteous => Tidy

\* Every program that opens a line reads exactly what was piped to that line,
\* whatever the users type; a courteous user's other programs read exactly what
\* the command on their left has written.
THEOREM ShellKeepsPromise == Spec => KeepsPromise
<1>1. Init => Promise!Init
  <2> SUFFICES ASSUME Init PROVE Promise!Init
    OBVIOUS
  <2>1. CountsDown(pipeList) = {} /\ pipeList = <<>>
    BY DEF Init, CountsDown
  <2>2. OnItsWay(pipeList) = [n \in {} |-> {}]
    BY <2>1 DEF OnItsWay
  <2>3. Carried = {}
    BY <2>1 DEF Carried, Content, FirstWith
  <2> QED
    BY <2>2, <2>3 DEF Init, Promise!Init
<1>2. /\ TypeOK /\ LeftPipe /\ DueDistinct /\ InLine /\ InOrder
      /\ [Next]_vars /\ TypeOK' /\ InOrder'
      => [Promise!Next]_Promise!vars
  BY SkipStep, StartStep, TurnStep, RunStep, IdleStep
     DEF Next, Shell, InOrder, Promise!Next
<1>3. Spec => []InOrder
  <2>1. CASE Courteous
    <3>1. Tidy => InOrder
      BY DEF InOrder
    <3> QED
      BY <2>1, <3>1, TidyAlways, PTL
  <2>2. CASE ~Courteous
    <3>1. InOrder
      BY <2>2 DEF InOrder
    <3> QED
      BY <3>1, PTL
  <2> QED
    BY <2>1, <2>2
<1> QED
  BY <1>1, <1>2, <1>3, TypeCorrect, IInvCorrect, NeverDueTogether, InLineAlways, PTL
     DEF Spec, IInv, KeepsPromise, Promise!Spec
=============================================================================
