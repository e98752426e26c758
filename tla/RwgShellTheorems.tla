--------------------------- MODULE RwgShellTheorems ---------------------------
(***************************************************************************)
(* Theorems about the shell of the multi-process server, for every set of  *)
(* lines.                                                                  *)
(***************************************************************************)
EXTENDS RwgShell, PipeTableTheorems

\* The loop that opens the pipe a line ends in.
LEMMA WithPipeOutProperties ==
  ASSUME NEW table \in Seq(PipeInfo), NEW count \in Nat
  PROVE  /\ WithPipeOut(table, count) \in Seq(PipeInfo)
         /\ Distinct(table) => Distinct(WithPipeOut(table, count))
         /\ \A j \in 1 .. Len(WithPipeOut(table, count)) :
              \/ \E k \in 1 .. Len(table) : WithPipeOut(table, count)[j] = table[k]
              \/ WithPipeOut(table, count)[j].count > 0
<1> DEFINE e == [count |-> count, from |-> {}]
           t == Append(table, e)
<1>1. e \in PipeInfo /\ e.count = count
  BY DEF PipeInfo
<1>2. Len(table) \in Nat
  OBVIOUS
<1>3. CASE WithPipeOut(table, count) = table
  BY <1>2, <1>3
<1>4. CASE WithPipeOut(table, count) = t /\ count # 0 /\ FirstWith(table, count) = 0
  <2> HIDE DEF e
  <2>1. /\ t \in Seq(PipeInfo)
        /\ Len(t) = Len(table) + 1
        /\ \A j \in 1 .. Len(table) : t[j] = table[j]
        /\ t[Len(table) + 1] = e
    BY <1>1, AppendProperties
  <2>2. \A j \in 1 .. Len(table) : table[j].count # e.count
    <3>1. count \in Int
      OBVIOUS
    <3>2. \A j \in 1 .. Len(table) : table[j].count = count => FirstWith(table, count) \in 1 .. j
      BY <3>1, FirstWithFinds
    <3> QED
      BY <1>1, <1>2, <1>4, <3>2
  <2>3. Distinct(table) => Distinct(t)
    BY <1>1, <2>2, AppendDistinct
  <2>4. ASSUME NEW j \in 1 .. Len(t)
        PROVE  (\E k \in 1 .. Len(table) : t[j] = table[k]) \/ t[j].count > 0
    <3>1. CASE j \in 1 .. Len(table)
      BY <2>1, <3>1
    <3>2. CASE j = Len(table) + 1
      BY <1>1, <1>4, <2>1, <3>2
    <3> QED
      BY <1>2, <2>1, <3>1, <3>2
  <2> QED
    BY <1>4, <2>1, <2>3, <2>4
<1> QED
  BY <1>3, <1>4 DEF WithPipeOut

\* The table between two lines: nothing due, nothing twice.
Waiting(table) ==
  /\ Distinct(table)
  /\ \A j \in DOMAIN table : table[j].count >= 1

\* What reading a line does to the table and to the input of its first command.
LEMMA ReadLineProperties ==
  ASSUME NEW table \in Seq(PipeInfo), NEW count \in Nat
  PROVE  LET opened == WithPipeOut(Counted(table), count)
             due == FirstWith(opened, 0)
         IN  /\ Close(opened, due) \in Seq(PipeInfo)
             /\ Content(opened, due) \in SUBSET Tag
             /\ Waiting(table) => Waiting(Close(opened, due))
<1> DEFINE c == Counted(table)
           o == WithPipeOut(c, count)
           due == FirstWith(o, 0)
           t == Close(o, due)
<1>1. /\ c \in Seq(PipeInfo)
      /\ Len(c) = Len(table)
      /\ \A j \in 1 .. Len(table) : c[j].count = table[j].count - 1
      /\ Distinct(table) => Distinct(c)
  BY CountDownProperties DEF Counted
<1> HIDE DEF c
<1>2. /\ o \in Seq(PipeInfo)
      /\ Distinct(c) => Distinct(o)
      /\ \A j \in 1 .. Len(o) : (\E k \in 1 .. Len(c) : o[j] = c[k]) \/ o[j].count > 0
  BY <1>1, WithPipeOutProperties
<1> HIDE DEF o
<1>3. /\ due \in 0 .. Len(o)
      /\ due # 0 => o[due].count = 0
      /\ \A j \in 1 .. Len(o) : o[j].count = 0 => due \in 1 .. j
  BY <1>2, FirstWithFinds
<1> HIDE DEF due
<1>4. /\ t \in Seq(PipeInfo)
      /\ Distinct(o) => Distinct(t)
      /\ \A k \in 1 .. Len(t) : \E j \in 1 .. Len(o) \ {due} : t[k] = o[j]
  BY <1>2, <1>3, CloseProperties
<1> HIDE DEF t
<1>5. Content(o, due) \in SUBSET Tag
  <2>1. CASE due = 0
    BY <2>1 DEF Content
  <2>2. CASE due # 0
    <3>1. o[due] \in PipeInfo
      BY <1>2, <1>3, <2>2
    <3> QED
      BY <2>2, <3>1 DEF Content, PipeInfo
  <2> QED
    BY <2>1, <2>2
<1>6. ASSUME Waiting(table) PROVE Waiting(t)
  <2>1. Distinct(o) /\ Distinct(t)
    BY <1>1, <1>2, <1>4, <1>6 DEF Waiting
  <2>2. ASSUME NEW j \in 1 .. Len(o) PROVE o[j].count \in Int /\ o[j].count >= 0
    <3>1. o[j].count \in Int
      <4>1. o[j] \in PipeInfo
        BY <1>2
      <4> QED
        BY <4>1 DEF PipeInfo
    <3>2. CASE \E k \in 1 .. Len(c) : o[j] = c[k]
      <4>1. PICK k \in 1 .. Len(table) : o[j] = c[k]
        BY <1>1, <3>2
      <4>2. table[k].count \in Int /\ table[k].count >= 1
        <5>1. table[k] \in PipeInfo /\ k \in DOMAIN table
          OBVIOUS
        <5> QED
          BY <1>6, <5>1 DEF Waiting, PipeInfo
      <4> QED
        BY <1>1, <3>1, <4>1, <4>2
    <3> QED
      BY <1>2, <3>1, <3>2
  <2>3. ASSUME NEW j \in 1 .. Len(o) \ {due} PROVE o[j].count >= 1
    <3>1. ASSUME o[j].count = 0 PROVE FALSE
      <4>1. due \in 1 .. Len(o) /\ o[due].count = 0
        BY <1>3, <3>1
      <4>2. j \in DOMAIN o /\ due \in DOMAIN o /\ j # due
        BY <1>2, <4>1
      <4> QED
        BY <2>1, <3>1, <4>1, <4>2 DEF Distinct
    <3> QED
      BY <2>2, <3>1
  <2>4. DOMAIN t = 1 .. Len(t)
    BY <1>4
  <2> QED
    BY <1>4, <2>1, <2>3, <2>4 DEF Waiting
<1> QED
  BY <1>4, <1>5, <1>6 DEF t, due, o, c

LEMMA PipeCountNat ==
  ASSUME NEW list \in Seq(Cmd)
  PROVE  PipeCount(list) \in Nat
<1>1. CASE list = <<>>
  BY <1>1 DEF PipeCount
<1>2. CASE list # <<>>
  <2>1. list[Len(list)] \in Cmd
    BY <1>2
  <2> QED
    BY <1>2, <2>1 DEF PipeCount, Cmd, Segment
<1> QED
  BY <1>1, <1>2

\* The type invariant.
THEOREM TypeCorrect == Spec => []TypeOK
<1>1. Init => TypeOK
  BY DEF Init, TypeOK, State
<1>2. TypeOK /\ [Next]_vars => TypeOK'
  <2> SUFFICES ASSUME TypeOK, [Next]_vars PROVE TypeOK'
    OBVIOUS
  <2> USE DEF TypeOK, State
  <2>1. CASE ReadLine
    <3>1. PICK line \in Lines :
            LET opened == WithPipeOut(Counted(userPipes), PipeCount(Input(line)))
                due == FirstWith(opened, 0)
            IN  /\ ~IsEmpty(line)
                /\ cmds' = Input(line)
                /\ prePipeRd' = Content(opened, due)
                /\ userPipes' = Close(opened, due)
      BY <2>1 DEF ReadLine
    <3>2. Input(line) \in Seq(Cmd) /\ Input(line) # <<>>
      BY <3>1, RwgShellAssumption DEF IsEmpty
    <3>3. PipeCount(Input(line)) \in Nat
      BY <3>2, PipeCountNat
    <3>4. userPipes' \in Seq(PipeInfo) /\ prePipeRd' \in SUBSET Tag
      BY <3>1, <3>3, ReadLineProperties
    <3> QED
      BY <2>1, <3>1, <3>2, <3>4 DEF ReadLine
  <2>2. CASE Fork
    <3>1. cmds[i].tag \in Tag
      BY <2>2 DEF Fork, Running, Cmd, Segment
    <3>2. Write(userPipes, PipeOut, cmds[i].tag) \in Seq(PipeInfo)
      BY <3>1, WriteProperties
    <3> QED
      BY <2>2, <3>1, <3>2 DEF Fork, Running
  <2>3. CASE Prompt \/ ReadEnd \/ ReadExit \/ ReadEmpty
    BY <2>3 DEF Prompt, ReadEnd, ReadExit, ReadEmpty, EndSession
  <2>4. CASE RunBuiltin
    <3>1. Len(cmds) + 1 \in Nat \ {0}
      OBVIOUS
    <3> QED
      BY <2>4, <3>1 DEF RunBuiltin
  <2>5. CASE Abort
    BY <2>5 DEF Abort
  <2>6. CASE EndLine
    <3>1. <<>> \in Seq(Cmd)
      OBVIOUS
    <3> QED
      BY <2>6, <3>1 DEF EndLine
  <2>7. CASE CloseStdin
    BY <2>7 DEF CloseStdin
  <2>8. CASE UNCHANGED vars
    BY <2>8 DEF vars
  <2> QED
    BY <2>1, <2>2, <2>3, <2>4, <2>5, <2>6, <2>7, <2>8 DEF Next, Shell
<1> QED
  BY <1>1, <1>2, PTL DEF Spec

\* At most one pipe is due at a line, and after the line was read none of an
\* earlier one is left: the pipe that is found is all that was sent there.
THEOREM AlwaysOneDue == Spec => []OneDuePerLine
<1>1. Init => OneDuePerLine
  BY DEF Init, OneDuePerLine, Distinct
<1>2. TypeOK /\ OneDuePerLine /\ [Next]_vars => OneDuePerLine'
  <2> SUFFICES ASSUME TypeOK, Waiting(userPipes), [Next]_vars
               PROVE  Waiting(userPipes')
    BY DEF OneDuePerLine, Waiting
  <2>1. CASE UNCHANGED userPipes
    BY <2>1
  <2>2. CASE ReadLine
    <3>1. PICK line \in Lines :
            LET opened == WithPipeOut(Counted(userPipes), PipeCount(Input(line)))
                due == FirstWith(opened, 0)
            IN  userPipes' = Close(opened, due)
      BY <2>2 DEF ReadLine
    <3>2. PipeCount(Input(line)) \in Nat
      BY RwgShellAssumption, PipeCountNat
    <3> QED
      BY <3>1, <3>2, ReadLineProperties DEF TypeOK
  <2>3. CASE Fork
    <3>1. CASE UNCHANGED userPipes
      BY <3>1
    <3>2. CASE userPipes' = Write(userPipes, PipeOut, cmds[i].tag)
      <4>1. userPipes \in Seq(PipeInfo) /\ cmds[i].tag \in Tag
        BY <2>3 DEF TypeOK, Fork, Running, Cmd, Segment
      <4>2. /\ userPipes' \in Seq(PipeInfo)
            /\ Len(userPipes') = Len(userPipes)
            /\ \A j \in 1 .. Len(userPipes) : userPipes'[j].count = userPipes[j].count
            /\ Distinct(userPipes')
        BY <3>2, <4>1, WriteProperties DEF Waiting
      <4> QED
        BY <4>1, <4>2 DEF Waiting
    <3> QED
      BY <2>3, <3>1, <3>2 DEF Fork
  <2> QED
    BY <2>1, <2>2, <2>3
    DEF Next, Shell, Prompt, ReadEnd, ReadExit, ReadEmpty, RunBuiltin, Abort, EndLine,
        CloseStdin, vars
<1> QED
  BY <1>1, <1>2, TypeCorrect, PTL DEF Spec

-----------------------------------------------------------------------------
(* The shell keeps the promise of PipePromise.  First, the pipe a line ends *)
(* in carries nothing yet.                                                   *)

LEMMA OpenedFrom ==
  ASSUME NEW table \in Seq(PipeInfo), NEW count \in Nat, NEW n \in Int
  PROVE  From(WithPipeOut(table, count), n) = From(table, n)
BY AppendedFrom DEF WithPipeOut

-----------------------------------------------------------------------------
(* Second, what is on its way, as a function of all numbers of lines. *)

Offset == IF pc \in {"run", "aborted"} THEN 0 ELSE 1
Waits ==
  [n \in Nat |-> From(userPipes, n + Offset) \cup (IF n = 0 /\ Unread THEN prePipeRd ELSE {})]

LEMMA WaitsType ==
  ASSUME TypeOK
  PROVE  Waits \in [Nat -> SUBSET Tag]
<1>1. ASSUME NEW n PROVE From(userPipes, n) \subseteq Tag
  <2>1. \A j \in DOMAIN userPipes : userPipes[j] \in PipeInfo
    BY DEF TypeOK
  <2> QED
    BY <2>1, InFrom DEF PipeInfo
<1> QED
  BY <1>1 DEF Waits, TypeOK

DueFrom(n) == UNION {userPipes[j].from : j \in {k \in Filled : Now(k) = n}}

LEMMA DueIsSupport ==
  ASSUME TypeOK, OneDuePerLine
  PROVE  Due = Support(Waits)
<1>1. Offset \in {0, 1} /\ \A j : Now(j) = userPipes[j].count - Offset
  BY DEF Offset, Now
<1>2. ASSUME NEW j \in DOMAIN userPipes, NEW n \in Nat
      PROVE  Now(j) \in Nat /\ (Now(j) = n <=> userPipes[j].count = n + Offset)
  <2>1. userPipes[j].count \in Int /\ userPipes[j].count >= 1
    <3>1. userPipes[j] \in PipeInfo
      BY DEF TypeOK
    <3> QED
      BY <3>1 DEF OneDuePerLine, PipeInfo
  <2> QED
    BY <1>1, <2>1
<1>3. ASSUME NEW n \in Nat
      PROVE  DueFrom(n) = From(userPipes, n + Offset)
  <2>1. ASSUME NEW x
        PROVE  (\E j \in Filled : Now(j) = n /\ x \in userPipes[j].from)
                 <=> x \in From(userPipes, n + Offset)
    BY <1>2, InFrom DEF Filled
  <2> QED
    BY <2>1 DEF DueFrom
<1>4. DueLines = {m \in Nat : Waits[m] # {}}
  <2>1. ASSUME NEW n \in DueLines PROVE n \in Nat /\ Waits[n] # {}
    <3>1. CASE \E j \in Filled : n = Now(j)
      <4>1. PICK j \in Filled : n = Now(j)
        BY <3>1
      <4>2. PICK x : x \in userPipes[j].from
        BY DEF Filled
      <4>3. n \in Nat /\ userPipes[j].count = n + Offset /\ j \in DOMAIN userPipes
        BY <1>2, <4>1 DEF Filled
      <4>4. x \in From(userPipes, n + Offset)
        BY <4>2, <4>3, InFrom
      <4> QED
        BY <4>3, <4>4 DEF Waits
    <3>2. CASE n = 0 /\ Unread /\ prePipeRd # {}
      BY <3>2 DEF Waits
    <3> QED
      BY <3>1, <3>2 DEF DueLines
  <2>2. ASSUME NEW n \in Nat, Waits[n] # {} PROVE n \in DueLines
    <3>1. CASE n = 0 /\ Unread /\ prePipeRd # {}
      BY <3>1 DEF DueLines
    <3>2. CASE ~(n = 0 /\ Unread /\ prePipeRd # {})
      <4>1. PICK x : x \in From(userPipes, n + Offset)
        BY <2>2, <3>2 DEF Waits
      <4>2. PICK j \in DOMAIN userPipes : userPipes[j].count = n + Offset /\ x \in userPipes[j].from
        BY <4>1, InFrom
      <4>3. j \in Filled /\ Now(j) = n
        BY <1>2, <4>2 DEF Filled
      <4> QED
        BY <4>3 DEF DueLines
    <3> QED
      BY <3>1, <3>2
  <2> QED
    BY <2>1, <2>2
<1>5. ASSUME NEW n \in DueLines
      PROVE  Waits[n] = DueFrom(n) \cup (IF n = 0 /\ Unread THEN prePipeRd ELSE {})
  <2>1. n \in Nat
    BY <1>4
  <2>2. Waits[n] = From(userPipes, n + Offset) \cup (IF n = 0 /\ Unread THEN prePipeRd ELSE {})
    BY <2>1 DEF Waits
  <2>3. DueFrom(n) = From(userPipes, n + Offset)
    BY <1>3, <2>1
  <2> QED
    BY <2>2, <2>3
<1>6. Due = [n \in DueLines |-> DueFrom(n) \cup (IF n = 0 /\ Unread THEN prePipeRd ELSE {})]
  BY DEF Due, DueFrom
<1>7. Support(Waits) = [n \in DueLines |-> Waits[n]]
  BY <1>4 DEF Support
<1> QED
  BY <1>5, <1>6, <1>7

-----------------------------------------------------------------------------
(* Third, the lines.  A builtin has its line for itself, as the assignment   *)
(* has it; the commands after one are not run, and what is piped to them     *)
(* does not arrive.                                                          *)

BuiltinsAlone ==
  \A line \in Lines :
    Input(line) # <<>> /\ Input(line)[1].kind \in Builtin => Len(Input(line)) = 1

\* What is known of the line that is run: the pipe it ends in is in the table.
InLine ==
  /\ pc \in {"prompt", "getline"} => prePipeRd = {}
  /\ pc = "run" =>
       /\ \E line \in Lines : cmds = Input(line)
       /\ PipeCount(cmds) # 0 => FirstWith(userPipes, PipeCount(cmds)) # 0

LEMMA OpenedIsFound ==
  ASSUME NEW table \in Seq(PipeInfo), NEW c \in Nat \ {0}
  PROVE  LET opened == WithPipeOut(table, c)
         IN  FirstWith(Close(opened, FirstWith(opened, 0)), c) # 0
<1> DEFINE e == [count |-> c, from |-> {}]
           o == WithPipeOut(table, c)
           due == FirstWith(o, 0)
           t == Close(o, due)
<1>1. o \in Seq(PipeInfo)
  BY WithPipeOutProperties
<1>2. PICK j \in 1 .. Len(o) : o[j].count = c
  <2>1. CASE o = table /\ FirstWith(table, c) # 0
    BY <2>1, Found
  <2>2. CASE o = Append(table, e)
    <3>1. e \in PipeInfo /\ e.count = c
      BY DEF PipeInfo
    <3> HIDE DEF e, o
    <3>2. o[Len(table) + 1] = e /\ Len(o) = Len(table) + 1 /\ Len(table) \in Nat
      BY <2>2, <3>1, AppendProperties, LenProperties
    <3> QED
      BY <3>1, <3>2
  <2> QED
    BY <2>1, <2>2 DEF WithPipeOut
<1> HIDE DEF o
<1>3. due \in 0 .. Len(o) /\ (due # 0 => o[due].count = 0)
  BY <1>1, FirstWithFinds
<1> HIDE DEF due
<1>4. /\ t \in Seq(PipeInfo)
      /\ \A k \in 1 .. Len(o) \ {due} : \E l \in 1 .. Len(t) : t[l] = o[k]
  BY <1>1, <1>3, CloseProperties
<1> HIDE DEF t
<1>5. j # due
  BY <1>2, <1>3
<1>6. \E l \in 1 .. Len(t) : t[l].count = c
  BY <1>2, <1>4, <1>5
<1>7. FirstWith(t, c) # 0
  BY <1>4, <1>6, Found
<1> QED
  BY <1>7 DEF t, due, o

LEMMA InLineStep == TypeOK /\ InLine /\ [Next]_vars => InLine'
<1> SUFFICES ASSUME TypeOK, InLine, [Next]_vars PROVE InLine'
  OBVIOUS
<1>1. CASE ReadLine
  <2>1. PICK line \in Lines :
          LET opened == WithPipeOut(Counted(userPipes), PipeCount(Input(line)))
          IN  /\ cmds' = Input(line)
              /\ userPipes' = Close(opened, FirstWith(opened, 0))
    BY <1>1 DEF ReadLine
  <2>2. PipeCount(Input(line)) \in Nat /\ Counted(userPipes) \in Seq(PipeInfo)
    BY RwgShellAssumption, PipeCountNat, CountDownProperties DEF Counted, TypeOK
  <2>3. PipeCount(cmds') # 0 => FirstWith(userPipes', PipeCount(cmds')) # 0
    BY <2>1, <2>2, OpenedIsFound
  <2> QED
    BY <1>1, <2>1, <2>3 DEF ReadLine, InLine
<1>2. CASE Fork
  <2>1. pc = "run" /\ pc' = "run" /\ cmds' = cmds
    BY <1>2 DEF Fork, Running
  <2>2. PipeCount(cmds) \in Nat
    BY PipeCountNat DEF TypeOK
  <2>3. CASE UNCHANGED userPipes
    BY <2>1, <2>3 DEF InLine
  <2>4. CASE userPipes' = Write(userPipes, PipeOut, cmds[i].tag)
    <3>1. userPipes \in Seq(PipeInfo) /\ cmds[i].tag \in Tag
      BY <1>2 DEF TypeOK, Fork, Running, Cmd, Segment
    <3>2. /\ userPipes' \in Seq(PipeInfo)
          /\ Len(userPipes') = Len(userPipes)
          /\ \A j \in 1 .. Len(userPipes) : userPipes'[j].count = userPipes[j].count
      BY <2>4, <3>1, WriteProperties
    <3>3. FirstWith(userPipes, PipeCount(cmds)) # 0 => FirstWith(userPipes', PipeCount(cmds)) # 0
      BY <2>2, <3>1, <3>2, Found
    <3> QED
      BY <2>1, <3>3 DEF InLine
  <2> QED
    BY <1>2, <2>3, <2>4 DEF Fork
<1>3. CASE RunBuiltin
  BY <1>3 DEF RunBuiltin, Running, InLine
<1>4. CASE EndLine
  BY <1>4 DEF EndLine, InLine
<1>5. CASE Prompt \/ ReadEnd \/ ReadExit \/ ReadEmpty \/ Abort \/ CloseStdin \/ UNCHANGED vars
  BY <1>5 DEF Prompt, ReadEnd, ReadExit, ReadEmpty, EndSession, Abort, CloseStdin, vars, InLine
<1> QED
  BY <1>1, <1>2, <1>3, <1>4, <1>5 DEF Next, Shell

-----------------------------------------------------------------------------
(* Last, the steps. *)

LEMMA DueNow == TypeOK /\ OneDuePerLine => Due = Support(Waits) /\ Waits \in [Nat -> SUBSET Tag]
  BY DueIsSupport, WaitsType

LEMMA DueNext ==
  TypeOK' /\ OneDuePerLine' => Due' = Support(Waits') /\ Waits' \in [Nat -> SUBSET Tag]
<1>1. (TypeOK /\ OneDuePerLine => Due = Support(Waits) /\ Waits \in [Nat -> SUBSET Tag])'
  BY DueNow, PTL
<1> QED
  BY <1>1

LEMMA AtIsWaits ==
  ASSUME TypeOK, OneDuePerLine, NEW n \in Nat
  PROVE  Promise!At(n) = Waits[n]
<1>1. Due = Support(Waits) /\ Waits \in [Nat -> SUBSET Tag]
  BY DueIsSupport, WaitsType
<1> HIDE DEF Waits
<1>2. n \in DOMAIN Due <=> Waits[n] # {}
  BY <1>1, SupportProperties
<1>3. n \in DOMAIN Due => Due[n] = Waits[n]
  BY <1>1, SupportProperties
<1> QED
  BY <1>2, <1>3 DEF Promise!At

\* Nothing due when the shell runs: what was, has been taken out of the table.
LEMMA NoneLeft ==
  ASSUME TypeOK, OneDuePerLine
  PROVE  From(userPipes, 0) = {}
<1>1. ASSUME NEW j \in DOMAIN userPipes PROVE userPipes[j].count # 0
  <2>1. userPipes[j].count >= 1 /\ userPipes[j] \in PipeInfo
    BY DEF OneDuePerLine, TypeOK
  <2> QED
    BY <2>1 DEF PipeInfo
<1> QED
  BY <1>1 DEF From

\* What no action but the three below touches.
LEMMA WaitsUntouched ==
  ASSUME UNCHANGED <<userPipes, prePipeRd>>, Offset' = Offset, Unread' = Unread
  PROVE  Waits' = Waits /\ Carried' = Carried
  BY DEF Waits, Carried

\* A line is read: what is due has moved from the table to the next command.
LEMMA ReadLineWaits ==
  ASSUME TypeOK, OneDuePerLine, InLine, ReadLine
  PROVE  Waits' = Waits /\ Carried' = Carried
<1>1. PICK line \in Lines :
        LET opened == WithPipeOut(Counted(userPipes), PipeCount(Input(line)))
            due == FirstWith(opened, 0)
        IN  /\ prePipeRd' = Content(opened, due)
            /\ userPipes' = Close(opened, due)
  BY DEF ReadLine
<1> DEFINE count == PipeCount(Input(line))
           counted == Counted(userPipes)
           opened == WithPipeOut(counted, count)
<1>2. count \in Nat
  BY RwgShellAssumption, PipeCountNat
<1>3. counted \in Seq(PipeInfo) /\ Distinct(counted)
  BY CountDownProperties DEF TypeOK, OneDuePerLine, Counted
<1>4. opened \in Seq(PipeInfo) /\ Distinct(opened)
  BY <1>2, <1>3, WithPipeOutProperties
<1>5. ASSUME NEW n \in Nat PROVE From(opened, n) = From(userPipes, n + 1)
  <2>1. From(opened, n) = From(counted, n)
    BY <1>2, <1>3, OpenedFrom
  <2>2. From(counted, n) = From(userPipes, n + 1)
    BY CountedFrom DEF TypeOK, Counted
  <2> QED
    BY <2>1, <2>2
<1> HIDE DEF opened
<1>6. /\ \A n \in Nat : n # 0 => From(userPipes', n) = From(opened, n)
      /\ From(userPipes', 0) = {}
      /\ From(opened, 0) = prePipeRd'
  BY <1>1, <1>4, TakenFrom DEF opened
<1>7. /\ Offset = 1 /\ ~Unread
      /\ Offset' = 0 /\ Unread'
  BY DEF ReadLine, Offset, Unread
<1>8. ASSUME NEW n \in Nat PROVE Waits'[n] = Waits[n]
  <2>1. Waits[n] = From(userPipes, n + 1)
    BY <1>7 DEF Waits
  <2>2. Waits'[n] = From(userPipes', n) \cup (IF n = 0 THEN prePipeRd' ELSE {})
    <3>1. n + Offset' = n
      BY <1>7
    <3> QED
      BY <1>7, <3>1 DEF Waits
  <2>3. From(opened, n) = From(userPipes, n + 1)
    BY <1>5
  <2> QED
    BY <1>6, <2>1, <2>2, <2>3
<1>9. Waits' = Waits
  <2>1. Waits = [n \in Nat |-> Waits[n]] /\ Waits' = [n \in Nat |-> Waits'[n]]
    BY DEF Waits
  <2> HIDE DEF Waits
  <2> QED
    BY <1>8, <2>1
<1>10. Carried' = Carried
  BY <1>7 DEF Carried, InLine, ReadLine
<1> QED
  BY <1>9, <1>10

\* The line is over: everything is one line nearer.
LEMMA EndLineWaits ==
  ASSUME TypeOK, EndLine
  PROVE  \A n \in Nat : Waits'[n] = Waits[n + 1]
<1>1. Offset = 0 /\ Offset' = 1 /\ ~Unread' /\ userPipes' = userPipes
  BY DEF EndLine, Offset, Unread
<1>2. ASSUME NEW n \in Nat PROVE Waits'[n] = Waits[n + 1]
  <2>1. n + 1 \in Nat /\ n + 1 # 0 /\ (n + 1) + Offset = n + 1 /\ n + Offset' = n + 1
    BY <1>1
  <2>2. Waits'[n] = From(userPipes', n + Offset')
    BY <1>1 DEF Waits
  <2>3. Waits[n + 1] = From(userPipes, (n + 1) + Offset)
    BY <2>1 DEF Waits
  <2> QED
    BY <1>1, <2>1, <2>2, <2>3
<1> QED
  BY <1>2

\* A program is started: what was due is read, and the last one of the line
\* adds its output to what is on its way.
LEMMA ForkWaits ==
  ASSUME TypeOK, OneDuePerLine, InLine, BuiltinsAlone, Fork
  PROVE  LET c == PipeCount(cmds)
             tag == cmds[i].tag
         IN  /\ i = 1 => Waits[0] = prePipeRd
             /\ i # 1 => Waits[0] = {} /\ Carried = prePipeRd
             /\ Carried' = prePipeRd'
             /\ \A n \in Nat \ {0} :
                  Waits'[n] = IF i = Len(cmds) /\ n = c THEN Waits[n] \cup {tag} ELSE Waits[n]
             /\ Waits'[0] = {}
<1>0. PICK line \in Lines : cmds = Input(line)
  BY DEF InLine, Fork, Running
<1>1. /\ pc = "run" /\ pc' = "run" /\ cmds' = cmds
      /\ i \in 1 .. Len(cmds) /\ i' = i + 1 /\ i' # 1
      /\ cmds[i].kind = "exec"
  BY DEF Fork, Running, TypeOK
<1>2. cmds[1].kind \notin Builtin
  <2>1. CASE i = 1
    BY <1>1, <2>1 DEF Builtin
  <2>2. CASE i # 1
    <3>1. Len(cmds) # 1 /\ cmds # <<>>
      BY <1>1, <2>2
    <3> QED
      BY <1>0, <3>1 DEF BuiltinsAlone
  <2> QED
    BY <2>1, <2>2
<1>3. Offset = 0 /\ Offset' = 0 /\ ~Unread' /\ (Unread <=> i = 1)
  BY <1>1, <1>2 DEF Offset, Unread
<1>4. From(userPipes, 0) = {}
  BY NoneLeft
<1>5. /\ \A n \in Nat : n # 0 => Waits[n] = From(userPipes, n)
      /\ Waits[0] = From(userPipes, 0) \cup (IF Unread THEN prePipeRd ELSE {})
      /\ \A n \in Nat : Waits'[n] = From(userPipes', n)
  <2>1. \A n \in Nat : n + Offset = n /\ n + Offset' = n
    BY <1>3
  <2>2. \A n \in Nat :
          Waits[n] = From(userPipes, n + Offset) \cup (IF n = 0 /\ Unread THEN prePipeRd ELSE {})
    BY DEF Waits
  <2>3. \A n \in Nat : Waits'[n] = From(userPipes', n + Offset')
    BY <1>3 DEF Waits
  <2>4. 0 \in Nat
    OBVIOUS
  <2> HIDE DEF Waits
  <2> QED
    BY <2>1, <2>2, <2>3, <2>4
<1> DEFINE c == PipeCount(cmds)
           tag == cmds[i].tag
<1>6. c \in Nat
  BY PipeCountNat DEF TypeOK
<1>7. ASSUME NEW n \in Nat
      PROVE  From(userPipes', n) =
               IF i = Len(cmds) /\ n = c /\ n # 0 THEN From(userPipes, n) \cup {tag}
               ELSE From(userPipes, n)
  <2>1. CASE i = Len(cmds) /\ c # 0
    <3>1. userPipes' = Write(userPipes, PipeOut, tag)
      BY <2>1 DEF Fork
    <3>2. PipeOut \in 1 .. Len(userPipes) /\ userPipes[PipeOut].count = c
      <4>1. /\ PipeOut \in 0 .. Len(userPipes)
            /\ PipeOut # 0 => userPipes[PipeOut].count = c
        <5>1. c \in Int /\ userPipes \in Seq(PipeInfo) /\ PipeOut = FirstWith(userPipes, c)
          BY <1>6 DEF TypeOK, PipeOut
        <5> HIDE DEF c
        <5> QED
          BY <5>1, FirstWithFinds
      <4>2. PipeOut # 0
        BY <1>1, <2>1 DEF InLine, PipeOut
      <4> QED
        BY <4>1, <4>2
    <3>3. tag \in Tag /\ userPipes \in Seq(PipeInfo)
      BY <1>1 DEF TypeOK, Cmd, Segment
    <3>4. From(userPipes', n) =
            IF c = n THEN From(userPipes, n) \cup {tag} ELSE From(userPipes, n)
      <4> DEFINE out == PipeOut
      <4>1. /\ userPipes' = Write(userPipes, out, tag) /\ out \in 1 .. Len(userPipes)
            /\ userPipes[out].count = c /\ n \in Int
        BY <3>1, <3>2
      <4> HIDE DEF out, c, tag
      <4>2. From(Write(userPipes, out, tag), n) =
              IF userPipes[out].count = n THEN From(userPipes, n) \cup {tag}
              ELSE From(userPipes, n)
        BY <3>3, <4>1, WrittenFrom
      <4> QED
        BY <4>1, <4>2
    <3> QED
      BY <2>1, <3>4
  <2>2. CASE ~(i = Len(cmds) /\ c # 0)
    <3>1. userPipes' = userPipes
      BY <1>1, <2>2 DEF Fork
    <3> QED
      BY <2>2, <3>1
  <2> QED
    BY <2>1, <2>2
<1>8. Carried' = prePipeRd' /\ (i # 1 => Carried = prePipeRd)
  BY <1>3 DEF Carried
<1> HIDE DEF Waits, c, tag
<1>9. \A n \in Nat \ {0} :
        Waits'[n] = IF i = Len(cmds) /\ n = c THEN Waits[n] \cup {tag} ELSE Waits[n]
  BY <1>5, <1>7
<1>10. Waits'[0] = {}
  BY <1>4, <1>5, <1>7
<1>11. /\ i = 1 => Waits[0] = prePipeRd
       /\ i # 1 => Waits[0] = {}
  BY <1>3, <1>4, <1>5
<1> QED
  BY <1>8, <1>9, <1>10, <1>11 DEF c, tag

LEMMA Unmoved ==
  ASSUME TypeOK, OneDuePerLine, TypeOK', OneDuePerLine', Waits' = Waits
  PROVE  Due' = Due
  BY DueNow, DueNext

LEMMA IdleStep ==
  ASSUME TypeOK, OneDuePerLine, TypeOK', OneDuePerLine',
         Prompt \/ ReadEnd \/ ReadExit \/ ReadEmpty \/ Abort \/ CloseStdin \/ UNCHANGED vars
  PROVE  [Promise!Next]_Promise!vars
<1>1. /\ UNCHANGED <<userPipes, prePipeRd, cmds, i, received>>
      /\ \/ pc = "prompt" /\ pc' = "getline"
         \/ pc = "getline" /\ pc' \in {"prompt", "exited"}
         \/ pc = "run" /\ pc' = "aborted"
         \/ pc' = pc
  <2>1. CASE Prompt \/ ReadEmpty
    BY <2>1 DEF Prompt, ReadEmpty
  <2>2. CASE ReadEnd \/ ReadExit
    BY <2>2 DEF ReadEnd, ReadExit, EndSession
  <2>3. CASE Abort
    BY <2>3 DEF Abort, Running
  <2>4. CASE CloseStdin \/ UNCHANGED vars
    BY <2>4 DEF CloseStdin, vars
  <2> QED
    BY <2>1, <2>2, <2>3, <2>4
<1>2. Offset' = Offset /\ Unread' = Unread
  BY <1>1 DEF Offset, Unread
<1>3. Due' = Due /\ Carried' = Carried
  BY <1>1, <1>2, WaitsUntouched, Unmoved
<1> QED
  BY <1>1, <1>3 DEF Promise!Next, Promise!Idle, Promise!vars

LEMMA SkipStep ==
  ASSUME TypeOK, OneDuePerLine, TypeOK', OneDuePerLine', InLine, BuiltinsAlone, RunBuiltin
  PROVE  Promise!Skip
<1>1. Len(cmds) = 1
  <2>1. PICK line \in Lines : cmds = Input(line)
    BY DEF InLine, RunBuiltin, Running
  <2>2. cmds # <<>> /\ cmds[1].kind \in Builtin
    BY DEF RunBuiltin, Running, TypeOK
  <2> QED
    BY <2>1, <2>2 DEF BuiltinsAlone
<1>2. Offset' = Offset /\ Unread' = Unread
  BY DEF RunBuiltin, Running, Offset, Unread
<1>3. Due' = Due /\ Carried' = Carried
  BY <1>2, WaitsUntouched, Unmoved DEF RunBuiltin
<1>4. /\ pc = "run" /\ i <= Len(cmds) /\ cmds[i].kind \in Builtin
      /\ i' = i + 1
      /\ UNCHANGED <<cmds, pc, received>>
  BY <1>1 DEF RunBuiltin, Running
<1> QED
  BY <1>3, <1>4 DEF Promise!Skip, Promise!Builtin, Builtin

LEMMA StartStep ==
  ASSUME TypeOK, OneDuePerLine, TypeOK', OneDuePerLine', InLine, ReadLine
  PROVE  Promise!Start
<1>1. Due' = Due /\ Carried' = Carried
  BY ReadLineWaits, Unmoved
<1>2. /\ pc = "getline" /\ pc' = "run"
      /\ \E line \in Lines : cmds' = Input(line)
      /\ i' = 1 /\ received' = received
  BY DEF ReadLine
<1> QED
  BY <1>1, <1>2 DEF Promise!Start, Promise!Input, Input

LEMMA TurnStep ==
  ASSUME TypeOK, OneDuePerLine, TypeOK', OneDuePerLine', EndLine
  PROVE  Promise!Turn
<1>1. Due' = [n \in {m - 1 : m \in DOMAIN Due \ {0}} |-> Due[n + 1]]
  <2>1. Due = Support(Waits) /\ Due' = Support(Waits')
        /\ Waits \in [Nat -> SUBSET Tag] /\ Waits' \in [Nat -> SUBSET Tag]
    BY DueNow, DueNext
  <2>2. \A n \in Nat : Waits'[n] = Waits[n + 1]
    BY EndLineWaits
  <2>3. Support(Waits') =
          [n \in {m - 1 : m \in DOMAIN Support(Waits) \ {0}} |-> Support(Waits)[n + 1]]
    <3> DEFINE a == Waits
               b == Waits'
    <3>1. a \in [Nat -> SUBSET Tag] /\ b \in [Nat -> SUBSET Tag] /\ \A n \in Nat : b[n] = a[n + 1]
      BY <2>1, <2>2
    <3> HIDE DEF a, b
    <3>2. Support(b) = [n \in {m - 1 : m \in DOMAIN Support(a) \ {0}} |-> Support(a)[n + 1]]
      BY <3>1, SupportTurned
    <3> QED
      BY <3>2 DEF a, b
  <2> QED
    BY <2>1, <2>3
<1>2. Carried' = {}
  BY DEF EndLine, Carried
<1> QED
  BY <1>1, <1>2 DEF EndLine, Promise!Turn

LEMMA RunStep ==
  ASSUME TypeOK, OneDuePerLine, TypeOK', OneDuePerLine', InLine, BuiltinsAlone, Fork
  PROVE  Promise!Run
<1> DEFINE c == PipeCount(cmds)
           tag == cmds[i].tag
           last == i = Len(cmds)
           rest == IF i = 1 THEN Promise!Restrict(Due, DOMAIN Due \ {0}) ELSE Due
           left == [n \in Nat |-> IF n = 0 THEN {} ELSE Waits[n]]
<1>1. /\ pc = "run" /\ i <= Len(cmds) /\ cmds[i].kind = "exec"
      /\ received' = prePipeRd
      /\ i' = i + 1
      /\ UNCHANGED <<cmds, pc>>
      /\ cmds[i] \in Cmd
      /\ cmds = <<>> <=> FALSE
  BY DEF Fork, Running, TypeOK
<1>2. /\ i = 1 => Waits[0] = prePipeRd
      /\ i # 1 => Waits[0] = {} /\ Carried = prePipeRd
      /\ Carried' = prePipeRd'
      /\ \A n \in Nat \ {0} :
           Waits'[n] = IF last /\ n = c THEN Waits[n] \cup {tag} ELSE Waits[n]
      /\ Waits'[0] = {}
  BY ForkWaits
<1>3. /\ Due = Support(Waits) /\ Due' = Support(Waits')
      /\ Waits \in [Nat -> SUBSET Tag] /\ Waits' \in [Nat -> SUBSET Tag]
      /\ \A n \in Nat : Promise!At(n) = Waits[n]
  BY DueNow, DueNext, AtIsWaits
<1>4. c \in Nat /\ tag \in Tag /\ (last => c = cmds[i].lineToPipe)
  BY <1>1, PipeCountNat DEF TypeOK, Cmd, Segment, PipeCount
<1>5. /\ ~last => cmds[i].mark # NoMark /\ cmds[i].lineToPipe = 0
      /\ last => (cmds[i].mark = NoMark <=> cmds[i].lineToPipe = 0)
  <2>1. PICK line \in Lines : cmds = Input(line)
    BY <1>1 DEF InLine
  <2>2. /\ \A j \in 1 .. Len(cmds) - 1 : cmds[j].mark # NoMark /\ cmds[j].lineToPipe = 0
        /\ Len(cmds) > 0 => (cmds[Len(cmds)].mark = NoMark <=> cmds[Len(cmds)].lineToPipe = 0)
    BY <2>1, RwgShellAssumption
  <2> QED
    BY <1>1, <2>2 DEF TypeOK
<1>6. Carried' = IF TRUE /\ cmds[i].mark # NoMark /\ ~(cmds[i].lineToPipe > 0 /\ last)
                 THEN {tag} ELSE {}
  <2>1. cmds[i].lineToPipe \in Nat
    BY <1>1 DEF Cmd, Segment
  <2>2. prePipeRd' = IF last THEN {} ELSE {tag}
    BY <1>1 DEF Fork, TypeOK
  <2> QED
    BY <1>2, <1>5, <2>1, <2>2
<1> HIDE DEF c, tag, last
<1>7. left \in [Nat -> SUBSET Tag] /\ left[0] = {} /\ \A n \in Nat \ {0} : left[n] = Waits[n]
  <2> HIDE DEF Waits
  <2> QED
    BY <1>3
<1> HIDE DEF left
<1>8. rest = Support(left)
  <2>1. CASE i = 1
    <3>1. Support(left) = [n \in DOMAIN Due \ {0} |-> Due[n]]
      BY <1>3, <1>7, SupportRead
    <3> QED
      BY <2>1, <3>1 DEF Promise!Restrict
  <2>2. CASE i # 1
    <3>1. \A n \in Nat : left[n] = Waits[n]
      BY <1>2, <1>7, <2>2
    <3>2. left = Waits
      BY <1>3, <1>7, <3>1
    <3> QED
      BY <1>3, <2>2, <3>2
  <2> QED
    BY <2>1, <2>2
<1> HIDE DEF rest
<1>9. Due' = IF cmds[i].lineToPipe > 0 /\ last
             THEN [n \in DOMAIN rest \cup {cmds[i].lineToPipe} |->
                     IF n = cmds[i].lineToPipe THEN Promise!At(n) \cup {tag} ELSE rest[n]]
             ELSE rest
  <2>1. CASE last /\ c # 0
    <3>1. \A n \in Nat : Waits'[n] = IF n = c THEN left[n] \cup {tag} ELSE left[n]
      BY <1>2, <1>4, <1>7, <2>1
    <3>2. Due' = [n \in DOMAIN Support(left) \cup {c} |->
                    IF n = c THEN left[c] \cup {tag} ELSE Support(left)[n]]
      <4>1. c \in Nat /\ tag \in Tag /\ left \in [Nat -> SUBSET Tag]
        BY <1>4, <1>7
      <4>2. Waits' = Sent(left, c, tag)
        <5>1. Waits' = [n \in Nat |-> Waits'[n]]
          BY <1>3
        <5> QED
          BY <3>1, <5>1 DEF Sent
      <4> QED
        BY <1>3, <4>1, <4>2, SupportSent
    <3>3. Promise!At(c) = left[c] /\ c > 0
      BY <1>3, <1>4, <1>7, <2>1
    <3> QED
      BY <1>4, <1>8, <2>1, <3>2, <3>3
  <2>2. CASE ~(last /\ c # 0)
    <3>1. \A n \in Nat : Waits'[n] = left[n]
      BY <1>2, <1>7, <2>2
    <3>2. Waits' = left
      BY <1>3, <1>7, <3>1
    <3>3. ~(cmds[i].lineToPipe > 0 /\ last)
      BY <1>4, <2>2
    <3> QED
      BY <1>3, <1>8, <3>2, <3>3
  <2> QED
    BY <2>1, <2>2
<1>10. CASE i = 1
  <2>1. received' = Promise!At(0)
    BY <1>1, <1>2, <1>3, <1>10
  <2> QED
    BY <1>1, <1>6, <1>9, <1>10, <2>1 DEF Promise!Run, Promise!NoMark, NoMark, rest, last, tag
<1>11. CASE i # 1
  <2>1. i > 1 /\ received' = Carried
    BY <1>1, <1>2, <1>11 DEF TypeOK
  <2> QED
    BY <1>1, <1>6, <1>9, <1>11, <2>1 DEF Promise!Run, Promise!NoMark, NoMark, rest, last, tag
<1> QED
  BY <1>10, <1>11

\* Where a builtin has its line for itself, every program reads what was piped
\* to it, by the command before it or lines ago, and nothing else.
THEOREM ShellKeepsPromise == ASSUME BuiltinsAlone PROVE Spec => KeepsPromise
<1>1. Init => Promise!Init
  <2> SUFFICES ASSUME Init PROVE Promise!Init
    OBVIOUS
  <2>1. DueLines = {}
    BY DEF Init, DueLines, Filled, Unread
  <2>2. Due = [n \in {} |-> {}]
    BY <2>1 DEF Due
  <2> QED
    BY <2>2 DEF Init, Carried, Promise!Init
<1>2. Init => InLine
  BY DEF Init, InLine
<1>3. /\ TypeOK /\ OneDuePerLine /\ InLine /\ [Next]_vars /\ TypeOK' /\ OneDuePerLine'
      => [Promise!Next]_Promise!vars
  BY SkipStep, StartStep, TurnStep, RunStep, IdleStep DEF Next, Shell, Promise!Next
<1> QED
  BY <1>1, <1>2, <1>3, TypeCorrect, AlwaysOneDue, InLineStep, PTL
     DEF Spec, KeepsPromise, Promise!Spec
=============================================================================
