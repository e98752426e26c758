-------------------------- MODULE PipeTableTheorems --------------------------
EXTENDS PipeTable, MinTheorems, SequenceTheorems, TLAPS

LEMMA FirstWithFinds ==
  ASSUME NEW table \in Seq(PipeInfo), NEW c \in Int
  PROVE  /\ FirstWith(table, c) \in 0 .. Len(table)
         /\ FirstWith(table, c) # 0 => table[FirstWith(table, c)].count = c
         /\ \A j \in 1 .. Len(table) :
              table[j].count = c => FirstWith(table, c) \in 1 .. j
<1> DEFINE I == {j \in 1 .. Len(table) : table[j].count = c}
<1>1. FirstWith(table, c) = IF I = {} THEN 0 ELSE Min(I)
  BY DEF FirstWith
<1>2. I \in SUBSET Nat /\ Len(table) \in Nat
  OBVIOUS
<1>3. I # {} => Min(I) \in I /\ \A m \in I : Min(I) <= m
  <2> HIDE DEF I
  <2> QED  BY <1>2, MinOfNaturals
<1>4. CASE I = {}
  BY <1>1, <1>2, <1>4
<1>5. CASE I # {}
  <2>1. FirstWith(table, c) = Min(I)
    BY <1>1, <1>5
  <2>2. Min(I) \in 1 .. Len(table) /\ table[Min(I)].count = c
    BY <1>3, <1>5
  <2>3. ASSUME NEW j \in 1 .. Len(table), table[j].count = c
        PROVE  Min(I) <= j
    BY <1>3, <2>3
  <2> HIDE DEF I
  <2> QED
    BY <1>2, <2>1, <2>2, <2>3
<1> QED
  BY <1>4, <1>5

LEMMA RemoveAtProperties ==
  ASSUME NEW S, NEW s \in Seq(S), NEW i \in 1 .. Len(s)
  PROVE  /\ RemoveAt(s, i) \in Seq(S)
         /\ Len(RemoveAt(s, i)) = Len(s) - 1
         /\ \A j \in 1 .. Len(s) - 1 :
              RemoveAt(s, i)[j] = IF j < i THEN s[j] ELSE s[j + 1]
<1> DEFINE a == SubSeq(s, 1, i - 1)  b == SubSeq(s, i + 1, Len(s))
<1>1. a \in Seq(S) /\ Len(a) = i - 1 /\ \A j \in 1 .. i - 1 : a[j] = s[j]
  BY SubSeqProperties, Z3
<1>2. b \in Seq(S) /\ Len(b) = Len(s) - i /\ \A j \in 1 .. Len(s) - i : b[j] = s[i + j]
  BY SubSeqProperties
<1>3. RemoveAt(s, i) = a \o b
  BY DEF RemoveAt
<1>4. Len(s) \in Nat
  OBVIOUS
<1> HIDE DEF a, b
<1>5. /\ a \o b \in Seq(S)
      /\ Len(a \o b) = Len(s) - 1
      /\ \A j \in 1 .. Len(s) - 1 : (a \o b)[j] = IF j <= i - 1 THEN a[j] ELSE b[j - (i - 1)]
  <2>1. /\ a \o b \in Seq(S)
        /\ Len(a \o b) = Len(a) + Len(b)
        /\ \A j \in 1 .. Len(a) + Len(b) :
             (a \o b)[j] = IF j <= Len(a) THEN a[j] ELSE b[j - Len(a)]
    BY <1>1, <1>2, ConcatProperties, Zenon
  <2>2. Len(a) + Len(b) = Len(s) - 1
    BY <1>1, <1>2, <1>4
  <2> QED
    BY <1>1, <2>1, <2>2
<1>6. ASSUME NEW j \in 1 .. Len(s) - 1
      PROVE  (a \o b)[j] = IF j < i THEN s[j] ELSE s[j + 1]
  <2>1. CASE j < i
    BY <1>1, <1>4, <1>5, <2>1
  <2>2. CASE ~(j < i)
    <3>1. j - (i - 1) \in 1 .. Len(s) - i /\ i + (j - (i - 1)) = j + 1
      BY <1>4, <2>2
    <3> QED
      BY <1>2, <1>4, <1>5, <2>2, <3>1
  <2> QED
    BY <2>1, <2>2
<1> QED
  BY <1>3, <1>5, <1>6

-----------------------------------------------------------------------------
(* What each step does to a table. *)

LEMMA CountDownProperties ==
  ASSUME NEW table \in Seq(PipeInfo)
  PROVE  /\ CountDown(table) \in Seq(PipeInfo)
         /\ Len(CountDown(table)) = Len(table)
         /\ \A j \in 1 .. Len(table) : CountDown(table)[j].count = table[j].count - 1
         /\ Distinct(table) => Distinct(CountDown(table))
<1> DEFINE t == CountDown(table)
<1>1. DOMAIN table = 1 .. Len(table) /\ Len(table) \in Nat
  OBVIOUS
<1>2. \A j \in 1 .. Len(table) : table[j] \in PipeInfo
  OBVIOUS
<1>3. /\ t = [j \in 1 .. Len(table) |-> t[j]]
      /\ \A j \in 1 .. Len(table) :
           t[j] \in PipeInfo /\ t[j].count = table[j].count - 1
  BY <1>1, <1>2 DEF CountDown, PipeInfo
<1> HIDE DEF t
<1>4. t \in Seq(PipeInfo) /\ DOMAIN t = 1 .. Len(table) /\ Len(t) = Len(table)
  BY <1>1, <1>3, IsASeq
<1>5. ASSUME Distinct(table) PROVE Distinct(t)
  <2> SUFFICES ASSUME NEW j \in 1 .. Len(table), NEW k \in 1 .. Len(table),
                      t[j].count = t[k].count, t[j].count >= 0
               PROVE  j = k
    BY <1>4 DEF Distinct
  <2>1. table[j].count \in Int /\ table[k].count \in Int
    BY <1>2 DEF PipeInfo
  <2>2. table[j].count = table[k].count /\ table[j].count >= 0
    BY <1>3, <2>1
  <2> QED
    BY <1>1, <1>5, <2>2 DEF Distinct
<1> QED
  BY <1>3, <1>4, <1>5 DEF t

LEMMA WriteProperties ==
  ASSUME NEW table \in Seq(PipeInfo), NEW out, NEW tag \in Tag
  PROVE  /\ Write(table, out, tag) \in Seq(PipeInfo)
         /\ Len(Write(table, out, tag)) = Len(table)
         /\ \A j \in 1 .. Len(table) :
              Write(table, out, tag)[j].count = table[j].count
         /\ out \in 1 .. Len(table) => tag \in Write(table, out, tag)[out].from
         /\ Distinct(table) => Distinct(Write(table, out, tag))
<1> DEFINE t == Write(table, out, tag)
<1>1. DOMAIN table = 1 .. Len(table) /\ Len(table) \in Nat
  OBVIOUS
<1>2. \A j \in 1 .. Len(table) : table[j] \in PipeInfo
  OBVIOUS
<1>3. \A j \in 1 .. Len(table) : t[j] \in PipeInfo /\ t[j].count = table[j].count
  BY <1>1, <1>2 DEF Write, PipeInfo
<1>4. t \in Seq(PipeInfo) /\ DOMAIN t = 1 .. Len(table) /\ Len(t) = Len(table)
  BY <1>1, <1>3, IsASeq DEF Write
<1>5. out \in 1 .. Len(table) => tag \in t[out].from
  BY <1>1, <1>2 DEF Write, PipeInfo
<1>6. ASSUME Distinct(table) PROVE Distinct(t)
  BY <1>1, <1>3, <1>4, <1>6 DEF Distinct
<1> QED
  BY <1>3, <1>4, <1>5, <1>6

LEMMA CloseProperties ==
  ASSUME NEW table \in Seq(PipeInfo), NEW in \in 0 .. Len(table)
  PROVE  /\ Close(table, in) \in Seq(PipeInfo)
         /\ Distinct(table) => Distinct(Close(table, in))
         /\ \A j \in 1 .. Len(table) \ {in} :
              \E k \in 1 .. Len(Close(table, in)) : Close(table, in)[k] = table[j]
         /\ \A k \in 1 .. Len(Close(table, in)) :
              \E j \in 1 .. Len(table) \ {in} : Close(table, in)[k] = table[j]
<1>1. CASE in = 0
  BY <1>1 DEF Close
<1>2. CASE in \in 1 .. Len(table)
  <2> DEFINE t == RemoveAt(table, in)
  <2>1. Close(table, in) = t /\ Len(table) \in Nat
    BY <1>2 DEF Close
  <2>2. /\ t \in Seq(PipeInfo)
        /\ Len(t) = Len(table) - 1
        /\ \A j \in 1 .. Len(table) - 1 : t[j] = IF j < in THEN table[j] ELSE table[j + 1]
    BY <1>2, RemoveAtProperties
  <2> HIDE DEF t
  <2>3. ASSUME Distinct(table), NEW j \in DOMAIN t, NEW k \in DOMAIN t,
               t[j].count = t[k].count, t[j].count >= 0
        PROVE  j = k
    <3> DEFINE from(n) == IF n < in THEN n ELSE n + 1
    <3>1. j \in 1 .. Len(table) - 1 /\ k \in 1 .. Len(table) - 1
      BY <2>1, <2>2
    <3>2. t[j] = table[from(j)] /\ t[k] = table[from(k)]
      BY <2>2, <3>1
    <3>3. from(j) \in DOMAIN table /\ from(k) \in DOMAIN table
      BY <2>1, <3>1
    <3>4. from(j) = from(k)
      BY <2>3, <3>2, <3>3 DEF Distinct
    <3> QED
      BY <1>2, <3>1, <3>4
  <2>4. ASSUME NEW j \in 1 .. Len(table) \ {in}
        PROVE  \E k \in 1 .. Len(t) : t[k] = table[j]
    <3>1. CASE j < in
      BY <1>2, <2>1, <2>2, <2>4, <3>1
    <3>2. CASE j > in
      <4>1. j - 1 \in 1 .. Len(t) /\ ~(j - 1 < in) /\ (j - 1) + 1 = j
        BY <1>2, <2>1, <2>2, <2>4, <3>2
      <4> QED
        BY <2>2, <4>1
    <3> QED
      BY <1>2, <2>1, <2>4, <3>1, <3>2
  <2>5. ASSUME NEW k \in 1 .. Len(t)
        PROVE  \E j \in 1 .. Len(table) \ {in} : t[k] = table[j]
    <3>1. CASE k < in
      BY <1>2, <2>1, <2>2, <3>1
    <3>2. CASE ~(k < in)
      <4>1. k + 1 \in 1 .. Len(table) \ {in} /\ k \in 1 .. Len(table) - 1
        BY <1>2, <2>1, <2>2, <3>2
      <4> QED
        BY <2>2, <3>2, <4>1
    <3> QED
      BY <3>1, <3>2
  <2> QED
    BY <2>1, <2>2, <2>3, <2>4, <2>5 DEF Distinct
<1> QED
  BY <1>1, <1>2

\* A new entry due at another line than all others.
LEMMA AppendDistinct ==
  ASSUME NEW table \in Seq(PipeInfo), NEW e \in PipeInfo, Distinct(table),
         \A j \in 1 .. Len(table) : table[j].count # e.count
  PROVE  Distinct(Append(table, e))
<1> DEFINE t == Append(table, e)
<1>1. /\ DOMAIN t = 1 .. Len(table) + 1
      /\ \A j \in 1 .. Len(table) : t[j] = table[j]
      /\ t[Len(table) + 1] = e
  BY AppendProperties
<1>2. Len(table) \in Nat /\ DOMAIN table = 1 .. Len(table)
  OBVIOUS
<1> HIDE DEF t
<1>3. ASSUME NEW j \in DOMAIN t, NEW k \in DOMAIN t,
             t[j].count = t[k].count, t[j].count >= 0
      PROVE  j = k
  <2>1. CASE j \in 1 .. Len(table) /\ k \in 1 .. Len(table)
    BY <1>1, <1>2, <1>3, <2>1 DEF Distinct
  <2>2. CASE j = Len(table) + 1 /\ k \in 1 .. Len(table)
    BY <1>1, <1>3, <2>2
  <2>3. CASE j \in 1 .. Len(table) /\ k = Len(table) + 1
    BY <1>1, <1>3, <2>3
  <2> QED
    BY <1>1, <1>2, <2>1, <2>2, <2>3
<1> QED
  BY <1>3 DEF Distinct, t

\* The table once the output pipe of a command has been opened.
LEMMA PipeeProperties ==
  ASSUME NEW table \in Seq(PipeInfo), NEW cmd, cmd.lineToPipe \in Nat, NEW isLast \in BOOLEAN
  PROVE  /\ Pipee(table, cmd, isLast) \in Seq(PipeInfo)
         /\ Distinct(table) => Distinct(Pipee(table, cmd, isLast))
         /\ Len(table) <= Len(Pipee(table, cmd, isLast))
         /\ \A j \in 1 .. Len(table) : Pipee(table, cmd, isLast)[j] = table[j]
<1> DEFINE c == OutCount(cmd, isLast)
           e == [count |-> c, from |-> {}]
           t == Append(table, e)
<1>1. c \in Int /\ (c >= 0 => c > 0)
  BY DEF OutCount
<1>2. e \in PipeInfo
  BY <1>1 DEF PipeInfo
<1>3. Len(table) \in Nat /\ DOMAIN table = 1 .. Len(table)
  OBVIOUS
<1>4. CASE Pipee(table, cmd, isLast) = table
  BY <1>3, <1>4
<1>5. CASE Pipee(table, cmd, isLast) = t /\ ~Shared(table, cmd, isLast)
  <2>1. /\ t \in Seq(PipeInfo)
        /\ Len(t) = Len(table) + 1
        /\ \A j \in 1 .. Len(table) : t[j] = table[j]
        /\ t[Len(table) + 1] = e
    BY <1>2, AppendProperties
  <2>2. ASSUME c > 0, NEW j \in 1 .. Len(table) PROVE table[j].count # c
    <3>1. FirstWith(table, c) \in 0 .. Len(table) /\ ~(FirstWith(table, c) > 0)
      BY <1>1, <1>5, <2>2, FirstWithFinds DEF Shared
    <3>2. table[j].count = c => FirstWith(table, c) \in 1 .. j
      BY <1>1, FirstWithFinds
    <3> HIDE DEF c
    <3> QED
      BY <1>3, <3>1, <3>2
  <2>3. ASSUME Distinct(table), c < 0 PROVE Distinct(t)
    <3> SUFFICES ASSUME NEW j \in DOMAIN t, NEW k \in DOMAIN t,
                        t[j].count = t[k].count, t[j].count >= 0
                 PROVE  j = k
      BY DEF Distinct
    <3>1. e.count = c
      OBVIOUS
    <3> HIDE DEF c, e, t
    <3>2. j \in 1 .. Len(table) /\ k \in 1 .. Len(table)
      <4>1. DOMAIN t = 1 .. Len(table) + 1
        BY <2>1
      <4>2. t[Len(table) + 1].count < 0
        BY <2>1, <2>3, <3>1
      <4>3. j # Len(table) + 1 /\ k # Len(table) + 1
        BY <2>3, <4>2, <1>1, <2>1, <3>1
      <4> QED
        BY <1>3, <4>1, <4>3
    <3> QED
      BY <1>3, <2>1, <2>3, <3>2 DEF Distinct
  <2>4. ASSUME Distinct(table) PROVE Distinct(t)
    <3>1. CASE c < 0
      BY <2>3, <2>4, <3>1
    <3>2. CASE c > 0
      <4>1. \A j \in 1 .. Len(table) : table[j].count # e.count
        BY <2>2, <3>2
      <4> HIDE DEF e
      <4> QED
        BY <1>2, <2>4, <4>1, AppendDistinct
    <3> QED
      BY <1>1, <3>1, <3>2
  <2> QED
    BY <1>3, <1>5, <2>1, <2>4
<1> QED
  BY <1>4, <1>5 DEF Pipee

\* What opening a command's output pipe adds to a table: at most an empty entry.
LEMMA PipeeAdds ==
  ASSUME NEW table \in Seq(PipeInfo), NEW cmd, cmd.lineToPipe \in Nat, NEW isLast \in BOOLEAN
  PROVE  LET t == Pipee(table, cmd, isLast)
         IN  \/ t = table /\ (cmd.mark = NoMark \/ OutCount(cmd, isLast) > 0)
             \/ /\ t = Append(table, [count |-> OutCount(cmd, isLast), from |-> {}])
                /\ cmd.mark # NoMark
BY DEF Pipee, Shared

\* A command with a mark writes to an entry of that table, the one its mark
\* names; a mark that opens an ordinary pipe opens a new one.
LEMMA FdOutProperties ==
  ASSUME NEW table \in Seq(PipeInfo), NEW cmd, cmd.lineToPipe \in Nat, NEW isLast \in BOOLEAN,
         cmd.mark # NoMark
  PROVE  LET t == Pipee(table, cmd, isLast)
             out == FdOut(t, cmd, isLast)
         IN  /\ out \in 1 .. Len(t)
             /\ t[out].count = OutCount(cmd, isLast)
             /\ OutCount(cmd, isLast) = -1 => out = Len(table) + 1
<1> DEFINE c == OutCount(cmd, isLast)
           e == [count |-> c, from |-> {}]
           t == Pipee(table, cmd, isLast)
           out == FdOut(t, cmd, isLast)
<1>1. c \in Int /\ (c = -1 \/ c > 0) /\ e \in PipeInfo /\ e.count = c
  BY DEF OutCount, PipeInfo
<1>2. t \in Seq(PipeInfo)
  BY PipeeProperties
<1>3. CASE c = -1
  <2>1. t = Append(table, e) /\ out = Len(t)
    BY <1>3 DEF Pipee, Shared, FdOut
  <2> QED
    BY <1>1, <1>3, <2>1, AppendProperties
<1>4. CASE c > 0
  <2>1. out = FirstWith(t, c)
    BY <1>4 DEF FdOut
  <2>2. \E j \in 1 .. Len(t) : t[j].count = c
    <3>1. CASE Shared(table, cmd, isLast)
      <4>1. t = table /\ FirstWith(table, c) > 0
        BY <3>1 DEF Pipee, Shared
      <4>2. /\ FirstWith(table, c) \in 0 .. Len(table)
            /\ FirstWith(table, c) # 0 => table[FirstWith(table, c)].count = c
        BY <1>1, FirstWithFinds
      <4> HIDE DEF c, t
      <4> QED
        BY <4>1, <4>2
    <3>2. CASE ~Shared(table, cmd, isLast)
      <4>1. t = Append(table, e)
        BY <3>2 DEF Pipee
      <4> QED
        BY <1>1, <4>1, AppendProperties
    <3> QED
      BY <3>1, <3>2
  <2>3. /\ FirstWith(t, c) \in 0 .. Len(t)
        /\ FirstWith(t, c) # 0 => t[FirstWith(t, c)].count = c
        /\ \A j \in 1 .. Len(t) : t[j].count = c => FirstWith(t, c) \in 1 .. j
    BY <1>1, <1>2, FirstWithFinds
  <2>4. out \in 1 .. Len(t) /\ t[out].count = c /\ c # -1
    <3> HIDE DEF c, t, out
    <3> QED
      BY <1>1, <1>4, <2>1, <2>2, <2>3
  <2> QED
    BY <2>4
<1> QED
  BY <1>1, <1>3, <1>4

\* A command that is piped on does not read the pipe it writes: for the first of
\* a line one is due and the other is not, and for a later one an older ordinary
\* pipe is found before the one it opens.
LEMMA InIsNotOut ==
  ASSUME NEW table \in Seq(PipeInfo), NEW cmd, cmd.lineToPipe \in Nat, NEW isLast \in BOOLEAN,
         cmd.mark # NoMark, NEW n \in Nat \ {0},
         n > 1 => \E j \in 1 .. Len(table) : table[j].count = -1
  PROVE  LET t == Pipee(table, cmd, isLast)
             out == FdOut(t, cmd, isLast)
         IN  /\ out \in 1 .. Len(t)
             /\ t[out].count = OutCount(cmd, isLast)
             /\ out # FdIn(t, n)
<1> DEFINE t == Pipee(table, cmd, isLast)
           out == FdOut(t, cmd, isLast)
           in == FdIn(t, n)
           c == OutCount(cmd, isLast)
<1>1. Len(table) \in Nat /\ (c = -1 \/ c > 0)
  BY DEF OutCount
<1>2. /\ t \in Seq(PipeInfo) /\ Len(t) \in Nat /\ Len(table) <= Len(t)
      /\ \A j \in 1 .. Len(table) : t[j] = table[j]
  BY PipeeProperties
<1>3. /\ out \in 1 .. Len(t)
      /\ t[out].count = c
      /\ c = -1 => out = Len(table) + 1
  BY FdOutProperties
<1> DEFINE d == IF n = 1 THEN 0 ELSE -1
<1>4. d \in Int /\ in = FirstWith(t, d)
  BY DEF FdIn
<1> HIDE DEF t, out, in, c, d
<1>5. /\ in # 0 => t[in].count = d
      /\ \A j \in 1 .. Len(t) : t[j].count = d => in \in 1 .. j
  BY <1>2, <1>4, FirstWithFinds
<1>6. ASSUME n = 1 PROVE out # in
  <2>1. d = 0
    BY <1>6 DEF d
  <2> QED
    BY <1>1, <1>3, <1>5, <2>1
<1>7. ASSUME n > 1 PROVE out # in
  <2>1. d = -1
    BY <1>7 DEF d
  <2>2. PICK j \in 1 .. Len(table) : table[j].count = -1
    BY <1>7
  <2>3. j \in 1 .. Len(t) /\ t[j].count = -1
    BY <1>1, <1>2, <2>2
  <2>4. in \in 1 .. j /\ t[in].count = -1
    BY <1>5, <2>1, <2>3
  <2> QED
    BY <1>1, <1>3, <2>4
<1>8. out # in
  BY <1>6, <1>7
<1> QED
  BY <1>3, <1>8 DEF t, out, in, c

\* What the shell does not close stays, with what has been written to it.
LEMMA OthersStay ==
  ASSUME NEW table \in Seq(PipeInfo), NEW tag \in Tag, NEW w, NEW in \in 0 .. Len(table),
         NEW k \in 1 .. Len(table), k # in
  PROVE  LET t == Close(Write(table, w, tag), in)
         IN  \E j \in 1 .. Len(t) : /\ t[j].count = table[k].count
                                    /\ w = k => tag \in t[j].from
<1> DEFINE u == Write(table, w, tag)
           t == Close(u, in)
<1>1. /\ u \in Seq(PipeInfo) /\ Len(u) = Len(table)
      /\ u[k].count = table[k].count
      /\ w = k => tag \in u[k].from
  BY WriteProperties
<1> HIDE DEF u
<1>2. \E j \in 1 .. Len(t) : t[j] = u[k]
  <2>1. in \in 0 .. Len(u) /\ k \in 1 .. Len(u) \ {in}
    BY <1>1
  <2>2. \A j \in 1 .. Len(u) \ {in} : \E l \in 1 .. Len(t) : t[l] = u[j]
    BY <1>1, <2>1, CloseProperties, Zenon
  <2> QED
    BY <2>1, <2>2
<1> HIDE DEF t
<1> QED
  BY <1>1, <1>2 DEF t, u

\* Some entry has the count.
LEMMA Found ==
  ASSUME NEW table \in Seq(PipeInfo), NEW c \in Int
  PROVE  FirstWith(table, c) # 0 <=> \E j \in 1 .. Len(table) : table[j].count = c
<1>1. /\ FirstWith(table, c) \in 0 .. Len(table)
      /\ FirstWith(table, c) # 0 => table[FirstWith(table, c)].count = c
      /\ \A j \in 1 .. Len(table) : table[j].count = c => FirstWith(table, c) \in 1 .. j
  BY FirstWithFinds
<1>2. Len(table) \in Nat
  OBVIOUS
<1> QED
  BY <1>1, <1>2

\* The first entry with a count stays the first, and a new one delivers nothing.
LEMMA PipeeFirst ==
  ASSUME NEW table \in Seq(PipeInfo), NEW cmd, cmd.lineToPipe \in Nat, NEW isLast \in BOOLEAN,
         NEW n \in Int
  PROVE  LET t == Pipee(table, cmd, isLast)
         IN  /\ FirstWith(table, n) # 0 => FirstWith(t, n) = FirstWith(table, n)
             /\ Content(t, FirstWith(t, n)) = Content(table, FirstWith(table, n))
<1> DEFINE t == Pipee(table, cmd, isLast)
           f == FirstWith(table, n)
           g == FirstWith(t, n)
<1>1. /\ t \in Seq(PipeInfo) /\ Len(table) <= Len(t) /\ Len(table) \in Nat /\ Len(t) \in Nat
      /\ \A j \in 1 .. Len(table) : t[j] = table[j]
  BY PipeeProperties
<1>2. \A j \in 1 .. Len(t) : j \notin 1 .. Len(table) => t[j].from = {}
  <2>1. CASE t = table
    BY <2>1
  <2> DEFINE e == [count |-> OutCount(cmd, isLast), from |-> {}]
  <2>2. CASE t = Append(table, e)
    <3>1. e \in PipeInfo /\ e.from = {}
      BY DEF PipeInfo, OutCount
    <3> HIDE DEF e, t
    <3>2. t[Len(table) + 1] = e /\ Len(t) = Len(table) + 1
      BY <2>2, <3>1, AppendProperties
    <3> QED
      BY <1>1, <3>1, <3>2
  <2> QED
    BY <2>1, <2>2, PipeeAdds
<1> HIDE DEF t
<1>3. /\ f \in 0 .. Len(table)
      /\ f # 0 => table[f].count = n
      /\ \A j \in 1 .. Len(table) : table[j].count = n => f \in 1 .. j
  BY FirstWithFinds
<1>4. /\ g \in 0 .. Len(t)
      /\ g # 0 => t[g].count = n
      /\ \A j \in 1 .. Len(t) : t[j].count = n => g \in 1 .. j
  BY <1>1, FirstWithFinds
<1> HIDE DEF f, g
<1>5. CASE f # 0
  <2>1. f \in 1 .. Len(t) /\ t[f].count = n
    BY <1>1, <1>3, <1>5
  <2>2. g \in 1 .. f /\ t[g].count = n
    BY <1>4, <2>1
  <2>3. g \in 1 .. Len(table) /\ table[g].count = n
    BY <1>1, <1>3, <1>5, <2>2
  <2>4. g = f /\ t[f] = table[f]
    BY <1>1, <1>3, <1>5, <2>2, <2>3
  <2> QED
    BY <1>5, <2>4 DEF Content, f, g, t
<1>6. CASE f = 0
  <2>1. g # 0 => g \in 1 .. Len(t) /\ g \notin 1 .. Len(table)
    BY <1>1, <1>3, <1>4, <1>6
  <2> QED
    BY <1>2, <1>6, <2>1 DEF Content, f, g, t
<1> QED
  BY <1>5, <1>6

\* Of two ordinary entries, one that is closed leaves the other alone.
LEMMA OneLeft ==
  ASSUME NEW table \in Seq(PipeInfo), NEW in \in 0 .. Len(table),
         \A j, k \in 1 .. Len(table) \ {in} :
           table[j].count = -1 /\ table[k].count = -1 => j = k
  PROVE  LET t == Close(table, in)
         IN  \A k, l \in 1 .. Len(t) : t[k].count = -1 /\ t[l].count = -1 => k = l
<1> DEFINE t == Close(table, in)
<1>1. CASE in = 0
  BY <1>1 DEF Close
<1>2. CASE in # 0
  <2>1. in \in 1 .. Len(table) /\ Len(table) \in Nat /\ t = RemoveAt(table, in)
    BY <1>2 DEF Close
  <2> HIDE DEF t
  <2>2. /\ Len(t) = Len(table) - 1
        /\ \A k \in 1 .. Len(table) - 1 : t[k] = IF k < in THEN table[k] ELSE table[k + 1]
    BY <2>1, RemoveAtProperties
  <2> DEFINE of(k) == IF k < in THEN k ELSE k + 1
  <2>3. \A k \in 1 .. Len(t) : of(k) \in 1 .. Len(table) \ {in} /\ t[k] = table[of(k)]
    BY <2>1, <2>2
  <2>4. \A k, l \in 1 .. Len(t) : of(k) = of(l) => k = l
    BY <2>1, <2>2
  <2> HIDE DEF of
  <2> QED
    BY <2>3, <2>4 DEF t
<1> QED
  BY <1>1, <1>2

LEMMA WriteNothing ==
  ASSUME NEW table \in Seq(PipeInfo), NEW tag
  PROVE  Write(table, 0, tag) = table
BY DEF Write

LEMMA WrittenFirst ==
  ASSUME NEW table \in Seq(PipeInfo), NEW out, NEW tag \in Tag, NEW n \in Int
  PROVE  FirstWith(Write(table, out, tag), n) = FirstWith(table, n)
<1> DEFINE t == Write(table, out, tag)
<1>1. Len(t) = Len(table) /\ \A j \in 1 .. Len(table) : t[j].count = table[j].count
  BY WriteProperties
<1> HIDE DEF t
<1>2. {j \in 1 .. Len(t) : t[j].count = n} = {j \in 1 .. Len(table) : table[j].count = n}
  BY <1>1
<1> QED
  BY <1>2 DEF FirstWith, t
-----------------------------------------------------------------------------
(* What the entries of a table with one count carry together.              *)

From(table, n) ==
  UNION {table[j].from : j \in {k \in DOMAIN table : table[k].count = n}}

LEMMA InFrom ==
  ASSUME NEW table, NEW n, NEW x
  PROVE  x \in From(table, n) <=>
           \E j \in DOMAIN table : table[j].count = n /\ x \in table[j].from
  BY DEF From

LEMMA CountedFrom ==
  ASSUME NEW table \in Seq(PipeInfo), NEW n \in Int
  PROVE  From(CountDown(table), n) = From(table, n + 1)
<1> DEFINE t == CountDown(table)
<1>1. DOMAIN t = DOMAIN table
  BY DEF CountDown
<1>2. ASSUME NEW j \in DOMAIN table
      PROVE  t[j].from = table[j].from /\ (t[j].count = n <=> table[j].count = n + 1)
  <2>1. table[j] \in PipeInfo
    OBVIOUS
  <2>2. t[j] = [table[j] EXCEPT !.count = table[j].count - 1]
    BY DEF CountDown
  <2> QED
    BY <2>1, <2>2 DEF PipeInfo
<1> HIDE DEF t
<1>3. ASSUME NEW x PROVE x \in From(t, n) <=> x \in From(table, n + 1)
  BY <1>1, <1>2, InFrom
<1> QED
  BY <1>3 DEF t

\* A pipe that has just been opened carries nothing.
LEMMA AppendedFrom ==
  ASSUME NEW table \in Seq(PipeInfo), NEW c \in Int, NEW n \in Int
  PROVE  From(Append(table, [count |-> c, from |-> {}]), n) = From(table, n)
<1> DEFINE e == [count |-> c, from |-> {}]
           t == Append(table, e)
<1>1. e \in PipeInfo /\ e.from = {}
  BY DEF PipeInfo
<1> HIDE DEF e
<1>2. /\ t \in Seq(PipeInfo)
      /\ DOMAIN t = 1 .. Len(table) + 1 /\ DOMAIN table = 1 .. Len(table)
      /\ \A j \in 1 .. Len(table) : t[j] = table[j]
      /\ t[Len(table) + 1].from = {}
  BY <1>1, AppendProperties
<1> HIDE DEF t
<1>3. Len(table) \in Nat
  OBVIOUS
<1>4. ASSUME NEW x PROVE x \in From(t, n) <=> x \in From(table, n)
  <2>1. ASSUME NEW j \in DOMAIN t, t[j].count = n, x \in t[j].from
        PROVE  j \in DOMAIN table /\ table[j].count = n /\ x \in table[j].from
    BY <1>2, <1>3, <2>1
  <2>2. ASSUME NEW j \in DOMAIN table, table[j].count = n, x \in table[j].from
        PROVE  j \in DOMAIN t /\ t[j].count = n /\ x \in t[j].from
    BY <1>2, <1>3, <2>2
  <2> QED
    BY <2>1, <2>2, InFrom
<1> QED
  BY <1>4 DEF t, e

LEMMA PipeeFrom ==
  ASSUME NEW table \in Seq(PipeInfo), NEW cmd, cmd.lineToPipe \in Nat, NEW isLast \in BOOLEAN,
         NEW n \in Int
  PROVE  From(Pipee(table, cmd, isLast), n) = From(table, n)
<1> DEFINE c == OutCount(cmd, isLast)
<1>1. c \in Int
  BY DEF OutCount
<1>2. From(Append(table, [count |-> c, from |-> {}]), n) = From(table, n)
  <2> HIDE DEF c
  <2> QED
    BY <1>1, AppendedFrom
<1> QED
  BY <1>2, PipeeAdds

\* An entry that is closed takes with it only what has its count.
LEMMA ClosedFrom ==
  ASSUME NEW table \in Seq(PipeInfo), NEW in \in 0 .. Len(table), NEW n \in Int,
         in # 0 => table[in].count # n
  PROVE  From(Close(table, in), n) = From(table, n)
<1> DEFINE t == Close(table, in)
<1>1. /\ t \in Seq(PipeInfo)
      /\ \A j \in 1 .. Len(table) \ {in} : \E k \in 1 .. Len(t) : t[k] = table[j]
      /\ \A k \in 1 .. Len(t) : \E j \in 1 .. Len(table) \ {in} : t[k] = table[j]
  BY CloseProperties
<1> HIDE DEF t
<1>2. DOMAIN t = 1 .. Len(t) /\ DOMAIN table = 1 .. Len(table) /\ Len(table) \in Nat
  BY <1>1
<1>3. ASSUME NEW x PROVE x \in From(t, n) <=> x \in From(table, n)
  <2>1. ASSUME x \in From(t, n) PROVE x \in From(table, n)
    <3>1. PICK k \in 1 .. Len(t) : t[k].count = n /\ x \in t[k].from
      BY <1>2, <2>1, InFrom
    <3>2. PICK j \in 1 .. Len(table) \ {in} : t[k] = table[j]
      BY <1>1
    <3> QED
      BY <1>2, <3>1, <3>2, InFrom
  <2>2. ASSUME x \in From(table, n) PROVE x \in From(t, n)
    <3>1. PICK j \in 1 .. Len(table) : table[j].count = n /\ x \in table[j].from
      BY <1>2, <2>2, InFrom
    <3>2. j # in
      BY <3>1
    <3>3. PICK k \in 1 .. Len(t) : t[k] = table[j]
      BY <1>1, <3>2
    <3> QED
      BY <1>2, <3>1, <3>3, InFrom
  <2> QED
    BY <2>1, <2>2
<1> QED
  BY <1>3 DEF t

\* The entry that is due is taken out, and it is all that is due.
LEMMA TakenFrom ==
  ASSUME NEW table \in Seq(PipeInfo), Distinct(table), NEW n \in Nat
  PROVE  LET due == FirstWith(table, 0)
         IN  /\ n # 0 => From(Close(table, due), n) = From(table, n)
             /\ From(table, 0) = Content(table, due)
             /\ From(Close(table, due), 0) = {}
<1> DEFINE due == FirstWith(table, 0)
           t == Close(table, due)
<1>1. /\ due \in 0 .. Len(table)
      /\ due # 0 => table[due].count = 0
      /\ \A j \in 1 .. Len(table) : table[j].count = 0 => due \in 1 .. j
  <2> DEFINE zero == 0
  <2>1. zero \in Int
    OBVIOUS
  <2> HIDE DEF zero
  <2>2. /\ FirstWith(table, zero) \in 0 .. Len(table)
        /\ FirstWith(table, zero) # 0 => table[FirstWith(table, zero)].count = zero
        /\ \A j \in 1 .. Len(table) :
             table[j].count = zero => FirstWith(table, zero) \in 1 .. j
    BY <2>1, FirstWithFinds
  <2> QED
    BY <2>2 DEF zero
<1> HIDE DEF due
<1>2. /\ t \in Seq(PipeInfo)
      /\ \A j \in 1 .. Len(table) \ {due} : \E k \in 1 .. Len(t) : t[k] = table[j]
      /\ \A k \in 1 .. Len(t) : \E j \in 1 .. Len(table) \ {due} : t[k] = table[j]
  BY <1>1, CloseProperties
<1> HIDE DEF t
<1>3. DOMAIN t = 1 .. Len(t) /\ DOMAIN table = 1 .. Len(table) /\ Len(table) \in Nat
  BY <1>2
<1>4. \A j \in 1 .. Len(table) : table[j].count = 0 => j = due
  BY <1>1, <1>3 DEF Distinct
<1>5. ASSUME n # 0, NEW x PROVE x \in From(t, n) <=> x \in From(table, n)
  <2>1. ASSUME x \in From(t, n) PROVE x \in From(table, n)
    <3>1. PICK k \in 1 .. Len(t) : t[k].count = n /\ x \in t[k].from
      BY <1>3, <2>1, InFrom
    <3>2. PICK j \in 1 .. Len(table) \ {due} : t[k] = table[j]
      BY <1>2
    <3> QED
      BY <1>3, <3>1, <3>2, InFrom
  <2>2. ASSUME x \in From(table, n) PROVE x \in From(t, n)
    <3>1. PICK j \in 1 .. Len(table) : table[j].count = n /\ x \in table[j].from
      BY <1>3, <2>2, InFrom
    <3>2. j # due
      BY <1>1, <1>5, <3>1
    <3>3. PICK k \in 1 .. Len(t) : t[k] = table[j]
      BY <1>2, <3>2
    <3> QED
      BY <1>3, <3>1, <3>3, InFrom
  <2> QED
    BY <2>1, <2>2
<1>6. ASSUME NEW x PROVE x \in From(table, 0) <=> x \in Content(table, due)
  <2>1. CASE due = 0
    BY <1>3, <1>4, <2>1, InFrom DEF Content
  <2>2. CASE due # 0
    BY <1>1, <1>3, <1>4, <2>2, InFrom DEF Content
  <2> QED
    BY <2>1, <2>2
<1>7. ASSUME NEW x PROVE x \notin From(t, 0)
  <2> SUFFICES ASSUME x \in From(t, 0) PROVE FALSE
    OBVIOUS
  <2>1. PICK k \in 1 .. Len(t) : t[k].count = 0
    BY <1>3, InFrom
  <2>2. PICK j \in 1 .. Len(table) \ {due} : t[k] = table[j]
    BY <1>2
  <2> QED
    BY <1>4, <2>1, <2>2
<1>8. n # 0 => From(t, n) = From(table, n)
  BY <1>5
<1>9. From(table, 0) = Content(table, due) /\ From(t, 0) = {}
  BY <1>6, <1>7
<1> QED
  BY <1>8, <1>9 DEF t, due

LEMMA WrittenFrom ==
  ASSUME NEW table \in Seq(PipeInfo), NEW out \in 1 .. Len(table), NEW tag \in Tag, NEW n \in Int
  PROVE  From(Write(table, out, tag), n) =
           IF table[out].count = n THEN From(table, n) \cup {tag} ELSE From(table, n)
<1> DEFINE t == Write(table, out, tag)
<1>1. DOMAIN t = DOMAIN table /\ DOMAIN table = 1 .. Len(table)
  BY DEF Write
<1>2. ASSUME NEW j \in DOMAIN table
      PROVE  /\ t[j].count = table[j].count
             /\ t[j].from = IF j = out THEN table[j].from \cup {tag} ELSE table[j].from
  <2>1. table[j] \in PipeInfo
    OBVIOUS
  <2>2. t[j] = IF j = out THEN [table[j] EXCEPT !.from = table[j].from \cup {tag}] ELSE table[j]
    BY DEF Write
  <2> QED
    BY <2>1, <2>2 DEF PipeInfo
<1> HIDE DEF t
<1>3. ASSUME NEW x
      PROVE  x \in From(t, n) <=> x \in From(table, n) \/ (table[out].count = n /\ x = tag)
  <2>1. x \in From(t, n) <=> \E j \in DOMAIN table : t[j].count = n /\ x \in t[j].from
    BY <1>1, InFrom
  <2>2. x \in From(table, n) <=> \E j \in DOMAIN table : table[j].count = n /\ x \in table[j].from
    BY InFrom
  <2>3. out \in DOMAIN table
    BY <1>1
  <2> QED
    BY <1>2, <2>1, <2>2, <2>3
<1>4. From(t, n) = IF table[out].count = n THEN From(table, n) \cup {tag} ELSE From(table, n)
  BY <1>3
<1> QED
  BY <1>4 DEF t

-----------------------------------------------------------------------------
(* What is on its way, as a function of all numbers of lines.               *)

Support(a) == [n \in {m \in Nat : a[m] # {}} |-> a[n]]

LEMMA SupportProperties ==
  ASSUME NEW a \in [Nat -> SUBSET Tag]
  PROVE  /\ DOMAIN Support(a) = {m \in Nat : a[m] # {}}
         /\ \A n \in DOMAIN Support(a) : Support(a)[n] = a[n]
  BY DEF Support

\* The end of a line.
LEMMA SupportTurned ==
  ASSUME NEW a \in [Nat -> SUBSET Tag], NEW b \in [Nat -> SUBSET Tag],
         \A n \in Nat : b[n] = a[n + 1]
  PROVE  Support(b) = [n \in {m - 1 : m \in DOMAIN Support(a) \ {0}} |-> Support(a)[n + 1]]
<1>a. /\ DOMAIN Support(a) = {m \in Nat : a[m] # {}}
      /\ \A n \in DOMAIN Support(a) : Support(a)[n] = a[n]
  BY SupportProperties
<1>1. {n \in Nat : b[n] # {}} = {m - 1 : m \in DOMAIN Support(a) \ {0}}
  <2>1. ASSUME NEW n \in Nat, b[n] # {}
        PROVE  \E m \in DOMAIN Support(a) \ {0} : n = m - 1
    <3>1. n + 1 \in Nat /\ n + 1 # 0 /\ n = (n + 1) - 1 /\ a[n + 1] # {}
      BY <2>1
    <3>2. n + 1 \in DOMAIN Support(a) \ {0}
      BY <1>a, <3>1
    <3> QED
      BY <3>1, <3>2
  <2>2. ASSUME NEW m \in DOMAIN Support(a) \ {0} PROVE m - 1 \in Nat /\ b[m - 1] # {}
    <3>1. m \in Nat \ {0} /\ a[m] # {} /\ (m - 1) + 1 = m /\ m - 1 \in Nat
      BY <1>a
    <3>2. b[m - 1] = a[(m - 1) + 1]
      BY <3>1
    <3> QED
      BY <3>1, <3>2
  <2> QED
    BY <2>1, <2>2
<1>2. ASSUME NEW n \in Nat, b[n] # {} PROVE b[n] = Support(a)[n + 1]
  <2>1. n + 1 \in Nat /\ a[n + 1] # {}
    BY <1>2
  <2> QED
    BY <1>a, <2>1
<1> QED
  BY <1>1, <1>2 DEF Support

\* What was due is read.
LEMMA SupportRead ==
  ASSUME NEW a \in [Nat -> SUBSET Tag], NEW b \in [Nat -> SUBSET Tag],
         b[0] = {}, \A n \in Nat \ {0} : b[n] = a[n]
  PROVE  Support(b) = [n \in DOMAIN Support(a) \ {0} |-> Support(a)[n]]
<1>1. {n \in Nat : b[n] # {}} = DOMAIN Support(a) \ {0}
  BY SupportProperties
<1>2. \A n \in DOMAIN Support(a) \ {0} : b[n] = Support(a)[n]
  BY SupportProperties
<1> QED
  BY <1>1, <1>2 DEF Support

\* More is sent.
Sent(a, c, tag) == [n \in Nat |-> IF n = c THEN a[n] \cup {tag} ELSE a[n]]

LEMMA SupportSent ==
  ASSUME NEW a \in [Nat -> SUBSET Tag], NEW c \in Nat, NEW tag \in Tag
  PROVE  Support(Sent(a, c, tag)) =
           [n \in DOMAIN Support(a) \cup {c} |->
              IF n = c THEN a[c] \cup {tag} ELSE Support(a)[n]]
<1> DEFINE b == Sent(a, c, tag)
<1>0. /\ b[c] = a[c] \cup {tag}
      /\ \A n \in Nat : n # c => b[n] = a[n]
  BY DEF Sent
<1> HIDE DEF b
<1>1. {n \in Nat : b[n] # {}} = DOMAIN Support(a) \cup {c}
  <2>1. DOMAIN Support(a) = {m \in Nat : a[m] # {}}
    BY SupportProperties
  <2>2. b[c] # {}
    BY <1>0
  <2>3. ASSUME NEW n
        PROVE  n \in Nat /\ b[n] # {} <=> (n \in Nat /\ a[n] # {}) \/ n = c
    BY <1>0, <2>2
  <2> QED
    BY <2>1, <2>3
<1>2. \A n \in DOMAIN Support(a) \cup {c} :
        b[n] = IF n = c THEN a[c] \cup {tag} ELSE Support(a)[n]
  BY <1>0, SupportProperties
<1>3. Support(b) = [n \in DOMAIN Support(a) \cup {c} |->
                      IF n = c THEN a[c] \cup {tag} ELSE Support(a)[n]]
  BY <1>1, <1>2 DEF Support
<1> QED
  BY <1>3 DEF b

-----------------------------------------------------------------------------
(* So much for functions; now for tables.                                   *)

AllDue(table) == [n \in Nat |-> From(table, n)]

LEMMA OnItsWayIsSupport ==
  ASSUME NEW table \in Seq(PipeInfo)
  PROVE  /\ AllDue(table) \in [Nat -> SUBSET Tag]
         /\ OnItsWay(table) = Support(AllDue(table))
<1>1. \A j \in DOMAIN table : table[j] \in PipeInfo
  OBVIOUS
<1>2. \A j \in DOMAIN table : table[j].count \in Int /\ table[j].from \in SUBSET Tag
  BY <1>1 DEF PipeInfo
<1>3. ASSUME NEW n \in Nat PROVE From(table, n) \subseteq Tag
  BY <1>2, InFrom
<1> DEFINE D == {table[j].count : j \in CountsDown(table)}
           F(n) == UNION {table[j].from : j \in {k \in CountsDown(table) : table[k].count = n}}
<1>4. ASSUME NEW n \in Nat PROVE F(n) = From(table, n)
  <2>1. ASSUME NEW x
        PROVE  (\E j \in CountsDown(table) : table[j].count = n /\ x \in table[j].from)
                 <=> x \in From(table, n)
    BY <1>2, InFrom DEF CountsDown
  <2> QED
    BY <2>1
<1>5. D = {m \in Nat : AllDue(table)[m] # {}}
  <2>1. ASSUME NEW j \in CountsDown(table)
        PROVE  table[j].count \in Nat /\ AllDue(table)[table[j].count] # {}
    <3>1. j \in DOMAIN table /\ table[j].count \in Nat /\ table[j].from # {}
      BY <1>2 DEF CountsDown
    <3>2. From(table, table[j].count) # {}
      BY <3>1, InFrom
    <3> QED
      BY <3>1, <3>2 DEF AllDue
  <2>2. ASSUME NEW n \in Nat, AllDue(table)[n] # {}
        PROVE  \E j \in CountsDown(table) : table[j].count = n
    <3>1. PICK x : x \in From(table, n)
      BY <2>2 DEF AllDue
    <3>2. PICK j \in DOMAIN table : table[j].count = n /\ x \in table[j].from
      BY <3>1, InFrom
    <3> QED
      BY <3>2 DEF CountsDown
  <2> QED
    BY <2>1, <2>2
<1>6. OnItsWay(table) = [n \in D |-> F(n)]
  BY DEF OnItsWay
<1>7. ASSUME NEW n \in D PROVE F(n) = AllDue(table)[n]
  BY <1>4, <1>5 DEF AllDue
<1>8. AllDue(table) \in [Nat -> SUBSET Tag]
  BY <1>3 DEF AllDue
<1> HIDE DEF D, F
<1> QED
  BY <1>5, <1>6, <1>7, <1>8 DEF Support

\* What is due at a line.
LEMMA OnItsWayAt ==
  ASSUME NEW table \in Seq(PipeInfo), NEW n \in Nat
  PROVE  (IF n \in DOMAIN OnItsWay(table) THEN OnItsWay(table)[n] ELSE {}) = From(table, n)
<1> DEFINE a == AllDue(table)
<1>1. a \in [Nat -> SUBSET Tag] /\ OnItsWay(table) = Support(a) /\ a[n] = From(table, n)
  BY OnItsWayIsSupport DEF AllDue
<1> HIDE DEF a
<1>2. /\ n \in DOMAIN Support(a) <=> a[n] # {}
      /\ n \in DOMAIN Support(a) => Support(a)[n] = a[n]
  BY <1>1, SupportProperties
<1> QED
  BY <1>1, <1>2

LEMMA SameOnItsWay ==
  ASSUME NEW table \in Seq(PipeInfo), NEW other \in Seq(PipeInfo),
         \A n \in Nat : From(other, n) = From(table, n)
  PROVE  OnItsWay(other) = OnItsWay(table)
<1>1. AllDue(other) = AllDue(table)
  BY DEF AllDue
<1> QED
  BY <1>1, OnItsWayIsSupport

\* An output pipe that is opened moves nothing.
LEMMA OpenedOnItsWay ==
  ASSUME NEW table \in Seq(PipeInfo), NEW cmd, cmd.lineToPipe \in Nat, NEW isLast \in BOOLEAN
  PROVE  OnItsWay(Pipee(table, cmd, isLast)) = OnItsWay(table)
<1> DEFINE t == Pipee(table, cmd, isLast)
<1>1. t \in Seq(PipeInfo)
  BY PipeeProperties
<1>2. \A n \in Nat : From(t, n) = From(table, n)
  BY PipeeFrom
<1> HIDE DEF t
<1>3. OnItsWay(t) = OnItsWay(table)
  BY <1>1, <1>2, SameOnItsWay
<1> QED
  BY <1>3 DEF t

\* The end of a line brings all of it one line nearer.
LEMMA CountedOnItsWay ==
  ASSUME NEW table \in Seq(PipeInfo)
  PROVE  OnItsWay(CountDown(table)) =
           [n \in {m - 1 : m \in DOMAIN OnItsWay(table) \ {0}} |-> OnItsWay(table)[n + 1]]
<1> DEFINE t == CountDown(table)
           a == AllDue(table)
           b == AllDue(t)
<1>1. t \in Seq(PipeInfo) /\ \A n \in Int : From(t, n) = From(table, n + 1)
  BY CountDownProperties, CountedFrom
<1> HIDE DEF t
<1>2. \A n \in Nat : b[n] = a[n + 1]
  BY <1>1 DEF AllDue
<1>3. /\ a \in [Nat -> SUBSET Tag] /\ OnItsWay(table) = Support(a)
      /\ b \in [Nat -> SUBSET Tag] /\ OnItsWay(t) = Support(b)
  BY <1>1, OnItsWayIsSupport
<1> HIDE DEF a, b
<1>4. Support(b) = [n \in {m - 1 : m \in DOMAIN Support(a) \ {0}} |-> Support(a)[n + 1]]
  BY <1>2, <1>3, SupportTurned
<1> QED
  BY <1>3, <1>4 DEF t

\* What remains on its way when the first program of a line has read what is due,
\* and what is when more has been sent.
AfterRead(due) == [n \in DOMAIN due \ {0} |-> due[n]]
WithMore(due, c, from) == [n \in DOMAIN due \cup {c} |-> IF n = c THEN from ELSE due[n]]

LEMMA WriteSends ==
  ASSUME NEW table \in Seq(PipeInfo), NEW tag \in Tag, NEW out \in 0 .. Len(table),
         out # 0 => table[out].count # 0, NEW n \in Nat
  PROVE  LET c == table[out].count
         IN  From(Write(table, out, tag), n) =
               IF out # 0 /\ c > 0 /\ n = c THEN From(table, n) \cup {tag} ELSE From(table, n)
<1> DEFINE u == Write(table, out, tag)
           c == table[out].count
<1>1. out # 0 => out \in 1 .. Len(table) /\ c \in Int /\ c # 0
  <2> SUFFICES ASSUME out # 0 PROVE out \in 1 .. Len(table) /\ c \in Int
    OBVIOUS
  <2>1. out \in 1 .. Len(table)
    OBVIOUS
  <2>2. table[out] \in PipeInfo
    BY <2>1
  <2> QED
    BY <2>1, <2>2 DEF PipeInfo
<1>2. CASE out = 0
  BY <1>2, WriteNothing
<1>3. CASE out # 0
  <2>1. From(u, n) = IF c = n THEN From(table, n) \cup {tag} ELSE From(table, n)
    BY <1>1, <1>3, WrittenFrom
  <2> QED
    BY <1>1, <1>3, <2>1
<1> QED
  BY <1>2, <1>3

\* A table with the entries of "left", and more for one line.
LEMMA SentOnItsWay ==
  ASSUME NEW left \in [Nat -> SUBSET Tag], NEW t \in Seq(PipeInfo), NEW tag \in Tag
  PROVE  /\ (\A n \in Nat : From(t, n) = left[n]) => OnItsWay(t) = Support(left)
         /\ \A c \in Nat :
              (\A n \in Nat : From(t, n) = IF n = c THEN left[n] \cup {tag} ELSE left[n])
                => OnItsWay(t) = WithMore(Support(left), c, left[c] \cup {tag})
<1>1. OnItsWay(t) = Support(AllDue(t)) /\ AllDue(t) \in [Nat -> SUBSET Tag]
  BY OnItsWayIsSupport
<1>2. ASSUME \A n \in Nat : From(t, n) = left[n] PROVE OnItsWay(t) = Support(left)
  <2>1. AllDue(t) = left
    BY <1>2 DEF AllDue
  <2> QED
    BY <1>1, <2>1
<1>3. ASSUME NEW c \in Nat,
             \A n \in Nat : From(t, n) = IF n = c THEN left[n] \cup {tag} ELSE left[n]
      PROVE  OnItsWay(t) = WithMore(Support(left), c, left[c] \cup {tag})
  <2>1. AllDue(t) = Sent(left, c, tag)
    BY <1>3 DEF AllDue, Sent
  <2>2. Support(Sent(left, c, tag)) = [n \in DOMAIN Support(left) \cup {c} |->
                                        IF n = c THEN left[c] \cup {tag} ELSE Support(left)[n]]
    BY SupportSent
  <2> QED
    BY <1>1, <2>1, <2>2 DEF WithMore
<1> QED
  BY <1>2, <1>3

\* The program that opens a line takes what is due; its output is added to what
\* is on its way if it writes to a numbered pipe.
LEMMA FirstOnItsWay ==
  ASSUME NEW table \in Seq(PipeInfo), Distinct(table), NEW tag \in Tag,
         NEW out \in 0 .. Len(table), out # 0 => table[out].count # 0,
         NEW in, in = FirstWith(table, 0)
  PROVE  LET due == AfterRead(OnItsWay(table))
             t == Close(Write(table, out, tag), in)
             c == table[out].count
         IN  /\ Content(table, in) = From(table, 0)
             /\ ~(out # 0 /\ c > 0) => OnItsWay(t) = due
             /\ out # 0 /\ c > 0 => OnItsWay(t) = WithMore(due, c, From(table, c) \cup {tag})
<1> DEFINE u == Write(table, out, tag)
           t == Close(u, FirstWith(u, 0))
           c == table[out].count
           sends == out # 0 /\ c > 0
           a == AllDue(table)
           left == [n \in Nat |-> IF n = 0 THEN {} ELSE a[n]]
<1>1. u \in Seq(PipeInfo) /\ Distinct(u) /\ Len(u) = Len(table)
  BY WriteProperties
<1>2. in = FirstWith(u, 0) /\ in \in 0 .. Len(u)
  <2>1. \A n \in Int : FirstWith(u, n) = FirstWith(table, n)
    BY WrittenFirst
  <2> QED
    BY <1>1, <2>1, FirstWithFinds
<1>3. a \in [Nat -> SUBSET Tag] /\ OnItsWay(table) = Support(a)
      /\ \A n \in Nat : a[n] = From(table, n)
  BY OnItsWayIsSupport DEF AllDue
<1>4. Content(table, in) = From(table, 0)
  <2>1. 0 \in Nat
    OBVIOUS
  <2> QED
    BY <2>1, TakenFrom
<1>5. \A n \in Nat : From(u, n) = IF sends /\ n = c THEN From(table, n) \cup {tag} ELSE From(table, n)
  BY WriteSends
<1> HIDE DEF u, a
<1>6. \A n \in Nat : (n # 0 => From(t, n) = From(u, n)) /\ From(t, 0) = {}
  BY <1>1, TakenFrom
<1>7. t \in Seq(PipeInfo)
  BY <1>1, <1>2, CloseProperties
<1>8. sends => c \in Nat \ {0}
  <2>1. sends => out \in 1 .. Len(table)
    OBVIOUS
  <2>2. sends => table[out] \in PipeInfo
    BY <2>1
  <2> QED
    BY <2>2 DEF PipeInfo
<1>9. /\ left \in [Nat -> SUBSET Tag] /\ left[0] = {}
      /\ \A n \in Nat \ {0} : left[n] = a[n] /\ a[n] = From(table, n)
  BY <1>3
<1> HIDE DEF left
<1>10. Support(left) = AfterRead(OnItsWay(table))
  <2>1. left[0] = {} /\ \A n \in Nat \ {0} : left[n] = a[n]
    BY <1>9
  <2>2. Support(left) = [n \in DOMAIN Support(a) \ {0} |-> Support(a)[n]]
    BY <1>3, <1>9, <2>1, SupportRead
  <2> QED
    BY <1>3, <2>2 DEF AfterRead
<1> HIDE DEF t, c
<1>11. \A n \in Nat : From(t, n) = IF sends /\ n = c THEN left[n] \cup {tag} ELSE left[n]
  BY <1>5, <1>6, <1>8, <1>9
<1>12. ~sends => OnItsWay(t) = Support(left)
  BY <1>7, <1>9, <1>11, SentOnItsWay
<1>13. ASSUME sends PROVE OnItsWay(t) = WithMore(Support(left), c, left[c] \cup {tag})
  <2>1. c \in Nat /\ \A n \in Nat : From(t, n) = IF n = c THEN left[n] \cup {tag} ELSE left[n]
    BY <1>8, <1>11, <1>13
  <2> HIDE DEF sends
  <2> QED
    BY <1>7, <1>9, <2>1, SentOnItsWay
<1>14. sends => left[c] = From(table, c)
  BY <1>8, <1>9
<1> QED
  BY <1>2, <1>4, <1>10, <1>12, <1>13, <1>14 DEF t, u, c

\* A later one leaves what is due.
LEMMA LaterOnItsWay ==
  ASSUME NEW table \in Seq(PipeInfo), Distinct(table), NEW tag \in Tag,
         NEW out \in 0 .. Len(table), out # 0 => table[out].count # 0,
         NEW in \in 0 .. Len(table), in # 0 => table[in].count = -1
  PROVE  LET due == OnItsWay(table)
             t == Close(Write(table, out, tag), in)
             c == table[out].count
         IN  /\ ~(out # 0 /\ c > 0) => OnItsWay(t) = due
             /\ out # 0 /\ c > 0 => OnItsWay(t) = WithMore(due, c, From(table, c) \cup {tag})
<1> DEFINE u == Write(table, out, tag)
           t == Close(u, in)
           c == table[out].count
           sends == out # 0 /\ c > 0
           a == AllDue(table)
<1>1. /\ u \in Seq(PipeInfo) /\ Distinct(u) /\ Len(u) = Len(table)
      /\ \A j \in 1 .. Len(table) : u[j].count = table[j].count
  BY WriteProperties
<1>2. in \in 0 .. Len(u) /\ (in # 0 => u[in].count = -1)
  BY <1>1
<1>3. a \in [Nat -> SUBSET Tag] /\ OnItsWay(table) = Support(a)
      /\ \A n \in Nat : a[n] = From(table, n)
  BY OnItsWayIsSupport DEF AllDue
<1>5. \A n \in Nat : From(u, n) = IF sends /\ n = c THEN From(table, n) \cup {tag} ELSE From(table, n)
  BY WriteSends
<1> HIDE DEF u, a
<1>6. ASSUME NEW n \in Nat PROVE From(t, n) = From(u, n)
  <2>1. (in # 0 => u[in].count # n) /\ n \in Int
    BY <1>2
  <2> QED
    BY <1>1, <1>2, <2>1, ClosedFrom
<1>7. t \in Seq(PipeInfo)
  BY <1>1, <1>2, CloseProperties
<1>8. sends => c \in Nat
  <2>1. sends => out \in 1 .. Len(table)
    OBVIOUS
  <2>2. sends => table[out] \in PipeInfo
    BY <2>1
  <2> QED
    BY <2>2 DEF PipeInfo
<1> HIDE DEF t, c
<1>11. \A n \in Nat : From(t, n) = IF sends /\ n = c THEN a[n] \cup {tag} ELSE a[n]
  BY <1>3, <1>5, <1>6
<1>12. ~sends => OnItsWay(t) = Support(a)
  BY <1>3, <1>7, <1>11, SentOnItsWay
<1>13. ASSUME sends PROVE OnItsWay(t) = WithMore(Support(a), c, a[c] \cup {tag})
  <2>1. c \in Nat /\ \A n \in Nat : From(t, n) = IF n = c THEN a[n] \cup {tag} ELSE a[n]
    BY <1>8, <1>11, <1>13
  <2> HIDE DEF sends
  <2> QED
    BY <1>3, <1>7, <2>1, SentOnItsWay
<1> QED
  BY <1>3, <1>8, <1>12, <1>13 DEF t, u, c
=============================================================================
