------------------------- MODULE HttpServerTheorems -------------------------
(***************************************************************************)
(* Theorems about the HTTP server and the console it runs, for all hosts,  *)
(* scripts, queries, connections and requests.                             *)
(***************************************************************************)
EXTENDS HttpServer, MinTheorems, SequenceTheorems, TLAPS

(* What ParseReq makes of the line of a request, and of a part of it. *)

\* The first token of a kind.
LEMMA FindProperties ==
  ASSUME NEW T, NEW line \in Seq(T), NEW kind, NEW from \in Nat \ {0}
  PROVE  /\ Find(line, kind, from) \in 0 .. Len(line)
         /\ Find(line, kind, from) # 0 =>
              /\ from <= Find(line, kind, from)
              /\ line[Find(line, kind, from)].kind = kind
              /\ \A i \in from .. Find(line, kind, from) - 1 : line[i].kind # kind
         /\ Find(line, kind, from) = 0 =>
              \A i \in from .. Len(line) : line[i].kind # kind
<1> DEFINE I == {i \in from .. Len(line) : line[i].kind = kind}
<1>1. Find(line, kind, from) = IF I # {} THEN Min(I) ELSE 0
  BY DEF Find, SelectInSubSeq
<1>2. I \in SUBSET Nat /\ Len(line) \in Nat
  OBVIOUS
<1>3. I # {} => Min(I) \in I /\ \A m \in I : Min(I) <= m
  BY <1>2, MinOfNaturals
<1>4. CASE I = {}
  BY <1>1, <1>2, <1>4
<1>5. CASE I # {}
  <2> DEFINE k == Min(I)
  <2>1. Find(line, kind, from) = k /\ k \in I /\ \A m \in I : k <= m
    BY <1>1, <1>3, <1>5
  <2> HIDE DEF k
  <2>2. k \in from .. Len(line) /\ line[k].kind = kind /\ k # 0
    BY <2>1
  <2>3. \A i \in from .. k - 1 : line[i].kind # kind
    BY <1>2, <2>1, <2>2
  <2> QED
    BY <1>2, <2>1, <2>2, <2>3
<1> QED
  BY <1>4, <1>5

LEMMA FindAt ==
  ASSUME NEW T, NEW line \in Seq(T), NEW kind, NEW from \in Nat \ {0},
         NEW k \in from .. Len(line), line[k].kind = kind,
         \A i \in from .. k - 1 : line[i].kind # kind
  PROVE  Find(line, kind, from) = k
<1> DEFINE f == Find(line, kind, from)
<1>1. /\ f \in 0 .. Len(line)
      /\ f # 0 => from <= f /\ line[f].kind = kind /\ \A i \in from .. f - 1 : line[i].kind # kind
      /\ f = 0 => \A i \in from .. Len(line) : line[i].kind # kind
  BY FindProperties
<1> HIDE DEF f
<1>2. Len(line) \in Nat
  OBVIOUS
<1>3. f # 0
  BY <1>1, <1>2
<1>4. ~(f < k)
  BY <1>1, <1>2, <1>3
<1>5. ~(k < f)
  BY <1>1, <1>2, <1>3
<1>6. f = k
  BY <1>1, <1>2, <1>4, <1>5
<1> QED
  BY <1>6 DEF f

LEMMA FindNothing ==
  ASSUME NEW T, NEW line \in Seq(T), NEW kind, NEW from \in Nat \ {0},
         \A i \in from .. Len(line) : line[i].kind # kind
  PROVE  Find(line, kind, from) = 0
<1> DEFINE f == Find(line, kind, from)
<1>1. /\ f \in 0 .. Len(line)
      /\ f # 0 => from <= f /\ line[f].kind = kind
  BY FindProperties
<1> HIDE DEF f
<1>2. Len(line) \in Nat
  OBVIOUS
<1>3. f = 0
  BY <1>1, <1>2
<1> QED
  BY <1>3 DEF f

\* A part of a line.
LEMMA PartProperties ==
  ASSUME NEW T, NEW line \in Seq(T), NEW from \in Nat \ {0}, NEW to \in 0 .. Len(line)
  PROVE  /\ Between(line, from, to) \in Seq(T)
         /\ Between(line, from, to) # <<>> =>
              from \in 1 .. Len(line) /\ Between(line, from, to)[1] = line[from]
         /\ from <= Len(line) /\ to = from + 1 =>
              Len(Between(line, from, to)) = 1
<1> DEFINE end == IF to = 0 THEN Len(line) ELSE to - 1
<1>1. Len(line) \in Nat /\ end \in Int /\ end <= Len(line)
  OBVIOUS
<1>2. Between(line, from, to) = SubSeq(line, from, end)
  BY DEF Between
<1>3. to = from + 1 => end = from
  OBVIOUS
<1> HIDE DEF end
<1>4. \A i \in from .. end : line[i] \in T
  BY <1>1
<1>5. /\ SubSeq(line, from, end) \in Seq(T)
      /\ Len(SubSeq(line, from, end)) = IF from <= end THEN end - from + 1 ELSE 0
      /\ \A i \in 1 .. end - from + 1 : SubSeq(line, from, end)[i] = line[from + i - 1]
  BY <1>1, <1>4, SubSeqProperties, Z3
<1> DEFINE part == SubSeq(line, from, end)
<1> HIDE DEF part
<1>6. part # <<>> => Len(part) # 0
  BY <1>5 DEF part
<1>7. part # <<>> => from <= end /\ part[1] = line[from + 1 - 1]
  BY <1>1, <1>5, <1>6 DEF part
<1>8. from + 1 - 1 = from
  OBVIOUS
<1>9. part # <<>> => from \in 1 .. Len(line) /\ part[1] = line[from]
  BY <1>1, <1>7, <1>8
<1>10. to = from + 1 => Len(part) = 1
  BY <1>1, <1>3, <1>5 DEF part
<1> QED
  BY <1>2, <1>5, <1>9, <1>10 DEF part

LEMMA SubSeqElements ==
  ASSUME NEW S, NEW s \in Seq(S), NEW k \in 1 .. Len(s)
  PROVE  /\ SubSeq(s, 1, k) \in Seq(S) /\ Len(SubSeq(s, 1, k)) = k
         /\ SubSeq(s, k + 1, Len(s)) \in Seq(S)
         /\ Len(SubSeq(s, k + 1, Len(s))) = Len(s) - k
         /\ \A i \in 1 .. k : SubSeq(s, 1, k)[i] = s[i]
         /\ \A i \in 1 .. Len(s) - k : SubSeq(s, k + 1, Len(s))[i] = s[k + i]
<1>1. /\ Len(s) \in Nat /\ k \in Int /\ k + 1 \in Int /\ 1 \in Int
      /\ \A i \in 1 .. k : s[i] \in S
      /\ \A i \in k + 1 .. Len(s) : s[i] \in S
  OBVIOUS
<1>2. /\ SubSeq(s, 1, k) \in Seq(S) /\ Len(SubSeq(s, 1, k)) = IF 1 <= k THEN k - 1 + 1 ELSE 0
      /\ \A i \in 1 .. k - 1 + 1 : SubSeq(s, 1, k)[i] = s[1 + i - 1]
  BY <1>1, SubSeqProperties, Z3
<1>3. /\ SubSeq(s, k + 1, Len(s)) \in Seq(S)
      /\ Len(SubSeq(s, k + 1, Len(s)))
           = IF k + 1 <= Len(s) THEN Len(s) - (k + 1) + 1 ELSE 0
      /\ \A i \in 1 .. Len(s) - (k + 1) + 1 :
           SubSeq(s, k + 1, Len(s))[i] = s[k + 1 + i - 1]
  BY <1>1, SubSeqProperties, Z3
<1> QED
  BY <1>1, <1>2, <1>3

\* What is taken for the path and the query are words of the line.
Holds(line, r) ==
  \A i \in 1 .. Len(line) : /\ line[i].kind = "path" => line[i].value = r.path
                            /\ line[i].kind = "query" => line[i].value = r.query

LEMMA SearchTypes ==
  ASSUME NEW T, NEW line \in Seq(T)
  PROVE  /\ UriAt(line) \in Nat \ {0}
         /\ QueryAt(line) \in 0 .. Len(line)
         /\ \A kind : \A from \in Nat \ {0} : Find(line, kind, from) \in 0 .. Len(line)
<1>1. \A kind : \A from \in Nat \ {0} : Find(line, kind, from) \in 0 .. Len(line)
  BY FindProperties
<1>2. Find(line, " ", 1) \in 0 .. Len(line) /\ Len(line) \in Nat
  <2> DEFINE kind == " "
             from == 1
  <2>1. from \in Nat \ {0}
    OBVIOUS
  <2> HIDE DEF kind, from
  <2>2. Find(line, kind, from) \in 0 .. Len(line)
    BY <1>1, <2>1
  <2>3. Len(line) \in Nat
    OBVIOUS
  <2> QED
    BY <2>2, <2>3 DEF kind, from
<1> DEFINE blank == Find(line, " ", 1)
<1>3. UriAt(line) = blank + 1
  BY DEF UriAt
<1>5. blank \in 0 .. Len(line) /\ Len(line) \in Nat
  BY <1>2
<1> HIDE DEF blank
<1>4. UriAt(line) \in Nat \ {0}
  BY <1>3, <1>5
<1> DEFINE mark == "?"
<1>6. QueryAt(line) = Find(line, mark, UriAt(line))
  BY DEF QueryAt
<1> HIDE DEF mark
<1>7. QueryAt(line) \in 0 .. Len(line)
  BY <1>1, <1>4, <1>6
<1> QED
  BY <1>1, <1>4, <1>7

LEMMA WordProperties ==
  ASSUME NEW T, NEW line \in Seq(T), NEW r, Holds(line, r),
         NEW from \in Nat \ {0}, NEW to \in 0 .. Len(line)
  PROVE  /\ IsOnly(Between(line, from, to), "path") => Between(line, from, to)[1].value = r.path
         /\ IsOnly(Between(line, from, to), "query") => Between(line, from, to)[1].value = r.query
<1> DEFINE text == Between(line, from, to)
<1>1. text \in Seq(T) /\ (text # <<>> => from \in 1 .. Len(line) /\ text[1] = line[from])
  BY PartProperties
<1> HIDE DEF text
<1>0. Len(text) = 1 => text # <<>>
  <2>1. Len(<<>>) = 0
    OBVIOUS
  <2>2. \A n : n = 0 => n # 1
    OBVIOUS
  <2> QED
    BY <2>1, <2>2
<1>2. \A kind : IsOnly(text, kind) => text # <<>> /\ text[1].kind = kind
  BY <1>0 DEF IsOnly
<1>3. \A kind : IsOnly(text, kind) => from \in 1 .. Len(line) /\ text[1] = line[from]
  BY <1>1, <1>2
<1>4. IsOnly(text, "path") => text[1].value = r.path
  BY <1>2, <1>3 DEF Holds
<1>5. IsOnly(text, "query") => text[1].value = r.query
  BY <1>2, <1>3 DEF Holds
<1> QED
  BY <1>4, <1>5 DEF text

LEMMA ParsedTypes ==
  ASSUME NEW r \in Request, NEW T, NEW line \in Seq(T), Holds(line, r)
  PROVE  ParseReq(line) \in Request
<1> DEFINE end == IF QueryAt(line) # 0 THEN QueryAt(line) ELSE Find(line, " ", UriAt(line))
<1>1. /\ UriAt(line) \in Nat \ {0} /\ QueryAt(line) \in 0 .. Len(line)
      /\ QueryAt(line) + 1 \in Nat \ {0}
      /\ \A kind : \A from \in Nat \ {0} : Find(line, kind, from) \in 0 .. Len(line)
  BY SearchTypes
<1>2. end \in 0 .. Len(line)
  BY <1>1
<1>3. REQUEST_URI(line) = IF IsOnly(Between(line, UriAt(line), end), "path")
                          THEN Between(line, UriAt(line), end)[1].value ELSE "absent"
  BY DEF REQUEST_URI
<1> HIDE DEF end
<1>4. REQUEST_URI(line) \in {r.path, "absent"}
  BY <1>1, <1>2, <1>3, WordProperties
<1> DEFINE blank == Find(line, " ", QueryAt(line) + 1)
<1>5. blank \in 0 .. Len(line)
  BY <1>1
<1>6. GivenQuery(line) = IF Between(line, QueryAt(line) + 1, blank) = <<>> THEN NoQuery
                         ELSE IF IsOnly(Between(line, QueryAt(line) + 1, blank), "query")
                              THEN Between(line, QueryAt(line) + 1, blank)[1].value
                              ELSE BadQuery
  BY DEF GivenQuery
<1> HIDE DEF blank
<1>7. GivenQuery(line) \in {r.query, NoQuery, BadQuery}
  BY <1>1, <1>5, <1>6, WordProperties
<1>8. QUERY_STRING(line) \in {r.query, NoQuery, BadQuery}
  BY <1>7 DEF QUERY_STRING
<1>9. /\ r.path \in Path /\ "absent" \in Path
      /\ {r.query, NoQuery, BadQuery} \subseteq Query \cup {NoQuery, BadQuery}
  BY DEF Request, Path
<1> QED
  BY <1>4, <1>8, <1>9 DEF ParseReq, Request

\* The line of a request.
LEMMA TokenProperties ==
  ASSUME NEW kind, NEW value
  PROVE  Word(kind, value).kind = kind /\ Word(kind, value).value = value /\ Sign(kind).kind = kind
BY DEF Word, Sign

LEMMA PlainLine ==
  ASSUME NEW r, r.query = NoQuery
  PROVE  \E T : /\ RequestLine(r) \in Seq(T) /\ Len(RequestLine(r)) = 5
                /\ RequestLine(r)[1].kind = "method" /\ RequestLine(r)[2].kind = " "
                /\ RequestLine(r)[3].kind = "path" /\ RequestLine(r)[3].value = r.path
                /\ RequestLine(r)[4].kind = " " /\ RequestLine(r)[5].kind = "protocol"
<1> DEFINE m == Word("method", "GET")  b == Sign(" ")  p == Word("path", r.path)
           q == Word("protocol", "HTTP")
<1>1. /\ m.kind = "method" /\ b.kind = " " /\ p.kind = "path" /\ p.value = r.path
      /\ q.kind = "protocol"
  BY DEF Word, Sign
<1>2. RequestLine(r) = <<m, b, p, b, q>>
  BY DEF RequestLine
<1> HIDE DEF m, b, p, q
<1>3. RequestLine(r) \in Seq({m, b, p, q}) /\ Len(RequestLine(r)) = 5
  BY <1>2
<1>4. /\ RequestLine(r)[1] = m /\ RequestLine(r)[2] = b /\ RequestLine(r)[3] = p
      /\ RequestLine(r)[4] = b /\ RequestLine(r)[5] = q
  BY <1>2
<1> WITNESS {m, b, p, q}
<1> QED
  BY <1>1, <1>3, <1>4

LEMMA QueryLine ==
  ASSUME NEW r, r.query # NoQuery
  PROVE  \E T : /\ RequestLine(r) \in Seq(T) /\ Len(RequestLine(r)) = 7
                /\ RequestLine(r)[1].kind = "method" /\ RequestLine(r)[2].kind = " "
                /\ RequestLine(r)[3].kind = "path" /\ RequestLine(r)[3].value = r.path
                /\ RequestLine(r)[4].kind = "?"
                /\ RequestLine(r)[5].kind = "query" /\ RequestLine(r)[5].value = r.query
                /\ RequestLine(r)[6].kind = " " /\ RequestLine(r)[7].kind = "protocol"
<1> DEFINE m == Word("method", "GET")  b == Sign(" ")  p == Word("path", r.path)
           k == Sign("?")  s == Word("query", r.query)  q == Word("protocol", "HTTP")
<1>1. /\ m.kind = "method" /\ b.kind = " " /\ p.kind = "path" /\ p.value = r.path
      /\ k.kind = "?" /\ s.kind = "query" /\ s.value = r.query /\ q.kind = "protocol"
  BY DEF Word, Sign
<1>2. RequestLine(r) = <<m, b, p, k, s, b, q>>
  BY DEF RequestLine
<1> HIDE DEF m, b, p, k, s, q
<1>3. RequestLine(r) \in Seq({m, b, p, k, s, q}) /\ Len(RequestLine(r)) = 7
  BY <1>2
<1>4. /\ RequestLine(r)[1] = m /\ RequestLine(r)[2] = b /\ RequestLine(r)[3] = p
      /\ RequestLine(r)[4] = k /\ RequestLine(r)[5] = s /\ RequestLine(r)[6] = b
      /\ RequestLine(r)[7] = q
  BY <1>2
<1> WITNESS {m, b, p, k, s, q}
<1> QED
  BY <1>1, <1>3, <1>4

\* The line of a request says what the request is.
LEMMA LineHolds ==
  ASSUME NEW r
  PROVE  \E T : RequestLine(r) \in Seq(T) /\ Holds(RequestLine(r), r) /\ Len(RequestLine(r)) # 0
<1> DEFINE line == RequestLine(r)
<1>1. CASE r.query = NoQuery
  <2>1. PICK T : /\ line \in Seq(T) /\ Len(line) = 5
                 /\ line[1].kind = "method" /\ line[2].kind = " "
                 /\ line[3].kind = "path" /\ line[3].value = r.path
                 /\ line[4].kind = " " /\ line[5].kind = "protocol"
    BY <1>1, PlainLine
  <2> HIDE DEF line
  <2>2. \A i \in 1 .. 5 : i = 1 \/ i = 2 \/ i = 3 \/ i = 4 \/ i = 5
    OBVIOUS
  <2>3. Holds(line, r)
    BY <2>1, <2>2 DEF Holds
  <2>4. Len(line) # 0
    <3>0. Len(line) = 5
      BY <2>1, Zenon
    <3>1. Len(line) \in 5 .. 7
      BY <3>0
    <3>2. \A n \in 5 .. 7 : n # 0
      OBVIOUS
    <3> QED
      BY <3>1, <3>2
  <2>5. line \in Seq(T) /\ Holds(line, r) /\ Len(line) # 0
    BY <2>1, <2>3, <2>4
  <2> QED
    BY <2>5 DEF line
<1>2. CASE r.query # NoQuery
  <2>1. PICK T : /\ line \in Seq(T) /\ Len(line) = 7
                 /\ line[1].kind = "method" /\ line[2].kind = " "
                 /\ line[3].kind = "path" /\ line[3].value = r.path /\ line[4].kind = "?"
                 /\ line[5].kind = "query" /\ line[5].value = r.query
                 /\ line[6].kind = " " /\ line[7].kind = "protocol"
    BY <1>2, QueryLine
  <2> HIDE DEF line
  <2>2. \A i \in 1 .. 7 : i = 1 \/ i = 2 \/ i = 3 \/ i = 4 \/ i = 5 \/ i = 6 \/ i = 7
    OBVIOUS
  <2>3. Holds(line, r)
    BY <2>1, <2>2 DEF Holds
  <2>4. Len(line) # 0
    <3>0. Len(line) = 7
      BY <2>1, Zenon
    <3>1. Len(line) \in 5 .. 7
      BY <3>0
    <3>2. \A n \in 5 .. 7 : n # 0
      OBVIOUS
    <3> QED
      BY <3>1, <3>2
  <2>5. line \in Seq(T) /\ Holds(line, r) /\ Len(line) # 0
    BY <2>1, <2>3, <2>4
  <2> QED
    BY <2>5 DEF line
<1> QED
  BY <1>1, <1>2

LEMMA ComeHolds ==
  ASSUME NEW T, NEW line \in Seq(T), NEW r, Holds(line, r),
         NEW n \in 1 .. Len(line), NEW whole \in BOOLEAN
  PROVE  \E U : Come(line, n, whole) \in Seq(U) /\ Holds(Come(line, n, whole), r)
<1>1. Len(line) \in Nat /\ \A i \in 1 .. Len(line) : line[i] \in T
  OBVIOUS
<1>2. CASE whole
  <2> DEFINE part == SubSeq(line, 1, n)
  <2>1. part \in Seq(T) /\ Len(part) = n /\ \A i \in 1 .. n : part[i] = line[i]
    BY SubSeqElements
  <2> HIDE DEF part
  <2>2. Holds(part, r)
    BY <1>1, <2>1 DEF Holds
  <2>3. Come(line, n, whole) = part
    BY <1>2 DEF Come, part
  <2> QED
    BY <2>1, <2>2, <2>3
<1>3. CASE ~whole
  <2> DEFINE part == SubSeq(line, 1, n - 1)
             cut == Word("part", "")
  <2>1. \A i \in 1 .. n - 1 : line[i] \in T
    BY <1>1
  <2>2. /\ part \in Seq(T) /\ Len(part) = IF 1 <= n - 1 THEN n - 1 - 1 + 1 ELSE 0
        /\ \A i \in 1 .. n - 1 - 1 + 1 : part[i] = line[1 + i - 1]
    BY <2>1, SubSeqProperties, Z3
  <2>3. Come(line, n, whole) = Append(part, cut) /\ cut.kind = "part"
    BY <1>3, TokenProperties DEF Come
  <2> HIDE DEF part, cut
  <2>4. part \in Seq(T) /\ Len(part) = n - 1 /\ \A i \in 1 .. n - 1 : part[i] = line[i]
    BY <2>2
  <2>5. part \in Seq(T \cup {cut})
    BY <2>4, SeqMonotonic
  <2> DEFINE all == Append(part, cut)
  <2>6. /\ all \in Seq(T \cup {cut}) /\ Len(all) = n
        /\ \A i \in 1 .. n : all[i] = IF i = n THEN cut ELSE part[i]
    BY <2>4, <2>5
  <2> HIDE DEF all
  <2>7. \A i \in 1 .. n : all[i].kind = "part" \/ (all[i] = line[i] /\ i \in 1 .. Len(line))
    BY <1>1, <2>3, <2>4, <2>6
  <2>8. Holds(all, r)
    BY <2>6, <2>7 DEF Holds
  <2> QED
    BY <2>3, <2>6, <2>8 DEF all
<1> QED
  BY <1>2, <1>3

\* A part of one word.
LEMMA OneWord ==
  ASSUME NEW T, NEW line \in Seq(T), NEW from \in 1 .. Len(line), NEW to \in 0 .. Len(line),
         to = from + 1
  PROVE  /\ Len(Between(line, from, to)) = 1 /\ Between(line, from, to) # <<>>
         /\ Between(line, from, to)[1] = line[from]
<1> DEFINE text == Between(line, from, to)
<1>1. from \in Nat \ {0} /\ from <= Len(line)
  OBVIOUS
<1>2. (text # <<>> => text[1] = line[from]) /\ Len(text) = 1
  BY <1>1, PartProperties
<1> HIDE DEF text
<1>3. text # <<>>
  <2>1. Len(<<>>) = 0
    OBVIOUS
  <2>2. \A n : n = 0 => n # 1
    OBVIOUS
  <2> QED
    BY <1>2, <2>1, <2>2
<1> QED
  BY <1>2, <1>3 DEF text

LEMMA Positions ==
  /\ \A i \in 1 .. 2 - 1 : i = 1
  /\ \A i \in 3 .. 4 - 1 : i = 3
  /\ 1 \in Nat \ {0} /\ 3 \in Nat \ {0} /\ 4 = 3 + 1 /\ 2 + 1 = 3
  /\ \A n \in 5 .. 7 : /\ 2 \in 1 .. n /\ 4 \in 3 .. n /\ 4 \in 0 .. n
                       /\ 3 \in 1 .. n /\ 3 <= n
OBVIOUS

\* The first tokens of a line whose fourth one is a sign after the path.
LEMMA UriProperties ==
  ASSUME NEW T, NEW line \in Seq(T), Len(line) \in 5 .. 7,
         line[1].kind = "method", line[2].kind = " ", line[3].kind = "path",
         line[4].kind \in {" ", "?"}
  PROVE  /\ UriAt(line) = 3
         /\ \A kind \in {" ", "?"} : line[4].kind = kind => Find(line, kind, 3) = 4
         /\ IsOnly(Between(line, 3, 4), "path") /\ Between(line, 3, 4)[1] = line[3]
<1>1. /\ 1 \in Nat \ {0} /\ 3 \in Nat \ {0} /\ 2 \in 1 .. Len(line) /\ 4 \in 3 .. Len(line)
      /\ 4 \in 0 .. Len(line) /\ 3 \in 1 .. Len(line) /\ 3 <= Len(line) /\ 4 = 3 + 1
  BY Positions
<1>2. \A i \in 1 .. 2 - 1 : i = 1
  BY Positions
<1>3. \A i \in 3 .. 4 - 1 : i = 3
  BY Positions
<1>4. Find(line, " ", 1) = 2
  <2> DEFINE blank == " "
             k == 2
             from == 1
  <2>1. line[k].kind = blank /\ \A i \in from .. k - 1 : line[i].kind # blank
    BY <1>2
  <2>2. from \in Nat \ {0} /\ k \in from .. Len(line)
    BY <1>1
  <2> HIDE DEF blank, k, from
  <2>3. Find(line, blank, from) = k
    BY <2>1, <2>2, FindAt
  <2> QED
    BY <2>3 DEF blank, k, from
<1>5. UriAt(line) = 3
  BY <1>4, Positions DEF UriAt
<1>6. ASSUME NEW kind \in {" ", "?"}, line[4].kind = kind PROVE Find(line, kind, 3) = 4
  <2> DEFINE k == 4
             from == 3
  <2>1. line[k].kind = kind /\ \A i \in from .. k - 1 : line[i].kind # kind
    BY <1>3, <1>6
  <2>2. from \in Nat \ {0} /\ k \in from .. Len(line)
    BY <1>1
  <2> HIDE DEF k, from
  <2>3. Find(line, kind, from) = k
    BY <2>1, <2>2, FindAt
  <2> QED
    BY <2>3 DEF k, from
<1>7. Len(Between(line, 3, 4)) = 1 /\ Between(line, 3, 4)[1] = line[3]
  <2> DEFINE from == 3
             to == 4
  <2>1. from \in 1 .. Len(line) /\ to \in 0 .. Len(line) /\ to = from + 1
    BY <1>1
  <2> HIDE DEF from, to
  <2>2. Len(Between(line, from, to)) = 1 /\ Between(line, from, to)[1] = line[from]
    BY <2>1, OneWord
  <2> QED
    BY <2>2 DEF from, to
<1> QED
  BY <1>5, <1>6, <1>7 DEF IsOnly

\* A line without a question mark.
LEMMA PlainProperties ==
  ASSUME NEW r, r.query = NoQuery
  PROVE  REQUEST_URI(RequestLine(r)) = r.path /\ QUERY_STRING(RequestLine(r)) = NoQuery
<1> DEFINE line == RequestLine(r)
<1>1. PICK T : /\ line \in Seq(T) /\ Len(line) = 5
               /\ line[1].kind = "method" /\ line[2].kind = " "
               /\ line[3].kind = "path" /\ line[3].value = r.path
               /\ line[4].kind = " " /\ line[5].kind = "protocol"
  BY PlainLine
<1> HIDE DEF line
<1>2. Len(line) = 5
  BY <1>1, Zenon
<1>3. Len(line) \in 5 .. 7
  BY <1>2
<1>4. /\ UriAt(line) = 3
      /\ \A kind \in {" ", "?"} : line[4].kind = kind => Find(line, kind, 3) = 4
      /\ IsOnly(Between(line, 3, 4), "path") /\ Between(line, 3, 4)[1] = line[3]
  BY <1>1, <1>3, UriProperties
<1>5. Find(line, " ", 3) = 4
  BY <1>1, <1>4
<1>6. Find(line, "?", 3) = 0
  <2> DEFINE mark == "?"
             from == 3
  <2>1. \A i \in 3 .. 5 : i = 3 \/ i = 4 \/ i = 5
    OBVIOUS
  <2>2. line[3].kind # "?" /\ line[4].kind # "?" /\ line[5].kind # "?"
    BY <1>1
  <2>3. \A i \in from .. Len(line) : line[i].kind # mark
    BY <1>2, <2>1, <2>2
  <2>4. from \in Nat \ {0}
    OBVIOUS
  <2> HIDE DEF mark, from
  <2>5. Find(line, mark, from) = 0
    BY <1>1, <2>3, <2>4, FindNothing
  <2> QED
    BY <2>5 DEF mark, from
<1>7. QueryAt(line) = 0
  BY <1>4, <1>6 DEF QueryAt
<1>8. REQUEST_URI(line) = r.path
  BY <1>1, <1>4, <1>5, <1>7 DEF REQUEST_URI
<1>9. QUERY_STRING(line) = NoQuery
  BY <1>7 DEF QUERY_STRING
<1> QED
  BY <1>8, <1>9 DEF line

\* A line with a query.
LEMMA QueryProperties ==
  ASSUME NEW r, r.query # NoQuery
  PROVE  REQUEST_URI(RequestLine(r)) = r.path /\ QUERY_STRING(RequestLine(r)) = r.query
<1> DEFINE line == RequestLine(r)
<1>1. PICK T : /\ line \in Seq(T) /\ Len(line) = 7
               /\ line[1].kind = "method" /\ line[2].kind = " "
               /\ line[3].kind = "path" /\ line[3].value = r.path /\ line[4].kind = "?"
               /\ line[5].kind = "query" /\ line[5].value = r.query
               /\ line[6].kind = " " /\ line[7].kind = "protocol"
  BY QueryLine
<1> HIDE DEF line
<1>2. Len(line) = 7
  BY <1>1, Zenon
<1>3. Len(line) \in 5 .. 7
  BY <1>2
<1>4. /\ UriAt(line) = 3
      /\ \A kind \in {" ", "?"} : line[4].kind = kind => Find(line, kind, 3) = 4
      /\ IsOnly(Between(line, 3, 4), "path") /\ Between(line, 3, 4)[1] = line[3]
  BY <1>1, <1>3, UriProperties
<1>5. Find(line, "?", 3) = 4
  BY <1>1, <1>4
<1>6. QueryAt(line) = 4
  BY <1>4, <1>5 DEF QueryAt
<1>7. QueryAt(line) # 0 /\ QueryAt(line) + 1 = 5
  BY <1>6
<1>8. REQUEST_URI(line) = r.path
  BY <1>1, <1>4, <1>6, <1>7 DEF REQUEST_URI
<1>9. Find(line, " ", 5) = 6
  <2> DEFINE blank == " "
             k == 6
             from == 5
  <2>1. \A i \in 5 .. 6 - 1 : i = 5
    OBVIOUS
  <2>2. line[k].kind = blank /\ \A i \in from .. k - 1 : line[i].kind # blank
    BY <1>1, <2>1
  <2>3. from \in Nat \ {0} /\ k \in from .. Len(line)
    BY <1>2
  <2> HIDE DEF blank, k, from
  <2>4. Find(line, blank, from) = k
    BY <1>1, <2>2, <2>3, FindAt
  <2> QED
    BY <2>4 DEF blank, k, from
<1>10. /\ Len(Between(line, 5, 6)) = 1 /\ Between(line, 5, 6)[1] = line[5]
       /\ Between(line, 5, 6) # <<>>
  <2> DEFINE from == 5
             to == 6
  <2>1. from \in 1 .. Len(line) /\ to \in 0 .. Len(line) /\ to = from + 1
    BY <1>2
  <2> HIDE DEF from, to
  <2>2. /\ Len(Between(line, from, to)) = 1 /\ Between(line, from, to)[1] = line[from]
        /\ Between(line, from, to) # <<>>
    BY <1>1, <2>1, OneWord
  <2> QED
    BY <2>2 DEF from, to
<1>11. GivenQuery(line) = r.query
  BY <1>1, <1>7, <1>9, <1>10 DEF GivenQuery, IsOnly
<1>12. QUERY_STRING(line) = r.query
  BY <1>7, <1>11 DEF QUERY_STRING
<1> QED
  BY <1>8, <1>12 DEF line

\* A request that has come whole is parsed into what it is.
LEMMA ParsesWhole ==
  ASSUME NEW r \in Request
  PROVE  ParseReq(Come(RequestLine(r), Len(RequestLine(r)), TRUE)) = r
<1>1. PICK T : RequestLine(r) \in Seq(T)
  BY LineHolds
<1>2. Come(RequestLine(r), Len(RequestLine(r)), TRUE) = RequestLine(r)
  BY <1>1, SubSeqFull DEF Come
<1>3. REQUEST_URI(RequestLine(r)) = r.path /\ QUERY_STRING(RequestLine(r)) = r.query
  BY PlainProperties, QueryProperties
<1>4. r = [path |-> r.path, query |-> r.query]
  BY DEF Request
<1> QED
  BY <1>2, <1>3, <1>4 DEF ParseReq

\* Whatever has come is taken for a request.
LEMMA ParsesPart ==
  ASSUME NEW r \in Request, NEW n \in 1 .. Len(RequestLine(r)), NEW whole \in BOOLEAN
  PROVE  ParseReq(Come(RequestLine(r), n, whole)) \in Request
<1>1. PICK T : RequestLine(r) \in Seq(T) /\ Holds(RequestLine(r), r)
  BY LineHolds
<1> DEFINE come == Come(RequestLine(r), n, whole)
<1>2. PICK U : come \in Seq(U) /\ Holds(come, r)
  BY <1>1, ComeHolds
<1> QED
  BY <1>2, ParsedTypes

-----------------------------------------------------------------------------
(* Types. *)

\* Each step of a console keeps the types of its variables.
LEMMA StartTypes ==
  ASSUME ConsoleTypeOK, NEW query \in Query, Start(query)
  PROVE  ConsoleTypeOK'
<1>1. \A h \in Hosts : query[h] # NoScript => query[h] \in Seq(Line)
  BY ConsoleAssumption
<1>2. left' \in [Hosts -> Seq(Line)]
  BY <1>1 DEF Start
<1>3. <<>> \in Seq(Line \cup {Blank}) /\ <<>> \in Seq(Piece)
  OBVIOUS
<1>4. /\ lines' \in [Hosts -> Seq(Line \cup {Blank})] /\ wire' \in [Hosts -> Seq(Piece)]
      /\ typing' \in [Hosts -> Line \cup {Blank}]
  BY <1>3 DEF Start
<1>5. \A h \in Hosts : client'[h] \in {"connect", "reply", "read"} => used'[h]
  BY DEF Start
<1>6. client' \in [Hosts -> {"connect", "reply", "read", "write", "over"}]
  BY DEF Start
<1>7. version' \in {3, 4} /\ used' \in [Hosts -> BOOLEAN] /\ browser' \in BOOLEAN
  BY DEF Start, ConsoleTypeOK
<1>8. /\ shell' \in [Hosts -> {"greet", "prompt", "gone"}] /\ marked' = {} /\ torn' = {}
      /\ played' \in [Hosts -> Nat]
  BY DEF Start
<1> QED
  BY <1>2, <1>4, <1>5, <1>6, <1>7, <1>8 DEF ConsoleTypeOK

LEMMA StopsTypes ==
  ASSUME ConsoleTypeOK, NEW h \in Hosts, Stops(h),
         UNCHANGED <<version, lines, shell, marked, browser, torn>>,
         played' = played,
         wire' \in [Hosts -> Seq(Piece)]
  PROVE  ConsoleTypeOK'
<1>1. <<>> \in Seq(Line)
  OBVIOUS
<1> QED
  BY <1>1 DEF Stops, Go, ConsoleTypeOK

LEMMA WriteTypes ==
  ASSUME ConsoleTypeOK, NEW h \in Hosts, do_write(h)
  PROVE  /\ client' \in [Hosts -> {"connect", "reply", "read", "write", "over"}]
         /\ used' \in [Hosts -> BOOLEAN]
         /\ left' \in [Hosts -> Seq(Line)]
         /\ typing' \in [Hosts -> Line \cup {Blank}]
         /\ \A g \in Hosts : client'[g] \in {"connect", "reply", "read"} => used'[g]
<1> DEFINE line == IF left[h] = <<>> THEN Blank ELSE Head(left[h])
           last == line \in {"exit", "exitish"}
           rest == IF last \/ left[h] = <<>> THEN <<>> ELSE Tail(left[h])
<1>1. /\ typing' = [typing EXCEPT ![h] = line]
      /\ left' = [left EXCEPT ![h] = rest]
      /\ used' = [used EXCEPT ![h] = used[h] /\ ~last]
      /\ client' = [client EXCEPT ![h] = "write"]
  BY DEF do_write, Go
<1>2. left[h] \in Seq(Line)
  BY DEF ConsoleTypeOK
<1>3. left[h] # <<>> => Head(left[h]) \in Line /\ Tail(left[h]) \in Seq(Line)
  BY <1>2, HeadTailProperties
<1>4. line \in Line \cup {Blank} /\ rest \in Seq(Line)
  BY <1>2, <1>3
<1>5. last \in BOOLEAN
  OBVIOUS
<1> HIDE DEF line, last, rest
<1> QED
  BY <1>1, <1>4, <1>5 DEF ConsoleTypeOK

LEMMA ClientTypes ==
  ASSUME ConsoleTypeOK, NEW h \in Hosts, Client(h)
  PROVE  ConsoleTypeOK'
<1> USE DEF remote, script
<1>0. wire[h] \in Seq(Piece) /\ <<>> \in Seq(Line)
  BY DEF ConsoleTypeOK
<1>1. CASE Connect(h)
  BY <1>1 DEF Connect, Go, ConsoleTypeOK
<1>2. CASE ConnectFails(h)
  BY <1>2, StopsTypes DEF ConnectFails, ConsoleTypeOK
<1>3. CASE Reply(h)
  <2>1. Tail(wire[h]) \in Seq(Piece)
    BY <1>0, <1>3, HeadTailProperties DEF Reply
  <2>2. wire' \in [Hosts -> Seq(Piece)]
    BY <1>3, <2>1 DEF Reply, ConsoleTypeOK
  <2> QED
    BY <1>3, <2>2, StopsTypes DEF Reply
<1>4. CASE Read(h)
  <2>1. PICK k \in 1 .. Len(wire[h]) :
          /\ wire' = [wire EXCEPT ![h] = SubSeq(wire[h], k + 1, Len(wire[h]))]
          /\ torn' \in {torn, torn \cup {h}}
          /\ do_write(h) \/ UNCHANGED script
    BY <1>4 DEF Read
  <2>2. SubSeq(wire[h], k + 1, Len(wire[h])) \in Seq(Piece)
    BY <1>0, <2>1, SubSeqElements
  <2>3. wire' \in [Hosts -> Seq(Piece)]
    BY <2>1, <2>2 DEF ConsoleTypeOK
  <2>4. UNCHANGED <<version, lines, shell, marked, played, browser>>
    BY <1>4 DEF Read
  <2>5. CASE do_write(h)
    BY <2>1, <2>3, <2>4, <2>5, WriteTypes DEF ConsoleTypeOK
  <2>6. CASE UNCHANGED script
    BY <2>1, <2>3, <2>4, <2>6 DEF ConsoleTypeOK
  <2> QED
    BY <2>1, <2>5, <2>6
<1>5. CASE Written(h)
  <2>1. typing[h] \in Line \cup {Blank} /\ lines[h] \in Seq(Line \cup {Blank})
    BY DEF ConsoleTypeOK
  <2>2. Append(lines[h], typing[h]) \in Seq(Line \cup {Blank})
    BY <2>1
  <2>3. lines' \in [Hosts -> Seq(Line \cup {Blank})]
    BY <1>5, <2>2 DEF Written, ConsoleTypeOK
  <2> QED
    BY <1>5, <2>3 DEF Written, Go, Onward, ConsoleTypeOK
<1>6. CASE Fails(h)
  BY <1>6, StopsTypes DEF Fails, ConsoleTypeOK
<1>7. CASE Killed(h)
  BY <1>0, <1>7 DEF Killed, ConsoleTypeOK
<1> QED
  BY <1>1, <1>2, <1>3, <1>4, <1>5, <1>6, <1>7 DEF Client

LEMMA ShellTypes ==
  ASSUME ConsoleTypeOK, NEW h \in Hosts, Shell(h)
  PROVE  ConsoleTypeOK'
<1> USE DEF script
<1>1. wire[h] \in Seq(Piece) /\ lines[h] \in Seq(Line \cup {Blank}) /\ <<>> \in Seq(Piece)
  BY DEF ConsoleTypeOK
<1>2. {Prompt, Text, Mark} \subseteq Seq(Piece)
  BY DEF Prompt, Text, Mark, Piece
<1>3. ASSUME NEW output \in Seq(Piece), Says(h, output)
      PROVE  wire' \in [Hosts -> Seq(Piece)]
  <2>1. wire[h] \o output \in Seq(Piece)
    BY <1>1
  <2> QED
    BY <1>3, <2>1 DEF Says, ConsoleTypeOK
<1>4. CASE Greet(h)
  <2>1. wire' \in [Hosts -> Seq(Piece)]
    BY <1>2, <1>3, <1>4 DEF Greet
  <2> QED
    BY <1>4, <2>1 DEF Greet, ConsoleTypeOK
<1>5. CASE RunLine(h)
  <2>1. Tail(lines[h]) \in Seq(Line \cup {Blank})
    BY <1>1, <1>5, HeadTailProperties DEF RunLine
  <2>2. lines' \in [Hosts -> Seq(Line \cup {Blank})]
    BY <1>5, <2>1 DEF RunLine, ConsoleTypeOK
  <2>6. played' \in [Hosts -> Nat]
    <3>1. played' = [played EXCEPT ![h] = IF Head(lines[h]) = Blank THEN @ ELSE @ + 1]
      BY <1>5 DEF RunLine
    <3>2. played[h] \in Nat /\ played[h] + 1 \in Nat
      BY DEF ConsoleTypeOK
    <3> QED
      BY <3>1, <3>2 DEF ConsoleTypeOK
  <2>3. \A line : Output(line) \subseteq Seq(Piece)
    BY <1>2 DEF Output
  <2>4. CASE Head(lines[h]) = "exit"
    BY <1>5, <2>2, <2>4, <2>6 DEF RunLine, ConsoleTypeOK
  <2>5. CASE Head(lines[h]) # "exit"
    <3>1. PICK output \in Output(Head(lines[h])) :
            /\ Says(h, output)
            /\ marked' \in {marked, marked \cup {h}} /\ UNCHANGED shell
      BY <1>5, <2>5 DEF RunLine
    <3>2. wire' \in [Hosts -> Seq(Piece)]
      BY <1>3, <2>3, <3>1
    <3>3. UNCHANGED <<version, script, browser, torn>>
      BY <1>5 DEF RunLine
    <3> QED
      BY <2>2, <2>6, <3>1, <3>2, <3>3 DEF ConsoleTypeOK
  <2> QED
    BY <2>4, <2>5
<1>6. CASE HangUp(h)
  BY <1>1, <1>6 DEF HangUp, ConsoleTypeOK
<1> QED
  BY <1>4, <1>5, <1>6 DEF Shell

\* Only a request starts a console.
LEMMA StaysEnded ==
  ASSUME ConsoleTypeOK, NEW h \in Hosts, Client(h) \/ Shell(h), Ended
  PROVE  UNCHANGED client
BY DEF Ended, Client, Shell, Connect, ConnectFails, Reply, Read, Written, Fails, Killed,
       Greet, RunLine, HangUp, script

-----------------------------------------------------------------------------
\* Every variable has its type; one program runs at a time, and a console only
\* as that program.
THEOREM TypeCorrect == Spec => []TypeOK
<1> USE HttpServerAssumption
<1>0. Nothing \in Request /\ Asked \subseteq Request
  BY DEF Nothing, Request, Path
<1>1. Init => TypeOK
  <2> SUFFICES ASSUME Init PROVE TypeOK
    OBVIOUS
  <2>1. ConsoleTypeOK /\ Ended
    <3>1. <<>> \in Seq(Line) /\ <<>> \in Seq(Line \cup {Blank}) /\ <<>> \in Seq(Piece)
      OBVIOUS
    <3> QED
      BY <3>1 DEF Init, ConsoleInit, ConsoleTypeOK, Ended
  <2> QED
    BY <1>0, <2>1 DEF Init, TypeOK, Running
<1>2. TypeOK /\ [Next]_vars => TypeOK'
  <2> SUFFICES ASSUME TypeOK, [Next]_vars
               PROVE  TypeOK'
    OBVIOUS
  <2> USE DEF server, httpVars
  <2>c. ASSUME UNCHANGED consoleVars PROVE ConsoleTypeOK' /\ (Ended' <=> Ended)
    BY <2>c DEF consoleVars, script, remote, TypeOK, ConsoleTypeOK, Ended
  <2>1. ASSUME NEW c \in Conns, Dial(c) PROVE TypeOK'
    BY <2>1, <2>c DEF Dial, TypeOK, Running
  <2>2. ASSUME NEW c \in Conns, Arrive(c) PROVE TypeOK'
    BY <2>2, <2>c DEF Arrive, TypeOK, Running
  <2>3. ASSUME NEW c \in Conns, Drop(c) PROVE TypeOK'
    BY <2>3, <2>c DEF Drop, TypeOK, Running, Waits
  <2>4. ASSUME NEW c \in Conns, Accept(c) PROVE TypeOK'
    BY <2>4, <2>c DEF Accept, TypeOK, Running, Waits
  <2>5. ASSUME NEW c \in Conns, Handle(c) PROVE TypeOK'
    <3>1. request[c] \in Request
      BY <1>0 DEF TypeOK
    <3>2. PICK r \in Request : req' = r /\ env' = r /\ Run(r)
      BY <2>5, <3>1, ParsesPart DEF Handle
    <3>3. Running' = {c}
      BY <2>5 DEF Handle, Running, Waits, TypeOK
    <3>4. Running = {} /\ Ended
      BY <2>5 DEF Handle, Waits, TypeOK
    <3>5. UNCHANGED consoleVars
            \/ (r.path = "console" /\ \E query \in Query : Start(query))
      BY <3>2 DEF Run, NoConsole, Named
    <3> QED
      BY <2>5, <2>c, <3>2, <3>3, <3>4, <3>5, StartTypes DEF Handle, TypeOK
  <2>6. CASE Reaped
    BY <2>6, <2>c DEF Reaped, TypeOK, Running
  <2>7. ASSUME NEW h \in Hosts, Program(h) PROVE TypeOK'
    <3>1. ConsoleTypeOK'
      BY <2>7, ClientTypes, ShellTypes DEF Program, TypeOK
    <3>2. Ended => Ended'
      BY <2>7, StaysEnded DEF Program, TypeOK, Ended
    <3> QED
      BY <2>7, <3>1, <3>2 DEF Program, TypeOK, Running
  <2>8. CASE BrowserLeaves /\ UNCHANGED httpVars
    BY <2>8 DEF BrowserLeaves, script, remote, TypeOK, ConsoleTypeOK, Ended, Running
  <2>9. CASE UNCHANGED vars
    BY <2>9, <2>c DEF vars, TypeOK, Running
  <2> QED
    BY <2>1, <2>2, <2>3, <2>4, <2>5, <2>6, <2>7, <2>8, <2>9 DEF Next, Server
<1> QED
  BY <1>1, <1>2, PTL DEF Spec

-----------------------------------------------------------------------------
(* Scripts. *)

\* Of a script s a shell has read p lines, w is on its way, and rest is left.
Ends(line) == line \in {"exit", "exitish"}
SoFar(s, p, w) ==
  /\ \A i \in 1 .. Len(w) : w[i] = LineOf(s, p + i)
  /\ \A n \in 1 .. p + Len(w) - 1 : ~Ends(LineOf(s, n))
ToCome(s, p, w, rest) ==
  /\ \A n \in Nat \ {0} : LineOf(rest, n) = LineOf(s, p + Len(w) + n)
  /\ \A n \in 1 .. p + Len(w) : ~Ends(LineOf(s, n))

LEMMA LineProperties ==
  ASSUME NEW s \in Seq(Line)
  PROVE  /\ Len(s) \in Nat
         /\ \A n \in 1 .. Len(s) : LineOf(s, n) = s[n] /\ LineOf(s, n) \in Line
         /\ \A n \in Nat \ {0} : LineOf(s, n) = Blank <=> n > Len(s)
<1>1. Len(s) \in Nat /\ \A n \in 1 .. Len(s) : s[n] \in Line
  OBVIOUS
<1>2. Blank \notin Line
  BY DEF Blank, Line
<1>3. \A n \in 1 .. Len(s) : LineOf(s, n) = s[n] /\ LineOf(s, n) \in Line
  BY <1>1 DEF LineOf
<1>4. ASSUME NEW n \in Nat \ {0} PROVE LineOf(s, n) = Blank <=> n > Len(s)
  <2>1. CASE n > Len(s)
    BY <1>1, <2>1 DEF LineOf
  <2>2. CASE ~(n > Len(s))
    <3>1. n \in 1 .. Len(s)
      BY <1>1, <2>2
    <3> QED
      BY <1>2, <1>3, <2>2, <3>1
  <2> QED
    BY <2>1, <2>2
<1> QED
  BY <1>1, <1>3, <1>4

\* A line more is written: the first of the rest.
LEMMA WritesNext ==
  ASSUME NEW s \in Seq(Line), NEW p \in Nat, NEW w \in Seq(Line \cup {Blank}),
         NEW rest \in Seq(Line), NEW line \in Line \cup {Blank},
         SoFar(s, p, w), ToCome(s, p, w, rest), line = LineOf(rest, 1)
  PROVE  /\ SoFar(s, p, Append(w, line))
         /\ ~Ends(line) =>
              ToCome(s, p, Append(w, line), IF rest = <<>> THEN <<>> ELSE Tail(rest))
<1> DEFINE more == Append(w, line)
           k == Len(w)
           others == IF rest = <<>> THEN <<>> ELSE Tail(rest)
<1>1. /\ k \in Nat /\ Len(more) = k + 1 /\ more[k + 1] = line
      /\ \A i \in 1 .. k : more[i] = w[i]
  OBVIOUS
<1>2. line = LineOf(s, p + k + 1)
  <2>1. 1 \in Nat \ {0}
    OBVIOUS
  <2> QED
    BY <2>1 DEF ToCome
<1>3. /\ \A i \in 1 .. k : w[i] = LineOf(s, p + i)
      /\ \A n \in Nat \ {0} : LineOf(rest, n) = LineOf(s, p + k + n)
      /\ \A n \in 1 .. p + k : ~Ends(LineOf(s, n))
  BY DEF SoFar, ToCome
<1>4. \A n \in Nat \ {0} : LineOf(others, n) = LineOf(rest, n + 1)
  <2>1. CASE rest = <<>>
    <3>1. Len(rest) = 0
      BY <2>1
    <3>2. \A n \in Nat \ {0} : ~(n <= 0) /\ ~(n + 1 <= 0)
      OBVIOUS
    <3> QED
      BY <2>1, <3>1, <3>2 DEF LineOf
  <2>2. CASE rest # <<>>
    <3>1. /\ others = Tail(rest) /\ others \in Seq(Line) /\ Len(others) = Len(rest) - 1
          /\ \A i \in 1 .. Len(others) : others[i] = rest[i + 1]
      BY <2>2, HeadTailProperties
    <3> HIDE DEF others
    <3>2. Len(rest) \in Nat
      OBVIOUS
    <3>3. ASSUME NEW n \in Nat \ {0} PROVE LineOf(others, n) = LineOf(rest, n + 1)
      <4>1. n <= Len(others) <=> n + 1 <= Len(rest)
        BY <3>1, <3>2
      <4>2. n <= Len(others) => others[n] = rest[n + 1]
        BY <3>1, <3>2
      <4> QED
        BY <4>1, <4>2 DEF LineOf
    <3> QED
      BY <3>3
  <2> QED
    BY <2>1, <2>2
<1> HIDE DEF more, k, others
<1>5. \A i \in 1 .. k + 1 : more[i] = LineOf(s, p + i)
  <2> SUFFICES ASSUME NEW i \in 1 .. k + 1 PROVE more[i] = LineOf(s, p + i)
    OBVIOUS
  <2>1. CASE i \in 1 .. k
    BY <1>1, <1>3, <2>1
  <2>2. CASE i = k + 1
    <3>1. p + i = p + k + 1
      BY <1>1, <2>2
    <3> QED
      BY <1>1, <1>2, <2>2, <3>1
  <2> QED
    BY <1>1, <2>1, <2>2
<1>6. p + (k + 1) - 1 = p + k /\ p + (k + 1) = p + k + 1
  BY <1>1
<1>9. /\ \A n \in 1 .. p + k + 1 : n \in 1 .. p + k \/ n = p + k + 1
      /\ \A n \in Nat \ {0} : n + 1 \in Nat \ {0} /\ p + (k + 1) + n = p + k + (n + 1)
  <2>1. k \in Nat
    BY <1>1
  <2> QED
    BY <2>1
<1>7. SoFar(s, p, more)
  BY <1>1, <1>3, <1>5, <1>6 DEF SoFar
<1>8. ASSUME ~Ends(line) PROVE ToCome(s, p, more, others)
  <2>1. ASSUME NEW n \in 1 .. p + k + 1 PROVE ~Ends(LineOf(s, n))
    <3>1. n \in 1 .. p + k \/ n = p + k + 1
      BY <1>9
    <3> QED
      BY <1>2, <1>3, <1>8, <3>1
  <2>2. ASSUME NEW n \in Nat \ {0} PROVE LineOf(others, n) = LineOf(s, p + (k + 1) + n)
    <3>1. n + 1 \in Nat \ {0} /\ p + (k + 1) + n = p + k + (n + 1)
      BY <1>9
    <3> QED
      BY <1>3, <1>4, <3>1
  <2> QED
    BY <1>1, <1>6, <2>1, <2>2 DEF ToCome
<1> QED
  BY <1>7, <1>8 DEF more, others

\* The shell reads the first of what is on its way.
LEMMA ReadsNext ==
  ASSUME NEW s \in Seq(Line), NEW p \in Nat, NEW w \in Seq(Line \cup {Blank}),
         NEW v \in Seq(Line \cup {Blank}),
         Len(w) = Len(v) + 1, \A i \in 1 .. Len(v) : v[i] = w[i + 1],
         SoFar(s, p, w)
  PROVE  LET q == IF w[1] = Blank THEN p ELSE p + 1
         IN  /\ SoFar(s, q, v)
             /\ \A rest : ToCome(s, p, w, rest) => ToCome(s, q, v, rest)
<1> DEFINE k == Len(v)
<1>0. k \in Nat /\ Len(s) \in Nat /\ Len(w) = k + 1
  OBVIOUS
<1> HIDE DEF k
<1>1. /\ \A i \in 1 .. k + 1 : w[i] = LineOf(s, p + i)
      /\ \A n \in 1 .. p + k : ~Ends(LineOf(s, n))
  <2>1. p + (k + 1) - 1 = p + k
    BY <1>0
  <2> QED
    BY <1>0, <2>1 DEF SoFar
<1>2. \A i \in 1 .. k : i + 1 \in 1 .. k + 1 /\ v[i] = w[i + 1] /\ p + (i + 1) = p + 1 + i
  BY <1>0 DEF k
<1>3. \A i \in 1 .. k : v[i] = LineOf(s, p + 1 + i)
  BY <1>1, <1>2
<1>4. CASE w[1] # Blank
  <2>1. p + 1 + k - 1 = p + k /\ p + 1 + k = p + (k + 1)
    BY <1>0
  <2>2. SoFar(s, p + 1, v)
    BY <1>1, <1>3, <2>1 DEF SoFar, k
  <2>3. ASSUME NEW rest, ToCome(s, p, w, rest) PROVE ToCome(s, p + 1, v, rest)
    BY <1>0, <2>1, <2>3 DEF ToCome, k
  <2> QED
    BY <1>4, <2>2, <2>3
<1>5. CASE w[1] = Blank
  <2>1. 1 \in 1 .. k + 1 /\ p + 1 \in Nat \ {0}
    BY <1>0
  <2>2. LineOf(s, p + 1) = Blank
    BY <1>1, <1>5, <2>1
  <2>3. p + 1 > Len(s)
    BY <2>1, <2>2, LineProperties
  <2>4. \A n \in Nat : n > p => LineOf(s, n) = Blank
    BY <1>0, <2>3, LineProperties
  <2>5. \A i \in 1 .. k : v[i] = LineOf(s, p + i)
    <3> SUFFICES ASSUME NEW i \in 1 .. k PROVE v[i] = LineOf(s, p + i)
      OBVIOUS
    <3>1. p + i \in Nat /\ p + 1 + i \in Nat /\ p + i > p /\ p + 1 + i > p
      BY <1>0
    <3> QED
      BY <1>3, <2>4, <3>1
  <2>6. SoFar(s, p, v)
    <3>1. 1 .. p + k - 1 \subseteq 1 .. p + k
      BY <1>0
    <3> QED
      BY <1>1, <2>5, <3>1 DEF SoFar, k
  <2>7. ASSUME NEW rest, ToCome(s, p, w, rest) PROVE ToCome(s, p, v, rest)
    <3>1. /\ \A n \in Nat \ {0} : LineOf(rest, n) = LineOf(s, p + (k + 1) + n)
          /\ \A n \in 1 .. p + (k + 1) : ~Ends(LineOf(s, n))
      BY <1>0, <2>7 DEF ToCome
    <3>2. \A n \in 1 .. p + k : n \in 1 .. p + (k + 1)
      BY <1>0
    <3>3. ASSUME NEW n \in Nat \ {0} PROVE LineOf(rest, n) = LineOf(s, p + k + n)
      <4>1. /\ p + (k + 1) + n \in Nat /\ p + k + n \in Nat
            /\ p + (k + 1) + n > p /\ p + k + n > p
        BY <1>0
      <4> QED
        BY <2>4, <3>1, <4>1
    <3> QED
      BY <3>1, <3>2, <3>3 DEF ToCome, k
  <2> QED
    BY <1>5, <2>6, <2>7
<1> QED
  BY <1>4, <1>5

\* Less on its way, when what was to be written is not.
LEMMA WritesLess ==
  ASSUME NEW s \in Seq(Line), NEW p \in Nat, NEW w \in Seq(Line \cup {Blank}), NEW line,
         line \in Line \cup {Blank}, SoFar(s, p, Append(w, line))
  PROVE  SoFar(s, p, w)
<1>1. /\ Len(w) \in Nat /\ Len(Append(w, line)) = Len(w) + 1
      /\ \A i \in 1 .. Len(w) : Append(w, line)[i] = w[i]
  OBVIOUS
<1> DEFINE more == Append(w, line)
           k == Len(w)
<1> HIDE DEF more, k
<1>2. k \in Nat /\ Len(more) = k + 1 /\ \A i \in 1 .. k : more[i] = w[i]
  BY <1>1 DEF more, k
<1>3. /\ \A i \in 1 .. k + 1 : more[i] = LineOf(s, p + i)
      /\ \A n \in 1 .. p + (k + 1) - 1 : ~Ends(LineOf(s, n))
  BY <1>2 DEF SoFar, more
<1>4. \A n \in 1 .. p + k - 1 : n \in 1 .. p + (k + 1) - 1
  BY <1>2
<1>5. \A i \in 1 .. k : w[i] = LineOf(s, p + i)
  BY <1>2, <1>3
<1> QED
  BY <1>3, <1>4, <1>5 DEF SoFar, k

\* A client plays a script: what has been sent of it, and while it goes on what is
\* left of it, make up the script; nothing is sent to a host that is left out.
PlaysOn(h, s) ==
  /\ SoFar(s, played[h], OnItsWay(h))
  /\ client[h] # "over" /\ used[h] => ToCome(s, played[h], OnItsWay(h), left[h])
LeftOut(h) == client[h] = "over" /\ lines[h] = <<>> /\ played[h] = 0
OneScript(h, s) == IF s = NoScript THEN LeftOut(h) ELSE PlaysOn(h, s)
ScriptsPlayed ==
  Running # {} /\ env.path = "console" /\ env.query \in Query =>
    \A h \in Hosts, s \in Scripts \cup {NoScript} : s = env.query[h] => OneScript(h, s)
OwnRequest == \A c \in Running : arrived[c] = "all" => env = request[c]

LEMMA OnItsWayType ==
  ASSUME ConsoleTypeOK, NEW h \in Hosts
  PROVE  /\ OnItsWay(h) \in Seq(Line \cup {Blank})
         /\ lines[h] \in Seq(Line \cup {Blank}) /\ typing[h] \in Line \cup {Blank}
         /\ played[h] \in Nat /\ left[h] \in Seq(Line)
<1>1. lines[h] \in Seq(Line \cup {Blank}) /\ typing[h] \in Line \cup {Blank}
  BY DEF ConsoleTypeOK
<1>2. Append(lines[h], typing[h]) \in Seq(Line \cup {Blank})
  BY <1>1
<1> QED
  BY <1>1, <1>2 DEF OnItsWay, ConsoleTypeOK

\* A client that ends, of its own accord or not.
LEMMA EndsScript ==
  ASSUME ConsoleTypeOK, NEW g \in Hosts, NEW s \in Seq(Line) \cup {NoScript}, OneScript(g, s),
         client'[g] = "over", lines'[g] = lines[g], played'[g] = played[g]
  PROVE  OneScript(g, s)'
<1>1. CASE s = NoScript
  BY <1>1 DEF OneScript, LeftOut
<1>2. CASE s # NoScript
  <2>1. OnItsWay(g)' = lines[g]
    BY DEF OnItsWay
  <2>2. SoFar(s, played[g], OnItsWay(g)) /\ s \in Seq(Line)
    BY <1>2 DEF OneScript, PlaysOn
  <2>3. SoFar(s, played[g], lines[g])
    BY <2>2, OnItsWayType, WritesLess DEF OnItsWay
  <2> QED
    BY <1>2, <2>1, <2>3 DEF OneScript, PlaysOn
<1> QED
  BY <1>1, <1>2

\* What a script's host does not see.
LEMMA KeepsScript ==
  ASSUME NEW g, NEW s, OneScript(g, s), OnItsWay(g)' = OnItsWay(g),
         lines'[g] = lines[g] \/ client[g] # "over",
         client[g] = "over" => client'[g] = "over",
         used'[g] = used[g], left'[g] = left[g], played'[g] = played[g]
  PROVE  OneScript(g, s)'
<1>1. CASE s = NoScript
  BY <1>1 DEF OneScript, LeftOut
<1>2. CASE s # NoScript
  BY <1>2 DEF OneScript, PlaysOn
<1> QED
  BY <1>1, <1>2

LEMMA ClientScript ==
  ASSUME ConsoleTypeOK, NEW h \in Hosts, Client(h),
         NEW g \in Hosts, NEW s \in Seq(Line) \cup {NoScript}, OneScript(g, s)
  PROVE  OneScript(g, s)'
<1> USE DEF remote, script
<1>0. /\ Hosts = DOMAIN client /\ Hosts = DOMAIN used /\ Hosts = DOMAIN left
      /\ Hosts = DOMAIN typing /\ Hosts = DOMAIN lines
  BY DEF ConsoleTypeOK
<1>a. ASSUME UNCHANGED <<lines, played>>, client'[g] = client[g], used'[g] = used[g],
             left'[g] = left[g], typing'[g] = typing[g]
      PROVE  OneScript(g, s)'
  BY <1>a, KeepsScript DEF OnItsWay
<1>b. ASSUME UNCHANGED <<lines, played>>, Stops(h) PROVE OneScript(g, s)'
  <2>1. CASE g = h
    BY <1>0, <1>b, <2>1, EndsScript DEF Stops, Go
  <2>2. CASE g # h
    BY <1>0, <1>a, <1>b, <2>2 DEF Stops, Go
  <2> QED
    BY <2>1, <2>2
<1>1. CASE Connect(h)
  <2>2. /\ UNCHANGED <<lines, played, used, left, typing>> /\ client[h] = "connect"
        /\ client'[g] = client[g] \/ (g = h /\ client'[h] \in {"reply", "read"})
    BY <1>0, <1>1 DEF Connect, Go
  <2>3. OnItsWay(g)' = OnItsWay(g)
    BY <2>2 DEF OnItsWay
  <2> QED
    BY <2>2, <2>3, KeepsScript
<1>2. CASE ConnectFails(h)
  BY <1>2, <1>b DEF ConnectFails
<1>3. CASE Reply(h)
  BY <1>3, <1>b DEF Reply
<1>4. CASE Read(h)
  <2>1. UNCHANGED <<lines, played>> /\ client[h] = "read" /\ (do_write(h) \/ UNCHANGED script)
    BY <1>4 DEF Read
  <2>2. CASE UNCHANGED script
    BY <1>a, <2>1, <2>2
  <2>3. CASE do_write(h) /\ g # h
    BY <1>0, <1>a, <2>1, <2>3 DEF do_write, Go
  <2>4. CASE do_write(h) /\ g = h
    <3> DEFINE line == IF left[h] = <<>> THEN Blank ELSE Head(left[h])
               last == Ends(line)
               others == IF left[h] = <<>> THEN <<>> ELSE Tail(left[h])
    <3>1. /\ client'[h] = "write" /\ typing'[h] = line
          /\ left'[h] = IF last \/ left[h] = <<>> THEN <<>> ELSE Tail(left[h])
          /\ used'[h] = (used[h] /\ ~last)
      BY <1>0, <2>4 DEF do_write, Go, Ends
    <3>2. /\ used[h] /\ lines[h] \in Seq(Line \cup {Blank}) /\ left[h] \in Seq(Line)
          /\ played[h] \in Nat
      BY <2>1, OnItsWayType DEF ConsoleTypeOK
    <3>3. line = LineOf(left[h], 1) /\ line \in Line \cup {Blank}
      <4>1. CASE left[h] = <<>>
        <5>1. Len(left[h]) = 0
          BY <4>1
        <5>2. ~(1 <= 0)
          OBVIOUS
        <5> QED
          BY <4>1, <5>1, <5>2 DEF LineOf
      <4>2. CASE left[h] # <<>>
        <5>1. 1 <= Len(left[h]) /\ Head(left[h]) = left[h][1] /\ Head(left[h]) \in Line
          BY <3>2, <4>2
        <5> QED
          BY <4>2, <5>1 DEF LineOf
      <4> QED
        BY <4>1, <4>2
    <3>4. CASE s = NoScript
      BY <2>1, <2>4, <3>4 DEF OneScript, LeftOut
    <3>5. CASE s # NoScript
      <4>1. OnItsWay(h) = lines[h] /\ OnItsWay(h)' = Append(lines[h], line)
        BY <2>1, <3>1 DEF OnItsWay
      <4>2. SoFar(s, played[h], lines[h]) /\ ToCome(s, played[h], lines[h], left[h])
        BY <2>1, <2>4, <3>2, <3>5, <4>1 DEF OneScript, PlaysOn
      <4>3. s \in Seq(Line)
        BY <3>5
      <4> HIDE DEF line
      <4>4. /\ SoFar(s, played[h], Append(lines[h], line))
            /\ ~last => ToCome(s, played[h], Append(lines[h], line), others)
        BY <3>2, <3>3, <4>2, <4>3, WritesNext
      <4>5. ~last => left'[h] = others
        BY <3>1
      <4>6. used'[h] => ~last
        BY <3>1
      <4>7. played'[h] = played[h]
        BY <2>1
      <4> HIDE DEF last, others
      <4>8. SoFar(s, played[h], OnItsWay(h))'
        BY <4>1, <4>4, <4>7
      <4>9. used'[h] => ToCome(s, played[h], OnItsWay(h), left[h])'
        BY <4>1, <4>4, <4>5, <4>6, <4>7
      <4> QED
        BY <2>4, <3>5, <4>8, <4>9 DEF OneScript, PlaysOn
    <3> QED
      BY <3>4, <3>5
  <2> QED
    BY <2>1, <2>2, <2>3, <2>4
<1>5. CASE Written(h)
  <2>1. /\ client[h] = "write" /\ UNCHANGED <<played, used, left>>
        /\ lines' = [lines EXCEPT ![h] = Append(lines[h], typing[h])]
        /\ typing' = [typing EXCEPT ![h] = Blank]
        /\ client' = [client EXCEPT ![h] = Onward(h)]
    BY <1>5 DEF Written, Go
  <2>2. CASE g = h
    <3>1. lines'[h] = Append(lines[h], typing[h]) /\ client'[h] # "write"
      BY <1>0, <2>1 DEF Onward
    <3>2. OnItsWay(g)' = OnItsWay(g)
      BY <2>1, <2>2, <3>1 DEF OnItsWay
    <3> QED
      BY <2>1, <2>2, <3>2, KeepsScript
  <2>3. CASE g # h
    <3>1. lines'[g] = lines[g] /\ client'[g] = client[g] /\ typing'[g] = typing[g]
      BY <1>0, <2>1, <2>3
    <3>2. OnItsWay(g)' = OnItsWay(g)
      BY <3>1 DEF OnItsWay
    <3> QED
      BY <2>1, <3>1, <3>2, KeepsScript
  <2> QED
    BY <2>2, <2>3
<1>6. CASE Fails(h)
  BY <1>6, <1>b DEF Fails
<1>7. CASE Killed(h)
  <2>1. client'[g] = "over" /\ UNCHANGED <<lines, played>>
    BY <1>7 DEF Killed
  <2> QED
    BY <2>1, EndsScript
<1> QED
  BY <1>1, <1>2, <1>3, <1>4, <1>5, <1>6, <1>7 DEF Client

LEMMA ShellScript ==
  ASSUME ConsoleTypeOK, NEW h \in Hosts, Shell(h),
         NEW g \in Hosts, NEW s \in Seq(Line) \cup {NoScript}, OneScript(g, s)
  PROVE  OneScript(g, s)'
<1> USE DEF script
<1>0. Hosts = DOMAIN lines /\ Hosts = DOMAIN played
  BY DEF ConsoleTypeOK
<1>a. ASSUME UNCHANGED script, lines'[g] = lines[g], played'[g] = played[g]
      PROVE  OneScript(g, s)'
  BY <1>a, KeepsScript DEF OnItsWay
<1>1. CASE Greet(h) \/ HangUp(h)
  BY <1>1, <1>a DEF Greet, HangUp
<1>2. CASE RunLine(h)
  <2>1. /\ lines[h] # <<>> /\ UNCHANGED script
        /\ lines' = [lines EXCEPT ![h] = Tail(lines[h])]
        /\ played' = [played EXCEPT ![h] = IF Head(lines[h]) = Blank THEN played[h]
                                           ELSE played[h] + 1]
    BY <1>2 DEF RunLine
  <2>2. CASE g # h
    BY <1>0, <1>a, <2>1, <2>2
  <2>3. CASE g = h /\ s = NoScript
    BY <2>1, <2>3 DEF OneScript, LeftOut
  <2>4. CASE g = h /\ s # NoScript
    <3> DEFINE p == played[h]
               l == lines[h]
               w == OnItsWay(h)
               v == IF client[h] = "write" THEN Append(Tail(l), typing[h]) ELSE Tail(l)
               q == IF w[1] = Blank THEN p ELSE p + 1
    <3>1. /\ p \in Nat /\ l \in Seq(Line \cup {Blank}) /\ w \in Seq(Line \cup {Blank})
          /\ typing[h] \in Line \cup {Blank} /\ s \in Seq(Line)
      BY <2>4, OnItsWayType
    <3>2. /\ Tail(l) \in Seq(Line \cup {Blank}) /\ Len(Tail(l)) = Len(l) - 1
          /\ \A i \in 1 .. Len(Tail(l)) : Tail(l)[i] = l[i + 1]
      BY <2>1, <3>1, HeadTailProperties
    <3>3. /\ v \in Seq(Line \cup {Blank}) /\ Len(w) = Len(v) + 1
          /\ \A i \in 1 .. Len(v) : v[i] = w[i + 1]
          /\ w[1] = Head(l)
      <4> DEFINE t == Tail(l)
                 x == typing[h]
      <4>1. /\ t \in Seq(Line \cup {Blank}) /\ Len(l) = Len(t) + 1 /\ Len(t) \in Nat
            /\ \A i \in 1 .. Len(t) : t[i] = l[i + 1]
        BY <3>1, <3>2
      <4>2. Head(l) = l[1] /\ 1 <= Len(l)
        BY <2>1, <3>1
      <4> HIDE DEF l, t, x
      <4>3. /\ Append(t, x) \in Seq(Line \cup {Blank}) /\ Len(Append(t, x)) = Len(t) + 1
            /\ \A i \in 1 .. Len(t) : Append(t, x)[i] = t[i] /\ Append(t, x)[Len(t) + 1] = x
        BY <3>1, <4>1 DEF x
      <4>4. /\ Append(l, x) \in Seq(Line \cup {Blank}) /\ Len(Append(l, x)) = Len(l) + 1
            /\ \A i \in 1 .. Len(l) : Append(l, x)[i] = l[i]
            /\ Append(l, x)[Len(l) + 1] = x
        BY <3>1 DEF x
      <4>5. Append(t, x)[Len(t) + 1] = x
        BY <3>1, <4>1 DEF x
      <4>6. CASE client[h] = "write"
        <5>1. v = Append(t, x) /\ w = Append(l, x)
          BY <4>6 DEF OnItsWay, l, t, x
        <5>2. \A i \in 1 .. Len(t) + 1 : Append(t, x)[i] = Append(l, x)[i + 1]
          <6> SUFFICES ASSUME NEW i \in 1 .. Len(t) + 1
                       PROVE  Append(t, x)[i] = Append(l, x)[i + 1]
            OBVIOUS
          <6>1. CASE i = Len(t) + 1
            BY <4>1, <4>4, <4>5, <6>1
          <6>2. CASE i # Len(t) + 1
            <7>1. i \in 1 .. Len(t) /\ i + 1 \in 1 .. Len(l)
              BY <4>1, <6>2
            <7> QED
              BY <4>1, <4>3, <4>4, <7>1
          <6> QED
            BY <6>1, <6>2
        <5>3. Append(l, x)[1] = Head(l)
          <6>1. 1 \in 1 .. Len(l)
            BY <4>1, <4>2
          <6> QED
            BY <4>2, <4>4, <6>1
        <5>4. Len(Append(l, x)) = Len(Append(t, x)) + 1
          BY <4>1, <4>3, <4>4
        <5> HIDE DEF v, w
        <5> QED
          BY <4>3, <5>1, <5>2, <5>3, <5>4
      <4>7. CASE client[h] # "write"
        <5>1. v = t /\ w = l
          BY <4>7 DEF OnItsWay, l, t
        <5> HIDE DEF v, w
        <5> QED
          BY <4>1, <4>2, <5>1
      <4> QED
        BY <4>6, <4>7
    <3>4. OnItsWay(h)' = v /\ played'[h] = q
      <4>1. OnItsWay(h)' = v
        BY <1>0, <2>1 DEF OnItsWay
      <4>2. played'[h] = q
        BY <1>0, <2>1, <3>3
      <4> QED
        BY <4>1, <4>2
    <3>5. SoFar(s, p, w) /\ (client[h] # "over" /\ used[h] => ToCome(s, p, w, left[h]))
      BY <2>4 DEF OneScript, PlaysOn
    <3> HIDE DEF p, w, v, l
    <3>6. SoFar(s, q, v) /\ \A rest : ToCome(s, p, w, rest) => ToCome(s, q, v, rest)
      BY <3>1, <3>3, <3>5, ReadsNext
    <3> HIDE DEF q
    <3>7. SoFar(s, played[h], OnItsWay(h))'
      BY <3>4, <3>6
    <3>8. client'[h] # "over" /\ used'[h] => ToCome(s, played[h], OnItsWay(h), left[h])'
      BY <2>1, <3>4, <3>5, <3>6
    <3> QED
      BY <2>4, <3>7, <3>8 DEF OneScript, PlaysOn
  <2> QED
    BY <2>2, <2>3, <2>4
<1> QED
  BY <1>1, <1>2 DEF Shell

LEMMA StartScript ==
  ASSUME NEW query \in Query, Start(query), NEW h \in Hosts
  PROVE  OneScript(h, query[h])'
<1>1. /\ client'[h] = IF query[h] # NoScript THEN "connect" ELSE "over"
      /\ left'[h] = IF query[h] # NoScript THEN query[h] ELSE <<>>
      /\ lines'[h] = <<>> /\ played'[h] = 0
  BY DEF Start
<1>2. CASE query[h] = NoScript
  BY <1>1, <1>2 DEF OneScript, LeftOut
<1>3. CASE query[h] # NoScript
  <2> DEFINE s == query[h]
  <2>1. OnItsWay(h)' = <<>> /\ left'[h] = s
    BY <1>1, <1>3 DEF OnItsWay
  <2> HIDE DEF s
  <2>2. Len(<<>>) = 0
    OBVIOUS
  <2>3. 0 + 0 - 1 = -1 /\ 0 + 0 = 0 /\ \A n \in Nat \ {0} : 0 + n = n
    OBVIOUS
  <2>4. 1 .. -1 = {} /\ 1 .. 0 = {}
    OBVIOUS
  <2>5. SoFar(s, 0, <<>>) /\ ToCome(s, 0, <<>>, s)
    BY <2>2, <2>3, <2>4 DEF SoFar, ToCome
  <2> QED
    BY <1>1, <1>3, <2>1, <2>5 DEF OneScript, PlaysOn, s
<1> QED
  BY <1>2, <1>3

\* A request that has come whole is what its program is started with.
LEMMA HandleProperties ==
  ASSUME TypeOK, NEW c \in Conns, Handle(c)
  PROVE  /\ Running' = {c} /\ UNCHANGED <<request, arrived>>
         /\ env' \in Request /\ Run(env')
         /\ arrived[c] = "all" => env' = request[c]
<1>1. request[c] \in Request
  BY HttpServerAssumption DEF TypeOK, Nothing, Request, Path
<1>2. Running' = {c}
  BY DEF Handle, Running, Waits, TypeOK
<1>3. PICK n \in 1 .. Len(RequestLine(request[c])), whole \in BOOLEAN :
        /\ arrived[c] = "all" => n = Len(RequestLine(request[c])) /\ whole
        /\ env' = ParseReq(Come(RequestLine(request[c]), n, whole)) /\ Run(env')
  BY DEF Handle, MayCome
<1>4. arrived[c] = "all" => env' = request[c]
  BY <1>1, <1>3, ParsesWhole
<1>5. env' \in Request
  BY <1>1, <1>3, ParsesPart
<1>6. UNCHANGED <<request, arrived>>
  BY DEF Handle
<1> QED
  BY <1>2, <1>3, <1>4, <1>5, <1>6

\* The program that runs has the query of its own request, and a console sends
\* each shell the lines of its own script, in order and up to the exit.
THEOREM OwnScriptHolds == Spec => []OwnScript
<1> USE DEF server, httpVars
<1>1. Init => OwnRequest /\ ScriptsPlayed
  BY DEF Init, OwnRequest, ScriptsPlayed, Running
<1>2. TypeOK /\ OwnRequest /\ [Next]_vars => OwnRequest'
  <2> SUFFICES ASSUME TypeOK, OwnRequest, [Next]_vars,
                      NEW b \in Running', arrived'[b] = "all"
               PROVE  env' = request'[b]
    BY DEF OwnRequest
  <2>0. b \in Conns /\ conn'[b] = "cgi"
    BY DEF Running
  <2>1. ASSUME NEW c \in Conns, Dial(c) \/ Drop(c) \/ Accept(c)
        PROVE  env' = request'[b]
    BY <2>0, <2>1 DEF Dial, Drop, Accept, OwnRequest, Running, TypeOK
  <2>2. ASSUME NEW c \in Conns, Arrive(c) PROVE env' = request'[b]
    BY <2>0, <2>2 DEF Arrive, OwnRequest, Running, TypeOK
  <2>3. ASSUME NEW c \in Conns, Handle(c) PROVE env' = request'[b]
    BY <2>3, HandleProperties
  <2>4. CASE Reaped
    BY <2>0, <2>4 DEF Reaped, OwnRequest, Running, TypeOK
  <2>5. CASE UNCHANGED httpVars
    BY <2>0, <2>5 DEF OwnRequest, Running
  <2> QED
    BY <2>1, <2>2, <2>3, <2>4, <2>5 DEF Next, Server, Program, vars
<1>3. TypeOK /\ ScriptsPlayed /\ [Next]_vars => ScriptsPlayed'
  <2> SUFFICES ASSUME TypeOK, ScriptsPlayed, [Next]_vars,
                      Running' # {}, env'.path = "console", env'.query \in Query,
                      NEW g \in Hosts, NEW s \in Scripts \cup {NoScript}, s = env'.query[g]
               PROVE  OneScript(g, s)'
    BY DEF ScriptsPlayed
  <2>0. ASSUME Running # {}, env' = env PROVE OneScript(g, s)
    BY <2>0 DEF ScriptsPlayed
  <2>1. ASSUME UNCHANGED <<client, used, left, typing, lines, played>>,
               Running # {}, env' = env
        PROVE  OneScript(g, s)'
    <3>1. OneScript(g, s)
      BY <2>0, <2>1
    <3>2. OnItsWay(g)' = OnItsWay(g)
      BY <2>1 DEF OnItsWay
    <3> QED
      BY <2>1, <3>1, <3>2, KeepsScript
  <2>2. ASSUME NEW c \in Conns, Dial(c) \/ Arrive(c) \/ Drop(c) \/ Accept(c)
        PROVE  OneScript(g, s)'
    <3>1. UNCHANGED consoleVars /\ env' = env
      BY <2>2 DEF Dial, Arrive, Drop, Accept
    <3>2. Running' \subseteq Running
      BY <2>2 DEF Dial, Arrive, Drop, Accept, Running, TypeOK
    <3> QED
      BY <2>1, <3>1, <3>2 DEF consoleVars, script, remote
  <2>3. ASSUME NEW c \in Conns, Handle(c) PROVE OneScript(g, s)'
    <3>1. Run(env')
      BY <2>3, HandleProperties
    <3>2. PICK query \in Query : query = env'.query /\ Start(query)
      BY <3>1 DEF Run, Named
    <3>3. OneScript(g, query[g])'
      BY <3>2, StartScript
    <3> QED
      BY <3>2, <3>3
  <2>4. CASE Reaped
    BY <2>4 DEF Reaped, Running, TypeOK
  <2>5. ASSUME NEW h \in Hosts, Program(h) PROVE OneScript(g, s)'
    <3>1. env' = env /\ Running' = Running
      BY <2>5 DEF Program, Running
    <3>2. OneScript(g, s)
      BY <2>0, <3>1
    <3>3. s \in Seq(Line) \cup {NoScript}
      BY ConsoleAssumption
    <3>4. ConsoleTypeOK /\ (Client(h) \/ Shell(h))
      BY <2>5 DEF Program, TypeOK
    <3> QED
      BY <3>2, <3>3, <3>4, ClientScript, ShellScript
  <2>6. CASE BrowserLeaves /\ UNCHANGED httpVars
    <3>1. /\ UNCHANGED <<client, used, left, typing, lines, played>>
          /\ env' = env /\ Running' = Running
      BY <2>6 DEF BrowserLeaves, script, remote, Running
    <3> QED
      BY <2>1, <3>1
  <2>7. CASE UNCHANGED vars
    BY <2>1, <2>7 DEF vars, Running, consoleVars, script, remote
  <2> QED
    BY <2>2, <2>3, <2>4, <2>5, <2>6, <2>7 DEF Next, Server
<1>4. TypeOK /\ OwnRequest /\ ScriptsPlayed => OwnScript
  <2> SUFFICES ASSUME TypeOK, OwnRequest, ScriptsPlayed,
                      NEW c \in Running, arrived[c] = "all"
               PROVE  /\ request[c].query = NoQuery => env.query = NoQuery
                      /\ request[c].path = "console" /\ request[c].query \in Query =>
                           \A h \in Hosts :
                             LET s == request[c].query[h]
                             IN  IF s = NoScript THEN OnItsWay(h) = <<>> /\ played[h] = 0
                                 ELSE Plays(h, s)
    BY DEF OwnScript
  <2>1. env = request[c]
    BY DEF OwnRequest
  <2>2. ASSUME request[c].path = "console", request[c].query \in Query, NEW h \in Hosts
        PROVE  OneScript(h, request[c].query[h])
    <3>1. request[c].query[h] \in Scripts \cup {NoScript}
      BY <2>2, ConsoleAssumption
    <3> QED
      BY <2>1, <2>2, <3>1 DEF ScriptsPlayed
  <2>3. ASSUME NEW h \in Hosts, NEW s, OneScript(h, s)
        PROVE  IF s = NoScript THEN OnItsWay(h) = <<>> /\ played[h] = 0 ELSE Plays(h, s)
    <3>1. CASE s = NoScript
      BY <2>3, <3>1 DEF OneScript, LeftOut, OnItsWay
    <3>2. CASE s # NoScript
      <4>1. SoFar(s, played[h], OnItsWay(h))
        BY <2>3, <3>2 DEF OneScript, PlaysOn
      <4>2. Plays(h, s)
        BY <4>1 DEF SoFar, Ends, Plays
      <4> QED
        BY <3>2, <4>2
    <3> QED
      BY <3>1, <3>2
  <2> QED
    BY <2>1, <2>2, <2>3
<1> QED
  BY <1>1, <1>2, <1>3, <1>4, TypeCorrect, PTL DEF Spec

-----------------------------------------------------------------------------
(* Turns. *)

\* Of the output of a shell that has not written a prompt of its own accord, at
\* most one prompt has not been read, and none while it has a line to run.
Quiet(text) == \A i \in DOMAIN text : text[i] # "%"
AtMostOnePrompt(text) ==
  /\ \A i \in DOMAIN text : text[i] # "mark"
  /\ \A i, j \in DOMAIN text : text[i] = "%" /\ text[j] = "%" => i = j
InTurn(h) ==
  client[h] = "write" \/ lines[h] # <<>> =>
    /\ shell[h] # "greet" /\ Len(lines[h]) <= 1
    /\ client[h] = "write" => lines[h] = <<>>
    /\ Quiet(wire[h])
Turns(h) == AtMostOnePrompt(wire[h]) /\ (shell[h] = "greet" => Quiet(wire[h])) /\ InTurn(h)
TakeTurns == \A h \in Hosts \ marked : Turns(h)

\* A read with the prompt in it leaves none.
LEMMA ReadProperties ==
  ASSUME NEW s \in Seq(Piece), NEW k \in 1 .. Len(s), AtMostOnePrompt(s)
  PROVE  LET text == SubSeq(s, 1, k)
             rest == SubSeq(s, k + 1, Len(s))
         IN  /\ AtMostOnePrompt(rest) /\ (Quiet(s) => Quiet(rest))
             /\ HasPrompt(text) => Quiet(rest) /\ ~Quiet(s)
<1> DEFINE text == SubSeq(s, 1, k)
           rest == SubSeq(s, k + 1, Len(s))
<1>1. /\ text \in Seq(Piece) /\ Len(text) = k /\ rest \in Seq(Piece)
      /\ Len(rest) = Len(s) - k /\ Len(s) \in Nat
      /\ \A i \in 1 .. k : text[i] = s[i]
      /\ \A i \in 1 .. Len(s) - k : rest[i] = s[k + i]
  BY SubSeqElements
<1> HIDE DEF text, rest
<1>2. DOMAIN s = 1 .. Len(s) /\ DOMAIN rest = 1 .. Len(rest) /\ DOMAIN text = 1 .. Len(text)
  BY <1>1
<1>3. \A i \in DOMAIN rest : k + i \in DOMAIN s /\ rest[i] = s[k + i] /\ i \in Nat
  BY <1>1, <1>2
<1>4. \A i \in DOMAIN text : i \in DOMAIN s /\ text[i] = s[i] /\ i <= k /\ i \in Nat
  BY <1>1, <1>2
<1>5. Quiet(s) => Quiet(rest)
  BY <1>3 DEF Quiet
<1>6. AtMostOnePrompt(rest)
  BY <1>3 DEF AtMostOnePrompt
<1>7. ASSUME HasPrompt(text) PROVE \E i \in DOMAIN text : text[i] = "%"
  <2>1. "mark" \notin ToSet(text)
    BY <1>4 DEF AtMostOnePrompt, ToSet
  <2>2. PICK i \in 1 .. Len(text) - 1 : text[i] = "%"
    BY <1>7, <2>1 DEF HasPrompt
  <2>3. i \in DOMAIN text
    BY <1>1, <1>2
  <2> QED
    BY <2>2, <2>3
<1>8. ASSUME NEW i \in DOMAIN text, text[i] = "%" PROVE Quiet(rest) /\ ~Quiet(s)
  <2>1. i \in DOMAIN s /\ s[i] = "%" /\ i <= k /\ i \in Nat
    BY <1>4, <1>8
  <2>2. \A j \in DOMAIN rest : k + j # i
    BY <1>1, <1>2, <2>1
  <2>3. \A j \in DOMAIN rest : rest[j] # "%"
    BY <1>3, <2>1, <2>2 DEF AtMostOnePrompt
  <2> QED
    BY <2>1, <2>3 DEF Quiet
<1> QED
  BY <1>5, <1>6, <1>7, <1>8 DEF text, rest

\* Output ends in its only prompt.
LEMMA OutputType == Prompt \in Seq(Piece) /\ Text \in Seq(Piece)
<1>1. Prompt \in Seq(Piece)
  BY DEF Prompt, Piece
<1>2. Text \in Seq(Piece)
  BY DEF Text, Piece
<1> QED
  BY <1>1, <1>2

LEMMA OutputLength == Len(Prompt) = 2 /\ Len(Text) = 3
<1>1. Len(Prompt) = 2
  BY DEF Prompt
<1>2. Len(Text) = 3
  BY DEF Text
<1> QED
  BY <1>1, <1>2

LEMMA OutputElements ==
  /\ Prompt[1] = "%" /\ Prompt[2] = " "
  /\ Text[1] = "text" /\ Text[2] = "%" /\ Text[3] = " "
<1>1. Prompt[1] = "%" /\ Prompt[2] = " "
  BY DEF Prompt
<1>2. Text[1] = "text" /\ Text[2] = "%" /\ Text[3] = " "
  BY DEF Text
<1> QED
  BY <1>1, <1>2

LEMMA OutputProperties ==
  ASSUME NEW text \in {Prompt, Text}, NEW i \in 1 .. Len(text)
  PROVE  text[i] # "mark" /\ (text[i] = "%" => i = Len(text) - 1)
<1>1. CASE text = Prompt
  <2>1. i = 1 \/ i = 2
    BY <1>1, OutputLength
  <2>2. Len(text) - 1 = 1
    BY <1>1, OutputLength
  <2> QED
    BY <1>1, <2>1, <2>2, OutputElements
<1>2. CASE text = Text
  <2>1. i = 1 \/ i = 2 \/ i = 3
    BY <1>2, OutputLength
  <2>2. Len(text) - 1 = 2
    BY <1>2, OutputLength
  <2> QED
    BY <1>2, <2>1, <2>2, OutputElements
<1> QED
  BY <1>1, <1>2

\* Said when there is no prompt to be read, it is the only one.
LEMMA SaysProperties ==
  ASSUME NEW s \in Seq(Piece), AtMostOnePrompt(s), Quiet(s), NEW text \in {Prompt, Text}
  PROVE  AtMostOnePrompt(s \o text)
<1>1. text \in Seq(Piece)
  BY OutputType
<1>2. /\ text \in Seq(Piece) /\ Len(text) \in Nat
      /\ \A i \in 1 .. Len(text) :
           text[i] # "mark" /\ (text[i] = "%" => i = Len(text) - 1)
  BY <1>1, OutputProperties
<1> DEFINE all == s \o text
<1>3. /\ Len(s) \in Nat /\ Len(text) \in Nat /\ Len(all) = Len(s) + Len(text)
      /\ DOMAIN s = 1 .. Len(s) /\ DOMAIN all = 1 .. Len(all)
      /\ \A i \in 1 .. Len(all) :
           all[i] = IF i <= Len(s) THEN s[i] ELSE text[i - Len(s)]
  BY <1>2
<1> HIDE DEF all
<1>4. ASSUME NEW i \in DOMAIN all
      PROVE  all[i] # "mark" /\ (all[i] = "%" => i = Len(s) + Len(text) - 1)
  <2>1. CASE i <= Len(s)
    <3>1. i \in DOMAIN s /\ all[i] = s[i]
      BY <1>3, <2>1
    <3> QED
      BY <3>1 DEF AtMostOnePrompt, Quiet
  <2>2. CASE ~(i <= Len(s))
    <3>1. i - Len(s) \in 1 .. Len(text) /\ all[i] = text[i - Len(s)]
      BY <1>3, <2>2
    <3> QED
      BY <1>2, <1>3, <3>1
  <2> QED
    BY <2>1, <2>2
<1> QED
  BY <1>4 DEF AtMostOnePrompt, all

\* A step of the client or of the shell of a host.
LEMMA ClientTurns ==
  ASSUME TypeOK, TakeTurns, NEW h \in Hosts, Client(h)
  PROVE  TakeTurns'
<1> USE DEF remote, script
<1>0. wire[h] \in Seq(Piece) /\ wire \in [Hosts -> Seq(Piece)] /\ Hosts = DOMAIN client
  BY DEF TypeOK, ConsoleTypeOK
<1>1. ASSUME UNCHANGED <<wire, shell, lines, marked>>,
             \A g \in Hosts : client'[g] = "write" => client[g] = "write"
      PROVE  TakeTurns'
  BY <1>1 DEF TakeTurns, Turns, InTurn
<1>2. CASE Connect(h) \/ ConnectFails(h) \/ Fails(h) \/ Killed(h)
  <2>1. UNCHANGED <<wire, shell, lines, marked>>
    BY <1>2 DEF Connect, ConnectFails, Fails, Killed
  <2>2. \A g \in Hosts : client'[g] = "write" => client[g] = "write"
    BY <1>0, <1>2 DEF Connect, ConnectFails, Fails, Killed, Stops, Go
  <2> QED
    BY <1>1, <2>1, <2>2
<1>3. CASE Reply(h)
  <2>1. /\ wire' = [wire EXCEPT ![h] = Tail(wire[h])]
        /\ client' = [client EXCEPT ![h] = "over"] /\ UNCHANGED <<lines, shell, marked>>
        /\ wire[h] # <<>>
    BY <1>3 DEF Reply, Stops, Go
  <2>2. /\ Len(Tail(wire[h])) = Len(wire[h]) - 1 /\ Tail(wire[h]) \in Seq(Piece)
        /\ \A i \in 1 .. Len(Tail(wire[h])) : Tail(wire[h])[i] = wire[h][i + 1]
    BY <1>0, <2>1, HeadTailProperties
  <2>3. \A i \in DOMAIN Tail(wire[h]) :
          i \in Nat /\ i + 1 \in DOMAIN wire[h] /\ Tail(wire[h])[i] = wire[h][i + 1]
    BY <1>0, <2>2
  <2>4. /\ AtMostOnePrompt(wire[h]) => AtMostOnePrompt(Tail(wire[h]))
        /\ Quiet(wire[h]) => Quiet(Tail(wire[h]))
    BY <2>3 DEF AtMostOnePrompt, Quiet
  <2>5. \A g \in Hosts : /\ wire'[g] = IF g = h THEN Tail(wire[h]) ELSE wire[g]
                         /\ client'[g] = "write" => client[g] = "write"
    BY <1>0, <2>1
  <2> QED
    BY <2>1, <2>4, <2>5 DEF TakeTurns, Turns, InTurn
<1>4. CASE Read(h)
  <2>1. PICK k \in 1 .. Len(wire[h]) :
          /\ wire' = [wire EXCEPT ![h] = SubSeq(wire[h], k + 1, Len(wire[h]))]
          /\ IF HasPrompt(SubSeq(wire[h], 1, k)) THEN do_write(h) ELSE UNCHANGED script
    BY <1>4 DEF Read
  <2> DEFINE rest == SubSeq(wire[h], k + 1, Len(wire[h]))
             prompted == HasPrompt(SubSeq(wire[h], 1, k))
  <2>2. AtMostOnePrompt(wire[h]) =>
          /\ AtMostOnePrompt(rest) /\ (Quiet(wire[h]) => Quiet(rest))
          /\ prompted => Quiet(rest) /\ ~Quiet(wire[h])
    BY <1>0, ReadProperties
  <2>3. UNCHANGED <<lines, shell, marked>> /\ client[h] = "read"
    BY <1>4 DEF Read
  <2>4. client' = IF prompted THEN [client EXCEPT ![h] = "write"] ELSE client
    BY <2>1 DEF do_write, Go
  <2> HIDE DEF rest, prompted
  <2>5. \A g \in Hosts :
          /\ wire'[g] = IF g = h THEN rest ELSE wire[g]
          /\ client'[g] = IF g = h /\ prompted THEN "write" ELSE client[g]
    BY <1>0, <2>1, <2>4 DEF rest
  <2>6. ASSUME NEW g \in Hosts \ marked PROVE Turns(g)'
    <3>1. CASE g # h
      BY <2>3, <2>5, <3>1 DEF TakeTurns, Turns, InTurn
    <3>2. CASE g = h /\ ~prompted
      BY <2>2, <2>3, <2>5, <3>2 DEF TakeTurns, Turns, InTurn
    <3>3. CASE g = h /\ prompted
      <4>1. AtMostOnePrompt(rest) /\ Quiet(rest) /\ ~Quiet(wire[h])
        BY <2>2, <3>3 DEF TakeTurns, Turns
      <4>2. lines[h] = <<>> /\ shell[h] # "greet"
        BY <3>3, <4>1 DEF TakeTurns, Turns, InTurn
      <4> QED
        BY <2>3, <2>5, <3>3, <4>1, <4>2 DEF Turns, InTurn
    <3> QED
      BY <3>1, <3>2, <3>3
  <2> QED
    BY <2>3, <2>6 DEF TakeTurns
<1>5. CASE Written(h)
  <2>1. /\ lines' = [lines EXCEPT ![h] = Append(lines[h], typing[h])]
        /\ client' = [client EXCEPT ![h] = Onward(h)] /\ client[h] = "write"
        /\ UNCHANGED <<wire, shell, marked>>
    BY <1>5 DEF Written, Go
  <2>2. lines \in [Hosts -> Seq(Line \cup {Blank})] /\ Onward(h) # "write"
    BY DEF TypeOK, ConsoleTypeOK, Onward
  <2>3. \A g \in Hosts : g # h => lines'[g] = lines[g] /\ client'[g] = client[g]
    BY <1>0, <2>1, <2>2
  <2>4. lines[h] = <<>> => Len(lines'[h]) = 1
    BY <2>1, <2>2
  <2>5. client'[h] # "write"
    BY <1>0, <2>1, <2>2
  <2> QED
    BY <2>1, <2>3, <2>4, <2>5 DEF TakeTurns, Turns, InTurn
<1> QED
  BY <1>2, <1>3, <1>4, <1>5 DEF Client

LEMMA ShellTurns ==
  ASSUME TypeOK, TakeTurns, NEW h \in Hosts, Shell(h)
  PROVE  TakeTurns'
<1> USE DEF script
<1>0. wire \in [Hosts -> Seq(Piece)] /\ lines \in [Hosts -> Seq(Line \cup {Blank})]
      /\ Hosts = DOMAIN shell
  BY DEF TypeOK, ConsoleTypeOK
<1>1. ASSUME NEW text \in {Prompt, Text}, Says(h, text),
             UNCHANGED client, h \notin marked', marked' = marked,
             AtMostOnePrompt(wire[h]), Quiet(wire[h]), lines'[h] = <<>>, client[h] # "write",
             shell'[h] # "greet",
             \A g \in Hosts \ {h} : lines'[g] = lines[g] /\ shell'[g] = shell[g]
      PROVE  TakeTurns'
  <2>1. \A g \in Hosts : wire'[g] = IF g = h THEN wire[h] \o text ELSE wire[g]
    BY <1>0, <1>1 DEF Says
  <2>2. AtMostOnePrompt(wire[h] \o text)
    BY <1>0, <1>1, SaysProperties
  <2>3. Turns(h)'
    BY <1>1, <2>1, <2>2 DEF Turns, InTurn
  <2>4. ASSUME NEW g \in Hosts \ marked, g # h PROVE Turns(g)'
    BY <1>1, <2>1, <2>4 DEF TakeTurns, Turns, InTurn
  <2> QED
    BY <1>1, <2>3, <2>4 DEF TakeTurns
<1>2. CASE Greet(h)
  <2>1. \A g \in Hosts : shell'[g] = IF g = h THEN "prompt" ELSE shell[g]
    BY <1>0, <1>2 DEF Greet
  <2>2. shell[h] = "greet" /\ Says(h, Text) /\ UNCHANGED <<client, lines, marked>>
    BY <1>2 DEF Greet
  <2>3. CASE h \notin marked
    BY <1>1, <2>1, <2>2, <2>3 DEF TakeTurns, Turns, InTurn
  <2>4. CASE h \in marked
    <3>1. \A g \in Hosts : g # h => wire'[g] = wire[g]
      BY <1>0, <2>2 DEF Says
    <3> QED
      BY <2>1, <2>2, <2>4, <3>1 DEF TakeTurns, Turns, InTurn
  <2> QED
    BY <2>3, <2>4
<1>3. CASE RunLine(h)
  <2>1. /\ lines' = [lines EXCEPT ![h] = Tail(lines[h])] /\ lines[h] # <<>>
        /\ shell[h] = "prompt" /\ UNCHANGED client
    BY <1>3 DEF RunLine
  <2>2. /\ lines'[h] = Tail(lines[h]) /\ \A g \in Hosts \ {h} : lines'[g] = lines[g]
        /\ lines[h] \in Seq(Line \cup {Blank})
    BY <1>0, <2>1
  <2>3. h \notin marked => lines'[h] = <<>> /\ client[h] # "write" /\ Quiet(wire[h])
    <3>1. h \notin marked => Len(lines[h]) <= 1 /\ client[h] # "write" /\ Quiet(wire[h])
      BY <2>1 DEF TakeTurns, Turns, InTurn
    <3> DEFINE rest == Tail(lines[h])
               length == Len(lines[h])
    <3>2. rest \in Seq(Line \cup {Blank}) /\ Len(rest) = length - 1 /\ length \in Nat
      BY <2>1, <2>2, HeadTailProperties
    <3>3. lines'[h] = rest /\ (h \notin marked => length <= 1)
      BY <2>2, <3>1
    <3> HIDE DEF rest, length
    <3>4. length <= 1 => Len(rest) = 0
      BY <3>2
    <3>5. Len(rest) = 0 => rest = <<>>
      BY <3>2, EmptySeq
    <3> QED
      BY <3>1, <3>3, <3>4, <3>5
  <2>4. CASE Head(lines[h]) = "exit"
    <3>1. shell' = [shell EXCEPT ![h] = "gone"] /\ UNCHANGED <<wire, marked>>
      BY <1>3, <2>4 DEF RunLine
    <3>2. \A g \in Hosts : shell'[g] = IF g = h THEN "gone" ELSE shell[g]
      BY <1>0, <3>1
    <3>3. ASSUME NEW g \in Hosts \ marked PROVE Turns(g)'
      <4>1. CASE g = h
        BY <2>1, <2>3, <3>1, <3>2, <3>3, <4>1 DEF TakeTurns, Turns, InTurn
      <4>2. CASE g # h
        BY <2>1, <2>2, <3>1, <3>2, <3>3, <4>2 DEF TakeTurns, Turns, InTurn
      <4> QED
        BY <4>1, <4>2
    <3> QED
      BY <3>1, <3>3 DEF TakeTurns
  <2>5. CASE Head(lines[h]) # "exit"
    <3>1. PICK output \in Output(Head(lines[h])) :
            /\ Says(h, output)
            /\ marked' = IF output = Mark THEN marked \cup {h} ELSE marked
            /\ UNCHANGED shell
      BY <1>3, <2>5 DEF RunLine
    <3>2. output \in {Prompt, Text, Mark}
      BY DEF Output
    <3>3. CASE h \in marked'
      <4>1. \A g \in Hosts : g # h => wire'[g] = wire[g]
        BY <1>0, <3>1 DEF Says
      <4> QED
        BY <2>1, <2>2, <3>1, <3>3, <4>1 DEF TakeTurns, Turns, InTurn
    <3>4. CASE h \notin marked'
      <4>1. h \notin marked /\ marked' = marked /\ output # Mark
        BY <3>1, <3>4
      <4>3. output \in {Prompt, Text}
        BY <3>2, <4>1
      <4>4. AtMostOnePrompt(wire[h])
        BY <4>1 DEF TakeTurns, Turns
      <4> QED
        BY <1>1, <2>1, <2>2, <2>3, <3>1, <3>4, <4>1, <4>3, <4>4
    <3> QED
      BY <3>3, <3>4
  <2> QED
    BY <2>4, <2>5
<1>4. CASE HangUp(h)
  <2>1. /\ \A g \in Hosts : wire'[g] = IF g = h THEN <<>> ELSE wire[g]
        /\ \A g \in Hosts : shell'[g] = IF g = h THEN "gone" ELSE shell[g]
        /\ UNCHANGED <<client, lines, marked>>
    BY <1>0, <1>4 DEF HangUp
  <2>2. AtMostOnePrompt(<<>>) /\ Quiet(<<>>)
    BY DEF AtMostOnePrompt, Quiet
  <2> QED
    BY <2>1, <2>2 DEF TakeTurns, Turns, InTurn
<1> QED
  BY <1>2, <1>3, <1>4 DEF Shell

\* A console never types ahead of the shell it plays a script to.
THEOREM InStepHolds == Spec => []InStep
<1>1. Init => TakeTurns
  BY DEF Init, ConsoleInit, TakeTurns, Turns, InTurn, AtMostOnePrompt, Quiet
<1>2. TypeOK /\ TakeTurns /\ [Next]_vars => TakeTurns'
  <2> SUFFICES ASSUME TypeOK, TakeTurns, [Next]_vars PROVE TakeTurns'
    OBVIOUS
  <2>1. ASSUME UNCHANGED consoleVars PROVE TakeTurns'
    BY <2>1 DEF consoleVars, script, remote, TakeTurns, Turns, InTurn
  <2>2. ASSUME NEW query, Start(query) PROVE TakeTurns'
    BY <2>2 DEF Start, TakeTurns, Turns, InTurn, AtMostOnePrompt, Quiet
  <2>3. ASSUME NEW c \in Conns, Handle(c) PROVE TakeTurns'
    BY <2>1, <2>2, <2>3 DEF Handle, Run, NoConsole
  <2>4. ASSUME NEW h \in Hosts, Program(h) PROVE TakeTurns'
    BY <2>4, ClientTurns, ShellTurns DEF Program
  <2>5. CASE BrowserLeaves
    BY <2>5 DEF BrowserLeaves, script, remote, TakeTurns, Turns, InTurn
  <2>6. ASSUME NEW c \in Conns, Dial(c) \/ Arrive(c) \/ Accept(c) \/ Drop(c)
        PROVE  UNCHANGED consoleVars
    BY <2>6 DEF Dial, Arrive, Accept, Drop
  <2>7. CASE Reaped \/ UNCHANGED vars
    BY <2>1, <2>7 DEF Reaped, vars
  <2> QED
    BY <2>1, <2>3, <2>4, <2>5, <2>6, <2>7 DEF Next, Server
<1>3. TakeTurns => InStep
  BY DEF TakeTurns, Turns, InTurn, InStep, Quiet
<1> QED
  BY <1>1, <1>2, <1>3, TypeCorrect, PTL DEF Spec
=============================================================================
