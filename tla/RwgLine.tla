------------------------------- MODULE RwgLine -------------------------------
(***************************************************************************)
(* What a user of the remote working ground types, and what its parser     *)
(* makes of what one read returns.  A typed line is the sequence of its    *)
(* segments, as in ShellLine; ">n" and "<n" are a segment's send and       *)
(* receive (0: none), and arg is its first argument: a user number, a      *)
(* name, a value.  A ! always has its number.                              *)
(***************************************************************************)
EXTENDS PipeTable

CONSTANTS Names,        \* the names users may choose
          Values,       \* the values users may give a variable
          NoArg,        \* a command without its argument
          Word          \* a command's word that was read as an argument

\* "nothing", "spaces" and "newline" are segments without a word: empty, of
\* blanks only, and with the end of a line in it.
Wordless == {"nothing", "spaces", "newline"}
NeedArg == {"printenv", "setenv", "tell", "name"}
Kind == NeedArg \cup {"exec", "exit", "who", "yell"} \cup Wordless
Argument == Names \cup Values \cup Nat \cup {NoArg, Word}
Segment == [kind : Kind, mark : Mark, lineToPipe : Nat, tag : Tag, arg : Argument,
            send : Nat, receive : Nat]
Cmd == {s \in Segment : s.kind # "nothing"}

\* The parser keeps every segment that is not empty.
Input(text) == LET kept(s) == s.kind # "nothing" IN SelectSeq(text, kept)

\* What the server ignores.  It looks for a character other than a blank: the
\* end of a line inside the text is one.
IsBlank(text) ==
  \A j \in DOMAIN text : text[j].kind \in {"spaces", "nothing"} /\ text[j].mark = NoMark

\* The end of a line between segments c and d is one more blank.
Join(c, d) ==
  IF c.kind \in Wordless
  THEN IF d.kind \in Wordless THEN [d EXCEPT !.kind = "newline"] ELSE d
  ELSE [c EXCEPT !.arg = IF @ = NoArg /\ d.kind \notin Wordless THEN Word ELSE @,
                 !.send = IF d.send > 0 THEN d.send ELSE @,
                 !.receive = IF d.receive > 0 THEN d.receive ELSE @,
                 !.mark = d.mark, !.lineToPipe = d.lineToPipe]

\* One read returns all that has been typed, and only the last end of a line
\* is removed from it.
Text(typed) ==
  LET glue(p, q) == Front(p) \o <<Join(Last(p), Head(q))>> \o Tail(q)
  IN  FoldLeft(glue, Head(typed), Tail(typed))
=============================================================================
