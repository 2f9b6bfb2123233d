------------------------------- MODULE Render -------------------------------
(***************************************************************************)
(* render.c: the streaming markdown renderer that main.c puts between      *)
(* on_text and an interactive terminal.  Text is a sequence of characters, *)
(* strings of length one but for "tick", the backtick; output is one of    *)
(* characters and SGR codes.  A renderer is a record, and its operations   *)
(* are functions of it; out is the caller's buffer, without a cap here.    *)
(***************************************************************************)
EXTENDS Naturals, Sequences

CONSTANT RenderLineMax   \* kRenderLineMax

(* The SGR codes; bold and dim are switched off by the same one. *)
BoldOn == <<"[1m">>
BoldOff == <<"[22m">>
ItalicOn == <<"[3m">>
ItalicOff == <<"[23m">>
CodeOn == <<"[36m">>
CodeOff == <<"[39m">>
DimOn == <<"[2m">>
DimOff == <<"[22m">>

Least(S) == CHOOSE i \in S : \A j \in S : i <= j
From(p, i) == SubSeq(p, i, Len(p))

(* The first position from i on with a character other than those of cs,   *)
(* or the end.                                                             *)
Past(p, i, cs) == Least({j \in i .. Len(p) + 1 : j = Len(p) + 1 \/ p[j] \notin cs})

(* find_char: the positions of c from i on. *)
Positions(p, i, c) == {j \in i .. Len(p) : p[j] = c}

(* One step of the inline scan: what is shown, and where it goes on. *)
Shown(s, next) == [shown |-> s, next |-> next]

(* Mutant: a closing run of any length will do. *)
ClosersAny(p, i, run) ==
  {k \in Positions(p, i + run, "*") : k = i + run \/ p[k - 1] # "*"}

(* emphasis's search, run by run: the first run is counted from the end of *)
(* the opener, and one shorter than the opener does not close it.          *)
Closers(p, i, run) ==
  {k \in Positions(p, i + run, "*") :
     (k = i + run \/ p[k - 1] # "*") /\ Past(p, k, {"*"}) - k >= run}

(* emphasis: one or two stars. *)
Emphasis(p, i) ==
  LET run   == IF i < Len(p) /\ p[i + 1] = "*" THEN 2 ELSE 1
      close == Least(Closers(p, i, run))
      on    == IF run = 2 THEN BoldOn ELSE ItalicOn
      off   == IF run = 2 THEN BoldOff ELSE ItalicOff
  IN  IF Closers(p, i, run) = {} THEN Shown(SubSeq(p, i, i + run - 1), i + run)
      ELSE Shown(on \o SubSeq(p, i + run, close - 1) \o off, close + run)

Span(p, i) ==
  LET ticks == Positions(p, i + 1, "tick")
  IN  CASE p[i] = "\\" /\ i < Len(p)   -> Shown(<<p[i + 1]>>, i + 2)
        [] p[i] = "tick" /\ ticks # {} ->
             Shown(CodeOn \o SubSeq(p, i + 1, Least(ticks) - 1) \o CodeOff, Least(ticks) + 1)
        [] p[i] = "*"                  -> Emphasis(p, i)
        [] OTHER                       -> Shown(<<p[i]>>, i + 1)

(* inline_pass: left to right, without looking back. *)
InlinePass(p) ==
  LET scan[i \in 1 .. Len(p) + 2] ==
        IF i > Len(p) THEN <<>> ELSE Span(p, i).shown \o scan[Span(p, i).next]
  IN  scan[1]

(* is_fence: three backticks or tildes behind any number of spaces. *)
IsFence(p) ==
  LET i == Past(p, 1, {" "})
  IN  i + 2 <= Len(p) /\ \E c \in {"tick", "~"} : \A j \in i .. i + 2 : p[j] = c

(* block_prefix: the length of the quote or list marker of a line. *)
Digits == {"0", "1"}
BlockPrefix(p) ==
  LET i == Past(p, 1, {" ", "\t"})
      j == Past(p, i, Digits)
      spaced(k) == k < Len(p) /\ p[k + 1] = " "
  IN  CASE i > Len(p) -> 0
        [] i <= Len(p) /\ p[i] = ">" -> IF spaced(i) THEN i + 1 ELSE i
        [] i <= Len(p) /\ p[i] \in {"-", "*", "+"} /\ spaced(i) -> i + 1
        [] i < j /\ j <= Len(p) /\ p[j] \in {".", ")"} /\ spaced(j) -> j + 1
        [] OTHER -> 0

(* normal_line: a heading loses up to three spaces, its hashes and a space *)
(* and is bold; else a marker stays as it is before the inline scan.       *)
NormalLine(p) ==
  LET i      == Least({j \in 1 .. 4 : j = 4 \/ j > Len(p) \/ p[j] # " "})
      text   == Least({j \in i .. i + 6 : j = i + 6 \/ j > Len(p) \/ p[j] # "#"})
      prefix == BlockPrefix(p)
  IN  IF text > i /\ (text > Len(p) \/ p[text] = " ")
      THEN BoldOn \o From(p, text + 1) \o BoldOff
      ELSE SubSeq(p, 1, prefix) \o InlinePass(From(p, prefix + 1))

(* style_line, in or out of a fenced block. *)
StyleLine(fenced, p) ==
  CASE IsFence(p)             -> DimOn \o p \o DimOff
    [] ~IsFence(p) /\ fenced  -> CodeOn \o p \o CodeOff
    [] ~IsFence(p) /\ ~fenced -> NormalLine(p)

RenderInit == [line |-> <<>>, in_fence |-> FALSE, line_overflowed |-> FALSE,
               ended_newline |-> TRUE, out |-> <<>>]

(* The complete line leaves the renderer. *)
Styled(r) ==
  [r EXCEPT !.in_fence = IF IsFence(r.line) THEN ~@ ELSE @,
            !.out = @ \o StyleLine(r.in_fence, r.line), !.line = <<>>]

(* render_feed, per character; a line past the cap is flushed raw. *)
RenderChar(r, c) ==
  CASE c = "\n" ->
         LET s == IF r.line_overflowed THEN r ELSE Styled(r)
         IN  [s EXCEPT !.line_overflowed = FALSE, !.out = Append(@, c), !.ended_newline = TRUE]
    [] c # "\n" /\ r.line_overflowed ->
         [r EXCEPT !.out = Append(@, c), !.ended_newline = FALSE]
    [] c # "\n" /\ ~r.line_overflowed /\ Len(r.line) < RenderLineMax ->
         [r EXCEPT !.line = Append(@, c)]
    [] OTHER ->
         [r EXCEPT !.out = Append(@ \o r.line, c), !.line = <<>>,
                   !.line_overflowed = TRUE, !.ended_newline = FALSE]

RenderFeed(r, chars) ==
  LET fed[i \in 0 .. Len(chars)] == IF i = 0 THEN r ELSE RenderChar(fed[i - 1], chars[i])
  IN  fed[Len(chars)]

(* render_flush, at the end of a turn. *)
RenderFlush(r) ==
  LET s == IF ~r.line_overflowed /\ r.line # <<>>
           THEN [Styled(r) EXCEPT !.ended_newline = FALSE] ELSE r
  IN  [s EXCEPT !.line = <<>>, !.line_overflowed = FALSE, !.in_fence = FALSE]

===========================================================================
