------------------------------ MODULE Terminal ------------------------------
(***************************************************************************)
(* What a user sees of a streamed response: main.c's on_text feeds the     *)
(* text, piece by piece, to the renderer, and flushes it at the turn's end.*)
(***************************************************************************)
EXTENDS ProviderStream, Render, FiniteSets

Codes == {"[1m", "[3m", "[36m", "[2m", "[22m", "[23m", "[39m"}

CONSTANTS
  Char,    \* characters of texts
  Texts,   \* texts that are rendered at a time
  Piece    \* the text of a payload

ASSUME TerminalAssumption ==
  /\ RenderLineMax \in Nat
  /\ Char \cap Codes = {}
  /\ Texts \subseteq Seq(Char)
  /\ Piece \in [Payload -> Seq(Char)]

(* The renderer after the pieces, fed one by one. *)
Fed(pieces) ==
  LET f[i \in 0 .. Len(pieces)] ==
        IF i = 0 THEN RenderInit ELSE RenderFeed(f[i - 1], Piece[pieces[i]])
  IN  f[Len(pieces)]

(* The text of the pieces. *)
Spelt(pieces) ==
  LET f[i \in 0 .. Len(pieces)] == IF i = 0 THEN <<>> ELSE f[i - 1] \o Piece[pieces[i]]
  IN  f[Len(pieces)]

---------------------------------------------------------------------------
(* What a text is to a reader. *)

Closing == [c \in {"[1m", "[3m", "[36m", "[2m"} |->
              CASE c \in {"[1m", "[2m"} -> "[22m" [] c = "[3m" -> "[23m" [] c = "[36m" -> "[39m"]
Markers == {"*", "tick", "\\", "#", " "}

(* The elements of s that are in S, in order. *)
Only(s, S) ==
  LET f[i \in 0 .. Len(s)] ==
        IF i = 0 THEN <<>> ELSE IF s[i] \in S THEN Append(f[i - 1], s[i]) ELSE f[i - 1]
  IN  f[Len(s)]

(* One character more: a newline begins another line. *)
Grown(lines, c) ==
  IF c = "\n" THEN Append(lines, <<>>) ELSE [lines EXCEPT ![Len(lines)] = Append(@, c)]

(* The lines of s, the last one perhaps empty. *)
LinesOf(s) ==
  LET f[i \in 0 .. Len(s)] == IF i = 0 THEN << <<>> >> ELSE Grown(f[i - 1], s[i])
  IN  f[Len(s)]

Long(p) == Len(p) > RenderLineMax

(* The lines before line k that open or close a block. *)
Fences(p, k) == {j \in 1 .. k - 1 : ~Long(p[j]) /\ IsFence(p[j])}
Fenced(p, k) == Cardinality(Fences(p, k)) % 2 = 1

(* A line inside a block or at its edge, and a long one, is shown as it is.*)
(* Of any other only markers disappear, from the places where they are.    *)
LineShown(p, fenced, o) ==
  LET plain == Only(o, Char)
      codes == Only(o, Codes)
  IN  /\ Long(p) => o = p
      /\ fenced \/ IsFence(p) \/ (\A i \in DOMAIN p : p[i] \notin Markers \ {" "}) => plain = p
      /\ Only(plain, Char \ Markers) = Only(p, Char \ Markers)
      /\ \A c \in Markers : Len(Only(plain, {c})) <= Len(Only(p, {c}))
      /\ Len(codes) % 2 = 0
      /\ \A i \in DOMAIN codes : i % 2 = 1 =>
           codes[i] \in DOMAIN Closing /\ codes[i + 1] = Closing[codes[i]]

(* Bytes of the output. *)
Width(c) == CASE c \in {"[1m", "[3m", "[2m"} -> 4
              [] c \in Codes \ {"[1m", "[3m", "[2m"} -> 5
              [] OTHER -> 1

Bytes(s) == LET f[i \in 0 .. Len(s)] == IF i = 0 THEN 0 ELSE f[i - 1] + Width(s[i]) IN f[Len(s)]

(* What the renderer r has shown is the text. *)
Shows(text, r) ==
  LET p == LinesOf(text)
      o == LinesOf(r.out)
  IN  /\ Len(o) = Len(p)
      /\ \A k \in DOMAIN p : LineShown(p[k], Fenced(p, k), o[k])
      /\ r.ended_newline <=> (r.out = <<>> \/ r.out[Len(r.out)] = "\n")
      /\ Bytes(r.out) <= 11 * Len(text)

Faithful(text) == Shows(text, RenderFlush(RenderFeed(RenderInit, text)))

RendersFaithfully == \A text \in Texts : Faithful(text)

(* What the terminal shows is the text of the response: every line keeps   *)
(* every character that is not a marker, in order, and every span it opens *)
(* it closes; code blocks, their fences and lines past the cap are shown as*)
(* they are; ended_newline says whether the output ends a line; and it is  *)
(* at most eleven bytes for each byte of text.  A finished response is on  *)
(* the terminal as its whole text would be, whatever the deltas cut.       *)
TerminalExact ==
  /\ RendersFaithfully
  /\ finished = "done" =>
       RenderFlush(Fed(heard)) = RenderFlush(RenderFeed(RenderInit, Spelt(message[1].content)))

===========================================================================
