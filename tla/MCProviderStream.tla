------------------------- MODULE MCProviderStream -------------------------
(* Terminal for TLC. *)
EXTENDS Terminal, SequencesExt

(* Texts: every one of up to five characters, and every one of up to three *)
(* of these lines, the last one with and without its newline.              *)
Alphabet == {"x", " ", "*", "tick", "\\", "#", "\n"}

Xs == [i \in 1 .. 4 |-> "x"]
Ticks == <<"tick", "tick", "tick">>
SomeLines ==
  {<<>>, <<"x">>, Ticks, <<" ">> \o Ticks, <<"~", "~", "~", "x">>, Ticks \o Xs, Xs \o Xs,
   <<"#", " ", "x">>, <<"-", " ", "*", "x", "*">>, <<"1", ".", " ", "tick", "tick">>,
   <<">", "*", "*", "*", "*">>, <<"x", "\\", "*", "x", "*">>}

MCTexts == SeqOf(Alphabet, 5)
           \cup {k \o <<"\n">> \o l \o <<"\n">> \o m \o n :
                   k \in SomeLines, l \in SomeLines, m \in SomeLines, n \in {<<>>, <<"\n">>}}
           \cup {Ticks \o [i \in 1 .. 8 |-> "\n"]}

MCChar == Alphabet \cup {"~", "-", "1", ".", ">"}

(* The text of a piece: spans, a fence and a line's end cut by the deltas. *)
MCPiece == [x \in Payload |->
              CASE x[2] = 1 -> <<"*", "*", "x">>
                [] x[2] = 2 -> <<"*", "*", "\n", "tick", "tick">>
                [] OTHER    -> <<"tick", "\n", "#">>]

===========================================================================
