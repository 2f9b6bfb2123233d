---------------------------- MODULE MCSseParser ----------------------------
(* Bodies: every concatenation of at most MaxSegments segments, and some   *)
(* longer streams of several events.                                       *)
EXTENDS SseParser

CONSTANT MaxSegments

Segments ==
  {<<"ef", "bb", "bf">>, <<"ef">>, <<"data", ":", " ", "x">>, <<"data">>, <<"event", ":", "x">>,
   <<"id", ":", "x">>, <<":", "x">>, <<"LF">>, <<"CR">>, <<"x", "x">>}

Concat(n) ==
  LET f[i \in 0 .. n] == IF i = 0 THEN {<<>>} ELSE {s \o t : s \in f[i - 1], t \in Segments}
  IN  f[n]

LongBodies ==
  {<<"ef", "bb", "data", "LF", "LF", "data", "LF", "LF">>,
   <<"data", ":", "x", "CR", "LF", "data", "CR", "LF", "CR", "LF">>,
   <<"id", ":", "x", "LF", "data", "LF", "LF", "data", "LF", "LF">>,
   <<"event", ":", "x", "LF", "LF", "data", "LF", "LF">>,
   <<"event", ":", "x", "LF", "data", "LF", "LF", "data", "CR", "CR">>,
   <<"id", ":", "NUL", "LF", "data", "LF", "LF">>,
   <<"id", ":", "x", "x", "LF", "data", "LF", "LF">>,
   <<"event", ":", "x", "x", "LF", "data", "LF", "LF">>,
   <<"data", ":", "x", "LF", "data", ":", "x", "LF", "data", "LF", "LF">>,
   <<"data", ":", " ", "x", "x", "LF", "LF", "data", "LF", "LF">>,
   <<"data", "LF", "LF", "id", ":", "x", "LF">>}

MCBodies == UNION {Concat(n) : n \in 1 .. MaxSegments} \cup LongBodies
===========================================================================
