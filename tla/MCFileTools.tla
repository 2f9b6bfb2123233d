--------------------------- MODULE MCFileTools ---------------------------
(* Instances of FileTools for TLC. *)
EXTENDS FileTools

CONSTANT MaxFile   \* bound: the length of the file

SeqsUpTo(S, n) == UNION {[1 .. k -> S] : k \in 0 .. n}

MCFiles == SeqsUpTo({"x", "LF"}, MaxFile) \cup SeqsUpTo({"x", "y"}, 3)
           \cup {<<"x", "LF", "NUL">>, <<"x", "LF", "x", "LF", "NUL">>, <<"NUL">>}

MCOthers == {<<>>, <<"x">>, <<"x", "LF", "x", "x">>}

Read(f, l)  == [tool |-> "read", path |-> TRUE, from |-> f, limit |-> l]
Write(c)    == [tool |-> "write", path |-> TRUE, content |-> c]
Edit(o, n)  == [tool |-> "edit", path |-> TRUE, old |-> o, new |-> n]

MCCalls ==
  {Read(f, l) : f \in {1, 2, 3}, l \in {1, 2, Unlimited}} \cup {Read(0, 1), Read(1, 0)} \cup
  {Write(<<>>), Write(<<"y", "y">>)} \cup
  {Edit(<<"x">>, <<>>), Edit(<<"x", "x">>, <<"y">>), Edit(<<"x">>, <<"y", "y">>),
   Edit(<<>>, <<"x">>), Edit(<<"x">>, <<"x">>)} \cup
  {[tool |-> "write", path |-> FALSE, content |-> <<>>]}

==========================================================================
