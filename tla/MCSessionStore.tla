-------------------------- MODULE MCSessionStore --------------------------
(* Instances of SessionStore for TLC. *)
EXTENDS SessionStore

(* Files written by an earlier run, or by a later version of the program. *)
MCInitialFiles ==
  {[lines |-> <<Header, Control>>, tail |-> NoTail],
   [lines |-> <<Header>>, tail |-> Control]}

(* Files a second process may resume while the first one still writes. *)
MCSharedFiles ==
  {[lines |-> <<Header>>, tail |-> NoTail],
   [lines |-> <<Header>>, tail |-> Control]}

===========================================================================
