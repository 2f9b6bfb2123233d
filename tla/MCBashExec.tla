---------------------------- MODULE MCBashExec ----------------------------
(* Instances of BashExec for TLC. *)
EXTENDS BashExec

===========================================================================
