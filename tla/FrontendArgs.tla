---------------------------- MODULE FrontendArgs ----------------------------
(***************************************************************************)
(* Frontend with the marshalling of Marshal: what the hooks see of a call's*)
(* arguments, and what becomes of those they hand back.                    *)
(***************************************************************************)
EXTENDS Frontend, Marshal

ASSUME MarshalledAssumption ==
  /\ Failed = NoValue
  /\ \A a \in Args : Shown(a) = LuaArgs(a)
  /\ \A v \in Tables \cup {LuaArgs(a) : a \in Args} : Captured(v) = CaptureToolPreArgs(v)

(* A hook that returns the arguments it was shown changes nothing about    *)
(* them that Lua can express, however they are nested: what runs means what*)
(* was proposed, and arguments that would not survive the way through Lua  *)
(* and back (a null before a value in an array) run as they were proposed. *)
EchoKeepsArgs ==
  pc = "run" /\ d.event = "ToolPre" /\ ~d.foreign =>
    Meaning[MarshalDepthCap][call.args] = Meaning[MarshalDepthCap][call.proposed]

=============================================================================
