---------------------------- MODULE MCFrontend ----------------------------
(* FrontendArgs for TLC. *)
EXTENDS FrontendArgs

Null == [t |-> "null"]
Num(n) == [t |-> "scalar", v |-> n]
Arr(s) == [t |-> "array", kids |-> s]
Obj(s) == [t |-> "object", kids |-> s]

(* The shapes the conversions tell apart; MarshalDepthCap is 2. *)
AllArgs == {
  Null, Arr(<<Num(1)>>), Obj(<<>>),
  Obj(<<<<"a", Num(1)>>>>),
  Obj(<<<<"a", Num(1)>>, <<"b", Null>>>>),
  Obj(<<<<"a", Num(1)>>, <<"a", Num(2)>>>>),
  Obj(<<<<"a", Arr(<<Num(1), Null>>)>>>>),
  Obj(<<<<"a", Arr(<<Null, Num(1)>>)>>>>),
  Obj(<<<<"a", Obj(<<>>)>>>>),
  Obj(<<<<"a", Arr(<<Arr(<<>>)>>)>>>>) }

(* Arguments too deep for cjson_to_object. *)
DeepArgs == {Obj(<<<<"a", Arr(<<Arr(<<>>)>>)>>>>)}

LuaTable(at) == [t |-> "table", at |-> at]

MCTables == {
  LuaTable({<<<<"str", "a">>, Num(9)>>}),
  LuaTable({<<<<"str", "a">>, Num(9)>>, <<<<"int", 1>>, Num(9)>>}) }

MCWindow(m) == CASE m = "m1" -> 100 [] m = "m2" -> 200 [] OTHER -> 0
MCIsObject(j) == j.t = "object"
MCIsTable(v) == v.t = "table"

Mode(repl, yes, locked, cli) == [repl |-> repl, yes |-> yes, locked |-> locked, cli |-> cli]

MCModes == {Mode(TRUE, FALSE, FALSE, NoModel), Mode(TRUE, TRUE, TRUE, NoModel),
            Mode(FALSE, FALSE, FALSE, NoModel), Mode(TRUE, FALSE, FALSE, "m1")}

Interactive == {Mode(TRUE, FALSE, FALSE, NoModel)}

===========================================================================
