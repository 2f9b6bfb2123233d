------------------------------ MODULE Marshal ------------------------------
(***************************************************************************)
(* The three value worlds a tool's arguments cross on the way to a Lua hook*)
(* and back: JSON (cJSON), the API's Object, and Lua.  The walks of json.c *)
(* and lua/bridge.c are iterative with an explicit stack of                *)
(* kMarshalDepthCap frames; here each is a function for every depth, made  *)
(* from the one for the children, and the stack bounds the depth.          *)
(*                                                                         *)
(* A value is a record with its type in t:                                 *)
(*   JSON    null, scalars, arrays, objects: a sequence of members         *)
(*           <<name, value>>, in which a name may occur twice              *)
(*   Object  Nil, scalars, Array, Dict                                     *)
(*   Lua     nil, scalars, functions, tables: a set of entries             *)
(*           <<key, value>>, a key being <<"int", n>> or <<"str", name>>   *)
(***************************************************************************)
EXTENDS Naturals, Sequences, SequencesExt, FiniteSets

CONSTANTS
  MarshalDepthCap,   \* kMarshalDepthCap
  Scalars,           \* booleans, numbers, strings
  Names,             \* the strings that name members
  Failed             \* no value: the conversion failed

ASSUME MarshalAssumption == MarshalDepthCap \in Nat \ {0}

CjsonTypes  == [null |-> "null", scalar |-> "scalar", array |-> "array", object |-> "object"]
ObjectTypes == [null |-> "Nil", scalar |-> "Scalar", array |-> "Array", object |-> "Dict"]

(* The values at most h containers deep. *)
Trees(type) ==
  LET leaves == [t : {type.null}] \cup [t : {type.scalar}, v : Scalars]
      trees[h \in Nat] ==
        IF h = 0 THEN leaves
        ELSE leaves \cup [t : {type.array}, kids : Seq(trees[h - 1])]
                    \cup [t : {type.object}, kids : Seq(Names \X trees[h - 1])]
  IN  trees

Json == Trees(CjsonTypes)
Object == Trees(ObjectTypes)

---------------------------------------------------------------------------
(* JSON and Object. *)

(* cjson_node_init and object_make_node, and what their walks fill in: the *)
(* same tree in the other world's types; kid converts the children.        *)
Node(x, from, to, kid) ==
  CASE x.t = from.null   -> [t |-> to.null]
    [] x.t = from.scalar -> [t |-> to.scalar, v |-> x.v]
    [] x.t = from.array  -> [t |-> to.array, kids |-> [i \in DOMAIN x.kids |-> kid[x.kids[i]]]]
    [] x.t = from.object -> [t |-> to.object, kids |->
                               [i \in DOMAIN x.kids |-> <<x.kids[i][1], kid[x.kids[i][2]]>>]]

Conversion(from, to) ==
  LET convert[h \in Nat] ==
        IF h = 0 THEN [x \in Trees(from)[0] |-> Node(x, from, to, <<>>)]
        ELSE [x \in Trees(from)[h] |-> Node(x, from, to, convert[h - 1])]
  IN  convert

ObjectNode == Conversion(CjsonTypes, ObjectTypes)
ObjectToCjson == Conversion(ObjectTypes, CjsonTypes)

CjsonToObject(j) == IF j \in Json[MarshalDepthCap] THEN ObjectNode[MarshalDepthCap][j] ELSE Failed

---------------------------------------------------------------------------
(* Object to Lua. *)

LuaNil == [t |-> "nil"]

NamesIn(kids) == {kids[i][1] : i \in DOMAIN kids}

(* The value lua_rawset leaves under a name: the last one. *)
LastOf(kids, name) ==
  kids[CHOOSE i \in DOMAIN kids :
         kids[i][1] = name /\ \A k \in DOMAIN kids : kids[k][1] = name => k <= i][2]

(* push_scalar, or a table; a nil is no entry.  push is for the children.  *)
Pushed(o, push) ==
  CASE o.t = "Nil"    -> LuaNil
    [] o.t = "Scalar" -> [t |-> "scalar", v |-> o.v]
    [] o.t = "Array"  ->
         [t |-> "table", at |-> {<<<<"int", i>>, push[o.kids[i]]>> :
                                   i \in {k \in DOMAIN o.kids : o.kids[k].t # "Nil"}}]
    [] o.t = "Dict"   ->
         [t |-> "table", at |-> {<<<<"str", n>>, push[LastOf(o.kids, n)]>> :
                                   n \in {m \in NamesIn(o.kids) : LastOf(o.kids, m).t # "Nil"}}]

ObjectToLua ==
  LET push[h \in Nat] ==
        IF h = 0 THEN [o \in Object[0] |-> Pushed(o, <<>>)]
        ELSE [o \in Object[h] |-> Pushed(o, push[h - 1])]
  IN  push

---------------------------------------------------------------------------
(* Lua to Object. *)

(* Mutant: integer keys without regard to holes make an array. *)
ClassifyTableHoled(keys) ==
  IF \A k \in keys : k[1] = "int" THEN "Array"
  ELSE IF \A k \in keys : k[1] = "str" THEN "Dict" ELSE "invalid"

(* classify_table: the keys 1 .. n, none included, make an array; strings  *)
(* a dict; anything else cannot be stored.                                 *)
ClassifyTable(keys) ==
  IF keys = {<<"int", i>> : i \in 1 .. Cardinality(keys)} THEN "Array"
  ELSE IF \A k \in keys : k[1] = "str" THEN "Dict" ELSE "invalid"

KeysOf(at) == {entry[1] : entry \in at}

(* The values lua_pop_object takes, at most h tables deep: no functions,   *)
(* and no table that classify_table calls invalid.                         *)
Storable ==
  LET leaves == {LuaNil} \cup [t : {"scalar"}, v : Scalars]
      keys == ({"int"} \X Nat) \cup ({"str"} \X Names)
      tables(values) == {at \in SUBSET (keys \X values) :
                           /\ IsFiniteSet(at) /\ \A e, f \in at : e[1] = f[1] => e = f
                           /\ ClassifyTable(KeysOf(at)) # "invalid"}
      storable[h \in Nat] ==
        IF h = 0 THEN leaves
        ELSE leaves \cup [t : {"table"}, at : tables(storable[h - 1] \ {LuaNil})]
  IN  storable

RawGet(at, key) == IF key \in KeysOf(at) THEN (CHOOSE e \in at : e[1] = key)[2] ELSE LuaNil

(* scalarize, or table_init with the children by pop; members come in any  *)
(* order.                                                                  *)
Popped(v, pop) ==
  CASE v.t = "nil"    -> [t |-> "Nil"]
    [] v.t = "scalar" -> [t |-> "Scalar", v |-> v.v]
    [] v.t = "table"  ->
         LET keys == KeysOf(v.at)
             names == SetToSeq({k[2] : k \in keys})
         IN  IF ClassifyTable(keys) = "Array"
             THEN [t |-> "Array", kids |-> [i \in 1 .. Cardinality(keys) |->
                                              pop[RawGet(v.at, <<"int", i>>)]]]
             ELSE [t |-> "Dict", kids |-> [i \in DOMAIN names |->
                                             <<names[i], pop[RawGet(v.at, <<"str", names[i]>>)]>>]]

PopNode ==
  LET pop[h \in Nat] ==
        IF h = 0 THEN [v \in Storable[0] |-> Popped(v, <<>>)]
        ELSE [v \in Storable[h] |-> Popped(v, pop[h - 1])]
  IN  pop

LuaPopObject(v) == IF v \in Storable[MarshalDepthCap] THEN PopNode[MarshalDepthCap][v] ELSE Failed

---------------------------------------------------------------------------
(* The arguments as a hook or a registered tool gets them. *)
LuaArgs(j) ==
  LET o == CjsonToObject(j) IN IF o = Failed THEN Failed ELSE ObjectToLua[MarshalDepthCap][o]

(* capture_tool_pre_args and object_to_cjson. *)
CaptureToolPreArgs(v) ==
  LET o == LuaPopObject(v) IN
  IF o = Failed \/ o = [t |-> "Nil"] THEN Failed ELSE ObjectToCjson[MarshalDepthCap][o]

(* What a JSON value says to a reader who takes a null member for a missing*)
(* one, the last of two members of one name, and an empty object for an    *)
(* empty array.                                                            *)
Said(j, kid) ==
  CASE j.t = "null"   -> {}
    [] j.t = "scalar" -> {<<"value", j.v>>}
    [] j.t = "array"  -> {<<"int", i, kid[j.kids[i]]>> :
                            i \in {k \in DOMAIN j.kids : j.kids[k].t # "null"}}
    [] j.t = "object" -> {<<"str", n, kid[LastOf(j.kids, n)]>> :
                            n \in {m \in NamesIn(j.kids) : LastOf(j.kids, m).t # "null"}}

Meaning ==
  LET said[h \in Nat] ==
        IF h = 0 THEN [j \in Json[0] |-> Said(j, <<>>)]
        ELSE [j \in Json[h] |-> Said(j, said[h - 1])]
  IN  said

============================================================================
