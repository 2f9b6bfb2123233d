---------------------------- MODULE MCRpcServer ----------------------------
(* RpcServer with scripts of three frames, of sizes 1 to 5, and the codec  *)
(* of Msgpack, with a depth cap of 3, on small inputs.                     *)
EXTENDS RpcWire

Set(n, v) == [fn |-> "set_var", name |-> n, value |-> v]
Req(c, z) == [kind |-> "request", call |-> c, size |-> z]
Bad == [fn |-> "bad"]

MCFrames ==
  {Req(Set("a", "v"), 1), Req(Set("", "v"), 1), Req([fn |-> "get_var", name |-> ""], 1),
   Req(Set("b", "w"), 3), Req(Set("a", "nil"), 2),
   Req([fn |-> "get_var", name |-> "a"], 1),
   Req([fn |-> "set_option", value |-> 2], 1), Req([fn |-> "set_option", value |-> 7], 1),
   Req([fn |-> "get_option"], 1), Req([fn |-> "sess_get"], 5),
   [kind |-> "notify", call |-> Set("a", "w"), size |-> 2],
   [kind |-> "notify", call |-> Bad, size |-> 1],
   [kind |-> "violation", call |-> Bad, size |-> 2],
   [kind |-> "corrupt", call |-> Bad, size |-> 1]}

(* A frame that changes nothing and reads no variable is in the middle of  *)
(* its script; and behind a violation, where nothing is read any more, is  *)
(* only the frame that would change most.                                  *)
Breaking == {f \in MCFrames : f.kind \in {"violation", "corrupt"}}
Idle     == {f \in MCFrames \ Breaking : f.call.fn \in {"get_option", "sess_get", "bad"}}
              \cup {Req([fn |-> "get_var", name |-> ""], 1),
                    Req([fn |-> "set_option", value |-> 7], 1)}

MCScripts ==
  {s \in {<<f, g, h>> : f \in MCFrames \ Idle, g \in MCFrames, h \in MCFrames \ Idle} :
     \A k \in 1 .. 3 : s[k] \in Breaking =>
       \A j \in k + 1 .. 3 : s[j] = Req(Set("b", "w"), 3)}

---------------------------------------------------------------------------
(* The codec's inputs. *)

Repeat(n, b) == [i \in 1 .. n |-> b]

(* The integers around every width's boundaries. *)
Words == {Repeat(8 - n, ext) \o <<h>> \o Repeat(n - 1, f) :
            n \in 1 .. 8, ext \in {0, 255}, h \in {0, 1, 127, 128, 223, 224, 255}, f \in {0, 255}}

Leaves == {[nil |-> 0], [boolean |-> TRUE], [boolean |-> FALSE]} \cup
          {[integer |-> w] : w \in Words} \cup
          {[floating |-> w] : w \in Words} \cup
          {[string |-> Repeat(n, 97)] : n \in {0, 1, 31, 32, 255, 256, 65535, 65536}}

Holding(o) == {[array |-> Repeat(n, o)] : n \in {0, 1, 15, 16, 31, 32}} \cup
              {[dict |-> [i \in 1 .. n |-> <<Repeat(i, 107), o>>]] : n \in {0, 1, 15, 16, 31, 32}}

Nested(os) == UNION {{[array |-> <<o, [nil |-> 0]>>], [dict |-> <<<< <<>>, o>>, <<<<107>>, o>>>>]}
                       : o \in os}

Small  == {[integer |-> Repeat(8, 255)], [string |-> <<107>>], [array |-> <<>>], [dict |-> <<>>]}
MCObjects ==
  Leaves \cup UNION {Holding(o) : o \in Small} \cup Nested(Small) \cup Nested(Nested(Small))
    \cup Nested(Nested(Nested({[array |-> <<>>], [dict |-> <<>>]})))

(* One byte of every format that fits in a short input, and a few lengths. *)
SomeBytes == {0, 2, 127, 128, 129, 145, 146, 161, 192, 193, 196, 204, 208, 217, 224}
MCInputs == SeqOf(SomeBytes, 3)
MCTails == {<<b>> : b \in SomeBytes}
MCCuts == 0 .. 39

(* The frames on the wire.  The values are an array and a string whose     *)
(* length has a byte of its own; a bad call's params, and a violation, are *)
(* no array.                                                               *)
Number(n) == [integer |-> Repeat(7, 0) \o <<n>>]
Str(b) == [string |-> <<b>>]
Val(v) == CASE v = "v" -> [array |-> <<[nil |-> 0]>>]
           [] v = "w" -> [string |-> Repeat(40, 119)]
           [] v = "nil" -> [nil |-> 0]
           [] v = "a" -> Str(97)
           [] v = "b" -> Str(98)
           [] v = "" -> [string |-> <<>>]

Params(c) == CASE c.fn = "set_var"    -> [array |-> <<Val(c.name), Val(c.value)>>]
               [] c.fn = "get_var"    -> [array |-> <<Val(c.name)>>]
               [] c.fn = "set_option" -> [array |-> <<Number(c.value)>>]
               [] c.fn = "bad"        -> [nil |-> 0]
               [] OTHER               -> [array |-> <<>>]

MCMessage(f) == CASE f.kind = "request"   -> [array |-> <<Number(0), Number(200), Str(109), Params(f.call)>>]
                  [] f.kind = "notify"    -> [array |-> <<Number(2), Str(109), Params(f.call)>>]
                  [] f.kind = "violation" -> Number(200)

MCGarbage(f) == <<193>>

===========================================================================
