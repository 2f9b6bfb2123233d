------------------------------ MODULE Msgpack ------------------------------
(***************************************************************************)
(* msgpack.c, the codec of mua --embed: Objects to bytes and bytes to      *)
(* Objects.  The decoder's walk is iterative over a stack of               *)
(* kMarshalDepthCap frames, as in the code, since its cap decides a        *)
(* verdict; the encoder's is the tree it visits.                           *)
(*                                                                         *)
(* An Object is a record with one field, named for its type:               *)
(*   [nil |-> 0], [session |-> 0], [boolean |-> b], [integer |-> w],       *)
(*   [floating |-> w], [string |-> bytes], [array |-> Objects],            *)
(*   [dict |-> <<key, Object>> pairs, keys being bytes]                    *)
(* where w is the value's 64 bits as 8 bytes, the highest first.  The two  *)
(* conversions to a double are named: [single |-> 4 bytes] is (double) of  *)
(* a float32, [unsigned |-> w] (double) of a uint64 above INT64_MAX.       *)
(***************************************************************************)
EXTENDS Integers, Sequences, SequencesExt

CONSTANT MarshalDepthCap   \* kMarshalDepthCap

ASSUME MsgpackAssumption == MarshalDepthCap \in Nat

Byte == 0 .. 255
Widths == <<1, 2, 4, 8>>             \* of a number or a length, in bytes
Two16 == 65536
Limit == 1073741824                  \* 2^30, a length that no buffer reaches

Zeros(n) == [i \in 1 .. n |-> 0]
Low(w, n) == SubSeq(w, Len(w) - n + 1, Len(w))

(* The 2 or 4 bytes of a length below Limit, mp_put_be. *)
PutBe2(v) == <<v \div 256, v % 256>>
PutBe(v, n) == IF n = 2 THEN PutBe2(v) ELSE PutBe2(v \div Two16) \o PutBe2(v % Two16)

(* mp_be of a length's 1, 2 or 4 bytes, cut at Limit. *)
Be(bytes) ==
  LET pair(i) == 256 * bytes[i] + bytes[i + 1]
  IN  CASE Len(bytes) = 1 -> bytes[1]
        [] Len(bytes) = 2 -> pair(1)
        [] Len(bytes) = 4 -> IF bytes[1] >= 64 THEN Limit ELSE Two16 * pair(1) + pair(3)

---------------------------------------------------------------------------
(* The Objects at most h containers deep.  A session, which nothing        *)
(* converts to an Object yet, is none of them.                             *)

Short(s) == Len(s) < Limit
Bytes8 == {w \in Seq(Byte) : Len(w) = 8}
Text == {s \in Seq(Byte) : Short(s)}

Scalars == {[nil |-> 0]} \cup [boolean : BOOLEAN] \cup [integer : Bytes8]
             \cup [floating : Bytes8] \cup [string : Text]

Containers(children) == [array : {a \in Seq(children) : Short(a)}] \cup
                        [dict : {d \in Seq(Text \X children) : Short(d)}]

Object ==
  LET object[h \in Nat] ==
        IF h = 0 THEN Scalars ELSE Scalars \cup Containers(object[h - 1])
  IN  object

---------------------------------------------------------------------------
(* Encode. *)

IsNegative(w) == w[1] >= 128

(* Whether the n lowest bytes of w, zero- or sign-extended, are w. *)
FitsUnsigned(w, n) == \A i \in 1 .. 8 - n : w[i] = 0
FitsSigned(w, n) == w[9 - n] >= 128 /\ \A i \in 1 .. 8 - n : w[i] = 255

(* mp_emit_int: a fixint from -32 to 127, else the shortest uint or int. *)
EmitInt(w) ==
  LET fits(k) == IF IsNegative(w) THEN FitsSigned(w, Widths[k]) ELSE FitsUnsigned(w, Widths[k])
      k == CHOOSE i \in 1 .. 4 : fits(i) /\ \A j \in 1 .. i - 1 : ~fits(j)
  IN  IF k = 1 /\ (IF IsNegative(w) THEN w[8] >= 224 ELSE w[8] <= 127) THEN <<w[8]>>
      ELSE <<(IF IsNegative(w) THEN 207 ELSE 203) + k>> \o Low(w, Widths[k])

(* Mutant: five bits of length in every fix header. *)
EmitCountWide(n, fix, f16, f32) ==
  IF n <= 31 THEN <<fix + n>>
  ELSE IF n < Two16 THEN <<f16>> \o PutBe(n, 2)
  ELSE <<f32>> \o PutBe(n, 4)

(* mp_emit_count: the header of a string, array or map of n. *)
EmitCount(n, fix, f16, f32) ==
  IF n <= (IF fix = 160 THEN 31 ELSE 15) THEN <<fix + n>>
  ELSE IF n < Two16 THEN <<f16>> \o PutBe(n, 2)
  ELSE <<f32>> \o PutBe(n, 4)

EmitStr(s) == EmitCount(Len(s), 160, 218, 219) \o s

Has(obj, type) == type \in DOMAIN obj

(* mp_emit_node: a scalar, or the header of a container. *)
EmitNode(obj) ==
  CASE Has(obj, "nil") \/ Has(obj, "session") -> <<192>>
    [] Has(obj, "boolean")  -> IF obj.boolean THEN <<195>> ELSE <<194>>
    [] Has(obj, "integer")  -> EmitInt(obj.integer)
    [] Has(obj, "floating") -> <<203>> \o obj.floating
    [] Has(obj, "string")   -> EmitStr(obj.string)
    [] Has(obj, "array")    -> EmitCount(Len(obj.array), 144, 220, 221)
    [] Has(obj, "dict")     -> EmitCount(Len(obj.dict), 128, 222, 223)

(* MpEncFrame: how many children a container has, the i-th of them, and    *)
(* what is emitted ahead of it.                                            *)
Size(obj) == CASE Has(obj, "array") -> Len(obj.array)
               [] Has(obj, "dict")  -> Len(obj.dict)
               [] OTHER             -> 0
Child(obj, i) == IF Has(obj, "array") THEN obj.array[i] ELSE obj.dict[i][2]
Before(obj, i) == IF Has(obj, "array") THEN <<>> ELSE EmitStr(obj.dict[i][1])

(* msgpack_encode on the Objects at most h deep: the tree in preorder, a   *)
(* key before its value; enc is the function for the children.             *)
Preorder(obj, enc) ==
  LET upto[i \in 0 .. Size(obj)] ==
        IF i = 0 THEN EmitNode(obj)
        ELSE upto[i - 1] \o Before(obj, i) \o enc[Child(obj, i)]
  IN  upto[Size(obj)]

Encoding ==
  LET enc[h \in Nat] ==
        IF h = 0 THEN [o \in Scalars |-> EmitNode(o)]
        ELSE [o \in Object[h] |-> Preorder(o, enc[h - 1])]
  IN  enc

(* Deeper Objects cannot occur: the walk asserts that. *)
MsgpackEncode(obj) == Encoding[MarshalDepthCap][obj]

---------------------------------------------------------------------------
(* Decode.  pos is the number of bytes consumed. *)

Incomplete == [st |-> "incomplete"]
Malformed  == [st |-> "error"]
Complete(obj, pos) == [st |-> "ok", obj |-> obj, pos |-> pos]

(* What a format byte announces: the kind of value, and the width of the   *)
(* number or length that follows it (0: the byte holds it).                *)
Format(b) ==
  LET f(kind, width) == [kind |-> kind, width |-> width]
  IN  CASE b <= 127 \/ b >= 224 -> f("fixint", 0)
        [] b \in 128 .. 143     -> f("dict", 0)
        [] b \in 144 .. 159     -> f("array", 0)
        [] b \in 160 .. 191     -> f("string", 0)
        [] b = 192              -> f("nil", 0)
        [] b \in {194, 195}     -> f("boolean", 0)
        [] b \in 196 .. 198     -> f("bin", Widths[b - 195])
        [] b \in {202, 203}     -> f("float", Widths[b - 199])
        [] b \in 204 .. 207     -> f("uint", Widths[b - 203])
        [] b \in 208 .. 211     -> f("int", Widths[b - 207])
        [] b \in 217 .. 219     -> f("string", Widths[b - 216])
        [] b \in {220, 221}     -> f("array", Widths[b - 218])
        [] b \in {222, 223}     -> f("dict", Widths[b - 220])
        [] OTHER                -> f("unsupported", 0)

SignExtend(bytes) ==
  [i \in 1 .. 8 - Len(bytes) |-> IF bytes[1] >= 128 THEN 255 ELSE 0] \o bytes

(* mp_read_number, and the fixints: format byte b, and what follows it. *)
ReadNumber(b, bytes) ==
  LET w == Zeros(8 - Len(bytes)) \o bytes
  IN  CASE Format(b).kind = "fixint" -> [integer |-> SignExtend(<<b>>)]
        [] Format(b).kind = "int"    -> [integer |-> SignExtend(bytes)]
        [] Format(b).kind = "uint"   -> IF w[1] >= 128 THEN [unsigned |-> w] ELSE [integer |-> w]
        [] Format(b).kind = "float"  -> IF Len(bytes) = 4 THEN [single |-> bytes]
                                        ELSE [floating |-> bytes]

(* The length a string or container header announces. *)
Count(b, bytes) ==
  IF bytes # <<>> THEN Be(bytes) ELSE IF b \in 128 .. 159 THEN b % 16 ELSE b % 32

(* mp_take_str: n bytes of a string after its header. *)
TakeStr(data, pos, n) ==
  IF Len(data) - pos < n THEN Incomplete
  ELSE Complete([string |-> SubSeq(data, pos + 1, pos + n)], pos + n)

(* mp_open: a container of n, not allocated while fewer bytes are there. *)
Open(data, pos, n, is_map, depth) ==
  IF n > Len(data) - pos THEN Incomplete
  ELSE IF depth >= MarshalDepthCap THEN Malformed
  ELSE [st |-> "open", is_map |-> is_map, n |-> n, pos |-> pos]

(* The switches of mp_read_into and mp_read_ext: what follows format byte  *)
(* b and the number or length in `bytes`, which end at pos.                *)
Switch(data, pos, b, bytes, depth) ==
  LET kind == Format(b).kind
  IN  CASE kind = "unsupported"       -> Malformed
        [] kind = "nil"               -> Complete([nil |-> 0], pos)
        [] kind = "boolean"           -> Complete([boolean |-> b = 195], pos)
        [] kind \in {"string", "bin"} -> TakeStr(data, pos, Count(b, bytes))
        [] kind \in {"array", "dict"} -> Open(data, pos, Count(b, bytes), kind = "dict", depth)
        [] OTHER                      -> Complete(ReadNumber(b, bytes), pos)

(* mp_read_into and mp_read_ext: the value or the header at pos. *)
ReadInto(data, pos, depth) ==
  IF Len(data) = pos THEN Incomplete
  ELSE LET b   == data[pos + 1]
           hdr == pos + 1 + Format(b).width
       IN  IF Len(data) < hdr THEN Incomplete
           ELSE Switch(data, hdr, b, SubSeq(data, pos + 2, hdr), depth)

(* mp_read_key: a key must be a string, and bin is none. *)
ReadKey(data, pos) ==
  IF Len(data) = pos THEN Incomplete
  ELSE IF Format(data[pos + 1]).kind # "string" THEN Malformed
  ELSE ReadInto(data, pos, 0)

(* A frame of the walk: the container being filled. *)
Frame(r) == [is_map |-> r.is_map, n |-> r.n, items |-> <<>>, key |-> <<>>]

Filled(f, obj) ==
  IF f.is_map THEN [f EXCEPT !.items = Append(@, <<f.key[1], obj>>), !.key = <<>>]
  ELSE [f EXCEPT !.items = Append(@, obj)]

(* The loop of msgpack_to_object between two iterations, or its verdict. *)
Walking(stack, pos) == [st |-> "walk", stack |-> stack, pos |-> pos]

(* What was read goes into the innermost container's next slot, or is all. *)
Fill(stack, r) ==
  CASE r.st = "open" -> Walking(Append(stack, Frame(r)), r.pos)
    [] r.st = "ok" /\ stack # <<>> ->
         Walking(Append(Front(stack), Filled(Last(stack), r.obj)), r.pos)
    [] OTHER -> r

Container(f) == IF f.is_map THEN [dict |-> f.items] ELSE [array |-> f.items]

(* One iteration: a full container is one value more for the one around    *)
(* it; a map's key is read before its value.                               *)
Iterate(data, w) ==
  LET f   == Last(w.stack)
      key == ReadKey(data, w.pos)
  IN  CASE w.st # "walk" -> w
        [] w.st = "walk" /\ Len(f.items) = f.n ->
             Fill(Front(w.stack), Complete(Container(f), w.pos))
        [] w.st = "walk" /\ Len(f.items) # f.n /\ f.is_map /\ f.key = <<>> ->
             IF key.st # "ok" THEN key
             ELSE Walking(Append(Front(w.stack), [f EXCEPT !.key = <<key.obj.string>>]), key.pos)
        [] OTHER -> Fill(w.stack, ReadInto(data, w.pos, Len(w.stack)))

Walk(data) ==
  LET walk[k \in Nat] == IF k = 0 THEN Fill(<<>>, ReadInto(data, 0, 0))
                         ELSE Iterate(data, walk[k - 1])
  IN  walk

(* msgpack_to_object: an iteration consumes a byte, or takes back one of   *)
(* the frames that a byte opened.                                          *)
MsgpackToObject(data) ==
  LET walk == Walk(data)
  IN  walk[CHOOSE k \in 0 .. 2 * Len(data) : walk[k].st # "walk"]

===========================================================================
