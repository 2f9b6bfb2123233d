------------------------------ MODULE RpcWire ------------------------------
(***************************************************************************)
(* The channel of RpcServer with the codec of Msgpack under it: what the   *)
(* codec owes rpc_drain, which decodes the same buffer again after every   *)
(* read, and that the verdicts RpcServer works with are the codec's.       *)
(***************************************************************************)
EXTENDS RpcServer, Msgpack

CONSTANTS
  Objects, Deepest,   \* bound: Objects to encode, and their nesting
  Inputs, Tails,      \* bound: bytes that a client may send, and then
  Cuts,               \* bound: the lengths to cut an encoding at
  Message(_),         \* the Object that a frame is
  Garbage(_)          \* the bytes of a corrupt one

(* A frame on the wire: its first bytes are those of the model, the last   *)
(* of which stands for the rest.  A corrupt one does not decode, as soon   *)
(* as it is there.                                                         *)
Wire(f) == IF f.kind = "corrupt" THEN Garbage(f) ELSE MsgpackEncode(Message(f))
Chunk(f, i) == IF i < f.size THEN <<Wire(f)[i]>> ELSE SubSeq(Wire(f), i, Len(Wire(f)))

Wired(f) ==
  /\ f.size <= Len(Wire(f))
  /\ f.kind # "corrupt" => Message(f) \in Object[MarshalDepthCap]
  /\ f.kind = "corrupt" => /\ Garbage(f) \in Seq(Byte)
                           /\ MsgpackToObject(Garbage(f)) = Malformed
                           /\ \A n \in 0 .. f.size - 1 :
                                MsgpackToObject(SubSeq(Garbage(f), 1, n)) = Incomplete

ASSUME WireAssumption ==
  /\ Deepest \in Nat /\ Objects \subseteq Object[Deepest] /\ Cuts \subseteq Nat
  /\ Inputs \subseteq Seq(Byte) /\ Tails \subseteq Seq(Byte)
  /\ \A f \in UNION {Range(s) : s \in Scripts} : Wired(f)

---------------------------------------------------------------------------
(* Every Object no deeper than the cap comes back as it was from bytes     *)
(* that others follow, and none of them is consumed; each proper prefix of *)
(* its own bytes is incomplete, never an error and never another value;    *)
(* and an Object deeper than the cap is an error.                          *)
RoundTrips ==
  \A o \in Objects :
    LET e == Encoding[Deepest][o]
    IN  IF o \in Object[MarshalDepthCap]
        THEN /\ \A t \in Tails : MsgpackToObject(e \o t) = Complete(o, Len(e))
             /\ \A n \in Cuts \cup {Len(e) - 1} :
                  n < Len(e) => MsgpackToObject(SubSeq(e, 1, n)) = Incomplete
        ELSE MsgpackToObject(e) = Malformed

(* A verdict other than incomplete stays as it is when more bytes arrive,  *)
(* whatever the bytes.                                                     *)
VerdictsStand ==
  \A s \in Inputs :
    MsgpackToObject(s) # Incomplete =>
      \A t \in Tails : MsgpackToObject(s \o t) = MsgpackToObject(s)

(* Bytes of the model on the wire. *)
Concrete(bs) ==
  LET c[i \in 0 .. Len(bs)] ==
        IF i = 0 THEN <<>> ELSE c[i - 1] \o Chunk(script[bs[i][1]], bs[i][2])
  IN  c[Len(bs)]

(* What rpc_drain hears of its buffer is what the codec says of the bytes. *)
DecodeIsCodec ==
  draining /\ buf # <<>> =>
    LET r == MsgpackToObject(Concrete(buf))
        f == script[buf[1][1]]
    IN  /\ r.st = Decode
        /\ r.st = "ok" => r = Complete(Message(f), Len(Wire(f)))

(* The codec is what rpc_drain relies on, on every Object and all bytes,   *)
(* and on those of the run.                                                *)
CodecExact == RoundTrips /\ VerdictsStand /\ DecodeIsCodec

===========================================================================
