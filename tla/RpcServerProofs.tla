-------------------------- MODULE RpcServerProofs --------------------------
(***************************************************************************)
(* The RPC server, for every script, every way its bytes are cut into      *)
(* reads, every size limit and store: it returns with its handles let go   *)
(* of, its buffer respects the cap, and its stores and responses are those *)
(* of the frames executed one by one.  Then its codec, for every Object    *)
(* and all bytes: what is encoded is decoded as it was, its beginnings are *)
(* incomplete, and more bytes change no verdict.                           *)
(***************************************************************************)
EXTENDS RpcWire, FiniteSetTheorems, WellFoundedInduction, TLAPS

(* A set of numbers that is not empty has a least one.                     *)
LEMMA LeastElement ==
  ASSUME NEW S \in SUBSET Nat, S # {}
  PROVE  \E x \in S : \A y \in S : x <= y
<1>. DEFINE Less == {p \in Nat \X Nat : p[1] < p[2]}
<1>1. IsWellFoundedOn(Less, Nat)
  BY NatLessThanWellFounded, Zenon DEF OpToRel
<1>2. PICK x \in S : \A y \in S : ~ (<<y, x>> \in Less)
  BY <1>1, WFMin
<1>3. \A y \in S : x \in Nat /\ y \in Nat /\ (y < x => <<y, x>> \in Less)
  OBVIOUS
<1>. HIDE DEF Less
<1>4. \A y \in S : ~ (y < x)
  BY <1>2, <1>3
<1>. QED  BY <1>3, <1>4

(* Zero is in S and S is closed under the successor: S holds all numbers.  *)
LEMMA SetInduction ==
  ASSUME NEW S, 0 \in S, \A n \in Nat : n \in S => n + 1 \in S
  PROVE  \A n \in Nat : n \in S
<1>. SUFFICES ASSUME Nat \ S # {} PROVE FALSE
  OBVIOUS
<1>1. PICK x \in Nat \ S : \A y \in Nat \ S : x <= y
  BY LeastElement
<1>2. x - 1 \in Nat /\ x - 1 \in S /\ (x - 1) + 1 = x
  BY <1>1
<1>. QED  BY <1>1, <1>2

---------------------------------------------------------------------------

(* The channel's control. *)
ChannelTypes ==
  /\ eof \in BOOLEAN /\ deaf \in BOOLEAN /\ draining \in BOOLEAN
  /\ stopping \in BOOLEAN /\ interrupted \in BOOLEAN /\ lost \in BOOLEAN
  /\ in \in {"open", "closing", "closed"} /\ out \in {"open", "closing", "closed"}
  /\ run \in {"serving", "closing", "returned"}
  /\ code \in {0, 1}

Channel ==
  /\ ChannelTypes
  /\ run = "serving" => out = "open" /\ code = 0 /\ (stopping <=> in # "open")
  /\ run # "serving" => ~draining /\ (code = 0 => stopping \/ interrupted)
  /\ run = "returned" => in = "closed" /\ out = "closed" /\ writes = << >>

LEMMA InitChannel == Init => Channel
<1>. SUFFICES ASSUME Init PROVE Channel
  OBVIOUS
<1>1. /\ eof = FALSE /\ deaf = FALSE /\ draining = FALSE /\ stopping = FALSE
      /\ interrupted = FALSE /\ lost = FALSE /\ Setup
  BY DEF Init
<1>2. ChannelTypes
  BY <1>1, Zenon DEF Setup, ChannelTypes
<1>. QED
  BY <1>1, <1>2 DEF Setup, Channel

LEMMA StepTypes == ASSUME ChannelTypes, [Next]_allVars PROVE ChannelTypes'
<1>. USE DEF ChannelTypes
<1>1. CASE (\E n \in 1 .. ReadChunk : ReadCb(n)) \/ ReadEof \/ ReadError
  BY <1>1, Zenon DEF ReadCb, ReadEof, ReadError, ReadEnds, BeginStop, clientVars, channelVars
<1>2. CASE DrainStops
  BY <1>2, Zenon DEF DrainStops, DrainEnds, BeginStop, clientVars, channelVars
<1>3. CASE DrainFrame
  BY <1>3, Zenon DEF DrainFrame, HandleFrame, BeginStop, clientVars, channelVars
<1>4. CASE Flush
  BY <1>4, Zenon DEF Flush, clientVars, channelVars
<1>5. CASE InClosed
  BY <1>5, Zenon DEF InClosed, clientVars
<1>10. CASE Sigint
  BY <1>10, Zenon DEF Sigint, clientVars
<1>6. CASE ClientCloses
  BY <1>6, Zenon DEF ClientCloses, channelVars
<1>7. CASE LoopReturns
  BY <1>7, Zenon DEF LoopReturns, CloseIfOpen, clientVars
<1>8. CASE ServeReturns
  <2>1. lost' \in BOOLEAN
    BY <1>8 DEF ServeReturns
  <2>. QED
    BY <1>8, <2>1, Zenon DEF ServeReturns, clientVars
<1>9. CASE UNCHANGED allVars
  BY <1>9, Zenon DEF allVars, clientVars, channelVars
<1>. QED
  BY <1>1, <1>2, <1>3, <1>4, <1>5, <1>6, <1>7, <1>8, <1>9, <1>10 DEF Next, Done

LEMMA StepChannel == ASSUME Channel, [Next]_allVars PROVE Channel'
<1>0. ChannelTypes /\ ChannelTypes'
  BY StepTypes DEF Channel
<1>. USE DEF Channel, ChannelTypes
<1>1. CASE (\E n \in 1 .. ReadChunk : ReadCb(n)) \/ ReadEof \/ ReadError
  BY <1>0, <1>1 DEF ReadCb, ReadEof, ReadError, ReadEnds, BeginStop, Serving, clientVars, channelVars
<1>2. CASE DrainStops
  BY <1>0, <1>2 DEF DrainStops, DrainEnds, BeginStop, clientVars, channelVars
<1>3. CASE DrainFrame
  BY <1>0, <1>3 DEF DrainFrame, HandleFrame, BeginStop, clientVars, channelVars
<1>4. CASE Flush \/ InClosed \/ Sigint \/ ClientCloses
  BY <1>0, <1>4 DEF Flush, InClosed, Sigint, ClientCloses, Serving, clientVars, channelVars
<1>5. CASE LoopReturns \/ ServeReturns
  BY <1>0, <1>5 DEF LoopReturns, ServeReturns, Serving, CloseIfOpen, clientVars
<1>6. CASE UNCHANGED allVars
  BY <1>0, <1>6 DEF allVars, clientVars, channelVars
<1>. QED
  BY <1>1, <1>2, <1>3, <1>4, <1>5, <1>6 DEF Next, Done

(* The channel's control is as Channel says at all times. *)
THEOREM ChannelInvariant == Spec => []Channel
BY InitChannel, StepChannel, PTL DEF Spec

(* rpc_serve leaves no handle and no write behind that points into its     *)
(* stack frame, whether the input ended, a frame broke the protocol, the   *)
(* setup failed or a SIGINT stopped the loop.                              *)
THEOREM ReturnsCleanly == Spec => []ReturnsDetached
<1>1. Channel => ReturnsDetached
  BY DEF Channel, ReturnsDetached
<1>. QED
  BY <1>1, ChannelInvariant, PTL

---------------------------------------------------------------------------
(* The bytes of a script. *)

(* The bytes of its first k frames, for each k. *)
Upto(s) ==
  LET f[k \in 0 .. Len(s)] ==
        IF k = 0 THEN <<>> ELSE f[k - 1] \o [i \in 1 .. s[k].size |-> <<k, i>>]
  IN  f

LEMMA BytesUpto == ASSUME NEW s PROVE Bytes(s) = Upto(s)[Len(s)]
BY DEF Bytes, Upto

IsUpto(g, s, n) ==
  g = [k \in 0 .. n |->
         IF k = 0 THEN <<>> ELSE g[k - 1] \o [i \in 1 .. s[k].size |-> <<k, i>>]]

LEMMA UptoExists == ASSUME NEW s, NEW n \in Nat PROVE \E g : IsUpto(g, s, n)
<1>. DEFINE S == {m \in Nat : \E g : IsUpto(g, s, m)}
<1>1. 0 \in S
  <2>1. IsUpto([k \in 0 .. 0 |-> <<>>], s, 0)
    BY DEF IsUpto
  <2>. QED
    BY <2>1
<1>2. ASSUME NEW m \in Nat, m \in S PROVE m + 1 \in S
  <2>1. PICK g : IsUpto(g, s, m)
    BY <1>2
  <2>. DEFINE last == g[m] \o [i \in 1 .. s[m + 1].size |-> <<m + 1, i>>]
              h == [k \in 0 .. m + 1 |-> IF k = m + 1 THEN last ELSE g[k]]
  <2>2. ASSUME NEW k \in 0 .. m + 1
        PROVE  h[k] = IF k = 0 THEN <<>> ELSE h[k - 1] \o [i \in 1 .. s[k].size |-> <<k, i>>]
    <3>1. CASE k = m + 1
      <4>. HIDE DEF last
      <4>1. h[k - 1] = g[m] /\ k # 0 /\ h[k] = last
        BY <3>1
      <4>. HIDE DEF h
      <4>. QED
        BY <3>1, <4>1 DEF last
    <3>2. CASE k \in 0 .. m
      <4>1. g[k] = IF k = 0 THEN <<>> ELSE g[k - 1] \o [i \in 1 .. s[k].size |-> <<k, i>>]
        BY <2>1, <3>2 DEF IsUpto
      <4>2. h[k] = g[k] /\ (k # 0 => h[k - 1] = g[k - 1])
        BY <3>2
      <4>. QED
        BY <4>1, <4>2
    <3>. QED
      BY <3>1, <3>2
  <2>3. IsUpto(h, s, m + 1)
    <3>1. h = [k \in 0 .. m + 1 |-> h[k]]
      OBVIOUS
    <3>. HIDE DEF h
    <3>. QED
      BY <2>2, <3>1 DEF IsUpto
  <2>. QED
    BY <2>3
<1>. QED
  <2>. HIDE DEF S
  <2>1. n \in S
    BY <1>1, <1>2, SetInduction
  <2>. QED
    BY <2>1 DEF S

LEMMA UptoIs == ASSUME NEW s, Len(s) \in Nat PROVE IsUpto(Upto(s), s, Len(s))
<1>1. \E g : IsUpto(g, s, Len(s))
  BY UptoExists
<1>. QED
  BY <1>1 DEF IsUpto, Upto

LEMMA ConcatFacts ==
  ASSUME NEW S, NEW a \in Seq(S), NEW b \in Seq(S)
  PROVE  /\ a \o b \in Seq(S) /\ Len(a \o b) = Len(a) + Len(b)
         /\ \A p \in 1 .. Len(a) : (a \o b)[p] = a[p]
         /\ \A i \in 1 .. Len(b) : (a \o b)[Len(a) + i] = b[i]
OBVIOUS

(* Where frame k ends. *)
End(s, k) == Len(Upto(s)[k])

LEMMA FrameFacts ==
  ASSUME NEW s \in Seq(Frames)
  PROVE  /\ Len(s) \in Nat /\ DOMAIN s = 1 .. Len(s)
         /\ \A k \in 1 .. Len(s) :
              /\ s[k].kind \in {"request", "notify", "violation", "corrupt"}
              /\ s[k].call \in Calls /\ s[k].size \in Nat /\ s[k].size >= 1
<1>1. ASSUME NEW k \in 1 .. Len(s)
      PROVE  /\ s[k].kind \in {"request", "notify", "violation", "corrupt"}
             /\ s[k].call \in Calls /\ s[k].size \in Nat /\ s[k].size >= 1
  <2>1. s[k] \in Frames
    OBVIOUS
  <2>. QED
    BY <2>1 DEF Frames
<1>2. Len(s) \in Nat /\ DOMAIN s = 1 .. Len(s)
  OBVIOUS
<1>. QED
  BY <1>1, <1>2

LEMMA UptoStep ==
  ASSUME NEW s \in Seq(Frames)
  PROVE  /\ Upto(s)[0] = <<>>
         /\ \A k \in 1 .. Len(s) :
              Upto(s)[k] = Upto(s)[k - 1] \o [i \in 1 .. s[k].size |-> <<k, i>>]
<1>1. IsUpto(Upto(s), s, Len(s)) /\ Len(s) \in Nat
  BY UptoIs
<1>. DEFINE g == Upto(s)
<1>. HIDE DEF g
<1>2. g = [k \in 0 .. Len(s) |->
             IF k = 0 THEN <<>> ELSE g[k - 1] \o [i \in 1 .. s[k].size |-> <<k, i>>]]
  BY <1>1 DEF IsUpto, g
<1>3. g[0] = <<>>
  BY <1>1, <1>2
<1>4. ASSUME NEW k \in 1 .. Len(s)
      PROVE  g[k] = g[k - 1] \o [i \in 1 .. s[k].size |-> <<k, i>>]
  <2>1. k \in 0 .. Len(s) /\ k # 0
    BY <1>1
  <2>. QED
    BY <1>2, <2>1
<1>. QED
  BY <1>3, <1>4 DEF g

LEMMA UptoTypes ==
  ASSUME NEW s \in Seq(Frames) PROVE \A k \in 0 .. Len(s) : Upto(s)[k] \in Seq(Nat \X Nat)
<1>. DEFINE g == Upto(s)
            S == {k \in Nat : k <= Len(s) => g[k] \in Seq(Nat \X Nat)}
<1>1. g[0] = <<>> /\ Len(s) \in Nat /\ <<>> \in Seq(Nat \X Nat)
  BY UptoStep
<1>2. 0 \in S
  BY <1>1
<1>3. ASSUME NEW k \in Nat, k \in S PROVE k + 1 \in S
  <2>1. SUFFICES ASSUME k + 1 <= Len(s) PROVE g[k + 1] \in Seq(Nat \X Nat)
    OBVIOUS
  <2>2. k + 1 \in 1 .. Len(s) /\ g[k] \in Seq(Nat \X Nat) /\ (k + 1) - 1 = k
    BY <1>1, <1>3, <2>1
  <2>3. s[k + 1].size \in Nat
    BY <2>2, FrameFacts
  <2>4. [i \in 1 .. s[k + 1].size |-> <<k + 1, i>>] \in Seq(Nat \X Nat)
    <3>. DEFINE n == s[k + 1].size
                b == [i \in 1 .. n |-> <<k + 1, i>>]
    <3>1. n \in Nat
      BY <2>3
    <3>. HIDE DEF n
    <3>2. b \in [1 .. n -> Nat \X Nat]
      BY <1>3
    <3>. HIDE DEF b
    <3>3. b \in Seq(Nat \X Nat)
      BY <3>1, <3>2
    <3>. QED
      BY <3>3 DEF b, n
  <2>5. g[k + 1] = g[k] \o [i \in 1 .. s[k + 1].size |-> <<k + 1, i>>]
    BY <2>2, UptoStep
  <2>. QED
    BY <2>2, <2>4, <2>5
<1>. HIDE DEF S
<1>4. \A k \in Nat : k \in S
  BY <1>2, <1>3, SetInduction
<1>. QED
  BY <1>1, <1>4 DEF S

(* Frame k lies between the end of the frame before it and its own. *)
LEMMA UptoFrame ==
  ASSUME NEW s \in Seq(Frames), NEW k \in 1 .. Len(s)
  PROVE  /\ End(s, k - 1) \in Nat /\ End(s, k) = End(s, k - 1) + s[k].size
         /\ \A p \in 1 .. End(s, k - 1) : Upto(s)[k][p] = Upto(s)[k - 1][p]
         /\ \A i \in 1 .. s[k].size : Upto(s)[k][End(s, k - 1) + i] = <<k, i>>
<1>. DEFINE a == Upto(s)[k - 1]
            b == [i \in 1 .. s[k].size |-> <<k, i>>]
            P == Nat \X Nat
<1>1. k - 1 \in 0 .. Len(s) /\ k \in Nat /\ s[k].size \in Nat
  BY FrameFacts
<1>2. a \in Seq(P) /\ Upto(s)[k] = a \o b
  BY <1>1, UptoTypes, UptoStep
<1>3. b \in Seq(P) /\ Len(b) = s[k].size /\ \A i \in 1 .. s[k].size : b[i] = <<k, i>>
  <2>1. b \in [1 .. s[k].size -> Nat \X Nat]
    BY <1>1
  <2>. HIDE DEF b
  <2>2. b \in Seq(Nat \X Nat) /\ Len(b) = s[k].size
    BY <1>1, <2>1
  <2>. QED
    BY <2>2 DEF b
<1>. HIDE DEF a, b, P
<1>4. /\ a \o b \in Seq(P) /\ Len(a \o b) = Len(a) + Len(b)
      /\ \A p \in 1 .. Len(a) : (a \o b)[p] = a[p]
      /\ \A i \in 1 .. Len(b) : (a \o b)[Len(a) + i] = b[i]
  <2>1. a \in Seq(P) /\ b \in Seq(P)
    BY <1>2, <1>3
  <2>. QED
    BY <2>1, ConcatFacts
<1>5. End(s, k - 1) = Len(a) /\ End(s, k) = Len(a \o b) /\ Len(a) \in Nat
  BY <1>2 DEF End, a
<1>6. /\ End(s, k - 1) \in Nat /\ End(s, k) = End(s, k - 1) + s[k].size
      /\ \A p \in 1 .. End(s, k - 1) : Upto(s)[k][p] = a[p]
  BY <1>2, <1>3, <1>4, <1>5
<1>7. ASSUME NEW i \in 1 .. s[k].size PROVE Upto(s)[k][End(s, k - 1) + i] = <<k, i>>
  <2>1. i \in 1 .. Len(b)
    BY <1>3
  <2>2. (a \o b)[Len(a) + i] = b[i]
    BY <1>4, <2>1
  <2>. QED
    BY <1>2, <1>3, <1>5, <2>2
<1>. QED
  BY <1>6, <1>7 DEF a

LEMMA UptoPrefix ==
  ASSUME NEW s \in Seq(Frames), NEW k \in 0 .. Len(s)
  PROVE  \A m \in k .. Len(s) :
           End(s, k) <= End(s, m) /\ \A p \in 1 .. End(s, k) : Upto(s)[m][p] = Upto(s)[k][p]
<1>. DEFINE Q(m) == End(s, k) <= End(s, m)
                    /\ \A p \in 1 .. End(s, k) : Upto(s)[m][p] = Upto(s)[k][p]
            S == {d \in Nat : k + d <= Len(s) => Q(k + d)}
<1>0. Len(s) \in Nat /\ k \in Nat /\ k <= Len(s) /\ End(s, k) \in Nat
  BY UptoTypes DEF End
<1>1. 0 \in S
  BY <1>0
<1>2. ASSUME NEW d \in Nat, d \in S PROVE d + 1 \in S
  <2>1. SUFFICES ASSUME k + (d + 1) <= Len(s) PROVE Q(k + (d + 1))
    OBVIOUS
  <2>2. k + (d + 1) \in 1 .. Len(s) /\ (k + (d + 1)) - 1 = k + d /\ k + d <= Len(s)
    BY <1>0, <2>1
  <2>3. Q(k + d)
    BY <1>2, <2>2
  <2>4. /\ End(s, k + d) \in Nat /\ End(s, k + (d + 1)) = End(s, k + d) + s[k + (d + 1)].size
        /\ \A p \in 1 .. End(s, k + d) : Upto(s)[k + (d + 1)][p] = Upto(s)[k + d][p]
    BY <2>2, UptoFrame
  <2>5. s[k + (d + 1)].size \in Nat
    BY <2>2, FrameFacts
  <2>. QED
    BY <1>0, <2>3, <2>4, <2>5
<1>. HIDE DEF S
<1>3. \A d \in Nat : d \in S
  BY <1>1, <1>2, SetInduction
<1>4. ASSUME NEW m \in k .. Len(s) PROVE Q(m)
  <2>1. m - k \in Nat /\ k + (m - k) = m /\ m <= Len(s)
    BY <1>0
  <2>. QED
    BY <1>3, <2>1 DEF S
<1>. QED
  BY <1>4

(* The bytes of a script: frame k's are <<k, 1>> to <<k, size>>, behind    *)
(* those of the frames before it.                                          *)
LEMMA BytesFacts ==
  ASSUME NEW s \in Seq(Frames)
  PROVE  /\ Bytes(s) \in Seq(Nat \X Nat) /\ Len(Bytes(s)) = End(s, Len(s)) /\ End(s, 0) = 0
         /\ \A k \in 0 .. Len(s) : End(s, k) \in Nat /\ End(s, k) <= Len(Bytes(s))
         /\ \A k \in 1 .. Len(s) :
              /\ End(s, k) = End(s, k - 1) + s[k].size
              /\ \A i \in 1 .. s[k].size : Bytes(s)[End(s, k - 1) + i] = <<k, i>>
<1>1. Len(s) \in Nat /\ Bytes(s) = Upto(s)[Len(s)]
  BY BytesUpto
<1>2. Bytes(s) \in Seq(Nat \X Nat) /\ Len(Bytes(s)) = End(s, Len(s)) /\ End(s, 0) = 0
  BY <1>1, UptoTypes, UptoStep DEF End
<1>3. ASSUME NEW k \in 0 .. Len(s) PROVE End(s, k) \in Nat /\ End(s, k) <= Len(Bytes(s))
  <2>1. End(s, k) \in Nat
    BY UptoTypes DEF End
  <2>2. Len(s) \in k .. Len(s)
    BY <1>1
  <2>. QED
    BY <1>2, <2>1, <2>2, UptoPrefix
<1>4. ASSUME NEW k \in 1 .. Len(s)
      PROVE  /\ End(s, k) = End(s, k - 1) + s[k].size
             /\ \A i \in 1 .. s[k].size : Bytes(s)[End(s, k - 1) + i] = <<k, i>>
  <2>1. /\ End(s, k - 1) \in Nat /\ End(s, k) = End(s, k - 1) + s[k].size
        /\ \A i \in 1 .. s[k].size : Upto(s)[k][End(s, k - 1) + i] = <<k, i>>
    BY UptoFrame
  <2>2. k \in 0 .. Len(s) /\ Len(s) \in k .. Len(s)
    BY <1>1
  <2>3. \A p \in 1 .. End(s, k) : Bytes(s)[p] = Upto(s)[k][p]
    BY <1>1, <2>2, UptoPrefix
  <2>4. ASSUME NEW i \in 1 .. s[k].size PROVE Bytes(s)[End(s, k - 1) + i] = <<k, i>>
    <3>1. s[k].size \in Nat
      BY FrameFacts
    <3>2. End(s, k - 1) + i \in 1 .. End(s, k)
      BY <2>1, <3>1
    <3>. QED
      BY <2>1, <2>3, <3>2
  <2>. QED
    BY <2>1, <2>4
<1>. QED
  BY <1>2, <1>3, <1>4

LEMMA SubSeqFacts ==
  ASSUME NEW S, NEW b \in Seq(S), NEW m \in Nat, NEW n \in Nat, m <= n, n <= Len(b)
  PROVE  /\ SubSeq(b, m + 1, n) \in Seq(S) /\ Len(SubSeq(b, m + 1, n)) = n - m
         /\ \A i \in 1 .. n - m : SubSeq(b, m + 1, n)[i] = b[m + i]
<1>1. SubSeq(b, m + 1, n) \in Seq(S) /\ Len(SubSeq(b, m + 1, n)) = n - m
  OBVIOUS
<1>2. ASSUME NEW i \in 1 .. n - m PROVE SubSeq(b, m + 1, n)[i] = b[m + i]
  <2>1. SubSeq(b, m + 1, n)[i] = b[(m + 1) + i - 1]
    OBVIOUS
  <2>2. (m + 1) + i - 1 = m + i
    OBVIOUS
  <2>. QED
    BY <2>1, <2>2
<1>. QED
  BY <1>1, <1>2

(* A read continues the buffer, a handled frame shortens it. *)
LEMMA SubSeqJoin ==
  ASSUME NEW S, NEW b \in Seq(S), NEW m \in Nat, NEW n \in Nat, NEW p \in Nat,
         m <= n, n <= p, p <= Len(b)
  PROVE  /\ SubSeq(b, m + 1, n) \o SubSeq(b, n + 1, p) = SubSeq(b, m + 1, p)
         /\ SubSeq(SubSeq(b, m + 1, p), (n - m) + 1, p - m) = SubSeq(b, n + 1, p)
<1>. DEFINE x == SubSeq(b, m + 1, n)
            y == SubSeq(b, n + 1, p)
            z == SubSeq(b, m + 1, p)
<1>1. m <= p /\ n <= Len(b)
  OBVIOUS
<1>2. x \in Seq(S) /\ Len(x) = n - m /\ \A i \in 1 .. n - m : x[i] = b[m + i]
  BY <1>1, SubSeqFacts
<1>3. y \in Seq(S) /\ Len(y) = p - n /\ \A i \in 1 .. p - n : y[i] = b[n + i]
  BY <1>1, SubSeqFacts
<1>4. z \in Seq(S) /\ Len(z) = p - m /\ \A i \in 1 .. p - m : z[i] = b[m + i]
  BY <1>1, SubSeqFacts
<1>. HIDE DEF x, y, z
<1>5. /\ x \o y \in Seq(S) /\ Len(x \o y) = Len(x) + Len(y)
      /\ \A i \in 1 .. Len(x) : (x \o y)[i] = x[i]
      /\ \A i \in 1 .. Len(y) : (x \o y)[Len(x) + i] = y[i]
  <2>1. x \in Seq(S) /\ y \in Seq(S)
    BY <1>2, <1>3
  <2>. QED
    BY <2>1, ConcatFacts
<1>6. x \o y = z
  <2>1. Len(x \o y) = Len(z) /\ Len(z) \in Nat
    BY <1>2, <1>3, <1>4, <1>5
  <2>2. ASSUME NEW i \in 1 .. Len(z) PROVE (x \o y)[i] = z[i]
    <3>1. CASE i \in 1 .. n - m
      BY <1>2, <1>4, <1>5, <2>2, <3>1
    <3>2. CASE i - (n - m) \in 1 .. p - n
      <4>1. (x \o y)[Len(x) + (i - (n - m))] = y[i - (n - m)]
        BY <1>3, <1>5, <3>2
      <4>2. Len(x) + (i - (n - m)) = i /\ n + (i - (n - m)) = m + i
        BY <1>2, <1>4, <2>2
      <4>. QED
        BY <1>3, <1>4, <2>2, <3>2, <4>1, <4>2
    <3>3. i \in 1 .. p - m
      BY <1>4, <2>2
    <3>4. i \in 1 .. n - m \/ i - (n - m) \in 1 .. p - n
      BY <3>3
    <3>. QED
      BY <3>1, <3>2, <3>4
  <2>. DEFINE u == x \o y
  <2>3. u \in Seq(S) /\ Len(u) = Len(z) /\ \A i \in 1 .. Len(z) : u[i] = z[i]
    BY <1>5, <2>1, <2>2
  <2>. HIDE DEF u
  <2>4. u = z
    BY <1>4, <2>3
  <2>. QED
    BY <2>4 DEF u
<1>. DEFINE w == SubSeq(z, (n - m) + 1, p - m)
<1>7. n - m \in Nat /\ p - m \in Nat /\ n - m <= p - m /\ p - m <= Len(z)
  BY <1>4
<1>8. /\ w \in Seq(S) /\ Len(w) = (p - m) - (n - m)
      /\ \A i \in 1 .. (p - m) - (n - m) : w[i] = z[(n - m) + i]
  BY <1>4, <1>7, SubSeqFacts
<1>. HIDE DEF w
<1>9. w = y
  <2>1. Len(w) = Len(y) /\ Len(y) \in Nat
    BY <1>3, <1>8
  <2>2. ASSUME NEW i \in 1 .. Len(y) PROVE w[i] = y[i]
    <3>1. i \in 1 .. p - n /\ i \in 1 .. (p - m) - (n - m) /\ (n - m) + i \in 1 .. p - m
      BY <1>3, <2>2
    <3>2. w[i] = z[(n - m) + i] /\ z[(n - m) + i] = b[m + ((n - m) + i)] /\ y[i] = b[n + i]
      BY <1>3, <1>4, <1>8, <3>1
    <3>3. m + ((n - m) + i) = n + i
      BY <3>1
    <3>. QED
      BY <3>2, <3>3
  <2>. QED
    BY <1>3, <1>8, <2>1, <2>2
<1>. QED
  BY <1>6, <1>9 DEF w, x, y, z

---------------------------------------------------------------------------
(* The input: what is in the buffer, and why the server stops reading. *)

(* The frames that are handled left the buffer whole, the bytes behind     *)
(* them that were read are in it; no frame that breaks the protocol is     *)
(* passed.                                                                 *)
Consumed ==
  /\ script \in Scripts /\ handled \in 0 .. Len(script)
  /\ sent \in Nat /\ End(script, handled) <= sent /\ sent <= Len(Bytes(script))
  /\ run # "returned" => buf = SubSeq(Bytes(script), End(script, handled) + 1, sent)
  /\ run = "returned" => buf = <<>>
  /\ eof => sent = Len(Bytes(script))
  /\ \A k \in Violations(script) : handled < k \/ (handled = k /\ stopping)

(* Between two reads the buffer holds less than a frame, and no more than  *)
(* the cap.                                                                *)
Drained ==
  /\ Len(buf) <= MaxMessage + ReadChunk
  /\ Serving /\ ~stopping =>
       /\ Len(buf) <= MaxMessage
       /\ handled < Len(script) => sent < End(script, handled + 1)

(* Why the server stopped reading. *)
Justified ==
  stopping => \/ Violations(script) # {}
              \/ \E k \in DOMAIN script : script[k].size > MaxMessage
              \/ handled = Len(script)
              \/ sent < Len(Bytes(script))  \* a read failed

Input == Consumed /\ Drained /\ Justified

LEMMA BufferFacts ==
  ASSUME NEW s \in Seq(Frames), NEW h \in 0 .. Len(s), NEW n \in Nat,
         End(s, h) <= n, n <= Len(Bytes(s)),
         NEW b, b = SubSeq(Bytes(s), End(s, h) + 1, n)
  PROVE  /\ b \in Seq(Nat \X Nat) /\ Len(b) = n - End(s, h) /\ End(s, h) \in Nat
         /\ b # <<>> => h + 1 \in 1 .. Len(s) /\ b[1] = <<h + 1, 1>>
<1>. DEFINE P == Nat \X Nat
            e == End(s, h)
            a == Bytes(s)
<1>0. e \in Nat /\ a \in Seq(P) /\ Len(s) \in Nat
  BY BytesFacts
<1>1. /\ b \in Seq(P) /\ Len(b) = n - End(s, h)
      /\ \A i \in 1 .. n - End(s, h) : b[i] = Bytes(s)[End(s, h) + i]
  <2>. e <= n /\ n <= Len(a) /\ b = SubSeq(a, e + 1, n)
    OBVIOUS
  <2>. HIDE DEF P, e, a
  <2>1. /\ SubSeq(a, e + 1, n) \in Seq(P) /\ Len(SubSeq(a, e + 1, n)) = n - e
        /\ \A i \in 1 .. n - e : SubSeq(a, e + 1, n)[i] = a[e + i]
    BY <1>0, SubSeqFacts
  <2>2. b \in Seq(P) /\ Len(b) = n - e /\ \A i \in 1 .. n - e : b[i] = a[e + i]
    BY <2>1
  <2>. QED
    BY <2>2 DEF e, a
<1>2. ASSUME b # <<>> PROVE h + 1 \in 1 .. Len(s) /\ b[1] = <<h + 1, 1>>
  <2>1. Len(b) # 0
    <3>. HIDE DEF P
    <3>1. b \in Seq(P)
      BY <1>1
    <3>. QED
      BY <1>2, <3>1
  <2>2. 1 \in 1 .. n - End(s, h) /\ End(s, h) < Len(Bytes(s))
    <3>. HIDE DEF P
    <3>1. Len(b) = n - e /\ Len(a) \in Nat
      BY <1>0, <1>1
    <3>. HIDE DEF e, a
    <3>2. e \in Nat /\ e <= n /\ n <= Len(a)
      BY <1>0 DEF e, a
    <3>3. n - e # 0
      BY <2>1, <3>1
    <3>4. 1 \in 1 .. n - e /\ e < Len(a)
      BY <3>1, <3>2, <3>3
    <3>. QED
      BY <3>4 DEF e, a
  <2>3. h # Len(s)
    <3>1. Len(Bytes(s)) = End(s, Len(s))
      BY BytesFacts
    <3>. QED
      BY <2>2, <3>1, <1>0
  <2>4. h + 1 \in 1 .. Len(s) /\ (h + 1) - 1 = h
    BY <1>0, <2>3
  <2>5. s[h + 1].size \in Nat /\ s[h + 1].size >= 1
    BY <2>4, FrameFacts
  <2>6. \A i \in 1 .. s[h + 1].size : Bytes(s)[End(s, h) + i] = <<h + 1, i>>
    BY <2>4, BytesFacts
  <2>7. Bytes(s)[End(s, h) + 1] = <<h + 1, 1>>
    BY <2>5, <2>6
  <2>. QED
    BY <1>1, <2>2, <2>4, <2>7
<1>. QED
  BY <1>0, <1>1, <1>2

(* The decoder looks at the start of the first frame not handled yet. *)
LEMMA DecodeFacts ==
  ASSUME Consumed, run # "returned", buf # <<>>
  PROVE  /\ handled + 1 \in 1 .. Len(script) /\ buf[1][1] = handled + 1
         /\ Decode = "incomplete" <=> sent < End(script, handled + 1)
         /\ Decode = "incomplete" => Len(buf) < script[handled + 1].size
         /\ Decode \in {"incomplete", "error", "ok"}
         /\ Decode = "error" => script[handled + 1].kind = "corrupt"
         /\ Decode = "ok" => script[handled + 1].kind # "corrupt"
<1>1. script \in Seq(Frames)
  BY RpcAssumption DEF Consumed
<1>2. /\ Len(buf) = sent - End(script, handled) /\ End(script, handled) \in Nat
      /\ handled + 1 \in 1 .. Len(script) /\ buf[1] = <<handled + 1, 1>>
  <2>1. /\ handled \in 0 .. Len(script) /\ sent \in Nat
        /\ End(script, handled) <= sent /\ sent <= Len(Bytes(script))
        /\ buf = SubSeq(Bytes(script), End(script, handled) + 1, sent)
    BY DEF Consumed
  <2>. QED
    BY <1>1, <2>1, BufferFacts
<1>3. (handled + 1) - 1 = handled /\ sent \in Nat /\ Len(script) \in Nat
  BY <1>1 DEF Consumed
<1>4. /\ End(script, handled + 1) = End(script, handled) + script[handled + 1].size
      /\ script[handled + 1].size \in Nat
  BY <1>1, <1>2, <1>3, BytesFacts, FrameFacts
<1>5. buf[1][1] = handled + 1 /\ buf[1][2] = 1
  BY <1>2
<1>6. /\ Decode = "incomplete" <=> Len(buf) < script[handled + 1].size
      /\ Decode \in {"incomplete", "error", "ok"}
      /\ Decode = "error" => script[handled + 1].kind = "corrupt"
      /\ Decode = "ok" => script[handled + 1].kind # "corrupt"
  BY <1>5 DEF Decode
<1>. QED
  BY <1>2, <1>3, <1>4, <1>5, <1>6

LEMMA InputFacts ==
  ASSUME Consumed
  PROVE  /\ script \in Seq(Frames) /\ DOMAIN script = 1 .. Len(script) /\ Len(script) \in Nat
         /\ Bytes(script) \in Seq(Nat \X Nat) /\ End(script, handled) \in Nat
         /\ handled \in Nat /\ handled <= Len(script)
         /\ run # "returned" => Len(buf) = sent - End(script, handled)
<1>1. script \in Seq(Frames)
  BY RpcAssumption DEF Consumed
<1>2. /\ handled \in 0 .. Len(script) /\ sent \in Nat
      /\ End(script, handled) <= sent /\ sent <= Len(Bytes(script))
      /\ run # "returned" => buf = SubSeq(Bytes(script), End(script, handled) + 1, sent)
  BY DEF Consumed
<1>3. run # "returned" => Len(buf) = sent - End(script, handled)
  BY <1>1, <1>2, BufferFacts
<1>4. Bytes(script) \in Seq(Nat \X Nat) /\ End(script, handled) \in Nat
  BY <1>1, <1>2, BytesFacts
<1>. QED
  BY <1>1, <1>2, <1>3, <1>4, FrameFacts

LEMMA InitInput == Init => Input
<1>. SUFFICES ASSUME Init PROVE Input
  OBVIOUS
<1>1. script \in Scripts /\ script \in Seq(Frames)
  BY RpcAssumption DEF Init
<1>2. /\ handled = 0 /\ sent = 0 /\ buf = <<>> /\ eof = FALSE /\ stopping = FALSE
      /\ run # "returned"
  BY DEF Init, Setup
<1>3. /\ End(script, 0) = 0 /\ Bytes(script) \in Seq(Nat \X Nat) /\ Len(script) \in Nat
      /\ DOMAIN script = 1 .. Len(script)
  BY <1>1, BytesFacts, FrameFacts
<1>4. SubSeq(Bytes(script), 1, 0) = <<>> /\ Len(Bytes(script)) \in Nat
  <2>. DEFINE a == Bytes(script) P == Nat \X Nat
  <2>1. a \in Seq(P)
    BY <1>3
  <2>. HIDE DEF a, P
  <2>2. SubSeq(a, 1, 0) = <<>> /\ Len(a) \in Nat
    BY <2>1
  <2>. QED
    BY <2>2 DEF a
<1>5. Consumed
  BY <1>1, <1>2, <1>3, <1>4 DEF Consumed, Violations
<1>6. Drained
  <2>1. handled < Len(script) => sent < End(script, handled + 1)
    <3>. SUFFICES ASSUME 0 < Len(script) PROVE 0 < End(script, 1)
      BY <1>2
    <3>1. 1 \in 1 .. Len(script) /\ 1 - 1 = 0
      BY <1>3
    <3>2. End(script, 1) = End(script, 0) + script[1].size /\ script[1].size >= 1
          /\ script[1].size \in Nat
      BY <1>1, <3>1, BytesFacts, FrameFacts
    <3>. QED
      BY <1>3, <3>2
  <2>2. Len(buf) = 0
    BY <1>2
  <2>. QED
    BY <2>1, <2>2, RpcAssumption DEF Drained
<1>. QED
  BY <1>2, <1>5, <1>6 DEF Input, Justified

(* Until the client's script and what is handled of it change, the input   *)
(* does not.                                                               *)
LEMMA ConsumedKept ==
  ASSUME Consumed, UNCHANGED <<script, sent, handled, buf>>, run' = "returned" => run = "returned",
         run = "returned" => run' = "returned",
         stopping => stopping', eof' => eof \/ sent = Len(Bytes(script))
  PROVE  Consumed'
BY DEF Consumed

LEMMA StepConsumed == ASSUME Channel, Consumed, Drained, [Next]_allVars PROVE Consumed'
<1>0. /\ script \in Seq(Frames) /\ DOMAIN script = 1 .. Len(script) /\ Len(script) \in Nat
      /\ handled \in Nat /\ handled <= Len(script) /\ sent \in Nat
      /\ End(script, handled) \in Nat
  BY InputFacts DEF Consumed
<1>1. ASSUME NEW n \in 1 .. ReadChunk, ReadCb(n) PROVE Consumed'
  <2>1. /\ run # "returned" /\ run' = run /\ sent' = sent + n /\ sent + n <= Len(Bytes(script))
        /\ buf' = buf \o SubSeq(Bytes(script), sent + 1, sent + n)
        /\ UNCHANGED <<script, handled, eof, stopping>>
    BY <1>1 DEF ReadCb, Serving, channelVars
  <2>2. n \in Nat /\ n >= 1
    BY RpcAssumption
  <2>3. ~eof
    BY <1>0, <2>1, <2>2 DEF Consumed
  <2>. DEFINE a == Bytes(script) P == Nat \X Nat e == End(script, handled)
  <2>4. a \in Seq(P) /\ e <= sent /\ buf = SubSeq(a, e + 1, sent) /\ sent + n <= Len(a)
    BY <1>0, <2>1, InputFacts DEF Consumed
  <2>5. buf' = SubSeq(a, e + 1, sent + n)
    <3>. sent + n \in Nat /\ sent <= sent + n /\ e \in Nat /\ sent \in Nat
      BY <1>0, <2>2
    <3>1. buf' = buf \o SubSeq(a, sent + 1, sent + n)
      BY <2>1
    <3>. HIDE DEF a, P, e
    <3>2. SubSeq(a, e + 1, sent) \o SubSeq(a, sent + 1, sent + n) = SubSeq(a, e + 1, sent + n)
      BY <2>4, SubSeqJoin
    <3>. QED
      BY <2>4, <3>1, <3>2
  <2>6. e' = e /\ a' = a
    BY <2>1
  <2>7. e <= sent + n /\ sent + n \in Nat
    <3>. HIDE DEF a, e, P
    <3>1. e \in Nat
      BY <1>0 DEF e
    <3>. QED
      BY <1>0, <2>2, <2>4, <3>1
  <2>. QED
    BY <2>1, <2>3, <2>5, <2>6, <2>7 DEF Consumed
<1>2. CASE DrainFrame
  <2>1. /\ draining /\ ~stopping /\ buf # <<>> /\ Decode = "ok" /\ handled' = handled + 1
        /\ HandleFrame(script[buf[1][1]]) /\ Consume(buf[1][1])
        /\ UNCHANGED <<script, sent, eof>>
    BY <1>2 DEF DrainFrame, clientVars
  <2>2. run # "returned" /\ run' = run
    BY <2>1 DEF Channel, HandleFrame, BeginStop, channelVars
  <2>. DEFINE k == handled + 1
  <2>3. /\ k \in 1 .. Len(script) /\ buf[1][1] = k /\ sent >= End(script, k)
        /\ script[k].kind # "corrupt"
    <3>1. /\ k \in 1 .. Len(script) /\ buf[1][1] = k /\ ~ (sent < End(script, k))
          /\ script[k].kind # "corrupt"
      BY <2>1, <2>2, DecodeFacts
    <3>2. End(script, k) \in Nat
      BY <1>0, <3>1, BytesFacts
    <3>. QED
      BY <1>0, <3>1, <3>2
  <2>4. /\ End(script, k) = End(script, handled) + script[k].size /\ End(script, k) \in Nat
        /\ script[k].size \in Nat
    <3>1. k - 1 = handled /\ k \in 0 .. Len(script)
      BY <1>0, <2>3
    <3>. QED
      BY <1>0, <2>3, <3>1, BytesFacts, FrameFacts
  <2>5. buf' = SubSeq(Bytes(script), End(script, k) + 1, sent)
    <3>. DEFINE a == Bytes(script) P == Nat \X Nat e == End(script, handled) z == End(script, k)
    <3>1. /\ a \in Seq(P) /\ e <= sent /\ buf = SubSeq(a, e + 1, sent) /\ sent <= Len(a)
          /\ e \in Nat /\ Len(buf) = sent - e
      BY <1>0, <2>2, InputFacts DEF Consumed
    <3>2. z \in Nat /\ e <= z /\ z <= sent /\ script[k].size = z - e
      <4>1. z = e + script[k].size /\ z \in Nat /\ z <= sent /\ script[k].size \in Nat
        BY <2>3, <2>4, <1>0
      <4>2. e \in Nat
        BY <3>1
      <4>. HIDE DEF z, e
      <4>. QED
        BY <4>1, <4>2
    <3>3. buf' = SubSeq(buf, script[k].size + 1, Len(buf))
      BY <2>1, <2>3 DEF Consume
    <3>. HIDE DEF a, P, e, z, k
    <3>4. SubSeq(SubSeq(a, e + 1, sent), (z - e) + 1, sent - e) = SubSeq(a, z + 1, sent)
      BY <1>0, <3>1, <3>2, SubSeqJoin
    <3>5. buf' = SubSeq(a, z + 1, sent)
      BY <3>1, <3>2, <3>3, <3>4
    <3>. QED
      BY <3>5 DEF a, z
  <2>6. ASSUME NEW v \in Violations(script)
        PROVE  k < v \/ (k = v /\ stopping')
    <3>1. v \in Nat /\ handled < v
      BY <1>0, <2>1 DEF Consumed, Violations
    <3>2. CASE v = k
      <4>1. script[k].kind = "violation"
        BY <2>3, <3>2 DEF Violations
      <4>2. BeginStop
        BY <2>1, <2>3, <4>1 DEF HandleFrame
      <4>. QED
        BY <3>2, <4>2 DEF BeginStop
    <3>. QED
      BY <1>0, <3>1, <3>2
  <2>. QED
    BY <2>1, <2>2, <2>3, <2>4, <2>5, <2>6 DEF Consumed
<1>3. CASE ReadEof \/ ReadError \/ DrainStops
  <2>1. UNCHANGED <<script, sent, handled, buf, run, eof>> /\ (stopping => stopping')
    BY <1>3 DEF ReadEof, ReadError, ReadEnds, DrainStops, DrainEnds, BeginStop, clientVars, channelVars
  <2>. QED
    BY <2>1, ConsumedKept
<1>4. CASE Flush \/ InClosed \/ Sigint
  <2>1. UNCHANGED <<script, sent, handled, buf, run, eof, stopping>>
    BY <1>4 DEF Flush, InClosed, Sigint, clientVars, channelVars
  <2>. QED
    BY <2>1, ConsumedKept
<1>5. CASE ClientCloses
  <2>1. /\ UNCHANGED <<script, sent, handled, buf, run, stopping>>
        /\ eof' => eof \/ sent = Len(Bytes(script))
    BY <1>5 DEF ClientCloses, channelVars
  <2>. QED
    BY <2>1, ConsumedKept
<1>6. CASE LoopReturns
  <2>1. /\ UNCHANGED <<script, sent, handled, buf, eof, stopping>>
        /\ run # "returned" /\ run' # "returned"
    BY <1>6 DEF LoopReturns, Serving, clientVars
  <2>. QED
    BY <2>1, ConsumedKept
<1>7. CASE ServeReturns
  <2>1. /\ UNCHANGED <<script, sent, handled, eof, stopping>> /\ run' = "returned" /\ buf' = <<>>
    BY <1>7 DEF ServeReturns, clientVars
  <2>. QED
    BY <2>1 DEF Consumed
<1>8. CASE UNCHANGED allVars
  BY <1>8 DEF allVars, clientVars, channelVars, Consumed
<1>. QED
  BY <1>1, <1>2, <1>3, <1>4, <1>5, <1>6, <1>7, <1>8 DEF Next, Done

LEMMA StepDrained == ASSUME Channel, Consumed, Drained, [Next]_allVars PROVE Drained'
<1>0. /\ script \in Seq(Frames) /\ Len(script) \in Nat
      /\ handled \in Nat /\ handled <= Len(script) /\ sent \in Nat
      /\ End(script, handled) \in Nat
      /\ run # "returned" => Len(buf) = sent - End(script, handled)
      /\ MaxMessage \in Nat /\ ReadChunk \in Nat
  BY InputFacts, RpcAssumption DEF Consumed
<1>1. ASSUME NEW n \in 1 .. ReadChunk, ReadCb(n) PROVE Drained'
  <2>1. /\ Serving /\ ~stopping /\ sent' = sent + n /\ UNCHANGED <<run, script, handled>>
        /\ draining'
    BY <1>1 DEF ReadCb, channelVars
  <2>2. Consumed'
    BY <1>1, StepConsumed DEF Next
  <2>3. Len(buf') = sent' - End(script', handled')
    <3>1. /\ script' \in Seq(Frames) /\ handled' \in 0 .. Len(script') /\ sent' \in Nat
          /\ End(script', handled') <= sent' /\ sent' <= Len(Bytes(script'))
          /\ buf' = SubSeq(Bytes(script'), End(script', handled') + 1, sent')
      BY <2>1, <2>2, RpcAssumption DEF Consumed, Serving
    <3>. QED
      BY <3>1, BufferFacts
  <2>. QED
    BY <1>0, <2>1, <2>3 DEF Drained, Serving
<1>2. CASE DrainStops
  <2>1. draining /\ run = "serving" /\ UNCHANGED <<script, handled, sent, buf, run>>
    BY <1>2 DEF DrainStops, DrainEnds, BeginStop, clientVars, channelVars, Channel
  <2>2. ASSUME ~stopping'
        PROVE  Len(buf) <= MaxMessage /\ (handled < Len(script) => sent < End(script, handled + 1))
    <3>1. CASE buf = <<>>
      <4>1. Len(buf) = 0
        BY <3>1
      <4>2. ASSUME handled < Len(script) PROVE sent < End(script, handled + 1)
        <5>1. handled + 1 \in 1 .. Len(script) /\ (handled + 1) - 1 = handled
          BY <1>0, <4>2
        <5>2. /\ End(script, handled + 1) = End(script, handled) + script[handled + 1].size
              /\ script[handled + 1].size \in Nat /\ script[handled + 1].size >= 1
          BY <1>0, <5>1, BytesFacts, FrameFacts
        <5>. QED
          BY <1>0, <2>1, <4>1, <5>2
      <4>. QED
        BY <1>0, <4>1, <4>2
    <3>2. CASE buf # <<>>
      <4>1. Decode = "incomplete" /\ ~ (Len(buf) > MaxMessage)
        BY <1>2, <2>2, <3>2 DEF DrainStops, BeginStop, channelVars
      <4>. QED
        BY <1>0, <2>1, <3>2, <4>1, DecodeFacts
    <3>. QED
      BY <3>1, <3>2
  <2>. QED
    BY <2>1, <2>2 DEF Drained, Serving
<1>3. CASE DrainFrame
  <2>1. draining /\ draining' /\ run = "serving" /\ run' = run /\ Consumed'
        /\ UNCHANGED <<script, sent>> /\ handled' = handled + 1 /\ buf # <<>>
    BY <1>3, StepConsumed
       DEF DrainFrame, HandleFrame, BeginStop, clientVars, channelVars, Channel, Next
  <2>2. Len(buf') = sent - End(script, handled + 1)
    <3>1. /\ script' \in Seq(Frames) /\ handled' \in 0 .. Len(script') /\ sent' \in Nat
          /\ End(script', handled') <= sent' /\ sent' <= Len(Bytes(script'))
          /\ buf' = SubSeq(Bytes(script'), End(script', handled') + 1, sent')
      BY <2>1, RpcAssumption DEF Consumed
    <3>2. Len(buf') = sent' - End(script', handled')
      BY <3>1, BufferFacts
    <3>. QED
      BY <2>1, <3>2
  <2>3. /\ handled + 1 \in 1 .. Len(script) /\ (handled + 1) - 1 = handled
    BY <1>0, <2>1, DecodeFacts
  <2>4. /\ End(script, handled + 1) = End(script, handled) + script[handled + 1].size
        /\ script[handled + 1].size \in Nat
    BY <1>0, <2>3, BytesFacts, FrameFacts
  <2>. QED
    BY <1>0, <2>1, <2>2, <2>4 DEF Drained, Serving
<1>4. CASE ReadEof \/ ReadError
  BY <1>4 DEF ReadEof, ReadError, ReadEnds, BeginStop, clientVars, Drained, Serving
<1>5. CASE Flush \/ InClosed \/ Sigint \/ ClientCloses
  BY <1>5 DEF Flush, InClosed, Sigint, ClientCloses, clientVars, channelVars, Drained, Serving
<1>6. CASE LoopReturns
  BY <1>6 DEF LoopReturns, clientVars, Drained, Serving
<1>7. CASE ServeReturns
  <2>1. Len(buf') = 0 /\ run' = "returned"
    BY <1>7 DEF ServeReturns
  <2>. QED
    BY <1>0, <2>1 DEF Drained, Serving
<1>8. CASE UNCHANGED allVars
  BY <1>8 DEF allVars, clientVars, channelVars, Drained, Serving
<1>. QED
  BY <1>1, <1>2, <1>3, <1>4, <1>5, <1>6, <1>7, <1>8 DEF Next, Done

LEMMA LengthIsNat == ASSUME NEW S, NEW a \in Seq(S) PROVE Len(a) \in Nat
OBVIOUS

LEMMA StepJustified ==
  ASSUME Channel, Consumed, Drained, Justified, [Next]_allVars PROVE Justified'
<1>0. /\ script \in Seq(Frames) /\ Len(script) \in Nat /\ DOMAIN script = 1 .. Len(script)
      /\ handled \in Nat /\ handled <= Len(script) /\ sent \in Nat
      /\ MaxMessage \in Nat
  BY InputFacts, RpcAssumption DEF Consumed
<1>1. CASE ReadEof \/ ReadError
  <2>1. Serving /\ ~stopping /\ UNCHANGED <<script, handled, sent>>
    BY <1>1 DEF ReadEof, ReadError, ReadEnds, clientVars
  <2>2. ASSUME ~ (sent < Len(Bytes(script))) PROVE handled = Len(script)
    <3>. SUFFICES ASSUME handled # Len(script) PROVE FALSE
      OBVIOUS
    <3>. DEFINE l == Len(script)
    <3>0. handled < l /\ handled + 1 \in 0 .. l
      <4>1. handled \in Nat /\ l \in Nat /\ handled <= l /\ handled # l
        BY <1>0
      <4>. HIDE DEF l
      <4>. QED
        BY <4>1
    <3>1. sent < End(script, handled + 1) /\ handled + 1 \in 0 .. Len(script)
      BY <2>1, <3>0 DEF Drained
    <3>2. End(script, handled + 1) <= Len(Bytes(script)) /\ End(script, handled + 1) \in Nat
      BY <1>0, <3>1, BytesFacts
    <3>. DEFINE z == End(script, handled + 1)
    <3>3. sent < z /\ z <= sent /\ z \in Nat /\ sent \in Nat
      <4>. DEFINE b == Len(Bytes(script))
      <4>1. sent < z /\ z <= b /\ ~ (sent < b) /\ sent <= b /\ b \in Nat /\ z \in Nat /\ sent \in Nat
        <5>1. Bytes(script) \in Seq(Nat \X Nat) /\ sent <= Len(Bytes(script))
          BY InputFacts DEF Consumed
        <5>2. Len(Bytes(script)) \in Nat
          BY <5>1, LengthIsNat
        <5>. QED
          BY <1>0, <2>2, <3>1, <3>2, <5>1, <5>2
      <4>. HIDE DEF b, z
      <4>. QED
        BY <4>1
    <3>. HIDE DEF z
    <3>. QED
      BY <3>3
  <2>. QED
    BY <2>1, <2>2 DEF Justified
<1>2. CASE DrainStops
  <2>1. draining /\ run = "serving" /\ UNCHANGED <<script, handled, sent>>
    BY <1>2 DEF DrainStops, DrainEnds, clientVars, Channel
  <2>2. ASSUME stopping', ~stopping
        PROVE  Violations(script) # {} \/ \E k \in DOMAIN script : script[k].size > MaxMessage
    <3>1. buf # <<>> /\ (Decode = "error" \/ (Decode = "incomplete" /\ Len(buf) > MaxMessage))
      BY <1>2, <2>2 DEF DrainStops, channelVars
    <3>2. /\ handled + 1 \in DOMAIN script
          /\ Decode = "incomplete" => Len(buf) < script[handled + 1].size
          /\ Decode = "error" => script[handled + 1].kind = "corrupt"
      BY <1>0, <2>1, <3>1, DecodeFacts
    <3>3. script[handled + 1].size \in Nat /\ Len(buf) \in Nat
      <4>1. /\ End(script, handled) \in Nat /\ End(script, handled) <= sent
            /\ Len(buf) = sent - End(script, handled)
        BY <2>1, InputFacts DEF Consumed
      <4>. QED
        BY <1>0, <3>2, <4>1, FrameFacts
    <3>4. CASE Decode = "error"
      BY <3>2, <3>4 DEF Violations
    <3>5. CASE Decode = "incomplete"
      BY <1>0, <3>1, <3>2, <3>3, <3>5
    <3>. QED
      BY <3>1, <3>4, <3>5
  <2>. QED
    BY <2>1, <2>2 DEF Justified
<1>3. CASE DrainFrame
  <2>1. /\ run = "serving" /\ ~stopping /\ buf # <<>> /\ UNCHANGED <<script, sent>>
        /\ HandleFrame(script[buf[1][1]])
    BY <1>3 DEF DrainFrame, clientVars, Channel
  <2>2. handled + 1 \in DOMAIN script /\ buf[1][1] = handled + 1
    BY <1>0, <2>1, DecodeFacts
  <2>3. stopping' => handled + 1 \in Violations(script)
    BY <2>1, <2>2 DEF HandleFrame, channelVars, Violations
  <2>. QED
    BY <2>1, <2>3 DEF Justified
<1>4. CASE \E n \in 1 .. ReadChunk : ReadCb(n)
  <2>1. ~stopping'
    BY <1>4 DEF ReadCb, channelVars
  <2>. QED
    BY <2>1 DEF Justified
<1>5. CASE Flush \/ InClosed \/ Sigint \/ ClientCloses
           \/ LoopReturns \/ ServeReturns \/ UNCHANGED allVars
  <2>1. UNCHANGED <<script, handled, sent, stopping>>
    BY <1>5 DEF Flush, InClosed, Sigint, ClientCloses, LoopReturns, ServeReturns,
                allVars, clientVars, channelVars
  <2>. QED
    BY <2>1 DEF Justified
<1>. QED
  BY <1>1, <1>2, <1>3, <1>4, <1>5 DEF Next, Done

(* The buffer, the frames handled and the reasons for stopping are as      *)
(* Input says at all times.                                                *)
THEOREM InputInvariant == Spec => []Input
<1>1. Channel /\ Input /\ [Next]_allVars => Input'
  BY StepConsumed, StepDrained, StepJustified DEF Input
<1>. QED
  BY <1>1, InitInput, ChannelInvariant, PTL DEF Spec

---------------------------------------------------------------------------
(* The script executed frame by frame: Serial's recursion. *)

Start == [st |-> [map |-> [m \in {} |-> "nil"], cap |-> 0], replies |-> <<>>]

(* What frame k makes of the stores and replies p. *)
After(s, k, p) ==
  LET c == s[k].call
  IN  IF k \in Violations(s) THEN p
      ELSE [st |-> Apply(c, p.st),
            replies |-> IF s[k].kind = "notify" THEN p.replies
                        ELSE Append(p.replies, Reply(c, p.st))]

IsSerial(g, s, n) == g = [k \in 0 .. n |-> IF k = 0 THEN Start ELSE After(s, k, g[k - 1])]

SerialUpto(s, n) == CHOOSE g : IsSerial(g, s, n)

LEMMA SerialChosen == ASSUME NEW s, NEW n PROVE Serial(s, n) = SerialUpto(s, n)[n]
BY DEF Serial, SerialUpto, IsSerial, Start, After

LEMMA SerialExists == ASSUME NEW s, NEW n \in Nat PROVE \E g : IsSerial(g, s, n)
<1>. DEFINE S == {m \in Nat : \E g : IsSerial(g, s, m)}
<1>1. 0 \in S
  <2>1. IsSerial([k \in 0 .. 0 |-> Start], s, 0)
    BY DEF IsSerial
  <2>. QED
    BY <2>1
<1>2. ASSUME NEW m \in Nat, m \in S PROVE m + 1 \in S
  <2>1. PICK g : IsSerial(g, s, m)
    BY <1>2
  <2>. DEFINE last == After(s, m + 1, g[m])
              h == [k \in 0 .. m + 1 |-> IF k = m + 1 THEN last ELSE g[k]]
  <2>2. ASSUME NEW k \in 0 .. m + 1
        PROVE  h[k] = IF k = 0 THEN Start ELSE After(s, k, h[k - 1])
    <3>1. CASE k = m + 1
      <4>. HIDE DEF last
      <4>1. h[k - 1] = g[m] /\ k # 0 /\ h[k] = last
        BY <3>1
      <4>. HIDE DEF h
      <4>. QED
        BY <3>1, <4>1 DEF last
    <3>2. CASE k \in 0 .. m
      <4>1. g[k] = IF k = 0 THEN Start ELSE After(s, k, g[k - 1])
        BY <2>1, <3>2 DEF IsSerial
      <4>2. h[k] = g[k] /\ (k # 0 => h[k - 1] = g[k - 1])
        BY <3>2
      <4>. QED
        BY <4>1, <4>2
    <3>. QED
      BY <3>1, <3>2
  <2>3. IsSerial(h, s, m + 1)
    <3>1. h = [k \in 0 .. m + 1 |-> h[k]]
      OBVIOUS
    <3>. HIDE DEF h
    <3>. QED
      BY <2>2, <3>1 DEF IsSerial
  <2>. QED
    BY <2>3
<1>. QED
  <2>. HIDE DEF S
  <2>1. n \in S
    BY <1>1, <1>2, SetInduction
  <2>. QED
    BY <2>1 DEF S

LEMMA SerialUptoIs == ASSUME NEW s, NEW n \in Nat PROVE IsSerial(SerialUpto(s, n), s, n)
<1>1. \E g : IsSerial(g, s, n)
  BY SerialExists
<1>. QED
  BY <1>1 DEF SerialUpto

(* Executions of different lengths agree as far as both go. *)
LEMMA SerialAgree ==
  ASSUME NEW s, NEW n \in Nat, NEW g, IsSerial(g, s, n), NEW h, IsSerial(h, s, n + 1)
  PROVE  g[n] = h[n]
<1>. DEFINE S == {k \in Nat : k <= n => g[k] = h[k]}
<1>1. /\ \A k \in 0 .. n : g[k] = IF k = 0 THEN Start ELSE After(s, k, g[k - 1])
      /\ \A k \in 0 .. n + 1 : h[k] = IF k = 0 THEN Start ELSE After(s, k, h[k - 1])
  BY DEF IsSerial
<1>2. 0 \in S
  BY <1>1
<1>3. ASSUME NEW k \in Nat, k \in S PROVE k + 1 \in S
  <2>1. SUFFICES ASSUME k + 1 <= n PROVE g[k + 1] = h[k + 1]
    OBVIOUS
  <2>2. k + 1 \in 0 .. n /\ k + 1 \in 0 .. n + 1 /\ k + 1 # 0 /\ (k + 1) - 1 = k /\ k <= n
    BY <2>1
  <2>3. g[k] = h[k]
    BY <1>3, <2>2
  <2>4. g[k + 1] = After(s, k + 1, g[k]) /\ h[k + 1] = After(s, k + 1, h[k])
    BY <1>1, <2>2
  <2>. QED
    BY <2>3, <2>4
<1>. HIDE DEF S
<1>4. n \in S
  BY <1>2, <1>3, SetInduction
<1>. QED
  BY <1>4 DEF S

LEMMA SerialStep ==
  ASSUME NEW s
  PROVE  /\ Serial(s, 0) = Start
         /\ \A n \in Nat : Serial(s, n + 1) = After(s, n + 1, Serial(s, n))
<1>1. ASSUME NEW n \in Nat, NEW k \in 0 .. n
      PROVE  SerialUpto(s, n)[k] = IF k = 0 THEN Start ELSE After(s, k, SerialUpto(s, n)[k - 1])
  <2>. DEFINE g == SerialUpto(s, n)
  <2>1. IsSerial(g, s, n)
    BY SerialUptoIs
  <2>. HIDE DEF g
  <2>2. g[k] = IF k = 0 THEN Start ELSE After(s, k, g[k - 1])
    BY <2>1 DEF IsSerial
  <2>. QED
    BY <2>2 DEF g
<1>2. Serial(s, 0) = Start
  BY <1>1, SerialChosen
<1>3. ASSUME NEW n \in Nat PROVE Serial(s, n + 1) = After(s, n + 1, Serial(s, n))
  <2>1. n + 1 \in Nat /\ n + 1 \in 0 .. n + 1 /\ n + 1 # 0 /\ (n + 1) - 1 = n
    OBVIOUS
  <2>2. SerialUpto(s, n + 1)[n + 1] = After(s, n + 1, SerialUpto(s, n + 1)[n])
    BY <1>1, <2>1
  <2>3. SerialUpto(s, n)[n] = SerialUpto(s, n + 1)[n]
    BY <2>1, SerialUptoIs, SerialAgree
  <2>. QED
    BY <2>2, <2>3, SerialChosen
<1>. QED
  BY <1>2, <1>3

---------------------------------------------------------------------------
(* The stores. *)

Entries == [key : Names, value : Values]
Named(vs) == {i \in DOMAIN vs : vs[i].key # ""}

(* The array vs holds the map of st, each name once and nothing else. *)
Mirrors(vs, st) ==
  /\ vs \in Seq(Entries) /\ Len(vs) <= VarMax
  /\ DOMAIN st = {"map", "cap"} /\ st.cap \in Nat
  /\ {vs[i].key : i \in Named(vs)} = DOMAIN st.map
  /\ \A i \in Named(vs) : vs[i].value = st.map[vs[i].key]
  /\ \A i, j \in Named(vs) : vs[i].key = vs[j].key => i = j
  /\ Len(vs) = Cardinality(Named(vs))

LEMMA EntryFacts ==
  ASSUME NEW vs \in Seq(Entries)
  PROVE  /\ Len(vs) \in Nat /\ DOMAIN vs = 1 .. Len(vs)
         /\ \A i \in 1 .. Len(vs) :
              vs[i] \in Entries /\ vs[i].key \in Names /\ vs[i].value \in Values
         /\ Named(vs) \subseteq 1 .. Len(vs)
         /\ IsFiniteSet(Named(vs)) /\ Cardinality(Named(vs)) \in Nat
<1>1. Len(vs) \in Nat /\ DOMAIN vs = 1 .. Len(vs)
  OBVIOUS
<1>2. ASSUME NEW i \in 1 .. Len(vs)
      PROVE  vs[i] \in Entries /\ vs[i].key \in Names /\ vs[i].value \in Values
  <2>1. vs[i] \in Entries
    OBVIOUS
  <2>. QED
    BY <2>1 DEF Entries
<1>3. Named(vs) \subseteq 1 .. Len(vs)
  BY <1>1 DEF Named
<1>4. IsFiniteSet(1 .. Len(vs))
  BY <1>1, FS_Interval
<1>5. IsFiniteSet(Named(vs)) /\ Cardinality(Named(vs)) \in Nat
  BY <1>3, <1>4, FS_Subset, FS_CardinalityType
<1>. QED
  BY <1>1, <1>2, <1>3, <1>5

(* As many named entries as names. *)
LEMMA MirrorCard ==
  ASSUME NEW vs, NEW st, Mirrors(vs, st)
  PROVE  Cardinality(Named(vs)) = Cardinality(DOMAIN st.map)
<1>. DEFINE N == Named(vs)
            f == [i \in N |-> vs[i].key]
<1>1. f \in Bijection(N, DOMAIN st.map)
  <2>1. {vs[i].key : i \in N} = DOMAIN st.map /\ \A i, j \in N : vs[i].key = vs[j].key => i = j
    BY DEF Mirrors
  <2>2. f \in [N -> DOMAIN st.map]
    BY <2>1
  <2>3. \A i, j \in N : f[i] = f[j] => i = j
    BY <2>1
  <2>4. \A t \in DOMAIN st.map : \E i \in N : f[i] = t
    BY <2>1
  <2>. HIDE DEF f, N
  <2>5. DOMAIN f = N
    BY <2>2
  <2>. QED
    BY <2>2, <2>3, <2>4, <2>5 DEF Bijection, Injection, Surjection, IsInjective
<1>2. IsFiniteSet(N)
  BY EntryFacts DEF Mirrors
<1>. QED
  <2>. HIDE DEF f, N
  <2>1. ExistsBijection(N, DOMAIN st.map)
    BY <1>1 DEF ExistsBijection
  <2>2. Cardinality(DOMAIN st.map) = Cardinality(N)
    BY <1>2, <2>1, FS_Bijection
  <2>. QED
    BY <2>2 DEF N

(* No entry of the array is nameless. *)
LEMMA MirrorNamed == ASSUME NEW vs, NEW st, Mirrors(vs, st) PROVE Named(vs) = DOMAIN vs
<1>1. /\ vs \in Seq(Entries) /\ Len(vs) = Cardinality(Named(vs))
      /\ Len(vs) \in Nat /\ DOMAIN vs = 1 .. Len(vs) /\ Named(vs) \subseteq 1 .. Len(vs)
  BY EntryFacts DEF Mirrors
<1>. DEFINE N == Named(vs)
            D == 1 .. Len(vs)
<1>2. IsFiniteSet(D) /\ Cardinality(D) = Len(vs)
  BY <1>1, FS_Interval
<1>3. N \subseteq D /\ Cardinality(N) = Cardinality(D)
  BY <1>1, <1>2
<1>. HIDE DEF N, D
<1>4. N = D
  BY <1>2, <1>3, FS_Subset
<1>. QED
  BY <1>1, <1>4 DEF N, D

LEMMA AppendEntry ==
  ASSUME NEW vs \in Seq(Entries), NEW e \in Entries
  PROVE  /\ Append(vs, e) \in Seq(Entries) /\ Len(Append(vs, e)) = Len(vs) + 1
         /\ \A i \in 1 .. Len(vs) : Append(vs, e)[i] = vs[i]
         /\ Append(vs, e)[Len(vs) + 1] = e
         /\ Named(Append(vs, e)) = Named(vs) \cup (IF e.key # "" THEN {Len(vs) + 1} ELSE {})
         /\ ~ (Len(vs) + 1 \in Named(vs))
<1>. DEFINE a == Append(vs, e)
<1>1. /\ a \in Seq(Entries) /\ Len(a) = Len(vs) + 1 /\ Len(vs) \in Nat
      /\ \A i \in 1 .. Len(vs) : a[i] = vs[i]
      /\ a[Len(vs) + 1] = e
  OBVIOUS
<1>2. DOMAIN a = 1 .. Len(vs) + 1 /\ DOMAIN vs = 1 .. Len(vs)
  BY <1>1, EntryFacts
<1>. HIDE DEF a
<1>3. Named(a) = Named(vs) \cup (IF e.key # "" THEN {Len(vs) + 1} ELSE {})
  <2>1. \A i : i \in 1 .. Len(vs) + 1 <=> i \in 1 .. Len(vs) \/ i = Len(vs) + 1
    BY <1>1
  <2>. QED
    BY <1>1, <1>2, <2>1 DEF Named
<1>4. ~ (Len(vs) + 1 \in Named(vs))
  BY <1>1, EntryFacts
<1>. QED
  BY <1>1, <1>3, <1>4 DEF a

LEMMA ReplaceEntry ==
  ASSUME NEW vs \in Seq(Entries), NEW i \in 1 .. Len(vs), NEW e \in Entries, e.key = vs[i].key
  PROVE  LET a == [vs EXCEPT ![i] = e]
         IN  /\ a \in Seq(Entries) /\ Len(a) = Len(vs) /\ Named(a) = Named(vs)
             /\ a[i] = e /\ \A j \in 1 .. Len(vs) : j # i => a[j] = vs[j]
<1>. DEFINE a == [vs EXCEPT ![i] = e]
<1>1. /\ a \in Seq(Entries) /\ Len(a) = Len(vs) /\ a[i] = e
      /\ \A j \in 1 .. Len(vs) : j # i => a[j] = vs[j]
  OBVIOUS
<1>2. DOMAIN a = 1 .. Len(vs) /\ DOMAIN vs = 1 .. Len(vs)
  BY <1>1, EntryFacts
<1>. HIDE DEF a
<1>3. Named(a) = Named(vs)
  BY <1>1, <1>2 DEF Named
<1>. QED
  BY <1>1, <1>3 DEF a

(* The entry that fills the hole is the last one, under its own name. *)
LEMMA RemoveFacts ==
  ASSUME NEW vs \in Seq(Entries), NEW i \in 1 .. Len(vs)
  PROVE  LET a == RemoveEntry(vs, i)
         IN  /\ a \in Seq(Entries) /\ Len(a) = Len(vs) - 1
             /\ \A j \in 1 .. Len(vs) - 1 : a[j] = IF j = i THEN vs[Len(vs)] ELSE vs[j]
<1>. DEFINE a == RemoveEntry(vs, i)
            b == [vs EXCEPT ![i] = vs[Len(vs)]]
<1>1. Len(vs) \in Nat /\ Len(vs) - 1 \in Nat /\ vs[Len(vs)] \in Entries
  BY EntryFacts
<1>2. /\ b \in Seq(Entries) /\ Len(b) = Len(vs)
      /\ \A j \in 1 .. Len(vs) : b[j] = IF j = i THEN vs[Len(vs)] ELSE vs[j]
  BY <1>1
<1>3. a = SubSeq(b, 1, Len(vs) - 1)
  BY DEF RemoveEntry
<1>. HIDE DEF a, b
<1>4. /\ a \in Seq(Entries) /\ Len(a) = Len(vs) - 1
      /\ \A j \in 1 .. Len(vs) - 1 : a[j] = b[j]
  <2>1. 0 <= Len(vs) - 1 /\ Len(vs) - 1 <= Len(b) /\ 0 + 1 = 1 /\ Len(vs) - 1 - 0 = Len(vs) - 1
    BY <1>1, <1>2
  <2>2. /\ SubSeq(b, 0 + 1, Len(vs) - 1) \in Seq(Entries)
        /\ Len(SubSeq(b, 0 + 1, Len(vs) - 1)) = Len(vs) - 1 - 0
        /\ \A j \in 1 .. Len(vs) - 1 - 0 : SubSeq(b, 0 + 1, Len(vs) - 1)[j] = b[0 + j]
    BY <1>1, <1>2, <2>1, SubSeqFacts
  <2>3. \A j \in 1 .. Len(vs) - 1 : 0 + j = j
    OBVIOUS
  <2>. QED
    BY <1>3, <2>1, <2>2, <2>3
<1>5. \A j \in 1 .. Len(vs) - 1 : j \in 1 .. Len(vs)
  BY <1>1
<1>. QED
  BY <1>2, <1>4, <1>5 DEF a

LEMMA IndexFacts ==
  ASSUME NEW vs, NEW st, Mirrors(vs, st), NEW n \in Names
  PROVE  /\ VarIndex(vs, n) = {} <=> n \notin DOMAIN st.map
         /\ \A i \in VarIndex(vs, n) : /\ i \in Named(vs) /\ i \in 1 .. Len(vs) /\ n # ""
                                       /\ vs[i].key = n /\ vs[i].value = st.map[n]
         /\ "" \notin DOMAIN st.map
<1>1. /\ {vs[i].key : i \in Named(vs)} = DOMAIN st.map
      /\ \A i \in Named(vs) : vs[i].value = st.map[vs[i].key]
      /\ Named(vs) \subseteq 1 .. Len(vs)
  BY EntryFacts DEF Mirrors
<1>2. VarIndex(vs, n) = {i \in Named(vs) : vs[i].key = n}
  BY DEF VarIndex, Named
<1>3. "" \notin DOMAIN st.map
  BY <1>1 DEF Named
<1>4. \A i \in Named(vs) : vs[i].key # ""
  BY DEF Named
<1>. QED
  BY <1>1, <1>2, <1>3, <1>4

(* What setting a name to a value makes of the stores. *)
Entered(st, n, v) == [st EXCEPT !.map = Put(@, n, v)]

LEMMA RoomForOne == ASSUME NEW l \in Nat, NEW m \in Nat, l <= m, l # m PROVE l + 1 <= m
OBVIOUS

LEMMA MirrorAppend ==
  ASSUME NEW vs, NEW st, Mirrors(vs, st), NEW n \in Names, NEW v \in Values,
         n # "", n \notin DOMAIN st.map, Len(vs) # VarMax
  PROVE  Mirrors(Append(vs, [key |-> n, value |-> v]), Entered(st, n, v))
<1>. DEFINE e == [key |-> n, value |-> v]
            a == Append(vs, e)
            l == Len(vs)
            st2 == Entered(st, n, v)
<1>1. e \in Entries /\ e.key = n /\ e.value = v
  BY DEF Entries
<1>2. /\ vs \in Seq(Entries) /\ l <= VarMax /\ l \in Nat /\ VarMax \in Nat
      /\ st.cap \in Nat
      /\ {vs[i].key : i \in Named(vs)} = DOMAIN st.map
      /\ \A i \in Named(vs) : vs[i].value = st.map[vs[i].key]
      /\ \A i, j \in Named(vs) : vs[i].key = vs[j].key => i = j
      /\ l = Cardinality(Named(vs))
      /\ Named(vs) \subseteq 1 .. l /\ IsFiniteSet(Named(vs)) /\ Cardinality(Named(vs)) \in Nat
  BY EntryFacts, RpcAssumption DEF Mirrors
<1>. HIDE DEF e, st2
<1>3. /\ a \in Seq(Entries) /\ Len(a) = l + 1
      /\ \A i \in 1 .. l : a[i] = vs[i]
      /\ a[l + 1] = e
      /\ Named(a) = Named(vs) \cup (IF e.key # "" THEN {l + 1} ELSE {})
      /\ ~ (l + 1 \in Named(vs))
  BY <1>1, <1>2, AppendEntry
<1>4. l + 1 <= VarMax
  BY <1>2, RoomForOne
<1>5. Len(a) <= VarMax /\ Len(a) = Cardinality(Named(vs)) + 1
  BY <1>2, <1>3, <1>4
<1>. HIDE DEF a, l
<1>6. DOMAIN st = {"map", "cap"}
  BY DEF Mirrors
<1>7. /\ Named(a) = Named(vs) \cup {l + 1}
      /\ st2.map = Put(st.map, n, v)
      /\ st2.cap = st.cap /\ DOMAIN st2 = {"map", "cap"}
  BY <1>1, <1>3, <1>6 DEF st2, Entered
<1>8. v # "nil"
  BY DEF Values
<1>9. /\ DOMAIN st2.map = DOMAIN st.map \cup {n} /\ st2.map[n] = v
      /\ \A m \in DOMAIN st.map : st2.map[m] = st.map[m]
  BY <1>7, <1>8 DEF Put
<1>10. \A i \in Named(vs) : a[i] = vs[i] /\ vs[i].key \in DOMAIN st.map
  BY <1>2, <1>3
<1>11. a[l + 1].key = n /\ a[l + 1].value = v
  BY <1>1, <1>3
<1>12. {a[i].key : i \in Named(a)} = DOMAIN st2.map
  <2>1. {a[i].key : i \in Named(a)} = {a[i].key : i \in Named(vs)} \cup {a[l + 1].key}
    BY <1>7
  <2>2. {a[i].key : i \in Named(vs)} = {vs[i].key : i \in Named(vs)}
    BY <1>10
  <2>. QED
    BY <1>2, <1>9, <1>11, <2>1, <2>2
<1>13. ASSUME NEW i \in Named(a) PROVE a[i].value = st2.map[a[i].key]
  <2>1. CASE i = l + 1
    BY <1>9, <1>11, <2>1
  <2>2. CASE i \in Named(vs)
    <3>1. vs[i].value = st.map[vs[i].key]
      BY <2>2 DEF Mirrors
    <3>. QED
      BY <1>9, <1>10, <2>2, <3>1
  <2>. QED
    BY <1>7, <2>1, <2>2
<1>14. \A i, j \in Named(a) : a[i].key = a[j].key => i = j
  BY <1>2, <1>7, <1>10, <1>11
<1>15. Cardinality(Named(a)) = Cardinality(Named(vs)) + 1
  <2>. DEFINE N == Named(vs)
              k == l + 1
  <2>1. IsFiniteSet(N) /\ ~(k \in N) /\ Named(a) = N \cup {k}
    BY <1>2, <1>3, <1>7
  <2>. HIDE DEF N, k
  <2>2. Cardinality(N \cup {k}) = Cardinality(N) + 1
    BY <2>1, FS_AddElement
  <2>. QED
    BY <2>1, <2>2 DEF N
<1>16. Len(a) = Cardinality(Named(a)) /\ Len(a) <= VarMax
  BY <1>5, <1>7, <1>15
<1>17. Mirrors(a, st2)
  BY <1>2, <1>3, <1>7, <1>12, <1>13, <1>14, <1>16 DEF Mirrors
<1>. QED
  BY <1>17 DEF a, e, st2

LEMMA MirrorReplace ==
  ASSUME NEW vs, NEW st, Mirrors(vs, st), NEW n \in Names, NEW v \in Values,
         NEW i \in VarIndex(vs, n)
  PROVE  Mirrors([vs EXCEPT ![i].value = v], Entered(st, n, v))
<1>. DEFINE e == [key |-> n, value |-> v]
            a == [vs EXCEPT ![i].value = v]
            b == [vs EXCEPT ![i] = e]
            st2 == Entered(st, n, v)
<1>1. e \in Entries /\ e.key = n /\ e.value = v /\ v # "nil"
  BY DEF Entries, Values
<1>2. /\ vs \in Seq(Entries) /\ Len(vs) <= VarMax /\ Len(vs) \in Nat
      /\ st.cap \in Nat
      /\ {vs[j].key : j \in Named(vs)} = DOMAIN st.map
      /\ \A j \in Named(vs) : vs[j].value = st.map[vs[j].key]
      /\ \A j, k \in Named(vs) : vs[j].key = vs[k].key => j = k
      /\ Len(vs) = Cardinality(Named(vs))
      /\ Named(vs) \subseteq 1 .. Len(vs)
  BY EntryFacts DEF Mirrors
<1>3. i \in Named(vs) /\ i \in 1 .. Len(vs) /\ vs[i].key = n /\ vs[i] \in Entries
  BY <1>2, IndexFacts, EntryFacts
<1>4. a = b
  <2>1. [vs[i] EXCEPT !.value = v] = e
    BY <1>3 DEF Entries
  <2>. HIDE DEF e
  <2>. QED
    BY <2>1
<1>. HIDE DEF a, e, st2
<1>5. /\ a \in Seq(Entries) /\ Len(a) = Len(vs) /\ Named(a) = Named(vs)
      /\ a[i] = e /\ \A j \in 1 .. Len(vs) : j # i => a[j] = vs[j]
  <2>1. vs \in Seq(Entries) /\ i \in 1 .. Len(vs) /\ e \in Entries /\ e.key = vs[i].key
    BY <1>1, <1>2, <1>3
  <2>2. /\ b \in Seq(Entries) /\ Len(b) = Len(vs) /\ Named(b) = Named(vs)
        /\ b[i] = e /\ \A j \in 1 .. Len(vs) : j # i => b[j] = vs[j]
    BY <2>1, ReplaceEntry
  <2>. QED
    BY <1>4, <2>2
<1>6. n \in DOMAIN st.map
  BY <1>2, <1>3
<1>7. /\ DOMAIN st2 = {"map", "cap"} /\ st2.cap = st.cap
      /\ st2.map = Put(st.map, n, v)
  <2>1. DOMAIN st = {"map", "cap"}
    BY DEF Mirrors
  <2>. QED
    BY <2>1 DEF st2, Entered
<1>8. /\ DOMAIN st2.map = DOMAIN st.map /\ st2.map[n] = v
      /\ \A m \in DOMAIN st.map : m # n => st2.map[m] = st.map[m]
  BY <1>1, <1>6, <1>7 DEF Put
<1>9. \A j \in Named(a) : a[j].key = vs[j].key
  BY <1>1, <1>2, <1>3, <1>5
<1>10. {a[j].key : j \in Named(a)} = DOMAIN st2.map
  <2>1. {a[j].key : j \in Named(a)} = {vs[j].key : j \in Named(vs)}
    BY <1>5, <1>9
  <2>. QED
    BY <1>2, <1>8, <2>1
<1>11. \A j, k \in Named(a) : a[j].key = a[k].key => j = k
  BY <1>2, <1>5, <1>9
<1>12. ASSUME NEW j \in Named(a) PROVE a[j].value = st2.map[a[j].key]
  <2>1. CASE j = i
    BY <1>1, <1>5, <1>8, <2>1
  <2>2. CASE j # i
    <3>1. /\ j \in Named(vs) /\ j \in 1 .. Len(vs) /\ a[j] = vs[j] /\ vs[j].key # n
          /\ vs[j].key \in DOMAIN st.map
      BY <1>2, <1>3, <1>5, <1>12, <2>2
    <3>. QED
      BY <1>2, <1>8, <3>1
  <2>. QED
    BY <2>1, <2>2
<1>13. Mirrors(a, st2)
  BY <1>2, <1>5, <1>7, <1>10, <1>11, <1>12 DEF Mirrors
<1>. QED
  BY <1>13 DEF a, st2

LEMMA MirrorRemove ==
  ASSUME NEW vs, NEW st, Mirrors(vs, st), NEW n \in Names, NEW i \in VarIndex(vs, n)
  PROVE  Mirrors(RemoveEntry(vs, i), Entered(st, n, "nil"))
<1>. DEFINE a == RemoveEntry(vs, i)
            st2 == Entered(st, n, "nil")
            l == Len(vs)
            N == Named(vs)
            M == Named(a)
            c == Cardinality(N)
            o(j) == IF j = i THEN l ELSE j  \* where entry j of a was
<1>0. /\ {vs[j].key : j \in N} = DOMAIN st.map
      /\ \A j \in N : vs[j].value = st.map[vs[j].key]
      /\ \A j, k \in N : vs[j].key = vs[k].key => j = k
  BY DEF Mirrors
<1>1. /\ vs \in Seq(Entries) /\ l <= VarMax /\ l \in Nat /\ VarMax \in Nat
      /\ st.cap \in Nat
      /\ l = c /\ DOMAIN vs = 1 .. l
      /\ N \subseteq 1 .. l /\ IsFiniteSet(N) /\ c \in Nat
  BY EntryFacts, RpcAssumption DEF Mirrors
<1>2. i \in N /\ i \in 1 .. l /\ vs[i].key = n /\ n # ""
  BY IndexFacts
<1>3. /\ a \in Seq(Entries) /\ Len(a) = l - 1
      /\ \A j \in 1 .. l - 1 : a[j] = vs[o(j)]
  <2>1. vs \in Seq(Entries) /\ i \in 1 .. Len(vs)
    BY <1>1, <1>2
  <2>2. /\ a \in Seq(Entries) /\ Len(a) = Len(vs) - 1
        /\ \A j \in 1 .. Len(vs) - 1 : a[j] = IF j = i THEN vs[Len(vs)] ELSE vs[j]
    BY <2>1, RemoveFacts
  <2>. QED
    BY <2>2
<1>4. DOMAIN a = 1 .. l - 1
  BY <1>3, EntryFacts
<1>5. n \in DOMAIN st.map
  BY <1>0, <1>2
<1>6. /\ DOMAIN st2 = {"map", "cap"} /\ st2.cap = st.cap
      /\ st2.map = Put(st.map, n, "nil")
  <2>1. DOMAIN st = {"map", "cap"}
    BY DEF Mirrors
  <2>. QED
    BY <1>2, <2>1 DEF Entered
<1>. HIDE DEF a, st2, c, l
<1>7. \A j : j \in 1 .. l => (j \in 1 .. l - 1 <=> j # l) /\ l \in 1 .. l
  BY <1>1
<1>8. M = {j \in 1 .. l - 1 : o(j) \in N}
  <2>1. \A j \in 1 .. l - 1 : o(j) \in 1 .. l
    BY <1>1, <1>7
  <2>2. \A j \in 1 .. l - 1 : a[j].key # "" <=> o(j) \in N
    BY <1>1, <1>3, <2>1 DEF Named
  <2>. QED
    BY <1>4, <2>2 DEF Named
<1>9. M = N \ {IF l \in N THEN l ELSE i}
  <2>1. i \in N /\ \A j \in N : j \in 1 .. l
    BY <1>1, <1>2
  <2>. HIDE DEF N, M
  <2>2. \A j : j \in M <=> j \in 1 .. l /\ j # l /\ (IF j = i THEN l ELSE j) \in N
    BY <1>7, <1>8, <1>1
  <2>. QED
    BY <2>1, <2>2
<1>10. Cardinality(M) = c - 1
  <2>. DEFINE r == IF l \in N THEN l ELSE i
  <2>1. r \in N
    BY <1>2
  <2>. HIDE DEF r, N, M
  <2>2. M = N \ {r}
    BY <1>9 DEF r
  <2>. QED
    BY <1>1, <2>1, <2>2, FS_RemoveElement DEF c
<1>. DEFINE m == Cardinality(M) la == Len(a)
<1>11. la <= VarMax /\ la = m
  <2>1. la = l - 1 /\ m = c - 1
    BY <1>3, <1>10
  <2>. HIDE DEF la, m
  <2>. QED
    BY <1>1, <2>1
<1>12. /\ \A j \in M : o(j) \in N /\ o(j) # i /\ a[j] = vs[o(j)]
       /\ \A k \in N : k # i => \E j \in M : o(j) = k
       /\ \A j, k \in M : o(j) = o(k) => j = k
  <2>1. ASSUME NEW j \in M PROVE o(j) \in N /\ o(j) # i /\ a[j] = vs[o(j)]
    BY <1>1, <1>2, <1>3, <1>7, <1>8
  <2>2. ASSUME NEW k \in N, k # i PROVE \E j \in M : o(j) = k
    <3>1. CASE k = l
      BY <1>2, <1>7, <1>8, <2>2, <3>1
    <3>2. CASE k # l
      BY <1>1, <1>2, <1>7, <1>8, <2>2, <3>2
    <3>. QED
      BY <3>1, <3>2
  <2>3. \A j, k \in M : o(j) = o(k) => j = k
    BY <1>7, <1>8, <1>1
  <2>. QED
    BY <2>1, <2>2, <2>3
<1>. HIDE DEF o, M, N, la, m
<1>13. DOMAIN st2.map = DOMAIN st.map \ {n} /\ \A k \in DOMAIN st2.map : st2.map[k] = st.map[k]
  BY <1>6 DEF Put
<1>14. {a[j].key : j \in M} = DOMAIN st2.map
  <2>1. ASSUME NEW j \in M PROVE a[j].key \in DOMAIN st2.map
    <3>1. o(j) \in N /\ vs[o(j)].key # n
      BY <1>0, <1>2, <1>12
    <3>. QED
      BY <1>0, <1>12, <1>13, <3>1
  <2>2. ASSUME NEW k \in DOMAIN st2.map PROVE \E j \in M : a[j].key = k
    <3>1. PICK p \in N : vs[p].key = k
      BY <1>0, <1>13
    <3>2. p # i
      BY <1>2, <1>13, <3>1
    <3>. QED
      BY <1>12, <3>1, <3>2
  <2>. QED
    BY <2>1, <2>2
<1>15. \A j \in M : a[j].value = st2.map[a[j].key]
  BY <1>0, <1>12, <1>13, <1>14
<1>16. \A j, k \in M : a[j].key = a[k].key => j = k
  BY <1>0, <1>12
<1>17. Mirrors(a, st2)
  BY <1>1, <1>3, <1>6, <1>11, <1>14, <1>15, <1>16 DEF Mirrors, M, la, m
<1>. QED
  BY <1>17 DEF a, st2

(* Deleting a name that is not set changes nothing. *)
LEMMA MirrorAbsent ==
  ASSUME NEW vs, NEW st, Mirrors(vs, st), NEW n \in Names, n \notin DOMAIN st.map
  PROVE  Mirrors(vs, Entered(st, n, "nil"))
<1>. DEFINE st2 == Entered(st, n, "nil")
<1>1. /\ DOMAIN st2 = {"map", "cap"} /\ st2.cap = st.cap
      /\ st2.map = Put(st.map, n, "nil")
  BY DEF Entered, Mirrors
<1>. HIDE DEF st2
<1>2. DOMAIN st2.map = DOMAIN st.map /\ \A k \in DOMAIN st.map : st2.map[k] = st.map[k]
  BY <1>1 DEF Put
<1>3. Mirrors(vs, st2)
  BY <1>1, <1>2 DEF Mirrors
<1>. QED
  BY <1>3 DEF st2

LEMMA CallFacts ==
  ASSUME NEW c \in Calls
  PROVE  /\ c.fn \in {"set_var", "get_var", "set_option", "get_option", "sess_get", "bad"}
         /\ c.fn = "set_var" => c.name \in Names /\ c.value \in Values \cup {"nil"}
         /\ c.fn = "get_var" => c.name \in Names
         /\ c.fn = "set_option" => c.value \in Nat
BY DEF Calls

(* The store is full exactly when the map has no room. *)
LEMMA FullFacts ==
  ASSUME NEW vs, NEW st, Mirrors(vs, st), NEW c, c.name \in Names
  PROVE  VariablesFull(vs, c.name, c.value) <=> ~Fits(c, st)
<1>. DEFINE l == Len(vs)
            d == Cardinality(DOMAIN st.map)
<1>1. /\ l \in Nat /\ VarMax \in Nat /\ l <= VarMax
      /\ Cardinality(Named(vs)) \in Nat /\ l = Cardinality(Named(vs))
  BY EntryFacts, RpcAssumption DEF Mirrors
<1>2. d = Cardinality(Named(vs))
  BY MirrorCard
<1>3. VarIndex(vs, c.name) = {} <=> c.name \notin DOMAIN st.map
  <2>. DEFINE n == c.name
  <2>1. n \in Names
    OBVIOUS
  <2>. HIDE DEF n
  <2>2. VarIndex(vs, n) = {} <=> n \notin DOMAIN st.map
    BY <2>1, IndexFacts
  <2>. QED
    BY <2>2 DEF n
<1>. HIDE DEF l, d
<1>4. l = VarMax <=> ~ (d < VarMax)
  BY <1>1, <1>2
<1>. QED
  BY <1>3, <1>4 DEF VariablesFull, Fits, l, d

(* A call that enters an empty name, which the array and the map do not    *)
(* treat alike.                                                            *)
EntersNameless(c) == c.fn = "set_var" /\ c.name = "" /\ c.value # "nil"

LEMMA SetFacts ==
  ASSUME NEW vs, NEW st, Mirrors(vs, st), NEW c \in Calls, c.fn = "set_var", Fits(c, st),
         ~EntersNameless(c)
  PROVE  Mirrors(VariablesSet(vs, c.name, c.value), Apply(c, st))
<1>. DEFINE n == c.name
            v == c.value
            at == VarIndex(vs, n)
            i == CHOOSE k \in at : TRUE
<1>1. n \in Names /\ v \in Values \cup {"nil"}
  BY CallFacts
<1>2. /\ at = {} <=> n \notin DOMAIN st.map
      /\ at # {} => i \in at /\ n # ""
  BY <1>1, IndexFacts
<1>3. Apply(c, st) = Entered(st, n, v)
  <2>1. ~Reply(c, st).error
    BY DEF Reply, Ok
  <2>. QED
    BY <2>1 DEF Apply, Entered
<1>4. CASE v = "nil"
  <2>1. CASE at # {}
    <3>1. VariablesSet(vs, n, v) = RemoveEntry(vs, i)
      BY <1>4, <2>1 DEF VariablesSet
    <3>2. Mirrors(RemoveEntry(vs, i), Entered(st, n, "nil"))
      BY <1>1, <1>2, <2>1, MirrorRemove
    <3>. QED
      BY <1>3, <1>4, <3>1, <3>2
  <2>2. CASE at = {}
    <3>1. VariablesSet(vs, n, v) = vs
      BY <1>4, <2>2 DEF VariablesSet
    <3>. QED
      BY <1>1, <1>2, <1>3, <1>4, <2>2, <3>1, MirrorAbsent
  <2>. QED
    BY <2>1, <2>2
<1>5. CASE v # "nil"
  <2>0. v \in Values /\ n # ""
    BY <1>1, <1>5 DEF EntersNameless
  <2>1. CASE at # {}
    <3>1. VariablesSet(vs, n, v) = [vs EXCEPT ![i].value = v]
      BY <1>5, <2>1 DEF VariablesSet
    <3>2. Mirrors([vs EXCEPT ![i].value = v], Entered(st, n, v))
      BY <1>1, <1>2, <2>0, <2>1, MirrorReplace
    <3>. QED
      BY <1>3, <1>5, <3>1, <3>2
  <2>2. CASE at = {}
    <3>1. VariablesSet(vs, n, v) = Append(vs, [key |-> n, value |-> v])
      BY <1>5, <2>2 DEF VariablesSet
    <3>2. Len(vs) # VarMax
      BY <1>1, <1>5, <2>2, FullFacts DEF VariablesFull
    <3>3. Mirrors(Append(vs, [key |-> n, value |-> v]), Entered(st, n, v))
      BY <1>1, <1>2, <2>0, <2>2, <3>2, MirrorAppend
    <3>. QED
      BY <1>3, <1>5, <3>1, <3>3
  <2>. QED
    BY <2>1, <2>2
<1>. QED
  BY <1>4, <1>5

(* What Perform stores. *)
StoredVars(c, vs) ==
  IF c.fn = "set_var" /\ ~VariablesFull(vs, c.name, c.value)
  THEN VariablesSet(vs, c.name, c.value) ELSE vs
StoredCap(c, sc) == IF c.fn = "set_option" /\ OptionsAccept(c.value) THEN c.value ELSE sc

Responses == [error : BOOLEAN, result : Values \cup {"nil"} \cup Nat]

(* The wrappers do and answer what the map's definition does and answers. *)
LEMMA ServeFacts ==
  ASSUME NEW vs, NEW st, Mirrors(vs, st), NEW c \in Calls, ~EntersNameless(c)
  PROVE  /\ Mirrors(StoredVars(c, vs), Apply(c, st))
         /\ Apply(c, st).cap = StoredCap(c, st.cap)
         /\ Answer(c, vs, st.cap) = Reply(c, st)
<1>1. CASE c.fn = "set_var"
  <2>1. c.name \in Names
    BY <1>1, CallFacts
  <2>2. VariablesFull(vs, c.name, c.value) <=> ~Fits(c, st)
    BY <2>1, FullFacts
  <2>3. Answer(c, vs, st.cap) = Reply(c, st)
    BY <1>1, <2>2 DEF Answer, Reply
  <2>4. Apply(c, st).cap = st.cap /\ StoredCap(c, st.cap) = st.cap
    BY <1>1 DEF Apply, StoredCap, Mirrors
  <2>5. CASE Fits(c, st)
    <3>1. StoredVars(c, vs) = VariablesSet(vs, c.name, c.value)
      BY <1>1, <2>2, <2>5 DEF StoredVars
    <3>. QED
      BY <1>1, <2>3, <2>4, <2>5, <3>1, SetFacts
  <2>6. CASE ~Fits(c, st)
    <3>1. StoredVars(c, vs) = vs
      BY <1>1, <2>2, <2>6 DEF StoredVars
    <3>2. Apply(c, st) = st
      <4>1. Reply(c, st) = Refused /\ Refused.error
        BY <1>1, <2>6 DEF Reply, Refused
      <4>2. Reply(c, st).error
        BY <4>1, Zenon
      <4>. QED
        BY <4>2, Zenon DEF Apply
    <3>. QED
      BY <2>3, <2>4, <3>1, <3>2
  <2>. QED
    BY <2>5, <2>6
<1>2. CASE c.fn = "get_var"
  <2>1. StoredVars(c, vs) = vs /\ Apply(c, st) = st /\ StoredCap(c, st.cap) = st.cap
    BY <1>2 DEF StoredVars, Apply, StoredCap
  <2>. DEFINE at == VarIndex(vs, c.name)
              i == CHOOSE k \in at : TRUE
  <2>2. c.name \in Names
    BY <1>2, CallFacts
  <2>3. /\ at = {} <=> c.name \notin DOMAIN st.map
        /\ at # {} => vs[i].value = st.map[c.name]
    <3>1. /\ at = {} <=> c.name \notin DOMAIN st.map
          /\ \A k \in at : vs[k].value = st.map[c.name]
      <4>. DEFINE n == c.name
      <4>1. n \in Names
        BY <2>2
      <4>. HIDE DEF n
      <4>2. /\ VarIndex(vs, n) = {} <=> n \notin DOMAIN st.map
            /\ \A k \in VarIndex(vs, n) : /\ k \in Named(vs) /\ k \in 1 .. Len(vs) /\ n # ""
                                          /\ vs[k].key = n /\ vs[k].value = st.map[n]
            /\ "" \notin DOMAIN st.map
        BY <4>1, IndexFacts
      <4>. QED
        BY <4>2 DEF n
    <3>2. at # {} => i \in at
      OBVIOUS
    <3>. HIDE DEF at, i
    <3>. QED
      BY <3>1, <3>2
  <2>4. VariablesGet(vs, c.name) = Ok(IF at = {} THEN "nil" ELSE vs[i].value)
    BY DEF VariablesGet
  <2>. HIDE DEF at, i
  <2>5. Answer(c, vs, st.cap) = Reply(c, st)
    BY <1>2, <2>3, <2>4 DEF Answer, Reply
  <2>. QED
    BY <2>1, <2>5
<1>3. CASE c.fn = "set_option"
  <2>1. StoredVars(c, vs) = vs /\ Answer(c, vs, st.cap) = Reply(c, st)
    BY <1>3 DEF StoredVars, Answer, Reply
  <2>2. CASE OptionsAccept(c.value)
    <3>1. c.value \in Nat
      BY <1>3, CallFacts
    <3>2. Apply(c, st) = [st EXCEPT !.cap = c.value] /\ StoredCap(c, st.cap) = c.value
      BY <1>3, <2>2 DEF Apply, Reply, Answer, Ok, StoredCap
    <3>3. Mirrors(vs, Apply(c, st)) /\ Apply(c, st).cap = c.value
      BY <3>1, <3>2 DEF Mirrors
    <3>. QED
      BY <2>1, <3>2, <3>3
  <2>3. CASE ~OptionsAccept(c.value)
    <3>1. Apply(c, st) = st /\ StoredCap(c, st.cap) = st.cap
      <4>1. Reply(c, st) = Refused /\ Refused.error
        BY <1>3, <2>3 DEF Reply, Answer, Refused
      <4>2. Reply(c, st).error
        BY <4>1, Zenon
      <4>3. Apply(c, st) = st
        BY <4>2, Zenon DEF Apply
      <4>. QED
        BY <2>3, <4>3 DEF StoredCap
    <3>. QED
      BY <2>1, <3>1
  <2>. QED
    BY <2>2, <2>3
<1>4. CASE c.fn \in {"get_option", "sess_get", "bad"}
  <2>1. StoredVars(c, vs) = vs /\ Apply(c, st) = st /\ StoredCap(c, st.cap) = st.cap
    BY <1>4 DEF StoredVars, Apply, StoredCap
  <2>2. Answer(c, vs, st.cap) = Reply(c, st)
    BY <1>4 DEF Answer, Reply
  <2>. QED
    BY <2>1, <2>2
<1>. QED
  BY <1>1, <1>2, <1>3, <1>4, CallFacts

LEMMA AnswerType ==
  ASSUME NEW vs \in Seq(Entries), NEW sc \in Nat, NEW c \in Calls
  PROVE  Answer(c, vs, sc) \in Responses
<1>. DEFINE R == Values \cup {"nil"} \cup Nat
<1>1. \A v \in R : Ok(v) \in Responses
  BY DEF Ok, Responses
<1>2. Refused \in Responses /\ Ok("nil") \in Responses
  BY DEF Ok, Refused, Responses
<1>3. VariablesGet(vs, c.name) \in Responses
  <2>. DEFINE at == VarIndex(vs, c.name)
              i == CHOOSE k \in at : TRUE
  <2>1. at # {} => i \in DOMAIN vs
    <3>1. at # {} => i \in at
      OBVIOUS
    <3>. HIDE DEF i
    <3>. QED
      BY <3>1 DEF VarIndex
  <2>2. at # {} => vs[i].value \in R
    BY <2>1, EntryFacts
  <2>. HIDE DEF at, i, R
  <2>3. (IF at = {} THEN "nil" ELSE vs[i].value) \in R
    BY <2>2 DEF R
  <2>. QED
    BY <1>1, <2>3 DEF VariablesGet, at, i
<1>4. OptionsGet(sc) \in Responses
  BY <1>1, RpcAssumption DEF OptionsGet
<1>. QED
  BY <1>2, <1>3, <1>4, CallFacts DEF Answer, SessionResolve

(* What every call, whatever name it enters, leaves of the array and of    *)
(* the map.                                                                *)
LEMMA StoredType ==
  ASSUME NEW vs \in Seq(Entries), Len(vs) <= VarMax, NEW c \in Calls
  PROVE  StoredVars(c, vs) \in Seq(Entries) /\ Len(StoredVars(c, vs)) <= VarMax
<1>. DEFINE n == c.name
            v == c.value
            at == VarIndex(vs, n)
            i == CHOOSE k \in at : TRUE
            a == VariablesSet(vs, n, v)
<1>1. SUFFICES ASSUME c.fn = "set_var", ~VariablesFull(vs, n, v)
               PROVE  a \in Seq(Entries) /\ Len(a) <= VarMax
  BY DEF StoredVars
<1>2. n \in Names /\ v \in Values \cup {"nil"}
  BY <1>1, CallFacts
<1>3. Len(vs) \in Nat /\ VarMax \in Nat
  BY EntryFacts, RpcAssumption
<1>4. at # {} => i \in 1 .. Len(vs) /\ vs[i].key = n /\ vs[i] \in Entries
  <2>1. at # {} => i \in at
    OBVIOUS
  <2>. HIDE DEF i
  <2>. QED
    BY <2>1, EntryFacts DEF VarIndex
<1>5. CASE v = "nil" /\ at # {}
  <2>1. a = RemoveEntry(vs, i)
    BY <1>5 DEF VariablesSet
  <2>. HIDE DEF a, i
  <2>2. a \in Seq(Entries) /\ Len(a) = Len(vs) - 1
    BY <1>4, <1>5, <2>1, RemoveFacts
  <2>. QED
    BY <1>3, <2>2
<1>6. CASE v = "nil" /\ at = {}
  BY <1>6 DEF VariablesSet
<1>7. CASE v # "nil" /\ at # {}
  <2>. DEFINE e == [key |-> n, value |-> v]
  <2>1. a = [vs EXCEPT ![i].value = v]
    BY <1>7 DEF VariablesSet
  <2>2. [vs[i] EXCEPT !.value = v] = e /\ e \in Entries /\ e.key = vs[i].key
    BY <1>2, <1>4, <1>7 DEF Entries
  <2>. HIDE DEF a, i, e
  <2>3. a = [vs EXCEPT ![i] = e]
    BY <2>1, <2>2
  <2>4. a \in Seq(Entries) /\ Len(a) = Len(vs)
    BY <1>4, <1>7, <2>2, <2>3, ReplaceEntry
  <2>. QED
    BY <2>4
<1>8. CASE v # "nil" /\ at = {}
  <2>. DEFINE e == [key |-> n, value |-> v]
  <2>1. a = Append(vs, e) /\ e \in Entries
    BY <1>2, <1>8 DEF VariablesSet, Entries
  <2>2. Len(vs) # VarMax
    BY <1>1, <1>8 DEF VariablesFull
  <2>. HIDE DEF a, e
  <2>3. a \in Seq(Entries) /\ Len(a) = Len(vs) + 1
    BY <2>1, AppendEntry
  <2>4. Len(vs) + 1 <= VarMax
    BY <1>3, <2>2, RoomForOne
  <2>. QED
    BY <2>3, <2>4
<1>. QED
  BY <1>5, <1>6, <1>7, <1>8

Stores(st) ==
  /\ DOMAIN st = {"map", "cap"} /\ st.cap \in Nat
  /\ \A m \in DOMAIN st.map : st.map[m] \in Values

LEMMA ApplyFacts ==
  ASSUME NEW st, Stores(st), NEW c \in Calls
  PROVE  /\ Stores(Apply(c, st)) /\ Apply(c, st).cap = StoredCap(c, st.cap)
         /\ Reply(c, st) \in Responses
<1>1. CASE c.fn = "set_var"
  <2>1. c.value \in Values \cup {"nil"}
    BY <1>1, CallFacts
  <2>2. Reply(c, st) \in {Ok("nil"), Refused} /\ Reply(c, st) \in Responses
    BY <1>1 DEF Reply, Ok, Refused, Responses
  <2>3. StoredCap(c, st.cap) = st.cap
    BY <1>1 DEF StoredCap
  <2>4. Apply(c, st) = st \/ Apply(c, st) = [st EXCEPT !.map = Put(@, c.name, c.value)]
    BY <1>1 DEF Apply
  <2>. DEFINE st2 == [st EXCEPT !.map = Put(@, c.name, c.value)]
  <2>5. Stores(st2) /\ st2.cap = st.cap
    <3>1. DOMAIN st2 = {"map", "cap"} /\ st2.cap = st.cap /\ st2.map = Put(st.map, c.name, c.value)
      BY DEF Stores
    <3>. HIDE DEF st2
    <3>2. \A m \in DOMAIN st2.map : st2.map[m] \in Values
      BY <2>1, <3>1 DEF Put, Stores
    <3>. QED
      BY <3>1, <3>2 DEF Stores
  <2>. HIDE DEF st2
  <2>. QED
    BY <2>2, <2>3, <2>4, <2>5 DEF st2
<1>2. CASE c.fn = "get_var"
  <2>1. Apply(c, st) = st /\ StoredCap(c, st.cap) = st.cap
    BY <1>2 DEF Apply, StoredCap
  <2>2. (IF c.name \in DOMAIN st.map THEN st.map[c.name] ELSE "nil") \in Values \cup {"nil"}
    BY DEF Stores
  <2>3. Reply(c, st) \in Responses
    BY <1>2, <2>2 DEF Reply, Ok, Responses
  <2>. QED
    BY <2>1, <2>3
<1>3. CASE c.fn \in {"set_option", "get_option", "sess_get", "bad"}
  <2>1. Reply(c, st) = Answer(c, << >>, st.cap)
    BY <1>3 DEF Reply
  <2>2. Reply(c, st) \in Responses
    <3>1. << >> \in Seq(Entries) /\ st.cap \in Nat
      BY DEF Stores
    <3>. QED
      BY <2>1, <3>1, AnswerType
  <2>3. CASE c.fn = "set_option" /\ OptionsAccept(c.value)
    <3>1. c.value \in Nat
      BY <2>3, CallFacts
    <3>2. Apply(c, st) = [st EXCEPT !.cap = c.value] /\ StoredCap(c, st.cap) = c.value
      BY <2>1, <2>3 DEF Apply, Answer, Ok, StoredCap
    <3>3. Stores(Apply(c, st)) /\ Apply(c, st).cap = c.value
      BY <3>1, <3>2 DEF Stores
    <3>. QED
      BY <2>2, <3>2, <3>3
  <2>4. CASE ~ (c.fn = "set_option" /\ OptionsAccept(c.value))
    <3>1. StoredCap(c, st.cap) = st.cap
      BY <2>4, Zenon DEF StoredCap
    <3>2. c.fn = "set_option" => Reply(c, st).error
      BY <2>1, <2>4 DEF Answer, Refused
    <3>3. Apply(c, st) = st
      BY <1>3, <2>4, <3>2 DEF Apply
    <3>. QED
      BY <2>2, <3>1, <3>3
  <2>. QED
    BY <2>3, <2>4
<1>. QED
  BY <1>1, <1>2, <1>3, CallFacts

---------------------------------------------------------------------------
(* The service: stores and responses are those of the serial execution. *)

AllOrdinary(s, n) == \A k \in 1 .. n : Ordinary(s[k])

Answered ==
  LET serial == Serial(script, handled)
  IN  /\ vars \in Seq(Entries) /\ Len(vars) <= VarMax
      /\ Stores(serial.st) /\ step_cap = serial.st.cap
      /\ got \in Seq(Responses) /\ writes \in Seq(Responses)
      /\ serial.replies \in Seq(Responses)
      /\ ~lost => Len(got \o writes) = Len(serial.replies)
      /\ AllOrdinary(script, handled) =>
           Mirrors(vars, serial.st) /\ (~lost => got \o writes = serial.replies)

LEMMA InitAnswered == Init => Answered
<1>. SUFFICES ASSUME Init PROVE Answered
  OBVIOUS
<1>1. vars = <<>> /\ step_cap = 0 /\ got = <<>> /\ writes = <<>> /\ handled = 0
  BY DEF Init
<1>2. Serial(script, 0) = Start
  BY SerialStep
<1>. DEFINE st == Start.st
<1>3. /\ DOMAIN st = {"map", "cap"} /\ st.cap = 0
      /\ DOMAIN st.map = {} /\ Start.replies = <<>>
  BY DEF Start
<1>. HIDE DEF st
<1>4. vars \in Seq(Entries) /\ Len(vars) = 0 /\ Named(vars) = {}
  <2>1. vars \in Seq(Entries) /\ Len(vars) = 0 /\ DOMAIN vars = {}
    BY <1>1
  <2>. QED
    BY <2>1 DEF Named
<1>5. Cardinality({}) = 0
  BY FS_EmptySet
<1>6. Mirrors(vars, st)
  BY <1>3, <1>4, <1>5, RpcAssumption DEF Mirrors
<1>7. /\ got \in Seq(Responses) /\ writes \in Seq(Responses) /\ got \o writes = <<>>
      /\ Start.replies \in Seq(Responses) /\ Stores(st)
  BY <1>1, <1>3 DEF Stores
<1>8. Len(vars) <= VarMax /\ vars \in Seq(Entries)
  BY <1>4, RpcAssumption
<1>. QED
  BY <1>1, <1>2, <1>3, <1>6, <1>7, <1>8 DEF Answered, st

LEMMA AppendMoves ==
  ASSUME NEW S, NEW a \in Seq(S), NEW b \in Seq(S), NEW x \in S
  PROVE  a \o Append(b, x) = Append(a \o b, x)
OBVIOUS

LEMMA AppendLength ==
  ASSUME NEW S, NEW a \in Seq(S), NEW x \in S
  PROVE  Append(a, x) \in Seq(S) /\ Len(Append(a, x)) = Len(a) + 1
OBVIOUS

LEMMA HeadMoves ==
  ASSUME NEW S, NEW a \in Seq(S), NEW b \in Seq(S), b # <<>>
  PROVE  /\ Append(a, Head(b)) \in Seq(S) /\ Tail(b) \in Seq(S)
         /\ Append(a, Head(b)) \o Tail(b) = a \o b
OBVIOUS

(* A step that leaves the stores, the responses and what is handled alone. *)
LEMMA AnsweredKept ==
  ASSUME Answered, UNCHANGED <<script, handled, storeVars, got, writes>>, ~lost' => ~lost
  PROVE  Answered'
BY DEF Answered, storeVars

LEMMA StepAnswered == ASSUME Channel, Consumed, Answered, [Next]_allVars PROVE Answered'
<1>0. /\ script \in Seq(Frames) /\ Len(script) \in Nat /\ DOMAIN script = 1 .. Len(script)
      /\ handled \in Nat
  BY InputFacts
<1>1. CASE DrainFrame
  <2>. DEFINE k == handled + 1
              c == script[k].call
              p == Serial(script, handled)
              q == Serial(script, k)
  <2>1. /\ ~stopping /\ buf # <<>> /\ Decode = "ok" /\ handled' = k /\ run # "returned"
        /\ HandleFrame(script[buf[1][1]]) /\ UNCHANGED <<script, got>>
    BY <1>1 DEF DrainFrame, clientVars, Channel
  <2>2. k \in 1 .. Len(script) /\ buf[1][1] = k /\ script[k].kind # "corrupt"
    BY <2>1, DecodeFacts
  <2>3. HandleFrame(script[k]) /\ c \in Calls
    BY <1>0, <2>1, <2>2, FrameFacts
  <2>4. q = After(script, k, p)
    BY <1>0, SerialStep
  <2>5. /\ vars \in Seq(Entries) /\ Len(vars) <= VarMax
        /\ Stores(p.st) /\ step_cap = p.st.cap /\ step_cap \in Nat
        /\ got \in Seq(Responses) /\ writes \in Seq(Responses) /\ p.replies \in Seq(Responses)
        /\ ~lost => Len(got \o writes) = Len(p.replies)
        /\ AllOrdinary(script, handled) =>
             Mirrors(vars, p.st) /\ (~lost => got \o writes = p.replies)
    BY DEF Answered, Stores
  <2>6. AllOrdinary(script, k) => AllOrdinary(script, handled) /\ Ordinary(script[k])
    BY <1>0 DEF AllOrdinary
  <2>. HIDE DEF q, p
  <2>7. CASE script[k].kind = "violation"
    <3>1. k \in Violations(script)
      BY <1>0, <2>2, <2>7 DEF Violations
    <3>2. q = p
      BY <2>4, <3>1 DEF After
    <3>3. UNCHANGED <<writes, lost, vars, step_cap>>
      BY <2>3, <2>7 DEF HandleFrame, storeVars
    <3>. QED
      BY <2>1, <2>5, <2>6, <3>2, <3>3 DEF Answered, q
  <2>8. CASE script[k].kind # "violation"
    <3>1. ~ (k \in Violations(script)) /\ script[k].kind \in {"request", "notify"}
      <4>1. script[k] \in Frames
        BY <1>0, <2>2, FrameFacts
      <4>. QED
        BY <2>2, <2>8, <4>1 DEF Violations, Frames
    <3>2. /\ q.st = Apply(c, p.st)
          /\ q.replies = IF script[k].kind = "notify" THEN p.replies
                         ELSE Append(p.replies, Reply(c, p.st))
      BY <2>4, <3>1 DEF After
    <3>3. vars' = StoredVars(c, vars) /\ step_cap' = StoredCap(c, step_cap)
      BY <2>3, <2>8 DEF HandleFrame, Perform, StoredVars, StoredCap
    <3>4. vars' \in Seq(Entries) /\ Len(vars') <= VarMax
      BY <2>3, <2>5, <3>3, StoredType
    <3>5. /\ Stores(q.st) /\ step_cap' = q.st.cap
          /\ Reply(c, p.st) \in Responses /\ Answer(c, vars, step_cap) \in Responses
      BY <2>3, <2>5, <3>2, <3>3, ApplyFacts, AnswerType
    <3>6. AllOrdinary(script, k) =>
            /\ Mirrors(vars, p.st) /\ (~lost => got \o writes = p.replies)
            /\ Mirrors(vars', q.st) /\ Answer(c, vars, step_cap) = Reply(c, p.st)
      <4>1. AllOrdinary(script, k) => Mirrors(vars, p.st) /\ ~EntersNameless(c)
        BY <2>5, <2>6, <3>1 DEF Ordinary, EntersNameless
      <4>. QED
        BY <2>3, <2>5, <2>6, <3>2, <3>3, <4>1, ServeFacts
    <3>7. /\ writes' \in Seq(Responses) /\ q.replies \in Seq(Responses)
          /\ ~lost' => Len(got \o writes') = Len(q.replies)
          /\ AllOrdinary(script, k) => (~lost' => got \o writes' = q.replies)
      <4>1. CASE script[k].kind = "notify"
        <5>1. UNCHANGED <<writes, lost>>
          BY <2>3, <4>1 DEF HandleFrame
        <5>. QED
          BY <2>5, <3>2, <3>6, <4>1, <5>1
      <4>2. CASE script[k].kind = "request"
        <5>. DEFINE x == Answer(c, vars, step_cap)
                    y == Reply(c, p.st)
                    w == got \o writes
        <5>1. \/ writes' = Append(writes, x) /\ lost' = lost
              \/ lost' = TRUE /\ writes' = writes
          BY <2>3, <4>2 DEF HandleFrame
        <5>2. x \in Responses /\ y \in Responses /\ w \in Seq(Responses) /\ q.replies = Append(p.replies, y)
          BY <2>5, <3>2, <3>5, <4>2
        <5>3. AllOrdinary(script, k) => x = y
          BY <3>6
        <5>. HIDE DEF x, y, w
        <5>4. /\ Append(p.replies, y) \in Seq(Responses) /\ Len(Append(p.replies, y)) = Len(p.replies) + 1
              /\ Append(writes, x) \in Seq(Responses)
              /\ Len(Append(w, x)) = Len(w) + 1
          BY <2>5, <5>2, AppendLength
        <5>5. got \o Append(writes, x) = Append(w, x)
          BY <2>5, <5>2, AppendMoves DEF w
        <5>6. ~lost => Len(w) = Len(p.replies)
          BY <2>5 DEF w
        <5>7. AllOrdinary(script, k) => (~lost => w = p.replies)
          BY <3>6 DEF w
        <5>8. CASE writes' = Append(writes, x) /\ lost' = lost
          <6>1. writes' \in Seq(Responses) /\ q.replies \in Seq(Responses)
            BY <5>2, <5>4, <5>8
          <6>2. ~lost' => Len(got \o writes') = Len(q.replies)
            BY <5>2, <5>4, <5>5, <5>6, <5>8
          <6>3. AllOrdinary(script, k) => (~lost' => got \o writes' = q.replies)
            BY <5>2, <5>3, <5>5, <5>7, <5>8
          <6>. QED
            BY <6>1, <6>2, <6>3
        <5>9. CASE lost' = TRUE /\ writes' = writes
          BY <2>5, <5>2, <5>4, <5>9
        <5>. QED
          BY <5>1, <5>8, <5>9
      <4>. QED
        BY <3>1, <4>1, <4>2
    <3>. QED
      BY <2>1, <3>4, <3>5, <3>6, <3>7 DEF Answered, q
  <2>. QED
    BY <2>7, <2>8
<1>2. CASE Flush
  <2>1. /\ writes # <<>> /\ writes' = Tail(writes) /\ UNCHANGED <<script, handled, vars, step_cap>>
        /\ \/ lost' = TRUE /\ got' = got
           \/ got' = Append(got, Head(writes)) /\ lost' = lost
    BY <1>2 DEF Flush, clientVars, storeVars
  <2>2. got \in Seq(Responses) /\ writes \in Seq(Responses)
    BY DEF Answered
  <2>3. /\ Append(got, Head(writes)) \in Seq(Responses) /\ Tail(writes) \in Seq(Responses)
        /\ Append(got, Head(writes)) \o Tail(writes) = got \o writes
    BY <2>1, <2>2, HeadMoves
  <2>4. got' \in Seq(Responses) /\ writes' \in Seq(Responses)
    BY <2>1, <2>2, <2>3
  <2>5. ~lost' => ~lost /\ got' \o writes' = got \o writes
    BY <2>1, <2>3
  <2>. QED
    BY <2>1, <2>4, <2>5 DEF Answered
<1>3. CASE ServeReturns
  <2>1. /\ lost' = (lost \/ writes # <<>>) /\ writes' = <<>>
        /\ UNCHANGED <<script, handled, vars, step_cap, got>>
    BY <1>3 DEF ServeReturns, clientVars, storeVars
  <2>2. writes' \in Seq(Responses)
    BY <2>1
  <2>3. ~lost' => writes' = writes /\ ~lost
    BY <2>1
  <2>. QED
    BY <2>1, <2>2, <2>3 DEF Answered
<1>4. CASE (\E n \in 1 .. ReadChunk : ReadCb(n)) \/ ReadEof \/ ReadError \/ DrainStops \/ InClosed \/ Sigint
           \/ LoopReturns \/ ClientCloses \/ UNCHANGED allVars
  <2>1. UNCHANGED <<script, handled, storeVars, got, writes, lost>>
    BY <1>4 DEF ReadCb, ReadEof, ReadError, ReadEnds, DrainStops, DrainEnds, InClosed, Sigint, LoopReturns,
                ClientCloses, allVars, clientVars, channelVars
  <2>. QED
    BY <2>1, AnsweredKept
<1>. QED
  BY <1>1, <1>2, <1>3, <1>4 DEF Next, Done

(* The stores and the responses are those of the serial execution at all   *)
(* times.                                                                  *)
THEOREM AnsweredInvariant == Spec => []Answered
<1>1. Channel /\ Input /\ Answered /\ [Next]_allVars => Answered'
  BY StepAnswered DEF Input
<1>. QED
  BY <1>1, InitAnswered, ChannelInvariant, InputInvariant, PTL DEF Spec

(* Every variable of the server keeps its type; the input buffer holds at  *)
(* most one read more than kRpcMaxMessage bytes, the array of variables at *)
(* most MUA_VAR_MAX entries.                                               *)
THEOREM TypeCorrect == Spec => []TypeOK
<1>1. Channel /\ Input /\ Answered => TypeOK
  <2>. SUFFICES ASSUME Channel, Input, Answered PROVE TypeOK
    OBVIOUS
  <2>1. ChannelTypes /\ Consumed /\ Drained
    BY DEF Channel, Input
  <2>2. script \in Seq(Frames) /\ sent \in Nat /\ handled \in Nat
    BY <2>1, InputFacts DEF Consumed
  <2>3. Len(buf) <= MaxMessage + ReadChunk
    BY <2>1 DEF Drained
  <2>4. step_cap \in Nat /\ vars \in Seq(Entries) /\ Len(vars) <= VarMax
    BY DEF Answered, Stores
  <2>. QED
    BY <2>1, <2>2, <2>3, <2>4 DEF ChannelTypes, TypeOK, Entries
<1>. QED
  BY <1>1, ChannelInvariant, InputInvariant, AnsweredInvariant, PTL

(* However the bytes are cut into reads, each request has one response,    *)
(* and the stores and the responses are those of the frames executed one   *)
(* by one up to the first violation, with the variables as variables.h     *)
(* has them, as long as no frame sets a variable without a name or is past *)
(* the size limit; the end of input loses no response.                     *)
THEOREM ExecutesInOrder == Spec => []ServesInOrder
<1>1. Channel /\ Input /\ Answered => ServesInOrder
  <2>. SUFFICES ASSUME Channel, Input, Answered PROVE ServesInOrder
    OBVIOUS
  <2>. DEFINE serial == Serial(script, handled)
  <2>1. /\ step_cap = serial.st.cap
        /\ ~lost => Len(got \o writes) = Len(serial.replies)
        /\ AllOrdinary(script, handled) =>
             Mirrors(vars, serial.st) /\ (~lost => got \o writes = serial.replies)
    BY DEF Answered
  <2>. HIDE DEF serial
  <2>2. AllOrdinary(script, handled) => Holds(vars, serial.st)
    <3>. SUFFICES ASSUME AllOrdinary(script, handled) PROVE Holds(vars, serial.st)
      OBVIOUS
    <3>1. Mirrors(vars, serial.st)
      BY <2>1
    <3>2. Len(vars) = Cardinality(DOMAIN serial.st.map) /\ Named(vars) = DOMAIN vars
      BY <3>1, MirrorCard, MirrorNamed DEF Mirrors
    <3>. QED
      BY <3>1, <3>2 DEF Mirrors, Holds
  <2>3. \A k \in Violations(script) : handled <= k
    <3>1. /\ handled \in Nat /\ DOMAIN script = 1 .. Len(script) /\ Len(script) \in Nat
          /\ \A k \in Violations(script) : handled < k \/ handled = k
      BY InputFacts DEF Input, Consumed
    <3>. QED
      BY <3>1 DEF Violations
  <2>4. EofAnswersAll
    <3>. SUFFICES ASSUME run = "returned", code = 0, eof, ~interrupted, ~lost,
                         Violations(script) = {},
                         \A k \in DOMAIN script : Ordinary(script[k])
                  PROVE  got = Serial(script, Len(script)).replies
      BY DEF EofAnswersAll
    <3>1. stopping /\ writes = <<>>
      BY DEF Channel
    <3>2. handled = Len(script)
      <4>1. sent = Len(Bytes(script)) /\ DOMAIN script = 1 .. Len(script) /\ script \in Seq(Frames)
        BY InputFacts DEF Input, Consumed
      <4>2. ~ (sent < Len(Bytes(script)))
        BY <4>1 DEF Input, Consumed
      <4>3. ~ \E k \in DOMAIN script : script[k].size > MaxMessage
        <5>1. \A k \in DOMAIN script : script[k].size \in Nat /\ script[k].size <= MaxMessage
          BY <4>1, FrameFacts DEF Ordinary
        <5>. QED
          BY <5>1, RpcAssumption
      <4>. QED
        BY <3>1, <4>2, <4>3 DEF Input, Justified
    <3>3. AllOrdinary(script, handled)
      BY <3>2, InputFacts DEF AllOrdinary, Input
    <3>4. got \in Seq(Responses) /\ got \o writes = serial.replies
      BY <2>1, <3>3 DEF Answered
    <3>5. got \o <<>> = got
      BY <3>4
    <3>. QED
      BY <3>1, <3>2, <3>4, <3>5 DEF serial
  <2>. QED
    BY <2>1, <2>2, <2>3, <2>4 DEF ServesInOrder, AllOrdinary, serial
<1>. QED
  BY <1>1, ChannelInvariant, InputInvariant, AnsweredInvariant, PTL

---------------------------------------------------------------------------
(* The codec, for all bytes and all Objects: its definitions, unfolded.    *)

NextObject(children) == Scalars \cup Containers(children)

IsObject(g, D) == g = [k \in D |-> IF k = 0 THEN Scalars ELSE NextObject(g[k - 1])]

LEMMA ObjectExists == ASSUME NEW n \in Nat PROVE \E g : IsObject(g, 0 .. n)
<1>. DEFINE S == {m \in Nat : \E g : IsObject(g, 0 .. m)}
<1>1. 0 \in S
  <2>. DEFINE h == [k \in 0 .. 0 |-> Scalars]
  <2>1. \A k \in 0 .. 0 : h[k] = IF k = 0 THEN Scalars ELSE NextObject(h[k - 1])
    OBVIOUS
  <2>2. h = [k \in 0 .. 0 |-> h[k]]
    OBVIOUS
  <2>. HIDE DEF h
  <2>3. IsObject(h, 0 .. 0)
    BY <2>1, <2>2 DEF IsObject
  <2>. QED
    BY <2>3
<1>2. ASSUME NEW m \in Nat, m \in S PROVE m + 1 \in S
  <2>1. PICK g : IsObject(g, 0 .. m)
    BY <1>2
  <2>. DEFINE last == NextObject(g[m])
              h == [k \in 0 .. m + 1 |-> IF k = m + 1 THEN last ELSE g[k]]
  <2>2. ASSUME NEW k \in 0 .. m + 1
        PROVE  h[k] = IF k = 0 THEN Scalars ELSE NextObject(h[k - 1])
    <3>1. CASE k = m + 1
      <4>. HIDE DEF last
      <4>1. h[k - 1] = g[m] /\ k # 0 /\ h[k] = last
        BY <3>1
      <4>. HIDE DEF h
      <4>. QED
        BY <3>1, <4>1 DEF last
    <3>2. CASE k \in 0 .. m
      <4>1. g[k] = IF k = 0 THEN Scalars ELSE NextObject(g[k - 1])
        BY <2>1, <3>2 DEF IsObject
      <4>. HIDE DEF last
      <4>2. h[k] = g[k] /\ (k # 0 => h[k - 1] = g[k - 1])
        BY <3>2
      <4>. HIDE DEF h
      <4>. QED
        BY <4>1, <4>2
    <3>. QED
      BY <3>1, <3>2
  <2>3. IsObject(h, 0 .. m + 1)
    <3>1. h = [k \in 0 .. m + 1 |-> h[k]]
      OBVIOUS
    <3>. HIDE DEF h
    <3>. QED
      BY <2>2, <3>1 DEF IsObject
  <2>. QED
    BY <2>3
<1>. QED
  <2>. HIDE DEF S
  <2>1. n \in S
    BY <1>1, <1>2, SetInduction
  <2>. QED
    BY <2>1 DEF S

LEMMA ObjectAgree ==
  ASSUME NEW m \in Nat, NEW n \in Nat, m <= n, NEW g, IsObject(g, 0 .. m), NEW h, IsObject(h, 0 .. n)
  PROVE  g[m] = h[m]
<1>. DEFINE S == {i \in Nat : i <= m => g[i] = h[i]}
<1>1. /\ \A k \in 0 .. m : g[k] = IF k = 0 THEN Scalars ELSE NextObject(g[k - 1])
      /\ \A k \in 0 .. n : h[k] = IF k = 0 THEN Scalars ELSE NextObject(h[k - 1])
  BY DEF IsObject
<1>2. 0 \in S
  BY <1>1
<1>3. ASSUME NEW k \in Nat, k \in S PROVE k + 1 \in S
  <2>1. SUFFICES ASSUME k + 1 <= m PROVE g[k + 1] = h[k + 1]
    OBVIOUS
  <2>2. k + 1 \in 0 .. m /\ k + 1 \in 0 .. n /\ k + 1 # 0 /\ (k + 1) - 1 = k /\ k <= m
    BY <2>1
  <2>3. g[k] = h[k]
    BY <1>3, <2>2
  <2>4. g[k + 1] = NextObject(g[k]) /\ h[k + 1] = NextObject(h[k])
    BY <1>1, <2>2
  <2>. QED
    BY <2>3, <2>4
<1>. HIDE DEF S
<1>4. m \in S
  BY <1>2, <1>3, SetInduction
<1>. QED
  BY <1>4 DEF S

LEMMA ObjectWhole == \E g : IsObject(g, Nat)
<1>. DEFINE whole == [n \in Nat |-> CHOOSE g : IsObject(g, 0 .. n)]
            h == [n \in Nat |-> whole[n][n]]
<1>1. \A n \in Nat : IsObject(whole[n], 0 .. n)
  BY ObjectExists
<1>. HIDE DEF whole
<1>2. ASSUME NEW k \in Nat PROVE h[k] = IF k = 0 THEN Scalars ELSE NextObject(h[k - 1])
  <2>1. h[k] = whole[k][k] /\ k \in 0 .. k
    OBVIOUS
  <2>2. whole[k][k] = IF k = 0 THEN Scalars ELSE NextObject(whole[k][k - 1])
    <3>1. IsObject(whole[k], 0 .. k)
      BY <1>1
    <3>. QED
      BY <2>1, <3>1 DEF IsObject
  <2>3. ASSUME k # 0 PROVE whole[k][k - 1] = h[k - 1]
    <3>1. k - 1 \in Nat /\ k - 1 <= k
      BY <2>3
    <3>2. IsObject(whole[k - 1], 0 .. k - 1) /\ IsObject(whole[k], 0 .. k)
      BY <1>1, <3>1
    <3>3. whole[k - 1][k - 1] = whole[k][k - 1]
      BY <3>1, <3>2, ObjectAgree
    <3>. QED
      BY <3>1, <3>3
  <2>. HIDE DEF h
  <2>. QED
    BY <2>1, <2>2, <2>3
<1>3. h = [k \in Nat |-> h[k]]
  OBVIOUS
<1>. HIDE DEF h
<1>4. IsObject(h, Nat)
  BY <1>2, <1>3 DEF IsObject
<1>. QED
  BY <1>4

LEMMA ObjectIs == IsObject(Object, Nat)
<1>1. \E g : IsObject(g, Nat)
  BY ObjectWhole
<1>. QED
  BY <1>1 DEF IsObject, NextObject, Object

(* The Objects of each depth. *)
LEMMA ObjectStep ==
  /\ Object[0] = Scalars
  /\ \A h \in Nat : Object[h + 1] = Scalars \cup Containers(Object[h])
<1>1. Object = [k \in Nat |-> IF k = 0 THEN Scalars ELSE NextObject(Object[k - 1])]
  BY ObjectIs DEF IsObject
<1>2. ASSUME NEW h \in Nat PROVE Object[h + 1] = Scalars \cup Containers(Object[h])
  <2>1. h + 1 \in Nat /\ h + 1 # 0 /\ (h + 1) - 1 = h
    OBVIOUS
  <2>. QED
    BY <1>1, <2>1 DEF NextObject
<1>. QED
  BY <1>1, <1>2

(* The bytes of o up to its i-th child, the children's being e. *)
Upwards(e, o, i, prev) == prev \o Before(o, i) \o e[Child(o, i)]

IsParts(g, e, o, D) == g = [k \in D |-> IF k = 0 THEN EmitNode(o) ELSE Upwards(e, o, k, g[k - 1])]

LEMMA PartsExists == ASSUME NEW e, NEW o, NEW n \in Nat PROVE \E g : IsParts(g, e, o, 0 .. n)
<1>. DEFINE S == {m \in Nat : \E g : IsParts(g, e, o, 0 .. m)}
<1>1. 0 \in S
  <2>. DEFINE h == [k \in 0 .. 0 |-> EmitNode(o)]
  <2>1. \A k \in 0 .. 0 : h[k] = IF k = 0 THEN EmitNode(o) ELSE Upwards(e, o, k, h[k - 1])
    OBVIOUS
  <2>2. h = [k \in 0 .. 0 |-> h[k]]
    OBVIOUS
  <2>. HIDE DEF h
  <2>3. IsParts(h, e, o, 0 .. 0)
    BY <2>1, <2>2 DEF IsParts
  <2>. QED
    BY <2>3
<1>2. ASSUME NEW m \in Nat, m \in S PROVE m + 1 \in S
  <2>1. PICK g : IsParts(g, e, o, 0 .. m)
    BY <1>2
  <2>. DEFINE last == Upwards(e, o, m + 1, g[m])
              h == [k \in 0 .. m + 1 |-> IF k = m + 1 THEN last ELSE g[k]]
  <2>2. ASSUME NEW k \in 0 .. m + 1
        PROVE  h[k] = IF k = 0 THEN EmitNode(o) ELSE Upwards(e, o, k, h[k - 1])
    <3>1. CASE k = m + 1
      <4>. HIDE DEF last
      <4>1. h[k - 1] = g[m] /\ k # 0 /\ h[k] = last
        BY <3>1
      <4>. HIDE DEF h
      <4>. QED
        BY <3>1, <4>1 DEF last
    <3>2. CASE k \in 0 .. m
      <4>1. g[k] = IF k = 0 THEN EmitNode(o) ELSE Upwards(e, o, k, g[k - 1])
        BY <2>1, <3>2 DEF IsParts
      <4>. HIDE DEF last
      <4>2. h[k] = g[k] /\ (k # 0 => h[k - 1] = g[k - 1])
        BY <3>2
      <4>. HIDE DEF h
      <4>. QED
        BY <4>1, <4>2
    <3>. QED
      BY <3>1, <3>2
  <2>3. IsParts(h, e, o, 0 .. m + 1)
    <3>1. h = [k \in 0 .. m + 1 |-> h[k]]
      OBVIOUS
    <3>. HIDE DEF h
    <3>. QED
      BY <2>2, <3>1 DEF IsParts
  <2>. QED
    BY <2>3
<1>. QED
  <2>. HIDE DEF S
  <2>1. n \in S
    BY <1>1, <1>2, SetInduction
  <2>. QED
    BY <2>1 DEF S

Parts(e, o) == CHOOSE g : IsParts(g, e, o, 0 .. Size(o))
NextEncoding(h, e) == [o \in Object[h] |-> Preorder(o, e)]
ScalarEncoding == [o \in Scalars |-> EmitNode(o)]

LEMMA PartsIs ==
  ASSUME NEW e, NEW o, Size(o) \in Nat
  PROVE  /\ Preorder(o, e) = Parts(e, o)[Size(o)] /\ Parts(e, o)[0] = EmitNode(o)
         /\ \A i \in 1 .. Size(o) :
              Parts(e, o)[i] = Parts(e, o)[i - 1] \o Before(o, i) \o e[Child(o, i)]
<1>1. \E g : IsParts(g, e, o, 0 .. Size(o))
  BY PartsExists
<1>2. IsParts(Parts(e, o), e, o, 0 .. Size(o))
  BY <1>1 DEF Parts
<1>3. Preorder(o, e) = Parts(e, o)[Size(o)]
  BY DEF Preorder, Parts, IsParts, Upwards
<1>. DEFINE n == Size(o)
            p == Parts(e, o)
<1>. HIDE DEF n, p
<1>4. p = [k \in 0 .. n |-> IF k = 0 THEN EmitNode(o) ELSE Upwards(e, o, k, p[k - 1])]
  BY <1>2 DEF IsParts, n, p
<1>5. n \in Nat
  BY DEF n
<1>6. p[0] = EmitNode(o)
  BY <1>4, <1>5
<1>7. ASSUME NEW i \in 1 .. n PROVE p[i] = p[i - 1] \o Before(o, i) \o e[Child(o, i)]
  <2>1. i \in 0 .. n /\ i # 0
    BY <1>5
  <2>. QED
    BY <1>4, <2>1 DEF Upwards
<1>. QED
  BY <1>3, <1>6, <1>7 DEF n, p

IsEncoding(g, D) == g = [k \in D |-> IF k = 0 THEN ScalarEncoding ELSE NextEncoding(k, g[k - 1])]

LEMMA EncodingExists == ASSUME NEW n \in Nat PROVE \E g : IsEncoding(g, 0 .. n)
<1>. DEFINE S == {m \in Nat : \E g : IsEncoding(g, 0 .. m)}
<1>1. 0 \in S
  <2>. DEFINE h == [k \in 0 .. 0 |-> ScalarEncoding]
  <2>1. \A k \in 0 .. 0 : h[k] = IF k = 0 THEN ScalarEncoding ELSE NextEncoding(k, h[k - 1])
    OBVIOUS
  <2>2. h = [k \in 0 .. 0 |-> h[k]]
    OBVIOUS
  <2>. HIDE DEF h
  <2>3. IsEncoding(h, 0 .. 0)
    BY <2>1, <2>2 DEF IsEncoding
  <2>. QED
    BY <2>3
<1>2. ASSUME NEW m \in Nat, m \in S PROVE m + 1 \in S
  <2>1. PICK g : IsEncoding(g, 0 .. m)
    BY <1>2
  <2>. DEFINE last == NextEncoding(m + 1, g[m])
              h == [k \in 0 .. m + 1 |-> IF k = m + 1 THEN last ELSE g[k]]
  <2>2. ASSUME NEW k \in 0 .. m + 1
        PROVE  h[k] = IF k = 0 THEN ScalarEncoding ELSE NextEncoding(k, h[k - 1])
    <3>1. CASE k = m + 1
      <4>. HIDE DEF last
      <4>1. h[k - 1] = g[m] /\ k # 0 /\ h[k] = last
        BY <3>1
      <4>. HIDE DEF h
      <4>. QED
        BY <3>1, <4>1 DEF last
    <3>2. CASE k \in 0 .. m
      <4>1. g[k] = IF k = 0 THEN ScalarEncoding ELSE NextEncoding(k, g[k - 1])
        BY <2>1, <3>2 DEF IsEncoding
      <4>. HIDE DEF last
      <4>2. h[k] = g[k] /\ (k # 0 => h[k - 1] = g[k - 1])
        BY <3>2
      <4>. HIDE DEF h
      <4>. QED
        BY <4>1, <4>2
    <3>. QED
      BY <3>1, <3>2
  <2>3. IsEncoding(h, 0 .. m + 1)
    <3>1. h = [k \in 0 .. m + 1 |-> h[k]]
      OBVIOUS
    <3>. HIDE DEF h
    <3>. QED
      BY <2>2, <3>1 DEF IsEncoding
  <2>. QED
    BY <2>3
<1>. QED
  <2>. HIDE DEF S
  <2>1. n \in S
    BY <1>1, <1>2, SetInduction
  <2>. QED
    BY <2>1 DEF S

LEMMA EncodingAgree ==
  ASSUME NEW m \in Nat, NEW n \in Nat, m <= n, NEW g, IsEncoding(g, 0 .. m), NEW h, IsEncoding(h, 0 .. n)
  PROVE  g[m] = h[m]
<1>. DEFINE S == {i \in Nat : i <= m => g[i] = h[i]}
<1>1. /\ \A k \in 0 .. m : g[k] = IF k = 0 THEN ScalarEncoding ELSE NextEncoding(k, g[k - 1])
      /\ \A k \in 0 .. n : h[k] = IF k = 0 THEN ScalarEncoding ELSE NextEncoding(k, h[k - 1])
  BY DEF IsEncoding
<1>2. 0 \in S
  BY <1>1
<1>3. ASSUME NEW k \in Nat, k \in S PROVE k + 1 \in S
  <2>1. SUFFICES ASSUME k + 1 <= m PROVE g[k + 1] = h[k + 1]
    OBVIOUS
  <2>2. k + 1 \in 0 .. m /\ k + 1 \in 0 .. n /\ k + 1 # 0 /\ (k + 1) - 1 = k /\ k <= m
    BY <2>1
  <2>3. g[k] = h[k]
    BY <1>3, <2>2
  <2>4. g[k + 1] = NextEncoding(k + 1, g[k]) /\ h[k + 1] = NextEncoding(k + 1, h[k])
    BY <1>1, <2>2
  <2>. QED
    BY <2>3, <2>4
<1>. HIDE DEF S
<1>4. m \in S
  BY <1>2, <1>3, SetInduction
<1>. QED
  BY <1>4 DEF S

LEMMA EncodingWhole == \E g : IsEncoding(g, Nat)
<1>. DEFINE whole == [n \in Nat |-> CHOOSE g : IsEncoding(g, 0 .. n)]
            h == [n \in Nat |-> whole[n][n]]
<1>1. \A n \in Nat : IsEncoding(whole[n], 0 .. n)
  BY EncodingExists
<1>. HIDE DEF whole
<1>2. ASSUME NEW k \in Nat PROVE h[k] = IF k = 0 THEN ScalarEncoding ELSE NextEncoding(k, h[k - 1])
  <2>1. h[k] = whole[k][k] /\ k \in 0 .. k
    OBVIOUS
  <2>2. whole[k][k] = IF k = 0 THEN ScalarEncoding ELSE NextEncoding(k, whole[k][k - 1])
    <3>1. IsEncoding(whole[k], 0 .. k)
      BY <1>1
    <3>. QED
      BY <2>1, <3>1 DEF IsEncoding
  <2>3. ASSUME k # 0 PROVE whole[k][k - 1] = h[k - 1]
    <3>1. k - 1 \in Nat /\ k - 1 <= k
      BY <2>3
    <3>2. IsEncoding(whole[k - 1], 0 .. k - 1) /\ IsEncoding(whole[k], 0 .. k)
      BY <1>1, <3>1
    <3>3. whole[k - 1][k - 1] = whole[k][k - 1]
      BY <3>1, <3>2, EncodingAgree
    <3>. QED
      BY <3>1, <3>3
  <2>. HIDE DEF h
  <2>. QED
    BY <2>1, <2>2, <2>3
<1>3. h = [k \in Nat |-> h[k]]
  OBVIOUS
<1>. HIDE DEF h
<1>4. IsEncoding(h, Nat)
  BY <1>2, <1>3 DEF IsEncoding
<1>. QED
  BY <1>4

LEMMA EncodingIs == IsEncoding(Encoding, Nat)
<1>1. \E g : IsEncoding(g, Nat)
  BY EncodingWhole
<1>. QED
  BY <1>1 DEF IsEncoding, NextEncoding, ScalarEncoding, Encoding

LEMMA EncodingStep ==
  /\ \A o \in Scalars : Encoding[0][o] = EmitNode(o)
  /\ \A h \in Nat : \A o \in Object[h + 1] : Encoding[h + 1][o] = Preorder(o, Encoding[h])
<1>1. Encoding = [k \in Nat |-> IF k = 0 THEN ScalarEncoding ELSE NextEncoding(k, Encoding[k - 1])]
  BY EncodingIs DEF IsEncoding
<1>2. \A o \in Scalars : Encoding[0][o] = EmitNode(o)
  BY <1>1 DEF ScalarEncoding
<1>3. ASSUME NEW h \in Nat, NEW o \in Object[h + 1]
      PROVE  Encoding[h + 1][o] = Preorder(o, Encoding[h])
  <2>1. h + 1 \in Nat /\ h + 1 # 0 /\ (h + 1) - 1 = h
    OBVIOUS
  <2>2. Encoding[h + 1] = NextEncoding(h + 1, Encoding[h])
    BY <1>1, <2>1
  <2>. QED
    BY <2>2 DEF NextEncoding
<1>. QED
  BY <1>2, <1>3

IsWalk(g, d, D) == g = [k \in D |-> IF k = 0 THEN Fill(<<>>, ReadInto(d, 0, 0)) ELSE Iterate(d, g[k - 1])]

LEMMA WalkExists == ASSUME NEW d, NEW n \in Nat PROVE \E g : IsWalk(g, d, 0 .. n)
<1>. DEFINE S == {m \in Nat : \E g : IsWalk(g, d, 0 .. m)}
<1>1. 0 \in S
  <2>. DEFINE h == [k \in 0 .. 0 |-> Fill(<<>>, ReadInto(d, 0, 0))]
  <2>1. \A k \in 0 .. 0 : h[k] = IF k = 0 THEN Fill(<<>>, ReadInto(d, 0, 0)) ELSE Iterate(d, h[k - 1])
    OBVIOUS
  <2>2. h = [k \in 0 .. 0 |-> h[k]]
    OBVIOUS
  <2>. HIDE DEF h
  <2>3. IsWalk(h, d, 0 .. 0)
    BY <2>1, <2>2 DEF IsWalk
  <2>. QED
    BY <2>3
<1>2. ASSUME NEW m \in Nat, m \in S PROVE m + 1 \in S
  <2>1. PICK g : IsWalk(g, d, 0 .. m)
    BY <1>2
  <2>. DEFINE last == Iterate(d, g[m])
              h == [k \in 0 .. m + 1 |-> IF k = m + 1 THEN last ELSE g[k]]
  <2>2. ASSUME NEW k \in 0 .. m + 1
        PROVE  h[k] = IF k = 0 THEN Fill(<<>>, ReadInto(d, 0, 0)) ELSE Iterate(d, h[k - 1])
    <3>1. CASE k = m + 1
      <4>. HIDE DEF last
      <4>1. h[k - 1] = g[m] /\ k # 0 /\ h[k] = last
        BY <3>1
      <4>. HIDE DEF h
      <4>. QED
        BY <3>1, <4>1 DEF last
    <3>2. CASE k \in 0 .. m
      <4>1. g[k] = IF k = 0 THEN Fill(<<>>, ReadInto(d, 0, 0)) ELSE Iterate(d, g[k - 1])
        BY <2>1, <3>2 DEF IsWalk
      <4>. HIDE DEF last
      <4>2. h[k] = g[k] /\ (k # 0 => h[k - 1] = g[k - 1])
        BY <3>2
      <4>. HIDE DEF h
      <4>. QED
        BY <4>1, <4>2
    <3>. QED
      BY <3>1, <3>2
  <2>3. IsWalk(h, d, 0 .. m + 1)
    <3>1. h = [k \in 0 .. m + 1 |-> h[k]]
      OBVIOUS
    <3>. HIDE DEF h
    <3>. QED
      BY <2>2, <3>1 DEF IsWalk
  <2>. QED
    BY <2>3
<1>. QED
  <2>. HIDE DEF S
  <2>1. n \in S
    BY <1>1, <1>2, SetInduction
  <2>. QED
    BY <2>1 DEF S

LEMMA WalkAgree ==
  ASSUME NEW d, NEW m \in Nat, NEW n \in Nat, m <= n, NEW g, IsWalk(g, d, 0 .. m), NEW h, IsWalk(h, d, 0 .. n)
  PROVE  g[m] = h[m]
<1>. DEFINE S == {i \in Nat : i <= m => g[i] = h[i]}
<1>1. /\ \A k \in 0 .. m : g[k] = IF k = 0 THEN Fill(<<>>, ReadInto(d, 0, 0)) ELSE Iterate(d, g[k - 1])
      /\ \A k \in 0 .. n : h[k] = IF k = 0 THEN Fill(<<>>, ReadInto(d, 0, 0)) ELSE Iterate(d, h[k - 1])
  BY DEF IsWalk
<1>2. 0 \in S
  BY <1>1
<1>3. ASSUME NEW k \in Nat, k \in S PROVE k + 1 \in S
  <2>1. SUFFICES ASSUME k + 1 <= m PROVE g[k + 1] = h[k + 1]
    OBVIOUS
  <2>2. k + 1 \in 0 .. m /\ k + 1 \in 0 .. n /\ k + 1 # 0 /\ (k + 1) - 1 = k /\ k <= m
    BY <2>1
  <2>3. g[k] = h[k]
    BY <1>3, <2>2
  <2>4. g[k + 1] = Iterate(d, g[k]) /\ h[k + 1] = Iterate(d, h[k])
    BY <1>1, <2>2
  <2>. QED
    BY <2>3, <2>4
<1>. HIDE DEF S
<1>4. m \in S
  BY <1>2, <1>3, SetInduction
<1>. QED
  BY <1>4 DEF S

LEMMA WalkWhole == ASSUME NEW d PROVE \E g : IsWalk(g, d, Nat)
<1>. DEFINE whole == [n \in Nat |-> CHOOSE g : IsWalk(g, d, 0 .. n)]
            h == [n \in Nat |-> whole[n][n]]
<1>1. \A n \in Nat : IsWalk(whole[n], d, 0 .. n)
  BY WalkExists
<1>. HIDE DEF whole
<1>2. ASSUME NEW k \in Nat PROVE h[k] = IF k = 0 THEN Fill(<<>>, ReadInto(d, 0, 0)) ELSE Iterate(d, h[k - 1])
  <2>1. h[k] = whole[k][k] /\ k \in 0 .. k
    OBVIOUS
  <2>2. whole[k][k] = IF k = 0 THEN Fill(<<>>, ReadInto(d, 0, 0)) ELSE Iterate(d, whole[k][k - 1])
    <3>1. IsWalk(whole[k], d, 0 .. k)
      BY <1>1
    <3>. QED
      BY <2>1, <3>1 DEF IsWalk
  <2>3. ASSUME k # 0 PROVE whole[k][k - 1] = h[k - 1]
    <3>1. k - 1 \in Nat /\ k - 1 <= k
      BY <2>3
    <3>2. IsWalk(whole[k - 1], d, 0 .. k - 1) /\ IsWalk(whole[k], d, 0 .. k)
      BY <1>1, <3>1
    <3>3. whole[k - 1][k - 1] = whole[k][k - 1]
      BY <3>1, <3>2, WalkAgree
    <3>. QED
      BY <3>1, <3>3
  <2>. HIDE DEF h
  <2>. QED
    BY <2>1, <2>2, <2>3
<1>3. h = [k \in Nat |-> h[k]]
  OBVIOUS
<1>. HIDE DEF h
<1>4. IsWalk(h, d, Nat)
  BY <1>2, <1>3 DEF IsWalk
<1>. QED
  BY <1>4

LEMMA WalkIs == ASSUME NEW d PROVE IsWalk(Walk(d), d, Nat)
<1>1. \E g : IsWalk(g, d, Nat)
  BY WalkWhole
<1>. QED
  BY <1>1 DEF IsWalk, Walk

(* The decoder's loop, iteration by iteration. *)
LEMMA WalkStep ==
  ASSUME NEW d
  PROVE  /\ Walk(d)[0] = Fill(<<>>, ReadInto(d, 0, 0))
         /\ \A k \in Nat : Walk(d)[k + 1] = Iterate(d, Walk(d)[k])
<1>1. Walk(d) = [k \in Nat |-> IF k = 0 THEN Fill(<<>>, ReadInto(d, 0, 0))
                               ELSE Iterate(d, Walk(d)[k - 1])]
  BY WalkIs DEF IsWalk
<1>2. ASSUME NEW k \in Nat PROVE Walk(d)[k + 1] = Iterate(d, Walk(d)[k])
  <2>1. k + 1 \in Nat /\ k + 1 # 0 /\ (k + 1) - 1 = k
    OBVIOUS
  <2>. QED
    BY <1>1, <2>1
<1>. QED
  BY <1>1, <1>2

---------------------------------------------------------------------------
(* The decoder reads forward, and bytes behind the end change no verdict.  *)

IsSeq(s) == \E n \in Nat : s = [i \in 1 .. n |-> s[i]]

LEMMA SeqTyped == ASSUME NEW s, IsSeq(s) PROVE \E X : s \in Seq(X)
<1>1. PICK n \in Nat : s = [i \in 1 .. n |-> s[i]]
  BY DEF IsSeq
<1>. DEFINE X == {s[i] : i \in 1 .. n}
<1>2. \A i \in 1 .. n : s[i] \in X
  OBVIOUS
<1>. HIDE DEF X
<1>3. s \in [1 .. n -> X]
  BY <1>1, <1>2
<1>4. s \in Seq(X)
  BY <1>3
<1>. QED
  BY <1>4

LEMMA TypedSeq == ASSUME NEW X, NEW s \in Seq(X) PROVE IsSeq(s)
<1>1. Len(s) \in Nat /\ s = [i \in 1 .. Len(s) |-> s[i]]
  OBVIOUS
<1>. QED
  BY <1>1 DEF IsSeq

LEMMA SeqGrows ==
  ASSUME NEW s, IsSeq(s), NEW e
  PROVE  /\ IsSeq(Append(s, e)) /\ Append(s, e) # <<>> /\ Len(s) \in Nat
         /\ Len(Append(s, e)) = Len(s) + 1 /\ Last(Append(s, e)) = e /\ Front(Append(s, e)) = s
<1>1. PICK X : s \in Seq(X)
  BY SeqTyped
<1>. DEFINE Y == X \cup {e}
<1>2. s \in Seq(Y) /\ e \in Y
  BY <1>1
<1>. HIDE DEF Y
<1>. DEFINE a == Append(s, e)
<1>3. a \in Seq(Y) /\ Len(a) = Len(s) + 1 /\ Len(s) \in Nat /\ a[Len(s) + 1] = e
  BY <1>2
<1>4. \A i \in 1 .. Len(s) : a[i] = s[i]
  BY <1>2
<1>. HIDE DEF a
<1>5. IsSeq(a) /\ a # <<>>
  BY <1>3, TypedSeq
<1>6. Last(a) = e
  BY <1>3 DEF Last
<1>7. Front(a) = s
  <2>. DEFINE f == SubSeq(a, 1, Len(s))
  <2>1. f \in Seq(Y) /\ Len(f) = Len(s) /\ \A i \in 1 .. Len(s) : f[i] = a[i]
    <3>1. 0 \in Nat /\ Len(s) <= Len(a) /\ 0 <= Len(s) /\ Len(s) - 0 = Len(s) /\ 0 + 1 = 1
          /\ \A i \in 1 .. Len(s) : 0 + i = i
      BY <1>3
    <3>2. /\ SubSeq(a, 0 + 1, Len(s)) \in Seq(Y) /\ Len(SubSeq(a, 0 + 1, Len(s))) = Len(s) - 0
          /\ \A i \in 1 .. Len(s) - 0 : SubSeq(a, 0 + 1, Len(s))[i] = a[0 + i]
      BY <1>3, <3>1, SubSeqFacts
    <3>. QED
      BY <3>1, <3>2
  <2>. HIDE DEF f
  <2>2. f = s
    BY <1>2, <1>4, <2>1
  <2>3. Len(a) - 1 = Len(s)
    BY <1>3
  <2>. QED
    BY <2>2, <2>3 DEF Front, f
<1>. QED
  BY <1>3, <1>5, <1>6, <1>7 DEF a

LEMMA SeqShrinks ==
  ASSUME NEW s, IsSeq(s), s # <<>>
  PROVE  IsSeq(Front(s)) /\ Len(s) \in Nat /\ Len(s) >= 1 /\ Len(Front(s)) = Len(s) - 1
<1>1. PICK X : s \in Seq(X)
  BY SeqTyped
<1>2. Len(s) \in Nat /\ Len(s) >= 1
  BY <1>1
<1>. DEFINE m == Len(s) - 1
<1>3. 0 \in Nat /\ m \in Nat /\ 0 <= m /\ m <= Len(s) /\ m - 0 = m /\ 0 + 1 = 1
  BY <1>2
<1>4. SubSeq(s, 0 + 1, m) \in Seq(X) /\ Len(SubSeq(s, 0 + 1, m)) = m - 0
  <2>. HIDE DEF m
  <2>. QED
    BY <1>1, <1>3, SubSeqFacts
<1>5. Front(s) = SubSeq(s, 0 + 1, m)
  BY <1>3 DEF Front
<1>6. IsSeq(Front(s)) /\ Len(Front(s)) = m
  BY <1>3, <1>4, <1>5, TypedSeq
<1>. QED
  BY <1>2, <1>6

LEMMA NothingIsSeq == IsSeq(<<>>)
<1>1. <<>> = [i \in 1 .. 0 |-> <<>>[i]]
  OBVIOUS
<1>2. 0 \in Nat
  OBVIOUS
<1>. QED
  BY <1>1, <1>2 DEF IsSeq

(* What a format byte announces. *)
Kind(kind, width) == [kind |-> kind, width |-> width]

LEMMA FormatIs ==
  ASSUME NEW b \in Byte
  PROVE
    /\ (b <= 127 \/ b >= 224) => Format(b) = Kind("fixint", 0)
    /\ (b \in 128 .. 143) => Format(b) = Kind("dict", 0)
    /\ (b \in 144 .. 159) => Format(b) = Kind("array", 0)
    /\ (b \in 160 .. 191) => Format(b) = Kind("string", 0)
    /\ (b = 192) => Format(b) = Kind("nil", 0)
    /\ (b \in {194, 195}) => Format(b) = Kind("boolean", 0)
    /\ (b \in 196 .. 198) => Format(b) = Kind("bin", Widths[b - 195])
    /\ (b \in {202, 203}) => Format(b) = Kind("float", Widths[b - 199])
    /\ (b \in 204 .. 207) => Format(b) = Kind("uint", Widths[b - 203])
    /\ (b \in 208 .. 211) => Format(b) = Kind("int", Widths[b - 207])
    /\ (b \in 217 .. 219) => Format(b) = Kind("string", Widths[b - 216])
    /\ (b \in {220, 221}) => Format(b) = Kind("array", Widths[b - 218])
    /\ (b \in {222, 223}) => Format(b) = Kind("dict", Widths[b - 220])
    /\ (b = 193 \/ b \in 199 .. 201 \/ b \in 212 .. 216) => Format(b) = Kind("unsupported", 0)
<1>0. b \in Nat /\ b <= 255
  BY DEF Byte
<1>1. ASSUME b <= 127 \/ b >= 224 PROVE Format(b) = Kind("fixint", 0)
  BY <1>0, <1>1 DEF Format, Kind
<1>2. ASSUME b \in 128 .. 143 PROVE Format(b) = Kind("dict", 0)
  BY <1>0, <1>2 DEF Format, Kind
<1>3. ASSUME b \in 144 .. 159 PROVE Format(b) = Kind("array", 0)
  BY <1>0, <1>3 DEF Format, Kind
<1>4. ASSUME b \in 160 .. 191 PROVE Format(b) = Kind("string", 0)
  BY <1>0, <1>4 DEF Format, Kind
<1>5. ASSUME b = 192 PROVE Format(b) = Kind("nil", 0)
  BY <1>0, <1>5 DEF Format, Kind
<1>6. ASSUME b \in {194, 195} PROVE Format(b) = Kind("boolean", 0)
  BY <1>0, <1>6 DEF Format, Kind
<1>7. ASSUME b \in 196 .. 198 PROVE Format(b) = Kind("bin", Widths[b - 195])
  BY <1>0, <1>7 DEF Format, Kind
<1>8. ASSUME b \in {202, 203} PROVE Format(b) = Kind("float", Widths[b - 199])
  BY <1>0, <1>8 DEF Format, Kind
<1>9. ASSUME b \in 204 .. 207 PROVE Format(b) = Kind("uint", Widths[b - 203])
  BY <1>0, <1>9 DEF Format, Kind
<1>10. ASSUME b \in 208 .. 211 PROVE Format(b) = Kind("int", Widths[b - 207])
  BY <1>0, <1>10 DEF Format, Kind
<1>11. ASSUME b \in 217 .. 219 PROVE Format(b) = Kind("string", Widths[b - 216])
  BY <1>0, <1>11 DEF Format, Kind
<1>12. ASSUME b \in {220, 221} PROVE Format(b) = Kind("array", Widths[b - 218])
  BY <1>0, <1>12 DEF Format, Kind
<1>13. ASSUME b \in {222, 223} PROVE Format(b) = Kind("dict", Widths[b - 220])
  BY <1>0, <1>13 DEF Format, Kind
<1>14. ASSUME b = 193 \/ b \in 199 .. 201 \/ b \in 212 .. 216 PROVE Format(b) = Kind("unsupported", 0)
  BY <1>0, <1>14 DEF Format, Kind
<1>. QED
  BY <1>1, <1>2, <1>3, <1>4, <1>5, <1>6, <1>7, <1>8, <1>9, <1>10, <1>11, <1>12, <1>13, <1>14

LEMMA WidthsAre == Widths[1] = 1 /\ Widths[2] = 2 /\ Widths[3] = 4 /\ Widths[4] = 8
BY DEF Widths

LEMMA KindFields == ASSUME NEW k, NEW w PROVE Kind(k, w).kind = k /\ Kind(k, w).width = w
BY DEF Kind

LEMMA FormatFacts ==
  ASSUME NEW b \in Byte
  PROVE  /\ Format(b).width \in {0, 1, 2, 4, 8}
         /\ Format(b).kind \in {"string", "bin", "array", "dict"} => Format(b).width # 8
<1>0. b \in Nat /\ b <= 255
  BY DEF Byte
<1>1. CASE b <= 127 \/ b >= 224
  <2>1. Format(b) = Kind("fixint", 0)
    BY <1>1, FormatIs
  <2>2. Format(b).kind = "fixint" /\ Format(b).width = 0
    BY <2>1, KindFields
  <2>. QED
    BY <2>2
<1>2. CASE b \in 128 .. 143
  <2>1. Format(b) = Kind("dict", 0)
    BY <1>2, FormatIs
  <2>2. Format(b).kind = "dict" /\ Format(b).width = 0
    BY <2>1, KindFields
  <2>. QED
    BY <2>2
<1>3. CASE b \in 144 .. 159
  <2>1. Format(b) = Kind("array", 0)
    BY <1>3, FormatIs
  <2>2. Format(b).kind = "array" /\ Format(b).width = 0
    BY <2>1, KindFields
  <2>. QED
    BY <2>2
<1>4. CASE b \in 160 .. 191
  <2>1. Format(b) = Kind("string", 0)
    BY <1>4, FormatIs
  <2>2. Format(b).kind = "string" /\ Format(b).width = 0
    BY <2>1, KindFields
  <2>. QED
    BY <2>2
<1>5. CASE b = 192
  <2>1. Format(b) = Kind("nil", 0)
    BY <1>5, FormatIs
  <2>2. Format(b).kind = "nil" /\ Format(b).width = 0
    BY <2>1, KindFields
  <2>. QED
    BY <2>2
<1>6. CASE b \in {194, 195}
  <2>1. Format(b) = Kind("boolean", 0)
    BY <1>6, FormatIs
  <2>2. Format(b).kind = "boolean" /\ Format(b).width = 0
    BY <2>1, KindFields
  <2>. QED
    BY <2>2
<1>7. CASE b \in 196 .. 198
  <2>1. Format(b) = Kind("bin", Widths[b - 195])
    BY <1>7, FormatIs
  <2>2. Format(b).kind = "bin" /\ Format(b).width = Widths[b - 195]
    BY <2>1, KindFields
  <2>3. b - 195 = 1 \/ b - 195 = 2 \/ b - 195 = 3
    BY <1>7
  <2>4. Widths[b - 195] \in {1, 2, 4}
    BY <2>3, WidthsAre
  <2>. QED
    BY <2>2, <2>4
<1>8. CASE b \in {202, 203}
  <2>1. Format(b) = Kind("float", Widths[b - 199])
    BY <1>8, FormatIs
  <2>2. Format(b).kind = "float" /\ Format(b).width = Widths[b - 199]
    BY <2>1, KindFields
  <2>3. b - 199 = 3 \/ b - 199 = 4
    BY <1>8
  <2>4. Widths[b - 199] \in {4, 8}
    BY <2>3, WidthsAre
  <2>. QED
    BY <2>2, <2>4
<1>9. CASE b \in 204 .. 207
  <2>1. Format(b) = Kind("uint", Widths[b - 203])
    BY <1>9, FormatIs
  <2>2. Format(b).kind = "uint" /\ Format(b).width = Widths[b - 203]
    BY <2>1, KindFields
  <2>3. b - 203 = 1 \/ b - 203 = 2 \/ b - 203 = 3 \/ b - 203 = 4
    BY <1>9
  <2>4. Widths[b - 203] \in {1, 2, 4, 8}
    BY <2>3, WidthsAre
  <2>. QED
    BY <2>2, <2>4
<1>10. CASE b \in 208 .. 211
  <2>1. Format(b) = Kind("int", Widths[b - 207])
    BY <1>10, FormatIs
  <2>2. Format(b).kind = "int" /\ Format(b).width = Widths[b - 207]
    BY <2>1, KindFields
  <2>3. b - 207 = 1 \/ b - 207 = 2 \/ b - 207 = 3 \/ b - 207 = 4
    BY <1>10
  <2>4. Widths[b - 207] \in {1, 2, 4, 8}
    BY <2>3, WidthsAre
  <2>. QED
    BY <2>2, <2>4
<1>11. CASE b \in 217 .. 219
  <2>1. Format(b) = Kind("string", Widths[b - 216])
    BY <1>11, FormatIs
  <2>2. Format(b).kind = "string" /\ Format(b).width = Widths[b - 216]
    BY <2>1, KindFields
  <2>3. b - 216 = 1 \/ b - 216 = 2 \/ b - 216 = 3
    BY <1>11
  <2>4. Widths[b - 216] \in {1, 2, 4}
    BY <2>3, WidthsAre
  <2>. QED
    BY <2>2, <2>4
<1>12. CASE b \in {220, 221}
  <2>1. Format(b) = Kind("array", Widths[b - 218])
    BY <1>12, FormatIs
  <2>2. Format(b).kind = "array" /\ Format(b).width = Widths[b - 218]
    BY <2>1, KindFields
  <2>3. b - 218 = 2 \/ b - 218 = 3
    BY <1>12
  <2>4. Widths[b - 218] \in {2, 4}
    BY <2>3, WidthsAre
  <2>. QED
    BY <2>2, <2>4
<1>13. CASE b \in {222, 223}
  <2>1. Format(b) = Kind("dict", Widths[b - 220])
    BY <1>13, FormatIs
  <2>2. Format(b).kind = "dict" /\ Format(b).width = Widths[b - 220]
    BY <2>1, KindFields
  <2>3. b - 220 = 2 \/ b - 220 = 3
    BY <1>13
  <2>4. Widths[b - 220] \in {2, 4}
    BY <2>3, WidthsAre
  <2>. QED
    BY <2>2, <2>4
<1>14. CASE b = 193 \/ b \in 199 .. 201 \/ b \in 212 .. 216
  <2>1. Format(b) = Kind("unsupported", 0)
    BY <1>14, FormatIs
  <2>2. Format(b).kind = "unsupported" /\ Format(b).width = 0
    BY <2>1, KindFields
  <2>. QED
    BY <2>2
<1>15. \/ b <= 127 \/ b >= 224
       \/ b \in 128 .. 143
       \/ b \in 144 .. 159
       \/ b \in 160 .. 191
       \/ b = 192
       \/ b \in {194, 195}
       \/ b \in 196 .. 198
       \/ b \in {202, 203}
       \/ b \in 204 .. 207
       \/ b \in 208 .. 211
       \/ b \in 217 .. 219
       \/ b \in {220, 221}
       \/ b \in {222, 223}
       \/ b = 193 \/ b \in 199 .. 201 \/ b \in 212 .. 216
  BY <1>0
<1>. QED
  BY <1>1, <1>2, <1>3, <1>4, <1>5, <1>6, <1>7, <1>8, <1>9, <1>10, <1>11, <1>12, <1>13, <1>14, <1>15

LEMMA ByteNat == ASSUME NEW s \in Seq(Byte), NEW i \in 1 .. Len(s) PROVE s[i] \in Nat /\ s[i] <= 255
<1>1. s[i] \in Byte
  OBVIOUS
<1>2. \A x \in Byte : x \in Nat /\ x <= 255
  BY DEF Byte
<1>. QED
  BY <1>1, <1>2

(* The value of a big-endian length, and the length a header announces. *)
LEMMA BeIs ==
  ASSUME NEW s
  PROVE  /\ Len(s) = 1 => Be(s) = s[1]
         /\ Len(s) = 2 => Be(s) = 256 * s[1] + s[2]
         /\ Len(s) = 4 => Be(s) = IF s[1] >= 64 THEN Limit
                                  ELSE Two16 * (256 * s[1] + s[2]) + (256 * s[3] + s[4])
<1>1. ASSUME Len(s) = 1 PROVE Be(s) = s[1]
  BY <1>1 DEF Be
<1>2. ASSUME Len(s) = 2 PROVE Be(s) = 256 * s[1] + s[2]
  BY <1>2 DEF Be
<1>3. ASSUME Len(s) = 4
      PROVE  Be(s) = IF s[1] >= 64 THEN Limit
                     ELSE Two16 * (256 * s[1] + s[2]) + (256 * s[3] + s[4])
  BY <1>3 DEF Be
<1>. QED
  BY <1>1, <1>2, <1>3

LEMMA LimitIsNat == Limit \in Nat /\ Two16 \in Nat
BY SMT DEF Limit, Two16

LEMMA CountIs ==
  ASSUME NEW b, NEW s
  PROVE  /\ s # <<>> => Count(b, s) = Be(s)
         /\ s = <<>> /\ b \in 128 .. 159 => Count(b, s) = b % 16
         /\ s = <<>> /\ b \notin 128 .. 159 => Count(b, s) = b % 32
<1>1. ASSUME s # <<>> PROVE Count(b, s) = Be(s)
  BY <1>1 DEF Count
<1>2. ASSUME s = <<>>, b \in 128 .. 159 PROVE Count(b, s) = b % 16
  BY <1>2 DEF Count
<1>3. ASSUME s = <<>>, b \notin 128 .. 159 PROVE Count(b, s) = b % 32
  BY <1>3 DEF Count
<1>. QED
  BY <1>1, <1>2, <1>3

LEMMA CountType ==
  ASSUME NEW b \in Byte, NEW s \in Seq(Byte), Len(s) \in {0, 1, 2, 4}
  PROVE  Count(b, s) \in Nat
<1>1. b \in Nat
  BY DEF Byte
<1>2. CASE Len(s) = 0
  <2>1. s = <<>>
    BY <1>2
  <2>2. b % 16 \in Nat /\ b % 32 \in Nat
    BY <1>1
  <2>. QED
    BY <2>1, <2>2, CountIs
<1>3. CASE Len(s) # 0
  <2>1. s # <<>>
    BY <1>3
  <2>2. CASE Len(s) = 1
    <3>1. s[1] \in Nat
      <4>1. 1 \in 1 .. Len(s)
        BY <2>2
      <4>. QED
        BY <4>1, ByteNat
    <3>. QED
      BY <2>1, <2>2, <3>1, BeIs, CountIs
  <2>3. CASE Len(s) = 2
    <3>1. s[1] \in Nat /\ s[2] \in Nat
      <4>1. 1 \in 1 .. Len(s) /\ 2 \in 1 .. Len(s)
        BY <2>3
      <4>. QED
        BY <4>1, ByteNat
    <3>2. 256 * s[1] + s[2] \in Nat
      BY <3>1
    <3>. QED
      BY <2>1, <2>3, <3>2, BeIs, CountIs
  <2>4. CASE Len(s) = 4
    <3>1. s[1] \in Nat /\ s[2] \in Nat /\ s[3] \in Nat /\ s[4] \in Nat
      <4>1. 1 \in 1 .. Len(s) /\ 2 \in 1 .. Len(s) /\ 3 \in 1 .. Len(s) /\ 4 \in 1 .. Len(s)
        BY <2>4
      <4>. QED
        BY <4>1, ByteNat
    <3>2. Two16 * (256 * s[1] + s[2]) + (256 * s[3] + s[4]) \in Nat
      <4>. DEFINE x == s[1]  y == s[2]  z == s[3]  u == s[4]
      <4>1. x \in Nat /\ y \in Nat /\ z \in Nat /\ u \in Nat
        BY <3>1
      <4>. HIDE DEF x, y, z, u
      <4>2. Two16 * (256 * x + y) + (256 * z + u) \in Nat
        BY <4>1, SMT DEF Two16
      <4>. QED
        BY <4>2 DEF x, y, z, u
    <3>3. Be(s) \in Nat
      BY <2>4, <3>2, LimitIsNat, BeIs
    <3>. QED
      BY <2>1, <3>3, CountIs
  <2>. QED
    BY <1>3, <2>2, <2>3, <2>4
<1>. QED
  BY <1>2, <1>3

Opening(is_map, n, pos) == [st |-> "open", is_map |-> is_map, n |-> n, pos |-> pos]

LEMMA VerdictFields ==
  ASSUME NEW o, NEW p, NEW m, NEW n
  PROVE  /\ Complete(o, p).st = "ok" /\ Complete(o, p).obj = o /\ Complete(o, p).pos = p
         /\ Opening(m, n, p).st = "open" /\ Opening(m, n, p).is_map = m /\ Opening(m, n, p).n = n
         /\ Opening(m, n, p).pos = p
         /\ Incomplete.st = "incomplete" /\ Malformed.st = "error"
BY DEF Complete, Opening, Incomplete, Malformed

LEMMA VerdictsDiffer ==
  ASSUME NEW o, NEW p, NEW m, NEW n
  PROVE  /\ Complete(o, p) # Incomplete /\ Opening(m, n, p) # Incomplete /\ Malformed # Incomplete
         /\ Complete(o, p) # Malformed
<1>1. "ok" # "incomplete" /\ "open" # "incomplete" /\ "error" # "incomplete" /\ "ok" # "error"
  OBVIOUS
<1>. QED
  BY <1>1, VerdictFields

LEMMA SwitchNone ==
  ASSUME NEW d, NEW pos, NEW b, NEW s, NEW depth,
         Format(b).kind = "unsupported"
  PROVE  Switch(d, pos, b, s, depth) = Malformed
BY DEF Switch

LEMMA SwitchNil ==
  ASSUME NEW d, NEW pos, NEW b, NEW s, NEW depth,
         Format(b).kind = "nil"
  PROVE  Switch(d, pos, b, s, depth) = Complete([nil |-> 0], pos)
BY DEF Switch

LEMMA SwitchBoolean ==
  ASSUME NEW d, NEW pos, NEW b, NEW s, NEW depth,
         Format(b).kind = "boolean"
  PROVE  Switch(d, pos, b, s, depth) = Complete([boolean |-> b = 195], pos)
BY DEF Switch

LEMMA SwitchText ==
  ASSUME NEW d, NEW pos, NEW b, NEW s, NEW depth,
         Format(b).kind \in {"string", "bin"}
  PROVE  Switch(d, pos, b, s, depth) = TakeStr(d, pos, Count(b, s))
BY DEF Switch

LEMMA SwitchContainer ==
  ASSUME NEW d, NEW pos, NEW b, NEW s, NEW depth,
         Format(b).kind \in {"array", "dict"}
  PROVE  Switch(d, pos, b, s, depth) = Open(d, pos, Count(b, s), Format(b).kind = "dict", depth)
BY DEF Switch

LEMMA SwitchNumber ==
  ASSUME NEW d, NEW pos, NEW b, NEW s, NEW depth,
         Format(b).kind \notin {"unsupported", "nil", "boolean", "string", "bin", "array", "dict"}
  PROVE  Switch(d, pos, b, s, depth) = Complete(ReadNumber(b, s), pos)
BY DEF Switch

(* What reading at a position from lo on may give. *)
Outcome(r, lo, hi) ==
  \/ r = Incomplete \/ r = Malformed
  \/ r.st \in {"ok", "open"} /\ r.pos \in lo .. hi
     /\ ((\E o : r = Complete(o, r.pos)) \/ (\E m, n : r = Opening(m, n, r.pos)))

LEMMA OutcomeOk ==
  ASSUME NEW o, NEW p, NEW m, NEW n, NEW lo, NEW hi, p \in lo .. hi
  PROVE  Outcome(Complete(o, p), lo, hi) /\ Outcome(Opening(m, n, p), lo, hi)
<1>1. Complete(o, p).st = "ok" /\ Complete(o, p).pos = p
      /\ Opening(m, n, p).st = "open" /\ Opening(m, n, p).pos = p
  BY VerdictFields
<1>2. Outcome(Complete(o, p), lo, hi)
  <2>1. \E x : Complete(o, p) = Complete(x, Complete(o, p).pos)
    BY <1>1
  <2>. QED
    BY <1>1, <2>1 DEF Outcome
<1>3. Outcome(Opening(m, n, p), lo, hi)
  <2>1. \E x, y : Opening(m, n, p) = Opening(x, y, Opening(m, n, p).pos)
    BY <1>1
  <2>. QED
    BY <1>1, <2>1 DEF Outcome
<1>. QED
  BY <1>2, <1>3

LEMMA SubSeqMore ==
  ASSUME NEW d \in Seq(Byte), NEW t \in Seq(Byte), NEW m \in Nat, NEW n \in Nat, m <= n, n <= Len(d)
  PROVE  SubSeq(d \o t, m + 1, n) = SubSeq(d, m + 1, n)
<1>. DEFINE u == d \o t
            x == SubSeq(u, m + 1, n)
            y == SubSeq(d, m + 1, n)
<1>1. u \in Seq(Byte) /\ Len(d) \in Nat /\ n <= Len(u) /\ \A p \in 1 .. Len(d) : u[p] = d[p]
  <2>1. Len(u) = Len(d) + Len(t) /\ Len(t) \in Nat /\ Len(d) \in Nat
    OBVIOUS
  <2>2. u \in Seq(Byte) /\ \A p \in 1 .. Len(d) : u[p] = d[p]
    BY ConcatFacts
  <2>. HIDE DEF u
  <2>. QED
    BY <2>1, <2>2
<1>. HIDE DEF u
<1>2. x \in Seq(Byte) /\ Len(x) = n - m /\ \A i \in 1 .. n - m : x[i] = u[m + i]
  BY <1>1, SubSeqFacts
<1>3. y \in Seq(Byte) /\ Len(y) = n - m /\ \A i \in 1 .. n - m : y[i] = d[m + i]
  BY SubSeqFacts
<1>4. \A i \in 1 .. n - m : m + i \in 1 .. Len(d)
  BY <1>1
<1>. HIDE DEF x, y
<1>5. \A i \in 1 .. n - m : x[i] = y[i]
  BY <1>1, <1>2, <1>3, <1>4
<1>6. x = y
  BY <1>2, <1>3, <1>5
<1>. QED
  BY <1>6 DEF x, y, u

LEMMA SwitchFacts ==
  ASSUME NEW d \in Seq(Byte), NEW t \in Seq(Byte), NEW pos \in 0 .. Len(d), NEW b \in Byte,
         NEW s \in Seq(Byte), Len(s) = Format(b).width, NEW depth
  PROVE  /\ Outcome(Switch(d, pos, b, s, depth), pos, Len(d))
         /\ Switch(d, pos, b, s, depth) # Incomplete =>
              Switch(d \o t, pos, b, s, depth) = Switch(d, pos, b, s, depth)
<1>. DEFINE kind == Format(b).kind
            r == Switch(d, pos, b, s, depth)
            q == Switch(d \o t, pos, b, s, depth)
            n == Count(b, s)
<1>0. Len(d) \in Nat /\ pos \in Nat /\ pos <= Len(d) /\ Len(d \o t) >= Len(d) /\ Len(d \o t) \in Nat
  <2>1. Len(d \o t) = Len(d) + Len(t) /\ Len(t) \in Nat /\ Len(d) \in Nat
    OBVIOUS
  <2>. QED
    BY <2>1
<1>00. pos \in pos .. Len(d)
  BY <1>0
<1>1. CASE kind = "unsupported"
  <2>1. r = Malformed /\ q = Malformed
    BY <1>1, SwitchNone
  <2>. QED
    BY <2>1 DEF Outcome
<1>2. CASE kind = "nil"
  <2>1. r = Complete([nil |-> 0], pos) /\ q = Complete([nil |-> 0], pos)
    BY <1>2, SwitchNil
  <2>. QED
    BY <2>1, <1>00, OutcomeOk
<1>3. CASE kind = "boolean"
  <2>. DEFINE o == [boolean |-> b = 195]
  <2>1. r = Complete(o, pos) /\ q = Complete(o, pos)
    BY <1>3, SwitchBoolean
  <2>. HIDE DEF o
  <2>. QED
    BY <2>1, <1>00, OutcomeOk
<1>4. CASE kind \notin {"unsupported", "nil", "boolean", "string", "bin", "array", "dict"}
  <2>1. r = Complete(ReadNumber(b, s), pos) /\ q = Complete(ReadNumber(b, s), pos)
    BY <1>4, SwitchNumber
  <2>. QED
    BY <2>1, <1>00, OutcomeOk
<1>5. ASSUME kind \in {"string", "bin", "array", "dict"} PROVE n \in Nat
  <2>1. Len(s) \in {0, 1, 2, 4}
    BY <1>5, FormatFacts
  <2>. QED
    BY <2>1, CountType
<1>6. CASE kind \in {"string", "bin"}
  <2>1. r = TakeStr(d, pos, n) /\ q = TakeStr(d \o t, pos, n)
    BY <1>6, SwitchText
  <2>2. n \in Nat
    BY <1>5, <1>6
  <2>. HIDE DEF n, kind
  <2>3. CASE Len(d) - pos < n
    <3>1. r = Incomplete
      BY <2>1, <2>3 DEF TakeStr
    <3>. QED
      BY <3>1 DEF Outcome
  <2>4. CASE ~ (Len(d) - pos < n)
    <3>1. pos <= pos + n /\ pos + n <= Len(d) /\ pos + n \in pos .. Len(d) /\ pos + n \in Nat
          /\ ~ (Len(d \o t) - pos < n)
      BY <1>0, <2>2, <2>4
    <3>2. r = Complete([string |-> SubSeq(d, pos + 1, pos + n)], pos + n)
      BY <2>1, <2>4 DEF TakeStr
    <3>3. q = Complete([string |-> SubSeq(d \o t, pos + 1, pos + n)], pos + n)
      BY <2>1, <3>1 DEF TakeStr
    <3>4. SubSeq(d \o t, pos + 1, pos + n) = SubSeq(d, pos + 1, pos + n)
      BY <1>0, <3>1, SubSeqMore
    <3>. QED
      BY <3>1, <3>2, <3>3, <3>4, OutcomeOk
  <2>. QED
    BY <2>3, <2>4
<1>7. CASE kind \in {"array", "dict"}
  <2>1. r = Open(d, pos, n, kind = "dict", depth) /\ q = Open(d \o t, pos, n, kind = "dict", depth)
    BY <1>7, SwitchContainer
  <2>2. n \in Nat
    BY <1>5, <1>7
  <2>. DEFINE m == kind = "dict"
  <2>3. r = Open(d, pos, n, m, depth) /\ q = Open(d \o t, pos, n, m, depth)
    BY <2>1
  <2>. HIDE DEF n, kind, m
  <2>4. CASE n > Len(d) - pos
    <3>1. r = Incomplete
      BY <2>3, <2>4 DEF Open
    <3>. QED
      BY <3>1 DEF Outcome
  <2>5. CASE ~ (n > Len(d) - pos)
    <3>1. ~ (n > Len(d \o t) - pos)
      BY <1>0, <2>2, <2>5
    <3>2. CASE depth >= MarshalDepthCap
      <4>1. r = Malformed
        BY <2>3, <2>5, <3>2 DEF Open
      <4>2. q = Malformed
        BY <2>3, <3>1, <3>2 DEF Open
      <4>. QED
        BY <4>1, <4>2 DEF Outcome
    <3>3. CASE ~ (depth >= MarshalDepthCap)
      <4>1. r = Opening(m, n, pos)
        BY <2>3, <2>5, <3>3 DEF Open, Opening
      <4>2. q = Opening(m, n, pos)
        BY <2>3, <3>1, <3>3 DEF Open, Opening
      <4>. QED
        BY <1>00, <4>1, <4>2, OutcomeOk
    <3>. QED
      BY <3>2, <3>3
  <2>. QED
    BY <2>4, <2>5
<1>. QED
  BY <1>1, <1>2, <1>3, <1>4, <1>6, <1>7

LEMMA ReadFacts ==
  ASSUME NEW d \in Seq(Byte), NEW t \in Seq(Byte), NEW pos \in 0 .. Len(d), NEW depth
  PROVE  /\ Outcome(ReadInto(d, pos, depth), pos + 1, Len(d))
         /\ ReadInto(d, pos, depth) # Incomplete =>
              ReadInto(d \o t, pos, depth) = ReadInto(d, pos, depth)
<1>1. CASE Len(d) = pos
  <2>1. ReadInto(d, pos, depth) = Incomplete
    BY <1>1 DEF ReadInto
  <2>. QED
    BY <2>1 DEF Outcome
<1>2. CASE Len(d) # pos
  <2>. DEFINE b == d[pos + 1]
              w == Format(b).width
              hdr == pos + 1 + w
              s == SubSeq(d, pos + 2, hdr)
              u == d \o t
              r == ReadInto(d, pos, depth)
  <2>1. Len(d) \in Nat /\ pos \in Nat /\ pos + 1 \in 1 .. Len(d)
    BY <1>2
  <2>2. u \in Seq(Byte) /\ Len(u) \in Nat /\ Len(u) >= Len(d) /\ u[pos + 1] = b
    <3>1. Len(u) = Len(d) + Len(t) /\ Len(t) \in Nat
      OBVIOUS
    <3>2. u \in Seq(Byte) /\ \A p \in 1 .. Len(d) : u[p] = d[p]
      BY ConcatFacts
    <3>. HIDE DEF u
    <3>. QED
      BY <2>1, <3>1, <3>2
  <2>3. b \in Byte /\ w \in Nat
    <3>1. b \in Byte
      BY <2>1
    <3>. HIDE DEF b
    <3>2. w \in {0, 1, 2, 4, 8}
      BY <3>1, FormatFacts
    <3>. QED
      BY <3>1, <3>2
  <2>4. Len(u) # pos
    BY <2>1, <2>2
  <2>. HIDE DEF b, w, u
  <2>5. CASE Len(d) < hdr
    <3>1. r = Incomplete
      BY <1>2, <2>5 DEF ReadInto, b, w
    <3>. QED
      BY <3>1 DEF Outcome
  <2>6. CASE ~ (Len(d) < hdr)
    <3>1. hdr \in Nat /\ pos + 1 <= hdr /\ hdr <= Len(d) /\ hdr \in 0 .. Len(d) /\ ~ (Len(u) < hdr)
          /\ pos + 2 = (pos + 1) + 1 /\ hdr - (pos + 1) = w /\ pos + 1 \in Nat
      BY <2>1, <2>2, <2>3, <2>6
    <3>2. r = Switch(d, hdr, b, s, depth)
      BY <1>2, <2>6 DEF ReadInto, b, w
    <3>3. ReadInto(u, pos, depth) = Switch(u, hdr, b, SubSeq(u, pos + 2, hdr), depth)
      <4>1. Format(u[pos + 1]).width = w
        BY <2>2 DEF w
      <4>. QED
        BY <2>2, <2>4, <3>1, <4>1 DEF ReadInto
    <3>. HIDE DEF hdr
    <3>4. SubSeq(u, pos + 2, hdr) = s
      BY <3>1, SubSeqMore DEF u
    <3>5. s \in Seq(Byte) /\ Len(s) = w
      BY <3>1, SubSeqFacts
    <3>. HIDE DEF s
    <3>6. Len(s) = Format(b).width
      BY <3>5 DEF w
    <3>7. /\ Outcome(Switch(d, hdr, b, s, depth), hdr, Len(d))
          /\ Switch(d, hdr, b, s, depth) # Incomplete =>
               Switch(u, hdr, b, s, depth) = Switch(d, hdr, b, s, depth)
      BY <2>3, <3>1, <3>5, <3>6, SwitchFacts DEF u
    <3>. HIDE DEF r
    <3>8. Outcome(r, hdr, Len(d)) => Outcome(r, pos + 1, Len(d))
      <4>1. \A p \in hdr .. Len(d) : p \in pos + 1 .. Len(d)
        BY <2>1, <3>1
      <4>. QED
        BY <4>1 DEF Outcome
    <3>. QED
      BY <3>2, <3>3, <3>4, <3>7, <3>8 DEF r, u
  <2>. QED
    BY <2>5, <2>6
<1>. QED
  BY <1>1, <1>2

LEMMA KeyFacts ==
  ASSUME NEW d \in Seq(Byte), NEW t \in Seq(Byte), NEW pos \in 0 .. Len(d)
  PROVE  /\ Outcome(ReadKey(d, pos), pos + 1, Len(d))
         /\ ReadKey(d, pos) # Incomplete => ReadKey(d \o t, pos) = ReadKey(d, pos)
<1>1. CASE Len(d) = pos
  <2>1. ReadKey(d, pos) = Incomplete
    BY <1>1 DEF ReadKey
  <2>. QED
    BY <2>1 DEF Outcome
<1>2. CASE Len(d) # pos
  <2>. DEFINE b == d[pos + 1]
              u == d \o t
  <2>1. Len(d) \in Nat /\ pos \in Nat /\ pos + 1 \in 1 .. Len(d)
    BY <1>2
  <2>2. Len(u) # pos /\ u[pos + 1] = b
    <3>1. Len(u) = Len(d) + Len(t) /\ Len(t) \in Nat
      OBVIOUS
    <3>2. \A p \in 1 .. Len(d) : u[p] = d[p]
      BY ConcatFacts
    <3>. HIDE DEF u
    <3>. QED
      BY <1>2, <2>1, <3>1, <3>2
  <2>. HIDE DEF b, u
  <2>3. CASE Format(b).kind # "string"
    <3>1. ReadKey(d, pos) = Malformed
      BY <1>2, <2>3 DEF ReadKey, b
    <3>2. ReadKey(u, pos) = Malformed
      BY <2>2, <2>3 DEF ReadKey
    <3>. QED
      BY <3>1, <3>2 DEF Outcome, u
  <2>4. CASE Format(b).kind = "string"
    <3>1. ReadKey(d, pos) = ReadInto(d, pos, 0)
      BY <1>2, <2>4 DEF ReadKey, b
    <3>2. ReadKey(u, pos) = ReadInto(u, pos, 0)
      BY <2>2, <2>4 DEF ReadKey
    <3>3. /\ Outcome(ReadInto(d, pos, 0), pos + 1, Len(d))
          /\ ReadInto(d, pos, 0) # Incomplete => ReadInto(u, pos, 0) = ReadInto(d, pos, 0)
      BY ReadFacts DEF u
    <3>. QED
      BY <3>1, <3>2, <3>3 DEF u
  <2>. QED
    BY <2>3, <2>4
<1>. QED
  BY <1>1, <1>2

LEMMA KeyNotOpen ==
  ASSUME NEW d \in Seq(Byte), NEW pos \in 0 .. Len(d)
  PROVE  ReadKey(d, pos).st # "open"
<1>0. "ok" # "open" /\ "incomplete" # "open" /\ "error" # "open"
  OBVIOUS
<1>1. ReadKey(d, pos) \in {Incomplete, Malformed} \/ \E o, p : ReadKey(d, pos) = Complete(o, p)
  <2>. DEFINE b == d[pos + 1]  hdr == pos + 1 + Format(b).width  s == SubSeq(d, pos + 2, hdr)
  <2>1. CASE Len(d) = pos
    BY <2>1 DEF ReadKey
  <2>2. CASE Len(d) # pos /\ Format(b).kind # "string"
    BY <2>2 DEF ReadKey
  <2>3. CASE Len(d) # pos /\ Format(b).kind = "string"
    <3>1. ReadKey(d, pos) = ReadInto(d, pos, 0)
      BY <2>3 DEF ReadKey
    <3>2. ReadInto(d, pos, 0) = IF Len(d) < hdr THEN Incomplete ELSE Switch(d, hdr, b, s, 0)
      BY <2>3 DEF ReadInto
    <3>3. Switch(d, hdr, b, s, 0) = TakeStr(d, hdr, Count(b, s))
      BY <2>3, SwitchText
    <3>. HIDE DEF hdr, b, s
    <3>4. \A n : TakeStr(d, hdr, n) = Incomplete \/ \E o, p : TakeStr(d, hdr, n) = Complete(o, p)
      BY DEF TakeStr
    <3>5. TakeStr(d, hdr, Count(b, s)) = Incomplete
          \/ \E o, p : TakeStr(d, hdr, Count(b, s)) = Complete(o, p)
      BY <3>4
    <3>. QED
      BY <3>1, <3>2, <3>3, <3>5
  <2>. QED
    BY <2>1, <2>2, <2>3
<1>2. CASE ReadKey(d, pos) \in {Incomplete, Malformed}
  <2>1. Incomplete.st = "incomplete" /\ Malformed.st = "error"
    BY VerdictFields
  <2>. QED
    BY <1>0, <1>2, <2>1
<1>3. ASSUME NEW o, NEW p, ReadKey(d, pos) = Complete(o, p) PROVE ReadKey(d, pos).st # "open"
  <2>1. Complete(o, p).st = "ok"
    BY VerdictFields
  <2>. QED
    BY <1>0, <1>3, <2>1
<1>. QED
  BY <1>1, <1>2, <1>3

LEMMA WalkFields ==
  ASSUME NEW s, NEW p
  PROVE  Walking(s, p).st = "walk" /\ Walking(s, p).stack = s /\ Walking(s, p).pos = p
BY DEF Walking

LEMMA Statuses ==
  /\ "walk" # "ok" /\ "walk" # "incomplete" /\ "walk" # "error" /\ "walk" # "open"
  /\ "ok" # "open" /\ "ok" # "incomplete" /\ "ok" # "error"
  /\ "open" # "incomplete" /\ "open" # "error" /\ "incomplete" # "error"
OBVIOUS

LEMMA FillOpen ==
  ASSUME NEW s, NEW r, r.st = "open"
  PROVE  Fill(s, r) = Walking(Append(s, Frame(r)), r.pos)
BY DEF Fill

LEMMA FillSlot ==
  ASSUME NEW s, NEW r, r.st = "ok", s # <<>>
  PROVE  Fill(s, r) = Walking(Append(Front(s), Filled(Last(s), r.obj)), r.pos)
BY DEF Fill

LEMMA FillLast ==
  ASSUME NEW s, NEW r, r.st # "open", ~ (r.st = "ok" /\ s # <<>>)
  PROVE  Fill(s, r) = r
BY DEF Fill

LEMMA IterateVerdict == ASSUME NEW d, NEW w, w.st # "walk" PROVE Iterate(d, w) = w
BY DEF Iterate

LEMMA IterateFull ==
  ASSUME NEW d, NEW w, w.st = "walk", Len(Last(w.stack).items) = Last(w.stack).n
  PROVE  Iterate(d, w) = Fill(Front(w.stack), Complete(Container(Last(w.stack)), w.pos))
BY DEF Iterate

AwaitsKey(f) == f.is_map /\ f.key = <<>>
WithKey(f, key) == [f EXCEPT !.key = <<key>>]

LEMMA IterateKey ==
  ASSUME NEW d, NEW w, w.st = "walk", Len(Last(w.stack).items) # Last(w.stack).n,
         AwaitsKey(Last(w.stack))
  PROVE  Iterate(d, w) = LET key == ReadKey(d, w.pos) IN
           IF key.st # "ok" THEN key
           ELSE Walking(Append(Front(w.stack), WithKey(Last(w.stack), key.obj.string)), key.pos)
BY DEF Iterate, AwaitsKey, WithKey

LEMMA IterateValue ==
  ASSUME NEW d, NEW w, w.st = "walk", Len(Last(w.stack).items) # Last(w.stack).n,
         ~ AwaitsKey(Last(w.stack))
  PROVE  Iterate(d, w) = Fill(w.stack, ReadInto(d, w.pos, Len(w.stack)))
BY DEF Iterate, AwaitsKey

(* The loop's invariant after k iterations: what it consumed and the frames *)
(* it took back are as many.                                               *)
Walks(d, w, k) ==
  /\ w.st = "walk" /\ IsSeq(w.stack) /\ w.stack # <<>> /\ w.pos \in 1 .. Len(d)
  /\ 2 * w.pos - Len(w.stack) >= k + 1
Ended(d, w) == w = Incomplete \/ w = Malformed \/ (w.st = "ok" /\ w.pos \in 1 .. Len(d))

LEMMA WalkingOn ==
  ASSUME NEW d \in Seq(Byte), NEW s, IsSeq(s), s # <<>>, NEW p \in 1 .. Len(d), NEW k,
         2 * p - Len(s) >= k + 1
  PROVE  Walks(d, Walking(s, p), k)
BY WalkFields DEF Walks

LEMMA NoOutcomeWalks ==
  ASSUME NEW d, NEW r, NEW lo \in Nat, lo >= 1, Outcome(r, lo, Len(d)), r.st # "open", Len(d) \in Nat
  PROVE  Ended(d, r)
<1>1. \A p \in lo .. Len(d) : p \in 1 .. Len(d)
  OBVIOUS
<1>. QED
  BY <1>1 DEF Outcome, Ended

(* What is read at p goes into the frames s. *)
LEMMA FillFacts ==
  ASSUME NEW d \in Seq(Byte), NEW s, IsSeq(s), NEW p \in Nat, NEW r, Outcome(r, p + 1, Len(d)),
         NEW k \in Nat, 2 * p - Len(s) >= k
  PROVE  Walks(d, Fill(s, r), k) \/ Ended(d, Fill(s, r))
<1>0. Len(d) \in Nat /\ Len(s) \in Nat /\ p + 1 \in Nat /\ p + 1 >= 1
  BY SeqGrows
<1>1. CASE r.st = "open"
  <2>. DEFINE a == Append(s, Frame(r))  q == r.pos
  <2>1. IsSeq(a) /\ a # <<>> /\ Len(a) = Len(s) + 1
    BY SeqGrows
  <2>2. q \in p + 1 .. Len(d)
    BY <1>1, Statuses, VerdictFields DEF Outcome
  <2>3. Fill(s, r) = Walking(a, q)
    BY <1>1, FillOpen
  <2>. HIDE DEF a, q
  <2>4. q \in 1 .. Len(d) /\ 2 * q - Len(a) >= k + 1
    BY <1>0, <2>1, <2>2
  <2>. QED
    BY <2>1, <2>3, <2>4, WalkingOn
<1>2. CASE r.st = "ok" /\ s # <<>>
  <2>. DEFINE a == Append(Front(s), Filled(Last(s), r.obj))  q == r.pos
  <2>0. IsSeq(Front(s)) /\ Len(Front(s)) = Len(s) - 1
    BY <1>2, SeqShrinks
  <2>1. IsSeq(a) /\ a # <<>> /\ Len(a) = Len(Front(s)) + 1
    BY <2>0, SeqGrows
  <2>2. q \in p + 1 .. Len(d)
    BY <1>2, Statuses, VerdictFields DEF Outcome
  <2>3. Fill(s, r) = Walking(a, q)
    BY <1>2, FillSlot
  <2>. HIDE DEF a, q
  <2>4. q \in 1 .. Len(d) /\ 2 * q - Len(a) >= k + 1
    BY <1>0, <2>0, <2>1, <2>2
  <2>. QED
    BY <2>1, <2>3, <2>4, WalkingOn
<1>3. CASE r.st # "open" /\ ~ (r.st = "ok" /\ s # <<>>)
  <2>1. Fill(s, r) = r
    BY <1>3, FillLast
  <2>2. Ended(d, r)
    BY <1>0, <1>3, NoOutcomeWalks
  <2>. QED
    BY <2>1, <2>2
<1>. QED
  BY <1>1, <1>2, <1>3

LEMMA WalkStarts ==
  ASSUME NEW d \in Seq(Byte)
  PROVE  Walks(d, Walk(d)[0], 0) \/ Ended(d, Walk(d)[0])
<1>1. Outcome(ReadInto(d, 0, 0), 0 + 1, Len(d))
  <2>1. 0 \in 0 .. Len(d)
    OBVIOUS
  <2>2. d \in Seq(Byte)
    OBVIOUS
  <2>. QED
    BY <2>1, <2>2, ReadFacts
<1>2. IsSeq(<<>>) /\ 2 * 0 - Len(<<>>) >= 0
  <2>1. Len(<<>>) = 0
    OBVIOUS
  <2>. QED
    BY <2>1, NothingIsSeq
<1>3. Walk(d)[0] = Fill(<<>>, ReadInto(d, 0, 0))
  BY WalkStep
<1>. QED
  BY <1>1, <1>2, <1>3, FillFacts

LEMMA IterateFacts ==
  ASSUME NEW d \in Seq(Byte), NEW w, NEW k \in Nat, Walks(d, w, k)
  PROVE  Walks(d, Iterate(d, w), k + 1) \/ Ended(d, Iterate(d, w))
<1>. DEFINE s == w.stack  p == w.pos  f == Last(w.stack)
<1>1. /\ w.st = "walk" /\ IsSeq(s) /\ s # <<>> /\ p \in 1 .. Len(d) /\ 2 * p - Len(s) >= k + 1
      /\ p \in Nat /\ p \in 0 .. Len(d) /\ k + 1 \in Nat /\ Len(d) \in Nat
  BY DEF Walks
<1>2. IsSeq(Front(s)) /\ Len(Front(s)) = Len(s) - 1 /\ Len(s) \in Nat
  BY <1>1, SeqShrinks
<1>3. CASE Len(f.items) = f.n
  <2>. DEFINE o == Container(f)  r == Complete(o, p)
  <2>1. Iterate(d, w) = Fill(Front(s), r)
    BY <1>1, <1>3, IterateFull
  <2>2. r.st = "ok" /\ r.obj = o /\ r.pos = p
    BY VerdictFields
  <2>3. CASE Front(s) # <<>>
    <3>. DEFINE b == Front(s)  a == Append(Front(b), Filled(Last(b), o))
    <3>1. Iterate(d, w) = Walking(a, p)
      BY <2>1, <2>2, <2>3, FillSlot
    <3>2. IsSeq(Front(b)) /\ Len(Front(b)) = Len(b) - 1
      BY <1>2, <2>3, SeqShrinks
    <3>3. IsSeq(a) /\ a # <<>> /\ Len(a) = Len(Front(b)) + 1
      BY <3>2, SeqGrows
    <3>. HIDE DEF a
    <3>4. Len(a) = Len(s) - 1
      BY <1>2, <3>2, <3>3
    <3>. HIDE DEF s, p, b
    <3>5. 2 * p - Len(a) >= (k + 1) + 1
      BY <1>1, <1>2, <3>4
    <3>. QED
      BY <1>1, <3>1, <3>3, <3>5, WalkingOn
  <2>4. CASE Front(s) = <<>>
    <3>1. r.st # "open"
      BY <2>2, Statuses
    <3>2. Iterate(d, w) = r
      BY <2>1, <2>4, <3>1, FillLast
    <3>. QED
      BY <1>1, <2>2, <3>2 DEF Ended
  <2>. QED
    BY <2>3, <2>4
<1>4. CASE Len(f.items) # f.n /\ AwaitsKey(f)
  <2>. DEFINE key == ReadKey(d, p)
              a == Append(Front(s), WithKey(f, key.obj.string))
  <2>1. Iterate(d, w) = IF key.st # "ok" THEN key ELSE Walking(a, key.pos)
    BY <1>1, <1>4, IterateKey
  <2>2. Outcome(key, p + 1, Len(d)) /\ key.st # "open"
    BY <1>1, KeyFacts, KeyNotOpen
  <2>3. IsSeq(a) /\ a # <<>> /\ Len(a) = Len(Front(s)) + 1
    BY <1>2, SeqGrows
  <2>. HIDE DEF key, a
  <2>4. CASE key.st # "ok"
    <3>1. p + 1 \in Nat /\ p + 1 >= 1
      BY <1>1
    <3>. QED
      BY <1>1, <2>1, <2>2, <2>4, <3>1, NoOutcomeWalks
  <2>5. CASE key.st = "ok"
    <3>1. key.pos \in p + 1 .. Len(d)
      BY <2>2, <2>5, Statuses, VerdictFields DEF Outcome
    <3>. DEFINE q == key.pos
    <3>2. q \in p + 1 .. Len(d) /\ Iterate(d, w) = Walking(a, q)
      BY <2>1, <2>5, <3>1
    <3>. HIDE DEF q, s, p
    <3>3. q \in 1 .. Len(d) /\ 2 * q - Len(a) >= (k + 1) + 1
      BY <1>1, <1>2, <2>3, <3>2
    <3>. QED
      BY <2>3, <3>2, <3>3, WalkingOn
  <2>. QED
    BY <2>4, <2>5
<1>5. CASE Len(f.items) # f.n /\ ~ AwaitsKey(f)
  <2>1. Iterate(d, w) = Fill(s, ReadInto(d, p, Len(s)))
    BY <1>1, <1>5, IterateValue
  <2>2. Outcome(ReadInto(d, p, Len(s)), p + 1, Len(d))
    BY <1>1, ReadFacts
  <2>. QED
    BY <1>1, <2>1, <2>2, FillFacts
<1>. QED
  BY <1>3, <1>4, <1>5

LEMMA IterateMore ==
  ASSUME NEW d \in Seq(Byte), NEW t \in Seq(Byte), NEW w, NEW k, Walks(d, w, k) \/ w.st # "walk",
         Iterate(d, w) # Incomplete
  PROVE  Iterate(d \o t, w) = Iterate(d, w)
<1>. DEFINE s == w.stack  p == w.pos  f == Last(w.stack)
<1>1. CASE w.st # "walk"
  BY <1>1, IterateVerdict
<1>2. CASE Walks(d, w, k)
  <2>1. w.st = "walk" /\ IsSeq(s) /\ p \in 0 .. Len(d)
    BY <1>2 DEF Walks
  <2>2. CASE Len(f.items) = f.n
    BY <2>1, <2>2, IterateFull
  <2>3. CASE Len(f.items) # f.n /\ AwaitsKey(f)
    <3>. DEFINE key == ReadKey(d, p)
                more == ReadKey(d \o t, p)
    <3>1. Iterate(d, w) = IF key.st # "ok" THEN key
                          ELSE Walking(Append(Front(s), WithKey(f, key.obj.string)), key.pos)
      BY <2>1, <2>3, IterateKey
    <3>2. Iterate(d \o t, w) = IF more.st # "ok" THEN more
                               ELSE Walking(Append(Front(s), WithKey(f, more.obj.string)), more.pos)
      BY <2>1, <2>3, IterateKey
    <3>3. key # Incomplete => more = key
      BY <2>1, KeyFacts
    <3>4. key # Incomplete
      BY <3>1, VerdictFields, Statuses
    <3>. QED
      BY <3>1, <3>2, <3>3, <3>4
  <2>4. CASE Len(f.items) # f.n /\ ~ AwaitsKey(f)
    <3>. DEFINE r == ReadInto(d, p, Len(s))
    <3>1. Iterate(d, w) = Fill(s, r) /\ Iterate(d \o t, w) = Fill(s, ReadInto(d \o t, p, Len(s)))
      BY <2>1, <2>4, IterateValue
    <3>2. r # Incomplete => ReadInto(d \o t, p, Len(s)) = r
      BY <2>1, ReadFacts
    <3>3. r # Incomplete
      <4>1. Fill(s, Incomplete) = Incomplete
        BY FillLast, VerdictFields, Statuses
      <4>. QED
        BY <3>1, <4>1
    <3>. QED
      BY <3>1, <3>2, <3>3
  <2>. QED
    BY <2>2, <2>3, <2>4
<1>. QED
  BY <1>1, <1>2

LEMMA EndedStays == ASSUME NEW d, NEW w, Ended(d, w) PROVE w.st # "walk" /\ Iterate(d, w) = w
<1>1. w.st # "walk"
  BY VerdictFields, Statuses DEF Ended
<1>. QED
  BY <1>1, IterateVerdict

LEMMA WalkInvariant ==
  ASSUME NEW d \in Seq(Byte)
  PROVE  \A k \in Nat : Walks(d, Walk(d)[k], k) \/ Ended(d, Walk(d)[k])
<1>. DEFINE w == Walk(d)
            S == {k \in Nat : Walks(d, w[k], k) \/ Ended(d, w[k])}
<1>1. 0 \in S
  BY WalkStarts
<1>2. ASSUME NEW k \in Nat, k \in S PROVE k + 1 \in S
  <2>1. w[k + 1] = Iterate(d, w[k]) /\ k + 1 \in Nat
    BY WalkStep
  <2>2. CASE Walks(d, w[k], k)
    <3>1. Walks(d, Iterate(d, w[k]), k + 1) \/ Ended(d, Iterate(d, w[k]))
      BY <2>2, IterateFacts
    <3>. QED
      BY <2>1, <3>1
  <2>3. CASE Ended(d, w[k])
    <3>1. Iterate(d, w[k]) = w[k]
      BY <2>3, EndedStays
    <3>. QED
      BY <2>1, <2>3, <3>1
  <2>. HIDE DEF w
  <2>. QED
    BY <1>2, <2>2, <2>3
<1>. HIDE DEF S
<1>3. \A k \in Nat : k \in S
  BY <1>1, <1>2, SetInduction
<1>. QED
  BY <1>3 DEF S

LEMMA WalkStays ==
  ASSUME NEW d, NEW k \in Nat, Walk(d)[k].st # "walk"
  PROVE  \A j \in Nat : Walk(d)[k + j] = Walk(d)[k]
<1>. DEFINE w == Walk(d)
            S == {j \in Nat : w[k + j] = w[k]}
<1>1. 0 \in S
  OBVIOUS
<1>2. ASSUME NEW j \in Nat, j \in S PROVE j + 1 \in S
  <2>1. w[(k + j) + 1] = Iterate(d, w[k + j])
    <3>1. k + j \in Nat
      OBVIOUS
    <3>. QED
      BY <3>1, WalkStep
  <2>2. Iterate(d, w[k]) = w[k]
    BY IterateVerdict
  <2>3. w[k + j] = w[k] /\ k + (j + 1) = (k + j) + 1 /\ j + 1 \in Nat
    BY <1>2
  <2>. HIDE DEF w
  <2>4. w[k + (j + 1)] = w[k]
    BY <2>1, <2>2, <2>3
  <2>. QED
    BY <2>3, <2>4
<1>. HIDE DEF S
<1>3. \A j \in Nat : j \in S
  BY <1>1, <1>2, SetInduction
<1>. QED
  BY <1>3 DEF S

(* The loop ends: an iteration consumes a byte, or takes back a frame.     *)
LEMMA WalkEnds ==
  ASSUME NEW d \in Seq(Byte)
  PROVE  Ended(d, Walk(d)[2 * Len(d)]) /\ 2 * Len(d) \in 0 .. 2 * Len(d) /\ 2 * Len(d) \in Nat
<1>. DEFINE n == Len(d)
            k == 2 * n
            w == Walk(d)[k]
<1>1. n \in Nat /\ k \in Nat /\ k \in 0 .. k
  OBVIOUS
<1>2. Walks(d, w, k) \/ Ended(d, w)
  BY <1>1, WalkInvariant
<1>3. ~ Walks(d, w, k)
  <2>. SUFFICES ASSUME Walks(d, w, k) PROVE FALSE
    OBVIOUS
  <2>. DEFINE p == w.pos  m == Len(w.stack)
  <2>1. IsSeq(w.stack) /\ p \in 1 .. n /\ 2 * p - m >= k + 1
    BY DEF Walks
  <2>2. m \in Nat
    BY <2>1, SeqGrows
  <2>. HIDE DEF p, m, w
  <2>. QED
    BY <1>1, <2>1, <2>2
<1>. QED
  BY <1>1, <1>2, <1>3

LEMMA VerdictIs ==
  ASSUME NEW d \in Seq(Byte), NEW k \in Nat, Walk(d)[k].st # "walk"
  PROVE  MsgpackToObject(d) = Walk(d)[k]
<1>. DEFINE w == Walk(d)
            P(i) == w[i].st # "walk"
            c == CHOOSE i \in 0 .. 2 * Len(d) : P(i)
<1>1. \E i \in 0 .. 2 * Len(d) : P(i)
  BY WalkEnds, EndedStays
<1>2. c \in 0 .. 2 * Len(d) /\ P(c)
  BY <1>1
<1>3. MsgpackToObject(d) = w[c]
  BY DEF MsgpackToObject
<1>4. c \in Nat
  BY <1>2
<1>. HIDE DEF c
<1>5. CASE k <= c
  <2>1. c - k \in Nat /\ k + (c - k) = c
    BY <1>4, <1>5
  <2>2. w[k + (c - k)] = w[k]
    BY <2>1, WalkStays
  <2>. QED
    BY <1>3, <2>1, <2>2
<1>6. CASE c <= k
  <2>1. k - c \in Nat /\ c + (k - c) = k
    BY <1>4, <1>6
  <2>2. w[c + (k - c)] = w[c]
    BY <1>2, <1>4, <2>1, WalkStays
  <2>. QED
    BY <1>3, <2>1, <2>2
<1>. QED
  BY <1>4, <1>5, <1>6

LEMMA VerdictEnded ==
  ASSUME NEW d \in Seq(Byte) PROVE Ended(d, MsgpackToObject(d))
<1>1. Ended(d, Walk(d)[2 * Len(d)]) /\ 2 * Len(d) \in Nat
  BY WalkEnds
<1>2. MsgpackToObject(d) = Walk(d)[2 * Len(d)]
  BY <1>1, EndedStays, VerdictIs
<1>. QED
  BY <1>1, <1>2

LEMMA WalkMore ==
  ASSUME NEW d \in Seq(Byte), NEW t \in Seq(Byte)
  PROVE  \A k \in Nat : Walk(d)[k] # Incomplete => Walk(d \o t)[k] = Walk(d)[k]
<1>. DEFINE w == Walk(d)
            u == Walk(d \o t)
            S == {k \in Nat : w[k] # Incomplete => u[k] = w[k]}
<1>1. 0 \in S
  <2>1. w[0] = Fill(<<>>, ReadInto(d, 0, 0)) /\ u[0] = Fill(<<>>, ReadInto(d \o t, 0, 0))
    BY WalkStep
  <2>2. ReadInto(d, 0, 0) # Incomplete => ReadInto(d \o t, 0, 0) = ReadInto(d, 0, 0)
    <3>1. 0 \in 0 .. Len(d)
      OBVIOUS
    <3>. QED
      BY <3>1, ReadFacts
  <2>3. Fill(<<>>, Incomplete) = Incomplete
    BY FillLast, VerdictFields, Statuses
  <2>4. w[0] # Incomplete => u[0] = w[0]
    <3>. HIDE DEF w, u
    <3>. QED
      BY <2>1, <2>2, <2>3
  <2>. QED
    BY <2>4
<1>2. ASSUME NEW k \in Nat, k \in S PROVE k + 1 \in S
  <2>. SUFFICES ASSUME w[k + 1] # Incomplete PROVE u[k + 1] = w[k + 1]
    OBVIOUS
  <2>1. w[k + 1] = Iterate(d, w[k]) /\ u[k + 1] = Iterate(d \o t, u[k])
    BY WalkStep
  <2>2. Walks(d, w[k], k) \/ Ended(d, w[k])
    BY WalkInvariant
  <2>3. w[k] # Incomplete
    <3>1. Iterate(d, Incomplete) = Incomplete
      BY IterateVerdict, VerdictFields, Statuses
    <3>. QED
      BY <2>1, <3>1
  <2>4. u[k] = w[k]
    BY <1>2, <2>3
  <2>5. Iterate(d \o t, w[k]) = Iterate(d, w[k])
    <3>1. Walks(d, w[k], k) \/ w[k].st # "walk"
      BY <2>2, EndedStays
    <3>2. Iterate(d, w[k]) # Incomplete
      BY <2>1
    <3>. HIDE DEF w
    <3>. QED
      BY <3>1, <3>2, IterateMore
  <2>. HIDE DEF w, u
  <2>. QED
    BY <2>1, <2>4, <2>5
<1>. HIDE DEF S
<1>3. \A k \in Nat : k \in S
  BY <1>1, <1>2, SetInduction
<1>. QED
  BY <1>3 DEF S

(* A verdict other than incomplete is the verdict on all bytes that begin  *)
(* with these.                                                             *)
THEOREM VerdictStands ==
  ASSUME NEW d \in Seq(Byte), NEW t \in Seq(Byte), MsgpackToObject(d) # Incomplete
  PROVE  MsgpackToObject(d \o t) = MsgpackToObject(d)
<1>. DEFINE k == 2 * Len(d)
<1>1. Ended(d, Walk(d)[k]) /\ k \in Nat
  BY WalkEnds
<1>2. Walk(d)[k].st # "walk"
  BY <1>1, EndedStays
<1>. HIDE DEF k
<1>3. MsgpackToObject(d) = Walk(d)[k]
  BY <1>1, <1>2, VerdictIs
<1>4. Walk(d \o t)[k] = Walk(d)[k]
  BY <1>1, <1>3, WalkMore
<1>5. d \o t \in Seq(Byte)
  OBVIOUS
<1>. QED
  BY <1>1, <1>2, <1>3, <1>4, <1>5, VerdictIs

---------------------------------------------------------------------------
(* What the encoder emits, the decoder reads back. *)

(* The bytes a are in d behind its first p. *)
At(d, p, a) == p + Len(a) <= Len(d) /\ \A i \in 1 .. Len(a) : d[p + i] = a[i]

LEMMA AtParts ==
  ASSUME NEW d \in Seq(Byte), NEW p \in Nat, NEW a \in Seq(Byte), NEW b \in Seq(Byte), At(d, p, a \o b)
  PROVE  At(d, p, a) /\ At(d, p + Len(a), b)
<1>. DEFINE u == a \o b
<1>1. /\ Len(u) = Len(a) + Len(b) /\ Len(a) \in Nat /\ Len(b) \in Nat /\ Len(d) \in Nat
      /\ \A i \in 1 .. Len(a) : u[i] = a[i]
      /\ \A i \in 1 .. Len(b) : u[Len(a) + i] = b[i]
  BY ConcatFacts
<1>2. p + Len(u) <= Len(d) /\ \A i \in 1 .. Len(u) : d[p + i] = u[i]
  BY DEF At
<1>. HIDE DEF u
<1>3. At(d, p, a)
  <2>1. \A i \in 1 .. Len(a) : i \in 1 .. Len(u)
    BY <1>1
  <2>. QED
    BY <1>1, <1>2, <2>1 DEF At
<1>4. At(d, p + Len(a), b)
  <2>1. ASSUME NEW i \in 1 .. Len(b) PROVE d[(p + Len(a)) + i] = b[i]
    <3>1. Len(a) + i \in 1 .. Len(u) /\ p + (Len(a) + i) = (p + Len(a)) + i
      BY <1>1
    <3>. QED
      BY <1>1, <1>2, <3>1
  <2>2. (p + Len(a)) + Len(b) <= Len(d)
    BY <1>1, <1>2
  <2>. QED
    BY <2>1, <2>2 DEF At
<1>. QED
  BY <1>3, <1>4

LEMMA AtSubSeq ==
  ASSUME NEW d \in Seq(Byte), NEW p \in Nat, NEW a \in Seq(Byte), At(d, p, a)
  PROVE  SubSeq(d, p + 1, p + Len(a)) = a
<1>. DEFINE n == p + Len(a)  s == SubSeq(d, p + 1, n)
<1>1. Len(a) \in Nat /\ p + Len(a) <= Len(d) /\ \A i \in 1 .. Len(a) : d[p + i] = a[i]
  BY DEF At
<1>2. n \in Nat /\ p <= n /\ n <= Len(d) /\ n - p = Len(a)
  BY <1>1
<1>. HIDE DEF n
<1>3. s \in Seq(Byte) /\ Len(s) = n - p /\ \A i \in 1 .. n - p : s[i] = d[p + i]
  BY <1>2, SubSeqFacts
<1>. HIDE DEF s
<1>4. s = a
  BY <1>1, <1>2, <1>3
<1>. QED
  BY <1>4 DEF s, n

LEMMA OneByte ==
  ASSUME NEW b \in Byte, NEW s \in Seq(Byte)
  PROVE  /\ <<b>> \o s \in Seq(Byte) /\ Len(<<b>> \o s) = 1 + Len(s) /\ (<<b>> \o s)[1] = b
         /\ <<b>> \in Seq(Byte) /\ Len(<<b>>) = 1 /\ Len(s) \in Nat
<1>1. <<b>> \in Seq(Byte) /\ Len(<<b>>) = 1 /\ <<b>>[1] = b /\ Len(s) \in Nat
  OBVIOUS
<1>. DEFINE a == <<b>>
<1>2. a \in Seq(Byte) /\ Len(a) = 1 /\ a[1] = b
  BY <1>1
<1>. HIDE DEF a
<1>3. a \o s \in Seq(Byte) /\ Len(a \o s) = 1 + Len(s) /\ \A p \in 1 .. Len(a) : (a \o s)[p] = a[p]
  <2>1. a \in Seq(Byte) /\ s \in Seq(Byte)
    BY <1>2
  <2>2. a \o s \in Seq(Byte) /\ Len(a \o s) = Len(a) + Len(s) /\ \A p \in 1 .. Len(a) : (a \o s)[p] = a[p]
    BY <2>1, ConcatFacts
  <2>. QED
    BY <1>2, <2>2
<1>4. (a \o s)[1] = b
  <2>1. 1 \in 1 .. Len(a)
    BY <1>2
  <2>. QED
    BY <1>2, <1>3, <2>1
<1>. QED
  BY <1>1, <1>3, <1>4 DEF a

LEMMA ReadHeader ==
  ASSUME NEW d \in Seq(Byte), NEW p \in Nat, NEW b \in Byte, NEW s \in Seq(Byte),
         Format(b).width = Len(s), At(d, p, <<b>> \o s), NEW depth
  PROVE  /\ ReadInto(d, p, depth) = Switch(d, p + (1 + Len(s)), b, s, depth)
         /\ d[p + 1] = b /\ Len(d) # p
<1>. DEFINE n == Len(s)  u == <<b>> \o s
<1>1. n \in Nat /\ Len(u) = 1 + n /\ u[1] = b /\ <<b>> \in Seq(Byte) /\ Len(<<b>>) = 1
  BY OneByte
<1>2. p + Len(u) <= Len(d) /\ \A i \in 1 .. Len(u) : d[p + i] = u[i]
  BY DEF At
<1>3. SubSeq(d, (p + 1) + 1, (p + 1) + Len(s)) = s
  <2>1. p + 1 \in Nat
    OBVIOUS
  <2>2. At(d, p + Len(<<b>>), s)
    BY <1>1, AtParts
  <2>. QED
    BY <1>1, <2>1, <2>2, AtSubSeq
<1>. HIDE DEF u
<1>4. 1 \in 1 .. Len(u) /\ Len(d) \in Nat
  BY <1>1
<1>5. d[p + 1] = b
  BY <1>1, <1>2, <1>4
<1>6. Len(d) # p /\ ~ (Len(d) < p + 1 + n) /\ p + 1 + n = p + (1 + n) /\ p + 1 + n = (p + 1) + n
      /\ (p + 1) + 1 = p + 2
  <2>. HIDE DEF n
  <2>. QED
    BY <1>1, <1>2, <1>4
<1>7. Format(d[p + 1]).width = n
  BY <1>5
<1>8. ReadInto(d, p, depth) = Switch(d, p + 1 + n, b, SubSeq(d, p + 2, p + 1 + n), depth)
  <2>. HIDE DEF n
  <2>. QED
    BY <1>5, <1>6, <1>7 DEF ReadInto
<1>. QED
  BY <1>3, <1>5, <1>6, <1>8

(* Lengths. *)
LEMMA PutBe2Facts ==
  ASSUME NEW v \in Nat, v < Two16
  PROVE  /\ PutBe2(v) \in Seq(Byte) /\ Len(PutBe2(v)) = 2 /\ 256 * PutBe2(v)[1] + PutBe2(v)[2] = v
         /\ PutBe2(v) = <<v \div 256, v % 256>>
<1>. DEFINE x == v \div 256  y == v % 256
<1>1. x \in Nat /\ y \in Nat /\ x <= 255 /\ y <= 255 /\ 256 * x + y = v
  BY SMT DEF Two16
<1>. HIDE DEF x, y
<1>2. x \in Byte /\ y \in Byte
  BY <1>1 DEF Byte
<1>3. PutBe2(v) = <<x, y>>
  BY DEF PutBe2, x, y
<1>4. <<x, y>> \in Seq(Byte) /\ Len(<<x, y>>) = 2 /\ <<x, y>>[1] = x /\ <<x, y>>[2] = y
  BY <1>2
<1>. QED
  BY <1>1, <1>3, <1>4 DEF x, y

LEMMA Bytes2 ==
  ASSUME NEW v \in Nat, v < Two16
  PROVE  PutBe(v, 2) \in Seq(Byte) /\ Len(PutBe(v, 2)) = 2 /\ Be(PutBe(v, 2)) = v
<1>. DEFINE s == PutBe2(v)
<1>1. PutBe(v, 2) = s
  BY DEF PutBe
<1>2. s \in Seq(Byte) /\ Len(s) = 2 /\ 256 * s[1] + s[2] = v
  BY PutBe2Facts
<1>. HIDE DEF s
<1>3. Be(s) = 256 * s[1] + s[2]
  BY <1>2, BeIs
<1>. QED
  BY <1>1, <1>2, <1>3

LEMMA Bytes4 ==
  ASSUME NEW v \in Nat, v < Limit
  PROVE  PutBe(v, 4) \in Seq(Byte) /\ Len(PutBe(v, 4)) = 4 /\ Be(PutBe(v, 4)) = v
<1>. DEFINE x == v \div Two16  y == v % Two16
            a == PutBe2(x)  b == PutBe2(y)  s == a \o b
<1>1. x \in Nat /\ y \in Nat /\ x < 16384 /\ y < Two16 /\ Two16 * x + y = v /\ x < Two16
  BY SMT DEF Two16, Limit
<1>2. PutBe(v, 4) = s
  BY DEF PutBe
<1>3. x \div 256 < 64
  <2>. HIDE DEF x
  <2>. QED
    BY <1>1, SMT
<1>. HIDE DEF x, y
<1>4. /\ a \in Seq(Byte) /\ Len(a) = 2 /\ 256 * a[1] + a[2] = x
      /\ a = <<x \div 256, x % 256>>
  BY <1>1, PutBe2Facts
<1>5. b \in Seq(Byte) /\ Len(b) = 2 /\ 256 * b[1] + b[2] = y
  BY <1>1, PutBe2Facts
<1>6. a[1] < 64
  BY <1>3, <1>4
<1>. HIDE DEF a, b
<1>7. /\ s \in Seq(Byte) /\ Len(s) = Len(a) + Len(b)
      /\ \A p \in 1 .. Len(a) : s[p] = a[p]
      /\ \A p \in 1 .. Len(b) : s[Len(a) + p] = b[p]
  BY <1>4, <1>5, ConcatFacts
<1>. HIDE DEF s
<1>8. Len(s) = 4 /\ s[1] = a[1] /\ s[2] = a[2] /\ s[3] = b[1] /\ s[4] = b[2]
  <2>1. 1 \in 1 .. 2 /\ 2 \in 1 .. 2 /\ 2 + 2 = 4 /\ 2 + 1 = 3
    OBVIOUS
  <2>. QED
    BY <1>4, <1>5, <1>7, <2>1
<1>9. ~ (s[1] >= 64)
  <2>1. s[1] \in Nat
    <3>1. 1 \in 1 .. Len(s)
      BY <1>8
    <3>. QED
      BY <1>7, <3>1, ByteNat
  <2>. QED
    BY <1>6, <1>8, <2>1
<1>10. Be(s) = Two16 * (256 * s[1] + s[2]) + (256 * s[3] + s[4])
  BY <1>8, <1>9, BeIs
<1>11. Be(s) = Two16 * x + y
  BY <1>4, <1>5, <1>8, <1>10
<1>. QED
  BY <1>1, <1>2, <1>7, <1>8, <1>11

(* A header that announces n. *)
Announces(h, kind, n) == \E b \in Byte, s \in Seq(Byte) :
  h = <<b>> \o s /\ Format(b).kind = kind /\ Format(b).width = Len(s) /\ Count(b, s) = n

LEMMA AnnouncesBy ==
  ASSUME NEW b \in Byte, NEW s \in Seq(Byte), NEW kind, NEW n,
         Format(b) = Kind(kind, Len(s)), Count(b, s) = n
  PROVE  Announces(<<b>> \o s, kind, n)
BY KindFields DEF Announces

LEMMA AloneByte == ASSUME NEW b \in Byte PROVE <<b>> = <<b>> \o <<>> /\ <<>> \in Seq(Byte) /\ Len(<<>>) = 0
OBVIOUS

LEMMA WideCount ==
  ASSUME NEW b \in Byte, NEW s \in Seq(Byte), NEW n, Len(s) # 0, Be(s) = n
  PROVE  Count(b, s) = n
<1>1. s # <<>>
  OBVIOUS
<1>. QED
  BY <1>1, CountIs

LEMMA CountAnnounces ==
  ASSUME NEW n \in Nat, n < Limit
  PROVE  /\ Announces(EmitCount(n, 160, 218, 219), "string", n)
         /\ Announces(EmitCount(n, 144, 220, 221), "array", n)
         /\ Announces(EmitCount(n, 128, 222, 223), "dict", n)
<1>. DEFINE two == PutBe(n, 2)  four == PutBe(n, 4)
<1>1. Widths[2] = 2 /\ Widths[3] = 4
  BY WidthsAre
<1>2. ASSUME NEW fix \in {128, 144, 160}, n <= IF fix = 160 THEN 31 ELSE 15, NEW f16, NEW f32
      PROVE  EmitCount(n, fix, f16, f32) = <<fix + n>>
  BY <1>2 DEF EmitCount
<1>3. ASSUME NEW fix \in {128, 144, 160}, ~ (n <= IF fix = 160 THEN 31 ELSE 15), n < Two16, NEW f16, NEW f32
      PROVE  EmitCount(n, fix, f16, f32) = <<f16>> \o two
  BY <1>3 DEF EmitCount
<1>4. ASSUME NEW fix \in {128, 144, 160}, ~ (n <= IF fix = 160 THEN 31 ELSE 15), ~ (n < Two16),
             NEW f16, NEW f32
      PROVE  EmitCount(n, fix, f16, f32) = <<f32>> \o four
  BY <1>4 DEF EmitCount
<1>5. n < Two16 => two \in Seq(Byte) /\ Len(two) = 2 /\ Be(two) = n
  BY Bytes2
<1>6. four \in Seq(Byte) /\ Len(four) = 4 /\ Be(four) = n
  BY Bytes4
<1>. HIDE DEF two, four
<1>7. Announces(EmitCount(n, 160, 218, 219), "string", n)
  <2>1. CASE n <= 31
    <3>. DEFINE b == 160 + n
    <3>1. b \in Byte /\ b \in 160 .. 191 /\ b % 32 = n /\ b \notin 128 .. 159
      BY <2>1 DEF Byte
    <3>2. EmitCount(n, 160, 218, 219) = <<b>>
      BY <1>2, <2>1
    <3>. HIDE DEF b
    <3>3. Format(b) = Kind("string", 0)
      BY <3>1, FormatIs
    <3>4. Count(b, <<>>) = n
      BY <3>1, CountIs
    <3>5. <<b>> = <<b>> \o <<>> /\ <<>> \in Seq(Byte) /\ Len(<<>>) = 0
      BY <3>1, AloneByte
    <3>6. Announces(<<b>> \o <<>>, "string", n)
      BY <3>1, <3>3, <3>4, <3>5, AnnouncesBy
    <3>. QED
      BY <3>2, <3>5, <3>6
  <2>2. CASE ~ (n <= 31) /\ n < Two16
    <3>1. 218 \in Byte /\ 218 \in 217 .. 219 /\ 218 - 216 = 2
      BY DEF Byte
    <3>2. Format(218) = Kind("string", Widths[218 - 216])
      BY <3>1, FormatIs
    <3>3. Count(218, two) = n
      <4>1. two \in Seq(Byte) /\ Len(two) # 0 /\ Be(two) = n
        BY <1>5, <2>2
      <4>. QED
        BY <3>1, <4>1, WideCount
    <3>4. EmitCount(n, 160, 218, 219) = <<218>> \o two
      BY <1>3, <2>2
    <3>5. Format(218) = Kind("string", Len(two))
      BY <1>1, <1>5, <2>2, <3>1, <3>2
    <3>6. two \in Seq(Byte)
      BY <1>5, <2>2
    <3>7. Announces(<<218>> \o two, "string", n)
      BY <3>1, <3>3, <3>5, <3>6, AnnouncesBy
    <3>. QED
      BY <3>4, <3>7, Zenon
  <2>3. CASE ~ (n <= 31) /\ ~ (n < Two16)
    <3>1. 219 \in Byte /\ 219 \in 217 .. 219 /\ 219 - 216 = 3
      BY DEF Byte
    <3>2. Format(219) = Kind("string", Widths[219 - 216])
      BY <3>1, FormatIs
    <3>3. Count(219, four) = n
      <4>1. four \in Seq(Byte) /\ Len(four) # 0 /\ Be(four) = n
        BY <1>6
      <4>. QED
        BY <3>1, <4>1, WideCount
    <3>4. EmitCount(n, 160, 218, 219) = <<219>> \o four
      BY <1>4, <2>3
    <3>5. Format(219) = Kind("string", Len(four))
      BY <1>1, <1>6, <3>1, <3>2
    <3>6. four \in Seq(Byte)
      BY <1>6
    <3>7. Announces(<<219>> \o four, "string", n)
      BY <3>1, <3>3, <3>5, <3>6, AnnouncesBy
    <3>. QED
      BY <3>4, <3>7, Zenon
  <2>. QED
    BY <2>1, <2>2, <2>3
<1>8. Announces(EmitCount(n, 144, 220, 221), "array", n)
  <2>1. CASE n <= 15
    <3>. DEFINE b == 144 + n
    <3>1. b \in Byte /\ b \in 144 .. 159 /\ b % 16 = n /\ b \in 128 .. 159
      BY <2>1 DEF Byte
    <3>2. EmitCount(n, 144, 220, 221) = <<b>>
      BY <1>2, <2>1
    <3>. HIDE DEF b
    <3>3. Format(b) = Kind("array", 0)
      BY <3>1, FormatIs
    <3>4. Count(b, <<>>) = n
      BY <3>1, CountIs
    <3>5. <<b>> = <<b>> \o <<>> /\ <<>> \in Seq(Byte) /\ Len(<<>>) = 0
      BY <3>1, AloneByte
    <3>6. Announces(<<b>> \o <<>>, "array", n)
      BY <3>1, <3>3, <3>4, <3>5, AnnouncesBy
    <3>. QED
      BY <3>2, <3>5, <3>6
  <2>2. CASE ~ (n <= 15) /\ n < Two16
    <3>1. 220 \in Byte /\ 220 \in {220, 221} /\ 220 - 218 = 2
      BY DEF Byte
    <3>2. Format(220) = Kind("array", Widths[220 - 218])
      BY <3>1, FormatIs
    <3>3. Count(220, two) = n
      <4>1. two \in Seq(Byte) /\ Len(two) # 0 /\ Be(two) = n
        BY <1>5, <2>2
      <4>. QED
        BY <3>1, <4>1, WideCount
    <3>4. EmitCount(n, 144, 220, 221) = <<220>> \o two
      BY <1>3, <2>2
    <3>5. Format(220) = Kind("array", Len(two))
      BY <1>1, <1>5, <2>2, <3>1, <3>2
    <3>6. two \in Seq(Byte)
      BY <1>5, <2>2
    <3>7. Announces(<<220>> \o two, "array", n)
      BY <3>1, <3>3, <3>5, <3>6, AnnouncesBy
    <3>. QED
      BY <3>4, <3>7, Zenon
  <2>3. CASE ~ (n <= 15) /\ ~ (n < Two16)
    <3>1. 221 \in Byte /\ 221 \in {220, 221} /\ 221 - 218 = 3
      BY DEF Byte
    <3>2. Format(221) = Kind("array", Widths[221 - 218])
      BY <3>1, FormatIs
    <3>3. Count(221, four) = n
      <4>1. four \in Seq(Byte) /\ Len(four) # 0 /\ Be(four) = n
        BY <1>6
      <4>. QED
        BY <3>1, <4>1, WideCount
    <3>4. EmitCount(n, 144, 220, 221) = <<221>> \o four
      BY <1>4, <2>3
    <3>5. Format(221) = Kind("array", Len(four))
      BY <1>1, <1>6, <3>1, <3>2
    <3>6. four \in Seq(Byte)
      BY <1>6
    <3>7. Announces(<<221>> \o four, "array", n)
      BY <3>1, <3>3, <3>5, <3>6, AnnouncesBy
    <3>. QED
      BY <3>4, <3>7, Zenon
  <2>. QED
    BY <2>1, <2>2, <2>3
<1>9. Announces(EmitCount(n, 128, 222, 223), "dict", n)
  <2>1. CASE n <= 15
    <3>. DEFINE b == 128 + n
    <3>1. b \in Byte /\ b \in 128 .. 143 /\ b % 16 = n /\ b \in 128 .. 159
      BY <2>1 DEF Byte
    <3>2. EmitCount(n, 128, 222, 223) = <<b>>
      BY <1>2, <2>1
    <3>. HIDE DEF b
    <3>3. Format(b) = Kind("dict", 0)
      BY <3>1, FormatIs
    <3>4. Count(b, <<>>) = n
      BY <3>1, CountIs
    <3>5. <<b>> = <<b>> \o <<>> /\ <<>> \in Seq(Byte) /\ Len(<<>>) = 0
      BY <3>1, AloneByte
    <3>6. Announces(<<b>> \o <<>>, "dict", n)
      BY <3>1, <3>3, <3>4, <3>5, AnnouncesBy
    <3>. QED
      BY <3>2, <3>5, <3>6
  <2>2. CASE ~ (n <= 15) /\ n < Two16
    <3>1. 222 \in Byte /\ 222 \in {222, 223} /\ 222 - 220 = 2
      BY DEF Byte
    <3>2. Format(222) = Kind("dict", Widths[222 - 220])
      BY <3>1, FormatIs
    <3>3. Count(222, two) = n
      <4>1. two \in Seq(Byte) /\ Len(two) # 0 /\ Be(two) = n
        BY <1>5, <2>2
      <4>. QED
        BY <3>1, <4>1, WideCount
    <3>4. EmitCount(n, 128, 222, 223) = <<222>> \o two
      BY <1>3, <2>2
    <3>5. Format(222) = Kind("dict", Len(two))
      BY <1>1, <1>5, <2>2, <3>1, <3>2
    <3>6. two \in Seq(Byte)
      BY <1>5, <2>2
    <3>7. Announces(<<222>> \o two, "dict", n)
      BY <3>1, <3>3, <3>5, <3>6, AnnouncesBy
    <3>. QED
      BY <3>4, <3>7, Zenon
  <2>3. CASE ~ (n <= 15) /\ ~ (n < Two16)
    <3>1. 223 \in Byte /\ 223 \in {222, 223} /\ 223 - 220 = 3
      BY DEF Byte
    <3>2. Format(223) = Kind("dict", Widths[223 - 220])
      BY <3>1, FormatIs
    <3>3. Count(223, four) = n
      <4>1. four \in Seq(Byte) /\ Len(four) # 0 /\ Be(four) = n
        BY <1>6
      <4>. QED
        BY <3>1, <4>1, WideCount
    <3>4. EmitCount(n, 128, 222, 223) = <<223>> \o four
      BY <1>4, <2>3
    <3>5. Format(223) = Kind("dict", Len(four))
      BY <1>1, <1>6, <3>1, <3>2
    <3>6. four \in Seq(Byte)
      BY <1>6
    <3>7. Announces(<<223>> \o four, "dict", n)
      BY <3>1, <3>3, <3>5, <3>6, AnnouncesBy
    <3>. QED
      BY <3>4, <3>7, Zenon
  <2>. QED
    BY <2>1, <2>2, <2>3
<1>. QED
  BY <1>7, <1>8, <1>9

LEMMA HeaderBytes ==
  ASSUME NEW h, NEW kind, NEW n, Announces(h, kind, n)
  PROVE  h \in Seq(Byte) /\ Len(h) \in Nat /\ Len(h) >= 1
<1>1. PICK b \in Byte, s \in Seq(Byte) : h = <<b>> \o s
  BY DEF Announces
<1>2. <<b>> \o s \in Seq(Byte) /\ Len(<<b>> \o s) = 1 + Len(s) /\ Len(s) \in Nat
  BY OneByte
<1>. QED
  BY <1>1, <1>2

(* A string, as a value and as a key. *)
LEMMA ReadText ==
  ASSUME NEW d \in Seq(Byte), NEW p \in Nat, NEW x \in Text, At(d, p, EmitStr(x)), NEW depth
  PROVE  /\ EmitStr(x) \in Seq(Byte) /\ Len(EmitStr(x)) \in Nat /\ Len(EmitStr(x)) >= 1
         /\ ReadInto(d, p, depth) = Complete([string |-> x], p + Len(EmitStr(x)))
         /\ Len(d) # p /\ Format(d[p + 1]).kind = "string"
<1>. DEFINE h == EmitCount(Len(x), 160, 218, 219)  n == Len(x)
<1>1. x \in Seq(Byte) /\ n \in Nat /\ n < Limit
  BY DEF Text, Short
<1>2. Announces(h, "string", n)
  BY <1>1, CountAnnounces
<1>3. h \in Seq(Byte) /\ Len(h) \in Nat /\ Len(h) >= 1
  BY <1>2, HeaderBytes
<1>4. EmitStr(x) = h \o x
  BY DEF EmitStr
<1>. HIDE DEF h
<1>5. h \o x \in Seq(Byte) /\ Len(h \o x) = Len(h) + n
  BY <1>1, <1>3, ConcatFacts
<1>6. At(d, p, h) /\ At(d, p + Len(h), x)
  BY <1>1, <1>3, <1>4, AtParts
<1>7. PICK b \in Byte, s \in Seq(Byte) :
        h = <<b>> \o s /\ Format(b).kind = "string" /\ Format(b).width = Len(s) /\ Count(b, s) = n
  BY <1>2 DEF Announces
<1>8. Len(h) = 1 + Len(s)
  BY <1>7, OneByte
<1>9. At(d, p, <<b>> \o s)
  BY <1>6, <1>7
<1>10. ReadInto(d, p, depth) = Switch(d, p + (1 + Len(s)), b, s, depth) /\ d[p + 1] = b /\ Len(d) # p
  BY <1>7, <1>9, ReadHeader
<1>. DEFINE q == p + Len(h)
<1>11. q \in Nat /\ p + (1 + Len(s)) = q
  BY <1>3, <1>8
<1>. HIDE DEF q
<1>12. ReadInto(d, p, depth) = TakeStr(d, q, n)
  BY <1>7, <1>10, <1>11, SwitchText
<1>13. At(d, q, x)
  BY <1>6 DEF q
<1>14. SubSeq(d, q + 1, q + n) = x /\ q + n <= Len(d) /\ Len(d) \in Nat
  BY <1>1, <1>11, <1>13, AtSubSeq DEF At
<1>. HIDE DEF n
<1>15. ~ (Len(d) - q < n)
  BY <1>1, <1>11, <1>14
<1>16. TakeStr(d, q, n) = Complete([string |-> x], q + n)
  BY <1>14, <1>15 DEF TakeStr
<1>17. q + n = p + Len(EmitStr(x))
  BY <1>1, <1>3, <1>4, <1>5 DEF q
<1>18. EmitStr(x) \in Seq(Byte) /\ Len(EmitStr(x)) \in Nat /\ Len(EmitStr(x)) >= 1
  BY <1>1, <1>3, <1>4, <1>5
<1>. QED
  BY <1>7, <1>10, <1>12, <1>16, <1>17, <1>18

LEMMA ReadKeyText ==
  ASSUME NEW d \in Seq(Byte), NEW p \in Nat, NEW x \in Text, At(d, p, EmitStr(x))
  PROVE  ReadKey(d, p) = Complete([string |-> x], p + Len(EmitStr(x)))
<1>1. /\ ReadInto(d, p, 0) = Complete([string |-> x], p + Len(EmitStr(x)))
      /\ Len(d) # p /\ Format(d[p + 1]).kind = "string"
  BY ReadText
<1>. QED
  BY <1>1 DEF ReadKey

(* The header of a container. *)
LEMMA ReadOpening ==
  ASSUME NEW d \in Seq(Byte), NEW p \in Nat, NEW h, NEW kind \in {"array", "dict"}, NEW n,
         Announces(h, kind, n), At(d, p, h), NEW depth
  PROVE  ReadInto(d, p, depth) = Open(d, p + Len(h), n, kind = "dict", depth)
<1>1. PICK b \in Byte, s \in Seq(Byte) :
        h = <<b>> \o s /\ Format(b).kind = kind /\ Format(b).width = Len(s) /\ Count(b, s) = n
  BY DEF Announces
<1>2. Len(h) = 1 + Len(s)
  BY <1>1, OneByte
<1>3. At(d, p, <<b>> \o s)
  BY <1>1
<1>4. ReadInto(d, p, depth) = Switch(d, p + (1 + Len(s)), b, s, depth)
  BY <1>1, <1>3, ReadHeader
<1>5. Switch(d, p + Len(h), b, s, depth) = Open(d, p + Len(h), Count(b, s), Format(b).kind = "dict", depth)
  BY <1>1, SwitchContainer
<1>. QED
  BY <1>1, <1>2, <1>4, <1>5

(* Integers. *)
LEMMA ByteAt == ASSUME NEW s \in Seq(Byte), NEW i \in 1 .. Len(s) PROVE s[i] \in Byte
OBVIOUS

LEMMA TailFacts ==
  ASSUME NEW s \in Seq(Byte), NEW m \in Nat, m <= Len(s)
  PROVE  /\ SubSeq(s, m + 1, Len(s)) \in Seq(Byte) /\ Len(SubSeq(s, m + 1, Len(s))) = Len(s) - m
         /\ \A i \in 1 .. Len(s) - m : SubSeq(s, m + 1, Len(s))[i] = s[m + i]
<1>1. Len(s) \in Nat /\ Len(s) <= Len(s)
  OBVIOUS
<1>. QED
  BY <1>1, SubSeqFacts

LEMMA Rejoin ==
  ASSUME NEW w \in Bytes8, NEW n \in {1, 2, 4, 8}, NEW c, \A i \in 1 .. 8 - n : w[i] = c
  PROVE  /\ [i \in 1 .. 8 - n |-> c] \o Low(w, n) = w
         /\ Low(w, n) \in Seq(Byte) /\ Len(Low(w, n)) = n /\ Low(w, n)[1] = w[9 - n]
<1>. DEFINE l == Low(w, n)  m == 8 - n  z == [i \in 1 .. m |-> c]
<1>1. w \in Seq(Byte) /\ Len(w) = 8
  BY DEF Bytes8
<1>2. m \in Nat /\ m <= 8 /\ 8 - m = n /\ Len(w) - n + 1 = m + 1 /\ 9 - n = m + 1 /\ n \in Nat /\ 1 \in 1 .. n
      /\ 8 \in Nat /\ m <= Len(w) /\ m + n = 8
  BY <1>1
<1>3. l = SubSeq(w, m + 1, 8)
  BY <1>1, <1>2 DEF Low
<1>. HIDE DEF m
<1>4. l \in Seq(Byte) /\ Len(l) = n /\ \A i \in 1 .. n : l[i] = w[m + i]
  <2>1. /\ SubSeq(w, m + 1, Len(w)) \in Seq(Byte) /\ Len(SubSeq(w, m + 1, Len(w))) = Len(w) - m
        /\ \A i \in 1 .. Len(w) - m : SubSeq(w, m + 1, Len(w))[i] = w[m + i]
    BY <1>1, <1>2, TailFacts
  <2>. QED
    BY <1>2, <1>3, <2>1
<1>. HIDE DEF l
<1>5. l[1] = w[9 - n]
  BY <1>2, <1>4
<1>6. z \o l = w
  <2>0. \A i \in 1 .. m : c \in Byte
    <3>1. ASSUME NEW i \in 1 .. m PROVE c \in Byte
      <4>1. w[i] = c
        BY DEF m
      <4>2. i \in 1 .. Len(w)
        BY <1>1, <1>2
      <4>3. w[i] \in Byte
        BY <1>1, <4>2, ByteAt
      <4>. QED
        BY <4>1, <4>3
    <3>. QED
      BY <3>1
  <2>1. z \in Seq(Byte) /\ Len(z) = m /\ \A i \in 1 .. m : z[i] = c
    BY <1>2, <2>0
  <2>. HIDE DEF z
  <2>. DEFINE u == z \o l
  <2>2. /\ u \in Seq(Byte) /\ Len(u) = Len(z) + Len(l) /\ \A i \in 1 .. Len(z) : u[i] = z[i]
        /\ \A i \in 1 .. Len(l) : u[Len(z) + i] = l[i]
    BY <1>4, <2>1, ConcatFacts
  <2>. HIDE DEF u
  <2>3. Len(u) = 8
    BY <1>2, <1>4, <2>1, <2>2
  <2>4. ASSUME NEW i \in 1 .. 8 PROVE u[i] = w[i]
    <3>1. CASE i <= m
      <4>1. i \in 1 .. m
        BY <1>2, <3>1
      <4>2. w[i] = c
        BY <4>1 DEF m
      <4>. QED
        BY <2>1, <2>2, <4>1, <4>2
    <3>2. CASE ~ (i <= m)
      <4>1. i - m \in 1 .. n /\ m + (i - m) = i
        BY <1>2, <3>2
      <4>2. u[m + (i - m)] = l[i - m]
        BY <1>4, <2>1, <2>2, <4>1
      <4>. QED
        BY <1>4, <4>1, <4>2
    <3>. QED
      BY <3>1, <3>2
  <2>5. u = w
    <3>1. u \in Seq(Byte) /\ w \in Seq(Byte) /\ Len(w) = 8
      BY <1>1, <2>2
    <3>. QED
      BY <2>3, <2>4, <3>1
  <2>. QED
    BY <2>5 DEF u
<1>. QED
  BY <1>4, <1>5, <1>6 DEF l, m, z
FitsIn(w, n) == IF IsNegative(w) THEN FitsSigned(w, n) ELSE FitsUnsigned(w, n)
OneByteInt(w) == IF IsNegative(w) THEN w[8] >= 224 ELSE w[8] <= 127
IntFormat(w, k) == (IF IsNegative(w) THEN 207 ELSE 203) + k

LEMMA EmitIntIs ==
  ASSUME NEW w \in Bytes8
  PROVE  \E k \in 1 .. 4 :
           /\ FitsIn(w, Widths[k])
           /\ k = 1 /\ OneByteInt(w) => EmitInt(w) = <<w[8]>>
           /\ ~ (k = 1 /\ OneByteInt(w)) => EmitInt(w) = <<IntFormat(w, k)>> \o Low(w, Widths[k])
<1>. DEFINE fits(i) == FitsIn(w, Widths[i])
            least(i) == fits(i) /\ \A j \in 1 .. i - 1 : ~ fits(j)
            k == CHOOSE i \in 1 .. 4 : least(i)
<1>1. fits(4)
  <2>1. FitsUnsigned(w, 8) /\ (IsNegative(w) => FitsSigned(w, 8))
    BY DEF FitsUnsigned, FitsSigned, IsNegative
  <2>. QED
    BY <2>1, WidthsAre DEF FitsIn
<1>2. \E i \in 1 .. 4 : least(i)
  <2>. HIDE DEF fits
  <2>0. 1 \in 1 .. 4 /\ 2 \in 1 .. 4 /\ 3 \in 1 .. 4 /\ 4 \in 1 .. 4
    OBVIOUS
  <2>1. CASE fits(1)
    <3>1. least(1)
      BY <2>1
    <3>. QED
      BY <2>0, <3>1
  <2>2. CASE ~ fits(1) /\ fits(2)
    <3>1. \A j \in 1 .. 2 - 1 : j = 1
      OBVIOUS
    <3>2. least(2)
      BY <2>2, <3>1
    <3>. QED
      BY <2>0, <3>2
  <2>3. CASE ~ fits(1) /\ ~ fits(2) /\ fits(3)
    <3>1. \A j \in 1 .. 3 - 1 : j = 1 \/ j = 2
      OBVIOUS
    <3>2. least(3)
      BY <2>3, <3>1
    <3>. QED
      BY <2>0, <3>2
  <2>4. CASE ~ fits(1) /\ ~ fits(2) /\ ~ fits(3)
    <3>1. \A j \in 1 .. 4 - 1 : j = 1 \/ j = 2 \/ j = 3
      OBVIOUS
    <3>2. least(4)
      BY <1>1, <2>4, <3>1
    <3>. QED
      BY <2>0, <3>2
  <2>. QED
    BY <2>1, <2>2, <2>3, <2>4
<1>3. k \in 1 .. 4 /\ fits(k)
  <2>1. k \in 1 .. 4 /\ least(k)
    <3>. HIDE DEF least
    <3>. QED
      BY <1>2
  <2>. QED
    BY <2>1
<1>4. EmitInt(w) = IF k = 1 /\ OneByteInt(w) THEN <<w[8]>> ELSE <<IntFormat(w, k)>> \o Low(w, Widths[k])
  BY DEF EmitInt, OneByteInt, IntFormat, FitsIn
<1>. HIDE DEF k
<1>. QED
  BY <1>3, <1>4

LEMMA NumberIs ==
  ASSUME NEW b, NEW s
  PROVE  /\ Format(b).kind = "fixint" => ReadNumber(b, s) = [integer |-> SignExtend(<<b>>)]
         /\ Format(b).kind = "int" => ReadNumber(b, s) = [integer |-> SignExtend(s)]
         /\ Format(b).kind = "uint" /\ ~ ((Zeros(8 - Len(s)) \o s)[1] >= 128) =>
              ReadNumber(b, s) = [integer |-> Zeros(8 - Len(s)) \o s]
         /\ Format(b).kind = "float" /\ Len(s) # 4 => ReadNumber(b, s) = [floating |-> s]
<1>1. ASSUME Format(b).kind = "fixint" PROVE ReadNumber(b, s) = [integer |-> SignExtend(<<b>>)]
  BY <1>1 DEF ReadNumber
<1>2. ASSUME Format(b).kind = "int" PROVE ReadNumber(b, s) = [integer |-> SignExtend(s)]
  BY <1>2 DEF ReadNumber
<1>3. ASSUME Format(b).kind = "uint", ~ ((Zeros(8 - Len(s)) \o s)[1] >= 128)
      PROVE  ReadNumber(b, s) = [integer |-> Zeros(8 - Len(s)) \o s]
  BY <1>3 DEF ReadNumber
<1>4. ASSUME Format(b).kind = "float", Len(s) # 4 PROVE ReadNumber(b, s) = [floating |-> s]
  BY <1>4 DEF ReadNumber
<1>. QED
  BY <1>1, <1>2, <1>3, <1>4

NumberKinds == {"fixint", "int", "uint", "float"}

(* Bytes that are read as the number num. *)
Numbers(a, num) == \E b \in Byte, s \in Seq(Byte) :
  /\ a = <<b>> \o s /\ Format(b).kind \in NumberKinds /\ Format(b).width = Len(s)
  /\ ReadNumber(b, s) = num

LEMMA ReadsNumber ==
  ASSUME NEW a, NEW num, Numbers(a, num), NEW d \in Seq(Byte), NEW p \in Nat, NEW depth
  PROVE  /\ a \in Seq(Byte) /\ Len(a) \in Nat /\ Len(a) >= 1
         /\ At(d, p, a) => ReadInto(d, p, depth) = Complete(num, p + Len(a))
<1>1. PICK b \in Byte, s \in Seq(Byte) :
        /\ a = <<b>> \o s /\ Format(b).kind \in NumberKinds /\ Format(b).width = Len(s)
        /\ ReadNumber(b, s) = num
  BY DEF Numbers
<1>2. a \in Seq(Byte) /\ Len(a) = 1 + Len(s) /\ Len(s) \in Nat
  BY <1>1, OneByte
<1>3. ASSUME At(d, p, a) PROVE ReadInto(d, p, depth) = Complete(num, p + Len(a))
  <2>1. At(d, p, <<b>> \o s)
    BY <1>1, <1>3
  <2>2. ReadInto(d, p, depth) = Switch(d, p + (1 + Len(s)), b, s, depth)
    BY <1>1, <2>1, ReadHeader
  <2>3. Format(b).kind \notin {"unsupported", "nil", "boolean", "string", "bin", "array", "dict"}
    BY <1>1 DEF NumberKinds
  <2>4. Switch(d, p + (1 + Len(s)), b, s, depth) = Complete(ReadNumber(b, s), p + (1 + Len(s)))
    BY <2>3, SwitchNumber
  <2>. QED
    BY <1>1, <1>2, <2>2, <2>4
<1>. QED
  BY <1>2, <1>3

LEMMA Extended ==
  ASSUME NEW s, NEW m, Len(s) = m
  PROVE  /\ s[1] >= 128 => SignExtend(s) = [i \in 1 .. 8 - m |-> 255] \o s
         /\ ~ (s[1] >= 128) => SignExtend(s) = [i \in 1 .. 8 - m |-> 0] \o s
         /\ Zeros(8 - m) = [i \in 1 .. 8 - m |-> 0]
BY DEF SignExtend, Zeros

(* An integer is read back from the shortest of its forms. *)
LEMMA IntBack == ASSUME NEW w \in Bytes8 PROVE Numbers(EmitInt(w), [integer |-> w])
<1>1. PICK k \in 1 .. 4 :
        /\ FitsIn(w, Widths[k])
        /\ k = 1 /\ OneByteInt(w) => EmitInt(w) = <<w[8]>>
        /\ ~ (k = 1 /\ OneByteInt(w)) => EmitInt(w) = <<IntFormat(w, k)>> \o Low(w, Widths[k])
  BY EmitIntIs
<1>. DEFINE n == Widths[k]  s == Low(w, n)  z == [i \in 1 .. 8 - n |-> 0]  f == [i \in 1 .. 8 - n |-> 255]
<1>2. n \in {1, 2, 4, 8} /\ (k = 1 => n = 1)
  <2>1. k = 1 \/ k = 2 \/ k = 3 \/ k = 4
    OBVIOUS
  <2>. QED
    BY <2>1, WidthsAre
<1>3. \A i \in 1 .. 8 : w[i] \in Byte /\ w[i] \in Nat
  <2>1. w \in Seq(Byte) /\ Len(w) = 8
    BY DEF Bytes8
  <2>2. ASSUME NEW i \in 1 .. 8 PROVE w[i] \in Byte /\ w[i] \in Nat
    <3>1. i \in 1 .. Len(w)
      BY <2>1
    <3>. QED
      BY <2>1, <3>1, ByteAt, ByteNat
  <2>. QED
    BY <2>2
<1>. HIDE DEF n
<1>4. CASE IsNegative(w)
  <2>1. FitsSigned(w, n)
    BY <1>1, <1>4 DEF FitsIn, n
  <2>2. w[9 - n] >= 128 /\ \A i \in 1 .. 8 - n : w[i] = 255
    BY <2>1 DEF FitsSigned
  <2>3. f \o s = w /\ s \in Seq(Byte) /\ Len(s) = n /\ s[1] = w[9 - n]
    <3>. DEFINE c == 255
    <3>1. \A i \in 1 .. 8 - n : w[i] = c
      BY <2>2
    <3>. HIDE DEF c
    <3>2. /\ [i \in 1 .. 8 - n |-> c] \o Low(w, n) = w
          /\ Low(w, n) \in Seq(Byte) /\ Len(Low(w, n)) = n /\ Low(w, n)[1] = w[9 - n]
      BY <1>2, <3>1, Rejoin
    <3>. QED
      BY <3>2 DEF c
  <2>4. CASE k = 1 /\ w[8] >= 224
    <3>. DEFINE b == w[8]
    <3>1. b \in Byte /\ n = 1
      <4>1. 8 \in 1 .. 8
        OBVIOUS
      <4>. QED
        BY <1>2, <1>3, <2>4, <4>1
    <3>2. EmitInt(w) = <<b>>
      BY <1>1, <1>4, <2>4 DEF OneByteInt
    <3>3. s = <<b>>
      <4>1. 9 - 1 = 8
        OBVIOUS
      <4>2. s \in Seq(Byte) /\ Len(s) = 1 /\ s[1] = b
        BY <2>3, <3>1, <4>1
      <4>. HIDE DEF s, b
      <4>. QED
        BY <4>2
    <3>4. b >= 224
      BY <2>4
    <3>. HIDE DEF b, s, f
    <3>5. Format(b) = Kind("fixint", 0)
      BY <3>1, <3>4, FormatIs
    <3>6. Format(b).kind = "fixint" /\ Format(b).width = 0
      BY <3>5, KindFields
    <3>7. SignExtend(<<b>>) = w
      <4>1. s[1] >= 128 /\ Len(s) = n
        BY <2>2, <2>3
      <4>2. SignExtend(s) = f \o s
        BY <4>1, Extended DEF f
      <4>. QED
        BY <2>3, <3>3, <4>2
    <3>8. ReadNumber(b, <<>>) = [integer |-> w]
      BY <3>6, <3>7, NumberIs
    <3>9. <<b>> = <<b>> \o <<>> /\ <<>> \in Seq(Byte) /\ Len(<<>>) = 0
      BY <3>1, AloneByte
    <3>10. Format(b).kind \in NumberKinds /\ Format(b).width = Len(<<>>)
      BY <3>6, <3>9 DEF NumberKinds
    <3>. QED
      BY <3>1, <3>2, <3>8, <3>9, <3>10 DEF Numbers
  <2>5. CASE ~ (k = 1 /\ w[8] >= 224)
    <3>. DEFINE b == 207 + k
    <3>1. b \in Byte /\ b \in 208 .. 211 /\ b - 207 = k
      BY DEF Byte
    <3>2. EmitInt(w) = <<b>> \o s
      BY <1>1, <1>4, <2>5 DEF OneByteInt, IntFormat, n
    <3>. HIDE DEF b, s, f
    <3>3. Format(b) = Kind("int", n)
      <4>1. Format(b) = Kind("int", Widths[b - 207])
        BY <3>1, FormatIs
      <4>. QED
        BY <3>1, <4>1 DEF n
    <3>4. Format(b).kind = "int" /\ Format(b).width = n
      BY <3>3, KindFields
    <3>5. SignExtend(s) = w
      <4>1. s[1] >= 128 /\ Len(s) = n
        BY <2>2, <2>3
      <4>2. SignExtend(s) = f \o s
        BY <4>1, Extended DEF f
      <4>. QED
        BY <2>3, <4>2
    <3>6. ReadNumber(b, s) = [integer |-> w]
      BY <3>4, <3>5, NumberIs
    <3>7. Format(b).kind \in NumberKinds /\ Format(b).width = Len(s)
      BY <2>3, <3>4 DEF NumberKinds
    <3>. QED
      BY <2>3, <3>1, <3>2, <3>6, <3>7 DEF Numbers
  <2>. QED
    BY <2>4, <2>5
<1>5. CASE ~ IsNegative(w)
  <2>1. FitsUnsigned(w, n)
    BY <1>1, <1>5 DEF FitsIn, n
  <2>2. \A i \in 1 .. 8 - n : w[i] = 0
    BY <2>1 DEF FitsUnsigned
  <2>3. z \o s = w /\ s \in Seq(Byte) /\ Len(s) = n /\ s[1] = w[9 - n]
    <3>. DEFINE c == 0
    <3>1. \A i \in 1 .. 8 - n : w[i] = c
      BY <2>2
    <3>. HIDE DEF c
    <3>2. /\ [i \in 1 .. 8 - n |-> c] \o Low(w, n) = w
          /\ Low(w, n) \in Seq(Byte) /\ Len(Low(w, n)) = n /\ Low(w, n)[1] = w[9 - n]
      BY <1>2, <3>1, Rejoin
    <3>. QED
      BY <3>2 DEF c
  <2>4. CASE k = 1 /\ w[8] <= 127
    <3>. DEFINE b == w[8]
    <3>1. b \in Byte /\ n = 1
      <4>1. 8 \in 1 .. 8
        OBVIOUS
      <4>. QED
        BY <1>2, <1>3, <2>4, <4>1
    <3>2. EmitInt(w) = <<b>>
      BY <1>1, <1>5, <2>4 DEF OneByteInt
    <3>3. s = <<b>>
      <4>1. 9 - 1 = 8
        OBVIOUS
      <4>2. s \in Seq(Byte) /\ Len(s) = 1 /\ s[1] = b
        BY <2>3, <3>1, <4>1
      <4>. HIDE DEF s, b
      <4>. QED
        BY <4>2
    <3>4. b <= 127 /\ ~ (b >= 128)
      <4>1. b \in Nat
        BY <3>1 DEF Byte
      <4>2. b <= 127
        BY <2>4
      <4>. HIDE DEF b
      <4>. QED
        BY <4>1, <4>2
    <3>. HIDE DEF b, s, z
    <3>5. Format(b) = Kind("fixint", 0)
      BY <3>1, <3>4, FormatIs
    <3>6. Format(b).kind = "fixint" /\ Format(b).width = 0
      BY <3>5, KindFields
    <3>7. SignExtend(<<b>>) = w
      <4>1. s[1] = b /\ Len(s) = n
        BY <2>3, <3>3
      <4>2. ~ (s[1] >= 128)
        BY <3>4, <4>1
      <4>3. SignExtend(s) = z \o s
        BY <4>1, <4>2, Extended DEF z
      <4>. QED
        BY <2>3, <3>3, <4>3
    <3>8. ReadNumber(b, <<>>) = [integer |-> w]
      BY <3>6, <3>7, NumberIs
    <3>9. <<b>> = <<b>> \o <<>> /\ <<>> \in Seq(Byte) /\ Len(<<>>) = 0
      BY <3>1, AloneByte
    <3>10. Format(b).kind \in NumberKinds /\ Format(b).width = Len(<<>>)
      BY <3>6, <3>9 DEF NumberKinds
    <3>. QED
      BY <3>1, <3>2, <3>8, <3>9, <3>10 DEF Numbers
  <2>5. CASE ~ (k = 1 /\ w[8] <= 127)
    <3>. DEFINE b == 203 + k
    <3>1. b \in Byte /\ b \in 204 .. 207 /\ b - 203 = k
      BY DEF Byte
    <3>2. EmitInt(w) = <<b>> \o s
      BY <1>1, <1>5, <2>5 DEF OneByteInt, IntFormat, n
    <3>. HIDE DEF b, s, z
    <3>3. Format(b) = Kind("uint", n)
      <4>1. Format(b) = Kind("uint", Widths[b - 203])
        BY <3>1, FormatIs
      <4>. QED
        BY <3>1, <4>1 DEF n
    <3>4. Format(b).kind = "uint" /\ Format(b).width = n
      BY <3>3, KindFields
    <3>5. Zeros(8 - Len(s)) \o s = w
      <4>1. Len(s) = n
        BY <2>3
      <4>2. Zeros(8 - Len(s)) = z
        BY <4>1 DEF Zeros, z
      <4>. QED
        BY <2>3, <4>2
    <3>6. ~ (w[1] >= 128)
      BY <1>5 DEF IsNegative
    <3>7. ReadNumber(b, s) = [integer |-> w]
      BY <3>4, <3>5, <3>6, NumberIs
    <3>8. Format(b).kind \in NumberKinds /\ Format(b).width = Len(s)
      BY <2>3, <3>4 DEF NumberKinds
    <3>. QED
      BY <2>3, <3>1, <3>2, <3>7, <3>8 DEF Numbers
  <2>. QED
    BY <2>4, <2>5
<1>. QED
  BY <1>4, <1>5
LEMMA NodeIs ==
  ASSUME NEW o
  PROVE  /\ DOMAIN o = {"nil"} => EmitNode(o) = <<192>>
         /\ DOMAIN o = {"boolean"} => EmitNode(o) = IF o.boolean THEN <<195>> ELSE <<194>>
         /\ DOMAIN o = {"integer"} => EmitNode(o) = EmitInt(o.integer)
         /\ DOMAIN o = {"floating"} => EmitNode(o) = <<203>> \o o.floating
         /\ DOMAIN o = {"string"} => EmitNode(o) = EmitStr(o.string)
         /\ DOMAIN o = {"array"} => EmitNode(o) = EmitCount(Len(o.array), 144, 220, 221)
         /\ DOMAIN o = {"dict"} => EmitNode(o) = EmitCount(Len(o.dict), 128, 222, 223)
<1>1. ASSUME DOMAIN o = {"nil"} PROVE EmitNode(o) = <<192>>
  BY <1>1 DEF EmitNode, Has
<1>2. ASSUME DOMAIN o = {"boolean"} PROVE EmitNode(o) = IF o.boolean THEN <<195>> ELSE <<194>>
  BY <1>2 DEF EmitNode, Has
<1>3. ASSUME DOMAIN o = {"integer"} PROVE EmitNode(o) = EmitInt(o.integer)
  BY <1>3 DEF EmitNode, Has
<1>4. ASSUME DOMAIN o = {"floating"} PROVE EmitNode(o) = <<203>> \o o.floating
  BY <1>4 DEF EmitNode, Has
<1>5. ASSUME DOMAIN o = {"string"} PROVE EmitNode(o) = EmitStr(o.string)
  BY <1>5 DEF EmitNode, Has
<1>6. ASSUME DOMAIN o = {"array"} PROVE EmitNode(o) = EmitCount(Len(o.array), 144, 220, 221)
  BY <1>6 DEF EmitNode, Has
<1>7. ASSUME DOMAIN o = {"dict"} PROVE EmitNode(o) = EmitCount(Len(o.dict), 128, 222, 223)
  BY <1>7 DEF EmitNode, Has
<1>. QED
  BY <1>1, <1>2, <1>3, <1>4, <1>5, <1>6, <1>7

(* Bytes that are read as o wherever they are. *)
Reads(a, o) ==
  /\ a \in Seq(Byte) /\ Len(a) \in Nat /\ Len(a) >= 1
  /\ \A d \in Seq(Byte), p \in Nat, depth \in Nat :
       At(d, p, a) => ReadInto(d, p, depth) = Complete(o, p + Len(a))

LEMMA NumberReads == ASSUME NEW a, NEW num, Numbers(a, num) PROVE Reads(a, num)
<1>1. <<>> \in Seq(Byte) /\ 0 \in Nat
  OBVIOUS
<1>2. a \in Seq(Byte) /\ Len(a) \in Nat /\ Len(a) >= 1
  BY <1>1, ReadsNumber
<1>3. ASSUME NEW d \in Seq(Byte), NEW p \in Nat, NEW depth \in Nat, At(d, p, a)
      PROVE  ReadInto(d, p, depth) = Complete(num, p + Len(a))
  BY <1>3, ReadsNumber
<1>. QED
  BY <1>2, <1>3 DEF Reads

LEMMA TextReads == ASSUME NEW x \in Text PROVE Reads(EmitStr(x), [string |-> x])
<1>. DEFINE a == EmitStr(x)  n == Len(x)  h == EmitCount(n, 160, 218, 219)
<1>1. x \in Seq(Byte) /\ n \in Nat /\ n < Limit
  BY DEF Text, Short
<1>2. Announces(h, "string", n)
  BY <1>1, CountAnnounces
<1>3. h \in Seq(Byte) /\ Len(h) \in Nat /\ Len(h) >= 1
  BY <1>2, HeaderBytes
<1>4. a = h \o x
  BY DEF EmitStr
<1>5. h \o x \in Seq(Byte) /\ Len(h \o x) = Len(h) + n
  <2>. HIDE DEF h
  <2>. QED
    BY <1>1, <1>3, ConcatFacts
<1>6. a \in Seq(Byte) /\ Len(a) \in Nat /\ Len(a) >= 1
  <2>. HIDE DEF h, n, a
  <2>. QED
    BY <1>1, <1>3, <1>4, <1>5
<1>7. ASSUME NEW d \in Seq(Byte), NEW p \in Nat, NEW depth \in Nat, At(d, p, a)
      PROVE  ReadInto(d, p, depth) = Complete([string |-> x], p + Len(a))
  BY <1>7, ReadText
<1>. QED
  BY <1>6, <1>7 DEF Reads

LEMMA ByteReads ==
  ASSUME NEW b \in Byte, NEW o, Format(b).width = 0,
         \A d \in Seq(Byte), p \in Nat, depth \in Nat : Switch(d, p, b, <<>>, depth) = Complete(o, p)
  PROVE  Reads(<<b>>, o)
<1>1. <<b>> = <<b>> \o <<>> /\ <<>> \in Seq(Byte) /\ Len(<<>>) = 0
  BY AloneByte
<1>2. <<b>> \in Seq(Byte) /\ Len(<<b>>) = 1
  OBVIOUS
<1>3. ASSUME NEW d \in Seq(Byte), NEW p \in Nat, NEW depth \in Nat, At(d, p, <<b>>)
      PROVE  ReadInto(d, p, depth) = Complete(o, p + Len(<<b>>))
  <2>1. At(d, p, <<b>> \o <<>>) /\ Format(b).width = Len(<<>>)
    BY <1>1, <1>3
  <2>2. ReadInto(d, p, depth) = Switch(d, p + (1 + Len(<<>>)), b, <<>>, depth)
    <3>. DEFINE e == <<>>
    <3>1. e \in Seq(Byte) /\ Format(b).width = Len(e) /\ At(d, p, <<b>> \o e)
      BY <1>1, <2>1
    <3>. HIDE DEF e
    <3>2. ReadInto(d, p, depth) = Switch(d, p + (1 + Len(e)), b, e, depth)
      BY <3>1, ReadHeader
    <3>. QED
      BY <3>2 DEF e
  <2>3. p + (1 + Len(<<>>)) = p + 1 /\ p + 1 \in Nat
    BY <1>1
  <2>4. Switch(d, p + 1, b, <<>>, depth) = Complete(o, p + 1)
    BY <2>3
  <2>. QED
    BY <1>2, <2>2, <2>3, <2>4
<1>. QED
  BY <1>2, <1>3 DEF Reads

LEMMA FloatReads == ASSUME NEW w \in Bytes8 PROVE Reads(<<203>> \o w, [floating |-> w])
<1>. DEFINE b == 203
<1>1. w \in Seq(Byte) /\ Len(w) = 8
  BY DEF Bytes8
<1>2. b \in Byte /\ b \in {202, 203} /\ b - 199 = 4
  BY DEF Byte
<1>3. Format(b) = Kind("float", Widths[b - 199])
  BY <1>2, FormatIs
<1>4. Format(b).kind = "float" /\ Format(b).width = 8
  BY <1>2, <1>3, KindFields, WidthsAre
<1>. HIDE DEF b
<1>5. ReadNumber(b, w) = [floating |-> w]
  <2>1. Len(w) # 4
    BY <1>1
  <2>. QED
    BY <1>4, <2>1, NumberIs
<1>6. Format(b).kind \in NumberKinds /\ Format(b).width = Len(w)
  BY <1>1, <1>4 DEF NumberKinds
<1>7. Numbers(<<b>> \o w, [floating |-> w])
  <2>. DEFINE num == [floating |-> w]
  <2>1. ReadNumber(b, w) = num
    BY <1>5
  <2>. HIDE DEF num
  <2>2. Numbers(<<b>> \o w, num)
    BY <1>1, <1>2, <1>6, <2>1, Zenon DEF Numbers
  <2>. QED
    BY <2>2 DEF num
<1>. QED
  BY <1>7, NumberReads DEF b

LEMMA NilReads == Reads(<<192>>, [nil |-> 0])
<1>. DEFINE b == 192
<1>1. b \in Byte /\ b = 192
  BY DEF Byte
<1>. HIDE DEF b
<1>2. Format(b) = Kind("nil", 0)
  BY <1>1, FormatIs
<1>3. Format(b).kind = "nil" /\ Format(b).width = 0
  BY <1>2, KindFields
<1>4. \A d \in Seq(Byte), p \in Nat, depth \in Nat : Switch(d, p, b, <<>>, depth) = Complete([nil |-> 0], p)
  BY <1>3, SwitchNil
<1>5. Reads(<<b>>, [nil |-> 0])
  BY <1>1, <1>3, <1>4, ByteReads
<1>. QED
  BY <1>1, <1>5

LEMMA BooleanReads ==
  ASSUME NEW b \in {194, 195} PROVE Reads(<<b>>, [boolean |-> b = 195])
<1>1. b \in Byte
  BY DEF Byte
<1>2. Format(b) = Kind("boolean", 0)
  BY <1>1, FormatIs
<1>3. Format(b).kind = "boolean" /\ Format(b).width = 0
  BY <1>2, KindFields
<1>. DEFINE o == [boolean |-> b = 195]
<1>4. ASSUME NEW d \in Seq(Byte), NEW p \in Nat, NEW depth \in Nat
      PROVE  Switch(d, p, b, <<>>, depth) = Complete(o, p)
  BY <1>3, SwitchBoolean
<1>. HIDE DEF o
<1>5. Reads(<<b>>, o)
  BY <1>1, <1>3, <1>4, ByteReads
<1>. QED
  BY <1>5 DEF o

(* A scalar is read back. *)
LEMMA ScalarReads == ASSUME NEW o \in Scalars PROVE Reads(EmitNode(o), o)
<1>1. CASE o = [nil |-> 0]
  <2>1. DOMAIN o = {"nil"}
    BY <1>1
  <2>2. EmitNode(o) = <<192>>
    BY <2>1, NodeIs
  <2>. QED
    BY <1>1, <2>2, NilReads
<1>2. CASE o \in [boolean : BOOLEAN]
  <2>1. DOMAIN o = {"boolean"} /\ o = [boolean |-> o.boolean] /\ o.boolean \in BOOLEAN
    BY <1>2
  <2>2. EmitNode(o) = IF o.boolean THEN <<195>> ELSE <<194>>
    BY <2>1, NodeIs
  <2>3. CASE o.boolean = TRUE
    <3>1. Reads(<<195>>, [boolean |-> 195 = 195])
      <4>1. 195 \in {194, 195}
        OBVIOUS
      <4>. QED
        BY <4>1, BooleanReads
    <3>2. (195 = 195) = TRUE
      OBVIOUS
    <3>3. EmitNode(o) = <<195>>
      BY <2>2, <2>3
    <3>4. o = [boolean |-> TRUE]
      BY <2>1, <2>3, Zenon
    <3>5. o = [boolean |-> 195 = 195]
      BY <3>2, <3>4, Zenon
    <3>6. Reads(EmitNode(o), o)
      <4>. DEFINE x == [boolean |-> 195 = 195]
                  e == <<195>>
      <4>1. Reads(e, x) /\ EmitNode(o) = e /\ o = x
        BY <3>1, <3>3, <3>5, Zenon
      <4>. HIDE DEF x, e
      <4>. QED
        BY <4>1
    <3>. QED
      BY <3>6
  <2>4. CASE o.boolean = FALSE
    <3>1. Reads(<<194>>, [boolean |-> 194 = 195])
      <4>1. 194 \in {194, 195}
        OBVIOUS
      <4>. QED
        BY <4>1, BooleanReads
    <3>2. (194 = 195) = FALSE
      OBVIOUS
    <3>3. EmitNode(o) = <<194>>
      BY <2>2, <2>4
    <3>4. o = [boolean |-> FALSE]
      BY <2>1, <2>4, Zenon
    <3>5. o = [boolean |-> 194 = 195]
      BY <3>2, <3>4, Zenon
    <3>6. Reads(EmitNode(o), o)
      <4>. DEFINE x == [boolean |-> 194 = 195]
                  e == <<194>>
      <4>1. Reads(e, x) /\ EmitNode(o) = e /\ o = x
        BY <3>1, <3>3, <3>5, Zenon
      <4>. HIDE DEF x, e
      <4>. QED
        BY <4>1
    <3>. QED
      BY <3>6
  <2>. QED
    BY <2>1, <2>3, <2>4, Zenon
<1>3. CASE o \in [integer : Bytes8]
  <2>1. DOMAIN o = {"integer"} /\ o = [integer |-> o.integer] /\ o.integer \in Bytes8
    BY <1>3
  <2>. DEFINE w == o.integer
  <2>2. EmitNode(o) = EmitInt(w)
    BY <2>1, NodeIs
  <2>3. w \in Bytes8 /\ o = [integer |-> w]
    BY <2>1
  <2>. HIDE DEF w
  <2>4. Numbers(EmitInt(w), [integer |-> w])
    BY <2>3, IntBack
  <2>5. Numbers(EmitNode(o), o)
    BY <2>2, <2>3, <2>4
  <2>. QED
    BY <2>5, NumberReads
<1>4. CASE o \in [floating : Bytes8]
  <2>1. DOMAIN o = {"floating"} /\ o = [floating |-> o.floating] /\ o.floating \in Bytes8
    BY <1>4
  <2>. DEFINE w == o.floating
  <2>2. EmitNode(o) = <<203>> \o w
    BY <2>1, NodeIs
  <2>3. w \in Bytes8 /\ o = [floating |-> w]
    BY <2>1
  <2>. HIDE DEF w
  <2>4. Reads(<<203>> \o w, [floating |-> w])
    BY <2>3, FloatReads
  <2>. QED
    BY <2>2, <2>3, <2>4
<1>5. CASE o \in [string : Text]
  <2>1. DOMAIN o = {"string"} /\ o = [string |-> o.string] /\ o.string \in Text
    BY <1>5
  <2>. DEFINE x == o.string
  <2>2. EmitNode(o) = EmitStr(x)
    BY <2>1, NodeIs
  <2>3. x \in Text /\ o = [string |-> x]
    BY <2>1
  <2>. HIDE DEF x
  <2>4. Reads(EmitStr(x), [string |-> x])
    BY <2>3, TextReads
  <2>. QED
    BY <2>2, <2>3, <2>4
<1>. QED
  BY <1>1, <1>2, <1>3, <1>4, <1>5 DEF Scalars

(* A container of children in C. *)
LEMMA ContainerIs ==
  ASSUME NEW C, NEW o \in Containers(C)
  PROVE  \/ /\ DOMAIN o = {"array"} /\ o = [array |-> o.array]
            /\ o.array \in Seq(C) /\ Len(o.array) < Limit
         \/ /\ DOMAIN o = {"dict"} /\ o = [dict |-> o.dict]
            /\ o.dict \in Seq(Text \X C) /\ Len(o.dict) < Limit
BY DEF Containers, Short

IsMap(o) == Has(o, "dict")
KindOf(o) == IF IsMap(o) THEN "dict" ELSE "array"

LEMMA ContainerFacts ==
  ASSUME NEW C, NEW o \in Containers(C)
  PROVE  /\ Size(o) \in Nat /\ Announces(EmitNode(o), KindOf(o), Size(o))
         /\ KindOf(o) \in {"array", "dict"} /\ (KindOf(o) = "dict") = IsMap(o) /\ IsMap(o) \in BOOLEAN
         /\ \A i \in 1 .. Size(o) :
              Child(o, i) \in C /\ (IsMap(o) => o.dict[i] \in Text \X C /\ Before(o, i) = EmitStr(o.dict[i][1]))
              /\ (~ IsMap(o) => Before(o, i) = <<>> /\ Child(o, i) = o.array[i])
              /\ (IsMap(o) => Child(o, i) = o.dict[i][2])
         /\ (IsMap(o) => o = [dict |-> o.dict] /\ o.dict \in Seq(Text \X C) /\ Size(o) = Len(o.dict))
         /\ (~ IsMap(o) => o = [array |-> o.array] /\ o.array \in Seq(C) /\ Size(o) = Len(o.array))
<1>1. CASE /\ DOMAIN o = {"array"} /\ o = [array |-> o.array]
           /\ o.array \in Seq(C) /\ Len(o.array) < Limit
  <2>. DEFINE a == o.array  n == Len(a)
  <2>1. ~ IsMap(o) /\ Has(o, "array") /\ Size(o) = n /\ KindOf(o) = "array" /\ "array" # "dict"
    BY <1>1 DEF IsMap, Has, Size, KindOf
  <2>2. n \in Nat /\ n < Limit
    BY <1>1
  <2>3. Announces(EmitNode(o), "array", n)
    BY <1>1, <2>2, NodeIs, CountAnnounces
  <2>4. ASSUME NEW i \in 1 .. n PROVE Child(o, i) \in C /\ Before(o, i) = <<>> /\ Child(o, i) = o.array[i]
    <3>1. a[i] \in C
      BY <1>1
    <3>. QED
      BY <2>1, <3>1 DEF Child, Before
  <2>5. IsMap(o) \in BOOLEAN /\ (KindOf(o) = "dict") = IsMap(o)
    <3>1. IsMap(o) = FALSE
      BY <2>1 DEF IsMap, Has
    <3>2. (KindOf(o) = "dict") = FALSE
      BY <2>1
    <3>3. IsMap(o) \in BOOLEAN
      BY <3>1, Zenon
    <3>. QED
      BY <3>1, <3>2, <3>3, Zenon
  <2>. QED
    BY <1>1, <2>1, <2>2, <2>3, <2>4, <2>5
<1>2. CASE /\ DOMAIN o = {"dict"} /\ o = [dict |-> o.dict]
           /\ o.dict \in Seq(Text \X C) /\ Len(o.dict) < Limit
  <2>. DEFINE a == o.dict  n == Len(a)
  <2>1. IsMap(o) /\ ~ Has(o, "array") /\ Size(o) = n /\ KindOf(o) = "dict"
    BY <1>2 DEF IsMap, Has, Size, KindOf
  <2>2. n \in Nat /\ n < Limit
    BY <1>2
  <2>3. Announces(EmitNode(o), "dict", n)
    BY <1>2, <2>2, NodeIs, CountAnnounces
  <2>4. ASSUME NEW i \in 1 .. n
        PROVE  /\ Child(o, i) \in C /\ Before(o, i) = EmitStr(o.dict[i][1])
               /\ o.dict[i] \in Text \X C /\ Child(o, i) = o.dict[i][2]
    <3>1. a[i] \in Text \X C
      BY <1>2
    <3>. QED
      BY <2>1, <3>1 DEF Child, Before
  <2>5. IsMap(o) \in BOOLEAN /\ (KindOf(o) = "dict") = IsMap(o)
    BY <2>1, Zenon DEF IsMap, Has
  <2>. QED
    BY <1>2, <2>1, <2>2, <2>3, <2>4, <2>5
<1>. QED
  BY <1>1, <1>2, ContainerIs
---------------------------------------------------------------------------
(* What the walk makes of an encoding.                                     *)

LEMMA ScalarObject ==
  ASSUME NEW h \in Nat, NEW o \in Scalars
  PROVE  o \in Object[h]
<1>1. CASE h = 0
  BY <1>1, ObjectStep
<1>2. CASE h # 0
  <2>1. h - 1 \in Nat /\ (h - 1) + 1 = h
    BY <1>2
  <2>2. Object[(h - 1) + 1] = Scalars \cup Containers(Object[h - 1])
    BY <2>1, ObjectStep
  <2>. QED
    BY <2>1, <2>2
<1>. QED
  BY <1>1, <1>2

LEMMA ScalarSize == ASSUME NEW o \in Scalars PROVE Size(o) = 0 /\ ~ Has(o, "array") /\ ~ Has(o, "dict")
<1>1. ~ Has(o, "array") /\ ~ Has(o, "dict")
  <2>1. CASE o = [nil |-> 0]
    <3>1. DOMAIN o = {"nil"}
      BY <2>1
    <3>. QED
      BY <3>1 DEF Has
  <2>2. CASE o \in [boolean : BOOLEAN]
    <3>1. DOMAIN o = {"boolean"}
      BY <2>2
    <3>. QED
      BY <3>1 DEF Has
  <2>3. CASE o \in [integer : Bytes8]
    <3>1. DOMAIN o = {"integer"}
      BY <2>3
    <3>. QED
      BY <3>1 DEF Has
  <2>4. CASE o \in [floating : Bytes8]
    <3>1. DOMAIN o = {"floating"}
      BY <2>4
    <3>. QED
      BY <3>1 DEF Has
  <2>5. CASE o \in [string : Text]
    <3>1. DOMAIN o = {"string"}
      BY <2>5
    <3>. QED
      BY <3>1 DEF Has
  <2>. QED
    BY <2>1, <2>2, <2>3, <2>4, <2>5 DEF Scalars
<1>2. Size(o) = 0
  BY <1>1 DEF Size
<1>. QED
  BY <1>1, <1>2

LEMMA ContainerNotScalar == ASSUME NEW C, NEW o \in Containers(C) PROVE o \notin Scalars
<1>1. Has(o, "array") \/ Has(o, "dict")
  BY ContainerIs DEF Has
<1>. QED
  BY <1>1, ScalarSize

LEMMA ScalarEncoded ==
  ASSUME NEW h \in Nat, NEW o \in Scalars PROVE Encoding[h][o] = EmitNode(o)
<1>1. CASE h = 0
  BY <1>1, EncodingStep
<1>2. CASE h # 0
  <2>1. h - 1 \in Nat /\ (h - 1) + 1 = h
    BY <1>2
  <2>2. Encoding[(h - 1) + 1][o] = Preorder(o, Encoding[h - 1])
    <3>1. o \in Object[(h - 1) + 1]
      BY <2>1, ScalarObject
    <3>. QED
      BY <2>1, <3>1, EncodingStep
  <2>3. Size(o) = 0 /\ Size(o) \in Nat
    BY ScalarSize
  <2>4. Preorder(o, Encoding[h - 1]) = EmitNode(o)
    <3>. DEFINE e == Encoding[h - 1]
    <3>. HIDE DEF e
    <3>1. Preorder(o, e) = Parts(e, o)[Size(o)] /\ Parts(e, o)[0] = EmitNode(o)
      BY <2>3, PartsIs
    <3>. QED
      BY <2>3, <3>1 DEF e
  <2>. QED
    BY <2>1, <2>2, <2>4
<1>. QED
  BY <1>1, <1>2

(* An Object is a scalar, or a container of Objects one level less deep. *)
LEMMA ObjectCases ==
  ASSUME NEW h \in Nat, NEW o \in Object[h]
  PROVE  \/ o \in Scalars
         \/ /\ h # 0 /\ h - 1 \in Nat /\ o \in Containers(Object[h - 1])
            /\ Encoding[h][o] = Parts(Encoding[h - 1], o)[Size(o)]
<1>1. CASE h = 0
  BY <1>1, ObjectStep
<1>2. CASE h # 0
  <2>1. h - 1 \in Nat /\ (h - 1) + 1 = h
    BY <1>2
  <2>2. Object[(h - 1) + 1] = Scalars \cup Containers(Object[h - 1])
        /\ Encoding[(h - 1) + 1][o] = Preorder(o, Encoding[h - 1])
    <3>1. o \in Object[(h - 1) + 1]
      BY <2>1
    <3>. QED
      BY <2>1, <3>1, ObjectStep, EncodingStep
  <2>3. ASSUME o \in Containers(Object[h - 1])
        PROVE  Preorder(o, Encoding[h - 1]) = Parts(Encoding[h - 1], o)[Size(o)]
    <3>1. Size(o) \in Nat
      BY <2>3, ContainerFacts
    <3>. QED
      BY <3>1, PartsIs
  <2>. QED
    BY <1>2, <2>1, <2>2, <2>3
<1>. QED
  BY <1>1, <1>2

(* A container is within h levels when its children are within h - 1. *)
LEMMA ContainerWithin ==
  ASSUME NEW C, NEW o \in Containers(C), NEW h \in Nat
  PROVE  /\ o \notin Object[0]
         /\ o \in Object[h + 1] <=> \A i \in 1 .. Size(o) : Child(o, i) \in Object[h]
<1>1. o \notin Scalars
  BY ContainerNotScalar
<1>2. o \in Object[h + 1] <=> o \in Containers(Object[h])
  BY <1>1, ObjectStep
<1>3. o \in Containers(Object[h]) => \A i \in 1 .. Size(o) : Child(o, i) \in Object[h]
  BY ContainerFacts
<1>4. ASSUME \A i \in 1 .. Size(o) : Child(o, i) \in Object[h] PROVE o \in Containers(Object[h])
  <2>1. CASE /\ DOMAIN o = {"array"} /\ o = [array |-> o.array]
             /\ o.array \in Seq(C) /\ Len(o.array) < Limit
    <3>. DEFINE a == o.array
    <3>1. Size(o) = Len(a) /\ \A i \in 1 .. Len(a) : Child(o, i) = a[i]
      BY <2>1 DEF Size, Child, Has
    <3>2. \A i \in 1 .. Len(a) : a[i] \in Object[h]
      BY <1>4, <3>1
    <3>3. a \in Seq(C) /\ Len(a) < Limit /\ o = [array |-> a]
      BY <2>1
    <3>. HIDE DEF a
    <3>4. a \in Seq(Object[h])
      BY <3>2, <3>3
    <3>5. a \in {x \in Seq(Object[h]) : Short(x)}
      BY <3>3, <3>4 DEF Short
    <3>. QED
      BY <3>3, <3>5 DEF Containers
  <2>2. CASE /\ DOMAIN o = {"dict"} /\ o = [dict |-> o.dict]
             /\ o.dict \in Seq(Text \X C) /\ Len(o.dict) < Limit
    <3>. DEFINE a == o.dict
    <3>1. Size(o) = Len(a) /\ \A i \in 1 .. Len(a) : Child(o, i) = a[i][2]
      BY <2>2 DEF Size, Child, Has
    <3>2. \A i \in 1 .. Len(a) : a[i][2] \in Object[h]
      BY <1>4, <3>1
    <3>3. a \in Seq(Text \X C) /\ Len(a) < Limit /\ o = [dict |-> a]
      BY <2>2
    <3>. HIDE DEF a
    <3>4. \A i \in 1 .. Len(a) : a[i] \in Text \X Object[h]
      BY <3>2, <3>3
    <3>5. a \in Seq(Text \X Object[h])
      BY <3>3, <3>4
    <3>6. a \in {x \in Seq(Text \X Object[h]) : Short(x)}
      BY <3>3, <3>5 DEF Short
    <3>. QED
      BY <3>3, <3>6 DEF Containers
  <2>. QED
    BY <2>1, <2>2, ContainerIs
<1>. QED
  BY <1>1, <1>2, <1>3, <1>4, ObjectStep

(* Where the children are. *)
ByteString(s) == s \in Seq(Byte) /\ Len(s) \in Nat /\ Len(s) >= 1

LEMMA BytesOf == ASSUME NEW s, ByteString(s) PROVE s \in Seq(Byte) /\ Len(s) \in Nat /\ Len(s) >= 1
BY DEF ByteString

LEMMA BeforeBytes ==
  ASSUME NEW C, NEW o \in Containers(C), NEW i \in 1 .. Size(o)
  PROVE  Before(o, i) \in Seq(Byte) /\ Len(Before(o, i)) \in Nat
<1>1. CASE IsMap(o)
  <2>1. Before(o, i) = EmitStr(o.dict[i][1]) /\ o.dict[i] \in Text \X C
    BY <1>1, ContainerFacts
  <2>2. Reads(EmitStr(o.dict[i][1]), [string |-> o.dict[i][1]])
    BY <2>1, TextReads
  <2>. QED
    BY <2>1, <2>2 DEF Reads
<1>2. CASE ~ IsMap(o)
  <2>1. Before(o, i) = <<>>
    BY <1>2, ContainerFacts
  <2>. QED
    BY <2>1
<1>. QED
  BY <1>1, <1>2

LEMMA PartFacts ==
  ASSUME NEW C, NEW o \in Containers(C), NEW e, \A c \in C : ByteString(e[c])
  PROVE  \A i \in 0 .. Size(o) : /\ Parts(e, o)[i] \in Seq(Byte) /\ Len(Parts(e, o)[i]) \in Nat
                                 /\ Len(Parts(e, o)[i]) >= Len(EmitNode(o)) + i
                                 /\ Len(EmitNode(o)) \in Nat /\ Len(EmitNode(o)) >= 1
<1>. DEFINE n == Size(o)  p == Parts(e, o)  m == Len(EmitNode(o))
            good(i) == p[i] \in Seq(Byte) /\ Len(p[i]) \in Nat /\ Len(p[i]) >= m + i
            S == {i \in Nat : i <= n => good(i)}
<1>1. n \in Nat /\ EmitNode(o) \in Seq(Byte) /\ m \in Nat /\ m >= 1
  BY ContainerFacts, HeaderBytes
<1>2. p[0] = EmitNode(o) /\ \A i \in 1 .. n : p[i] = p[i - 1] \o Before(o, i) \o e[Child(o, i)]
  BY <1>1, PartsIs
<1>. HIDE DEF p
<1>3. 0 \in S
  BY <1>1, <1>2
<1>4. ASSUME NEW i \in Nat, i \in S PROVE i + 1 \in S
  <2>. SUFFICES ASSUME i + 1 <= n PROVE good(i + 1)
    OBVIOUS
  <2>. DEFINE j == i + 1  a == p[i]  b == Before(o, j)  c == e[Child(o, j)]
  <2>1. j \in 1 .. n /\ j - 1 = i /\ j \in Nat
    BY <1>1
  <2>2. a \in Seq(Byte) /\ Len(a) \in Nat /\ Len(a) >= m + i
    BY <1>1, <1>4
  <2>3. b \in Seq(Byte) /\ Len(b) \in Nat
    BY <2>1, BeforeBytes
  <2>4. c \in Seq(Byte) /\ Len(c) \in Nat /\ Len(c) >= 1
    <3>1. Child(o, j) \in C
      BY <2>1, ContainerFacts
    <3>. QED
      BY <3>1, BytesOf
  <2>5. p[j] = a \o b \o c
    BY <1>2, <2>1
  <2>. HIDE DEF a, b, c
  <2>6. a \o b \in Seq(Byte) /\ Len(a \o b) = Len(a) + Len(b)
    BY <2>2, <2>3, ConcatFacts
  <2>. DEFINE ab == a \o b
  <2>. HIDE DEF ab
  <2>7. ab \in Seq(Byte) /\ Len(ab) = Len(a) + Len(b)
    BY <2>6 DEF ab
  <2>8. ab \o c \in Seq(Byte) /\ Len(ab \o c) = Len(ab) + Len(c)
    BY <2>4, <2>7, ConcatFacts
  <2>9. p[j] = ab \o c
    BY <2>5 DEF ab
  <2>10. p[j] \in Seq(Byte) /\ Len(p[j]) = Len(a) + Len(b) + Len(c)
    BY <2>7, <2>8, <2>9
  <2>11. Len(p[j]) \in Nat /\ Len(p[j]) >= m + j
    <3>. HIDE DEF m
    <3>. QED
      BY <1>1, <2>2, <2>3, <2>4, <2>10
  <2>. QED
    BY <2>10, <2>11
<1>. HIDE DEF S
<1>5. \A i \in Nat : i \in S
  BY <1>3, <1>4, SetInduction
<1>6. ASSUME NEW i \in 0 .. n PROVE good(i)
  <2>1. i \in Nat /\ i <= n /\ i \in S
    BY <1>1, <1>5
  <2>. QED
    BY <2>1 DEF S
<1>. QED
  BY <1>1, <1>6 DEF p

LEMMA EncodingBytes ==
  \A h \in Nat : \A o \in Object[h] : ByteString(Encoding[h][o])
<1>. DEFINE S == {h \in Nat : \A o \in Object[h] : ByteString(Encoding[h][o])}
<1>1. ASSUME NEW h \in Nat, NEW o \in Object[h], o \in Scalars PROVE ByteString(Encoding[h][o])
  <2>1. Encoding[h][o] = EmitNode(o)
    BY <1>1, ScalarEncoded
  <2>2. Reads(EmitNode(o), o)
    BY <1>1, ScalarReads
  <2>. QED
    BY <2>1, <2>2 DEF Reads, ByteString
<1>2. 0 \in S
  <2>1. \A o \in Object[0] : o \in Scalars
    BY ObjectStep
  <2>. QED
    BY <1>1, <2>1
<1>3. ASSUME NEW h \in Nat, h \in S PROVE h + 1 \in S
  <2>1. h + 1 \in Nat /\ (h + 1) - 1 = h
    OBVIOUS
  <2>2. ASSUME NEW o \in Object[h + 1] PROVE ByteString(Encoding[h + 1][o])
    <3>1. CASE o \in Scalars
      BY <1>1, <2>1, <3>1
    <3>2. CASE o \notin Scalars
      <4>1. o \in Containers(Object[h]) /\ Encoding[h + 1][o] = Parts(Encoding[h], o)[Size(o)]
        BY <2>1, <3>2, ObjectCases
      <4>2. \A c \in Object[h] : ByteString(Encoding[h][c])
        BY <1>3
      <4>3. Size(o) \in Nat /\ Size(o) \in 0 .. Size(o)
        <5>1. Size(o) \in Nat
          BY <4>1, ContainerFacts
        <5>. QED
          BY <5>1
      <4>. DEFINE x == Parts(Encoding[h], o)[Size(o)]
      <4>4. x \in Seq(Byte) /\ Len(x) \in Nat /\ Len(x) >= Len(EmitNode(o)) + Size(o)
            /\ Len(EmitNode(o)) \in Nat /\ Len(EmitNode(o)) >= 1
        BY <4>1, <4>2, <4>3, PartFacts
      <4>. HIDE DEF x
      <4>5. Len(x) >= 1
        BY <4>3, <4>4
      <4>6. ByteString(x)
        BY <4>4, <4>5 DEF ByteString
      <4>. QED
        BY <4>1, <4>6 DEF x
    <3>. QED
      BY <3>1, <3>2
  <2>. QED
    BY <2>1, <2>2
<1>. HIDE DEF S
<1>4. \A h \in Nat : h \in S
  BY <1>2, <1>3, SetInduction
<1>. QED
  BY <1>4 DEF S
(* Behind the first i - 1 children of o are the i-th's key and its bytes. *)
PartAt(e, o, i, d, p) ==
  LET q == p + Len(Parts(e, o)[i - 1])
      r == q + Len(Before(o, i))
  IN  /\ At(d, q, Before(o, i)) /\ At(d, r, e[Child(o, i)])
      /\ q \in Nat /\ r \in Nat /\ p + Len(Parts(e, o)[i]) = r + Len(e[Child(o, i)])

LEMMA PartStep ==
  ASSUME NEW C, NEW o \in Containers(C), NEW e, \A c \in C : ByteString(e[c]), NEW i \in 1 .. Size(o),
         NEW d \in Seq(Byte), NEW p \in Nat, At(d, p, Parts(e, o)[i])
  PROVE  At(d, p, Parts(e, o)[i - 1]) /\ PartAt(e, o, i, d, p)
<1>. DEFINE a == Parts(e, o)[i - 1]  b == Before(o, i)  c == e[Child(o, i)]  ab == a \o b  x == Parts(e, o)[i]
<1>1. Size(o) \in Nat /\ i - 1 \in 0 .. Size(o)
  <2>1. Size(o) \in Nat
    BY ContainerFacts
  <2>. QED
    BY <2>1
<1>2. a \in Seq(Byte) /\ Len(a) \in Nat
  BY <1>1, PartFacts
<1>3. b \in Seq(Byte) /\ Len(b) \in Nat
  BY BeforeBytes
<1>4. c \in Seq(Byte) /\ Len(c) \in Nat
  <2>1. Child(o, i) \in C
    BY ContainerFacts
  <2>. QED
    BY <2>1, BytesOf
<1>5. x = ab \o c
  BY <1>1, PartsIs
<1>6. At(d, p, x)
  OBVIOUS
<1>. HIDE DEF a, b, c, x
<1>7. ab \in Seq(Byte) /\ Len(ab) = Len(a) + Len(b)
  BY <1>2, <1>3, ConcatFacts
<1>9. At(d, p, ab) /\ At(d, p + Len(ab), c) /\ Len(x) = Len(ab) + Len(c)
  <2>. HIDE DEF ab
  <2>1. At(d, p, ab \o c)
    BY <1>5, <1>6
  <2>2. At(d, p, ab) /\ At(d, p + Len(ab), c)
    BY <1>4, <1>7, <2>1, AtParts
  <2>3. Len(ab \o c) = Len(ab) + Len(c)
    BY <1>4, <1>7, ConcatFacts
  <2>. QED
    BY <1>5, <2>2, <2>3
<1>10. At(d, p, a) /\ At(d, p + Len(a), b)
  BY <1>2, <1>3, <1>9, AtParts
<1>. DEFINE q == p + Len(a)  r == q + Len(b)
<1>11. q \in Nat /\ r \in Nat /\ p + Len(ab) = r /\ p + Len(x) = r + Len(c)
  <2>1. Len(x) = Len(a) + Len(b) + Len(c)
    BY <1>7, <1>9
  <2>2. Len(ab) = Len(a) + Len(b)
    BY <1>7
  <2>. HIDE DEF ab
  <2>. QED
    BY <1>2, <1>3, <1>4, <2>1, <2>2
<1>12. At(d, r, c)
  BY <1>9, <1>11
<1>. QED
  BY <1>10, <1>11, <1>12 DEF a, b, c, x, PartAt

LEMMA PartsAt ==
  ASSUME NEW C, NEW o \in Containers(C), NEW e, \A c \in C : ByteString(e[c]),
         NEW d \in Seq(Byte), NEW p \in Nat, At(d, p, Parts(e, o)[Size(o)])
  PROVE  \A i \in 0 .. Size(o) : At(d, p, Parts(e, o)[i])
<1>. DEFINE n == Size(o)  x == Parts(e, o)
            S == {j \in Nat : j <= n => At(d, p, x[n - j])}
<1>1. n \in Nat
  BY ContainerFacts
<1>2. 0 \in S
  <2>1. n - 0 = n
    BY <1>1
  <2>. QED
    BY <2>1
<1>3. ASSUME NEW j \in Nat, j \in S PROVE j + 1 \in S
  <2>. SUFFICES ASSUME j + 1 <= n PROVE At(d, p, x[n - (j + 1)])
    OBVIOUS
  <2>. DEFINE i == n - j
  <2>1. i \in 1 .. n /\ n - (j + 1) = i - 1 /\ j <= n
    BY <1>1
  <2>2. At(d, p, x[i])
    BY <1>3, <2>1
  <2>. HIDE DEF i
  <2>3. At(d, p, x[i - 1])
    BY <2>1, <2>2, PartStep
  <2>. QED
    BY <2>1, <2>3
<1>. HIDE DEF S
<1>4. \A j \in Nat : j \in S
  BY <1>2, <1>3, SetInduction
<1>5. ASSUME NEW i \in 0 .. n PROVE At(d, p, x[i])
  <2>1. n - i \in Nat /\ n - (n - i) = i /\ n - i <= n /\ n - i \in S
    <3>1. n - i \in Nat /\ n - (n - i) = i /\ n - i <= n
      BY <1>1
    <3>. QED
      BY <1>4, <3>1
  <2>2. \A j \in S : j <= n => At(d, p, x[n - j])
    BY DEF S
  <2>3. At(d, p, x[n - (n - i)])
    BY <2>1, <2>2
  <2>. QED
    BY <2>1, <2>3
<1>. QED
  BY <1>5

(* The beginnings of a sequence. *)
LEMMA Beginnings ==
  ASSUME NEW X, NEW x \in Seq(X)
  PROVE  /\ SubSeq(x, 1, 0) = <<>> /\ SubSeq(x, 1, Len(x)) = x
         /\ \A i \in 0 .. Len(x) : SubSeq(x, 1, i) \in Seq(X) /\ Len(SubSeq(x, 1, i)) = i
         /\ \A i \in 1 .. Len(x) : SubSeq(x, 1, i) = Append(SubSeq(x, 1, i - 1), x[i])
<1>1. Len(x) \in Nat
  OBVIOUS
<1>2. ASSUME NEW i \in 0 .. Len(x)
      PROVE  /\ SubSeq(x, 1, i) \in Seq(X) /\ Len(SubSeq(x, 1, i)) = i
             /\ \A j \in 1 .. i : SubSeq(x, 1, i)[j] = x[j]
  <2>1. 0 \in Nat /\ i \in Nat /\ 0 <= i /\ i <= Len(x) /\ 0 + 1 = 1 /\ i - 0 = i
        /\ \A j \in 1 .. i : 0 + j = j
    BY <1>1
  <2>2. /\ SubSeq(x, 0 + 1, i) \in Seq(X) /\ Len(SubSeq(x, 0 + 1, i)) = i - 0
        /\ \A j \in 1 .. i - 0 : SubSeq(x, 0 + 1, i)[j] = x[0 + j]
    BY <2>1, SubSeqFacts
  <2>. QED
    BY <2>1, <2>2
<1>3. SubSeq(x, 1, 0) = <<>>
  <2>1. 0 \in 0 .. Len(x)
    BY <1>1
  <2>2. SubSeq(x, 1, 0) \in Seq(X) /\ Len(SubSeq(x, 1, 0)) = 0
    BY <1>2, <2>1
  <2>. QED
    BY <2>2
<1>4. SubSeq(x, 1, Len(x)) = x
  <2>. DEFINE y == SubSeq(x, 1, Len(x))
  <2>1. Len(x) \in 0 .. Len(x)
    BY <1>1
  <2>2. y \in Seq(X) /\ Len(y) = Len(x) /\ \A j \in 1 .. Len(x) : y[j] = x[j]
    BY <1>2, <2>1
  <2>. HIDE DEF y
  <2>3. y = x
    BY <2>2
  <2>. QED
    BY <2>3 DEF y
<1>5. ASSUME NEW i \in 1 .. Len(x) PROVE SubSeq(x, 1, i) = Append(SubSeq(x, 1, i - 1), x[i])
  <2>. DEFINE y == SubSeq(x, 1, i)  z == SubSeq(x, 1, i - 1)  v == Append(z, x[i])
  <2>1. i \in 0 .. Len(x) /\ i - 1 \in 0 .. Len(x) /\ i - 1 \in Nat /\ i \in Nat /\ (i - 1) + 1 = i
    BY <1>1
  <2>2. y \in Seq(X) /\ Len(y) = i /\ \A j \in 1 .. i : y[j] = x[j]
    BY <1>2, <2>1
  <2>3. z \in Seq(X) /\ Len(z) = i - 1 /\ \A j \in 1 .. i - 1 : z[j] = x[j]
    BY <1>2, <2>1
  <2>. HIDE DEF y, z
  <2>4. x[i] \in X
    OBVIOUS
  <2>5. v \in Seq(X) /\ Len(v) = i /\ v[i] = x[i] /\ \A j \in 1 .. i - 1 : v[j] = z[j]
    BY <2>1, <2>3, <2>4
  <2>. HIDE DEF v
  <2>6. y = v
    <3>1. ASSUME NEW j \in 1 .. i PROVE y[j] = v[j]
      <4>1. CASE j = i
        BY <2>2, <2>5, <4>1
      <4>2. CASE j # i
        <5>1. j \in 1 .. i - 1
          BY <2>1, <4>2
        <5>. QED
          BY <2>2, <2>3, <2>5, <5>1
      <4>. QED
        BY <4>1, <4>2
    <3>. QED
      BY <2>2, <2>5, <3>1
  <2>. QED
    BY <2>6 DEF y, z, v
<1>. QED
  BY <1>2, <1>3, <1>4, <1>5

(* A frame with some items, and a key that awaits its value or none. *)
Slot(is_map, n, items, key) == [is_map |-> is_map, n |-> n, items |-> items, key |-> key]

LEMMA SlotFields ==
  ASSUME NEW m, NEW n, NEW x, NEW y
  PROVE  Slot(m, n, x, y).is_map = m /\ Slot(m, n, x, y).n = n /\ Slot(m, n, x, y).items = x
         /\ Slot(m, n, x, y).key = y
BY Zenon DEF Slot

LEMMA SlotKey ==
  ASSUME NEW m, NEW n, NEW x, NEW y, NEW k
  PROVE  WithKey(Slot(m, n, x, y), k) = Slot(m, n, x, <<k>>)
BY DEF Slot, WithKey

LEMMA FilledIs ==
  ASSUME NEW f, NEW c
  PROVE  /\ f.is_map = TRUE => Filled(f, c) = [f EXCEPT !.items = Append(f.items, <<f.key[1], c>>), !.key = <<>>]
                               /\ Container(f) = [dict |-> f.items]
         /\ f.is_map = FALSE => Filled(f, c) = [f EXCEPT !.items = Append(f.items, c)]
                                /\ Container(f) = [array |-> f.items]
BY DEF Filled, Container

(* What is_map is, kept from the provers as a formula. *)
IsTrue(m) == m = TRUE
IsFalse(m) == m = FALSE

LEMMA SlotMap ==
  ASSUME NEW m, NEW n, NEW x, NEW k, NEW c
  PROVE  IsTrue(m) =>
           /\ Filled(Slot(m, n, x, <<k>>), c) = Slot(m, n, Append(x, <<k, c>>), <<>>)
           /\ Container(Slot(m, n, x, <<>>)) = [dict |-> x]
<1>. DEFINE z == <<>>  f == Slot(m, n, x, <<k>>)  y == Append(x, <<k, c>>)  g == Slot(m, n, x, z)
<1>. HIDE DEF z
<1>1. f.is_map = m /\ f.items = x /\ f.key = <<k>> /\ g.is_map = m /\ g.items = x
  BY SlotFields
<1>2. <<k>>[1] = k
  OBVIOUS
<1>3. [f EXCEPT !.items = y, !.key = z] = Slot(m, n, y, z)
  <2>. DEFINE q == <<k>>
  <2>0. f = Slot(m, n, x, q)
    OBVIOUS
  <2>. HIDE DEF q, y, f
  <2>1. [f EXCEPT !.items = y] = Slot(m, n, y, q)
    <3>1. [Slot(m, n, x, q) EXCEPT !.items = y] = Slot(m, n, y, q)
      BY DEF Slot
    <3>. QED
      BY <2>0, <3>1
  <2>2. [Slot(m, n, y, q) EXCEPT !.key = z] = Slot(m, n, y, z)
    BY DEF Slot
  <2>. QED
    BY <2>1, <2>2
<1>. HIDE DEF f, g
<1>. SUFFICES ASSUME m = TRUE
              PROVE  Filled(f, c) = Slot(m, n, y, z) /\ Container(g) = [dict |-> x]
  BY DEF f, g, z, IsTrue
<1>4. f.is_map = TRUE /\ g.is_map = TRUE
  BY <1>1, Zenon
<1>5. f.key[1] = k
  BY <1>1, <1>2, Zenon
<1>6. Filled(f, c) = [f EXCEPT !.items = Append(f.items, <<f.key[1], c>>), !.key = <<>>]
  BY <1>4, FilledIs, Zenon
<1>7. Filled(f, c) = [f EXCEPT !.items = y, !.key = z]
  BY <1>1, <1>5, <1>6, Zenon DEF z
<1>8. Container(g) = [dict |-> g.items]
  BY <1>4, FilledIs, Zenon
<1>9. Container(g) = [dict |-> x]
  BY <1>1, <1>8, Zenon
<1>. QED
  BY <1>3, <1>7, <1>9, Zenon

LEMMA SlotArray ==
  ASSUME NEW m, NEW n, NEW x, NEW c
  PROVE  IsFalse(m) =>
           /\ Filled(Slot(m, n, x, <<>>), c) = Slot(m, n, Append(x, c), <<>>)
           /\ Container(Slot(m, n, x, <<>>)) = [array |-> x]
<1>. DEFINE z == <<>>  f == Slot(m, n, x, z)  y == Append(x, c)
<1>. HIDE DEF z
<1>1. f.is_map = m /\ f.items = x
  BY SlotFields
<1>2. [f EXCEPT !.items = y] = Slot(m, n, y, z)
  <2>. HIDE DEF y
  <2>. QED
    BY DEF Slot
<1>. HIDE DEF f
<1>. SUFFICES ASSUME m = FALSE
              PROVE  Filled(f, c) = Slot(m, n, y, z) /\ Container(f) = [array |-> x]
  BY DEF f, z, IsFalse
<1>3. f.is_map = FALSE
  BY <1>1, Zenon
<1>4. Filled(f, c) = [f EXCEPT !.items = Append(f.items, c)]
  BY <1>3, FilledIs, Zenon
<1>5. Filled(f, c) = [f EXCEPT !.items = y]
  BY <1>1, <1>4, Zenon
<1>6. Container(f) = [array |-> f.items]
  BY <1>3, FilledIs, Zenon
<1>7. Container(f) = [array |-> x]
  BY <1>1, <1>6, Zenon
<1>. QED
  BY <1>2, <1>5, <1>7, Zenon

LEMMA SlotOpened ==
  ASSUME NEW m, NEW n, NEW p PROVE Frame(Opening(m, n, p)) = Slot(m, n, <<>>, <<>>)
BY VerdictFields DEF Frame, Slot

Reached(d, x) == \E k \in Nat : Walk(d)[k] = x

LEMMA ReachedNext == ASSUME NEW d, NEW x, Reached(d, x) PROVE Reached(d, Iterate(d, x))
<1>1. PICK k \in Nat : Walk(d)[k] = x
  BY DEF Reached
<1>2. Walk(d)[k + 1] = Iterate(d, x) /\ k + 1 \in Nat
  BY <1>1, WalkStep
<1>. QED
  BY <1>2 DEF Reached

(* A frame about to be given its next value gets to read it. *)
LEMMA ReachedValue ==
  ASSUME NEW d, NEW S, IsSeq(S), NEW f, NEW p, Reached(d, Walking(Append(S, f), p)),
         Len(f.items) # f.n, ~ AwaitsKey(f)
  PROVE  Reached(d, Fill(Append(S, f), ReadInto(d, p, Len(S) + 1)))
<1>. DEFINE w == Walking(Append(S, f), p)
<1>1. w.st = "walk" /\ w.stack = Append(S, f) /\ w.pos = p
  BY WalkFields
<1>2. Last(Append(S, f)) = f /\ Len(Append(S, f)) = Len(S) + 1
  BY SeqGrows
<1>3. Iterate(d, w) = Fill(Append(S, f), ReadInto(d, p, Len(S) + 1))
  <2>. HIDE DEF w
  <2>. QED
    BY <1>1, <1>2, IterateValue
<1>. QED
  BY <1>3, ReachedNext

LEMMA ReachedKey ==
  ASSUME NEW d, NEW S, IsSeq(S), NEW f, NEW p, Reached(d, Walking(Append(S, f), p)),
         Len(f.items) # f.n, AwaitsKey(f), NEW k, NEW q, ReadKey(d, p) = Complete([string |-> k], q)
  PROVE  Reached(d, Walking(Append(S, WithKey(f, k)), q))
<1>. DEFINE w == Walking(Append(S, f), p)  key == Complete([string |-> k], q)  o == [string |-> k]
<1>1. w.st = "walk" /\ w.stack = Append(S, f) /\ w.pos = p
  BY WalkFields
<1>2. Last(Append(S, f)) = f /\ Front(Append(S, f)) = S
  BY SeqGrows
<1>3. key.st = "ok" /\ key.obj = o /\ key.pos = q /\ o.string = k
  BY VerdictFields
<1>4. Iterate(d, w) = Walking(Append(S, WithKey(f, k)), q)
  <2>. HIDE DEF w
  <2>1. Iterate(d, w) = IF key.st # "ok" THEN key
          ELSE Walking(Append(Front(w.stack), WithKey(Last(w.stack), key.obj.string)), key.pos)
    BY <1>1, <1>2, IterateKey
  <2>. HIDE DEF key, o
  <2>. QED
    BY <1>1, <1>2, <1>3, <2>1
<1>. QED
  BY <1>4, ReachedNext

LEMMA ReachedFull ==
  ASSUME NEW d, NEW S, IsSeq(S), NEW f, NEW p, Reached(d, Walking(Append(S, f), p)), Len(f.items) = f.n
  PROVE  Reached(d, Fill(S, Complete(Container(f), p)))
<1>. DEFINE w == Walking(Append(S, f), p)
<1>1. w.st = "walk" /\ w.stack = Append(S, f) /\ w.pos = p
  BY WalkFields
<1>2. Last(Append(S, f)) = f /\ Front(Append(S, f)) = S
  BY SeqGrows
<1>3. Iterate(d, w) = Fill(S, Complete(Container(f), p))
  <2>. HIDE DEF w
  <2>. QED
    BY <1>1, <1>2, IterateFull
<1>. QED
  BY <1>3, ReachedNext

LEMMA FillsSlot ==
  ASSUME NEW S, IsSeq(S), NEW f, NEW c, NEW p
  PROVE  Fill(Append(S, f), Complete(c, p)) = Walking(Append(S, Filled(f, c)), p)
<1>. DEFINE r == Complete(c, p)  a == Append(S, f)
<1>1. r.st = "ok" /\ r.obj = c /\ r.pos = p
  BY VerdictFields
<1>2. Last(a) = f /\ Front(a) = S /\ a # <<>>
  BY SeqGrows
<1>. HIDE DEF r, a
<1>3. Fill(a, r) = Walking(Append(Front(a), Filled(Last(a), r.obj)), r.pos)
  BY <1>1, <1>2, FillSlot
<1>. QED
  BY <1>1, <1>2, <1>3 DEF r, a
Items(o) == IF IsMap(o) THEN o.dict ELSE o.array

(* The frame of container o with i items, and with the key of the next too. *)
FrameAt(o, i) == Slot(IsMap(o), Size(o), SubSeq(Items(o), 1, i), <<>>)
Ready(o, i) == IF IsMap(o) THEN WithKey(FrameAt(o, i - 1), o.dict[i][1]) ELSE FrameAt(o, i - 1)

LEMMA ItemsFacts ==
  ASSUME NEW C, NEW o \in Containers(C)
  PROVE  \E X : Items(o) \in Seq(X) /\ Size(o) = Len(Items(o)) /\ Size(o) \in Nat
<1>1. CASE IsMap(o)
  <2>1. o.dict \in Seq(Text \X C) /\ Size(o) = Len(o.dict) /\ Size(o) \in Nat
    BY <1>1, ContainerFacts
  <2>. QED
    BY <1>1, <2>1 DEF Items
<1>2. CASE ~ IsMap(o)
  <2>1. o.array \in Seq(C) /\ Size(o) = Len(o.array) /\ Size(o) \in Nat
    BY <1>2, ContainerFacts
  <2>. QED
    BY <1>2, <2>1 DEF Items
<1>. QED
  BY <1>1, <1>2

LEMMA SlotFrameFacts ==
  ASSUME NEW C, NEW o \in Containers(C)
  PROVE  /\ FrameAt(o, 0) = Slot(IsMap(o), Size(o), <<>>, <<>>)
         /\ \A i \in 0 .. Size(o) : Len(FrameAt(o, i).items) = i /\ FrameAt(o, i).n = Size(o)
                                    /\ (AwaitsKey(FrameAt(o, i)) <=> IsMap(o))
         /\ Container(FrameAt(o, Size(o))) = o
<1>. DEFINE x == Items(o)  n == Size(o)  m == IsMap(o)
<1>1. PICK X : x \in Seq(X) /\ n = Len(x) /\ n \in Nat
  BY ItemsFacts
<1>2. /\ SubSeq(x, 1, 0) = <<>> /\ SubSeq(x, 1, Len(x)) = x
      /\ \A i \in 0 .. Len(x) : Len(SubSeq(x, 1, i)) = i
  <2>. HIDE DEF x
  <2>. QED
    BY <1>1, Beginnings
<1>3. FrameAt(o, 0) = Slot(m, n, <<>>, <<>>)
  BY <1>2 DEF FrameAt
<1>4. ASSUME NEW i \in 0 .. n
      PROVE  Len(FrameAt(o, i).items) = i /\ FrameAt(o, i).n = n /\ (AwaitsKey(FrameAt(o, i)) <=> m)
  <2>. DEFINE f == FrameAt(o, i)  y == SubSeq(x, 1, i)
  <2>1. f = Slot(m, n, y, <<>>)
    BY DEF FrameAt
  <2>2. Len(y) = i
    BY <1>1, <1>2
  <2>. HIDE DEF f, y
  <2>3. f.is_map = m /\ f.n = n /\ f.items = y /\ f.key = <<>>
    <3>. HIDE DEF m, n
    <3>. QED
      BY <2>1, SlotFields
  <2>4. AwaitsKey(f) <=> m
    <3>. HIDE DEF m
    <3>. QED
      BY <2>3 DEF AwaitsKey
  <2>. QED
    BY <2>2, <2>3, <2>4 DEF f
<1>5. Container(FrameAt(o, n)) = o
  <2>1. FrameAt(o, n) = Slot(m, n, x, <<>>)
    BY <1>1, <1>2 DEF FrameAt
  <2>2. IsMap(o) \in BOOLEAN
    BY ContainerFacts
  <2>3. CASE IsMap(o) = TRUE
    <3>1. o = [dict |-> x]
      <4>1. o = [dict |-> o.dict]
        BY <2>3, ContainerFacts
      <4>. QED
        BY <2>3, <4>1 DEF Items
    <3>. HIDE DEF x, n
    <3>2. Container(Slot(m, n, x, <<>>)) = [dict |-> x]
      <4>. HIDE DEF m
      <4>1. IsTrue(m) => Container(Slot(m, n, x, <<>>)) = [dict |-> x]
        BY SlotMap
      <4>. QED
        BY <2>3, <4>1 DEF m, IsTrue
    <3>. QED
      BY <2>1, <3>1, <3>2 DEF n, x
  <2>4. CASE IsMap(o) = FALSE
    <3>1. o = [array |-> x]
      <4>1. o = [array |-> o.array]
        BY <2>4, ContainerFacts
      <4>. QED
        BY <2>4, <4>1 DEF Items
    <3>. HIDE DEF x, n
    <3>2. Container(Slot(m, n, x, <<>>)) = [array |-> x]
      <4>. HIDE DEF m
      <4>1. IsFalse(m) => Container(Slot(m, n, x, <<>>)) = [array |-> x]
        BY SlotArray
      <4>. QED
        BY <2>4, <4>1 DEF m, IsFalse
    <3>. QED
      BY <2>1, <3>1, <3>2 DEF n, x
  <2>. QED
    BY <2>2, <2>3, <2>4, Zenon
<1>. QED
  BY <1>3, <1>4, <1>5

LEMMA ReadyFacts ==
  ASSUME NEW C, NEW o \in Containers(C), NEW i \in 1 .. Size(o)
  PROVE  /\ ~ AwaitsKey(Ready(o, i)) /\ Len(Ready(o, i).items) # Ready(o, i).n
         /\ Filled(Ready(o, i), Child(o, i)) = FrameAt(o, i)
<1>. DEFINE x == Items(o)  n == Size(o)  m == IsMap(o)  y == SubSeq(x, 1, i - 1)  j == i - 1
<1>1. PICK X : x \in Seq(X) /\ n = Len(x) /\ n \in Nat
  BY ItemsFacts
<1>2. i \in 1 .. Len(x) /\ j \in 0 .. n /\ j # n
  BY <1>1
<1>3. SubSeq(x, 1, i) = Append(y, x[i])
  <2>. HIDE DEF x
  <2>. QED
    BY <1>1, <1>2, Beginnings
<1>4. FrameAt(o, i - 1) = Slot(m, n, y, <<>>) /\ FrameAt(o, i) = Slot(m, n, Append(y, x[i]), <<>>)
  BY <1>3 DEF FrameAt
<1>5. Len(y) = j
  <2>1. \A k \in 0 .. Len(x) : Len(SubSeq(x, 1, k)) = k
    <3>. HIDE DEF x
    <3>. QED
      BY <1>1, Beginnings
  <2>. QED
    BY <1>1, <1>2, <2>1
<1>6. IsMap(o) \in BOOLEAN
  BY ContainerFacts
<1>7. CASE IsMap(o) = TRUE
  <2>. DEFINE key == o.dict[i][1]  c == Child(o, i)  f == Slot(m, n, y, <<key>>)
  <2>1. Ready(o, i) = WithKey(FrameAt(o, i - 1), key)
    BY <1>7 DEF Ready
  <2>2. x[i] = <<key, c>>
    <3>1. o.dict[i] \in Text \X C /\ c = o.dict[i][2]
      BY <1>7, ContainerFacts
    <3>2. x = o.dict
      BY <1>7 DEF Items
    <3>. QED
      BY <3>1, <3>2
  <2>. HIDE DEF x, n, y, key, c, m, j
  <2>3. Ready(o, i) = f
    BY <1>4, <2>1, SlotKey
  <2>4. f.n = n /\ f.items = y /\ f.key = <<key>>
    BY SlotFields
  <2>5. IsTrue(m) => Filled(f, c) = Slot(m, n, Append(y, <<key, c>>), <<>>)
    BY SlotMap
  <2>6. IsTrue(m)
    BY <1>7 DEF m, IsTrue
  <2>7. <<key>> # <<>>
    OBVIOUS
  <2>. HIDE DEF f
  <2>8. ~ AwaitsKey(f)
    BY <2>4, <2>7 DEF AwaitsKey
  <2>9. Filled(f, c) = FrameAt(o, i)
    BY <1>4, <2>2, <2>5, <2>6, Zenon
  <2>10. Len(f.items) # f.n
    BY <1>2, <1>5, <2>4
  <2>. QED
    BY <2>3, <2>8, <2>9, <2>10 DEF c
<1>8. CASE IsMap(o) = FALSE
  <2>. DEFINE c == Child(o, i)  f == Slot(m, n, y, <<>>)
  <2>1. Ready(o, i) = FrameAt(o, i - 1)
    BY <1>8 DEF Ready
  <2>2. x[i] = c
    <3>1. c = o.array[i]
      BY <1>8, ContainerFacts
    <3>2. x = o.array
      BY <1>8 DEF Items
    <3>. QED
      BY <3>1, <3>2
  <2>. HIDE DEF x, n, y, c, m, j
  <2>3. Ready(o, i) = f
    BY <1>4, <2>1
  <2>4. f.n = n /\ f.items = y /\ f.is_map = m
    BY SlotFields
  <2>5. IsFalse(m) => Filled(f, c) = Slot(m, n, Append(y, c), <<>>)
    BY SlotArray
  <2>6. IsFalse(m) /\ m = FALSE
    BY <1>8 DEF m, IsFalse
  <2>. HIDE DEF f
  <2>8. ~ AwaitsKey(f)
    <3>1. f.is_map = FALSE
      BY <2>4, <2>6, Zenon
    <3>. QED
      BY <3>1, Zenon DEF AwaitsKey
  <2>9. Filled(f, c) = FrameAt(o, i)
    BY <1>4, <2>2, <2>5, <2>6, Zenon
  <2>10. Len(f.items) # f.n
    BY <1>2, <1>5, <2>4
  <2>. QED
    BY <2>3, <2>8, <2>9, <2>10 DEF c
<1>. QED
  BY <1>6, <1>7, <1>8, Zenon

(* The next child, its key read, is read into the frame that awaits it. *)
LEMMA ChildStep ==
  ASSUME NEW C, NEW o \in Containers(C), NEW e, \A c \in C : ByteString(e[c]), NEW i \in 1 .. Size(o),
         NEW d \in Seq(Byte), NEW p \in Nat, At(d, p, Parts(e, o)[i]), NEW S, IsSeq(S),
         Reached(d, Walking(Append(S, FrameAt(o, i - 1)), p + Len(Parts(e, o)[i - 1])))
  PROVE  Reached(d, Fill(Append(S, Ready(o, i)),
                         ReadInto(d, p + Len(Parts(e, o)[i - 1]) + Len(Before(o, i)), Len(S) + 1)))
<1>. DEFINE q == p + Len(Parts(e, o)[i - 1])  b == Before(o, i)  r == q + Len(b)  f == FrameAt(o, i - 1)
<1>1. q \in Nat /\ At(d, q, b)
  <2>1. PartAt(e, o, i, d, p)
    BY PartStep
  <2>. QED
    BY <2>1 DEF PartAt
<1>. HIDE DEF q
<1>2. Len(f.items) # f.n /\ (AwaitsKey(f) <=> IsMap(o))
  <2>1. i - 1 \in 0 .. Size(o) /\ i - 1 # Size(o)
    <3>1. Size(o) \in Nat
      BY ContainerFacts
    <3>. QED
      BY <3>1
  <2>. DEFINE j == i - 1
  <2>. HIDE DEF j
  <2>2. j \in 0 .. Size(o) /\ j # Size(o)
    BY <2>1 DEF j
  <2>3. Len(FrameAt(o, j).items) = j /\ FrameAt(o, j).n = Size(o) /\ (AwaitsKey(FrameAt(o, j)) <=> IsMap(o))
    BY <2>2, SlotFrameFacts
  <2>. QED
    BY <2>2, <2>3 DEF j
<1>3. Reached(d, Walking(Append(S, f), q))
  BY DEF q
<1>4. Reached(d, Walking(Append(S, Ready(o, i)), r))
  <2>1. CASE IsMap(o)
    <3>. DEFINE key == o.dict[i][1]
    <3>1. b = EmitStr(key) /\ o.dict[i] \in Text \X C
      BY <2>1, ContainerFacts
    <3>2. key \in Text
      BY <3>1
    <3>3. ReadKey(d, q) = Complete([string |-> key], r)
      BY <1>1, <3>1, <3>2, ReadKeyText
    <3>4. Ready(o, i) = WithKey(f, key)
      BY <2>1 DEF Ready
    <3>5. AwaitsKey(f)
      BY <1>2, <2>1
    <3>. HIDE DEF f, r, key
    <3>6. Reached(d, Walking(Append(S, WithKey(f, key)), r))
      BY <1>2, <1>3, <3>3, <3>5, ReachedKey
    <3>. QED
      BY <3>4, <3>6
  <2>2. CASE ~ IsMap(o)
    <3>1. b = <<>>
      BY <2>2, ContainerFacts
    <3>2. r = q
      BY <1>1, <3>1
    <3>3. Ready(o, i) = f
      BY <2>2 DEF Ready
    <3>. QED
      BY <1>3, <3>2, <3>3
  <2>. QED
    BY <2>1, <2>2
<1>5. ~ AwaitsKey(Ready(o, i)) /\ Len(Ready(o, i).items) # Ready(o, i).n
  BY ReadyFacts
<1>6. Reached(d, Fill(Append(S, Ready(o, i)), ReadInto(d, r, Len(S) + 1)))
  <2>. DEFINE g == Ready(o, i)
  <2>. HIDE DEF g, r
  <2>1. Reached(d, Walking(Append(S, g), r)) /\ ~ AwaitsKey(g) /\ Len(g.items) # g.n
    BY <1>4, <1>5 DEF g
  <2>2. Reached(d, Fill(Append(S, g), ReadInto(d, r, Len(S) + 1)))
    BY <2>1, ReachedValue
  <2>. QED
    BY <2>2 DEF g
<1>. QED
  BY <1>6 DEF q
(* The walk takes o, all of its bytes, or it is an error when o is nested *)
(* deeper than the frames that are left.                                  *)
Taken(d, S, o, p) ==
  IF o \in Object[MarshalDepthCap - Len(S)] THEN Reached(d, Fill(S, Complete(o, p)))
  ELSE Reached(d, Malformed)

Takes(h, o) ==
  \A d \in Seq(Byte), p \in Nat : \A S :
    /\ IsSeq(S) /\ Len(S) <= MarshalDepthCap /\ At(d, p, Encoding[h][o])
    /\ Reached(d, Fill(S, ReadInto(d, p, Len(S))))
    => Taken(d, S, o, p + Len(Encoding[h][o]))

LEMMA ScalarTaken == ASSUME NEW h \in Nat, NEW o \in Scalars PROVE Takes(h, o)
<1>. SUFFICES ASSUME NEW d \in Seq(Byte), NEW p \in Nat, NEW S,
                     IsSeq(S), Len(S) <= MarshalDepthCap, At(d, p, Encoding[h][o]),
                     Reached(d, Fill(S, ReadInto(d, p, Len(S))))
              PROVE  Taken(d, S, o, p + Len(Encoding[h][o]))
  BY DEF Takes
<1>1. Encoding[h][o] = EmitNode(o)
  BY ScalarEncoded
<1>2. Len(S) \in Nat /\ MarshalDepthCap - Len(S) \in Nat
  <2>1. Len(S) \in Nat
    BY SeqGrows
  <2>. QED
    BY <2>1, MsgpackAssumption
<1>3. ReadInto(d, p, Len(S)) = Complete(o, p + Len(EmitNode(o)))
  <2>1. Reads(EmitNode(o), o) /\ At(d, p, EmitNode(o))
    BY <1>1, ScalarReads
  <2>. QED
    BY <1>2, <2>1 DEF Reads
<1>4. o \in Object[MarshalDepthCap - Len(S)]
  BY <1>2, ScalarObject
<1>. QED
  BY <1>1, <1>3, <1>4 DEF Taken

LEMMA OpenIs ==
  ASSUME NEW d, NEW p, NEW n, NEW m, NEW k
  PROVE  /\ ~ (n > Len(d) - p) /\ k >= MarshalDepthCap => Open(d, p, n, m, k) = Malformed
         /\ ~ (n > Len(d) - p) /\ ~ (k >= MarshalDepthCap) => Open(d, p, n, m, k) = Opening(m, n, p)
<1>1. ASSUME ~ (n > Len(d) - p), k >= MarshalDepthCap PROVE Open(d, p, n, m, k) = Malformed
  BY <1>1 DEF Open
<1>2. ASSUME ~ (n > Len(d) - p), ~ (k >= MarshalDepthCap) PROVE Open(d, p, n, m, k) = Opening(m, n, p)
  BY <1>2, Zenon DEF Open, Opening
<1>. QED
  BY <1>1, <1>2

LEMMA FillError == ASSUME NEW S PROVE Fill(S, Malformed) = Malformed
BY FillLast, VerdictFields, Statuses

(* The header of o, whose children follow, opens a frame, if there is one. *)
LEMMA ContainerOpens ==
  ASSUME NEW C, NEW o \in Containers(C), NEW e, \A c \in C : ByteString(e[c]),
         NEW d \in Seq(Byte), NEW p \in Nat, At(d, p, Parts(e, o)[Size(o)]), NEW k \in Nat
  PROVE  ReadInto(d, p, k) = IF k >= MarshalDepthCap THEN Malformed
                             ELSE Opening(IsMap(o), Size(o), p + Len(Parts(e, o)[0]))
<1>. DEFINE n == Size(o)  h == EmitNode(o)  x == Parts(e, o)  m == IsMap(o)  q == p + Len(h)
<1>1. n \in Nat /\ 0 \in 0 .. n /\ n \in 0 .. n
  <2>1. n \in Nat
    BY ContainerFacts
  <2>. QED
    BY <2>1
<1>2. x[0] = h
  BY <1>1, PartsIs
<1>3. At(d, p, h)
  BY <1>1, <1>2, PartsAt
<1>4. Len(x[n]) \in Nat /\ Len(x[n]) >= Len(h) + n /\ Len(h) \in Nat
  BY <1>1, PartFacts
<1>5. p + Len(x[n]) <= Len(d) /\ Len(d) \in Nat
  BY DEF At
<1>6. Announces(h, KindOf(o), n) /\ KindOf(o) \in {"array", "dict"} /\ (KindOf(o) = "dict") = IsMap(o)
  BY ContainerFacts
<1>. HIDE DEF h, n, x
<1>7. ReadInto(d, p, k) = Open(d, q, n, KindOf(o) = "dict", k)
  BY <1>3, <1>6, ReadOpening
<1>8. ReadInto(d, p, k) = Open(d, q, n, m, k)
  BY <1>6, <1>7, Zenon
<1>9. ~ (n > Len(d) - q)
  BY <1>1, <1>4, <1>5
<1>. HIDE DEF q, m
<1>10. CASE k >= MarshalDepthCap
  BY <1>8, <1>9, <1>10, OpenIs
<1>11. CASE ~ (k >= MarshalDepthCap)
  <2>1. Open(d, q, n, m, k) = Opening(m, n, q)
    BY <1>9, <1>11, OpenIs
  <2>2. p + Len(x[0]) = q
    BY <1>2 DEF q
  <2>. QED
    BY <1>8, <1>11, <2>1, <2>2 DEF m, n, x
<1>. QED
  BY <1>10, <1>11 DEF m, n, x, q

(* The children one by one. *)
Within(o, i, h) == \A j \in 1 .. i : Child(o, j) \in Object[h]

LEMMA ChildrenTaken ==
  ASSUME NEW h \in Nat, \A c \in Object[h] : Takes(h, c), NEW o \in Containers(Object[h]),
         NEW d \in Seq(Byte), NEW p \in Nat, At(d, p, Parts(Encoding[h], o)[Size(o)]),
         NEW S, IsSeq(S), Len(S) < MarshalDepthCap,
         Reached(d, Walking(Append(S, FrameAt(o, 0)), p + Len(Parts(Encoding[h], o)[0])))
  PROVE  \A i \in 0 .. Size(o) :
           IF Within(o, i, MarshalDepthCap - (Len(S) + 1))
           THEN Reached(d, Walking(Append(S, FrameAt(o, i)), p + Len(Parts(Encoding[h], o)[i])))
           ELSE Reached(d, Malformed)
<1>. DEFINE n == Size(o)  e == Encoding[h]  x == Parts(e, o)  g == MarshalDepthCap - (Len(S) + 1)
            on(i) == Reached(d, Walking(Append(S, FrameAt(o, i)), p + Len(x[i])))
            good(i) == IF Within(o, i, g) THEN on(i) ELSE Reached(d, Malformed)
            Q == {i \in Nat : i <= n => good(i)}
<1>0. \A c \in Object[h] : ByteString(e[c])
  BY EncodingBytes
<1>1. n \in Nat /\ Len(S) \in Nat
  <2>1. n \in Nat
    BY ContainerFacts
  <2>2. Len(S) \in Nat
    BY SeqGrows
  <2>. QED
    BY <2>1, <2>2
<1>2. \A i \in 0 .. n : At(d, p, x[i])
  BY <1>0, PartsAt
<1>3. 0 \in Q
  <2>1. on(0)
    OBVIOUS
  <2>2. Within(o, 0, g)
    BY DEF Within
  <2>. HIDE DEF on
  <2>. QED
    BY <2>1, <2>2
<1>4. ASSUME NEW l \in Nat, l \in Q PROVE l + 1 \in Q
  <2>. SUFFICES ASSUME l + 1 <= n PROVE good(l + 1)
    OBVIOUS
  <2>. DEFINE i == l + 1
  <2>1. i \in 1 .. n /\ i - 1 = l /\ l <= n /\ i \in 0 .. n /\ i \in Nat
    BY <1>1
  <2>2. good(l)
    BY <1>4, <2>1
  <2>3. Within(o, i, g) <=> Within(o, l, g) /\ Child(o, i) \in Object[g]
    <3>1. \A j : j \in 1 .. i <=> j \in 1 .. l \/ j = i
      BY <2>1
    <3>. HIDE DEF i, g
    <3>. QED
      BY <3>1 DEF Within
  <2>4. CASE ~ Within(o, l, g)
    <3>. HIDE DEF on, g
    <3>. QED
      BY <2>2, <2>3, <2>4
  <2>5. CASE Within(o, l, g)
    <3>. DEFINE c == Child(o, i)  q == p + Len(x[l])  r == q + Len(Before(o, i))
                T == Append(S, Ready(o, i))  z == r + Len(e[c])
    <3>1. on(l)
      <4>. HIDE DEF on, g
      <4>. QED
        BY <2>2, <2>5
    <3>2. At(d, p, x[i])
      BY <1>2, <2>1
    <3>3. Reached(d, Fill(T, ReadInto(d, r, Len(S) + 1)))
      <4>. HIDE DEF i, e
      <4>1. Reached(d, Walking(Append(S, FrameAt(o, i - 1)), p + Len(Parts(e, o)[i - 1])))
        BY <2>1, <3>1
      <4>2. Reached(d, Fill(Append(S, Ready(o, i)),
                            ReadInto(d, p + Len(Parts(e, o)[i - 1]) + Len(Before(o, i)), Len(S) + 1)))
        BY <1>0, <2>1, <3>2, <4>1, ChildStep
      <4>. QED
        BY <2>1, <4>2
    <3>4. At(d, r, e[c]) /\ r \in Nat /\ p + Len(x[i]) = z
      <4>. HIDE DEF i, e
      <4>1. PartAt(e, o, i, d, p)
        BY <1>0, <2>1, <3>2, PartStep
      <4>. QED
        BY <2>1, <4>1 DEF PartAt
    <3>5. c \in Object[h]
      BY <2>1, ContainerFacts
    <3>6. IsSeq(T) /\ Len(T) = Len(S) + 1
      BY SeqGrows
    <3>7. Filled(Ready(o, i), c) = FrameAt(o, i)
      BY <2>1, ReadyFacts
    <3>8. Fill(T, Complete(c, z)) = Walking(Append(S, FrameAt(o, i)), z)
      <4>. DEFINE f == Ready(o, i)
      <4>. HIDE DEF z, c, f
      <4>1. Fill(Append(S, f), Complete(c, z)) = Walking(Append(S, Filled(f, c)), z)
        BY FillsSlot
      <4>. QED
        BY <3>7, <4>1 DEF f
    <3>9. Taken(d, T, c, z)
      <4>1. Takes(h, c)
        BY <3>5
      <4>2. Len(T) <= MarshalDepthCap
        <5>. HIDE DEF T
        <5>. QED
          BY <1>1, <3>6, MsgpackAssumption
      <4>. HIDE DEF T, c, r, i
      <4>3. Reached(d, Fill(T, ReadInto(d, r, Len(T))))
        BY <3>3, <3>6
      <4>. QED
        BY <3>4, <3>6, <4>1, <4>2, <4>3 DEF Takes
    <3>. HIDE DEF T, c, z, i
    <3>10. IF c \in Object[g] THEN Reached(d, Fill(T, Complete(c, z))) ELSE Reached(d, Malformed)
      BY <3>6, <3>9 DEF Taken
    <3>11. IF c \in Object[g] THEN on(i) ELSE Reached(d, Malformed)
      BY <3>4, <3>8, <3>10
    <3>. QED
      <4>1. c \in Object[g] <=> Within(o, i, g)
        BY <2>3, <2>5 DEF c, i
      <4>. HIDE DEF on, g
      <4>. QED
        BY <3>11, <4>1 DEF i
  <2>. QED
    BY <2>4, <2>5
<1>. HIDE DEF Q
<1>5. \A i \in Nat : i \in Q
  BY <1>3, <1>4, SetInduction
<1>6. ASSUME NEW i \in 0 .. n PROVE good(i)
  <2>1. i \in Nat /\ i <= n /\ i \in Q
    BY <1>1, <1>5
  <2>. HIDE DEF good
  <2>. QED
    BY <2>1 DEF Q
<1>. QED
  BY <1>6

LEMMA ContainerTaken ==
  ASSUME NEW h \in Nat, \A c \in Object[h] : Takes(h, c), NEW o \in Containers(Object[h]),
         Encoding[h + 1][o] = Parts(Encoding[h], o)[Size(o)]
  PROVE  Takes(h + 1, o)
<1>. SUFFICES ASSUME NEW d \in Seq(Byte), NEW p \in Nat, NEW S,
                     IsSeq(S), Len(S) <= MarshalDepthCap, At(d, p, Encoding[h + 1][o]),
                     Reached(d, Fill(S, ReadInto(d, p, Len(S))))
              PROVE  Taken(d, S, o, p + Len(Encoding[h + 1][o]))
  BY DEF Takes
<1>. DEFINE n == Size(o)  e == Encoding[h]  x == Parts(e, o)  k == Len(S)  m == IsMap(o)
<1>0. \A c \in Object[h] : ByteString(e[c])
  BY EncodingBytes
<1>1. n \in Nat /\ k \in Nat /\ n \in 0 .. n
  <2>1. n \in Nat
    BY ContainerFacts
  <2>2. k \in Nat
    BY SeqGrows
  <2>. QED
    BY <2>1, <2>2
<1>2. At(d, p, x[n])
  OBVIOUS
<1>3. ReadInto(d, p, k) = IF k >= MarshalDepthCap THEN Malformed ELSE Opening(m, n, p + Len(x[0]))
  <2>. HIDE DEF e, k
  <2>. QED
    BY <1>0, <1>1, <1>2, ContainerOpens
<1>4. CASE k >= MarshalDepthCap
  <2>1. MarshalDepthCap - k = 0
    BY <1>1, <1>4, MsgpackAssumption
  <2>2. o \notin Object[0]
    BY ContainerWithin
  <2>3. Reached(d, Malformed)
    BY <1>3, <1>4, FillError
  <2>. QED
    BY <2>1, <2>2, <2>3 DEF Taken
<1>5. CASE ~ (k >= MarshalDepthCap)
  <2>. DEFINE g == MarshalDepthCap - (k + 1)  r == Opening(m, n, p + Len(x[0]))
  <2>1. g \in Nat /\ MarshalDepthCap - k = g + 1 /\ k < MarshalDepthCap
    BY <1>1, <1>5, MsgpackAssumption
  <2>2. Fill(S, r) = Walking(Append(S, FrameAt(o, 0)), p + Len(x[0]))
    <3>1. r.st = "open" /\ r.pos = p + Len(x[0])
      BY VerdictFields
    <3>2. Frame(r) = FrameAt(o, 0)
      BY SlotFrameFacts, SlotOpened
    <3>. HIDE DEF r
    <3>. QED
      BY <3>1, <3>2, FillOpen
  <2>3. Reached(d, Walking(Append(S, FrameAt(o, 0)), p + Len(x[0])))
    <3>1. ReadInto(d, p, k) = r
      BY <1>3, <1>5
    <3>. HIDE DEF r, x, k
    <3>. QED
      BY <2>2, <3>1 DEF k
  <2>4. IF Within(o, n, g) THEN Reached(d, Walking(Append(S, FrameAt(o, n)), p + Len(x[n])))
        ELSE Reached(d, Malformed)
    BY <1>1, <1>2, <2>1, <2>3, ChildrenTaken
  <2>5. o \in Object[MarshalDepthCap - k] <=> Within(o, n, g)
    <3>1. o \in Object[g + 1] <=> \A i \in 1 .. Size(o) : Child(o, i) \in Object[g]
      <4>. HIDE DEF g
      <4>. QED
        BY <2>1, ContainerWithin
    <3>. HIDE DEF g, k
    <3>. QED
      BY <2>1, <3>1 DEF Within
  <2>6. ASSUME Reached(d, Walking(Append(S, FrameAt(o, n)), p + Len(x[n])))
        PROVE  Reached(d, Fill(S, Complete(o, p + Len(x[n]))))
    <3>. DEFINE f == FrameAt(o, n)  q == p + Len(x[n])
    <3>1. Len(f.items) = f.n /\ Container(f) = o
      BY <1>1, SlotFrameFacts
    <3>2. Reached(d, Walking(Append(S, f), q))
      BY <2>6
    <3>. HIDE DEF f, q
    <3>3. Reached(d, Fill(S, Complete(Container(f), q)))
      BY <3>1, <3>2, ReachedFull
    <3>. QED
      BY <3>1, <3>3 DEF q
  <2>. HIDE DEF g, x, n
  <2>7. IF o \in Object[MarshalDepthCap - k] THEN Reached(d, Fill(S, Complete(o, p + Len(x[n]))))
        ELSE Reached(d, Malformed)
    BY <2>4, <2>5, <2>6
  <2>8. Encoding[h + 1][o] = x[n]
    BY DEF x, n
  <2>. QED
    BY <2>7, <2>8 DEF Taken
<1>. QED
  BY <1>4, <1>5

LEMMA ObjectsTaken == \A h \in Nat : \A o \in Object[h] : Takes(h, o)
<1>. DEFINE S == {h \in Nat : \A o \in Object[h] : Takes(h, o)}
<1>1. 0 \in S
  <2>1. \A o \in Object[0] : o \in Scalars
    BY ObjectStep
  <2>. QED
    BY <2>1, ScalarTaken
<1>2. ASSUME NEW h \in Nat, h \in S PROVE h + 1 \in S
  <2>1. h + 1 \in Nat /\ (h + 1) - 1 = h
    OBVIOUS
  <2>2. ASSUME NEW o \in Object[h + 1] PROVE Takes(h + 1, o)
    <3>1. CASE o \in Scalars
      BY <2>1, <3>1, ScalarTaken
    <3>2. CASE o \notin Scalars
      <4>1. o \in Containers(Object[h]) /\ Encoding[h + 1][o] = Parts(Encoding[h], o)[Size(o)]
        BY <2>1, <3>2, ObjectCases
      <4>2. \A c \in Object[h] : Takes(h, c)
        BY <1>2
      <4>. QED
        BY <4>1, <4>2, ContainerTaken
    <3>. QED
      BY <3>1, <3>2
  <2>. QED
    BY <2>1, <2>2
<1>. HIDE DEF S
<1>3. \A h \in Nat : h \in S
  BY <1>1, <1>2, SetInduction
<1>. QED
  BY <1>3 DEF S
LEMMA ReachedVerdict ==
  ASSUME NEW d \in Seq(Byte), NEW v, Reached(d, v), v.st # "walk"
  PROVE  MsgpackToObject(d) = v
<1>1. PICK k \in Nat : Walk(d)[k] = v
  BY DEF Reached
<1>. QED
  BY <1>1, VerdictIs

(* What the encoder made of an Object, whatever follows it, is that Object; *)
(* or an error when the Object is nested deeper than the cap.              *)
THEOREM RoundTrip ==
  ASSUME NEW h \in Nat, NEW o \in Object[h], NEW t \in Seq(Byte)
  PROVE  LET e == Encoding[h][o] IN
         MsgpackToObject(e \o t) = IF o \in Object[MarshalDepthCap] THEN Complete(o, Len(e)) ELSE Malformed
<1>. DEFINE e == Encoding[h][o]  d == e \o t  z == <<>>
<1>1. e \in Seq(Byte) /\ Len(e) \in Nat
  <2>1. ByteString(Encoding[h][o])
    BY EncodingBytes
  <2>. QED
    BY <2>1, BytesOf
<1>2. d \in Seq(Byte) /\ At(d, 0, e)
  <2>. HIDE DEF e
  <2>1. /\ d \in Seq(Byte) /\ Len(d) = Len(e) + Len(t) /\ Len(t) \in Nat
        /\ \A i \in 1 .. Len(e) : d[i] = e[i]
    <3>1. Len(t) \in Nat
      OBVIOUS
    <3>. QED
      BY <1>1, <3>1, ConcatFacts
  <2>. HIDE DEF d
  <2>2. \A i \in 1 .. Len(e) : 0 + i = i
    OBVIOUS
  <2>3. 0 + Len(e) <= Len(d)
    BY <1>1, <2>1
  <2>. QED
    BY <2>1, <2>2, <2>3 DEF At
<1>3. IsSeq(z) /\ Len(z) = 0 /\ Len(z) <= MarshalDepthCap /\ MarshalDepthCap - Len(z) = MarshalDepthCap
  <2>1. Len(z) = 0
    OBVIOUS
  <2>. HIDE DEF z
  <2>2. Len(z) <= MarshalDepthCap /\ MarshalDepthCap - Len(z) = MarshalDepthCap
    BY <2>1, MsgpackAssumption
  <2>. QED
    BY <2>1, <2>2, NothingIsSeq DEF z
<1>. HIDE DEF e
<1>4. Reached(d, Fill(z, ReadInto(d, 0, Len(z))))
  <2>1. Walk(d)[0] = Fill(<<>>, ReadInto(d, 0, 0)) /\ 0 \in Nat
    BY WalkStep
  <2>2. Walk(d)[0] = Fill(z, ReadInto(d, 0, Len(z)))
    BY <1>3, <2>1
  <2>. QED
    BY <2>1, <2>2 DEF Reached
<1>. HIDE DEF d
<1>5. Taken(d, z, o, 0 + Len(e))
  <2>1. Takes(h, o)
    BY ObjectsTaken
  <2>. HIDE DEF z
  <2>2. 0 \in Nat
    OBVIOUS
  <2>. QED
    BY <1>2, <1>3, <1>4, <2>1, <2>2 DEF Takes, e
<1>6. 0 + Len(e) = Len(e)
  BY <1>1
<1>. DEFINE c == Complete(o, Len(e))
<1>7. Fill(z, c) = c /\ c.st # "walk" /\ Malformed.st # "walk"
  <2>0. c.st = "ok"
    BY VerdictFields
  <2>1. c.st = "ok" /\ Malformed.st = "error"
    BY <2>0 DEF Malformed
  <2>2. c.st # "open" /\ c.st # "walk" /\ Malformed.st # "walk"
    BY <2>1, Statuses
  <2>. HIDE DEF c
  <2>. QED
    BY <2>2, FillLast DEF z
<1>. HIDE DEF c, z
<1>8. IF o \in Object[MarshalDepthCap] THEN Reached(d, c) ELSE Reached(d, Malformed)
  BY <1>3, <1>5, <1>6, <1>7 DEF Taken, c
<1>9. MsgpackToObject(d) = IF o \in Object[MarshalDepthCap] THEN c ELSE Malformed
  BY <1>2, <1>7, <1>8, ReachedVerdict
<1>. QED
  BY <1>9 DEF c, d, e

(* Every proper prefix of an encoding is incomplete. *)
THEOREM PrefixIncomplete ==
  ASSUME NEW h \in Nat, NEW o \in Object[h], o \in Object[MarshalDepthCap],
         NEW n \in Nat, n < Len(Encoding[h][o])
  PROVE  MsgpackToObject(SubSeq(Encoding[h][o], 1, n)) = Incomplete
<1>. DEFINE e == Encoding[h][o]  s == SubSeq(e, 1, n)  r == SubSeq(e, n + 1, Len(e))
<1>1. e \in Seq(Byte) /\ Len(e) \in Nat /\ n <= Len(e)
  <2>1. ByteString(Encoding[h][o])
    BY EncodingBytes
  <2>2. e \in Seq(Byte) /\ Len(e) \in Nat
    BY <2>1, BytesOf
  <2>. QED
    BY <2>2
<1>. HIDE DEF e
<1>2. s \in Seq(Byte) /\ Len(s) = n
  <2>1. n \in 0 .. Len(e)
    BY <1>1
  <2>. QED
    BY <1>1, <2>1, Beginnings
<1>3. r \in Seq(Byte) /\ s \o r = e
  <2>1. r \in Seq(Byte) /\ Len(r) = Len(e) - n /\ \A i \in 1 .. Len(e) - n : r[i] = e[n + i]
    BY <1>1, TailFacts
  <2>2. \A i \in 1 .. n : s[i] = e[i]
    <3>1. 0 \in Nat /\ 0 <= n /\ 0 + 1 = 1 /\ n - 0 = n /\ \A i \in 1 .. n : 0 + i = i
      OBVIOUS
    <3>2. \A i \in 1 .. n - 0 : SubSeq(e, 0 + 1, n)[i] = e[0 + i]
      BY <1>1, <3>1, SubSeqFacts
    <3>. QED
      BY <3>1, <3>2
  <2>. HIDE DEF s, r
  <2>. DEFINE u == s \o r
  <2>3. /\ u \in Seq(Byte) /\ Len(u) = Len(s) + Len(r) /\ \A i \in 1 .. Len(s) : u[i] = s[i]
        /\ \A i \in 1 .. Len(r) : u[Len(s) + i] = r[i]
    BY <1>2, <2>1, ConcatFacts
  <2>. HIDE DEF u
  <2>4. Len(u) = Len(e)
    BY <1>1, <1>2, <2>1, <2>3
  <2>5. ASSUME NEW i \in 1 .. Len(e) PROVE u[i] = e[i]
    <3>1. CASE i <= n
      <4>1. i \in 1 .. n
        BY <3>1
      <4>. QED
        BY <1>2, <2>2, <2>3, <4>1
    <3>2. CASE ~ (i <= n)
      <4>1. i - n \in 1 .. Len(e) - n /\ n + (i - n) = i
        BY <1>1, <3>2
      <4>2. u[n + (i - n)] = r[i - n]
        BY <1>2, <2>1, <2>3, <4>1
      <4>. QED
        BY <2>1, <4>1, <4>2
    <3>. QED
      BY <3>1, <3>2
  <2>6. u = e
    BY <1>1, <2>3, <2>4, <2>5
  <2>. QED
    BY <2>1, <2>6 DEF u
<1>4. MsgpackToObject(e) = Complete(o, Len(e))
  <2>. DEFINE z == <<>>
  <2>1. z \in Seq(Byte)
    OBVIOUS
  <2>2. e \o z = e
    BY <1>1
  <2>. HIDE DEF z
  <2>3. LET x == Encoding[h][o] IN
        MsgpackToObject(x \o z) = IF o \in Object[MarshalDepthCap] THEN Complete(o, Len(x)) ELSE Malformed
    BY <2>1, RoundTrip
  <2>. QED
    BY <2>2, <2>3 DEF e
<1>. HIDE DEF s, r
<1>5. ASSUME MsgpackToObject(s) # Incomplete PROVE FALSE
  <2>. DEFINE v == MsgpackToObject(s)
  <2>1. MsgpackToObject(s \o r) = v
    BY <1>2, <1>3, <1>5, VerdictStands
  <2>2. v = Complete(o, Len(e))
    BY <1>3, <1>4, <2>1
  <2>3. Ended(s, v)
    BY <1>2, VerdictEnded
  <2>. HIDE DEF v
  <2>4. v # Incomplete /\ v # Malformed
    BY <2>2, VerdictsDiffer
  <2>5. v.pos = Len(e)
    BY <2>2, VerdictFields
  <2>6. v.pos \in 1 .. Len(s)
    BY <2>3, <2>4 DEF Ended
  <2>7. Len(e) <= n /\ n < Len(e)
    BY <1>1, <1>2, <2>5, <2>6 DEF e
  <2>. QED
    BY <1>1, <2>7
<1>. QED
  BY <1>5 DEF s, e

---------------------------------------------------------------------------
(* The codec under the channel: what the bytes of the model are on the     *)
(* wire, and that their verdict is the decoder's.                          *)

LEMMA WiredFrames ==
  ASSUME NEW s \in Scripts
  PROVE  s \in Seq(Frames) /\ \A k \in 1 .. Len(s) : Wired(s[k])
<1>1. s \in Seq(Frames)
  BY RpcAssumption
<1>2. ASSUME NEW k \in 1 .. Len(s) PROVE Wired(s[k])
  <2>1. DOMAIN s = 1 .. Len(s)
    BY <1>1
  <2>2. s[k] \in Range(s)
    BY <2>1 DEF Range
  <2>3. s[k] \in UNION {Range(q) : q \in Scripts}
    BY <2>2
  <2>. QED
    BY <2>3, WireAssumption
<1>. QED
  BY <1>1, <1>2

IsFrame(f) == f.size \in Nat /\ f.size >= 1 /\ Wired(f)

(* What a frame is on the wire, and that its length is at least its size.  *)
LEMMA WireFacts ==
  ASSUME NEW f, IsFrame(f)
  PROVE  Wire(f) \in Seq(Byte) /\ Len(Wire(f)) \in Nat /\ f.size <= Len(Wire(f))
<1>1. Wire(f) \in Seq(Byte)
  <2>1. CASE f.kind = "corrupt"
    BY <2>1 DEF IsFrame, Wired, Wire
  <2>2. CASE f.kind # "corrupt"
    <3>1. Message(f) \in Object[MarshalDepthCap] /\ MarshalDepthCap \in Nat
      BY <2>2, MsgpackAssumption DEF IsFrame, Wired
    <3>2. ByteString(Encoding[MarshalDepthCap][Message(f)])
      BY <3>1, EncodingBytes
    <3>3. Wire(f) = Encoding[MarshalDepthCap][Message(f)]
      BY <2>2 DEF Wire, MsgpackEncode
    <3>. QED
      BY <3>2, <3>3 DEF ByteString
  <2>. QED
    BY <2>1, <2>2
<1>. QED
  BY <1>1 DEF IsFrame, Wired

(* The first i bytes of the model, on the wire. *)
Sent(f, i) == IF i < f.size THEN SubSeq(Wire(f), 1, i) ELSE Wire(f)

LEMMA SentNone == ASSUME NEW f, IsFrame(f) PROVE Sent(f, 0) = <<>>
<1>. DEFINE w == Wire(f)
<1>1. w \in Seq(Byte) /\ 0 < f.size
  BY WireFacts DEF IsFrame
<1>2. Sent(f, 0) = SubSeq(w, 1, 0)
  BY <1>1 DEF Sent
<1>. HIDE DEF w
<1>. QED
  BY <1>1, <1>2

LEMMA WholeSeq == ASSUME NEW S, NEW w \in Seq(S) PROVE SubSeq(w, 1, Len(w)) = w
<1>. DEFINE n == Len(w)  u == SubSeq(w, 0 + 1, n)
<1>1. n \in Nat /\ 0 <= n /\ n <= Len(w) /\ n - 0 = n
  OBVIOUS
<1>2. u \in Seq(S) /\ Len(u) = n - 0 /\ \A i \in 1 .. n - 0 : u[i] = w[0 + i]
  BY <1>1, SubSeqFacts
<1>3. \A i \in 1 .. n : u[i] = w[i]
  BY <1>1, <1>2
<1>. HIDE DEF u
<1>4. u = w
  BY <1>1, <1>2, <1>3
<1>. QED
  BY <1>4 DEF u

LEMMA OneOf ==
  ASSUME NEW S, NEW w \in Seq(S), NEW i \in 1 .. Len(w) PROVE SubSeq(w, i, i) = <<w[i]>>
<1>. DEFINE m == i - 1  u == SubSeq(w, m + 1, i)
<1>1. m \in Nat /\ i \in Nat /\ m <= i /\ i <= Len(w) /\ m + 1 = i /\ i - m = 1
  OBVIOUS
<1>. HIDE DEF m
<1>2. u \in Seq(S) /\ Len(u) = i - m /\ \A j \in 1 .. i - m : u[j] = w[m + j]
  BY <1>1, SubSeqFacts
<1>3. u \in Seq(S) /\ Len(u) = 1 /\ u[1] = w[i]
  <2>1. 1 \in 1 .. i - m
    BY <1>1
  <2>. QED
    BY <1>1, <1>2, <2>1
<1>4. u = SubSeq(w, i, i)
  BY <1>1
<1>. HIDE DEF u
<1>5. u = <<w[i]>>
  BY <1>3
<1>. QED
  BY <1>4, <1>5

LEMMA SentStep ==
  ASSUME NEW f, IsFrame(f), NEW i \in 1 .. f.size
  PROVE  Chunk(f, i) \in Seq(Byte) /\ Sent(f, i - 1) \o Chunk(f, i) = Sent(f, i)
<1>. DEFINE w == Wire(f)  n == Len(w)
<1>1. w \in Seq(Byte) /\ n \in Nat /\ f.size <= n /\ f.size \in Nat
  BY WireFacts DEF IsFrame
<1>2. i \in 1 .. n /\ i - 1 \in Nat /\ i - 1 < f.size /\ (i - 1) + 1 = i /\ i \in Nat /\ i - 1 <= i
  BY <1>1
<1>3. Sent(f, i - 1) = SubSeq(w, 1, i - 1)
  BY <1>2 DEF Sent
<1>. HIDE DEF w
<1>4. CASE i < f.size
  <2>1. Chunk(f, i) = SubSeq(w, i, i)
    <3>1. SubSeq(w, i, i) = <<w[i]>>
      BY <1>1, <1>2, OneOf
    <3>. QED
      BY <1>4, <3>1 DEF Chunk, w
  <2>2. SubSeq(w, i, i) \in Seq(Byte)
    BY <1>1, <1>2
  <2>3. SubSeq(w, 0 + 1, i - 1) \o SubSeq(w, (i - 1) + 1, i) = SubSeq(w, 0 + 1, i)
    BY <1>1, <1>2, SubSeqJoin
  <2>4. SubSeq(w, 1, i - 1) \o SubSeq(w, i, i) = SubSeq(w, 1, i)
    BY <1>2, <2>3
  <2>5. Sent(f, i) = SubSeq(w, 1, i)
    BY <1>4 DEF Sent, w
  <2>. QED
    BY <1>3, <2>1, <2>2, <2>4, <2>5
<1>5. CASE ~ (i < f.size)
  <2>1. Chunk(f, i) = SubSeq(w, i, n)
    BY <1>5 DEF Chunk, w
  <2>2. SubSeq(w, i, n) \in Seq(Byte)
    BY <1>1, <1>2
  <2>3. SubSeq(w, 0 + 1, i - 1) \o SubSeq(w, (i - 1) + 1, n) = SubSeq(w, 0 + 1, n)
    <3>1. i - 1 <= n /\ 0 <= i - 1
      BY <1>2
    <3>. QED
      BY <1>1, <1>2, <3>1, SubSeqJoin
  <2>4. SubSeq(w, 1, i - 1) \o SubSeq(w, i, n) = SubSeq(w, 1, n)
    BY <1>2, <2>3
  <2>5. SubSeq(w, 1, n) = w
    BY <1>1, WholeSeq
  <2>6. Sent(f, i) = w
    BY <1>5 DEF Sent, w
  <2>. QED
    BY <1>3, <2>1, <2>2, <2>4, <2>5, <2>6
<1>. QED
  BY <1>4, <1>5

---------------------------------------------------------------------------
(* The bytes of a buffer, one after the other: Concrete's recursion. *)

Piece(s, b) == Chunk(s[b[1]], b[2])

IsJoined(g, s, bs, D) == g = [k \in D |-> IF k = 0 THEN <<>> ELSE g[k - 1] \o Piece(s, bs[k])]

LEMMA JoinedExists == ASSUME NEW s, NEW bs, NEW n \in Nat PROVE \E g : IsJoined(g, s, bs, 0 .. n)
<1>. DEFINE S == {m \in Nat : \E g : IsJoined(g, s, bs, 0 .. m)}
<1>1. 0 \in S
  <2>. DEFINE h == [k \in 0 .. 0 |-> <<>>]
  <2>1. \A k \in 0 .. 0 : h[k] = IF k = 0 THEN <<>> ELSE h[k - 1] \o Piece(s, bs[k])
    OBVIOUS
  <2>2. h = [k \in 0 .. 0 |-> h[k]]
    OBVIOUS
  <2>. HIDE DEF h
  <2>3. IsJoined(h, s, bs, 0 .. 0)
    BY <2>1, <2>2 DEF IsJoined
  <2>. QED
    BY <2>3
<1>2. ASSUME NEW m \in Nat, m \in S PROVE m + 1 \in S
  <2>1. PICK g : IsJoined(g, s, bs, 0 .. m)
    BY <1>2
  <2>. DEFINE last == g[m] \o Piece(s, bs[m + 1])
              h == [k \in 0 .. m + 1 |-> IF k = m + 1 THEN last ELSE g[k]]
  <2>2. ASSUME NEW k \in 0 .. m + 1
        PROVE  h[k] = IF k = 0 THEN <<>> ELSE h[k - 1] \o Piece(s, bs[k])
    <3>1. CASE k = m + 1
      <4>. HIDE DEF last
      <4>1. h[k - 1] = g[m] /\ k # 0 /\ h[k] = last
        BY <3>1
      <4>. HIDE DEF h
      <4>. QED
        BY <3>1, <4>1 DEF last
    <3>2. CASE k \in 0 .. m
      <4>1. g[k] = IF k = 0 THEN <<>> ELSE g[k - 1] \o Piece(s, bs[k])
        BY <2>1, <3>2 DEF IsJoined
      <4>. HIDE DEF last
      <4>2. h[k] = g[k] /\ (k # 0 => h[k - 1] = g[k - 1])
        BY <3>2
      <4>. HIDE DEF h
      <4>. QED
        BY <4>1, <4>2
    <3>. QED
      BY <3>1, <3>2
  <2>3. IsJoined(h, s, bs, 0 .. m + 1)
    <3>1. h = [k \in 0 .. m + 1 |-> h[k]]
      OBVIOUS
    <3>. HIDE DEF h
    <3>. QED
      BY <2>2, <3>1 DEF IsJoined
  <2>. QED
    BY <2>3
<1>. QED
  <2>. HIDE DEF S
  <2>1. n \in S
    BY <1>1, <1>2, SetInduction
  <2>. QED
    BY <2>1 DEF S

Joined(s, bs) == CHOOSE g : IsJoined(g, s, bs, 0 .. Len(bs))

LEMMA JoinedFacts ==
  ASSUME NEW s, NEW bs, Len(bs) \in Nat
  PROVE  /\ Joined(s, bs)[0] = <<>>
         /\ \A i \in 1 .. Len(bs) : Joined(s, bs)[i] = Joined(s, bs)[i - 1] \o Piece(s, bs[i])
<1>. DEFINE g == Joined(s, bs)
<1>1. IsJoined(g, s, bs, 0 .. Len(bs))
  <2>1. \E h : IsJoined(h, s, bs, 0 .. Len(bs))
    BY JoinedExists
  <2>. QED
    BY <2>1 DEF Joined
<1>. HIDE DEF g
<1>2. \A k \in 0 .. Len(bs) : g[k] = IF k = 0 THEN <<>> ELSE g[k - 1] \o Piece(s, bs[k])
  BY <1>1 DEF IsJoined
<1>3. g[0] = <<>>
  BY <1>2
<1>4. ASSUME NEW i \in 1 .. Len(bs) PROVE g[i] = g[i - 1] \o Piece(s, bs[i])
  <2>1. i \in 0 .. Len(bs) /\ i # 0
    OBVIOUS
  <2>. QED
    BY <1>2, <2>1
<1>. QED
  BY <1>3, <1>4 DEF g

LEMMA ConcreteIs == Concrete(buf) = Joined(script, buf)[Len(buf)]
BY DEF Concrete, Joined, IsJoined, Piece

(* Every byte of a script is one of a frame of it. *)
InFrame(s, b) == \E k \in 1 .. Len(s) : \E i \in 1 .. s[k].size : b = <<k, i>>

LEMMA EveryByte ==
  ASSUME NEW s \in Seq(Frames)
  PROVE  \A p \in 1 .. Len(Bytes(s)) : InFrame(s, Bytes(s)[p])
<1>. DEFINE a == Bytes(s)
            S == {k \in Nat : k <= Len(s) => \A p \in 1 .. End(s, k) : InFrame(s, a[p])}
<1>1. Len(s) \in Nat /\ End(s, 0) = 0 /\ Len(a) = End(s, Len(s))
  BY BytesFacts
<1>2. 0 \in S
  BY <1>1
<1>3. ASSUME NEW k \in Nat, k \in S PROVE k + 1 \in S
  <2>1. SUFFICES ASSUME k + 1 <= Len(s), NEW p \in 1 .. End(s, k + 1) PROVE InFrame(s, a[p])
    OBVIOUS
  <2>2. k + 1 \in 1 .. Len(s) /\ (k + 1) - 1 = k /\ k \in 0 .. Len(s) /\ k <= Len(s)
    BY <1>1, <2>1
  <2>3. /\ End(s, k) \in Nat /\ End(s, k + 1) = End(s, k) + s[k + 1].size
        /\ s[k + 1].size \in Nat
        /\ \A i \in 1 .. s[k + 1].size : a[End(s, k) + i] = <<k + 1, i>>
    BY <2>2, BytesFacts, FrameFacts
  <2>4. CASE p <= End(s, k)
    <3>1. p \in 1 .. End(s, k)
      BY <2>3, <2>4
    <3>. QED
      BY <1>3, <2>2, <3>1
  <2>5. CASE ~ (p <= End(s, k))
    <3>. DEFINE i == p - End(s, k)
    <3>1. i \in 1 .. s[k + 1].size /\ End(s, k) + i = p
      BY <2>3, <2>5
    <3>. HIDE DEF i
    <3>2. a[End(s, k) + i] = <<k + 1, i>>
      BY <2>3, <3>1
    <3>3. a[p] = <<k + 1, i>>
      BY <3>1, <3>2
    <3>. HIDE DEF a
    <3>. QED
      BY <2>2, <3>1, <3>3 DEF InFrame
  <2>. QED
    BY <2>4, <2>5
<1>. HIDE DEF S
<1>4. \A k \in Nat : k \in S
  BY <1>2, <1>3, SetInduction
<1>. QED
  BY <1>1, <1>4 DEF S

LEMMA PieceOf ==
  ASSUME NEW s, \A k \in 1 .. Len(s) : IsFrame(s[k]), NEW b, InFrame(s, b)
  PROVE  Piece(s, b) \in Seq(Byte)
<1>0. PICK k \in 1 .. Len(s) : \E i \in 1 .. s[k].size : b = <<k, i>>
  BY DEF InFrame
<1>1. PICK i \in 1 .. s[k].size : b = <<k, i>>
  BY <1>0
<1>2. IsFrame(s[k]) /\ Piece(s, b) = Chunk(s[k], i)
  BY <1>1 DEF Piece
<1>. QED
  BY <1>2, SentStep

(* c is what i bytes of the model, from the first of frame f on, are on    *)
(* the wire: the beginning of f, or all of it and what is behind it.       *)
From(f, c, i) ==
  /\ i <= f.size => c = Sent(f, i)
  /\ i >= f.size => \E t \in Seq(Byte) : c = Wire(f) \o t

LEMMA SentWhole == ASSUME NEW f, IsFrame(f) PROVE From(f, Wire(f), f.size)
<1>. DEFINE w == Wire(f)
<1>1. w \in Seq(Byte) /\ f.size \in Nat
  BY WireFacts DEF IsFrame
<1>2. Sent(f, f.size) = w
  BY <1>1 DEF Sent
<1>. HIDE DEF w
<1>3. w \o <<>> = w /\ <<>> \in Seq(Byte)
  BY <1>1
<1>4. \E t \in Seq(Byte) : w = w \o t
  BY <1>3
<1>. QED
  BY <1>2, <1>4 DEF From, w

LEMMA FromMore ==
  ASSUME NEW f, IsFrame(f), NEW c, NEW i \in Nat, i >= f.size, From(f, c, i), NEW p \in Seq(Byte)
  PROVE  From(f, c \o p, i + 1)
<1>1. PICK t \in Seq(Byte) : c = Wire(f) \o t
  BY DEF From
<1>. DEFINE w == Wire(f)
<1>2. w \in Seq(Byte) /\ f.size \in Nat
  BY WireFacts DEF IsFrame
<1>. HIDE DEF w
<1>3. (w \o t) \o p = w \o (t \o p) /\ t \o p \in Seq(Byte)
  BY <1>2
<1>4. c \o p = w \o (t \o p)
  BY <1>1, <1>3 DEF w
<1>5. ~ (i + 1 <= f.size)
  BY <1>2
<1>6. \E u \in Seq(Byte) : c \o p = w \o u
  BY <1>3, <1>4
<1>. QED
  BY <1>5, <1>6 DEF From, w

LEMMA JoinedFrom ==
  ASSUME NEW s, \A k \in 1 .. Len(s) : IsFrame(s[k]), NEW k \in 1 .. Len(s),
         NEW bs, Len(bs) \in Nat,
         \A i \in 1 .. Len(bs) : InFrame(s, bs[i]) /\ (i <= s[k].size => bs[i] = <<k, i>>)
  PROVE  \A i \in 0 .. Len(bs) : From(s[k], Joined(s, bs)[i], i)
<1>. DEFINE f == s[k]  g == Joined(s, bs)
            S == {i \in Nat : i <= Len(bs) => From(f, g[i], i)}
<1>1. IsFrame(f) /\ f.size \in Nat /\ f.size >= 1
  BY DEF IsFrame
<1>2. g[0] = <<>> /\ \A i \in 1 .. Len(bs) : g[i] = g[i - 1] \o Piece(s, bs[i])
  BY JoinedFacts
<1>3. ASSUME NEW i \in 1 .. Len(bs)
      PROVE  Piece(s, bs[i]) \in Seq(Byte) /\ (i <= f.size => Piece(s, bs[i]) = Chunk(f, i))
  <2>1. Piece(s, bs[i]) \in Seq(Byte)
    BY PieceOf
  <2>2. ASSUME i <= f.size PROVE Piece(s, bs[i]) = Chunk(f, i)
    <3>1. bs[i] = <<k, i>>
      BY <2>2
    <3>. QED
      BY <3>1 DEF Piece
  <2>. QED
    BY <2>1, <2>2
<1>. HIDE DEF f, g
<1>4. 0 \in S
  <2>1. Sent(f, 0) = g[0]
    BY <1>1, <1>2, SentNone
  <2>2. ~ (0 >= f.size)
    BY <1>1
  <2>3. From(f, g[0], 0)
    BY <2>1, <2>2 DEF From
  <2>. QED
    BY <2>3
<1>5. ASSUME NEW i \in Nat, i \in S PROVE i + 1 \in S
  <2>1. SUFFICES ASSUME i + 1 <= Len(bs) PROVE From(f, g[i + 1], i + 1)
    OBVIOUS
  <2>2. i + 1 \in 1 .. Len(bs) /\ (i + 1) - 1 = i /\ From(f, g[i], i)
    BY <1>5, <2>1
  <2>. DEFINE p == Piece(s, bs[i + 1])
  <2>3. g[i + 1] = g[i] \o p /\ p \in Seq(Byte) /\ (i + 1 <= f.size => p = Chunk(f, i + 1))
    BY <1>2, <1>3, <2>2
  <2>. HIDE DEF p
  <2>4. CASE i >= f.size
    BY <1>1, <2>2, <2>3, <2>4, FromMore
  <2>5. CASE ~ (i >= f.size)
    <3>1. i + 1 \in 1 .. f.size /\ i <= f.size /\ i + 1 <= f.size
      BY <1>1, <2>5
    <3>2. g[i] = Sent(f, i) /\ p = Chunk(f, i + 1)
      BY <2>2, <2>3, <3>1 DEF From
    <3>3. Sent(f, (i + 1) - 1) \o Chunk(f, i + 1) = Sent(f, i + 1)
      BY <1>1, <3>1, SentStep
    <3>4. g[i + 1] = Sent(f, i + 1)
      BY <2>2, <2>3, <3>2, <3>3
    <3>5. CASE i + 1 = f.size
      <4>1. Sent(f, f.size) = Wire(f)
        BY <1>1 DEF Sent
      <4>. QED
        BY <1>1, <3>4, <3>5, <4>1, SentWhole
    <3>6. CASE i + 1 # f.size
      <4>1. ~ (i + 1 >= f.size)
        BY <1>1, <3>1, <3>6
      <4>. QED
        BY <3>4, <4>1 DEF From
    <3>. QED
      BY <3>5, <3>6
  <2>. QED
    BY <2>4, <2>5
<1>. HIDE DEF S
<1>6. \A i \in Nat : i \in S
  BY <1>4, <1>5, SetInduction
<1>. QED
  BY <1>6 DEF S, f, g

(* The bytes of the buffer are those of the first frame not handled, and   *)
(* of the frames behind it.                                                *)
LEMMA BufferBytes ==
  ASSUME Consumed, run # "returned", buf # <<>>, NEW f, f = script[handled + 1]
  PROVE  /\ IsFrame(f) /\ Len(buf) \in Nat /\ buf[1] = <<handled + 1, 1>>
         /\ From(f, Concrete(buf), Len(buf))
<1>. DEFINE s == script  bs == buf  k == handled + 1  P == Nat \X Nat  a == Bytes(s)
            e == End(s, handled)
<1>1. s \in Seq(Frames) /\ \A j \in 1 .. Len(s) : Wired(s[j])
  BY WiredFrames DEF Consumed
<1>2. /\ handled \in 0 .. Len(s) /\ sent \in Nat /\ e <= sent /\ sent <= Len(a)
      /\ bs = SubSeq(a, e + 1, sent)
  BY DEF Consumed
<1>3. /\ bs \in Seq(P) /\ Len(bs) = sent - e /\ e \in Nat
      /\ k \in 1 .. Len(s) /\ bs[1] = <<k, 1>>
  BY <1>1, <1>2, BufferFacts
<1>4. \A j \in 1 .. Len(s) : IsFrame(s[j])
  BY <1>1, FrameFacts DEF IsFrame
<1>5. a \in Seq(P) /\ Len(s) \in Nat
  BY <1>1, BytesFacts
<1>6. \A i \in 1 .. s[k].size : a[e + i] = <<k, i>>
  <2>1. k - 1 = handled
    BY <1>2
  <2>. QED
    BY <1>1, <1>3, <2>1, BytesFacts
<1>7. \A p \in 1 .. Len(a) : InFrame(s, a[p])
  BY <1>1, EveryByte
<1>8. f = s[k] /\ f.size \in Nat
  BY <1>3, <1>4 DEF IsFrame
<1>9. Concrete(buf) = Joined(s, bs)[Len(bs)]
  BY ConcreteIs
<1>. HIDE DEF s, bs, k, P, a, e
<1>10. Len(bs) \in Nat /\ \A i \in 1 .. Len(bs) : bs[i] = a[e + i]
  <2>1. \A i \in 1 .. sent - e : SubSeq(a, e + 1, sent)[i] = a[e + i]
    BY <1>2, <1>3, <1>5, SubSeqFacts
  <2>. QED
    BY <1>2, <1>3, <2>1
<1>11. ASSUME NEW i \in 1 .. Len(bs)
       PROVE  InFrame(s, bs[i]) /\ (i <= s[k].size => bs[i] = <<k, i>>)
  <2>1. e + i \in 1 .. Len(a) /\ i \in Nat /\ i >= 1
    BY <1>2, <1>3, <1>5
  <2>2. bs[i] = a[e + i]
    BY <1>10
  <2>3. InFrame(s, a[e + i])
    BY <1>7, <2>1
  <2>4. ASSUME i <= s[k].size PROVE a[e + i] = <<k, i>>
    <3>1. i \in 1 .. s[k].size
      BY <1>8, <2>1, <2>4
    <3>. QED
      BY <1>6, <3>1
  <2>. QED
    BY <2>2, <2>3, <2>4
<1>12. \A i \in 0 .. Len(bs) : From(s[k], Joined(s, bs)[i], i)
  BY <1>3, <1>4, <1>10, <1>11, JoinedFrom
<1>13. Len(bs) \in 0 .. Len(bs)
  BY <1>10
<1>14. From(f, Concrete(buf), Len(bs))
  BY <1>8, <1>9, <1>12, <1>13
<1>15. IsFrame(f)
  BY <1>3, <1>4, <1>8
<1>. QED
  BY <1>3, <1>10, <1>14, <1>15 DEF bs, k

(* The verdict on the beginning of a frame and on a whole one. *)
LEMMA FrameBegun ==
  ASSUME NEW f, IsFrame(f), NEW n \in Nat, n < f.size
  PROVE  MsgpackToObject(Sent(f, n)) = Incomplete
<1>0. Wired(f) /\ f.size \in Nat /\ f.size <= Len(Wire(f)) /\ Len(Wire(f)) \in Nat
  BY WireFacts DEF IsFrame
<1>1. Sent(f, n) = SubSeq(Wire(f), 1, n)
  BY DEF Sent
<1>2. CASE f.kind = "corrupt"
  <2>1. n \in 0 .. f.size - 1 /\ Wire(f) = Garbage(f)
    BY <1>0, <1>2 DEF Wire
  <2>2. \A m \in 0 .. f.size - 1 : MsgpackToObject(SubSeq(Garbage(f), 1, m)) = Incomplete
    BY <1>0, <1>2 DEF Wired
  <2>. QED
    BY <1>1, <2>1, <2>2
<1>3. CASE f.kind # "corrupt"
  <2>1. Message(f) \in Object[MarshalDepthCap] /\ MarshalDepthCap \in Nat
    BY <1>0, <1>3, MsgpackAssumption DEF Wired
  <2>2. Wire(f) = Encoding[MarshalDepthCap][Message(f)]
    BY <1>3 DEF Wire, MsgpackEncode
  <2>3. n < Len(Encoding[MarshalDepthCap][Message(f)])
    BY <1>0, <2>2
  <2>. QED
    BY <1>1, <2>1, <2>2, <2>3, PrefixIncomplete
<1>. QED
  BY <1>2, <1>3

LEMMA FrameWhole ==
  ASSUME NEW f, IsFrame(f), NEW t \in Seq(Byte)
  PROVE  MsgpackToObject(Wire(f) \o t) =
           IF f.kind = "corrupt" THEN Malformed ELSE Complete(Message(f), Len(Wire(f)))
<1>0. Wired(f)
  BY DEF IsFrame
<1>1. CASE f.kind = "corrupt"
  <2>1. /\ Garbage(f) \in Seq(Byte) /\ MsgpackToObject(Garbage(f)) = Malformed
        /\ Wire(f) = Garbage(f)
    BY <1>0, <1>1 DEF Wired, Wire
  <2>2. Malformed # Incomplete
    BY DEF Malformed, Incomplete
  <2>3. MsgpackToObject(Garbage(f) \o t) = MsgpackToObject(Garbage(f))
    BY <2>1, <2>2, VerdictStands
  <2>. QED
    BY <1>1, <2>1, <2>3
<1>2. CASE f.kind # "corrupt"
  <2>1. Message(f) \in Object[MarshalDepthCap] /\ MarshalDepthCap \in Nat
    BY <1>0, <1>2, MsgpackAssumption DEF Wired
  <2>2. Wire(f) = Encoding[MarshalDepthCap][Message(f)]
    BY <1>2 DEF Wire, MsgpackEncode
  <2>3. MsgpackToObject(Encoding[MarshalDepthCap][Message(f)] \o t)
          = Complete(Message(f), Len(Encoding[MarshalDepthCap][Message(f)]))
    BY <2>1, RoundTrip
  <2>. QED
    BY <1>2, <2>2, <2>3
<1>. QED
  BY <1>1, <1>2

LEMMA DecodeAgrees == ASSUME Channel, Consumed PROVE DecodeIsCodec
<1>. SUFFICES ASSUME draining, buf # <<>>
              PROVE  LET r == MsgpackToObject(Concrete(buf))
                         f == script[buf[1][1]]
                     IN  /\ r.st = Decode
                         /\ r.st = "ok" => r = Complete(Message(f), Len(Wire(f)))
  BY DEF DecodeIsCodec
<1>. DEFINE f == script[handled + 1]  c == Concrete(buf)  r == MsgpackToObject(c)
<1>1. run # "returned"
  BY DEF Channel
<1>2. /\ IsFrame(f) /\ Len(buf) \in Nat /\ buf[1] = <<handled + 1, 1>>
      /\ From(f, c, Len(buf))
  BY <1>1, BufferBytes
<1>3. buf[1][1] = handled + 1 /\ buf[1][2] = 1 /\ f.size \in Nat
  BY <1>2 DEF IsFrame
<1>4. Decode = IF Len(buf) < f.size THEN "incomplete"
               ELSE IF f.kind = "corrupt" THEN "error" ELSE "ok"
  BY <1>3 DEF Decode
<1>5. script[buf[1][1]] = f
  BY <1>3
<1>. HIDE DEF c, f
<1>6. r.st = Decode /\ (r.st = "ok" => r = Complete(Message(f), Len(Wire(f))))
  <2>1. CASE Len(buf) < f.size
    <3>1. c = Sent(f, Len(buf))
      BY <1>2, <1>3, <2>1 DEF From
    <3>2. r = Incomplete
      BY <1>2, <2>1, <3>1, FrameBegun
    <3>. QED
      BY <1>4, <2>1, <3>2 DEF Incomplete
  <2>2. CASE ~ (Len(buf) < f.size)
    <3>1. PICK t \in Seq(Byte) : c = Wire(f) \o t
      BY <1>2, <1>3, <2>2 DEF From
    <3>2. r = IF f.kind = "corrupt" THEN Malformed ELSE Complete(Message(f), Len(Wire(f)))
      BY <1>2, <3>1, FrameWhole
    <3>. HIDE DEF r
    <3>3. CASE f.kind = "corrupt"
      BY <1>4, <2>2, <3>2, <3>3 DEF Malformed
    <3>4. CASE f.kind # "corrupt"
      BY <1>4, <2>2, <3>2, <3>4 DEF Complete
    <3>. QED
      BY <3>3, <3>4
  <2>. QED
    BY <2>1, <2>2
<1>. QED
  BY <1>5, <1>6 DEF c, r

LEMMA ObjectsRoundTrip == RoundTrips
<1>. SUFFICES ASSUME NEW o \in Objects
              PROVE  LET e == Encoding[Deepest][o]
                     IN  IF o \in Object[MarshalDepthCap]
                         THEN /\ \A t \in Tails : MsgpackToObject(e \o t) = Complete(o, Len(e))
                              /\ \A n \in Cuts \cup {Len(e) - 1} :
                                   n < Len(e) => MsgpackToObject(SubSeq(e, 1, n)) = Incomplete
                         ELSE MsgpackToObject(e) = Malformed
  BY DEF RoundTrips
<1>. DEFINE e == Encoding[Deepest][o]
<1>1. Deepest \in Nat /\ o \in Object[Deepest]
  BY WireAssumption
<1>2. ByteString(Encoding[Deepest][o])
  BY <1>1, EncodingBytes
<1>3. e \in Seq(Byte) /\ Len(e) \in Nat /\ Len(e) >= 1
  BY <1>2 DEF ByteString
<1>4. ASSUME NEW t \in Seq(Byte)
      PROVE  MsgpackToObject(e \o t) =
               IF o \in Object[MarshalDepthCap] THEN Complete(o, Len(e)) ELSE Malformed
  BY <1>1, RoundTrip
<1>5. ASSUME o \in Object[MarshalDepthCap], NEW n \in Nat, n < Len(e)
      PROVE  MsgpackToObject(SubSeq(e, 1, n)) = Incomplete
  BY <1>1, <1>5, PrefixIncomplete
<1>. HIDE DEF e
<1>6. MsgpackToObject(e) = MsgpackToObject(e \o <<>>) /\ <<>> \in Seq(Byte)
  <2>1. e \o <<>> = e /\ <<>> \in Seq(Byte)
    BY <1>3
  <2>. QED
    BY <2>1
<1>7. CASE o \in Object[MarshalDepthCap]
  <2>1. \A t \in Tails : MsgpackToObject(e \o t) = Complete(o, Len(e))
    BY <1>4, <1>7, WireAssumption
  <2>2. ASSUME NEW n \in Cuts \cup {Len(e) - 1}, n < Len(e)
        PROVE  MsgpackToObject(SubSeq(e, 1, n)) = Incomplete
    <3>1. n \in Nat
      BY <1>3, WireAssumption
    <3>. QED
      BY <1>5, <1>7, <2>2, <3>1
  <2>. QED
    BY <1>7, <2>1, <2>2 DEF e
<1>8. CASE o \notin Object[MarshalDepthCap]
  <2>. DEFINE z == <<>>
  <2>1. z \in Seq(Byte) /\ MsgpackToObject(e) = MsgpackToObject(e \o z)
    BY <1>6
  <2>. HIDE DEF z
  <2>2. MsgpackToObject(e \o z) = Malformed
    BY <1>4, <1>8, <2>1
  <2>. QED
    BY <1>8, <2>1, <2>2 DEF e
<1>. QED
  BY <1>7, <1>8

LEMMA AllVerdictsStand == VerdictsStand
<1>1. Inputs \subseteq Seq(Byte) /\ Tails \subseteq Seq(Byte)
  BY WireAssumption
<1>2. ASSUME NEW s \in Inputs, MsgpackToObject(s) # Incomplete, NEW t \in Tails
      PROVE  MsgpackToObject(s \o t) = MsgpackToObject(s)
  <2>1. s \in Seq(Byte) /\ t \in Seq(Byte)
    BY <1>1
  <2>. QED
    BY <1>2, <2>1, VerdictStands
<1>. QED
  BY <1>2 DEF VerdictsStand

(* The codec does what rpc_drain relies on when it decodes the same buffer *)
(* again after every read: whatever is read after it, a verdict stands; an *)
(* encoded Object comes back as it was with its bytes consumed and no      *)
(* more, or is an error when it is nested deeper than the cap; no          *)
(* beginning of one is anything but incomplete; and on the bytes of the    *)
(* buffer, at every moment, it is the decoder of the model.                *)
THEOREM CodecIsExact == Spec => []CodecExact
<1>1. Channel /\ Input => CodecExact
  BY DecodeAgrees, ObjectsRoundTrip, AllVerdictsStand DEF Input, CodecExact
<1>. QED
  BY <1>1, ChannelInvariant, InputInvariant, PTL

=============================================================================
