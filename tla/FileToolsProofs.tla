-------------------------- MODULE FileToolsProofs --------------------------
(***************************************************************************)
(* What read, write and edit do and report, for any files, any calls, any  *)
(* caps, and whatever read(2) and write(2) move at a time.                 *)
(***************************************************************************)
EXTENDS FileTools, SequenceTheorems, FiniteSetTheorems, WellFoundedInduction, TLAPS

(* A set of numbers that is not empty has a least one.                     *)
LEMMA LeastElement ==
  ASSUME NEW S \in SUBSET Nat, S # {}
  PROVE  \E x \in S : \A y \in S : x <= y
<1>. DEFINE Less == {p \in Nat \X Nat : p[1] < p[2]}
<1>1. IsWellFoundedOn(Less, Nat)
  BY NatLessThanWellFounded, Zenon DEF OpToRel
<1>2. PICK x \in S : \A y \in S : ~ (<<y, x>> \in Less)
  BY <1>1, WFMin
<1>3. \A y \in S : x \in Nat /\ y \in Nat /\ (y < x => <<y, x>> \in Less)
  OBVIOUS
<1>. HIDE DEF Less
<1>4. \A y \in S : ~ (y < x)
  BY <1>2, <1>3
<1>. QED  BY <1>3, <1>4

(* Zero is in S and S is closed under the successor: S holds all numbers.  *)
LEMMA SetInduction ==
  ASSUME NEW S, 0 \in S, \A n \in Nat : n \in S => n + 1 \in S
  PROVE  \A n \in Nat : n \in S
<1>. SUFFICES ASSUME Nat \ S # {} PROVE FALSE
  OBVIOUS
<1>1. PICK x \in Nat \ S : \A y \in Nat \ S : x <= y
  BY LeastElement
<1>2. x - 1 \in Nat /\ x - 1 \in S /\ (x - 1) + 1 = x
  BY <1>1
<1>. QED  BY <1>1, <1>2

---------------------------------------------------------------------------

Text == Byte \ {"NUL"}

ScanRecord ==
  [line : Nat, taken : Nat, scanned : Nat, window : Seq(Text), full : BOOLEAN, finished : BOOLEAN]

(* The types, and which tool may be where. *)
Types ==
  /\ kind \in {"regular", "absent", "directory"} /\ file \in Seq(Byte) /\ call \in Calls
  /\ pc \in {"start", "scan", "load", "truncate", "seek", "fill", "close", "done"}
  /\ pos \in Nat /\ eintr \in 0 .. EintrMax /\ size \in 0 .. EditCap
  /\ scan \in ScanRecord /\ Len(scan.window) <= ReturnCap /\ scan.scanned <= ScanCap
  /\ data \in Seq(Byte) /\ disturbed \in BOOLEAN
  /\ pc = "scan" => call.tool = "read"
  /\ pc \in {"load", "truncate", "seek"} => call.tool = "edit"
  /\ pc \in {"fill", "close"} => call.tool \in {"write", "edit"}
---------------------------------------------------------------------------
(* Sequences of bytes. *)

LEMMA ConstantFacts ==
  /\ ReturnCap \in Nat /\ ReturnCap >= 1 /\ ScanCap \in Nat /\ ScanCap >= 1
  /\ Chunk \in Nat /\ Chunk >= 1 /\ EditCap \in Nat /\ EintrMax \in Nat
BY FileToolsAssumption

LEMMA CallFacts ==
  ASSUME NEW c \in Calls
  PROVE  /\ c.tool \in {"read", "write", "edit"} /\ c.path \in BOOLEAN
         /\ c.tool = "read" => c.from \in Nat /\ c.limit \in Nat
         /\ c.tool = "write" => c.content \in Seq(Byte)
         /\ c.tool = "edit" => c.old \in Seq(Byte) /\ c.new \in Seq(Byte)
<1>1. c \in Call
  BY FileToolsAssumption
<1>2. \A s \in Seq(Text) : s \in Seq(Byte)
  BY DEF Text
<1>3. CASE c \in [tool : {"read"}, path : BOOLEAN, from : Nat, limit : Nat]
  BY <1>3
<1>4. CASE c \in [tool : {"write"}, path : BOOLEAN, content : Seq(Text)]
  BY <1>2, <1>4
<1>5. CASE c \in [tool : {"edit"}, path : BOOLEAN, old : Seq(Text), new : Seq(Text)]
  BY <1>2, <1>5
<1>. QED  BY <1>1, <1>3, <1>4, <1>5 DEF Call, Text

LEMMA Part ==
  ASSUME NEW S, NEW s \in Seq(S), NEW m \in Nat \ {0}, NEW n \in Nat, n <= Len(s)
  PROVE  /\ SubSeq(s, m, n) \in Seq(S)
         /\ Len(SubSeq(s, m, n)) = IF m <= n THEN n - m + 1 ELSE 0
         /\ \A i \in 1 .. n - m + 1 : SubSeq(s, m, n)[i] = s[m + i - 1]
<1>1. \A i \in m .. n : s[i] \in S
  <2>1. \A i \in m .. n : i \in 1 .. Len(s)
    OBVIOUS
  <2>. QED  BY <2>1
<1>2. m \in Int /\ n \in Int
  OBVIOUS
<1>. QED  BY <1>1, <1>2, SubSeqProperties

(* Two sequences are one if they agree everywhere. *)
LEMMA SameSeq ==
  ASSUME NEW S, NEW T, NEW s \in Seq(S), NEW t \in Seq(T), Len(s) = Len(t),
         \A i \in 1 .. Len(s) : s[i] = t[i]
  PROVE  s = t
<1>1. s = [i \in 1 .. Len(s) |-> s[i]] /\ t = [i \in 1 .. Len(t) |-> t[i]]
  OBVIOUS
<1>. QED  BY <1>1

(* The bytes a read moves. *)
LEMMA ReadableFacts ==
  ASSUME file \in Seq(Byte), pos \in Nat, NEW n \in Nat, NEW bytes \in Readable(n)
  PROVE  \E k \in 1 .. n : /\ pos + k <= Len(file) /\ bytes = SubSeq(file, pos + 1, pos + k)
                           /\ bytes \in Seq(Byte) /\ Len(bytes) = k
                           /\ \A i \in 1 .. k : bytes[i] = file[pos + i]
<1>. DEFINE l == Len(file)
<1>1. l \in Nat
  OBVIOUS
<1>2. PICK k \in 1 .. (IF Left < n THEN Left ELSE n) : bytes = SubSeq(file, pos + 1, pos + k)
  BY DEF Readable
<1>3. k \in 1 .. n /\ pos + k <= l /\ pos + k \in Nat /\ pos + 1 \in Nat \ {0} /\ pos + 1 <= pos + k
  <2>1. Left = IF l > pos THEN l - pos ELSE 0
    BY DEF Left
  <2>. HIDE DEF l
  <2>. QED  BY <1>1, <1>2, <2>1
<1>4. /\ bytes \in Seq(Byte) /\ Len(bytes) = (pos + k) - (pos + 1) + 1
      /\ \A i \in 1 .. (pos + k) - (pos + 1) + 1 : bytes[i] = file[(pos + 1) + i - 1]
  <2>. DEFINE part == SubSeq(file, pos + 1, pos + k)
  <2>1. pos + 1 \in Nat \ {0} /\ pos + k \in Nat /\ pos + k <= Len(file)
    BY <1>3
  <2>2. /\ part \in Seq(Byte) /\ Len(part) = IF pos + 1 <= pos + k THEN (pos + k) - (pos + 1) + 1 ELSE 0
        /\ \A i \in 1 .. (pos + k) - (pos + 1) + 1 : part[i] = file[(pos + 1) + i - 1]
    BY <2>1, Part
  <2>3. part = bytes
    BY <1>2
  <2>. HIDE DEF part
  <2>. QED  BY <1>3, <2>2, <2>3
<1>5. (pos + k) - (pos + 1) + 1 = k /\ \A i \in 1 .. k : (pos + 1) + i - 1 = pos + i
  BY <1>3
<1>. QED  BY <1>2, <1>3, <1>4, <1>5
---------------------------------------------------------------------------
(* The scan of a chunk, byte by byte. *)

Scanned(s, chunk) ==
  LET after[k \in 0 .. Len(chunk)] == IF k = 0 THEN s ELSE ScanByte(after[k - 1], chunk[k])
  IN  after

LEMMA ChunkIsScanned ==
  ASSUME NEW s, NEW chunk PROVE ReadScanChunk(s, chunk) = Scanned(s, chunk)[Len(chunk)]
BY DEF ReadScanChunk, Scanned

IsScanned(g, s, chunk, n) ==
  g = [k \in 0 .. n |-> IF k = 0 THEN s ELSE ScanByte(g[k - 1], chunk[k])]

LEMMA ScannedExists ==
  ASSUME NEW s, NEW chunk, NEW n \in Nat
  PROVE  \E g : IsScanned(g, s, chunk, n)
<1>. DEFINE D == {m \in Nat : \E g : IsScanned(g, s, chunk, m)}
<1>1. 0 \in D
  <2>1. IsScanned([k \in 0 .. 0 |-> s], s, chunk, 0)
    BY DEF IsScanned
  <2>. QED  BY <2>1
<1>2. ASSUME NEW m \in Nat, m \in D
      PROVE  m + 1 \in D
  <2>1. PICK g : IsScanned(g, s, chunk, m)
    BY <1>2
  <2>. DEFINE last == ScanByte(g[m], chunk[m + 1])
              h == [k \in 0 .. m + 1 |-> IF k = m + 1 THEN last ELSE g[k]]
  <2>2. ASSUME NEW k \in 0 .. m + 1
        PROVE  h[k] = IF k = 0 THEN s ELSE ScanByte(h[k - 1], chunk[k])
    <3>1. CASE k = m + 1
      <4>. HIDE DEF last
      <4>1. h[k - 1] = g[m] /\ k # 0 /\ h[k] = last
        BY <3>1
      <4>. HIDE DEF h
      <4>. QED  BY <3>1, <4>1 DEF last
    <3>2. CASE k \in 0 .. m
      <4>1. g[k] = IF k = 0 THEN s ELSE ScanByte(g[k - 1], chunk[k])
        BY <2>1, <3>2 DEF IsScanned
      <4>2. h[k] = g[k] /\ (k # 0 => h[k - 1] = g[k - 1])
        BY <3>2
      <4>. QED  BY <4>1, <4>2
    <3>. QED  BY <3>1, <3>2
  <2>3. IsScanned(h, s, chunk, m + 1)
    <3>1. h = [k \in 0 .. m + 1 |-> h[k]]
      OBVIOUS
    <3>. HIDE DEF h
    <3>. QED  BY <2>2, <3>1 DEF IsScanned
  <2>. QED  BY <2>3
<1>. QED
  <2>. HIDE DEF D
  <2>1. n \in D
    BY <1>1, <1>2, SetInduction
  <2>. QED  BY <2>1 DEF D

LEMMA ScannedStep ==
  ASSUME NEW s, NEW chunk, Len(chunk) \in Nat
  PROVE  /\ Scanned(s, chunk)[0] = s
         /\ \A k \in 1 .. Len(chunk) :
              Scanned(s, chunk)[k] = ScanByte(Scanned(s, chunk)[k - 1], chunk[k])
<1>. DEFINE g == Scanned(s, chunk)
<1>1. IsScanned(g, s, chunk, Len(chunk))
  <2>1. \E h : IsScanned(h, s, chunk, Len(chunk))
    BY ScannedExists
  <2>. QED  BY <2>1 DEF IsScanned, Scanned
<1>. HIDE DEF g
<1>2. g = [k \in 0 .. Len(chunk) |-> IF k = 0 THEN s ELSE ScanByte(g[k - 1], chunk[k])]
  BY <1>1 DEF IsScanned
<1>3. g[0] = s
  BY <1>2
<1>4. ASSUME NEW k \in 1 .. Len(chunk)
      PROVE  g[k] = ScanByte(g[k - 1], chunk[k])
  <2>1. k \in 0 .. Len(chunk) /\ k # 0
    OBVIOUS
  <2>. QED  BY <1>2, <2>1
<1>. QED  BY <1>3, <1>4 DEF g

(* What one byte does to a scan: nothing, when it is over; a byte that is  *)
(* not wanted may end a line; one that is wanted finds the window full, or *)
(* goes into it.                                                           *)
LEMMA ByteSkipped ==
  ASSUME NEW s \in ScanRecord, NEW b, s.finished
  PROVE  ScanByte(s, b) = s
BY DEF ScanByte

LEMMA ByteNotWanted ==
  ASSUME NEW s \in ScanRecord, NEW b, ~s.finished, ~(s.line >= call.from)
  PROVE  LET t == ScanByte(s, b) IN
         /\ t \in ScanRecord /\ t.scanned = s.scanned /\ t.window = s.window
         /\ t.taken = s.taken /\ t.full = s.full /\ ~t.finished
         /\ t.line = IF b = "LF" THEN s.line + 1 ELSE s.line
<1>. DEFINE line == IF b = "LF" THEN s.line + 1 ELSE s.line
<1>1. ScanByte(s, b) = [s EXCEPT !.window = s.window, !.taken = s.taken, !.finished = FALSE,
                                 !.line = line]
  BY DEF ScanByte
<1>2. line \in Nat /\ s.taken \in Nat /\ s.window \in Seq(Text) /\ FALSE \in BOOLEAN
  BY DEF ScanRecord
<1>. HIDE DEF line
<1>3. /\ ScanByte(s, b) \in ScanRecord
  BY <1>1, <1>2 DEF ScanRecord
<1>4. /\ ScanByte(s, b).scanned = s.scanned /\ ScanByte(s, b).window = s.window
      /\ ScanByte(s, b).taken = s.taken /\ ScanByte(s, b).full = s.full
      /\ ~ScanByte(s, b).finished /\ ScanByte(s, b).line = line
  BY <1>1 DEF ScanRecord
<1>. QED  BY <1>3, <1>4 DEF line

LEMMA ByteTooMany ==
  ASSUME NEW s \in ScanRecord, NEW b, ~s.finished, s.line >= call.from,
         Len(s.window) = ReturnCap
  PROVE  LET t == ScanByte(s, b) IN
         /\ t \in ScanRecord /\ t.scanned = s.scanned /\ t.window = s.window
         /\ t.full /\ t.finished
<1>1. ScanByte(s, b) = [s EXCEPT !.full = TRUE, !.finished = TRUE]
  BY DEF ScanByte
<1>. QED  BY <1>1 DEF ScanRecord

LEMMA ByteTaken ==
  ASSUME NEW s \in ScanRecord, NEW b \in Text, ~s.finished, s.line >= call.from,
         Len(s.window) # ReturnCap
  PROVE  LET t == ScanByte(s, b) IN
         /\ t \in ScanRecord /\ t.scanned = s.scanned /\ t.window = Append(s.window, b)
         /\ t.full = s.full
         /\ t.taken = IF b = "LF" THEN s.taken + 1 ELSE s.taken
         /\ t.finished <=> b = "LF" /\ s.taken + 1 >= call.limit
         /\ t.line = IF b = "LF" THEN s.line + 1 ELSE s.line
<1>. DEFINE line == IF b = "LF" THEN s.line + 1 ELSE s.line
            taken == IF b = "LF" THEN s.taken + 1 ELSE s.taken
            over == b = "LF" /\ s.taken + 1 >= call.limit
            window == Append(s.window, b)
<1>1. ScanByte(s, b) = [s EXCEPT !.window = window, !.taken = taken, !.finished = over,
                                 !.line = line]
  BY DEF ScanByte
<1>2. line \in Nat /\ taken \in Nat /\ window \in Seq(Text)
  BY DEF ScanRecord
<1>3. over \in BOOLEAN
  BY Zenon
<1>. HIDE DEF line, taken, over, window
<1>4. /\ ScanByte(s, b) \in ScanRecord
  BY <1>1, <1>2, <1>3 DEF ScanRecord
<1>5. /\ ScanByte(s, b).scanned = s.scanned /\ ScanByte(s, b).window = window
      /\ ScanByte(s, b).taken = taken /\ ScanByte(s, b).full = s.full
      /\ ScanByte(s, b).line = line /\ ScanByte(s, b).finished = over
  BY <1>1 DEF ScanRecord
<1>6. ScanByte(s, b).finished <=> b = "LF" /\ s.taken + 1 >= call.limit
  BY <1>5 DEF over
<1>. QED  BY <1>4, <1>5, <1>6 DEF line, taken, window

LEMMA ScanByteTyped ==
  ASSUME NEW s \in ScanRecord, Len(s.window) <= ReturnCap, NEW b \in Text
  PROVE  /\ ScanByte(s, b) \in ScanRecord /\ Len(ScanByte(s, b).window) <= ReturnCap
         /\ ScanByte(s, b).scanned = s.scanned
<1>1. CASE s.finished
  BY <1>1, ByteSkipped
<1>2. CASE ~s.finished /\ ~(s.line >= call.from)
  BY <1>2, ByteNotWanted
<1>3. CASE ~s.finished /\ s.line >= call.from /\ Len(s.window) = ReturnCap
  BY <1>3, ByteTooMany
<1>4. CASE ~s.finished /\ s.line >= call.from /\ Len(s.window) # ReturnCap
  <2>1. /\ ScanByte(s, b) \in ScanRecord /\ ScanByte(s, b).scanned = s.scanned
        /\ ScanByte(s, b).window = Append(s.window, b)
    BY <1>4, ByteTaken
  <2>2. s.window \in Seq(Text)
    BY DEF ScanRecord
  <2>. DEFINE n == Len(s.window)
  <2>3. Len(Append(s.window, b)) = n + 1 /\ n \in Nat /\ n <= ReturnCap /\ n # ReturnCap
    BY <1>4, <2>2
  <2>. HIDE DEF n
  <2>4. Len(Append(s.window, b)) <= ReturnCap
    BY <2>3, ConstantFacts
  <2>. QED  BY <2>1, <2>4
<1>. QED  BY <1>1, <1>2, <1>3, <1>4

LEMMA ScanChunkTyped ==
  ASSUME NEW s \in ScanRecord, Len(s.window) <= ReturnCap, NEW chunk \in Seq(Text)
  PROVE  /\ ReadScanChunk(s, chunk) \in ScanRecord
         /\ Len(ReadScanChunk(s, chunk).window) <= ReturnCap
         /\ ReadScanChunk(s, chunk).scanned = s.scanned
<1>. DEFINE g == Scanned(s, chunk)
            n == Len(chunk)
            Ok(t) == t \in ScanRecord /\ Len(t.window) <= ReturnCap /\ t.scanned = s.scanned
            D == {k \in Nat : k <= n => Ok(g[k])}
<1>1. n \in Nat /\ g[0] = s /\ \A k \in 1 .. n : g[k] = ScanByte(g[k - 1], chunk[k])
  <2>1. n \in Nat
    OBVIOUS
  <2>. QED  BY <2>1, ScannedStep
<1>2. \A k \in 1 .. n : chunk[k] \in Text
  OBVIOUS
<1>. HIDE DEF g, n
<1>3. 0 \in D
  BY <1>1
<1>4. ASSUME NEW k \in Nat, k \in D
      PROVE  k + 1 \in D
  <2>. SUFFICES ASSUME k + 1 <= n
                PROVE  Ok(g[k + 1])
    OBVIOUS
  <2>1. Ok(g[k]) /\ k + 1 \in 1 .. n /\ (k + 1) - 1 = k
    BY <1>1, <1>4
  <2>2. g[k + 1] = ScanByte(g[k], chunk[k + 1]) /\ chunk[k + 1] \in Text
    BY <1>1, <1>2, <2>1
  <2>. QED  BY <2>1, <2>2, ScanByteTyped
<1>. HIDE DEF D
<1>5. n \in D
  BY <1>1, <1>3, <1>4, SetInduction
<1>6. Ok(g[n])
  BY <1>1, <1>5 DEF D
<1>. QED  BY <1>6, ChunkIsScanned DEF g, n
---------------------------------------------------------------------------
(* Types. *)

(* A replacement is a sequence of bytes, too. *)
LEMMA ReplaceTyped ==
  ASSUME NEW hay \in Seq(Byte), NEW old \in Seq(Byte), NEW new \in Seq(Byte),
         NEW k \in Occurrences(hay, old)
  PROVE  Replace(hay, k, old, new) \in Seq(Byte)
<1>. DEFINE n == Len(hay)
            m == Len(old)
<1>1. n \in Nat /\ m \in Nat /\ k \in 1 .. n
  BY DEF Occurrences
<1>. HIDE DEF n, m
<1>2. k - 1 \in Nat /\ k - 1 <= n /\ k + m \in Nat \ {0}
  BY <1>1
<1>3. SubSeq(hay, 1, k - 1) \in Seq(Byte)
  BY <1>2, Part DEF n
<1>4. SubSeq(hay, k + m, n) \in Seq(Byte)
  <2>1. n <= Len(hay) /\ n \in Nat
    BY <1>1 DEF n
  <2>. QED  BY <1>2, <2>1, Part
<1>5. Replace(hay, k, old, new) = SubSeq(hay, 1, k - 1) \o new \o SubSeq(hay, k + m, n)
  BY DEF Replace, n, m
<1>. QED  BY <1>3, <1>4, <1>5

(* A write extends the file by bytes and fills a gap with NULs. *)
LEMMA OverlayTyped ==
  ASSUME NEW f \in Seq(Byte), NEW p \in Nat, NEW s \in Seq(Byte)
  PROVE  Overlay(f, p, s) \in Seq(Byte)
<1>. DEFINE n == Len(f)
            m == Len(s)
            l == IF p + m > n THEN p + m ELSE n
<1>1. n \in Nat /\ m \in Nat /\ (\A i \in 1 .. n : f[i] \in Byte) /\ \A i \in 1 .. m : s[i] \in Byte
  OBVIOUS
<1>2. Overlay(f, p, s) = [i \in 1 .. l |-> IF i \in p + 1 .. p + m THEN s[i - p]
                                           ELSE IF i <= n THEN f[i] ELSE "NUL"]
  BY DEF Overlay
<1>. HIDE DEF n, m
<1>3. l \in Nat
  BY <1>1
<1>4. ASSUME NEW i \in 1 .. l
      PROVE  (IF i \in p + 1 .. p + m THEN s[i - p] ELSE IF i <= n THEN f[i] ELSE "NUL") \in Byte
  <2>1. CASE i \in p + 1 .. p + m
    <3>1. i - p \in 1 .. m
      BY <1>1, <2>1
    <3>. QED  BY <1>1, <2>1, <3>1
  <2>2. CASE i \notin p + 1 .. p + m /\ i <= n
    <3>1. i \in 1 .. n
      BY <1>1, <1>3, <2>2
    <3>. QED  BY <1>1, <2>2, <3>1
  <2>3. CASE i \notin p + 1 .. p + m /\ ~(i <= n)
    BY <2>3 DEF Byte
  <2>. QED  BY <2>1, <2>2, <2>3
<1>. HIDE DEF l
<1>5. Overlay(f, p, s) \in [1 .. l -> Byte]
  BY <1>2, <1>4
<1>. QED  BY <1>3, <1>5

LEMMA FreshScanTyped == FreshScan \in ScanRecord /\ FreshScan.window = << >> /\ FreshScan.scanned = 0
<1>1. << >> \in Seq(Text)
  OBVIOUS
<1>. QED  BY <1>1 DEF FreshScan, ScanRecord

LEMMA InitTypes == Init => Types
<1>. SUFFICES ASSUME Init
              PROVE  Types
  OBVIOUS
<1>1. /\ kind \in {"regular", "absent", "directory"} /\ pc = "start" /\ call \in Calls
      /\ pos = 0 /\ eintr = 0 /\ scan = FreshScan /\ size = 0 /\ data = << >> /\ disturbed = FALSE
  BY DEF Init
<1>2. file \in Seq(Byte)
  <2>1. << >> \in Seq(Byte)
    OBVIOUS
  <2>. QED  BY <2>1, FileToolsAssumption DEF Init
<1>3. disturbed \in BOOLEAN
  BY <1>1, Zenon
<1>4. << >> \in Seq(Byte) /\ Len(<< >>) = 0
  OBVIOUS
<1>5. Len(scan.window) <= ReturnCap /\ scan.scanned <= ScanCap /\ scan \in ScanRecord
  BY <1>1, <1>4, FreshScanTyped, ConstantFacts
<1>. QED  BY <1>1, <1>2, <1>3, <1>4, <1>5, ConstantFacts DEF Types

(* One chunk of a scan. *)
LEMMA ReadScanTyped ==
  ASSUME Types, ReadScan
  PROVE  Types'
<1>1. PICK chunk \in Readable(Want) :
        /\ pos' = pos + Len(chunk) /\ eintr' = 0
        /\ LET s == [scan EXCEPT !.scanned = @ + Len(chunk)] IN
           IF "NUL" \in Range(chunk)
           THEN Finish([ok |-> FALSE, note |-> "binary", window |-> <<>>]) /\ scan' = s
           ELSE scan' = ReadScanChunk(s, chunk) /\ UNCHANGED <<pc, result>>
  BY DEF ReadScan
<1>2. pc = "scan" /\ UNCHANGED <<diskVars, call, size, data, before, disturbed>>
  BY DEF ReadScan
<1>3. Want \in Nat /\ scan.scanned \in Nat /\ scan.scanned + Want <= ScanCap
  BY ConstantFacts DEF Types, ScanRecord, Want
<1>4. PICK k \in 1 .. Want : chunk \in Seq(Byte) /\ Len(chunk) = k
  <2>1. file \in Seq(Byte) /\ pos \in Nat
    BY DEF Types
  <2>. QED  BY <1>3, <2>1, ReadableFacts
<1>. DEFINE s == [scan EXCEPT !.scanned = @ + Len(chunk)]
<1>5. /\ s \in ScanRecord /\ s.window = scan.window /\ s.scanned = scan.scanned + k
      /\ Len(s.window) <= ReturnCap
  <2>1. scan \in ScanRecord /\ scan.scanned + k \in Nat /\ Len(scan.window) <= ReturnCap
    BY <1>3, <1>4 DEF Types
  <2>. QED  BY <1>4, <2>1 DEF ScanRecord
<1>6. s.scanned <= ScanCap /\ pos' \in Nat
  <2>1. scan.scanned + k <= ScanCap
    BY <1>3, <1>4, ConstantFacts
  <2>2. pos + k \in Nat
    BY <1>4 DEF Types
  <2>. QED  BY <1>1, <1>4, <1>5, <2>1, <2>2
<1>7. scan' \in ScanRecord /\ Len(scan'.window) <= ReturnCap /\ scan'.scanned <= ScanCap
  <2>1. CASE scan' = s
    BY <1>5, <1>6, <2>1
  <2>2. CASE scan' = ReadScanChunk(s, chunk) /\ "NUL" \notin Range(chunk)
    <3>1. chunk \in Seq(Text)
      <4>1. \A i \in 1 .. Len(chunk) : chunk[i] \in Text
        BY <1>4, <2>2 DEF Range, Text
      <4>. QED  BY <1>4, <4>1
    <3>2. /\ ReadScanChunk(s, chunk) \in ScanRecord
          /\ Len(ReadScanChunk(s, chunk).window) <= ReturnCap
          /\ ReadScanChunk(s, chunk).scanned = s.scanned
      BY <1>5, <3>1, ScanChunkTyped
    <3>. QED  BY <1>6, <2>2, <3>2
  <2>. QED  BY <1>1, <2>1, <2>2
<1>8. pc' \in {"scan", "done"} /\ eintr' = 0
  BY <1>1, <1>2 DEF Finish
<1>. QED  BY <1>2, <1>6, <1>7, <1>8, ConstantFacts DEF Types, diskVars

LEMMA TypesStep ==
  ASSUME Types, [Next]_vars
  PROVE  Types'
<1>1. CASE UNCHANGED vars
  BY <1>1 DEF vars, diskVars, fdVars, Types
<1>2. CASE OtherWrites
  <2>1. file' \in Seq(Byte)
    BY <1>2, FileToolsAssumption DEF OtherWrites
  <2>2. disturbed' \in BOOLEAN
    BY <1>2, Zenon DEF OtherWrites
  <2>. QED  BY <1>2, <2>1, <2>2 DEF OtherWrites, fdVars, Types
<1>3. ASSUME pc' = "done", UNCHANGED <<diskVars, call, fdVars, scan, size, data, disturbed>>
      PROVE  Types'
  BY <1>3 DEF Types, diskVars, fdVars
<1>4. CASE Refuse \/ IoError \/ ReadDone \/ Close
  BY <1>3, <1>4 DEF Refuse, IoError, ReadDone, Close, Fail, Succeed, Finish
<1>5. CASE ReadOpen
  BY <1>5 DEF ReadOpen, Opens, Types, diskVars, fdVars
<1>6. CASE WriteOpen
  <2>1. data' = call.content /\ call.content \in Seq(Byte) /\ file' = << >> /\ << >> \in Seq(Byte)
    BY <1>6, CallFacts DEF WriteOpen, Opens, Types
  <2>. QED  BY <1>6, <2>1 DEF WriteOpen, Opens, Types, fdVars
<1>7. CASE EditOpen
  <2>1. size' = Len(file) /\ Len(file) \in 0 .. EditCap
    BY <1>7, ConstantFacts DEF EditOpen, Types
  <2>. QED  BY <1>7, <2>1 DEF EditOpen, Opens, Types, diskVars, fdVars
<1>8. CASE Interrupted
  <2>1. eintr' \in 0 .. EintrMax
    BY <1>8, ConstantFacts DEF Interrupted, Types
  <2>2. pc' = pc \/ pc' = "done"
    BY <1>8 DEF Interrupted, Fail, Finish
  <2>. QED  BY <1>8, <2>1, <2>2 DEF Interrupted, Types, diskVars
<1>9. CASE ReadScan
  BY <1>9, ReadScanTyped
<1>10. CASE EditLoad
  <2>1. PICK bytes \in Readable(size - Len(data)) :
          data' = data \o bytes /\ pos' = pos + Len(bytes)
    BY <1>10 DEF EditLoad
  <2>2. size - Len(data) \in Nat /\ file \in Seq(Byte) /\ pos \in Nat
    BY <1>10, ConstantFacts DEF EditLoad, Types
  <2>3. bytes \in Seq(Byte) /\ Len(bytes) \in Nat
    BY <2>2, ReadableFacts
  <2>4. data' \in Seq(Byte) /\ pos' \in Nat
    BY <2>1, <2>2, <2>3 DEF Types
  <2>. QED  BY <1>10, <2>4, ConstantFacts DEF EditLoad, Types, diskVars
<1>11. CASE EditDecide
  <2>1. data' \in Seq(Byte) /\ pc' \in {"truncate", "done"}
    <3>1. CASE /\ pc' = "done" /\ data' = data
      BY <3>1 DEF Types
    <3>2. ASSUME NEW k \in 1 .. Len(data), Occurrences(data, call.old) = {k},
                 data' = Replace(data, k, call.old, call.new), pc' = "truncate"
          PROVE  data' \in Seq(Byte) /\ pc' \in {"truncate", "done"}
      <4>1. call.old \in Seq(Byte) /\ call.new \in Seq(Byte)
        BY <1>11, CallFacts DEF EditDecide, Types
      <4>2. k \in Occurrences(data, call.old) /\ data \in Seq(Byte)
        BY <3>2 DEF Types
      <4>. QED  BY <3>2, <4>1, <4>2, ReplaceTyped
    <3>. QED  BY <1>11, <3>1, <3>2 DEF EditDecide, Fail, Finish
  <2>. QED  BY <1>11, <2>1 DEF EditDecide, Types, diskVars, fdVars
<1>12. CASE EditTruncate
  <2>1. << >> \in Seq(Byte)
    OBVIOUS
  <2>. QED  BY <1>12, <2>1 DEF EditTruncate, Types, fdVars
<1>13. CASE EditSeek
  BY <1>13, ConstantFacts DEF EditSeek, Types, diskVars
<1>14. CASE WriteSome
  <2>1. PICK k \in 1 .. Len(data) - pos :
          file' = Overlay(file, pos, SubSeq(data, pos + 1, pos + k)) /\ pos' = pos + k
    BY <1>14 DEF WriteSome
  <2>2. pos + 1 \in Nat \ {0} /\ pos + k \in Nat /\ pos + k <= Len(data) /\ data \in Seq(Byte)
    <3>. DEFINE n == Len(data)
    <3>1. n \in Nat /\ pos \in Nat /\ k \in 1 .. n - pos /\ data \in Seq(Byte)
      BY DEF Types
    <3>. HIDE DEF n
    <3>2. pos + 1 \in Nat \ {0} /\ pos + k \in Nat /\ pos + k <= n
      BY <3>1
    <3>. QED  BY <3>1, <3>2 DEF n
  <2>3. SubSeq(data, pos + 1, pos + k) \in Seq(Byte)
    BY <2>2, Part
  <2>4. file' \in Seq(Byte)
    BY <2>1, <2>3, OverlayTyped DEF Types
  <2>. QED  BY <1>14, <2>1, <2>2, <2>4, ConstantFacts DEF WriteSome, Types
<1>15. CASE WriteDone
  BY <1>15 DEF WriteDone, Types, diskVars, fdVars
<1>. QED  BY <1>1, <1>2, <1>4, <1>5, <1>6, <1>7, <1>8, <1>9, <1>10, <1>11, <1>12, <1>13, <1>14,
             <1>15 DEF Next, Step

LEMMA TypesHold == Spec => []Types
<1>. QED  BY InitTypes, TypesStep, PTL DEF Spec

(* Every variable holds a value of its type; the window and the bytes      *)
(* examined respect their caps, whatever the file grows to                 *)
(* (read_scan_file, read_scan_chunk).                                      *)
THEOREM TypeCorrect == Spec => []TypeOK
<1>1. ASSUME Types
      PROVE  TypeOK
  <2>1. /\ scan.line \in Nat /\ scan.taken \in Nat /\ scan.scanned \in 0 .. ScanCap
        /\ scan.window \in Seq(Text) /\ Len(scan.window) <= ReturnCap
        /\ scan.full \in BOOLEAN /\ scan.finished \in BOOLEAN
    BY <1>1, ConstantFacts DEF Types, ScanRecord
  <2>. QED  BY <1>1, <2>1 DEF Types, TypeOK, Text
<1>. QED  BY <1>1, TypesHold, PTL
---------------------------------------------------------------------------
(* What write and edit leave in the file. *)

(* What the one occurrence of old_string may turn the file into. *)
Edits ==
  {Replace(before[2], k, call.old, call.new) :
     k \in {j \in 1 .. Len(before[2]) : Occurrences(before[2], call.old) = {j}}}

(* The new content is right before the file is touched, and from then on a *)
(* prefix of it is all the file holds.                                     *)
Rewriting ==
  ~disturbed =>
    /\ pc \in {"start", "scan", "load", "truncate"} => <<kind, file>> = before
    /\ pc = "start" => pos = 0 /\ data = << >>
    /\ pc = "load" => /\ size = Len(file) /\ pos <= size /\ pos = Len(data)
                      /\ data = SubSeq(file, 1, pos)
    /\ pc \in {"truncate", "seek"} => data \in Edits
    /\ pc = "seek" => file = << >>
    /\ pc = "fill" => pos <= Len(data) /\ file = SubSeq(data, 1, pos)
    /\ pc = "close" => file = data
    /\ pc \in {"fill", "close"} =>
         IF call.tool = "write" THEN kind = "regular" /\ data = call.content ELSE data \in Edits
    /\ RewriteExact

LEMMA Whole == ASSUME NEW S, NEW s \in Seq(S) PROVE SubSeq(s, 1, Len(s)) = s
<1>. DEFINE t == SubSeq(s, 1, Len(s))
<1>1. Len(s) \in Nat /\ Len(s) <= Len(s) /\ 1 \in Nat \ {0}
  OBVIOUS
<1>2. /\ t \in Seq(S) /\ Len(t) = IF 1 <= Len(s) THEN Len(s) - 1 + 1 ELSE 0
      /\ \A i \in 1 .. Len(s) - 1 + 1 : t[i] = s[1 + i - 1]
  BY <1>1, Part
<1>. HIDE DEF t
<1>3. Len(t) = Len(s) /\ \A i \in 1 .. Len(t) : t[i] = s[i]
  BY <1>1, <1>2
<1>4. t = s
  BY <1>2, <1>3, SameSeq
<1>. QED  BY <1>4 DEF t

LEMMA Beginning ==
  ASSUME NEW S, NEW s \in Seq(S), NEW n \in Nat, n <= Len(s)
  PROVE  /\ SubSeq(s, 1, n) \in Seq(S) /\ Len(SubSeq(s, 1, n)) = n
         /\ \A i \in 1 .. n : SubSeq(s, 1, n)[i] = s[i]
<1>. DEFINE t == SubSeq(s, 1, n)
<1>1. /\ t \in Seq(S) /\ Len(t) = IF 1 <= n THEN n - 1 + 1 ELSE 0
      /\ \A i \in 1 .. n - 1 + 1 : t[i] = s[1 + i - 1]
  BY Part
<1>. HIDE DEF t
<1>2. Len(t) = n /\ \A i \in 1 .. n : t[i] = s[i]
  BY <1>1
<1>. QED  BY <1>1, <1>2 DEF t

LEMMA BeginningIsPrefix ==
  ASSUME NEW S, NEW s \in Seq(S), NEW n \in Nat, n <= Len(s)
  PROVE  IsPrefix(SubSeq(s, 1, n), s)
<1>. DEFINE t == SubSeq(s, 1, n)
<1>1. t \in Seq(S) /\ Len(t) = n
  BY Beginning
<1>2. SubSeq(t, 1, Len(t)) = t
  BY <1>1, Whole
<1>. HIDE DEF t
<1>. QED  BY <1>1, <1>2 DEF IsPrefix, t

(* A beginning with the part behind it is a longer beginning. *)
LEMMA LongerBeginning ==
  ASSUME NEW S, NEW s \in Seq(S), NEW p \in Nat, NEW k \in Nat \ {0}, p + k <= Len(s)
  PROVE  /\ SubSeq(s, 1, p) \o SubSeq(s, p + 1, p + k) = SubSeq(s, 1, p + k)
         /\ Overlay(SubSeq(s, 1, p), p, SubSeq(s, p + 1, p + k)) = SubSeq(s, 1, p + k)
<1>. DEFINE a == SubSeq(s, 1, p)
            b == SubSeq(s, p + 1, p + k)
            c == SubSeq(s, 1, p + k)
<1>1. a \in Seq(S) /\ Len(a) = p /\ \A i \in 1 .. p : a[i] = s[i]
  <2>1. p <= Len(s)
    OBVIOUS
  <2>. QED  BY <2>1, Beginning
<1>2. b \in Seq(S) /\ Len(b) = k /\ \A i \in 1 .. k : b[i] = s[p + i]
  <2>1. p + 1 \in Nat \ {0} /\ p + k \in Nat /\ p + 1 <= p + k
    OBVIOUS
  <2>2. /\ b \in Seq(S) /\ Len(b) = (p + k) - (p + 1) + 1
        /\ \A i \in 1 .. (p + k) - (p + 1) + 1 : b[i] = s[(p + 1) + i - 1]
    BY <2>1, Part
  <2>. HIDE DEF b
  <2>3. (p + k) - (p + 1) + 1 = k /\ \A i \in 1 .. k : (p + 1) + i - 1 = p + i
    OBVIOUS
  <2>. QED  BY <2>2, <2>3
<1>3. c \in Seq(S) /\ Len(c) = p + k /\ \A i \in 1 .. p + k : c[i] = s[i]
  <2>1. p + k \in Nat
    OBVIOUS
  <2>. QED  BY <2>1, Beginning
<1>. HIDE DEF a, b, c
<1>4. a \o b = c
  <2>1. a \o b \in Seq(S) /\ Len(a \o b) = p + k
    <3>1. a \in Seq(S) /\ b \in Seq(S)
      BY <1>1, <1>2
    <3>2. a \o b \in Seq(S) /\ Len(a \o b) = Len(a) + Len(b)
      BY <3>1, ConcatProperties
    <3>. QED  BY <1>1, <1>2, <3>2
  <2>2. ASSUME NEW i \in 1 .. p + k
        PROVE  (a \o b)[i] = c[i]
    <3>. DEFINE d == a \o b
    <3>1. \A j \in 1 .. Len(a) + Len(b) : d[j] = IF j <= Len(a) THEN a[j] ELSE b[j - Len(a)]
      BY <1>1, <1>2, ConcatProperties
    <3>. HIDE DEF d
    <3>2. d[i] = IF i <= p THEN a[i] ELSE b[i - p]
      BY <1>1, <1>2, <3>1
    <3>3. CASE i <= p
      <4>1. i \in 1 .. p
        BY <3>3
      <4>. QED  BY <1>1, <1>3, <3>2, <3>3, <4>1 DEF d
    <3>4. CASE ~(i <= p)
      <4>1. i - p \in 1 .. k /\ p + (i - p) = i
        BY <3>4
      <4>. QED  BY <1>2, <1>3, <3>2, <3>4, <4>1 DEF d
    <3>. QED  BY <3>3, <3>4
  <2>. QED  BY <1>3, <2>1, <2>2, SameSeq
<1>5. Overlay(a, p, b) = c
  <2>1. Overlay(a, p, b) = [i \in 1 .. p + k |-> IF i \in p + 1 .. p + k THEN b[i - p]
                                                 ELSE IF i <= p THEN a[i] ELSE "NUL"]
    <3>1. (IF p + Len(b) > Len(a) THEN p + Len(b) ELSE Len(a)) = p + k
      <4>1. Len(a) = p /\ Len(b) = k
        BY <1>1, <1>2
      <4>2. (IF p + k > p THEN p + k ELSE p) = p + k
        OBVIOUS
      <4>. QED  BY <4>1, <4>2
    <3>. QED  BY <1>1, <1>2, <3>1 DEF Overlay
  <2>2. ASSUME NEW i \in 1 .. p + k
        PROVE  c[i] = IF i \in p + 1 .. p + k THEN b[i - p] ELSE IF i <= p THEN a[i] ELSE "NUL"
    <3>1. CASE i <= p
      BY <1>1, <1>3, <3>1
    <3>2. CASE ~(i <= p)
      <4>1. i - p \in 1 .. k /\ p + (i - p) = i /\ i \in p + 1 .. p + k
        BY <3>2
      <4>. QED  BY <1>2, <1>3, <4>1
    <3>. QED  BY <3>1, <3>2
  <2>3. c = [i \in 1 .. p + k |-> c[i]]
    BY <1>3
  <2>. QED  BY <2>1, <2>2, <2>3
<1>. QED  BY <1>4, <1>5 DEF a, b, c

LEMMA InitRewriting == Init => Rewriting
<1>. SUFFICES ASSUME Init
              PROVE  Rewriting
  OBVIOUS
<1>1. pc = "start" /\ <<kind, file>> = before /\ pos = 0 /\ data = << >>
  BY DEF Init
<1>. QED  BY <1>1 DEF Rewriting, RewriteExact

(* A call that fails before the file is touched, or in the middle of       *)
(* rewriting it.                                                           *)
LEMMA FailsUntouched ==
  ASSUME Types, pc' = "done", ~result'.ok, <<kind', file'>> = before', call' = call
  PROVE  RewriteExact'
BY CallFacts DEF RewriteExact, Types

LEMMA FailsHalfway ==
  ASSUME Types, pc' = "done", ~result'.ok, UNCHANGED <<diskVars, call, before>>,
         call.tool \in {"write", "edit"},
         IF call.tool = "write" THEN kind = "regular" /\ IsPrefix(file, call.content)
                                ELSE \E n \in Edits : IsPrefix(file, n)
  PROVE  RewriteExact'
<1>1. CASE call.tool = "write"
  BY <1>1 DEF RewriteExact, diskVars
<1>2. CASE call.tool = "edit"
  BY <1>2 DEF RewriteExact, Edits, diskVars
<1>. QED  BY <1>1, <1>2

(* Any failure at all. *)
LEMMA Fails ==
  ASSUME Types, Rewriting, Fail, pc # "done", ~disturbed,
         UNCHANGED <<diskVars, call, data, before, disturbed>>
  PROVE  Rewriting'
<1>1. pc' = "done" /\ ~result'.ok /\ kind' = kind /\ file' = file
  BY DEF Fail, Finish, diskVars
<1>2. RewriteExact'
  <2>1. CASE pc \in {"start", "scan", "load", "truncate"}
    <3>1. <<kind, file>> = before
      BY <2>1 DEF Rewriting
    <3>. QED  BY <1>1, <3>1, FailsUntouched
  <2>2. CASE pc = "seek"
    <3>1. data \in Edits /\ file = << >> /\ call.tool = "edit" /\ data \in Seq(Byte)
      BY <2>2 DEF Rewriting, Types
    <3>2. IsPrefix(file, data)
      <4>1. SubSeq(data, 1, 0) = << >> /\ 0 <= Len(data) /\ 0 \in Nat
        BY <3>1
      <4>. QED  BY <3>1, <4>1, BeginningIsPrefix
    <3>. QED  BY <1>1, <3>1, <3>2, FailsHalfway
  <2>3. CASE pc \in {"fill", "close"}
    <3>1. IsPrefix(file, data)
      <4>1. CASE pc = "fill"
        <5>1. file = SubSeq(data, 1, pos) /\ pos <= Len(data) /\ pos \in Nat /\ data \in Seq(Byte)
          BY <4>1 DEF Rewriting, Types
        <5>. QED  BY <5>1, BeginningIsPrefix
      <4>2. CASE pc = "close"
        <5>1. file = data /\ data \in Seq(Byte)
          BY <4>2 DEF Rewriting, Types
        <5>2. Len(data) \in Nat /\ Len(data) <= Len(data) /\ SubSeq(data, 1, Len(data)) = data
          BY <5>1, Whole
        <5>. QED  BY <5>1, <5>2 DEF IsPrefix
      <4>. QED  BY <2>3, <4>1, <4>2
    <3>2. /\ call.tool \in {"write", "edit"}
          /\ IF call.tool = "write" THEN kind = "regular" /\ data = call.content
                                    ELSE data \in Edits
      BY <2>3 DEF Rewriting, Types
    <3>. QED  BY <1>1, <3>1, <3>2, FailsHalfway
  <2>. QED  BY <2>1, <2>2, <2>3 DEF Types
<1>. QED  BY <1>1, <1>2 DEF Rewriting

LEMMA RewritingStep ==
  ASSUME Types, Rewriting, [Next]_vars
  PROVE  Rewriting'
<1>1. CASE UNCHANGED vars
  BY <1>1 DEF vars, diskVars, fdVars, Rewriting, RewriteExact, Edits
<1>2. CASE disturbed'
  BY <1>2 DEF Rewriting
<1>. SUFFICES ASSUME ~disturbed', Step
              PROVE  Rewriting'
  BY <1>1, <1>2 DEF Next, OtherWrites
<1>3. ~disturbed /\ disturbed' = disturbed /\ before' = before /\ call' = call
  BY DEF Step, Refuse, ReadOpen, WriteOpen, EditOpen, Opens, Interrupted, IoError, ReadScan,
         ReadDone, EditLoad, EditDecide, EditTruncate, EditSeek, WriteSome, WriteDone, Close
<1>4. CASE Refuse \/ IoError
  <2>1. Fail /\ pc # "done" /\ UNCHANGED <<diskVars, call, data, before, disturbed>>
    BY <1>4 DEF Refuse, IoError, InSyscall
  <2>. QED  BY <1>3, <2>1, Fails
<1>5. CASE Interrupted
  <2>1. CASE Fail
    <3>1. pc # "done" /\ UNCHANGED <<diskVars, call, data, before, disturbed>>
      BY <1>5 DEF Interrupted, InSyscall
    <3>. QED  BY <1>3, <2>1, <3>1, Fails
  <2>2. CASE UNCHANGED <<pc, result>>
    BY <1>5, <2>2 DEF Interrupted, diskVars, Rewriting, RewriteExact, Edits
  <2>. QED  BY <1>5, <2>1, <2>2 DEF Interrupted
<1>6. CASE ReadOpen
  <2>1. pc' = "scan" /\ UNCHANGED <<diskVars, data, before>> /\ <<kind, file>> = before
    BY <1>3, <1>6 DEF ReadOpen, Opens, Rewriting
  <2>. QED  BY <2>1 DEF Rewriting, RewriteExact, diskVars
<1>7. CASE ReadScan \/ ReadDone
  <2>1. /\ pc = "scan" /\ pc' \in {"scan", "done"} /\ UNCHANGED <<diskVars, before, call>>
        /\ call.tool = "read"
    BY <1>7 DEF ReadScan, ReadDone, Finish, Types
  <2>2. <<kind', file'>> = before'
    BY <1>3, <2>1 DEF Rewriting, diskVars
  <2>3. RewriteExact'
    BY <2>1, <2>2 DEF RewriteExact
  <2>. QED  BY <2>1, <2>2, <2>3 DEF Rewriting
<1>8. CASE WriteOpen
  <2>1. /\ pc' = "fill" /\ kind' = "regular" /\ file' = << >> /\ data' = call.content
        /\ pos' = pos /\ call.tool = "write" /\ pc = "start"
    BY <1>8 DEF WriteOpen, Opens, fdVars
  <2>2. pos = 0 /\ call.content \in Seq(Byte)
    BY <1>3, <2>1, CallFacts DEF Rewriting, Types
  <2>3. SubSeq(data', 1, 0) = << >> /\ 0 <= Len(data')
    BY <2>1, <2>2
  <2>. QED  BY <1>3, <2>1, <2>2, <2>3 DEF Rewriting, RewriteExact
<1>9. CASE EditOpen
  <2>1. /\ pc' = "load" /\ UNCHANGED <<diskVars, data, pos>> /\ size' = Len(file) /\ pc = "start"
    BY <1>9 DEF EditOpen, Opens, fdVars
  <2>2. pos = 0 /\ data = << >> /\ <<kind, file>> = before /\ file \in Seq(Byte)
    BY <1>3, <2>1 DEF Rewriting, Types
  <2>3. SubSeq(file, 1, 0) = << >> /\ 0 <= Len(file) /\ Len(<< >>) = 0
    BY <2>2
  <2>. QED  BY <1>3, <2>1, <2>2, <2>3 DEF Rewriting, RewriteExact, diskVars
<1>10. CASE EditLoad
  <2>1. PICK bytes \in Readable(size - Len(data)) :
          data' = data \o bytes /\ pos' = pos + Len(bytes)
    BY <1>10 DEF EditLoad
  <2>2. /\ pc = "load" /\ pc' = pc /\ UNCHANGED <<kind, file, size>>
    BY <1>10 DEF EditLoad, diskVars
  <2>3. /\ file \in Seq(Byte) /\ pos \in Nat /\ <<kind, file>> = before
        /\ size = Len(file) /\ pos <= size /\ pos = Len(data) /\ data = SubSeq(file, 1, pos)
    BY <1>3, <2>2 DEF Rewriting, Types
  <2>. DEFINE n == size - Len(data)
  <2>4. n \in Nat /\ bytes \in Readable(n)
    BY <1>10, <2>3 DEF EditLoad
  <2>. HIDE DEF n
  <2>5. PICK k \in 1 .. n :
          pos + k <= Len(file) /\ bytes = SubSeq(file, pos + 1, pos + k) /\ Len(bytes) = k
    <3>1. file \in Seq(Byte) /\ pos \in Nat
      BY <2>3
    <3>. QED  BY <2>4, <3>1, ReadableFacts
  <2>6. k \in Nat \ {0} /\ pos + k \in Nat
    BY <2>3, <2>4
  <2>7. data' = SubSeq(file, 1, pos + k) /\ pos' = pos + k
    <3>1. SubSeq(file, 1, pos) \o SubSeq(file, pos + 1, pos + k) = SubSeq(file, 1, pos + k)
      BY <2>3, <2>5, <2>6, LongerBeginning
    <3>. QED  BY <2>1, <2>3, <2>5, <3>1
  <2>8. Len(data') = pos + k
    BY <2>3, <2>5, <2>6, <2>7, Beginning
  <2>. QED  BY <1>3, <2>2, <2>3, <2>5, <2>7, <2>8 DEF Rewriting, RewriteExact
<1>11. CASE EditDecide
  <2>1. /\ pc = "load" /\ (Len(data) = size \/ Left = 0)
        /\ UNCHANGED <<kind, file, call, before>>
    BY <1>11 DEF EditDecide, diskVars
  <2>2. /\ file \in Seq(Byte) /\ pos \in Nat /\ <<kind, file>> = before /\ call.tool = "edit"
        /\ size = Len(file) /\ pos <= size /\ pos = Len(data) /\ data = SubSeq(file, 1, pos)
    BY <1>3, <2>1 DEF Rewriting, Types
  <2>3. pos = Len(file)
    <3>. DEFINE n == Len(file)
    <3>1. /\ n \in Nat /\ pos \in Nat /\ pos <= n
          /\ pos = n \/ (IF n > pos THEN n - pos ELSE 0) = 0
      BY <2>1, <2>2 DEF Left
    <3>. HIDE DEF n
    <3>2. pos = n
      BY <3>1
    <3>. QED  BY <3>2 DEF n
  <2>4. data = file /\ before[2] = file
    BY <2>2, <2>3, Whole
  <2>5. ASSUME NEW k \in 1 .. Len(data), Occurrences(data, call.old) = {k},
               data' = Replace(data, k, call.old, call.new), pc' = "truncate"
        PROVE  Rewriting'
    <3>1. data' \in Edits
      BY <2>4, <2>5 DEF Edits
    <3>2. Edits' = Edits
      BY <1>3 DEF Edits
    <3>. QED  BY <2>1, <2>2, <2>5, <3>1, <3>2 DEF Rewriting, RewriteExact
  <2>6. CASE Fail /\ UNCHANGED data
    <3>1. UNCHANGED <<diskVars, call, data, before, disturbed>> /\ pc # "done"
      BY <1>11, <2>6 DEF EditDecide
    <3>. QED  BY <1>3, <2>6, <3>1, Fails
  <2>. QED  BY <1>11, <2>5, <2>6 DEF EditDecide
<1>12. CASE EditTruncate
  <2>1. pc = "truncate" /\ pc' = "seek" /\ file' = << >> /\ data' = data
    BY <1>12 DEF EditTruncate
  <2>2. data \in Edits /\ Edits' = Edits
    BY <1>3, <2>1 DEF Rewriting, Edits
  <2>. QED  BY <2>1, <2>2 DEF Rewriting, RewriteExact
<1>13. CASE EditSeek
  <2>1. pc = "seek" /\ pc' = "fill" /\ UNCHANGED <<kind, file>> /\ data' = data /\ pos' = 0
    BY <1>13 DEF EditSeek, diskVars
  <2>2. /\ data \in Edits /\ Edits' = Edits /\ file = << >> /\ data \in Seq(Byte)
        /\ call.tool = "edit"
    BY <1>3, <2>1 DEF Rewriting, Edits, Types
  <2>3. SubSeq(data, 1, 0) = << >> /\ 0 <= Len(data)
    BY <2>2
  <2>. QED  BY <1>3, <2>1, <2>2, <2>3 DEF Rewriting, RewriteExact
<1>14. CASE WriteSome
  <2>1. PICK k \in 1 .. Len(data) - pos :
          file' = Overlay(file, pos, SubSeq(data, pos + 1, pos + k)) /\ pos' = pos + k
    BY <1>14 DEF WriteSome
  <2>2. /\ pc = "fill" /\ pc' = pc /\ kind' = kind /\ data' = data
    BY <1>14 DEF WriteSome
  <2>3. /\ file = SubSeq(data, 1, pos) /\ data \in Seq(Byte) /\ pos \in Nat
        /\ IF call.tool = "write" THEN kind = "regular" /\ data = call.content ELSE data \in Edits
        /\ Edits' = Edits
    BY <1>3, <2>2 DEF Rewriting, Edits, Types
  <2>4. k \in Nat \ {0} /\ pos + k <= Len(data) /\ pos + k \in Nat
    <3>. DEFINE n == Len(data)
    <3>1. n \in Nat /\ pos \in Nat /\ k \in 1 .. n - pos
      BY <2>3
    <3>. HIDE DEF n
    <3>2. k \in Nat \ {0} /\ pos + k <= n /\ pos + k \in Nat
      BY <3>1
    <3>. QED  BY <3>2 DEF n
  <2>5. file' = SubSeq(data, 1, pos + k)
    BY <2>1, <2>3, <2>4, LongerBeginning
  <2>. QED  BY <1>3, <2>1, <2>2, <2>3, <2>4, <2>5 DEF Rewriting, RewriteExact
<1>15. CASE WriteDone
  <2>1. pc = "fill" /\ pc' = "close" /\ UNCHANGED <<kind, file, data>> /\ pos >= Len(data)
    BY <1>15 DEF WriteDone, diskVars
  <2>2. /\ file = SubSeq(data, 1, pos) /\ data \in Seq(Byte) /\ pos \in Nat /\ pos <= Len(data)
        /\ IF call.tool = "write" THEN kind = "regular" /\ data = call.content ELSE data \in Edits
        /\ Edits' = Edits
    BY <1>3, <2>1 DEF Rewriting, Edits, Types
  <2>3. pos = Len(data)
    BY <2>1, <2>2
  <2>4. file = data
    BY <2>2, <2>3, Whole
  <2>. QED  BY <1>3, <2>1, <2>2, <2>4 DEF Rewriting, RewriteExact
<1>16. CASE Close
  <2>1. pc = "close" /\ pc' = "done" /\ UNCHANGED <<kind, file, data>> /\ result'.ok
    BY <1>16 DEF Close, Succeed, Finish, diskVars
  <2>2. /\ file = data /\ call.tool \in {"write", "edit"}
        /\ IF call.tool = "write" THEN kind = "regular" /\ data = call.content ELSE data \in Edits
    BY <1>3, <2>1 DEF Rewriting, Types
  <2>3. RewriteExact'
    <3>1. CASE call.tool = "write"
      BY <1>3, <2>1, <2>2, <3>1 DEF RewriteExact
    <3>2. CASE call.tool = "edit"
      BY <1>3, <2>1, <2>2, <3>2 DEF RewriteExact, Edits
    <3>. QED  BY <2>2, <3>1, <3>2
  <2>. QED  BY <2>1, <2>3 DEF Rewriting
<1>. QED  BY <1>4, <1>5, <1>6, <1>7, <1>8, <1>9, <1>10, <1>11, <1>12, <1>13, <1>14, <1>15, <1>16
          DEF Step

(* What write and edit report is what they did: after success the file     *)
(* holds the content, or differs in the one occurrence of old_string;      *)
(* after an error it is as it was, or holds a prefix of the new content,   *)
(* however little each write moves (write_execute, edit_execute,           *)
(* edit_rewrite).                                                          *)
THEOREM RewritesExactly == Spec => []RewriteExact
<1>1. Types /\ Rewriting /\ [Next]_vars => Rewriting'
  BY RewritingStep
<1>2. Rewriting => RewriteExact
  BY DEF Rewriting, RewriteExact
<1>. QED  BY <1>1, <1>2, InitRewriting, TypesHold, PTL DEF Spec
---------------------------------------------------------------------------
(* The lines of a file. *)

Feeds(f, k) == {j \in 1 .. k : f[j] = "LF"}

LEMMA FeedsFinite ==
  ASSUME NEW f, NEW k \in Nat
  PROVE  IsFiniteSet(Feeds(f, k)) /\ LineFeeds(f, k) = Cardinality(Feeds(f, k)) /\ LineFeeds(f, k) \in Nat
<1>1. Feeds(f, k) \in SUBSET Nat /\ \A j \in Feeds(f, k) : j <= k
  BY DEF Feeds
<1>2. IsFiniteSet(Feeds(f, k))
  BY <1>1, FS_BoundedSetOfNaturals
<1>3. LineFeeds(f, k) = Cardinality(Feeds(f, k))
  BY DEF LineFeeds, Feeds
<1>. QED  BY <1>2, <1>3, FS_CardinalityType

LEMMA NoLineFeeds == \A f : LineFeeds(f, 0) = 0
<1>. TAKE f
<1>1. LineFeeds(f, 0) = Cardinality(Feeds(f, 0))
  BY DEF LineFeeds, Feeds
<1>2. Feeds(f, 0) = {}
  BY DEF Feeds
<1>. QED  BY <1>1, <1>2, FS_EmptySet

LEMMA NextLineFeeds ==
  ASSUME NEW f, NEW k \in Nat
  PROVE  LineFeeds(f, k + 1) = IF f[k + 1] = "LF" THEN LineFeeds(f, k) + 1 ELSE LineFeeds(f, k)
<1>1. /\ IsFiniteSet(Feeds(f, k)) /\ LineFeeds(f, k) = Cardinality(Feeds(f, k))
  BY FeedsFinite
<1>2. LineFeeds(f, k + 1) = Cardinality(Feeds(f, k + 1))
  BY DEF LineFeeds, Feeds
<1>3. Feeds(f, k + 1) = IF f[k + 1] = "LF" THEN Feeds(f, k) \cup {k + 1} ELSE Feeds(f, k)
  BY DEF Feeds
<1>4. k + 1 \notin Feeds(f, k)
  BY DEF Feeds
<1>5. Cardinality(Feeds(f, k) \cup {k + 1}) = Cardinality(Feeds(f, k)) + 1
  BY <1>1, <1>4, FS_AddElement
<1>. QED  BY <1>1, <1>2, <1>3, <1>5

LEMMA MoreLineFeeds ==
  ASSUME NEW f, NEW i \in Nat, NEW k \in Nat, i <= k
  PROVE  LineFeeds(f, i) <= LineFeeds(f, k)
<1>1. Feeds(f, i) \in SUBSET Feeds(f, k)
  BY DEF Feeds
<1>2. Cardinality(Feeds(f, i)) <= Cardinality(Feeds(f, k))
  BY <1>1, FeedsFinite, FS_Subset
<1>. QED  BY <1>2, FeedsFinite

LEMMA SameLineFeeds ==
  ASSUME NEW f, NEW g, NEW k \in Nat, \A j \in 1 .. k : f[j] = g[j]
  PROVE  LineFeeds(f, k) = LineFeeds(g, k)
<1>1. Feeds(f, k) = Feeds(g, k)
  BY DEF Feeds
<1>. QED  BY <1>1 DEF LineFeeds, Feeds

LEMMA CompleteAppend ==
  ASSUME NEW w \in Seq(Byte), NEW b \in Byte
  PROVE  /\ Complete(w) \in Nat
         /\ Complete(Append(w, b)) = IF b = "LF" THEN Complete(w) + 1 ELSE Complete(w)
<1>. DEFINE k == Len(w)
            v == Append(w, b)
<1>1. k \in Nat /\ Len(v) = k + 1 /\ v[k + 1] = b /\ \A j \in 1 .. k : v[j] = w[j]
  OBVIOUS
<1>2. Complete(w) = LineFeeds(w, k) /\ Complete(v) = LineFeeds(v, k + 1)
  BY <1>1 DEF Complete
<1>. HIDE DEF k, v
<1>3. LineFeeds(v, k) = LineFeeds(w, k)
  BY <1>1, SameLineFeeds
<1>4. LineFeeds(v, k + 1) = IF v[k + 1] = "LF" THEN LineFeeds(v, k) + 1 ELSE LineFeeds(v, k)
  BY <1>1, NextLineFeeds
<1>5. LineFeeds(w, k) \in Nat
  BY <1>1, FeedsFinite
<1>. QED  BY <1>1, <1>2, <1>3, <1>4, <1>5 DEF v
---------------------------------------------------------------------------
(* The wanted lines of the first k bytes of a file. *)

IsWanted(c, f, i) == LineOf(f, i) \in c.from .. c.from + c.limit - 1

WantedAt(c, f, k) == {i \in 1 .. k : IsWanted(c, f, i)}

WantedOf(c, f) ==
  LET in == {i \in 1 .. Len(f) : LineOf(f, i) \in c.from .. c.from + c.limit - 1}
  IN  IF in = {} THEN <<>>
      ELSE SubSeq(f, CHOOSE i \in in : \A j \in in : i <= j, CHOOSE i \in in : \A j \in in : j <= i)

WantedIn(c, f, k) == WantedOf(c, SubSeq(f, 1, k))

LEMMA WantedIsOfCall == ASSUME NEW f PROVE Wanted(f) = WantedOf(call, f)
BY DEF Wanted, WantedOf

(* The bytes of the wanted lines lie together. *)
LEMMA WantedTogether ==
  ASSUME NEW c, NEW f, c.from \in Nat, c.limit \in Nat, NEW i \in Nat \ {0}, NEW j \in Nat, NEW k \in Nat,
         i <= j, j <= k, IsWanted(c, f, i), IsWanted(c, f, k)
  PROVE  IsWanted(c, f, j)
<1>1. i - 1 \in Nat /\ j - 1 \in Nat /\ k - 1 \in Nat /\ i - 1 <= j - 1 /\ j - 1 <= k - 1
  OBVIOUS
<1>2. LineFeeds(f, i - 1) <= LineFeeds(f, j - 1)
  BY <1>1, MoreLineFeeds
<1>3. LineFeeds(f, j - 1) <= LineFeeds(f, k - 1)
  BY <1>1, MoreLineFeeds
<1>4. LineFeeds(f, i - 1) \in Nat /\ LineFeeds(f, j - 1) \in Nat /\ LineFeeds(f, k - 1) \in Nat
  BY <1>1, FeedsFinite
<1>. QED  BY <1>2, <1>3, <1>4 DEF IsWanted, LineOf

LEMMA WantedInterval ==
  ASSUME NEW c, NEW f, c.from \in Nat, c.limit \in Nat, NEW n \in Nat
  PROVE  WantedAt(c, f, n) = {} \/ \E lo \in 1 .. n, hi \in 1 .. n : lo <= hi /\ WantedAt(c, f, n) = lo .. hi
<1>. DEFINE At(k) == WantedAt(c, f, k)
            P(k) == At(k) = {} \/ \E lo \in 1 .. k, hi \in 1 .. k : lo <= hi /\ At(k) = lo .. hi
            D == {k \in Nat : P(k)}
<1>1. 0 \in D
  <2>1. At(0) = {}
    BY DEF WantedAt
  <2>. QED  BY <2>1
<1>2. ASSUME NEW k \in Nat, k \in D
      PROVE  k + 1 \in D
  <2>1. At(k + 1) = IF IsWanted(c, f, k + 1) THEN At(k) \cup {k + 1} ELSE At(k)
    BY DEF WantedAt
  <2>2. \A i \in At(k) : i \in 1 .. k /\ IsWanted(c, f, i)
    BY DEF WantedAt
  <2>3. \A i \in 1 .. k : IsWanted(c, f, i) => i \in At(k)
    BY DEF WantedAt
  <2>4. P(k)
    BY <1>2
  <2>. HIDE DEF At
  <2>5. CASE At(k) = {} /\ IsWanted(c, f, k + 1)
    <3>1. At(k + 1) = {k + 1}
      BY <2>1, <2>5
    <3>2. (k + 1) .. (k + 1) = {k + 1} /\ k + 1 \in 1 .. k + 1 /\ k + 1 <= k + 1
      OBVIOUS
    <3>3. At(k + 1) = (k + 1) .. (k + 1)
      BY <3>1, <3>2
    <3>. HIDE DEF P
    <3>4. P(k + 1)
      BY <3>2, <3>3 DEF P
    <3>. QED  BY <3>4
  <2>6. CASE At(k) # {} /\ IsWanted(c, f, k + 1)
    <3>1. PICK lo \in 1 .. k, hi \in 1 .. k : lo <= hi /\ At(k) = lo .. hi
      BY <2>4, <2>6
    <3>2. lo \in Nat \ {0} /\ lo <= k /\ k <= k + 1 /\ k + 1 \in Nat
      OBVIOUS
    <3>3. IsWanted(c, f, lo)
      BY <2>2, <3>1
    <3>4. IsWanted(c, f, k)
      BY <2>6, <3>2, <3>3, WantedTogether
    <3>5. hi = k
      BY <2>3, <3>1, <3>4
    <3>6. At(k + 1) = lo .. (k + 1)
      <4>1. (lo .. k) \cup {k + 1} = lo .. (k + 1)
        BY <3>2
      <4>. QED  BY <2>1, <2>6, <3>1, <3>5, <4>1
    <3>. QED  BY <3>1, <3>2, <3>6
  <2>7. CASE ~IsWanted(c, f, k + 1)
    <3>1. At(k + 1) = At(k)
      BY <2>1, <2>7
    <3>. QED  BY <2>4, <3>1
  <2>. QED  BY <2>5, <2>6, <2>7
<1>. HIDE DEF D
<1>3. n \in D
  BY <1>1, <1>2, SetInduction
<1>. QED  BY <1>3 DEF D

(* A part of a beginning is a part. *)
LEMMA PartOfBeginning ==
  ASSUME NEW S, NEW f \in Seq(S), NEW k \in Nat, k <= Len(f), NEW lo \in 1 .. k, NEW hi \in 1 .. k
  PROVE  SubSeq(SubSeq(f, 1, k), lo, hi) = SubSeq(f, lo, hi)
<1>. DEFINE g == SubSeq(f, 1, k)
            s == SubSeq(g, lo, hi)
            t == SubSeq(f, lo, hi)
<1>1. g \in Seq(S) /\ Len(g) = k /\ \A i \in 1 .. k : g[i] = f[i]
  BY Beginning
<1>2. lo \in Nat \ {0} /\ hi \in Nat /\ hi <= Len(f) /\ hi <= k
  OBVIOUS
<1>3. /\ t \in Seq(S) /\ Len(t) = IF lo <= hi THEN hi - lo + 1 ELSE 0
      /\ \A i \in 1 .. hi - lo + 1 : t[i] = f[lo + i - 1]
  BY <1>2, Part
<1>. HIDE DEF g
<1>4. /\ s \in Seq(S) /\ Len(s) = IF lo <= hi THEN hi - lo + 1 ELSE 0
      /\ \A i \in 1 .. hi - lo + 1 : s[i] = g[lo + i - 1]
  BY <1>1, <1>2, Part
<1>. HIDE DEF s, t
<1>5. ASSUME NEW i \in 1 .. Len(s)
      PROVE  s[i] = t[i]
  <2>1. i \in 1 .. hi - lo + 1 /\ lo + i - 1 \in 1 .. k
    BY <1>2, <1>4
  <2>. QED  BY <1>1, <1>3, <1>4, <2>1
<1>6. Len(s) = Len(t)
  BY <1>3, <1>4
<1>7. s = t
  BY <1>3, <1>4, <1>5, <1>6, SameSeq
<1>. QED  BY <1>7 DEF g, s, t

(* The wanted lines are the part between the first and the last of their   *)
(* bytes.                                                                  *)
LEMMA WantedIsPart ==
  ASSUME NEW c, NEW f \in Seq(Byte), NEW k \in Nat, k <= Len(f)
  PROVE  /\ WantedAt(c, f, k) = {} => WantedIn(c, f, k) = << >>
         /\ \A lo \in 1 .. k, hi \in 1 .. k :
              lo <= hi /\ WantedAt(c, f, k) = lo .. hi => WantedIn(c, f, k) = SubSeq(f, lo, hi)
<1>. DEFINE g == SubSeq(f, 1, k)
            in == {i \in 1 .. Len(g) : LineOf(g, i) \in c.from .. c.from + c.limit - 1}
<1>1. g \in Seq(Byte) /\ Len(g) = k /\ \A i \in 1 .. k : g[i] = f[i]
  BY Beginning
<1>2. ASSUME NEW i \in 1 .. k
      PROVE  LineOf(g, i) = LineOf(f, i)
  <2>1. i - 1 \in Nat /\ \A j \in 1 .. i - 1 : j \in 1 .. k
    OBVIOUS
  <2>2. \A j \in 1 .. i - 1 : g[j] = f[j]
    BY <1>1, <2>1
  <2>. HIDE DEF g
  <2>3. LineFeeds(g, i - 1) = LineFeeds(f, i - 1)
    BY <2>1, <2>2, SameLineFeeds
  <2>. QED  BY <2>3 DEF LineOf
<1>3. WantedIn(c, f, k) = IF in = {} THEN <<>>
         ELSE SubSeq(g, CHOOSE i \in in : \A j \in in : i <= j, CHOOSE i \in in : \A j \in in : j <= i)
  BY DEF WantedIn, WantedOf
<1>. HIDE DEF g
<1>4. in = WantedAt(c, f, k)
  BY <1>1, <1>2 DEF WantedAt, IsWanted
<1>. HIDE DEF in
<1>5. ASSUME NEW lo \in 1 .. k, NEW hi \in 1 .. k, lo <= hi, WantedAt(c, f, k) = lo .. hi
      PROVE  WantedIn(c, f, k) = SubSeq(f, lo, hi)
  <2>. DEFINE first == CHOOSE i \in in : \A j \in in : i <= j
              last == CHOOSE i \in in : \A j \in in : j <= i
  <2>1. in = lo .. hi /\ lo \in in /\ hi \in in
    BY <1>4, <1>5
  <2>2. first \in in /\ \A j \in in : first <= j
    <3>1. \E i \in in : \A j \in in : i <= j
      BY <2>1
    <3>. QED  BY <3>1
  <2>3. last \in in /\ \A j \in in : j <= last
    <3>1. \E i \in in : \A j \in in : j <= i
      BY <2>1
    <3>. QED  BY <3>1
  <2>4. WantedIn(c, f, k) = SubSeq(g, first, last)
    BY <1>3, <2>1
  <2>. HIDE DEF first, last
  <2>5. first = lo /\ last = hi
    BY <2>1, <2>2, <2>3
  <2>. QED  BY <2>4, <2>5, PartOfBeginning DEF g
<1>6. WantedAt(c, f, k) = {} => WantedIn(c, f, k) = << >>
  BY <1>3, <1>4
<1>. QED  BY <1>5, <1>6

LEMMA WantedTyped ==
  ASSUME NEW c, NEW f \in Seq(Byte), c.from \in Nat, c.limit \in Nat, NEW k \in Nat, k <= Len(f)
  PROVE  WantedIn(c, f, k) \in Seq(Byte)
<1>0. /\ WantedAt(c, f, k) = {} => WantedIn(c, f, k) = << >>
      /\ \A lo \in 1 .. k, hi \in 1 .. k :
           lo <= hi /\ WantedAt(c, f, k) = lo .. hi => WantedIn(c, f, k) = SubSeq(f, lo, hi)
  BY WantedIsPart
<1>1. CASE WantedAt(c, f, k) = {}
  <2>1. << >> \in Seq(Byte)
    OBVIOUS
  <2>2. WantedIn(c, f, k) = << >>
    BY <1>0, <1>1
  <2>. QED  BY <2>1, <2>2
<1>2. ASSUME NEW lo \in 1 .. k, NEW hi \in 1 .. k, lo <= hi, WantedAt(c, f, k) = lo .. hi
      PROVE  WantedIn(c, f, k) \in Seq(Byte)
  <2>1. WantedIn(c, f, k) = SubSeq(f, lo, hi)
    BY <1>0, <1>2
  <2>2. lo \in Nat \ {0} /\ hi \in Nat /\ hi <= Len(f)
    OBVIOUS
  <2>3. SubSeq(f, lo, hi) \in Seq(Byte)
    BY <2>2, Part
  <2>. QED  BY <2>1, <2>3
<1>. QED  BY <1>1, <1>2, WantedInterval

LEMMA PartWithNext ==
  ASSUME NEW S, NEW f \in Seq(S), NEW lo \in Nat \ {0}, NEW k \in Nat, lo <= k + 1, k + 1 <= Len(f)
  PROVE  SubSeq(f, lo, k + 1) = Append(SubSeq(f, lo, k), f[k + 1])
<1>. DEFINE s == SubSeq(f, lo, k)
            t == SubSeq(f, lo, k + 1)
            b == f[k + 1]
            n == k - lo + 1
<1>1. k \in Nat /\ k <= Len(f) /\ k + 1 \in Nat /\ n \in Nat /\ k + 1 - lo + 1 = n + 1
  OBVIOUS
<1>2. s \in Seq(S) /\ Len(s) = n /\ \A i \in 1 .. n : s[i] = f[lo + i - 1]
  <2>1. (IF lo <= k THEN k - lo + 1 ELSE 0) = n
    OBVIOUS
  <2>. QED  BY <1>1, <2>1, Part
<1>3. t \in Seq(S) /\ Len(t) = n + 1 /\ \A i \in 1 .. n + 1 : t[i] = f[lo + i - 1]
  <2>1. /\ t \in Seq(S) /\ Len(t) = IF lo <= k + 1 THEN k + 1 - lo + 1 ELSE 0
        /\ \A i \in 1 .. k + 1 - lo + 1 : t[i] = f[lo + i - 1]
    BY <1>1, Part
  <2>. QED  BY <1>1, <2>1
<1>4. b \in S /\ lo + (n + 1) - 1 = k + 1
  <2>1. k + 1 \in 1 .. Len(f)
    BY <1>1
  <2>. QED  BY <2>1
<1>. HIDE DEF s, t, n
<1>5. b = t[n + 1]
  BY <1>1, <1>3, <1>4
<1>. HIDE DEF b
<1>6. /\ Append(s, b) \in Seq(S) /\ Len(Append(s, b)) = n + 1
      /\ Append(s, b)[n + 1] = b /\ \A i \in 1 .. n : Append(s, b)[i] = s[i]
  BY <1>2, <1>4
<1>7. ASSUME NEW i \in 1 .. n + 1
      PROVE  Append(s, b)[i] = t[i]
  <2>1. CASE i = n + 1
    BY <1>5, <1>6, <2>1
  <2>2. CASE i \in 1 .. n
    BY <1>2, <1>3, <1>6, <2>2
  <2>3. i = n + 1 \/ i \in 1 .. n
    <3>1. n \in Nat
      BY <1>1
    <3>. QED  BY <3>1
  <2>. QED  BY <2>1, <2>2, <2>3
<1>8. Append(s, b) = t
  BY <1>3, <1>6, <1>7, SameSeq
<1>. QED  BY <1>8 DEF s, t, b

(* One byte more is wanted or is not. *)
LEMMA WantedGrows ==
  ASSUME NEW c, NEW f \in Seq(Byte), c.from \in Nat, c.limit \in Nat, NEW k \in Nat, k + 1 <= Len(f)
  PROVE  WantedIn(c, f, k + 1) = IF IsWanted(c, f, k + 1) THEN Append(WantedIn(c, f, k), f[k + 1])
                                                          ELSE WantedIn(c, f, k)
<1>. DEFINE In == WantedAt(c, f, k)
            In1 == WantedAt(c, f, k + 1)
<1>1. k <= Len(f) /\ k + 1 \in Nat
  OBVIOUS
<1>2. In1 = IF IsWanted(c, f, k + 1) THEN In \cup {k + 1} ELSE In
  BY DEF WantedAt
<1>3. \A i \in In : i \in 1 .. k /\ IsWanted(c, f, i)
  BY DEF WantedAt
<1>4. \A i \in 1 .. k : IsWanted(c, f, i) => i \in In
  BY DEF WantedAt
<1>5. In = {} \/ \E lo \in 1 .. k, hi \in 1 .. k : lo <= hi /\ In = lo .. hi
  BY WantedInterval
<1>6. /\ In1 = {} => WantedIn(c, f, k + 1) = << >>
      /\ \A lo \in 1 .. k + 1, hi \in 1 .. k + 1 :
           lo <= hi /\ In1 = lo .. hi => WantedIn(c, f, k + 1) = SubSeq(f, lo, hi)
  BY <1>1, WantedIsPart
<1>7. /\ In = {} => WantedIn(c, f, k) = << >>
      /\ \A lo \in 1 .. k, hi \in 1 .. k :
           lo <= hi /\ In = lo .. hi => WantedIn(c, f, k) = SubSeq(f, lo, hi)
  BY <1>1, WantedIsPart
<1>. HIDE DEF In, In1
<1>8. CASE In = {} /\ ~IsWanted(c, f, k + 1)
  BY <1>2, <1>6, <1>7, <1>8
<1>9. CASE In = {} /\ IsWanted(c, f, k + 1)
  <2>1. (k + 1) .. (k + 1) = {k + 1} /\ k + 1 \in 1 .. k + 1 /\ k + 1 <= k + 1 /\ k + 1 \in Nat \ {0}
    OBVIOUS
  <2>2. WantedIn(c, f, k + 1) = SubSeq(f, k + 1, k + 1)
    BY <1>2, <1>6, <1>9, <2>1
  <2>3. SubSeq(f, k + 1, k + 1) = Append(SubSeq(f, k + 1, k), f[k + 1])
    BY <2>1, PartWithNext
  <2>4. SubSeq(f, k + 1, k) = << >>
    OBVIOUS
  <2>. QED  BY <1>7, <1>9, <2>2, <2>3, <2>4
<1>10. ASSUME NEW lo \in 1 .. k, NEW hi \in 1 .. k, lo <= hi, In = lo .. hi
       PROVE  WantedIn(c, f, k + 1) = IF IsWanted(c, f, k + 1) THEN Append(WantedIn(c, f, k), f[k + 1])
                                                               ELSE WantedIn(c, f, k)
  <2>1. WantedIn(c, f, k) = SubSeq(f, lo, hi)
    BY <1>7, <1>10
  <2>2. lo \in 1 .. k + 1 /\ hi \in 1 .. k + 1 /\ k + 1 \in 1 .. k + 1
    OBVIOUS
  <2>3. CASE ~IsWanted(c, f, k + 1)
    <3>1. WantedIn(c, f, k + 1) = SubSeq(f, lo, hi)
      BY <1>2, <1>6, <1>10, <2>2, <2>3
    <3>. QED  BY <2>1, <2>3, <3>1
  <2>4. CASE IsWanted(c, f, k + 1)
    <3>1. lo \in Nat \ {0} /\ lo <= k /\ k <= k + 1 /\ lo <= k + 1
      OBVIOUS
    <3>2. IsWanted(c, f, lo)
      BY <1>3, <1>10
    <3>3. IsWanted(c, f, k)
      BY <1>1, <2>4, <3>1, <3>2, WantedTogether
    <3>4. hi = k
      BY <1>4, <1>10, <3>3
    <3>5. (lo .. k) \cup {k + 1} = lo .. (k + 1)
      BY <3>1
    <3>6. In1 = lo .. (k + 1)
      BY <1>2, <1>10, <2>4, <3>4, <3>5
    <3>7. WantedIn(c, f, k + 1) = SubSeq(f, lo, k + 1)
      BY <1>6, <2>2, <3>1, <3>6
    <3>8. SubSeq(f, lo, k + 1) = Append(SubSeq(f, lo, k), f[k + 1])
      BY <3>1, PartWithNext
    <3>. QED  BY <2>1, <2>4, <3>4, <3>7, <3>8
  <2>. QED  BY <2>3, <2>4
<1>. QED  BY <1>5, <1>8, <1>9, <1>10

LEMMA NothingWanted == ASSUME NEW c, NEW f \in Seq(Byte) PROVE WantedIn(c, f, 0) = << >>
<1>1. WantedAt(c, f, 0) = {} /\ 0 \in Nat /\ 0 <= Len(f)
  BY DEF WantedAt
<1>. QED  BY <1>1, WantedIsPart
---------------------------------------------------------------------------
(* What a scan holds of the wanted lines w, after n line feeds: all of     *)
(* them while it goes on; once it is over, no more than fit, or all that   *)
(* will ever be wanted.                                                    *)
Scanning(c, s, w, n) ==
  /\ ~s.full /\ s.window = w /\ Len(w) <= ReturnCap
  /\ s.line = 1 + n /\ s.taken = Complete(w) /\ s.taken < c.limit
  /\ s.line >= c.from => s.line = c.from + s.taken
  /\ s.line < c.from => s.taken = 0

Overfull(s, w) == s.full /\ Len(w) > ReturnCap /\ s.window = SubSeq(w, 1, ReturnCap)

AllTaken(c, s, w, n) ==
  /\ ~s.full /\ s.window = w /\ Len(w) <= ReturnCap
  /\ n + 1 >= c.from + c.limit /\ Complete(w) = c.limit

Follows(c, s, w, n) ==
  IF s.finished THEN Overfull(s, w) \/ AllTaken(c, s, w, n) ELSE Scanning(c, s, w, n)

IsWantedAfter(c, n) == 1 + n \in c.from .. c.from + c.limit - 1

(* A beginning of the window is one of a longer window. *)
LEMMA BeginningOfAppend ==
  ASSUME NEW S, NEW w \in Seq(S), NEW b \in S, NEW k \in Nat, k <= Len(w)
  PROVE  SubSeq(Append(w, b), 1, k) = SubSeq(w, 1, k)
<1>. DEFINE m == Len(w)
            v == Append(w, b)
<1>1. m \in Nat /\ v \in Seq(S) /\ Len(v) = m + 1 /\ \A i \in 1 .. m : v[i] = w[i]
  OBVIOUS
<1>2. /\ SubSeq(w, 1, k) \in Seq(S) /\ Len(SubSeq(w, 1, k)) = k
      /\ \A i \in 1 .. k : SubSeq(w, 1, k)[i] = w[i]
  BY Beginning
<1>. HIDE DEF v
<1>3. k <= Len(v)
  BY <1>1
<1>4. /\ SubSeq(v, 1, k) \in Seq(S) /\ Len(SubSeq(v, 1, k)) = k
      /\ \A i \in 1 .. k : SubSeq(v, 1, k)[i] = v[i]
  BY <1>1, <1>3, Beginning
<1>. DEFINE x == SubSeq(v, 1, k)
            y == SubSeq(w, 1, k)
<1>5. \A i \in 1 .. k : x[i] = y[i]
  <2>1. \A i \in 1 .. k : i \in 1 .. m
    BY <1>1
  <2>. QED  BY <1>1, <1>2, <1>4, <2>1
<1>. HIDE DEF x, y
<1>6. x = y
  BY <1>2, <1>4, <1>5, SameSeq DEF x, y
<1>. QED  BY <1>6 DEF x, y, v

(* A scan that is over has all it will have. *)
LEMMA OverStays ==
  ASSUME NEW c, c.from \in Nat, c.limit \in Nat, NEW s, NEW w \in Seq(Byte), NEW n \in Nat, NEW b \in Byte,
         s.finished, Follows(c, s, w, n)
  PROVE  Follows(c, s, IF IsWantedAfter(c, n) THEN Append(w, b) ELSE w, IF b = "LF" THEN n + 1 ELSE n)
<1>1. CASE Overfull(s, w)
  <2>. DEFINE v == Append(w, b)
              m == Len(w)
  <2>1. m \in Nat /\ Len(v) = m + 1 /\ m > ReturnCap /\ s.window = SubSeq(w, 1, ReturnCap)
    BY <1>1 DEF Overfull
  <2>2. ReturnCap \in Nat
    BY ConstantFacts
  <2>3. ReturnCap <= m /\ m + 1 > ReturnCap
    <3>. HIDE DEF m
    <3>. QED  BY <2>1, <2>2
  <2>4. SubSeq(v, 1, ReturnCap) = SubSeq(w, 1, ReturnCap)
    BY <2>2, <2>3, BeginningOfAppend
  <2>. HIDE DEF v
  <2>5. Overfull(s, v)
    BY <1>1, <2>1, <2>3, <2>4 DEF Overfull
  <2>. QED  BY <1>1, <2>5 DEF Follows, v
<1>2. CASE AllTaken(c, s, w, n)
  <2>1. n + 1 >= c.from + c.limit
    BY <1>2 DEF AllTaken
  <2>2. ~IsWantedAfter(c, n)
    BY <2>1 DEF IsWantedAfter
  <2>3. AllTaken(c, s, w, IF b = "LF" THEN n + 1 ELSE n)
    <3>1. n + 1 + 1 >= c.from + c.limit
      BY <2>1
    <3>. QED  BY <1>2, <3>1 DEF AllTaken
  <2>. QED  BY <2>2, <2>3 DEF Follows
<1>. QED  BY <1>1, <1>2 DEF Follows

(* What a byte does to a scan is what it does to the wanted lines. *)
LEMMA ByteFollows ==
  ASSUME call.from \in Nat, call.limit \in Nat, NEW s \in ScanRecord, NEW w \in Seq(Byte), NEW n \in Nat,
         NEW b \in Text, Follows(call, s, w, n)
  PROVE  Follows(call, ScanByte(s, b), IF IsWantedAfter(call, n) THEN Append(w, b) ELSE w,
                 IF b = "LF" THEN n + 1 ELSE n)
<1>. DEFINE t == ScanByte(s, b)
            v == Append(w, b)
            m == IF b = "LF" THEN n + 1 ELSE n
<1>1. b \in Byte
  BY DEF Text
<1>2. CASE s.finished
  BY <1>1, <1>2, ByteSkipped, OverStays
<1>. SUFFICES ASSUME ~s.finished
              PROVE  Follows(call, t, IF IsWantedAfter(call, n) THEN v ELSE w, m)
  BY <1>2
<1>3. /\ ~s.full /\ s.window = w /\ Len(w) <= ReturnCap
      /\ s.line = 1 + n /\ s.taken = Complete(w) /\ s.taken < call.limit
      /\ s.line >= call.from => s.line = call.from + s.taken
      /\ s.line < call.from => s.taken = 0
  BY DEF Follows, Scanning
<1>4. s.taken \in Nat /\ s.line \in Nat
  BY DEF ScanRecord
<1>5. CASE ~(s.line >= call.from)
  <2>1. /\ t.window = s.window /\ t.taken = s.taken /\ t.full = s.full /\ ~t.finished
        /\ t.line = IF b = "LF" THEN s.line + 1 ELSE s.line
    BY <1>5, ByteNotWanted
  <2>. HIDE DEF t
  <2>2. ~IsWantedAfter(call, n)
    BY <1>3, <1>5 DEF IsWantedAfter
  <2>3. s.taken = 0 /\ t.line = 1 + m /\ (t.line >= call.from => t.line = call.from)
    BY <1>3, <1>4, <1>5, <2>1
  <2>. HIDE DEF m
  <2>4. Scanning(call, t, w, m)
    BY <1>3, <1>4, <2>1, <2>3 DEF Scanning
  <2>. QED  BY <2>1, <2>2, <2>4 DEF Follows
<1>6. CASE s.line >= call.from
  <2>1. s.line = call.from + s.taken /\ IsWantedAfter(call, n)
    BY <1>3, <1>4, <1>6 DEF IsWantedAfter
  <2>2. v \in Seq(Byte) /\ Len(v) = Len(w) + 1
    BY <1>1
  <2>3. Complete(v) = IF b = "LF" THEN Complete(w) + 1 ELSE Complete(w)
    BY <1>1, CompleteAppend
  <2>4. CASE Len(w) = ReturnCap
    <3>1. t.window = s.window /\ t.full /\ t.finished
      BY <1>3, <1>6, <2>4, ByteTooMany
    <3>2. SubSeq(v, 1, ReturnCap) = SubSeq(w, 1, ReturnCap)
      BY <1>1, <2>4, ConstantFacts, BeginningOfAppend
    <3>3. SubSeq(w, 1, ReturnCap) = w
      BY <2>4, Whole
    <3>4. Len(v) > ReturnCap
      BY <2>2, <2>4, ConstantFacts
    <3>. HIDE DEF t, v
    <3>5. Overfull(t, v)
      BY <1>3, <3>1, <3>2, <3>3, <3>4 DEF Overfull
    <3>. QED  BY <2>1, <3>1, <3>5 DEF Follows
  <2>5. CASE Len(w) # ReturnCap
    <3>1. /\ t.window = Append(s.window, b) /\ t.full = s.full
          /\ t.taken = IF b = "LF" THEN s.taken + 1 ELSE s.taken
          /\ t.finished <=> b = "LF" /\ s.taken + 1 >= call.limit
          /\ t.line = IF b = "LF" THEN s.line + 1 ELSE s.line
      BY <1>3, <1>6, <2>5, ByteTaken
    <3>2. Len(v) <= ReturnCap
      <4>. DEFINE l == Len(w)
      <4>1. l \in Nat /\ l <= ReturnCap /\ l # ReturnCap /\ Len(v) = l + 1
        BY <1>3, <2>2, <2>5
      <4>. HIDE DEF l, v
      <4>. QED  BY <4>1, ConstantFacts
    <3>. HIDE DEF t, v
    <3>3. t.window = v /\ ~t.full
      BY <1>3, <3>1 DEF v
    <3>4. t.line = 1 + m /\ t.taken = Complete(v) /\ t.line = call.from + t.taken
      BY <1>3, <1>4, <2>1, <2>3, <3>1
    <3>5. CASE t.finished
      <4>1. b = "LF" /\ s.taken + 1 = call.limit
        BY <1>3, <1>4, <3>1, <3>5
      <4>2. t.taken = call.limit
        BY <3>1, <4>1
      <4>3. m + 1 >= call.from + call.limit
        <5>1. m \in Nat /\ 1 + m = call.from + call.limit
          BY <3>4, <4>2
        <5>. QED  BY <5>1
      <4>4. AllTaken(call, t, v, m)
        BY <3>2, <3>3, <3>4, <4>2, <4>3 DEF AllTaken
      <4>. QED  BY <2>1, <3>5, <4>4 DEF Follows
    <3>6. CASE ~t.finished
      <4>1. t.taken < call.limit
        BY <1>3, <1>4, <3>1, <3>6
      <4>2. t.taken \in Nat
        BY <1>4, <3>1
      <4>3. ~(t.line < call.from)
        BY <3>4, <4>2
      <4>4. Scanning(call, t, v, m)
        BY <3>2, <3>3, <3>4, <4>1, <4>3 DEF Scanning
      <4>. QED  BY <2>1, <3>6, <4>4 DEF Follows
    <3>. QED  BY <3>5, <3>6
  <2>. QED  BY <2>4, <2>5
<1>. QED  BY <1>5, <1>6

(* The scan stands k bytes into the file. *)
StandsAt(c, s, f, k) == Follows(c, s, WantedIn(c, f, k), LineFeeds(f, k))

LEMMA NextWanted ==
  ASSUME NEW c, NEW f \in Seq(Byte), c.from \in Nat, c.limit \in Nat, NEW k \in Nat, k + 1 <= Len(f)
  PROVE  /\ WantedIn(c, f, k) \in Seq(Byte) /\ LineFeeds(f, k) \in Nat /\ f[k + 1] \in Byte
         /\ WantedIn(c, f, k + 1) = IF IsWantedAfter(c, LineFeeds(f, k))
                                    THEN Append(WantedIn(c, f, k), f[k + 1]) ELSE WantedIn(c, f, k)
         /\ LineFeeds(f, k + 1) = IF f[k + 1] = "LF" THEN LineFeeds(f, k) + 1 ELSE LineFeeds(f, k)
<1>1. k <= Len(f) /\ k + 1 \in 1 .. Len(f) /\ (k + 1) - 1 = k
  OBVIOUS
<1>2. WantedIn(c, f, k) \in Seq(Byte)
  BY <1>1, WantedTyped
<1>3. IsWanted(c, f, k + 1) <=> IsWantedAfter(c, LineFeeds(f, k))
  BY <1>1 DEF IsWanted, IsWantedAfter, LineOf
<1>4. WantedIn(c, f, k + 1) = IF IsWanted(c, f, k + 1) THEN Append(WantedIn(c, f, k), f[k + 1])
                                                       ELSE WantedIn(c, f, k)
  BY WantedGrows
<1>5. f[k + 1] \in Byte
  BY <1>1
<1>6. LineFeeds(f, k) \in Nat
  BY FeedsFinite
<1>. QED  BY <1>2, <1>3, <1>4, <1>5, <1>6, NextLineFeeds

LEMMA ScanStandsNext ==
  ASSUME call.from \in Nat, call.limit \in Nat, NEW f \in Seq(Byte), NEW s \in ScanRecord, NEW k \in Nat,
         k + 1 <= Len(f), f[k + 1] \in Text, StandsAt(call, s, f, k)
  PROVE  StandsAt(call, ScanByte(s, f[k + 1]), f, k + 1)
<1>. DEFINE w == WantedIn(call, f, k)
            n == LineFeeds(f, k)
            b == f[k + 1]
<1>1. /\ w \in Seq(Byte) /\ n \in Nat /\ b \in Text
      /\ WantedIn(call, f, k + 1) = IF IsWantedAfter(call, n) THEN Append(w, b) ELSE w
      /\ LineFeeds(f, k + 1) = IF b = "LF" THEN n + 1 ELSE n
  BY NextWanted
<1>2. Follows(call, s, w, n)
  BY DEF StandsAt
<1>. HIDE DEF w, n, b
<1>3. Follows(call, ScanByte(s, b), IF IsWantedAfter(call, n) THEN Append(w, b) ELSE w,
              IF b = "LF" THEN n + 1 ELSE n)
  BY <1>1, <1>2, ByteFollows
<1>. QED  BY <1>1, <1>3 DEF StandsAt, b

LEMMA OverStandsNext ==
  ASSUME NEW c, c.from \in Nat, c.limit \in Nat, NEW f \in Seq(Byte), NEW s, s.finished, NEW k \in Nat,
         k + 1 <= Len(f), StandsAt(c, s, f, k)
  PROVE  StandsAt(c, s, f, k + 1)
<1>. DEFINE w == WantedIn(c, f, k)
            n == LineFeeds(f, k)
            b == f[k + 1]
<1>1. /\ w \in Seq(Byte) /\ n \in Nat /\ b \in Byte
      /\ WantedIn(c, f, k + 1) = IF IsWantedAfter(c, n) THEN Append(w, b) ELSE w
      /\ LineFeeds(f, k + 1) = IF b = "LF" THEN n + 1 ELSE n
  BY NextWanted
<1>2. Follows(c, s, w, n)
  BY DEF StandsAt
<1>. HIDE DEF w, n, b
<1>3. Follows(c, s, IF IsWantedAfter(c, n) THEN Append(w, b) ELSE w, IF b = "LF" THEN n + 1 ELSE n)
  BY <1>1, <1>2, OverStays
<1>. QED  BY <1>1, <1>3 DEF StandsAt

(* A scan that is over stands wherever the file ends. *)
LEMMA OverStandsBehind ==
  ASSUME NEW c, c.from \in Nat, c.limit \in Nat, NEW f \in Seq(Byte), NEW s, s.finished, NEW p \in Nat,
         NEW k \in Nat, p <= k, k <= Len(f), StandsAt(c, s, f, p)
  PROVE  StandsAt(c, s, f, k)
<1>. DEFINE D == {i \in Nat : p + i <= Len(f) => StandsAt(c, s, f, p + i)}
<1>1. 0 \in D
  <2>1. p + 0 = p
    OBVIOUS
  <2>. QED  BY <2>1
<1>2. ASSUME NEW i \in Nat, i \in D
      PROVE  i + 1 \in D
  <2>. SUFFICES ASSUME p + (i + 1) <= Len(f)
                PROVE  StandsAt(c, s, f, p + (i + 1))
    OBVIOUS
  <2>1. p + i \in Nat /\ (p + i) + 1 = p + (i + 1) /\ (p + i) + 1 <= Len(f) /\ p + i <= Len(f)
    OBVIOUS
  <2>2. StandsAt(c, s, f, p + i)
    BY <1>2, <2>1
  <2>3. StandsAt(c, s, f, (p + i) + 1)
    BY <2>1, <2>2, OverStandsNext
  <2>. QED  BY <2>1, <2>3
<1>3. k - p \in Nat /\ p + (k - p) = k
  OBVIOUS
<1>. HIDE DEF D
<1>4. k - p \in D
  BY <1>1, <1>2, <1>3, SetInduction
<1>. QED  BY <1>3, <1>4 DEF D

(* The scan of a chunk moves on by the chunk. *)
LEMMA ChunkStands ==
  ASSUME call.from \in Nat, call.limit \in Nat, NEW f \in Seq(Byte), NEW s \in ScanRecord,
         Len(s.window) <= ReturnCap, NEW p \in Nat, NEW chunk \in Seq(Text), p + Len(chunk) <= Len(f),
         \A i \in 1 .. Len(chunk) : chunk[i] = f[p + i], StandsAt(call, s, f, p)
  PROVE  StandsAt(call, ReadScanChunk(s, chunk), f, p + Len(chunk))
<1>. DEFINE g == Scanned(s, chunk)
            n == Len(chunk)
            Ok(k) == g[k] \in ScanRecord /\ Len(g[k].window) <= ReturnCap /\ StandsAt(call, g[k], f, p + k)
            D == {k \in Nat : k <= n => Ok(k)}
<1>1. n \in Nat /\ g[0] = s /\ \A k \in 1 .. n : g[k] = ScanByte(g[k - 1], chunk[k])
  <2>1. n \in Nat
    OBVIOUS
  <2>. QED  BY <2>1, ScannedStep
<1>2. \A k \in 1 .. n : chunk[k] \in Text /\ chunk[k] = f[p + k]
  OBVIOUS
<1>3. p + n <= Len(f) /\ Len(f) \in Nat
  OBVIOUS
<1>4. ReadScanChunk(s, chunk) = g[n]
  BY ChunkIsScanned
<1>. HIDE DEF g, n
<1>5. 0 \in D
  <2>1. p + 0 = p
    OBVIOUS
  <2>. QED  BY <1>1, <2>1
<1>6. ASSUME NEW k \in Nat, k \in D
      PROVE  k + 1 \in D
  <2>. SUFFICES ASSUME k + 1 <= n
                PROVE  Ok(k + 1)
    OBVIOUS
  <2>1. k + 1 \in 1 .. n /\ (k + 1) - 1 = k /\ k <= n
    BY <1>1
  <2>2. Ok(k)
    BY <1>6, <2>1
  <2>3. p + k \in Nat /\ (p + k) + 1 = p + (k + 1) /\ (p + k) + 1 <= Len(f)
    BY <1>1, <1>3, <2>1
  <2>4. /\ g[k + 1] = ScanByte(g[k], chunk[k + 1]) /\ chunk[k + 1] \in Text
        /\ chunk[k + 1] = f[(p + k) + 1]
    BY <1>1, <1>2, <2>1, <2>3
  <2>5. g[k + 1] \in ScanRecord /\ Len(g[k + 1].window) <= ReturnCap
    BY <2>2, <2>4, ScanByteTyped
  <2>6. StandsAt(call, ScanByte(g[k], f[(p + k) + 1]), f, (p + k) + 1)
    BY <2>2, <2>3, <2>4, ScanStandsNext
  <2>7. StandsAt(call, g[k + 1], f, p + (k + 1))
    BY <2>3, <2>4, <2>6
  <2>. QED  BY <2>5, <2>7
<1>. HIDE DEF D
<1>7. n \in D
  BY <1>1, <1>5, <1>6, SetInduction
<1>8. Ok(n)
  BY <1>1, <1>7 DEF D
<1>. QED  BY <1>4, <1>8 DEF n
---------------------------------------------------------------------------
(* What read returns. *)

(* The scan of an undisturbed file has seen its first bytes. *)
Reading ==
  ~disturbed =>
    /\ pc = "start" => pos = 0 /\ scan = FreshScan
    /\ pc = "scan" => /\ call.from \in Nat \ {0} /\ call.limit \in Nat \ {0}
                      /\ pos = scan.scanned /\ pos <= Len(file)
                      /\ StandsAt(call, scan, file, pos)
    /\ ReadExact

(* The result r is right for the bytes f, w the wanted lines of those that *)
(* are examined.                                                           *)
Scope(f) == SubSeq(f, 1, IF Len(f) < ScanCap THEN Len(f) ELSE ScanCap)

Answers(r, c, f, w) ==
  /\ r.ok =>
       /\ r.window = SubSeq(w, 1, IF Len(w) < ReturnCap THEN Len(w) ELSE ReturnCap)
       /\ r.note = IF Len(w) > ReturnCap THEN "truncated"
                   ELSE IF Complete(w) < c.limit /\ Len(f) >= ScanCap THEN "bound"
                   ELSE IF w = <<>> /\ f # <<>> THEN "past end"
                   ELSE ""
  /\ r.note = "binary" => "NUL" \in Range(Scope(f))

LEMMA AnswersNext ==
  ASSUME Answers(result', call', before'[2], WantedOf(call', Scope(before'[2])))
  PROVE  ReadExact'
BY DEF ReadExact, Answers, Scope, Wanted, WantedOf

(* read_assemble_content: at the end, what the note says is so. *)
LEMMA DoneExact ==
  ASSUME Types, Rewriting, Reading, ReadDone, ~disturbed
  PROVE  ReadExact'
<1>. DEFINE f == before[2]
            l == Len(f)
            scope == SubSeq(f, 1, IF l < ScanCap THEN l ELSE ScanCap)
            k == IF l < ScanCap THEN l ELSE ScanCap
            w == WantedIn(call, f, k)
            capped == ~scan.finished /\ scan.scanned >= ScanCap
<1>1. /\ pc = "scan" /\ (scan.finished \/ capped \/ Left = 0)
      /\ pc' = "done" /\ result' = [ok |-> TRUE, note |-> Note(scan, capped), window |-> scan.window]
      /\ call' = call /\ before' = before
  BY DEF ReadDone, Finish
<1>2. file = f /\ f \in Seq(Byte) /\ l \in Nat
  <2>1. <<kind, file>> = before /\ file \in Seq(Byte)
    BY <1>1 DEF Rewriting, Types
  <2>. QED  BY <2>1
<1>3. /\ call.from \in Nat /\ call.limit \in Nat \ {0} /\ pos = scan.scanned /\ pos <= l
      /\ StandsAt(call, scan, f, pos) /\ pos \in Nat /\ pos <= ScanCap /\ scan \in ScanRecord
  BY <1>1, <1>2 DEF Reading, Types
<1>4. scan.finished \/ capped \/ pos = l
  <2>1. Left = 0 => pos = l
    <3>1. Left = IF l > pos THEN l - pos ELSE 0
      BY <1>2 DEF Left
    <3>. HIDE DEF l
    <3>. QED  BY <1>2, <1>3, <3>1
  <2>. QED  BY <1>1, <2>1
<1>. HIDE DEF f
<1>5. k \in Nat /\ k <= l /\ pos <= k
  <2>. HIDE DEF l
  <2>. QED  BY <1>2, <1>3, ConstantFacts
<1>6. ~scan.finished => pos = k
  <2>. HIDE DEF l
  <2>. QED  BY <1>2, <1>3, <1>4, ConstantFacts
<1>7. StandsAt(call, scan, f, k)
  <2>1. CASE scan.finished
    BY <1>2, <1>3, <1>5, <2>1, OverStandsBehind
  <2>2. CASE ~scan.finished
    BY <1>3, <1>6, <2>2
  <2>. QED  BY <2>1, <2>2
<1>8. Follows(call, scan, w, LineFeeds(f, k))
  BY <1>7 DEF StandsAt
<1>9. w \in Seq(Byte)
  BY <1>2, <1>3, <1>5, WantedTyped
<1>10. WantedOf(call, scope) = w
  BY DEF WantedIn
<1>. HIDE DEF w, k
<1>11. scan.window = SubSeq(w, 1, IF Len(w) < ReturnCap THEN Len(w) ELSE ReturnCap)
  <2>1. CASE scan.window = w /\ Len(w) <= ReturnCap
    <3>1. (IF Len(w) < ReturnCap THEN Len(w) ELSE ReturnCap) = Len(w)
      <4>. DEFINE n == Len(w)
      <4>1. n \in Nat /\ n <= ReturnCap
        BY <1>9, <2>1
      <4>. HIDE DEF n
      <4>2. (IF n < ReturnCap THEN n ELSE ReturnCap) = n
        BY <4>1, ConstantFacts
      <4>. QED  BY <4>2 DEF n
    <3>. QED  BY <1>9, <2>1, <3>1, Whole
  <2>2. CASE Overfull(scan, w)
    <3>1. ~(Len(w) < ReturnCap)
      <4>. DEFINE n == Len(w)
      <4>1. n \in Nat /\ n > ReturnCap
        BY <1>9, <2>2 DEF Overfull
      <4>. HIDE DEF n
      <4>2. ~(n < ReturnCap)
        BY <4>1, ConstantFacts
      <4>. QED  BY <4>2 DEF n
    <3>. QED  BY <2>2, <3>1 DEF Overfull
  <2>. QED  BY <1>8, <2>1, <2>2 DEF Follows, AllTaken, Scanning
<1>12. capped <=> Complete(w) < call.limit /\ l >= ScanCap /\ ~scan.full
  <2>1. CASE scan.finished
    <3>1. scan.full \/ Complete(w) = call.limit
      BY <1>8, <2>1 DEF Follows, Overfull, AllTaken
    <3>2. ~(call.limit < call.limit)
      BY <1>3
    <3>. QED  BY <2>1, <3>1, <3>2
  <2>2. CASE ~scan.finished
    <3>1. Complete(w) < call.limit /\ ~scan.full
      BY <1>8, <2>2 DEF Follows, Scanning
    <3>2. scan.scanned = k
      BY <1>3, <1>6, <2>2
    <3>. HIDE DEF l
    <3>3. k >= ScanCap <=> l >= ScanCap
      BY <1>2, ConstantFacts DEF k
    <3>. QED  BY <2>2, <3>1, <3>2, <3>3
  <2>. QED  BY <2>1, <2>2
<1>13. scan.full <=> Len(w) > ReturnCap
  <2>. DEFINE n == Len(w)
  <2>1. n \in Nat
    BY <1>9
  <2>2. \/ scan.full /\ n > ReturnCap
        \/ ~scan.full /\ n <= ReturnCap
    BY <1>8 DEF Follows, Overfull, AllTaken, Scanning
  <2>. HIDE DEF n
  <2>3. scan.full <=> n > ReturnCap
    BY <2>1, <2>2, ConstantFacts
  <2>. QED  BY <2>3 DEF n
<1>14. ~scan.full => scan.window = w
  BY <1>8 DEF Follows, Overfull, AllTaken, Scanning
<1>15. w = << >> => (scan.scanned > 0 <=> f # << >>)
  <2>. SUFFICES ASSUME w = << >>
                PROVE  scan.scanned > 0 <=> f # << >>
    OBVIOUS
  <2>1. Complete(<< >>) = 0 /\ Len(<< >>) = 0
    <3>1. Len(<< >>) = 0
      OBVIOUS
    <3>. QED  BY <3>1, NoLineFeeds DEF Complete
  <2>2. ~scan.finished
    <3>1. ~(Len(w) > ReturnCap) /\ Complete(w) # call.limit
      BY <1>3, <2>1, ConstantFacts
    <3>. QED  BY <1>8, <3>1 DEF Follows, Overfull, AllTaken
  <2>3. scan.scanned = k
    BY <1>3, <1>6, <2>2
  <2>4. f # << >> <=> l > 0
    BY <1>2
  <2>. HIDE DEF l
  <2>5. k > 0 <=> l > 0
    BY <1>2, ConstantFacts DEF k
  <2>. QED  BY <2>3, <2>4, <2>5
<1>16. Note(scan, capped) = IF Len(w) > ReturnCap THEN "truncated"
                            ELSE IF Complete(w) < call.limit /\ l >= ScanCap THEN "bound"
                            ELSE IF w = <<>> /\ f # <<>> THEN "past end"
                            ELSE ""
  <2>. HIDE DEF capped, l
  <2>. QED  BY <1>12, <1>13, <1>14, <1>15 DEF Note
<1>17. result'.window = scan.window /\ result'.note = Note(scan, capped) /\ result'.note # "binary"
  <2>1. Note(scan, capped) # "binary"
    BY DEF Note
  <2>. QED  BY <1>1, <2>1
<1>18. Answers(result', call, f, w)
  <2>. HIDE DEF capped
  <2>. QED  BY <1>11, <1>16, <1>17 DEF Answers
<1>19. WantedOf(call, Scope(f)) = w
  BY <1>10 DEF Scope, k
<1>20. Answers(result', call', before'[2], WantedOf(call', Scope(before'[2])))
  BY <1>1, <1>18, <1>19 DEF f
<1>. QED  BY <1>20, AnswersNext

LEMMA InitReading == Init => Reading
BY DEF Init, Reading, ReadExact

(* Nothing is wanted of nothing. *)
LEMMA ReadOpenStands ==
  ASSUME Types, Rewriting, Reading, ReadOpen, ~disturbed
  PROVE  Reading'
<1>1. /\ pc = "start" /\ pc' = "scan" /\ ~BadArguments(call) /\ call.tool = "read"
      /\ UNCHANGED <<diskVars, call, fdVars, scan>>
  BY DEF ReadOpen, Opens
<1>2. call.from \in Nat \ {0} /\ call.limit \in Nat \ {0}
  <2>1. call.from \in Nat /\ call.limit \in Nat
    BY <1>1, CallFacts DEF Types
  <2>2. ~(call.from < 1) /\ ~(call.limit < 1)
    BY <1>1 DEF BadArguments
  <2>. QED  BY <2>1, <2>2
<1>3. pos = 0 /\ scan = FreshScan /\ file \in Seq(Byte)
  BY <1>1 DEF Reading, Types
<1>4. /\ ~scan.finished /\ ~scan.full /\ scan.window = << >> /\ scan.line = 1 /\ scan.taken = 0
      /\ scan.scanned = 0
  BY <1>3 DEF FreshScan
<1>5. WantedIn(call, file, 0) = << >> /\ LineFeeds(file, 0) = 0
  BY <1>3, NothingWanted, NoLineFeeds
<1>6. Len(<< >>) = 0
  OBVIOUS
<1>7. Complete(<< >>) = 0
  BY <1>6, NoLineFeeds DEF Complete
<1>8. Scanning(call, scan, << >>, 0)
  BY <1>2, <1>4, <1>6, <1>7, ConstantFacts DEF Scanning
<1>9. StandsAt(call, scan, file, pos)
  BY <1>3, <1>4, <1>5, <1>8 DEF StandsAt, Follows
<1>10. pos <= Len(file)
  BY <1>3
<1>11. /\ call' = call /\ scan' = scan /\ pos' = pos /\ file' = file
  BY <1>1 DEF diskVars, fdVars
<1>12. ReadExact'
  BY <1>1 DEF ReadExact
<1>13. StandsAt(call', scan', file', pos')
  BY <1>9, <1>11
<1>. QED  BY <1>1, <1>2, <1>3, <1>4, <1>10, <1>11, <1>12, <1>13 DEF Reading

(* read_scan_file: one chunk. *)
LEMMA ReadScanStands ==
  ASSUME Types, Rewriting, Reading, ReadScan, ~disturbed
  PROVE  Reading'
<1>1. PICK chunk \in Readable(Want) :
        /\ pos' = pos + Len(chunk) /\ eintr' = 0
        /\ LET s == [scan EXCEPT !.scanned = @ + Len(chunk)] IN
           IF "NUL" \in Range(chunk)
           THEN Finish([ok |-> FALSE, note |-> "binary", window |-> <<>>]) /\ scan' = s
           ELSE scan' = ReadScanChunk(s, chunk) /\ UNCHANGED <<pc, result>>
  BY DEF ReadScan
<1>2. pc = "scan" /\ call' = call /\ file' = file /\ before' = before
  BY DEF ReadScan, diskVars
<1>3. /\ call.from \in Nat \ {0} /\ call.limit \in Nat \ {0} /\ pos = scan.scanned
      /\ pos <= Len(file) /\ StandsAt(call, scan, file, pos) /\ file = before[2]
      /\ file \in Seq(Byte) /\ pos \in Nat /\ scan \in ScanRecord /\ Len(scan.window) <= ReturnCap
  BY <1>2 DEF Reading, Rewriting, Types
<1>4. Want \in Nat /\ pos + Want <= ScanCap
  <2>1. scan.scanned \in Nat /\ scan.scanned <= ScanCap
    BY <1>3 DEF Types, ScanRecord
  <2>. QED  BY <1>3, <2>1, ConstantFacts DEF Want
<1>5. PICK n \in 1 .. Want : /\ pos + n <= Len(file) /\ chunk \in Seq(Byte) /\ Len(chunk) = n
                             /\ \A i \in 1 .. n : chunk[i] = file[pos + i]
  BY <1>3, <1>4, ReadableFacts
<1>6. n \in Nat /\ pos + n \in Nat /\ pos + n <= ScanCap
  <2>1. pos \in Nat
    BY <1>3
  <2>2. n \in Nat /\ n <= Want
    BY <1>4
  <2>. QED  BY <1>4, <2>1, <2>2, ConstantFacts
<1>. DEFINE s == [scan EXCEPT !.scanned = @ + Len(chunk)]
<1>7. CASE "NUL" \in Range(chunk)
  <2>1. /\ pc' = "done" /\ ~result'.ok /\ result'.note = "binary"
    BY <1>1, <1>7 DEF Finish
  <2>2. PICK i \in 1 .. n : chunk[i] = "NUL"
    BY <1>5, <1>7 DEF Range
  <2>3. file[pos + i] = "NUL" /\ pos + i \in Nat \ {0} /\ pos + i <= Len(file) /\ pos + i <= ScanCap
    <3>1. pos + i \in Nat \ {0} /\ pos + i <= pos + n
      BY <1>3, <1>6
    <3>2. file[pos + i] = "NUL"
      BY <1>5, <2>2
    <3>3. pos + i <= ScanCap
      <4>1. ScanCap \in Nat
        BY ConstantFacts
      <4>. QED  BY <1>6, <3>1, <4>1
    <3>4. pos + i <= Len(file)
      BY <1>3, <1>5, <1>6, <3>1
    <3>. QED  BY <3>1, <3>2, <3>3, <3>4
  <2>. DEFINE m == IF Len(file) < ScanCap THEN Len(file) ELSE ScanCap
              scope == SubSeq(file, 1, m)
  <2>4. m \in Nat /\ m <= Len(file) /\ pos + i \in 1 .. m
    <3>. DEFINE l == Len(file)
    <3>1. l \in Nat /\ pos + i <= l /\ pos + i \in Nat \ {0} /\ pos + i <= ScanCap
      BY <1>3, <2>3
    <3>. HIDE DEF l
    <3>2. (IF l < ScanCap THEN l ELSE ScanCap) \in Nat /\ (IF l < ScanCap THEN l ELSE ScanCap) <= l
          /\ pos + i \in 1 .. (IF l < ScanCap THEN l ELSE ScanCap)
      BY <3>1, ConstantFacts
    <3>. QED  BY <3>2 DEF l
  <2>5. scope \in Seq(Byte) /\ Len(scope) = m /\ \A j \in 1 .. m : scope[j] = file[j]
    <3>. HIDE DEF m
    <3>. QED  BY <1>3, <2>4, Beginning
  <2>6. scope[pos + i] = "NUL" /\ pos + i \in DOMAIN scope
    <3>. HIDE DEF scope, m
    <3>. QED  BY <2>3, <2>4, <2>5
  <2>7. "NUL" \in Range(scope)
    <3>. HIDE DEF scope
    <3>. QED  BY <2>6 DEF Range
  <2>8. Answers(result', call', before'[2], WantedOf(call', Scope(before'[2])))
    BY <1>2, <1>3, <2>1, <2>7 DEF Answers, Scope
  <2>9. ReadExact'
    BY <2>8, AnswersNext
  <2>. QED  BY <2>1, <2>9 DEF Reading
<1>8. CASE "NUL" \notin Range(chunk)
  <2>1. scan' = ReadScanChunk(s, chunk) /\ pc' = pc
    BY <1>1, <1>8
  <2>2. /\ s \in ScanRecord /\ s.window = scan.window /\ s.scanned = pos + n
        /\ s.line = scan.line /\ s.taken = scan.taken /\ s.full = scan.full
        /\ s.finished = scan.finished
    BY <1>3, <1>5, <1>6 DEF ScanRecord
  <2>. HIDE DEF s
  <2>3. StandsAt(call, s, file, pos)
    BY <1>3, <2>2 DEF StandsAt, Follows, Scanning, Overfull, AllTaken
  <2>4. chunk \in Seq(Text)
    <3>1. \A i \in 1 .. Len(chunk) : chunk[i] \in Text
      BY <1>5, <1>8 DEF Range, Text
    <3>. QED  BY <1>5, <3>1
  <2>5. Len(s.window) <= ReturnCap
    BY <1>3, <2>2
  <2>6. pos + Len(chunk) <= Len(file) /\ \A i \in 1 .. Len(chunk) : chunk[i] = file[pos + i]
    BY <1>5
  <2>7. StandsAt(call, ReadScanChunk(s, chunk), file, pos + Len(chunk))
    BY <1>3, <2>2, <2>3, <2>4, <2>5, <2>6, ChunkStands
  <2>8. ReadScanChunk(s, chunk).scanned = s.scanned
    BY <2>2, <2>4, <2>5, ScanChunkTyped
  <2>9. pos' = pos + n /\ scan'.scanned = pos'
    BY <1>1, <1>5, <2>1, <2>2, <2>8
  <2>10. StandsAt(call', scan', file', pos')
    BY <1>2, <1>5, <2>1, <2>7, <2>9
  <2>11. ReadExact'
    BY <1>2, <2>1 DEF ReadExact
  <2>12. pos' <= Len(file')
    BY <1>2, <1>5, <2>9
  <2>. QED  BY <1>2, <1>3, <2>1, <2>9, <2>10, <2>11, <2>12 DEF Reading
<1>. QED  BY <1>7, <1>8

LEMMA ReadingStep ==
  ASSUME Types, Rewriting, Reading, [Next]_vars
  PROVE  Reading'
<1>1. CASE UNCHANGED vars
  <2>1. /\ pc' = pc /\ call' = call /\ scan' = scan /\ pos' = pos /\ file' = file
        /\ disturbed' = disturbed /\ result' = result /\ before' = before
    BY <1>1 DEF vars, diskVars, fdVars
  <2>2. ~disturbed => ReadExact'
    <3>1. CASE disturbed \/ pc # "done" \/ call.tool # "read"
      BY <2>1, <3>1 DEF ReadExact
    <3>2. CASE ~disturbed /\ pc = "done" /\ call.tool = "read"
      <4>1. Answers(result, call, before[2], WantedOf(call, Scope(before[2])))
        BY <3>2 DEF Reading, ReadExact, Answers, Scope, Wanted, WantedOf
      <4>2. Answers(result', call', before'[2], WantedOf(call', Scope(before'[2])))
        BY <2>1, <4>1
      <4>. QED  BY <4>2, AnswersNext
    <3>. QED  BY <3>1, <3>2
  <2>. QED  BY <2>1, <2>2 DEF Reading
<1>2. CASE disturbed'
  BY <1>2 DEF Reading
<1>. SUFFICES ASSUME ~disturbed', Step
              PROVE  Reading'
  BY <1>1, <1>2 DEF Next, OtherWrites
<1>3. ~disturbed
  BY DEF Step, Refuse, ReadOpen, WriteOpen, EditOpen, Opens, Interrupted, IoError, ReadScan,
         ReadDone, EditLoad, EditDecide, EditTruncate, EditSeek, WriteSome, WriteDone, Close
<1>4. ASSUME pc' = "done", ReadExact'
      PROVE  Reading'
  BY <1>4 DEF Reading
<1>5. ASSUME Fail
      PROVE  Reading'
  <2>1. pc' = "done" /\ ~result'.ok /\ result'.note = "error"
    BY <1>5 DEF Fail, Finish
  <2>2. ReadExact'
    BY <2>1 DEF ReadExact
  <2>. QED  BY <1>4, <2>1, <2>2
<1>6. CASE Refuse \/ IoError
  BY <1>5, <1>6 DEF Refuse, IoError
<1>7. CASE ReadOpen
  BY <1>3, <1>7, ReadOpenStands
<1>8. CASE ReadScan
  BY <1>3, <1>8, ReadScanStands
<1>9. CASE ReadDone
  <2>1. pc' = "done"
    BY <1>9 DEF ReadDone, Finish
  <2>2. ReadExact'
    BY <1>3, <1>9, DoneExact
  <2>. QED  BY <1>4, <2>1, <2>2
<1>10. CASE Interrupted
  <2>1. CASE Fail
    BY <1>5, <2>1
  <2>2. CASE UNCHANGED <<pc, result>>
    <3>1. /\ pc' = pc /\ pc # "done" /\ call' = call /\ scan' = scan /\ pos' = pos /\ file' = file
      BY <1>10, <2>2 DEF Interrupted, InSyscall, diskVars
    <3>2. ReadExact'
      BY <3>1 DEF ReadExact
    <3>. QED  BY <1>3, <3>1, <3>2 DEF Reading
  <2>. QED  BY <1>10, <2>1, <2>2 DEF Interrupted
<1>11. ASSUME pc' \notin {"start", "scan", "done"}
       PROVE  Reading'
  BY <1>11 DEF Reading, ReadExact
<1>12. CASE WriteOpen \/ EditOpen \/ EditLoad \/ EditTruncate \/ EditSeek \/ WriteSome \/ WriteDone
  BY <1>11, <1>12 DEF WriteOpen, EditOpen, EditLoad, EditTruncate, EditSeek, WriteSome, WriteDone
<1>13. CASE EditDecide
  BY <1>5, <1>11, <1>13 DEF EditDecide
<1>14. CASE Close
  <2>1. pc' = "done" /\ call'.tool # "read"
    BY <1>14 DEF Close, Succeed, Finish, Types
  <2>2. ReadExact'
    BY <2>1 DEF ReadExact
  <2>. QED  BY <1>4, <2>1, <2>2
<1>. QED  BY <1>6, <1>7, <1>8, <1>9, <1>10, <1>12, <1>13, <1>14 DEF Step

(* However read(2) cuts the file, a read of a file nobody touches returns  *)
(* the wanted lines of it as far as the caps allow, and says which of the  *)
(* caps, if any, kept a part back (read_scan_file, read_scan_chunk,        *)
(* read_assemble_content).                                                 *)
THEOREM ReadsExactly == Spec => []ReadExact
<1>1. Types /\ Rewriting /\ Reading /\ [Next]_vars => Reading'
  BY ReadingStep
<1>2. Types /\ Rewriting /\ [Next]_vars => Rewriting'
  BY RewritingStep
<1>3. Types /\ Reading => disturbed \/ ReadExact
  BY DEF Reading
<1>4. disturbed => ReadExact
  BY DEF ReadExact
<1>. QED  BY <1>1, <1>2, <1>3, <1>4, InitRewriting, InitReading, TypesHold, PTL DEF Spec

=============================================================================
