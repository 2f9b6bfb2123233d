------------------------ MODULE SessionStoreProofs ------------------------
(***************************************************************************)
(* What SessionStore's runs check of the file on a small instance, proved  *)
(* for every set of messages, every bound and every initial file.          *)
(***************************************************************************)
EXTENDS SessionStore, SequenceTheorems, FiniteSetTheorems, WellFoundedInduction, TLAPS

(* A set of numbers that is not empty has a least one.                     *)
LEMMA LeastElement ==
  ASSUME NEW S \in SUBSET Nat, S # {}
  PROVE  \E x \in S : \A y \in S : x <= y
<1>. DEFINE Less == {p \in Nat \X Nat : p[1] < p[2]}
<1>1. IsWellFoundedOn(Less, Nat)
  BY NatLessThanWellFounded, Zenon DEF OpToRel
<1>2. PICK x \in S : \A y \in S : ~ (<<y, x>> \in Less)
  BY <1>1, WFMin
<1>3. \A y \in S : x \in Nat /\ y \in Nat /\ (y < x => <<y, x>> \in Less)
  OBVIOUS
<1>. HIDE DEF Less
<1>4. \A y \in S : ~ (y < x)
  BY <1>2, <1>3
<1>. QED  BY <1>3, <1>4

(* Zero is in S and S is closed under the successor: S holds all numbers.  *)
LEMMA SetInduction ==
  ASSUME NEW S, 0 \in S, \A n \in Nat : n \in S => n + 1 \in S
  PROVE  \A n \in Nat : n \in S
<1>. SUFFICES ASSUME Nat \ S # {} PROVE FALSE
  OBVIOUS
<1>1. PICK x \in Nat \ S : \A y \in Nat \ S : x <= y
  BY LeastElement
<1>2. x - 1 \in Nat /\ x - 1 \in S /\ (x - 1) + 1 = x
  BY <1>1
<1>. QED  BY <1>1, <1>2

---------------------------------------------------------------------------

(* session_append and session_load are used by one process at a time. *)
OneWriter == \A p, q \in Proc : p = q

(* The six shapes of line are different values, so that a message is never *)
(* taken for the absence of a tail.                                        *)
LEMMA LineFacts ==
  /\ NoTail \notin Line
  /\ Junk \in Line /\ Header \in Line /\ Blank \in Line
  /\ Junk # Blank /\ Junk # Header /\ Header # Blank
  /\ \A n \in 1 .. MaxAppends : Record("msg", n) \in Line \ {Blank}
BY DEF Line, Message, Record, NoTail, Junk, Header, Blank, Control

(* Healing keeps a file a file and leaves it without a tail. *)
LEMMA HealFacts ==
  ASSUME NEW f \in File
  PROVE  /\ Heal(f) \in File
         /\ Heal(f).tail = NoTail
BY LineFacts DEF Heal, File

(* A whole write gives a file that ends in '\n'. *)
LEMMA WriteWholeFacts ==
  ASSUME NEW heal \in BOOLEAN, NEW f \in File, NEW x \in Line
  PROVE  /\ WriteWhole(heal, f, x) \in File
         /\ WriteWhole(heal, f, x).tail = NoTail
<1>1. HealIf(heal, f) \in File
  BY HealFacts DEF HealIf
<1>2. Continue(HealIf(heal, f).tail, x) \in Line
  BY <1>1, LineFacts DEF Continue
<1>. QED  BY <1>1, <1>2 DEF WriteWhole, File

(* A partial write gives a file. *)
LEMMA WritePartFacts ==
  ASSUME NEW heal \in BOOLEAN, NEW f \in File, NEW x \in Line \ {Blank},
         NEW g \in WritePart(heal, f, x)
  PROVE  g \in File
<1>1. HealIf(heal, f) \in File
  BY HealFacts DEF HealIf
<1>2. ASSUME NEW y \in {Junk, x}
      PROVE  [lines |-> HealIf(heal, f).lines,
              tail |-> Continue(HealIf(heal, f).tail, y)] \in File
  BY <1>1, LineFacts DEF Continue, File
<1>. QED  BY <1>1, <1>2 DEF WritePart

(* What is left of a file after a crash of the machine is a file. *)
LEMMA TruncationFacts ==
  ASSUME NEW f \in File, NEW g \in Truncations(f)
  PROVE  g \in File
<1>1. Lines(f) \in Seq(Line)
  BY DEF Lines, File
<1>2. CASE g = f
  BY <1>2
<1>3. ASSUME NEW n \in DOMAIN Lines(f),
             NEW t \in {NoTail} \cup (IF Lines(f)[n] = Blank THEN {} ELSE {Junk, Lines(f)[n]}),
             g = [lines |-> SubSeq(Lines(f), 1, n - 1), tail |-> t]
      PROVE  g \in File
  <2>1. n \in 1 .. Len(Lines(f)) /\ Lines(f)[n] \in Line
    BY <1>1
  <2>2. SubSeq(Lines(f), 1, n - 1) \in Seq(Line)
    BY <1>1, <2>1
  <2>3. t \in (Line \ {Blank}) \cup {NoTail}
    BY <2>1, LineFacts
  <2>. QED  BY <1>3, <2>2, <2>3 DEF File
<1>. QED  BY <1>2, <1>3 DEF Truncations

---------------------------------------------------------------------------
(* The type invariant. *)

(* The initial file and the closed sessions have their types. *)
LEMMA TypeInit == Init => TypeOK
<1>1. EmptyFile \in File
  BY LineFacts DEF EmptyFile, File
<1>2. Init => file \in File
  BY <1>1, InitialFilesAssumption, Zenon DEF Init
<1>3. Init => created \in BOOLEAN
  BY Zenon DEF Init
<1>. QED  BY <1>2, <1>3 DEF Init, TypeOK

(* Every action of the store keeps the types. *)
LEMMA TypeStep == TypeOK /\ [Next]_vars => TypeOK'
<1> SUFFICES ASSUME TypeOK, [Next]_vars
             PROVE  TypeOK'
  OBVIOUS
<1>0. EmptyFile \in File
  BY LineFacts DEF EmptyFile, File
<1>a. Header \in Line \ {Blank}
  BY LineFacts
<1>1. ASSUME NEW p \in Proc, SessionNew(p)
      PROVE  TypeOK'
  BY <1>0, <1>1, <1>a, WriteWholeFacts DEF SessionNew, TypeOK
<1>2. ASSUME NEW p \in Proc, SessionLoad(p)
      PROVE  TypeOK'
  BY <1>2 DEF SessionLoad, TypeOK
<1>3. ASSUME NEW p \in Proc, MayAppend(p)
      PROVE  /\ needs_heal[p] \in BOOLEAN
             /\ Record("msg", next) \in Line \ {Blank}
  <2>1. next \in 1 .. MaxAppends
    BY <1>3, StoreAssumption DEF MayAppend, TypeOK
  <2>. QED  BY <2>1, LineFacts DEF TypeOK
<1>4. ASSUME NEW p \in Proc, SessionAppend(p)
      PROVE  TypeOK'
  <2>1. file' \in File
    BY <1>3, <1>4, WriteWholeFacts DEF SessionAppend, MayAppend, TypeOK
  <2>. QED  BY <1>4, <2>1 DEF SessionAppend, MayAppend, TypeOK
<1>5. ASSUME NEW p \in Proc, SessionAppendFails(p)
      PROVE  TypeOK'
  <2>1. file' \in File
    BY <1>3, <1>5, WritePartFacts DEF SessionAppendFails, MayAppend, TypeOK
  <2>. QED  BY <1>5, <2>1 DEF SessionAppendFails, MayAppend, TypeOK
<1>6. ASSUME NEW p \in Proc, SessionFree(p)
      PROVE  TypeOK'
  BY <1>6 DEF SessionFree, Forget, TypeOK
<1>7. CASE SessionNewDies
  <2>1. file' \in File
    BY <1>0, <1>7, <1>a, WritePartFacts DEF SessionNewDies
  <2>. QED  BY <1>7, <2>1 DEF SessionNewDies, TypeOK
<1>8. CASE OsCrash
  <2>1. file' \in File
    BY <1>8, TruncationFacts DEF OsCrash, TypeOK
  <2>. QED  BY <1>8, <2>1 DEF OsCrash, Forget, TypeOK
<1>9. CASE UNCHANGED vars
  BY <1>9 DEF vars, TypeOK
<1>. QED
  BY <1>1, <1>2, <1>4, <1>5, <1>6, <1>7, <1>8, <1>9 DEF Next

(* Every variable keeps its type, in particular no operation of session.c  *)
(* leaves an empty line as an unterminated tail.                           *)
THEOREM TypeCorrect == Spec => []TypeOK
BY TypeInit, TypeStep, PTL DEF Spec

---------------------------------------------------------------------------
(* The heal byte and the poison latch together guard a torn tail. *)

(* A file that does not exist has no content and no process has it open,   *)
(* so no header write can tear a file under one.                           *)
GuardInv == TornTailGuarded /\ (created \/ (open = {} /\ file = EmptyFile))

(* No process has the file open at first. *)
LEMMA GuardInit == Init => GuardInv
BY DEF Init, GuardInv, TornTailGuarded

(* Every action keeps a torn tail guarded, if one process writes. *)
LEMMA GuardStep ==
  OneWriter => (TypeOK /\ GuardInv /\ [Next]_vars => GuardInv')
<1> SUFFICES ASSUME OneWriter, TypeOK, GuardInv, [Next]_vars
             PROVE  GuardInv'
  OBVIOUS
<1>. USE DEF GuardInv
<1>0. EmptyFile \in File /\ Header \in Line
  BY LineFacts DEF EmptyFile, File
<1>1. ASSUME NEW p \in Proc, SessionNew(p)
      PROVE  GuardInv'
  <2>1. file'.tail = NoTail
    BY <1>0, <1>1, WriteWholeFacts DEF SessionNew
  <2>. QED  BY <1>1, <2>1 DEF SessionNew, TornTailGuarded, TypeOK
<1>2. ASSUME NEW p \in Proc, SessionLoad(p)
      PROVE  GuardInv'
  BY <1>2 DEF SessionLoad, TornTailGuarded, TypeOK
<1>c. ASSUME NEW p \in Proc, p \in open
      PROVE  created = TRUE
  BY <1>c DEF TypeOK
<1>3. ASSUME NEW p \in Proc, SessionAppend(p)
      PROVE  GuardInv'
  <2>1. next \in 1 .. MaxAppends
    BY <1>3, StoreAssumption DEF SessionAppend, MayAppend, TypeOK
  <2>2. Record("msg", next) \in Line /\ needs_heal[p] \in BOOLEAN
    BY <2>1, LineFacts DEF TypeOK
  <2>3. file'.tail = NoTail
    BY <1>3, <2>2, WriteWholeFacts DEF SessionAppend, MayAppend, TypeOK
  <2>. QED  BY <1>3, <1>c, <2>3 DEF SessionAppend, MayAppend, TornTailGuarded
<1>4. ASSUME NEW p \in Proc, SessionAppendFails(p)
      PROVE  GuardInv'
  <2>1. \A q \in open : q = p
    BY DEF OneWriter, TypeOK
  <2>. QED  BY <1>4, <1>c, <2>1 DEF SessionAppendFails, MayAppend, TornTailGuarded, TypeOK
<1>5. ASSUME NEW p \in Proc, SessionFree(p)
      PROVE  GuardInv'
  <2>1. open' = {}
    BY <1>5 DEF SessionFree, Forget, OneWriter, TypeOK
  <2>. QED  BY <1>5, <1>c, <2>1 DEF SessionFree, TornTailGuarded
<1>6. CASE SessionNewDies
  BY <1>6 DEF SessionNewDies, TornTailGuarded, TypeOK
<1>7. CASE OsCrash
  <2>1. open' = {}
    BY <1>7 DEF OsCrash, Forget, TypeOK
  <2>. QED  BY <1>7, <2>1 DEF OsCrash, TornTailGuarded
<1>8. CASE UNCHANGED vars
  BY <1>8 DEF vars, TornTailGuarded
<1>. QED
  BY <1>1, <1>2, <1>3, <1>4, <1>5, <1>6, <1>7, <1>8 DEF Next

(* Whoever holds a file with an unterminated tail heals it with its next   *)
(* record or is poisoned: write_line never continues a torn record.        *)
THEOREM TornTailAlwaysGuarded == OneWriter => (Spec => []TornTailGuarded)
<1> SUFFICES ASSUME OneWriter
             PROVE  Spec => []TornTailGuarded
  OBVIOUS
<1>1. TypeOK /\ GuardInv /\ [Next]_vars => GuardInv'
  BY GuardStep
<1>2. GuardInv => TornTailGuarded
  BY DEF GuardInv
<1>. QED  BY <1>1, <1>2, GuardInit, TypeCorrect, PTL DEF Spec

---------------------------------------------------------------------------
(* The store only ever adds to the file. *)

(* What it is to be a prefix, for the sequences a write makes. *)
LEMMA PrefixFacts ==
  ASSUME NEW S, NEW s \in Seq(S)
  PROVE  /\ IsPrefix(s, s)
         /\ \A x \in S : IsPrefix(s, Append(s, x))
         /\ \A x, y \in S : IsPrefix(s, Append(Append(s, x), y))
         /\ IsPrefix(<< >>, s)
BY DEF IsPrefix

(* What a write over a file without a tail, or with one it heals, leaves.  *)
(* An empty line is added where there was no tail to heal.                 *)
Healed(f) == {Lines(f), Append(Lines(f), Blank)}

LEMMA WrittenLines ==
  ASSUME NEW heal \in BOOLEAN, NEW f \in File, NEW x \in Line \ {Blank},
         heal \/ f.tail = NoTail
  PROVE  /\ \E ls \in Healed(f) : Lines(WriteWhole(heal, f, x)) = Append(ls, x)
         /\ \A g \in WritePart(heal, f, x) :
              \/ Lines(g) \in Healed(f)
              \/ \E ls \in Healed(f), y \in {Junk, x} : Lines(g) = Append(ls, y)
<1>. DEFINE h == HealIf(heal, f)
<1>1. h \in File /\ h.tail = NoTail /\ h.lines \in Seq(Line)
  BY HealFacts DEF HealIf, File
<1>2. h.lines \in Healed(f)
  BY DEF HealIf, Heal, Lines, File, Healed
<1>3. Lines(WriteWhole(heal, f, x)) = Append(h.lines, x)
  BY <1>1 DEF WriteWhole, Continue, Lines
<1>4. ASSUME NEW g \in WritePart(heal, f, x)
      PROVE  \/ Lines(g) \in Healed(f)
             \/ \E ls \in Healed(f), y \in {Junk, x} : Lines(g) = Append(ls, y)
  <2>1. CASE g = f
    BY <2>1 DEF Healed
  <2>2. CASE g = h
    BY <1>1, <1>2, <2>2 DEF Lines
  <2>3. ASSUME NEW y \in {Junk, x}, g = [lines |-> h.lines, tail |-> Continue(h.tail, y)]
        PROVE  Lines(g) = Append(h.lines, y)
    BY <1>1, <2>3, LineFacts DEF Lines, Continue
  <2>4. \/ g = f \/ g = h
        \/ \E y \in {Junk, x} : g = [lines |-> h.lines, tail |-> Continue(h.tail, y)]
    BY DEF WritePart
  <2>. HIDE DEF h
  <2>. QED  BY <1>2, <2>1, <2>2, <2>3, <2>4
<1>. HIDE DEF h
<1>. QED  BY <1>2, <1>3, <1>4

(* Such a write keeps every line. *)
LEMMA WriteKeepsLines ==
  ASSUME NEW heal \in BOOLEAN, NEW f \in File, NEW x \in Line \ {Blank},
         heal \/ f.tail = NoTail
  PROVE  /\ IsPrefix(Lines(f), Lines(WriteWhole(heal, f, x)))
         /\ \A g \in WritePart(heal, f, x) : IsPrefix(Lines(f), Lines(g))
<1>1. Lines(f) \in Seq(Line)
  BY DEF Lines, File
<1>2. ASSUME NEW ls \in Healed(f)
      PROVE  /\ IsPrefix(Lines(f), ls)
             /\ \A y \in Line : IsPrefix(Lines(f), Append(ls, y))
  BY <1>1, LineFacts, PrefixFacts DEF Healed
<1>3. IsPrefix(Lines(f), Lines(WriteWhole(heal, f, x)))
  <2>1. PICK ls \in Healed(f) : Lines(WriteWhole(heal, f, x)) = Append(ls, x)
    BY WrittenLines
  <2>. QED  BY <1>2, <2>1
<1>4. ASSUME NEW g \in WritePart(heal, f, x)
      PROVE  IsPrefix(Lines(f), Lines(g))
  <2>1. \/ Lines(g) \in Healed(f)
        \/ \E ls \in Healed(f), y \in {Junk, x} : Lines(g) = Append(ls, y)
    BY WrittenLines
  <2>2. ASSUME NEW ls \in Healed(f), NEW y \in {Junk, x}, Lines(g) = Append(ls, y)
        PROVE  IsPrefix(Lines(f), Lines(g))
    BY <1>2, <2>2, LineFacts
  <2>. QED  BY <1>2, <2>1, <2>2
<1>. QED  BY <1>3, <1>4

(* Every action but a crash of the machine keeps the lines on disk. *)
LEMMA AppendOnlyStep ==
  OneWriter => (TypeOK /\ GuardInv /\ [Next]_vars
                  => [OsCrash \/ IsPrefix(Lines(file), Lines(file'))]_vars)
<1> SUFFICES ASSUME OneWriter, TypeOK, GuardInv, Next
             PROVE  OsCrash \/ IsPrefix(Lines(file), Lines(file'))
  OBVIOUS
<1>0. file \in File /\ Lines(file) \in Seq(Line)
  BY DEF TypeOK, Lines, File
<1>a. /\ EmptyFile \in File /\ EmptyFile.tail = NoTail
      /\ Header \in Line \ {Blank}
  BY LineFacts DEF EmptyFile, File
<1>b. ASSUME UNCHANGED file
      PROVE  IsPrefix(Lines(file), Lines(file'))
  BY <1>0, <1>b, PrefixFacts
<1>c. ASSUME NEW p \in Proc, MayAppend(p)
      PROVE  /\ needs_heal[p] \in BOOLEAN
             /\ Record("msg", next) \in Line \ {Blank}
             /\ needs_heal[p] \/ file.tail = NoTail
  <2>1. next \in 1 .. MaxAppends
    BY <1>c, StoreAssumption DEF MayAppend, TypeOK
  <2>2. needs_heal[p] \/ file.tail = NoTail
    BY <1>c DEF GuardInv, TornTailGuarded, MayAppend
  <2>. QED  BY <2>1, <2>2, LineFacts DEF TypeOK
<1>1. ASSUME NEW p \in Proc, SessionNew(p)
      PROVE  IsPrefix(Lines(file), Lines(file'))
  <2>1. file = EmptyFile /\ file' = WriteWhole(FALSE, file, Header)
    BY <1>1 DEF SessionNew, GuardInv
  <2>. QED  BY <1>a, <2>1, WriteKeepsLines
<1>2. ASSUME NEW p \in Proc, SessionAppend(p)
      PROVE  IsPrefix(Lines(file), Lines(file'))
  BY <1>0, <1>2, <1>c, WriteKeepsLines DEF SessionAppend
<1>3. ASSUME NEW p \in Proc, SessionAppendFails(p)
      PROVE  IsPrefix(Lines(file), Lines(file'))
  BY <1>0, <1>3, <1>c, WriteKeepsLines DEF SessionAppendFails
<1>4. CASE SessionNewDies
  <2>1. file = EmptyFile /\ file' \in WritePart(FALSE, file, Header)
    BY <1>4 DEF SessionNewDies, GuardInv
  <2>. QED  BY <1>a, <2>1, WriteKeepsLines
<1>5. ASSUME NEW p \in Proc, SessionLoad(p) \/ SessionFree(p)
      PROVE  IsPrefix(Lines(file), Lines(file'))
  BY <1>5, <1>b DEF SessionLoad, SessionFree
<1>. QED  BY <1>1, <1>2, <1>3, <1>4, <1>5 DEF Next

(* No step of the store alters a line that is on disk or runs a record     *)
(* into one; only a crash of the machine takes lines away.                 *)
THEOREM DiskOnlyGrows == OneWriter => (Spec => DiskAppendOnly)
<1> SUFFICES ASSUME OneWriter
             PROVE  Spec => DiskAppendOnly
  OBVIOUS
<1>1. TypeOK /\ GuardInv /\ [Next]_vars => GuardInv'
  BY GuardStep
<1>2. TypeOK /\ GuardInv /\ [Next]_vars
        => [OsCrash \/ IsPrefix(Lines(file), Lines(file'))]_vars
  BY AppendOnlyStep
<1>. QED  BY <1>1, <1>2, GuardInit, TypeCorrect, PTL DEF Spec, DiskAppendOnly
---------------------------------------------------------------------------
(* What a load collects: the messages among the lines. *)

(* What Keep collects from the first i elements, for each i. *)
Kept(s, S) ==
  LET f[i \in 0 .. Len(s)] ==
        IF i = 0 THEN << >>
        ELSE IF s[i] \in S THEN Append(f[i - 1], s[i]) ELSE f[i - 1]
  IN  f

LEMMA KeepIsKept == ASSUME NEW s, NEW S PROVE Keep(s, S) = Kept(s, S)[Len(s)]
BY DEF Keep, Kept

IsKept(g, s, S, n) ==
  g = [i \in 0 .. n |->
         IF i = 0 THEN << >>
         ELSE IF s[i] \in S THEN Append(g[i - 1], s[i]) ELSE g[i - 1]]

LEMMA KeptExists ==
  ASSUME NEW s, NEW S, NEW n \in Nat
  PROVE  \E g : IsKept(g, s, S, n)
<1>. DEFINE D == {m \in Nat : \E g : IsKept(g, s, S, m)}
<1>1. 0 \in D
  <2>1. IsKept([i \in 0 .. 0 |-> << >>], s, S, 0)
    BY DEF IsKept
  <2>. QED  BY <2>1
<1>2. ASSUME NEW m \in Nat, m \in D
      PROVE  m + 1 \in D
  <2>1. PICK g : IsKept(g, s, S, m)
    BY <1>2
  <2>. DEFINE last == IF s[m + 1] \in S THEN Append(g[m], s[m + 1]) ELSE g[m]
              h == [i \in 0 .. m + 1 |-> IF i = m + 1 THEN last ELSE g[i]]
  <2>2. ASSUME NEW i \in 0 .. m + 1
        PROVE  h[i] = IF i = 0 THEN << >>
                      ELSE IF s[i] \in S THEN Append(h[i - 1], s[i]) ELSE h[i - 1]
    <3>1. CASE i = m + 1
      <4>. HIDE DEF last
      <4>1. h[i - 1] = g[m] /\ i # 0 /\ h[i] = last
        BY <3>1
      <4>. HIDE DEF h
      <4>. QED  BY <3>1, <4>1 DEF last
    <3>2. CASE i \in 0 .. m
      <4>1. g[i] = IF i = 0 THEN << >>
                   ELSE IF s[i] \in S THEN Append(g[i - 1], s[i]) ELSE g[i - 1]
        BY <2>1, <3>2 DEF IsKept
      <4>2. h[i] = g[i] /\ (i # 0 => h[i - 1] = g[i - 1])
        BY <3>2
      <4>. QED  BY <4>1, <4>2
    <3>. QED  BY <3>1, <3>2
  <2>3. IsKept(h, s, S, m + 1)
    <3>1. h = [i \in 0 .. m + 1 |-> h[i]]
      OBVIOUS
    <3>. HIDE DEF h
    <3>. QED  BY <2>2, <3>1 DEF IsKept
  <2>. QED  BY <2>3
<1>. QED
  <2>. HIDE DEF D
  <2>1. n \in D
    BY <1>1, <1>2, SetInduction
  <2>. QED  BY <2>1 DEF D

(* Kept is what its definition says, one element after the other. *)
LEMMA KeptStep ==
  ASSUME NEW s, NEW S, Len(s) \in Nat
  PROVE  /\ Kept(s, S)[0] = << >>
         /\ \A i \in 1 .. Len(s) :
              Kept(s, S)[i] = IF s[i] \in S THEN Append(Kept(s, S)[i - 1], s[i])
                                            ELSE Kept(s, S)[i - 1]
<1>. DEFINE g == Kept(s, S)
<1>1. IsKept(g, s, S, Len(s))
  <2>1. \E h : IsKept(h, s, S, Len(s))
    BY KeptExists
  <2>. QED  BY <2>1 DEF IsKept, Kept
<1>. HIDE DEF g
<1>2. g = [i \in 0 .. Len(s) |->
             IF i = 0 THEN << >>
             ELSE IF s[i] \in S THEN Append(g[i - 1], s[i]) ELSE g[i - 1]]
  BY <1>1 DEF IsKept
<1>3. g[0] = << >>
  BY <1>2
<1>4. ASSUME NEW i \in 1 .. Len(s)
      PROVE  g[i] = IF s[i] \in S THEN Append(g[i - 1], s[i]) ELSE g[i - 1]
  <2>1. i \in 0 .. Len(s) /\ i # 0
    OBVIOUS
  <2>. QED  BY <1>2, <2>1
<1>. QED  BY <1>3, <1>4 DEF g

(* It depends on the elements so far, and on which of them are in the set. *)
LEMMA KeptAgree ==
  ASSUME NEW s, NEW t, NEW S, NEW T, Len(s) \in Nat, Len(t) \in Nat,
         NEW n \in Nat, n <= Len(s), n <= Len(t),
         \A i \in 1 .. n : s[i] = t[i] /\ (s[i] \in S <=> t[i] \in T)
  PROVE  Kept(s, S)[n] = Kept(t, T)[n]
<1>. DEFINE a == Kept(s, S)
            b == Kept(t, T)
            D == {i \in Nat : i <= n => a[i] = b[i]}
<1>0. /\ a[0] = << >> /\ b[0] = << >>
      /\ \A i \in 1 .. Len(s) : a[i] = IF s[i] \in S THEN Append(a[i - 1], s[i]) ELSE a[i - 1]
      /\ \A i \in 1 .. Len(t) : b[i] = IF t[i] \in T THEN Append(b[i - 1], t[i]) ELSE b[i - 1]
  BY KeptStep
<1>. HIDE DEF a, b
<1>1. 0 \in D
  BY <1>0
<1>2. ASSUME NEW i \in Nat, i \in D
      PROVE  i + 1 \in D
  <2>. SUFFICES ASSUME i + 1 <= n
                PROVE  a[i + 1] = b[i + 1]
    OBVIOUS
  <2>1. /\ i + 1 \in 1 .. n /\ i + 1 \in 1 .. Len(s) /\ i + 1 \in 1 .. Len(t)
        /\ (i + 1) - 1 = i /\ a[i] = b[i]
    BY <1>2
  <2>. QED  BY <1>0, <2>1
<1>. HIDE DEF D
<1>3. n \in D
  BY <1>1, <1>2, SetInduction
<1>. QED  BY <1>3 DEF D, a, b

(* One more element at the end. *)
LEMMA KeepAppend ==
  ASSUME NEW L, NEW s \in Seq(L), NEW x \in L, NEW S
  PROVE  Keep(Append(s, x), S) = IF x \in S THEN Append(Keep(s, S), x) ELSE Keep(s, S)
<1>. DEFINE t == Append(s, x)
            n == Len(s)
<1>1. /\ n \in Nat /\ Len(t) = n + 1 /\ t[n + 1] = x
      /\ \A i \in 1 .. n : t[i] = s[i]
  OBVIOUS
<1>. HIDE DEF t, n
<1>2. Kept(t, S)[n + 1] = IF t[n + 1] \in S THEN Append(Kept(t, S)[n], t[n + 1]) ELSE Kept(t, S)[n]
  <2>1. n + 1 \in 1 .. Len(t) /\ (n + 1) - 1 = n /\ Len(t) \in Nat
    BY <1>1
  <2>2. \A i \in 1 .. Len(t) :
           Kept(t, S)[i] = IF t[i] \in S THEN Append(Kept(t, S)[i - 1], t[i])
                                         ELSE Kept(t, S)[i - 1]
    BY <2>1, KeptStep
  <2>. QED  BY <2>1, <2>2
<1>3. Kept(t, S)[n] = Kept(s, S)[n]
  <2>1. n <= Len(t) /\ n <= Len(s) /\ Len(t) \in Nat /\ Len(s) \in Nat /\ n \in Nat
    BY <1>1 DEF n
  <2>2. \A i \in 1 .. n : t[i] = s[i] /\ (t[i] \in S <=> s[i] \in S)
    BY <1>1
  <2>. QED  BY <2>1, <2>2, KeptAgree
<1>4. Keep(t, S) = Kept(t, S)[n + 1] /\ Keep(s, S) = Kept(s, S)[n]
  BY <1>1, KeepIsKept DEF n
<1>. QED  BY <1>1, <1>2, <1>3, <1>4 DEF t

LEMMA KeepEmpty == ASSUME NEW S PROVE Keep(<< >>, S) = << >>
<1>1. Len(<< >>) = 0 /\ Len(<< >>) \in Nat
  OBVIOUS
<1>2. Kept(<< >>, S)[0] = << >>
  BY <1>1, KeptStep
<1>. QED  BY <1>1, <1>2, KeepIsKept

(* Only membership of the elements there are matters. *)
LEMMA KeepSame ==
  ASSUME NEW L, NEW s \in Seq(L), NEW S, NEW T,
         \A i \in 1 .. Len(s) : s[i] \in S <=> s[i] \in T
  PROVE  Keep(s, S) = Keep(s, T)
<1>1. Len(s) \in Nat /\ Len(s) <= Len(s)
  OBVIOUS
<1>2. Kept(s, S)[Len(s)] = Kept(s, T)[Len(s)]
  BY <1>1, KeptAgree
<1>. QED  BY <1>2, KeepIsKept

(* What is kept is of the set, and no more than there was. *)
LEMMA KeptType ==
  ASSUME NEW s, NEW S, Len(s) \in Nat
  PROVE  \A n \in 0 .. Len(s) : Kept(s, S)[n] \in Seq(S) /\ Len(Kept(s, S)[n]) <= n
<1>. DEFINE a == Kept(s, S)
            D == {n \in Nat : n <= Len(s) => a[n] \in Seq(S) /\ Len(a[n]) <= n}
<1>0. /\ a[0] = << >>
      /\ \A i \in 1 .. Len(s) : a[i] = IF s[i] \in S THEN Append(a[i - 1], s[i]) ELSE a[i - 1]
  BY KeptStep
<1>. HIDE DEF a
<1>1. 0 \in D
  <2>1. << >> \in Seq(S) /\ Len(<< >>) <= 0
    OBVIOUS
  <2>. QED  BY <1>0, <2>1
<1>2. ASSUME NEW n \in Nat, n \in D
      PROVE  n + 1 \in D
  <2>. SUFFICES ASSUME n + 1 <= Len(s)
                PROVE  a[n + 1] \in Seq(S) /\ Len(a[n + 1]) <= n + 1
    OBVIOUS
  <2>1. n + 1 \in 1 .. Len(s) /\ (n + 1) - 1 = n /\ a[n] \in Seq(S) /\ Len(a[n]) <= n
    BY <1>2
  <2>2. a[n + 1] = IF s[n + 1] \in S THEN Append(a[n], s[n + 1]) ELSE a[n]
    BY <1>0, <2>1
  <2>. QED  BY <2>1, <2>2
<1>. HIDE DEF D
<1>3. \A n \in Nat : n \in D
  BY <1>1, <1>2, SetInduction
<1>. QED  BY <1>3 DEF D, a

LEMMA KeepType ==
  ASSUME NEW L, NEW s \in Seq(L), NEW S
  PROVE  Keep(s, S) \in Seq(S) /\ Len(Keep(s, S)) <= Len(s)
<1>1. Len(s) \in Nat /\ Len(s) \in 0 .. Len(s)
  OBVIOUS
<1>. QED  BY <1>1, KeptType, KeepIsKept

(* A sequence of members is kept as it is. *)
LEMMA KeepAll ==
  ASSUME NEW S, NEW s \in Seq(S), NEW T, \A i \in 1 .. Len(s) : s[i] \in T
  PROVE  Keep(s, T) = s
<1>. DEFINE a == Kept(s, T)
            D == {n \in Nat : n <= Len(s) => a[n] = SubSeq(s, 1, n)}
<1>0. /\ Len(s) \in Nat /\ a[0] = << >>
      /\ \A i \in 1 .. Len(s) : a[i] = IF s[i] \in T THEN Append(a[i - 1], s[i]) ELSE a[i - 1]
  BY KeptStep
<1>. HIDE DEF a
<1>1. 0 \in D
  <2>1. SubSeq(s, 1, 0) = << >>
    OBVIOUS
  <2>. QED  BY <1>0, <2>1
<1>2. ASSUME NEW n \in Nat, n \in D
      PROVE  n + 1 \in D
  <2>. SUFFICES ASSUME n + 1 <= Len(s)
                PROVE  a[n + 1] = SubSeq(s, 1, n + 1)
    OBVIOUS
  <2>1. n + 1 \in 1 .. Len(s) /\ (n + 1) - 1 = n /\ a[n] = SubSeq(s, 1, n)
    BY <1>2
  <2>2. a[n + 1] = Append(a[n], s[n + 1])
    BY <1>0, <2>1
  <2>3. SubSeq(s, 1, n + 1) = Append(SubSeq(s, 1, n), s[n + 1])
    BY <2>1
  <2>. QED  BY <2>1, <2>2, <2>3
<1>. HIDE DEF D
<1>3. Len(s) \in D
  BY <1>0, <1>1, <1>2, SetInduction
<1>4. SubSeq(s, 1, Len(s)) = s
  OBVIOUS
<1>. QED  BY <1>0, <1>3, <1>4, KeepIsKept DEF D, a

(* What the first elements give is the beginning of what all of them give. *)
LEMMA KeepSub ==
  ASSUME NEW L, NEW s \in Seq(L), NEW S, NEW k \in 0 .. Len(s)
  PROVE  \E m \in 0 .. Len(Keep(s, S)) : Keep(SubSeq(s, 1, k), S) = SubSeq(Keep(s, S), 1, m)
<1>. DEFINE a == Kept(s, S)
            m == Len(a[k])
            D == {d \in Nat : k + d <= Len(s) => m <= Len(a[k + d]) /\ SubSeq(a[k + d], 1, m) = a[k]}
<1>0. /\ Len(s) \in Nat
      /\ \A i \in 1 .. Len(s) : a[i] = IF s[i] \in S THEN Append(a[i - 1], s[i]) ELSE a[i - 1]
      /\ \A i \in 0 .. Len(s) : a[i] \in Seq(S)
  <2>1. Len(s) \in Nat
    OBVIOUS
  <2>2. \A i \in 1 .. Len(s) : a[i] = IF s[i] \in S THEN Append(a[i - 1], s[i]) ELSE a[i - 1]
    BY <2>1, KeptStep
  <2>3. \A i \in 0 .. Len(s) : a[i] \in Seq(S)
    BY <2>1, KeptType
  <2>. QED  BY <2>1, <2>2, <2>3
<1>. HIDE DEF a
<1>1. 0 \in D
  <2>1. a[k] \in Seq(S) /\ k + 0 = k
    BY <1>0
  <2>2. SubSeq(a[k], 1, m) = a[k] /\ m <= Len(a[k])
    BY <2>1
  <2>. QED  BY <2>1, <2>2
<1>2. ASSUME NEW d \in Nat, d \in D
      PROVE  d + 1 \in D
  <2>. SUFFICES ASSUME k + (d + 1) <= Len(s)
                PROVE  m <= Len(a[k + (d + 1)]) /\ SubSeq(a[k + (d + 1)], 1, m) = a[k]
    OBVIOUS
  <2>. DEFINE b == a[k + d]
              y == s[k + (d + 1)]
  <2>1. /\ k + (d + 1) \in 1 .. Len(s) /\ (k + (d + 1)) - 1 = k + d
        /\ k + d \in 0 .. Len(s) /\ k \in 0 .. Len(s)
    BY <1>0
  <2>2. m <= Len(b) /\ SubSeq(b, 1, m) = a[k] /\ b \in Seq(S) /\ m \in Nat
    BY <1>0, <1>2, <2>1
  <2>3. a[k + (d + 1)] = IF y \in S THEN Append(b, y) ELSE b
    BY <1>0, <2>1
  <2>. HIDE DEF b, y, m
  <2>4. y \in S => m <= Len(Append(b, y)) /\ SubSeq(Append(b, y), 1, m) = SubSeq(b, 1, m)
    BY <2>2
  <2>. QED  BY <2>2, <2>3, <2>4
<1>. HIDE DEF D
<1>3. Len(s) - k \in Nat /\ Len(s) - k \in D /\ k + (Len(s) - k) = Len(s)
  BY <1>0, <1>1, <1>2, SetInduction
<1>4. m <= Len(a[Len(s)]) /\ SubSeq(a[Len(s)], 1, m) = a[k] /\ m \in Nat
  BY <1>0, <1>3 DEF D
<1>5. Keep(s, S) = a[Len(s)]
  BY KeepIsKept DEF a
<1>6. Keep(SubSeq(s, 1, k), S) = a[k]
  <2>. DEFINE t == SubSeq(s, 1, k)
  <2>1. Len(t) = k /\ k \in Nat /\ k <= Len(s) /\ k <= Len(t) /\ \A i \in 1 .. k : t[i] = s[i]
    OBVIOUS
  <2>. HIDE DEF t
  <2>2. \A i \in 1 .. k : t[i] = s[i] /\ (t[i] \in S <=> s[i] \in S)
    BY <2>1
  <2>3. Kept(t, S)[k] = Kept(s, S)[k]
    BY <1>0, <2>1, <2>2, KeptAgree
  <2>. QED  BY <2>1, <2>3, KeepIsKept DEF t, a
<1>7. Len(a[Len(s)]) \in Nat
  BY <1>0
<1>. HIDE DEF m
<1>. QED  BY <1>4, <1>5, <1>6, <1>7

LEMMA MessageFacts ==
  /\ Message \subseteq Line /\ Blank \notin Message /\ Junk \notin Message
  /\ Header \notin Message /\ Control \notin Message
  /\ \A n \in 1 .. MaxAppends : Record("msg", n) \in Message
BY DEF Line, Message, Record, Junk, Header, Blank, Control

LEMMA MessagesType ==
  ASSUME NEW f \in File
  PROVE  Lines(f) \in Seq(Line) /\ Messages(f) \in Seq(Message)
<1>1. Lines(f) \in Seq(Line)
  BY DEF Lines, File
<1>. QED  BY <1>1, KeepType DEF Messages

(* An empty line adds nothing. *)
LEMMA HealedMessages ==
  ASSUME NEW f \in File, NEW ls \in Healed(f)
  PROVE  ls \in Seq(Line) /\ Keep(ls, Message) = Messages(f)
<1>1. Lines(f) \in Seq(Line)
  BY MessagesType
<1>2. Keep(Append(Lines(f), Blank), Message) = Keep(Lines(f), Message)
  BY <1>1, LineFacts, MessageFacts, KeepAppend
<1>3. Append(Lines(f), Blank) \in Seq(Line)
  BY <1>1, LineFacts
<1>4. ls = Lines(f) \/ ls = Append(Lines(f), Blank)
  BY DEF Healed
<1>. QED  BY <1>1, <1>2, <1>3, <1>4 DEF Messages

(* A whole write of a message adds it, a partial one adds it or nothing;   *)
(* no other line adds a message.                                           *)
LEMMA WrittenMessages ==
  ASSUME NEW heal \in BOOLEAN, NEW f \in File, NEW x \in Line \ {Blank},
         heal \/ f.tail = NoTail
  PROVE  /\ x \in Message => Messages(WriteWhole(heal, f, x)) = Append(Messages(f), x)
         /\ x \notin Message => Messages(WriteWhole(heal, f, x)) = Messages(f)
         /\ \A g \in WritePart(heal, f, x) :
              \/ Messages(g) = Messages(f)
              \/ x \in Message /\ Messages(g) = Append(Messages(f), x)
<1>1. ASSUME NEW ls \in Healed(f), NEW y \in Line
      PROVE  Keep(Append(ls, y), Message) = IF y \in Message THEN Append(Messages(f), y)
                                                             ELSE Messages(f)
  <2>1. ls \in Seq(Line) /\ Keep(ls, Message) = Messages(f)
    BY HealedMessages
  <2>2. Keep(Append(ls, y), Message) = IF y \in Message THEN Append(Keep(ls, Message), y)
                                                        ELSE Keep(ls, Message)
    BY <2>1, KeepAppend
  <2>. QED  BY <2>1, <2>2
<1>2. PICK ls \in Healed(f) : Lines(WriteWhole(heal, f, x)) = Append(ls, x)
  BY WrittenLines
<1>3. ASSUME NEW g \in WritePart(heal, f, x)
      PROVE  \/ Messages(g) = Messages(f)
             \/ x \in Message /\ Messages(g) = Append(Messages(f), x)
  <2>1. \/ Lines(g) \in Healed(f)
        \/ \E hs \in Healed(f), y \in {Junk, x} : Lines(g) = Append(hs, y)
    BY WrittenLines
  <2>2. CASE Lines(g) \in Healed(f)
    BY <2>2, HealedMessages DEF Messages
  <2>3. ASSUME NEW hs \in Healed(f), NEW y \in {Junk, x}, Lines(g) = Append(hs, y)
        PROVE  \/ Messages(g) = Messages(f)
               \/ x \in Message /\ Messages(g) = Append(Messages(f), x)
    <3>1. Messages(g) = IF y \in Message THEN Append(Messages(f), y) ELSE Messages(f)
      BY <1>1, <2>3, LineFacts DEF Messages
    <3>. QED  BY <3>1, MessageFacts
  <2>. QED  BY <2>1, <2>2, <2>3
<1>4. Messages(WriteWhole(heal, f, x)) = IF x \in Message THEN Append(Messages(f), x)
                                                          ELSE Messages(f)
  BY <1>1, <1>2 DEF Messages
<1>. QED  BY <1>3, <1>4

(* What a crash of the machine leaves of the messages is the beginning of  *)
(* them.                                                                   *)
LEMMA TruncatedMessages ==
  ASSUME NEW f \in File, NEW g \in Truncations(f)
  PROVE  \E m \in 0 .. Len(Messages(f)) : Messages(g) = SubSeq(Messages(f), 1, m)
<1>. DEFINE ls == Lines(f)
<1>1. ls \in Seq(Line) /\ Messages(f) \in Seq(Message)
  BY MessagesType
<1>2. CASE g = f
  <2>. DEFINE ms == Messages(f)
  <2>1. SubSeq(ms, 1, Len(ms)) = ms /\ Len(ms) \in 0 .. Len(ms)
    BY <1>1
  <2>2. Messages(g) = ms
    BY <1>2
  <2>. HIDE DEF ms
  <2>3. \E m \in 0 .. Len(ms) : Messages(g) = SubSeq(ms, 1, m)
    BY <2>1, <2>2
  <2>. QED  BY <2>3 DEF ms
<1>3. ASSUME NEW n \in DOMAIN ls,
             NEW t \in {NoTail} \cup (IF ls[n] = Blank THEN {} ELSE {Junk, ls[n]}),
             g = [lines |-> SubSeq(ls, 1, n - 1), tail |-> t]
      PROVE  \E m \in 0 .. Len(Messages(f)) : Messages(g) = SubSeq(Messages(f), 1, m)
  <2>. DEFINE k == n - 1
  <2>1. /\ n \in 1 .. Len(ls) /\ ls[n] \in Line /\ Len(ls) \in Nat /\ k \in 0 .. Len(ls)
        /\ n \in 0 .. Len(ls) /\ k + 1 = n
    BY <1>1
  <2>2. SubSeq(ls, 1, k) \in Seq(Line)
    BY <1>1, <2>1
  <2>3. SubSeq(ls, 1, n) = Append(SubSeq(ls, 1, k), ls[n])
    BY <1>1, <2>1
  <2>. HIDE DEF ls, k
  <2>4. ASSUME NEW j \in 0 .. Len(ls), Messages(g) = Keep(SubSeq(ls, 1, j), Message)
        PROVE  \E m \in 0 .. Len(Messages(f)) : Messages(g) = SubSeq(Messages(f), 1, m)
    BY <1>1, <2>4, KeepSub DEF Messages, ls
  <2>5. CASE t = NoTail
    <3>1. Lines(g) = SubSeq(ls, 1, k)
      BY <1>3, <2>5 DEF Lines, k
    <3>. QED  BY <2>1, <2>4, <3>1 DEF Messages
  <2>6. CASE t = Junk
    <3>1. Lines(g) = Append(SubSeq(ls, 1, k), Junk)
      BY <1>3, <2>6, LineFacts DEF Lines, k
    <3>2. Keep(Append(SubSeq(ls, 1, k), Junk), Message)
            = IF Junk \in Message THEN Append(Keep(SubSeq(ls, 1, k), Message), Junk)
                                  ELSE Keep(SubSeq(ls, 1, k), Message)
      <4>1. Junk \in Line
        BY LineFacts
      <4>. QED  BY <2>2, <4>1, KeepAppend
    <3>3. Messages(g) = Keep(SubSeq(ls, 1, k), Message)
      BY <3>1, <3>2, MessageFacts DEF Messages
    <3>. QED  BY <2>1, <2>4, <3>3
  <2>7. CASE t = ls[n] /\ t # NoTail
    <3>1. Lines(g) = SubSeq(ls, 1, n)
      BY <1>3, <2>3, <2>7 DEF Lines, k
    <3>. QED  BY <2>1, <2>4, <3>1 DEF Messages
  <2>8. t = NoTail \/ t = Junk \/ (t = ls[n] /\ t # NoTail)
    BY <1>3
  <2>. QED  BY <2>5, <2>6, <2>7, <2>8
<1>. QED  BY <1>2, <1>3 DEF Truncations
---------------------------------------------------------------------------
(* The store implements the log. *)

(* A conversation in memory is one of messages, and there is none without  *)
(* an open session.                                                        *)
Views ==
  /\ messages \in [Proc -> Seq(Message)]
  /\ \A p \in Proc \ open : messages[p] = << >>

LEMMA ViewsInit == Init => Views
<1>1. << >> \in Seq(Message)
  OBVIOUS
<1>. QED  BY <1>1 DEF Init, Views

LEMMA ViewsStep == TypeOK /\ Views /\ [Next]_vars => Views'
<1>. SUFFICES ASSUME TypeOK, Views, [Next]_vars
              PROVE  Views'
  OBVIOUS
<1>. USE DEF Views
<1>1. ASSUME NEW p \in Proc, SessionNew(p)
      PROVE  Views'
  BY <1>1 DEF SessionNew
<1>2. ASSUME NEW p \in Proc, SessionLoad(p)
      PROVE  Views'
  <2>1. Messages(file) \in Seq(Message)
    BY MessagesType DEF TypeOK
  <2>. QED  BY <1>2, <2>1 DEF SessionLoad
<1>3. ASSUME NEW p \in Proc, SessionAppend(p)
      PROVE  Views'
  <2>1. next \in 1 .. MaxAppends
    BY <1>3, StoreAssumption DEF SessionAppend, MayAppend, TypeOK
  <2>2. Append(messages[p], Record("msg", next)) \in Seq(Message)
    BY <2>1, MessageFacts
  <2>. QED  BY <1>3, <2>2 DEF SessionAppend, MayAppend
<1>4. ASSUME NEW p \in Proc, SessionAppendFails(p)
      PROVE  Views'
  BY <1>4 DEF SessionAppendFails
<1>5. ASSUME NEW ps \in SUBSET Proc, Forget(ps)
      PROVE  Views'
  <2>1. << >> \in Seq(Message)
    OBVIOUS
  <2>. QED  BY <1>5, <2>1 DEF Forget
<1>6. ASSUME NEW p \in Proc, SessionFree(p)
      PROVE  Views'
  BY <1>5, <1>6 DEF SessionFree
<1>7. CASE SessionNewDies
  BY <1>7 DEF SessionNewDies
<1>8. CASE OsCrash
  BY <1>5, <1>8 DEF OsCrash
<1>9. CASE UNCHANGED vars
  BY <1>9 DEF vars
<1>. QED
  BY <1>1, <1>2, <1>3, <1>4, <1>6, <1>7, <1>8, <1>9 DEF Next

(* A process that may append writes a message, over a tail it heals.       *)
LEMMA AppendFacts ==
  ASSUME TypeOK, GuardInv, NEW p \in Proc, MayAppend(p)
  PROVE  /\ needs_heal[p] \in BOOLEAN /\ file \in File
         /\ Record("msg", next) \in Message /\ Record("msg", next) \in Line \ {Blank}
         /\ needs_heal[p] \/ file.tail = NoTail
<1>1. next \in 1 .. MaxAppends
  BY StoreAssumption DEF MayAppend, TypeOK
<1>2. needs_heal[p] \/ file.tail = NoTail
  BY DEF GuardInv, TornTailGuarded, MayAppend
<1>. QED  BY <1>1, <1>2, LineFacts, MessageFacts DEF TypeOK

(* A file that has only its header, or a part of it, holds no message.     *)
LEMMA HeaderFacts ==
  /\ EmptyFile \in File /\ EmptyFile.tail = NoTail /\ Header \in Line \ {Blank}
  /\ Lines(EmptyFile) = << >>
  /\ Messages(EmptyFile) = << >>
  /\ Messages(WriteWhole(FALSE, EmptyFile, Header)) = << >>
  /\ \A g \in WritePart(FALSE, EmptyFile, Header) : Messages(g) = << >>
<1>1. EmptyFile \in File /\ EmptyFile.tail = NoTail /\ Header \in Line \ {Blank}
  BY LineFacts DEF EmptyFile, File
<1>2. Lines(EmptyFile) = << >>
  BY DEF EmptyFile, Lines
<1>3. Messages(EmptyFile) = << >>
  BY <1>2, KeepEmpty DEF Messages
<1>. QED  BY <1>1, <1>2, <1>3, WrittenMessages, MessageFacts

LEMMA LogInitial == Proc # {} /\ Init => Log!LogInit
<1>. SUFFICES ASSUME Proc # {}, Init
              PROVE  Log!LogInit
  OBVIOUS
<1>1. TheProc \in Proc
  BY DEF TheProc
<1>2. Messages(file) \in Seq(Message)
  BY TypeInit, MessagesType DEF TypeOK
<1>. QED  BY <1>1, <1>2 DEF Init, Log!LogInit

LEMMA LogStep ==
  OneWriter /\ Proc # {}
    => (TypeOK /\ GuardInv /\ Views /\ [Next]_vars => [Log!LogNext]_(Log!logVars))
<1>. SUFFICES ASSUME OneWriter, Proc # {}, TypeOK, GuardInv, Views, [Next]_vars
              PROVE  Log!LogNext \/ UNCHANGED Log!logVars
  OBVIOUS
<1>. DEFINE p == TheProc
<1>0. /\ p \in Proc /\ \A q \in Proc : q = p
      /\ file \in File /\ open \subseteq Proc
      /\ poisoned \in [Proc -> BOOLEAN]
  BY DEF OneWriter, TypeOK, TheProc
<1>1. CASE SessionNew(p)
  <2>1. /\ file = EmptyFile /\ open = {}
        /\ file' = WriteWhole(FALSE, EmptyFile, Header)
    BY <1>1 DEF SessionNew, GuardInv
  <2>2. /\ Messages(file) = << >> /\ Messages(file') = << >>
    BY <2>1, HeaderFacts
  <2>3. messages[p] = << >> /\ poisoned[p] = FALSE
    BY <1>0, <2>1 DEF Views, TypeOK
  <2>4. p \notin open /\ p \in open' /\ messages' = messages /\ poisoned' = poisoned
    BY <1>1, <2>1 DEF SessionNew
  <2>. QED  BY <2>2, <2>3, <2>4 DEF Log!LogNext, Log!Attach
<1>2. CASE SessionLoad(p)
  <2>1. /\ p \notin open /\ p \in open' /\ file' = file
        /\ messages'[p] = Messages(file) /\ poisoned'[p] = FALSE
    BY <1>0, <1>2 DEF SessionLoad, Views
  <2>. QED  BY <2>1 DEF Log!LogNext, Log!Attach
<1>3. CASE SessionAppend(p)
  <2>. DEFINE m == Record("msg", next)
  <2>1. /\ p \in open /\ ~poisoned[p] /\ Len(messages[p]) < MaxMessages
        /\ open' = open /\ poisoned' = poisoned
        /\ messages'[p] = Append(messages[p], m)
        /\ file' = WriteWhole(needs_heal[p], file, m)
    BY <1>0, <1>3 DEF SessionAppend, MayAppend, Views
  <2>2. MayAppend(p)
    BY <1>3 DEF SessionAppend
  <2>3. m \in Message /\ Messages(file') = Append(Messages(file), m)
    BY <1>0, <2>1, <2>2, AppendFacts, WrittenMessages
  <2>. HIDE DEF m
  <2>4. Log!AppendOk(m)
    BY <2>1, <2>3 DEF Log!AppendOk, Log!CanAppend
  <2>. QED  BY <2>3, <2>4 DEF Log!LogNext
<1>4. CASE SessionAppendFails(p)
  <2>. DEFINE m == Record("msg", next)
  <2>1. /\ p \in open /\ ~poisoned[p] /\ Len(messages[p]) < MaxMessages
        /\ open' = open /\ poisoned'[p] = TRUE
        /\ messages' = messages
        /\ file' \in WritePart(needs_heal[p], file, m)
    BY <1>0, <1>4 DEF SessionAppendFails, MayAppend
  <2>2. MayAppend(p)
    BY <1>4 DEF SessionAppendFails
  <2>3. m \in Message /\ Messages(file') \in {Messages(file), Append(Messages(file), m)}
    BY <1>0, <2>1, <2>2, AppendFacts, WrittenMessages
  <2>. HIDE DEF m
  <2>4. Log!AppendTorn(m)
    BY <2>1, <2>3 DEF Log!AppendTorn, Log!CanAppend
  <2>. QED  BY <2>3, <2>4 DEF Log!LogNext
<1>5. CASE SessionFree(p)
  <2>1. /\ p \in open /\ p \notin open' /\ file' = file
        /\ messages'[p] = << >> /\ poisoned'[p] = FALSE
    BY <1>0, <1>5 DEF SessionFree, Forget
  <2>. QED  BY <2>1 DEF Log!LogNext, Log!Detach
<1>6. CASE SessionNewDies
  <2>1. /\ file = EmptyFile /\ file' \in WritePart(FALSE, EmptyFile, Header)
        /\ open' = open /\ messages' = messages /\ poisoned' = poisoned
    BY <1>6 DEF SessionNewDies, GuardInv
  <2>2. Messages(file') = Messages(file)
    BY <2>1, HeaderFacts
  <2>. QED  BY <2>1, <2>2 DEF Log!logVars
<1>7. CASE OsCrash
  <2>1. /\ file' \in Truncations(file) /\ p \notin open'
        /\ messages'[p] = << >> /\ poisoned'[p] = FALSE
    BY <1>0, <1>7 DEF OsCrash, Forget
  <2>2. PICK n \in 0 .. Len(Messages(file)) : Messages(file') = SubSeq(Messages(file), 1, n)
    BY <1>0, <2>1, TruncatedMessages
  <2>3. Log!LoseTail(n)
    BY <2>1, <2>2 DEF Log!LoseTail
  <2>. QED  BY <2>2, <2>3 DEF Log!LogNext
<1>8. CASE UNCHANGED vars
  BY <1>8 DEF vars, Log!logVars
<1>. QED
  <2>. HIDE DEF p
  <2>. QED  BY <1>0, <1>1, <1>2, <1>3, <1>4, <1>5, <1>6, <1>7, <1>8 DEF Next

(* With one writer every step of the store is a step of the log a reload   *)
(* of the file would show: an append that session_append acknowledged adds *)
(* the message, one it refused adds it or not and latches, a load returns  *)
(* the log, a crash of the machine loses a tail of it.                     *)
THEOREM StoreImplementsLog ==
  ASSUME OneWriter, Proc # {}
  PROVE  Spec => ImplementsMessageLog
<1>1. TypeOK /\ GuardInv /\ [Next]_vars => GuardInv'
  BY GuardStep
<1>2. TypeOK /\ Views /\ [Next]_vars => Views'
  BY ViewsStep
<1>3. TypeOK /\ GuardInv /\ Views /\ [Next]_vars => [Log!LogNext]_(Log!logVars)
  BY LogStep
<1>4. Init => Log!LogInit
  BY LogInitial
<1>. QED
  BY <1>1, <1>2, <1>3, <1>4, GuardInit, ViewsInit, TypeCorrect, PTL
     DEF Spec, ImplementsMessageLog, Log!LogSpec
---------------------------------------------------------------------------
(* What is wrong with the file, at worst. *)

(* The lines load_scan would accept but for what follows a bad line, of    *)
(* which there is at most one.                                             *)
Sound(ls) ==
  /\ ls # << >> /\ ls[1] \in {Header, Blank}
  /\ \A i, j \in DOMAIN ls : ls[i] = Junk /\ ls[j] = Junk => i = j

(* A session that is not poisoned has in memory what a reload would give,  *)
(* within the cap, and its file is sound.                                  *)
InStep ==
  \A p \in open : ~poisoned[p] =>
     /\ messages[p] = Messages(file)
     /\ Len(messages[p]) <= MaxMessages
     /\ Sound(Lines(file))

(* What load_scan accepts has one bad line at most: after it there are     *)
(* only empty ones.                                                        *)
LEMMA WellFormedIsSound ==
  ASSUME NEW ls \in Seq(Line), WellFormed(ls)
  PROVE  Sound(ls)
<1>1. ASSUME NEW i \in DOMAIN ls, NEW j \in DOMAIN ls, ls[i] = Junk, ls[j] = Junk, i # j
      PROVE  FALSE
  <2>1. i \in Nat /\ j \in Nat /\ (i < j \/ j < i)
    BY <1>1
  <2>. QED  BY <1>1, <2>1, LineFacts DEF WellFormed
<1>. QED  BY <1>1 DEF WellFormed, Sound

(* An empty line or a record keeps it so. *)
LEMMA SoundAppend ==
  ASSUME NEW ls \in Seq(Line), Sound(ls), NEW x \in Line \ {Junk}
  PROVE  Sound(Append(ls, x))
<1>. DEFINE t == Append(ls, x)
<1>1. /\ Len(ls) \in Nat /\ Len(ls) # 0 /\ DOMAIN t = 1 .. Len(ls) + 1
      /\ t[Len(ls) + 1] = x
      /\ \A i \in 1 .. Len(ls) : t[i] = ls[i]
      /\ DOMAIN ls = 1 .. Len(ls) /\ t # << >>
  BY DEF Sound
<1>. HIDE DEF t
<1>2. t[1] = ls[1]
  BY <1>1
<1>3. ASSUME NEW i \in DOMAIN t, NEW j \in DOMAIN t, t[i] = Junk, t[j] = Junk
      PROVE  i = j
  <2>1. i \in 1 .. Len(ls) /\ j \in 1 .. Len(ls)
    BY <1>1, <1>3
  <2>. QED  BY <1>1, <1>3, <2>1 DEF Sound
<1>. QED  BY <1>1, <1>2, <1>3 DEF Sound, t

LEMMA RemoveAtFacts ==
  ASSUME NEW S, NEW s \in Seq(S), NEW i \in 1 .. Len(s)
  PROVE  /\ RemoveAt(s, i) \in Seq(S) /\ Len(RemoveAt(s, i)) = Len(s) - 1
         /\ \A k \in 1 .. Len(s) - 1 : RemoveAt(s, i)[k] = IF k < i THEN s[k] ELSE s[k + 1]
<1>. DEFINE n == Len(s)
            a == SubSeq(s, 1, i - 1)
            b == SubSeq(s, i + 1, n)
<1>1. n \in Nat /\ i \in 1 .. n /\ \A k \in 1 .. n : s[k] \in S
  OBVIOUS
<1>2. /\ a \in Seq(S) /\ Len(a) = i - 1
      /\ \A k \in 1 .. i - 1 : a[k] = s[k]
  BY <1>1
<1>3. /\ b \in Seq(S) /\ Len(b) = n - i
      /\ \A k \in 1 .. n - i : b[k] = s[i + k]
  <2>1. i + 1 \in Int /\ n \in Int /\ \A k \in i + 1 .. n : s[k] \in S
    BY <1>1
  <2>2. /\ b \in Seq(S) /\ Len(b) = IF i + 1 <= n THEN n - (i + 1) + 1 ELSE 0
        /\ \A k \in 1 .. n - (i + 1) + 1 : b[k] = s[(i + 1) + k - 1]
    BY <2>1, SubSeqProperties
  <2>. HIDE DEF b, n
  <2>3. n - (i + 1) + 1 = n - i /\ \A k \in 1 .. n - i : (i + 1) + k - 1 = i + k
    BY <1>1
  <2>. QED  BY <1>1, <2>2, <2>3
<1>4. RemoveAt(s, i) = a \o b
  BY DEF RemoveAt
<1>. HIDE DEF a, b, n
<1>5. /\ a \o b \in Seq(S) /\ Len(a \o b) = Len(a) + Len(b)
      /\ \A k \in 1 .. Len(a) + Len(b) :
           (a \o b)[k] = IF k <= Len(a) THEN a[k] ELSE b[k - Len(a)]
  BY <1>2, <1>3, ConcatProperties
<1>6. ASSUME NEW k \in 1 .. n - 1
      PROVE  (a \o b)[k] = IF k < i THEN s[k] ELSE s[k + 1]
  <2>1. (a \o b)[k] = IF k <= i - 1 THEN a[k] ELSE b[k - (i - 1)]
    BY <1>1, <1>2, <1>3, <1>5
  <2>2. CASE k < i
    BY <1>1, <1>2, <2>1, <2>2
  <2>3. CASE ~(k < i)
    <3>1. k - (i - 1) \in 1 .. n - i /\ i + (k - (i - 1)) = k + 1
      BY <1>1, <2>3
    <3>. QED  BY <1>1, <1>3, <2>1, <2>3, <3>1
  <2>. QED  BY <2>2, <2>3
<1>7. Len(a \o b) = n - 1
  BY <1>1, <1>2, <1>3, <1>5
<1>. QED  BY <1>4, <1>5, <1>6, <1>7 DEF n

(* Without its bad line a sound file is well formed. *)
LEMMA SoundIsNearlyWellFormed ==
  ASSUME NEW ls \in Seq(Line), Sound(ls)
  PROVE  WellFormed(ls) \/ \E i \in DOMAIN ls : ls[i] = Junk /\ WellFormed(RemoveAt(ls, i))
<1>1. CASE \A i \in DOMAIN ls : ls[i] # Junk
  BY <1>1 DEF Sound, WellFormed
<1>2. ASSUME NEW i \in DOMAIN ls, ls[i] = Junk
      PROVE  WellFormed(RemoveAt(ls, i))
  <2>. DEFINE n == Len(ls)
              t == RemoveAt(ls, i)
  <2>1. DOMAIN ls = 1 .. n /\ n \in Nat /\ i \in 1 .. n /\ i # 1
    BY <1>2, LineFacts DEF Sound
  <2>2. /\ t \in Seq(Line) /\ Len(t) = n - 1
        /\ \A k \in 1 .. n - 1 : t[k] = IF k < i THEN ls[k] ELSE ls[k + 1]
    BY <2>1, RemoveAtFacts
  <2>. HIDE DEF n, t
  <2>3. DOMAIN t = 1 .. n - 1 /\ t # << >> /\ t[1] = ls[1]
    BY <2>1, <2>2
  <2>4. \A k \in 1 .. n : k # i => ls[k] # Junk
    BY <1>2, <2>1 DEF Sound
  <2>5. \A k \in DOMAIN t : t[k] # Junk
    BY <2>1, <2>2, <2>3, <2>4
  <2>6. WellFormed(t)
    BY <2>3, <2>5 DEF WellFormed, Sound
  <2>. QED  BY <2>6 DEF t
<1>. QED  BY <1>1, <1>2

LEMMA InStepStep ==
  OneWriter => (TypeOK /\ GuardInv /\ Views /\ InStep /\ [Next]_vars => InStep')
<1>. SUFFICES ASSUME OneWriter, TypeOK, GuardInv, Views, InStep, [Next]_vars
              PROVE  InStep'
  OBVIOUS
<1>0. file \in File /\ Lines(file) \in Seq(Line) /\ Messages(file) \in Seq(Message)
  BY MessagesType DEF TypeOK
<1>a. ASSUME NEW ls \in Healed(file), Sound(Lines(file)), NEW x \in Line \ {Junk}
      PROVE  Sound(Append(ls, x))
  <2>1. Sound(Append(Lines(file), Blank)) /\ Append(Lines(file), Blank) \in Seq(Line)
    BY <1>0, <1>a, LineFacts, SoundAppend
  <2>2. ls = Lines(file) \/ ls = Append(Lines(file), Blank)
    BY DEF Healed
  <2>. QED  BY <1>0, <1>a, <2>1, <2>2, SoundAppend
<1>1. ASSUME NEW p \in Proc, SessionNew(p)
      PROVE  InStep'
  <2>1. file = EmptyFile /\ open = {} /\ file' = WriteWhole(FALSE, EmptyFile, Header)
    BY <1>1 DEF SessionNew, GuardInv
  <2>2. Messages(file') = << >>
    BY <2>1, HeaderFacts
  <2>3. Lines(file') = <<Header>>
    BY LineFacts, <2>1 DEF WriteWhole, HealIf, Continue, EmptyFile, Lines
  <2>4. Sound(Lines(file'))
    BY <2>3 DEF Sound
  <2>5. \A q \in open' : q = p /\ messages'[q] = << >>
    BY <1>1, <2>1 DEF SessionNew, Views
  <2>6. Len(<< >>) <= MaxMessages
    BY StoreAssumption
  <2>. QED  BY <2>2, <2>4, <2>5, <2>6 DEF InStep
<1>2. ASSUME NEW p \in Proc, SessionLoad(p)
      PROVE  InStep'
  <2>1. \A q \in open' : q = p
    BY <1>2 DEF SessionLoad, OneWriter, TypeOK
  <2>2. file' = file /\ messages'[p] = Messages(file) /\ Loadable(file)
    BY <1>2 DEF SessionLoad, Views
  <2>3. Len(Messages(file)) <= MaxMessages /\ Sound(Lines(file))
    BY <1>0, <2>2, WellFormedIsSound DEF Loadable
  <2>. QED  BY <2>1, <2>2, <2>3 DEF InStep
<1>3. ASSUME NEW p \in Proc, SessionAppend(p)
      PROVE  InStep'
  <2>. DEFINE m == Record("msg", next)
  <2>1. /\ p \in open /\ ~poisoned[p] /\ Len(messages[p]) < MaxMessages
        /\ MayAppend(p)
        /\ \A q \in open' : q = p
        /\ messages'[p] = Append(messages[p], m)
        /\ file' = WriteWhole(needs_heal[p], file, m)
    BY <1>3 DEF SessionAppend, MayAppend, Views, OneWriter, TypeOK
  <2>2. /\ m \in Message /\ m \in Line \ {Blank} /\ needs_heal[p] \in BOOLEAN
        /\ needs_heal[p] \/ file.tail = NoTail
    BY <2>1, AppendFacts
  <2>. HIDE DEF m
  <2>3. /\ messages[p] = Messages(file) /\ Sound(Lines(file))
    BY <2>1 DEF InStep
  <2>4. Messages(file') = Append(Messages(file), m)
    BY <1>0, <2>1, <2>2, WrittenMessages
  <2>5. PICK ls \in Healed(file) : Lines(file') = Append(ls, m)
    BY <1>0, <2>1, <2>2, WrittenLines
  <2>6. Sound(Lines(file'))
    BY <1>a, <2>2, <2>3, <2>5, MessageFacts
  <2>7. Len(Append(Messages(file), m)) <= MaxMessages
    BY <1>0, <2>1, <2>3, StoreAssumption
  <2>. QED  BY <2>1, <2>3, <2>4, <2>6, <2>7 DEF InStep
<1>4. ASSUME NEW p \in Proc, SessionAppendFails(p)
      PROVE  InStep'
  BY <1>4 DEF SessionAppendFails, MayAppend, InStep, OneWriter, TypeOK
<1>5. ASSUME NEW ps \in SUBSET Proc, Forget(ps), ps # {}
      PROVE  InStep'
  <2>1. open' = {}
    BY <1>5 DEF Forget, OneWriter, TypeOK
  <2>. QED  BY <2>1 DEF InStep
<1>6. ASSUME NEW p \in Proc, SessionFree(p)
      PROVE  InStep'
  BY <1>5, <1>6 DEF SessionFree
<1>7. CASE SessionNewDies
  BY <1>7 DEF SessionNewDies, GuardInv, InStep
<1>8. CASE OsCrash
  <2>1. open' = {}
    BY <1>8 DEF OsCrash, Forget, TypeOK
  <2>. QED  BY <2>1 DEF InStep
<1>9. CASE UNCHANGED vars
  BY <1>9 DEF vars, InStep
<1>. QED
  BY <1>1, <1>2, <1>3, <1>4, <1>6, <1>7, <1>8, <1>9 DEF Next

(* With one writer the file of a session that is not poisoned can be       *)
(* loaded again, but for one healed torn line in its middle, which         *)
(* load_scan refuses; and it is within the cap.                            *)
THEOREM NothingWorseThanHealed ==
  ASSUME OneWriter
  PROVE  Spec => []LoadableUnlessHealed
<1>1. TypeOK /\ GuardInv /\ [Next]_vars => GuardInv'
  BY GuardStep
<1>2. TypeOK /\ Views /\ [Next]_vars => Views'
  BY ViewsStep
<1>3. TypeOK /\ GuardInv /\ Views /\ InStep /\ [Next]_vars => InStep'
  BY InStepStep
<1>4. Init => InStep
  BY DEF Init, InStep
<1>5. TypeOK /\ InStep => LoadableUnlessHealed
  <2>. SUFFICES ASSUME TypeOK, InStep, NEW p \in open, ~poisoned[p]
                PROVE  /\ Len(Messages(file)) <= MaxMessages
                       /\ \/ WellFormed(Lines(file))
                          \/ \E i \in DOMAIN Lines(file) :
                                Lines(file)[i] = Junk /\ WellFormed(RemoveAt(Lines(file), i))
    BY DEF LoadableUnlessHealed
  <2>1. Lines(file) \in Seq(Line)
    BY MessagesType DEF TypeOK
  <2>2. /\ messages[p] = Messages(file) /\ Len(messages[p]) <= MaxMessages
        /\ Sound(Lines(file))
    BY DEF InStep
  <2>. QED  BY <2>1, <2>2, SoundIsNearlyWellFormed
<1>. QED
  BY <1>1, <1>2, <1>3, <1>4, <1>5, GuardInit, ViewsInit, TypeCorrect, PTL DEF Spec
---------------------------------------------------------------------------
(* Several writers on a disk that does not fail. *)

NoFailure == Faults \subseteq {"kill"}

(* The files a behaviour starts from hold no message: the ones it writes   *)
(* are told apart by their ids.                                            *)
Unwritten == \A f \in InitialFiles : Messages(f) = << >>

(* A torn tail was there when everybody opened the file. *)
TailHealed ==
  /\ file.tail # NoTail => \A p \in open : needs_heal[p]
  /\ created \/ (open = {} /\ file = EmptyFile)

LEMMA TailHealedStep ==
  NoFailure => (TypeOK /\ TailHealed /\ [Next]_vars => TailHealed')
<1>. SUFFICES ASSUME NoFailure, TypeOK, TailHealed, [Next]_vars
              PROVE  TailHealed'
  OBVIOUS
<1>. USE DEF TailHealed
<1>1. ASSUME NEW p \in Proc, SessionNew(p)
      PROVE  TailHealed'
  <2>1. file'.tail = NoTail
    BY <1>1, HeaderFacts, WriteWholeFacts DEF SessionNew
  <2>. QED  BY <1>1, <2>1 DEF SessionNew
<1>2. ASSUME NEW p \in Proc, SessionLoad(p)
      PROVE  TailHealed'
  BY <1>2 DEF SessionLoad, TypeOK
<1>3. ASSUME NEW p \in Proc, SessionAppend(p)
      PROVE  TailHealed'
  <2>1. next \in 1 .. MaxAppends /\ p \in open
    BY <1>3, StoreAssumption DEF SessionAppend, MayAppend, TypeOK
  <2>2. Record("msg", next) \in Line /\ needs_heal[p] \in BOOLEAN /\ file \in File
    BY <2>1, LineFacts DEF TypeOK
  <2>3. file'.tail = NoTail
    BY <1>3, <2>2, WriteWholeFacts DEF SessionAppend
  <2>. QED  BY <1>3, <2>1, <2>3 DEF SessionAppend
<1>4. ASSUME NEW p \in Proc, SessionAppendFails(p)
      PROVE  TailHealed'
  BY <1>4 DEF SessionAppendFails, NoFailure
<1>5. ASSUME NEW p \in Proc, SessionFree(p)
      PROVE  TailHealed'
  BY <1>5 DEF SessionFree, Forget, TypeOK
<1>6. CASE SessionNewDies
  BY <1>6 DEF SessionNewDies
<1>7. CASE OsCrash
  BY <1>7 DEF OsCrash, NoFailure
<1>8. CASE UNCHANGED vars
  BY <1>8 DEF vars
<1>. QED
  BY <1>1, <1>2, <1>3, <1>4, <1>5, <1>6, <1>7, <1>8 DEF Next

(* What an acknowledged append does to the file, for any number of writers.*)
LEMMA AppendLands ==
  ASSUME TypeOK, TailHealed, NEW p \in Proc, SessionAppend(p)
  PROVE  LET m == Record("msg", next) IN
         /\ p \in open /\ m \in Message /\ m \in Line \ {Blank, Junk}
         /\ Len(messages[p]) < MaxMessages
         /\ Messages(file') = Append(Messages(file), m)
         /\ \E ls \in Healed(file) : Lines(file') = Append(ls, m)
<1>. DEFINE m == Record("msg", next)
<1>1. p \in open /\ next \in 1 .. MaxAppends /\ Len(messages[p]) < MaxMessages
  BY StoreAssumption DEF SessionAppend, MayAppend, TypeOK
<1>2. m \in Message /\ m \in Line \ {Blank, Junk}
  BY <1>1, LineFacts, MessageFacts
<1>3. /\ needs_heal[p] \in BOOLEAN /\ file \in File
      /\ needs_heal[p] \/ file.tail = NoTail
  BY <1>1 DEF TypeOK, TailHealed
<1>4. file' = WriteWhole(needs_heal[p], file, m)
  BY DEF SessionAppend
<1>. HIDE DEF m
<1>5. Messages(file') = Append(Messages(file), m)
  BY <1>2, <1>3, <1>4, WrittenMessages
<1>6. \E ls \in Healed(file) : Lines(file') = Append(ls, m)
  BY <1>2, <1>3, <1>4, WrittenLines
<1>. QED  BY <1>1, <1>2, <1>5, <1>6 DEF m

---------------------------------------------------------------------------
(* Nothing a writer was told is written gets lost. *)

(* The next message is new, to the file and to every writer. *)
Numbered ==
  /\ \A x \in Range(Messages(file)) : x.id < next
  /\ \A p \in Proc : \A x \in Range(messages[p]) : x.id < next

LEMMA RangeFacts ==
  ASSUME NEW S, NEW s \in Seq(S), NEW x \in S
  PROVE  /\ Range(Append(s, x)) = Range(s) \cup {x}
         /\ Range(s) \subseteq S
         /\ \A i \in 1 .. Len(s) : s[i] \in Range(s)
<1>1. \A i \in 1 .. Len(s) : Append(s, x)[i] = s[i]
  OBVIOUS
<1>2. /\ Append(s, x)[Len(s) + 1] = x /\ DOMAIN Append(s, x) = 1 .. Len(s) + 1
      /\ Len(s) \in Nat /\ DOMAIN s = 1 .. Len(s)
  OBVIOUS
<1>3. \A i \in 1 .. Len(s) : s[i] \in S
  OBVIOUS
<1>. DEFINE t == Append(s, x)
<1>. HIDE DEF t
<1>4. Range(t) = Range(s) \cup {x}
  BY <1>1, <1>2 DEF Range, t
<1>. QED  BY <1>2, <1>3, <1>4 DEF Range, t

LEMMA NumberedStep ==
  NoFailure => (TypeOK /\ TailHealed /\ Views /\ Numbered /\ [Next]_vars => Numbered')
<1>. SUFFICES ASSUME NoFailure, TypeOK, TailHealed, Views, Numbered, [Next]_vars
              PROVE  Numbered'
  OBVIOUS
<1>0. Range(<< >>) = {} /\ Messages(file) \in Seq(Message)
  BY MessagesType DEF Range, TypeOK
<1>1. ASSUME NEW p \in Proc, SessionNew(p)
      PROVE  Numbered'
  <2>1. Messages(file') = << >> /\ messages' = messages /\ next' = next
    BY <1>1, HeaderFacts DEF SessionNew
  <2>. QED  BY <1>0, <2>1 DEF Numbered
<1>2. ASSUME NEW p \in Proc, SessionLoad(p)
      PROVE  Numbered'
  <2>1. /\ file' = file /\ next' = next
        /\ \A q \in Proc : messages'[q] = messages[q] \/ messages'[q] = Messages(file)
    BY <1>2 DEF SessionLoad, Views
  <2>. QED  BY <2>1 DEF Numbered
<1>3. ASSUME NEW p \in Proc, SessionAppend(p)
      PROVE  Numbered'
  <2>. DEFINE m == Record("msg", next)
  <2>1. m \in Message /\ Messages(file') = Append(Messages(file), m)
    BY <1>3, AppendLands
  <2>2. m.id = next /\ next' = next + 1 /\ next \in Nat
    BY <1>3 DEF SessionAppend, Record, TypeOK
  <2>3. \A q \in Proc : messages'[q] = messages[q] \/ messages'[q] = Append(messages[q], m)
    BY <1>3 DEF SessionAppend, Views
  <2>4. \A x \in Message : x.id \in Nat
    BY DEF Message, Record
  <2>. HIDE DEF m
  <2>5. \A x \in Message : x.id < next => x.id < next'
    BY <2>2, <2>4
  <2>6. m.id < next'
    BY <2>2
  <2>7. ASSUME NEW s \in Seq(Message), \A x \in Range(s) : x.id < next
        PROVE  /\ \A x \in Range(s) : x.id < next'
               /\ \A x \in Range(Append(s, m)) : x.id < next'
    BY <2>1, <2>5, <2>6, <2>7, RangeFacts
  <2>. QED  BY <1>0, <2>1, <2>3, <2>7 DEF Numbered, Views
<1>4. ASSUME NEW p \in Proc, SessionAppendFails(p)
      PROVE  Numbered'
  BY <1>4 DEF SessionAppendFails, NoFailure
<1>5. ASSUME NEW p \in Proc, SessionFree(p)
      PROVE  Numbered'
  <2>1. /\ file' = file /\ next' = next
        /\ \A q \in Proc : messages'[q] = messages[q] \/ messages'[q] = << >>
    BY <1>5 DEF SessionFree, Forget
  <2>. QED  BY <1>0, <2>1 DEF Numbered
<1>6. CASE SessionNewDies
  <2>1. Messages(file') = << >> /\ messages' = messages /\ next' = next
    BY <1>6, HeaderFacts DEF SessionNewDies
  <2>. QED  BY <1>0, <2>1 DEF Numbered
<1>7. CASE OsCrash
  BY <1>7 DEF OsCrash, NoFailure
<1>8. CASE UNCHANGED vars
  BY <1>8 DEF vars, Numbered
<1>. QED
  BY <1>1, <1>2, <1>3, <1>4, <1>5, <1>6, <1>7, <1>8 DEF Next

LEMMA DurableStep ==
  NoFailure => (TypeOK /\ TailHealed /\ Views /\ Numbered /\ EveryWriterDurable /\ [Next]_vars
                  => EveryWriterDurable')
<1>. SUFFICES ASSUME NoFailure, TypeOK, TailHealed, Views, Numbered, EveryWriterDurable,
                     [Next]_vars
              PROVE  EveryWriterDurable'
  OBVIOUS
<1>0. Messages(file) \in Seq(Message) /\ \A p \in Proc : messages[p] \in Seq(Message)
  BY MessagesType DEF TypeOK, Views
<1>1. ASSUME NEW p \in Proc, SessionNew(p)
      PROVE  EveryWriterDurable'
  <2>1. /\ Messages(file') = << >> /\ open = {} /\ open' = {p} /\ messages'[p] = << >>
    BY <1>1, HeaderFacts DEF SessionNew, TailHealed, Views
  <2>2. Keep(<< >>, Range(<< >>)) = << >>
    BY KeepEmpty
  <2>. QED  BY <2>1, <2>2 DEF EveryWriterDurable
<1>2. ASSUME NEW p \in Proc, SessionLoad(p)
      PROVE  EveryWriterDurable'
  <2>1. /\ file' = file /\ open' = open \cup {p} /\ messages'[p] = Messages(file)
        /\ \A q \in open : messages'[q] = messages[q]
    BY <1>2 DEF SessionLoad, Views, TypeOK
  <2>2. \A i \in 1 .. Len(Messages(file)) : Messages(file)[i] \in Range(Messages(file))
    BY <1>0 DEF Range
  <2>3. Keep(Messages(file), Range(Messages(file))) = Messages(file)
    BY <1>0, <2>2, KeepAll
  <2>. QED  BY <2>1, <2>3 DEF EveryWriterDurable
<1>3. ASSUME NEW p \in Proc, SessionAppend(p)
      PROVE  EveryWriterDurable'
  <2>. DEFINE m == Record("msg", next)
              M == Messages(file)
              v == messages[p]
  <2>1. p \in open /\ m \in Message /\ Messages(file') = Append(M, m)
    BY <1>3, AppendLands
  <2>2. /\ open' = open /\ messages'[p] = Append(v, m)
        /\ \A q \in open : q # p => messages'[q] = messages[q]
    BY <1>3 DEF SessionAppend, Views, TypeOK
  <2>3. /\ M \in Seq(Message) /\ v \in Seq(Message) /\ Keep(M, Range(v)) = v
        /\ \A i \in 1 .. Len(M) : M[i] \in Range(M)
    <3>1. Keep(M, Range(v)) = v
      BY <2>1 DEF EveryWriterDurable
    <3>2. M \in Seq(Message) /\ v \in Seq(Message)
      BY <1>0
    <3>. HIDE DEF M
    <3>3. \A i \in 1 .. Len(M) : M[i] \in Range(M)
      BY <3>2 DEF Range
    <3>. QED  BY <3>1, <3>2, <3>3
  <2>4. m \notin Range(M) /\ \A q \in Proc : m \notin Range(messages[q])
    BY DEF Numbered, Record, TypeOK
  <2>5. m \notin Range(v)
    BY <2>4
  <2>. HIDE DEF m, M, v
  <2>6. Keep(Append(M, m), Range(Append(v, m))) = Append(v, m)
    <3>1. Range(Append(v, m)) = Range(v) \cup {m}
      BY <2>1, <2>3, RangeFacts
    <3>2. \A i \in 1 .. Len(M) : M[i] \in Range(Append(v, m)) <=> M[i] \in Range(v)
      BY <2>3, <2>4, <3>1
    <3>3. Keep(M, Range(Append(v, m))) = Keep(M, Range(v))
      BY <2>3, <3>2, KeepSame
    <3>4. Keep(Append(M, m), Range(Append(v, m)))
            = IF m \in Range(Append(v, m)) THEN Append(Keep(M, Range(Append(v, m))), m)
                                           ELSE Keep(M, Range(Append(v, m)))
      BY <2>1, <2>3, KeepAppend
    <3>. QED  BY <2>3, <3>1, <3>3, <3>4
  <2>7. ASSUME NEW q \in open, q # p
        PROVE  Keep(Append(M, m), Range(messages[q])) = messages[q]
    <3>1. Keep(M, Range(messages[q])) = messages[q] /\ q \in Proc
      BY DEF EveryWriterDurable, TypeOK, M
    <3>2. Keep(Append(M, m), Range(messages[q]))
            = IF m \in Range(messages[q]) THEN Append(Keep(M, Range(messages[q])), m)
                                          ELSE Keep(M, Range(messages[q]))
      BY <2>1, <2>3, KeepAppend
    <3>. QED  BY <2>4, <3>1, <3>2
  <2>. QED  BY <2>1, <2>2, <2>6, <2>7 DEF EveryWriterDurable
<1>4. ASSUME NEW p \in Proc, SessionAppendFails(p)
      PROVE  EveryWriterDurable'
  BY <1>4 DEF SessionAppendFails, NoFailure
<1>5. ASSUME NEW p \in Proc, SessionFree(p)
      PROVE  EveryWriterDurable'
  <2>1. /\ file' = file /\ open' \subseteq open
        /\ \A q \in open' : messages'[q] = messages[q]
    BY <1>5 DEF SessionFree, Forget, TypeOK
  <2>. QED  BY <2>1 DEF EveryWriterDurable
<1>6. CASE SessionNewDies
  BY <1>6 DEF SessionNewDies, TailHealed, EveryWriterDurable
<1>7. CASE OsCrash
  BY <1>7 DEF OsCrash, NoFailure
<1>8. CASE UNCHANGED vars
  BY <1>8 DEF vars, EveryWriterDurable
<1>. QED
  BY <1>1, <1>2, <1>3, <1>4, <1>5, <1>6, <1>7, <1>8 DEF Next

(* Any number of processes may append to one file that no write fails on:  *)
(* every message session_append acknowledged is in it, once and in the     *)
(* order of its writer, among those of the others.                         *)
THEOREM AcknowledgedIsDurable ==
  ASSUME NoFailure, Unwritten
  PROVE  Spec => []EveryWriterDurable
<1>1. TypeOK /\ TailHealed /\ [Next]_vars => TailHealed'
  BY TailHealedStep
<1>2. TypeOK /\ Views /\ [Next]_vars => Views'
  BY ViewsStep
<1>3. TypeOK /\ TailHealed /\ Views /\ Numbered /\ [Next]_vars => Numbered'
  BY NumberedStep
<1>4. TypeOK /\ TailHealed /\ Views /\ Numbered /\ EveryWriterDurable /\ [Next]_vars
        => EveryWriterDurable'
  BY DurableStep
<1>5. Init => TailHealed /\ EveryWriterDurable
  BY DEF Init, TailHealed, EveryWriterDurable
<1>6. Init => Numbered
  <2>1. Init => Messages(file) = << >> /\ \A p \in Proc : messages[p] = << >>
    BY HeaderFacts DEF Init, Unwritten
  <2>2. Range(<< >>) = {}
    BY DEF Range
  <2>. QED  BY <2>1, <2>2 DEF Numbered
<1>. QED
  BY <1>1, <1>2, <1>3, <1>4, <1>5, <1>6, ViewsInit, TypeCorrect, PTL DEF Spec
---------------------------------------------------------------------------
(* With several writers the file stays well formed, and how far it may     *)
(* exceed the cap.                                                         *)

(* The files a behaviour starts from have no torn or glued line.           *)
NoJunk(ls) == \A i \in DOMAIN ls : ls[i] # Junk
Intact == \A f \in InitialFiles : NoJunk(Lines(f))

(* The only bad line is a header that session_new did not finish; nobody   *)
(* can load that file.                                                     *)
Unspoilt ==
  \/ /\ NoJunk(Lines(file))
     /\ open # {} => Lines(file) # << >> /\ Lines(file)[1] \in {Header, Blank}
  \/ open = {} /\ Lines(file) = <<Junk>>

(* What each process that has the file open may still append, counting the *)
(* messages in its memory only.                                            *)
FreeSlots(o, ms) == {s \in o \X (1 .. MaxMessages) : s[2] > Len(ms[s[1]])}

(* The messages in the file and those the writers may add are no more than *)
(* a cap for each process.                                                 *)
Room ==
  /\ \A p \in open : Len(messages[p]) <= MaxMessages
  /\ open # {} =>
       Len(Messages(file)) + Cardinality(FreeSlots(open, messages))
         <= Cardinality(Proc) * MaxMessages

LEMMA NoJunkAppend ==
  ASSUME NEW ls \in Seq(Line), NoJunk(ls), NEW x \in Line \ {Junk}
  PROVE  /\ NoJunk(Append(ls, x)) /\ Append(ls, x) \in Seq(Line) /\ Append(ls, x) # << >>
         /\ ls # << >> => Append(ls, x)[1] = ls[1]
<1>. DEFINE t == Append(ls, x)
<1>1. /\ DOMAIN t = 1 .. Len(ls) + 1 /\ Len(ls) \in Nat /\ DOMAIN ls = 1 .. Len(ls)
      /\ t[Len(ls) + 1] = x /\ t \in Seq(Line) /\ t # << >>
      /\ \A i \in 1 .. Len(ls) : t[i] = ls[i]
      /\ ls # << >> => Len(ls) # 0
  OBVIOUS
<1>. HIDE DEF t
<1>2. ASSUME NEW i \in DOMAIN t
      PROVE  t[i] # Junk
  <2>1. i \in 1 .. Len(ls) \/ i = Len(ls) + 1
    BY <1>1
  <2>. QED  BY <1>1, <2>1 DEF NoJunk
<1>3. ls # << >> => t[1] = ls[1]
  BY <1>1
<1>. QED  BY <1>1, <1>2, <1>3 DEF NoJunk, t

LEMMA UnspoiltStep ==
  NoFailure => (TypeOK /\ TailHealed /\ Unspoilt /\ [Next]_vars => Unspoilt')
<1>. SUFFICES ASSUME NoFailure, TypeOK, TailHealed, Unspoilt, [Next]_vars
              PROVE  Unspoilt'
  OBVIOUS
<1>0. file \in File /\ Lines(file) \in Seq(Line)
  BY MessagesType DEF TypeOK
<1>1. ASSUME NEW p \in Proc, SessionNew(p)
      PROVE  Unspoilt'
  <2>1. Lines(file') = <<Header>>
    BY LineFacts, <1>1 DEF SessionNew, WriteWhole, HealIf, Continue, EmptyFile, Lines
  <2>2. NoJunk(<<Header>>)
    BY LineFacts DEF NoJunk
  <2>. QED  BY <2>1, <2>2 DEF Unspoilt
<1>2. ASSUME NEW p \in Proc, SessionLoad(p)
      PROVE  Unspoilt'
  <2>1. /\ file' = file
        /\ Lines(file) # << >> /\ Lines(file)[1] \in {Header, Blank}
    BY <1>2 DEF SessionLoad, Loadable, WellFormed
  <2>2. Lines(file) # <<Junk>>
    BY <2>1, LineFacts
  <2>. QED  BY <2>1, <2>2 DEF Unspoilt
<1>3. ASSUME NEW p \in Proc, SessionAppend(p)
      PROVE  Unspoilt'
  <2>. DEFINE m == Record("msg", next)
  <2>1. p \in open /\ m \in Line \ {Blank, Junk} /\ open' = open
    BY <1>3, AppendLands DEF SessionAppend
  <2>2. PICK ls \in Healed(file) : Lines(file') = Append(ls, m)
    BY <1>3, AppendLands
  <2>. HIDE DEF m
  <2>3. NoJunk(Lines(file)) /\ Lines(file) # << >> /\ Lines(file)[1] \in {Header, Blank}
    BY <2>1 DEF Unspoilt
  <2>4. NoJunk(ls) /\ ls \in Seq(Line) /\ ls # << >> /\ ls[1] = Lines(file)[1]
    <3>1. ls = Lines(file) \/ ls = Append(Lines(file), Blank)
      BY DEF Healed
    <3>2. Blank \in Line \ {Junk}
      BY LineFacts
    <3>. QED  BY <1>0, <2>3, <3>1, <3>2, NoJunkAppend
  <2>5. /\ NoJunk(Append(ls, m)) /\ Append(ls, m) # << >> /\ Append(ls, m)[1] = ls[1]
    BY <2>1, <2>4, NoJunkAppend
  <2>. QED  BY <2>2, <2>3, <2>4, <2>5 DEF Unspoilt
<1>4. ASSUME NEW p \in Proc, SessionAppendFails(p)
      PROVE  Unspoilt'
  BY <1>4 DEF SessionAppendFails, NoFailure
<1>5. ASSUME NEW p \in Proc, SessionFree(p)
      PROVE  Unspoilt'
  <2>1. file' = file /\ open' \subseteq open
    BY <1>5 DEF SessionFree, Forget
  <2>. QED  BY <2>1 DEF Unspoilt
<1>6. CASE SessionNewDies
  <2>1. open' = {} /\ file' \in WritePart(FALSE, EmptyFile, Header)
    BY <1>6 DEF SessionNewDies, TailHealed
  <2>2. \/ file' = EmptyFile
        \/ \E y \in {Junk, Header} : file' = [lines |-> << >>, tail |-> y]
    BY <2>1 DEF WritePart, HealIf, Continue, EmptyFile
  <2>3. CASE file' = EmptyFile
    <3>1. Lines(file') = << >> /\ NoJunk(<< >>)
      BY <2>3, HeaderFacts DEF NoJunk
    <3>. QED  BY <2>1, <3>1 DEF Unspoilt
  <2>4. ASSUME NEW y \in {Junk, Header}, file' = [lines |-> << >>, tail |-> y]
        PROVE  Unspoilt'
    <3>1. Lines(file') = <<y>>
      BY <2>4, LineFacts DEF Lines
    <3>2. NoJunk(<<Header>>)
      BY LineFacts DEF NoJunk
    <3>. QED  BY <2>1, <3>1, <3>2 DEF Unspoilt
  <2>. QED  BY <2>2, <2>3, <2>4
<1>7. CASE OsCrash
  BY <1>7 DEF OsCrash, NoFailure
<1>8. CASE UNCHANGED vars
  BY <1>8 DEF vars, Unspoilt
<1>. QED
  BY <1>1, <1>2, <1>3, <1>4, <1>5, <1>6, <1>7, <1>8 DEF Next

(* The free slots of some of the processes. *)
LEMMA SlotFacts ==
  ASSUME IsFiniteSet(Proc), NEW o \in SUBSET Proc, NEW ms
  PROVE  /\ IsFiniteSet(FreeSlots(o, ms))
         /\ Cardinality(FreeSlots(o, ms)) \in Nat
         /\ Cardinality(FreeSlots(o, ms)) <= Cardinality(o) * MaxMessages
<1>1. IsFiniteSet(o)
  BY FS_Subset
<1>2. IsFiniteSet(1 .. MaxMessages) /\ Cardinality(1 .. MaxMessages) = MaxMessages
  <2>1. MaxMessages \in Int /\ 1 \in Int /\ ~(1 > MaxMessages)
    BY StoreAssumption
  <2>2. IsFiniteSet(1 .. MaxMessages)
        /\ Cardinality(1 .. MaxMessages) = IF 1 > MaxMessages THEN 0 ELSE MaxMessages - 1 + 1
    BY <2>1, FS_Interval
  <2>. QED  BY <2>1, <2>2
<1>3. /\ IsFiniteSet(o \X (1 .. MaxMessages))
      /\ Cardinality(o \X (1 .. MaxMessages)) = Cardinality(o) * Cardinality(1 .. MaxMessages)
  BY <1>1, <1>2, FS_Product
<1>4. FreeSlots(o, ms) \in SUBSET (o \X (1 .. MaxMessages))
  BY DEF FreeSlots
<1>5. /\ IsFiniteSet(FreeSlots(o, ms))
      /\ Cardinality(FreeSlots(o, ms)) <= Cardinality(o \X (1 .. MaxMessages))
  BY <1>3, <1>4, FS_Subset
<1>6. Cardinality(FreeSlots(o, ms)) \in Nat
  BY <1>5, FS_CardinalityType
<1>. QED  BY <1>2, <1>3, <1>5, <1>6

(* A process that has just loaded n messages has a cap less n slots. *)
LEMMA LoadedSlots ==
  ASSUME IsFiniteSet(Proc), NEW p \in Proc, NEW ms, NEW n \in 0 .. MaxMessages, Len(ms[p]) = n
  PROVE  /\ IsFiniteSet(FreeSlots({p}, ms))
         /\ Cardinality(FreeSlots({p}, ms)) = MaxMessages - n
<1>1. FreeSlots({p}, ms) = {p} \X (n + 1 .. MaxMessages)
  BY StoreAssumption DEF FreeSlots
<1>2. IsFiniteSet({p}) /\ Cardinality({p}) = 1
  BY FS_Singleton
<1>3. IsFiniteSet(n + 1 .. MaxMessages) /\ Cardinality(n + 1 .. MaxMessages) = MaxMessages - n
  <2>1. MaxMessages \in Int /\ n + 1 \in Int
    BY StoreAssumption
  <2>2. IsFiniteSet(n + 1 .. MaxMessages)
        /\ Cardinality(n + 1 .. MaxMessages)
             = IF n + 1 > MaxMessages THEN 0 ELSE MaxMessages - (n + 1) + 1
    BY <2>1, FS_Interval
  <2>. QED  BY <2>1, <2>2
<1>4. /\ IsFiniteSet({p} \X (n + 1 .. MaxMessages))
      /\ Cardinality({p} \X (n + 1 .. MaxMessages))
           = Cardinality({p}) * Cardinality(n + 1 .. MaxMessages)
  BY <1>2, <1>3, FS_Product
<1>5. MaxMessages - n \in Nat /\ 1 * (MaxMessages - n) = MaxMessages - n
  BY StoreAssumption
<1>. QED  BY <1>1, <1>2, <1>3, <1>4, <1>5

LEMMA RoomStep ==
  NoFailure /\ IsFiniteSet(Proc)
    => (TypeOK /\ TailHealed /\ Views /\ Room /\ [Next]_vars => Room')
<1>. SUFFICES ASSUME NoFailure, IsFiniteSet(Proc), TypeOK, TailHealed, Views, Room, [Next]_vars
              PROVE  Room'
  OBVIOUS
<1>. DEFINE P == Cardinality(Proc)
            B == P * MaxMessages
            N == Len(Messages(file))
            slots == FreeSlots(open, messages)
<1>0. /\ P \in Nat /\ MaxMessages \in Nat \ {0} /\ open \in SUBSET Proc
      /\ Messages(file) \in Seq(Message)
  BY FS_CardinalityType, StoreAssumption, MessagesType DEF TypeOK
<1>a. B \in Nat /\ N \in Nat
  BY <1>0
<1>b. IsFiniteSet(slots) /\ Cardinality(slots) \in Nat
  BY <1>0, SlotFacts
<1>c. ASSUME NEW o \in SUBSET Proc, NEW ms
      PROVE  Cardinality(FreeSlots(o, ms)) \in Nat /\ Cardinality(FreeSlots(o, ms)) <= B
  <2>1. IsFiniteSet(o) /\ Cardinality(o) <= P /\ Cardinality(o) \in Nat
    BY FS_Subset, FS_CardinalityType
  <2>2. /\ Cardinality(FreeSlots(o, ms)) \in Nat
        /\ Cardinality(FreeSlots(o, ms)) <= Cardinality(o) * MaxMessages
    BY SlotFacts
  <2>. DEFINE c == Cardinality(o)
              d == Cardinality(FreeSlots(o, ms))
  <2>. HIDE DEF c, d, P
  <2>3. c \in Nat /\ P \in Nat /\ c <= P /\ d \in Nat /\ d <= c * MaxMessages
    BY <1>0, <2>1, <2>2 DEF c, d
  <2>4. c * MaxMessages <= P * MaxMessages
    BY <1>0, <2>3
  <2>5. c * MaxMessages \in Nat /\ P * MaxMessages \in Nat
    BY <1>0, <2>3
  <2>. QED  BY <2>3, <2>4, <2>5 DEF d
<1>1. ASSUME NEW p \in Proc, SessionNew(p)
      PROVE  Room'
  <2>1. Messages(file') = << >> /\ open' = {p} /\ messages'[p] = << >>
    BY <1>1, HeaderFacts DEF SessionNew, TailHealed, Views
  <2>2. Len(Messages(file')) = 0 /\ Len(messages'[p]) = 0
    BY <2>1
  <2>3. Cardinality(FreeSlots(open', messages')) \in Nat
        /\ Cardinality(FreeSlots(open', messages')) <= B
    BY <1>c, <2>1
  <2>. QED  BY <1>0, <2>1, <2>2, <2>3 DEF Room
<1>2. ASSUME NEW p \in Proc, SessionLoad(p)
      PROVE  Room'
  <2>. DEFINE others == FreeSlots(open, messages)
              mine == FreeSlots({p}, messages')
  <2>1. /\ file' = file /\ open' = open \cup {p} /\ p \notin open
        /\ messages'[p] = Messages(file) /\ Len(Messages(file)) <= MaxMessages
        /\ \A q \in open : messages'[q] = messages[q]
    BY <1>2 DEF SessionLoad, Loadable, Views, TypeOK
  <2>2. /\ IsFiniteSet(mine) /\ Cardinality(mine) = MaxMessages - N
    <3>1. N \in 0 .. MaxMessages /\ Len(messages'[p]) = N
      BY <1>a, <2>1
    <3>. HIDE DEF N
    <3>. QED  BY <3>1, LoadedSlots
  <2>3. IsFiniteSet(others) /\ Cardinality(others) \in Nat
        /\ Cardinality(others) <= (P - 1) * MaxMessages
    <3>1. open \in SUBSET (Proc \ {p})
      BY <1>0, <2>1
    <3>2. IsFiniteSet(Proc \ {p}) /\ Cardinality(Proc \ {p}) = P - 1
      BY FS_RemoveElement
    <3>3. IsFiniteSet(open) /\ Cardinality(open) <= P - 1 /\ Cardinality(open) \in Nat
      BY <3>1, <3>2, FS_Subset, FS_CardinalityType
    <3>4. Cardinality(others) <= Cardinality(open) * MaxMessages
      BY <1>0, SlotFacts
    <3>. DEFINE c == Cardinality(open)
                d == Cardinality(others)
    <3>. HIDE DEF c, d, P
    <3>5. c \in Nat /\ P \in Nat /\ c <= P - 1 /\ d \in Nat /\ d <= c * MaxMessages
      BY <1>0, <1>b, <3>3, <3>4 DEF c, d
    <3>6. c * MaxMessages <= (P - 1) * MaxMessages
      BY <1>0, <3>5
    <3>7. c * MaxMessages \in Nat /\ (P - 1) * MaxMessages \in Nat
      BY <1>0, <3>5
    <3>. QED  BY <1>b, <3>5, <3>6, <3>7 DEF d
  <2>4. FreeSlots(open', messages') = others \cup mine /\ others \cap mine = {}
    BY <2>1 DEF FreeSlots
  <2>5. Cardinality(others \cup mine) = Cardinality(others) + Cardinality(mine)
    <3>1. Cardinality(others \cup mine)
            = Cardinality(others) + Cardinality(mine) - Cardinality(others \cap mine)
      BY <2>2, <2>3, FS_Union
    <3>2. Cardinality({}) = 0
      BY FS_EmptySet
    <3>. DEFINE a == Cardinality(others)
                b == Cardinality(mine)
    <3>3. /\ Cardinality(others \cup mine) = a + b - 0
          /\ a \in Nat /\ b = MaxMessages - N
      BY <2>2, <2>3, <2>4, <3>1, <3>2
    <3>. HIDE DEF a, b, N
    <3>4. a + b - 0 = a + b
      BY <1>0, <1>a, <3>3
    <3>. QED  BY <3>3, <3>4 DEF a, b
  <2>. DEFINE d == Cardinality(others)
              e == Cardinality(FreeSlots(open', messages'))
  <2>6. d \in Nat /\ d <= (P - 1) * MaxMessages /\ e = d + (MaxMessages - N)
    BY <2>2, <2>3, <2>4, <2>5
  <2>. HIDE DEF d, e, P, N
  <2>7. (P - 1) * MaxMessages = P * MaxMessages - MaxMessages
    BY <1>0
  <2>8. P * MaxMessages \in Nat /\ P \in Nat
    BY <1>0
  <2>9. N + e <= P * MaxMessages
    BY <1>0, <1>a, <2>6, <2>7, <2>8
  <2>10. Len(Messages(file')) = N
    BY <2>1 DEF N
  <2>11. \A q \in open' : Len(messages'[q]) <= MaxMessages
    BY <2>1 DEF Room
  <2>. QED  BY <2>9, <2>10, <2>11 DEF Room, P, e
<1>3. ASSUME NEW p \in Proc, SessionAppend(p)
      PROVE  Room'
  <2>. DEFINE m == Record("msg", next)
              k == Len(messages[p])
  <2>1. p \in open /\ m \in Message /\ Messages(file') = Append(Messages(file), m) /\ k < MaxMessages
    BY <1>3, AppendLands
  <2>2. /\ open' = open /\ messages'[p] = Append(messages[p], m)
        /\ messages[p] \in Seq(Message)
        /\ \A q \in open : q # p => messages'[q] = messages[q]
    BY <1>3 DEF SessionAppend, Views, TypeOK
  <2>. HIDE DEF m
  <2>3. Len(messages'[p]) = k + 1 /\ k \in Nat /\ Len(Messages(file')) = N + 1
    BY <1>0, <2>1, <2>2
  <2>4. FreeSlots(open', messages') = slots \ {<<p, k + 1>>} /\ <<p, k + 1>> \in slots
    <3>. HIDE DEF k
    <3>1. \A q \in open : Len(messages'[q]) = IF q = p THEN k + 1 ELSE Len(messages[q])
      BY <2>2, <2>3
    <3>2. Len(messages[p]) = k
      BY DEF k
    <3>3. <<p, k + 1>> \in slots
      BY <1>0, <2>1, <2>3, <3>2 DEF FreeSlots
    <3>4. ASSUME NEW q \in open, NEW j \in 1 .. MaxMessages
          PROVE  <<q, j>> \in FreeSlots(open, messages')
                   <=> <<q, j>> \in slots /\ <<q, j>> # <<p, k + 1>>
      BY <2>3, <3>1, <3>2 DEF FreeSlots
    <3>5. \A s \in FreeSlots(open, messages') \cup slots :
            \E q \in open, j \in 1 .. MaxMessages : s = <<q, j>>
      BY DEF FreeSlots
    <3>. QED  BY <2>2, <3>3, <3>4, <3>5
  <2>5. Cardinality(FreeSlots(open', messages')) = Cardinality(slots) - 1
    <3>. DEFINE s == <<p, k + 1>>
    <3>1. FreeSlots(open', messages') = slots \ {s} /\ s \in slots /\ IsFiniteSet(slots)
      BY <1>b, <2>4
    <3>. HIDE DEF s, slots
    <3>2. Cardinality(slots \ {s}) = IF s \in slots THEN Cardinality(slots) - 1
                                                   ELSE Cardinality(slots)
      BY <3>1, FS_RemoveElement
    <3>. QED  BY <3>1, <3>2
  <2>6. N + Cardinality(slots) <= B
    BY <2>1 DEF Room
  <2>7. \A q \in open' : Len(messages'[q]) <= MaxMessages
    <3>. HIDE DEF k
    <3>. QED  BY <1>0, <2>1, <2>2, <2>3 DEF Room
  <2>. DEFINE d == Cardinality(slots)
              e == Cardinality(FreeSlots(open', messages'))
  <2>8. d \in Nat /\ e = d - 1 /\ N + d <= B
    BY <1>b, <2>5, <2>6
  <2>. HIDE DEF d, e, B, N
  <2>9. (N + 1) + e <= B
    BY <1>a, <2>8
  <2>. QED  BY <2>3, <2>7, <2>9 DEF Room, e, B
<1>4. ASSUME NEW p \in Proc, SessionAppendFails(p)
      PROVE  Room'
  BY <1>4 DEF SessionAppendFails, NoFailure
<1>5. ASSUME NEW p \in Proc, SessionFree(p)
      PROVE  Room'
  <2>1. /\ file' = file /\ open' = open \ {p} /\ p \in open
        /\ \A q \in open' : messages'[q] = messages[q]
    BY <1>5 DEF SessionFree, Forget, TypeOK
  <2>2. FreeSlots(open', messages') \in SUBSET slots
    BY <2>1 DEF FreeSlots
  <2>3. Cardinality(FreeSlots(open', messages')) <= Cardinality(slots)
    BY <1>b, <2>2, FS_Subset
  <2>4. Cardinality(FreeSlots(open', messages')) \in Nat
    BY <1>c, <1>0, <2>1
  <2>5. N + Cardinality(slots) <= B /\ Len(Messages(file')) = N
    BY <2>1 DEF Room
  <2>. DEFINE d == Cardinality(slots)
              e == Cardinality(FreeSlots(open', messages'))
  <2>6. d \in Nat /\ e \in Nat /\ e <= d /\ N + d <= B
    BY <1>b, <2>3, <2>4, <2>5
  <2>. HIDE DEF d, e, B, N
  <2>7. N + e <= B
    BY <1>a, <2>6
  <2>8. \A q \in open' : Len(messages'[q]) <= MaxMessages
    BY <2>1 DEF Room
  <2>. QED  BY <2>5, <2>7, <2>8 DEF Room, e, B
<1>6. CASE SessionNewDies
  BY <1>6 DEF SessionNewDies, TailHealed, Room
<1>7. CASE OsCrash
  BY <1>7 DEF OsCrash, NoFailure
<1>8. CASE UNCHANGED vars
  BY <1>8 DEF vars, Room
<1>. QED
  BY <1>1, <1>2, <1>3, <1>4, <1>5, <1>6, <1>7, <1>8 DEF Next

(* Any number of processes may append to one file that no write fails on:  *)
(* it stays well formed, and holds at most a cap of messages for each      *)
(* process, because each counts the messages in its own memory only.       *)
THEOREM SharedFileStaysLoadable ==
  ASSUME NoFailure, Intact, IsFiniteSet(Proc)
  PROVE  Spec => []OpenFileLoadable
<1>1. TypeOK /\ TailHealed /\ [Next]_vars => TailHealed'
  BY TailHealedStep
<1>2. TypeOK /\ Views /\ [Next]_vars => Views'
  BY ViewsStep
<1>3. TypeOK /\ TailHealed /\ Unspoilt /\ [Next]_vars => Unspoilt'
  BY UnspoiltStep
<1>4. TypeOK /\ TailHealed /\ Views /\ Room /\ [Next]_vars => Room'
  BY RoomStep
<1>5. Init => TailHealed /\ Room
  BY DEF Init, TailHealed, Room
<1>6. Init => Unspoilt
  <2>1. Init => open = {} /\ NoJunk(Lines(file))
    BY HeaderFacts DEF Init, Intact, NoJunk
  <2>. QED  BY <2>1 DEF Unspoilt
<1>7. TypeOK /\ Views /\ Unspoilt /\ Room => OpenFileLoadable
  <2>. SUFFICES ASSUME TypeOK, Views, Unspoilt, Room, NEW p \in open
                PROVE  /\ WellFormed(Lines(file))
                       /\ Len(Messages(file)) <= Cardinality(Proc) * MaxMessages
    BY DEF OpenFileLoadable
  <2>1. WellFormed(Lines(file))
    BY DEF Unspoilt, NoJunk, WellFormed
  <2>. DEFINE d == Cardinality(FreeSlots(open, messages))
              n == Len(Messages(file))
              b == Cardinality(Proc) * MaxMessages
  <2>2. d \in Nat
    BY SlotFacts DEF TypeOK
  <2>3. n \in Nat
    BY MessagesType DEF TypeOK
  <2>4. n + d <= b
    BY DEF Room
  <2>5. b \in Nat
    BY FS_CardinalityType, StoreAssumption
  <2>. HIDE DEF b, n, d
  <2>6. n <= b
    BY <2>2, <2>3, <2>4, <2>5
  <2>. QED  BY <2>1, <2>6 DEF n, b
<1>. QED
  BY <1>1, <1>2, <1>3, <1>4, <1>5, <1>6, <1>7, ViewsInit, TypeCorrect, PTL DEF Spec

=============================================================================
