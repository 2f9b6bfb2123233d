----------------------------- MODULE SseParser -----------------------------
(***************************************************************************)
(* sse.c: the incremental decoder of a streamed response.  The transport   *)
(* cuts the body into chunks anywhere, also inside the BOM, a CR LF pair   *)
(* or a field name's line; what is decoded must not depend on the cuts.    *)
(*                                                                         *)
(* A byte is a member of Byte: the field names "data", "event" and "id"    *)
(* are one symbol each, "x" stands for every other byte.  Positions in the *)
(* body are absolute: a feed is the bytes after `cursor` up to `end`, and  *)
(* one iteration of its loop is one step.                                  *)
(***************************************************************************)
EXTENDS Naturals, Sequences, FiniteSets

CONSTANTS
  Bodies,    \* bound: the response bodies
  AbortAt,   \* bound: which event the callback refuses (0: none)
  MaxLine, MaxData, MaxType, MaxId   \* SseLimits

Byte == {"ef", "bb", "bf", "CR", "LF", ":", " ", "data", "event", "id", "NUL", "x"}

ASSUME SseAssumption ==
  /\ Bodies \subseteq Seq(Byte) /\ AbortAt \subseteq Nat
  /\ MaxLine \in Nat \ {0} /\ MaxData \in Nat \ {0}
  /\ MaxType \in Nat \ {0} /\ MaxId \in Nat \ {0}

bom_bytes == <<"ef", "bb", "bf">>

VARIABLES
  body, abort_at,  \* the environment's choices
  cursor, end,     \* bytes consumed, bytes handed over
  state,           \* "bom", "line", "failed" or "aborted"
  bom_matched, pending_lf_skip, carry,
  data, event_type, id,
  events           \* the events the callback was given

lineVars == <<bom_matched, pending_lf_skip, carry>>
fields   == <<data, event_type, id>>
vars == <<body, abort_at, cursor, end, state, lineVars, fields, events>>

Init ==
  /\ body \in Bodies /\ abort_at \in AbortAt
  /\ cursor = 0 /\ end = 0
  /\ state = "bom" /\ bom_matched = 0 /\ pending_lf_skip = FALSE /\ carry = <<>>
  /\ data = <<>> /\ event_type = <<>> /\ id = <<>> /\ events = <<>>

Dead == state \in {"failed", "aborted"}
Idle == cursor = end

---------------------------------------------------------------------------
(* The fields of a line. *)

Has(s, b) == \E i \in DOMAIN s : s[i] = b

(* The position of the first b in s. *)
First(s, b) == CHOOSE i \in DOMAIN s : s[i] = b /\ \A j \in 1 .. i - 1 : s[j] # b

(* process_line's split at the colon; one leading space goes. *)
Name(line) == IF Has(line, ":") THEN SubSeq(line, 1, First(line, ":") - 1) ELSE line

Value(line) ==
  LET v == IF Has(line, ":") THEN SubSeq(line, First(line, ":") + 1, Len(line)) ELSE <<>>
  IN  IF v # <<>> /\ Head(v) = " " THEN Tail(v) ELSE v

---------------------------------------------------------------------------
(* sse_parser_feed. *)

(* The parser dies; the rest of the chunk is not looked at, and what the   *)
(* buffers hold is not looked at before the reset clears them.             *)
Die(how) ==
  /\ state' = how
  /\ cursor' = end
  /\ UNCHANGED <<lineVars, fields>>

(* Mutant: a line feed that opens the next chunk is a line of its own. *)
FeedKeepsLf(n) ==
  /\ Idle
  /\ end' = end + n
  /\ cursor' = IF Dead THEN end + n ELSE end
  /\ pending_lf_skip' = FALSE
  /\ UNCHANGED <<body, abort_at, state, bom_matched, carry, fields, events>>

(* The next n bytes of the body arrive.  A dead parser refuses them; a     *)
(* line feed owed to the last chunk's carriage return is skipped.          *)
Feed(n) ==
  /\ Idle
  /\ end' = end + n
  /\ IF Dead THEN cursor' = end + n /\ UNCHANGED pending_lf_skip
     ELSE /\ pending_lf_skip' = FALSE
          /\ cursor' = IF pending_lf_skip /\ body[end + 1] = "LF" THEN end + 1 ELSE end
  /\ UNCHANGED <<body, abort_at, state, bom_matched, carry, fields, events>>

(* bom_step: a byte of the BOM, or the matched prefix becomes content. *)
BomStep ==
  /\ ~Idle /\ state = "bom"
  /\ \/ /\ body[cursor + 1] = bom_bytes[bom_matched + 1]
        /\ bom_matched' = bom_matched + 1
        /\ cursor' = cursor + 1
        /\ state' = IF bom_matched + 1 = 3 THEN "line" ELSE "bom"
        /\ UNCHANGED <<pending_lf_skip, carry, fields>>
     \/ /\ body[cursor + 1] # bom_bytes[bom_matched + 1]
        /\ IF bom_matched > MaxLine THEN Die("failed")
           ELSE /\ carry' = SubSeq(bom_bytes, 1, bom_matched)
                /\ bom_matched' = 0
                /\ state' = "line"
                /\ UNCHANGED <<cursor, pending_lf_skip, fields>>
  /\ UNCHANGED <<body, abort_at, end, events>>

IsTerminator(i) == body[i] \in {"CR", "LF"}

(* find_terminator in the rest of the chunk. *)
Terminators == {i \in cursor + 1 .. end : IsTerminator(i)}
NextTerminator == CHOOSE i \in Terminators : \A j \in Terminators : i <= j

(* Mutant: the chunk's end is not checked before the byte after the CR. *)
PastLinePastChunk(t) ==
  /\ carry' = <<>>
  /\ cursor' = IF body[t] = "CR" /\ t < Len(body) /\ body[t + 1] = "LF" THEN t + 1 ELSE t
  /\ UNCHANGED <<state, bom_matched, pending_lf_skip>>

(* Behind the line's terminator at t: carry is empty, a CR LF is one       *)
(* terminator and its line feed may be still to come.                      *)
PastLine(t) ==
  /\ carry' = <<>>
  /\ cursor' = IF body[t] = "CR" /\ t < end /\ body[t + 1] = "LF" THEN t + 1 ELSE t
  /\ pending_lf_skip' = (body[t] = "CR" /\ t = end)
  /\ UNCHANGED <<state, bom_matched>>

(* dispatch_event with a callback that may refuse. *)
DispatchEvent(t) ==
  IF data = <<>> THEN event_type' = <<>> /\ UNCHANGED <<data, id, events>> /\ PastLine(t)
  ELSE /\ events' = Append(events,
             [type |-> IF event_type = <<>> THEN <<"message">> ELSE event_type,
              data |-> SubSeq(data, 1, Len(data) - 1), id |-> id])
       /\ IF Len(events) + 1 = abort_at THEN Die("aborted")
          ELSE data' = <<>> /\ event_type' = <<>> /\ UNCHANGED id /\ PastLine(t)

(* process_field. *)
ProcessField(name, value, t) ==
  /\ UNCHANGED events
  /\ CASE name = <<"data">> ->
            IF Len(data) + Len(value) + 1 > MaxData THEN Die("failed")
            ELSE data' = data \o value \o <<"LF">> /\ UNCHANGED <<event_type, id>> /\ PastLine(t)
       [] name = <<"event">> ->
            IF Len(value) > MaxType THEN Die("failed")
            ELSE event_type' = value /\ UNCHANGED <<data, id>> /\ PastLine(t)
       [] name = <<"id">> /\ ~Has(value, "NUL") ->
            IF Len(value) > MaxId THEN Die("failed")
            ELSE id' = value /\ UNCHANGED <<data, event_type>> /\ PastLine(t)
       [] OTHER -> UNCHANGED fields /\ PastLine(t)

(* process_line. *)
ProcessLine(line, t) ==
  \/ line = <<>> /\ DispatchEvent(t)
  \/ line # <<>> /\ Head(line) = ":" /\ UNCHANGED <<fields, events>> /\ PastLine(t)
  \/ line # <<>> /\ Head(line) # ":" /\ ProcessField(Name(line), Value(line), t)

Rest(t) == carry \o SubSeq(body, cursor + 1, t)

(* scan_line: a whole line, with what was carried over, or a tail to carry. *)
ScanLine ==
  /\ ~Idle /\ state = "line"
  /\ \/ /\ Terminators = {}
        /\ UNCHANGED events
        /\ IF Len(Rest(end)) > MaxLine THEN Die("failed")
           ELSE /\ carry' = Rest(end) /\ cursor' = end
                /\ UNCHANGED <<state, bom_matched, pending_lf_skip, fields>>
     \/ /\ Terminators # {}
        /\ LET t == NextTerminator
           IN  IF Len(Rest(t - 1)) > MaxLine THEN Die("failed") /\ UNCHANGED events
               ELSE ProcessLine(Rest(t - 1), t)
  /\ UNCHANGED <<body, abort_at, end>>

(* Mutant: an event that was not dispatched is no reason. *)
SseParserFinishIgnoresData ==
  IF Dead \/ carry # <<>> \/ bom_matched > 0 THEN "truncated" ELSE "clean"

(* sse_parser_finish. *)
SseParserFinish ==
  IF Dead \/ carry # <<>> \/ data # <<>> \/ bom_matched > 0 THEN "truncated" ELSE "clean"

(* sse_parser_reset: a retry decodes the answer from its start. *)
Reset ==
  /\ Idle
  /\ cursor' = 0 /\ end' = 0
  /\ state' = "bom" /\ bom_matched' = 0 /\ pending_lf_skip' = FALSE /\ carry' = <<>>
  /\ data' = <<>> /\ event_type' = <<>> /\ id' = <<>> /\ events' = <<>>
  /\ UNCHANGED <<body, abort_at>>

Next ==
  \/ \E n \in 1 .. Len(body) - end : Feed(n)
  \/ BomStep
  \/ ScanLine
  \/ Reset

Spec == Init /\ [][Next]_vars

---------------------------------------------------------------------------
(* What the bytes handed over so far mean, in one piece. *)

Given == SubSeq(body, 1, end)

HasBom == Len(Given) >= 3 /\ SubSeq(Given, 1, 3) = bom_bytes
MaybeBom == Len(Given) < 3 /\ Given = SubSeq(bom_bytes, 1, Len(Given))

(* The positions that end a line: the line feed of a CR LF does not. *)
Ends == {i \in 1 .. end : IsTerminator(i) /\ ~(body[i] = "LF" /\ i > 1 /\ body[i - 1] = "CR")}

EndOf(k) == CHOOSE e \in Ends : Cardinality({i \in Ends : i <= e}) = k

(* Where line k starts. *)
StartOf(k) ==
  IF k = 1 THEN IF HasBom THEN 4 ELSE 1
  ELSE LET e == EndOf(k - 1)
       IN  IF body[e] = "CR" /\ e < end /\ body[e + 1] = "LF" THEN e + 2 ELSE e + 1

NumLines == Cardinality(Ends)
Line(k) == SubSeq(body, StartOf(k), EndOf(k) - 1)
Lines == [k \in 1 .. NumLines |-> Line(k)]
LastLine == IF MaybeBom THEN <<>> ELSE SubSeq(body, StartOf(NumLines + 1), end)

IsField(line, name) == line # <<>> /\ Name(line) = name

(* The blank line before line k, 0 if there is none. *)
BlockStart(ls, k) ==
  LET blanks == {j \in 1 .. k - 1 : ls[j] = <<>>} \cup {0}
  IN  CHOOSE j \in blanks : \A i \in blanks : i <= j

(* The values of the data lines i .. k, each followed by a line feed. *)
DataOf(ls, i, k) ==
  LET f[j \in i - 1 .. k] ==
        IF j = i - 1 THEN <<>>
        ELSE f[j - 1] \o IF IsField(ls[j], <<"data">>) THEN Value(ls[j]) \o <<"LF">> ELSE <<>>
  IN  f[k]

(* The value of the last line of i .. k in S, or none. *)
LastOf(ls, S, none) == IF S = {} THEN none
                       ELSE Value(ls[CHOOSE j \in S : \A l \in S : l <= j])

Pending(ls, k) == DataOf(ls, BlockStart(ls, k) + 1, k)

(* The event that the blank line k dispatches. *)
EventAt(ls, k) ==
  LET block == BlockStart(ls, k) + 1 .. k - 1
      type  == LastOf(ls, {j \in block : IsField(ls[j], <<"event">>)}, <<>>)
      d     == Pending(ls, k)
  IN  [type |-> IF type = <<>> THEN <<"message">> ELSE type,
       data |-> SubSeq(d, 1, Len(d) - 1),
       id   |-> LastOf(ls, {j \in 1 .. k - 1 : IsField(ls[j], <<"id">>) /\
                                               ~Has(Value(ls[j]), "NUL")}, <<>>)]

Dispatches(ls, k) == ls[k] = <<>> /\ Pending(ls, k) # <<>>

(* A line no parser with these limits accepts. *)
TooMuch(ls, k) ==
  \/ Len(ls[k]) > MaxLine
  \/ IsField(ls[k], <<"data">>) /\ Len(Pending(ls, k)) > MaxData
  \/ IsField(ls[k], <<"event">>) /\ Len(Value(ls[k])) > MaxType
  \/ IsField(ls[k], <<"id">>) /\ ~Has(Value(ls[k]), "NUL") /\ Len(Value(ls[k])) > MaxId

(* The lines whose blank line dispatched an event, up to line n. *)
Blanks(ls, n) == {k \in 1 .. n : Dispatches(ls, k)}

Refused(ls, k) == Dispatches(ls, k) /\ Cardinality(Blanks(ls, k)) = abort_at

(* Where the parser dies, one past the lines if it does not. *)
DeathLine(ls) ==
  LET S == {k \in DOMAIN ls : TooMuch(ls, k) \/ Refused(ls, k)} \cup {Len(ls) + 1}
  IN  CHOOSE k \in S : \A j \in S : k <= j

---------------------------------------------------------------------------
(* Properties. *)

(* Every variable holds a value of its type; no buffer exceeds its cap. *)
TypeOK ==
  /\ body \in Seq(Byte) /\ abort_at \in Nat
  /\ 0 <= cursor /\ cursor <= end /\ end <= Len(body)
  /\ state \in {"bom", "line", "failed", "aborted"}
  /\ bom_matched \in 0 .. 3 /\ pending_lf_skip \in BOOLEAN
  /\ carry \in Seq(Byte) /\ Len(carry) <= MaxLine
  /\ data \in Seq(Byte) /\ Len(data) <= MaxData
  /\ event_type \in Seq(Byte) /\ Len(event_type) <= MaxType
  /\ id \in Seq(Byte) /\ Len(id) <= MaxId
  /\ \A i \in DOMAIN events : DOMAIN events[i] = {"type", "data", "id"}

(* However the body is cut, the callback got the events of the whole lines *)
(* that were handed over, as the event stream format defines them, up to   *)
(* the first line that breaks a limit or the first event it refused, and   *)
(* the parser is dead if and only if there was one.  A reset starts over.  *)
CutsInvisible ==
  Idle =>
    LET ls   == Lines
        died == DeathLine(ls)
        bs   == Blanks(ls, IF died <= Len(ls) THEN died ELSE Len(ls))
        nth(i) == CHOOSE b \in bs : Cardinality({j \in bs : j <= b}) = i
    IN  /\ events = [i \in 1 .. Cardinality(bs) |-> EventAt(ls, nth(i))]
        /\ Dead = (died <= Len(ls) \/ Len(LastLine) > MaxLine)

(* Nothing is pending: no part of a line, no data without its blank line. *)
NothingPending ==
  /\ ~Dead /\ LastLine = <<>> /\ (Given = <<>> \/ ~MaybeBom)
  /\ LET ls == Lines IN NumLines = 0 \/ ls[NumLines] = <<>> \/ Pending(ls, NumLines) = <<>>

(* sse.h:59 of kSseEofClean: "no partial line, no un-dispatched event      *)
(* pending".  openrouter.c completes an answer without [DONE] on this.     *)
CleanMeansWhole == Idle /\ SseParserFinish = "clean" => NothingPending

(* A stream that is not cut short is called clean, if it does not open     *)
(* with a byte order mark.                                                 *)
WholeMeansClean == Idle /\ NothingPending /\ ~HasBom => SseParserFinish = "clean"

(* sse.h:60 of kSseEofTruncated: "stream ended mid-line or mid-event (or   *)
(* failed/aborted)".  (One that opens with a byte order mark is called     *)
(* truncated however it ends: bom_matched stays 3, sse.c:274, and counts   *)
(* as pending.)                                                            *)
TruncatedMeansCut == Idle /\ SseParserFinish = "truncated" => ~NothingPending

===========================================================================
