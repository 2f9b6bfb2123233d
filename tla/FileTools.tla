----------------------------- MODULE FileTools -----------------------------
(***************************************************************************)
(* The synchronous built-in tools of tools.c: read, write and edit.  One   *)
(* call runs to its result, one system call per step, so that a system     *)
(* call may be interrupted, may fail, may move fewer bytes than asked for, *)
(* and another process may change the file in between (nothing locks it).  *)
(*                                                                         *)
(* A file is a sequence of bytes.  The fd is implicit: `pc` says what the  *)
(* tool does with it, `pos` is its offset.  Devices and fifos, which have  *)
(* no content to speak of, and the parent directories write creates are    *)
(* left out.                                                               *)
(***************************************************************************)
EXTENDS Naturals, Sequences, FiniteSets, SequencesExt

CONSTANTS
  Calls,        \* the calls under test
  Files,        \* bound: what the file may hold when the call starts
  Others,       \* bound: what another process may leave in it meanwhile
  ReturnCap,    \* kToolReadReturnCap
  ScanCap,      \* kToolReadScanCap
  Chunk,        \* kToolReadChunk
  EditCap,      \* kToolEditFileCap
  EintrMax,     \* kToolEintrMax
  Unlimited     \* INT64_MAX, the limit of a read that gives none

Byte == {"x", "y", "LF", "NUL"}

(* `path` is false where a required argument is missing or not a string;   *)
(* a `from` or `limit` of zero is one opt_pos_int refuses.                 *)
Call ==
  [tool : {"read"}, path : BOOLEAN, from : Nat, limit : Nat] \cup
  [tool : {"write"}, path : BOOLEAN, content : Seq(Byte \ {"NUL"})] \cup
  [tool : {"edit"}, path : BOOLEAN, old : Seq(Byte \ {"NUL"}), new : Seq(Byte \ {"NUL"})]

ASSUME FileToolsAssumption ==
  /\ \A c \in Calls : c \in Call
  /\ \A f \in Files \cup Others : f \in Seq(Byte)
  /\ ReturnCap \in Nat \ {0} /\ ScanCap \in Nat \ {0} /\ Chunk \in Nat \ {0}
  /\ EditCap \in Nat /\ EintrMax \in Nat /\ Unlimited \in Nat

VARIABLES
  kind,         \* what the path names: "regular", "absent" or "directory"
  file,         \* the bytes of the regular file
  call,         \* the call
  pc,           \* "start", "scan", "load", "truncate", "seek", "fill", "close", "done"
  pos,          \* the fd's offset
  eintr,        \* consecutive interrupted system calls
  scan,         \* ReadScan
  size,         \* edit: the size fstat reported
  data,         \* edit: what was read; then, and in write, what is to be written
  result,       \* the ToolResult
  before,       \* history: kind and content when the fd was opened
  disturbed     \* history: another process changed the file since

diskVars == <<kind, file>>
fdVars   == <<pos, eintr>>
vars == <<diskVars, call, pc, fdVars, scan, size, data, result, before, disturbed>>

FreshScan == [line |-> 1, taken |-> 0, scanned |-> 0, window |-> <<>>,
              full |-> FALSE, finished |-> FALSE]

NoResult == [ok |-> FALSE, note |-> "none", window |-> <<>>]

Init ==
  /\ kind \in {"regular", "absent", "directory"}
  /\ file \in (IF kind = "regular" THEN Files ELSE {<<>>})
  /\ call \in Calls /\ pc = "start"
  /\ pos = 0 /\ eintr = 0 /\ scan = FreshScan /\ size = 0 /\ data = <<>>
  /\ result = NoResult /\ before = <<kind, file>> /\ disturbed = FALSE

---------------------------------------------------------------------------
(* fail, okf and succeed: the call is over. *)
Finish(r) == pc' = "done" /\ result' = r

Fail == Finish([ok |-> FALSE, note |-> "error", window |-> <<>>])
Succeed == Finish([ok |-> TRUE, note |-> "", window |-> <<>>])

(* What the tools refuse before they open anything. *)
BadArguments(c) ==
  \/ ~c.path
  \/ c.tool = "read" /\ (c.from < 1 \/ c.limit < 1)
  \/ c.tool = "edit" /\ (c.old = <<>> \/ c.old = c.new)

(* Bad arguments; or the path cannot be opened or is no regular file.      *)
(* write creates a missing file; any open, stat or mkdir may fail.         *)
Refuse ==
  /\ pc = "start"
  /\ Fail
  /\ UNCHANGED <<diskVars, call, fdVars, scan, size, data, before, disturbed>>

Opens ==
  /\ pc = "start" /\ ~BadArguments(call)
  /\ UNCHANGED <<call, fdVars, scan, result, before, disturbed>>

ReadOpen ==
  /\ Opens /\ call.tool = "read" /\ kind = "regular"
  /\ pc' = "scan"
  /\ UNCHANGED <<diskVars, size, data>>

(* open with O_CREAT and O_TRUNC. *)
WriteOpen ==
  /\ Opens /\ call.tool = "write" /\ kind # "directory"
  /\ kind' = "regular" /\ file' = <<>>
  /\ data' = call.content
  /\ pc' = "fill"
  /\ UNCHANGED size

EditOpen ==
  /\ Opens /\ call.tool = "edit" /\ kind = "regular" /\ Len(file) <= EditCap
  /\ size' = Len(file)
  /\ pc' = "load"
  /\ UNCHANGED <<diskVars, data>>

---------------------------------------------------------------------------
(* System calls on the open file. *)

Left == IF Len(file) > pos THEN Len(file) - pos ELSE 0

(* The bytes a read(2) of at most n bytes may return. *)
Readable(n) == {SubSeq(file, pos + 1, pos + k) : k \in 1 .. (IF Left < n THEN Left ELSE n)}

(* write(2) at the offset; a gap behind the end of the file reads as NULs. *)
Overlay(f, p, s) ==
  [i \in 1 .. (IF p + Len(s) > Len(f) THEN p + Len(s) ELSE Len(f)) |->
     IF i \in p + 1 .. p + Len(s) THEN s[i - p] ELSE IF i <= Len(f) THEN f[i] ELSE "NUL"]

InSyscall ==
  \/ pc = "scan" /\ ~scan.finished /\ scan.scanned < ScanCap
  \/ pc = "load" /\ Len(data) < size
  \/ pc = "fill" /\ pos < Len(data)

(* Mutant: the count of retries starts over when it reaches its cap. *)
InterruptedForEver ==
  /\ InSyscall
  /\ eintr' = (eintr + 1) % (EintrMax + 1)
  /\ UNCHANGED <<diskVars, call, pc, pos, scan, size, data, result, before, disturbed>>

(* EINTR: tried again, but not for ever. *)
Interrupted ==
  /\ InSyscall
  /\ IF eintr < EintrMax THEN eintr' = eintr + 1 /\ UNCHANGED <<pc, result>>
                         ELSE Fail /\ UNCHANGED eintr
  /\ UNCHANGED <<diskVars, call, pos, scan, size, data, before, disturbed>>

(* A read, write, ftruncate, lseek or close that fails (a write that moves *)
(* nothing counts as one).                                                 *)
IoError ==
  /\ InSyscall \/ pc \in {"truncate", "seek", "close"}
  /\ Fail
  /\ UNCHANGED <<diskVars, call, fdVars, scan, size, data, before, disturbed>>

---------------------------------------------------------------------------
(* read *)

(* read_scan_chunk, byte by byte: a byte of a wanted line goes into the    *)
(* window if there is room; the scan is over when there is none or when    *)
(* the last wanted line is complete.                                       *)
ScanByte(s, b) ==
  LET wanted == s.line >= call.from
      last   == wanted /\ b = "LF" /\ s.taken + 1 >= call.limit
  IN  IF s.finished THEN s
      ELSE IF wanted /\ Len(s.window) = ReturnCap THEN [s EXCEPT !.full = TRUE, !.finished = TRUE]
      ELSE [s EXCEPT !.window   = IF wanted THEN Append(@, b) ELSE @,
                     !.taken    = IF wanted /\ b = "LF" THEN @ + 1 ELSE @,
                     !.finished = last,
                     !.line     = IF b = "LF" THEN @ + 1 ELSE @]

ReadScanChunk(s, chunk) ==
  LET after[k \in 0 .. Len(chunk)] == IF k = 0 THEN s ELSE ScanByte(after[k - 1], chunk[k])
  IN  after[Len(chunk)]

(* Mutant: every chunk has the full size, whatever is left of the bound. *)
WantFullChunk == Chunk

(* The bytes asked for: a chunk, or what is left of the scan bound. *)
Want == IF ScanCap - scan.scanned < Chunk THEN ScanCap - scan.scanned ELSE Chunk

(* One chunk of read_scan_file: a NUL anywhere in it makes the file        *)
(* binary.                                                                 *)
ReadScan ==
  /\ pc = "scan" /\ ~scan.finished /\ scan.scanned < ScanCap
  /\ \E chunk \in Readable(Want) :
       /\ pos' = pos + Len(chunk) /\ eintr' = 0
       /\ LET s == [scan EXCEPT !.scanned = @ + Len(chunk)] IN
          IF "NUL" \in Range(chunk)
          THEN Finish([ok |-> FALSE, note |-> "binary", window |-> <<>>]) /\ scan' = s
          ELSE scan' = ReadScanChunk(s, chunk) /\ UNCHANGED <<pc, result>>
  /\ UNCHANGED <<diskVars, call, size, data, before, disturbed>>

(* Mutant: the scan bound is reported only if nothing else was said, and   *)
(* an empty window comes first.                                            *)
NoteEmptyFirst(s, capped) ==
  IF s.window = <<>> /\ s.scanned > 0 THEN "past end"
  ELSE IF s.full THEN "truncated"
  ELSE IF capped THEN "bound"
  ELSE ""

(* read_assemble_content's annotation. *)
Note(s, capped) ==
  IF s.full THEN "truncated"
  ELSE IF capped THEN "bound"
  ELSE IF s.window = <<>> /\ s.scanned > 0 THEN "past end"
  ELSE ""

(* The scan is over, at the bound, or at the end of the file. *)
ReadDone ==
  /\ pc = "scan"
  /\ LET capped == ~scan.finished /\ scan.scanned >= ScanCap IN
     /\ scan.finished \/ capped \/ Left = 0
     /\ Finish([ok |-> TRUE, note |-> Note(scan, capped), window |-> scan.window])
  /\ UNCHANGED <<diskVars, call, fdVars, scan, size, data, before, disturbed>>

---------------------------------------------------------------------------
(* edit *)

(* The read loop of edit_open_and_read, bounded by the size fstat gave. *)
EditLoad ==
  /\ pc = "load" /\ Len(data) < size
  /\ \E bytes \in Readable(size - Len(data)) :
       data' = data \o bytes /\ pos' = pos + Len(bytes)
  /\ eintr' = 0
  /\ UNCHANGED <<diskVars, call, pc, scan, size, result, before, disturbed>>

(* count_occurrences: where `needle` occurs in `hay`, overlapping. *)
Occurrences(hay, needle) ==
  {k \in 1 .. Len(hay) : k + Len(needle) - 1 <= Len(hay) /\
                         SubSeq(hay, k, k + Len(needle) - 1) = needle}

Replace(hay, k, old, new) ==
  SubSeq(hay, 1, k - 1) \o new \o SubSeq(hay, k + Len(old), Len(hay))

(* Mutant: any number of occurrences will do; the first is replaced. *)
EditDecideAny ==
  /\ pc = "load" /\ (Len(data) = size \/ Left = 0)
  /\ LET at == Occurrences(data, call.old) IN
     IF at = {} THEN Fail /\ UNCHANGED data
     ELSE /\ data' = Replace(data, CHOOSE k \in at : \A j \in at : k <= j, call.old, call.new)
          /\ pc' = "truncate" /\ UNCHANGED result
  /\ UNCHANGED <<diskVars, call, fdVars, scan, size, before, disturbed>>

(* The file is read whole, or ended early: it is rewritten if old_string   *)
(* occurs exactly once.                                                    *)
EditDecide ==
  /\ pc = "load" /\ (Len(data) = size \/ Left = 0)
  /\ \/ \E k \in 1 .. Len(data) :
          /\ Occurrences(data, call.old) = {k}
          /\ data' = Replace(data, k, call.old, call.new)
          /\ pc' = "truncate" /\ UNCHANGED result
     \/ /\ \A k \in 1 .. Len(data) : Occurrences(data, call.old) # {k}
        /\ Fail /\ UNCHANGED data
  /\ UNCHANGED <<diskVars, call, fdVars, scan, size, before, disturbed>>

(* edit_rewrite: ftruncate, the point of no return ... *)
EditTruncate ==
  /\ pc = "truncate"
  /\ file' = <<>>
  /\ pc' = "seek"
  /\ UNCHANGED <<kind, call, fdVars, scan, size, data, result, before, disturbed>>

(* ... and lseek to the start, then write_all. *)
EditSeek ==
  /\ pc = "seek"
  /\ pos' = 0 /\ eintr' = 0
  /\ pc' = "fill"
  /\ UNCHANGED <<diskVars, call, scan, size, data, result, before, disturbed>>

---------------------------------------------------------------------------
(* write_all and close, in write and in edit. *)

WriteSome ==
  /\ pc = "fill" /\ pos < Len(data)
  /\ \E k \in 1 .. Len(data) - pos :
       /\ file' = Overlay(file, pos, SubSeq(data, pos + 1, pos + k))
       /\ pos' = pos + k
  /\ eintr' = 0
  /\ UNCHANGED <<kind, call, pc, scan, size, data, result, before, disturbed>>

WriteDone ==
  /\ pc = "fill" /\ pos >= Len(data)
  /\ pc' = "close"
  /\ UNCHANGED <<diskVars, call, fdVars, scan, size, data, result, before, disturbed>>

Close ==
  /\ pc = "close"
  /\ Succeed
  /\ UNCHANGED <<diskVars, call, fdVars, scan, size, data, before, disturbed>>

---------------------------------------------------------------------------
(* Another process writes to the file while the tool has it open. *)
OtherWrites ==
  /\ pc \notin {"start", "done"}
  /\ file' \in Others \ {file}
  /\ disturbed' = TRUE
  /\ UNCHANGED <<kind, call, pc, fdVars, scan, size, data, result, before>>

Step ==
  \/ Refuse \/ ReadOpen \/ WriteOpen \/ EditOpen
  \/ Interrupted \/ IoError
  \/ ReadScan \/ ReadDone
  \/ EditLoad \/ EditDecide \/ EditTruncate \/ EditSeek
  \/ WriteSome \/ WriteDone \/ Close

Next == Step \/ OtherWrites

(* The tool runs on; nothing is assumed of system calls or of the others.  *)
Spec == Init /\ [][Next]_vars /\ WF_vars(Step)

---------------------------------------------------------------------------
(* Properties. *)

(* Every variable holds a value of its type; the window and the bytes      *)
(* examined respect their caps, whatever the file grows to.                *)
TypeOK ==
  /\ kind \in {"regular", "absent", "directory"} /\ file \in Seq(Byte) /\ call \in Calls
  /\ pc \in {"start", "scan", "load", "truncate", "seek", "fill", "close", "done"}
  /\ pos \in Nat /\ eintr \in 0 .. EintrMax /\ size \in 0 .. EditCap
  /\ scan.line \in Nat /\ scan.taken \in Nat /\ scan.scanned \in 0 .. ScanCap
  /\ scan.window \in Seq(Byte \ {"NUL"}) /\ Len(scan.window) <= ReturnCap
  /\ scan.full \in BOOLEAN /\ scan.finished \in BOOLEAN
  /\ data \in Seq(Byte) /\ disturbed \in BOOLEAN

(* How many of the first i bytes of f are line feeds. *)
LineFeeds(f, i) == Cardinality({j \in 1 .. i : f[j] = "LF"})

(* The line byte i of f belongs to. *)
LineOf(f, i) == 1 + LineFeeds(f, i - 1)

(* The lines from .. from + limit - 1 of f, and how many of them are       *)
(* complete.                                                               *)
Wanted(f) ==
  LET in == {i \in 1 .. Len(f) : LineOf(f, i) \in call.from .. call.from + call.limit - 1}
  IN  IF in = {} THEN <<>>
      ELSE SubSeq(f, CHOOSE i \in in : \A j \in in : i <= j, CHOOSE i \in in : \A j \in in : j <= i)

Complete(w) == LineFeeds(w, Len(w))

(* However read(2) cuts the file, a read of a file nobody touches returns  *)
(* the wanted lines of it, and never keeps silent about a part it left     *)
(* out: it says that the window was truncated, that the scan bound came    *)
(* before the last wanted line, or that no wanted line exists.  A file is  *)
(* called binary only for a NUL.                                           *)
ReadExact ==
  pc = "done" /\ call.tool = "read" /\ ~disturbed =>
    LET f     == before[2]
        scope == SubSeq(f, 1, IF Len(f) < ScanCap THEN Len(f) ELSE ScanCap)
        w     == Wanted(scope)
    IN  /\ result.ok =>
             /\ result.window = SubSeq(w, 1, IF Len(w) < ReturnCap THEN Len(w) ELSE ReturnCap)
             /\ result.note = IF Len(w) > ReturnCap THEN "truncated"
                              ELSE IF Complete(w) < call.limit /\ Len(f) >= ScanCap THEN "bound"
                              ELSE IF w = <<>> /\ f # <<>> THEN "past end"
                              ELSE ""
        /\ result.note = "binary" => "NUL" \in Range(scope)

(* What write and edit report is what they did to a file nobody else       *)
(* touches.  After success it holds the content, or differs from before in *)
(* the one occurrence of old_string.  After an error it is as it was,      *)
(* unless the rewriting itself failed: then a prefix of the new content is *)
(* left, never a mix of both.                                              *)
RewriteExact ==
  pc = "done" /\ ~disturbed =>
    CASE call.tool = "write" ->
           IF result.ok THEN kind = "regular" /\ file = call.content
           ELSE <<kind, file>> = before \/ (kind = "regular" /\ IsPrefix(file, call.content))
      [] call.tool = "edit" ->
           LET Edited == {Replace(before[2], k, call.old, call.new) :
                            k \in {j \in 1 .. Len(before[2]) :
                                     Occurrences(before[2], call.old) = {j}}}
           IN  IF result.ok THEN file \in Edited
               ELSE <<kind, file>> = before \/ \E n \in Edited : IsPrefix(file, n)
      [] OTHER -> <<kind, file>> = before

(* Every call ends with a result, though the file may grow or shrink all   *)
(* the time and system calls be interrupted again and again: the scan      *)
(* bound, the size fstat latched, the length of the content and the cap on *)
(* retries bound the loops.                                                *)
CallEnds == <>(pc = "done")

============================================================================
