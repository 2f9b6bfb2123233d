--------------------------- MODULE SessionStore ---------------------------
(***************************************************************************)
(* The append-only JSONL session file of session.c and the processes that  *)
(* have it open.                                                           *)
(*                                                                         *)
(* A file is the sequence of its '\n'-terminated lines and its             *)
(* unterminated tail.  A line is what consume_line tells apart: a message, *)
(* the header, an unknown control record, an empty line, or junk (a line   *)
(* that is no record: a strict prefix of one, or two records run together).*)
(* A write(2) may land whole, in part or not at all; a process may stop at *)
(* any point; the machine may stop and lose what was not yet on stable     *)
(* storage, for the store never calls fsync.                               *)
(***************************************************************************)
EXTENDS Naturals, Sequences, FiniteSets, SequencesExt

CONSTANTS
  Proc,          \* processes that may have the file open
  MaxMessages,   \* MUA_SESSION_MAX_MESSAGES
  MaxAppends,    \* bound: session_append calls in a behaviour
  Faults,        \* which faults happen: "short", "kill", "oscrash"
  InitialFiles   \* the files a behaviour may start from, beside none

ASSUME StoreAssumption ==
  /\ MaxMessages \in Nat \ {0}
  /\ MaxAppends \in Nat
  /\ Faults \subseteq {"short", "kill", "oscrash"}

VARIABLES
  created,    \* the file exists
  file,       \* its content: terminated lines, unterminated tail
  open,       \* processes holding a SessionState on it
  messages,   \* sess->messages of each process
  poisoned,   \* sess->poisoned
  needs_heal, \* sess->needs_heal
  next        \* identity of the next message handed to session_append

vars == <<created, file, open, messages, poisoned, needs_heal, next>>
procVars == <<open, messages, poisoned, needs_heal>>

Record(k, n) == [kind |-> k, id |-> n]
Message == {Record("msg", n) : n \in 1 .. MaxAppends}
Header  == Record("header", 0)
Control == Record("control", 0)
Blank   == Record("blank", 0)
Junk    == Record("junk", 0)
NoTail  == Record("none", 0)   \* the file ends in '\n', or is empty

Line == Message \cup {Header, Control, Blank, Junk}
File == [lines : Seq(Line), tail : (Line \ {Blank}) \cup {NoTail}]
EmptyFile == [lines |-> << >>, tail |-> NoTail]

ASSUME InitialFilesAssumption == InitialFiles \subseteq File

---------------------------------------------------------------------------
(* Reading a file. *)

(* The lines load_scan hands to consume_line, the tail last. *)
Lines(f) == IF f.tail = NoTail THEN f.lines ELSE Append(f.lines, f.tail)

(* The elements of s that are in S, in their order.  (SelectSeq, in a form *)
(* that can be reasoned about.)                                            *)
Keep(s, S) ==
  LET f[i \in 0 .. Len(s)] ==
        IF i = 0 THEN << >>
        ELSE IF s[i] \in S THEN Append(f[i - 1], s[i]) ELSE f[i - 1]
  IN  f[Len(s)]

(* The messages consume_line adds to sess->messages. *)
Messages(f) == Keep(Lines(f), Message)

(* What load_scan demands of the lines: there are some, line 1 is the      *)
(* header (an empty line 1 is skipped before the check), and no bad line   *)
(* has a non-empty one after it.                                           *)
WellFormed(ls) ==
  /\ ls # << >>
  /\ ls[1] \in {Header, Blank}
  /\ \A i, j \in DOMAIN ls : ls[i] = Junk /\ i < j => ls[j] = Blank

(* session_load succeeds: and there are at most MaxMessages messages. *)
Loadable(f) == WellFormed(Lines(f)) /\ Len(Messages(f)) <= MaxMessages

---------------------------------------------------------------------------
(* Writing a line: one write(2) of [heal '\n'] + line + '\n'. *)

(* Bytes after an unterminated tail continue it, and the result is no      *)
(* record.                                                                 *)
Continue(t, x) == IF t = NoTail THEN x ELSE Junk

(* The heal byte ends the tail's line, or is an empty line of its own.     *)
Heal(f) == [lines |-> Append(f.lines, IF f.tail = NoTail THEN Blank ELSE f.tail),
            tail  |-> NoTail]

HealIf(heal, f) == IF heal THEN Heal(f) ELSE f

(* The write landed whole. *)
WriteWhole(heal, f, x) ==
  LET g == HealIf(heal, f)
  IN  [lines |-> Append(g.lines, Continue(g.tail, x)), tail |-> NoTail]

(* The write failed or was short: nothing landed, only the heal byte, a    *)
(* strict prefix of the record, or all of it but the '\n'.                 *)
WritePart(heal, f, x) ==
  LET g == HealIf(heal, f)
  IN  {f, g} \cup {[lines |-> g.lines, tail |-> Continue(g.tail, y)] : y \in {Junk, x}}

---------------------------------------------------------------------------
Init ==
  /\ \/ created = FALSE /\ file = EmptyFile
     \/ created = TRUE /\ file \in InitialFiles
  /\ open = {}
  /\ messages = [p \in Proc |-> << >>]
  /\ poisoned = [p \in Proc |-> FALSE]
  /\ needs_heal = [p \in Proc |-> FALSE]
  /\ next = 1

(* session_new: O_EXCL claims the name, then the header is written. *)
SessionNew(p) ==
  /\ ~created
  /\ created' = TRUE
  /\ file' = WriteWhole(FALSE, EmptyFile, Header)
  /\ open' = open \cup {p}
  /\ UNCHANGED <<messages, poisoned, needs_heal, next>>

(* The header write failed and unlink did too, or the process was killed   *)
(* between the create and the unlink: a file without a whole header stays. *)
(* (With unlink done session_new leaves nothing behind.)                   *)
SessionNewDies ==
  /\ "kill" \in Faults
  /\ ~created
  /\ created' = TRUE
  /\ file' \in WritePart(FALSE, EmptyFile, Header)
  /\ UNCHANGED <<open, messages, poisoned, needs_heal, next>>

(* Mutant: the scan does not notice that the last line lacks its '\n'. *)
SessionLoadNoHeal(p) ==
  /\ p \notin open /\ created /\ Loadable(file)
  /\ open' = open \cup {p}
  /\ messages' = [messages EXCEPT ![p] = Messages(file)]
  /\ UNCHANGED <<created, file, next, needs_heal, poisoned>>

(* Mutant: bad lines are skipped wherever they are. *)
SessionLoadLenient(p) ==
  /\ p \notin open /\ created
  /\ Lines(file) # << >> /\ Lines(file)[1] \in {Header, Blank}
  /\ Len(Messages(file)) <= MaxMessages
  /\ open' = open \cup {p}
  /\ messages' = [messages EXCEPT ![p] = Messages(file)]
  /\ needs_heal' = [needs_heal EXCEPT ![p] = file.tail # NoTail]
  /\ poisoned' = [poisoned EXCEPT ![p] = FALSE]
  /\ UNCHANGED <<created, file, next>>

(* session_load.  A load that fails changes nothing. *)
SessionLoad(p) ==
  /\ p \notin open
  /\ created
  /\ Loadable(file)
  /\ open' = open \cup {p}
  /\ messages' = [messages EXCEPT ![p] = Messages(file)]
  /\ needs_heal' = [needs_heal EXCEPT ![p] = file.tail # NoTail]
  /\ poisoned' = [poisoned EXCEPT ![p] = FALSE]
  /\ UNCHANGED <<created, file, next>>

(* session_append reaches write_line; the calls it refuses before that     *)
(* (poisoned, full, too long a line) change nothing.                       *)
MayAppend(p) ==
  /\ p \in open
  /\ ~poisoned[p]
  /\ Len(messages[p]) < MaxMessages
  /\ next <= MaxAppends

(* Mutant: the record is written where this process knows the end of the   *)
(* file to be, without O_APPEND.                                           *)
SessionAppendAtOffset(p) ==
  /\ MayAppend(p)
  /\ next' = next + 1
  /\ file' = [lines |-> <<Header>> \o Append(messages[p], Record("msg", next)), tail |-> NoTail]
  /\ needs_heal' = [needs_heal EXCEPT ![p] = FALSE]
  /\ messages' = [messages EXCEPT ![p] = Append(@, Record("msg", next))]
  /\ UNCHANGED <<created, open, poisoned>>

(* Disk first, then memory. *)
SessionAppend(p) ==
  /\ MayAppend(p)
  /\ next' = next + 1
  /\ file' = WriteWhole(needs_heal[p], file, Record("msg", next))
  /\ needs_heal' = [needs_heal EXCEPT ![p] = FALSE]
  /\ messages' = [messages EXCEPT ![p] = Append(@, Record("msg", next))]
  /\ UNCHANGED <<created, open, poisoned>>

(* Mutant: memory first, then disk. *)
SessionAppendFailsMemoryFirst(p) ==
  /\ "short" \in Faults
  /\ MayAppend(p)
  /\ next' = next + 1
  /\ file' \in WritePart(needs_heal[p], file, Record("msg", next))
  /\ messages' = [messages EXCEPT ![p] = Append(@, Record("msg", next))]
  /\ poisoned' = [poisoned EXCEPT ![p] = TRUE]
  /\ UNCHANGED <<created, open, needs_heal>>

(* The write fails: the session is poisoned, memory keeps what it had. *)
SessionAppendFails(p) ==
  /\ "short" \in Faults
  /\ MayAppend(p)
  /\ next' = next + 1
  /\ file' \in WritePart(needs_heal[p], file, Record("msg", next))
  /\ poisoned' = [poisoned EXCEPT ![p] = TRUE]
  /\ UNCHANGED <<created, open, messages, needs_heal>>

(* Mutant: the poison flag outlives the session it was set on. *)
ForgetKeepsPoison(ps) ==
  /\ open' = open \ ps
  /\ messages' = [p \in Proc |-> IF p \in ps THEN << >> ELSE messages[p]]
  /\ needs_heal' = [p \in Proc |-> p \notin ps /\ needs_heal[p]]
  /\ UNCHANGED poisoned

(* The SessionState of these processes is gone. *)
Forget(ps) ==
  /\ open' = open \ ps
  /\ messages' = [p \in Proc |-> IF p \in ps THEN << >> ELSE messages[p]]
  /\ poisoned' = [p \in Proc |-> p \notin ps /\ poisoned[p]]
  /\ needs_heal' = [p \in Proc |-> p \notin ps /\ needs_heal[p]]

(* session_free, or the process ends without it. *)
SessionFree(p) ==
  /\ p \in open
  /\ Forget({p})
  /\ UNCHANGED <<created, file, next>>

(* The machine stops and a suffix of the file is gone. *)
Truncations(f) ==
  LET ls == Lines(f) IN
  {f} \cup UNION {{[lines |-> SubSeq(ls, 1, n - 1), tail |-> t] :
                     t \in {NoTail} \cup (IF ls[n] = Blank THEN {} ELSE {Junk, ls[n]})} :
                  n \in DOMAIN ls}

OsCrash ==
  /\ "oscrash" \in Faults
  /\ created
  /\ file' \in Truncations(file)
  /\ Forget(Proc)
  /\ UNCHANGED <<created, next>>

Next ==
  \/ \E p \in Proc : \/ SessionNew(p)
                     \/ SessionLoad(p)
                     \/ SessionAppend(p)
                     \/ SessionAppendFails(p)
                     \/ SessionFree(p)
  \/ SessionNewDies
  \/ OsCrash

Spec == Init /\ [][Next]_vars

---------------------------------------------------------------------------
(* Properties. *)

(* Every variable holds a value of its type: a file is terminated lines    *)
(* and a tail that is not an empty line, and a process that has no session *)
(* open keeps no flag of an earlier one.                                   *)
TypeOK ==
  /\ created \in BOOLEAN
  /\ file \in File
  /\ open \subseteq Proc
  /\ poisoned \in [Proc -> BOOLEAN]
  /\ needs_heal \in [Proc -> BOOLEAN]
  /\ next \in Nat \ {0}
  /\ \A p \in Proc \ open : ~poisoned[p] /\ ~needs_heal[p]

(* With one writer, whoever has the file open over an unterminated tail    *)
(* either heals it before its next record or writes nothing at all         *)
(* (write_line's heal byte, session_append's poisoned check).              *)
TornTailGuarded ==
  file.tail # NoTail => \A p \in open : poisoned[p] \/ needs_heal[p]

(* With one writer, no step of the store alters or glues onto what is on   *)
(* disk: the lines that were there stay the file's first lines.  Only the  *)
(* machine's loss of unsynced bytes takes lines away.                      *)
DiskAppendOnly ==
  [][OsCrash \/ IsPrefix(Lines(file), Lines(file'))]_vars

(* With several writers on a disk that never fails, every message a        *)
(* session_append acknowledged is in the file, as often and in the order   *)
(* that writer has it (O_APPEND, one write per record; a second writer's   *)
(* heal byte is only an empty line).                                       *)
EveryWriterDurable ==
  \A p \in open :
     Keep(Messages(file), Range(messages[p])) = messages[p]

(* With one writer, a file that some process holds unpoisoned can be loaded*)
(* again, but for one thing: a torn tail that session_load tolerated once  *)
(* is a bad line in the middle of the file as soon as the next append has  *)
(* healed it, and no later load accepts it.  There is never more than one  *)
(* such line, and nothing else is wrong with the file.                     *)
LoadableUnlessHealed ==
  \A p \in open : ~poisoned[p] =>
     /\ Len(Messages(file)) <= MaxMessages
     /\ LET ls == Lines(file) IN
        WellFormed(ls) \/ \E i \in DOMAIN ls : ls[i] = Junk /\ WellFormed(RemoveAt(ls, i))

(* With several writers on a disk that never fails, the file stays well    *)
(* formed.  Each of them counts the messages it loaded and appended itself,*)
(* so together they may exceed the cap, and the file can then not be loaded*)
(* again; but never by more than a whole cap for each further writer.      *)
OpenFileLoadable ==
  \A p \in open : ~poisoned[p] =>
     /\ WellFormed(Lines(file))
     /\ Len(Messages(file)) <= Cardinality(Proc) * MaxMessages

---------------------------------------------------------------------------
(* With one writer the store implements MessageLog. *)

TheProc == CHOOSE p \in Proc : TRUE

Log == INSTANCE MessageLog WITH
         log      <- Messages(file),
         view     <- messages[TheProc],
         latched  <- poisoned[TheProc],
         attached <- TheProc \in open

(* With one writer, every step of the store is a step of the abstract log  *)
(* seen through a reload of the file: an acknowledged append adds exactly  *)
(* the message, a failed one adds it or not and latches, a load returns    *)
(* the log, a crash of the machine loses a tail of it and nothing else.    *)
ImplementsMessageLog == Log!LogSpec

===========================================================================
