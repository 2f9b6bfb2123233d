---------------------------- MODULE MessageLog ----------------------------
(***************************************************************************)
(* What the session store promises its caller, without files: a log of     *)
(* messages that survives the process, and the copy of it (the view) a     *)
(* process works on.  SessionStore is shown to implement it for one        *)
(* writer; AgentTurn uses its actions as its session.                      *)
(*                                                                         *)
(* A process that was told an append failed cannot know whether the        *)
(* message reached the log; it is latched and appends nothing more until   *)
(* the log is loaded again.                                                *)
(***************************************************************************)
EXTENDS Naturals, Sequences

CONSTANTS
  Message,        \* the messages a conversation is made of
  MaxMessages     \* MUA_SESSION_MAX_MESSAGES

VARIABLES
  log,      \* what a load of the log returns
  view,     \* the attached process's conversation
  latched,  \* an append of the attached process failed
  attached  \* a process has the log open

logVars == <<log, view, latched, attached>>

LogTypeOK ==
  /\ log \in Seq(Message)
  /\ view \in Seq(Message)
  /\ latched \in BOOLEAN
  /\ attached \in BOOLEAN

LogInit ==
  /\ log \in Seq(Message)
  /\ view = << >>
  /\ latched = FALSE
  /\ attached = FALSE

CanAppend == attached /\ ~latched /\ Len(view) < MaxMessages

(* The message is in the log and in the view. *)
AppendOk(m) ==
  /\ CanAppend
  /\ log' = Append(log, m)
  /\ view' = Append(view, m)
  /\ UNCHANGED <<latched, attached>>

(* The append failed half way: nobody knows whether m is in the log. *)
AppendTorn(m) ==
  /\ CanAppend
  /\ log' \in {log, Append(log, m)}
  /\ latched' = TRUE
  /\ UNCHANGED <<view, attached>>

Attach ==
  /\ ~attached
  /\ attached' = TRUE
  /\ latched' = FALSE
  /\ view' = log
  /\ UNCHANGED log

Detach ==
  /\ attached
  /\ attached' = FALSE
  /\ latched' = FALSE
  /\ view' = << >>
  /\ UNCHANGED log

(* The machine stopped before the tail of the log was on stable storage. *)
LoseTail(n) ==
  /\ n \in 0 .. Len(log)
  /\ log' = SubSeq(log, 1, n)
  /\ attached' = FALSE
  /\ latched' = FALSE
  /\ view' = << >>

LogNext ==
  \/ \E m \in Message : AppendOk(m) \/ AppendTorn(m)
  \/ Attach
  \/ Detach
  \/ \E n \in 0 .. Len(log) : LoseTail(n)

LogSpec == LogInit /\ [][LogNext]_logVars

===========================================================================
