------------------------- MODULE ResponseContract -------------------------
(***************************************************************************)
(* What openrouter.h promises the agent about one response: pieces of text *)
(* and then exactly one of on_done and on_error, also after a cancel; and  *)
(* on_done only with all the text that was handed out.  ProviderStream is  *)
(* shown to implement it; AgentTurn's stream, Respond and Cancel rely on   *)
(* it.                                                                     *)
(***************************************************************************)
EXTENDS Naturals, Sequences

CONSTANT
  Text      \* pieces of text on_text may hand out

VARIABLES
  phase,    \* "idle", "live", "done" or "error"
  heard,    \* what on_text handed out so far
  canceled  \* a cancel was requested

contractVars == <<phase, heard, canceled>>

ContractInit == phase = "idle" /\ heard = << >> /\ canceled = FALSE

(* openrouter_stream; the request may fail before it is out. *)
Request ==
  /\ phase = "idle"
  /\ phase' \in {"live", "error"}
  /\ UNCHANGED <<heard, canceled>>

(* on_text; the callee may cancel from within. *)
OnText ==
  /\ phase = "live"
  /\ \E t \in Text : heard' = Append(heard, t)
  /\ canceled' \in {canceled, TRUE}
  /\ UNCHANGED phase

(* openrouter_cancel; on_error may come before it returns. *)
RequestCancel ==
  /\ phase = "live"
  /\ canceled' = TRUE
  /\ phase' \in {"live", "error"}
  /\ UNCHANGED heard

OnDone == phase = "live" /\ phase' = "done" /\ UNCHANGED <<heard, canceled>>

OnError == phase = "live" /\ phase' = "error" /\ UNCHANGED <<heard, canceled>>

ContractNext == Request \/ OnText \/ RequestCancel \/ OnDone \/ OnError

ContractSpec == ContractInit /\ [][ContractNext]_contractVars

===========================================================================
