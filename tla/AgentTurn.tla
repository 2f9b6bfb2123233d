----------------------------- MODULE AgentTurn -----------------------------
(***************************************************************************)
(* The agent turn loop of agent.c with its callers in main.c, the SIGINT   *)
(* handling of loop.c, and the session it keeps (MessageLog, which         *)
(* SessionStore implements).                                               *)
(*                                                                         *)
(* The program is one thread of callbacks.  `stack` says what is on the    *)
(* C stack: "loop" (the event loop may run the next callback), "driver"    *)
(* (drive_tools is running: in_driver), "synthetics"                       *)
(* (finish_with_synthetics is running).  While it is not "loop" no other   *)
(* callback runs, but the process may be killed between two appends.       *)
(*                                                                         *)
(* The provider, the tools, the user's prompts and ^C are the environment. *)
(***************************************************************************)
EXTENDS Naturals, Sequences

CONSTANTS
  CallId,         \* tool call ids; a round's ids differ, rounds may reuse them
  NoId,           \* the id of a message that answers no call
  MaxCalls,       \* tool calls in one assistant message (MUA_MAX_TOOL_CALLS)
  StepCap,        \* turn->step_cap
  ContextLength,  \* opts.context_length: the model's window, 0 when unknown
  ContextPct,     \* turn->context_pct
  ContextWarnPct, \* turn->context_warn_pct: 0 disables the warning
  Usage,          \* usage.total_tokens a response may carry; 0 when absent
  MaxMessages,    \* MUA_SESSION_MAX_MESSAGES
  MaxTurns,       \* bound: turns started in a behaviour
  MaxSigints,     \* bound: SIGINTs delivered to one turn
  Faults          \* "torn": an append fails; "oversize": a message's line is
                  \* too long; "kill", "oscrash": the process, machine stops

ASSUME AgentAssumption ==
  /\ NoId \notin CallId
  /\ MaxCalls \in Nat \ {0}
  /\ StepCap \in Nat \ {0}
  /\ ContextLength \in Nat /\ ContextPct \in 1 .. 100 /\ ContextWarnPct \in 0 .. 100
  /\ Usage \subseteq Nat
  /\ MaxMessages \in Nat \ {0}
  /\ MaxTurns \in Nat /\ MaxSigints \in Nat
  /\ Faults \subseteq {"torn", "oversize", "kill", "oscrash"}

(* The calls of one assistant message: distinct ids, none for plain text. *)
Calls == {s \in UNION {[1 .. n -> CallId] : n \in 0 .. MaxCalls} :
            \A i, j \in DOMAIN s : s[i] = s[j] => i = j}

UserMsg == [role |-> "user", calls |-> << >>, id |-> NoId]
AssistantMsg(c) == [role |-> "assistant", calls |-> c, id |-> NoId]
ToolMsg(i) == [role |-> "tool", calls |-> << >>, id |-> i]

Message == {UserMsg} \cup {AssistantMsg(c) : c \in Calls} \cup {ToolMsg(i) : i \in CallId}

VARIABLES
  log, view, latched, attached,  \* the session: see MessageLog
  proc,             \* "down", "repair", "prompt", "turn" or "drain"
  repair_next,      \* agent_repair_session's loop index
  turn,             \* "none", "live", or "finished"
  outcome,          \* what on_finish reported
  stack,            \* "loop", "driver" or "synthetics"
  stream,           \* turn->stream is live
  exec,             \* turn->exec is live
  step_timer,       \* the 0-ms step timer is armed
  step,             \* turn->step
  calls,            \* turn->calls; tool_count is its length
  tool_index,       \* turn->tool_index: calls answered so far
  cancel_requested, canceling, failing,
  tokens,           \* turn->last_total_tokens
  context_warned,   \* turn->context_warned
  sigints,          \* g_loop.sigint_count
  turns             \* turns started so far

INSTANCE MessageLog

sessVars  == <<log, view, latched, attached>>
turnFlags == <<cancel_requested, canceling, failing>>
usageVars == <<tokens, context_warned>>
callVars  == <<calls, tool_index, step>>
turnVars  == <<turn, outcome, stack, stream, exec, step_timer, turnFlags,
               usageVars, callVars>>
procVars  == <<proc, repair_next, sigints, turns>>
vars == <<sessVars, procVars, turnVars>>

Init ==
  /\ log = << >> /\ view = << >> /\ latched = FALSE /\ attached = FALSE
  /\ proc = "down" /\ repair_next = 0 /\ sigints = 0 /\ turns = 0
  /\ turn = "none" /\ outcome = "none" /\ stack = "loop"
  /\ stream = FALSE /\ exec = FALSE /\ step_timer = FALSE
  /\ step = 0 /\ calls = << >> /\ tool_index = 0
  /\ cancel_requested = FALSE /\ canceling = FALSE /\ failing = FALSE
  /\ tokens = 0 /\ context_warned = FALSE

---------------------------------------------------------------------------
(* session_append either adds the message (AppendOk), or is torn and       *)
(* latches the session, or refuses and leaves no trace.                    *)
AppendFails(m) ==
  \/ /\ latched \/ Len(view) >= MaxMessages
     /\ UNCHANGED sessVars
  \/ "torn" \in Faults /\ AppendTorn(m)

(* A line over MUA_SESSION_MAX_LINE is refused without latching.  Only a   *)
(* response or a registered tool's result is ever that long.               *)
AppendTooLong == "oversize" \in Faults /\ UNCHANGED sessVars

---------------------------------------------------------------------------
(* Start, repair and stop of the process. *)

Rounds(c) == {i \in DOMAIN c : c[i].calls # << >>}

(* last_tool_call_round: 0 when there is none. *)
LastRound(c) ==
  IF Rounds(c) = {} THEN 0
  ELSE CHOOSE i \in Rounds(c) : \A j \in Rounds(c) : j <= i

(* call_answered: a tool message from index `from` on carries the id. *)
CallAnswered(c, from, i) ==
  \E j \in from .. Len(c) : c[j].role = "tool" /\ c[j].id = i

(* setup_session: the session is new (the log is empty) or loaded, and its *)
(* repair begins.                                                          *)
Resume ==
  /\ proc = "down"
  /\ Attach
  /\ proc' = "repair"
  /\ repair_next' = 1
  /\ UNCHANGED <<sigints, turns, turnVars>>

RepairCalls == IF LastRound(view) = 0 THEN << >> ELSE view[LastRound(view)].calls

(* Mutant: the answer is looked for in the whole conversation. *)
UnansweredAnywhere(i) == ~CallAnswered(view, 1, i)

Unanswered(i) == ~CallAnswered(view, LastRound(view) + 1, i)

(* One iteration of agent_repair_session: an unanswered call gets an       *)
(* "[interrupted]" answer.                                                 *)
RepairCall ==
  /\ proc = "repair"
  /\ repair_next <= Len(RepairCalls)
  /\ IF Unanswered(RepairCalls[repair_next])
     THEN AppendOk(ToolMsg(RepairCalls[repair_next]))
     ELSE UNCHANGED sessVars
  /\ repair_next' = repair_next + 1
  /\ UNCHANGED <<proc, sigints, turns, turnVars>>

RepairDone ==
  /\ proc = "repair"
  /\ repair_next > Len(RepairCalls)
  /\ proc' = "prompt"
  /\ repair_next' = 0
  /\ UNCHANGED <<sessVars, sigints, turns, turnVars>>

(* An append of the repair fails, torn or the session full: setup_session  *)
(* gives the session up and run_agent ends.                                *)
RepairFails ==
  /\ proc = "repair"
  /\ repair_next <= Len(RepairCalls)
  /\ Unanswered(RepairCalls[repair_next])
  /\ AppendFails(ToolMsg(RepairCalls[repair_next]))
  /\ proc' = "drain"
  /\ UNCHANGED <<repair_next, sigints, turns, turnVars>>

(* The process ends: what it held in memory is gone. *)
Down ==
  /\ proc' = "down" /\ repair_next' = 0 /\ sigints' = 0
  /\ turn' = "none" /\ outcome' = "none" /\ stack' = "loop"
  /\ stream' = FALSE /\ exec' = FALSE /\ step_timer' = FALSE
  /\ step' = 0 /\ calls' = << >> /\ tool_index' = 0
  /\ cancel_requested' = FALSE /\ canceling' = FALSE /\ failing' = FALSE
  /\ tokens' = 0 /\ context_warned' = FALSE
  /\ UNCHANGED turns

CloseSession == IF attached THEN Detach ELSE UNCHANGED sessVars

(* The user leaves the REPL, or run_agent has drained the loop. *)
Exit ==
  /\ proc \in {"prompt", "drain"}
  /\ CloseSession
  /\ Down

Kill ==
  /\ "kill" \in Faults
  /\ proc # "down"
  /\ CloseSession
  /\ Down

OsCrash ==
  /\ "oscrash" \in Faults
  /\ \E n \in 0 .. Len(log) : LoseTail(n)
  /\ Down

---------------------------------------------------------------------------
(* The turn. *)

(* Mutant: the step timer stays armed. *)
FinishKeepsTimer(o) ==
  /\ turn' = "finished" /\ outcome' = o /\ stack' = "loop"
  /\ proc' = "prompt" /\ sigints' = 0
  /\ UNCHANGED step_timer

(* finish_turn: latch, disarm SIGINT, report, close the step timer.  The   *)
(* turn's memory is freed on the next tick.                                *)
Finish(o) ==
  /\ turn' = "finished"
  /\ outcome' = o
  /\ stack' = "loop"
  /\ step_timer' = FALSE
  /\ proc' = "prompt"
  /\ sigints' = 0

Continue == UNCHANGED <<turn, outcome, proc, sigints>>

(* agent_turn_start.  If the user message cannot be appended there is no   *)
(* turn, and the session may be latched.                                   *)
TurnStart ==
  /\ proc = "prompt"
  /\ turns < MaxTurns
  /\ AppendOk(UserMsg)
  /\ proc' = "turn" /\ turns' = turns + 1 /\ sigints' = 0
  /\ turn' = "live" /\ outcome' = "none" /\ stack' = "loop"
  /\ stream' = FALSE /\ exec' = FALSE /\ step_timer' = TRUE
  /\ step' = 0 /\ calls' = << >> /\ tool_index' = 0
  /\ cancel_requested' = FALSE /\ canceling' = FALSE /\ failing' = FALSE
  /\ tokens' = 0 /\ context_warned' = FALSE
  /\ UNCHANGED repair_next

TurnStartFails ==
  /\ proc = "prompt"
  /\ turns < MaxTurns
  /\ AppendFails(UserMsg)
  /\ turns' = turns + 1
  /\ UNCHANGED <<proc, repair_next, sigints, turnVars>>

(* The event loop runs a callback of the live turn. *)
InLoop == proc = "turn" /\ stack = "loop"

(* Mutant: a request that cannot be issued is not reported. *)
StepTimerDropsFailure ==
  /\ InLoop
  /\ step_timer
  /\ step_timer' = FALSE
  /\ stream' \in BOOLEAN
  /\ UNCHANGED <<sessVars, procVars, turn, outcome, stack, exec, turnFlags, usageVars,
                 callVars>>

(* step_timer_cb: a cancel that came between two steps, a request that     *)
(* cannot be issued, or the next request.                                  *)
StepTimer ==
  /\ InLoop
  /\ step_timer
  /\ \/ /\ canceling \/ cancel_requested
        /\ Finish("interrupted")
        /\ UNCHANGED stream
     \/ /\ ~(canceling \/ cancel_requested)
        /\ Finish("failed")
        /\ UNCHANGED stream
     \/ /\ ~(canceling \/ cancel_requested)
        /\ stream' = TRUE
        /\ step_timer' = FALSE
        /\ Continue
        /\ UNCHANGED stack
  /\ UNCHANGED <<sessVars, repair_next, turns, exec, turnFlags, usageVars, callVars>>

WarnAt == (ContextLength * ContextWarnPct) \div 100
Budget == (ContextLength * ContextPct) \div 100

(* maybe_warn_context, after the usage of a response was noted. *)
WarnContext(t) ==
  context_warned \/ (ContextLength > 0 /\ ContextWarnPct > 0 /\ t > 0 /\ t >= WarnAt)

(* Mutant: the budget may be filled to the last token. *)
PastBudget == ContextLength > 0 /\ tokens > 0 /\ tokens > Budget

(* The context stop of next_step. *)
OverBudget == ContextLength > 0 /\ tokens > 0 /\ tokens >= Budget

(* Mutant: the cancel that raced the response is forgotten. *)
BeginRoundIgnoresCancel == stack' = "driver" /\ UNCHANGED canceling

(* What provider_on_done does with the calls of a response: answer them    *)
(* synthetically if a cancel raced it, drive them otherwise.               *)
BeginRound ==
  /\ canceling' = (canceling \/ cancel_requested)
  /\ stack' = IF cancel_requested THEN "synthetics" ELSE "driver"

(* provider_on_done: the assistant message is appended; without calls the  *)
(* turn is done even if a cancel raced it; with calls the round begins.    *)
ProviderDone(c, u) ==
  /\ InLoop
  /\ stream
  /\ stream' = FALSE
  /\ tokens' = IF u > 0 THEN u ELSE tokens
  /\ context_warned' = WarnContext(tokens')
  /\ \/ /\ AppendFails(AssistantMsg(c)) \/ AppendTooLong
        /\ Finish("failed")
        /\ UNCHANGED <<calls, tool_index, canceling>>
     \/ /\ AppendOk(AssistantMsg(c))
        /\ c = << >>
        /\ Finish("done")
        /\ UNCHANGED <<calls, tool_index, canceling>>
     \/ /\ AppendOk(AssistantMsg(c))
        /\ c # << >>
        /\ calls' = c
        /\ tool_index' = 0
        /\ BeginRound
        /\ Continue
        /\ UNCHANGED step_timer
  /\ UNCHANGED <<repair_next, turns, exec, cancel_requested, failing, step>>

(* provider_on_error. *)
ProviderError ==
  /\ InLoop
  /\ stream
  /\ stream' = FALSE
  /\ Finish(IF cancel_requested THEN "interrupted" ELSE "failed")
  /\ UNCHANGED <<sessVars, repair_next, turns, exec, turnFlags, usageVars, callVars>>

(* Mutant: a failed append is not noticed. *)
ToolCompletedUnchecked ==
  LET answer == ToolMsg(calls[tool_index + 1]) IN
  /\ AppendOk(answer) \/ AppendFails(answer) \/ AppendTooLong
  /\ tool_index' = tool_index + 1
  /\ UNCHANGED failing

(* tool_completed: the answer to the current call is appended; if that     *)
(* fails the turn stops appending.                                         *)
ToolCompleted ==
  LET answer == ToolMsg(calls[tool_index + 1]) IN
  \/ /\ AppendOk(answer)
     /\ tool_index' = tool_index + 1
     /\ UNCHANGED failing
  \/ /\ AppendFails(answer) \/ AppendTooLong
     /\ failing' = TRUE
     /\ UNCHANGED tool_index

(* The loop condition of drive_tools. *)
Driving == stack = "driver" /\ tool_index < Len(calls) /\ ~canceling /\ ~failing

(* start_tool, for a call that completes inline: an unknown tool, bad      *)
(* arguments, a refusal of the gate, or a synchronous tool.                *)
StartInlineTool ==
  /\ Driving
  /\ ToolCompleted
  /\ UNCHANGED <<procVars, turn, outcome, stack, stream, exec, step_timer,
                 cancel_requested, canceling, usageVars, calls, step>>

(* start_tool, for a tool that runs on: bash. *)
StartAsyncTool ==
  /\ Driving
  /\ exec' = TRUE
  /\ stack' = "loop"
  /\ UNCHANGED <<sessVars, procVars, turn, outcome, stream, step_timer,
                 turnFlags, usageVars, callVars>>

(* agent_tool_done from the event loop re-enters the driver. *)
ToolDone ==
  /\ InLoop
  /\ exec
  /\ exec' = FALSE
  /\ ToolCompleted
  /\ stack' = "driver"
  /\ UNCHANGED <<procVars, turn, outcome, stream, step_timer,
                 cancel_requested, canceling, usageVars, calls, step>>

(* next_step: the step cap, then the context budget, then the next request *)
(* from a fresh tick.                                                      *)
NextStep ==
  /\ step' = step + 1
  /\ IF step + 1 >= StepCap THEN Finish("stepcap")
     ELSE IF OverBudget THEN Finish("contextlimit")
     ELSE /\ step_timer' = TRUE
          /\ stack' = "loop"
          /\ Continue

(* Mutant: a canceled round ends without the synthetic answers. *)
DriverExitNoSynthetics ==
  /\ stack = "driver"
  /\ ~Driving
  /\ IF failing \/ canceling
     THEN Finish(IF failing THEN "failed" ELSE "interrupted") /\ UNCHANGED step
     ELSE NextStep
  /\ UNCHANGED <<sessVars, repair_next, turns, stream, exec, turnFlags, usageVars,
                 calls, tool_index>>

(* drive_tools after its loop. *)
DriverExit ==
  /\ stack = "driver"
  /\ ~Driving
  /\ \/ /\ failing
        /\ Finish("failed")
        /\ UNCHANGED step
     \/ /\ ~failing /\ canceling
        /\ stack' = "synthetics"
        /\ Continue
        /\ UNCHANGED <<step, step_timer>>
     \/ /\ ~failing /\ ~canceling
        /\ NextStep
  /\ UNCHANGED <<sessVars, repair_next, turns, stream, exec, turnFlags, usageVars,
                 calls, tool_index>>

(* finish_with_synthetics: one "[interrupted]" answer per open call; a     *)
(* failed append ends the loop; the turn was interrupted either way.       *)
AnswerInterrupted ==
  /\ stack = "synthetics"
  /\ tool_index < Len(calls)
  /\ AppendOk(ToolMsg(calls[tool_index + 1]))
  /\ tool_index' = tool_index + 1
  /\ UNCHANGED <<procVars, turn, outcome, stack, stream, exec, step_timer, turnFlags,
                 usageVars, calls, step>>

FinishInterrupted ==
  /\ stack = "synthetics"
  /\ \/ tool_index >= Len(calls) /\ UNCHANGED sessVars
     \/ tool_index < Len(calls) /\ AppendFails(ToolMsg(calls[tool_index + 1]))
  /\ Finish("interrupted")
  /\ UNCHANGED <<repair_next, turns, stream, exec, turnFlags, usageVars, callVars>>

---------------------------------------------------------------------------
(* Cancellation. *)

(* agent_turn_cancel.  A live stream is canceled at the provider, whose    *)
(* on_error comes later, or at once if the stream was waiting to retry; a  *)
(* running tool is killed; between steps the flag is all.                  *)
Cancel ==
  \/ /\ stream
     /\ cancel_requested' = TRUE
     /\ UNCHANGED <<turn, outcome, proc, stack, stream, step_timer, canceling>>
  \/ /\ stream
     /\ ~cancel_requested
     /\ cancel_requested' = TRUE
     /\ stream' = FALSE
     /\ turn' = "finished" /\ outcome' = "interrupted" /\ proc' = "prompt"
     /\ stack' = "loop" /\ step_timer' = FALSE
     /\ UNCHANGED canceling
  \/ /\ ~stream
     /\ canceling' = TRUE
     /\ UNCHANGED <<turn, outcome, proc, stack, stream, step_timer, cancel_requested>>

(* sigint_cb: the first SIGINT of a turn cancels it. *)
FirstSigint ==
  /\ InLoop
  /\ sigints = 0 /\ sigints < MaxSigints
  /\ Cancel
  /\ sigints' = IF proc' = "turn" THEN 1 ELSE 0
  /\ UNCHANGED <<sessVars, repair_next, turns, exec, failing, usageVars, callVars>>

(* sigint_cb: the second one stops the loop.  run_one_turn returns with    *)
(* the turn unfinished and run_agent frees the session.  What the turn's   *)
(* late callbacks then do to freed memory is not modelled.                 *)
SecondSigint ==
  /\ InLoop
  /\ sigints > 0 /\ sigints < MaxSigints
  /\ sigints' = sigints + 1
  /\ proc' = "drain"
  /\ Detach
  /\ UNCHANGED <<repair_next, turns, turnVars>>

(* on_text cannot write to stdout: the turn is canceled from within a      *)
(* provider callback.                                                      *)
OnTextFails ==
  /\ InLoop
  /\ stream /\ ~cancel_requested
  /\ cancel_requested' = TRUE
  /\ UNCHANGED <<sessVars, procVars, turn, outcome, stack, stream, exec, step_timer,
                 canceling, failing, usageVars, callVars>>

---------------------------------------------------------------------------
Respond == ProviderError \/ \E c \in Calls, u \in Usage : ProviderDone(c, u)

(* What the program runs to completion once started. *)
Run == StartInlineTool \/ StartAsyncTool \/ DriverExit \/ AnswerInterrupted \/ FinishInterrupted

Next ==
  \/ Resume \/ RepairCall \/ RepairDone \/ RepairFails
  \/ Exit \/ Kill \/ OsCrash
  \/ TurnStart \/ TurnStartFails
  \/ StepTimer \/ Respond \/ ToolDone \/ Run
  \/ FirstSigint \/ SecondSigint \/ OnTextFails

Spec == Init /\ [][Next]_vars

(* The event loop runs what is ready: a started callback runs to its end,  *)
(* the step timer fires, a canceled stream is reaped and reports, a        *)
(* canceled tool completes.  This takes for granted that the user answers  *)
(* the gate's y/N within StartInlineTool or StartAsyncTool, and that a     *)
(* tool's kill is not refused for ever (see BashExec's ExecutionEnds).     *)
CancelFairness ==
  /\ WF_vars(Run)
  /\ WF_vars(StepTimer)
  /\ WF_vars(cancel_requested /\ Respond)
  /\ WF_vars(canceling /\ ToolDone)

CancelSpec == Spec /\ CancelFairness

---------------------------------------------------------------------------
(* Properties. *)

(* Every variable holds a value of its type; the step count stays within   *)
(* the cap and the tool index within the round.                            *)
TypeOK ==
  /\ LogTypeOK
  /\ proc \in {"down", "repair", "prompt", "turn", "drain"}
  /\ repair_next \in Nat /\ sigints \in Nat /\ turns \in Nat
  /\ turn \in {"none", "live", "finished"}
  /\ outcome \in {"none", "done", "failed", "interrupted", "stepcap", "contextlimit"}
  /\ stack \in {"loop", "driver", "synthetics"}
  /\ stream \in BOOLEAN /\ exec \in BOOLEAN /\ step_timer \in BOOLEAN
  /\ step \in 0 .. StepCap /\ calls \in Calls /\ tool_index \in 0 .. Len(calls)
  /\ cancel_requested \in BOOLEAN /\ canceling \in BOOLEAN /\ failing \in BOOLEAN
  /\ tokens \in Nat /\ context_warned \in BOOLEAN

(* The calls of message i are answered by the messages right behind it, in *)
(* order.                                                                  *)
Answered(c, i) ==
  \A k \in DOMAIN c[i].calls : i + k <= Len(c) /\ c[i + k] = ToolMsg(c[i].calls[k])

(* A conversation the provider accepts: every round is answered, and every *)
(* tool message answers a call of the round before it.                     *)
WellFormed(c) ==
  /\ \A i \in DOMAIN c : Answered(c, i)
  /\ \A j \in DOMAIN c : c[j].role = "tool" =>
       \E i \in 1 .. j - 1 : j <= i + Len(c[i].calls)

(* Every request is issued over a well-formed conversation, whatever       *)
(* interrupts, failed appends, crashes and resumes came before: the rounds *)
(* drive_tools, finish_with_synthetics and agent_repair_session leave      *)
(* behind are complete or the session takes no further message.            *)
RequestWellFormed == stream => WellFormed(view)

(* Between turns a conversation has an open round only if the session      *)
(* takes no more messages in this process (poisoned or full).              *)
OpenRoundOnlyIfSealed ==
  proc = "prompt" /\ ~latched /\ Len(view) < MaxMessages => WellFormed(view)

(* A live turn whose callbacks are all off the stack waits for exactly one *)
(* thing: its stream, its tool or its step timer.  With none the loop      *)
(* would run out and run_one_turn would report an interrupt nobody made;   *)
(* with two the turn would run twice.                                      *)
OneWakeup ==
  InLoop => \/ stream /\ ~exec /\ ~step_timer
            \/ ~stream /\ exec /\ ~step_timer
            \/ ~stream /\ ~exec /\ step_timer

(* Once on_finish has fired nothing can call back into the turn, whose     *)
(* memory finish_turn frees a tick later.                                  *)
QuietAfterFinish ==
  turn = "finished" => ~stream /\ ~exec /\ ~step_timer /\ stack = "loop"

(* A turn is woken by exactly one thing while it lives and by nothing once *)
(* it has finished.                                                        *)
WaitsOrQuiet == OneWakeup /\ QuietAfterFinish

(* What on_finish reports is what the session records: done ends with a    *)
(* plain answer, the step cap and the context budget stop behind a fully   *)
(* answered round, and an interrupt leaves no call open unless the session *)
(* refused the answer.  A budget stop has warned the user before, when the *)
(* warning threshold lies at or below the budget.                          *)
OutcomeMatchesRecord ==
  /\ outcome = "done" => view[Len(view)] = AssistantMsg(<< >>)
  /\ outcome \in {"stepcap", "contextlimit"} =>
       WellFormed(view) /\ view[Len(view)].role = "tool"
  /\ outcome = "interrupted" /\ ~latched /\ Len(view) < MaxMessages => WellFormed(view)
  /\ outcome = "contextlimit" /\ 0 < ContextWarnPct /\ WarnAt <= Budget => context_warned

(* The limits of a turn, at their boundaries: it makes no request when the *)
(* usage it last saw is context_pct percent of the window or more, and     *)
(* none past the step cap; it stops for its context within a token of that *)
(* percentage only, which the code rounds down, and before its steps are   *)
(* used up; and for its steps when they are.                               *)
StopsAtLimits ==
  /\ stream => /\ step < StepCap
               /\ 0 < ContextLength /\ 0 < tokens => 100 * tokens < ContextLength * ContextPct
  /\ outcome = "contextlimit" =>
       step < StepCap /\ ContextLength * ContextPct < 100 * (tokens + 1)
  /\ outcome = "stepcap" => step = StepCap

(* Once a cancel is requested nothing new starts: no request, no tool,     *)
(* neither inline nor in the background, not even when the response landed *)
(* in the same chunk as the cancel.  Open calls are only answered.         *)
NothingStartsAfterCancel ==
  [][canceling \/ cancel_requested =>
       /\ stream' => stream
       /\ exec' => exec
       /\ stack = "driver" => tool_index' <= tool_index]_vars

(* A canceled turn finishes, in whatever phase the cancel lands, and every *)
(* turn does if, beyond that, every response ends (the stall detection of  *)
(* http.c ends a silent one) and every tool does (bash has a hard timeout):*)
(* no cancel is lost, and no failure leaves the turn waiting for nothing.  *)
TurnFinishes ==
  /\ (proc = "turn" /\ (cancel_requested \/ canceling)) ~> (proc # "turn")
  /\ WF_vars(Respond) /\ WF_vars(ToolDone) => ((proc = "turn") ~> (proc # "turn"))

(* agent.c:517-519: "Only the last such round can dangle", as the repair   *)
(* of a resumed session takes for granted.  (A result too long for a       *)
(* session line leaves its round open and the session usable.)             *)
EarlierRoundsComplete ==
  \A i \in Rounds(log) : i < LastRound(log) => Answered(log, i)

(* main.c:514: "the turn borrowed it and is finished", of the session      *)
(* run_agent frees.  (After a second SIGINT the turn is not finished.)     *)
SessionOutlivesTurn == turn = "live" => attached

(* Of the two, at least one is true.  A state that refutes this refutes    *)
(* both.                                                                   *)
SomeSessionPromiseKept == EarlierRoundsComplete \/ SessionOutlivesTurn

===========================================================================
