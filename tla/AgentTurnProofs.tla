-------------------------- MODULE AgentTurnProofs --------------------------
(***************************************************************************)
(* The turn loop, for every set of calls, every cap and budget, any number *)
(* of turns and interrupts and all faults.                                 *)
(*                                                                         *)
(* Control: a waiting turn waits for one thing, a finished one for         *)
(* nothing, and a canceled one starts nothing.                             *)
(*                                                                         *)
(* Conversation: unless a line was refused for its length alone, only the  *)
(* last round of the log is ever open, it is open exactly as far as        *)
(* tool_index (or the repair) says, and it is closed or the session sealed *)
(* before the next request.                                                *)
(***************************************************************************)
EXTENDS AgentTurn, WellFoundedInduction, TLAPS

(* A set of numbers that is not empty has a least one.                     *)
LEMMA LeastElement ==
  ASSUME NEW S \in SUBSET Nat, S # {}
  PROVE  \E x \in S : \A y \in S : x <= y
<1>. DEFINE Less == {p \in Nat \X Nat : p[1] < p[2]}
<1>1. IsWellFoundedOn(Less, Nat)
  BY NatLessThanWellFounded, Zenon DEF OpToRel
<1>2. PICK x \in S : \A y \in S : ~ (<<y, x>> \in Less)
  BY <1>1, WFMin
<1>3. \A y \in S : x \in Nat /\ y \in Nat /\ (y < x => <<y, x>> \in Less)
  OBVIOUS
<1>. HIDE DEF Less
<1>4. \A y \in S : ~ (y < x)
  BY <1>2, <1>3
<1>. QED  BY <1>3, <1>4

(* A bounded set of numbers that is not empty has a greatest one.         *)
LEMMA GreatestElement ==
  ASSUME NEW S \in SUBSET Nat, S # {}, NEW n \in Nat, \A x \in S : x <= n
  PROVE  \E x \in S : \A y \in S : y <= x
<1>. DEFINE T == {n - x : x \in S}
<1>1. T \in SUBSET Nat /\ T # {}
  <2>1. \A x \in S : n - x \in Nat
    OBVIOUS
  <2>. QED
    BY <2>1
<1>2. PICK t \in T : \A u \in T : t <= u
  BY <1>1, LeastElement
<1>3. PICK x \in S : t = n - x
  BY <1>2
<1>4. \A y \in S : n - y \in T
  OBVIOUS
<1>5. \A y \in S : n - x <= n - y
  BY <1>2, <1>3, <1>4
<1>6. \A y \in S : y \in Nat
  OBVIOUS
<1>. QED
  BY <1>5, <1>6

---------------------------------------------------------------------------

ControlTypes ==
  /\ proc \in {"down", "repair", "prompt", "turn", "drain"}
  /\ turn \in {"none", "live", "finished"}
  /\ stack \in {"loop", "driver", "synthetics"}
  /\ stream \in BOOLEAN /\ exec \in BOOLEAN /\ step_timer \in BOOLEAN
  /\ cancel_requested \in BOOLEAN /\ canceling \in BOOLEAN
  /\ tool_index \in Nat

(* The process is in a turn while the turn is live; a second SIGINT leaves *)
(* it live and drains.                                                     *)
TurnIsLive ==
  /\ proc = "turn" => turn = "live"
  /\ turn = "live" => proc \in {"turn", "drain"}

(* While the driver or the synthetic answers run nothing is waited for. *)
BusyWaitsForNothing == stack # "loop" => proc = "turn" /\ ~stream /\ ~exec /\ ~step_timer

(* A cancel of the stream is taken up as soon as the stream ends. *)
CancelTakenUp == turn = "live" /\ cancel_requested => stream \/ stack = "synthetics"

Control ==
  /\ ControlTypes /\ TurnIsLive /\ BusyWaitsForNothing /\ CancelTakenUp
  /\ OneWakeup /\ QuietAfterFinish

---------------------------------------------------------------------------

(* A process that has not started satisfies Control. *)
LEMMA InitControl == Init => Control
<1>. SUFFICES ASSUME Init PROVE Control
  OBVIOUS
<1>1. /\ proc = "down" /\ turn = "none" /\ stack = "loop" /\ tool_index = 0
      /\ stream = FALSE /\ exec = FALSE /\ step_timer = FALSE
      /\ cancel_requested = FALSE /\ canceling = FALSE
  BY DEF Init
<1>. QED
  BY <1>1 DEF Control, ControlTypes, TurnIsLive, BusyWaitsForNothing, CancelTakenUp, OneWakeup,
              QuietAfterFinish, InLoop

(* Nothing of the turn changes while the session is opened and repaired. *)
LEMMA RepairControl ==
  ASSUME Control, Resume \/ RepairCall \/ RepairDone \/ RepairFails PROVE Control'
<1>1. proc \in {"down", "repair"} /\ proc' \in {"repair", "prompt", "drain"} /\ UNCHANGED turnVars
  BY DEF Resume, RepairCall, RepairDone, RepairFails
<1>. QED
  BY <1>1 DEF Control, ControlTypes, TurnIsLive, BusyWaitsForNothing, CancelTakenUp, OneWakeup,
       QuietAfterFinish, InLoop, turnVars, turnFlags, callVars

(* A process that ends leaves no turn. *)
LEMMA DownControl == ASSUME Down PROVE Control'
BY DEF Down, Control, ControlTypes, TurnIsLive, BusyWaitsForNothing, CancelTakenUp, OneWakeup,
       QuietAfterFinish, InLoop

(* agent_turn_start arms the step timer and nothing else. *)
LEMMA StartControl == ASSUME Control, TurnStart \/ TurnStartFails PROVE Control'
<1>. USE DEF Control, ControlTypes, TurnIsLive, BusyWaitsForNothing, CancelTakenUp, OneWakeup,
       QuietAfterFinish, InLoop
<1>1. CASE TurnStart
  BY <1>1 DEF TurnStart
<1>2. CASE TurnStartFails
  BY <1>2 DEF TurnStartFails, turnVars, turnFlags, callVars
<1>. QED
  BY <1>1, <1>2

(* A turn that finishes with its stream and its tool gone is quiet. *)
LEMMA FinishControl ==
  ASSUME Control, NEW o, Finish(o), stream' = FALSE, exec' = FALSE,
         cancel_requested' \in BOOLEAN, canceling' \in BOOLEAN, tool_index' \in Nat
  PROVE  Control'
BY DEF Finish, Control, ControlTypes, TurnIsLive, BusyWaitsForNothing, CancelTakenUp, OneWakeup,
       QuietAfterFinish, InLoop

(* step_timer_cb trades the timer for a stream, or finishes. *)
LEMMA StepTimerControl == ASSUME Control, StepTimer PROVE Control'
<1>1. /\ ~stream /\ ~exec /\ exec' = FALSE
      /\ cancel_requested' \in BOOLEAN /\ canceling' \in BOOLEAN /\ tool_index' \in Nat
  BY DEF Control, ControlTypes, OneWakeup, StepTimer, InLoop, turnFlags, callVars
<1>2. CASE \E o \in {"interrupted", "failed"} : Finish(o) /\ UNCHANGED stream
  <2>1. PICK o \in {"interrupted", "failed"} : Finish(o) /\ UNCHANGED stream
    BY <1>2
  <2>2. stream' = FALSE
    BY <1>1, <2>1 DEF Control, ControlTypes
  <2>. QED
    BY <1>1, <2>1, <2>2, FinishControl
<1>3. CASE /\ ~(canceling \/ cancel_requested) /\ stream' = TRUE /\ step_timer' = FALSE
           /\ Continue /\ UNCHANGED stack
  BY <1>1, <1>3 DEF StepTimer, Continue, Control, ControlTypes, TurnIsLive, BusyWaitsForNothing,
       CancelTakenUp, OneWakeup, QuietAfterFinish, InLoop, turnFlags
<1>. QED
  BY <1>2, <1>3 DEF StepTimer

(* A stream that has ended leaves its turn to the driver, to the synthetic *)
(* answers if a cancel raced it, or finished.                              *)
LEMMA RespondControl == ASSUME Control, Respond PROVE Control'
<1>1. CASE ProviderError
  <2>1. /\ stream' = FALSE /\ exec' = FALSE
        /\ cancel_requested' \in BOOLEAN /\ canceling' \in BOOLEAN /\ tool_index' \in Nat
    BY <1>1 DEF Control, ControlTypes, OneWakeup, ProviderError, InLoop, turnFlags, callVars
  <2>2. Finish(IF cancel_requested THEN "interrupted" ELSE "failed")
    BY <1>1 DEF ProviderError
  <2>. QED
    BY <2>1, <2>2, FinishControl
<1>2. ASSUME NEW c \in Calls, NEW u \in Usage, ProviderDone(c, u) PROVE Control'
  <2>1. /\ stream' = FALSE /\ exec' = FALSE /\ ~step_timer /\ ~exec
        /\ cancel_requested' \in BOOLEAN /\ UNCHANGED cancel_requested
        /\ proc = "turn"
    BY <1>2 DEF Control, ControlTypes, OneWakeup, ProviderDone, InLoop
  <2>2. CASE \E o \in {"failed", "done"} : Finish(o) /\ UNCHANGED <<calls, tool_index, canceling>>
    <3>1. PICK o \in {"failed", "done"} : Finish(o) /\ UNCHANGED <<calls, tool_index, canceling>>
      BY <2>2
    <3>2. canceling' \in BOOLEAN /\ tool_index' \in Nat
      BY <3>1 DEF Control, ControlTypes
    <3>. QED
      BY <2>1, <3>1, <3>2, FinishControl
  <2>3. CASE tool_index' = 0 /\ BeginRound /\ Continue /\ UNCHANGED step_timer
    <3>1. canceling' \in BOOLEAN /\ stack' \in {"driver", "synthetics"}
          /\ (cancel_requested => stack' = "synthetics")
      BY <2>3 DEF BeginRound, Control, ControlTypes
    <3>. QED
      BY <2>1, <2>3, <3>1 DEF Continue, Control, ControlTypes, TurnIsLive, BusyWaitsForNothing,
         CancelTakenUp, OneWakeup, QuietAfterFinish, InLoop
  <2>. QED
    BY <1>2, <2>2, <2>3 DEF ProviderDone
<1>. QED
  BY <1>1, <1>2 DEF Respond

(* tool_completed moves the index by at most one call. *)
LEMMA ToolCompletedIndex ==
  ASSUME tool_index \in Nat, ToolCompleted PROVE tool_index' \in Nat
BY DEF ToolCompleted

(* A tool runs on, completes inline, or completes from the loop. *)
LEMMA ToolControl ==
  ASSUME Control, ToolDone \/ StartInlineTool \/ StartAsyncTool PROVE Control'
<1>. USE DEF Control, ControlTypes, TurnIsLive, BusyWaitsForNothing, CancelTakenUp, OneWakeup,
       QuietAfterFinish, InLoop, procVars
<1>1. CASE ToolDone
  BY <1>1, ToolCompletedIndex DEF ToolDone
<1>2. CASE StartInlineTool
  BY <1>2, ToolCompletedIndex DEF StartInlineTool
<1>3. CASE StartAsyncTool
  BY <1>3 DEF StartAsyncTool, Driving, turnFlags, callVars
<1>. QED
  BY <1>1, <1>2, <1>3

(* drive_tools leaves the turn to the synthetics, the timer or its end. *)
LEMMA DriverExitControl == ASSUME Control, DriverExit PROVE Control'
<1>1. /\ stack = "driver" /\ proc = "turn" /\ turn = "live" /\ ~stream /\ ~exec /\ ~step_timer
      /\ ~cancel_requested
      /\ stream' = FALSE /\ exec' = FALSE /\ UNCHANGED <<cancel_requested, canceling, tool_index>>
      /\ cancel_requested' \in BOOLEAN /\ canceling' \in BOOLEAN /\ tool_index' \in Nat
  BY DEF Control, ControlTypes, TurnIsLive, BusyWaitsForNothing, CancelTakenUp, DriverExit,
         turnFlags
<1>2. CASE \E o \in {"failed", "stepcap", "contextlimit"} : Finish(o)
  BY <1>1, <1>2, FinishControl
<1>3. CASE stack' = "synthetics" /\ Continue /\ UNCHANGED step_timer
  BY <1>1, <1>3 DEF Continue, Control, ControlTypes, TurnIsLive, BusyWaitsForNothing,
       CancelTakenUp, OneWakeup, QuietAfterFinish, InLoop
<1>4. CASE step_timer' = TRUE /\ stack' = "loop" /\ Continue
  BY <1>1, <1>4 DEF Continue, Control, ControlTypes, TurnIsLive, BusyWaitsForNothing,
       CancelTakenUp, OneWakeup, QuietAfterFinish, InLoop
<1>. QED
  BY <1>2, <1>3, <1>4 DEF DriverExit, NextStep

(* finish_with_synthetics waits for nothing and ends the turn. *)
LEMMA SyntheticsControl ==
  ASSUME Control, AnswerInterrupted \/ FinishInterrupted PROVE Control'
<1>1. CASE AnswerInterrupted
  BY <1>1 DEF AnswerInterrupted, procVars, turnFlags, Control, ControlTypes, TurnIsLive,
       BusyWaitsForNothing, CancelTakenUp, OneWakeup, QuietAfterFinish, InLoop
<1>2. CASE FinishInterrupted
  <2>1. /\ stream' = FALSE /\ exec' = FALSE
        /\ cancel_requested' \in BOOLEAN /\ canceling' \in BOOLEAN /\ tool_index' \in Nat
    BY <1>2 DEF FinishInterrupted, Control, ControlTypes, BusyWaitsForNothing, turnFlags, callVars
  <2>2. Finish("interrupted")
    BY <1>2 DEF FinishInterrupted
  <2>. QED
    BY <2>1, <2>2, FinishControl
<1>. QED
  BY <1>1, <1>2

(* A SIGINT or a failed on_text leaves what the turn waits for. *)
LEMMA CancelControl ==
  ASSUME Control, FirstSigint \/ SecondSigint \/ OnTextFails PROVE Control'
<1>. USE DEF Control, ControlTypes, TurnIsLive, BusyWaitsForNothing, CancelTakenUp, OneWakeup,
       QuietAfterFinish, InLoop, procVars, turnFlags, callVars
<1>1. CASE FirstSigint
  <2>1. InLoop /\ Cancel /\ UNCHANGED <<exec, tool_index>>
    BY <1>1 DEF FirstSigint
  <2>2. CASE /\ stream /\ cancel_requested' = TRUE
             /\ UNCHANGED <<turn, proc, stack, stream, step_timer, canceling>>
    BY <2>1, <2>2
  <2>3. CASE /\ stream /\ stream' = FALSE /\ cancel_requested' = TRUE
             /\ turn' = "finished" /\ proc' = "prompt" /\ stack' = "loop" /\ step_timer' = FALSE
             /\ UNCHANGED canceling
    BY <2>1, <2>3
  <2>4. CASE /\ ~stream /\ canceling' = TRUE
             /\ UNCHANGED <<turn, proc, stack, stream, step_timer, cancel_requested>>
    BY <2>1, <2>4
  <2>. QED
    BY <2>1, <2>2, <2>3, <2>4, Zenon DEF Cancel
<1>2. CASE SecondSigint
  BY <1>2 DEF SecondSigint, turnVars
<1>3. CASE OnTextFails
  BY <1>3 DEF OnTextFails
<1>. QED
  BY <1>1, <1>2, <1>3

(* A step that changes nothing keeps Control. *)
LEMMA StutterControl == ASSUME Control, UNCHANGED vars PROVE Control'
BY DEF Control, ControlTypes, TurnIsLive, BusyWaitsForNothing, CancelTakenUp, OneWakeup,
       QuietAfterFinish, InLoop, vars, procVars, turnVars, turnFlags, callVars

(* Control is inductive. *)
LEMMA StepControl == ASSUME Control, [Next]_vars PROVE Control'
<1>1. CASE Resume \/ RepairCall \/ RepairDone \/ RepairFails
  BY <1>1, RepairControl
<1>2. CASE Exit \/ Kill \/ OsCrash
  BY <1>2, DownControl DEF Exit, Kill, OsCrash
<1>3. CASE TurnStart \/ TurnStartFails
  BY <1>3, StartControl
<1>4. CASE StepTimer
  BY <1>4, StepTimerControl
<1>5. CASE Respond
  BY <1>5, RespondControl
<1>6. CASE ToolDone \/ StartInlineTool \/ StartAsyncTool
  BY <1>6, ToolControl
<1>7. CASE DriverExit
  BY <1>7, DriverExitControl
<1>8. CASE AnswerInterrupted \/ FinishInterrupted
  BY <1>8, SyntheticsControl
<1>9. CASE FirstSigint \/ SecondSigint \/ OnTextFails
  BY <1>9, CancelControl
<1>10. CASE UNCHANGED vars
  BY <1>10, StutterControl
<1>. QED
  BY <1>1, <1>2, <1>3, <1>4, <1>5, <1>6, <1>7, <1>8, <1>9, <1>10 DEF Next, Run

THEOREM ControlInvariant == Spec => []Control
BY InitControl, StepControl, PTL DEF Spec

(* A live turn between two callbacks waits for exactly one thing. *)
THEOREM WaitsForOneThing == Spec => []OneWakeup
<1>1. Control => OneWakeup
  BY DEF Control
<1>. QED
  BY <1>1, ControlInvariant, PTL

(* Nothing can call back into a turn that has finished: no stream, tool or *)
(* timer is left when on_finish fires.                                     *)
THEOREM FinishedTurnIsQuiet == Spec => []QuietAfterFinish
<1>1. Control => QuietAfterFinish
  BY DEF Control
<1>. QED
  BY <1>1, ControlInvariant, PTL

(* A turn is never left without anything to wake it, never woken twice,    *)
(* and never called back after its end.                                    *)
THEOREM WokenOnce == Spec => []WaitsOrQuiet
<1>1. OneWakeup /\ QuietAfterFinish => WaitsOrQuiet
  BY DEF WaitsOrQuiet
<1>. QED
  BY <1>1, WaitsForOneThing, FinishedTurnIsQuiet, PTL

(* A canceled turn issues no request and runs no tool. *)
THEOREM CancelIsFinal == Spec => NothingStartsAfterCancel
<1>. DEFINE A == canceling \/ cancel_requested =>
                   /\ stream' => stream
                   /\ exec' => exec
                   /\ stack = "driver" => tool_index' <= tool_index
<1>1. Control /\ [Next]_vars => [A]_vars
  <2>. SUFFICES ASSUME Control, Next, canceling \/ cancel_requested
                PROVE /\ stream' => stream
                      /\ exec' => exec
                      /\ stack = "driver" => tool_index' <= tool_index
    OBVIOUS
  <2>0. tool_index \in Nat
    BY DEF Control, ControlTypes
  <2>1. CASE Resume \/ RepairCall \/ RepairDone \/ RepairFails
    BY <2>0, <2>1 DEF Resume, RepairCall, RepairDone, RepairFails, turnVars, callVars
  <2>2. CASE Exit \/ Kill \/ OsCrash
    BY <2>0, <2>2 DEF Exit, Kill, OsCrash, Down
  <2>3. CASE TurnStart \/ TurnStartFails
    BY <2>0, <2>3 DEF TurnStart, TurnStartFails, turnVars, callVars
  <2>4. CASE StepTimer
    BY <2>0, <2>4 DEF StepTimer, callVars
  <2>5. CASE Respond
    BY <2>0, <2>5 DEF Respond, ProviderError, ProviderDone, InLoop
  <2>6. CASE ToolDone
    BY <2>0, <2>6 DEF ToolDone, InLoop
  <2>7. CASE StartInlineTool \/ StartAsyncTool
    BY <2>7 DEF StartInlineTool, StartAsyncTool, Driving, Control, TurnIsLive,
                BusyWaitsForNothing, CancelTakenUp
  <2>8. CASE DriverExit \/ AnswerInterrupted \/ FinishInterrupted
    BY <2>0, <2>8 DEF DriverExit, AnswerInterrupted, FinishInterrupted, callVars
  <2>9. CASE FirstSigint \/ SecondSigint \/ OnTextFails
    BY <2>0, <2>9 DEF FirstSigint, SecondSigint, OnTextFails, Cancel, turnVars, callVars
  <2>. QED
    BY <2>1, <2>2, <2>3, <2>4, <2>5, <2>6, <2>7, <2>8, <2>9 DEF Next, Run
<1>. QED
  BY <1>1, ControlInvariant, PTL DEF Spec, NothingStartsAfterCancel

---------------------------------------------------------------------------
(* The conversation. *)

(* A message never has more answers than its calls ask for, in order; what *)
(* is missing is missing at the end.  A log cut anywhere is still so.      *)
Begun(c) ==
  /\ \A i \in DOMAIN c : \A k \in DOMAIN c[i].calls :
       i + k <= Len(c) => c[i + k] = ToolMsg(c[i].calls[k])
  /\ \A j \in DOMAIN c : c[j].role = "tool" =>
       \E i \in 1 .. j - 1 : j <= i + Len(c[i].calls)

(* No message is too long for a line of the session file: what remains is  *)
(* a message that is added, torn, or refused by a sealed session.          *)
NoOversize == "oversize" \notin Faults

(* The session takes no further message. *)
Sealed == latched \/ Len(view) >= MaxMessages

(* The last message with calls is the turn's, its first tool_index calls   *)
(* are answered and nothing is behind them.                                *)
RoundOpen ==
  /\ calls # << >> /\ Len(view) - tool_index >= 1
  /\ view[Len(view) - tool_index].calls = calls

(* The log is the view, unless an append was torn. *)
LogFollows ==
  /\ Begun(log) /\ Begun(view)
  /\ attached /\ ~latched => log = view
  /\ ~attached => view = << >>

(* The repair has put the answers before repair_next in their places. *)
RepairInPlace ==
  proc = "repair" => \A k \in DOMAIN RepairCalls :
    k < repair_next => LastRound(view) + k <= Len(view)

(* Where the round is while the turn runs. *)
TurnRound ==
  /\ stream => WellFormed(view)
  /\ proc = "turn" /\ step_timer => WellFormed(view)
  /\ proc = "turn" /\ (stack # "loop" \/ exec) => RoundOpen
  /\ proc = "turn" /\ failing => stack = "driver" /\ Sealed

TurnBounds ==
  /\ proc = "repair" => repair_next >= 1
  /\ exec => tool_index < Len(calls)
  /\ proc = "turn" => step < StepCap
  /\ stream => proc \in {"turn", "drain"}
  /\ outcome # "none" => proc = "prompt"

WarnedInTime ==
  ContextLength > 0 /\ ContextWarnPct > 0 /\ tokens > 0 /\ tokens >= WarnAt => context_warned

Conversation ==
  /\ LogFollows /\ RepairInPlace /\ TurnRound /\ OpenRoundOnlyIfSealed /\ OutcomeMatchesRecord

---------------------------------------------------------------------------
(* About conversations. *)

(* The calls of a message are a sequence of different ids. *)
LEMMA CallsFacts ==
  /\ << >> \in Calls
  /\ \A c \in Calls :
       /\ c \in Seq(CallId) /\ Len(c) \in Nat /\ DOMAIN c = 1 .. Len(c)
       /\ \A i, j \in 1 .. Len(c) : c[i] = c[j] => i = j
       /\ c # << >> => Len(c) >= 1
<1>1. << >> \in Calls
  <2>1. << >> \in [1 .. 0 -> CallId] /\ 0 \in 0 .. MaxCalls
    BY AgentAssumption
  <2>. QED
    BY <2>1 DEF Calls
<1>2. ASSUME NEW c \in Calls
      PROVE  /\ c \in Seq(CallId) /\ Len(c) \in Nat /\ DOMAIN c = 1 .. Len(c)
             /\ \A i, j \in 1 .. Len(c) : c[i] = c[j] => i = j
             /\ c # << >> => Len(c) >= 1
  <2>1. PICK n \in 0 .. MaxCalls : c \in [1 .. n -> CallId]
    BY DEF Calls
  <2>2. c \in Seq(CallId) /\ Len(c) = n
    BY <2>1, AgentAssumption
  <2>3. \A i, j \in DOMAIN c : c[i] = c[j] => i = j
    BY DEF Calls
  <2>. QED
    BY <2>1, <2>2, <2>3
<1>. QED
  BY <1>1, <1>2

LEMMA MessageFacts ==
  /\ UserMsg \in Message /\ UserMsg.calls = << >> /\ UserMsg.role = "user"
  /\ \A c \in Calls : /\ AssistantMsg(c) \in Message /\ AssistantMsg(c).calls = c
                      /\ AssistantMsg(c).role = "assistant"
  /\ \A i \in CallId : ToolMsg(i) \in Message
  /\ \A i : ToolMsg(i).calls = << >> /\ ToolMsg(i).role = "tool" /\ ToolMsg(i).id = i
  /\ \A m \in Message : m.calls \in Calls
<1>1. UserMsg \in Message /\ UserMsg.calls = << >> /\ UserMsg.role = "user"
  BY DEF Message, UserMsg
<1>2. ASSUME NEW c \in Calls
      PROVE  /\ AssistantMsg(c) \in Message /\ AssistantMsg(c).calls = c
             /\ AssistantMsg(c).role = "assistant"
  BY DEF Message, AssistantMsg
<1>3. ASSUME NEW i \in CallId PROVE ToolMsg(i) \in Message
  BY DEF Message
<1>4. ASSUME NEW i
      PROVE  ToolMsg(i).calls = << >> /\ ToolMsg(i).role = "tool" /\ ToolMsg(i).id = i
  BY DEF ToolMsg
<1>5. ASSUME NEW m \in Message PROVE m.calls \in Calls
  BY <1>1, <1>2, <1>4, CallsFacts DEF Message
<1>. QED
  BY <1>1, <1>2, <1>3, <1>4, <1>5

(* A conversation and its messages. *)
LEMMA SeqFacts ==
  ASSUME NEW c \in Seq(Message)
  PROVE  /\ Len(c) \in Nat /\ DOMAIN c = 1 .. Len(c)
         /\ \A i \in DOMAIN c : /\ c[i] \in Message /\ c[i].calls \in Calls
                                /\ Len(c[i].calls) \in Nat
                                /\ DOMAIN c[i].calls = 1 .. Len(c[i].calls)
BY MessageFacts, CallsFacts

LEMMA AppendFacts ==
  ASSUME NEW c \in Seq(Message), NEW m \in Message
  PROVE  /\ Append(c, m) \in Seq(Message) /\ Len(Append(c, m)) = Len(c) + 1
         /\ \A i \in DOMAIN c : Append(c, m)[i] = c[i]
         /\ Append(c, m)[Len(c) + 1] = m
OBVIOUS

(* A round that is followed by another is complete. *)
LEMMA EarlierComplete ==
  ASSUME NEW c \in Seq(Message), Begun(c), NEW i \in DOMAIN c, NEW j \in DOMAIN c, i < j,
         c[j].calls # << >>
  PROVE  i + Len(c[i].calls) < j
<1>1. SUFFICES ASSUME i + Len(c[i].calls) >= j PROVE FALSE
  BY SeqFacts
<1>2. j - i \in DOMAIN c[i].calls /\ i + (j - i) = j /\ j <= Len(c)
  BY <1>1, SeqFacts
<1>3. c[j] = ToolMsg(c[i].calls[j - i])
  BY <1>2 DEF Begun
<1>. QED
  BY <1>3, MessageFacts

(* A conversation that has begun is well formed if no answer is missing. *)
LEMMA CompleteIsWellFormed ==
  ASSUME NEW c \in Seq(Message), Begun(c), \A i \in DOMAIN c : i + Len(c[i].calls) <= Len(c)
  PROVE  WellFormed(c)
<1>1. ASSUME NEW i \in DOMAIN c, NEW k \in DOMAIN c[i].calls
      PROVE  i + k <= Len(c) /\ c[i + k] = ToolMsg(c[i].calls[k])
  BY SeqFacts DEF Begun
<1>. QED
  BY <1>1 DEF Begun, WellFormed, Answered

LEMMA WellFormedIsComplete ==
  ASSUME NEW c \in Seq(Message), WellFormed(c)
  PROVE  Begun(c) /\ \A i \in DOMAIN c : i + Len(c[i].calls) <= Len(c)
<1>1. Begun(c)
  BY DEF Begun, WellFormed, Answered
<1>2. ASSUME NEW i \in DOMAIN c PROVE i + Len(c[i].calls) <= Len(c)
  <2>1. CASE Len(c[i].calls) = 0
    BY <2>1, SeqFacts
  <2>2. CASE Len(c[i].calls) # 0
    <3>1. Len(c[i].calls) \in DOMAIN c[i].calls
      BY <2>2, SeqFacts
    <3>. QED
      BY <3>1 DEF WellFormed, Answered
  <2>. QED
    BY <2>1, <2>2
<1>. QED
  BY <1>1, <1>2

(* A message behind a complete conversation begins what it calls for. *)
LEMMA BeginMessage ==
  ASSUME NEW c \in Seq(Message), WellFormed(c), NEW m \in Message, m.role # "tool"
  PROVE  /\ Begun(Append(c, m))
         /\ m.calls = << >> => WellFormed(Append(c, m))
<1>. DEFINE d == Append(c, m)
<1>1. /\ d \in Seq(Message) /\ Len(d) = Len(c) + 1 /\ Len(c) \in Nat
      /\ DOMAIN c = 1 .. Len(c) /\ DOMAIN d = 1 .. Len(c) + 1
      /\ \A i \in 1 .. Len(c) : d[i] = c[i]
      /\ d[Len(c) + 1] = m
  BY AppendFacts, SeqFacts
<1>2. Begun(c) /\ \A i \in DOMAIN c : i + Len(c[i].calls) <= Len(c)
  BY WellFormedIsComplete
<1>. HIDE DEF d
<1>3. ASSUME NEW i \in DOMAIN d, NEW k \in DOMAIN d[i].calls, i + k <= Len(d)
      PROVE  d[i + k] = ToolMsg(d[i].calls[k])
  <2>1. k \in Nat /\ k >= 1 /\ k <= Len(d[i].calls) /\ Len(d[i].calls) \in Nat
    BY <1>1, SeqFacts
  <2>2. i \in 1 .. Len(c)
    BY <1>1, <1>3, <2>1
  <2>3. k \in DOMAIN c[i].calls /\ i + k <= Len(c) /\ i + k \in 1 .. Len(c)
    BY <1>1, <1>2, <2>1, <2>2
  <2>. QED
    BY <1>1, <1>2, <2>2, <2>3 DEF Begun
<1>4. ASSUME NEW j \in DOMAIN d, d[j].role = "tool"
      PROVE  \E i \in 1 .. j - 1 : j <= i + Len(d[i].calls)
  <2>1. j \in 1 .. Len(c) /\ c[j].role = "tool"
    BY <1>1, <1>4
  <2>2. PICK i \in 1 .. j - 1 : j <= i + Len(c[i].calls)
    BY <1>1, <1>2, <2>1 DEF Begun
  <2>. QED
    BY <1>1, <2>1, <2>2
<1>5. Begun(d)
  BY <1>3, <1>4 DEF Begun
<1>6. ASSUME m.calls = << >>, NEW i \in DOMAIN d PROVE i + Len(d[i].calls) <= Len(d)
  <2>1. CASE i \in 1 .. Len(c)
    BY <1>1, <1>2, <2>1, SeqFacts
  <2>2. CASE i = Len(c) + 1
    <3>1. Len(d[i].calls) = 0
      BY <1>1, <1>6, <2>2
    <3>2. Len(d) = i /\ i \in Nat
      BY <1>1, <2>2
    <3>. QED
      BY <3>1, <3>2
  <2>. QED
    BY <1>1, <2>1, <2>2
<1>. QED
  BY <1>1, <1>5, <1>6, CompleteIsWellFormed DEF d

(* Behind a round that is not over there is nothing but its answers. *)
LEMMA BehindRound ==
  ASSUME NEW c \in Seq(Message), Begun(c), NEW r \in DOMAIN c, Len(c) <= r + Len(c[r].calls),
         NEW i \in DOMAIN c, i > r
  PROVE  /\ i - r \in DOMAIN c[r].calls /\ c[i] = ToolMsg(c[r].calls[i - r])
         /\ c[i].calls = << >>
<1>1. i - r \in DOMAIN c[r].calls /\ r + (i - r) = i /\ i <= Len(c)
  BY SeqFacts
<1>. QED
  BY <1>1, MessageFacts DEF Begun

(* The next answer of the last round goes to the end. *)
LEMMA AnswerNext ==
  ASSUME NEW c \in Seq(Message), Begun(c), NEW r \in DOMAIN c, NEW t \in Nat, r + t = Len(c),
         t < Len(c[r].calls)
  PROVE  Begun(Append(c, ToolMsg(c[r].calls[t + 1])))
<1>. DEFINE m == ToolMsg(c[r].calls[t + 1])
            d == Append(c, m)
<1>1. /\ t + 1 \in DOMAIN c[r].calls /\ c[r].calls # << >> /\ r \in Nat /\ r >= 1
      /\ c[r].calls[t + 1] \in CallId /\ Len(c) = r + t
  <2>1. /\ c[r].calls \in Calls /\ DOMAIN c[r].calls = 1 .. Len(c[r].calls)
        /\ Len(c[r].calls) \in Nat /\ r \in 1 .. Len(c) /\ Len(c) \in Nat
    BY SeqFacts
  <2>2. t + 1 \in DOMAIN c[r].calls /\ c[r].calls # << >>
    BY <2>1
  <2>3. c[r].calls \in Seq(CallId)
    BY <2>1, CallsFacts
  <2>. QED
    BY <2>1, <2>2, <2>3
<1>2. m \in Message /\ m.calls = << >>
  BY <1>1, MessageFacts
<1>3. /\ d \in Seq(Message) /\ Len(d) = Len(c) + 1 /\ Len(c) \in Nat
      /\ DOMAIN c = 1 .. Len(c) /\ DOMAIN d = 1 .. Len(c) + 1
      /\ \A i \in 1 .. Len(c) : d[i] = c[i]
      /\ d[Len(c) + 1] = m
  BY <1>2, AppendFacts, SeqFacts
<1>. HIDE DEF d, m
<1>4. ASSUME NEW i \in DOMAIN d, NEW k \in DOMAIN d[i].calls, i + k <= Len(d)
      PROVE  d[i + k] = ToolMsg(d[i].calls[k])
  <2>1. k \in Nat /\ k >= 1 /\ k <= Len(d[i].calls) /\ Len(d[i].calls) \in Nat
    BY <1>3, SeqFacts
  <2>2. i \in 1 .. Len(c) /\ i \in DOMAIN c /\ k \in DOMAIN c[i].calls
    BY <1>2, <1>3, <2>1
  <2>3. CASE i + k <= Len(c)
    BY <1>3, <2>1, <2>2, <2>3 DEF Begun
  <2>4. CASE i + k = Len(c) + 1
    <3>1. CASE i = r
      BY <1>3, <2>1, <2>2, <2>4, <3>1 DEF m
    <3>2. CASE i < r
      <4>1. i + Len(c[i].calls) < r
        BY <1>1, <2>2, <3>2, EarlierComplete
      <4>. QED
        BY <1>1, <1>3, <2>1, <2>2, <2>4, <4>1
    <3>3. CASE i > r
      <4>1. c[i].calls = << >>
        <5>1. Len(c) <= r + Len(c[r].calls)
          BY <1>1, SeqFacts
        <5>. QED
          BY <2>2, <3>3, <5>1, BehindRound
      <4>. QED
        BY <2>2, <4>1
    <3>. QED
      BY <1>1, <2>2, <3>1, <3>2, <3>3
  <2>. QED
    BY <1>3, <1>4, <2>1, <2>2, <2>3, <2>4
<1>5. ASSUME NEW j \in DOMAIN d, d[j].role = "tool"
      PROVE  \E i \in 1 .. j - 1 : j <= i + Len(d[i].calls)
  <2>1. CASE j \in 1 .. Len(c)
    <3>1. PICK i \in 1 .. j - 1 : j <= i + Len(c[i].calls)
      BY <1>3, <1>5, <2>1 DEF Begun
    <3>. QED
      BY <1>3, <2>1, <3>1
  <2>2. CASE j = Len(c) + 1
    <3>1. r \in 1 .. j - 1 /\ d[r].calls = c[r].calls /\ Len(c[r].calls) \in Nat
      BY <1>1, <1>3, <2>2, SeqFacts
    <3>. QED
      BY <1>1, <2>2, <3>1
  <2>. QED
    BY <1>3, <2>1, <2>2
<1>6. Begun(d)
  BY <1>4, <1>5 DEF Begun
<1>. QED
  BY <1>6 DEF d, m

(* With the last answer the conversation is complete. *)
LEMMA LastRoundComplete ==
  ASSUME NEW c \in Seq(Message), Begun(c), NEW r \in DOMAIN c, r + Len(c[r].calls) <= Len(c),
         c[r].calls # << >>, \A i \in DOMAIN c : i > r => c[i].calls = << >>
  PROVE  WellFormed(c)
<1>1. ASSUME NEW i \in DOMAIN c PROVE i + Len(c[i].calls) <= Len(c)
  <2>1. CASE i < r
    BY <2>1, EarlierComplete, SeqFacts
  <2>2. CASE i = r
    BY <2>2
  <2>3. CASE i > r
    <3>1. Len(c[i].calls) = 0
      BY <2>3
    <3>2. i \in Nat /\ i <= Len(c)
      BY SeqFacts
    <3>. QED
      BY <3>1, <3>2
  <2>. QED
    BY <2>1, <2>2, <2>3, SeqFacts
<1>. QED
  BY <1>1, CompleteIsWellFormed

(* A log cut anywhere has begun. *)
LEMMA CutBegun ==
  ASSUME NEW c \in Seq(Message), Begun(c), NEW n \in 0 .. Len(c)
  PROVE  SubSeq(c, 1, n) \in Seq(Message) /\ Begun(SubSeq(c, 1, n))
<1>. DEFINE d == SubSeq(c, 1, n)
<1>1. /\ d \in Seq(Message) /\ Len(d) = n /\ Len(c) \in Nat /\ n \in Nat /\ n <= Len(c)
      /\ DOMAIN c = 1 .. Len(c) /\ DOMAIN d = 1 .. n
      /\ \A i \in 1 .. n : d[i] = c[i]
  BY SeqFacts
<1>. HIDE DEF d
<1>2. ASSUME NEW i \in DOMAIN d, NEW k \in DOMAIN d[i].calls, i + k <= Len(d)
      PROVE  d[i + k] = ToolMsg(d[i].calls[k])
  <2>1. i \in DOMAIN c /\ d[i] = c[i] /\ k \in DOMAIN c[i].calls /\ k \in Nat /\ k >= 1
    BY <1>1, SeqFacts
  <2>2. i + k <= Len(c) /\ i + k \in 1 .. n
    BY <1>1, <1>2, <2>1
  <2>. QED
    BY <1>1, <2>1, <2>2 DEF Begun
<1>3. ASSUME NEW j \in DOMAIN d, d[j].role = "tool"
      PROVE  \E i \in 1 .. j - 1 : j <= i + Len(d[i].calls)
  <2>1. PICK i \in 1 .. j - 1 : j <= i + Len(c[i].calls)
    BY <1>1, <1>3 DEF Begun
  <2>. QED
    BY <1>1, <2>1
<1>. QED
  BY <1>1, <1>2, <1>3 DEF Begun, d

LEMMA EmptyConversation == Begun(<< >>) /\ WellFormed(<< >>)
BY DEF Begun, WellFormed, Answered

(* last_tool_call_round finds the last message with calls. *)
LEMMA LastRoundFacts ==
  ASSUME NEW c \in Seq(Message)
  PROVE  \/ LastRound(c) = 0 /\ \A i \in DOMAIN c : c[i].calls = << >>
         \/ /\ LastRound(c) \in DOMAIN c /\ c[LastRound(c)].calls # << >>
            /\ \A i \in DOMAIN c : i > LastRound(c) => c[i].calls = << >>
<1>1. CASE Rounds(c) = {}
  BY <1>1 DEF Rounds, LastRound
<1>2. CASE Rounds(c) # {}
  <2>1. Rounds(c) \in SUBSET Nat /\ Len(c) \in Nat /\ \A x \in Rounds(c) : x <= Len(c)
    BY SeqFacts DEF Rounds
  <2>2. \E i \in Rounds(c) : \A j \in Rounds(c) : j <= i
    BY <1>2, <2>1, GreatestElement
  <2>3. LastRound(c) \in Rounds(c) /\ \A j \in Rounds(c) : j <= LastRound(c)
    BY <1>2, <2>2 DEF LastRound
  <2>. QED
    BY <2>1, <2>3, SeqFacts DEF Rounds
<1>. QED
  BY <1>1, <1>2
---------------------------------------------------------------------------
(* Types. *)

LEMMA AppendTypes ==
  ASSUME LogTypeOK, NEW m \in Message, AppendOk(m) \/ AppendFails(m) \/ AppendTooLong
  PROVE  LogTypeOK'
<1>1. Append(log, m) \in Seq(Message) /\ Append(view, m) \in Seq(Message)
  BY DEF LogTypeOK
<1>. QED
  BY <1>1 DEF LogTypeOK, AppendOk, AppendFails, AppendTorn, AppendTooLong, sessVars

LEMMA SessionTypes ==
  ASSUME LogTypeOK,
         \/ Attach \/ Detach \/ CloseSession \/ UNCHANGED sessVars
         \/ \E n \in 0 .. Len(log) : LoseTail(n)
  PROVE  LogTypeOK'
<1>1. << >> \in Seq(Message)
  OBVIOUS
<1>2. ASSUME NEW n \in 0 .. Len(log) PROVE SubSeq(log, 1, n) \in Seq(Message)
  BY DEF LogTypeOK
<1>. QED
  BY <1>1, <1>2 DEF LogTypeOK, Attach, Detach, CloseSession, LoseTail, sessVars

LEMMA LastRoundCalls ==
  ASSUME NEW c \in Seq(Message)
  PROVE  (IF LastRound(c) = 0 THEN << >> ELSE c[LastRound(c)].calls) \in Calls
<1>1. CASE LastRound(c) = 0
  BY <1>1, CallsFacts
<1>2. CASE LastRound(c) # 0
  <2>1. LastRound(c) \in DOMAIN c
    BY <1>2, LastRoundFacts
  <2>. QED
    BY <1>2, <2>1, SeqFacts
<1>. QED
  BY <1>1, <1>2

(* The call agent_repair_session looks at is one of the last round's. *)
LEMMA RepairCallFacts ==
  ASSUME TypeOK
  PROVE  /\ RepairCalls \in Calls
         /\ repair_next \in DOMAIN RepairCalls => ToolMsg(RepairCalls[repair_next]) \in Message
<1>1. RepairCalls \in Calls
  BY LastRoundCalls DEF RepairCalls, TypeOK, LogTypeOK
<1>2. ASSUME repair_next \in DOMAIN RepairCalls PROVE RepairCalls[repair_next] \in CallId
  BY <1>1, <1>2, CallsFacts
<1>. QED
  BY <1>1, <1>2, MessageFacts

(* The answer the driver or the synthetics append next. *)
LEMMA AnswerFacts ==
  ASSUME TypeOK, tool_index < Len(calls)
  PROVE  ToolMsg(calls[tool_index + 1]) \in Message
<1>1. calls \in Calls /\ tool_index \in Nat /\ tool_index + 1 \in DOMAIN calls
  BY CallsFacts DEF TypeOK
<1>. QED
  BY <1>1, CallsFacts, MessageFacts

Types == TypeOK /\ Control /\ TurnBounds

LEMMA InitTypes == Init => Types
<1>. SUFFICES ASSUME Init PROVE Types
  OBVIOUS
<1>1. LogTypeOK
  <2>1. << >> \in Seq(Message)
    OBVIOUS
  <2>. QED
    BY <2>1 DEF Init, LogTypeOK
<1>2. << >> \in Calls /\ 0 \in 0 .. StepCap /\ 0 \in 0 .. Len(<< >>)
  BY CallsFacts, AgentAssumption
<1>. QED
  BY <1>1, <1>2, InitControl DEF Init, Types, TypeOK, TurnBounds

LEMMA RepairTypes ==
  ASSUME Types, Resume \/ RepairCall \/ RepairDone \/ RepairFails
  PROVE  TypeOK' /\ TurnBounds'
<1>1. LogTypeOK'
  <2>1. CASE Resume \/ RepairDone
    BY <2>1, SessionTypes DEF Resume, RepairDone, Types, TypeOK
  <2>2. CASE RepairCall \/ RepairFails
    <3>1. CASE UNCHANGED sessVars
      BY <3>1, SessionTypes DEF Types, TypeOK
    <3>2. CASE ~UNCHANGED sessVars
      <4>1. /\ repair_next \in Nat /\ repair_next >= 1 /\ repair_next <= Len(RepairCalls)
            /\ \/ AppendOk(ToolMsg(RepairCalls[repair_next]))
               \/ AppendFails(ToolMsg(RepairCalls[repair_next]))
        BY <2>2, <3>2 DEF RepairCall, RepairFails, Types, TypeOK, TurnBounds
      <4>2. repair_next \in DOMAIN RepairCalls
        BY <4>1, RepairCallFacts, CallsFacts DEF Types
      <4>3. ToolMsg(RepairCalls[repair_next]) \in Message /\ LogTypeOK
        BY <4>2, RepairCallFacts DEF Types, TypeOK
      <4>. QED
        BY <4>1, <4>3, AppendTypes
    <3>. QED
      BY <3>1, <3>2
  <2>. QED
    BY <2>1, <2>2
<1>2. /\ proc \in {"down", "repair"} /\ proc' \in {"repair", "prompt", "drain"}
      /\ repair_next' \in Nat /\ UNCHANGED <<sigints, turns, turnVars>>
      /\ proc' = "repair" => repair_next' >= 1
  BY DEF Resume, RepairCall, RepairDone, RepairFails, Types, TypeOK, TurnBounds
<1>. QED
  BY <1>1, <1>2 DEF Types, TypeOK, TurnBounds, turnVars, turnFlags, usageVars, callVars
(* A process that ends forgets the turn and keeps the types. *)
LEMMA DownTypes == ASSUME Types, Exit \/ Kill \/ OsCrash PROVE TypeOK' /\ TurnBounds'
<1>1. Down /\ LogTypeOK'
  <2>1. CASE Exit \/ Kill
    BY <2>1, SessionTypes DEF Exit, Kill, Types, TypeOK
  <2>2. CASE OsCrash
    BY <2>2, SessionTypes DEF OsCrash, Types, TypeOK
  <2>. QED
    BY <2>1, <2>2
<1>2. << >> \in Calls /\ 0 \in 0 .. StepCap /\ 0 \in 0 .. Len(<< >>)
  BY CallsFacts, AgentAssumption
<1>. QED
  BY <1>1, <1>2 DEF Down, Types, TypeOK, TurnBounds

(* A turn that finishes leaves its types and bounds. *)
LEMMA FinishTypes ==
  ASSUME LogTypeOK', NEW o \in {"done", "failed", "interrupted", "stepcap", "contextlimit"},
         Finish(o), stream' = FALSE, exec' = FALSE,
         repair_next' \in Nat, turns' \in Nat, step' \in 0 .. StepCap, calls' \in Calls,
         tool_index' \in 0 .. Len(calls'),
         cancel_requested' \in BOOLEAN, canceling' \in BOOLEAN, failing' \in BOOLEAN,
         tokens' \in Nat, context_warned' \in BOOLEAN
  PROVE  TypeOK' /\ TurnBounds'
<1>1. TurnBounds'
  BY DEF Finish, TurnBounds
<1>2. outcome' \in {"none", "done", "failed", "interrupted", "stepcap", "contextlimit"}
  BY DEF Finish
<1>. QED
  BY <1>1, <1>2 DEF Finish, TypeOK

LEMMA StartTypes ==
  ASSUME Types, TurnStart \/ TurnStartFails PROVE TypeOK' /\ TurnBounds'
<1>1. LogTypeOK'
  BY MessageFacts, AppendTypes DEF TurnStart, TurnStartFails, Types, TypeOK
<1>2. << >> \in Calls /\ 0 \in 0 .. StepCap /\ 0 \in 0 .. Len(<< >>) /\ 0 < StepCap
  BY CallsFacts, AgentAssumption
<1>3. CASE TurnStart
  <2>1. step' = 0 /\ calls' = << >> /\ tool_index' = 0 /\ turns' \in Nat /\ repair_next' \in Nat
    BY <1>3 DEF TurnStart, Types, TypeOK
  <2>2. TurnBounds'
    BY <1>2, <1>3 DEF TurnStart, TurnBounds
  <2>. QED
    BY <1>1, <1>2, <1>3, <2>1, <2>2 DEF TurnStart, TypeOK
<1>4. CASE TurnStartFails
  BY <1>1, <1>4 DEF TurnStartFails, Types, TypeOK, TurnBounds, turnVars, turnFlags, usageVars,
                    callVars
<1>. QED
  BY <1>3, <1>4

LEMMA StepTimerTypes == ASSUME Types, StepTimer PROVE TypeOK' /\ TurnBounds'
<1>1. LogTypeOK'
  BY SessionTypes DEF StepTimer, Types, TypeOK
<1>2. ~exec /\ proc = "turn" /\ stream = FALSE
  BY DEF StepTimer, InLoop, Types, TypeOK, Control, OneWakeup
<1>3. CASE (Finish("interrupted") \/ Finish("failed")) /\ UNCHANGED stream
  <2>1. /\ stream' = FALSE /\ exec' = FALSE /\ repair_next' \in Nat /\ turns' \in Nat
        /\ step' \in 0 .. StepCap /\ calls' \in Calls /\ tool_index' \in 0 .. Len(calls')
        /\ cancel_requested' \in BOOLEAN /\ canceling' \in BOOLEAN /\ failing' \in BOOLEAN
        /\ tokens' \in Nat /\ context_warned' \in BOOLEAN
    BY <1>2, <1>3 DEF StepTimer, Types, TypeOK, Control, ControlTypes, turnFlags, usageVars,
                      callVars
  <2>. QED
    BY <1>1, <1>3, <2>1, FinishTypes
<1>4. CASE Continue /\ stream' = TRUE /\ step_timer' = FALSE /\ UNCHANGED stack
  BY <1>1, <1>2, <1>4 DEF StepTimer, Continue, Types, TypeOK, TurnBounds, turnFlags, usageVars,
                          callVars
<1>. QED
  BY <1>3, <1>4 DEF StepTimer

LEMMA RespondTypes == ASSUME Types, Respond PROVE TypeOK' /\ TurnBounds'
<1>1. CASE ProviderError
  <2>1. LogTypeOK'
    BY <1>1, SessionTypes DEF ProviderError, Types, TypeOK
  <2>. QED
    BY <1>1, <2>1 DEF ProviderError, Finish, InLoop, Types, TypeOK, TurnBounds, Control,
         OneWakeup, turnFlags, usageVars, callVars
<1>2. ASSUME NEW c \in Calls, NEW u \in Usage, ProviderDone(c, u) PROVE TypeOK' /\ TurnBounds'
  <2>1. LogTypeOK'
    BY <1>2, MessageFacts, AppendTypes DEF ProviderDone, Types, TypeOK
  <2>2. tokens' \in Nat /\ context_warned' \in BOOLEAN
    BY <1>2, AgentAssumption DEF ProviderDone, WarnContext, Types, TypeOK
  <2>3. /\ proc = "turn" /\ ~exec /\ stream' = FALSE
        /\ UNCHANGED <<repair_next, turns, exec, cancel_requested, failing, step>>
    BY <1>2 DEF ProviderDone, InLoop, Types, Control, OneWakeup
  <2>4. CASE \E o \in {"failed", "done"} : Finish(o) /\ UNCHANGED <<calls, tool_index, canceling>>
    <3>1. PICK o \in {"failed", "done"} : Finish(o) /\ UNCHANGED <<calls, tool_index, canceling>>
      BY <2>4
    <3>2. /\ stream' = FALSE /\ exec' = FALSE /\ repair_next' \in Nat /\ turns' \in Nat
          /\ step' \in 0 .. StepCap /\ calls' \in Calls /\ tool_index' \in 0 .. Len(calls')
          /\ cancel_requested' \in BOOLEAN /\ canceling' \in BOOLEAN /\ failing' \in BOOLEAN
      BY <2>3, <3>1 DEF Types, TypeOK
    <3>. QED
      BY <2>1, <2>2, <3>1, <3>2, FinishTypes
  <2>5. CASE calls' = c /\ tool_index' = 0 /\ BeginRound /\ Continue /\ UNCHANGED step_timer
    <3>1. tool_index' \in 0 .. Len(calls') /\ calls' \in Calls
      BY <2>5, CallsFacts
    <3>. QED
      BY <2>1, <2>2, <2>3, <2>5, <3>1 DEF BeginRound, Continue, Types, TypeOK, TurnBounds
  <2>. QED
    BY <1>2, <2>4, <2>5 DEF ProviderDone
<1>. QED
  BY <1>1, <1>2 DEF Respond

LEMMA ToolCompletedTypes ==
  ASSUME Types, tool_index < Len(calls), ToolCompleted, UNCHANGED calls
  PROVE  /\ LogTypeOK' /\ failing' \in BOOLEAN /\ calls' \in Calls
         /\ tool_index' \in 0 .. Len(calls')
<1>1. LogTypeOK'
  BY AnswerFacts, AppendTypes DEF ToolCompleted, Types, TypeOK
<1>2. tool_index \in Nat /\ Len(calls) \in Nat /\ tool_index <= Len(calls)
  BY CallsFacts DEF Types, TypeOK
<1>3. tool_index' \in 0 .. Len(calls)
  BY <1>2 DEF ToolCompleted
<1>4. failing' \in BOOLEAN /\ calls' \in Calls /\ calls' = calls
  BY DEF ToolCompleted, Types, TypeOK
<1>. QED
  BY <1>1, <1>3, <1>4

LEMMA ToolTypes ==
  ASSUME Types, ToolDone \/ StartInlineTool \/ StartAsyncTool PROVE TypeOK' /\ TurnBounds'
<1>1. CASE ToolDone
  <2>1. tool_index < Len(calls) /\ ToolCompleted /\ UNCHANGED calls
    BY <1>1 DEF ToolDone, Types, TurnBounds
  <2>2. /\ LogTypeOK' /\ failing' \in BOOLEAN /\ calls' \in Calls
        /\ tool_index' \in 0 .. Len(calls')
    BY <2>1, ToolCompletedTypes
  <2>. QED
    BY <1>1, <2>2 DEF ToolDone, Types, TypeOK, TurnBounds, procVars, usageVars
<1>2. CASE StartInlineTool
  <2>1. /\ tool_index < Len(calls) /\ ToolCompleted /\ UNCHANGED calls
        /\ exec = FALSE
    BY <1>2 DEF StartInlineTool, Driving, Types, Control, ControlTypes, BusyWaitsForNothing
  <2>. QED
    BY <1>2, <2>1, ToolCompletedTypes DEF StartInlineTool, Types, TypeOK, TurnBounds, procVars,
       usageVars
<1>3. CASE StartAsyncTool
  <2>1. LogTypeOK'
    BY <1>3, SessionTypes DEF StartAsyncTool, Types, TypeOK
  <2>. QED
    BY <1>3, <2>1 DEF StartAsyncTool, Driving, Types, TypeOK, TurnBounds, procVars, turnFlags,
       usageVars, callVars
<1>. QED
  BY <1>1, <1>2, <1>3

LEMMA DriverExitTypes == ASSUME Types, DriverExit PROVE TypeOK' /\ TurnBounds'
<1>1. LogTypeOK'
  BY SessionTypes DEF DriverExit, Types, TypeOK
<1>2. /\ proc = "turn" /\ ~exec /\ stream = FALSE /\ step \in Nat /\ step + 1 <= StepCap /\ StepCap \in Nat
  BY AgentAssumption DEF DriverExit, Types, TypeOK, TurnBounds, Control, BusyWaitsForNothing
<1>3. UNCHANGED <<repair_next, turns, stream, exec, turnFlags, usageVars, calls, tool_index>>
  BY DEF DriverExit
<1>4. CASE \E o \in {"failed", "stepcap", "contextlimit"} : Finish(o) /\ step' \in {step, step + 1}
  <2>1. PICK o \in {"failed", "stepcap", "contextlimit"} : Finish(o) /\ step' \in {step, step + 1}
    BY <1>4
  <2>2. step' \in 0 .. StepCap
    BY <1>2, <2>1
  <2>3. /\ stream' = FALSE /\ exec' = FALSE /\ repair_next' \in Nat /\ turns' \in Nat
        /\ calls' \in Calls /\ tool_index' \in 0 .. Len(calls')
        /\ cancel_requested' \in BOOLEAN /\ canceling' \in BOOLEAN /\ failing' \in BOOLEAN
        /\ tokens' \in Nat /\ context_warned' \in BOOLEAN
    BY <1>2, <1>3 DEF Types, TypeOK, turnFlags, usageVars
  <2>. QED
    BY <1>1, <2>1, <2>2, <2>3, FinishTypes
<1>5. CASE stack' = "synthetics" /\ Continue /\ UNCHANGED <<step, step_timer>>
  BY <1>1, <1>2, <1>3, <1>5 DEF Continue, Types, TypeOK, TurnBounds, turnFlags, usageVars
<1>6. CASE /\ step' = step + 1 /\ step + 1 < StepCap
           /\ step_timer' = TRUE /\ stack' = "loop" /\ Continue
  BY <1>1, <1>2, <1>3, <1>6 DEF Continue, Types, TypeOK, TurnBounds, turnFlags, usageVars
<1>7. CASE ~failing /\ ~canceling /\ NextStep
  <2>1. CASE step + 1 >= StepCap
    BY <1>4, <1>7, <2>1 DEF NextStep
  <2>2. CASE step + 1 < StepCap /\ OverBudget
    BY <1>2, <1>4, <1>7, <2>2 DEF NextStep
  <2>3. CASE step + 1 < StepCap /\ ~OverBudget
    <3>1. ~(step + 1 >= StepCap)
      BY <1>2, <2>3
    <3>2. step' = step + 1 /\ step_timer' = TRUE /\ stack' = "loop" /\ Continue
      BY <1>7, <2>3, <3>1, Zenon DEF NextStep
    <3>. QED
      BY <1>6, <2>3, <3>2
  <2>. QED
    BY <1>2, <2>1, <2>2, <2>3
<1>. QED
  BY <1>4, <1>5, <1>7 DEF DriverExit

LEMMA SyntheticsTypes ==
  ASSUME Types, AnswerInterrupted \/ FinishInterrupted PROVE TypeOK' /\ TurnBounds'
<1>0. proc = "turn" /\ ~exec /\ stream = FALSE /\ tool_index \in Nat /\ Len(calls) \in Nat /\ exec = FALSE
  BY CallsFacts DEF AnswerInterrupted, FinishInterrupted, Types, TypeOK, Control, ControlTypes,
       BusyWaitsForNothing
<1>1. LogTypeOK'
  BY <1>0, AnswerFacts, AppendTypes, SessionTypes DEF AnswerInterrupted, FinishInterrupted, Types, TypeOK
<1>2. CASE AnswerInterrupted
  BY <1>0, <1>1, <1>2 DEF AnswerInterrupted, Types, TypeOK, TurnBounds, procVars, turnFlags,
     usageVars
<1>3. CASE FinishInterrupted
  BY <1>0, <1>1, <1>3 DEF FinishInterrupted, Finish, Types, TypeOK, TurnBounds, turnFlags,
     usageVars, callVars
<1>. QED
  BY <1>2, <1>3

LEMMA CancelTypes ==
  ASSUME Types, FirstSigint \/ SecondSigint \/ OnTextFails PROVE TypeOK' /\ TurnBounds'
<1>0. proc = "turn" /\ InLoop
  BY DEF FirstSigint, SecondSigint, OnTextFails, InLoop
<1>1. LogTypeOK'
  BY SessionTypes DEF FirstSigint, SecondSigint, OnTextFails, Types, TypeOK
<1>2. CASE FirstSigint
  <2>1. /\ Cancel /\ sigints' \in Nat
        /\ UNCHANGED <<repair_next, turns, exec, failing, usageVars, callVars>>
    BY <1>2 DEF FirstSigint
  <2>2. CASE UNCHANGED <<turn, outcome, proc, stack, step_timer>>
             /\ stream' \in BOOLEAN /\ cancel_requested' \in BOOLEAN /\ canceling' \in BOOLEAN
    BY <1>0, <1>1, <2>1, <2>2 DEF Types, TypeOK, TurnBounds, usageVars, callVars
  <2>3. CASE /\ stream /\ stream' = FALSE /\ cancel_requested' = TRUE
             /\ turn' = "finished" /\ outcome' = "interrupted" /\ proc' = "prompt"
             /\ stack' = "loop" /\ step_timer' = FALSE
             /\ UNCHANGED canceling
    BY <1>0, <1>1, <2>1, <2>3 DEF Types, TypeOK, TurnBounds, usageVars, callVars
  <2>4. /\ stream \in BOOLEAN /\ cancel_requested \in BOOLEAN /\ canceling \in BOOLEAN
    BY DEF Types, TypeOK
  <2>. QED
    BY <2>1, <2>2, <2>3, <2>4 DEF Cancel
<1>3. CASE SecondSigint
  BY <1>0, <1>1, <1>3 DEF SecondSigint, Types, TypeOK, TurnBounds, turnVars, turnFlags,
     usageVars, callVars
<1>4. CASE OnTextFails
  BY <1>0, <1>1, <1>4 DEF OnTextFails, Types, TypeOK, TurnBounds, procVars, usageVars, callVars
<1>. QED
  BY <1>2, <1>3, <1>4

LEMMA StutterTypes == ASSUME Types, UNCHANGED vars PROVE TypeOK' /\ TurnBounds'
<1>1. LogTypeOK'
  BY SessionTypes DEF vars, Types, TypeOK
<1>. QED
  BY <1>1 DEF Types, TypeOK, TurnBounds, vars, procVars, turnVars, turnFlags, usageVars, callVars

LEMMA StepTypes == ASSUME Types, [Next]_vars PROVE TypeOK' /\ TurnBounds'
<1>1. CASE Resume \/ RepairCall \/ RepairDone \/ RepairFails
  BY <1>1, RepairTypes
<1>2. CASE Exit \/ Kill \/ OsCrash
  BY <1>2, DownTypes
<1>3. CASE TurnStart \/ TurnStartFails
  BY <1>3, StartTypes
<1>4. CASE StepTimer
  BY <1>4, StepTimerTypes
<1>5. CASE Respond
  BY <1>5, RespondTypes
<1>6. CASE ToolDone \/ StartInlineTool \/ StartAsyncTool
  BY <1>6, ToolTypes
<1>7. CASE DriverExit
  BY <1>7, DriverExitTypes
<1>8. CASE AnswerInterrupted \/ FinishInterrupted
  BY <1>8, SyntheticsTypes
<1>9. CASE FirstSigint \/ SecondSigint \/ OnTextFails
  BY <1>9, CancelTypes
<1>10. CASE UNCHANGED vars
  BY <1>10, StutterTypes
<1>. QED
  BY <1>1, <1>2, <1>3, <1>4, <1>5, <1>6, <1>7, <1>8, <1>9, <1>10 DEF Next, Run
(* Every variable of the turn holds a value of its type, whatever fails:   *)
(* the driver never indexes past the calls of the round it answers, and no *)
(* turn outruns its step cap.                                              *)
THEOREM TypesInvariant == Spec => []Types
<1>1. Types /\ [Next]_vars => Types'
  BY StepTypes, StepControl DEF Types
<1>. QED
  BY <1>1, InitTypes, PTL DEF Spec

THEOREM TypeCorrect == Spec => []TypeOK
<1>1. Types => TypeOK
  BY DEF Types
<1>. QED
  BY <1>1, TypesInvariant, PTL
---------------------------------------------------------------------------
(* The limits of a turn. *)

(* What is known of the step count and the usage before a request is made, *)
(* and once a limit has stopped the turn.                                  *)
WithinLimits ==
  /\ stream \/ step_timer =>
       step < StepCap /\ (0 < ContextLength /\ 0 < tokens => 100 * tokens < ContextLength * ContextPct)
  /\ outcome = "contextlimit" => step < StepCap /\ ContextLength * ContextPct < 100 * (tokens + 1)
  /\ outcome = "stepcap" => step = StepCap

(* The budget is the percentage of the window, rounded down. *)
LEMMA BudgetFacts ==
  /\ Budget \in Nat
  /\ \A t \in Nat : t < Budget => 100 * t < ContextLength * ContextPct
  /\ \A t \in Nat : Budget <= t => ContextLength * ContextPct < 100 * (t + 1)
<1>. DEFINE x == ContextLength * ContextPct
<1>1. x \in Nat
  BY AgentAssumption
<1>2. Budget = x \div 100
  BY DEF Budget
<1>. HIDE DEF x
<1>3. /\ x \div 100 \in Nat /\ 100 * (x \div 100) <= x /\ x < 100 * ((x \div 100) + 1)
  BY <1>1
<1>4. ASSUME NEW t \in Nat, t < x \div 100 PROVE 100 * t < x
  BY <1>1, <1>3, <1>4
<1>5. ASSUME NEW t \in Nat, x \div 100 <= t PROVE x < 100 * (t + 1)
  BY <1>1, <1>3, <1>5
<1>6. /\ \A t \in Nat : t < Budget => 100 * t < x
      /\ \A t \in Nat : Budget <= t => x < 100 * (t + 1)
  BY <1>2, <1>4, <1>5
<1>. QED
  BY <1>2, <1>3, <1>6 DEF x

(* A step that makes no request its own decision keeps to the limits.      *)
LEMMA LimitsKept ==
  ASSUME WithinLimits, UNCHANGED <<tokens, step>>,
         stream' => stream \/ step_timer, step_timer' => stream \/ step_timer,
         outcome' \in {outcome, "none", "done", "failed", "interrupted"}
  PROVE  WithinLimits'
BY DEF WithinLimits

(* next_step decides: the cap first, the budget next.                      *)
LEMMA NextStepLimits ==
  ASSUME TypeOK, stack = "driver", proc = "turn", step < StepCap, outcome = "none", ~stream,
         UNCHANGED <<stream, tokens>>, NextStep
  PROVE  WithinLimits'
<1>1. /\ step \in Nat /\ StepCap \in Nat /\ tokens \in Nat /\ step' = step + 1 /\ step' \in Nat
  BY AgentAssumption DEF TypeOK, NextStep
<1>2. CASE step + 1 >= StepCap
  <2>1. step' = StepCap
    BY <1>1, <1>2
  <2>2. outcome' = "stepcap" /\ step_timer' = FALSE
    BY <1>2 DEF NextStep, Finish
  <2>. QED
    BY <2>1, <2>2 DEF WithinLimits
<1>3. CASE step + 1 < StepCap /\ OverBudget
  <2>1. outcome' = "contextlimit" /\ step_timer' = FALSE
    BY <1>1, <1>3 DEF NextStep, Finish
  <2>2. Budget <= tokens
    BY <1>1, <1>3, BudgetFacts DEF OverBudget
  <2>3. ContextLength * ContextPct < 100 * (tokens + 1)
    BY <1>1, <2>2, BudgetFacts
  <2>. QED
    BY <1>1, <1>3, <2>1, <2>3 DEF WithinLimits
<1>4. CASE step + 1 < StepCap /\ ~OverBudget
  <2>1. outcome' = "none"
    BY <1>1, <1>4 DEF NextStep, Continue
  <2>2. 0 < ContextLength /\ 0 < tokens => tokens < Budget
    BY <1>1, <1>4, BudgetFacts, AgentAssumption DEF OverBudget
  <2>3. 0 < ContextLength /\ 0 < tokens => 100 * tokens < ContextLength * ContextPct
    BY <1>1, <2>2, BudgetFacts
  <2>. QED
    BY <1>1, <1>4, <2>1, <2>3 DEF WithinLimits
<1>. QED
  BY <1>1, <1>2, <1>3, <1>4

(* Every step of the program keeps to the limits.                          *)
LEMMA LimitsStep == ASSUME Types, WithinLimits, [Next]_vars PROVE WithinLimits'
<1>. USE DEF InLoop
<1>1. CASE Resume \/ RepairCall \/ RepairDone \/ RepairFails \/ TurnStartFails \/ SecondSigint
           \/ UNCHANGED vars
  BY <1>1, LimitsKept DEF Resume, RepairCall, RepairDone, RepairFails, TurnStartFails, SecondSigint,
     turnVars, turnFlags, usageVars, callVars, vars
<1>2. CASE Exit \/ Kill \/ OsCrash
  BY <1>2 DEF Exit, Kill, OsCrash, Down, WithinLimits
<1>3. CASE TurnStart
  <2>1. /\ step' = 0 /\ tokens' = 0 /\ outcome' = "none"
    BY <1>3 DEF TurnStart
  <2>. QED
    BY <2>1, AgentAssumption DEF WithinLimits
<1>4. CASE StepTimer
  BY <1>4, LimitsKept DEF StepTimer, Finish, Continue, usageVars, callVars
<1>5. CASE ProviderError
  BY <1>5, LimitsKept DEF ProviderError, Finish, usageVars, callVars
<1>6. ASSUME NEW c \in Calls, NEW u \in Usage, ProviderDone(c, u) PROVE WithinLimits'
  <2>1. ~step_timer /\ outcome = "none"
    BY <1>6 DEF ProviderDone, Types, Control, OneWakeup, TypeOK, TurnBounds
  <2>2. stream' = FALSE /\ step_timer' = FALSE /\ outcome' \in {"none", "done", "failed"}
    BY <1>6, <2>1 DEF ProviderDone, Finish, Continue
  <2>. QED
    BY <2>2 DEF WithinLimits
<1>7. CASE ToolDone \/ StartInlineTool \/ StartAsyncTool \/ AnswerInterrupted
  BY <1>7, LimitsKept DEF ToolDone, StartInlineTool, StartAsyncTool, AnswerInterrupted, usageVars,
     callVars
<1>8. CASE FinishInterrupted
  BY <1>8, LimitsKept DEF FinishInterrupted, Finish, usageVars, callVars
<1>9. CASE DriverExit
  <2>1. UNCHANGED <<stream, tokens>>
    BY <1>9 DEF DriverExit, usageVars
  <2>2. CASE NextStep
    <3>1. stack = "driver" /\ proc = "turn" /\ step < StepCap /\ outcome = "none" /\ ~stream
      BY <1>9 DEF DriverExit, Types, Control, BusyWaitsForNothing, TurnBounds
    <3>. QED
      BY <2>1, <2>2, <3>1, NextStepLimits DEF Types
  <2>3. CASE UNCHANGED step /\ (step_timer' => step_timer) /\ outcome' \in {outcome, "failed"}
    BY <2>1, <2>3, LimitsKept
  <2>. QED
    BY <1>9, <2>2, <2>3 DEF DriverExit, Finish, Continue
<1>10. CASE FirstSigint \/ OnTextFails
  BY <1>10, LimitsKept DEF FirstSigint, OnTextFails, Cancel, procVars, usageVars, callVars
<1>. QED
  BY <1>1, <1>2, <1>3, <1>4, <1>5, <1>6, <1>7, <1>8, <1>9, <1>10 DEF Next, Respond, Run

(* A turn makes no request at or past its budget or its step cap, and      *)
(* stops for one of them only where it is reached (next_step).             *)
THEOREM StopsInTime == Spec => []StopsAtLimits
<1>1. Init => WithinLimits
  BY DEF Init, WithinLimits
<1>2. Types /\ WithinLimits /\ [Next]_vars => WithinLimits'
  BY LimitsStep
<1>3. WithinLimits => StopsAtLimits
  BY DEF WithinLimits, StopsAtLimits
<1>. QED
  BY <1>1, <1>2, <1>3, TypesInvariant, PTL DEF Spec
---------------------------------------------------------------------------
(* The conversation stays well formed wherever it must be, provided no     *)
(* message is refused without latching the session.                        *)

LEMMA WarnedStep == ASSUME WarnedInTime, [Next]_vars PROVE WarnedInTime'
<1>1. CASE UNCHANGED usageVars
  BY <1>1 DEF WarnedInTime, WarnAt, usageVars
<1>2. CASE tokens' = 0
  BY <1>2 DEF WarnedInTime
<1>3. ASSUME NEW c \in Calls, NEW u \in Usage, ProviderDone(c, u) PROVE WarnedInTime'
  <2>1. context_warned' = WarnContext(tokens')
    BY <1>3 DEF ProviderDone
  <2>. QED
    BY <2>1 DEF WarnedInTime, WarnContext, WarnAt
<1>4. UNCHANGED usageVars \/ tokens' = 0 \/ \E c \in Calls, u \in Usage : ProviderDone(c, u)
  <2>1. CASE Resume \/ RepairCall \/ RepairDone \/ RepairFails \/ TurnStartFails \/ SecondSigint
             \/ UNCHANGED vars
    BY <2>1 DEF Resume, RepairCall, RepairDone, RepairFails, TurnStartFails, SecondSigint,
                turnVars, vars
  <2>2. CASE Exit \/ Kill \/ OsCrash \/ TurnStart
    BY <2>2 DEF Exit, Kill, OsCrash, Down, TurnStart
  <2>3. CASE StepTimer \/ Respond \/ ToolDone \/ Run \/ FirstSigint \/ OnTextFails
    BY <2>3 DEF StepTimer, Respond, ProviderError, ToolDone, Run, StartInlineTool,
                StartAsyncTool, DriverExit, AnswerInterrupted, FinishInterrupted, FirstSigint,
                OnTextFails
  <2>. QED
    BY <2>1, <2>2, <2>3 DEF Next
<1>. QED
  BY <1>1, <1>2, <1>3, <1>4

(* An append that succeeds or tears leaves a log that has begun if the     *)
(* message belongs behind the view.                                        *)
LEMMA AppendFollows ==
  ASSUME TypeOK, LogFollows, NEW m \in Message, AppendOk(m) \/ AppendFails(m),
         CanAppend => Begun(Append(view, m))
  PROVE  LogFollows'
<1>1. CASE AppendOk(m)
  BY <1>1 DEF AppendOk, CanAppend, LogFollows
<1>2. CASE UNCHANGED sessVars
  BY <1>2 DEF sessVars, LogFollows
<1>3. CASE AppendTorn(m)
  BY <1>3 DEF AppendTorn, CanAppend, LogFollows
<1>. QED
  BY <1>1, <1>2, <1>3 DEF AppendFails

(* A failed append leaves the view and seals the session. *)
LEMMA AppendFailsSeals == ASSUME NEW m, AppendFails(m) PROVE view' = view /\ Sealed'
BY DEF AppendFails, AppendTorn, Sealed, sessVars

LEMMA SessionFollows ==
  ASSUME TypeOK, LogFollows,
         \/ Attach \/ Detach \/ CloseSession \/ UNCHANGED sessVars
         \/ \E n \in 0 .. Len(log) : LoseTail(n)
  PROVE  LogFollows'
<1>1. ASSUME NEW n \in 0 .. Len(log) PROVE Begun(SubSeq(log, 1, n))
  BY CutBegun DEF TypeOK, LogTypeOK, LogFollows
<1>2. CASE Attach
  BY <1>2 DEF LogFollows, Attach
<1>3. CASE UNCHANGED sessVars
  BY <1>3 DEF LogFollows, sessVars
<1>4. CASE Detach
  BY <1>4, EmptyConversation DEF LogFollows, Detach
<1>5. CASE \E n \in 0 .. Len(log) : LoseTail(n)
  BY <1>1, <1>5, EmptyConversation DEF LogFollows, LoseTail
<1>. QED
  BY <1>2, <1>3, <1>4, <1>5 DEF CloseSession

(* The round is over when its last call is answered. *)
LEMMA RoundOver ==
  ASSUME TypeOK, LogFollows, RoundOpen, tool_index >= Len(calls)
  PROVE  WellFormed(view) /\ view[Len(view)].role = "tool"
<1>. DEFINE r == Len(view) - tool_index
<1>1. /\ view \in Seq(Message) /\ Begun(view) /\ Len(view) \in Nat
      /\ tool_index = Len(calls) /\ Len(calls) \in Nat /\ Len(calls) >= 1
  BY CallsFacts, SeqFacts DEF TypeOK, LogTypeOK, LogFollows, RoundOpen
<1>2. r \in DOMAIN view /\ view[r].calls = calls /\ calls # << >> /\ r + Len(calls) = Len(view)
  BY <1>1, SeqFacts DEF RoundOpen
<1>3. Len(view) \in DOMAIN view /\ Len(view) > r
  BY <1>1, <1>2, SeqFacts
<1>. HIDE DEF r
<1>4. Len(view) <= r + Len(view[r].calls) /\ r + Len(view[r].calls) <= Len(view)
  BY <1>1, <1>2
<1>5. ASSUME NEW i \in DOMAIN view, i > r PROVE view[i].calls = << >>
  BY <1>1, <1>2, <1>4, <1>5, BehindRound
<1>6. WellFormed(view)
  BY <1>1, <1>2, <1>4, <1>5, LastRoundComplete
<1>7. view[Len(view)] = ToolMsg(view[r].calls[Len(view) - r])
  BY <1>1, <1>2, <1>3, <1>4, BehindRound
<1>. QED
  BY <1>6, <1>7, MessageFacts

(* The answer of the current call belongs behind the view, and leaves the  *)
(* round open at the next call.                                            *)
LEMMA AnswerBelongs ==
  ASSUME TypeOK, LogFollows, RoundOpen, tool_index < Len(calls)
  PROVE  /\ Begun(Append(view, ToolMsg(calls[tool_index + 1])))
         /\ /\ AppendOk(ToolMsg(calls[tool_index + 1])) 
            /\ tool_index' = tool_index + 1 /\ calls' = calls
            => RoundOpen'
<1>. DEFINE r == Len(view) - tool_index
            m == ToolMsg(calls[tool_index + 1])
<1>1. /\ view \in Seq(Message) /\ Begun(view) /\ Len(view) \in Nat /\ DOMAIN view = 1 .. Len(view)
      /\ tool_index \in Nat /\ Len(calls) \in Nat
  BY CallsFacts, SeqFacts DEF TypeOK, LogTypeOK, LogFollows
<1>2. r \in DOMAIN view /\ view[r].calls = calls /\ r + tool_index = Len(view) /\ calls # << >>
  BY <1>1 DEF RoundOpen
<1>3. m \in Message
  BY AnswerFacts
<1>. HIDE DEF r
<1>4. Begun(Append(view, ToolMsg(view[r].calls[tool_index + 1])))
  BY <1>1, <1>2, AnswerNext
<1>5. ASSUME AppendOk(m), tool_index' = tool_index + 1, calls' = calls PROVE RoundOpen'
  <2>1. view' = Append(view, m) /\ Len(view') = Len(view) + 1 /\ view'[r] = view[r]
    BY <1>2, <1>3, <1>5, <1>1, AppendFacts DEF AppendOk
  <2>2. Len(view') - tool_index' = r /\ r >= 1
    BY <1>1, <1>2, <1>5, <2>1
  <2>. QED
    BY <1>2, <1>5, <2>1, <2>2 DEF RoundOpen
<1>. QED
  BY <1>2, <1>4, <1>5

(* What a turn that finishes must leave behind, for what it reports. *)
LEMMA FinishConversation ==
  ASSUME TypeOK', NEW o, Finish(o), stream' = FALSE, LogFollows', Sealed' \/ WellFormed(view'),
         o = "done" => view'[Len(view')] = AssistantMsg(<< >>),
         o \in {"stepcap", "contextlimit"} =>
           WellFormed(view') /\ view'[Len(view')].role = "tool",
         o = "contextlimit" /\ 0 < ContextWarnPct /\ WarnAt <= Budget => context_warned'
  PROVE  Conversation'
<1>1. /\ outcome' = o /\ stack' = "loop" /\ step_timer' = FALSE /\ proc' = "prompt"
  BY DEF Finish
<1>2. RepairInPlace' /\ TurnRound'
  BY <1>1 DEF RepairInPlace, TurnRound
<1>3. Sealed' = (latched' \/ ~(Len(view') < MaxMessages))
  BY SeqFacts, AgentAssumption DEF Sealed, TypeOK, LogTypeOK
<1>4. OpenRoundOnlyIfSealed'
  BY <1>1, <1>3 DEF OpenRoundOnlyIfSealed
<1>5. OutcomeMatchesRecord'
  <2>1. WarnAt' = WarnAt /\ Budget' = Budget
    BY DEF WarnAt, Budget
  <2>. QED
    BY <1>1, <1>3, <2>1 DEF OutcomeMatchesRecord
<1>. QED
  BY <1>2, <1>4, <1>5 DEF Conversation
(* While no turn runs only the log and the repair matter. *)
LEMMA IdleConversation ==
  ASSUME LogFollows', RepairInPlace', OpenRoundOnlyIfSealed', proc' # "turn", stream' = FALSE,
         outcome' = "none"
  PROVE  Conversation'
BY DEF Conversation, TurnRound, OutcomeMatchesRecord

(* The round agent_repair_session repairs. *)
LEMMA RepairRound ==
  ASSUME TypeOK, LogFollows, RepairInPlace, proc = "repair", repair_next \in DOMAIN RepairCalls
  PROVE  /\ LastRound(view) \in DOMAIN view /\ view[LastRound(view)].calls = RepairCalls
         /\ RepairCalls # << >>
         /\ \A i \in DOMAIN view : i > LastRound(view) => view[i].calls = << >>
         /\ LastRound(view) + (repair_next - 1) <= Len(view)
<1>1. /\ RepairCalls # << >> /\ DOMAIN RepairCalls = 1 .. Len(RepairCalls)
      /\ Len(RepairCalls) \in Nat
  BY RepairCallFacts, CallsFacts
<1>2. LastRound(view) # 0 /\ view[LastRound(view)].calls = RepairCalls
  BY <1>1 DEF RepairCalls
<1>3. LastRound(view) \in DOMAIN view
      /\ \A i \in DOMAIN view : i > LastRound(view) => view[i].calls = << >>
  BY <1>2, LastRoundFacts DEF TypeOK, LogTypeOK
<1>4. LastRound(view) \in 1 .. Len(view) /\ Len(view) \in Nat
  BY <1>3, SeqFacts DEF TypeOK, LogTypeOK
<1>5. LastRound(view) + (repair_next - 1) <= Len(view)
  <2>1. CASE repair_next = 1
    BY <1>4, <2>1
  <2>2. CASE repair_next > 1
    <3>1. repair_next - 1 \in DOMAIN RepairCalls /\ repair_next - 1 < repair_next
      BY <1>1, <2>2
    <3>. QED
      BY <3>1 DEF RepairInPlace
  <2>. QED
    BY <1>1, <2>1, <2>2
<1>. QED
  BY <1>1, <1>2, <1>3, <1>5

(* An unanswered call is the next one behind the view. *)
LEMMA UnansweredIsNext ==
  ASSUME TypeOK, LogFollows, RepairInPlace, proc = "repair", repair_next \in DOMAIN RepairCalls,
         Unanswered(RepairCalls[repair_next])
  PROVE  /\ Len(view) = LastRound(view) + (repair_next - 1)
         /\ Begun(Append(view, ToolMsg(RepairCalls[repair_next])))
<1>. DEFINE r == LastRound(view)
            k == repair_next
<1>1. /\ r \in DOMAIN view /\ view[r].calls = RepairCalls /\ RepairCalls # << >>
      /\ r + (k - 1) <= Len(view)
  BY RepairRound
<1>2. /\ view \in Seq(Message) /\ Begun(view) /\ Len(view) \in Nat /\ DOMAIN view = 1 .. Len(view)
      /\ k \in Nat /\ k >= 1 /\ DOMAIN RepairCalls = 1 .. Len(RepairCalls)
      /\ Len(RepairCalls) \in Nat
  BY SeqFacts, RepairCallFacts, CallsFacts DEF TypeOK, LogTypeOK, LogFollows
<1>3. ASSUME r + k <= Len(view) PROVE FALSE
  <2>1. view[r + k] = ToolMsg(RepairCalls[k])
    BY <1>1, <1>2, <1>3 DEF Begun
  <2>2. r + k \in (r + 1) .. Len(view)
    BY <1>1, <1>2, <1>3
  <2>. QED
    BY <2>1, <2>2, MessageFacts DEF Unanswered, CallAnswered
<1>4. Len(view) = r + (k - 1)
  BY <1>1, <1>2, <1>3
<1>. HIDE DEF r, k
<1>5. Begun(Append(view, ToolMsg(view[r].calls[(k - 1) + 1])))
  <2>1. k - 1 \in Nat /\ k - 1 < Len(view[r].calls) /\ r + (k - 1) = Len(view)
    BY <1>1, <1>2, <1>4 DEF k
  <2>. QED
    BY <1>1, <1>2, <2>1, AnswerNext
<1>6. (k - 1) + 1 = k
  BY <1>2
<1>. QED
  BY <1>1, <1>4, <1>5, <1>6 DEF r, k

(* A call found answered has its answer in its place. *)
LEMMA AnsweredInPlace ==
  ASSUME TypeOK, LogFollows, RepairInPlace, proc = "repair", repair_next \in DOMAIN RepairCalls,
         ~Unanswered(RepairCalls[repair_next])
  PROVE  LastRound(view) + repair_next <= Len(view)
<1>. DEFINE r == LastRound(view)
            k == repair_next
<1>1. /\ r \in DOMAIN view /\ view[r].calls = RepairCalls /\ RepairCalls # << >>
      /\ \A i \in DOMAIN view : i > r => view[i].calls = << >>
  BY RepairRound
<1>2. /\ view \in Seq(Message) /\ Begun(view) /\ Len(view) \in Nat /\ DOMAIN view = 1 .. Len(view)
      /\ k \in Nat /\ k >= 1 /\ DOMAIN RepairCalls = 1 .. Len(RepairCalls)
      /\ Len(RepairCalls) \in Nat
      /\ \A i, j \in 1 .. Len(RepairCalls) : RepairCalls[i] = RepairCalls[j] => i = j
  BY SeqFacts, RepairCallFacts, CallsFacts DEF TypeOK, LogTypeOK, LogFollows
<1>3. PICK j \in (r + 1) .. Len(view) : view[j].role = "tool" /\ view[j].id = RepairCalls[k]
  BY DEF Unanswered, CallAnswered
<1>. HIDE DEF r, k
<1>4. j \in DOMAIN view /\ j > r /\ r \in Nat
  BY <1>1, <1>2, <1>3
<1>5. PICK i \in 1 .. j - 1 : j <= i + Len(view[i].calls)
  BY <1>2, <1>3, <1>4 DEF Begun
<1>6. i \in DOMAIN view /\ view[i].calls # << >> /\ i < j
  <2>1. i \in DOMAIN view /\ i \in Nat /\ i < j
    BY <1>2, <1>4, <1>5
  <2>2. Len(view[i].calls) # 0
    BY <1>5, <2>1
  <2>. QED
    BY <2>1, <2>2
<1>7. i = r
  <2>1. ~(i > r)
    BY <1>1, <1>6
  <2>2. ASSUME i < r PROVE FALSE
    <3>1. i + Len(view[i].calls) < r
      BY <1>1, <1>2, <1>6, <2>2, EarlierComplete
    <3>2. Len(view[i].calls) \in Nat
      BY <1>2, <1>6, SeqFacts
    <3>. QED
      BY <1>2, <1>4, <1>5, <1>6, <3>1, <3>2
  <2>. QED
    BY <1>1, <1>2, <1>6, <2>1, <2>2
<1>8. j - r \in 1 .. Len(RepairCalls) /\ r + (j - r) = j
  BY <1>1, <1>2, <1>4, <1>5, <1>7
<1>9. view[j] = ToolMsg(RepairCalls[j - r])
  <2>1. i \in DOMAIN view /\ j - r \in DOMAIN view[i].calls
    BY <1>1, <1>2, <1>6, <1>7, <1>8
  <2>2. i + (j - r) = j /\ j <= Len(view)
    BY <1>2, <1>4, <1>7, <1>8
  <2>3. i + (j - r) <= Len(view) => view[i + (j - r)] = ToolMsg(view[i].calls[j - r])
    BY <1>2, <2>1 DEF Begun
  <2>. QED
    BY <1>1, <1>7, <2>2, <2>3
<1>10. j - r = k
  BY <1>2, <1>3, <1>8, <1>9, MessageFacts DEF k
<1>. QED
  BY <1>2, <1>4, <1>10 DEF r, k

(* A tool message leaves the last round where it is. *)
LEMMA SameLastRound ==
  ASSUME NEW c \in Seq(Message), NEW m \in Message, m.calls = << >>
  PROVE  LastRound(Append(c, m)) = LastRound(c)
<1>1. /\ Len(Append(c, m)) = Len(c) + 1 /\ Len(c) \in Nat /\ DOMAIN c = 1 .. Len(c)
      /\ DOMAIN Append(c, m) = 1 .. Len(c) + 1
      /\ \A i \in DOMAIN c : Append(c, m)[i] = c[i]
      /\ Append(c, m)[Len(c) + 1] = m
  BY AppendFacts, SeqFacts
<1>2. Rounds(Append(c, m)) = Rounds(c)
  BY <1>1 DEF Rounds
<1>. QED
  BY <1>2 DEF LastRound
LEMMA ResumeConversation ==
  ASSUME Types, Conversation, TypeOK', Resume PROVE Conversation'
<1>1. LogFollows'
  BY SessionFollows DEF Resume, Types, Conversation
<1>2. proc' = "repair" /\ repair_next' = 1 /\ stream' = FALSE /\ outcome' = "none"
  BY DEF Resume, Types, TypeOK, TurnBounds, turnVars
<1>3. RepairInPlace'
  <2>1. RepairCalls' \in Calls
    BY LastRoundCalls DEF RepairCalls, TypeOK, LogTypeOK
  <2>2. \A k \in DOMAIN RepairCalls' : ~(k < 1)
    BY <2>1, CallsFacts
  <2>. QED
    BY <1>2, <2>2 DEF RepairInPlace
<1>. QED
  BY <1>1, <1>2, <1>3, IdleConversation DEF OpenRoundOnlyIfSealed

LEMMA RepairConversation ==
  ASSUME Types, Conversation, TypeOK', RepairCall \/ RepairDone \/ RepairFails
  PROVE  Conversation'
<1>. DEFINE k == repair_next
            i == RepairCalls[k]
<1>0. /\ proc = "repair" /\ stream' = FALSE /\ outcome' = "none" /\ TypeOK
      /\ k \in Nat /\ k >= 1 /\ LogFollows /\ RepairInPlace
  BY DEF RepairCall, RepairDone, RepairFails, Types, TypeOK, TurnBounds, turnVars, Conversation
<1>1. /\ RepairCalls \in Calls /\ DOMAIN RepairCalls = 1 .. Len(RepairCalls)
      /\ Len(RepairCalls) \in Nat
  BY <1>0, RepairCallFacts, CallsFacts
<1>2. CASE RepairCall
  <2>1. k \in DOMAIN RepairCalls
    BY <1>0, <1>1, <1>2 DEF RepairCall
  <2>2. CASE Unanswered(i)
    <3>1. AppendOk(ToolMsg(i)) /\ proc' = "repair" /\ repair_next' = k + 1
      BY <1>2, <2>2 DEF RepairCall
    <3>2. /\ Len(view) = LastRound(view) + (k - 1) /\ Begun(Append(view, ToolMsg(i)))
      BY <1>0, <2>1, <2>2, UnansweredIsNext
    <3>3. ToolMsg(i) \in Message /\ ToolMsg(i).calls = << >> /\ view \in Seq(Message)
      BY <1>0, <2>1, RepairCallFacts, MessageFacts DEF TypeOK, LogTypeOK
    <3>4. LogFollows'
      BY <1>0, <3>1, <3>2, <3>3, AppendFollows
    <3>5. /\ LastRound(view) \in DOMAIN view /\ view[LastRound(view)].calls = RepairCalls
          /\ LastRound(view) \in Nat /\ LastRound(view) # 0
      <4>1. LastRound(view) \in DOMAIN view /\ view[LastRound(view)].calls = RepairCalls
        BY <1>0, <2>1, RepairRound
      <4>. QED
        BY <3>3, <4>1, SeqFacts
    <3>6. /\ view' = Append(view, ToolMsg(i)) /\ Len(view') = Len(view) + 1
          /\ view'[LastRound(view)] = view[LastRound(view)]
      BY <3>1, <3>3, <3>5, AppendFacts DEF AppendOk
    <3>7. LastRound(view') = LastRound(view)
      BY <3>3, <3>6, SameLastRound
    <3>8. RepairCalls' = RepairCalls
      BY <3>5, <3>6, <3>7 DEF RepairCalls
    <3>9. RepairInPlace'
      BY <1>0, <1>1, <3>1, <3>2, <3>5, <3>6, <3>7, <3>8 DEF RepairInPlace
    <3>. QED
      BY <1>0, <3>1, <3>4, <3>9, IdleConversation DEF OpenRoundOnlyIfSealed
  <2>3. CASE ~Unanswered(i)
    <3>1. UNCHANGED sessVars /\ proc' = "repair" /\ repair_next' = k + 1 /\ view' = view
      BY <1>2, <2>3 DEF RepairCall, sessVars
    <3>2. LogFollows'
      BY <1>0, <3>1, SessionFollows
    <3>3. LastRound(view) + k <= Len(view) /\ LastRound(view) \in Nat /\ Len(view) \in Nat
      <4>1. LastRound(view) + k <= Len(view) /\ LastRound(view) \in DOMAIN view
        BY <1>0, <2>1, <2>3, AnsweredInPlace, RepairRound
      <4>2. view \in Seq(Message)
        BY <1>0 DEF TypeOK, LogTypeOK
      <4>. QED
        BY <4>1, <4>2, SeqFacts
    <3>4. RepairInPlace'
      BY <1>0, <1>1, <3>1, <3>3 DEF RepairInPlace, RepairCalls
    <3>. QED
      BY <1>0, <3>1, <3>2, <3>4, IdleConversation DEF OpenRoundOnlyIfSealed
  <2>. QED
    BY <2>2, <2>3
<1>3. CASE RepairDone
  <2>1. UNCHANGED sessVars /\ proc' = "prompt" /\ k > Len(RepairCalls)
    BY <1>3 DEF RepairDone
  <2>2. LogFollows' /\ RepairInPlace' /\ view' = view
    BY <1>0, <2>1, SessionFollows DEF RepairInPlace, sessVars
  <2>3. view \in Seq(Message) /\ Begun(view)
    BY <1>0 DEF TypeOK, LogTypeOK, LogFollows
  <2>4. WellFormed(view)
    <3>1. CASE LastRound(view) = 0
      <4>1. ASSUME NEW j \in DOMAIN view PROVE j + Len(view[j].calls) <= Len(view)
        <5>1. ASSUME view[LastRound(view)].calls # << >>, LastRound(view) \in DOMAIN view
              PROVE FALSE
          BY <2>3, <3>1, <5>1, SeqFacts
        <5>2. Len(view[j].calls) = 0
          BY <2>3, <5>1, LastRoundFacts
        <5>. QED
          BY <2>3, <5>2, SeqFacts
      <4>. QED
        BY <2>3, <4>1, CompleteIsWellFormed
    <3>2. CASE LastRound(view) # 0
      <4>1. /\ LastRound(view) \in DOMAIN view /\ view[LastRound(view)].calls = RepairCalls
            /\ RepairCalls # << >>
            /\ \A j \in DOMAIN view : j > LastRound(view) => view[j].calls = << >>
        BY <2>3, <3>2, LastRoundFacts DEF RepairCalls
      <4>2. Len(RepairCalls) \in DOMAIN RepairCalls /\ Len(RepairCalls) < k
        BY <1>0, <1>1, <2>1, <4>1, CallsFacts
      <4>3. LastRound(view) + Len(RepairCalls) <= Len(view)
        BY <1>0, <4>2 DEF RepairInPlace
      <4>. QED
        BY <2>3, <4>1, <4>3, LastRoundComplete
    <3>. QED
      BY <3>1, <3>2
  <2>. QED
    BY <1>0, <2>1, <2>2, <2>4, IdleConversation DEF OpenRoundOnlyIfSealed
<1>4. CASE RepairFails
  <2>1. AppendFails(ToolMsg(i)) /\ proc' = "drain" /\ Unanswered(i) /\ k \in DOMAIN RepairCalls
    BY <1>0, <1>1, <1>4 DEF RepairFails
  <2>2. ToolMsg(i) \in Message /\ Begun(Append(view, ToolMsg(i)))
    BY <1>0, <2>1, RepairCallFacts, UnansweredIsNext
  <2>3. LogFollows'
    BY <1>0, <2>1, <2>2, AppendFollows
  <2>. QED
    BY <1>0, <2>1, <2>3, IdleConversation DEF OpenRoundOnlyIfSealed, RepairInPlace
<1>. QED
  BY <1>2, <1>3, <1>4

(* Nothing of the turn is left in a process that ends. *)
LEMMA DownConversation ==
  ASSUME Types, Conversation, Exit \/ Kill \/ OsCrash PROVE Conversation'
<1>1. LogFollows'
  BY SessionFollows DEF Exit, Kill, OsCrash, Types, Conversation
<1>2. proc' = "down" /\ stream' = FALSE /\ outcome' = "none"
  BY DEF Exit, Kill, OsCrash, Down
<1>. QED
  BY <1>1, <1>2, IdleConversation DEF OpenRoundOnlyIfSealed, RepairInPlace

LEMMA StartConversation ==
  ASSUME Types, Conversation, TypeOK', TurnStart \/ TurnStartFails PROVE Conversation'
<1>0. /\ TypeOK /\ LogFollows /\ proc = "prompt" /\ view \in Seq(Message) /\ UserMsg \in Message
      /\ UserMsg.calls = << >> /\ UserMsg.role # "tool"
  BY MessageFacts DEF TurnStart, TurnStartFails, Types, TypeOK, LogTypeOK, Conversation
<1>1. CanAppend => WellFormed(view)
  BY <1>0 DEF CanAppend, Conversation, OpenRoundOnlyIfSealed
<1>2. CanAppend => Begun(Append(view, UserMsg)) /\ WellFormed(Append(view, UserMsg))
  BY <1>0, <1>1, BeginMessage
<1>3. LogFollows'
  BY <1>0, <1>2, AppendFollows DEF TurnStart, TurnStartFails
<1>4. CASE TurnStart
  <2>1. /\ AppendOk(UserMsg) /\ proc' = "turn" /\ outcome' = "none" /\ stack' = "loop"
        /\ stream' = FALSE /\ exec' = FALSE /\ failing' = FALSE
    BY <1>4 DEF TurnStart
  <2>2. WellFormed(view')
    BY <1>2, <2>1 DEF AppendOk
  <2>. QED
    BY <1>3, <2>1, <2>2 DEF Conversation, RepairInPlace, TurnRound, OpenRoundOnlyIfSealed,
       OutcomeMatchesRecord
<1>5. CASE TurnStartFails
  <2>1. /\ AppendFails(UserMsg) /\ UNCHANGED <<proc, repair_next, turnVars>>
    BY <1>5 DEF TurnStartFails
  <2>2. view' = view /\ Sealed'
    BY <2>1, AppendFailsSeals
  <2>3. ~(~latched' /\ Len(view') < MaxMessages)
    BY <2>2, AgentAssumption, SeqFacts, <1>0 DEF Sealed
  <2>4. UNCHANGED <<outcome, context_warned, stream, WarnAt, Budget>>
    BY <2>1 DEF turnVars, usageVars, WarnAt, Budget
  <2>5. OutcomeMatchesRecord'
    BY <2>2, <2>3, <2>4 DEF OutcomeMatchesRecord, Conversation
  <2>. QED
    BY <1>0, <1>3, <2>1, <2>2, <2>3, <2>4, <2>5 DEF Conversation, RepairInPlace, TurnRound,
       OpenRoundOnlyIfSealed
<1>. QED
  BY <1>4, <1>5
(* While the turn goes on only the log and its round matter. *)
LEMMA TurnConversation ==
  ASSUME LogFollows', TurnRound', proc' = "turn", outcome' = "none" PROVE Conversation'
BY DEF Conversation, RepairInPlace, OpenRoundOnlyIfSealed, OutcomeMatchesRecord

LEMMA StepTimerConversation ==
  ASSUME Types, Conversation, TypeOK', StepTimer PROVE Conversation'
<1>1. /\ UNCHANGED sessVars /\ view' = view /\ WellFormed(view) /\ proc = "turn" /\ stream = FALSE
      /\ stack = "loop" /\ ~exec /\ exec' = exec /\ UNCHANGED turnFlags /\ ~failing
  BY DEF StepTimer, InLoop, sessVars, Types, TypeOK, Control, OneWakeup, Conversation, TurnRound
<1>2. LogFollows'
  BY <1>1, SessionFollows DEF Types, Conversation
<1>3. CASE (Finish("interrupted") \/ Finish("failed")) /\ UNCHANGED stream
  BY <1>1, <1>2, <1>3, FinishConversation
<1>4. CASE Continue /\ step_timer' = FALSE /\ UNCHANGED stack
  <2>1. proc' = "turn" /\ outcome' = "none"
    BY <1>1, <1>4 DEF Continue, Types, TurnBounds
  <2>2. TurnRound'
    BY <1>1, <1>4 DEF TurnRound, turnFlags
  <2>. QED
    BY <1>2, <2>1, <2>2, TurnConversation
<1>. QED
  BY <1>3, <1>4 DEF StepTimer

LEMMA RespondConversation ==
  ASSUME NoOversize, Types, Conversation, TypeOK', Respond PROVE Conversation'
<1>1. CASE ProviderError
  <2>1. /\ UNCHANGED sessVars /\ view' = view /\ WellFormed(view) /\ stream' = FALSE
        /\ Finish(IF cancel_requested THEN "interrupted" ELSE "failed")
    BY <1>1 DEF ProviderError, sessVars, Conversation, TurnRound
  <2>2. LogFollows'
    BY <2>1, SessionFollows DEF Types, Conversation
  <2>. QED
    BY <2>1, <2>2, FinishConversation
<1>2. ASSUME NEW c \in Calls, NEW u \in Usage, ProviderDone(c, u) PROVE Conversation'
  <2>. DEFINE m == AssistantMsg(c)
  <2>0. /\ stream' = FALSE /\ proc = "turn" /\ stack = "loop" /\ ~exec /\ exec' = exec
        /\ ~step_timer /\ failing' = failing /\ ~failing
        /\ TypeOK /\ view \in Seq(Message) /\ WellFormed(view) /\ LogFollows /\ outcome = "none"
    BY <1>2 DEF ProviderDone, InLoop, Types, TypeOK, LogTypeOK, TurnBounds, Control, OneWakeup,
                Conversation, TurnRound
  <2>1. m \in Message /\ m.calls = c /\ m.role # "tool"
    BY MessageFacts
  <2>2. Begun(Append(view, m)) /\ (c = << >> => WellFormed(Append(view, m)))
    BY <2>0, <2>1, BeginMessage
  <2>3. AppendOk(m) \/ AppendFails(m)
    BY <1>2 DEF ProviderDone, AppendTooLong, NoOversize
  <2>4. LogFollows'
    BY <2>0, <2>1, <2>2, <2>3, AppendFollows
  <2>. HIDE DEF m
  <2>5. CASE AppendFails(m) /\ Finish("failed")
    <3>1. Sealed'
      BY <2>5, AppendFailsSeals
    <3>. QED
      BY <2>0, <2>4, <2>5, <3>1, FinishConversation
  <2>6. CASE AppendOk(m) /\ c = << >> /\ Finish("done")
    <3>1. view' = Append(view, m) /\ WellFormed(view')
      BY <2>2, <2>6 DEF AppendOk
    <3>2. view'[Len(view')] = AssistantMsg(<< >>)
      BY <2>0, <2>1, <2>6, <3>1, AppendFacts DEF m
    <3>. QED
      BY <2>0, <2>4, <2>6, <3>1, <3>2, FinishConversation
  <2>7. CASE /\ AppendOk(m) /\ c # << >> /\ calls' = c /\ tool_index' = 0
             /\ Continue /\ UNCHANGED step_timer
    <3>1. view' = Append(view, m) /\ Len(view') = Len(view) + 1 /\ view'[Len(view) + 1] = m
          /\ Len(view) \in Nat
      BY <2>0, <2>1, <2>7, AppendFacts, SeqFacts DEF AppendOk
    <3>2. RoundOpen'
      BY <2>1, <2>7, <3>1 DEF RoundOpen
    <3>3. TurnRound'
      BY <2>0, <2>7, <3>2 DEF TurnRound
    <3>4. proc' = "turn" /\ outcome' = "none"
      BY <2>0, <2>7 DEF Continue
    <3>. QED
      BY <2>4, <3>3, <3>4, TurnConversation
  <2>. QED
    BY <1>2, <2>5, <2>6, <2>7 DEF ProviderDone, AppendTooLong, NoOversize, m
<1>. QED
  BY <1>1, <1>2 DEF Respond

(* tool_completed answers the current call or seals the session. *)
LEMMA ToolCompletedConversation ==
  ASSUME NoOversize, Types, Conversation, RoundOpen, tool_index < Len(calls),
         ToolCompleted, UNCHANGED calls
  PROVE  LogFollows' /\ RoundOpen' /\ (failing' => failing \/ Sealed')
<1>. DEFINE m == ToolMsg(calls[tool_index + 1])
<1>1. /\ TypeOK /\ LogFollows /\ m \in Message /\ Begun(Append(view, m))
      /\ AppendOk(m) /\ tool_index' = tool_index + 1 => RoundOpen'
  BY AnswerFacts, AnswerBelongs DEF Types, Conversation
<1>2. AppendOk(m) \/ AppendFails(m)
  BY DEF ToolCompleted, AppendTooLong, NoOversize
<1>3. LogFollows'
  BY <1>1, <1>2, AppendFollows
<1>4. CASE AppendOk(m) /\ tool_index' = tool_index + 1 /\ UNCHANGED failing
  BY <1>1, <1>3, <1>4
<1>5. CASE AppendFails(m) /\ UNCHANGED tool_index
  <2>1. view' = view /\ Sealed'
    BY <1>5, AppendFailsSeals
  <2>2. RoundOpen'
    BY <1>5, <2>1 DEF RoundOpen
  <2>. QED
    BY <1>3, <2>1, <2>2
<1>. QED
  BY <1>4, <1>5 DEF ToolCompleted, AppendTooLong, NoOversize

LEMMA ToolConversation ==
  ASSUME NoOversize, Types, Conversation,
         ToolDone \/ StartInlineTool \/ StartAsyncTool
  PROVE  Conversation'
<1>1. /\ proc = "turn" /\ proc' = "turn" /\ outcome' = "none" /\ stream' = FALSE
      /\ step_timer' = FALSE /\ ~failing /\ RoundOpen
  BY DEF ToolDone, StartInlineTool, StartAsyncTool, InLoop, Driving, procVars, Types, TypeOK,
         TurnBounds, Control, OneWakeup, BusyWaitsForNothing, Conversation, TurnRound
<1>2. CASE ToolDone \/ StartInlineTool
  <2>1. tool_index < Len(calls) /\ ToolCompleted /\ UNCHANGED calls /\ stack' = "driver"
    BY <1>2 DEF ToolDone, StartInlineTool, Driving, Types, TurnBounds
  <2>2. LogFollows' /\ RoundOpen' /\ (failing' => Sealed')
    BY <1>1, <2>1, ToolCompletedConversation
  <2>3. TurnRound'
    BY <1>1, <2>1, <2>2 DEF TurnRound
  <2>. QED
    BY <1>1, <2>2, <2>3, TurnConversation
<1>3. CASE StartAsyncTool
  <2>1. UNCHANGED <<sessVars, callVars, turnFlags>> /\ view' = view
    BY <1>3 DEF StartAsyncTool, sessVars
  <2>2. LogFollows'
    BY <2>1, SessionFollows DEF Types, Conversation
  <2>3. TurnRound'
    BY <1>1, <2>1 DEF TurnRound, RoundOpen, callVars, turnFlags
  <2>. QED
    BY <1>1, <2>2, <2>3, TurnConversation
<1>. QED
  BY <1>2, <1>3
(* A context stop has been announced: the budget lies behind the warning.  *)
LEMMA WarnedAtBudget ==
  ASSUME TypeOK, WarnedInTime, OverBudget, 0 < ContextWarnPct, WarnAt <= Budget
  PROVE  context_warned
<1>1. WarnAt \in Nat /\ Budget \in Nat
  <2>1. ContextLength * ContextWarnPct \in Nat /\ ContextLength * ContextPct \in Nat
    BY AgentAssumption
  <2>. QED
    BY <2>1 DEF WarnAt, Budget
<1>2. ContextLength > 0 /\ tokens > 0 /\ tokens >= Budget /\ tokens \in Nat
  BY DEF OverBudget, TypeOK
<1>3. tokens >= WarnAt /\ ContextWarnPct > 0
  BY <1>1, <1>2, AgentAssumption
<1>. QED
  BY <1>2, <1>3 DEF WarnedInTime

LEMMA DriverExitConversation ==
  ASSUME Types, WarnedInTime, Conversation, TypeOK', DriverExit PROVE Conversation'
<1>1. /\ proc = "turn" /\ stack = "driver" /\ ~Driving /\ RoundOpen
      /\ stream' = FALSE /\ exec' = FALSE /\ step_timer = FALSE /\ outcome = "none"
      /\ UNCHANGED <<sessVars, turnFlags, usageVars, calls, tool_index>>
      /\ view' = view /\ Sealed' = Sealed /\ (failing => Sealed)
  BY DEF DriverExit, Types, TypeOK, TurnBounds, Control, BusyWaitsForNothing, Conversation,
         TurnRound, sessVars, Sealed
<1>2. LogFollows' /\ TypeOK /\ LogFollows
  BY <1>1, SessionFollows DEF Types, Conversation
<1>3. CASE failing /\ Finish("failed")
  BY <1>1, <1>2, <1>3, FinishConversation
<1>4. CASE ~failing /\ stack' = "synthetics" /\ Continue /\ UNCHANGED step_timer
  <2>1. proc' = "turn" /\ outcome' = "none" /\ ~failing' /\ RoundOpen'
    BY <1>1, <1>4 DEF Continue, turnFlags, RoundOpen
  <2>2. TurnRound'
    BY <1>1, <1>4, <2>1 DEF TurnRound
  <2>. QED
    BY <1>2, <2>1, <2>2, TurnConversation
<1>5. CASE ~failing /\ ~canceling /\ NextStep
  <2>1. tool_index >= Len(calls)
    BY <1>1, <1>5, CallsFacts DEF Driving, Types, TypeOK
  <2>2. WellFormed(view) /\ view[Len(view)].role = "tool"
    BY <1>1, <1>2, <2>1, RoundOver
  <2>3. CASE Finish("stepcap")
    BY <1>1, <1>2, <2>2, <2>3, FinishConversation
  <2>4. CASE OverBudget /\ Finish("contextlimit")
    <3>1. 0 < ContextWarnPct /\ WarnAt <= Budget => context_warned'
      BY <1>1, <1>2, <2>4, WarnedAtBudget DEF usageVars
    <3>. QED
      BY <1>1, <1>2, <2>2, <2>4, <3>1, FinishConversation
  <2>5. CASE step_timer' = TRUE /\ stack' = "loop" /\ Continue
    <3>1. proc' = "turn" /\ outcome' = "none" /\ ~failing'
      BY <1>1, <1>5, <2>5 DEF Continue, turnFlags
    <3>2. TurnRound'
      BY <1>1, <2>2, <2>5, <3>1 DEF TurnRound
    <3>. QED
      BY <1>2, <3>1, <3>2, TurnConversation
  <2>. QED
    BY <1>5, <2>3, <2>4, <2>5 DEF NextStep
<1>. QED
  BY <1>3, <1>4, <1>5 DEF DriverExit

LEMMA SyntheticsConversation ==
  ASSUME Types, Conversation, TypeOK', AnswerInterrupted \/ FinishInterrupted
  PROVE  Conversation'
<1>. DEFINE m == ToolMsg(calls[tool_index + 1])
<1>1. /\ stack = "synthetics" /\ proc = "turn" /\ RoundOpen /\ ~failing /\ outcome = "none"
      /\ stream = FALSE /\ exec = FALSE /\ step_timer = FALSE /\ TypeOK /\ LogFollows
      /\ tool_index \in Nat /\ Len(calls) \in Nat
  BY CallsFacts DEF AnswerInterrupted, FinishInterrupted, Types, TypeOK, TurnBounds, Control,
     BusyWaitsForNothing, Conversation, TurnRound
<1>2. tool_index < Len(calls) =>
        /\ m \in Message /\ Begun(Append(view, m))
        /\ AppendOk(m) /\ tool_index' = tool_index + 1 /\ calls' = calls => RoundOpen'
  BY <1>1, AnswerFacts, AnswerBelongs
<1>. HIDE DEF m
<1>3. CASE AnswerInterrupted
  <2>1. /\ tool_index < Len(calls) /\ AppendOk(m) /\ tool_index' = tool_index + 1
        /\ UNCHANGED <<proc, outcome, stack, stream, exec, step_timer, failing, calls>>
    BY <1>3 DEF AnswerInterrupted, procVars, turnFlags, m
  <2>2. LogFollows' /\ RoundOpen'
    BY <1>1, <1>2, <2>1, AppendFollows
  <2>3. TurnRound'
    BY <1>1, <2>1, <2>2 DEF TurnRound
  <2>. QED
    BY <1>1, <2>1, <2>2, <2>3, TurnConversation
<1>4. CASE FinishInterrupted
  <2>1. Finish("interrupted") /\ stream' = FALSE
    BY <1>1, <1>4 DEF FinishInterrupted
  <2>2. CASE tool_index >= Len(calls) /\ UNCHANGED sessVars
    <3>1. WellFormed(view')
      BY <1>1, <2>2, RoundOver DEF sessVars
    <3>2. LogFollows'
      BY <1>1, <2>2, SessionFollows
    <3>. QED
      BY <2>1, <3>1, <3>2, FinishConversation
  <2>3. CASE tool_index < Len(calls) /\ AppendFails(m)
    <3>1. Sealed'
      BY <2>3, AppendFailsSeals
    <3>2. LogFollows'
      BY <1>1, <1>2, <2>3, AppendFollows
    <3>. QED
      BY <2>1, <3>1, <3>2, FinishConversation
  <2>. QED
    BY <1>4, <2>2, <2>3 DEF FinishInterrupted, m
<1>. QED
  BY <1>3, <1>4

LEMMA CancelConversation ==
  ASSUME Types, Conversation, TypeOK', FirstSigint \/ SecondSigint \/ OnTextFails
  PROVE  Conversation'
<1>1. /\ InLoop /\ proc = "turn" /\ stack = "loop" /\ outcome = "none" /\ TypeOK /\ LogFollows
      /\ ~failing /\ TurnRound
  BY DEF FirstSigint, SecondSigint, OnTextFails, InLoop, Types, TurnBounds, Conversation,
         TurnRound
<1>2. LogFollows'
  BY <1>1, SessionFollows DEF FirstSigint, SecondSigint, OnTextFails
<1>3. CASE FirstSigint
  <2>1. /\ view' = view /\ UNCHANGED <<exec, failing, calls, tool_index>> /\ Cancel
    BY <1>3 DEF FirstSigint, sessVars, callVars
  <2>2. CASE /\ UNCHANGED <<proc, outcome, stack, step_timer>> /\ stream' = stream
    <3>1. TurnRound'
      <4>1. RoundOpen' = RoundOpen
        BY <2>1 DEF RoundOpen
      <4>. QED
        BY <1>1, <2>1, <2>2, <4>1 DEF TurnRound
    <3>. QED
      BY <1>1, <1>2, <2>2, <3>1, TurnConversation
  <2>3. CASE /\ stream /\ stream' = FALSE /\ step_timer' = FALSE /\ stack' = "loop"
             /\ proc' = "prompt" /\ outcome' = "interrupted"
    <3>1. WellFormed(view')
      BY <1>1, <2>1, <2>3 DEF TurnRound
    <3>. QED
      BY <1>2, <2>3, <3>1 DEF Conversation, RepairInPlace, TurnRound, OpenRoundOnlyIfSealed,
         OutcomeMatchesRecord
  <2>. QED
    BY <2>1, <2>2, <2>3 DEF Cancel
<1>4. CASE SecondSigint
  <2>1. view' = << >> /\ proc' = "drain" /\ outcome' = "none"
    BY <1>1, <1>4 DEF SecondSigint, Detach, turnVars
  <2>. QED
    BY <1>2, <2>1, EmptyConversation DEF Conversation, RepairInPlace, TurnRound,
       OpenRoundOnlyIfSealed, OutcomeMatchesRecord
<1>5. CASE OnTextFails
  <2>1. /\ view' = view
        /\ UNCHANGED <<proc, outcome, stack, stream, exec, step_timer, failing, calls, tool_index>>
    BY <1>5 DEF OnTextFails, sessVars, procVars, callVars
  <2>2. RoundOpen' = RoundOpen
    BY <2>1 DEF RoundOpen
  <2>3. TurnRound'
    BY <1>1, <2>1, <2>2 DEF TurnRound
  <2>. QED
    BY <1>1, <1>2, <2>1, <2>3, TurnConversation
<1>. QED
  BY <1>3, <1>4, <1>5

LEMMA StutterConversation ==
  ASSUME Types, Conversation, UNCHANGED vars PROVE Conversation'
<1>1. LogFollows'
  BY SessionFollows DEF vars, Types, Conversation
<1>2. /\ UNCHANGED sessVars /\ UNCHANGED procVars /\ UNCHANGED turnVars /\ WarnAt' = WarnAt
      /\ Budget' = Budget
  BY DEF vars, WarnAt, Budget
<1>3. RepairInPlace' /\ OpenRoundOnlyIfSealed' /\ OutcomeMatchesRecord'
  BY <1>2 DEF sessVars, procVars, turnVars, usageVars, Conversation, RepairInPlace, RepairCalls,
     OpenRoundOnlyIfSealed, OutcomeMatchesRecord
<1>4. TurnRound'
  BY <1>2 DEF sessVars, procVars, turnVars, turnFlags, callVars, Conversation, TurnRound,
     RoundOpen, Sealed
<1>. QED
  BY <1>1, <1>3, <1>4 DEF Conversation

LEMMA StepConversation ==
  ASSUME NoOversize, Types, WarnedInTime, Conversation, TypeOK', [Next]_vars
  PROVE  Conversation'
<1>1. CASE Resume
  BY <1>1, ResumeConversation
<1>2. CASE RepairCall \/ RepairDone \/ RepairFails
  BY <1>2, RepairConversation
<1>3. CASE Exit \/ Kill \/ OsCrash
  BY <1>3, DownConversation
<1>4. CASE TurnStart \/ TurnStartFails
  BY <1>4, StartConversation
<1>5. CASE StepTimer
  BY <1>5, StepTimerConversation
<1>6. CASE Respond
  BY <1>6, RespondConversation
<1>7. CASE ToolDone \/ StartInlineTool \/ StartAsyncTool
  BY <1>7, ToolConversation
<1>8. CASE DriverExit
  BY <1>8, DriverExitConversation
<1>9. CASE AnswerInterrupted \/ FinishInterrupted
  BY <1>9, SyntheticsConversation
<1>10. CASE FirstSigint \/ SecondSigint \/ OnTextFails
  BY <1>10, CancelConversation
<1>11. CASE UNCHANGED vars
  BY <1>11, StutterConversation
<1>. QED
  BY <1>1, <1>2, <1>3, <1>4, <1>5, <1>6, <1>7, <1>8, <1>9, <1>10, <1>11 DEF Next, Run

LEMMA InitConversation == Init => WarnedInTime /\ Conversation
<1>. SUFFICES ASSUME Init PROVE WarnedInTime /\ Conversation
  OBVIOUS
<1>1. /\ log = << >> /\ view = << >> /\ ~latched /\ ~attached /\ proc = "down" /\ outcome = "none"
      /\ stream = FALSE /\ tokens = 0
  BY DEF Init
<1>2. LogFollows
  BY <1>1, EmptyConversation DEF LogFollows
<1>. QED
  BY <1>1, <1>2 DEF WarnedInTime, Conversation, RepairInPlace, TurnRound, OpenRoundOnlyIfSealed,
     OutcomeMatchesRecord

(* The session and the turn keep step, in every run in which no line is    *)
(* refused for its length alone.                                           *)
THEOREM ConversationInvariant ==
  ASSUME NoOversize PROVE Spec => [](Types /\ WarnedInTime /\ Conversation)
<1>1. Types /\ WarnedInTime /\ Conversation /\ [Next]_vars => (Types /\ WarnedInTime /\ Conversation)'
  <2>. SUFFICES ASSUME Types, WarnedInTime, Conversation, [Next]_vars
                PROVE  (Types /\ WarnedInTime /\ Conversation)'
    OBVIOUS
  <2>1. TypeOK' /\ TurnBounds' /\ Control'
    BY StepTypes, StepControl DEF Types
  <2>2. WarnedInTime'
    BY WarnedStep
  <2>3. Conversation'
    BY <2>1, StepConversation
  <2>. QED
    BY <2>1, <2>2, <2>3 DEF Types
<1>2. Init => Types /\ WarnedInTime /\ Conversation
  BY InitTypes, InitConversation
<1>. QED
  BY <1>1, <1>2, PTL DEF Spec
(* Every request goes out over a conversation in which each call is        *)
(* answered right behind its round, whatever was torn, killed, interrupted *)
(* or repaired before.                                                     *)
THEOREM RequestsAreWellFormed ==
  ASSUME NoOversize PROVE Spec => []RequestWellFormed
<1>1. Conversation => RequestWellFormed
  BY DEF Conversation, TurnRound, RequestWellFormed
<1>. QED
  BY <1>1, ConversationInvariant, PTL

(* At the prompt a round is open only if the session refuses every further *)
(* message.                                                                *)
THEOREM OpenRoundIsSealed ==
  ASSUME NoOversize PROVE Spec => []OpenRoundOnlyIfSealed
<1>1. Conversation => OpenRoundOnlyIfSealed
  BY DEF Conversation
<1>. QED
  BY <1>1, ConversationInvariant, PTL

(* What on_finish reports is what the session holds. *)
THEOREM OutcomeIsRecorded ==
  ASSUME NoOversize PROVE Spec => []OutcomeMatchesRecord
<1>1. Conversation => OutcomeMatchesRecord
  BY DEF Conversation
<1>. QED
  BY <1>1, ConversationInvariant, PTL

(* Only the last round in the file can be incomplete: agent_repair_session,*)
(* which looks at no other, repairs all there is to repair.                *)
THEOREM OnlyTheLastRoundIsOpen ==
  ASSUME NoOversize PROVE Spec => []EarlierRoundsComplete
<1>1. Types /\ Conversation => EarlierRoundsComplete
  <2>. SUFFICES ASSUME Types, Conversation, NEW i \in Rounds(log), i < LastRound(log)
                PROVE  Answered(log, i)
    BY DEF EarlierRoundsComplete
  <2>1. log \in Seq(Message) /\ Begun(log) /\ i \in DOMAIN log /\ DOMAIN log = 1 .. Len(log)
        /\ Len(log) \in Nat
    BY SeqFacts DEF Types, TypeOK, LogTypeOK, Conversation, LogFollows, Rounds
  <2>2. LastRound(log) \in DOMAIN log /\ log[LastRound(log)].calls # << >>
    BY <2>1, LastRoundFacts
  <2>3. i + Len(log[i].calls) < LastRound(log)
    BY <2>1, <2>2, EarlierComplete
  <2>4. /\ Len(log[i].calls) \in Nat /\ DOMAIN log[i].calls = 1 .. Len(log[i].calls)
        /\ LastRound(log) \in 1 .. Len(log)
    BY <2>1, <2>2, SeqFacts
  <2>. QED
    BY <2>1, <2>3, <2>4 DEF Answered, Begun
<1>. QED
  BY <1>1, ConversationInvariant, PTL

=============================================================================
