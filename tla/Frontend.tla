------------------------------ MODULE Frontend ------------------------------
(***************************************************************************)
(* The program around the turn loop (main.c) with the Lua it runs: init.lua*)
(* and hooks that register hooks and tools and set options while they are  *)
(* being dispatched (lua/bridge.c, autocmd.c), the registered tools of     *)
(* tools.c, the gate every tool call passes, and the model of a turn with  *)
(* its context window (options.c, provider/models.c).                      *)
(*                                                                         *)
(* Everything is one thread.  What makes it hard is re-entrancy: Lua code  *)
(* runs in the middle of C loops over the stores it can change.  So each   *)
(* call into Lua is a step, each API call it makes is a step, and its      *)
(* return is a step.                                                       *)
(***************************************************************************)
EXTENDS Naturals, Sequences, FiniteSets

CONSTANTS
  Modes,          \* the command lines: [repl, yes, locked : BOOLEAN, cli : Models \cup {NoModel}]
  Models, NoModel, DefaultModel,   \* DefaultModel: MUA_DEFAULT_MODEL
  Window(_),      \* the catalogue's context window of a model; 0: not listed
  EnvWindow,      \* MUA_CONTEXT_LENGTH
  Args,           \* the JSON arguments of proposed calls
  Tables,         \* the tables a hook may make up
  Shown(_),       \* JSON -> the Lua value hooks and tools get, or NoValue
  Captured(_),    \* Lua table -> the JSON it becomes, or NoValue
  IsObject(_),    \* cJSON_IsObject
  IsTable(_),     \* LUA_TTABLE
  NoValue,
  ToolNames,      \* the names Lua registers tools under
  MaxAutocmds,    \* kMaxAutocmds
  MaxTools,       \* kMaxRegisteredTools
  MaxEffects,     \* bound: API calls of Lua code in a run
  MaxPrompts,     \* bound: lines typed
  MaxCalls        \* bound: tool calls proposed in a turn

ASSUME FrontendAssumption ==
  /\ DefaultModel \in Models /\ NoModel \notin Models
  /\ \A m \in Models : Window(m) \in Nat
  /\ MaxAutocmds \in Nat \ {0} /\ MaxTools \in Nat \ {0} /\ EnvWindow \in Nat
  /\ MaxEffects \in Nat /\ MaxPrompts \in Nat /\ MaxCalls \in Nat
  /\ \A c \in Modes : c \in [repl : BOOLEAN, yes : BOOLEAN, locked : BOOLEAN,
                             cli : Models \cup {NoModel}]

Events == {"SessionStart", "SessionEnd", "ToolPre", "ToolPost", "StreamDelta", "UserPromptPre"}

(* tool_defs: the built-in tools and whether they are mutating (edit and   *)
(* write are as bash is).                                                  *)
Builtin == [read |-> FALSE, bash |-> TRUE]

(* Lua registry references; the stores hold at most the sum of their caps. *)
Refs == 1 .. MaxAutocmds + MaxTools + 1

VARIABLES
  mode,        \* the command line
  pc,          \* where the program is
  lua,         \* the Lua state is open
  live,        \* the Lua registry: references in use
  autocmds,    \* g_autocmds: [id, event, ref]
  nextId,      \* g_next_id
  tools,       \* g_registered: [name, mutating, ref]
  model,       \* g_options[kOptModel]: its value, and which allocation holds it
  catalog,     \* g_catalog: "none", "empty" (fetched, unusable) or "fetched"
  window,      \* context_length
  ctxModel,    \* run_repl's ctx_model
  turn,        \* turn->opts.model: the name and the allocation it points into
  d,           \* the dispatch under way
  call,        \* the tool call under way
  count,       \* effects, prompts, calls so far (bounds)
  past         \* history: the model at launch, at the first prompt, and of the last fetch

luaVars   == <<lua, live, autocmds, nextId, tools>>
modelVars == <<model, catalog, window, ctxModel, turn>>
vars == <<mode, pc, luaVars, modelVars, d, call, count, past>>

NoDispatch == [event |-> "none", n |-> 0, i |-> 0, stopped |-> FALSE, approved |-> FALSE,
               rewritten |-> FALSE, payload |-> NoValue,
               due |-> {}, heard |-> {}, foreign |-> FALSE]

NoCall == [name |-> "none", mutating |-> FALSE, ref |-> 0, proposed |-> NoValue,
           args |-> NoValue, asked |-> NoValue]

Init ==
  /\ mode \in Modes /\ pc = "init.lua"
  /\ lua = TRUE /\ live = {} /\ autocmds = <<>> /\ nextId = 1 /\ tools = <<>>
  /\ model = [value |-> NoModel, gen |-> 0] /\ catalog = "none" /\ window = 0
  /\ ctxModel = NoModel /\ turn = [value |-> NoModel, gen |-> 0]
  /\ d = NoDispatch /\ call = NoCall
  /\ count = [effects |-> 0, prompts |-> 0, calls |-> 0]
  /\ past = [launch |-> NoModel, first |-> NoModel, fetched |-> NoModel]

---------------------------------------------------------------------------
(* The API as Lua code calls it: from init.lua, from a hook, from a tool.  *)

LuaRuns == pc \in {"init.lua", "hook", "callback"}

Api ==
  /\ LuaRuns /\ count.effects < MaxEffects
  /\ count' = [count EXCEPT !.effects = @ + 1]
  /\ UNCHANGED <<mode, pc, lua, catalog, window, ctxModel, turn, call, past>>

(* luaL_ref. *)
Fresh == CHOOSE r \in Refs : r \notin live

(* Mutant: the store takes one hook too many. *)
CreateAutocmdPastCap(e) ==
  /\ Api /\ Len(autocmds) <= MaxAutocmds
  /\ autocmds' = Append(autocmds, [id |-> nextId, event |-> e, ref |-> Fresh])
  /\ nextId' = nextId + 1 /\ live' = live \cup {Fresh}
  /\ UNCHANGED <<tools, model, d>>

(* l_mua_create_autocmd, autocmd_create. *)
CreateAutocmd(e) ==
  /\ Api /\ Len(autocmds) < MaxAutocmds
  /\ autocmds' = Append(autocmds, [id |-> nextId, event |-> e, ref |-> Fresh])
  /\ nextId' = nextId + 1 /\ live' = live \cup {Fresh}
  /\ UNCHANGED <<tools, model, d>>

(* tools_lookup among the registered tools. *)
Registered(name) == {j \in DOMAIN tools : tools[j].name = name}

(* l_mua_register_tool, tools_register. *)
RegisterTool(name, mutating) ==
  /\ Api /\ name \notin DOMAIN Builtin /\ Registered(name) = {} /\ Len(tools) < MaxTools
  /\ tools' = Append(tools, [name |-> name, mutating |-> mutating, ref |-> Fresh])
  /\ live' = live \cup {Fresh}
  /\ UNCHANGED <<autocmds, nextId, model, d>>

(* Mutant: the reference of a refused callback is kept. *)
RegistrationRefusedLeaks ==
  /\ Api
  /\ live' = live \cup {Fresh}
  /\ UNCHANGED <<autocmds, nextId, tools, model, d>>

(* A full store, an unknown event, no name or one already taken: the       *)
(* reference made for the callback is released again.                      *)
RegistrationRefused ==
  /\ Api
  /\ UNCHANGED <<live, autocmds, nextId, tools, model, d>>

RefsOf(store) == {store[j].ref : j \in DOMAIN store}

(* l_mua_clear_autocmds, autocmd_clear. *)
ClearAutocmds ==
  /\ Api
  /\ live' = live \ RefsOf(autocmds) /\ autocmds' = <<>>
  /\ UNCHANGED <<nextId, tools, model, d>>

(* options_set of "model": clear_slot frees the old string. *)
SetModel(m) ==
  /\ Api
  /\ model' = [value |-> m, gen |-> model.gen + 1]
  /\ UNCHANGED <<live, autocmds, nextId, tools, d>>

(* A ToolPre hook assigns to ev.args, or into it. *)
AssignArgs(t) ==
  /\ pc = "hook" /\ d.event = "ToolPre"
  /\ Api
  /\ d' = [d EXCEPT !.payload = t, !.foreign = TRUE]
  /\ UNCHANGED <<live, autocmds, nextId, tools, model>>

LuaStep ==
  \/ \E e \in Events : CreateAutocmd(e)
  \/ \E name \in ToolNames, mutating \in BOOLEAN : RegisterTool(name, mutating)
  \/ RegistrationRefused
  \/ ClearAutocmds
  \/ \E m \in Models : SetModel(m)
  \/ \E t \in Tables : AssignArgs(t)

---------------------------------------------------------------------------
(* Dispatch of an event: mua_lua_autocmd_* and autocmd_fire. *)

Of(e) == {j \in DOMAIN autocmds : autocmds[j].event = e}

AutocmdCount(e) == Cardinality(Of(e))

(* autocmd_ref_at: the position of callback number k of event e, if any. *)
AutocmdAt(e, k) == {j \in Of(e) : Cardinality({i \in Of(e) : i < j}) = k}

(* The number of callbacks is latched; the callbacks are not. *)
Dispatch(e, payload) ==
  /\ pc' = "dispatch"
  /\ d' = [NoDispatch EXCEPT !.event = e, !.n = AutocmdCount(e), !.payload = payload,
                             !.due = {autocmds[j].id : j \in Of(e)}]

InDispatch ==
  /\ pc = "dispatch" /\ d.i < d.n /\ ~d.stopped
  /\ UNCHANGED <<mode, luaVars, modelVars, call, count, past>>

CallHook ==
  /\ InDispatch
  /\ \E j \in AutocmdAt(d.event, d.i) : d' = [d EXCEPT !.heard = @ \cup {autocmds[j].id}]
  /\ pc' = "hook"

(* An earlier hook cleared the store: reference -1 is nil, and the call of *)
(* nil an error like any other.                                            *)
CallNothing ==
  /\ InDispatch /\ AutocmdAt(d.event, d.i) = {}
  /\ d' = [d EXCEPT !.i = @ + 1]
  /\ UNCHANGED pc

(* A hook returns nil, or a value the event does not care for.             *)
Allow(x) == [x EXCEPT !.i = @ + 1]

(* Mutant: an error ends the dispatch. *)
RaiseStops(x) == [x EXCEPT !.i = x.n]

(* A hook that raises is skipped. *)
Raise(x) == [x EXCEPT !.i = @ + 1]

(* false or a string veto a tool call; false swallows a prompt. *)
Stop(x) == [x EXCEPT !.i = @ + 1, !.stopped = TRUE]

Approve(x) == [x EXCEPT !.i = @ + 1, !.approved = TRUE]

Rewrite(x, t) == [x EXCEPT !.i = @ + 1, !.payload = t, !.rewritten = TRUE,
                           !.foreign = @ \/ t # x.payload]

HookReturns ==
  /\ pc = "hook" /\ pc' = "dispatch"
  /\ \/ d' = Allow(d)
     \/ d' = Raise(d)
     \/ d.event \in {"ToolPre", "UserPromptPre"} /\ d' = Stop(d)
     \/ d.event = "ToolPre" /\ d' = Approve(d)
     \/ d.event = "ToolPre" /\ \E t \in Tables \cup {d.payload} :
          IsTable(t) /\ d' = Rewrite(d, t)
  /\ UNCHANGED <<mode, luaVars, modelVars, call, count, past>>

Dispatched(e) == pc = "dispatch" /\ d.event = e /\ (d.i = d.n \/ d.stopped)

Go(where) ==
  /\ pc' = where /\ d' = NoDispatch

---------------------------------------------------------------------------
(* The model and its context window. *)

ModelId(m) == IF m = NoModel THEN DefaultModel ELSE m

(* models_cache_populate: a body nobody can parse counts as fetched, too.  *)
Catalogs == {"none", "empty", "fetched"}

(* models_cache_window. *)
CacheWindow(cat, m) == IF cat = "fetched" THEN Window(ModelId(m)) ELSE 0

(* fetch_catalog_body: a request that fails leaves the cache as it was.    *)
FetchCatalog == catalog' \in Catalogs

(* models_context_length: the catalogue is fetched once. *)
ModelsContextLength(m) ==
  /\ IF catalog = "none" THEN FetchCatalog ELSE UNCHANGED catalog
  /\ window' = CacheWindow(catalog', m)

(* resolve_turn_model; -m is not allocated by the store, nor is NULL. *)
ResolveTurnModel ==
  IF mode.cli # NoModel THEN [value |-> mode.cli, gen |-> 0] ELSE model

(* run_agent up to the SessionStart dispatch. *)
Startup ==
  /\ pc = "init.lua"
  /\ LET m == ResolveTurnModel.value IN
     /\ IF mode.locked THEN window' = EnvWindow /\ UNCHANGED catalog ELSE ModelsContextLength(m)
     /\ past' = [past EXCEPT !.launch = m, !.fetched = m]
  /\ Dispatch("SessionStart", NoValue)
  /\ UNCHANGED <<mode, luaVars, model, ctxModel, turn, call, count>>

(* No API key, no HTTP client, or no session. *)
StartupFails ==
  /\ pc = "init.lua"
  /\ Go("tools_teardown")
  /\ UNCHANGED <<mode, luaVars, modelVars, call, count, past>>

(* run_repl seeds ctx_model; the one-shot prompt is dispatched at once. *)
Started ==
  /\ Dispatched("SessionStart")
  /\ Go("prompt")
  /\ ctxModel' = ResolveTurnModel.value
  /\ past' = [past EXCEPT !.first = ResolveTurnModel.value]
  /\ UNCHANGED <<mode, luaVars, model, catalog, window, turn, call, count>>

(* A line is typed, or the one prompt of the command line is taken. *)
Prompt ==
  /\ pc = "prompt" /\ count.prompts < IF mode.repl THEN MaxPrompts ELSE 1
  /\ count' = [count EXCEPT !.prompts = @ + 1, !.calls = 0]
  /\ Dispatch("UserPromptPre", NoValue)
  /\ UNCHANGED <<mode, luaVars, modelVars, call, past>>

(* The end of the input, or "exit"; or the one prompt is done with. *)
Quit ==
  /\ pc = "prompt" /\ (mode.repl \/ count.prompts = 1)
  /\ Dispatch("SessionEnd", NoValue)
  /\ UNCHANGED <<mode, luaVars, modelVars, call, count, past>>

Swallowed ==
  /\ Dispatched("UserPromptPre") /\ d.stopped
  /\ Go("prompt")
  /\ UNCHANGED <<mode, luaVars, modelVars, call, count, past>>

(* Mutant: the new model is noted, its window not fetched. *)
StartTurnStale ==
  /\ Dispatched("UserPromptPre") /\ ~d.stopped
  /\ Go("request")
  /\ turn' = ResolveTurnModel
  /\ LET m == turn'.value IN
     IF mode.repl /\ ~mode.locked /\ m # ctxModel
     THEN ctxModel' = m /\ past' = [past EXCEPT !.fetched = m] /\ UNCHANGED <<catalog, window>>
     ELSE UNCHANGED <<catalog, window, ctxModel, past>>
  /\ UNCHANGED <<mode, luaVars, model, call, count>>

(* The hooks let the prompt through: the model is resolved now, and in the *)
(* REPL its window is fetched if it is not the one fetched last.           *)
StartTurn ==
  /\ Dispatched("UserPromptPre") /\ ~d.stopped
  /\ Go("request")
  /\ turn' = ResolveTurnModel
  /\ LET m == turn'.value IN
     IF mode.repl /\ ~mode.locked /\ m # ctxModel
     THEN ModelsContextLength(m) /\ ctxModel' = m /\ past' = [past EXCEPT !.fetched = m]
     ELSE UNCHANGED <<catalog, window, ctxModel, past>>
  /\ UNCHANGED <<mode, luaVars, model, call, count>>

---------------------------------------------------------------------------
(* A turn, as far as its callbacks in main.c are concerned.  How it ends,  *)
(* and the record it leaves, are AgentTurn's subject.                      *)

(* agent_request: the request is built from turn->opts.model. *)
Request ==
  /\ pc = "request"
  /\ Go("stream")
  /\ UNCHANGED <<mode, luaVars, modelVars, call, count, past>>

(* on_text, after the text is written. *)
OnText ==
  /\ pc = "stream"
  /\ Dispatch("StreamDelta", NoValue)
  /\ UNCHANGED <<mode, luaVars, modelVars, call, count, past>>

(* Finished, failed, canceled or stopped: on_finish. *)
TurnEnds ==
  /\ pc \in {"stream", "driver", "completed"}
  /\ Go("prompt") /\ call' = NoCall
  /\ UNCHANGED <<mode, luaVars, modelVars, count, past>>

(* All calls of the round are answered. *)
NextRound ==
  /\ pc = "driver"
  /\ Go("request") /\ call' = NoCall
  /\ UNCHANGED <<mode, luaVars, modelVars, count, past>>

Proposes ==
  /\ pc \in {"stream", "driver"} /\ count.calls < MaxCalls
  /\ count' = [count EXCEPT !.calls = @ + 1]
  /\ UNCHANGED <<mode, luaVars, modelVars, past>>

(* start_tool: no such tool, or the arguments are no JSON. *)
BadCall ==
  /\ Proposes
  /\ call' = NoCall
  /\ Go("completed")

Definition(name) ==
  IF name \in DOMAIN Builtin THEN {[NoCall EXCEPT !.name = name, !.mutating = Builtin[name]]}
  ELSE {[NoCall EXCEPT !.name = name, !.mutating = tools[j].mutating, !.ref = tools[j].ref] :
          j \in Registered(name)}

(* start_tool and gate_with_autocmds: hooks are asked if there are any and *)
(* if the arguments can be shown to them.                                  *)
StartTool ==
  /\ Proposes
  /\ \E name \in ToolNames \cup DOMAIN Builtin, args \in Args :
       /\ \E def \in Definition(name) : call' = [def EXCEPT !.proposed = args, !.args = args]
       /\ IF AutocmdCount("ToolPre") > 0 /\ Shown(args) # NoValue
          THEN Dispatch("ToolPre", Shown(args)) ELSE Go("base_gate")

(* What gate_with_autocmds makes of the hooks' verdict: a veto; a rewrite, *)
(* if it is a JSON object; an approval; or the base gate decides.          *)
ToolPreEnds ==
  /\ Dispatched("ToolPre")
  /\ LET new == IF d.rewritten THEN Captured(d.payload) ELSE NoValue IN
     call' = IF ~d.stopped /\ new # NoValue /\ IsObject(new) THEN [call EXCEPT !.args = new]
                                                           ELSE call
  /\ pc' = IF d.stopped THEN "completed" ELSE IF d.approved THEN "run" ELSE "base_gate"
  /\ UNCHANGED <<mode, luaVars, modelVars, d, count, past>>

Gates ==
  /\ pc = "base_gate"
  /\ UNCHANGED <<mode, luaVars, modelVars, d, count, past>>

(* agent_gate_approve_all; the other gates let non-mutating tools pass. *)
GateApproves ==
  /\ Gates /\ (mode.yes \/ ~call.mutating)
  /\ pc' = "run" /\ UNCHANGED call

(* agent_gate_auto_refuse; or "n" or an end of input at the y/N prompt. *)
GateRefuses ==
  /\ Gates /\ ~mode.yes /\ call.mutating
  /\ pc' = "completed" /\ UNCHANGED call

(* agent_gate_interactive: "y" to the arguments it printed. *)
UserApproves ==
  /\ Gates /\ mode.repl /\ ~mode.yes /\ call.mutating
  /\ pc' = "run" /\ call' = [call EXCEPT !.asked = call.args]

(* execute: a built-in tool, or a registered one that cannot be called.    *)
ExecuteBuiltin ==
  /\ pc = "run" /\ (call.ref = 0 \/ Shown(call.args) = NoValue)
  /\ Go("completed")
  /\ UNCHANGED <<mode, luaVars, modelVars, call, count, past>>

(* registered_tool_execute, mua_lua_tool_invoke. *)
InvokeTool ==
  /\ pc = "run" /\ call.ref # 0 /\ Shown(call.args) # NoValue
  /\ Go("callback")
  /\ UNCHANGED <<mode, luaVars, modelVars, call, count, past>>

ToolReturns ==
  /\ pc = "callback"
  /\ Go("completed")
  /\ UNCHANGED <<mode, luaVars, modelVars, call, count, past>>

(* tool_completed: the result is appended and on_tool_result called. *)
ToolCompleted ==
  /\ pc = "completed"
  /\ Dispatch("ToolPost", NoValue)
  /\ UNCHANGED <<mode, luaVars, modelVars, call, count, past>>

(* The observers' results are discarded. *)
Observed ==
  /\ \/ Dispatched("StreamDelta") /\ Go("stream")
     \/ Dispatched("ToolPost") /\ Go("driver")
     \/ Dispatched("SessionEnd") /\ Go("tools_teardown")
  /\ UNCHANGED <<mode, luaVars, modelVars, call, count, past>>

---------------------------------------------------------------------------
(* The end of run: callbacks are released while the Lua state is alive. *)

ToolsTeardown ==
  /\ pc = "tools_teardown"
  /\ live' = live \ RefsOf(tools) /\ tools' = <<>>
  /\ pc' = "autocmd_teardown"
  /\ UNCHANGED <<mode, lua, autocmds, nextId, modelVars, d, call, count, past>>

AutocmdTeardown ==
  /\ pc = "autocmd_teardown"
  /\ live' = live \ RefsOf(autocmds) /\ autocmds' = <<>>
  /\ pc' = "lua_teardown"
  /\ UNCHANGED <<mode, lua, nextId, tools, modelVars, d, call, count, past>>

(* lua_close, then options_free and models_cache_free. *)
LuaTeardown ==
  /\ pc = "lua_teardown"
  /\ lua' = FALSE /\ live' = {}
  /\ model' = [value |-> NoModel, gen |-> model.gen + 1] /\ catalog' = "none"
  /\ pc' = "exited"
  /\ UNCHANGED <<mode, autocmds, nextId, tools, window, ctxModel, turn, d, call, count, past>>

---------------------------------------------------------------------------
MainStep ==
  \/ Startup \/ StartupFails \/ Started \/ Prompt \/ Quit \/ Swallowed \/ StartTurn
  \/ CallHook \/ CallNothing \/ HookReturns \/ Observed
  \/ Request \/ OnText \/ TurnEnds \/ NextRound
  \/ BadCall \/ StartTool \/ ToolPreEnds \/ GateApproves \/ GateRefuses \/ UserApproves
  \/ ExecuteBuiltin \/ InvokeTool \/ ToolReturns \/ ToolCompleted
  \/ ToolsTeardown \/ AutocmdTeardown \/ LuaTeardown

Next == MainStep \/ LuaStep

Spec == Init /\ [][Next]_vars

---------------------------------------------------------------------------
(* Properties. *)

(* Every variable holds a value of its type: the stores respect their caps,*)
(* and a dispatch stays within the count it latched.                       *)
TypeOK ==
  /\ mode \in Modes /\ lua \in BOOLEAN /\ live \subseteq Refs
  /\ pc \in {"init.lua", "dispatch", "hook", "prompt", "request", "stream", "driver",
            "base_gate", "run", "callback", "completed", "tools_teardown",
            "autocmd_teardown", "lua_teardown", "exited"}
  /\ Len(autocmds) <= MaxAutocmds /\ Len(tools) <= MaxTools
  /\ \A j \in DOMAIN autocmds : autocmds[j] \in [id : 1 .. nextId - 1, event : Events, ref : Refs]
  /\ \A j \in DOMAIN tools : tools[j] \in [name : ToolNames, mutating : BOOLEAN, ref : Refs]
  /\ model.value \in Models \cup {NoModel} /\ turn.value \in Models \cup {NoModel}
  /\ ctxModel \in Models \cup {NoModel} /\ window \in Nat
  /\ catalog \in Catalogs
  /\ d.event \in Events \cup {"none"} /\ d.i \in 0 .. d.n /\ d.n \in 0 .. MaxAutocmds
  /\ call.mutating \in BOOLEAN /\ call.ref \in Refs \cup {0}

(* No call runs undecided, whatever hooks do to the stores on the way:     *)
(* none of its hooks vetoed it; if its arguments can be shown to Lua, each *)
(* hook that was registered when the dispatch began, and still is, was     *)
(* asked; and a mutating tool runs only because a hook approved, under     *)
(* --yes, or because the user said yes to the very arguments that run.     *)
OnlyDecidedCallsRun ==
  pc = "run" =>
    /\ ~d.stopped
    /\ IF d.event = "ToolPre"
       THEN d.due \cap {autocmds[j].id : j \in DOMAIN autocmds} \subseteq d.heard
       ELSE Shown(call.proposed) # NoValue => Of("ToolPre") = {}
    /\ d.approved \/ mode.yes \/ ~call.mutating \/ call.asked = call.args

(* main.c:237: "ToolPre thus fires for every tool", also one whose         *)
(* arguments are nested deeper than cjson_to_object goes.  (It does not:   *)
(* gate_with_autocmds logs a warning and asks the base gate, main.c:276.)  *)
ToolPreForEveryTool == pc = "run" => d.event = "ToolPre" \/ Of("ToolPre") = {}

(* The Lua registry holds one reference for each registered hook and tool  *)
(* and no other: none leaks when a registration is refused or a hook       *)
(* clears the store it is dispatched from, none is shared, and none is     *)
(* left to be released when the Lua state is closed.                       *)
RefsOwned ==
  /\ live = RefsOf(autocmds) \cup RefsOf(tools)
  /\ Cardinality(live) = Len(autocmds) + Len(tools)
  /\ ~lua => live = {}

(* ctx_model was seeded, after the SessionStart hooks had run, with the    *)
(* model they chose, the window having been fetched for the one they       *)
(* found, and nothing has been fetched since.                              *)
SeedStale ==
  past.launch # past.first /\ past.fetched = past.launch /\ turn.value = past.first

(* In the REPL the context budget of a turn is computed from the window of *)
(* the model that turn uses, or is off: a hook may switch models before    *)
(* any prompt, swallowed prompts included, but not while the session       *)
(* starts.                                                                 *)
WindowMatchesModel ==
  pc = "request" /\ mode.repl /\ ~mode.locked /\ ~SeedStale =>
    window \in {0, Window(ModelId(turn.value))}

(* main.c:381-384: ctx_model is "an OWNED copy of the model                *)
(* `context_length` was last fetched for", so that a turn whose model it   *)
(* is may go by that window.  (Its seed need not be.)                      *)
WindowIsTheTurns ==
  pc \in {"request", "run"} /\ mode.repl /\ ~mode.locked =>
    window \in {0, Window(ModelId(turn.value))}

(* options.h:9-13: a pointer borrowed at a turn's start "stays valid for   *)
(* that turn", which reads it again for every request.  (A hook or a tool  *)
(* callback may set the option and free the string, options.c:90.)         *)
BorrowValidForTurn ==
  pc \in {"request", "run"} /\ turn.gen # 0 => turn.gen = model.gen

(* What the comments say of a turn and its hooks, its window and its       *)
(* model's name: at least one of the three is true when a tool runs.  A    *)
(* state that refutes this refutes each of them.                           *)
SomeTurnPromiseKept == ToolPreForEveryTool \/ WindowIsTheTurns \/ BorrowValidForTurn

============================================================================
