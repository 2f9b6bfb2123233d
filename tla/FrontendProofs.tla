-------------------------- MODULE FrontendProofs --------------------------
(***************************************************************************)
(* What hooks may do to the stores they are dispatched from and to the     *)
(* calls they are asked about, for any number of hooks, tools, API calls,  *)
(* prompts and models.  But for EchoKept, whatever marshalling does to     *)
(* arguments; and for that, what it does, at any depth.                    *)
(***************************************************************************)
EXTENDS FrontendArgs, WellFoundedInduction, FiniteSetTheorems, TLAPS

Hook == [id : Nat, event : Events, ref : Refs]
Tool == [name : ToolNames, mutating : BOOLEAN, ref : Refs]

(* What a dispatch hands to its hooks, and the arguments of a call.        *)
Payloads == {NoValue} \cup Tables \cup {Shown(a) : a \in Args}
Arguments == {NoValue} \cup Args \cup {Captured(t) : t \in Payloads}

ModelNames == Models \cup {NoModel}

DispatchRecord ==
  [event : Events \cup {"none"}, n : 0 .. MaxAutocmds, i : Nat, stopped : BOOLEAN,
   approved : BOOLEAN, rewritten : BOOLEAN, payload : Payloads,
   due : SUBSET Nat, heard : SUBSET Nat, foreign : BOOLEAN]

CallRecord ==
  [name : ToolNames \cup {"read", "bash", "none"}, mutating : BOOLEAN, ref : Refs \cup {0},
   proposed : Args \cup {NoValue}, args : Arguments, asked : Arguments]

(* The stores and the Lua registry. *)
StoreTypes ==
  /\ lua \in BOOLEAN /\ live \subseteq Refs
  /\ autocmds \in Seq(Hook) /\ Len(autocmds) <= MaxAutocmds
  /\ nextId \in Nat \ {0} /\ \A j \in 1 .. Len(autocmds) : autocmds[j].id \in 1 .. nextId - 1
  /\ tools \in Seq(Tool) /\ Len(tools) <= MaxTools

(* A model, its windows, and the history of both. *)
ModelTypes ==
  /\ mode \in Modes
  /\ model \in [value : ModelNames, gen : Nat] /\ turn \in [value : ModelNames, gen : Nat]
  /\ ctxModel \in ModelNames /\ window \in Nat /\ catalog \in Catalogs
  /\ past \in [launch : ModelNames, first : ModelNames, fetched : ModelNames]

(* Where the program is, with a dispatch under way in two of its places    *)
(* and the verdict of one in the three after a ToolPre.                    *)
Places ==
  {"init.lua", "dispatch", "hook", "prompt", "request", "stream", "driver", "base_gate", "run",
   "callback", "completed", "tools_teardown", "autocmd_teardown", "lua_teardown", "exited"}

DispatchTypes ==
  /\ pc \in Places
  /\ d \in DispatchRecord /\ d.i <= d.n /\ (pc = "hook" => d.i < d.n)
  /\ pc \in {"dispatch", "hook"} => d.event \in Events
  /\ pc \in {"base_gate", "run", "completed"} => d.event \in {"none", "ToolPre"}
  /\ pc \notin {"dispatch", "hook", "base_gate", "run", "completed"} => d.event = "none"
  /\ call \in CallRecord
  /\ count \in [effects : Nat, prompts : Nat, calls : Nat]

Types == StoreTypes /\ ModelTypes /\ DispatchTypes

(* Each reference of the registry belongs to one entry of one store, and   *)
(* the stores are empty when the Lua state is closed.                      *)
Owned ==
  /\ live = RefsOf(autocmds) \cup RefsOf(tools)
  /\ RefsOf(autocmds) \cap RefsOf(tools) = {}
  /\ Cardinality(RefsOf(autocmds)) = Len(autocmds)
  /\ Cardinality(RefsOf(tools)) = Len(tools)
  /\ pc \in {"autocmd_teardown", "lua_teardown", "exited"} => tools = << >>
  /\ pc \in {"lua_teardown", "exited"} => autocmds = << >>
  /\ ~lua => pc = "exited"

(* No two hooks have the same number. *)
Distinct ==
  \A j, k \in DOMAIN autocmds : autocmds[j].id = autocmds[k].id => j = k

(* The number of e's hooks before the j-th entry. *)
Before(e, j) == Cardinality({i \in Of(e) : i < j})

(* Of the hooks that were there when the dispatch began those that are     *)
(* still there keep their places among the first n, and the ones before    *)
(* the index were asked, the one at the index included while it runs.      *)
HeardInOrder ==
  d.event # "none" =>
    /\ d.due \subseteq 1 .. nextId - 1
    /\ \A j \in DOMAIN autocmds : autocmds[j].id \in d.due =>
         /\ j \in Of(d.event) /\ Before(d.event, j) < d.n
         /\ Before(d.event, j) < d.i \/ (pc = "hook" /\ Before(d.event, j) = d.i)
              => autocmds[j].id \in d.heard

(* The hooks have been asked, or need not be. *)
Asked ==
  /\ ~d.stopped
  /\ IF d.event = "ToolPre"
     THEN d.due \cap {autocmds[j].id : j \in DOMAIN autocmds} \subseteq d.heard
     ELSE Of("ToolPre") = {} \/ Shown(call.proposed) = NoValue

Decided ==
  /\ pc \in {"base_gate", "run"} => Asked
  /\ pc = "run" => d.approved \/ mode.yes \/ ~call.mutating \/ call.asked = call.args

(* The turn is under way, observers of it included. *)
InTurn ==
  \/ pc \in {"request", "stream", "driver", "base_gate", "run", "callback", "completed"}
  \/ d.event \in {"StreamDelta", "ToolPre", "ToolPost"}

Starting == pc = "init.lua" \/ d.event = "SessionStart"

(* Which model the window was fetched for, and that the turn uses the one  *)
(* the REPL noted.                                                         *)
Fetched ==
  /\ ~mode.locked => window \in {0, Window(ModelId(past.fetched))}
  /\ Starting => past.fetched = past.launch /\ ctxModel = past.first
  /\ ctxModel = past.fetched \/ (ctxModel = past.first /\ past.fetched = past.launch)
  /\ mode.repl /\ ~mode.locked /\ InTurn => turn.value = ctxModel
---------------------------------------------------------------------------
(* Types. *)

LEMMA ConstantFacts ==
  /\ MaxAutocmds \in Nat /\ MaxTools \in Nat /\ EnvWindow \in Nat
  /\ \A m \in Models : Window(m) \in Nat
  /\ DefaultModel \in Models /\ NoModel \in ModelNames
  /\ \A c \in Modes : /\ c.repl \in BOOLEAN /\ c.yes \in BOOLEAN /\ c.locked \in BOOLEAN
                      /\ c.cli \in ModelNames
  /\ \A m \in ModelNames : ModelId(m) \in Models /\ Window(ModelId(m)) \in Nat
BY FrontendAssumption DEF ModelNames, ModelId

LEMMA NothingTyped == NoDispatch \in DispatchRecord /\ NoCall \in CallRecord
<1>1. /\ NoValue \in Payloads /\ NoValue \in Arguments /\ NoValue \in Args \cup {NoValue}
      /\ 0 \in 0 .. MaxAutocmds /\ {} \in SUBSET Nat
  BY ConstantFacts DEF Payloads, Arguments
<1>2. NoDispatch \in DispatchRecord
  BY <1>1 DEF NoDispatch, DispatchRecord
<1>3. NoCall \in CallRecord
  BY <1>1 DEF NoCall, CallRecord
<1>. QED  BY <1>2, <1>3

(* The hooks of an event are among the entries. *)
LEMMA OfFacts ==
  ASSUME StoreTypes, NEW e
  PROVE  /\ Of(e) \subseteq 1 .. Len(autocmds) /\ Len(autocmds) \in Nat
         /\ IsFiniteSet(Of(e)) /\ AutocmdCount(e) \in 0 .. MaxAutocmds
<1>1. Of(e) \subseteq 1 .. Len(autocmds) /\ Len(autocmds) \in Nat
  BY DEF Of, StoreTypes
<1>2. IsFiniteSet(1 .. Len(autocmds)) /\ Cardinality(1 .. Len(autocmds)) = Len(autocmds)
  <2>. DEFINE n == Len(autocmds)
  <2>1. n \in Nat /\ n \in Int /\ 1 \in Int
    BY <1>1
  <2>. HIDE DEF n
  <2>2. IsFiniteSet(1 .. n) /\ Cardinality(1 .. n) = IF 1 > n THEN 0 ELSE n - 1 + 1
    BY <2>1, FS_Interval
  <2>3. Cardinality(1 .. n) = n
    BY <2>1, <2>2
  <2>. QED  BY <2>2, <2>3 DEF n
<1>3. IsFiniteSet(Of(e)) /\ Cardinality(Of(e)) <= Len(autocmds)
  BY <1>1, <1>2, FS_Subset
<1>4. Cardinality(Of(e)) \in Nat
  BY <1>3, FS_CardinalityType
<1>. DEFINE c == Cardinality(Of(e))
            n == Len(autocmds)
<1>5. c \in Nat /\ n \in Nat /\ c <= n /\ n <= MaxAutocmds /\ MaxAutocmds \in Nat
  BY <1>1, <1>3, <1>4, ConstantFacts DEF StoreTypes
<1>. HIDE DEF c, n
<1>6. c \in 0 .. MaxAutocmds
  BY <1>5
<1>. QED  BY <1>1, <1>3, <1>6 DEF c, AutocmdCount

LEMMA InitFrontend == Init => Types
<1>. SUFFICES ASSUME Init
              PROVE  Types
  OBVIOUS
<1>1. StoreTypes
  <2>1. << >> \in Seq(Hook) /\ << >> \in Seq(Tool) /\ Len(<< >>) = 0
    OBVIOUS
  <2>2. lua \in BOOLEAN
    BY Zenon DEF Init
  <2>. QED  BY <2>1, <2>2, ConstantFacts DEF Init, StoreTypes
<1>2. ModelTypes
  BY ConstantFacts DEF Init, ModelTypes, Catalogs
<1>3. DispatchTypes
  <2>1. d \in DispatchRecord /\ call \in CallRecord
    BY NothingTyped DEF Init
  <2>. QED  BY <2>1 DEF Init, DispatchTypes, NoDispatch, Places
<1>. QED  BY <1>1, <1>2, <1>3 DEF Types

(* Only the teardowns of the program itself touch the stores, and no other *)
(* step of it leads past them.                                             *)
LEMMA MainKeepsStores ==
  ASSUME MainStep
  PROVE  \/ /\ UNCHANGED luaVars /\ pc # "exited"
            /\ pc' \notin {"autocmd_teardown", "lua_teardown", "exited"}
         \/ ToolsTeardown \/ AutocmdTeardown \/ LuaTeardown
<1>. DEFINE Quiet == /\ UNCHANGED luaVars /\ pc # "exited"
                     /\ pc' \notin {"autocmd_teardown", "lua_teardown", "exited"}
<1>1. CASE Startup \/ StartupFails \/ Started \/ Prompt \/ Quit \/ Swallowed \/ StartTurn
  <2>1. Quiet
    BY <1>1 DEF Startup, StartupFails, Started, Prompt, Quit, Swallowed, StartTurn,
                Dispatch, Dispatched, Go
  <2>. QED  BY <2>1
<1>2. CASE CallHook \/ CallNothing \/ HookReturns \/ Observed
  <2>1. Quiet
    BY <1>2 DEF CallHook, CallNothing, InDispatch, HookReturns, Observed, Dispatched, Go
  <2>. QED  BY <2>1
<1>3. CASE Request \/ OnText \/ TurnEnds \/ NextRound \/ BadCall \/ StartTool \/ ToolPreEnds
  <2>1. Quiet
    BY <1>3 DEF Request, OnText, TurnEnds, NextRound, BadCall, StartTool, Proposes, ToolPreEnds,
                Dispatch, Dispatched, Go
  <2>. QED  BY <2>1
<1>4. CASE GateApproves \/ GateRefuses \/ UserApproves \/ ExecuteBuiltin \/ InvokeTool
             \/ ToolReturns \/ ToolCompleted
  <2>1. Quiet
    BY <1>4 DEF GateApproves, GateRefuses, UserApproves, Gates, ExecuteBuiltin, InvokeTool,
                ToolReturns, ToolCompleted, Dispatch, Go
  <2>. QED  BY <2>1
<1>. QED  BY <1>1, <1>2, <1>3, <1>4 DEF MainStep

(* The references of a store, with one entry more. *)
LEMMA RefsAppend ==
  ASSUME NEW S, NEW s \in Seq(S), NEW x \in S
  PROVE  RefsOf(Append(s, x)) = RefsOf(s) \cup {x.ref}
<1>. DEFINE t == Append(s, x)
<1>1. /\ DOMAIN t = 1 .. Len(s) + 1 /\ Len(s) \in Nat /\ DOMAIN s = 1 .. Len(s)
      /\ t[Len(s) + 1] = x /\ \A i \in 1 .. Len(s) : t[i] = s[i]
  OBVIOUS
<1>. HIDE DEF t
<1>2. RefsOf(t) = RefsOf(s) \cup {x.ref}
  BY <1>1 DEF RefsOf
<1>. QED  BY <1>2 DEF t

LEMMA RefsTyped ==
  ASSUME StoreTypes
  PROVE  /\ RefsOf(autocmds) \subseteq Refs /\ RefsOf(tools) \subseteq Refs
         /\ IsFiniteSet(Refs) /\ Cardinality(Refs) = MaxAutocmds + MaxTools + 1
         /\ IsFiniteSet(RefsOf(autocmds)) /\ IsFiniteSet(RefsOf(tools))
         /\ RefsOf(<< >>) = {} /\ Cardinality({}) = 0
<1>1. RefsOf(autocmds) \subseteq Refs
  <2>1. \A j \in DOMAIN autocmds : autocmds[j] \in Hook
    BY DEF StoreTypes
  <2>2. \A j \in DOMAIN autocmds : autocmds[j].ref \in Refs
    BY <2>1 DEF Hook
  <2>. QED  BY <2>2 DEF RefsOf
<1>2. RefsOf(tools) \subseteq Refs
  <2>1. \A j \in DOMAIN tools : tools[j] \in Tool
    BY DEF StoreTypes
  <2>2. \A j \in DOMAIN tools : tools[j].ref \in Refs
    BY <2>1 DEF Tool
  <2>. QED  BY <2>2 DEF RefsOf
<1>3. IsFiniteSet(Refs) /\ Cardinality(Refs) = MaxAutocmds + MaxTools + 1
  <2>. DEFINE n == MaxAutocmds + MaxTools + 1
  <2>1. n \in Nat /\ n >= 1 /\ n \in Int /\ 1 \in Int
    BY ConstantFacts
  <2>. HIDE DEF n
  <2>2. IsFiniteSet(1 .. n) /\ Cardinality(1 .. n) = IF 1 > n THEN 0 ELSE n - 1 + 1
    BY <2>1, FS_Interval
  <2>3. Cardinality(1 .. n) = n
    BY <2>1, <2>2
  <2>. QED  BY <2>2, <2>3 DEF n, Refs
<1>4. IsFiniteSet(RefsOf(autocmds)) /\ IsFiniteSet(RefsOf(tools))
  BY <1>1, <1>2, <1>3, FS_Subset
<1>5. RefsOf(<< >>) = {}
  BY DEF RefsOf
<1>. QED  BY <1>1, <1>2, <1>3, <1>4, <1>5, FS_EmptySet

(* The registry is never full: it holds no more than the caps allow. *)
LEMMA FreshFacts ==
  ASSUME StoreTypes, Owned
  PROVE  Fresh \in Refs \ live
<1>. DEFINE a == Cardinality(RefsOf(autocmds))
            t == Cardinality(RefsOf(tools))
            l == Cardinality(live)
<1>1. IsFiniteSet(live) /\ l = a + t - Cardinality({})
  BY RefsTyped, FS_Union DEF Owned
<1>2. /\ a \in Nat /\ t \in Nat /\ a <= MaxAutocmds /\ t <= MaxTools
      /\ Cardinality(Refs) = MaxAutocmds + MaxTools + 1 /\ Cardinality({}) = 0
  BY RefsTyped, FS_CardinalityType DEF StoreTypes, Owned
<1>. HIDE DEF a, t
<1>3. l # Cardinality(Refs)
  BY <1>1, <1>2, ConstantFacts
<1>4. live # Refs
  BY <1>3
<1>5. \E r \in Refs : r \notin live
  BY <1>4 DEF StoreTypes
<1>. QED  BY <1>5 DEF Fresh

(* A store with one entry more, which has the fresh reference. *)
LEMMA OneMore ==
  ASSUME StoreTypes, Owned, NEW S, NEW s \in Seq(S), NEW x \in S, x.ref = Fresh,
         RefsOf(s) \subseteq live, Cardinality(RefsOf(s)) = Len(s)
  PROVE  /\ RefsOf(Append(s, x)) = RefsOf(s) \cup {Fresh}
         /\ Cardinality(RefsOf(Append(s, x))) = Len(Append(s, x))
<1>1. RefsOf(Append(s, x)) = RefsOf(s) \cup {Fresh}
  BY RefsAppend
<1>2. IsFiniteSet(RefsOf(s)) /\ Fresh \notin RefsOf(s)
  BY RefsTyped, FreshFacts, FS_Subset DEF StoreTypes
<1>. DEFINE R == RefsOf(s)
<1>3. Cardinality(R \cup {Fresh}) = Cardinality(R) + 1
  <2>. HIDE DEF R
  <2>1. IsFiniteSet(R) /\ Fresh \notin R
    BY <1>2 DEF R
  <2>2. Cardinality(R \cup {Fresh}) = IF Fresh \in R THEN Cardinality(R) ELSE Cardinality(R) + 1
    BY <2>1, FS_AddElement
  <2>. QED  BY <2>1, <2>2
<1>4. Len(Append(s, x)) = Len(s) + 1
  OBVIOUS
<1>. QED  BY <1>1, <1>3, <1>4

(* API calls of Lua code, as far as the stores are concerned.              *)
LEMMA LuaKeepsStores ==
  ASSUME StoreTypes, Owned, LuaStep
  PROVE  StoreTypes' /\ Owned'
<1>0. /\ << >> \in Seq(Hook) /\ << >> \in Seq(Tool) /\ Len(<< >>) = 0
      /\ RefsOf(<< >>) = {} /\ Cardinality({}) = 0
  <2>1. << >> \in Seq(Hook) /\ << >> \in Seq(Tool) /\ Len(<< >>) = 0
    OBVIOUS
  <2>. QED  BY <2>1, RefsTyped
<1>1. ASSUME Api
      PROVE  /\ pc' = pc /\ lua' = lua
             /\ pc \notin {"autocmd_teardown", "lua_teardown", "exited"} /\ lua
  BY <1>1 DEF Api, LuaRuns, Owned, StoreTypes
<1>2. Fresh \in Refs /\ Fresh \notin live
  BY FreshFacts
<1>3. ASSUME NEW e \in Events, CreateAutocmd(e)
      PROVE  StoreTypes' /\ Owned'
  <2>. DEFINE x == [id |-> nextId, event |-> e, ref |-> Fresh]
  <2>1. x \in Hook /\ x.ref = Fresh /\ x.id = nextId
    BY <1>2 DEF Hook, StoreTypes
  <2>2. /\ autocmds' = Append(autocmds, x) /\ nextId' = nextId + 1 /\ live' = live \cup {Fresh}
        /\ tools' = tools /\ Len(autocmds) < MaxAutocmds /\ Api
    BY <1>3 DEF CreateAutocmd
  <2>. HIDE DEF x
  <2>3. /\ autocmds' \in Seq(Hook) /\ Len(autocmds') = Len(autocmds) + 1
        /\ \A j \in 1 .. Len(autocmds) : autocmds'[j] = autocmds[j]
        /\ autocmds'[Len(autocmds) + 1] = x
    BY <2>1, <2>2 DEF StoreTypes
  <2>4. \A j \in 1 .. Len(autocmds') : autocmds'[j].id \in 1 .. nextId' - 1
    <3>. DEFINE n == Len(autocmds)
    <3>1. n \in Nat /\ Len(autocmds') = n + 1 /\ autocmds'[n + 1].id = nextId
          /\ \A j \in 1 .. n : autocmds'[j].id \in 1 .. nextId - 1
      BY <2>1, <2>2, <2>3 DEF StoreTypes
    <3>5. nextId \in Nat \ {0} /\ nextId' = nextId + 1
      BY <2>2 DEF StoreTypes
    <3>. HIDE DEF n
    <3>2. nextId \in 1 .. nextId /\ nextId' - 1 = nextId
      BY <3>5
    <3>3. ASSUME NEW j \in 1 .. n + 1
          PROVE  autocmds'[j].id \in 1 .. nextId
      <4>1. CASE j = n + 1
        BY <3>1, <3>2, <4>1, Zenon
      <4>2. CASE j \in 1 .. n
        BY <3>1, <3>5, <4>2
      <4>. QED  BY <3>1, <3>5, <4>1, <4>2
    <3>4. 1 .. Len(autocmds') = 1 .. n + 1
      BY <3>1
    <3>. QED  BY <3>2, <3>3, <3>4, Zenon
  <2>5. StoreTypes'
    <3>. DEFINE n == Len(autocmds)
    <3>1. n \in Nat /\ Len(autocmds') = n + 1 /\ n < MaxAutocmds /\ MaxAutocmds \in Nat
      BY <2>2, <2>3, ConstantFacts DEF StoreTypes
    <3>. HIDE DEF n
    <3>2. Len(autocmds') <= MaxAutocmds
      BY <3>1
    <3>. QED  BY <1>1, <1>2, <2>2, <2>3, <2>4, <3>2 DEF StoreTypes
  <2>6. /\ RefsOf(autocmds') = RefsOf(autocmds) \cup {Fresh}
        /\ Cardinality(RefsOf(autocmds')) = Len(autocmds')
    <3>1. /\ RefsOf(Append(autocmds, x)) = RefsOf(autocmds) \cup {Fresh}
          /\ Cardinality(RefsOf(Append(autocmds, x))) = Len(Append(autocmds, x))
      BY <2>1, OneMore DEF StoreTypes, Owned
    <3>. QED  BY <2>2, <3>1
  <2>. QED  BY <1>1, <1>2, <2>2, <2>5, <2>6 DEF Owned
<1>4. ASSUME NEW name \in ToolNames, NEW mutating \in BOOLEAN, RegisterTool(name, mutating)
      PROVE  StoreTypes' /\ Owned'
  <2>. DEFINE x == [name |-> name, mutating |-> mutating, ref |-> Fresh]
  <2>1. x \in Tool /\ x.ref = Fresh
    BY <1>2 DEF Tool, StoreTypes
  <2>2. /\ tools' = Append(tools, x) /\ live' = live \cup {Fresh}
        /\ autocmds' = autocmds /\ nextId' = nextId /\ Len(tools) < MaxTools /\ Api
    BY <1>4 DEF RegisterTool
  <2>. HIDE DEF x
  <2>3. tools' \in Seq(Tool) /\ Len(tools') = Len(tools) + 1
    BY <2>1, <2>2 DEF StoreTypes
  <2>5. StoreTypes'
    <3>. DEFINE n == Len(tools)
    <3>1. n \in Nat /\ Len(tools') = n + 1 /\ n < MaxTools /\ MaxTools \in Nat
      BY <2>2, <2>3, ConstantFacts DEF StoreTypes
    <3>. HIDE DEF n
    <3>2. Len(tools') <= MaxTools
      BY <3>1
    <3>. QED  BY <1>1, <1>2, <2>2, <2>3, <3>2 DEF StoreTypes
  <2>6. /\ RefsOf(tools') = RefsOf(tools) \cup {Fresh}
        /\ Cardinality(RefsOf(tools')) = Len(tools')
    <3>1. /\ RefsOf(Append(tools, x)) = RefsOf(tools) \cup {Fresh}
          /\ Cardinality(RefsOf(Append(tools, x))) = Len(Append(tools, x))
      BY <2>1, OneMore DEF StoreTypes, Owned
    <3>. QED  BY <2>2, <3>1
  <2>. QED  BY <1>1, <1>2, <2>2, <2>5, <2>6 DEF Owned
<1>5. CASE ClearAutocmds
  <2>1. /\ Api /\ live' = live \ RefsOf(autocmds) /\ autocmds' = << >>
        /\ nextId' = nextId /\ tools' = tools
    BY <1>5 DEF ClearAutocmds
  <2>2. StoreTypes'
    BY <1>0, <1>1, <2>1, ConstantFacts DEF StoreTypes
  <2>. QED  BY <1>0, <1>1, <2>1, <2>2 DEF Owned
<1>6. ASSUME Api, UNCHANGED <<live, autocmds, nextId, tools>>
      PROVE  StoreTypes' /\ Owned'
  BY <1>1, <1>6 DEF StoreTypes, Owned
<1>7. CASE \/ RegistrationRefused
           \/ \E m \in Models : SetModel(m)
           \/ \E t \in Tables : AssignArgs(t)
  BY <1>6, <1>7 DEF RegistrationRefused, SetModel, AssignArgs
<1>. QED  BY <1>3, <1>4, <1>5, <1>7 DEF LuaStep

(* The stores are released in three steps, and by nothing else of main.    *)
LEMMA StoreStep ==
  ASSUME StoreTypes, Owned, [Next]_vars
  PROVE  StoreTypes' /\ Owned'
<1>0. /\ << >> \in Seq(Hook) /\ << >> \in Seq(Tool) /\ Len(<< >>) = 0
      /\ RefsOf(<< >>) = {} /\ Cardinality({}) = 0
  <2>1. << >> \in Seq(Hook) /\ << >> \in Seq(Tool) /\ Len(<< >>) = 0
    OBVIOUS
  <2>. QED  BY <2>1, RefsTyped
<1>1. ASSUME UNCHANGED luaVars,
             pc' \notin {"autocmd_teardown", "lua_teardown", "exited"} \/ pc' = pc,
             ~lua => pc = pc'
      PROVE  StoreTypes' /\ Owned'
  BY <1>1 DEF luaVars, StoreTypes, Owned
<1>2. CASE LuaStep
  BY <1>2, LuaKeepsStores
<1>3. CASE UNCHANGED vars
  BY <1>1, <1>3 DEF vars
<1>4. CASE /\ UNCHANGED luaVars /\ pc # "exited"
           /\ pc' \notin {"autocmd_teardown", "lua_teardown", "exited"}
  BY <1>1, <1>4 DEF Owned
<1>5. CASE ToolsTeardown
  <2>1. /\ pc = "tools_teardown" /\ pc' = "autocmd_teardown" /\ tools' = << >>
        /\ live' = live \ RefsOf(tools) /\ UNCHANGED <<lua, autocmds, nextId>>
    BY <1>5 DEF ToolsTeardown
  <2>2. StoreTypes'
    BY <1>0, <2>1, ConstantFacts DEF StoreTypes
  <2>. QED  BY <1>0, <2>1, <2>2 DEF Owned
<1>6. CASE AutocmdTeardown
  <2>1. /\ pc = "autocmd_teardown" /\ pc' = "lua_teardown" /\ autocmds' = << >>
        /\ live' = live \ RefsOf(autocmds) /\ UNCHANGED <<lua, tools, nextId>>
    BY <1>6 DEF AutocmdTeardown
  <2>2. StoreTypes'
    BY <1>0, <2>1, ConstantFacts DEF StoreTypes
  <2>. QED  BY <1>0, <2>1, <2>2 DEF Owned
<1>7. CASE LuaTeardown
  <2>1. /\ pc = "lua_teardown" /\ pc' = "exited" /\ lua' = FALSE /\ live' = {}
        /\ UNCHANGED <<autocmds, tools, nextId>>
    BY <1>7 DEF LuaTeardown
  <2>2. StoreTypes'
    <3>1. lua' \in BOOLEAN
      BY <2>1, Zenon
    <3>. QED  BY <2>1, <3>1 DEF StoreTypes
  <2>. QED  BY <1>0, <2>1, <2>2 DEF Owned
<1>. QED  BY <1>2, <1>3, <1>4, <1>5, <1>6, <1>7, MainKeepsStores DEF Next

(* The model and its window change in few places. *)
LEMMA MainKeepsModels ==
  ASSUME MainStep
  PROVE  UNCHANGED <<mode, modelVars, past>> \/ Startup \/ Started \/ StartTurn \/ LuaTeardown
<1>1. CASE StartupFails \/ Prompt \/ Quit \/ Swallowed
  BY <1>1 DEF StartupFails, Prompt, Quit, Swallowed
<1>2. CASE CallHook \/ CallNothing \/ HookReturns \/ Observed
  BY <1>2 DEF CallHook, CallNothing, InDispatch, HookReturns, Observed
<1>3. CASE Request \/ OnText \/ TurnEnds \/ NextRound \/ BadCall \/ StartTool \/ ToolPreEnds
  BY <1>3 DEF Request, OnText, TurnEnds, NextRound, BadCall, StartTool, Proposes, ToolPreEnds
<1>4. CASE GateApproves \/ GateRefuses \/ UserApproves \/ ExecuteBuiltin \/ InvokeTool
             \/ ToolReturns \/ ToolCompleted
  BY <1>4 DEF GateApproves, GateRefuses, UserApproves, Gates, ExecuteBuiltin, InvokeTool,
              ToolReturns, ToolCompleted
<1>5. CASE ToolsTeardown \/ AutocmdTeardown
  BY <1>5 DEF ToolsTeardown, AutocmdTeardown
<1>. QED  BY <1>1, <1>2, <1>3, <1>4, <1>5 DEF MainStep

(* Lua code reaches one of those variables only, the option. *)
LEMMA LuaKeepsModels ==
  ASSUME LuaStep
  PROVE  /\ UNCHANGED <<mode, pc, catalog, window, ctxModel, turn, call, past>>
         /\ UNCHANGED model \/ \E m \in Models : SetModel(m)
         /\ UNCHANGED d \/ \E t \in Tables : AssignArgs(t)
         /\ count' = [count EXCEPT !.effects = @ + 1]
         /\ LuaRuns
  BY DEF LuaStep, Api, CreateAutocmd, RegisterTool, RegistrationRefused, ClearAutocmds,
         SetModel, AssignArgs

LEMMA ResolvedTyped == ModelTypes => ResolveTurnModel \in [value : ModelNames, gen : Nat]
  BY ConstantFacts DEF ModelTypes, ResolveTurnModel

LEMMA WindowTyped ==
  ASSUME ModelTypes, NEW m \in ModelNames, ModelsContextLength(m)
  PROVE  /\ window' \in Nat /\ catalog' \in Catalogs
         /\ window' \in {0, Window(ModelId(m))}
<1>1. catalog' \in Catalogs /\ window' = CacheWindow(catalog', m)
  BY DEF ModelsContextLength, FetchCatalog, ModelTypes
<1>2. Window(ModelId(m)) \in Nat
  BY ConstantFacts
<1>. QED  BY <1>1, <1>2 DEF CacheWindow

LEMMA ModelStep ==
  ASSUME ModelTypes, [Next]_vars
  PROVE  ModelTypes'
<1>1. ASSUME UNCHANGED <<mode, modelVars, past>>
      PROVE  ModelTypes'
  BY <1>1 DEF ModelTypes, modelVars
<1>2. CASE UNCHANGED vars
  BY <1>1, <1>2 DEF vars
<1>3. CASE LuaStep
  <2>1. UNCHANGED <<mode, catalog, window, ctxModel, turn, past>>
    BY <1>3, LuaKeepsModels
  <2>2. model' \in [value : ModelNames, gen : Nat]
    <3>1. CASE UNCHANGED model
      BY <3>1 DEF ModelTypes
    <3>2. ASSUME NEW m \in Models, SetModel(m)
          PROVE  model' \in [value : ModelNames, gen : Nat]
      <4>1. model' = [value |-> m, gen |-> model.gen + 1] /\ model.gen + 1 \in Nat
        BY <3>2 DEF SetModel, ModelTypes
      <4>. QED  BY <4>1 DEF ModelNames
    <3>. QED  BY <1>3, <3>1, <3>2, LuaKeepsModels
  <2>. QED  BY <2>1, <2>2 DEF ModelTypes
<1>. DEFINE m == ResolveTurnModel.value
<1>4. m \in ModelNames /\ ResolveTurnModel \in [value : ModelNames, gen : Nat]
  BY ResolvedTyped
<1>5. CASE Startup
  <2>1. window' \in Nat /\ catalog' \in Catalogs
    <3>1. CASE mode.locked
      BY <1>5, <3>1, ConstantFacts DEF Startup, ModelTypes
    <3>2. CASE ~mode.locked
      <4>1. ModelsContextLength(m)
        BY <1>5, <3>2 DEF Startup
      <4>. HIDE DEF m
      <4>. QED  BY <1>4, <4>1, WindowTyped
    <3>. QED  BY <3>1, <3>2
  <2>2. past' = [past EXCEPT !.launch = m, !.fetched = m]
    BY <1>5 DEF Startup
  <2>3. UNCHANGED <<mode, model, ctxModel, turn>>
    BY <1>5 DEF Startup
  <2>. HIDE DEF m
  <2>. QED  BY <1>4, <2>1, <2>2, <2>3 DEF ModelTypes
<1>6. CASE Started
  <2>1. /\ ctxModel' = m /\ past' = [past EXCEPT !.first = m]
        /\ UNCHANGED <<mode, model, catalog, window, turn>>
    BY <1>6 DEF Started
  <2>. HIDE DEF m
  <2>. QED  BY <1>4, <2>1 DEF ModelTypes
<1>7. CASE StartTurn
  <2>1. turn' = ResolveTurnModel /\ turn'.value = m /\ UNCHANGED <<mode, model>>
    BY <1>7 DEF StartTurn
  <2>2. \/ ModelsContextLength(m) /\ ctxModel' = m /\ past' = [past EXCEPT !.fetched = m]
        \/ UNCHANGED <<catalog, window, ctxModel, past>>
    BY <1>7, <2>1 DEF StartTurn
  <2>. HIDE DEF m
  <2>3. CASE ModelsContextLength(m) /\ ctxModel' = m /\ past' = [past EXCEPT !.fetched = m]
    <3>1. window' \in Nat /\ catalog' \in Catalogs
      BY <1>4, <2>3, WindowTyped
    <3>. QED  BY <1>4, <2>1, <2>3, <3>1 DEF ModelTypes
  <2>4. CASE UNCHANGED <<catalog, window, ctxModel, past>>
    BY <1>4, <2>1, <2>4 DEF ModelTypes
  <2>. QED  BY <2>2, <2>3, <2>4
<1>8. CASE LuaTeardown
  <2>1. /\ model' = [value |-> NoModel, gen |-> model.gen + 1] /\ catalog' = "none"
        /\ UNCHANGED <<mode, window, ctxModel, turn, past>> /\ model.gen + 1 \in Nat
    BY <1>8 DEF LuaTeardown, ModelTypes
  <2>. QED  BY <2>1, ConstantFacts DEF ModelTypes, Catalogs
<1>. QED  BY <1>1, <1>2, <1>3, <1>5, <1>6, <1>7, <1>8, MainKeepsModels DEF Next

(* A dispatch begins. *)
LEMMA DispatchBegins ==
  ASSUME StoreTypes, NEW e \in Events, NEW payload \in Payloads, Dispatch(e, payload)
  PROVE  /\ pc' = "dispatch" /\ d' \in DispatchRecord /\ d'.event = e /\ d'.i = 0
         /\ d'.n = AutocmdCount(e) /\ d'.i <= d'.n
         /\ d'.due = {autocmds[j].id : j \in Of(e)} /\ d'.heard = {}
         /\ ~d'.stopped /\ ~d'.approved
<1>1. AutocmdCount(e) \in 0 .. MaxAutocmds /\ AutocmdCount(e) >= 0
  BY OfFacts, ConstantFacts
<1>2. {autocmds[j].id : j \in Of(e)} \in SUBSET Nat
  <2>1. \A j \in Of(e) : autocmds[j].id \in Nat
    <3>1. \A j \in Of(e) : j \in 1 .. Len(autocmds)
      BY OfFacts
    <3>2. \A j \in 1 .. Len(autocmds) : autocmds[j].id \in Nat
      BY DEF StoreTypes, Hook
    <3>. QED  BY <3>1, <3>2
  <2>. QED  BY <2>1
<1>. DEFINE n == AutocmdCount(e)
            due == {autocmds[j].id : j \in Of(e)}
<1>3. /\ pc' = "dispatch"
      /\ d' = [NoDispatch EXCEPT !.event = e, !.n = n, !.payload = payload, !.due = due]
  BY DEF Dispatch
<1>. HIDE DEF n, due
<1>4. /\ d'.event = e /\ d'.i = 0 /\ d'.n = n /\ d'.due = due /\ d'.heard = {}
      /\ ~d'.stopped /\ ~d'.approved
  BY <1>3 DEF NoDispatch
<1>5. d' \in DispatchRecord
  <2>1. n \in 0 .. MaxAutocmds /\ due \in SUBSET Nat /\ e \in Events \cup {"none"}
        /\ NoDispatch \in DispatchRecord
    BY <1>1, <1>2, NothingTyped DEF n, due
  <2>. QED  BY <1>3, <2>1 DEF DispatchRecord
<1>. QED  BY <1>1, <1>3, <1>4, <1>5 DEF n, due

LEMMA EmptyDispatch ==
  NoDispatch.event = "none" /\ NoDispatch.i = 0 /\ NoDispatch.n = 0 /\ ~NoDispatch.stopped
BY DEF NoDispatch

LEMMA DispatchFields ==
  ASSUME DispatchTypes
  PROVE  /\ d.event \in Events \cup {"none"} /\ d.n \in 0 .. MaxAutocmds /\ d.i \in Nat
         /\ d.stopped \in BOOLEAN /\ d.approved \in BOOLEAN /\ d.rewritten \in BOOLEAN
         /\ d.payload \in Payloads /\ d.due \in SUBSET Nat /\ d.heard \in SUBSET Nat
         /\ d.foreign \in BOOLEAN
  BY DEF DispatchTypes, DispatchRecord

(* The two ways to get from one place to another. *)
LEMMA BeginsTyped ==
  ASSUME StoreTypes, NEW e \in Events, NEW payload \in Payloads, Dispatch(e, payload),
         call' \in CallRecord, count' \in [effects : Nat, prompts : Nat, calls : Nat]
  PROVE  DispatchTypes'
<1>1. /\ pc' = "dispatch" /\ d' \in DispatchRecord /\ d'.event = e /\ d'.i <= d'.n
  BY DispatchBegins
<1>. QED  BY <1>1 DEF DispatchTypes, Places

LEMMA GoTyped ==
  ASSUME NEW where \in Places \ {"dispatch", "hook"}, Go(where),
         call' \in CallRecord, count' \in [effects : Nat, prompts : Nat, calls : Nat]
  PROVE  DispatchTypes'
<1>1. pc' = where /\ d' = NoDispatch /\ d' \in DispatchRecord
  BY NothingTyped DEF Go
<1>2. d'.event = "none" /\ d'.i = 0 /\ d'.n = 0
  BY <1>1, EmptyDispatch
<1>. QED  BY <1>1, <1>2 DEF DispatchTypes

LEMMA HookReturnsTyped ==
  ASSUME DispatchTypes, HookReturns
  PROVE  DispatchTypes' /\ d'.i = d.i + 1 /\ d'.n = d.n /\ d'.event = d.event
         /\ d'.due = d.due /\ d'.heard = d.heard
<1>1. /\ pc = "hook" /\ pc' = "dispatch" /\ call' = call /\ count' = count
      /\ \/ d' = [d EXCEPT !.i = @ + 1]
         \/ d' = [d EXCEPT !.i = @ + 1, !.stopped = TRUE]
         \/ d' = [d EXCEPT !.i = @ + 1, !.approved = TRUE]
         \/ \E t \in Tables \cup {d.payload} :
              d' = [d EXCEPT !.i = @ + 1, !.payload = t, !.rewritten = TRUE,
                             !.foreign = @ \/ t # d.payload]
  BY DEF HookReturns, Allow, Raise, Stop, Approve, Rewrite
<1>2. d \in DispatchRecord /\ d.i < d.n /\ d.event \in Events /\ d.i + 1 \in Nat /\ d.n \in Nat
  <2>1. d \in DispatchRecord /\ d.i < d.n /\ d.event \in Events
    BY <1>1 DEF DispatchTypes
  <2>2. d.i \in Nat /\ d.n \in Nat
    BY DispatchFields, ConstantFacts
  <2>. QED  BY <2>1, <2>2
<1>3. /\ d' \in DispatchRecord /\ d'.i = d.i + 1 /\ d'.n = d.n /\ d'.event = d.event
      /\ d'.due = d.due /\ d'.heard = d.heard
  <2>1. CASE d' = [d EXCEPT !.i = @ + 1]
    BY <1>2, <2>1 DEF DispatchRecord
  <2>2. CASE d' = [d EXCEPT !.i = @ + 1, !.stopped = TRUE]
    BY <1>2, <2>2 DEF DispatchRecord
  <2>3. CASE d' = [d EXCEPT !.i = @ + 1, !.approved = TRUE]
    BY <1>2, <2>3 DEF DispatchRecord
  <2>4. ASSUME NEW t \in Tables \cup {d.payload},
               d' = [d EXCEPT !.i = @ + 1, !.payload = t, !.rewritten = TRUE,
                              !.foreign = @ \/ t # d.payload]
        PROVE  /\ d' \in DispatchRecord /\ d'.i = d.i + 1 /\ d'.n = d.n /\ d'.event = d.event
               /\ d'.due = d.due /\ d'.heard = d.heard
    <3>1. t \in Payloads
      BY DispatchFields DEF Payloads
    <3>. QED  BY <1>2, <2>4, <3>1 DEF DispatchRecord
  <2>. QED  BY <1>1, <2>1, <2>2, <2>3, <2>4
<1>4. d'.i <= d'.n
  <2>. DEFINE i == d.i
              n == d.n
  <2>1. i < n /\ i \in Nat /\ n \in Nat /\ d'.i = i + 1 /\ d'.n = n
    BY <1>2, <1>3, DispatchFields
  <2>. HIDE DEF i, n
  <2>. QED  BY <2>1
<1>. QED  BY <1>1, <1>2, <1>3, <1>4 DEF DispatchTypes, Places

LEMMA CallHookTyped ==
  ASSUME StoreTypes, DispatchTypes, CallHook
  PROVE  /\ DispatchTypes'
         /\ \E j \in AutocmdAt(d.event, d.i) : d' = [d EXCEPT !.heard = @ \cup {autocmds[j].id}]
<1>1. /\ pc = "dispatch" /\ d.i < d.n /\ pc' = "hook" /\ call' = call /\ count' = count
  BY DEF CallHook, InDispatch
<1>2. PICK j \in AutocmdAt(d.event, d.i) : d' = [d EXCEPT !.heard = @ \cup {autocmds[j].id}]
  BY DEF CallHook
<1>3. autocmds[j].id \in Nat
  <2>1. j \in 1 .. Len(autocmds)
    BY <1>2, OfFacts DEF AutocmdAt
  <2>. QED  BY <2>1 DEF StoreTypes, Hook
<1>4. d \in DispatchRecord /\ d.event \in Events /\ d.heard \cup {autocmds[j].id} \in SUBSET Nat
  BY <1>1, <1>3, DispatchFields DEF DispatchTypes
<1>5. d' \in DispatchRecord /\ d'.i = d.i /\ d'.n = d.n /\ d'.event = d.event
  <2>. DEFINE h == d.heard \cup {autocmds[j].id}
  <2>1. h \in SUBSET Nat /\ d' = [d EXCEPT !.heard = h]
    BY <1>2, <1>4
  <2>. HIDE DEF h
  <2>. QED  BY <1>4, <2>1 DEF DispatchRecord
<1>6. d'.i <= d'.n /\ d'.i < d'.n
  <2>. DEFINE i == d.i
              n == d.n
  <2>1. i < n /\ i \in Nat /\ n \in Nat /\ d'.i = i /\ d'.n = n
    BY <1>1, <1>5, DispatchFields, ConstantFacts
  <2>. HIDE DEF i, n
  <2>. QED  BY <2>1
<1>7. DispatchTypes'
  BY <1>1, <1>4, <1>5, <1>6 DEF DispatchTypes, Places
<1>. QED  BY <1>2, <1>7

LEMMA CallNothingTyped ==
  ASSUME DispatchTypes, CallNothing
  PROVE  DispatchTypes' /\ d' = [d EXCEPT !.i = @ + 1] /\ d'.i = d.i + 1 /\ d'.n = d.n
         /\ d'.event = d.event
<1>1. /\ pc = "dispatch" /\ d.i < d.n /\ pc' = pc /\ call' = call /\ count' = count
      /\ d' = [d EXCEPT !.i = @ + 1] /\ d \in DispatchRecord /\ d.event \in Events
  BY DEF CallNothing, InDispatch, DispatchTypes
<1>2. d.i \in Nat /\ d.n \in Nat /\ d.i + 1 \in Nat
  BY DispatchFields, ConstantFacts
<1>3. d' \in DispatchRecord /\ d'.i = d.i + 1 /\ d'.n = d.n /\ d'.event = d.event
  BY <1>1, <1>2 DEF DispatchRecord
<1>4. d'.i <= d'.n
  <2>. DEFINE i == d.i
              n == d.n
  <2>1. i < n /\ i \in Nat /\ n \in Nat /\ d'.i = i + 1 /\ d'.n = n
    BY <1>1, <1>2, <1>3
  <2>. HIDE DEF i, n
  <2>. QED  BY <2>1
<1>. QED  BY <1>1, <1>3, <1>4 DEF DispatchTypes, Places

(* A call starts with the flags and the reference of its tool. *)
LEMMA DefinitionTyped ==
  ASSUME StoreTypes, NEW name \in ToolNames \cup DOMAIN Builtin, NEW def \in Definition(name),
         NEW args \in Args
  PROVE  /\ [def EXCEPT !.proposed = args, !.args = args] \in CallRecord
         /\ def \in CallRecord
<1>1. NoCall \in CallRecord /\ name \in ToolNames \cup {"read", "bash", "none"}
  BY NothingTyped DEF Builtin
<1>2. def \in CallRecord
  <2>1. CASE name \in DOMAIN Builtin
    <3>1. Builtin[name] \in BOOLEAN
      <4>1. Builtin[name] = FALSE \/ Builtin[name] = TRUE
        BY <2>1 DEF Builtin
      <4>. QED  BY <4>1, Zenon
    <3>2. def = [NoCall EXCEPT !.name = name, !.mutating = Builtin[name]]
      BY <2>1 DEF Definition
    <3>. QED  BY <1>1, <3>1, <3>2 DEF CallRecord
  <2>2. CASE name \notin DOMAIN Builtin
    <3>1. PICK j \in DOMAIN tools :
            def = [NoCall EXCEPT !.name = name, !.mutating = tools[j].mutating, !.ref = tools[j].ref]
      BY <2>2 DEF Definition, Registered
    <3>2. tools[j] \in Tool
      BY <3>1 DEF StoreTypes
    <3>3. tools[j].mutating \in BOOLEAN /\ tools[j].ref \in Refs \cup {0}
      BY <3>2 DEF Tool
    <3>. QED  BY <1>1, <3>1, <3>3 DEF CallRecord
  <2>. QED  BY <2>1, <2>2
<1>3. args \in Arguments /\ args \in Args \cup {NoValue}
  BY DEF Arguments
<1>. QED  BY <1>2, <1>3 DEF CallRecord
LEMMA DispatchStep ==
  ASSUME StoreTypes, DispatchTypes, [Next]_vars
  PROVE  DispatchTypes'
<1>0. /\ call \in CallRecord /\ NoCall \in CallRecord /\ NoValue \in Payloads
      /\ count \in [effects : Nat, prompts : Nat, calls : Nat]
      /\ d \in DispatchRecord
  BY NothingTyped DEF DispatchTypes, Payloads
<1>1. /\ "SessionStart" \in Events /\ "SessionEnd" \in Events /\ "ToolPre" \in Events
      /\ "ToolPost" \in Events /\ "StreamDelta" \in Events /\ "UserPromptPre" \in Events
  BY DEF Events
<1>2. {"init.lua", "prompt", "request", "stream", "driver", "base_gate", "run", "callback",
       "completed", "tools_teardown"} \subseteq Places \ {"dispatch", "hook"}
  BY DEF Places
<1>3. CASE UNCHANGED vars
  BY <1>3 DEF vars, DispatchTypes
<1>4. CASE LuaStep
  <2>1. pc' = pc /\ call' = call /\ LuaRuns /\ count' = [count EXCEPT !.effects = @ + 1]
    BY <1>4, LuaKeepsModels
  <2>2. count' \in [effects : Nat, prompts : Nat, calls : Nat]
    BY <1>0, <2>1
  <2>3. CASE UNCHANGED d
    BY <2>1, <2>2, <2>3 DEF DispatchTypes
  <2>4. ASSUME NEW t \in Tables, AssignArgs(t)
        PROVE  DispatchTypes'
    <3>1. /\ pc = "hook" /\ d' = [d EXCEPT !.payload = t, !.foreign = TRUE]
      BY <2>4 DEF AssignArgs
    <3>2. t \in Payloads
      BY DEF Payloads
    <3>3. /\ d' \in DispatchRecord /\ d'.i = d.i /\ d'.n = d.n /\ d'.event = d.event
      BY <1>0, <3>1, <3>2 DEF DispatchRecord
    <3>. QED  BY <2>1, <2>2, <3>1, <3>3 DEF DispatchTypes
  <2>. QED  BY <1>4, <2>3, <2>4, LuaKeepsModels
<1>5. CASE Startup \/ Quit
  <2>1. /\ call' = call /\ count' = count
        /\ \E e \in Events : Dispatch(e, NoValue)
    BY <1>1, <1>5 DEF Startup, Quit
  <2>. QED  BY <1>0, <2>1, BeginsTyped
<1>6. CASE OnText \/ ToolCompleted
  <2>1. /\ call' = call /\ count' = count
        /\ \E e \in Events : Dispatch(e, NoValue)
    BY <1>1, <1>6 DEF OnText, ToolCompleted
  <2>. QED  BY <1>0, <2>1, BeginsTyped
<1>7. CASE Prompt
  <2>1. /\ call' = call /\ Dispatch("UserPromptPre", NoValue)
        /\ count' = [count EXCEPT !.prompts = @ + 1, !.calls = 0]
    BY <1>7 DEF Prompt
  <2>2. count' \in [effects : Nat, prompts : Nat, calls : Nat]
    <3>1. count.prompts + 1 \in Nat /\ 0 \in Nat
      BY <1>0
    <3>. QED  BY <1>0, <2>1, <3>1
  <2>. QED  BY <1>0, <1>1, <2>1, <2>2, BeginsTyped
<1>8. CASE \/ StartupFails \/ Started \/ Swallowed \/ StartTurn \/ Request \/ Observed
           \/ ExecuteBuiltin \/ InvokeTool \/ ToolReturns
  <2>1. CASE StartupFails \/ Started \/ Swallowed
    <3>1. call' = call /\ count' = count /\ (Go("tools_teardown") \/ Go("prompt"))
      BY <2>1 DEF StartupFails, Started, Swallowed
    <3>. QED  BY <1>0, <1>2, <3>1, GoTyped
  <2>2. CASE StartTurn
    <3>1. call' = call /\ count' = count /\ Go("request")
      BY <2>2 DEF StartTurn
    <3>. QED  BY <1>0, <1>2, <3>1, GoTyped
  <2>3. CASE Request \/ Observed
    <3>1. /\ call' = call /\ count' = count
          /\ (Go("stream") \/ Go("driver") \/ Go("tools_teardown"))
      BY <2>3 DEF Request, Observed
    <3>. QED  BY <1>0, <1>2, <3>1, GoTyped
  <2>4. CASE ExecuteBuiltin \/ InvokeTool \/ ToolReturns
    <3>1. call' = call /\ count' = count /\ (Go("completed") \/ Go("callback"))
      BY <2>4 DEF ExecuteBuiltin, InvokeTool, ToolReturns
    <3>. QED  BY <1>0, <1>2, <3>1, GoTyped
  <2>. QED  BY <1>8, <2>1, <2>2, <2>3, <2>4
<1>9. CASE TurnEnds \/ NextRound
  <2>1. call' = NoCall /\ count' = count /\ (Go("prompt") \/ Go("request"))
    BY <1>9 DEF TurnEnds, NextRound
  <2>. QED  BY <1>0, <1>2, <2>1, GoTyped
<1>10. ASSUME Proposes
       PROVE  count' \in [effects : Nat, prompts : Nat, calls : Nat]
  <2>1. count' = [count EXCEPT !.calls = @ + 1]
    BY <1>10 DEF Proposes
  <2>. QED  BY <1>0, <2>1
<1>11. CASE BadCall
  <2>1. call' = NoCall /\ Go("completed") /\ Proposes
    BY <1>11 DEF BadCall
  <2>. QED  BY <1>0, <1>2, <1>10, <2>1, GoTyped
<1>12. CASE StartTool
  <2>1. PICK name \in ToolNames \cup DOMAIN Builtin, args \in Args :
          /\ Proposes
          /\ \E def \in Definition(name) : call' = [def EXCEPT !.proposed = args, !.args = args]
          /\ \/ Dispatch("ToolPre", Shown(args))
             \/ Go("base_gate")
    BY <1>12 DEF StartTool
  <2>2. call' \in CallRecord
    BY <2>1, DefinitionTyped
  <2>3. Shown(args) \in Payloads
    BY DEF Payloads
  <2>4. CASE Dispatch("ToolPre", Shown(args))
    BY <1>1, <1>10, <2>1, <2>2, <2>3, <2>4, BeginsTyped
  <2>5. CASE Go("base_gate")
    BY <1>2, <1>10, <2>1, <2>2, <2>5, GoTyped
  <2>. QED  BY <2>1, <2>4, <2>5
<1>13. CASE ToolPreEnds
  <2>. DEFINE new == IF d.rewritten THEN Captured(d.payload) ELSE NoValue
  <2>1. /\ call' = [call EXCEPT !.args = new] \/ call' = call
        /\ pc' \in {"completed", "run", "base_gate"} /\ d' = d /\ count' = count
        /\ d.event = "ToolPre"
    BY <1>13 DEF ToolPreEnds, Dispatched
  <2>2. new \in Arguments
    BY DispatchFields DEF Arguments
  <2>. HIDE DEF new
  <2>3. call' \in CallRecord
    BY <1>0, <2>1, <2>2 DEF CallRecord
  <2>. QED  BY <2>1, <2>3 DEF DispatchTypes, Places
<1>14. CASE GateApproves \/ GateRefuses
  <2>1. /\ pc = "base_gate" /\ pc' \in {"run", "completed"} /\ d' = d /\ call' = call
        /\ count' = count
    BY <1>14 DEF GateApproves, GateRefuses, Gates
  <2>. QED  BY <2>1 DEF DispatchTypes, Places
<1>15. CASE UserApproves
  <2>1. /\ pc = "base_gate" /\ pc' = "run" /\ d' = d /\ count' = count
        /\ call' = [call EXCEPT !.asked = call.args]
    BY <1>15 DEF UserApproves, Gates
  <2>2. call' \in CallRecord
    BY <1>0, <2>1 DEF CallRecord
  <2>. QED  BY <2>1, <2>2 DEF DispatchTypes, Places
<1>16. CASE ToolsTeardown \/ AutocmdTeardown \/ LuaTeardown
  <2>1. /\ pc' \in {"autocmd_teardown", "lua_teardown", "exited"}
        /\ pc \in {"tools_teardown", "autocmd_teardown", "lua_teardown"}
        /\ d' = d /\ call' = call /\ count' = count
    BY <1>16 DEF ToolsTeardown, AutocmdTeardown, LuaTeardown
  <2>. QED  BY <2>1 DEF DispatchTypes, Places
<1>17. CASE CallHook \/ CallNothing \/ HookReturns
  BY <1>17, CallHookTyped, CallNothingTyped, HookReturnsTyped
<1>. QED  BY <1>3, <1>4, <1>5, <1>6, <1>7, <1>8, <1>9, <1>11, <1>12, <1>13, <1>14, <1>15, <1>16,
             <1>17 DEF Next, MainStep
(* The types and the ownership of references are inductive together.       *)
LEMMA InitOwned == Init => Owned
<1>. SUFFICES ASSUME Init
              PROVE  Owned
  OBVIOUS
<1>1. /\ live = {} /\ autocmds = << >> /\ tools = << >> /\ pc = "init.lua" /\ lua = TRUE
  BY DEF Init
<1>2. RefsOf(<< >>) = {} /\ Cardinality({}) = 0 /\ Len(<< >>) = 0
  BY FS_EmptySet DEF RefsOf
<1>. QED  BY <1>1, <1>2 DEF Owned

LEMMA TypesHold == Spec => [](Types /\ Owned)
<1>1. Init => Types /\ Owned
  BY InitFrontend, InitOwned
<1>2. Types /\ Owned /\ [Next]_vars => (Types /\ Owned)'
  BY StoreStep, ModelStep, DispatchStep DEF Types
<1>. QED  BY <1>1, <1>2, PTL DEF Spec

(* Every variable keeps its type: the stores respect their caps, however   *)
(* many hooks and tools Lua code registers, and a dispatch stays within    *)
(* the count it latched (autocmd.c, tools.c, lua/bridge.c).                *)
THEOREM TypeCorrect == Spec => []TypeOK
<1>1. ASSUME Types
      PROVE  TypeOK
  <2>1. /\ mode \in Modes /\ lua \in BOOLEAN /\ live \subseteq Refs /\ pc \in Places
        /\ Len(autocmds) <= MaxAutocmds /\ Len(tools) <= MaxTools
    BY <1>1 DEF Types, StoreTypes, ModelTypes, DispatchTypes
  <2>2. \A j \in DOMAIN autocmds :
          autocmds[j] \in [id : 1 .. nextId - 1, event : Events, ref : Refs]
    <3>1. /\ \A j \in 1 .. Len(autocmds) : autocmds[j].id \in 1 .. nextId - 1
          /\ DOMAIN autocmds = 1 .. Len(autocmds)
      BY <1>1 DEF Types, StoreTypes
    <3>2. \A j \in DOMAIN autocmds : autocmds[j] \in Hook
      BY <1>1 DEF Types, StoreTypes
    <3>. QED  BY <3>1, <3>2 DEF Hook
  <2>3. \A j \in DOMAIN tools : tools[j] \in Tool
    BY <1>1 DEF Types, StoreTypes
  <2>4. /\ model.value \in ModelNames /\ turn.value \in ModelNames /\ ctxModel \in ModelNames
        /\ window \in Nat /\ catalog \in Catalogs
    BY <1>1 DEF Types, ModelTypes
  <2>5. d.event \in Events \cup {"none"} /\ d.i \in 0 .. d.n /\ d.n \in 0 .. MaxAutocmds
    <3>1. d.event \in Events \cup {"none"} /\ d.n \in 0 .. MaxAutocmds /\ d.i \in Nat /\ d.i <= d.n
      BY <1>1, DispatchFields DEF Types, DispatchTypes
    <3>. DEFINE i == d.i
                n == d.n
    <3>2. n \in 0 .. MaxAutocmds /\ MaxAutocmds \in Nat /\ i \in Nat /\ i <= n
      BY <3>1, ConstantFacts
    <3>. HIDE DEF i, n
    <3>3. i \in 0 .. n
      BY <3>2
    <3>. QED  BY <3>1, <3>3 DEF i, n
  <2>6. call.mutating \in BOOLEAN /\ call.ref \in Refs \cup {0}
    BY <1>1 DEF Types, DispatchTypes, CallRecord
  <2>. QED  BY <2>1, <2>2, <2>3, <2>4, <2>5, <2>6 DEF TypeOK, Places, ModelNames, Tool
<1>. QED  BY <1>1, TypesHold, PTL

(* The Lua registry holds one reference for each registered hook and tool  *)
(* and no other: none leaks when a registration is refused or a hook       *)
(* clears the store it is dispatched from, and none is left to be released *)
(* when the Lua state is closed (l_mua_create_autocmd, autocmd_clear,      *)
(* tools_teardown, autocmd_teardown).                                      *)
THEOREM ReferencesOwned == Spec => []RefsOwned
<1>1. ASSUME Types, Owned
      PROVE  RefsOwned
  <2>1. /\ live = RefsOf(autocmds) \cup RefsOf(tools)
        /\ RefsOf(autocmds) \cap RefsOf(tools) = {}
        /\ Cardinality(RefsOf(autocmds)) = Len(autocmds)
        /\ Cardinality(RefsOf(tools)) = Len(tools)
    BY <1>1 DEF Owned
  <2>2. Cardinality(live) = Len(autocmds) + Len(tools)
    <3>. DEFINE A == RefsOf(autocmds)
                T == RefsOf(tools)
    <3>1. IsFiniteSet(A) /\ IsFiniteSet(T) /\ Cardinality({}) = 0
      BY <1>1, RefsTyped DEF Types
    <3>. HIDE DEF A, T
    <3>2. Cardinality(A \cup T) = Cardinality(A) + Cardinality(T) - Cardinality(A \cap T)
      BY <3>1, FS_Union
    <3>3. Cardinality(A) \in Nat /\ Cardinality(T) \in Nat
      BY <3>1, FS_CardinalityType
    <3>4. live = A \cup T /\ A \cap T = {}
      BY <2>1 DEF A, T
    <3>5. Cardinality(live) = Cardinality(A) + Cardinality(T)
      <4>. DEFINE a == Cardinality(A)
                  t == Cardinality(T)
      <4>1. /\ a \in Nat /\ t \in Nat /\ Cardinality(live) = Cardinality(A \cup T)
            /\ Cardinality(A \cup T) = a + t - Cardinality(A \cap T)
            /\ Cardinality(A \cap T) = 0
        BY <3>1, <3>2, <3>3, <3>4, Zenon
      <4>. HIDE DEF a, t
      <4>2. Cardinality(live) = a + t
        BY <4>1
      <4>. QED  BY <4>2 DEF a, t
    <3>. QED  BY <2>1, <3>5 DEF A, T
  <2>3. ~lua => live = {}
    <3>1. ~lua => autocmds = << >> /\ tools = << >>
      BY <1>1 DEF Owned
    <3>2. RefsOf(<< >>) = {}
      BY DEF RefsOf
    <3>. QED  BY <2>1, <3>1, <3>2
  <2>. QED  BY <2>1, <2>2, <2>3 DEF RefsOwned
<1>. QED  BY <1>1, TypesHold, PTL
---------------------------------------------------------------------------
(* The model and its window. *)

(* A turn is under way only since StartTurn, the start until Started.      *)
LEMMA PhasesKept ==
  ASSUME DispatchTypes, [Next]_vars
  PROVE  /\ InTurn' => InTurn \/ StartTurn
         /\ Starting' => Starting
<1>1. CASE UNCHANGED vars
  BY <1>1 DEF vars, InTurn, Starting
<1>2. CASE LuaStep
  <2>1. pc' = pc
    BY <1>2, LuaKeepsModels
  <2>2. d'.event = d.event
    <3>1. CASE UNCHANGED d
      BY <3>1
    <3>2. ASSUME NEW t \in Tables, AssignArgs(t)
          PROVE  d'.event = d.event
      BY <3>2 DEF AssignArgs, DispatchTypes, DispatchRecord
    <3>. QED  BY <1>2, <3>1, <3>2, LuaKeepsModels
  <2>. QED  BY <2>1, <2>2 DEF InTurn, Starting
<1>3. CASE CallHook \/ CallNothing \/ HookReturns
  <2>1. d'.event = d.event
    <3>1. d \in DispatchRecord
      BY DEF DispatchTypes
    <3>2. CASE CallHook
      BY <3>1, <3>2 DEF CallHook, DispatchRecord
    <3>. QED  BY <1>3, <3>2, CallNothingTyped, HookReturnsTyped
  <2>2. pc \in {"dispatch", "hook"} /\ pc' \in {"dispatch", "hook"}
    BY <1>3 DEF CallHook, CallNothing, InDispatch, HookReturns
  <2>. QED  BY <2>1, <2>2 DEF InTurn, Starting
<1>4. ASSUME NEW e \in Events, NEW payload, Dispatch(e, payload)
      PROVE  pc' = "dispatch" /\ d'.event = e
  BY <1>4 DEF Dispatch, NoDispatch
<1>5. ASSUME NEW where, Go(where)
      PROVE  pc' = where /\ d'.event = "none"
  BY <1>5 DEF Go, NoDispatch
<1>6. CASE Startup \/ Prompt \/ Quit
  <2>1. \/ pc = "init.lua" /\ Dispatch("SessionStart", NoValue)
        \/ Dispatch("UserPromptPre", NoValue) \/ Dispatch("SessionEnd", NoValue)
    BY <1>6 DEF Startup, Prompt, Quit
  <2>2. /\ pc' = "dispatch" /\ d'.event \in {"SessionStart", "UserPromptPre", "SessionEnd"}
        /\ d'.event = "SessionStart" => pc = "init.lua"
    BY <1>4, <2>1 DEF Events
  <2>. QED  BY <2>2 DEF InTurn, Starting
<1>7. CASE OnText \/ ToolCompleted
  <2>1. /\ pc \in {"stream", "completed"}
        /\ Dispatch("StreamDelta", NoValue) \/ Dispatch("ToolPost", NoValue)
    BY <1>7 DEF OnText, ToolCompleted
  <2>2. pc' = "dispatch" /\ d'.event \in {"StreamDelta", "ToolPost"}
    BY <1>4, <2>1 DEF Events
  <2>. QED  BY <2>1, <2>2 DEF InTurn, Starting
<1>8. CASE StartupFails \/ Started \/ Swallowed \/ TurnEnds
  <2>1. Go("tools_teardown") \/ Go("prompt")
    BY <1>8 DEF StartupFails, Started, Swallowed, TurnEnds
  <2>2. pc' \in {"tools_teardown", "prompt"} /\ d'.event = "none"
    BY <1>5, <2>1
  <2>. QED  BY <2>2 DEF InTurn, Starting
<1>9. CASE StartTurn
  <2>1. Go("request")
    BY <1>9 DEF StartTurn
  <2>2. pc' = "request" /\ d'.event = "none"
    BY <1>5, <2>1
  <2>. QED  BY <1>9, <2>2 DEF Starting
<1>10. CASE Observed
  <2>1. \/ d.event \in {"StreamDelta", "ToolPost"} /\ (Go("stream") \/ Go("driver"))
        \/ Go("tools_teardown")
    BY <1>10 DEF Observed, Dispatched
  <2>2. /\ d'.event = "none"
        /\ \/ d.event \in {"StreamDelta", "ToolPost"} /\ pc' \in {"stream", "driver"}
           \/ pc' = "tools_teardown"
    BY <1>5, <2>1
  <2>. QED  BY <2>2 DEF InTurn, Starting
<1>11. CASE Request \/ NextRound \/ BadCall \/ ExecuteBuiltin \/ InvokeTool \/ ToolReturns
  <2>1. /\ pc \in {"request", "stream", "driver", "run", "callback"}
        /\ Go("stream") \/ Go("request") \/ Go("completed") \/ Go("callback")
    BY <1>11 DEF Request, NextRound, BadCall, Proposes, ExecuteBuiltin, InvokeTool, ToolReturns
  <2>2. pc' \in {"stream", "request", "completed", "callback"} /\ d'.event = "none"
    BY <1>5, <2>1
  <2>. QED  BY <2>1, <2>2 DEF InTurn, Starting
<1>12. CASE StartTool
  <2>1. /\ pc \in {"stream", "driver"}
        /\ \/ \E args \in Args : Dispatch("ToolPre", Shown(args))
           \/ Go("base_gate")
    BY <1>12 DEF StartTool, Proposes
  <2>2. pc' \in {"dispatch", "base_gate"} /\ d'.event \in {"ToolPre", "none"}
    BY <1>4, <1>5, <2>1 DEF Events
  <2>. QED  BY <2>1, <2>2 DEF InTurn, Starting
<1>13. CASE ToolPreEnds \/ GateApproves \/ GateRefuses \/ UserApproves
  <2>1. /\ d' = d /\ pc' \in {"run", "completed", "base_gate"}
        /\ pc = "base_gate" \/ d.event = "ToolPre"
    BY <1>13 DEF ToolPreEnds, Dispatched, GateApproves, GateRefuses, UserApproves, Gates
  <2>. QED  BY <2>1 DEF InTurn, Starting
<1>14. CASE ToolsTeardown \/ AutocmdTeardown \/ LuaTeardown
  <2>1. /\ pc' \in {"autocmd_teardown", "lua_teardown", "exited"} /\ d' = d
    BY <1>14 DEF ToolsTeardown, AutocmdTeardown, LuaTeardown
  <2>. QED  BY <2>1 DEF InTurn, Starting
<1>. QED  BY <1>1, <1>2, <1>3, <1>6, <1>7, <1>8, <1>9, <1>10, <1>11, <1>12, <1>13, <1>14
          DEF Next, MainStep

LEMMA FetchedStep ==
  ASSUME ModelTypes, DispatchTypes, Fetched, [Next]_vars
  PROVE  Fetched'
<1>1. ASSUME UNCHANGED <<mode, window, ctxModel, turn, past>>, ~StartTurn
      PROVE  Fetched'
  BY <1>1, PhasesKept DEF Fetched
<1>. DEFINE m == ResolveTurnModel.value
<1>2. m \in ModelNames
  BY ResolvedTyped
<1>3. CASE StartTurn
  <2>1. /\ turn'.value = m /\ mode' = mode /\ Go("request")
        /\ IF mode.repl /\ ~mode.locked /\ m # ctxModel
           THEN ModelsContextLength(m) /\ ctxModel' = m /\ past' = [past EXCEPT !.fetched = m]
           ELSE UNCHANGED <<catalog, window, ctxModel, past>>
    BY <1>3 DEF StartTurn
  <2>2. ~Starting'
    BY <2>1 DEF Go, NoDispatch, Starting
  <2>. HIDE DEF m
  <2>3. CASE mode.repl /\ ~mode.locked /\ m # ctxModel
    <3>1. window' \in {0, Window(ModelId(m))}
      BY <1>2, <2>1, <2>3, WindowTyped
    <3>2. past'.fetched = m /\ ctxModel' = m
      BY <2>1, <2>3 DEF ModelTypes
    <3>. QED  BY <2>1, <2>2, <3>1, <3>2 DEF Fetched
  <2>4. CASE ~(mode.repl /\ ~mode.locked /\ m # ctxModel)
    BY <2>1, <2>2, <2>4 DEF Fetched
  <2>. QED  BY <2>3, <2>4
<1>4. CASE Startup
  <2>1. /\ past' = [past EXCEPT !.launch = m, !.fetched = m] /\ ctxModel' = ctxModel
        /\ mode' = mode /\ turn' = turn /\ pc = "init.lua" /\ Dispatch("SessionStart", NoValue)
        /\ ~mode.locked => ModelsContextLength(m)
    BY <1>4 DEF Startup
  <2>2. ~InTurn' /\ Starting
    BY <2>1 DEF Dispatch, NoDispatch, InTurn, Starting
  <2>. HIDE DEF m
  <2>3. ~mode.locked => window' \in {0, Window(ModelId(m))}
    BY <1>2, <2>1, WindowTyped
  <2>4. past'.fetched = m /\ past'.launch = m /\ past'.first = past.first
    BY <2>1 DEF ModelTypes
  <2>5. ctxModel = past.first
    BY <2>2 DEF Fetched
  <2>. QED  BY <2>1, <2>2, <2>3, <2>4, <2>5 DEF Fetched
<1>5. CASE Started
  <2>1. /\ ctxModel' = m /\ past' = [past EXCEPT !.first = m] /\ mode' = mode /\ window' = window
        /\ d.event = "SessionStart" /\ Go("prompt")
    BY <1>5 DEF Started, Dispatched
  <2>2. ~InTurn' /\ ~Starting' /\ Starting
    BY <2>1 DEF Go, NoDispatch, InTurn, Starting
  <2>. HIDE DEF m
  <2>3. past'.fetched = past.fetched /\ past'.launch = past.launch /\ past'.first = m
    BY <2>1 DEF ModelTypes
  <2>. QED  BY <2>1, <2>2, <2>3 DEF Fetched
<1>6. CASE LuaTeardown
  BY <1>1, <1>6 DEF LuaTeardown, StartTurn, Dispatched
<1>7. CASE UNCHANGED vars /\ ~StartTurn
  BY <1>1, <1>7 DEF vars, modelVars
<1>8. CASE LuaStep /\ ~StartTurn
  BY <1>1, <1>8, LuaKeepsModels
<1>9. CASE UNCHANGED <<mode, modelVars, past>> /\ ~StartTurn
  BY <1>1, <1>9 DEF modelVars
<1>. QED  BY <1>3, <1>4, <1>5, <1>6, <1>7, <1>8, <1>9, MainKeepsModels DEF Next

(* In the REPL the context budget of a turn is computed from the window of *)
(* the model the turn uses, or is off, whichever hooks switch models and   *)
(* whenever, unless ctx_model was seeded with a model that a SessionStart  *)
(* hook chose and stands (run_repl, models_context_length).                *)
THEOREM WindowIsOfModel == Spec => []WindowMatchesModel
<1>1. Init => Fetched
  <2>. SUFFICES ASSUME Init
                PROVE  Fetched
    OBVIOUS
  <2>. QED  BY DEF Init, Fetched, InTurn, NoDispatch
<1>2. Types /\ Fetched /\ [Next]_vars => Fetched'
  BY FetchedStep DEF Types
<1>3. Fetched => WindowMatchesModel
  BY DEF Fetched, WindowMatchesModel, SeedStale, InTurn
<1>. QED  BY <1>1, <1>2, <1>3, TypesHold, PTL DEF Spec
---------------------------------------------------------------------------
(* The hooks a dispatch asks. *)

LEMMA DistinctStep ==
  ASSUME StoreTypes, Distinct, [Next]_vars
  PROVE  Distinct'
<1>1. CASE UNCHANGED autocmds
  BY <1>1 DEF Distinct
<1>2. ASSUME autocmds' = << >>
      PROVE  Distinct'
  BY <1>2 DEF Distinct
<1>3. ASSUME NEW e \in Events, CreateAutocmd(e)
      PROVE  Distinct'
  <2>. DEFINE x == [id |-> nextId, event |-> e, ref |-> Fresh]
              n == Len(autocmds)
  <2>1. autocmds' = Append(autocmds, x) /\ x.id = nextId
    BY <1>3 DEF CreateAutocmd
  <2>. HIDE DEF x
  <2>2. /\ n \in Nat /\ DOMAIN autocmds' = 1 .. n + 1 /\ DOMAIN autocmds = 1 .. n
        /\ \A j \in 1 .. n : autocmds'[j] = autocmds[j]
        /\ autocmds'[n + 1].id = nextId
    BY <2>1 DEF StoreTypes
  <2>3. /\ \A j \in 1 .. n : autocmds[j].id \in 1 .. nextId - 1
        /\ nextId \in Nat
    BY DEF StoreTypes
  <2>. HIDE DEF n
  <2>4. \A j \in 1 .. n : autocmds'[j].id # nextId
    BY <2>2, <2>3
  <2>5. \A j \in 1 .. n + 1 : j = n + 1 \/ j \in 1 .. n
    BY <2>2
  <2>. QED  BY <2>2, <2>4, <2>5 DEF Distinct
<1>4. CASE LuaStep
  <2>1. CASE ClearAutocmds
    BY <1>2, <2>1 DEF ClearAutocmds
  <2>2. CASE UNCHANGED autocmds
    BY <1>1, <2>2
  <2>. QED  BY <1>3, <1>4, <2>1, <2>2
            DEF LuaStep, RegisterTool, RegistrationRefused, SetModel, AssignArgs
<1>5. CASE ToolsTeardown \/ LuaTeardown
  BY <1>1, <1>5 DEF ToolsTeardown, LuaTeardown
<1>6. CASE AutocmdTeardown
  BY <1>2, <1>6 DEF AutocmdTeardown
<1>7. CASE UNCHANGED luaVars
  BY <1>1, <1>7 DEF luaVars
<1>8. CASE UNCHANGED vars
  BY <1>1, <1>8 DEF vars, luaVars
<1>. QED  BY <1>4, <1>5, <1>6, <1>7, <1>8, MainKeepsStores DEF Next

(* The places of an event's hooks are 0, 1, 2 and so on, without repeats.  *)
LEMMA BeforeFacts ==
  ASSUME StoreTypes, NEW e, NEW j \in Of(e)
  PROVE  /\ Before(e, j) \in Nat /\ Before(e, j) < AutocmdCount(e)
         /\ \A k \in Of(e) : Before(e, k) = Before(e, j) => k = j
<1>. DEFINE B(k) == {i \in Of(e) : i < k}
<1>1. IsFiniteSet(Of(e)) /\ Of(e) \subseteq Nat
  BY OfFacts
<1>2. ASSUME NEW k \in Of(e)
      PROVE  IsFiniteSet(B(k)) /\ Before(e, k) = Cardinality(B(k)) /\ Before(e, k) \in Nat
  <2>1. B(k) \subseteq Of(e) /\ Before(e, k) = Cardinality(B(k))
    BY DEF Before
  <2>. HIDE DEF B
  <2>2. IsFiniteSet(B(k))
    BY <1>1, <2>1, FS_Subset
  <2>. QED  BY <2>1, <2>2, FS_CardinalityType
<1>3. Before(e, j) < AutocmdCount(e)
  <2>1. B(j) \subseteq Of(e) /\ B(j) # Of(e)
    BY <1>1
  <2>. DEFINE b == Cardinality(B(j))
              a == Cardinality(Of(e))
  <2>2. a \in Nat
    BY <1>1, FS_CardinalityType
  <2>3. b <= a /\ (a = b => Of(e) = B(j))
    <3>. HIDE DEF B
    <3>. QED  BY <1>1, <2>1, FS_Subset
  <2>4. b \in Nat /\ b = Before(e, j)
    BY <1>2
  <2>. HIDE DEF a, b
  <2>5. b < a
    BY <2>1, <2>2, <2>3, <2>4
  <2>. QED  BY <2>4, <2>5 DEF a, AutocmdCount
<1>4. ASSUME NEW k \in Of(e), NEW l \in Of(e), k < l
      PROVE  Before(e, k) # Before(e, l)
  <2>1. B(k) \subseteq B(l) /\ k \in B(l) /\ k \notin B(k)
    BY <1>1, <1>4
  <2>2. IsFiniteSet(B(l)) /\ Before(e, k) = Cardinality(B(k)) /\ Before(e, l) = Cardinality(B(l))
    BY <1>2
  <2>. HIDE DEF B
  <2>3. Cardinality(B(l)) = Cardinality(B(k)) => B(l) = B(k)
    BY <2>1, <2>2, FS_Subset
  <2>. QED  BY <2>1, <2>2, <2>3
<1>5. \A k \in Of(e) : Before(e, k) = Before(e, j) => k = j
  <2>. SUFFICES ASSUME NEW k \in Of(e), k # j
                PROVE  Before(e, k) # Before(e, j)
    OBVIOUS
  <2>1. k < j \/ j < k
    BY <1>1
  <2>. QED  BY <1>4, <2>1
<1>. QED  BY <1>2, <1>3, <1>5

(* A step that leaves the hooks alone, and of the dispatch what counts.    *)
LEMMA QuietHeard ==
  ASSUME HeardInOrder, UNCHANGED <<autocmds, nextId>>,
         \/ d'.event = "none"
         \/ /\ d'.event = d.event /\ d'.due = d.due /\ d'.heard = d.heard /\ d'.n = d.n
            /\ d'.i = d.i /\ (pc' = "hook" => pc = "hook")
  PROVE  HeardInOrder'
BY DEF HeardInOrder, Before, Of

LEMMA BeginsHeard ==
  ASSUME StoreTypes, Distinct, NEW e \in Events, NEW payload \in Payloads, Dispatch(e, payload),
         UNCHANGED luaVars
  PROVE  HeardInOrder'
<1>1. /\ pc' = "dispatch" /\ d'.event = e /\ d'.i = 0 /\ d'.n = AutocmdCount(e)
      /\ d'.due = {autocmds[j].id : j \in Of(e)}
  BY DispatchBegins
<1>2. autocmds' = autocmds /\ nextId' = nextId
  BY DEF luaVars
<1>3. d'.due \subseteq 1 .. nextId' - 1
  <2>1. \A j \in Of(e) : autocmds[j].id \in 1 .. nextId - 1
    BY OfFacts DEF StoreTypes
  <2>. QED  BY <1>1, <1>2, <2>1
<1>4. ASSUME NEW j \in DOMAIN autocmds, autocmds[j].id \in d'.due
      PROVE  j \in Of(e) /\ Before(e, j) < d'.n /\ ~(Before(e, j) < d'.i)
  <2>1. j \in Of(e)
    BY <1>1, <1>4 DEF Distinct, Of
  <2>2. Before(e, j) \in Nat /\ Before(e, j) < AutocmdCount(e)
    BY <2>1, BeforeFacts
  <2>. QED  BY <1>1, <2>1, <2>2
<1>5. Of(e)' = Of(e) /\ \A j : Before(e, j)' = Before(e, j)
  BY <1>2 DEF Before, Of
<1>. QED  BY <1>1, <1>2, <1>3, <1>4, <1>5 DEF HeardInOrder

LEMMA CallHookHeard ==
  ASSUME StoreTypes, DispatchTypes, HeardInOrder, CallHook
  PROVE  HeardInOrder'
<1>1. /\ pc = "dispatch" /\ pc' = "hook" /\ autocmds' = autocmds /\ nextId' = nextId
  BY DEF CallHook, InDispatch, luaVars
<1>2. PICK k \in AutocmdAt(d.event, d.i) : d' = [d EXCEPT !.heard = @ \cup {autocmds[k].id}]
  BY DEF CallHook
<1>3. /\ d'.event = d.event /\ d'.i = d.i /\ d'.n = d.n /\ d'.due = d.due
      /\ d'.heard = d.heard \cup {autocmds[k].id} /\ d.event # "none"
  BY <1>1, <1>2 DEF DispatchTypes, DispatchRecord, Events
<1>4. k \in Of(d.event) /\ Before(d.event, k) = d.i
  BY <1>2 DEF AutocmdAt, Before
<1>5. ASSUME NEW j \in Of(d.event), Before(d.event, j) = d.i
      PROVE  j = k
  BY <1>4, <1>5, BeforeFacts
<1>6. \A j \in DOMAIN autocmds : autocmds[j].id \in d.due =>
         /\ j \in Of(d.event) /\ Before(d.event, j) < d.n
         /\ Before(d.event, j) < d.i => autocmds[j].id \in d.heard
  BY <1>3 DEF HeardInOrder
<1>7. d.due \subseteq 1 .. nextId - 1
  BY <1>3 DEF HeardInOrder
<1>8. /\ Of(d.event)' = Of(d.event)
      /\ \A j : Before(d.event, j)' = Before(d.event, j)
  BY <1>1, <1>3 DEF Before, Of
<1>. QED  BY <1>1, <1>3, <1>5, <1>6, <1>7, <1>8 DEF HeardInOrder

(* The index moves past a place that is empty, or whose hook was asked.    *)
LEMMA PassesHeard ==
  ASSUME StoreTypes, DispatchTypes, HeardInOrder, UNCHANGED <<autocmds, nextId>>,
         pc' = "dispatch", d'.event = d.event, d'.due = d.due, d'.heard = d.heard, d'.n = d.n,
         d'.i = d.i + 1, AutocmdAt(d.event, d.i) = {} \/ pc = "hook"
  PROVE  HeardInOrder'
<1>. SUFFICES ASSUME d.event # "none"
              PROVE  HeardInOrder'
  BY DEF HeardInOrder
<1>1. ASSUME NEW j \in DOMAIN autocmds, autocmds[j].id \in d.due
      PROVE  /\ j \in Of(d.event) /\ Before(d.event, j) < d.n
             /\ Before(d.event, j) < d.i + 1 => autocmds[j].id \in d.heard
  <2>1. /\ j \in Of(d.event) /\ Before(d.event, j) < d.n
        /\ Before(d.event, j) < d.i \/ (pc = "hook" /\ Before(d.event, j) = d.i)
             => autocmds[j].id \in d.heard
    BY <1>1 DEF HeardInOrder
  <2>2. Before(d.event, j) \in Nat /\ d.i \in Nat
    BY <2>1, BeforeFacts, DispatchFields
  <2>3. Before(d.event, j) = d.i => pc = "hook"
    BY <2>1 DEF AutocmdAt, Before
  <2>4. Before(d.event, j) < d.i + 1 => Before(d.event, j) < d.i \/ Before(d.event, j) = d.i
    BY <2>2
  <2>. QED  BY <2>1, <2>3, <2>4
<1>2. d.due \subseteq 1 .. nextId - 1
  BY DEF HeardInOrder
<1>3. /\ Of(d.event)' = Of(d.event)
      /\ \A j : Before(d.event, j)' = Before(d.event, j)
  BY DEF Before, Of
<1>. QED  BY <1>1, <1>2, <1>3 DEF HeardInOrder
(* Lua code adds a hook after all others, or removes them all. *)
LEMMA LuaHeard ==
  ASSUME StoreTypes, DispatchTypes, HeardInOrder, LuaStep
  PROVE  HeardInOrder'
<1>1. /\ pc' = pc
      /\ d'.event = d.event /\ d'.due = d.due /\ d'.heard = d.heard /\ d'.n = d.n /\ d'.i = d.i
  <2>1. CASE UNCHANGED d
    BY <2>1, LuaKeepsModels
  <2>2. ASSUME NEW t \in Tables, AssignArgs(t)
        PROVE  /\ pc' = pc /\ d'.event = d.event /\ d'.due = d.due /\ d'.heard = d.heard
               /\ d'.n = d.n /\ d'.i = d.i
    BY <2>2 DEF AssignArgs, Api, DispatchTypes, DispatchRecord
  <2>. QED  BY <2>1, <2>2, LuaKeepsModels
<1>2. CASE UNCHANGED <<autocmds, nextId>>
  BY <1>1, <1>2, QuietHeard
<1>3. CASE ClearAutocmds
  <2>1. autocmds' = << >> /\ nextId' = nextId
    BY <1>3 DEF ClearAutocmds
  <2>. QED  BY <1>1, <2>1 DEF HeardInOrder
<1>4. ASSUME NEW e \in Events, CreateAutocmd(e), d.event # "none"
      PROVE  HeardInOrder'
  <2>. DEFINE x == [id |-> nextId, event |-> e, ref |-> Fresh]
              n == Len(autocmds)
              f == d.event
  <2>1. autocmds' = Append(autocmds, x) /\ x.id = nextId /\ nextId' = nextId + 1
    BY <1>4 DEF CreateAutocmd
  <2>. HIDE DEF x
  <2>2. /\ n \in Nat /\ DOMAIN autocmds' = 1 .. n + 1 /\ DOMAIN autocmds = 1 .. n
        /\ \A j \in 1 .. n : autocmds'[j] = autocmds[j]
        /\ autocmds'[n + 1].id = nextId
    BY <2>1 DEF StoreTypes
  <2>3. d.due \subseteq 1 .. nextId - 1 /\ nextId \in Nat
    BY <1>4 DEF HeardInOrder, StoreTypes
  <2>. HIDE DEF n
  <2>4. nextId \notin d.due /\ d.due \subseteq 1 .. nextId' - 1
    BY <2>1, <2>3
  <2>5. ASSUME NEW j \in 1 .. n
        PROVE  {i \in Of(f)' : i < j} = {i \in Of(f) : i < j} /\ (j \in Of(f)' <=> j \in Of(f))
    <3>1. \A i \in 1 .. n : i \in Of(f)' <=> i \in Of(f)
      BY <1>1, <2>2 DEF Of
    <3>2. Of(f)' \subseteq 1 .. n + 1 /\ Of(f) \subseteq 1 .. n
      BY <2>2 DEF Of
    <3>3. \A i \in 1 .. n + 1 : i < j => i \in 1 .. n
      BY <2>2
    <3>. QED  BY <3>1, <3>2, <3>3
  <2>6. \A j \in 1 .. n : Before(f, j)' = Before(f, j) /\ (j \in Of(f) => j \in Of(f)')
    BY <2>5 DEF Before
  <2>7. ASSUME NEW j \in DOMAIN autocmds', autocmds'[j].id \in d.due
        PROVE  /\ j \in Of(f)' /\ Before(f, j)' < d.n
               /\ Before(f, j)' < d.i \/ (pc = "hook" /\ Before(f, j)' = d.i)
                    => autocmds'[j].id \in d.heard
    <3>1. j \in 1 .. n
      <4>1. j # n + 1
        BY <2>2, <2>4, <2>7
      <4>. QED  BY <2>2, <2>7, <4>1
    <3>2. autocmds'[j] = autocmds[j] /\ j \in DOMAIN autocmds
      BY <2>2, <3>1
    <3>3. /\ j \in Of(f) /\ Before(f, j) < d.n
          /\ Before(f, j) < d.i \/ (pc = "hook" /\ Before(f, j) = d.i) => autocmds[j].id \in d.heard
      BY <1>4, <2>7, <3>2 DEF HeardInOrder
    <3>. QED  BY <2>6, <3>1, <3>2, <3>3
  <2>. QED  BY <1>1, <2>4, <2>7 DEF HeardInOrder
<1>5. CASE d.event = "none"
  BY <1>1, <1>5 DEF HeardInOrder
<1>. QED  BY <1>2, <1>3, <1>4, <1>5
          DEF LuaStep, RegisterTool, RegistrationRefused, SetModel, AssignArgs

LEMMA HeardStep ==
  ASSUME Types, Distinct, HeardInOrder, [Next]_vars
  PROVE  HeardInOrder'
<1>0. StoreTypes /\ DispatchTypes
  BY DEF Types
<1>1. CASE LuaStep
  BY <1>0, <1>1, LuaHeard
<1>2. CASE UNCHANGED vars
  BY <1>2, QuietHeard DEF vars, luaVars
<1>3. ASSUME NEW where, Go(where), UNCHANGED luaVars
      PROVE  HeardInOrder'
  BY <1>3, QuietHeard DEF Go, NoDispatch, luaVars
<1>4. ASSUME NEW e \in Events, NEW payload \in Payloads, Dispatch(e, payload), UNCHANGED luaVars
      PROVE  HeardInOrder'
  BY <1>0, <1>4, BeginsHeard
<1>5. CASE Startup \/ Prompt \/ Quit \/ OnText \/ ToolCompleted
  <2>1. /\ UNCHANGED luaVars
        /\ \E e \in Events : Dispatch(e, NoValue)
    BY <1>5 DEF Startup, Prompt, Quit, OnText, ToolCompleted, Events
  <2>. QED  BY <1>4, <2>1 DEF Payloads
<1>6. CASE StartupFails \/ Started \/ Swallowed \/ StartTurn \/ Request \/ Observed
  <2>1. UNCHANGED luaVars /\ \E where \in Places : Go(where)
    BY <1>6 DEF StartupFails, Started, Swallowed, StartTurn, Request, Observed, Places
  <2>. QED  BY <1>3, <2>1
<1>7. CASE TurnEnds \/ NextRound \/ BadCall \/ ExecuteBuiltin \/ InvokeTool \/ ToolReturns
  <2>1. UNCHANGED luaVars /\ \E where \in Places : Go(where)
    BY <1>7 DEF TurnEnds, NextRound, BadCall, Proposes, ExecuteBuiltin, InvokeTool, ToolReturns,
                Places
  <2>. QED  BY <1>3, <2>1
<1>8. CASE StartTool
  <2>1. /\ UNCHANGED luaVars
        /\ \/ \E args \in Args : Dispatch("ToolPre", Shown(args))
           \/ Go("base_gate")
    BY <1>8 DEF StartTool, Proposes
  <2>2. "ToolPre" \in Events /\ \A args \in Args : Shown(args) \in Payloads
    BY DEF Events, Payloads
  <2>. QED  BY <1>3, <1>4, <2>1, <2>2
<1>9. CASE ToolPreEnds \/ GateApproves \/ GateRefuses \/ UserApproves
  <2>1. UNCHANGED luaVars /\ d' = d /\ pc' \in {"completed", "run", "base_gate"}
    BY <1>9 DEF ToolPreEnds, GateApproves, GateRefuses, UserApproves, Gates
  <2>. QED  BY <2>1, QuietHeard DEF luaVars
<1>10. CASE ToolsTeardown \/ AutocmdTeardown \/ LuaTeardown
  <2>1. d.event = "none" /\ d' = d
    BY <1>0, <1>10 DEF DispatchTypes, ToolsTeardown, AutocmdTeardown, LuaTeardown
  <2>. QED  BY <2>1 DEF HeardInOrder
<1>11. CASE CallHook
  BY <1>0, <1>11, CallHookHeard
<1>12. CASE CallNothing
  <2>1. /\ UNCHANGED <<autocmds, nextId>> /\ pc' = "dispatch" /\ AutocmdAt(d.event, d.i) = {}
        /\ d' = [d EXCEPT !.i = @ + 1] /\ d'.i = d.i + 1 /\ d'.n = d.n /\ d'.event = d.event
    BY <1>0, <1>12, CallNothingTyped DEF CallNothing, InDispatch, luaVars
  <2>2. d'.due = d.due /\ d'.heard = d.heard
    BY <1>0, <2>1 DEF DispatchTypes, DispatchRecord
  <2>. QED  BY <1>0, <2>1, <2>2, PassesHeard
<1>13. CASE HookReturns
  <2>1. /\ UNCHANGED <<autocmds, nextId>> /\ pc = "hook" /\ pc' = "dispatch"
        /\ d'.i = d.i + 1 /\ d'.n = d.n /\ d'.event = d.event /\ d'.due = d.due
        /\ d'.heard = d.heard
    BY <1>0, <1>13, HookReturnsTyped DEF HookReturns, luaVars
  <2>. QED  BY <1>0, <2>1, PassesHeard
<1>. QED  BY <1>1, <1>2, <1>5, <1>6, <1>7, <1>8, <1>9, <1>10, <1>11, <1>12, <1>13
          DEF Next, MainStep
---------------------------------------------------------------------------
(* The calls that run. *)

(* A call is decided while it waits at the base gate, too. *)
LEMMA DecidedStep ==
  ASSUME Types, HeardInOrder, Decided, [Next]_vars
  PROVE  Decided'
<1>0. StoreTypes /\ DispatchTypes
  BY DEF Types
<1>1. ASSUME pc' \notin {"base_gate", "run"}
      PROVE  Decided'
  BY <1>1 DEF Decided
<1>2. ASSUME UNCHANGED <<mode, autocmds, call, d>>, pc' \in {"base_gate", "run"},
             pc \in {"base_gate", "run"}, pc' = pc \/ mode.yes \/ ~call.mutating
      PROVE  Decided'
  BY <1>2 DEF Decided, Asked, Of
<1>3. CASE UNCHANGED vars
  <2>1. CASE pc \in {"base_gate", "run"}
    BY <1>2, <1>3, <2>1 DEF vars, luaVars
  <2>. QED  BY <1>1, <1>3, <2>1 DEF vars
<1>4. CASE LuaStep
  <2>1. pc' = pc /\ pc \in {"init.lua", "hook", "callback"}
    BY <1>4, LuaKeepsModels DEF LuaRuns
  <2>. QED  BY <1>1, <2>1
<1>5. CASE \/ Startup \/ StartupFails \/ Started \/ Prompt \/ Quit \/ Swallowed \/ StartTurn
           \/ CallHook \/ CallNothing \/ HookReturns \/ Observed
  <2>1. pc' \notin {"base_gate", "run"}
    BY <1>5 DEF Startup, StartupFails, Started, Prompt, Quit, Swallowed, StartTurn, CallHook,
                CallNothing, InDispatch, HookReturns, Observed, Dispatch, Go
  <2>. QED  BY <1>1, <2>1
<1>6. CASE \/ Request \/ OnText \/ TurnEnds \/ NextRound \/ BadCall \/ GateRefuses
           \/ ExecuteBuiltin \/ InvokeTool \/ ToolReturns \/ ToolCompleted
           \/ ToolsTeardown \/ AutocmdTeardown \/ LuaTeardown
  <2>1. pc' \notin {"base_gate", "run"}
    BY <1>6 DEF Request, OnText, TurnEnds, NextRound, BadCall, GateRefuses, ExecuteBuiltin,
                InvokeTool, ToolReturns, ToolCompleted, ToolsTeardown, AutocmdTeardown,
                LuaTeardown, Dispatch, Go
  <2>. QED  BY <1>1, <2>1
<1>7. CASE StartTool
  <2>1. PICK name \in ToolNames \cup DOMAIN Builtin, args \in Args :
          /\ \E def \in Definition(name) : call' = [def EXCEPT !.proposed = args, !.args = args]
          /\ IF AutocmdCount("ToolPre") > 0 /\ Shown(args) # NoValue
             THEN Dispatch("ToolPre", Shown(args)) ELSE Go("base_gate")
    BY <1>7 DEF StartTool
  <2>2. CASE Dispatch("ToolPre", Shown(args))
    BY <1>1, <2>2 DEF Dispatch
  <2>3. CASE ~(AutocmdCount("ToolPre") > 0 /\ Shown(args) # NoValue)
    <3>1. pc' = "base_gate" /\ d' = NoDispatch /\ autocmds' = autocmds
      BY <1>7, <2>1, <2>3 DEF Go, StartTool, Proposes, luaVars
    <3>2. d'.event = "none" /\ ~d'.stopped
      BY <3>1, EmptyDispatch
    <3>3. call'.proposed = args
      <4>1. PICK def \in Definition(name) : call' = [def EXCEPT !.proposed = args, !.args = args]
        BY <2>1
      <4>3. def \in CallRecord
        BY <1>0, DefinitionTyped
      <4>. QED  BY <4>1, <4>3 DEF CallRecord
    <3>4. Of("ToolPre") = {} \/ Shown(args) = NoValue
      <4>1. IsFiniteSet(Of("ToolPre")) /\ AutocmdCount("ToolPre") \in Nat
        BY <1>0, OfFacts, ConstantFacts
      <4>2. AutocmdCount("ToolPre") = 0 => Of("ToolPre") = {}
        BY <4>1, FS_EmptySet DEF AutocmdCount
      <4>. QED  BY <2>3, <4>1, <4>2
    <3>. QED  BY <3>1, <3>2, <3>3, <3>4 DEF Decided, Asked, Of
  <2>. QED  BY <2>1, <2>2, <2>3
<1>8. CASE ToolPreEnds
  <2>1. /\ pc = "dispatch" /\ d.event = "ToolPre" /\ (d.i = d.n \/ d.stopped)
        /\ autocmds' = autocmds /\ d' = d
        /\ pc' = IF d.stopped THEN "completed" ELSE IF d.approved THEN "run" ELSE "base_gate"
    BY <1>8 DEF ToolPreEnds, Dispatched, luaVars
  <2>2. CASE d.stopped
    BY <1>1, <2>1, <2>2
  <2>3. CASE ~d.stopped
    <3>1. d.due \cap {autocmds[j].id : j \in DOMAIN autocmds} \subseteq d.heard
      <4>1. ASSUME NEW j \in DOMAIN autocmds, autocmds[j].id \in d.due
            PROVE  autocmds[j].id \in d.heard
        BY <2>1, <2>3, <4>1 DEF HeardInOrder
      <4>. QED  BY <4>1
    <3>. QED  BY <2>1, <2>3, <3>1 DEF Decided, Asked
  <2>. QED  BY <2>2, <2>3
<1>9. CASE GateApproves
  BY <1>2, <1>9 DEF GateApproves, Gates, luaVars
<1>10. CASE UserApproves
  <2>1. /\ pc = "base_gate" /\ pc' = "run" /\ d' = d /\ autocmds' = autocmds
        /\ call' = [call EXCEPT !.asked = call.args] /\ call \in CallRecord
    BY <1>0, <1>10 DEF UserApproves, Gates, luaVars, DispatchTypes
  <2>2. call'.asked = call'.args /\ call'.proposed = call.proposed
    BY <2>1 DEF CallRecord
  <2>3. Asked
    BY <2>1 DEF Decided
  <2>4. Asked'
    BY <2>1, <2>2, <2>3 DEF Asked, Of
  <2>. QED  BY <2>2, <2>4 DEF Decided
<1>. QED  BY <1>3, <1>4, <1>5, <1>6, <1>7, <1>8, <1>9, <1>10 DEF Next, MainStep

(* No call runs undecided, whatever hooks do to the stores on the way:     *)
(* none vetoed it, each hook that was registered when the dispatch began   *)
(* and still is was asked if Lua can be shown the arguments, and a         *)
(* mutating tool runs only because a hook approved, under --yes, or        *)
(* because the user said yes to the arguments that run                     *)
(* (gate_with_autocmds, mua_lua_autocmd_tool_pre, the gates).              *)
THEOREM OnlyDecided == Spec => []OnlyDecidedCallsRun
<1>1. Init => Distinct /\ HeardInOrder /\ Decided
  <2>. SUFFICES ASSUME Init
                PROVE  Distinct /\ HeardInOrder /\ Decided
    OBVIOUS
  <2>1. autocmds = << >> /\ pc = "init.lua" /\ d.event = "none"
    BY EmptyDispatch DEF Init
  <2>. QED  BY <2>1 DEF Distinct, HeardInOrder, Decided
<1>2. Types /\ Distinct /\ HeardInOrder /\ Decided /\ [Next]_vars
        => (Distinct /\ HeardInOrder /\ Decided)'
  BY DistinctStep, HeardStep, DecidedStep DEF Types
<1>3. Decided => OnlyDecidedCallsRun
  BY DEF Decided, Asked, OnlyDecidedCallsRun
<1>. QED  BY <1>1, <1>2, <1>3, TypesHold, PTL DEF Spec

---------------------------------------------------------------------------
(* Induction, as a lemma about sets of numbers. *)

(* A set of numbers that is not empty has a least one.                     *)
LEMMA LeastElement ==
  ASSUME NEW S \in SUBSET Nat, S # {}
  PROVE  \E x \in S : \A y \in S : x <= y
<1>. DEFINE Less == {p \in Nat \X Nat : p[1] < p[2]}
<1>1. IsWellFoundedOn(Less, Nat)
  BY NatLessThanWellFounded, Zenon DEF OpToRel
<1>2. PICK x \in S : \A y \in S : ~ (<<y, x>> \in Less)
  BY <1>1, WFMin
<1>3. \A y \in S : x \in Nat /\ y \in Nat /\ (y < x => <<y, x>> \in Less)
  OBVIOUS
<1>. HIDE DEF Less
<1>4. \A y \in S : ~ (y < x)
  BY <1>2, <1>3
<1>. QED  BY <1>3, <1>4

(* Zero is in S and S is closed under the successor: S holds all numbers.  *)
LEMMA SetInduction ==
  ASSUME NEW S, 0 \in S, \A n \in Nat : n \in S => n + 1 \in S
  PROVE  \A n \in Nat : n \in S
<1>. SUFFICES ASSUME Nat \ S # {} PROVE FALSE
  OBVIOUS
<1>1. PICK x \in Nat \ S : \A y \in Nat \ S : x <= y
  BY LeastElement
<1>2. x - 1 \in Nat /\ x - 1 \in S /\ (x - 1) + 1 = x
  BY <1>1
<1>. QED  BY <1>1, <1>2

---------------------------------------------------------------------------
(* Marshalling, for all values: its definitions, unfolded.                 *)

TreeLeaves(type) == [t : {type.null}] \cup [t : {type.scalar}, v : Scalars]

NextTrees(type, kids) ==
  TreeLeaves(type) \cup [t : {type.array}, kids : Seq(kids)]
                   \cup [t : {type.object}, kids : Seq(Names \X kids)]

IsTrees(g, type, D) == g = [k \in D |-> IF k = 0 THEN TreeLeaves(type) ELSE NextTrees(type, g[k - 1])]

(* Trees is a recursive definition: it has a value up to any depth, ...    *)
LEMMA TreesExists == ASSUME NEW type, NEW n \in Nat PROVE \E g : IsTrees(g, type, 0 .. n)
<1>. DEFINE S == {m \in Nat : \E g : IsTrees(g, type, 0 .. m)}
<1>1. 0 \in S
  <2>. DEFINE h == [k \in 0 .. 0 |-> TreeLeaves(type)]
  <2>1. \A k \in 0 .. 0 : h[k] = IF k = 0 THEN TreeLeaves(type) ELSE NextTrees(type, h[k - 1])
    OBVIOUS
  <2>2. h = [k \in 0 .. 0 |-> h[k]]
    OBVIOUS
  <2>. HIDE DEF h
  <2>3. IsTrees(h, type, 0 .. 0)
    BY <2>1, <2>2 DEF IsTrees
  <2>. QED
    BY <2>3
<1>2. ASSUME NEW m \in Nat, m \in S PROVE m + 1 \in S
  <2>1. PICK g : IsTrees(g, type, 0 .. m)
    BY <1>2
  <2>. DEFINE last == NextTrees(type, g[m])
              h == [k \in 0 .. m + 1 |-> IF k = m + 1 THEN last ELSE g[k]]
  <2>2. ASSUME NEW k \in 0 .. m + 1
        PROVE  h[k] = IF k = 0 THEN TreeLeaves(type) ELSE NextTrees(type, h[k - 1])
    <3>1. CASE k = m + 1
      <4>. HIDE DEF last
      <4>1. h[k - 1] = g[m] /\ k # 0 /\ h[k] = last
        BY <3>1
      <4>. HIDE DEF h
      <4>. QED
        BY <3>1, <4>1 DEF last
    <3>2. CASE k \in 0 .. m
      <4>1. g[k] = IF k = 0 THEN TreeLeaves(type) ELSE NextTrees(type, g[k - 1])
        BY <2>1, <3>2 DEF IsTrees
      <4>. HIDE DEF last
      <4>2. h[k] = g[k] /\ (k # 0 => h[k - 1] = g[k - 1])
        BY <3>2
      <4>. HIDE DEF h
      <4>. QED
        BY <4>1, <4>2
    <3>. QED
      BY <3>1, <3>2
  <2>3. IsTrees(h, type, 0 .. m + 1)
    <3>1. h = [k \in 0 .. m + 1 |-> h[k]]
      OBVIOUS
    <3>. HIDE DEF h
    <3>. QED
      BY <2>2, <3>1 DEF IsTrees
  <2>. QED
    BY <2>3
<1>. QED
  <2>. HIDE DEF S
  <2>1. n \in S
    BY <1>1, <1>2, SetInduction
  <2>. QED
    BY <2>1 DEF S

(* ... the same one whatever the depth it is given up to, ...              *)
LEMMA TreesAgree ==
  ASSUME NEW type, NEW m \in Nat, NEW n \in Nat, m <= n, NEW g, IsTrees(g, type, 0 .. m),
         NEW h, IsTrees(h, type, 0 .. n)
  PROVE  g[m] = h[m]
<1>. DEFINE S == {i \in Nat : i <= m => g[i] = h[i]}
<1>1. /\ \A k \in 0 .. m : g[k] = IF k = 0 THEN TreeLeaves(type) ELSE NextTrees(type, g[k - 1])
      /\ \A k \in 0 .. n : h[k] = IF k = 0 THEN TreeLeaves(type) ELSE NextTrees(type, h[k - 1])
  BY DEF IsTrees
<1>2. 0 \in S
  BY <1>1
<1>3. ASSUME NEW k \in Nat, k \in S PROVE k + 1 \in S
  <2>1. SUFFICES ASSUME k + 1 <= m PROVE g[k + 1] = h[k + 1]
    OBVIOUS
  <2>2. k + 1 \in 0 .. m /\ k + 1 \in 0 .. n /\ k + 1 # 0 /\ (k + 1) - 1 = k /\ k <= m
    BY <2>1
  <2>3. g[k] = h[k]
    BY <1>3, <2>2
  <2>4. g[k + 1] = NextTrees(type, g[k]) /\ h[k + 1] = NextTrees(type, h[k])
    BY <1>1, <2>2
  <2>. QED
    BY <2>3, <2>4
<1>. HIDE DEF S
<1>4. m \in S
  BY <1>2, <1>3, SetInduction
<1>. QED
  BY <1>4 DEF S

(* ... and so for all depths at once.                                      *)
LEMMA TreesWhole == ASSUME NEW type PROVE \E g : IsTrees(g, type, Nat)
<1>. DEFINE run == [n \in Nat |-> CHOOSE g : IsTrees(g, type, 0 .. n)]
            h == [n \in Nat |-> run[n][n]]
<1>1. \A n \in Nat : IsTrees(run[n], type, 0 .. n)
  BY TreesExists
<1>. HIDE DEF run
<1>2. ASSUME NEW k \in Nat PROVE h[k] = IF k = 0 THEN TreeLeaves(type) ELSE NextTrees(type, h[k - 1])
  <2>1. h[k] = run[k][k] /\ k \in 0 .. k
    OBVIOUS
  <2>2. run[k][k] = IF k = 0 THEN TreeLeaves(type) ELSE NextTrees(type, run[k][k - 1])
    <3>1. IsTrees(run[k], type, 0 .. k)
      BY <1>1
    <3>. QED
      BY <2>1, <3>1 DEF IsTrees
  <2>3. ASSUME k # 0 PROVE run[k][k - 1] = h[k - 1]
    <3>1. k - 1 \in Nat /\ k - 1 <= k
      BY <2>3
    <3>2. IsTrees(run[k - 1], type, 0 .. k - 1) /\ IsTrees(run[k], type, 0 .. k)
      BY <1>1, <3>1
    <3>3. run[k - 1][k - 1] = run[k][k - 1]
      BY <3>1, <3>2, TreesAgree
    <3>. QED
      BY <3>1, <3>3
  <2>. HIDE DEF h
  <2>. QED
    BY <2>1, <2>2, <2>3
<1>3. h = [k \in Nat |-> h[k]]
  OBVIOUS
<1>. HIDE DEF h
<1>4. IsTrees(h, type, Nat)
  BY <1>2, <1>3 DEF IsTrees
<1>. QED
  BY <1>4

(* The trees of each depth. *)
LEMMA TreesStep ==
  ASSUME NEW type
  PROVE  /\ Trees(type)[0] = TreeLeaves(type)
         /\ \A h \in Nat : Trees(type)[h + 1] = NextTrees(type, Trees(type)[h])
<1>1. \E g : IsTrees(g, type, Nat)
  BY TreesWhole
<1>2. IsTrees(Trees(type), type, Nat)
  BY <1>1 DEF IsTrees, NextTrees, TreeLeaves, Trees
<1>3. Trees(type) = [k \in Nat |-> IF k = 0 THEN TreeLeaves(type)
                                  ELSE NextTrees(type, Trees(type)[k - 1])]
  BY <1>2 DEF IsTrees
<1>4. ASSUME NEW h \in Nat PROVE Trees(type)[h + 1] = NextTrees(type, Trees(type)[h])
  <2>1. h + 1 \in Nat /\ h + 1 # 0 /\ (h + 1) - 1 = h
    OBVIOUS
  <2>. QED
    BY <1>3, <2>1
<1>. QED
  BY <1>3, <1>4

LuaLeaves == {LuaNil} \cup [t : {"scalar"}, v : Scalars]
LuaKeys == ({"int"} \X Nat) \cup ({"str"} \X Names)

(* The entries of a table that can be stored. *)
Entries(values) ==
  {at \in SUBSET (LuaKeys \X values) :
     /\ IsFiniteSet(at) /\ \A e, f \in at : e[1] = f[1] => e = f
     /\ ClassifyTable(KeysOf(at)) # "invalid"}

NextStorable(values) == LuaLeaves \cup [t : {"table"}, at : Entries(values \ {LuaNil})]

IsStorable(g, D) == g = [k \in D |-> IF k = 0 THEN LuaLeaves ELSE NextStorable(g[k - 1])]

(* The same for the values lua_pop_object takes.                           *)
LEMMA StorableExists == ASSUME NEW n \in Nat PROVE \E g : IsStorable(g, 0 .. n)
<1>. DEFINE S == {m \in Nat : \E g : IsStorable(g, 0 .. m)}
<1>1. 0 \in S
  <2>. DEFINE h == [k \in 0 .. 0 |-> LuaLeaves]
  <2>1. \A k \in 0 .. 0 : h[k] = IF k = 0 THEN LuaLeaves ELSE NextStorable(h[k - 1])
    OBVIOUS
  <2>2. h = [k \in 0 .. 0 |-> h[k]]
    OBVIOUS
  <2>. HIDE DEF h
  <2>3. IsStorable(h, 0 .. 0)
    BY <2>1, <2>2 DEF IsStorable
  <2>. QED
    BY <2>3
<1>2. ASSUME NEW m \in Nat, m \in S PROVE m + 1 \in S
  <2>1. PICK g : IsStorable(g, 0 .. m)
    BY <1>2
  <2>. DEFINE last == NextStorable(g[m])
              h == [k \in 0 .. m + 1 |-> IF k = m + 1 THEN last ELSE g[k]]
  <2>2. ASSUME NEW k \in 0 .. m + 1
        PROVE  h[k] = IF k = 0 THEN LuaLeaves ELSE NextStorable(h[k - 1])
    <3>1. CASE k = m + 1
      <4>. HIDE DEF last
      <4>1. h[k - 1] = g[m] /\ k # 0 /\ h[k] = last
        BY <3>1
      <4>. HIDE DEF h
      <4>. QED
        BY <3>1, <4>1 DEF last
    <3>2. CASE k \in 0 .. m
      <4>1. g[k] = IF k = 0 THEN LuaLeaves ELSE NextStorable(g[k - 1])
        BY <2>1, <3>2 DEF IsStorable
      <4>. HIDE DEF last
      <4>2. h[k] = g[k] /\ (k # 0 => h[k - 1] = g[k - 1])
        BY <3>2
      <4>. HIDE DEF h
      <4>. QED
        BY <4>1, <4>2
    <3>. QED
      BY <3>1, <3>2
  <2>3. IsStorable(h, 0 .. m + 1)
    <3>1. h = [k \in 0 .. m + 1 |-> h[k]]
      OBVIOUS
    <3>. HIDE DEF h
    <3>. QED
      BY <2>2, <3>1 DEF IsStorable
  <2>. QED
    BY <2>3
<1>. QED
  <2>. HIDE DEF S
  <2>1. n \in S
    BY <1>1, <1>2, SetInduction
  <2>. QED
    BY <2>1 DEF S

LEMMA StorableAgree ==
  ASSUME NEW m \in Nat, NEW n \in Nat, m <= n, NEW g, IsStorable(g, 0 .. m),
         NEW h, IsStorable(h, 0 .. n)
  PROVE  g[m] = h[m]
<1>. DEFINE S == {i \in Nat : i <= m => g[i] = h[i]}
<1>1. /\ \A k \in 0 .. m : g[k] = IF k = 0 THEN LuaLeaves ELSE NextStorable(g[k - 1])
      /\ \A k \in 0 .. n : h[k] = IF k = 0 THEN LuaLeaves ELSE NextStorable(h[k - 1])
  BY DEF IsStorable
<1>2. 0 \in S
  BY <1>1
<1>3. ASSUME NEW k \in Nat, k \in S PROVE k + 1 \in S
  <2>1. SUFFICES ASSUME k + 1 <= m PROVE g[k + 1] = h[k + 1]
    OBVIOUS
  <2>2. k + 1 \in 0 .. m /\ k + 1 \in 0 .. n /\ k + 1 # 0 /\ (k + 1) - 1 = k /\ k <= m
    BY <2>1
  <2>3. g[k] = h[k]
    BY <1>3, <2>2
  <2>4. g[k + 1] = NextStorable(g[k]) /\ h[k + 1] = NextStorable(h[k])
    BY <1>1, <2>2
  <2>. QED
    BY <2>3, <2>4
<1>. HIDE DEF S
<1>4. m \in S
  BY <1>2, <1>3, SetInduction
<1>. QED
  BY <1>4 DEF S

LEMMA StorableWhole == \E g : IsStorable(g, Nat)
<1>. DEFINE run == [n \in Nat |-> CHOOSE g : IsStorable(g, 0 .. n)]
            h == [n \in Nat |-> run[n][n]]
<1>1. \A n \in Nat : IsStorable(run[n], 0 .. n)
  BY StorableExists
<1>. HIDE DEF run
<1>2. ASSUME NEW k \in Nat PROVE h[k] = IF k = 0 THEN LuaLeaves ELSE NextStorable(h[k - 1])
  <2>1. h[k] = run[k][k] /\ k \in 0 .. k
    OBVIOUS
  <2>2. run[k][k] = IF k = 0 THEN LuaLeaves ELSE NextStorable(run[k][k - 1])
    <3>1. IsStorable(run[k], 0 .. k)
      BY <1>1
    <3>. QED
      BY <2>1, <3>1 DEF IsStorable
  <2>3. ASSUME k # 0 PROVE run[k][k - 1] = h[k - 1]
    <3>1. k - 1 \in Nat /\ k - 1 <= k
      BY <2>3
    <3>2. IsStorable(run[k - 1], 0 .. k - 1) /\ IsStorable(run[k], 0 .. k)
      BY <1>1, <3>1
    <3>3. run[k - 1][k - 1] = run[k][k - 1]
      BY <3>1, <3>2, StorableAgree
    <3>. QED
      BY <3>1, <3>3
  <2>. HIDE DEF h
  <2>. QED
    BY <2>1, <2>2, <2>3
<1>3. h = [k \in Nat |-> h[k]]
  OBVIOUS
<1>. HIDE DEF h
<1>4. IsStorable(h, Nat)
  BY <1>2, <1>3 DEF IsStorable
<1>. QED
  BY <1>4

(* The Lua values of each depth that can be stored. *)
LEMMA StorableStep ==
  /\ Storable[0] = LuaLeaves
  /\ \A h \in Nat : Storable[h + 1] = NextStorable(Storable[h])
<1>1. \E g : IsStorable(g, Nat)
  BY StorableWhole
<1>2. IsStorable(Storable, Nat)
  BY <1>1 DEF IsStorable, NextStorable, Entries, LuaLeaves, LuaKeys, Storable
<1>3. Storable = [k \in Nat |-> IF k = 0 THEN LuaLeaves ELSE NextStorable(Storable[k - 1])]
  BY <1>2 DEF IsStorable
<1>4. ASSUME NEW h \in Nat PROVE Storable[h + 1] = NextStorable(Storable[h])
  <2>1. h + 1 \in Nat /\ h + 1 # 0 /\ (h + 1) - 1 = h
    OBVIOUS
  <2>. QED
    BY <1>3, <2>1
<1>. QED
  BY <1>3, <1>4

FirstConversion(from, to) == [x \in Trees(from)[0] |-> Node(x, from, to, <<>>)]
NextConversion(from, to, k, prev) == [x \in Trees(from)[k] |-> Node(x, from, to, prev)]

IsConversion(g, from, to, D) ==
  g = [k \in D |-> IF k = 0 THEN FirstConversion(from, to) ELSE NextConversion(from, to, k, g[k - 1])]

(* The same for a conversion between the two worlds of trees.              *)
LEMMA ConversionExists ==
  ASSUME NEW from, NEW to, NEW n \in Nat PROVE \E g : IsConversion(g, from, to, 0 .. n)
<1>. DEFINE S == {m \in Nat : \E g : IsConversion(g, from, to, 0 .. m)}
<1>1. 0 \in S
  <2>. DEFINE h == [k \in 0 .. 0 |-> FirstConversion(from, to)]
  <2>1. \A k \in 0 .. 0 : h[k] = IF k = 0 THEN FirstConversion(from, to) ELSE NextConversion(from, to, k, h[k - 1])
    OBVIOUS
  <2>2. h = [k \in 0 .. 0 |-> h[k]]
    OBVIOUS
  <2>. HIDE DEF h
  <2>3. IsConversion(h, from, to, 0 .. 0)
    BY <2>1, <2>2 DEF IsConversion
  <2>. QED
    BY <2>3
<1>2. ASSUME NEW m \in Nat, m \in S PROVE m + 1 \in S
  <2>1. PICK g : IsConversion(g, from, to, 0 .. m)
    BY <1>2
  <2>. DEFINE last == NextConversion(from, to, m + 1, g[m])
              h == [k \in 0 .. m + 1 |-> IF k = m + 1 THEN last ELSE g[k]]
  <2>2. ASSUME NEW k \in 0 .. m + 1
        PROVE  h[k] = IF k = 0 THEN FirstConversion(from, to) ELSE NextConversion(from, to, k, h[k - 1])
    <3>1. CASE k = m + 1
      <4>. HIDE DEF last
      <4>1. h[k - 1] = g[m] /\ k # 0 /\ h[k] = last
        BY <3>1
      <4>. HIDE DEF h
      <4>. QED
        BY <3>1, <4>1 DEF last
    <3>2. CASE k \in 0 .. m
      <4>1. g[k] = IF k = 0 THEN FirstConversion(from, to) ELSE NextConversion(from, to, k, g[k - 1])
        BY <2>1, <3>2 DEF IsConversion
      <4>. HIDE DEF last
      <4>2. h[k] = g[k] /\ (k # 0 => h[k - 1] = g[k - 1])
        BY <3>2
      <4>. HIDE DEF h
      <4>. QED
        BY <4>1, <4>2
    <3>. QED
      BY <3>1, <3>2
  <2>3. IsConversion(h, from, to, 0 .. m + 1)
    <3>1. h = [k \in 0 .. m + 1 |-> h[k]]
      OBVIOUS
    <3>. HIDE DEF h
    <3>. QED
      BY <2>2, <3>1 DEF IsConversion
  <2>. QED
    BY <2>3
<1>. QED
  <2>. HIDE DEF S
  <2>1. n \in S
    BY <1>1, <1>2, SetInduction
  <2>. QED
    BY <2>1 DEF S

LEMMA ConversionAgree ==
  ASSUME NEW from, NEW to, NEW m \in Nat, NEW n \in Nat, m <= n, NEW g, IsConversion(g, from, to, 0 .. m),
         NEW h, IsConversion(h, from, to, 0 .. n)
  PROVE  g[m] = h[m]
<1>. DEFINE S == {i \in Nat : i <= m => g[i] = h[i]}
<1>1. /\ \A k \in 0 .. m : g[k] = IF k = 0 THEN FirstConversion(from, to) ELSE NextConversion(from, to, k, g[k - 1])
      /\ \A k \in 0 .. n : h[k] = IF k = 0 THEN FirstConversion(from, to) ELSE NextConversion(from, to, k, h[k - 1])
  BY DEF IsConversion
<1>2. 0 \in S
  BY <1>1
<1>3. ASSUME NEW k \in Nat, k \in S PROVE k + 1 \in S
  <2>1. SUFFICES ASSUME k + 1 <= m PROVE g[k + 1] = h[k + 1]
    OBVIOUS
  <2>2. k + 1 \in 0 .. m /\ k + 1 \in 0 .. n /\ k + 1 # 0 /\ (k + 1) - 1 = k /\ k <= m
    BY <2>1
  <2>3. g[k] = h[k]
    BY <1>3, <2>2
  <2>4. g[k + 1] = NextConversion(from, to, k + 1, g[k]) /\ h[k + 1] = NextConversion(from, to, k + 1, h[k])
    BY <1>1, <2>2
  <2>. QED
    BY <2>3, <2>4
<1>. HIDE DEF S
<1>4. m \in S
  BY <1>2, <1>3, SetInduction
<1>. QED
  BY <1>4 DEF S

LEMMA ConversionWhole == ASSUME NEW from, NEW to PROVE \E g : IsConversion(g, from, to, Nat)
<1>. DEFINE run == [n \in Nat |-> CHOOSE g : IsConversion(g, from, to, 0 .. n)]
            h == [n \in Nat |-> run[n][n]]
<1>1. \A n \in Nat : IsConversion(run[n], from, to, 0 .. n)
  BY ConversionExists
<1>. HIDE DEF run
<1>2. ASSUME NEW k \in Nat PROVE h[k] = IF k = 0 THEN FirstConversion(from, to) ELSE NextConversion(from, to, k, h[k - 1])
  <2>1. h[k] = run[k][k] /\ k \in 0 .. k
    OBVIOUS
  <2>2. run[k][k] = IF k = 0 THEN FirstConversion(from, to) ELSE NextConversion(from, to, k, run[k][k - 1])
    <3>1. IsConversion(run[k], from, to, 0 .. k)
      BY <1>1
    <3>. QED
      BY <2>1, <3>1 DEF IsConversion
  <2>3. ASSUME k # 0 PROVE run[k][k - 1] = h[k - 1]
    <3>1. k - 1 \in Nat /\ k - 1 <= k
      BY <2>3
    <3>2. IsConversion(run[k - 1], from, to, 0 .. k - 1) /\ IsConversion(run[k], from, to, 0 .. k)
      BY <1>1, <3>1
    <3>3. run[k - 1][k - 1] = run[k][k - 1]
      BY <3>1, <3>2, ConversionAgree
    <3>. QED
      BY <3>1, <3>3
  <2>. HIDE DEF h
  <2>. QED
    BY <2>1, <2>2, <2>3
<1>3. h = [k \in Nat |-> h[k]]
  OBVIOUS
<1>. HIDE DEF h
<1>4. IsConversion(h, from, to, Nat)
  BY <1>2, <1>3 DEF IsConversion
<1>. QED
  BY <1>4

(* The conversions between JSON and Object. *)
LEMMA ConversionStep ==
  ASSUME NEW from, NEW to
  PROVE  /\ \A x \in Trees(from)[0] : Conversion(from, to)[0][x] = Node(x, from, to, <<>>)
         /\ \A h \in Nat : \A x \in Trees(from)[h + 1] :
              Conversion(from, to)[h + 1][x] = Node(x, from, to, Conversion(from, to)[h])
<1>1. \E g : IsConversion(g, from, to, Nat)
  BY ConversionWhole
<1>2. IsConversion(Conversion(from, to), from, to, Nat)
  BY <1>1 DEF IsConversion, NextConversion, FirstConversion, Conversion
<1>3. Conversion(from, to) = [k \in Nat |-> IF k = 0 THEN FirstConversion(from, to) ELSE NextConversion(from, to, k, Conversion(from, to)[k - 1])]
  BY <1>2 DEF IsConversion
<1>4. \A x \in Trees(from)[0] : Conversion(from, to)[0][x] = Node(x, from, to, <<>>)
  <2>1. Conversion(from, to)[0] = FirstConversion(from, to)
    BY <1>3
  <2>. QED
    BY <2>1 DEF FirstConversion
<1>5. ASSUME NEW h \in Nat, NEW x \in Trees(from)[h + 1]
      PROVE  Conversion(from, to)[h + 1][x] = Node(x, from, to, Conversion(from, to)[h])
  <2>1. h + 1 \in Nat /\ h + 1 # 0 /\ (h + 1) - 1 = h
    OBVIOUS
  <2>2. Conversion(from, to)[h + 1] = NextConversion(from, to, h + 1, Conversion(from, to)[h])
    BY <1>3, <2>1
  <2>. QED
    BY <2>2 DEF NextConversion
<1>. QED
  BY <1>4, <1>5

FirstPushing == [o \in Object[0] |-> Pushed(o, <<>>)]
NextPushing(k, prev) == [o \in Object[k] |-> Pushed(o, prev)]

IsPushing(g, D) == g = [k \in D |-> IF k = 0 THEN FirstPushing ELSE NextPushing(k, g[k - 1])]

(* The same for the way to Lua.                                            *)
LEMMA PushingExists == ASSUME NEW n \in Nat PROVE \E g : IsPushing(g, 0 .. n)
<1>. DEFINE S == {m \in Nat : \E g : IsPushing(g, 0 .. m)}
<1>1. 0 \in S
  <2>. DEFINE h == [k \in 0 .. 0 |-> FirstPushing]
  <2>1. \A k \in 0 .. 0 : h[k] = IF k = 0 THEN FirstPushing ELSE NextPushing(k, h[k - 1])
    OBVIOUS
  <2>2. h = [k \in 0 .. 0 |-> h[k]]
    OBVIOUS
  <2>. HIDE DEF h
  <2>3. IsPushing(h, 0 .. 0)
    BY <2>1, <2>2 DEF IsPushing
  <2>. QED
    BY <2>3
<1>2. ASSUME NEW m \in Nat, m \in S PROVE m + 1 \in S
  <2>1. PICK g : IsPushing(g, 0 .. m)
    BY <1>2
  <2>. DEFINE last == NextPushing(m + 1, g[m])
              h == [k \in 0 .. m + 1 |-> IF k = m + 1 THEN last ELSE g[k]]
  <2>2. ASSUME NEW k \in 0 .. m + 1
        PROVE  h[k] = IF k = 0 THEN FirstPushing ELSE NextPushing(k, h[k - 1])
    <3>1. CASE k = m + 1
      <4>. HIDE DEF last
      <4>1. h[k - 1] = g[m] /\ k # 0 /\ h[k] = last
        BY <3>1
      <4>. HIDE DEF h
      <4>. QED
        BY <3>1, <4>1 DEF last
    <3>2. CASE k \in 0 .. m
      <4>1. g[k] = IF k = 0 THEN FirstPushing ELSE NextPushing(k, g[k - 1])
        BY <2>1, <3>2 DEF IsPushing
      <4>. HIDE DEF last
      <4>2. h[k] = g[k] /\ (k # 0 => h[k - 1] = g[k - 1])
        BY <3>2
      <4>. HIDE DEF h
      <4>. QED
        BY <4>1, <4>2
    <3>. QED
      BY <3>1, <3>2
  <2>3. IsPushing(h, 0 .. m + 1)
    <3>1. h = [k \in 0 .. m + 1 |-> h[k]]
      OBVIOUS
    <3>. HIDE DEF h
    <3>. QED
      BY <2>2, <3>1 DEF IsPushing
  <2>. QED
    BY <2>3
<1>. QED
  <2>. HIDE DEF S
  <2>1. n \in S
    BY <1>1, <1>2, SetInduction
  <2>. QED
    BY <2>1 DEF S

LEMMA PushingAgree ==
  ASSUME NEW m \in Nat, NEW n \in Nat, m <= n, NEW g, IsPushing(g, 0 .. m),
         NEW h, IsPushing(h, 0 .. n)
  PROVE  g[m] = h[m]
<1>. DEFINE S == {i \in Nat : i <= m => g[i] = h[i]}
<1>1. /\ \A k \in 0 .. m : g[k] = IF k = 0 THEN FirstPushing ELSE NextPushing(k, g[k - 1])
      /\ \A k \in 0 .. n : h[k] = IF k = 0 THEN FirstPushing ELSE NextPushing(k, h[k - 1])
  BY DEF IsPushing
<1>2. 0 \in S
  BY <1>1
<1>3. ASSUME NEW k \in Nat, k \in S PROVE k + 1 \in S
  <2>1. SUFFICES ASSUME k + 1 <= m PROVE g[k + 1] = h[k + 1]
    OBVIOUS
  <2>2. k + 1 \in 0 .. m /\ k + 1 \in 0 .. n /\ k + 1 # 0 /\ (k + 1) - 1 = k /\ k <= m
    BY <2>1
  <2>3. g[k] = h[k]
    BY <1>3, <2>2
  <2>4. g[k + 1] = NextPushing(k + 1, g[k]) /\ h[k + 1] = NextPushing(k + 1, h[k])
    BY <1>1, <2>2
  <2>. QED
    BY <2>3, <2>4
<1>. HIDE DEF S
<1>4. m \in S
  BY <1>2, <1>3, SetInduction
<1>. QED
  BY <1>4 DEF S

LEMMA PushingWhole == \E g : IsPushing(g, Nat)
<1>. DEFINE run == [n \in Nat |-> CHOOSE g : IsPushing(g, 0 .. n)]
            h == [n \in Nat |-> run[n][n]]
<1>1. \A n \in Nat : IsPushing(run[n], 0 .. n)
  BY PushingExists
<1>. HIDE DEF run
<1>2. ASSUME NEW k \in Nat PROVE h[k] = IF k = 0 THEN FirstPushing ELSE NextPushing(k, h[k - 1])
  <2>1. h[k] = run[k][k] /\ k \in 0 .. k
    OBVIOUS
  <2>2. run[k][k] = IF k = 0 THEN FirstPushing ELSE NextPushing(k, run[k][k - 1])
    <3>1. IsPushing(run[k], 0 .. k)
      BY <1>1
    <3>. QED
      BY <2>1, <3>1 DEF IsPushing
  <2>3. ASSUME k # 0 PROVE run[k][k - 1] = h[k - 1]
    <3>1. k - 1 \in Nat /\ k - 1 <= k
      BY <2>3
    <3>2. IsPushing(run[k - 1], 0 .. k - 1) /\ IsPushing(run[k], 0 .. k)
      BY <1>1, <3>1
    <3>3. run[k - 1][k - 1] = run[k][k - 1]
      BY <3>1, <3>2, PushingAgree
    <3>. QED
      BY <3>1, <3>3
  <2>. HIDE DEF h
  <2>. QED
    BY <2>1, <2>2, <2>3
<1>3. h = [k \in Nat |-> h[k]]
  OBVIOUS
<1>. HIDE DEF h
<1>4. IsPushing(h, Nat)
  BY <1>2, <1>3 DEF IsPushing
<1>. QED
  BY <1>4

(* The Lua value of an Object. *)
LEMMA PushingStep ==
  /\ \A o \in Object[0] : ObjectToLua[0][o] = Pushed(o, <<>>)
  /\ \A h \in Nat : \A o \in Object[h + 1] :
       ObjectToLua[h + 1][o] = Pushed(o, ObjectToLua[h])
<1>1. \E g : IsPushing(g, Nat)
  BY PushingWhole
<1>2. IsPushing(ObjectToLua, Nat)
  BY <1>1 DEF IsPushing, NextPushing, FirstPushing, ObjectToLua
<1>3. ObjectToLua = [k \in Nat |-> IF k = 0 THEN FirstPushing ELSE NextPushing(k, ObjectToLua[k - 1])]
  BY <1>2 DEF IsPushing
<1>4. \A o \in Object[0] : ObjectToLua[0][o] = Pushed(o, <<>>)
  <2>1. ObjectToLua[0] = FirstPushing
    BY <1>3
  <2>. QED
    BY <2>1 DEF FirstPushing
<1>5. ASSUME NEW h \in Nat, NEW o \in Object[h + 1]
      PROVE  ObjectToLua[h + 1][o] = Pushed(o, ObjectToLua[h])
  <2>1. h + 1 \in Nat /\ h + 1 # 0 /\ (h + 1) - 1 = h
    OBVIOUS
  <2>2. ObjectToLua[h + 1] = NextPushing(h + 1, ObjectToLua[h])
    BY <1>3, <2>1
  <2>. QED
    BY <2>2 DEF NextPushing
<1>. QED
  BY <1>4, <1>5

FirstPopping == [v \in Storable[0] |-> Popped(v, <<>>)]
NextPopping(k, prev) == [v \in Storable[k] |-> Popped(v, prev)]

IsPopping(g, D) == g = [k \in D |-> IF k = 0 THEN FirstPopping ELSE NextPopping(k, g[k - 1])]

(* The same for the way back.                                              *)
LEMMA PoppingExists == ASSUME NEW n \in Nat PROVE \E g : IsPopping(g, 0 .. n)
<1>. DEFINE S == {m \in Nat : \E g : IsPopping(g, 0 .. m)}
<1>1. 0 \in S
  <2>. DEFINE h == [k \in 0 .. 0 |-> FirstPopping]
  <2>1. \A k \in 0 .. 0 : h[k] = IF k = 0 THEN FirstPopping ELSE NextPopping(k, h[k - 1])
    OBVIOUS
  <2>2. h = [k \in 0 .. 0 |-> h[k]]
    OBVIOUS
  <2>. HIDE DEF h
  <2>3. IsPopping(h, 0 .. 0)
    BY <2>1, <2>2 DEF IsPopping
  <2>. QED
    BY <2>3
<1>2. ASSUME NEW m \in Nat, m \in S PROVE m + 1 \in S
  <2>1. PICK g : IsPopping(g, 0 .. m)
    BY <1>2
  <2>. DEFINE last == NextPopping(m + 1, g[m])
              h == [k \in 0 .. m + 1 |-> IF k = m + 1 THEN last ELSE g[k]]
  <2>2. ASSUME NEW k \in 0 .. m + 1
        PROVE  h[k] = IF k = 0 THEN FirstPopping ELSE NextPopping(k, h[k - 1])
    <3>1. CASE k = m + 1
      <4>. HIDE DEF last
      <4>1. h[k - 1] = g[m] /\ k # 0 /\ h[k] = last
        BY <3>1
      <4>. HIDE DEF h
      <4>. QED
        BY <3>1, <4>1 DEF last
    <3>2. CASE k \in 0 .. m
      <4>1. g[k] = IF k = 0 THEN FirstPopping ELSE NextPopping(k, g[k - 1])
        BY <2>1, <3>2 DEF IsPopping
      <4>. HIDE DEF last
      <4>2. h[k] = g[k] /\ (k # 0 => h[k - 1] = g[k - 1])
        BY <3>2
      <4>. HIDE DEF h
      <4>. QED
        BY <4>1, <4>2
    <3>. QED
      BY <3>1, <3>2
  <2>3. IsPopping(h, 0 .. m + 1)
    <3>1. h = [k \in 0 .. m + 1 |-> h[k]]
      OBVIOUS
    <3>. HIDE DEF h
    <3>. QED
      BY <2>2, <3>1 DEF IsPopping
  <2>. QED
    BY <2>3
<1>. QED
  <2>. HIDE DEF S
  <2>1. n \in S
    BY <1>1, <1>2, SetInduction
  <2>. QED
    BY <2>1 DEF S

LEMMA PoppingAgree ==
  ASSUME NEW m \in Nat, NEW n \in Nat, m <= n, NEW g, IsPopping(g, 0 .. m),
         NEW h, IsPopping(h, 0 .. n)
  PROVE  g[m] = h[m]
<1>. DEFINE S == {i \in Nat : i <= m => g[i] = h[i]}
<1>1. /\ \A k \in 0 .. m : g[k] = IF k = 0 THEN FirstPopping ELSE NextPopping(k, g[k - 1])
      /\ \A k \in 0 .. n : h[k] = IF k = 0 THEN FirstPopping ELSE NextPopping(k, h[k - 1])
  BY DEF IsPopping
<1>2. 0 \in S
  BY <1>1
<1>3. ASSUME NEW k \in Nat, k \in S PROVE k + 1 \in S
  <2>1. SUFFICES ASSUME k + 1 <= m PROVE g[k + 1] = h[k + 1]
    OBVIOUS
  <2>2. k + 1 \in 0 .. m /\ k + 1 \in 0 .. n /\ k + 1 # 0 /\ (k + 1) - 1 = k /\ k <= m
    BY <2>1
  <2>3. g[k] = h[k]
    BY <1>3, <2>2
  <2>4. g[k + 1] = NextPopping(k + 1, g[k]) /\ h[k + 1] = NextPopping(k + 1, h[k])
    BY <1>1, <2>2
  <2>. QED
    BY <2>3, <2>4
<1>. HIDE DEF S
<1>4. m \in S
  BY <1>2, <1>3, SetInduction
<1>. QED
  BY <1>4 DEF S

LEMMA PoppingWhole == \E g : IsPopping(g, Nat)
<1>. DEFINE run == [n \in Nat |-> CHOOSE g : IsPopping(g, 0 .. n)]
            h == [n \in Nat |-> run[n][n]]
<1>1. \A n \in Nat : IsPopping(run[n], 0 .. n)
  BY PoppingExists
<1>. HIDE DEF run
<1>2. ASSUME NEW k \in Nat PROVE h[k] = IF k = 0 THEN FirstPopping ELSE NextPopping(k, h[k - 1])
  <2>1. h[k] = run[k][k] /\ k \in 0 .. k
    OBVIOUS
  <2>2. run[k][k] = IF k = 0 THEN FirstPopping ELSE NextPopping(k, run[k][k - 1])
    <3>1. IsPopping(run[k], 0 .. k)
      BY <1>1
    <3>. QED
      BY <2>1, <3>1 DEF IsPopping
  <2>3. ASSUME k # 0 PROVE run[k][k - 1] = h[k - 1]
    <3>1. k - 1 \in Nat /\ k - 1 <= k
      BY <2>3
    <3>2. IsPopping(run[k - 1], 0 .. k - 1) /\ IsPopping(run[k], 0 .. k)
      BY <1>1, <3>1
    <3>3. run[k - 1][k - 1] = run[k][k - 1]
      BY <3>1, <3>2, PoppingAgree
    <3>. QED
      BY <3>1, <3>3
  <2>. HIDE DEF h
  <2>. QED
    BY <2>1, <2>2, <2>3
<1>3. h = [k \in Nat |-> h[k]]
  OBVIOUS
<1>. HIDE DEF h
<1>4. IsPopping(h, Nat)
  BY <1>2, <1>3 DEF IsPopping
<1>. QED
  BY <1>4

(* The Object of a Lua value. *)
LEMMA PoppingStep ==
  /\ \A v \in Storable[0] : PopNode[0][v] = Popped(v, <<>>)
  /\ \A h \in Nat : \A v \in Storable[h + 1] :
       PopNode[h + 1][v] = Popped(v, PopNode[h])
<1>1. \E g : IsPopping(g, Nat)
  BY PoppingWhole
<1>2. IsPopping(PopNode, Nat)
  BY <1>1 DEF IsPopping, NextPopping, FirstPopping, PopNode
<1>3. PopNode = [k \in Nat |-> IF k = 0 THEN FirstPopping ELSE NextPopping(k, PopNode[k - 1])]
  BY <1>2 DEF IsPopping
<1>4. \A v \in Storable[0] : PopNode[0][v] = Popped(v, <<>>)
  <2>1. PopNode[0] = FirstPopping
    BY <1>3
  <2>. QED
    BY <2>1 DEF FirstPopping
<1>5. ASSUME NEW h \in Nat, NEW v \in Storable[h + 1]
      PROVE  PopNode[h + 1][v] = Popped(v, PopNode[h])
  <2>1. h + 1 \in Nat /\ h + 1 # 0 /\ (h + 1) - 1 = h
    OBVIOUS
  <2>2. PopNode[h + 1] = NextPopping(h + 1, PopNode[h])
    BY <1>3, <2>1
  <2>. QED
    BY <2>2 DEF NextPopping
<1>. QED
  BY <1>4, <1>5

FirstSaying == [j \in Json[0] |-> Said(j, <<>>)]
NextSaying(k, prev) == [j \in Json[k] |-> Said(j, prev)]

IsSaying(g, D) == g = [k \in D |-> IF k = 0 THEN FirstSaying ELSE NextSaying(k, g[k - 1])]

(* The same for what a JSON value means.                                   *)
LEMMA SayingExists == ASSUME NEW n \in Nat PROVE \E g : IsSaying(g, 0 .. n)
<1>. DEFINE S == {m \in Nat : \E g : IsSaying(g, 0 .. m)}
<1>1. 0 \in S
  <2>. DEFINE h == [k \in 0 .. 0 |-> FirstSaying]
  <2>1. \A k \in 0 .. 0 : h[k] = IF k = 0 THEN FirstSaying ELSE NextSaying(k, h[k - 1])
    OBVIOUS
  <2>2. h = [k \in 0 .. 0 |-> h[k]]
    OBVIOUS
  <2>. HIDE DEF h
  <2>3. IsSaying(h, 0 .. 0)
    BY <2>1, <2>2 DEF IsSaying
  <2>. QED
    BY <2>3
<1>2. ASSUME NEW m \in Nat, m \in S PROVE m + 1 \in S
  <2>1. PICK g : IsSaying(g, 0 .. m)
    BY <1>2
  <2>. DEFINE last == NextSaying(m + 1, g[m])
              h == [k \in 0 .. m + 1 |-> IF k = m + 1 THEN last ELSE g[k]]
  <2>2. ASSUME NEW k \in 0 .. m + 1
        PROVE  h[k] = IF k = 0 THEN FirstSaying ELSE NextSaying(k, h[k - 1])
    <3>1. CASE k = m + 1
      <4>. HIDE DEF last
      <4>1. h[k - 1] = g[m] /\ k # 0 /\ h[k] = last
        BY <3>1
      <4>. HIDE DEF h
      <4>. QED
        BY <3>1, <4>1 DEF last
    <3>2. CASE k \in 0 .. m
      <4>1. g[k] = IF k = 0 THEN FirstSaying ELSE NextSaying(k, g[k - 1])
        BY <2>1, <3>2 DEF IsSaying
      <4>. HIDE DEF last
      <4>2. h[k] = g[k] /\ (k # 0 => h[k - 1] = g[k - 1])
        BY <3>2
      <4>. HIDE DEF h
      <4>. QED
        BY <4>1, <4>2
    <3>. QED
      BY <3>1, <3>2
  <2>3. IsSaying(h, 0 .. m + 1)
    <3>1. h = [k \in 0 .. m + 1 |-> h[k]]
      OBVIOUS
    <3>. HIDE DEF h
    <3>. QED
      BY <2>2, <3>1 DEF IsSaying
  <2>. QED
    BY <2>3
<1>. QED
  <2>. HIDE DEF S
  <2>1. n \in S
    BY <1>1, <1>2, SetInduction
  <2>. QED
    BY <2>1 DEF S

LEMMA SayingAgree ==
  ASSUME NEW m \in Nat, NEW n \in Nat, m <= n, NEW g, IsSaying(g, 0 .. m),
         NEW h, IsSaying(h, 0 .. n)
  PROVE  g[m] = h[m]
<1>. DEFINE S == {i \in Nat : i <= m => g[i] = h[i]}
<1>1. /\ \A k \in 0 .. m : g[k] = IF k = 0 THEN FirstSaying ELSE NextSaying(k, g[k - 1])
      /\ \A k \in 0 .. n : h[k] = IF k = 0 THEN FirstSaying ELSE NextSaying(k, h[k - 1])
  BY DEF IsSaying
<1>2. 0 \in S
  BY <1>1
<1>3. ASSUME NEW k \in Nat, k \in S PROVE k + 1 \in S
  <2>1. SUFFICES ASSUME k + 1 <= m PROVE g[k + 1] = h[k + 1]
    OBVIOUS
  <2>2. k + 1 \in 0 .. m /\ k + 1 \in 0 .. n /\ k + 1 # 0 /\ (k + 1) - 1 = k /\ k <= m
    BY <2>1
  <2>3. g[k] = h[k]
    BY <1>3, <2>2
  <2>4. g[k + 1] = NextSaying(k + 1, g[k]) /\ h[k + 1] = NextSaying(k + 1, h[k])
    BY <1>1, <2>2
  <2>. QED
    BY <2>3, <2>4
<1>. HIDE DEF S
<1>4. m \in S
  BY <1>2, <1>3, SetInduction
<1>. QED
  BY <1>4 DEF S

LEMMA SayingWhole == \E g : IsSaying(g, Nat)
<1>. DEFINE run == [n \in Nat |-> CHOOSE g : IsSaying(g, 0 .. n)]
            h == [n \in Nat |-> run[n][n]]
<1>1. \A n \in Nat : IsSaying(run[n], 0 .. n)
  BY SayingExists
<1>. HIDE DEF run
<1>2. ASSUME NEW k \in Nat PROVE h[k] = IF k = 0 THEN FirstSaying ELSE NextSaying(k, h[k - 1])
  <2>1. h[k] = run[k][k] /\ k \in 0 .. k
    OBVIOUS
  <2>2. run[k][k] = IF k = 0 THEN FirstSaying ELSE NextSaying(k, run[k][k - 1])
    <3>1. IsSaying(run[k], 0 .. k)
      BY <1>1
    <3>. QED
      BY <2>1, <3>1 DEF IsSaying
  <2>3. ASSUME k # 0 PROVE run[k][k - 1] = h[k - 1]
    <3>1. k - 1 \in Nat /\ k - 1 <= k
      BY <2>3
    <3>2. IsSaying(run[k - 1], 0 .. k - 1) /\ IsSaying(run[k], 0 .. k)
      BY <1>1, <3>1
    <3>3. run[k - 1][k - 1] = run[k][k - 1]
      BY <3>1, <3>2, SayingAgree
    <3>. QED
      BY <3>1, <3>3
  <2>. HIDE DEF h
  <2>. QED
    BY <2>1, <2>2, <2>3
<1>3. h = [k \in Nat |-> h[k]]
  OBVIOUS
<1>. HIDE DEF h
<1>4. IsSaying(h, Nat)
  BY <1>2, <1>3 DEF IsSaying
<1>. QED
  BY <1>4

(* What a JSON value says. *)
LEMMA SayingStep ==
  /\ \A j \in Json[0] : Meaning[0][j] = Said(j, <<>>)
  /\ \A h \in Nat : \A j \in Json[h + 1] :
       Meaning[h + 1][j] = Said(j, Meaning[h])
<1>1. \E g : IsSaying(g, Nat)
  BY SayingWhole
<1>2. IsSaying(Meaning, Nat)
  BY <1>1 DEF IsSaying, NextSaying, FirstSaying, Meaning
<1>3. Meaning = [k \in Nat |-> IF k = 0 THEN FirstSaying ELSE NextSaying(k, Meaning[k - 1])]
  BY <1>2 DEF IsSaying
<1>4. \A j \in Json[0] : Meaning[0][j] = Said(j, <<>>)
  <2>1. Meaning[0] = FirstSaying
    BY <1>3
  <2>. QED
    BY <2>1 DEF FirstSaying
<1>5. ASSUME NEW h \in Nat, NEW j \in Json[h + 1]
      PROVE  Meaning[h + 1][j] = Said(j, Meaning[h])
  <2>1. h + 1 \in Nat /\ h + 1 # 0 /\ (h + 1) - 1 = h
    OBVIOUS
  <2>2. Meaning[h + 1] = NextSaying(h + 1, Meaning[h])
    BY <1>3, <2>1
  <2>. QED
    BY <2>2 DEF NextSaying
<1>. QED
  BY <1>4, <1>5

---------------------------------------------------------------------------
(* JSON and Object: the same trees in other types. *)

(* The four types of a world are different. *)
FourTypes(type) ==
  /\ type.null # type.scalar /\ type.null # type.array /\ type.null # type.object
  /\ type.scalar # type.array /\ type.scalar # type.object /\ type.array # type.object

(* cJSON's types are, and the API's.                                       *)
LEMMA TypesDistinct == FourTypes(CjsonTypes) /\ FourTypes(ObjectTypes)
BY DEF FourTypes, CjsonTypes, ObjectTypes

IsNull(x, type) == x.t = type.null /\ x = [t |-> type.null]
IsScalar(x, type) == x.t = type.scalar /\ x.v \in Scalars /\ x = [t |-> type.scalar, v |-> x.v]
IsArray(x, type, kids) ==
  x.t = type.array /\ x.kids \in Seq(kids) /\ x = [t |-> type.array, kids |-> x.kids]
IsDict(x, type, kids) ==
  x.t = type.object /\ x.kids \in Seq(Names \X kids) /\ x = [t |-> type.object, kids |-> x.kids]

(* A tree without containers is a null or a scalar.                        *)
LEMMA TreeLeaf ==
  ASSUME NEW type, NEW x \in Trees(type)[0]
  PROVE  IsNull(x, type) \/ IsScalar(x, type)
<1>1. x \in TreeLeaves(type)
  BY TreesStep
<1>. QED
  BY <1>1 DEF TreeLeaves, IsNull, IsScalar

(* A deeper one may be an array or a dict of less deep ones.               *)
LEMMA TreeKinds ==
  ASSUME NEW type, NEW h \in Nat, NEW x \in Trees(type)[h + 1]
  PROVE  \/ IsNull(x, type) \/ IsScalar(x, type)
         \/ IsArray(x, type, Trees(type)[h]) \/ IsDict(x, type, Trees(type)[h])
<1>1. x \in NextTrees(type, Trees(type)[h])
  BY TreesStep
<1>. DEFINE T == Trees(type)[h]
<1>. HIDE DEF T
<1>2. x \in NextTrees(type, T)
  BY <1>1 DEF T
<1>3. CASE x \in [t : {type.null}]
  BY <1>3 DEF IsNull
<1>4. CASE x \in [t : {type.scalar}, v : Scalars]
  BY <1>4 DEF IsScalar
<1>5. CASE x \in [t : {type.array}, kids : Seq(T)]
  BY <1>5 DEF IsArray, T
<1>6. CASE x \in [t : {type.object}, kids : Seq(Names \X T)]
  BY <1>6 DEF IsDict, T
<1>. QED
  BY <1>2, <1>3, <1>4, <1>5, <1>6 DEF NextTrees, TreeLeaves

(* Each of them is a tree.                                                 *)
LEMMA TreeMakes ==
  ASSUME NEW type, NEW h \in Nat
  PROVE  /\ [t |-> type.null] \in Trees(type)[h]
         /\ \A s \in Scalars : [t |-> type.scalar, v |-> s] \in Trees(type)[h]
         /\ \A k \in Seq(Trees(type)[h]) : [t |-> type.array, kids |-> k] \in Trees(type)[h + 1]
         /\ \A k \in Seq(Names \X Trees(type)[h]) :
              [t |-> type.object, kids |-> k] \in Trees(type)[h + 1]
<1>1. TreeLeaves(type) \subseteq Trees(type)[h]
  <2>1. CASE h = 0
    BY <2>1, TreesStep
  <2>2. CASE h # 0
    <3>1. h - 1 \in Nat /\ (h - 1) + 1 = h
      BY <2>2
    <3>2. Trees(type)[(h - 1) + 1] = NextTrees(type, Trees(type)[h - 1])
      BY <3>1, TreesStep
    <3>. QED
      BY <3>1, <3>2 DEF NextTrees
  <2>. QED
    BY <2>1, <2>2
<1>2. [t |-> type.null] \in TreeLeaves(type)
      /\ \A s \in Scalars : [t |-> type.scalar, v |-> s] \in TreeLeaves(type)
  BY DEF TreeLeaves
<1>. DEFINE T == Trees(type)[h]
<1>3. Trees(type)[h + 1] = NextTrees(type, T)
  BY TreesStep
<1>. HIDE DEF T
<1>4. ASSUME NEW k \in Seq(T) PROVE [t |-> type.array, kids |-> k] \in NextTrees(type, T)
  BY DEF NextTrees
<1>5. ASSUME NEW k \in Seq(Names \X T) PROVE [t |-> type.object, kids |-> k] \in NextTrees(type, T)
  BY DEF NextTrees
<1>. QED
  BY <1>1, <1>2, <1>3, <1>4, <1>5 DEF T

LEMMA LeavesMade ==
  ASSUME NEW type, NEW h \in Nat
  PROVE  /\ [t |-> type.null] \in Trees(type)[h]
         /\ \A s \in Scalars : [t |-> type.scalar, v |-> s] \in Trees(type)[h]
BY TreeMakes

LEMMA ArrayMade ==
  ASSUME NEW type, NEW h \in Nat, NEW k \in Seq(Trees(type)[h])
  PROVE  [t |-> type.array, kids |-> k] \in Trees(type)[h + 1]
BY TreeMakes

LEMMA DictMade ==
  ASSUME NEW type, NEW h \in Nat, NEW k \in Seq(Names \X Trees(type)[h])
  PROVE  [t |-> type.object, kids |-> k] \in Trees(type)[h + 1]
BY TreeMakes

(* Node, kind by kind.                                                     *)
LEMMA NodeOfNull ==
  ASSUME NEW from, NEW to, FourTypes(from), NEW kid, NEW x, IsNull(x, from)
  PROVE  Node(x, from, to, kid) = [t |-> to.null]
<1>1. x.t = from.null
  BY DEF IsNull
<1>2. x.t # from.scalar /\ x.t # from.array /\ x.t # from.object
  BY <1>1 DEF FourTypes
<1>. HIDE DEF FourTypes
<1>. QED
  BY <1>1, <1>2, Zenon DEF Node

LEMMA NodeOfScalar ==
  ASSUME NEW from, NEW to, FourTypes(from), NEW kid, NEW x, IsScalar(x, from)
  PROVE  Node(x, from, to, kid) = [t |-> to.scalar, v |-> x.v]
<1>1. x.t = from.scalar
  BY DEF IsScalar
<1>2. x.t # from.null /\ x.t # from.array /\ x.t # from.object
  BY <1>1 DEF FourTypes
<1>. HIDE DEF FourTypes
<1>. QED
  BY <1>1, <1>2, Zenon DEF Node

LEMMA NodeOfArray ==
  ASSUME NEW from, NEW to, FourTypes(from), NEW kid, NEW x, NEW kids, IsArray(x, from, kids)
  PROVE  Node(x, from, to, kid) =
           [t |-> to.array, kids |-> [i \in DOMAIN x.kids |-> kid[x.kids[i]]]]
<1>1. x.t = from.array
  BY DEF IsArray
<1>2. x.t # from.null /\ x.t # from.scalar /\ x.t # from.object
  BY <1>1 DEF FourTypes
<1>. HIDE DEF FourTypes
<1>. QED
  BY <1>1, <1>2, Zenon DEF Node

(* The members of a dict, their values converted. *)
Members(s, c) == [i \in DOMAIN s |-> <<s[i][1], c[s[i][2]]>>]

LEMMA NodeOfDict ==
  ASSUME NEW from, NEW to, FourTypes(from), NEW kid, NEW x, NEW kids, IsDict(x, from, kids)
  PROVE  Node(x, from, to, kid) =
           [t |-> to.object, kids |-> Members(x.kids, kid)]
<1>1. x.t = from.object
  BY DEF IsDict
<1>2. x.t # from.null /\ x.t # from.scalar /\ x.t # from.array
  BY <1>1 DEF FourTypes
<1>. HIDE DEF FourTypes
<1>. QED
  BY <1>1, <1>2, Zenon DEF Node, Members

(* A sequence, element by element. *)
LEMMA SeqMade ==
  ASSUME NEW S, NEW s \in Seq(S), NEW T, NEW f, f = [i \in DOMAIN s |-> f[i]],
         \A i \in DOMAIN s : f[i] \in T
  PROVE  f \in Seq(T) /\ DOMAIN f = DOMAIN s
<1>1. Len(s) \in Nat /\ DOMAIN s = 1 .. Len(s)
  OBVIOUS
<1>2. f \in [1 .. Len(s) -> T]
  BY <1>1
<1>. QED
  BY <1>1, <1>2

(* A pair, and a sequence, by their parts.                                 *)
LEMMA PairIs ==
  ASSUME NEW A, NEW B, NEW p, p \in A \X B
  PROVE  p[1] \in A /\ p[2] \in B /\ p = <<p[1], p[2]>>
OBVIOUS

LEMMA SeqIs ==
  ASSUME NEW S, NEW s \in Seq(S)
  PROVE  s = [i \in DOMAIN s |-> s[i]] /\ \A i \in DOMAIN s : s[i] \in S
OBVIOUS

Maps(c, S, T) == \A x \in S : c[x] \in T

(* Converted members have their names, and converted values.               *)
LEMMA MembersAre ==
  ASSUME NEW s, NEW c
  PROVE  /\ DOMAIN Members(s, c) = DOMAIN s
         /\ \A i \in DOMAIN s : Members(s, c)[i][1] = s[i][1] /\ Members(s, c)[i][2] = c[s[i][2]]
BY DEF Members

LEMMA MembersMade ==
  ASSUME NEW S, NEW s \in Seq(Names \X S), NEW T, NEW c, Maps(c, S, T)
  PROVE  Members(s, c) \in Seq(Names \X T)
<1>. DEFINE f == [i \in DOMAIN s |-> <<s[i][1], c[s[i][2]]>>]
<1>1. \A i \in DOMAIN s : s[i] \in Names \X S
  BY SeqIs
<1>2. \A i \in DOMAIN s : f[i] = <<s[i][1], c[s[i][2]]>>
  OBVIOUS
<1>3. f = [i \in DOMAIN s |-> f[i]]
  OBVIOUS
<1>4. \A i \in DOMAIN s : f[i] \in Names \X T
  BY <1>1, <1>2 DEF Maps
<1>5. f \in Seq(Names \X T)
  BY <1>3, <1>4, SeqMade
<1>6. Members(s, c) = f
  BY DEF Members
<1>. HIDE DEF f
<1>. QED
  BY <1>5, <1>6

(* A conversion yields a tree of the other world.                          *)
LEMMA ConversionType ==
  ASSUME NEW from, NEW to, FourTypes(from)
  PROVE  \A h \in Nat : \A x \in Trees(from)[h] : Conversion(from, to)[h][x] \in Trees(to)[h]
<1>. DEFINE S == {h \in Nat : \A x \in Trees(from)[h] : Conversion(from, to)[h][x] \in Trees(to)[h]}
<1>1. 0 \in S
  <2>1. SUFFICES ASSUME NEW x \in Trees(from)[0]
                 PROVE  Conversion(from, to)[0][x] \in Trees(to)[0]
    OBVIOUS
  <2>2. Conversion(from, to)[0][x] = Node(x, from, to, <<>>)
    BY ConversionStep
  <2>3. CASE IsNull(x, from)
    <3>1. Node(x, from, to, <<>>) = [t |-> to.null]
      BY <2>3, NodeOfNull
    <3>. QED
      BY <2>2, <3>1, LeavesMade
  <2>4. CASE IsScalar(x, from)
    <3>1. Node(x, from, to, <<>>) = [t |-> to.scalar, v |-> x.v] /\ x.v \in Scalars
      BY <2>4, NodeOfScalar DEF IsScalar
    <3>. QED
      BY <2>2, <3>1, LeavesMade
  <2>. QED
    BY <2>3, <2>4, TreeLeaf
<1>2. ASSUME NEW h \in Nat, h \in S PROVE h + 1 \in S
  <2>. DEFINE c == Conversion(from, to)[h]
  <2>1. SUFFICES ASSUME NEW x \in Trees(from)[h + 1]
                 PROVE  Conversion(from, to)[h + 1][x] \in Trees(to)[h + 1]
    OBVIOUS
  <2>2. Conversion(from, to)[h + 1][x] = Node(x, from, to, c)
    BY ConversionStep
  <2>3. \A k \in Trees(from)[h] : c[k] \in Trees(to)[h]
    BY <1>2
  <2>. HIDE DEF c, S
  <2>4. h + 1 \in Nat
    OBVIOUS
  <2>5. CASE IsNull(x, from)
    <3>1. Node(x, from, to, c) = [t |-> to.null]
      BY <2>5, NodeOfNull
    <3>. QED
      BY <2>2, <2>4, <3>1, LeavesMade
  <2>6. CASE IsScalar(x, from)
    <3>1. x.v \in Scalars
      BY <2>6 DEF IsScalar
    <3>2. Node(x, from, to, c) = [t |-> to.scalar, v |-> x.v]
      BY <2>6, NodeOfScalar
    <3>. QED
      BY <2>2, <2>4, <3>1, <3>2, LeavesMade
  <2>7. CASE IsArray(x, from, Trees(from)[h])
    <3>. DEFINE k == [i \in DOMAIN x.kids |-> c[x.kids[i]]]
    <3>1. x.kids \in Seq(Trees(from)[h])
      BY <2>7 DEF IsArray
    <3>2. \A i \in DOMAIN x.kids : k[i] \in Trees(to)[h]
      BY <2>3, <3>1, SeqIs
    <3>3. k = [i \in DOMAIN x.kids |-> k[i]]
      OBVIOUS
    <3>4. Node(x, from, to, c) = [t |-> to.array, kids |-> k]
      BY <2>7, NodeOfArray
    <3>. HIDE DEF k
    <3>5. k \in Seq(Trees(to)[h])
      BY <3>1, <3>2, <3>3, SeqMade
    <3>. QED
      BY <2>2, <3>4, <3>5, ArrayMade
  <2>8. CASE IsDict(x, from, Trees(from)[h])
    <3>1. x.kids \in Seq(Names \X Trees(from)[h])
      BY <2>8 DEF IsDict
    <3>2. Node(x, from, to, c) = [t |-> to.object, kids |-> Members(x.kids, c)]
      BY <2>8, NodeOfDict
    <3>3. Members(x.kids, c) \in Seq(Names \X Trees(to)[h])
      BY <2>3, <3>1, MembersMade DEF Maps
    <3>. QED
      BY <2>2, <3>2, <3>3, DictMade
  <2>9. Conversion(from, to)[h + 1][x] \in Trees(to)[h + 1]
    BY <2>5, <2>6, <2>7, <2>8, TreeKinds
  <2>. QED
    BY <2>9
<1>. HIDE DEF S
<1>3. \A h \in Nat : h \in S
  BY <1>1, <1>2, SetInduction
<1>. QED
  BY <1>3 DEF S

(* There and back is the same tree.                                        *)
LEMMA ConversionBack ==
  ASSUME NEW from, NEW to, FourTypes(from), FourTypes(to)
  PROVE  \A h \in Nat : \A x \in Trees(from)[h] :
           Conversion(to, from)[h][Conversion(from, to)[h][x]] = x
<1>. DEFINE There == Conversion(from, to)
            Back == Conversion(to, from)
            S == {h \in Nat : \A x \in Trees(from)[h] : Back[h][There[h][x]] = x}
<1>1. 0 \in S
  <2>1. SUFFICES ASSUME NEW x \in Trees(from)[0] PROVE Back[0][There[0][x]] = x
    OBVIOUS
  <2>. DEFINE y == There[0][x]
  <2>2. y = Node(x, from, to, <<>>)
    BY ConversionStep
  <2>3. y \in Trees(to)[0]
    BY ConversionType
  <2>4. Back[0][y] = Node(y, to, from, <<>>)
    BY <2>3, ConversionStep
  <2>. HIDE DEF y, There, Back
  <2>5. CASE IsNull(x, from)
    <3>1. y = [t |-> to.null] /\ x = [t |-> from.null]
      BY <2>2, <2>5, NodeOfNull DEF IsNull
    <3>2. IsNull(y, to)
      BY <3>1 DEF IsNull
    <3>. QED
      BY <2>4, <3>1, <3>2, NodeOfNull DEF y
  <2>6. CASE IsScalar(x, from)
    <3>1. y = [t |-> to.scalar, v |-> x.v] /\ x = [t |-> from.scalar, v |-> x.v]
          /\ x.v \in Scalars
      BY <2>2, <2>6, NodeOfScalar DEF IsScalar
    <3>2. IsScalar(y, to) /\ y.v = x.v
      BY <3>1 DEF IsScalar
    <3>3. Node(y, to, from, <<>>) = [t |-> from.scalar, v |-> y.v]
      BY <3>2, NodeOfScalar
    <3>. QED
      BY <2>4, <3>1, <3>2, <3>3 DEF y
  <2>. QED
    BY <2>5, <2>6, TreeLeaf
<1>2. ASSUME NEW h \in Nat, h \in S PROVE h + 1 \in S
  <2>. DEFINE c == There[h]
              b == Back[h]
  <2>1. SUFFICES ASSUME NEW x \in Trees(from)[h + 1] PROVE Back[h + 1][There[h + 1][x]] = x
    OBVIOUS
  <2>. DEFINE y == There[h + 1][x]
  <2>2. y = Node(x, from, to, c)
    BY ConversionStep
  <2>3. y \in Trees(to)[h + 1]
    BY ConversionType
  <2>4. Back[h + 1][y] = Node(y, to, from, b)
    BY <2>3, ConversionStep
  <2>5. \A k \in Trees(from)[h] : b[c[k]] = k
    BY <1>2
  <2>10. \A k \in Trees(from)[h] : c[k] \in Trees(to)[h]
    BY ConversionType
  <2>. HIDE DEF b, c, y, There, Back, S
  <2>6. CASE IsNull(x, from)
    <3>1. y = [t |-> to.null] /\ x = [t |-> from.null]
      BY <2>2, <2>6, NodeOfNull DEF IsNull
    <3>2. IsNull(y, to)
      BY <3>1 DEF IsNull
    <3>. QED
      BY <2>4, <3>1, <3>2, NodeOfNull DEF y
  <2>7. CASE IsScalar(x, from)
    <3>1. y = [t |-> to.scalar, v |-> x.v] /\ x = [t |-> from.scalar, v |-> x.v]
          /\ x.v \in Scalars
      BY <2>2, <2>7, NodeOfScalar DEF IsScalar
    <3>2. IsScalar(y, to) /\ y.v = x.v
      BY <3>1 DEF IsScalar
    <3>3. Node(y, to, from, b) = [t |-> from.scalar, v |-> y.v]
      BY <3>2, NodeOfScalar
    <3>. QED
      BY <2>4, <3>1, <3>2, <3>3 DEF y
  <2>8. CASE IsArray(x, from, Trees(from)[h])
    <3>. DEFINE k == [i \in DOMAIN x.kids |-> c[x.kids[i]]]
                m == [i \in DOMAIN k |-> b[k[i]]]
    <3>1. x.kids \in Seq(Trees(from)[h]) /\ x = [t |-> from.array, kids |-> x.kids]
      BY <2>8 DEF IsArray
    <3>2. y = [t |-> to.array, kids |-> k]
      BY <2>2, <2>8, NodeOfArray
    <3>3. \A i \in DOMAIN x.kids : b[c[x.kids[i]]] = x.kids[i]
      BY <2>5, <3>1, SeqIs
    <3>4. m = x.kids
      BY <3>1, <3>3, SeqIs
    <3>. HIDE DEF m, k
    <3>5. IsArray(y, to, Trees(to)[h]) /\ y.kids = k
      <4>1. \A i \in DOMAIN x.kids : k[i] \in Trees(to)[h]
        BY <2>10, <3>1, SeqIs DEF k
      <4>2. k = [i \in DOMAIN x.kids |-> k[i]]
        BY DEF k
      <4>3. k \in Seq(Trees(to)[h])
        BY <3>1, <4>1, <4>2, SeqMade
      <4>. QED
        BY <3>2, <4>3 DEF IsArray
    <3>6. Node(y, to, from, b) = [t |-> from.array, kids |-> m]
      BY <3>5, NodeOfArray DEF m
    <3>. QED
      BY <2>4, <3>1, <3>4, <3>6 DEF y
  <2>9. CASE IsDict(x, from, Trees(from)[h])
    <3>. DEFINE k == Members(x.kids, c)
                m == Members(k, b)
    <3>1. x.kids \in Seq(Names \X Trees(from)[h]) /\ x = [t |-> from.object, kids |-> x.kids]
      BY <2>9 DEF IsDict
    <3>2. y = [t |-> to.object, kids |-> k]
      BY <2>2, <2>9, NodeOfDict
    <3>3. \A i \in DOMAIN x.kids : x.kids[i] \in Names \X Trees(from)[h]
      BY <3>1, SeqIs
    <3>4. DOMAIN k = DOMAIN x.kids /\ k \in Seq(Names \X Trees(to)[h])
          /\ \A i \in DOMAIN x.kids : k[i][1] = x.kids[i][1] /\ k[i][2] = c[x.kids[i][2]]
      <4>. DEFINE from1 == Trees(from)[h]
                  to1 == Trees(to)[h]
      <4>1. x.kids \in Seq(Names \X from1) /\ Maps(c, from1, to1)
        BY <2>10, <3>1 DEF Maps
      <4>. HIDE DEF from1, to1, k
      <4>2. Members(x.kids, c) \in Seq(Names \X to1)
        BY <4>1, MembersMade
      <4>3. /\ DOMAIN Members(x.kids, c) = DOMAIN x.kids
            /\ \A i \in DOMAIN x.kids : /\ Members(x.kids, c)[i][1] = x.kids[i][1]
                                        /\ Members(x.kids, c)[i][2] = c[x.kids[i][2]]
        BY MembersAre
      <4>. QED
        BY <4>2, <4>3 DEF k, to1
    <3>. HIDE DEF k
    <3>5. DOMAIN m = DOMAIN k /\ \A i \in DOMAIN k : m[i] = <<k[i][1], b[k[i][2]]>>
      BY DEF Members
    <3>6. ASSUME NEW i \in DOMAIN x.kids PROVE m[i] = x.kids[i]
      <4>0. x.kids[i][2] \in Trees(from)[h] /\ x.kids[i] = <<x.kids[i][1], x.kids[i][2]>>
        <5>1. x.kids[i] \in Names \X Trees(from)[h]
          BY <3>3
        <5>. QED
          BY <5>1, PairIs
      <4>1. b[c[x.kids[i][2]]] = x.kids[i][2] /\ x.kids[i] = <<x.kids[i][1], x.kids[i][2]>>
        BY <2>5, <4>0
      <4>2. m[i] = <<x.kids[i][1], b[c[x.kids[i][2]]]>>
        BY <3>4, <3>5
      <4>. QED
        BY <4>1, <4>2
    <3>7. m = [i \in DOMAIN m |-> m[i]]
      BY DEF Members
    <3>. HIDE DEF m
    <3>8. m = x.kids
      BY <3>1, <3>4, <3>5, <3>6, <3>7, SeqIs
    <3>9. IsDict(y, to, Trees(to)[h])
      BY <3>2, <3>4 DEF IsDict
    <3>10. Node(y, to, from, b) = [t |-> from.object, kids |-> m]
      <4>1. y.kids = k
        BY <3>2
      <4>. QED
        BY <3>9, <4>1, NodeOfDict DEF m
    <3>. QED
      BY <2>4, <3>1, <3>8, <3>10 DEF y
  <2>11. Back[h + 1][There[h + 1][x]] = x
    BY <2>6, <2>7, <2>8, <2>9, TreeKinds
  <2>. QED
    BY <2>11 DEF S
<1>. HIDE DEF S
<1>3. \A h \in Nat : h \in S
  BY <1>1, <1>2, SetInduction
<1>. QED
  BY <1>3 DEF S

---------------------------------------------------------------------------
(* What an Object says, by way of the JSON it becomes. *)

(* i is the last place of the name. *)
LastAt(kids, name, i) ==
  /\ i \in DOMAIN kids /\ kids[i][1] = name
  /\ \A k \in DOMAIN kids : kids[k][1] = name => k <= i

(* A name that occurs has a last place.                                    *)
LEMMA LastExists ==
  ASSUME NEW T, NEW kids \in Seq(T), NEW name \in NamesIn(kids)
  PROVE  \E i : LastAt(kids, name, i)
<1>1. Len(kids) \in Nat /\ DOMAIN kids = 1 .. Len(kids)
  OBVIOUS
<1>. DEFINE n == Len(kids)
            S == {k \in Nat : k < n /\ kids[n - k][1] = name}
<1>2. PICK j \in DOMAIN kids : kids[j][1] = name
  BY DEF NamesIn
<1>3. n - j \in S
  <2>1. n - j \in Nat /\ n - j < n /\ n - (n - j) = j
    BY <1>1, <1>2
  <2>. QED
    BY <1>2, <2>1
<1>4. PICK k \in S : \A l \in S : k <= l
  <2>1. S \in SUBSET Nat /\ S # {}
    BY <1>3
  <2>. HIDE DEF S
  <2>. QED
    BY <2>1, LeastElement
<1>5. n - k \in DOMAIN kids /\ kids[n - k][1] = name /\ k \in Nat
  BY <1>1, <1>4
<1>6. ASSUME NEW m \in DOMAIN kids, kids[m][1] = name PROVE m <= n - k
  <2>1. n - m \in Nat /\ n - m < n /\ n - (n - m) = m
    BY <1>1
  <2>2. n - m \in S
    BY <1>6, <2>1
  <2>3. k <= n - m
    BY <1>4, <2>2
  <2>. QED
    BY <1>1, <1>5, <2>1, <2>3
<1>. HIDE DEF n, S
<1>7. LastAt(kids, name, n - k)
  BY <1>5, <1>6 DEF LastAt
<1>. QED
  BY <1>7

(* LastOf is the value in the last place. *)
LEMMA LastIs ==
  ASSUME NEW T, NEW kids \in Seq(T), NEW name, NEW i, LastAt(kids, name, i)
  PROVE  LastOf(kids, name) = kids[i][2]
<1>. DEFINE l == CHOOSE k \in DOMAIN kids :
                   kids[k][1] = name /\ \A m \in DOMAIN kids : kids[m][1] = name => m <= k
<1>1. l \in DOMAIN kids /\ kids[l][1] = name /\ \A m \in DOMAIN kids : kids[m][1] = name => m <= l
  BY DEF LastAt
<1>2. LastOf(kids, name) = kids[l][2]
  BY DEF LastOf
<1>. HIDE DEF l
<1>3. DOMAIN kids \subseteq Nat
  OBVIOUS
<1>4. l = i
  BY <1>1, <1>3 DEF LastAt
<1>. QED
  BY <1>2, <1>4

(* The last value of a name is one of the members'. *)
LEMMA LastTyped ==
  ASSUME NEW T, NEW kids \in Seq(Names \X T), NEW name \in NamesIn(kids)
  PROVE  LastOf(kids, name) \in T /\ name \in Names
<1>1. PICK i : LastAt(kids, name, i)
  BY LastExists
<1>2. kids[i] \in Names \X T /\ kids[i][1] = name
  BY <1>1, SeqIs DEF LastAt
<1>3. LastOf(kids, name) = kids[i][2]
  BY <1>1, LastIs
<1>. QED
  BY <1>2, <1>3, PairIs

(* Conversion keeps the names, and the last value of each.                 *)
LEMMA LastOfMembers ==
  ASSUME NEW T, NEW kids \in Seq(Names \X T), NEW U, NEW c, Maps(c, T, U)
  PROVE  /\ NamesIn(Members(kids, c)) = NamesIn(kids)
         /\ \A name \in NamesIn(kids) : LastOf(Members(kids, c), name) = c[LastOf(kids, name)]
<1>. DEFINE m == Members(kids, c)
<1>1. DOMAIN m = DOMAIN kids /\ \A i \in DOMAIN kids : m[i][1] = kids[i][1] /\ m[i][2] = c[kids[i][2]]
  BY MembersAre
<1>2. m \in Seq(Names \X U)
  BY MembersMade
<1>. HIDE DEF m
<1>3. NamesIn(m) = NamesIn(kids)
  BY <1>1 DEF NamesIn
<1>4. ASSUME NEW name \in NamesIn(kids) PROVE LastOf(m, name) = c[LastOf(kids, name)]
  <2>1. PICK i : LastAt(kids, name, i)
    BY LastExists
  <2>2. LastAt(m, name, i) /\ i \in DOMAIN kids
    BY <1>1, <2>1 DEF LastAt
  <2>3. LastOf(kids, name) = kids[i][2]
    BY <2>1, LastIs
  <2>4. LastOf(m, name) = m[i][2]
    BY <1>2, <2>2, LastIs
  <2>. QED
    BY <1>1, <2>2, <2>3, <2>4
<1>. QED
  BY <1>3, <1>4 DEF m

ObjectCjson(h, o) == ObjectToCjson[h][o]
Meant(h, o) == Meaning[h][ObjectCjson(h, o)]

(* Said, kind by kind.                                                     *)
LEMMA SaidIs ==
  ASSUME NEW j, NEW kid
  PROVE  /\ j.t = "null" => Said(j, kid) = {}
         /\ j.t = "scalar" => Said(j, kid) = {<<"value", j.v>>}
         /\ j.t = "array" =>
              Said(j, kid) = {<<"int", i, kid[j.kids[i]]>> :
                                i \in {k \in DOMAIN j.kids : j.kids[k].t # "null"}}
         /\ j.t = "object" =>
              Said(j, kid) = {<<"str", n, kid[LastOf(j.kids, n)]>> :
                                n \in {m \in NamesIn(j.kids) : LastOf(j.kids, m).t # "null"}}
BY DEF Said

(* The names of the types.                                                 *)
LEMMA TypeNames ==
  /\ ObjectTypes.null = "Nil" /\ ObjectTypes.scalar = "Scalar"
  /\ ObjectTypes.array = "Array" /\ ObjectTypes.object = "Dict"
  /\ CjsonTypes.null = "null" /\ CjsonTypes.scalar = "scalar"
  /\ CjsonTypes.array = "array" /\ CjsonTypes.object = "object"
BY DEF ObjectTypes, CjsonTypes

(* The JSON of an Object, kind by kind.                                    *)
LEMMA JsonOfLeaf ==
  ASSUME NEW o, NEW c
  PROVE  /\ IsNull(o, ObjectTypes) => Node(o, ObjectTypes, CjsonTypes, c) = [t |-> "null"]
         /\ IsScalar(o, ObjectTypes) =>
              Node(o, ObjectTypes, CjsonTypes, c) = [t |-> "scalar", v |-> o.v]
BY TypesDistinct, NodeOfNull, NodeOfScalar, TypeNames

LEMMA JsonOfContainer ==
  ASSUME NEW o, NEW c, NEW kids
  PROVE  /\ IsArray(o, ObjectTypes, kids) =>
              Node(o, ObjectTypes, CjsonTypes, c) =
                [t |-> "array", kids |-> [i \in DOMAIN o.kids |-> c[o.kids[i]]]]
         /\ IsDict(o, ObjectTypes, kids) =>
              Node(o, ObjectTypes, CjsonTypes, c) = [t |-> "object", kids |-> Members(o.kids, c)]
BY TypesDistinct, NodeOfArray, NodeOfDict, TypeNames

(* A nil, and nothing else, becomes a null.                                *)
LEMMA NilStays ==
  ASSUME NEW h \in Nat, NEW o \in Object[h]
  PROVE  ObjectCjson(h, o).t = "null" <=> o.t = "Nil"
<1>0. "null" # "scalar" /\ "null" # "array" /\ "null" # "object"
      /\ "Nil" # "Scalar" /\ "Nil" # "Array" /\ "Nil" # "Dict"
  OBVIOUS
<1>1. CASE h = 0
  <2>1. o \in Trees(ObjectTypes)[0]
    BY <1>1 DEF Object
  <2>2. ObjectCjson(h, o) = Node(o, ObjectTypes, CjsonTypes, <<>>)
    BY <1>1, <2>1, ConversionStep DEF ObjectCjson, ObjectToCjson
  <2>3. IsNull(o, ObjectTypes) \/ IsScalar(o, ObjectTypes)
    BY <2>1, TreeLeaf
  <2>. QED
    BY <1>0, <2>2, <2>3, JsonOfLeaf, TypeNames DEF IsNull, IsScalar
<1>2. CASE h # 0
  <2>. DEFINE c == ObjectToCjson[h - 1]
              K == Object[h - 1]
  <2>1. h - 1 \in Nat /\ (h - 1) + 1 = h
    BY <1>2
  <2>2. o \in Trees(ObjectTypes)[(h - 1) + 1]
    BY <2>1 DEF Object
  <2>3. ObjectCjson(h, o) = Node(o, ObjectTypes, CjsonTypes, c)
    BY <2>1, <2>2, ConversionStep DEF ObjectCjson, ObjectToCjson
  <2>4. \/ IsNull(o, ObjectTypes) \/ IsScalar(o, ObjectTypes)
        \/ IsArray(o, ObjectTypes, K) \/ IsDict(o, ObjectTypes, K)
    BY <2>1, <2>2, TreeKinds DEF Object
  <2>. HIDE DEF c, K
  <2>5. CASE IsNull(o, ObjectTypes) \/ IsScalar(o, ObjectTypes)
    BY <1>0, <2>3, <2>5, JsonOfLeaf, TypeNames DEF IsNull, IsScalar
  <2>6. CASE IsArray(o, ObjectTypes, K)
    <3>1. o.t = "Array"
      BY <2>6, TypeNames DEF IsArray
    <3>2. Node(o, ObjectTypes, CjsonTypes, c) =
            [t |-> "array", kids |-> [i \in DOMAIN o.kids |-> c[o.kids[i]]]]
      BY <2>6, JsonOfContainer
    <3>3. Node(o, ObjectTypes, CjsonTypes, c).t = "array"
      BY <3>2
    <3>. QED
      BY <1>0, <2>3, <3>1, <3>3
  <2>7. CASE IsDict(o, ObjectTypes, K)
    <3>1. o.t = "Dict"
      BY <2>7, TypeNames DEF IsDict
    <3>2. Node(o, ObjectTypes, CjsonTypes, c) = [t |-> "object", kids |-> Members(o.kids, c)]
      BY <2>7, JsonOfContainer
    <3>. QED
      BY <1>0, <2>3, <3>1, <3>2
  <2>. QED
    BY <2>4, <2>5, <2>6, <2>7
<1>. QED
  BY <1>1, <1>2

(* The JSON of an Object is JSON, and at the next depth. *)
LEMMA CjsonTyped ==
  ASSUME NEW h \in Nat
  PROVE  /\ \A o \in Object[h] : ObjectCjson(h, o) \in Json[h]
         /\ Maps(ObjectToCjson[h], Object[h], Json[h])
         /\ \A o \in Object[h + 1] :
              ObjectCjson(h + 1, o) = Node(o, ObjectTypes, CjsonTypes, ObjectToCjson[h])
<1>1. \A o \in Object[h] : ObjectToCjson[h][o] \in Json[h]
  BY TypesDistinct, ConversionType DEF Object, Json, ObjectToCjson
<1>2. \A o \in Object[h + 1] :
        ObjectToCjson[h + 1][o] = Node(o, ObjectTypes, CjsonTypes, ObjectToCjson[h])
  BY ConversionStep DEF Object, ObjectToCjson
<1>. QED
  BY <1>1, <1>2 DEF ObjectCjson, Maps

(* The kinds of an Object.                                                 *)
LEMMA ObjectKinds ==
  ASSUME NEW h \in Nat, NEW o \in Object[h + 1]
  PROVE  \/ IsNull(o, ObjectTypes) \/ IsScalar(o, ObjectTypes)
         \/ IsArray(o, ObjectTypes, Object[h]) \/ IsDict(o, ObjectTypes, Object[h])
BY TreeKinds DEF Object

(* What an Array says: what the children that are not nil say, by place.   *)
LEMMA ArrayMeant ==
  ASSUME NEW h \in Nat, NEW o \in Object[h + 1], IsArray(o, ObjectTypes, Object[h])
  PROVE  Meant(h + 1, o) = {<<"int", i, Meant(h, o.kids[i])>> :
                              i \in {k \in DOMAIN o.kids : o.kids[k].t # "Nil"}}
<1>. DEFINE c == ObjectToCjson[h]
            kids == [i \in DOMAIN o.kids |-> c[o.kids[i]]]
            j == [t |-> "array", kids |-> kids]
            m == Meaning[h]
            N == {k \in DOMAIN o.kids : o.kids[k].t # "Nil"}
<1>1. h + 1 \in Nat
  OBVIOUS
<1>2. ObjectCjson(h + 1, o) = j
  BY CjsonTyped, JsonOfContainer
<1>3. ObjectCjson(h + 1, o) \in Json[h + 1]
  BY <1>1, CjsonTyped
<1>4. Meant(h + 1, o) = Said(j, m)
  BY <1>2, <1>3, SayingStep DEF Meant, ObjectCjson
<1>5. \A i \in DOMAIN o.kids : o.kids[i] \in Object[h]
  BY SeqIs DEF IsArray
<1>6. \A i \in DOMAIN o.kids : kids[i].t = "null" <=> o.kids[i].t = "Nil"
  BY <1>5, NilStays DEF ObjectCjson
<1>7. DOMAIN kids = DOMAIN o.kids /\ \A i \in DOMAIN o.kids : m[kids[i]] = Meant(h, o.kids[i])
  BY DEF Meant, ObjectCjson
<1>8. j.t = "array" /\ j.kids = kids
  OBVIOUS
<1>. HIDE DEF kids, j, m, c
<1>9. Said(j, m) = {<<"int", i, m[kids[i]]>> : i \in {k \in DOMAIN kids : kids[k].t # "null"}}
  BY <1>8, SaidIs
<1>10. {k \in DOMAIN kids : kids[k].t # "null"} = N
  BY <1>6, <1>7
<1>11. \A i \in N : m[kids[i]] = Meant(h, o.kids[i])
  BY <1>7
<1>. HIDE DEF N
<1>12. Said(j, m) = {<<"int", i, Meant(h, o.kids[i])>> : i \in N}
  BY <1>9, <1>10, <1>11
<1>. QED
  BY <1>4, <1>12 DEF N

(* What a Dict says: what the last value of each name says, if not nil.    *)
LEMMA DictMeant ==
  ASSUME NEW h \in Nat, NEW o \in Object[h + 1], IsDict(o, ObjectTypes, Object[h])
  PROVE  Meant(h + 1, o) = {<<"str", n, Meant(h, LastOf(o.kids, n))>> :
                              n \in {m \in NamesIn(o.kids) : LastOf(o.kids, m).t # "Nil"}}
<1>. DEFINE c == ObjectToCjson[h]
            kids == Members(o.kids, c)
            j == [t |-> "object", kids |-> kids]
            m == Meaning[h]
            N == {n \in NamesIn(o.kids) : LastOf(o.kids, n).t # "Nil"}
<1>1. h + 1 \in Nat
  OBVIOUS
<1>2. ObjectCjson(h + 1, o) = j
  BY CjsonTyped, JsonOfContainer
<1>3. ObjectCjson(h + 1, o) \in Json[h + 1]
  BY <1>1, CjsonTyped
<1>4. Meant(h + 1, o) = Said(j, m)
  BY <1>2, <1>3, SayingStep DEF Meant, ObjectCjson
<1>5. o.kids \in Seq(Names \X Object[h])
  BY DEF IsDict
<1>6. \A n \in NamesIn(o.kids) : LastOf(o.kids, n) \in Object[h]
  BY <1>5, LastTyped
<1>7. NamesIn(kids) = NamesIn(o.kids)
      /\ \A n \in NamesIn(o.kids) : LastOf(kids, n) = c[LastOf(o.kids, n)]
  <2>. DEFINE below == Object[h]
              json == Json[h]
  <2>1. Maps(c, below, json) /\ o.kids \in Seq(Names \X below)
    BY <1>5, CjsonTyped
  <2>. HIDE DEF c, below, json
  <2>. QED
    BY <2>1, LastOfMembers
<1>8. \A n \in NamesIn(o.kids) : LastOf(kids, n).t = "null" <=> LastOf(o.kids, n).t = "Nil"
  BY <1>6, <1>7, NilStays DEF ObjectCjson
<1>9. \A n \in NamesIn(o.kids) : m[LastOf(kids, n)] = Meant(h, LastOf(o.kids, n))
  BY <1>7 DEF Meant, ObjectCjson
<1>10. j.t = "object" /\ j.kids = kids
  OBVIOUS
<1>. HIDE DEF kids, j, m, c
<1>11. Said(j, m) = {<<"str", n, m[LastOf(kids, n)]>> :
                       n \in {k \in NamesIn(kids) : LastOf(kids, k).t # "null"}}
  BY <1>10, SaidIs
<1>12. {k \in NamesIn(kids) : LastOf(kids, k).t # "null"} = N
  BY <1>7, <1>8
<1>13. \A n \in N : m[LastOf(kids, n)] = Meant(h, LastOf(o.kids, n))
  BY <1>9
<1>. HIDE DEF N
<1>14. Said(j, m) = {<<"str", n, Meant(h, LastOf(o.kids, n))>> : n \in N}
  BY <1>11, <1>12, <1>13
<1>. QED
  BY <1>4, <1>14 DEF N

---------------------------------------------------------------------------
(* Tables: their kinds, and the Objects that they become. *)

IsLuaScalar(v) == v.t = "scalar" /\ v.v \in Scalars /\ v = [t |-> "scalar", v |-> v.v]
IsLuaTable(v, values) == v.t = "table" /\ v.at \in Entries(values \ {LuaNil})

(* The kinds of a Lua value that can be taken.                             *)
LEMMA LuaLeaf ==
  ASSUME NEW v \in Storable[0]
  PROVE  v = LuaNil \/ IsLuaScalar(v)
<1>1. v \in LuaLeaves
  BY StorableStep
<1>. QED
  BY <1>1 DEF LuaLeaves, IsLuaScalar

LEMMA LuaKinds ==
  ASSUME NEW h \in Nat, NEW v \in Storable[h + 1]
  PROVE  v = LuaNil \/ IsLuaScalar(v) \/ IsLuaTable(v, Storable[h])
<1>. DEFINE V == Storable[h]
<1>1. v \in NextStorable(V)
  BY StorableStep
<1>. HIDE DEF V
<1>2. CASE v \in LuaLeaves
  BY <1>2 DEF LuaLeaves, IsLuaScalar
<1>3. CASE v \in [t : {"table"}, at : Entries(V \ {LuaNil})]
  BY <1>3 DEF IsLuaTable, V
<1>. QED
  BY <1>1, <1>2, <1>3 DEF NextStorable

(* The image of a finite set is finite; so are the keys of a table, and the*)
(* names among them.                                                       *)
LEMMA ImageFinite ==
  ASSUME NEW S, IsFiniteSet(S), NEW f, DOMAIN f = S, f = [x \in S |-> f[x]]
  PROVE  IsFiniteSet({f[x] : x \in S})
<1>. DEFINE T == {f[x] : x \in S}
<1>1. f \in [S -> T]
  OBVIOUS
<1>2. \A y \in T : \E x \in S : f[x] = y
  OBVIOUS
<1>. HIDE DEF T
<1>3. f \in Surjection(S, T)
  BY <1>1, <1>2 DEF Surjection
<1>. QED
  BY <1>3, FS_Surjection DEF T

LEMMA FirstsFinite == ASSUME NEW S, IsFiniteSet(S) PROVE IsFiniteSet({x[1] : x \in S})
<1>. DEFINE f == [x \in S |-> x[1]]
<1>1. DOMAIN f = S /\ f = [x \in S |-> f[x]] /\ \A x \in S : f[x] = x[1]
  OBVIOUS
<1>. HIDE DEF f
<1>2. IsFiniteSet({f[x] : x \in S})
  BY <1>1, ImageFinite
<1>3. {f[x] : x \in S} = {x[1] : x \in S}
  BY <1>1
<1>. QED
  BY <1>2, <1>3

LEMMA SecondsFinite == ASSUME NEW S, IsFiniteSet(S) PROVE IsFiniteSet({x[2] : x \in S})
<1>. DEFINE f == [x \in S |-> x[2]]
<1>1. DOMAIN f = S /\ f = [x \in S |-> f[x]] /\ \A x \in S : f[x] = x[2]
  OBVIOUS
<1>. HIDE DEF f
<1>2. IsFiniteSet({f[x] : x \in S})
  BY <1>1, ImageFinite
<1>3. {f[x] : x \in S} = {x[2] : x \in S}
  BY <1>1
<1>. QED
  BY <1>2, <1>3

(* Reading a table by its keys gives its entries.                          *)
LEMMA EntryFacts ==
  ASSUME NEW values, NEW at \in Entries(values)
  PROVE  /\ \A e \in at : /\ e[1] \in KeysOf(at) /\ e[2] \in values
                          /\ e = <<e[1], e[2]>> /\ RawGet(at, e[1]) = e[2]
         /\ \A k \in KeysOf(at) : k \in LuaKeys /\ RawGet(at, k) \in values
                                  /\ <<k, RawGet(at, k)>> \in at
         /\ IsFiniteSet(KeysOf(at)) /\ ClassifyTable(KeysOf(at)) # "invalid"
<1>1. /\ at \in SUBSET (LuaKeys \X values) /\ IsFiniteSet(at)
      /\ \A e, f \in at : e[1] = f[1] => e = f
      /\ ClassifyTable(KeysOf(at)) # "invalid"
  BY DEF Entries
<1>2. ASSUME NEW e \in at
      PROVE  /\ e[1] \in KeysOf(at) /\ e[2] \in values /\ e[1] \in LuaKeys
             /\ e = <<e[1], e[2]>> /\ RawGet(at, e[1]) = e[2]
  <2>1. e \in LuaKeys \X values
    BY <1>1
  <2>2. e[1] \in LuaKeys /\ e[2] \in values /\ e = <<e[1], e[2]>>
    BY <2>1, PairIs
  <2>3. e[1] \in KeysOf(at)
    BY DEF KeysOf
  <2>. DEFINE f == CHOOSE x \in at : x[1] = e[1]
  <2>4. f \in at /\ f[1] = e[1]
    OBVIOUS
  <2>5. RawGet(at, e[1]) = f[2]
    BY <2>3 DEF RawGet
  <2>. HIDE DEF f
  <2>6. f = e
    BY <1>1, <2>4
  <2>. QED
    BY <2>2, <2>3, <2>5, <2>6
<1>3. ASSUME NEW k \in KeysOf(at)
      PROVE  k \in LuaKeys /\ RawGet(at, k) \in values /\ <<k, RawGet(at, k)>> \in at
  <2>1. PICK e \in at : e[1] = k
    BY DEF KeysOf
  <2>2. /\ e[2] \in values /\ e[1] \in LuaKeys /\ e = <<e[1], e[2]>> /\ RawGet(at, e[1]) = e[2]
    BY <1>2
  <2>3. e = <<k, RawGet(at, k)>>
    BY <2>1, <2>2
  <2>. QED
    BY <2>1, <2>2, <2>3
<1>4. IsFiniteSet(KeysOf(at))
  BY <1>1, FirstsFinite DEF KeysOf
<1>. QED
  BY <1>1, <1>2, <1>3, <1>4

(* What classify_table says of keys that it accepts.                       *)
LEMMA ClassifyFacts ==
  ASSUME NEW keys, ClassifyTable(keys) # "invalid"
  PROVE  /\ ClassifyTable(keys) = "Array" <=> keys = {<<"int", i>> : i \in 1 .. Cardinality(keys)}
         /\ ClassifyTable(keys) # "Array" => \A k \in keys : k[1] = "str"
BY DEF ClassifyTable

(* The members of a finite set in a row. *)
LEMMA SetToSeqFacts ==
  ASSUME NEW S, IsFiniteSet(S)
  PROVE  /\ SetToSeq(S) \in Seq(S) /\ DOMAIN SetToSeq(S) = 1 .. Cardinality(S)
         /\ \A x \in S : \E i \in DOMAIN SetToSeq(S) : SetToSeq(S)[i] = x
         /\ \A i, j \in DOMAIN SetToSeq(S) : SetToSeq(S)[i] = SetToSeq(S)[j] => i = j
<1>. DEFINE n == Cardinality(S)
            s == CHOOSE f \in [1 .. n -> S] : IsInjective(f)
<1>1. n \in Nat /\ ExistsBijection(1 .. n, S)
  BY FS_CardinalityType
<1>2. \E f \in [1 .. n -> S] : IsInjective(f)
  BY <1>1 DEF ExistsBijection, Bijection, Injection
<1>3. s \in [1 .. n -> S] /\ IsInjective(s)
  BY <1>2
<1>4. SetToSeq(S) = s
  BY DEF SetToSeq
<1>5. IsFiniteSet(1 .. n) /\ Cardinality(1 .. n) = n
  BY <1>1, FS_Interval
<1>. HIDE DEF s
<1>6. s \in Injection(1 .. n, S)
  BY <1>3 DEF Injection
<1>7. s \in Surjection(1 .. n, S)
  BY <1>5, <1>6, FS_Injection
<1>8. s \in Seq(S)
  BY <1>1, <1>3
<1>. QED
  BY <1>3, <1>4, <1>7, <1>8 DEF Surjection, IsInjective

(* What lua_pop_object makes of each kind.                                 *)
LEMMA PoppedLeaf ==
  ASSUME NEW v, NEW pop
  PROVE  /\ v = LuaNil => Popped(v, pop) = [t |-> "Nil"]
         /\ IsLuaScalar(v) => Popped(v, pop) = [t |-> "Scalar", v |-> v.v]
<1>1. ASSUME v = LuaNil PROVE Popped(v, pop) = [t |-> "Nil"]
  <2>1. v.t = "nil"
    BY <1>1 DEF LuaNil
  <2>. QED
    BY <2>1 DEF Popped
<1>2. ASSUME IsLuaScalar(v) PROVE Popped(v, pop) = [t |-> "Scalar", v |-> v.v]
  <2>1. v.t = "scalar"
    BY <1>2 DEF IsLuaScalar
  <2>. QED
    BY <2>1 DEF Popped
<1>. QED
  BY <1>1, <1>2

NamesOf(at) == SetToSeq({k[2] : k \in KeysOf(at)})

(* A table becomes an array or a dict.                                     *)
LEMMA PoppedTable ==
  ASSUME NEW v, NEW pop, v.t = "table"
  PROVE  Popped(v, pop) =
           IF ClassifyTable(KeysOf(v.at)) = "Array"
           THEN [t |-> "Array", kids |-> [i \in 1 .. Cardinality(KeysOf(v.at)) |->
                                            pop[RawGet(v.at, <<"int", i>>)]]]
           ELSE [t |-> "Dict", kids |-> [i \in DOMAIN NamesOf(v.at) |->
                  <<NamesOf(v.at)[i], pop[RawGet(v.at, <<"str", NamesOf(v.at)[i]>>)]>>]]
BY DEF Popped, NamesOf

(* The value is popped with the children of the depth below. *)
LEMMA PopBelow ==
  ASSUME NEW h \in Nat, NEW v \in Storable[h]
  PROVE  \E pop : PopNode[h][v] = Popped(v, pop)
<1>1. CASE h = 0
  BY <1>1, PoppingStep
<1>2. CASE h # 0
  <2>1. h - 1 \in Nat /\ (h - 1) + 1 = h
    BY <1>2
  <2>2. PopNode[(h - 1) + 1][v] = Popped(v, PopNode[h - 1])
    BY <2>1, PoppingStep
  <2>. QED
    BY <2>1, <2>2
<1>. QED
  BY <1>1, <1>2

(* A nil and a scalar, at any depth.                                       *)
LEMMA PopLeaf ==
  ASSUME NEW h \in Nat, NEW v \in Storable[h]
  PROVE  /\ v = LuaNil => PopNode[h][v] = [t |-> "Nil"]
         /\ IsLuaScalar(v) => PopNode[h][v] = [t |-> "Scalar", v |-> v.v]
<1>1. PICK pop : PopNode[h][v] = Popped(v, pop)
  BY PopBelow
<1>. QED
  BY <1>1, PoppedLeaf

(* The Objects that lua_pop_object makes are Objects.                      *)
LEMMA NilMade == ASSUME NEW h \in Nat PROVE [t |-> "Nil"] \in Object[h]
<1>1. [t |-> ObjectTypes.null] \in Trees(ObjectTypes)[h]
  BY LeavesMade
<1>. QED  BY <1>1, TypeNames DEF Object

LEMMA ScalarMade ==
  ASSUME NEW h \in Nat, NEW s \in Scalars PROVE [t |-> "Scalar", v |-> s] \in Object[h]
<1>1. [t |-> ObjectTypes.scalar, v |-> s] \in Trees(ObjectTypes)[h]
  BY LeavesMade
<1>. QED  BY <1>1, TypeNames DEF Object

LEMMA ArrayObject ==
  ASSUME NEW h \in Nat, NEW k \in Seq(Object[h])
  PROVE  [t |-> "Array", kids |-> k] \in Object[h + 1]
<1>1. k \in Seq(Trees(ObjectTypes)[h])
  BY DEF Object
<1>2. [t |-> ObjectTypes.array, kids |-> k] \in Trees(ObjectTypes)[h + 1]
  BY <1>1, ArrayMade
<1>. QED  BY <1>2, TypeNames DEF Object

LEMMA DictObject ==
  ASSUME NEW h \in Nat, NEW k \in Seq(Names \X Object[h])
  PROVE  [t |-> "Dict", kids |-> k] \in Object[h + 1]
<1>1. k \in Seq(Names \X Trees(ObjectTypes)[h])
  BY DEF Object
<1>2. [t |-> ObjectTypes.object, kids |-> k] \in Trees(ObjectTypes)[h + 1]
  BY <1>1, DictMade
<1>. QED  BY <1>2, TypeNames DEF Object

(* The keys 1 .. n each have an entry, with a value. *)
LEMMA ArrayEntries ==
  ASSUME NEW values, NEW at \in Entries(values), ClassifyTable(KeysOf(at)) = "Array"
  PROVE  /\ Cardinality(KeysOf(at)) \in Nat
         /\ KeysOf(at) = {<<"int", i>> : i \in 1 .. Cardinality(KeysOf(at))}
         /\ \A i \in 1 .. Cardinality(KeysOf(at)) :
              <<"int", i>> \in KeysOf(at) /\ RawGet(at, <<"int", i>>) \in values
<1>1. Cardinality(KeysOf(at)) \in Nat /\ ClassifyTable(KeysOf(at)) # "invalid"
  BY EntryFacts, FS_CardinalityType
<1>2. KeysOf(at) = {<<"int", i>> : i \in 1 .. Cardinality(KeysOf(at))}
  BY <1>1, ClassifyFacts
<1>3. ASSUME NEW i \in 1 .. Cardinality(KeysOf(at)) PROVE <<"int", i>> \in KeysOf(at)
  BY <1>2
<1>4. ASSUME NEW i \in 1 .. Cardinality(KeysOf(at)) PROVE RawGet(at, <<"int", i>>) \in values
  BY <1>3, EntryFacts
<1>. QED
  BY <1>1, <1>2, <1>3, <1>4

(* The keys of a dict are its names, each with a value. *)
LEMMA DictEntries ==
  ASSUME NEW values, NEW at \in Entries(values), ClassifyTable(KeysOf(at)) # "Array"
  PROVE  /\ NamesOf(at) \in Seq(Names)
         /\ \A i \in DOMAIN NamesOf(at) : /\ <<"str", NamesOf(at)[i]>> \in KeysOf(at)
                                          /\ RawGet(at, <<"str", NamesOf(at)[i]>>) \in values
         /\ \A k \in KeysOf(at) : \E i \in DOMAIN NamesOf(at) : k = <<"str", NamesOf(at)[i]>>
         /\ \A i, j \in DOMAIN NamesOf(at) : NamesOf(at)[i] = NamesOf(at)[j] => i = j
<1>. DEFINE K == KeysOf(at)
            N == {k[2] : k \in K}
<1>1. IsFiniteSet(K) /\ ClassifyTable(K) # "invalid" /\ \A k \in K : k \in LuaKeys
  BY EntryFacts
<1>2. \A k \in K : k[1] = "str"
  BY <1>1, ClassifyFacts
<1>3. ASSUME NEW k \in K PROVE k[2] \in Names /\ k = <<"str", k[2]>>
  <2>1. k \in ({"int"} \X Nat) \cup ({"str"} \X Names) /\ k[1] = "str"
    BY <1>1, <1>2 DEF LuaKeys
  <2>2. ~ (k \in {"int"} \X Nat)
    BY <2>1
  <2>. QED
    BY <2>1, <2>2
<1>4. IsFiniteSet(N) /\ N \subseteq Names
  BY <1>1, <1>3, SecondsFinite
<1>5. /\ NamesOf(at) \in Seq(N)
      /\ \A x \in N : \E i \in DOMAIN NamesOf(at) : NamesOf(at)[i] = x
      /\ \A i, j \in DOMAIN NamesOf(at) : NamesOf(at)[i] = NamesOf(at)[j] => i = j
  <2>1. NamesOf(at) = SetToSeq(N)
    BY DEF NamesOf
  <2>. HIDE DEF N
  <2>. QED
    BY <1>4, <2>1, SetToSeqFacts
<1>6. ASSUME NEW i \in DOMAIN NamesOf(at)
      PROVE  <<"str", NamesOf(at)[i]>> \in K
  <2>1. NamesOf(at)[i] \in N
    BY <1>5, SeqIs
  <2>2. PICK k \in K : k[2] = NamesOf(at)[i]
    BY <2>1
  <2>. QED
    BY <1>3, <2>2
<1>7. ASSUME NEW i \in DOMAIN NamesOf(at)
      PROVE  RawGet(at, <<"str", NamesOf(at)[i]>>) \in values
  BY <1>6, EntryFacts
<1>8. ASSUME NEW k \in K PROVE \E i \in DOMAIN NamesOf(at) : k = <<"str", NamesOf(at)[i]>>
  <2>1. PICK i \in DOMAIN NamesOf(at) : NamesOf(at)[i] = k[2]
    BY <1>5
  <2>. QED
    BY <1>3, <2>1
<1>9. NamesOf(at) \in Seq(Names)
  <2>1. \A i \in DOMAIN NamesOf(at) : NamesOf(at)[i] \in Names
    BY <1>4, <1>5, SeqIs
  <2>2. NamesOf(at) = [i \in DOMAIN NamesOf(at) |-> NamesOf(at)[i]]
    BY <1>5, SeqIs
  <2>. HIDE DEF N
  <2>. QED
    BY <1>5, <2>1, <2>2, SeqMade
<1>. QED
  BY <1>5, <1>6, <1>7, <1>8, <1>9

(* The Object of a table, with its children. *)
ArrayOf(at, h) == [i \in 1 .. Cardinality(KeysOf(at)) |-> PopNode[h][RawGet(at, <<"int", i>>)]]
MembersOf(at, h) ==
  [i \in DOMAIN NamesOf(at) |->
     <<NamesOf(at)[i], PopNode[h][RawGet(at, <<"str", NamesOf(at)[i]>>)]>>]

(* A table, with the children of the depth below.                          *)
LEMMA PopTable ==
  ASSUME NEW h \in Nat, NEW v \in Storable[h + 1], IsLuaTable(v, Storable[h])
  PROVE  /\ ClassifyTable(KeysOf(v.at)) = "Array" =>
              PopNode[h + 1][v] = [t |-> "Array", kids |-> ArrayOf(v.at, h)]
         /\ ClassifyTable(KeysOf(v.at)) # "Array" =>
              PopNode[h + 1][v] = [t |-> "Dict", kids |-> MembersOf(v.at, h)]
<1>1. PopNode[h + 1][v] = Popped(v, PopNode[h])
  BY PoppingStep
<1>2. v.t = "table"
  BY DEF IsLuaTable
<1>. QED
  BY <1>1, <1>2, PoppedTable DEF ArrayOf, MembersOf

(* Its children are Objects, if those of the depth below are.              *)
LEMMA TableTyped ==
  ASSUME NEW h \in Nat, NEW at \in Entries(Storable[h] \ {LuaNil}),
         Maps(PopNode[h], Storable[h], Object[h])
  PROVE  /\ ClassifyTable(KeysOf(at)) = "Array" => ArrayOf(at, h) \in Seq(Object[h])
         /\ ClassifyTable(KeysOf(at)) # "Array" => MembersOf(at, h) \in Seq(Names \X Object[h])
<1>. DEFINE V == Storable[h] \ {LuaNil}
            p == PopNode[h]
            O == Object[h]
<1>1. \A x \in V : p[x] \in O
  BY DEF Maps
<1>2. ASSUME ClassifyTable(KeysOf(at)) = "Array" PROVE ArrayOf(at, h) \in Seq(O)
  <2>. DEFINE n == Cardinality(KeysOf(at))
  <2>1. n \in Nat /\ \A i \in 1 .. n : RawGet(at, <<"int", i>>) \in V
    BY <1>2, ArrayEntries
  <2>2. ArrayOf(at, h) = [i \in 1 .. n |-> p[RawGet(at, <<"int", i>>)]]
    BY DEF ArrayOf
  <2>. HIDE DEF n, V, p, O
  <2>3. \A i \in 1 .. n : p[RawGet(at, <<"int", i>>)] \in O
    BY <1>1, <2>1
  <2>4. ArrayOf(at, h) \in [1 .. n -> O]
    BY <2>2, <2>3
  <2>. QED
    BY <2>1, <2>4
<1>3. ASSUME ClassifyTable(KeysOf(at)) # "Array" PROVE MembersOf(at, h) \in Seq(Names \X O)
  <2>. DEFINE s == NamesOf(at)
              m == MembersOf(at, h)
  <2>1. s \in Seq(Names) /\ \A i \in DOMAIN s : RawGet(at, <<"str", s[i]>>) \in V
    BY <1>3, DictEntries
  <2>2. m = [i \in DOMAIN s |-> <<s[i], p[RawGet(at, <<"str", s[i]>>)]>>]
    BY DEF MembersOf
  <2>. HIDE DEF s, V, p, O, m
  <2>3. \A i \in DOMAIN s : s[i] \in Names
    BY <2>1, SeqIs
  <2>4. \A i \in DOMAIN s : m[i] = <<s[i], p[RawGet(at, <<"str", s[i]>>)]>>
    BY <2>2
  <2>5. ASSUME NEW i \in DOMAIN s PROVE m[i] \in Names \X O
    <3>1. p[RawGet(at, <<"str", s[i]>>)] \in O
      BY <1>1, <2>1
    <3>2. m[i] = <<s[i], p[RawGet(at, <<"str", s[i]>>)]>> /\ s[i] \in Names
      BY <2>3, <2>4
    <3>. QED
      BY <3>1, <3>2
  <2>6. m = [i \in DOMAIN s |-> m[i]]
    BY <2>2
  <2>. QED
    BY <2>1, <2>5, <2>6, SeqMade DEF m
<1>. QED
  BY <1>2, <1>3

(* Nil is no scalar and no container.                                      *)
LEMMA NilOrNot ==
  ASSUME NEW x, NEW v, NEW values
  PROVE  /\ x = [t |-> "Nil"] => x.t = "Nil"
         /\ x.t = "Scalar" \/ x.t = "Array" \/ x.t = "Dict" => x.t # "Nil"
         /\ IsLuaScalar(v) \/ IsLuaTable(v, values) => v # LuaNil
BY DEF IsLuaScalar, IsLuaTable, LuaNil

(* What is popped is an Object, Nil for nil and for nothing else.          *)
LEMMA PopTyped ==
  \A h \in Nat : \A v \in Storable[h] :
    PopNode[h][v] \in Object[h] /\ (PopNode[h][v].t = "Nil" <=> v = LuaNil)
<1>. DEFINE Typed(h, v) == PopNode[h][v] \in Object[h] /\ (PopNode[h][v].t = "Nil" <=> v = LuaNil)
            S == {h \in Nat : \A v \in Storable[h] : Typed(h, v)}
<1>1. ASSUME NEW h \in Nat, NEW v \in Storable[h], v = LuaNil PROVE Typed(h, v)
  <2>1. PopNode[h][v] = [t |-> "Nil"]
    BY <1>1, PopLeaf
  <2>. QED
    BY <1>1, <2>1, NilMade
<1>2. ASSUME NEW h \in Nat, NEW v \in Storable[h], IsLuaScalar(v) PROVE Typed(h, v)
  <2>1. PopNode[h][v] = [t |-> "Scalar", v |-> v.v] /\ v.v \in Scalars
    BY <1>2, PopLeaf DEF IsLuaScalar
  <2>2. PopNode[h][v] \in Object[h]
    BY <2>1, ScalarMade
  <2>3. PopNode[h][v].t # "Nil" /\ v # LuaNil
    BY <1>2, <2>1, NilOrNot
  <2>. QED
    BY <2>2, <2>3
<1>3. 0 \in S
  <2>1. ASSUME NEW v \in Storable[0] PROVE Typed(0, v)
    <3>. HIDE DEF Typed
    <3>. QED
      BY <1>1, <1>2, LuaLeaf
  <2>. QED
    BY <2>1
<1>4. ASSUME NEW h \in Nat, h \in S PROVE h + 1 \in S
  <2>1. Maps(PopNode[h], Storable[h], Object[h])
    BY <1>4 DEF Maps
  <2>2. ASSUME NEW v \in Storable[h + 1], IsLuaTable(v, Storable[h]) PROVE Typed(h + 1, v)
    <3>1. v.at \in Entries(Storable[h] \ {LuaNil}) /\ v # LuaNil
      BY <2>2, NilOrNot DEF IsLuaTable
    <3>2. CASE ClassifyTable(KeysOf(v.at)) = "Array"
      <4>1. PopNode[h + 1][v] = [t |-> "Array", kids |-> ArrayOf(v.at, h)]
        BY <2>2, <3>2, PopTable
      <4>2. ArrayOf(v.at, h) \in Seq(Object[h])
        BY <2>1, <3>1, <3>2, TableTyped
      <4>3. PopNode[h + 1][v] \in Object[h + 1]
        BY <4>1, <4>2, ArrayObject
      <4>4. PopNode[h + 1][v].t # "Nil"
        BY <4>1, NilOrNot
      <4>. QED
        BY <3>1, <4>3, <4>4
    <3>3. CASE ClassifyTable(KeysOf(v.at)) # "Array"
      <4>1. PopNode[h + 1][v] = [t |-> "Dict", kids |-> MembersOf(v.at, h)]
        BY <2>2, <3>3, PopTable
      <4>2. MembersOf(v.at, h) \in Seq(Names \X Object[h])
        BY <2>1, <3>1, <3>3, TableTyped
      <4>3. PopNode[h + 1][v] \in Object[h + 1]
        BY <4>1, <4>2, DictObject
      <4>4. PopNode[h + 1][v].t # "Nil"
        BY <4>1, NilOrNot
      <4>. QED
        BY <3>1, <4>3, <4>4
    <3>. QED
      BY <3>2, <3>3
  <2>3. h + 1 \in Nat
    OBVIOUS
  <2>4. ASSUME NEW v \in Storable[h + 1] PROVE Typed(h + 1, v)
    <3>. HIDE DEF Typed
    <3>. QED
      BY <1>1, <1>2, <2>2, <2>3, LuaKinds
  <2>. QED
    BY <2>3, <2>4
<1>. HIDE DEF S
<1>5. \A h \in Nat : h \in S
  BY <1>3, <1>4, SetInduction
<1>. QED
  BY <1>5 DEF S

(* What a Lua value says, by way of the Object it becomes. *)
LuaMeant(h, v) == Meant(h, PopNode[h][v])
TableMeaning(at, h) == {<<e[1][1], e[1][2], LuaMeant(h, e[2])>> : e \in at}
KeyMeaning(at, h, k) == <<k[1], k[2], LuaMeant(h, RawGet(at, k))>>

(* A table, read by its keys.                                              *)
LEMMA TableByKeys ==
  ASSUME NEW h, NEW values, NEW at \in Entries(values)
  PROVE  TableMeaning(at, h) = {KeyMeaning(at, h, k) : k \in KeysOf(at)}
<1>1. ASSUME NEW e \in at
      PROVE  <<e[1][1], e[1][2], LuaMeant(h, e[2])>> = KeyMeaning(at, h, e[1]) /\ e[1] \in KeysOf(at)
  <2>1. RawGet(at, e[1]) = e[2] /\ e[1] \in KeysOf(at)
    BY EntryFacts
  <2>. QED
    BY <2>1 DEF KeyMeaning
<1>2. ASSUME NEW k \in KeysOf(at) PROVE \E e \in at : e[1] = k
  BY DEF KeysOf
<1>. QED
  BY <1>1, <1>2 DEF TableMeaning

(* What a table says: what its values say, by key.                         *)
LEMMA TableSaid ==
  ASSUME NEW h \in Nat, NEW v \in Storable[h + 1], IsLuaTable(v, Storable[h])
  PROVE  LuaMeant(h + 1, v) = TableMeaning(v.at, h)
<1>. DEFINE at == v.at
            O == Object[h]
            V == Storable[h] \ {LuaNil}
            o == PopNode[h + 1][v]
<1>1. at \in Entries(V)
  BY DEF IsLuaTable
<1>2. \A x \in V : PopNode[h][x] \in O /\ PopNode[h][x].t # "Nil"
  BY PopTyped
<1>3. Maps(PopNode[h], Storable[h], Object[h])
  BY PopTyped DEF Maps
<1>4. o \in Object[h + 1]
  BY PopTyped
<1>5. TableMeaning(at, h) = {KeyMeaning(at, h, k) : k \in KeysOf(at)}
  BY <1>1, TableByKeys
<1>6. CASE ClassifyTable(KeysOf(at)) = "Array"
  <2>. DEFINE kids == ArrayOf(at, h)
              n == Cardinality(KeysOf(at))
  <2>1. o = [t |-> "Array", kids |-> kids]
    BY <1>6, PopTable
  <2>2. kids \in Seq(O)
    BY <1>1, <1>3, <1>6, TableTyped
  <2>3. DOMAIN kids = 1 .. n /\ \A i \in 1 .. n : kids[i] = PopNode[h][RawGet(at, <<"int", i>>)]
    BY DEF ArrayOf
  <2>4. /\ KeysOf(at) = {<<"int", i>> : i \in 1 .. n}
        /\ \A i \in 1 .. n : RawGet(at, <<"int", i>>) \in V
    <3>. HIDE DEF at, V
    <3>. QED  BY <1>1, <1>6, ArrayEntries
  <2>. HIDE DEF kids, n, at, V, O, o
  <2>5. o.t = "Array" /\ o.kids = kids
    BY <2>1
  <2>6. IsArray(o, ObjectTypes, O)
    BY <2>1, <2>2, <2>5, TypeNames DEF IsArray
  <2>7. Meant(h + 1, o) = {<<"int", i, Meant(h, kids[i])>> : i \in {k \in DOMAIN kids : kids[k].t # "Nil"}}
    BY <1>4, <2>5, <2>6, ArrayMeant DEF O
  <2>8. {k \in DOMAIN kids : kids[k].t # "Nil"} = 1 .. n
    BY <1>2, <2>3, <2>4
  <2>9. ASSUME NEW i \in 1 .. n
        PROVE  <<"int", i, Meant(h, kids[i])>> = KeyMeaning(at, h, <<"int", i>>)
    BY <2>3 DEF KeyMeaning, LuaMeant
  <2>10. Meant(h + 1, o) = {KeyMeaning(at, h, <<"int", i>>) : i \in 1 .. n}
    BY <2>7, <2>8, <2>9
  <2>11. Meant(h + 1, o) = {KeyMeaning(at, h, k) : k \in KeysOf(at)}
    BY <2>4, <2>10
  <2>. QED
    BY <1>5, <2>11 DEF LuaMeant, o, at
<1>7. CASE ClassifyTable(KeysOf(at)) # "Array"
  <2>. DEFINE kids == MembersOf(at, h)
              s == NamesOf(at)
              N == NamesIn(kids)
  <2>1. o = [t |-> "Dict", kids |-> kids]
    BY <1>7, PopTable
  <2>2. kids \in Seq(Names \X O)
    BY <1>1, <1>3, <1>7, TableTyped
  <2>3. DOMAIN kids = DOMAIN s
        /\ \A i \in DOMAIN s : /\ kids[i][1] = s[i]
                               /\ kids[i][2] = PopNode[h][RawGet(at, <<"str", s[i]>>)]
    BY DEF MembersOf
  <2>4. /\ \A i \in DOMAIN s : <<"str", s[i]>> \in KeysOf(at) /\ RawGet(at, <<"str", s[i]>>) \in V
        /\ \A k \in KeysOf(at) : \E i \in DOMAIN s : k = <<"str", s[i]>>
        /\ \A i, j \in DOMAIN s : s[i] = s[j] => i = j
    <3>. HIDE DEF at, V
    <3>. QED  BY <1>1, <1>7, DictEntries
  <2>. HIDE DEF kids, s, at, V, O, o
  <2>5. o.t = "Dict" /\ o.kids = kids
    BY <2>1
  <2>6. IsDict(o, ObjectTypes, O)
    BY <2>1, <2>2, <2>5, TypeNames DEF IsDict
  <2>7. Meant(h + 1, o) =
          {<<"str", n, Meant(h, LastOf(kids, n))>> : n \in {m \in N : LastOf(kids, m).t # "Nil"}}
    BY <1>4, <2>5, <2>6, DictMeant DEF O
  <2>8. /\ \A i \in DOMAIN s : s[i] \in N
        /\ \A n \in N : \E i \in DOMAIN s : s[i] = n
    <3>1. DOMAIN kids = DOMAIN s /\ \A i \in DOMAIN s : kids[i][1] = s[i]
      BY <2>3
    <3>. QED
      BY <3>1, Zenon DEF NamesIn
  <2>9. ASSUME NEW n \in N
        PROVE  /\ LastOf(kids, n) = PopNode[h][RawGet(at, <<"str", n>>)]
               /\ LastOf(kids, n).t # "Nil" /\ <<"str", n>> \in KeysOf(at)
    <3>1. PICK i \in DOMAIN s : s[i] = n
      BY <2>8
    <3>2. DOMAIN s \subseteq Nat
      BY <2>2, <2>3
    <3>3. LastAt(kids, n, i)
      <4>1. i \in DOMAIN kids /\ kids[i][1] = n
        BY <2>3, <3>1
      <4>2. ASSUME NEW k \in DOMAIN kids, kids[k][1] = n PROVE k = i
        <5>1. k \in DOMAIN s /\ s[k] = s[i]
          BY <2>3, <3>1, <4>2
        <5>. QED
          BY <2>4, <5>1
      <4>3. i \in Nat
        BY <3>2
      <4>. QED
        BY <4>1, <4>2, <4>3 DEF LastAt
    <3>4. LastOf(kids, n) = kids[i][2]
      BY <2>2, <3>3, LastIs
    <3>. QED
      BY <1>2, <2>3, <2>4, <3>1, <3>4
  <2>10. {m \in N : LastOf(kids, m).t # "Nil"} = N
    BY <2>9
  <2>11. ASSUME NEW n \in N
         PROVE  <<"str", n, Meant(h, LastOf(kids, n))>> = KeyMeaning(at, h, <<"str", n>>)
    BY <2>9 DEF KeyMeaning, LuaMeant
  <2>12. KeysOf(at) = {<<"str", n>> : n \in N}
    <3>1. \A k \in KeysOf(at) : \E n \in N : k = <<"str", n>>
      BY <2>4, <2>8
    <3>. QED
      BY <2>9, <3>1
  <2>. HIDE DEF N
  <2>13. Meant(h + 1, o) = {KeyMeaning(at, h, <<"str", n>>) : n \in N}
    BY <2>7, <2>10, <2>11
  <2>14. Meant(h + 1, o) = {KeyMeaning(at, h, k) : k \in KeysOf(at)}
    BY <2>12, <2>13
  <2>. QED
    BY <1>5, <2>14 DEF LuaMeant, o, at
<1>. QED
  BY <1>6, <1>7

---------------------------------------------------------------------------
(* Object to Lua and back. *)

(* The value is pushed with the children of the depth below.               *)
LEMMA PushBelow ==
  ASSUME NEW h \in Nat, NEW o \in Object[h]
  PROVE  \E push : ObjectToLua[h][o] = Pushed(o, push)
<1>1. CASE h = 0
  BY <1>1, PushingStep
<1>2. CASE h # 0
  <2>1. h - 1 \in Nat /\ (h - 1) + 1 = h
    BY <1>2
  <2>2. ObjectToLua[(h - 1) + 1][o] = Pushed(o, ObjectToLua[h - 1])
    BY <2>1, PushingStep
  <2>. QED
    BY <2>1, <2>2
<1>. QED
  BY <1>1, <1>2

(* Pushed, kind by kind.                                                   *)
LEMMA PushedKinds ==
  ASSUME NEW o, NEW push
  PROVE  /\ o.t = "Nil" => Pushed(o, push) = LuaNil
         /\ o.t = "Scalar" => Pushed(o, push) = [t |-> "scalar", v |-> o.v]
         /\ o.t = "Array" =>
              Pushed(o, push) =
                [t |-> "table", at |-> {<<<<"int", i>>, push[o.kids[i]]>> :
                                          i \in {k \in DOMAIN o.kids : o.kids[k].t # "Nil"}}]
         /\ o.t = "Dict" =>
              Pushed(o, push) =
                [t |-> "table", at |-> {<<<<"str", n>>, push[LastOf(o.kids, n)]>> :
                                          n \in {m \in NamesIn(o.kids) : LastOf(o.kids, m).t # "Nil"}}]
BY DEF Pushed

LEMMA PushedArray ==
  ASSUME NEW o, NEW push, o.t = "Array"
  PROVE  Pushed(o, push) =
           [t |-> "table", at |-> {<<<<"int", i>>, push[o.kids[i]]>> :
                                     i \in {k \in DOMAIN o.kids : o.kids[k].t # "Nil"}}]
BY PushedKinds

LEMMA PushedDict ==
  ASSUME NEW o, NEW push, o.t = "Dict"
  PROVE  Pushed(o, push) =
           [t |-> "table", at |-> {<<<<"str", n>>, push[LastOf(o.kids, n)]>> :
                                     n \in {m \in NamesIn(o.kids) : LastOf(o.kids, m).t # "Nil"}}]
BY PushedKinds

(* A leaf comes back.                                                      *)
LEMMA LeafEcho ==
  ASSUME NEW h \in Nat, NEW o \in Object[h],
         IsNull(o, ObjectTypes) \/ IsScalar(o, ObjectTypes),
         ObjectToLua[h][o] \in Storable[h]
  PROVE  LuaMeant(h, ObjectToLua[h][o]) = Meant(h, o)
<1>. DEFINE v == ObjectToLua[h][o]
<1>1. PICK push : v = Pushed(o, push)
  BY PushBelow
<1>. HIDE DEF v
<1>2. CASE IsNull(o, ObjectTypes)
  <2>1. o.t = "Nil" /\ o = [t |-> "Nil"]
    BY <1>2, TypeNames DEF IsNull
  <2>2. v = LuaNil
    BY <1>1, <2>1, PushedKinds
  <2>3. PopNode[h][v] = [t |-> "Nil"]
    BY <2>2, PopLeaf DEF v
  <2>. QED
    BY <2>1, <2>3 DEF LuaMeant, v
<1>3. CASE IsScalar(o, ObjectTypes)
  <2>1. o.t = "Scalar" /\ o.v \in Scalars /\ o = [t |-> "Scalar", v |-> o.v]
    BY <1>3, TypeNames DEF IsScalar
  <2>2. v = [t |-> "scalar", v |-> o.v]
    BY <1>1, <2>1, PushedKinds
  <2>3. IsLuaScalar(v) /\ v.v = o.v
    BY <2>1, <2>2 DEF IsLuaScalar
  <2>4. PopNode[h][v] = [t |-> "Scalar", v |-> v.v]
    BY <2>3, PopLeaf DEF v
  <2>5. PopNode[h][v] = o
    BY <2>1, <2>3, <2>4
  <2>. QED
    BY <2>5 DEF LuaMeant, v
<1>. QED
  BY <1>2, <1>3

(* A table that can be taken is a table of such values.                    *)
LEMMA TableKind ==
  ASSUME NEW h \in Nat, NEW v \in Storable[h + 1], v.t = "table"
  PROVE  IsLuaTable(v, Storable[h])
<1>1. v # LuaNil /\ ~ IsLuaScalar(v)
  BY DEF LuaNil, IsLuaScalar
<1>. QED
  BY <1>1, LuaKinds

(* What comes back says what went out.                                     *)
LEMMA EchoSaid ==
  \A h \in Nat : \A o \in Object[h] :
    ObjectToLua[h][o] \in Storable[h] => LuaMeant(h, ObjectToLua[h][o]) = Meant(h, o)
<1>. DEFINE Echoed(h, o) ==
              ObjectToLua[h][o] \in Storable[h] => LuaMeant(h, ObjectToLua[h][o]) = Meant(h, o)
            S == {h \in Nat : \A o \in Object[h] : Echoed(h, o)}
<1>1. 0 \in S
  <2>1. ASSUME NEW o \in Object[0] PROVE Echoed(0, o)
    <3>1. IsNull(o, ObjectTypes) \/ IsScalar(o, ObjectTypes)
      BY TreeLeaf DEF Object
    <3>. QED
      BY <3>1, LeafEcho
  <2>. QED
    BY <2>1
<1>2. ASSUME NEW h \in Nat, h \in S PROVE h + 1 \in S
  <2>. DEFINE push == ObjectToLua[h]
              O == Object[h]
  <2>1. \A x \in O : push[x] \in Storable[h] => LuaMeant(h, push[x]) = Meant(h, x)
    BY <1>2
  <2>2. ASSUME NEW o \in Object[h + 1], IsArray(o, ObjectTypes, O),
               ObjectToLua[h + 1][o] \in Storable[h + 1]
        PROVE  LuaMeant(h + 1, ObjectToLua[h + 1][o]) = Meant(h + 1, o)
    <3>. DEFINE v == ObjectToLua[h + 1][o]
                N == {k \in DOMAIN o.kids : o.kids[k].t # "Nil"}
    <3>1. o.t = "Array" /\ o.kids \in Seq(O)
      BY <2>2, TypeNames DEF IsArray
    <3>0. v = Pushed(o, push)
      BY PushingStep
    <3>2. v = [t |-> "table", at |-> {<<<<"int", i>>, push[o.kids[i]]>> : i \in N}]
      BY <3>0, <3>1, PushedArray
    <3>. HIDE DEF v
    <3>3. v.t = "table" /\ v.at = {<<<<"int", i>>, push[o.kids[i]]>> : i \in N}
      BY <3>2
    <3>4. IsLuaTable(v, Storable[h])
      BY <2>2, <3>3, TableKind DEF v
    <3>5. v.at \in Entries(Storable[h] \ {LuaNil})
      BY <3>4 DEF IsLuaTable
    <3>6. LuaMeant(h + 1, v) = TableMeaning(v.at, h)
      BY <2>2, <3>4, TableSaid DEF v
    <3>7. \A i \in N : o.kids[i] \in O
      BY <3>1, SeqIs
    <3>. HIDE DEF N, push, O, S
    <3>8. ASSUME NEW i \in N PROVE LuaMeant(h, push[o.kids[i]]) = Meant(h, o.kids[i])
      <4>. DEFINE e == <<<<"int", i>>, push[o.kids[i]]>>
      <4>1. e \in v.at /\ e[2] = push[o.kids[i]]
        BY <3>3
      <4>2. e[2] \in Storable[h]
        <5>. HIDE DEF e
        <5>. QED  BY <3>5, <4>1, EntryFacts
      <4>. QED
        BY <2>1, <3>7, <4>1, <4>2
    <3>9. TableMeaning(v.at, h) = {<<"int", i, LuaMeant(h, push[o.kids[i]])>> : i \in N}
      <4>. DEFINE entry == [i \in N |-> <<<<"int", i>>, push[o.kids[i]]>>]
                  said(e) == <<e[1][1], e[1][2], LuaMeant(h, e[2])>>
      <4>1. v.at = {entry[i] : i \in N}
        BY <3>3
      <4>2. \A i \in N : said(entry[i]) = <<"int", i, LuaMeant(h, push[o.kids[i]])>>
        OBVIOUS
      <4>3. TableMeaning(v.at, h) = {said(e) : e \in v.at}
        BY DEF TableMeaning
      <4>. HIDE DEF entry, said
      <4>. QED
        BY <4>1, <4>2, <4>3
    <3>10. TableMeaning(v.at, h) = {<<"int", i, Meant(h, o.kids[i])>> : i \in N}
      BY <3>8, <3>9
    <3>11. Meant(h + 1, o) = {<<"int", i, Meant(h, o.kids[i])>> : i \in N}
      BY <2>2, ArrayMeant DEF N, O
    <3>. QED
      BY <3>6, <3>10, <3>11 DEF v
  <2>3. ASSUME NEW o \in Object[h + 1], IsDict(o, ObjectTypes, O),
               ObjectToLua[h + 1][o] \in Storable[h + 1]
        PROVE  LuaMeant(h + 1, ObjectToLua[h + 1][o]) = Meant(h + 1, o)
    <3>. DEFINE v == ObjectToLua[h + 1][o]
                last == [n \in NamesIn(o.kids) |-> LastOf(o.kids, n)]
                N == {n \in NamesIn(o.kids) : LastOf(o.kids, n).t # "Nil"}
    <3>1. o.t = "Dict" /\ o.kids \in Seq(Names \X O)
      BY <2>3, TypeNames DEF IsDict
    <3>0. v = Pushed(o, push)
      BY PushingStep
    <3>2. v = [t |-> "table", at |-> {<<<<"str", n>>, push[LastOf(o.kids, n)]>> : n \in N}]
      BY <3>0, <3>1, PushedDict
    <3>. HIDE DEF v
    <3>3. v.t = "table" /\ v.at = {<<<<"str", n>>, push[LastOf(o.kids, n)]>> : n \in N}
      BY <3>2
    <3>4. IsLuaTable(v, Storable[h])
      BY <2>3, <3>3, TableKind DEF v
    <3>5. v.at \in Entries(Storable[h] \ {LuaNil})
      BY <3>4 DEF IsLuaTable
    <3>6. LuaMeant(h + 1, v) = TableMeaning(v.at, h)
      BY <2>3, <3>4, TableSaid DEF v
    <3>. HIDE DEF push, O, S
    <3>7. \A n \in N : LastOf(o.kids, n) \in O
      BY <3>1, LastTyped
    <3>. HIDE DEF N
    <3>8. ASSUME NEW n \in N PROVE LuaMeant(h, push[LastOf(o.kids, n)]) = Meant(h, LastOf(o.kids, n))
      <4>. DEFINE e == <<<<"str", n>>, push[LastOf(o.kids, n)]>>
      <4>1. e \in v.at /\ e[2] = push[LastOf(o.kids, n)]
        BY <3>3
      <4>2. e[2] \in Storable[h]
        <5>. HIDE DEF e
        <5>. QED  BY <3>5, <4>1, EntryFacts
      <4>. QED
        BY <2>1, <3>7, <4>1, <4>2
    <3>9. TableMeaning(v.at, h) = {<<"str", n, LuaMeant(h, push[LastOf(o.kids, n)])>> : n \in N}
      <4>. DEFINE entry == [n \in N |-> <<<<"str", n>>, push[LastOf(o.kids, n)]>>]
                  said(e) == <<e[1][1], e[1][2], LuaMeant(h, e[2])>>
      <4>1. v.at = {entry[n] : n \in N}
        BY <3>3
      <4>2. \A n \in N : said(entry[n]) = <<"str", n, LuaMeant(h, push[LastOf(o.kids, n)])>>
        OBVIOUS
      <4>3. TableMeaning(v.at, h) = {said(e) : e \in v.at}
        BY DEF TableMeaning
      <4>. HIDE DEF entry, said
      <4>. QED
        BY <4>1, <4>2, <4>3
    <3>10. TableMeaning(v.at, h) = {<<"str", n, Meant(h, LastOf(o.kids, n))>> : n \in N}
      BY <3>8, <3>9
    <3>11. Meant(h + 1, o) = {<<"str", n, Meant(h, LastOf(o.kids, n))>> : n \in N}
      BY <2>3, DictMeant DEF N, O
    <3>. QED
      BY <3>6, <3>10, <3>11 DEF v
  <2>4. h + 1 \in Nat
    OBVIOUS
  <2>5. ASSUME NEW o \in Object[h + 1] PROVE Echoed(h + 1, o)
    BY <2>2, <2>3, <2>4, ObjectKinds, LeafEcho
  <2>. QED
    BY <2>4, <2>5
<1>. HIDE DEF S
<1>3. \A h \in Nat : h \in S
  BY <1>1, <1>2, SetInduction
<1>. QED
  BY <1>3 DEF S

(* Arguments that a hook hands back as it was shown them mean what they    *)
(* meant, if they can be taken at all.                                     *)
LEMMA EchoMeans ==
  ASSUME NEW j, LuaArgs(j) # Failed, CaptureToolPreArgs(LuaArgs(j)) # Failed
  PROVE  Meaning[MarshalDepthCap][CaptureToolPreArgs(LuaArgs(j))] = Meaning[MarshalDepthCap][j]
<1>. DEFINE h == MarshalDepthCap
            o == ObjectNode[h][j]
            v == ObjectToLua[h][o]
<1>1. h \in Nat
  BY MarshalAssumption
<1>2. j \in Json[h] /\ LuaArgs(j) = v
  BY DEF LuaArgs, CjsonToObject
<1>3. o \in Object[h] /\ ObjectToCjson[h][o] = j
  BY <1>1, <1>2, TypesDistinct, ConversionType, ConversionBack
     DEF Json, Object, ObjectNode, ObjectToCjson
<1>. HIDE DEF o, v, h
<1>4. v \in Storable[h] /\ CaptureToolPreArgs(v) = ObjectToCjson[h][PopNode[h][v]]
  BY <1>2 DEF CaptureToolPreArgs, LuaPopObject, h
<1>5. LuaMeant(h, v) = Meant(h, o)
  BY <1>1, <1>3, <1>4, EchoSaid DEF v
<1>. QED
  BY <1>2, <1>3, <1>4, <1>5 DEF LuaMeant, Meant, ObjectCjson, h

---------------------------------------------------------------------------
(* What a hook that hands the arguments back does to a call. *)

(* While the hooks leave the table alone it is the one made from the       *)
(* arguments proposed, and these stay until the dispatch ends, with what   *)
(* the table becomes if a hook returned it.                                *)
Echoes ==
  d.event = "ToolPre" /\ ~d.foreign =>
    /\ call.proposed \in Args /\ d.payload = Shown(call.proposed) /\ d.payload # NoValue
    /\ pc \in {"dispatch", "hook"} => call.args = call.proposed
    /\ \/ call.args = call.proposed
       \/ Captured(d.payload) # NoValue /\ call.args = Captured(d.payload)

(* A hook that returns leaves the table alone or takes the blame for it.   *)
LEMMA HookReturnsEchoes ==
  ASSUME DispatchTypes, HookReturns
  PROVE  /\ d'.event = d.event
         /\ ~d'.foreign => ~d.foreign /\ d'.payload = d.payload
<1>1. d \in DispatchRecord
  BY DEF DispatchTypes
<1>2. CASE d' = Allow(d) \/ d' = Raise(d) \/ d' = Stop(d) \/ d' = Approve(d)
  BY <1>1, <1>2 DEF Allow, Raise, Stop, Approve, DispatchRecord
<1>3. ASSUME NEW t, d' = Rewrite(d, t)
      PROVE  /\ d'.event = d.event
             /\ ~d'.foreign => ~d.foreign /\ d'.payload = d.payload
  <2>1. d'.event = d.event /\ d'.payload = t /\ d'.foreign = (d.foreign \/ t # d.payload)
    BY <1>1, <1>3 DEF Rewrite, DispatchRecord
  <2>. QED  BY <2>1
<1>. QED  BY <1>2, <1>3 DEF HookReturns

(* Every step keeps it.                                                    *)
LEMMA EchoesStep ==
  ASSUME Types, Echoes, [Next]_vars
  PROVE  Echoes'
<1>0. StoreTypes /\ DispatchTypes
  BY DEF Types
<1>1. ASSUME d'.event # "ToolPre" PROVE Echoes'
  BY <1>1 DEF Echoes
<1>2. ASSUME Go(pc') PROVE Echoes'
  <2>1. d'.event = "none"
    BY <1>2, EmptyDispatch DEF Go
  <2>. QED  BY <1>1, <2>1
<1>3. ASSUME NEW e, e # "ToolPre", Dispatch(e, NoValue) PROVE Echoes'
  <2>1. d'.event = e
    BY <1>3 DEF Dispatch, NoDispatch
  <2>. QED  BY <1>1, <1>3, <2>1
<1>4. ASSUME call' = call, d'.event = d.event, ~d'.foreign => ~d.foreign /\ d'.payload = d.payload,
             pc' \in {"dispatch", "hook"} => pc \in {"dispatch", "hook"}
      PROVE  Echoes'
  BY <1>4 DEF Echoes
<1>5. CASE UNCHANGED vars
  BY <1>4, <1>5 DEF vars
<1>6. CASE LuaStep
  <2>1. pc' = pc /\ call' = call
    BY <1>6 DEF LuaStep, Api, CreateAutocmd, RegisterTool, RegistrationRefused, ClearAutocmds,
                SetModel, AssignArgs
  <2>2. CASE d' = d
    BY <1>4, <2>1, <2>2
  <2>3. ASSUME NEW t \in Tables, AssignArgs(t) PROVE Echoes'
    <3>1. d' = [d EXCEPT !.payload = t, !.foreign = TRUE] /\ d \in DispatchRecord
      BY <1>0, <2>3 DEF AssignArgs, DispatchTypes
    <3>2. d'.foreign
      BY <3>1 DEF DispatchRecord
    <3>. QED  BY <3>2 DEF Echoes
  <2>. QED
    BY <1>6, <2>2, <2>3 DEF LuaStep, CreateAutocmd, RegisterTool, RegistrationRefused,
                            ClearAutocmds, SetModel
<1>7. CASE Startup \/ Prompt \/ Quit \/ OnText \/ ToolCompleted
  BY <1>3, <1>7 DEF Startup, Prompt, Quit, OnText, ToolCompleted
<1>8. CASE \/ StartupFails \/ Started \/ Swallowed \/ StartTurn \/ Observed \/ Request \/ TurnEnds
           \/ NextRound \/ BadCall \/ ExecuteBuiltin \/ InvokeTool \/ ToolReturns
  BY <1>2, <1>8 DEF StartupFails, Started, Swallowed, StartTurn, Observed, Request, TurnEnds,
                    NextRound, BadCall, ExecuteBuiltin, InvokeTool, ToolReturns, Go
<1>9. CASE CallHook \/ CallNothing
  <2>1. call' = call /\ pc = "dispatch" /\ d \in DispatchRecord
    BY <1>0, <1>9 DEF CallHook, CallNothing, InDispatch, DispatchTypes
  <2>2. CASE CallHook
    <3>1. PICK j \in AutocmdAt(d.event, d.i) : d' = [d EXCEPT !.heard = @ \cup {autocmds[j].id}]
      BY <2>2 DEF CallHook
    <3>2. d'.event = d.event /\ d'.foreign = d.foreign /\ d'.payload = d.payload
      BY <2>1, <3>1 DEF DispatchRecord
    <3>. QED  BY <1>4, <2>1, <3>2
  <2>3. CASE CallNothing
    <3>1. d' = [d EXCEPT !.i = @ + 1]
      BY <2>3 DEF CallNothing
    <3>2. d'.event = d.event /\ d'.foreign = d.foreign /\ d'.payload = d.payload
      BY <2>1, <3>1 DEF DispatchRecord
    <3>. QED  BY <1>4, <2>1, <3>2
  <2>. QED  BY <1>9, <2>2, <2>3
<1>10. CASE HookReturns
  <2>1. call' = call /\ pc = "hook"
    BY <1>10 DEF HookReturns
  <2>. QED  BY <1>0, <1>4, <1>10, <2>1, HookReturnsEchoes
<1>11. CASE StartTool
  <2>1. PICK name \in ToolNames \cup DOMAIN Builtin, args \in Args :
          /\ \E def \in Definition(name) : call' = [def EXCEPT !.proposed = args, !.args = args]
          /\ IF AutocmdCount("ToolPre") > 0 /\ Shown(args) # NoValue
             THEN Dispatch("ToolPre", Shown(args)) ELSE Go("base_gate")
    BY <1>11 DEF StartTool
  <2>2. call'.proposed = args /\ call'.args = args
    <3>1. PICK def \in Definition(name) : call' = [def EXCEPT !.proposed = args, !.args = args]
      BY <2>1
    <3>2. def \in CallRecord
      BY <1>0, DefinitionTyped
    <3>. QED  BY <3>1, <3>2 DEF CallRecord
  <2>3. CASE Dispatch("ToolPre", Shown(args)) /\ Shown(args) # NoValue
    <3>1. d'.payload = Shown(args)
      BY <2>3 DEF Dispatch, NoDispatch
    <3>. QED  BY <2>2, <2>3, <3>1 DEF Echoes
  <2>4. CASE Go("base_gate")
    <3>1. pc' = "base_gate"
      BY <2>4 DEF Go
    <3>. QED  BY <1>2, <2>4, <3>1
  <2>. QED  BY <2>1, <2>3, <2>4
<1>12. CASE ToolPreEnds
  <2>1. /\ pc = "dispatch" /\ d.event = "ToolPre" /\ d' = d
        /\ pc' \notin {"dispatch", "hook"}
    BY <1>12 DEF ToolPreEnds, Dispatched
  <2>2. \/ call' = call
        \/ /\ Captured(d.payload) # NoValue /\ call' = [call EXCEPT !.args = Captured(d.payload)]
    BY <1>12 DEF ToolPreEnds
  <2>3. call \in CallRecord
    BY <1>0 DEF DispatchTypes
  <2>4. call' = call \/ (/\ Captured(d.payload) # NoValue /\ call'.args = Captured(d.payload)
                         /\ call'.proposed = call.proposed)
    BY <2>2, <2>3 DEF CallRecord
  <2>. QED  BY <2>1, <2>4 DEF Echoes
<1>13. CASE GateApproves \/ GateRefuses
  <2>1. call' = call /\ d' = d /\ pc' \notin {"dispatch", "hook"}
    BY <1>13 DEF GateApproves, GateRefuses, Gates
  <2>. QED  BY <1>4, <2>1
<1>14. CASE UserApproves
  <2>1. /\ pc' = "run" /\ d' = d /\ call' = [call EXCEPT !.asked = call.args]
        /\ call \in CallRecord
    BY <1>0, <1>14 DEF UserApproves, Gates, DispatchTypes
  <2>2. call'.args = call.args /\ call'.proposed = call.proposed
    BY <2>1 DEF CallRecord
  <2>. QED  BY <2>1, <2>2 DEF Echoes
<1>15. CASE ToolsTeardown \/ AutocmdTeardown \/ LuaTeardown
  <2>1. call' = call /\ d' = d /\ pc' \notin {"dispatch", "hook"}
    BY <1>15 DEF ToolsTeardown, AutocmdTeardown, LuaTeardown
  <2>. QED  BY <1>4, <2>1
<1>. QED
  BY <1>5, <1>6, <1>7, <1>8, <1>9, <1>10, <1>11, <1>12, <1>13, <1>14, <1>15 DEF Next, MainStep

(* A hook that returns the arguments it was shown changes nothing about    *)
(* them that Lua can express, however they are nested and whatever other   *)
(* hooks do meanwhile: what runs means what was proposed (bridge.c         *)
(* push_object, classify_table, lua_pop_object, capture_tool_pre_args;     *)
(* main.c gate_with_autocmds).                                             *)
THEOREM EchoKept == Spec => []EchoKeepsArgs
<1>1. Init => Echoes
  <2>. SUFFICES ASSUME Init PROVE Echoes
    OBVIOUS
  <2>1. d.event = "none"
    BY EmptyDispatch DEF Init
  <2>. QED  BY <2>1 DEF Echoes
<1>2. Types /\ Echoes /\ [Next]_vars => Echoes'
  BY EchoesStep
<1>3. Echoes => EchoKeepsArgs
  <2>. SUFFICES ASSUME Echoes, pc = "run", d.event = "ToolPre", ~d.foreign
                PROVE  Meaning[MarshalDepthCap][call.args] = Meaning[MarshalDepthCap][call.proposed]
    BY DEF EchoKeepsArgs
  <2>. DEFINE j == call.proposed
  <2>1. j \in Args /\ Shown(j) # NoValue
        /\ (call.args = j \/ (Captured(Shown(j)) # NoValue /\ call.args = Captured(Shown(j))))
    BY DEF Echoes
  <2>. HIDE DEF j
  <2>2. CASE call.args = j
    BY <2>2 DEF j
  <2>3. CASE Captured(Shown(j)) # NoValue /\ call.args = Captured(Shown(j))
    <3>1. Shown(j) = LuaArgs(j) /\ Captured(LuaArgs(j)) = CaptureToolPreArgs(LuaArgs(j))
          /\ Failed = NoValue
      BY <2>1, MarshalledAssumption
    <3>2. LuaArgs(j) # Failed /\ CaptureToolPreArgs(LuaArgs(j)) # Failed
          /\ call.args = CaptureToolPreArgs(LuaArgs(j))
      BY <2>1, <2>3, <3>1
    <3>. QED  BY <3>2, EchoMeans DEF j
  <2>. QED  BY <2>1, <2>2, <2>3
<1>. QED  BY <1>1, <1>2, <1>3, TypesHold, PTL DEF Spec

=============================================================================
