# Verification of mua

mua is a coding agent in C: one process, one thread, a libuv event loop. A
prompt starts a *turn*, which asks a model over HTTP, streams the answer, runs
the tools the answer calls for, and asks again until there is nothing left to
run. The conversation is an append-only file; Lua hooks and tools extend the
program from within. This directory holds TLA+ models of that program, the TLC
runs that check them on small instances, and proofs of properties that hold for
all instances.

Paths below are relative to `src/src/mua/` unless they say otherwise.

## 1. The system

### Components

| Component | State it keeps | Operations | Talks to |
|---|---|---|---|
| session store, `session.c` | the JSONL file; per process the messages, `poisoned`, `needs_heal` | new, load, append, free | called by the turn loop and `main.c` |
| agent turn loop, `agent.c` | the turn: phase, step, calls, index, cancel flags, usage | start, step timer, response, error, tool completion, cancel, repair of a resumed session | session, provider, tools, loop |
| event loop and SIGINT, `loop.c` | the SIGINT count, the interrupt callback | arm, disarm, run, stop, close | everyone's callbacks |
| program lifecycle, `main.c` | which mode, the session, the client, the model and window of the next turn | set up, REPL, one turn, gates, teardown | all of the above |
| OpenRouter provider, `provider/openrouter.c` | one stream: attempt, latches, accumulated text and calls | stream, event, completion, retry, cancel, destroy | SSE parser, HTTP client, turn loop |
| HTTP client, `http.c` | requests, reap timer, curl multi | request, write callback, completion, cancel, reap, close | curl, provider |
| SSE parser, `sse.c` | BOM progress, carried line, data, type, id | feed, finish, reset | provider |
| renderer, `render.c` | the line so far, the fence flag | feed, flush | the text callback of `main.c` |
| bash tool, `tools.c` | child, pipe and timer handles, output, join counters | execute, exit, read, timeout, grace, cancel, close callbacks | libuv, turn loop |
| read, write and edit, `tools.c` | none beyond a call; the file | the three calls | file system |
| registered tools, `tools.c` | names, mutating flags, Lua references | register, look up, invoke, tear down | Lua bridge, turn loop |
| hooks and autocommands, `autocmd.c` | the list of hooks | create, clear, dispatch, tear down | Lua bridge, `main.c` |
| Lua bridge, `lua/*` | the Lua state and its registry | run init.lua, call hooks and tools, marshal values | all stores Lua can change |
| JSON boundary, `json.c` | none | cJSON to Object and back | Lua bridge, tools, session |
| options, `options.c` | one value per option | get, set, borrow the model | `main.c`, Lua, RPC |
| model catalogue, `provider/models.c` | the cached list | fetch, look up | HTTP client, `main.c` |
| variables, `variables.c` | a dense array of names and values | get, set, delete | Lua, RPC |
| RPC server, `rpc.c` | input buffer, handles, queued writes | read, drain, dispatch, stop, teardown | codec, API dispatch |
| MessagePack codec, `msgpack.c` | none | encode, decode | RPC server |
| API dispatch, `api/*` | none | find a method, convert its arguments | the stores |
| paths, memory, log | (helpers) | | |

### How they interact, and what is hard

There are no threads; the difficulty is in the order of *callbacks*. A turn is a
chain of continuations through the event loop: step timer, stream, driver, tool,
driver, step timer. At each link there is one object the turn waits for, and
something may arrive in between: `^C` in any phase, a cancel from within the
text callback, a completion of something already canceled, a failing append.
Objects are freed by the last callback that may refer to them (the turn one tick
after it finished, a stream by its completion, a `ToolExec` by the join of three
close callbacks), so an early or a missing callback is a use after free or a
leak. Lua code runs in the middle of C loops over the stores it can change. The
file is written without `fsync` or lock by processes that may die half way
through a write. Bytes arrive cut anywhere, from files, pipes and the network.

What makes each part correct:

- **session store**: a record is never run together with a torn one; what a
  reload returns is what memory held, up to one message of a failed append; a
  file that is open stays loadable; several writers lose nothing.
- **turn loop**: every request is made over a conversation the provider accepts
  (every call answered, in order) whatever happened before; a turn waits for
  exactly one thing, ends exactly once and then is left alone; what it reports
  is what the session records; no cancel is lost and nothing starts after one.
- **provider**: one terminal callback; the message is what the server sent in
  that attempt; no text twice; no stream without an owner, no owner of a
  destroyed stream.
- **SSE parser**: the events do not depend on the cuts; the verdict at the end
  says whether anything was cut off.
- **renderer**: no character lost, no span left open, wherever the deltas cut.
- **bash tool**: no handle closed twice, the struct freed last, one result, an
  honest one, and every execution ends.
- **file tools**: a read never keeps silent about what it left out; what write
  and edit report is what they did to the file; every call ends.
- **hooks, gate and registry**: no call runs that a hook vetoed or nobody
  decided on, whatever the hooks do to the list they are dispatched from; every
  Lua reference has one owner; hooks that change nothing change nothing.
- **model and window**: the context budget belongs to the model of the turn.
- **RPC server**: pipelined requests are answered one by one and in order, up
  to a violation; the end of input loses no response; nothing is left on the
  loop when the stack frame goes; the codec takes no prefix for a value.

The list of hazards, each at its line, is in `PROJECT.json`.

## 2. Modules

| Module | Models | Role |
|---|---|---|
| `MessageLog` | what `session.c` promises | abstract; used by `AgentTurn` as its session |
| `SessionStore` | `session.c` | implements `MessageLog` for one writer |
| `AgentTurn` | `agent.c`, SIGINT of `loop.c`, process life of `main.c` | composes with `MessageLog`; relies on `ResponseContract` and on `BashExec`'s single result |
| `ResponseContract` | what `openrouter.h` promises | abstract |
| `ProviderStream` | `openrouter.c` over `http.c` | implements `ResponseContract` |
| `SseParser` | `sse.c` | gives `ProviderStream` its events and the verdict `eof` |
| `Render` | `render.c` | functions of a renderer and what it is fed |
| `Terminal` | `on_text` of `main.c` | composes `ProviderStream`'s text with `Render`, and says what a text is to a reader |
| `BashExec` | the bash tool of `tools.c` | gives `AgentTurn` its `ToolDone` |
| `FileTools` | read, write and edit of `tools.c` | inline results of `AgentTurn` |
| `Frontend` | `main.c` around a turn: hooks, gates, registered tools, options, catalogue, Lua's life | what decides a call before `AgentTurn` runs it |
| `Marshal` | the value conversions of `json.c` and `lua/bridge.c` | functions over the depth of a value |
| `FrontendArgs` | the arguments on their way to a hook and back | composes `Frontend` with `Marshal` |
| `RpcServer` | `rpc.c`, the dispatch table, options and variables behind it | |
| `Msgpack` | `msgpack.c` | functions |
| `RpcWire` | `rpc_append`'s buffer, byte by byte | composes `RpcServer` with `Msgpack`: what the frames are on the wire |
| `SessionStoreProofs`, `AgentTurnProofs`, `BashExecProofs`, `ProviderStreamProofs`, `RpcServerProofs`, `FrontendProofs`, `FileToolsProofs`, `SseParserProofs` | | theorems about the module of that name |
| `MC*` | | instances for TLC |

Operators marked "Mutant:" are deliberately wrong variants of
the definition that follows them. They are used by nothing; putting one in place
of its original must break the property it is paired with in `PROJECT.json`.

### State and actions against the code

**SessionStore.** A file is its `\n`-terminated lines and its unterminated tail.
A line is abstracted to what `consume_line` tells apart: message, header, control
record, empty, junk. `WriteWhole` and `WritePart` are the outcomes of the one
`write(2)` in `write_line`, the heal byte included. `SessionAppend` is the whole
of `session_append`: disk first, then memory. `Truncations` is what a crash of
the machine can leave without `fsync`.

**AgentTurn.** `stack` says what is on the C stack: between two callbacks
(`"loop"`), in `drive_tools` (`"driver"`, the code's `in_driver`), or in
`finish_with_synthetics` (`"synthetics"`). A loop iteration of those functions
is one step, so the process can be killed between two appends while no other
callback runs. `Finish` is `finish_turn` with everything it does. A message
keeps its role, its calls' ids and the id it answers; texts are gone. The
provider is `Respond` (which `ResponseContract` allows), a tool either answers
inline or later; the gates' refusals are inline answers.

**ProviderStream.** `stack` is `"chunk"` inside curl's write callback, where the
events of one chunk are handled one by one, and `"abort"` when that callback has
told curl to give up. Payloads are named by attempt and position, so that the
message can be compared with what was sent. A `finish_reason` is seen or, when it
comes as the empty string (`"unfinish"`), unseen again. The verdict of `sse_parser_finish`
is left open here (`eof`) and studied in `SseParser`.

**SseParser.** One iteration of `sse_parser_feed`'s loop is a step. The field
names are one symbol each; every other byte class the code tells apart is a
symbol. The reference (`Lines`, `EventAt`, `DeathLine`) is written over the
whole body: lines by the positions of terminators, events by the block between
two blank lines.

**Render.** A renderer is a record, `RenderFeed` and `RenderFlush` are functions
of it; SGR codes are symbols in the output. The scan of a line is written with
sets of positions where the code has loops: a closer is the first maximal run of
stars that is long enough. `Terminal` feeds it what `on_text` was given, piece by
piece (`Fed`), and states what must come of it without the renderer: `LinesOf`,
`LineShown`, `Bytes`, over any characters and any texts (`Texts` are those a run
looks at).

**BashExec.** The three handles with their libuv states, the flags of
`ToolExec`, the close count; the child, its pipe and a process it leaves behind
are the environment. A handle closed twice becomes `"twice"`: libuv would abort.
`Kill` may be refused, which the code logs (timeout, cancel) or ignores (a failed
setup): the child is then `"spared"` and runs on.

**FileTools.** Every system call is a step: it may be interrupted (`EINTR`,
bounded by `kToolEintrMax`), fail, move fewer bytes than asked for, and somebody
else may rewrite the file before it. `scan` is the code's `ReadScan`; `Note` is
the note a result ends with. `Occurrences` of edit are by definition, not by the
loop of the code. Once the file was touched by somebody else only termination
and the caps are claimed.

**Frontend.** Lua runs as three kinds of steps: it is called (`CallHook`,
`InvokeTool`), makes API calls (create and clear autocommands, register a tool,
set the model), and returns (a veto, an approval, other arguments, an error).
`d` is the dispatch under way with the count `autocmd_exec` latched; `live` is
the Lua registry; `model.gen` names the allocation that holds the option's
string, so that a stale borrow can be seen. Its order is that of `main.c`:
init.lua, `SessionStart`, prompts, turns with their requests, deltas and calls,
`SessionEnd`, the three teardowns.

**Marshal.** JSON, Object and Lua values as trees; the iterative walks with
their frame stacks are functions here, one for each depth, made from the one for
the depth below: `Json[h]`, `Object[h]` and `Storable[h]` are the values at most `h`
containers deep that a walk with `h` frames takes, and the stack's cap is the `h` in
use. A number, a string or a boolean is a scalar that crosses unchanged; a Lua
table is a set of entries. What is lost on the way is the point: a null in an array
is a hole in Lua, an empty object and an empty array are the same table, a
duplicate member keeps one of its values. `Meaning` is what is left of a JSON value
for a reader who takes these for the same.

**FrontendArgs.** `Frontend` leaves open what a hook is shown of a call's arguments
(`Shown`) and what becomes of a table it leaves (`Captured`), as most of its
properties do not depend on it. Here they are `LuaArgs` and `CaptureToolPreArgs`
of `Marshal`.

**RpcServer.** A byte is `<<frame, position>>`. One iteration of `rpc_drain` is a
step. `ReadEof` and `ReadError` are the two ways `read_cb` hears that there is
nothing more to read, the second at any point of the input. The variables are the
dense array with its hole filling; `Serial` executes the script frame by frame over
the map that `variables.h` describes, and the channel is compared with it. Two kinds
of frames the code serves otherwise than the repository says, one past the size
limit and one that sets an empty name; the rest are `Ordinary`.

**Msgpack.** Integers are their eight bytes, so that nothing depends on TLC's
32-bit numbers; two conversions to double are left as symbols. The decoder keeps
the code's stack of frames, because its cap decides a verdict; the encoder is
the preorder of the tree, as an induction over the depth: `Object[h]` are the
Objects at most `h` containers deep, `Encoding[h]` their bytes. A string or a
container is shorter than `Limit`, 2^30 entries (the code asserts 2^32); a session,
which no conversion makes, is no Object here.

**RpcWire.** `Wire` is a frame on the wire: the encoding of a message, or bytes
that are none. Its first bytes are those of the model, one each, and the last
byte of the model stands for the rest, so that a model of few bytes is cut where
the real one is. `Concrete` is the buffer in real bytes, and `DecodeIsCodec` says
that the codec's verdict on them is the one the channel uses.

## 3. Runs

Those that pass:

| Run | What it checks and shows |
|---|---|
| `session_one_writer` | one process at a time, short writes, kills and crashes of the machine at every point: the disk only grows (`DiskAppendOnly`), no file but one with a healed torn tail in it is refused at load (`LoadableUnlessHealed`), and the store implements the log (`ImplementsMessageLog`) |
| `session_two_writers` | three processes that resume one file, on a disk that does not fail: every acknowledged message is in the file in its writer's order (`EveryWriterDurable`); the file stays well formed and exceeds the cap by what each writer may add and no more (`OpenFileLoadable`) |
| `turn` | up to three turns on one session with failed appends, kills, crashes, resumes and SIGINTs: `RequestWellFormed`, `OpenRoundOnlyIfSealed`, `WaitsOrQuiet`, `OutcomeMatchesRecord`, `NothingStartsAfterCancel`; `StopsAtLimits`: no request at or past the step cap or the context budget, and no stop before; and `TurnFinishes`: a canceled turn ends, and any turn if its responses and tools do |
| `stream` | every order of events, ends of transfers, cancels and teardown over three attempts: `KeepsContract`, `ResponseExact`, `OwnedUntilDestroyed`, `StreamEnds`; and `TerminalExact`: what the renderer shows of the text, for every text of five characters and of three lines out of twelve, and for the deltas of the run |
| `bash` | every order of exit, end of file, timeout, grace, cancel and failed setup, kills refused or not: `JoinIsSafe`, `ResultHonest`; and `ExecutionEnds`, unless a child that may not be killed lives on for ever |
| `sse` | every body of up to four segments and some longer ones, cut in every way: `CutsInvisible`; and `CleanMeansWhole`: a stream called clean has nothing pending |
| `rpc` | scripts of three frames, cut in every way, with end of input, a read error, a client that stops listening, failing writes and SIGINT anywhere: `ServesInOrder` (one response to each request, in order and with the documented effect as long as every frame was ordinary, none missing at the end of input), `ReturnsDetached`, `ServeEnds`; and `CodecExact`: every Object out of about seven hundred comes back from its bytes, no proper prefix is anything but incomplete, no verdict changes as bytes arrive, and in every state the verdict on the buffer is the one the channel works with |
| `files` | one call of read, write or edit, every system call of which may be short, interrupted or fail, while others rewrite the file: `ReadExact`, `RewriteExact`, `CallEnds` |
| `frontend` | two prompts with a call each, where every hook and tool callback may register, clear, veto, approve, rewrite and switch models: `OnlyDecidedCallsRun`, `RefsOwned`, `WindowMatchesModel`, `EchoKeepsArgs` |

Each run also checks the type invariant `TypeOK` of its module, but `session_two_writers`,
whose module has it in `session_one_writer`, and `turn`: `AgentTurn`'s is proved,
and what it says of the step count is part of `StopsAtLimits`.

Those that find disagreements between the code and what the repository says. Each
checks that, of several claims, at least one is true in every state: the
behaviour that refutes it breaks all of them at once, and shows each.

| Run | Claim | What the code does |
|---|---|---|
| `session_promises` (`SomeSessionPromiseKept`) | `EarlierRoundsComplete`. `agent.c:517-519`: only the last round of a conversation can be open | A tool result over the line limit is refused without poisoning the session (`session.c:459`). The round stays open, later rounds follow it, and the repair looks at no other than the last. |
| | `SessionOutlivesTurn`. `main.c:514`: the turn whose session is freed is finished | After a second SIGINT `run_agent` frees the session while the turn that borrows it is unfinished and its callbacks are still to be drained. |
| `server_promises` (`SomeServerPromiseKept`) | `VariablesAreAMap`. `variables.h:13-20`: distinct variables, and a set replaces any prior value | A variable with an empty name that came over RPC is never found again (`variables.c:24`), so that every set of it adds an entry. |
| | `OversizeCloses`. `rpc.c:25`, `src/docs/api-bridge.md:286`: a message past the size limit closes the channel | The size of a message is looked at only while it is incomplete (`rpc.c:183`): one completed by the read that passes the limit is served. |
| `turn_promises` (`SomeTurnPromiseKept`) | `BorrowValidForTurn`. `options.h:9-13`: the borrowed model name stays valid for the turn | A hook or a tool callback that runs within a turn may assign `mua.o.model`: `options_set` frees the string the turn reads again for its next request. |
| | `WindowIsTheTurns`. `main.c:381-384`: `ctx_model` is the model the window was last fetched for | A `SessionStart` hook switches models: `ctx_model` is seeded with the hook's model, the window was fetched for the one before it (`main.c:385`). |
| | `ToolPreForEveryTool`. `main.c:237`, `src/docs/api-bridge.md:168`: `ToolPre` fires for every tool | Arguments nested deeper than 32 cannot be shown to Lua, while cJSON accepts 64 levels: no hook is asked, and the base gate alone decides (`main.c:276-282`). |

Two more configurations find a disagreement by themselves:

| Configuration | Claim | What the code does |
|---|---|---|
| `SseParserBom.cfg` of `MCSseParser` | `TruncatedMeansCut`. `sse.h:60`: a truncated stream ended inside a line or an event, or failed | A stream that opens with a byte order mark never ends `kSseEofClean`, for `bom_matched` stays 3 (`sse.c:274`). |
| `BashExecRefused.cfg` of `MCBashExec` | `CancelFiresDone`. `tools.h:68-70`: after a cancel `done` still fires exactly once | A command that runs as another user may not be killed: `tools_cancel` logs the refusal (`tools.c:1107-1110`) and waits for an exit that need not come. |

`turn` leaves out the fault `"oversize"`: with it `RequestWellFormed` fails,
which is what `EarlierRoundsComplete` is about. The passing runs keep the other
cases of the findings, and their properties say what holds beside them:
`ExecutionEnds` has a premise about refused kills; `ServesInOrder` compares effects while frames are
`Ordinary` (its count of responses is of all frames); `OnlyDecidedCallsRun` asks
that the hooks were asked of a call whose arguments can be shown to Lua;
`WindowMatchesModel` leaves out `SeedStale`.

Behaviour met while modelling that the properties state as it is:

- A torn tail that the next append healed is from then on a bad line in the
  middle of the file, and `session_load` refuses the file for good. The unit
  tests pin this (`src/test/unit/session_spec.lua:198-223`); it is the exception
  in `LoadableUnlessHealed`.
- Of two members of one name a hook sees the last, a built-in tool reads the
  first. `EchoKeepsArgs` compares what Lua can express.
- The styled output is at most eleven bytes per byte of text (an empty line in a
  code block), and the output buffer holds four times the longest line
  (`main.c:40`). Past it `render_feed` returns false and `on_text` cancels as if the
  terminal had failed (`render.c:209-231`, `main.c:135-138`). Two texts get
  there: a single delta of some 380 KiB of such lines, and a line of just under
  1 MiB of empty code spans (ten bytes for two), which is styled at its end
  however small its deltas were. `TerminalExact` states the factor; the buffer's
  cap is left out of `Render`.

### Bounds

- *Sessions*: one writer holds at most 4 messages and makes 6 appends; three
  writers hold 2 each and make 7. The store looks at the last line only, so a few
  lines before it and one fault after it show every case of glue, heal and
  reload; the cap is reached, and exceeded by each of the others. Initial files
  include a control record of a later version, with and without its `\n`.
- *Turns*: two call ids and rounds of up to two calls, so that an answer can be
  missing, half done or reused by the next round; up to three turns of up to three
  steps, so that a resumed session has a complete and an open round behind it; at
  most 9 messages, so that the session fills up in the middle of a round; two
  SIGINTs; usage 0 (absent), at the warning and at the budget.
- *Streams*: three attempts, with a retry of a retry and a last one (the code makes
  five, `openrouter.h:18`), two call indices, three events an attempt: two
  interleaved calls, or text, call and end.
- *Bash*: a cap of 2 bytes, a pipe of 2 and 4 bytes written: the pipe is full,
  the cap reached in the middle of a read and bytes dropped.
- *SSE*: limits of a few symbols, so that each cap is met exactly and exceeded,
  by a line within a chunk and by a carried one.
- *Files*: up to 5 bytes, read in chunks of 3, with a scan bound of 4 and a window
  of 3: every order of the window's ends, the scan bound and the end of the file.
- *Frontend*: two autocommands and one tool, so that each cap refuses; three API
  calls of Lua code in a run, two prompts with a call each; arguments up to one
  level past the depth cap, which is 2. The theorem about them
  (`EchoKept`) has arguments of any shape and any cap.
- *RPC*: messages up to 3 bytes, reads up to 3, frames up to 5: several frames in
  a read, frames over several reads, over the cap in both ways; two variables, so
  that a removal leaves a hole to fill. Scripts are all those of three frames out
  of fourteen, less those with a frame that changes nothing and reads no
  variable at either end, and those that differ only behind a violation, where
  nothing is read.
  The theorems about it have any scripts.
- *Codec*: integers and strings on both sides of every width, containers on both
  sides of the fix sizes, nesting up to and one past a cap of 3; every sequence of
  up to four of fifteen format bytes. The theorems about it have every Object, all
  bytes and any cap.
- *Renderer*: a line cap of 6, and texts of at most 24 characters, short enough
  that TLC evaluates the part of `TerminalExact` about them once, at its start.
  The theorem about it has any cap and any text.

- The runs that find disagreements have the instances of the passing ones with
  what the behaviour needs: oversize results, two turns and two SIGINTs; three
  autocommands and five API calls, one prompt, and arguments past the depth cap.

`turns`, `MaxWrites`, `MaxEvents`, `MaxAppends`, `MaxSigints`, `MaxPrompts`,
`MaxEffects`, `Scripts`, `Bodies`, `Files` and `Others` bound the environment and
nothing else. No symmetry is used.

Deadlock is checked in `sse` and `rpc`. Elsewhere the system may stop: a user who
types no further prompt, an execution that is freed, a call that has its result,
a program that has exited.

### Fairness

Weak fairness is assumed only of what libuv and the C code run once it is ready:
a callback that has begun runs to its end, an armed timer fires, a closing
handle's callback comes, a readable end of file is delivered, an exit is
reported, curl reports a transfer it gave up, a synchronous tool takes its next
step. Nothing is assumed of the server, the client, the child process
or the outcome of a system call, with these exceptions, each written into the
property it serves: `ExecutionEnds` assumes that no child is spared for ever, one
that a kill was refused of; the second half of `TurnFinishes` assumes that responses and
tools end (a stalled transfer is ended by curl's low speed limit, bash by its
timeout, if the kill is not refused); the first half of `StreamEnds` assumes that
transfers end (`http.c` sets no total timeout, so a server that dribbles for ever
is outside it);
`ServeEnds` assumes that what is written is taken or refused. What those two
properties say of a canceled turn and a canceled stream needs none of this: a
canceled stream is reaped by a timer.

Two assumptions of `AgentTurn` are in its fairness and not in a property. Starting
a tool includes the gate's `y/N` (`agent_gate_interactive` blocks in `fgets`), so
weak fairness of `Run` takes for granted that the user answers it. And a canceled
tool is taken to complete: that is `ExecutionEnds` of `BashExec`, which a refused
kill breaks. `Frontend` has no fairness: a user may never
answer and Lua code may never return.

## 4. Proofs

Checked by TLAPS, for every value of the constants under the named `ASSUME`s.
Each strengthening below was first checked by TLC as an invariant of the run it
belongs to.

**SessionStoreProofs** (any set of processes and of initial files, any number of
appends, any faults unless said otherwise).

- `TypeCorrect`, for any number of processes.
- From `OneWriter` (at most one process; with two, a writer does not know of the
  other's torn tail): `TornTailAlwaysGuarded`, `DiskOnlyGrows`,
  `NothingWorseThanHealed`, and the refinement `StoreImplementsLog` (of at least
  one process, which the mapping names). `TornTailGuarded`, that a torn tail is
  healed by the next write or never written behind, is not inductive by itself:
  `GuardInv` adds that without a file there is nothing open. `DiskAppendOnly`
  follows from it, for a write over a guarded tail heals it first. So does the
  refinement: such a write adds to the messages of the file what it should
  (`WrittenMessages`), and a crash leaves a beginning of them
  (`TruncatedMessages`); `Views` adds that a closed session has no messages.
  `LoadableUnlessHealed` needs `InStep`: memory is what a reload would give, and
  the file is `Sound`, with at most one bad line.
- From `NoFailure` (no write fails, the machine does not crash; processes may be
  killed), for several writers: `AcknowledgedIsDurable`, if the initial files
  hold no message (ids tell messages apart, and those of an unknown file could be
  taken for new ones; a file with messages arises by closing and loading), and
  `SharedFileStaysLoadable`, if they hold no torn line (a second writer would
  heal it a second time) and the processes are finitely many. `TailHealed` says
  that a tail was there before anybody opened the file. `Room` counts: the
  messages in the file and those each writer may still add are at most a cap for
  each process; a load takes the slots of the messages it reads, an append one.

**AgentTurnProofs** (any ids, calls, caps, budgets, number of turns and SIGINTs).

- `TypeCorrect`, `WokenOnce`, from `WaitsForOneThing` and `FinishedTurnIsQuiet`,
  and `CancelIsFinal`, under all faults, oversize results included.
  `WaitsOrQuiet` speaks of the times between callbacks; `Control` adds what holds
  during them: while the driver or the synthetic answers run nothing is waited
  for, the turn is live exactly while the process is in it (or drains after a
  second SIGINT), and a cancel of the stream is pending only until the stream
  ends, when the round goes to the synthetic answers. The last part is what makes
  `CancelIsFinal` hold in the driver, which looks at `canceling` only. The
  session does not occur in that argument.
- `StopsInTime`, under all faults, from `WithinLimits`: a turn that waits for its
  stream, or for the step timer that will start it, is below the step cap and
  below the budget, because nothing changes the usage or the step before the
  response; the budget is the percentage of the window, rounded down
  (`BudgetFacts`).
- `RequestsAreWellFormed`, `OpenRoundIsSealed`, `OutcomeIsRecorded` and
  `OnlyTheLastRoundIsOpen`, from `NoOversize`: the fault `"oversize"` does not
  happen. The last one is a claim `session_promises` finds violated, so
  an oversize result is its only cause. `Conversation` relates the session and
  the turn: the log and the view have `Begun` well (every round is complete but
  perhaps the last, whose answers so far are in order); while a round is under
  way the view ends in that round with its first `tool_index` calls answered;
  a repair walks through the open round in place; an append that fails latches
  the session, so that a round left open stays the last. It needs the types and
  the control invariant, and that a warning about the budget was given in time
  (`WarnedInTime`).

**BashExecProofs** (any cap, pipe size and amount of output, and any kills
refused).
`TypeCorrect`; `JoinSafe`, from `ClosedOnce`, `FreedLast` and `HeardOnce`; and
`HonestResult`. `IInv` relates the join's counters to the handles: how many
handles were registered, that each flag says its handle is on its way out, that
the timer is closed exactly when exit and end of file were both seen, that
`closes_done` is the number of closed handles and is short of `closes_expected`
until the struct is freed. No property is inductive without the count, and the
count not without the flags. `HonestInv` accounts for every byte written, the
ones still in the pipe included; a pipe that is done with was read to its end
unless the tool stopped reading.

**ProviderStreamProofs** (any number of attempts, events and call indices).
`TypeCorrect`, `OneOwnerUntilDestroyed`, `HandsOverTheResponse`, and
`ImplementsContract`, step by step. `Ownership` adds to `OwnedUntilDestroyed`
that curl calls back for a request in flight, that a cancel has a request to
wait for, and that a retry is due only while nothing was shown. `Accumulated` says
of every moment what `ResponseExact` says of the last: the accumulators are what
the events of this attempt spell (`Spells`), by position, so that appending one
event changes one place; and `finish_reason` is what the last event to carry one
said (`SaidFinished`).

`TerminalShowsTheResponse` is about the renderer behind the stream, for any texts,
any cap of a line and any cuts. Its invariant is over the characters fed, `FedWell`:
every line but the last is shown (`ShownSoFar`), `in_fence` is the parity of the
fences before the last line (`Fenced`), and the last line is in `line` with nothing
of it shown, or is too long and shown as it is; each character fed has eleven bytes
to spend, and those of a line that is still collected are not spent yet. A line end
spends at most ten more than that, which its newline pays for. What styling a line
may do is the relation `Keeps` between the line and its output, which is kept by
concatenation: the inline scan is a concatenation of spans, a span keeps the
characters it goes over (`SpanKeeps`), and the scan always goes on (`Advances`), so
that the function it is defined by exists (`ScanExists`). A renderer fed twice is
one fed the two texts together (`FeedTwice`), which makes cuts invisible
(`FedIsSpelt`).

**RpcServerProofs** (any scripts, message cap, read size, names, values and cap
of variables).
`ReturnsCleanly` from the control of the channel (`Channel`: what is closing in
which `run`). `TypeCorrect` and `ExecutesInOrder` need two more invariants.
`Input` says where the bytes are: the buffer is the script's bytes from the end
of the last frame handled to the last byte sent (`Consumed`), between two reads
it holds less than a frame (`Drained`), and the server stops for a violation, a
frame over the cap, a failed read or the end of the script only (`Justified`).
`Answered` says what was made of them: what was received and is on its way is one
response to each request handled so far; and as long as those frames were ordinary
ones (`AllOrdinary`), it is the replies of executing them one by one (`Serial`), and
the array holds what they leave. The dense array with its hole filling is compared
with the map of the reference by `Mirrors`: its entries are the map's, each name
once. The option needs no ordinary frames: no frame is special to it.

The codec is proved in the same module, first by itself, for all bytes, all
Objects and any nesting cap. `VerdictStands`: the decoder reads forward only
(`ReadFacts`: what it reads lies within the bytes, and more bytes change nothing
unless it was incomplete), so the walks over a text and over a longer one agree
until the first ends (`WalkMore`). That it ends within two iterations a byte
(`WalkEnds`) is an invariant of the walk: an iteration consumes a byte or takes back
a frame that a byte opened. `RoundTrip`: a number or a length is read back from
the form the encoder chose (`IntBack`, `CountAnnounces`), and then, by induction over
the depth of an Object, the walk that stands before its bytes with `k` frames
open stands behind them with the Object filled in (`Takes`, `ObjectsTaken`), or is
an error if it is deeper than the frames that are left; within a container this goes
child by child, from `Ready`, a frame that holds the first `i` and awaits the next, to
the one after (`ChildStep`, `ChildrenTaken`). `PrefixIncomplete` follows from the
two: a verdict on a prefix would stand on the whole, which is decoded only
by consuming all of it. Last, `DecodeAgrees`: by `Input`, the buffer begins with the
first bytes of a frame of the model and holds bytes of its frames only (`EveryByte`), so
the real bytes are a proper beginning of that frame's `Wire`, or all of it and
more (`JoinedFrom`), and the three theorems say what the codec makes of each.
`CodecIsExact` needs of the messages that they are Objects no deeper than the cap,
and of a corrupt frame that its bytes are an error and their beginnings
incomplete (`WireAssumption`), which is what the size of a corrupt frame means.

**FrontendProofs** (any number of hooks, tools, API calls, prompts and models,
any windows, and, but for `EchoKept`, whatever the marshalling does to
arguments). `TypeCorrect` and `ReferencesOwned` from `Types` and `Owned`: the references of
the two stores are distinct and disjoint, so that releasing those of one store
leaves the other's alone; the caps keep a fresh reference available; the stores
are emptied before the Lua state is closed. `OnlyDecided` from `HeardInOrder` and
`Decided`. A dispatch latches the number of callbacks and looks each one up by
its place, while the callbacks before it may register hooks or clear them all:
of the hooks that were there when it began (`due`, by number), those still there
keep their places among the first `n`, and the ones in places before the index
were asked. That holds because a new hook goes behind all others, numbers are
not used again (`Distinct`), and clearing leaves none. `WindowIsOfModel` from
`Fetched`, which says which model the window was fetched for, and that a turn
under way (`InTurn`, the dispatches in it included) uses the model the REPL noted.

`EchoKept` is about the marshalling itself, for values of any shape and any nesting
cap (`FrontendArgs`). The part about steps is `Echoes`: as long as no hook put another
table in its place, what the hooks share is the table made from the arguments
proposed, and these stand until the dispatch ends, with that table captured at most.
The rest is `EchoMeans`, about values only: JSON that went to Lua and came back means
what it meant. JSON and Objects are the same trees with other types, and the
conversions between them are inverse to each other (`ConversionBack`). Between Objects
and Lua they are not, so the argument goes by what a value says, by induction over the
depth (`EchoSaid`): an Array says what its children that are not nil say, by place
(`ArrayMeant`), a Dict what the last value of each name says (`DictMeant`), a table that
is taken says what its entries say, by key, whether it is taken for an Array or a
Dict (`TableSaid`); and pushing makes an entry of exactly those children. The
premises are where things go wrong: a table with holes is not taken at all
(`ArrayEntries` needs that the keys are `1 .. n`), the names of a dict are gathered in
any order but once each (`DictEntries`), and nothing but nil becomes a Nil
(`PopTyped`). It assumes of the constants that `Shown` and `Captured` are the two walks
(`MarshalledAssumption`), on the arguments and tables that occur.

**FileToolsProofs** (any files, calls and caps, any sizes of the reads and writes
the kernel chooses, and any changes by others, after which the two properties
about the content say nothing). `TypeCorrect`; `RewritesExactly` from `Rewriting`:
until the file is truncated it is as it was, the new content is decided by then
(`Edits`), and from then on the file is a beginning of it. `ReadsExactly` from
`Reading`, which says where a scan stands (`StandsAt`): after `k` bytes the window
is what is wanted of those `k` bytes, `Wanted` being defined on the bytes at hand
and not by a scan. One byte more is one step of `ScanByte` on one side, and on the
other appends the byte to what is wanted or leaves it (`WantedGrows`), because the
wanted bytes lie together (`WantedInterval`); `ByteFollows` compares the two. A
scan that is over stands at every later byte too (`OverStandsBehind`): its window
is full and the rest is kept back, or the last wanted line is complete. That is
what `DoneExact` needs to tell the notes apart.

**SseParserProofs** (any bodies, any limits, any cuts into chunks, a consumer that
may abort at any event). `TypeCorrect`; `EventsExact`, `CleanIsWhole` and `WholeIsClean` (for a
stream without a byte order mark) from `Decoding`, which says of every moment what
the three say of the last one.
The reference of `SseParser` reads the whole body at once: where its lines begin
and end, and what the fields of those lines spell. `Decoding` relates the parser
to it after any number of bytes: in the byte order mark, the bytes so far are a
beginning of the mark (`InBom`); in a line, the events and fields are those of the
reference's lines that ended so far, and `carry` holds the bytes of the line that
has not ended (`InLine`); a line feed is skipped exactly after a carriage return
(`pending_lf_skip`); a parser that gave up did so at a line the reference gives up
at (`DiesRightly`). The parser sees only the bytes up to `end`, the reference all of
them, so the argument needs that the lines that end within a beginning of the body
do not depend on the rest (`LinesAgree`). It also needs that counting the
terminators finds the lines: the `i`-th line is the bytes between two neighbouring
ends (`Count`, `Nth`).

**Induction.** The library's induction rule takes a predicate, which no
installed prover can instantiate. `SetInduction`, which the modules that need it
state and prove (the store, the RPC server, the file tools, the SSE parser, the
renderer, the program around the turn), is stated for a set, so it can be used
with the set of numbers that have a property; it follows from the
well-foundedness of `<`, by way of `LeastElement`. With it a function defined by
recursion (`Keep`, `Bytes`, `Serial`, the scan of a chunk, the data lines of an
event, the Objects of a depth, the decoder's walk, the conversions of `Marshal`)
is shown to exist, which is what makes its defining equation available, and
facts about it are proved. The renderer's proofs do this once for all folds over
a sequence, with the step as a function (`FoldOf`, `FoldIs`), and show of each
operator that it is one (`LinesOfFacts`, `RenderFeedFacts`); `SeqInduction` is
`SetInduction` for sequences. `Keep` is `SelectSeq` written out, because the
provers know nothing of the latter.

Only model-checked is liveness (`TurnFinishes`, `StreamEnds`, `ExecutionEnds`,
`ServeEnds`, `CallEnds`), which is out of the prover's reach.

## 5. Not modelled

Argument parsing, the text of prompts, requests, errors and logs; how a fresh
session name is chosen and the latest found; sockets and curl's timer; the nested
loop run of the catalogue's fetch; the delays of the backoff; options other than
the model and one integer; the conversions of API arguments; the creation of
parent directories, devices and fifos in the file tools; the bounded drain of
`loop_close`; paths, memory and logging; the vendored cJSON. What a turn's late
callbacks do to a session freed by a second SIGINT is where the model of the turn
ends. The integer overflow of the budget for an absurd context
length is not modelled.

## 6. Plan

Done: the session store and its abstract log, the turn loop over it, the provider
stream, its contract and the renderer behind it, the bash tool, the file tools,
the SSE parser, the RPC server and its codec, hooks, gates, registered tools,
options and catalogue with the marshalling between them. Every safety property,
action property and refinement of the session store, the turn, the stream, the
bash tool, the file tools, the SSE parser, the renderer, the RPC server and the
program around the turn is proved, the codec and the marshalling included.

Modelling left: the claim of a fresh session name by several processes and the
choice of the latest (`session.c:145-173`, `389-435`), with a kill between the
create and the header; the catalogue's nested loop run.
