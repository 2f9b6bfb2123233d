----------------------------- MODULE RpcServer -----------------------------
(***************************************************************************)
(* mua --embed: rpc.c's channel on stdin and stdout, the dispatch table it *)
(* drives (api/dispatch.c) and the option and variable stores behind it.   *)
(*                                                                         *)
(* The client sends the frames of a script and may close either pipe; it   *)
(* pipelines, so frames and reads do not line up.  A byte is <<k, i>>: the *)
(* i-th byte of frame k, which is all the decoder's three verdicts depend  *)
(* on.  One iteration of rpc_drain's loop is one step: nothing else runs   *)
(* while `draining`.  rpc_serve's frame is left when `run` = "returned".   *)
(***************************************************************************)
EXTENDS Naturals, Sequences, FiniteSets

CONSTANTS
  Scripts,      \* bound: the frames the client may send
  MaxMessage,   \* kRpcMaxMessage
  ReadChunk,    \* kRpcReadChunk
  VarMax,       \* MUA_VAR_MAX
  StepCaps,     \* the values the option step_cap may be set to
  Default       \* its default

Names  == {"", "a", "b"}   \* "" is a String without data, as the codec makes it
Values == {"v", "w"}

(* The calls a frame may carry: arguments of the wrong number or type, or  *)
(* an unknown method, make a "bad" call.                                   *)
Calls == [fn : {"set_var"}, name : Names, value : Values \cup {"nil"}] \cup
         [fn : {"get_var"}, name : Names] \cup
         [fn : {"set_option"}, value : Nat] \cup
         [fn : {"get_option", "sess_get", "bad"}]

(* A frame is a request, a notification, or one that breaks the protocol:  *)
(* not an array or with a malformed header ("violation"), or undecodable   *)
(* ("corrupt", its size being the bytes it takes to see that).             *)
Frames == [kind : {"request", "notify", "violation", "corrupt"}, call : Calls, size : Nat \ {0}]

ASSUME RpcAssumption ==
  /\ \A s \in Scripts : s \in Seq(Frames)
  /\ MaxMessage \in Nat /\ ReadChunk \in Nat \ {0} /\ VarMax \in Nat
  /\ StepCaps \subseteq Nat /\ Default \in StepCaps

VARIABLES
  script, sent,           \* the client's frames, and how many bytes left it
  eof, deaf,              \* the client closed its end of stdin, of stdout
  got,                    \* the responses it received
  buf, draining,          \* RpcServer.buf and rpc_drain's loop
  stopping, in, out,      \* the handles: "open", "closing" or "closed"
  writes, lost,           \* responses queued; history: one was not delivered
  interrupted,            \* uv_stop was called
  run,                    \* "serving", "closing" (the second loop_run), "returned"
  code,                   \* what rpc_serve returns
  vars, step_cap,         \* g_vars, an array; the option, 0 while unset
  handled                 \* history: the frames handled

clientVars  == <<script, sent, eof, deaf>>
channelVars == <<stopping, in, out, interrupted, run, code>>
storeVars   == <<vars, step_cap>>
allVars == <<clientVars, got, buf, draining, channelVars, writes, lost, storeVars, handled>>

(* rpc_serve's setup: the pipes are attached, or what was initialized of   *)
(* them is closed and the loop run once for that.                          *)
Setup ==
  \/ run = "serving" /\ in = "open" /\ out = "open" /\ code = 0
  \/ run = "closing" /\ in \in {"closing", "closed"} /\ out \in {"closing", "closed"} /\ code = 1

Init ==
  /\ script \in Scripts /\ sent = 0 /\ eof = FALSE /\ deaf = FALSE /\ got = <<>>
  /\ buf = <<>> /\ draining = FALSE
  /\ Setup /\ stopping = FALSE /\ interrupted = FALSE
  /\ writes = <<>> /\ lost = FALSE
  /\ vars = <<>> /\ step_cap = 0
  /\ handled = 0

---------------------------------------------------------------------------
(* The stores and the dispatch table. *)

Ok(v) == [error |-> FALSE, result |-> v]
Refused == [error |-> TRUE, result |-> "nil"]

(* var_index: where the name is; a name without data is nowhere. *)
VarIndex(vs, n) == {i \in DOMAIN vs : n # "" /\ vs[i].key = n}

(* remove_entry: the last entry fills the hole. *)
RemoveEntry(vs, i) == SubSeq([vs EXCEPT ![i] = vs[Len(vs)]], 1, Len(vs) - 1)

(* variables_set: nil deletes, a name that is nowhere is a new entry. *)
VariablesSet(vs, n, v) ==
  LET at == VarIndex(vs, n) i == CHOOSE k \in at : TRUE
  IN  CASE v = "nil" /\ at # {} -> RemoveEntry(vs, i)
        [] v = "nil" /\ at = {} -> vs
        [] v # "nil" /\ at # {} -> [vs EXCEPT ![i].value = v]
        [] v # "nil" /\ at = {} -> Append(vs, [key |-> n, value |-> v])

VariablesFull(vs, n, v) == v # "nil" /\ VarIndex(vs, n) = {} /\ Len(vs) = VarMax

(* variables_get: an unset variable is nil, no error. *)
VariablesGet(vs, n) ==
  LET at == VarIndex(vs, n)
  IN  Ok(IF at = {} THEN "nil" ELSE vs[CHOOSE i \in at : TRUE].value)

(* options_set checks type and range; options_get falls back on the        *)
(* option's default.                                                       *)
OptionsAccept(v) == v \in StepCaps
OptionsGet(sc) == Ok(IF sc = 0 THEN Default ELSE sc)

(* session_resolve: there is no current session in this mode. *)
SessionResolve == Refused

(* What call c answers in the stores vs and sc: api_dispatch_find and the  *)
(* wrapper.                                                                *)
Answer(c, vs, sc) ==
  CASE c.fn = "set_var"    -> IF VariablesFull(vs, c.name, c.value) THEN Refused ELSE Ok("nil")
    [] c.fn = "get_var"    -> VariablesGet(vs, c.name)
    [] c.fn = "set_option" -> IF OptionsAccept(c.value) THEN Ok("nil") ELSE Refused
    [] c.fn = "get_option" -> OptionsGet(sc)
    [] c.fn = "sess_get"   -> SessionResolve
    [] OTHER               -> Refused

(* Mutant: a refused value is stored all the same. *)
PerformUnchecked(c) ==
  /\ vars' = IF c.fn = "set_var" THEN VariablesSet(vars, c.name, c.value) ELSE vars
  /\ step_cap' = IF c.fn = "set_option" THEN c.value ELSE step_cap

(* What it does to them: a refused call leaves them alone. *)
Perform(c) ==
  /\ vars' = IF c.fn = "set_var" /\ ~VariablesFull(vars, c.name, c.value)
             THEN VariablesSet(vars, c.name, c.value) ELSE vars
  /\ step_cap' = IF c.fn = "set_option" /\ OptionsAccept(c.value) THEN c.value ELSE step_cap

---------------------------------------------------------------------------
(* The channel. *)

(* The bytes of frames 1 .. k of the script. *)
Bytes(s) ==
  LET f[k \in 0 .. Len(s)] ==
        IF k = 0 THEN <<>> ELSE f[k - 1] \o [i \in 1 .. s[k].size |-> <<k, i>>]
  IN  f[Len(s)]

(* The first loop_run; the iteration in which it is stopped is finished. *)
Serving == run = "serving" /\ ~draining

(* begin_stop, which is idempotent. *)
BeginStop ==
  /\ stopping' = TRUE
  /\ in' = IF stopping THEN in ELSE "closing"
  /\ UNCHANGED <<out, interrupted, run, code>>

(* read_cb with n bytes: rpc_append. *)
ReadCb(n) ==
  /\ Serving /\ in = "open" /\ ~stopping
  /\ n \in 1 .. ReadChunk /\ sent + n <= Len(Bytes(script))
  /\ sent' = sent + n
  /\ buf' = buf \o SubSeq(Bytes(script), sent + 1, sent + n)
  /\ draining' = TRUE
  /\ UNCHANGED <<script, eof, deaf, got, channelVars, writes, lost, storeVars, handled>>

(* read_cb with nread < 0. *)
ReadEnds ==
  /\ Serving /\ in = "open" /\ ~stopping
  /\ BeginStop
  /\ UNCHANGED <<clientVars, got, buf, draining, writes, lost, storeVars, handled>>

(* The end of file, which follows every byte the client wrote. *)
ReadEof == eof /\ ReadEnds

(* A read error, wherever the input is. *)
ReadError == ReadEnds

(* msgpack_to_object at the buffer's start. *)
Decode ==
  LET k == buf[1][1]
  IN  IF buf[1][2] # 1 THEN "error"
      ELSE IF Len(buf) < script[k].size THEN "incomplete"
      ELSE IF script[k].kind = "corrupt" THEN "error" ELSE "ok"

DrainEnds ==
  /\ draining' = FALSE
  /\ UNCHANGED <<clientVars, got, buf, writes, lost, storeVars, handled>>

(* rpc_drain's loop ends: stopped, out of bytes, out of whole frames (and  *)
(* over the cap), or the bytes do not decode.                              *)
DrainStops ==
  /\ draining
  /\ DrainEnds
  /\ \/ (stopping \/ buf = <<>>) /\ UNCHANGED channelVars
     \/ /\ ~stopping /\ buf # <<>> /\ Decode = "incomplete"
        /\ IF Len(buf) > MaxMessage THEN BeginStop ELSE UNCHANGED channelVars
     \/ ~stopping /\ buf # <<>> /\ Decode = "error" /\ BeginStop

(* The handled frame leaves the buffer. *)
Consume(k) == buf' = SubSeq(buf, script[k].size + 1, Len(buf))

(* Mutant: a violation is logged and the drain goes on. *)
HandleFrameGoesOn(f) ==
  CASE f.kind = "violation" -> UNCHANGED <<channelVars, writes, lost, storeVars>>
    [] f.kind = "request" -> /\ Perform(f.call)
                             /\ writes' = Append(writes, Answer(f.call, vars, step_cap))
                             /\ UNCHANGED <<channelVars, lost>>
    [] OTHER -> Perform(f.call) /\ UNCHANGED <<channelVars, writes, lost>>

(* handle_frame: dispatch_and_respond queues one response, unless uv_write *)
(* refuses it; dispatch_notify none.                                       *)
HandleFrame(f) ==
  \/ f.kind = "violation" /\ BeginStop /\ UNCHANGED <<writes, lost, storeVars>>
  \/ /\ f.kind = "request"
     /\ Perform(f.call)
     /\ \/ writes' = Append(writes, Answer(f.call, vars, step_cap)) /\ UNCHANGED lost
        \/ lost' = TRUE /\ UNCHANGED writes
     /\ UNCHANGED channelVars
  \/ f.kind = "notify" /\ Perform(f.call) /\ UNCHANGED <<channelVars, writes, lost>>

DrainFrame ==
  /\ draining /\ ~stopping /\ buf # <<>> /\ Decode = "ok"
  /\ LET k == buf[1][1] IN HandleFrame(script[k]) /\ Consume(k)
  /\ handled' = handled + 1
  /\ UNCHANGED <<clientVars, got, draining>>

(* The head of the write queue reaches the client, or fails (on_write      *)
(* frees it either way).                                                   *)
Flush ==
  /\ Serving /\ out = "open" /\ writes # <<>>
  /\ writes' = Tail(writes)
  /\ IF deaf THEN lost' = TRUE /\ UNCHANGED got
     ELSE got' = Append(got, Head(writes)) /\ UNCHANGED lost
  /\ UNCHANGED <<clientVars, buf, draining, channelVars, storeVars, handled>>

(* libuv lets go of stdin's handle. *)
InClosed ==
  /\ Serving /\ in = "closing"
  /\ in' = "closed"
  /\ UNCHANGED <<clientVars, got, buf, draining, stopping, out, interrupted, run, code,
                 writes, lost,
                 storeVars, handled>>

(* sigint_cb: no interrupt callback is installed in this mode. *)
Sigint ==
  /\ Serving /\ ~interrupted
  /\ interrupted' = TRUE
  /\ UNCHANGED <<clientVars, got, buf, draining, stopping, in, out, run, code, writes, lost,
                 storeVars, handled>>

CloseIfOpen(h) == IF h = "open" THEN "closing" ELSE h

(* Mutant: the first loop_run's return is the end. *)
LoopReturnsAtOnce ==
  /\ Serving
  /\ interrupted \/ (in = "closed" /\ writes = <<>>)
  /\ run' = "returned"
  /\ UNCHANGED <<clientVars, got, buf, draining, stopping, in, out, interrupted, code, writes,
                 lost,
                 storeVars, handled>>

(* Mutant: stdout's handle keeps the loop alive. *)
LoopAwaitsOut ==
  /\ Serving
  /\ interrupted \/ (in = "closed" /\ out = "closed" /\ writes = <<>>)
  /\ run' = "closing"
  /\ in' = CloseIfOpen(in) /\ out' = CloseIfOpen(out)
  /\ UNCHANGED <<clientVars, got, buf, draining, stopping, interrupted, code, writes, lost,
                 storeVars, handled>>

(* The first loop_run returns: stopped, or nothing keeps the loop alive    *)
(* (stdin is closed and no write is queued).  The handles are closed.      *)
LoopReturns ==
  /\ Serving
  /\ interrupted \/ (in = "closed" /\ writes = <<>>)
  /\ run' = "closing"
  /\ in' = CloseIfOpen(in) /\ out' = CloseIfOpen(out)
  /\ UNCHANGED <<clientVars, got, buf, draining, stopping, interrupted, code, writes, lost,
                 storeVars, handled>>

(* The second loop_run: one iteration delivers the closes and cancels the  *)
(* writes, also when a SIGINT stops it.                                    *)
ServeReturns ==
  /\ run = "closing"
  /\ run' = "returned"
  /\ in' = "closed" /\ out' = "closed"
  /\ lost' = (lost \/ writes # <<>>)
  /\ writes' = <<>>
  /\ buf' = <<>>
  /\ UNCHANGED <<clientVars, got, draining, stopping, interrupted, code, storeVars, handled>>

---------------------------------------------------------------------------
(* The client closes stdin when it has sent its script, or stdout any time. *)
ClientCloses ==
  /\ run # "returned"
  /\ \/ ~eof /\ sent = Len(Bytes(script)) /\ eof' = TRUE /\ UNCHANGED deaf
     \/ ~deaf /\ deaf' = TRUE /\ UNCHANGED eof
  /\ UNCHANGED <<script, sent, got, buf, draining, channelVars, writes, lost, storeVars, handled>>

Done == run = "returned" /\ UNCHANGED allVars

Next ==
  \/ \E n \in 1 .. ReadChunk : ReadCb(n)
  \/ ReadEof \/ ReadError \/ DrainStops \/ DrainFrame
  \/ Flush \/ InClosed \/ Sigint \/ LoopReturns \/ ServeReturns
  \/ ClientCloses
  \/ Done

(* libuv delivers what is readable, writable or closing, and the server's  *)
(* own code runs on.  Nothing is assumed of the client: it may neither     *)
(* read what is written nor close its end; no read has to fail.            *)
Fairness ==
  /\ WF_allVars(ReadEof)
  /\ WF_allVars(DrainStops \/ DrainFrame)
  /\ WF_allVars(InClosed)
  /\ WF_allVars(LoopReturns)
  /\ WF_allVars(ServeReturns)

Spec == Init /\ [][Next]_allVars /\ Fairness

---------------------------------------------------------------------------
(* The script executed frame by frame, up to a violation. *)

Violations(s) == {k \in DOMAIN s : s[k].kind \in {"violation", "corrupt"}}

(* The variables as variables.h has them: a map of at most VarMax distinct *)
(* names, a set replacing any prior value.                                 *)
Fits(c, st) ==
  c.value = "nil" \/ c.name \in DOMAIN st.map \/ Cardinality(DOMAIN st.map) < VarMax

Put(m, n, v) ==
  IF v = "nil" THEN [k \in DOMAIN m \ {n} |-> m[k]]
  ELSE [k \in DOMAIN m \cup {n} |-> IF k = n THEN v ELSE m[k]]

Reply(c, st) ==
  CASE c.fn = "set_var" -> IF Fits(c, st) THEN Ok("nil") ELSE Refused
    [] c.fn = "get_var" -> Ok(IF c.name \in DOMAIN st.map THEN st.map[c.name] ELSE "nil")
    [] OTHER            -> Answer(c, <<>>, st.cap)

Apply(c, st) ==
  IF Reply(c, st).error THEN st
  ELSE CASE c.fn = "set_option" -> [st EXCEPT !.cap = c.value]
         [] c.fn = "set_var"    -> [st EXCEPT !.map = Put(@, c.name, c.value)]
         [] OTHER               -> st

(* The stores after n frames, and the responses to them. *)
Serial(s, n) ==
  LET f[k \in 0 .. n] ==
        IF k = 0 THEN [st |-> [map |-> [m \in {} |-> "nil"], cap |-> 0],
                       replies |-> <<>>]
        ELSE LET p == f[k - 1] c == s[k].call
             IN  IF k \in Violations(s) THEN p
                 ELSE [st |-> Apply(c, p.st),
                       replies |-> IF s[k].kind = "notify" THEN p.replies
                                   ELSE Append(p.replies, Reply(c, p.st))]
  IN  f[n]

---------------------------------------------------------------------------
(* Properties. *)

(* Every variable holds a value of its type; the input buffer never grows  *)
(* past one read above the cap, nor the variables past theirs.             *)
TypeOK ==
  /\ script \in Seq(Frames) /\ sent \in Nat /\ eof \in BOOLEAN /\ deaf \in BOOLEAN
  /\ Len(buf) <= MaxMessage + ReadChunk /\ draining \in BOOLEAN
  /\ stopping \in BOOLEAN /\ interrupted \in BOOLEAN
  /\ in \in {"open", "closing", "closed"} /\ out \in {"open", "closing", "closed"}
  /\ run \in {"serving", "closing", "returned"}
  /\ code \in {0, 1} /\ lost \in BOOLEAN /\ step_cap \in Nat /\ handled \in Nat
  /\ vars \in Seq([key : Names, value : Values]) /\ Len(vars) <= VarMax

(* g_vars holds exactly the map: every name once, whatever was removed and *)
(* filled in between.                                                      *)
Holds(vs, st) ==
  /\ {vs[i].key : i \in DOMAIN vs} = DOMAIN st.map
  /\ \A i \in DOMAIN vs : vs[i].value = st.map[vs[i].key]
  /\ Len(vs) = Cardinality(DOMAIN st.map)

(* Frame f is neither of the two the code serves otherwise than its        *)
(* comments say: it sets no variable with an empty name                    *)
(* (VariablesAreAMap), and is not past the size limit (OversizeCloses).    *)
Ordinary(f) ==
  /\ f.kind \in {"request", "notify"} /\ f.call.fn = "set_var" /\ f.call.name = "" =>
       f.call.value = "nil"
  /\ f.size <= MaxMessage

(* A client that sends its frames, closes stdin and reads until the end    *)
(* gets the response to each of them, if none breaks the protocol or the   *)
(* size limit and nobody interrupts the server.                            *)
EofAnswersAll ==
  /\ run = "returned" /\ code = 0 /\ eof /\ ~interrupted /\ ~lost
  /\ Violations(script) = {} /\ \A k \in DOMAIN script : Ordinary(script[k])
  => got = Serial(script, Len(script)).replies

(* However the frames are cut into reads, the server does what executing   *)
(* them one by one up to the first protocol violation does: each request   *)
(* has one response, sent or queued unless one could not be delivered, and *)
(* as long as every frame was an ordinary one, the variables are the map   *)
(* variables.h speaks of and the responses are those, in the order of the  *)
(* requests.  The end of input loses none.                                 *)
ServesInOrder ==
  LET serial == Serial(script, handled)
  IN  /\ step_cap = serial.st.cap
      /\ ~lost => Len(got \o writes) = Len(serial.replies)
      /\ (\A k \in 1 .. handled : Ordinary(script[k])) =>
           Holds(vars, serial.st) /\ (~lost => got \o writes = serial.replies)
      /\ \A k \in Violations(script) : handled <= k
      /\ EofAnswersAll

(* Whatever names the client sets, the stored variables are a map with at  *)
(* most MUA_VAR_MAX distinct names, a set replacing any prior value        *)
(* (variables.h:13-20): var_index finds no empty name, so every set of it  *)
(* takes another entry.                                                    *)
VariablesAreAMap == Holds(vars, Serial(script, handled).st)

(* A single message past kRpcMaxMessage closes the channel (rpc.c:25):     *)
(* rpc_drain asks for its size only while the message is incomplete, so    *)
(* one that the read at the limit completes is served.                     *)
OversizeCloses == \A k \in 1 .. handled : script[k].size > MaxMessage => stopping

(* Of the two, at least one is true.  A state that refutes this refutes    *)
(* both.                                                                   *)
SomeServerPromiseKept == VariablesAreAMap \/ OversizeCloses

(* rpc_serve does not return while libuv knows one of the handles in its   *)
(* stack frame, or a write that points at one.                             *)
ReturnsDetached == run = "returned" => in = "closed" /\ out = "closed" /\ writes = <<>>

(* The server ends after the end of input, a violation or an interrupt, if *)
(* what it writes is taken or refused, not left in the pipe for ever.      *)
ServeEnds ==
  WF_allVars(Flush) => ((eof \/ stopping \/ interrupted) ~> run = "returned")

===========================================================================
