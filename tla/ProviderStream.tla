-------------------------- MODULE ProviderStream --------------------------
(***************************************************************************)
(* One streamed response: the OpenrouterStream of openrouter.c over the    *)
(* HttpRequest of http.c.  Attempts, retries, the accumulation of events   *)
(* into one assistant message, cancellation and teardown.                  *)
(*                                                                         *)
(* `stack` is "loop" between two callbacks of the event loop, "chunk"      *)
(* inside write_cb (the events of one chunk are handled one by one) and    *)
(* "abort" once write_cb has told curl to give the transfer up.            *)
(*                                                                         *)
(* The server is the environment.  The n-th event of attempt k is the      *)
(* payload <<k, n>>: texts, ids, names and argument fragments are told     *)
(* apart by where they came from.                                          *)
(***************************************************************************)
EXTENDS Naturals, Sequences

CONSTANTS
  MaxAttempts,   \* MUA_HTTP_MAX_ATTEMPTS
  Index,         \* tool call indices in range (0 .. MUA_MAX_TOOL_CALLS - 1)
  MaxEvents      \* bound: events the server sends in one attempt

ASSUME StreamAssumption == MaxAttempts \in Nat \ {0} /\ MaxEvents \in Nat

Payload == (1 .. MaxAttempts) \X (1 .. MaxEvents)
None == <<0, 0>>     \* a latch that is not set

(* What openrouter_handle_event tells apart.  "bad" is every event that    *)
(* ends in a terminal error: malformed JSON, an error object, a cap        *)
(* exceeded, an index out of range.  "idle" carries only usage or nothing, *)
(* "unfinish" a finish_reason that is the empty string.                    *)
Event ==
  [kind : {"text", "finish", "unfinish", "done", "bad", "idle"}]
    \cup [kind : {"call"}, index : Index, id : BOOLEAN, name : BOOLEAN, args : BOOLEAN]

(* A ToolCall under construction. *)
CallRecord == [present : BOOLEAN, id : Payload \cup {None}, name : Payload \cup {None},
               args : Seq(Payload)]
NoCall == [present |-> FALSE, id |-> None, name |-> None, args |-> << >>]

VARIABLES
  attempt,          \* attempts started; 0 before openrouter_stream
  mode,             \* "undecided", "sse" or "errorbody"
  retry_status,     \* the HTTP status is one of status_is_retryable
  delivered,        \* text or a tool call arrived, in whatever attempt
  finish_reason,    \* a finish_reason was latched
  content,          \* the accumulated text
  tool_calls,       \* the accumulated calls, by index
  finished,         \* the terminal callback fired: "no", "done" or "error"
  cancel_requested, \* stream->cancel_requested
  retry_timer,      \* the retry timer is armed
  req,              \* "none", "live", or "canceled" (req->cancel_requested)
  reap_timer,       \* the client's reap timer is armed
  stack,            \* "loop", "chunk" or "abort"
  destroyed,        \* stream_destroy was called
  client,           \* "open", or "closed" by http_client_close
  sent,             \* history: the events of this attempt
  heard,            \* history: what on_text was given, over all attempts
  message           \* history: what on_done was given

accumulators == <<finish_reason, content, tool_calls>>
reqVars      == <<req, reap_timer, stack>>
history      == <<sent, heard, message>>
vars == <<attempt, mode, retry_status, delivered, accumulators, finished,
          cancel_requested, retry_timer, reqVars, destroyed, client, history>>

Init ==
  /\ attempt = 0 /\ mode = "undecided" /\ retry_status = FALSE /\ delivered = FALSE
  /\ finish_reason = FALSE /\ content = << >> /\ tool_calls = [i \in Index |-> NoCall]
  /\ finished = "no" /\ cancel_requested = FALSE /\ retry_timer = FALSE
  /\ req = "none" /\ reap_timer = FALSE /\ stack = "loop" /\ destroyed = FALSE
  /\ client = "open" /\ sent = << >> /\ heard = << >> /\ message = << >>

Live == attempt > 0 /\ ~destroyed
InLoop == Live /\ stack = "loop"
Here == <<attempt, Len(sent) + 1>>

---------------------------------------------------------------------------
(* Terminal callbacks: fire_error_msg and fire_done, silent once one fired. *)

(* Mutant: the latch is not checked. *)
FireErrorAgain == finished' = "error" /\ UNCHANGED message

FireError ==
  /\ finished' = IF finished = "no" THEN "error" ELSE finished
  /\ UNCHANGED message

Complete(call) == call.present => call.id # None /\ call.name # None

(* assemble_message, over the accumulated calls. *)
Assembled == [content |-> content, calls |-> tool_calls]

FireDone ==
  IF finished # "no" THEN UNCHANGED <<finished, message>>
  ELSE IF \A i \in Index : Complete(tool_calls[i])
  THEN finished' = "done" /\ message' = <<Assembled>>
  ELSE FireError

---------------------------------------------------------------------------
(* start_attempt: reset all but `delivered`, then http_request, which may  *)
(* fail at once.                                                           *)
ResetAccumulators ==
  /\ finish_reason' = FALSE
  /\ content' = << >>
  /\ tool_calls' = [i \in Index |-> NoCall]

HttpRequest ==
  \/ /\ req' = "live"
     /\ UNCHANGED <<finished, message, destroyed>>
  \/ /\ FireError
     /\ destroyed' = TRUE
     /\ UNCHANGED req

StartAttempt ==
  /\ ResetAccumulators
  /\ mode' = "undecided" /\ retry_status' = FALSE
  /\ attempt' = attempt + 1
  /\ sent' = << >>
  /\ HttpRequest
  /\ UNCHANGED <<delivered, cancel_requested, reap_timer, stack, client, heard>>

(* openrouter_stream. *)
OpenrouterStream ==
  /\ attempt = 0
  /\ StartAttempt
  /\ UNCHANGED retry_timer

(* retry_timer_cb. *)
RetryTimer ==
  /\ InLoop
  /\ retry_timer
  /\ retry_timer' = FALSE
  /\ StartAttempt

---------------------------------------------------------------------------
(* Data arrives. *)

(* report_status and or_on_status: decided once per attempt. *)
ReportStatus ==
  IF mode = "undecided"
  THEN \/ mode' = "sse" /\ retry_status' = FALSE
       \/ mode' = "errorbody" /\ retry_status' \in BOOLEAN
  ELSE UNCHANGED <<mode, retry_status>>

(* write_cb: a canceled transfer is given up on its next bytes. *)
WriteCb ==
  /\ InLoop
  /\ req # "none"
  /\ IF req = "canceled"
     THEN stack' = "abort" /\ UNCHANGED <<mode, retry_status>>
     ELSE stack' = "chunk" /\ ReportStatus
  /\ UNCHANGED <<attempt, delivered, accumulators, finished, cancel_requested,
                 retry_timer, req, reap_timer, destroyed, client, history>>

(* Mutant: the transfer is left to notice the flag by itself. *)
HttpCancelNoReap == req' = "canceled" /\ UNCHANGED reap_timer

(* http_cancel: flag the request and arm the reap timer. *)
HttpCancel == req' = "canceled" /\ reap_timer' = TRUE

(* The turn cancels from within on_text, or does not. *)
CancelInCallback ==
  \/ UNCHANGED <<cancel_requested, req, reap_timer>>
  \/ /\ ~cancel_requested
     /\ cancel_requested' = TRUE
     /\ HttpCancel

Latch(old, here) == IF old = None /\ here THEN Here ELSE old

(* accumulate_tool_calls, for one item. *)
AccumulateToolCall(e) ==
  LET call == tool_calls[e.index] IN
  /\ delivered' = TRUE
  /\ tool_calls' = [tool_calls EXCEPT ![e.index] =
       [present |-> TRUE,
        id      |-> Latch(call.id, e.id),
        name    |-> Latch(call.name, e.name),
        args    |-> IF e.args THEN Append(call.args, Here) ELSE call.args]]

(* openrouter_handle_event, called for each event of the chunk until it    *)
(* returns false.                                                          *)
HandleEvent(e) ==
  /\ stack = "chunk" /\ mode = "sse"
  /\ Len(sent) < MaxEvents
  /\ sent' = Append(sent, e)
  /\ CASE e.kind = "text" ->
            /\ content' = Append(content, Here)
            /\ heard' = Append(heard, Here)
            /\ delivered' = TRUE
            /\ CancelInCallback
            /\ UNCHANGED <<finish_reason, tool_calls, finished, message, stack>>
       [] e.kind = "call" ->
            /\ AccumulateToolCall(e)
            /\ UNCHANGED <<finish_reason, content, finished, message, heard, stack,
                           cancel_requested, req, reap_timer>>
       [] e.kind \in {"finish", "unfinish"} ->
            /\ finish_reason' = (e.kind = "finish")
            /\ UNCHANGED <<delivered, content, tool_calls, finished, message, heard, stack,
                           cancel_requested, req, reap_timer>>
       [] e.kind = "idle" ->
            UNCHANGED <<delivered, accumulators, finished, message, heard, stack,
                        cancel_requested, req, reap_timer>>
       [] e.kind = "done" ->
            /\ FireDone
            /\ stack' = "abort"
            /\ UNCHANGED <<delivered, accumulators, heard, cancel_requested, req, reap_timer>>
       [] e.kind = "bad" ->
            /\ FireError
            /\ stack' = "abort"
            /\ UNCHANGED <<delivered, accumulators, heard, cancel_requested, req, reap_timer>>
  /\ UNCHANGED <<attempt, mode, retry_status, retry_timer, destroyed, client>>

(* The parser itself overflows a cap: or_on_chunk reports it. *)
ParseFailure ==
  /\ stack = "chunk" /\ mode = "sse"
  /\ FireError
  /\ stack' = "abort"
  /\ UNCHANGED <<attempt, mode, retry_status, delivered, accumulators, cancel_requested,
                 retry_timer, req, reap_timer, destroyed, client, sent, heard>>

ChunkEnd ==
  /\ stack = "chunk"
  /\ stack' = "loop"
  /\ UNCHANGED <<attempt, mode, retry_status, delivered, accumulators, finished,
                 cancel_requested, retry_timer, req, reap_timer, destroyed, client, history>>

---------------------------------------------------------------------------
(* A request ends. *)

(* Mutants: the cap is off by one; text already shown does not matter. *)
MayRetryOnceMore(m, status, result) ==
  ((m # "sse" /\ status) \/ result = "retryable") /\ ~delivered /\ attempt <= MaxAttempts
MayRetryDelivered(m, status, result) ==
  ((m # "sse" /\ status) \/ result = "retryable") /\ attempt < MaxAttempts

(* A failed or refused attempt may be tried again. *)
MayRetry(m, status, result) ==
  /\ (m # "sse" /\ status) \/ result = "retryable"
  /\ ~delivered
  /\ attempt < MaxAttempts

Stopped == finished # "no" \/ cancel_requested

(* or_on_complete, from finish_request; `m` and `status` are the mode and  *)
(* the class of the status then, `eof` whether the parser ends clean.      *)
OnComplete(m, status, result, eof) ==
  /\ req' = "none"
  /\ stack' = "loop"
  /\ \/ /\ Stopped
        /\ FireError
        /\ destroyed' = TRUE
        /\ UNCHANGED retry_timer
     \/ /\ ~Stopped
        /\ m = "sse" /\ result = "ok"
        /\ IF finish_reason /\ eof THEN FireDone ELSE FireError
        /\ destroyed' = TRUE
        /\ UNCHANGED retry_timer
     \/ /\ ~Stopped
        /\ ~(m = "sse" /\ result = "ok")
        /\ IF MayRetry(m, status, result)
           THEN retry_timer' = TRUE /\ UNCHANGED <<finished, message, destroyed>>
           ELSE FireError /\ destroyed' = TRUE /\ UNCHANGED retry_timer
  /\ UNCHANGED <<attempt, delivered, accumulators, cancel_requested, sent, heard>>

(* check_multi_info in the callback whose write_cb gave the transfer up:   *)
(* CURLE_WRITE_ERROR.                                                      *)
WriteError ==
  /\ stack = "abort"
  /\ OnComplete(mode, retry_status, "fatal", FALSE)
  /\ UNCHANGED <<mode, retry_status, reap_timer, client>>

(* check_multi_info: the transfer is over.  A bodyless response reports    *)
(* its status first.                                                       *)
TransferDone(result, eof) ==
  /\ InLoop
  /\ req # "none"
  /\ ReportStatus \/ (result # "ok" /\ UNCHANGED <<mode, retry_status>>)
  /\ OnComplete(mode', retry_status', result, eof)
  /\ UNCHANGED <<reap_timer, client>>

(* reap_cb: a canceled request that is still there is finished. *)
ReapTimer ==
  /\ reap_timer
  /\ stack = "loop"
  /\ reap_timer' = FALSE
  /\ IF req = "canceled"
     THEN OnComplete(mode, retry_status, "fatal", FALSE)
     ELSE UNCHANGED <<attempt, delivered, accumulators, finished, cancel_requested,
                      retry_timer, req, stack, destroyed, history>>
  /\ UNCHANGED <<mode, retry_status, client>>

---------------------------------------------------------------------------
(* Mutant: a stream waiting to retry is stopped and not reported. *)
OpenrouterCancelSilent ==
  /\ InLoop
  /\ finished = "no" /\ ~cancel_requested
  /\ cancel_requested' = TRUE
  /\ IF req # "none" THEN HttpCancel /\ UNCHANGED retry_timer
     ELSE retry_timer' = FALSE /\ UNCHANGED <<req, reap_timer>>
  /\ UNCHANGED <<attempt, mode, retry_status, delivered, accumulators, stack, client,
                 finished, destroyed, history>>

(* openrouter_cancel from the event loop: flag a live request and let its  *)
(* completion report, or stop the retry timer and report at once.          *)
OpenrouterCancel ==
  /\ InLoop
  /\ finished = "no" /\ ~cancel_requested
  /\ cancel_requested' = TRUE
  /\ \/ /\ req # "none"
        /\ HttpCancel
        /\ UNCHANGED <<retry_timer, finished, message, destroyed>>
     \/ /\ req = "none"
        /\ retry_timer' = FALSE
        /\ FireError
        /\ destroyed' = TRUE
        /\ UNCHANGED <<req, reap_timer>>
  /\ UNCHANGED <<attempt, mode, retry_status, delivered, accumulators, stack, client,
                 sent, heard>>

(* http_client_close, when run_agent ends: no turn is live, or two SIGINTs *)
(* stopped the loop, the first of which canceled.  Live requests are       *)
(* finished on the spot.                                                   *)
HttpClientClose ==
  /\ client = "open"
  /\ stack = "loop"
  /\ destroyed \/ cancel_requested
  /\ client' = "closed"
  /\ reap_timer' = FALSE
  /\ IF req # "none"
     THEN OnComplete(mode, retry_status, "fatal", FALSE)
     ELSE UNCHANGED <<attempt, delivered, accumulators, finished, cancel_requested,
                      retry_timer, req, stack, destroyed, history>>
  /\ UNCHANGED <<mode, retry_status>>

---------------------------------------------------------------------------
TransferEnds == \E r \in {"ok", "retryable", "fatal"}, eof \in BOOLEAN : TransferDone(r, eof)
Chunk == ParseFailure \/ \E e \in Event : HandleEvent(e)

Next ==
  \/ OpenrouterStream \/ RetryTimer
  \/ WriteCb \/ TransferEnds \/ Chunk \/ ChunkEnd \/ WriteError
  \/ ReapTimer \/ OpenrouterCancel \/ HttpClientClose

(* The event loop fires what is due, a chunk ends, curl reports what it    *)
(* gave up.  Nothing is assumed of the server.                             *)
Fairness ==
  /\ WF_vars(RetryTimer)
  /\ WF_vars(ReapTimer)
  /\ WF_vars(ChunkEnd)
  /\ WF_vars(WriteError)

Spec == Init /\ [][Next]_vars /\ Fairness

---------------------------------------------------------------------------
(* Properties. *)

(* Every variable holds a value of its type; the attempts are bounded. *)
TypeOK ==
  /\ attempt \in 0 .. MaxAttempts
  /\ mode \in {"undecided", "sse", "errorbody"}
  /\ retry_status \in BOOLEAN /\ delivered \in BOOLEAN /\ finish_reason \in BOOLEAN
  /\ content \in Seq(Payload)
  /\ tool_calls \in [Index -> CallRecord]
  /\ finished \in {"no", "done", "error"}
  /\ cancel_requested \in BOOLEAN /\ retry_timer \in BOOLEAN
  /\ req \in {"none", "live", "canceled"} /\ reap_timer \in BOOLEAN
  /\ stack \in {"loop", "chunk", "abort"}
  /\ destroyed \in BOOLEAN /\ client \in {"open", "closed"}
  /\ sent \in Seq(Event) /\ heard \in Seq(Payload)

(* A stream that was not destroyed always has somebody who will call it    *)
(* back: a request in flight or the retry timer, never both.  Otherwise it *)
(* would leak and its turn wait for ever.                                  *)
OneOwner ==
  Live => (req # "none") # retry_timer

(* A destroyed stream is memory about to be freed: no request refers to it *)
(* any more and its retry timer is off, and its caller was told the end.   *)
DestroyedIsDetached ==
  destroyed => req = "none" /\ ~retry_timer /\ finished # "no" /\ stack = "loop"

(* A canceled stream never waits to retry, so that when run_agent closes   *)
(* the client under it (second SIGINT) no attempt starts on a freed client.*)
ClosedClientUnused ==
  client = "closed" => destroyed

(* Until it is destroyed a stream has one owner, and none from then on.    *)
OwnedUntilDestroyed == OneOwner /\ DestroyedIsDetached /\ ClosedClientUnused

(* The positions, in this attempt, of the texts and of the calls at index i,*)
(* and of those of the calls that carry an id, a name, a fragment.         *)
TextAt     == {n \in DOMAIN sent : sent[n].kind = "text"}
CallAt(i)  == {n \in DOMAIN sent : sent[n].kind = "call" /\ sent[n].index = i}
IdAt(i)    == {n \in CallAt(i) : sent[n].id}
NameAt(i)  == {n \in CallAt(i) : sent[n].name}
PieceAt(i) == {n \in CallAt(i) : sent[n].args}

(* s holds the events of attempt a at ns, each once, in the order they were*)
(* sent.                                                                   *)
Lists(s, a, ns) ==
  /\ \A k \in DOMAIN s : \E n \in ns : s[k] = <<a, n>>
  /\ \A n \in ns : \E k \in DOMAIN s : s[k] = <<a, n>>
  /\ \A j, k \in DOMAIN s : j < k => s[j][2] < s[k][2]

(* x is the first of the events of attempt a at ns. *)
IsFirst(x, a, ns) ==
  IF ns = {} THEN x = None
  ELSE \E n \in ns : x = <<a, n>> /\ \A m \in ns : n <= m

(* A text and calls are what the events of this attempt spell. *)
Spells(text, calls) ==
  /\ Lists(text, attempt, TextAt)
  /\ \A i \in Index :
       /\ calls[i].present <=> CallAt(i) # {}
       /\ IsFirst(calls[i].id, attempt, IdAt(i))
       /\ IsFirst(calls[i].name, attempt, NameAt(i))
       /\ Lists(calls[i].args, attempt, PieceAt(i))

(* The last word on finish_reason is not the empty string. *)
SaidFinished ==
  \E n \in DOMAIN sent :
    /\ sent[n].kind = "finish"
    /\ \A m \in DOMAIN sent : n < m => sent[m].kind # "unfinish"

DoneIsTheResponse ==
  finished = "done" =>
    /\ Len(message) = 1
    /\ Spells(message[1].content, message[1].calls)
    /\ \A i \in Index : Complete(message[1].calls[i])
    /\ SaidFinished \/ \E n \in DOMAIN sent : sent[n].kind = "done"

NoDuplicateOutput == heard # << >> => heard = content

(* on_done hands over exactly what the server sent in the last attempt,    *)
(* and only if the server ended it with [DONE] or left it with a           *)
(* finish_reason; every tool call in it has its id and its name.  Nothing  *)
(* of an earlier attempt leaks through the resets of start_attempt.  And   *)
(* the user never sees text twice, nor text of an attempt that was given   *)
(* up: what on_text streamed out is the content of the one attempt.        *)
ResponseExact == DoneIsTheResponse /\ NoDuplicateOutput

(* The stream keeps the contract the agent turn relies on: one terminal    *)
(* callback, nothing after it.                                             *)
Contract == INSTANCE ResponseContract WITH
  Text     <- Payload,
  phase    <- IF attempt = 0 THEN "idle" ELSE IF finished = "no" THEN "live" ELSE finished,
  canceled <- cancel_requested

KeepsContract == Contract!ContractSpec

(* Every stream ends and is destroyed if every transfer does: curl ends a  *)
(* stalled one (LOW_SPEED), the server one that keeps coming, for http.c   *)
(* sets no total timeout.  A canceled stream needs nothing of the server:  *)
(* it reports its end even if not another byte comes.                      *)
StreamEnds ==
  /\ SF_vars(TransferEnds) => (attempt > 0 ~> destroyed)
  /\ cancel_requested ~> destroyed

===========================================================================
