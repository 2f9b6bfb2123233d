------------------------ MODULE ProviderStreamProofs ------------------------
(***************************************************************************)
(* The ownership of a provider stream, what it hands over, its contract,   *)
(* and what the terminal shows of it, for any number of attempts, tool call*)
(* indices and events, and for any texts and any cap of a line.            *)
(***************************************************************************)
EXTENDS Terminal, SequenceTheorems, FiniteSetTheorems, WellFoundedInduction, TLAPS

(* Before openrouter_stream nothing has happened. *)
NotStarted ==
  attempt = 0 =>
    /\ req = "none" /\ ~retry_timer /\ stack = "loop" /\ finished = "no"
    /\ ~destroyed /\ ~cancel_requested /\ ~delivered /\ client = "open"

(* curl calls back for a request in flight; once the terminal callback has *)
(* fired, the transfer is given up and nothing but its end comes.          *)
CallbackHasRequest ==
  /\ stack # "loop" => Live /\ req # "none"
  /\ Live /\ stack # "abort" => finished = "no"

(* A cancel that leaves the stream alive has a request to wait for. *)
CancelHasRequest == Live => (cancel_requested <=> req = "canceled")

(* A retry is only due while nothing was shown and attempts are left. *)
RetryIsUnseen == retry_timer => ~delivered /\ attempt < MaxAttempts

Ownership ==
  OwnedUntilDestroyed /\ NotStarted /\ CallbackHasRequest /\ CancelHasRequest /\ RetryIsUnseen

(* What was shown is the text of this attempt, and delivered remembers it. *)
ShownIsContent == heard = content /\ (heard # << >> => delivered)

(* The accumulators are what the events of this attempt spell, and so is   *)
(* the message that was handed over.                                       *)
Accumulated ==
  /\ Spells(content, tool_calls)
  /\ finish_reason => SaidFinished
  /\ finished = "done" =>
       /\ message = <<Assembled>>
       /\ \A i \in Index : Complete(tool_calls[i])
       /\ SaidFinished \/ \E n \in DOMAIN sent : sent[n].kind = "done"

StreamInv == TypeOK /\ Ownership /\ ShownIsContent /\ Accumulated

---------------------------------------------------------------------------

LEMMA NoCallTyped == [i \in Index |-> NoCall] \in [Index -> CallRecord]
<1>1. << >> \in Seq(Payload) /\ None \in Payload \cup {None} /\ FALSE \in BOOLEAN
  OBVIOUS
<1>2. NoCall \in CallRecord
  BY <1>1, SMT DEF NoCall, CallRecord
<1>. QED
  BY <1>2

(* Nothing has happened, so nothing is owed and nothing is spelled. *)
LEMMA InitStream == Init => StreamInv
<1>1. SUFFICES ASSUME Init PROVE StreamInv
  OBVIOUS
<1>2. TypeOK
  <2>1. attempt \in 0 .. MaxAttempts
    BY <1>1, StreamAssumption DEF Init
  <2>2. tool_calls \in [Index -> CallRecord]
    BY <1>1, NoCallTyped DEF Init
  <2>3. content \in Seq(Payload) /\ sent \in Seq(Event) /\ heard \in Seq(Payload)
    BY <1>1 DEF Init
  <2>. QED
    BY <1>1, <2>1, <2>2, <2>3, Zenon DEF Init, TypeOK
<1>3. Ownership /\ ShownIsContent
  BY <1>1 DEF Init, Ownership, OwnedUntilDestroyed, OneOwner, DestroyedIsDetached,
              ClosedClientUnused, NotStarted, CallbackHasRequest, CancelHasRequest,
              RetryIsUnseen, ShownIsContent, Live
<1>4. Accumulated
  BY <1>1 DEF Init, Accumulated, Spells, Lists, IsFirst, TextAt, CallAt, IdAt, NameAt, PieceAt,
              NoCall
<1>. QED
  BY <1>2, <1>3, <1>4 DEF StreamInv

---------------------------------------------------------------------------
(* The end of a request, in whatever callback. *)

(* A terminal callback fires at most once. *)
LEMMA Fires ==
  ASSUME finished \in {"no", "done", "error"}, FireDone \/ FireError
  PROVE  /\ finished' \in {"done", "error"}
         /\ finished # "no" => finished' = finished
         /\ finished' = "done" /\ finished = "no" =>
              message' = <<Assembled>> /\ \A i \in Index : Complete(tool_calls[i])
         /\ finished' # "done" \/ finished # "no" => message' = message
BY DEF FireDone, FireError

(* A request that ends takes the stream with it, or arms the retry timer of*)
(* a stream that may go on and has shown nothing.                          *)
LEMMA RequestEnds ==
  ASSUME finished \in {"no", "done", "error"}, NEW m, NEW status \in BOOLEAN, NEW result,
         NEW eof \in BOOLEAN, OnComplete(m, status, result, eof)
  PROVE  /\ req' = "none" /\ stack' = "loop"
         /\ UNCHANGED <<attempt, delivered, accumulators, cancel_requested, sent, heard>>
         /\ \/ /\ destroyed' = TRUE /\ retry_timer' = retry_timer
               /\ FireError \/ (FireDone /\ finish_reason /\ finished = "no")
            \/ /\ ~Stopped /\ ~delivered /\ attempt < MaxAttempts
               /\ retry_timer' = TRUE /\ UNCHANGED <<finished, message, destroyed>>
BY DEF OnComplete, MayRetry, Stopped

(* Such a stream stays with nobody to call it back no more than any other, *)
(* and http_client_close, which ends a request of a canceled stream only,  *)
(* leaves nothing behind.                                                  *)
LEMMA CompleteOwnership ==
  ASSUME StreamInv, Live, req # "none",
         NEW m, NEW status \in BOOLEAN, NEW result, NEW eof \in BOOLEAN,
         OnComplete(m, status, result, eof),
         client' = client \/ (client' = "closed" /\ cancel_requested)
  PROVE  Ownership'
<1>. USE DEF StreamInv, TypeOK, Ownership, OwnedUntilDestroyed, OneOwner, DestroyedIsDetached,
             ClosedClientUnused, NotStarted, CallbackHasRequest, CancelHasRequest,
             RetryIsUnseen, Live
<1>1. CASE /\ destroyed' = TRUE /\ retry_timer' = retry_timer
           /\ FireError \/ (FireDone /\ finish_reason /\ finished = "no")
  BY <1>1, Fires, RequestEnds
<1>2. CASE /\ ~Stopped /\ ~delivered /\ attempt < MaxAttempts
           /\ retry_timer' = TRUE /\ UNCHANGED <<finished, message, destroyed>>
  BY <1>2, RequestEnds DEF Stopped
<1>. QED
  BY <1>1, <1>2, RequestEnds

---------------------------------------------------------------------------
(* Ownership, action by action. *)

LEMMA StartOwnership == ASSUME StreamInv, OpenrouterStream \/ RetryTimer PROVE Ownership'
BY DEF StreamInv, TypeOK, Ownership, OwnedUntilDestroyed, OneOwner, DestroyedIsDetached,
       ClosedClientUnused, NotStarted, CallbackHasRequest, CancelHasRequest, RetryIsUnseen,
       Live, InLoop, OpenrouterStream, RetryTimer, StartAttempt, HttpRequest, FireError

LEMMA WriteOwnership == ASSUME StreamInv, WriteCb \/ ChunkEnd PROVE Ownership'
BY DEF StreamInv, TypeOK, Ownership, OwnedUntilDestroyed, OneOwner, DestroyedIsDetached,
       ClosedClientUnused, NotStarted, CallbackHasRequest, CancelHasRequest, RetryIsUnseen,
       Live, InLoop, WriteCb, ChunkEnd

(* In a callback: only a cancel from within on_text touches the request,   *)
(* and a terminal event gives the transfer up.                             *)
LEMMA ChunkOwnership == ASSUME StreamInv, Chunk PROVE Ownership'
<1>. USE DEF StreamInv, TypeOK, Ownership, OwnedUntilDestroyed, OneOwner, DestroyedIsDetached,
             ClosedClientUnused, NotStarted, CallbackHasRequest, CancelHasRequest,
             RetryIsUnseen, Live
<1>1. CASE ParseFailure
  BY <1>1, Fires DEF ParseFailure
<1>2. ASSUME NEW e \in Event, HandleEvent(e) PROVE Ownership'
  <2>1. /\ stack = "chunk" /\ finished = "no"
        /\ UNCHANGED <<attempt, retry_timer, destroyed, client>>
    BY <1>2 DEF HandleEvent
  <2>2. CASE e.kind = "text"
    BY <1>2, <2>1, <2>2 DEF HandleEvent, CancelInCallback, HttpCancel
  <2>3. CASE e.kind \in {"call", "finish", "unfinish", "idle"}
    BY <1>2, <2>1, <2>3 DEF HandleEvent, AccumulateToolCall
  <2>4. CASE e.kind \in {"done", "bad"}
    BY <1>2, <2>1, <2>4, Fires DEF HandleEvent
  <2>. QED
    BY <2>2, <2>3, <2>4 DEF Event
<1>. QED
  BY <1>1, <1>2 DEF Chunk

LEMMA EndOwnership == ASSUME StreamInv, WriteError \/ TransferEnds PROVE Ownership'
<1>1. CASE WriteError
  BY <1>1, CompleteOwnership DEF WriteError, StreamInv, TypeOK, Ownership, CallbackHasRequest
<1>2. ASSUME NEW r, NEW eof \in BOOLEAN, TransferDone(r, eof) PROVE Ownership'
  <2>1. retry_status' \in BOOLEAN
    BY <1>2 DEF TransferDone, ReportStatus, StreamInv, TypeOK
  <2>. QED
    BY <1>2, <2>1, CompleteOwnership DEF TransferDone, InLoop
<1>. QED
  BY <1>1, <1>2 DEF TransferEnds

(* What the reap timer and http_client_close end had been canceled. *)
LEMMA CanceledOwnership ==
  ASSUME StreamInv, ReapTimer \/ OpenrouterCancel \/ HttpClientClose PROVE Ownership'
<1>1. /\ req # "none" => Live
      /\ Live => (cancel_requested <=> req = "canceled")
      /\ retry_status \in BOOLEAN
  BY DEF StreamInv, TypeOK, Ownership, OwnedUntilDestroyed, DestroyedIsDetached, NotStarted,
         CancelHasRequest, Live
<1>2. CASE ReapTimer /\ req = "canceled"
  BY <1>1, <1>2, CompleteOwnership DEF ReapTimer
<1>3. CASE HttpClientClose /\ req # "none"
  <2>1. cancel_requested
    BY <1>1, <1>3 DEF HttpClientClose, Live
  <2>. QED
    BY <1>1, <1>3, <2>1, CompleteOwnership DEF HttpClientClose
<1>4. CASE OpenrouterCancel
  BY <1>4, Fires
     DEF OpenrouterCancel, InLoop, HttpCancel, StreamInv, TypeOK, Ownership,
         OwnedUntilDestroyed, OneOwner, DestroyedIsDetached, ClosedClientUnused, NotStarted,
         CallbackHasRequest, CancelHasRequest, RetryIsUnseen, Live
<1>5. CASE ReapTimer /\ req # "canceled"
  BY <1>5 DEF ReapTimer, StreamInv, TypeOK, Ownership,
         OwnedUntilDestroyed, OneOwner, DestroyedIsDetached, ClosedClientUnused, NotStarted,
         CallbackHasRequest, CancelHasRequest, RetryIsUnseen, Live
<1>6. CASE HttpClientClose /\ req = "none"
  <2>1. destroyed
    BY <1>1, <1>6 DEF HttpClientClose, StreamInv, TypeOK, Ownership, NotStarted, Live
  <2>. QED
    BY <1>6, <2>1 DEF HttpClientClose, StreamInv, TypeOK, Ownership,
         OwnedUntilDestroyed, OneOwner, DestroyedIsDetached, ClosedClientUnused, NotStarted,
         CallbackHasRequest, CancelHasRequest, RetryIsUnseen, Live
<1>. QED
  BY <1>2, <1>3, <1>4, <1>5, <1>6

LEMMA OwnershipStep == ASSUME StreamInv, [Next]_vars PROVE Ownership'
<1>1. CASE UNCHANGED vars
  BY <1>1 DEF vars, reqVars, accumulators, history, StreamInv, Ownership, OwnedUntilDestroyed,
              OneOwner, DestroyedIsDetached, ClosedClientUnused, NotStarted,
              CallbackHasRequest, CancelHasRequest, RetryIsUnseen, Live
<1>. QED
  BY <1>1, StartOwnership, WriteOwnership, ChunkOwnership, EndOwnership, CanceledOwnership
     DEF Next

---------------------------------------------------------------------------
(* Types. *)

(* An event's payload is one of this attempt. *)
LEMMA HerePayload ==
  ASSUME TypeOK, attempt # 0, Len(sent) < MaxEvents PROVE Here \in Payload
BY StreamAssumption DEF TypeOK, Here, Payload

LEMMA CallTyped ==
  ASSUME TypeOK, Here \in Payload, NEW e \in Event, e.kind = "call", AccumulateToolCall(e)
  PROVE  tool_calls' \in [Index -> CallRecord]
<1>1. /\ e.index \in Index /\ e.id \in BOOLEAN /\ e.name \in BOOLEAN /\ e.args \in BOOLEAN
  BY DEF Event
<1>2. tool_calls \in [Index -> CallRecord]
  BY DEF TypeOK
<1>. DEFINE c == tool_calls[e.index]
            d == [present |-> TRUE, id |-> Latch(c.id, e.id), name |-> Latch(c.name, e.name),
                  args |-> IF e.args THEN Append(c.args, Here) ELSE c.args]
<1>3. c.id \in Payload \cup {None} /\ c.name \in Payload \cup {None} /\ c.args \in Seq(Payload)
  BY <1>1, <1>2 DEF CallRecord
<1>4. /\ Latch(c.id, e.id) \in Payload \cup {None}
      /\ Latch(c.name, e.name) \in Payload \cup {None}
  BY <1>3 DEF Latch
<1>5. (IF e.args THEN Append(c.args, Here) ELSE c.args) \in Seq(Payload)
  BY <1>3
<1>6. d \in CallRecord
  BY <1>4, <1>5 DEF CallRecord
<1>7. tool_calls' = [tool_calls EXCEPT ![e.index] = d]
  BY DEF AccumulateToolCall
<1>. QED
  BY <1>1, <1>2, <1>6, <1>7

LEMMA EventTypes == ASSUME StreamInv, NEW e \in Event, HandleEvent(e) PROVE TypeOK'
<1>. USE DEF StreamInv
<1>1. TypeOK /\ stack = "chunk" /\ attempt # 0 /\ Here \in Payload
  BY HerePayload DEF HandleEvent, Ownership, CallbackHasRequest, Live, TypeOK
<1>2. sent' \in Seq(Event)
  BY <1>1 DEF HandleEvent, TypeOK
<1>3. CASE e.kind = "text"
  <2>1. /\ content' = Append(content, Here) /\ heard' = Append(heard, Here)
        /\ delivered' = TRUE /\ CancelInCallback
        /\ UNCHANGED <<attempt, mode, retry_status, retry_timer, destroyed, client,
                       finish_reason, tool_calls, finished, stack>>
    BY <1>3 DEF HandleEvent
  <2>2. content' \in Seq(Payload) /\ heard' \in Seq(Payload)
    BY <1>1, <2>1 DEF TypeOK
  <2>3. /\ cancel_requested' \in BOOLEAN /\ req' \in {"none", "live", "canceled"}
        /\ reap_timer' \in BOOLEAN
    BY <1>1, <2>1 DEF TypeOK, CancelInCallback, HttpCancel
  <2>. QED
    BY <1>1, <1>2, <2>1, <2>2, <2>3 DEF TypeOK
<1>4. CASE e.kind = "call"
  <2>1. AccumulateToolCall(e) /\ delivered' = TRUE
    BY <1>4 DEF HandleEvent, AccumulateToolCall
  <2>2. tool_calls' \in [Index -> CallRecord]
    BY <1>1, <1>4, <2>1, CallTyped
  <2>. QED
    BY <1>1, <1>2, <1>4, <2>1, <2>2 DEF HandleEvent, TypeOK
<1>5. CASE e.kind \in {"finish", "unfinish", "idle"}
  <2>1. /\ finish_reason' \in {finish_reason, TRUE, FALSE}
        /\ UNCHANGED <<attempt, mode, retry_status, retry_timer, destroyed, client, delivered,
                       content, tool_calls, finished, heard, stack, cancel_requested, req,
                       reap_timer>>
    BY <1>5 DEF HandleEvent, accumulators
  <2>2. finish_reason' \in BOOLEAN
    BY <1>1, <2>1 DEF TypeOK
  <2>. QED
    BY <1>1, <1>2, <2>1, <2>2 DEF TypeOK
<1>6. CASE e.kind \in {"done", "bad"}
  <2>1. /\ FireDone \/ FireError
        /\ UNCHANGED <<attempt, mode, retry_status, retry_timer, destroyed, client, delivered,
                       content, tool_calls, finish_reason, heard, cancel_requested, req,
                       reap_timer>>
        /\ stack' = "abort"
    BY <1>6 DEF HandleEvent, accumulators
  <2>2. finished' \in {"done", "error"}
    BY <1>1, <2>1, Fires DEF TypeOK
  <2>. QED
    BY <1>1, <1>2, <2>1, <2>2 DEF TypeOK
<1>. QED
  BY <1>3, <1>4, <1>5, <1>6 DEF Event

LEMMA StartTypes == ASSUME StreamInv, OpenrouterStream \/ RetryTimer PROVE TypeOK'
<1>1. attempt' \in 0 .. MaxAttempts
  BY StreamAssumption DEF StreamInv, TypeOK, Ownership, RetryIsUnseen, OpenrouterStream,
                          RetryTimer, StartAttempt
<1>2. /\ tool_calls' \in [Index -> CallRecord]
      /\ content' \in Seq(Payload) /\ sent' \in Seq(Event) /\ finish_reason' = FALSE
  <2>1. StartAttempt
    BY DEF OpenrouterStream, RetryTimer
  <2>2. /\ tool_calls' = [i \in Index |-> NoCall] /\ content' = << >> /\ sent' = << >>
        /\ finish_reason' = FALSE
    BY <2>1 DEF StartAttempt, ResetAccumulators
  <2>. QED
    BY <2>2, NoCallTyped
<1>3. /\ finished' \in {"no", "done", "error"} /\ destroyed' \in BOOLEAN
      /\ req' \in {"none", "live", "canceled"}
  BY DEF StreamInv, TypeOK, OpenrouterStream, RetryTimer, StartAttempt, HttpRequest, FireError
<1>4. retry_timer' \in BOOLEAN
  BY DEF StreamInv, TypeOK, OpenrouterStream, RetryTimer
<1>. QED
  BY <1>1, <1>2, <1>3, <1>4
     DEF StreamInv, TypeOK, OpenrouterStream, RetryTimer, StartAttempt

LEMMA CompleteTypes ==
  ASSUME TypeOK, NEW m, NEW status \in BOOLEAN, NEW result, NEW eof \in BOOLEAN,
         OnComplete(m, status, result, eof),
         mode' \in {"undecided", "sse", "errorbody"}, retry_status' \in BOOLEAN,
         reap_timer' \in BOOLEAN, client' \in {"open", "closed"}
  PROVE  TypeOK'
<1>1. finished' \in {"no", "done", "error"} /\ destroyed' \in BOOLEAN /\ retry_timer' \in BOOLEAN
  BY RequestEnds, Fires DEF TypeOK
<1>2. /\ req' = "none" /\ stack' = "loop"
      /\ UNCHANGED <<attempt, delivered, accumulators, cancel_requested, sent, heard>>
  BY RequestEnds DEF TypeOK
<1>. QED
  BY <1>1, <1>2 DEF TypeOK, accumulators

LEMMA EndTypes ==
  ASSUME StreamInv, WriteError \/ TransferEnds \/ ReapTimer \/ HttpClientClose PROVE TypeOK'
<1>1. TypeOK /\ retry_status \in BOOLEAN
  BY DEF StreamInv, TypeOK
<1>2. CASE WriteError
  BY <1>1, <1>2, CompleteTypes DEF WriteError, TypeOK
<1>3. ASSUME NEW r, NEW eof \in BOOLEAN, TransferDone(r, eof) PROVE TypeOK'
  <2>1. mode' \in {"undecided", "sse", "errorbody"} /\ retry_status' \in BOOLEAN
    BY <1>1, <1>3 DEF TransferDone, ReportStatus, TypeOK
  <2>. QED
    BY <1>1, <1>3, <2>1, CompleteTypes DEF TransferDone, TypeOK
<1>4. CASE ReapTimer
  <2>1. CASE req = "canceled"
    BY <1>1, <1>4, <2>1, CompleteTypes DEF ReapTimer, TypeOK
  <2>2. CASE req # "canceled"
    <3>1. reap_timer' = FALSE /\ UNCHANGED <<mode, retry_status, client>>
      BY <1>4 DEF ReapTimer
    <3>2. UNCHANGED <<attempt, delivered, accumulators, finished, cancel_requested, retry_timer,
                      req, stack, destroyed, history>>
      BY <1>4, <2>2 DEF ReapTimer
    <3>3. UNCHANGED <<attempt, delivered, finish_reason, content, tool_calls, finished,
                      cancel_requested, retry_timer, req, stack, destroyed, mode, retry_status,
                      client, sent, heard>>
      BY <3>1, <3>2 DEF accumulators, history
    <3>4. reap_timer' \in BOOLEAN
      BY <3>1, Zenon
    <3>. QED
      BY <1>1, <3>3, <3>4 DEF TypeOK
  <2>. QED
    BY <2>1, <2>2
<1>5. CASE HttpClientClose
  <2>1. CASE req # "none"
    BY <1>1, <1>5, <2>1, CompleteTypes DEF HttpClientClose, TypeOK
  <2>2. CASE req = "none"
    BY <1>1, <1>5, <2>2 DEF HttpClientClose, TypeOK, accumulators, history
  <2>. QED
    BY <2>1, <2>2
<1>. QED
  BY <1>2, <1>3, <1>4, <1>5 DEF TransferEnds

LEMMA TypeStep == ASSUME StreamInv, [Next]_vars PROVE TypeOK'
<1>. USE DEF StreamInv
<1>1. CASE WriteCb \/ ChunkEnd
  <2>1. /\ mode' \in {"undecided", "sse", "errorbody"} /\ retry_status' \in BOOLEAN
        /\ stack' \in {"loop", "chunk", "abort"}
    BY <1>1 DEF TypeOK, WriteCb, ReportStatus, ChunkEnd
  <2>2. UNCHANGED <<attempt, delivered, accumulators, finished, cancel_requested, retry_timer,
                    req, reap_timer, destroyed, client, sent, heard>>
    BY <1>1 DEF WriteCb, ChunkEnd, history
  <2>. QED
    BY <2>1, <2>2 DEF TypeOK, accumulators
<1>2. CASE ParseFailure
  BY <1>2, Fires DEF TypeOK, ParseFailure, accumulators
<1>3. CASE OpenrouterCancel
  BY <1>3, Fires DEF TypeOK, OpenrouterCancel, HttpCancel, accumulators
<1>4. CASE UNCHANGED vars
  BY <1>4 DEF TypeOK, vars, accumulators, reqVars, history
<1>. QED
  BY <1>1, <1>2, <1>3, <1>4, EventTypes, StartTypes, EndTypes DEF Next, Chunk

---------------------------------------------------------------------------
(* What is shown, and what the accumulators spell. *)

(* One more event, later than all the others. *)
LEMMA ListsMore ==
  ASSUME NEW S, NEW s \in Seq(S), NEW a, NEW ns \in SUBSET Nat, NEW n \in Nat,
         \A m \in ns : m < n, <<a, n>> \in S, Lists(s, a, ns)
  PROVE  Lists(Append(s, <<a, n>>), a, ns \cup {n})
<1>. DEFINE t == Append(s, <<a, n>>)
<1>1. /\ Len(s) \in Nat /\ DOMAIN s = 1 .. Len(s) /\ DOMAIN t = 1 .. Len(s) + 1
      /\ \A k \in DOMAIN s : t[k] = s[k]
      /\ t[Len(s) + 1] = <<a, n>>
  OBVIOUS
<1>. HIDE DEF t
<1>2. \A k \in DOMAIN s : \E m \in ns : s[k] = <<a, m>> /\ s[k][2] = m
  BY DEF Lists
<1>3. \A k \in DOMAIN t : \E m \in ns \cup {n} : t[k] = <<a, m>>
  BY <1>1, <1>2
<1>4. \A m \in ns \cup {n} : \E k \in DOMAIN t : t[k] = <<a, m>>
  <2>1. \A m \in ns : \E k \in DOMAIN s : s[k] = <<a, m>>
    BY DEF Lists
  <2>2. DOMAIN s \subseteq DOMAIN t /\ Len(s) + 1 \in DOMAIN t
    BY <1>1
  <2>. QED
    BY <1>1, <2>1, <2>2
<1>5. ASSUME NEW j \in DOMAIN t, NEW k \in DOMAIN t, j < k PROVE t[j][2] < t[k][2]
  <2>1. j \in DOMAIN s /\ t[j] = s[j]
    BY <1>1, <1>5
  <2>2. CASE k \in DOMAIN s
    BY <1>1, <1>5, <2>1, <2>2 DEF Lists
  <2>3. CASE k = Len(s) + 1
    BY <1>1, <1>2, <2>1, <2>3
  <2>. QED
    BY <1>1, <2>2, <2>3
<1>. QED
  BY <1>3, <1>4, <1>5 DEF Lists, t

LEMMA FirstMore ==
  ASSUME NEW x, NEW a, a # 0, NEW ns \in SUBSET Nat, NEW n \in Nat, \A m \in ns : m < n,
         IsFirst(x, a, ns)
  PROVE  IsFirst(IF x = None THEN <<a, n>> ELSE x, a, ns \cup {n})
<1>1. CASE ns = {}
  BY <1>1 DEF IsFirst
<1>2. CASE ns # {}
  <2>1. PICK m \in ns : x = <<a, m>> /\ \A j \in ns : m <= j
    BY <1>2 DEF IsFirst
  <2>2. x # None
    BY <2>1 DEF None
  <2>3. \A j \in ns \cup {n} : m <= j
    BY <2>1
  <2>. QED
    BY <2>1, <2>2, <2>3 DEF IsFirst
<1>. QED
  BY <1>1, <1>2

(* The positions after one more event. *)
LEMMA PositionsMore ==
  ASSUME TypeOK, NEW e \in Event, sent' = Append(sent, e)
  PROVE  LET n == Len(sent) + 1 IN
         /\ n \in Nat /\ DOMAIN sent' = DOMAIN sent \cup {n}
         /\ DOMAIN sent \in SUBSET Nat /\ \A m \in DOMAIN sent : m < n
         /\ \A m \in DOMAIN sent : sent'[m] = sent[m]
         /\ sent'[n] = e
<1>1. sent \in Seq(Event) /\ Len(sent) \in Nat /\ DOMAIN sent = 1 .. Len(sent)
  BY DEF TypeOK
<1>. QED
  BY <1>1

LEMMA TextAtMore ==
  ASSUME TypeOK, NEW e \in Event, sent' = Append(sent, e)
  PROVE  TextAt' = IF e.kind = "text" THEN TextAt \cup {Len(sent) + 1} ELSE TextAt
BY PositionsMore DEF TextAt

LEMMA CallAtMore ==
  ASSUME TypeOK, NEW e \in Event, sent' = Append(sent, e), NEW i \in Index
  PROVE  LET n == Len(sent) + 1
             mine == e.kind = "call" /\ e.index = i IN
         /\ CallAt(i)' = IF mine THEN CallAt(i) \cup {n} ELSE CallAt(i)
         /\ IdAt(i)' = IF mine /\ e.id THEN IdAt(i) \cup {n} ELSE IdAt(i)
         /\ NameAt(i)' = IF mine /\ e.name THEN NameAt(i) \cup {n} ELSE NameAt(i)
         /\ PieceAt(i)' = IF mine /\ e.args THEN PieceAt(i) \cup {n} ELSE PieceAt(i)
<1>1. CallAt(i)' = IF e.kind = "call" /\ e.index = i THEN CallAt(i) \cup {Len(sent) + 1} ELSE CallAt(i)
  BY PositionsMore DEF CallAt
<1>. QED
  BY <1>1, PositionsMore DEF IdAt, NameAt, PieceAt, CallAt

LEMMA SpellsKept ==
  ASSUME Spells(content, tool_calls), UNCHANGED <<attempt, sent, content, tool_calls>>
  PROVE  Spells(content, tool_calls)'
BY DEF Spells, TextAt, CallAt, IdAt, NameAt, PieceAt

LEMMA PositionsAreNat ==
  ASSUME TypeOK, NEW i
  PROVE  /\ \A P \in {TextAt, CallAt(i), IdAt(i), NameAt(i), PieceAt(i)} :
              P \in SUBSET Nat /\ \A m \in P : m < Len(sent) + 1
         /\ Len(sent) + 1 \in Nat
<1>1. Len(sent) \in Nat /\ DOMAIN sent = 1 .. Len(sent)
  BY DEF TypeOK
<1>. QED
  BY <1>1 DEF TextAt, CallAt, IdAt, NameAt, PieceAt

(* openrouter_handle_event keeps the accumulators what the events spell. *)
LEMMA EventSpells == ASSUME StreamInv, NEW e \in Event, HandleEvent(e) PROVE Spells(content, tool_calls)'
<1>1. /\ TypeOK /\ Spells(content, tool_calls) /\ Here \in Payload /\ attempt # 0
      /\ sent' = Append(sent, e) /\ attempt' = attempt
  BY HerePayload DEF HandleEvent, StreamInv, Ownership, CallbackHasRequest, Live, TypeOK, Accumulated
<1>. DEFINE n == Len(sent) + 1
<1>2. Lists(content', attempt, TextAt')
  <2>1. CASE e.kind = "text"
    <3>1. content' = Append(content, <<attempt, n>>)
      BY <2>1 DEF HandleEvent, Here
    <3>2. content \in Seq(Payload) /\ <<attempt, n>> \in Payload
      BY <1>1 DEF TypeOK, Here
    <3>3. TextAt \in SUBSET Nat /\ n \in Nat /\ \A m \in TextAt : m < n
      BY <1>1, PositionsAreNat
    <3>4. Lists(content, attempt, TextAt)
      BY <1>1 DEF Spells
    <3>5. TextAt' = TextAt \cup {n}
      BY <1>1, <2>1, TextAtMore
    <3>. QED
      BY <3>1, <3>2, <3>3, <3>4, <3>5, ListsMore
  <2>2. CASE e.kind # "text"
    <3>1. content' = content
      BY <2>2 DEF HandleEvent, AccumulateToolCall, Event, accumulators
    <3>. QED
      BY <1>1, <2>2, <3>1, TextAtMore DEF Spells
  <2>. QED
    BY <2>1, <2>2
<1>3. ASSUME NEW i \in Index
      PROVE  /\ tool_calls'[i].present <=> CallAt(i)' # {}
             /\ IsFirst(tool_calls'[i].id, attempt, IdAt(i)')
             /\ IsFirst(tool_calls'[i].name, attempt, NameAt(i)')
             /\ Lists(tool_calls'[i].args, attempt, PieceAt(i)')
  <2>. DEFINE c == tool_calls[i]
  <2>1. /\ c.present <=> CallAt(i) # {}
        /\ IsFirst(c.id, attempt, IdAt(i)) /\ IsFirst(c.name, attempt, NameAt(i))
        /\ Lists(c.args, attempt, PieceAt(i))
    BY <1>1 DEF Spells
  <2>2. c.args \in Seq(Payload)
    BY <1>1 DEF TypeOK, CallRecord
  <2>3. CASE e.kind = "call" /\ e.index = i
    <3>1. AccumulateToolCall(e) /\ i \in DOMAIN tool_calls
      BY <1>1, <2>3 DEF HandleEvent, TypeOK
    <3>2. tool_calls'[i] =
            [present |-> TRUE,
             id   |-> Latch(c.id, e.id),
             name |-> Latch(c.name, e.name),
             args |-> IF e.args THEN Append(c.args, <<attempt, n>>) ELSE c.args]
      BY <2>3, <3>1 DEF AccumulateToolCall, Here
    <3>3. e.id \in BOOLEAN /\ e.name \in BOOLEAN /\ e.args \in BOOLEAN
      BY <2>3 DEF Event
    <3>4. IsFirst(tool_calls'[i].id, attempt, IdAt(i)')
      <4>1. CASE e.id
        <5>1. tool_calls'[i].id = IF c.id = None THEN <<attempt, n>> ELSE c.id
          BY <3>2, <4>1 DEF Latch, Here
        <5>2. IdAt(i)' = IdAt(i) \cup {n}
          BY <1>1, <2>3, <4>1, CallAtMore
        <5>3. IdAt(i) \in SUBSET Nat /\ n \in Nat /\ \A m \in IdAt(i) : m < n
          BY <1>1, PositionsAreNat
        <5>4. IsFirst(IF c.id = None THEN <<attempt, n>> ELSE c.id, attempt, IdAt(i) \cup {n})
          <6>. HIDE DEF n, c
          <6>. QED
            BY <1>1, <2>1, <5>3, FirstMore
        <5>. QED
          BY <5>1, <5>2, <5>4
      <4>2. CASE ~e.id
        BY <1>1, <2>1, <3>2, <4>2, CallAtMore DEF Latch
      <4>. QED
        BY <4>1, <4>2
    <3>5. IsFirst(tool_calls'[i].name, attempt, NameAt(i)')
      <4>1. CASE e.name
        <5>1. tool_calls'[i].name = IF c.name = None THEN <<attempt, n>> ELSE c.name
          BY <3>2, <4>1 DEF Latch, Here
        <5>2. NameAt(i)' = NameAt(i) \cup {n}
          BY <1>1, <2>3, <4>1, CallAtMore
        <5>3. NameAt(i) \in SUBSET Nat /\ n \in Nat /\ \A m \in NameAt(i) : m < n
          BY <1>1, PositionsAreNat
        <5>4. IsFirst(IF c.name = None THEN <<attempt, n>> ELSE c.name, attempt, NameAt(i) \cup {n})
          <6>. HIDE DEF n, c
          <6>. QED
            BY <1>1, <2>1, <5>3, FirstMore
        <5>. QED
          BY <5>1, <5>2, <5>4
      <4>2. CASE ~e.name
        BY <1>1, <2>1, <3>2, <4>2, CallAtMore DEF Latch
      <4>. QED
        BY <4>1, <4>2
    <3>6. Lists(tool_calls'[i].args, attempt, PieceAt(i)')
      <4>1. CASE e.args
        <5>1. tool_calls'[i].args = Append(c.args, <<attempt, n>>)
          BY <3>2, <4>1
        <5>2. PieceAt(i)' = PieceAt(i) \cup {n}
          BY <1>1, <2>3, <4>1, CallAtMore
        <5>3. PieceAt(i) \in SUBSET Nat /\ n \in Nat /\ \A m \in PieceAt(i) : m < n
          BY <1>1, PositionsAreNat
        <5>4. <<attempt, n>> \in Payload
          BY <1>1 DEF Here
        <5>. QED
          BY <2>1, <2>2, <5>1, <5>2, <5>3, <5>4, ListsMore
      <4>2. CASE ~e.args
        BY <1>1, <2>1, <3>2, <4>2, CallAtMore
      <4>. QED
        BY <4>1, <4>2
    <3>7. tool_calls'[i].present <=> CallAt(i)' # {}
      <4>1. CallAt(i)' = CallAt(i) \cup {n}
        BY <1>1, <2>3, CallAtMore
      <4>2. tool_calls'[i].present = TRUE
        BY <3>2
      <4>. QED
        BY <4>1, <4>2
    <3>. QED
      BY <3>4, <3>5, <3>6, <3>7
  <2>4. CASE ~(e.kind = "call" /\ e.index = i)
    <3>1. tool_calls'[i] = tool_calls[i]
      <4>1. CASE e.kind = "call"
        <5>1. AccumulateToolCall(e) /\ tool_calls \in [Index -> CallRecord]
          BY <1>1, <4>1 DEF HandleEvent, TypeOK
        <5>. QED
          BY <2>4, <4>1, <5>1 DEF AccumulateToolCall
      <4>2. CASE e.kind # "call"
        BY <4>2 DEF HandleEvent, Event, accumulators
      <4>. QED
        BY <4>1, <4>2
    <3>2. /\ CallAt(i)' = CallAt(i) /\ IdAt(i)' = IdAt(i)
          /\ NameAt(i)' = NameAt(i) /\ PieceAt(i)' = PieceAt(i)
      BY <1>1, <2>4, CallAtMore
    <3>. QED
      BY <2>1, <3>1, <3>2
  <2>. QED
    BY <2>3, <2>4
<1>. QED
  BY <1>1, <1>2, <1>3 DEF Spells

(* A step that is not about the accumulators keeps them, and hands over    *)
(* nothing but what they hold.                                             *)
LEMMA AccumulatedKept ==
  ASSUME StreamInv, UNCHANGED <<attempt, sent, accumulators>>,
         UNCHANGED <<finished, message>> \/ FireError
         \/ (FireDone /\ finish_reason /\ finished = "no")
  PROVE  Accumulated'
<1>1. Spells(content, tool_calls)'
  BY SpellsKept DEF StreamInv, Accumulated, accumulators
<1>2. (finish_reason => SaidFinished)' /\ (SaidFinished => SaidFinished')
  BY DEF StreamInv, Accumulated, accumulators, SaidFinished
<1>3. ASSUME finished' = "done"
      PROVE  /\ message' = <<Assembled>>' /\ \A i \in Index : Complete(tool_calls'[i])
             /\ SaidFinished' \/ \E n \in DOMAIN sent' : sent'[n].kind = "done"
  <2>1. CASE finished = "done"
    BY <1>2, <2>1, Fires DEF StreamInv, Accumulated, accumulators, Assembled
  <2>2. CASE finished # "done"
    <3>1. FireDone /\ finish_reason
      BY <1>3, <2>2 DEF FireError
    <3>. QED
      BY <1>2, <1>3, <2>2, <3>1, Fires DEF StreamInv, TypeOK, Accumulated, accumulators, Assembled
  <2>. QED
    BY <2>1, <2>2
<1>. QED
  BY <1>1, <1>2, <1>3 DEF Accumulated

LEMMA EventAccumulated ==
  ASSUME StreamInv, NEW e \in Event, HandleEvent(e) PROVE Accumulated' /\ ShownIsContent'
<1>1. /\ TypeOK /\ sent' = Append(sent, e) /\ finished = "no"
      /\ heard = content /\ (heard # << >> => delivered)
  BY DEF HandleEvent, StreamInv, Ownership, CallbackHasRequest, TypeOK, ShownIsContent
<1>2. /\ DOMAIN sent' = DOMAIN sent \cup {Len(sent) + 1} /\ sent'[Len(sent) + 1] = e
      /\ \A m \in DOMAIN sent : sent'[m] = sent[m]
  BY <1>1, PositionsMore
<1>3. Spells(content, tool_calls)'
  BY EventSpells
<1>4. (finish_reason => SaidFinished)'
  <2>0. Len(sent) \in Nat /\ DOMAIN sent = 1 .. Len(sent)
    BY <1>1 DEF TypeOK
  <2>1. CASE e.kind = "finish"
    BY <1>2, <2>0, <2>1 DEF SaidFinished
  <2>2. CASE e.kind = "unfinish"
    BY <2>2 DEF HandleEvent
  <2>3. CASE e.kind \notin {"finish", "unfinish"}
    <3>1. finish_reason' = finish_reason
      BY <2>3 DEF HandleEvent, Event, accumulators
    <3>2. finish_reason => SaidFinished
      BY DEF StreamInv, Accumulated
    <3>. QED
      BY <1>2, <2>3, <3>1, <3>2 DEF SaidFinished
  <2>. QED
    BY <2>1, <2>2, <2>3
<1>5. ASSUME finished' = "done"
      PROVE  /\ message' = <<Assembled>>' /\ \A i \in Index : Complete(tool_calls'[i])
             /\ \E n \in DOMAIN sent' : sent'[n].kind = "done"
  <2>1. e.kind = "done"
    BY <1>1, <1>5 DEF HandleEvent, Event, FireError
  <2>2. FireDone /\ UNCHANGED accumulators
    BY <2>1 DEF HandleEvent
  <2>3. message' = <<Assembled>> /\ \A i \in Index : Complete(tool_calls[i])
    BY <1>1, <1>5, <2>2, Fires DEF TypeOK
  <2>. QED
    BY <1>2, <2>1, <2>2, <2>3 DEF accumulators, Assembled
<1>6. ShownIsContent'
  <2>1. CASE e.kind = "text"
    BY <1>1, <2>1 DEF HandleEvent, ShownIsContent
  <2>2. CASE e.kind # "text"
    <3>1. content' = content /\ heard' = heard /\ delivered' \in {delivered, TRUE}
      BY <2>2 DEF HandleEvent, Event, AccumulateToolCall, accumulators
    <3>. QED
      BY <1>1, <3>1 DEF ShownIsContent
  <2>. QED
    BY <2>1, <2>2
<1>. QED
  BY <1>3, <1>4, <1>5, <1>6 DEF Accumulated

(* start_attempt forgets everything but delivered, which is not set. *)
LEMMA StartAccumulated ==
  ASSUME StreamInv, OpenrouterStream \/ RetryTimer PROVE Accumulated' /\ ShownIsContent'
<1>1. /\ ~delivered /\ finished = "no" /\ StartAttempt
  BY DEF StreamInv, TypeOK, Ownership, NotStarted, RetryIsUnseen, CallbackHasRequest, InLoop,
         OpenrouterStream, RetryTimer
<1>2. heard' = << >> /\ content' = << >> /\ heard' = content'
  BY <1>1 DEF StreamInv, ShownIsContent, StartAttempt, ResetAccumulators
<1>3. /\ sent' = << >> /\ tool_calls' = [i \in Index |-> NoCall] /\ finish_reason' = FALSE
      /\ finished' # "done"
  BY <1>1 DEF StartAttempt, ResetAccumulators, HttpRequest, FireError
<1>. QED
  BY <1>2, <1>3 DEF Accumulated, ShownIsContent, Spells, Lists, IsFirst, TextAt, CallAt, IdAt, NameAt,
                    PieceAt, NoCall

(* The other callbacks report the end, or nothing. *)
LEMMA OnlyReports ==
  ASSUME StreamInv,
         \/ WriteError \/ TransferEnds \/ ReapTimer \/ HttpClientClose \/ ParseFailure
         \/ WriteCb \/ ChunkEnd
  PROVE  /\ UNCHANGED <<attempt, sent, accumulators, heard, delivered, cancel_requested>>
         /\ UNCHANGED <<finished, message>> \/ FireError
            \/ (FireDone /\ finish_reason /\ finished = "no")
<1>. USE DEF StreamInv, TypeOK
<1>. DEFINE Reports ==
       /\ UNCHANGED <<attempt, sent, accumulators, heard, delivered, cancel_requested>>
       /\ UNCHANGED <<finished, message>> \/ FireError
          \/ (FireDone /\ finish_reason /\ finished = "no")
<1>1. ASSUME NEW m, NEW st \in BOOLEAN, NEW r, NEW eof \in BOOLEAN, OnComplete(m, st, r, eof)
      PROVE  Reports
  BY <1>1, RequestEnds DEF accumulators
<1>2. ASSUME NEW r, NEW eof \in BOOLEAN, TransferDone(r, eof) PROVE Reports
  <2>1. retry_status' \in BOOLEAN
    BY <1>2 DEF TransferDone, ReportStatus
  <2>. QED
    BY <1>1, <1>2, <2>1 DEF TransferDone
<1>3. CASE WriteError \/ TransferEnds
  BY <1>1, <1>2, <1>3 DEF WriteError, TransferEnds
<1>4. CASE ReapTimer \/ HttpClientClose
  BY <1>1, <1>4 DEF ReapTimer, HttpClientClose, history
<1>5. CASE ParseFailure \/ WriteCb \/ ChunkEnd
  BY <1>5 DEF ParseFailure, WriteCb, ChunkEnd, history
<1>. QED
  BY <1>3, <1>4, <1>5

LEMMA OthersAccumulated ==
  ASSUME StreamInv,
         \/ WriteError \/ TransferEnds \/ ReapTimer \/ HttpClientClose \/ ParseFailure
         \/ WriteCb \/ ChunkEnd \/ OpenrouterCancel \/ UNCHANGED vars
  PROVE  Accumulated' /\ ShownIsContent'
<1>1. /\ UNCHANGED <<attempt, sent, accumulators, heard, delivered>>
      /\ UNCHANGED <<finished, message>> \/ FireError
         \/ (FireDone /\ finish_reason /\ finished = "no")
  BY OnlyReports DEF OpenrouterCancel, vars, history
<1>2. Accumulated'
  BY <1>1, AccumulatedKept
<1>. QED
  BY <1>1, <1>2 DEF StreamInv, ShownIsContent, accumulators

LEMMA StreamStep == StreamInv /\ [Next]_vars => StreamInv'
<1>1. SUFFICES ASSUME StreamInv, [Next]_vars PROVE StreamInv'
  OBVIOUS
<1>2. Accumulated' /\ ShownIsContent'
  BY <1>1, EventAccumulated, StartAccumulated, OthersAccumulated DEF Next, Chunk
<1>. QED
  BY <1>1, <1>2, TypeStep, OwnershipStep DEF StreamInv

---------------------------------------------------------------------------

THEOREM StreamInductive == Spec => []StreamInv
BY InitStream, StreamStep, PTL DEF Spec

(* Every variable of openrouter.c's stream and http.c's request keeps its  *)
(* type, and no more attempts are made than allowed.                       *)
THEOREM TypeCorrect == Spec => []TypeOK
<1>1. StreamInv => TypeOK
  BY DEF StreamInv
<1>. QED
  BY <1>1, StreamInductive, PTL

(* Until stream_destroy a stream has one owner, a request or its retry     *)
(* timer; from then on none, and no client is closed under it.             *)
THEOREM OneOwnerUntilDestroyed == Spec => []OwnedUntilDestroyed
<1>1. StreamInv => OwnedUntilDestroyed
  BY DEF StreamInv, Ownership
<1>. QED
  BY <1>1, StreamInductive, PTL

(* on_done hands over the response of the last attempt, all of it and      *)
(* nothing else, and on_text never showed any other text.                  *)
THEOREM HandsOverTheResponse == Spec => []ResponseExact
<1>1. ASSUME StreamInv PROVE ResponseExact
  <2>1. ASSUME finished = "done"
        PROVE  Len(message) = 1 /\ message[1].content = content /\ message[1].calls = tool_calls
    BY <1>1, <2>1 DEF StreamInv, Accumulated, Assembled
  <2>2. DoneIsTheResponse
    BY <1>1, <2>1 DEF StreamInv, Accumulated, DoneIsTheResponse
  <2>. QED
    BY <1>1, <2>2 DEF StreamInv, ShownIsContent, ResponseExact, NoDuplicateOutput
<1>. QED
  BY <1>1, StreamInductive, PTL

---------------------------------------------------------------------------
(* The contract of openrouter.h, step by step. *)

LEMMA ContractInitially == Init => Contract!ContractInit
BY DEF Init, Contract!ContractInit

(* A callback of the stream that reports the end, or nothing. *)
LEMMA ReportsOnce ==
  ASSUME StreamInv, attempt # 0,
         UNCHANGED <<attempt, heard, cancel_requested>>,
         UNCHANGED finished \/ FireDone \/ FireError
  PROVE  [Contract!ContractNext]_(Contract!contractVars)
BY Fires DEF StreamInv, TypeOK, Contract!ContractNext, Contract!contractVars, Contract!OnDone,
             Contract!OnError

LEMMA ContractStep ==
  ASSUME StreamInv, [Next]_vars PROVE [Contract!ContractNext]_(Contract!contractVars)
<1>. USE DEF Contract!ContractNext, Contract!contractVars
<1>1. CASE OpenrouterStream
  BY <1>1 DEF StreamInv, TypeOK, Ownership, NotStarted, OpenrouterStream, StartAttempt,
              HttpRequest, FireError, Contract!Request
<1>2. CASE RetryTimer
  BY <1>2 DEF StreamInv, TypeOK, Ownership, CallbackHasRequest, RetryTimer, InLoop, Live,
              StartAttempt, HttpRequest, FireError, Contract!OnError
<1>3. ASSUME NEW e \in Event, HandleEvent(e) PROVE [Contract!ContractNext]_(Contract!contractVars)
  <2>1. /\ TypeOK /\ attempt # 0 /\ attempt' = attempt /\ finished = "no" /\ Here \in Payload
    BY <1>3, HerePayload
       DEF HandleEvent, StreamInv, Ownership, CallbackHasRequest, Live, TypeOK
  <2>2. CASE e.kind = "text"
    BY <1>3, <2>1, <2>2 DEF HandleEvent, CancelInCallback, TypeOK, Contract!OnText
  <2>3. CASE e.kind # "text"
    <3>1. UNCHANGED <<heard, cancel_requested>> /\ (UNCHANGED finished \/ FireDone \/ FireError)
      BY <1>3, <2>3 DEF HandleEvent, Event
    <3>. QED
      BY <2>1, <3>1, ReportsOnce
  <2>. QED
    BY <2>2, <2>3
<1>4. CASE OpenrouterCancel
  <2>1. /\ attempt # 0 /\ attempt' = attempt /\ finished = "no" /\ finished' \in {"no", "error"}
        /\ cancel_requested' = TRUE /\ heard' = heard
    BY <1>4 DEF StreamInv, TypeOK, OpenrouterCancel, InLoop, Live, FireError
  <2>. QED
    BY <2>1 DEF Contract!RequestCancel
<1>5. ASSUME \/ WriteError \/ TransferEnds \/ ReapTimer \/ HttpClientClose \/ ParseFailure
             \/ WriteCb \/ ChunkEnd
      PROVE  [Contract!ContractNext]_(Contract!contractVars)
  <2>1. /\ UNCHANGED <<attempt, heard, cancel_requested>>
        /\ UNCHANGED finished \/ FireDone \/ FireError
    BY <1>5, OnlyReports
  <2>2. CASE attempt = 0
    BY <2>1, <2>2
  <2>. QED
    BY <2>1, <2>2, ReportsOnce
<1>6. CASE UNCHANGED vars
  BY <1>6 DEF vars, history
<1>. QED
  BY <1>1, <1>2, <1>3, <1>4, <1>5, <1>6 DEF Next, Chunk

(* One terminal callback, nothing after it, whatever the order of events,  *)
(* ends of transfers and cancels: the stream implements ResponseContract.  *)
THEOREM ImplementsContract == Spec => KeepsContract
<1>1. StreamInv /\ [Next]_vars => [Contract!ContractNext]_(Contract!contractVars)
  BY ContractStep
<1>. QED
  BY <1>1, ContractInitially, StreamInductive, PTL DEF Spec, KeepsContract, Contract!ContractSpec

---------------------------------------------------------------------------
(* The renderer, behind on_text: numbers first. *)

(* A set of numbers that is not empty has a least one.                     *)
LEMMA LeastElement ==
  ASSUME NEW S \in SUBSET Nat, S # {}
  PROVE  \E x \in S : \A y \in S : x <= y
<1>. DEFINE Less == {p \in Nat \X Nat : p[1] < p[2]}
<1>1. IsWellFoundedOn(Less, Nat)
  BY NatLessThanWellFounded, Zenon DEF OpToRel
<1>2. PICK x \in S : \A y \in S : ~ (<<y, x>> \in Less)
  BY <1>1, WFMin
<1>3. \A y \in S : x \in Nat /\ y \in Nat /\ (y < x => <<y, x>> \in Less)
  OBVIOUS
<1>. HIDE DEF Less
<1>4. \A y \in S : ~ (y < x)
  BY <1>2, <1>3
<1>. QED  BY <1>3, <1>4

(* Zero is in S and S is closed under the successor: S holds all numbers.  *)
LEMMA SetInduction ==
  ASSUME NEW S, 0 \in S, \A n \in Nat : n \in S => n + 1 \in S
  PROVE  \A n \in Nat : n \in S
<1>. SUFFICES ASSUME Nat \ S # {} PROVE FALSE
  OBVIOUS
<1>1. PICK x \in Nat \ S : \A y \in Nat \ S : x <= y
  BY LeastElement
<1>2. x - 1 \in Nat /\ x - 1 \in S /\ (x - 1) + 1 = x
  BY <1>1
<1>. QED  BY <1>1, <1>2

---------------------------------------------------------------------------
(* Sequences. *)
LEMMA SeqAppend ==
  ASSUME NEW C, NEW s \in Seq(C), NEW c \in C
  PROVE  /\ Append(s, c) \in Seq(C) /\ Len(Append(s, c)) = Len(s) + 1 /\ Len(s) \in Nat
         /\ Append(s, c)[Len(s) + 1] = c
         /\ \A i \in 1 .. Len(s) : Append(s, c)[i] = s[i]
OBVIOUS

LEMMA SeqConcat ==
  ASSUME NEW C, NEW s \in Seq(C), NEW t \in Seq(C)
  PROVE  /\ s \o t \in Seq(C) /\ Len(s \o t) = Len(s) + Len(t)
         /\ \A i \in 1 .. Len(s) : (s \o t)[i] = s[i]
         /\ \A i \in 1 .. Len(t) : (s \o t)[Len(s) + i] = t[i]
OBVIOUS

LEMMA SeqSub ==
  ASSUME NEW C, NEW s \in Seq(C), NEW a \in Nat, a >= 1, NEW b \in Int, b <= Len(s)
  PROVE  /\ SubSeq(s, a, b) \in Seq(C)
         /\ Len(SubSeq(s, a, b)) = IF a <= b THEN b - a + 1 ELSE 0
         /\ \A i \in 1 .. b - a + 1 : SubSeq(s, a, b)[i] = s[a + i - 1]
OBVIOUS

(* Two sequences of one length and with the same elements are one. *)
LEMMA SameElements ==
  ASSUME NEW C, NEW s \in Seq(C), NEW t \in Seq(C), Len(s) = Len(t),
         \A i \in 1 .. Len(s) : s[i] = t[i]
  PROVE  s = t
OBVIOUS

LEMMA SeqSplit ==
  ASSUME NEW C, NEW s \in Seq(C), NEW n \in Nat, Len(s) = n + 1
  PROVE  \E t \in Seq(C), c \in C : s = Append(t, c) /\ Len(t) = n
<1>. DEFINE t == SubSeq(s, 1, n)
<1>1. t \in Seq(C) /\ Len(t) = n /\ \A i \in 1 .. n : t[i] = s[i]
  BY SeqSub
<1>2. s[n + 1] \in C
  OBVIOUS
<1>. HIDE DEF t
<1>3. Append(t, s[n + 1]) \in Seq(C) /\ Len(Append(t, s[n + 1])) = Len(s)
  BY <1>1, <1>2, SeqAppend
<1>4. \A i \in 1 .. Len(s) : Append(t, s[n + 1])[i] = s[i]
  BY <1>1, <1>2, SeqAppend
<1>5. s = Append(t, s[n + 1])
  BY <1>3, <1>4, SameElements
<1>. QED  BY <1>1, <1>2, <1>5

(* The empty sequence is in D and D is closed under appending. *)
LEMMA SeqInduction ==
  ASSUME NEW C, NEW D, <<>> \in D, \A t \in Seq(C), c \in C : t \in D => Append(t, c) \in D
  PROVE  \A s \in Seq(C) : s \in D
<1>. DEFINE N == {n \in Nat : \A s \in Seq(C) : Len(s) = n => s \in D}
<1>1. 0 \in N
  <2>1. \A s \in Seq(C) : Len(s) = 0 => s = <<>>
    OBVIOUS
  <2>. QED  BY <2>1
<1>2. ASSUME NEW n \in Nat, n \in N PROVE n + 1 \in N
  <2>1. SUFFICES ASSUME NEW s \in Seq(C), Len(s) = n + 1 PROVE s \in D
    OBVIOUS
  <2>2. PICK t \in Seq(C), c \in C : s = Append(t, c) /\ Len(t) = n
    BY <2>1, SeqSplit
  <2>. QED  BY <1>2, <2>2
<1>. HIDE DEF N
<1>3. \A n \in Nat : n \in N
  BY <1>1, <1>2, SetInduction
<1>4. \A s \in Seq(C) : Len(s) \in Nat
  OBVIOUS
<1>. QED  BY <1>3, <1>4 DEF N

LEMMA ConcatAppend ==
  ASSUME NEW C, NEW s \in Seq(C), NEW t \in Seq(C), NEW c \in C
  PROVE  s \o Append(t, c) = Append(s \o t, c)
OBVIOUS

LEMMA ConcatEmpty == ASSUME NEW C, NEW s \in Seq(C) PROVE s \o <<>> = s /\ <<>> \o s = s
OBVIOUS

---------------------------------------------------------------------------
(* Folds over a sequence, with the step as a function. *)

IsFold(g, step, a, s) ==
  g = [i \in 0 .. Len(s) |-> IF i = 0 THEN a ELSE step[<<g[i - 1], s[i]>>]]

Agrees(h, g, n) == \A i \in 0 .. n : h[i] = g[i]

FoldOf(step, a, s) == (CHOOSE g : IsFold(g, step, a, s))[Len(s)]

LEMMA FoldEmpty ==
  ASSUME NEW step, NEW a
  PROVE  IsFold([i \in {0} |-> a], step, a, <<>>)
<1>1. 0 .. Len(<<>>) = {0}
  OBVIOUS
<1>. QED  BY <1>1 DEF IsFold

LEMMA FoldLonger ==
  ASSUME NEW step, NEW a, NEW C, NEW s \in Seq(C), NEW c \in C, NEW g, IsFold(g, step, a, s)
  PROVE  \E h : IsFold(h, step, a, Append(s, c)) /\ Agrees(h, g, Len(s))
<1>. DEFINE n == Len(s)
            t == Append(s, c)
            last == step[<<g[n], c>>]
            h == [i \in 0 .. n + 1 |-> IF i = n + 1 THEN last ELSE g[i]]
<1>1. n \in Nat /\ Len(t) = n + 1 /\ t[n + 1] = c /\ \A i \in 1 .. n : t[i] = s[i]
  BY SeqAppend
<1>2. \A i \in 0 .. n : g[i] = IF i = 0 THEN a ELSE step[<<g[i - 1], s[i]>>]
  BY DEF IsFold
<1>. HIDE DEF n, t, last
<1>3. /\ \A i \in 0 .. n : h[i] = g[i]
      /\ h[n + 1] = last
      /\ h = [i \in 0 .. n + 1 |-> h[i]]
  BY <1>1
<1>. HIDE DEF h
<1>4. ASSUME NEW i \in 0 .. n + 1
      PROVE  h[i] = IF i = 0 THEN a ELSE step[<<h[i - 1], t[i]>>]
  <2>1. CASE i = n + 1
    <3>1. i # 0 /\ i - 1 = n /\ n \in 0 .. n /\ t[i] = c
      BY <1>1, <2>1
    <3>2. h[i - 1] = g[n] /\ h[i] = last
      BY <1>3, <2>1, <3>1
    <3>. QED  BY <3>1, <3>2 DEF last
  <2>2. CASE i \in 1 .. n
    <3>1. i \in 0 .. n /\ i - 1 \in 0 .. n /\ i # 0
      BY <1>1, <2>2
    <3>. QED  BY <1>1, <1>2, <1>3, <2>2, <3>1
  <2>3. CASE i = 0
    <3>1. i \in 0 .. n
      BY <1>1, <2>3
    <3>. QED  BY <1>2, <1>3, <2>3, <3>1
  <2>4. i = 0 \/ i \in 1 .. n \/ i = n + 1
    BY <1>1
  <2>. QED  BY <2>1, <2>2, <2>3, <2>4
<1>5. IsFold(h, step, a, t)
  BY <1>1, <1>3, <1>4 DEF IsFold
<1>. QED  BY <1>3, <1>5 DEF n, t, Agrees

LEMMA FoldExists ==
  ASSUME NEW step, NEW a, NEW C, NEW s \in Seq(C)
  PROVE  \E g : IsFold(g, step, a, s)
<1>. DEFINE D == {t \in Seq(C) : \E g : IsFold(g, step, a, t)}
<1>1. <<>> \in D
  <2>1. <<>> \in Seq(C)
    OBVIOUS
  <2>. QED  BY <2>1, FoldEmpty
<1>2. ASSUME NEW t \in Seq(C), NEW c \in C, t \in D PROVE Append(t, c) \in D
  <2>1. PICK g : IsFold(g, step, a, t)
    BY <1>2
  <2>2. \E h : IsFold(h, step, a, Append(t, c))
    BY <2>1, FoldLonger
  <2>3. Append(t, c) \in Seq(C)
    BY SeqAppend
  <2>. QED  BY <2>2, <2>3
<1>. HIDE DEF D
<1>3. s \in D
  BY <1>1, <1>2, SeqInduction
<1>. QED  BY <1>3 DEF D

LEMMA FoldUnique ==
  ASSUME NEW step, NEW a, NEW C, NEW s \in Seq(C), NEW g, NEW h,
         IsFold(g, step, a, s), IsFold(h, step, a, s)
  PROVE  \A i \in 0 .. Len(s) : g[i] = h[i]
<1>. DEFINE n == Len(s)
            D == {i \in Nat : i <= n => g[i] = h[i]}
<1>1. n \in Nat
  OBVIOUS
<1>2. /\ \A i \in 0 .. n : g[i] = IF i = 0 THEN a ELSE step[<<g[i - 1], s[i]>>]
      /\ \A i \in 0 .. n : h[i] = IF i = 0 THEN a ELSE step[<<h[i - 1], s[i]>>]
  BY DEF IsFold
<1>. HIDE DEF n
<1>3. 0 \in D
  <2>1. 0 \in 0 .. n
    BY <1>1
  <2>2. g[0] = a /\ h[0] = a
    BY <1>2, <2>1
  <2>. QED  BY <2>2
<1>4. ASSUME NEW i \in Nat, i \in D PROVE i + 1 \in D
  <2>. SUFFICES ASSUME i + 1 <= n PROVE g[i + 1] = h[i + 1]
    OBVIOUS
  <2>1. i <= n /\ i + 1 \in 0 .. n /\ i + 1 # 0 /\ (i + 1) - 1 = i
    BY <1>1
  <2>2. g[i] = h[i]
    BY <1>4, <2>1
  <2>. QED  BY <1>2, <2>1, <2>2
<1>. HIDE DEF D
<1>5. \A i \in Nat : i \in D
  BY <1>3, <1>4, SetInduction
<1>. QED  BY <1>1, <1>5 DEF D, n

LEMMA FoldOfEmpty == ASSUME NEW step, NEW a PROVE FoldOf(step, a, <<>>) = a
<1>1. PICK g : g = (CHOOSE f : IsFold(f, step, a, <<>>)) /\ IsFold(g, step, a, <<>>)
  BY FoldEmpty
<1>2. 0 \in 0 .. Len(<<>>) /\ Len(<<>>) = 0
  OBVIOUS
<1>3. g[0] = a
  BY <1>1, <1>2 DEF IsFold
<1>. QED  BY <1>1, <1>2, <1>3 DEF FoldOf

LEMMA FoldOfAppend ==
  ASSUME NEW step, NEW a, NEW C, NEW s \in Seq(C), NEW c \in C
  PROVE  FoldOf(step, a, Append(s, c)) = step[<<FoldOf(step, a, s), c>>]
<1>. DEFINE t == Append(s, c)
            n == Len(s)
<1>1. t \in Seq(C) /\ Len(t) = n + 1 /\ n \in Nat /\ t[n + 1] = c
  BY SeqAppend
<1>0. ASSUME NEW g, IsFold(g, step, a, s)
      PROVE  \E h : IsFold(h, step, a, t) /\ Agrees(h, g, n)
  BY <1>0, FoldLonger, Zenon
<1>. HIDE DEF t
<1>2. PICK g : g = (CHOOSE f : IsFold(f, step, a, s)) /\ IsFold(g, step, a, s)
  BY FoldExists
<1>3. PICK h : IsFold(h, step, a, t) /\ Agrees(h, g, n)
  BY <1>0, <1>2
<1>4. PICK k : k = (CHOOSE f : IsFold(f, step, a, t)) /\ IsFold(k, step, a, t)
  BY <1>3
<1>5. \A i \in 0 .. Len(t) : k[i] = h[i]
  BY <1>1, <1>3, <1>4, FoldUnique
<1>. HIDE DEF n
<1>6. n + 1 \in 0 .. Len(t) /\ n \in 0 .. n /\ n + 1 # 0 /\ (n + 1) - 1 = n
  BY <1>1
<1>7. h[n + 1] = step[<<h[n], t[n + 1]>>]
  BY <1>3, <1>6 DEF IsFold
<1>8. k[n + 1] = step[<<g[n], c>>]
  BY <1>1, <1>3, <1>5, <1>6, <1>7 DEF Agrees
<1>9. FoldOf(step, a, t) = k[n + 1] /\ FoldOf(step, a, s) = g[n]
  BY <1>1, <1>2, <1>4 DEF FoldOf, n
<1>. QED  BY <1>8, <1>9 DEF t

(* A fold stays in a set that its step does not leave, and so what satisfies*)
(* the fold's equation for the values of that set is the fold.             *)
LEMMA FoldTyped ==
  ASSUME NEW V, NEW C, NEW a \in V, NEW step \in [V \X C -> V], NEW s \in Seq(C),
         NEW g, IsFold(g, step, a, s)
  PROVE  \A i \in 0 .. Len(s) : g[i] \in V
<1>. DEFINE n == Len(s)
            D == {i \in Nat : i <= n => g[i] \in V}
<1>1. n \in Nat /\ \A i \in 1 .. n : s[i] \in C
  OBVIOUS
<1>2. \A i \in 0 .. n : g[i] = IF i = 0 THEN a ELSE step[<<g[i - 1], s[i]>>]
  BY DEF IsFold
<1>. HIDE DEF n
<1>3. 0 \in D
  <2>1. 0 \in 0 .. n
    BY <1>1
  <2>2. g[0] = a
    BY <1>2, <2>1
  <2>. QED  BY <2>2
<1>4. ASSUME NEW i \in Nat, i \in D PROVE i + 1 \in D
  <2>. SUFFICES ASSUME i + 1 <= n PROVE g[i + 1] \in V
    OBVIOUS
  <2>1. i <= n /\ i + 1 \in 0 .. n /\ i + 1 \in 1 .. n /\ i + 1 # 0 /\ (i + 1) - 1 = i
    BY <1>1
  <2>2. g[i] \in V /\ s[i + 1] \in C
    BY <1>1, <1>4, <2>1
  <2>3. g[i + 1] = step[<<g[i], s[i + 1]>>]
    BY <1>2, <2>1
  <2>4. <<g[i], s[i + 1]>> \in V \X C
    BY <2>2
  <2>. QED  BY <2>3, <2>4
<1>. HIDE DEF D
<1>5. \A i \in Nat : i \in D
  BY <1>3, <1>4, SetInduction
<1>. QED  BY <1>1, <1>5 DEF D, n

IsStep(step, V, C) == step \in [V \X C -> V]

(* f follows the fold's equation as long as its values are in V. *)
Follows(f, step, a, s, V) ==
  /\ f = [i \in 0 .. Len(s) |-> f[i]]
  /\ f[0] = a
  /\ \A i \in 1 .. Len(s) : f[i - 1] \in V => f[i] = step[<<f[i - 1], s[i]>>]

LEMMA FoldIs ==
  ASSUME NEW V, NEW C, NEW a \in V, NEW step, IsStep(step, V, C), NEW s \in Seq(C),
         NEW f, Follows(f, step, a, s, V)
  PROVE  FoldOf(step, a, s) = f[Len(s)]
<1>. USE DEF Follows, IsStep
<1>. DEFINE n == Len(s)
            D == {i \in Nat : i <= n => f[i] \in V}
<1>1. n \in Nat /\ \A i \in 1 .. n : s[i] \in C
  OBVIOUS
<1>2. \A i \in 1 .. n : f[i - 1] \in V => f[i] = step[<<f[i - 1], s[i]>>]
  OBVIOUS
<1>0. f = [i \in 0 .. n |-> f[i]]
  OBVIOUS
<1>10. n \in Nat
  OBVIOUS
<1>. HIDE DEF n
<1>3. 0 \in D
  OBVIOUS
<1>4. ASSUME NEW i \in Nat, i \in D PROVE i + 1 \in D
  <2>. SUFFICES ASSUME i + 1 <= n PROVE f[i + 1] \in V
    OBVIOUS
  <2>1. i <= n /\ i + 1 \in 1 .. n /\ (i + 1) - 1 = i
    BY <1>10
  <2>2. f[i] \in V /\ s[i + 1] \in C
    BY <1>1, <1>4, <2>1
  <2>3. f[i + 1] = step[<<f[i], s[i + 1]>>]
    BY <1>2, <2>1, <2>2
  <2>4. <<f[i], s[i + 1]>> \in V \X C
    BY <2>2
  <2>. QED  BY <2>3, <2>4
<1>. HIDE DEF D
<1>5. \A i \in Nat : i \in D
  BY <1>3, <1>4, SetInduction
<1>6. ASSUME NEW i \in 0 .. n PROVE f[i] = IF i = 0 THEN a ELSE step[<<f[i - 1], s[i]>>]
  <2>1. CASE i = 0
    BY <2>1
  <2>2. CASE i # 0
    <3>1. i \in 1 .. n /\ i - 1 \in Nat /\ i - 1 <= n
      BY <1>1, <2>2
    <3>2. f[i - 1] \in V
      BY <1>5, <3>1 DEF D
    <3>. QED  BY <1>2, <2>2, <3>1, <3>2
  <2>. QED  BY <2>1, <2>2
<1>7. IsFold(f, step, a, s)
  <2>. DEFINE h == [i \in 0 .. n |-> IF i = 0 THEN a ELSE step[<<f[i - 1], s[i]>>]]
  <2>1. h = [i \in 0 .. n |-> f[i]]
    BY <1>6
  <2>2. h = f
    BY <1>0, <2>1
  <2>. QED  BY <2>2 DEF IsFold, n
<1>8. FoldOf(step, a, s) = f[n]
  <2>1. PICK g : g = (CHOOSE h : IsFold(h, step, a, s)) /\ IsFold(g, step, a, s)
    BY <1>7
  <2>2. n \in 0 .. n
    BY <1>1
  <2>3. \A i \in 0 .. n : g[i] = f[i]
    BY <1>7, <2>1, FoldUnique DEF n
  <2>. QED  BY <2>1, <2>2, <2>3 DEF FoldOf, n
<1>. QED  BY <1>7, <1>8 DEF n

(* What a fold is worth. *)
FoldLaws(step, a, V, C) ==
  /\ FoldOf(step, a, <<>>) = a
  /\ \A s \in Seq(C) : FoldOf(step, a, s) \in V
  /\ \A s \in Seq(C), c \in C :
       FoldOf(step, a, Append(s, c)) = step[<<FoldOf(step, a, s), c>>]

LEMMA FoldValues ==
  ASSUME NEW V, NEW C, NEW a \in V, NEW step, IsStep(step, V, C)
  PROVE  FoldLaws(step, a, V, C)
<1>1. ASSUME NEW s \in Seq(C) PROVE FoldOf(step, a, s) \in V
  <2>1. PICK g : g = (CHOOSE h : IsFold(h, step, a, s)) /\ IsFold(g, step, a, s)
    BY FoldExists
  <2>2. Len(s) \in 0 .. Len(s)
    OBVIOUS
  <2>3. g[Len(s)] \in V
    BY <2>1, <2>2, FoldTyped DEF IsStep
  <2>. QED  BY <2>1, <2>3 DEF FoldOf
<1>2. ASSUME NEW s \in Seq(C), NEW c \in C
      PROVE  FoldOf(step, a, Append(s, c)) = step[<<FoldOf(step, a, s), c>>]
  BY FoldOfAppend
<1>3. FoldOf(step, a, <<>>) = a
  BY FoldOfEmpty, Zenon
<1>. QED  BY <1>1, <1>2, <1>3 DEF FoldLaws

(* A fold with its values. *)
LEMMA FoldRun ==
  ASSUME NEW V, NEW C, NEW a \in V, NEW step, IsStep(step, V, C), NEW s \in Seq(C)
  PROVE  \E g : /\ g = [i \in 0 .. Len(s) |-> g[i]]
                /\ g[0] = a
                /\ \A i \in 1 .. Len(s) :
                     g[i - 1] \in V /\ s[i] \in C /\ g[i] = step[<<g[i - 1], s[i]>>]
<1>1. PICK g : IsFold(g, step, a, s)
  BY FoldExists
<1>2. \A i \in 0 .. Len(s) : g[i] \in V
  BY <1>1, FoldTyped DEF IsStep
<1>. DEFINE n == Len(s)
<1>3. /\ g = [i \in 0 .. n |-> g[i]]
      /\ \A i \in 0 .. n : g[i] = IF i = 0 THEN a ELSE step[<<g[i - 1], s[i]>>]
  BY <1>1 DEF IsFold
<1>4. n \in Nat /\ \A i \in 1 .. n : s[i] \in C
  OBVIOUS
<1>. HIDE DEF n
<1>5. 0 \in 0 .. n /\ \A i \in 1 .. n : i \in 0 .. n /\ i # 0 /\ i - 1 \in 0 .. n
  BY <1>4
<1>. QED  BY <1>2, <1>3, <1>4, <1>5 DEF n

---------------------------------------------------------------------------
(* Only. *)

NextOnly(v, c, S) == IF c \in S THEN Append(v, c) ELSE v

IsOnly(f, s, S) ==
  f = [i \in 0 .. Len(s) |-> IF i = 0 THEN <<>>
                             ELSE IF s[i] \in S THEN Append(f[i - 1], s[i]) ELSE f[i - 1]]

LEMMA OnlyFacts ==
  ASSUME NEW X, NEW S
  PROVE  /\ Only(<<>>, S) = <<>>
         /\ \A s \in Seq(X) : Only(s, S) \in Seq(X \cap S)
         /\ \A s \in Seq(X), c \in X : Only(Append(s, c), S) = NextOnly(Only(s, S), c, S)
<1>. DEFINE V == Seq(X \cap S)
            step == [vc \in V \X X |-> NextOnly(vc[1], vc[2], S)]
<1>1. IsStep(step, V, X) /\ <<>> \in V
  <2>1. ASSUME NEW v \in V, NEW c \in X PROVE NextOnly(v, c, S) \in V
    BY SeqAppend DEF NextOnly
  <2>2. \A vc \in V \X X : vc[1] \in V /\ vc[2] \in X
    OBVIOUS
  <2>. HIDE DEF V
  <2>3. \A vc \in V \X X : NextOnly(vc[1], vc[2], S) \in V
    BY <2>1, <2>2
  <2>4. <<>> \in V
    BY DEF V
  <2>. QED  BY <2>3, <2>4 DEF IsStep
<1>2. \A v \in V, c \in X : step[<<v, c>>] = NextOnly(v, c, S)
  OBVIOUS
<1>. HIDE DEF V, step
<1>3. ASSUME NEW s \in Seq(X) PROVE Only(s, S) = FoldOf(step, <<>>, s)
  <2>. DEFINE n == Len(s)
  <2>1. PICK g : /\ g = [i \in 0 .. n |-> g[i]] /\ g[0] = <<>>
                 /\ \A i \in 1 .. n : g[i - 1] \in V /\ s[i] \in X /\ g[i] = step[<<g[i - 1], s[i]>>]
    BY <1>1, FoldRun
  <2>2. n \in Nat /\ \A i \in 1 .. n : s[i] \in X
    OBVIOUS
  <2>. HIDE DEF n
  <2>3. 0 \in 0 .. n /\ \A i \in 0 .. n : i = 0 \/ i \in 1 .. n
    BY <2>2
  <2>4. \A i \in 0 .. n : g[i] = IF i = 0 THEN <<>>
                                 ELSE IF s[i] \in S THEN Append(g[i - 1], s[i]) ELSE g[i - 1]
    BY <1>2, <2>1, <2>3 DEF NextOnly
  <2>5. IsOnly(g, s, S)
    BY <2>1, <2>4 DEF IsOnly, n
  <2>6. PICK f : f = (CHOOSE h : IsOnly(h, s, S)) /\ IsOnly(f, s, S)
    BY <2>5
  <2>7. /\ f = [i \in 0 .. n |-> f[i]]
        /\ \A i \in 0 .. n : f[i] = IF i = 0 THEN <<>>
                                    ELSE IF s[i] \in S THEN Append(f[i - 1], s[i]) ELSE f[i - 1]
    BY <2>6 DEF IsOnly, n
  <2>8. \A i \in 1 .. n : i \in 0 .. n /\ i # 0
    BY <2>2
  <2>9. \A i \in 1 .. n : f[i - 1] \in V => f[i] = step[<<f[i - 1], s[i]>>]
    BY <1>2, <2>2, <2>7, <2>8 DEF NextOnly
  <2>10. Follows(f, step, <<>>, s, V)
    BY <2>3, <2>7, <2>9 DEF Follows, n
  <2>11. FoldOf(step, <<>>, s) = f[Len(s)]
    BY <1>1, <2>10, FoldIs
  <2>. QED  BY <2>6, <2>11 DEF Only, IsOnly
<1>4. <<>> \in Seq(X) /\ \A s \in Seq(X), c \in X : Append(s, c) \in Seq(X)
  OBVIOUS
<1>5. FoldLaws(step, <<>>, V, X)
  BY <1>1, FoldValues
<1>6. ASSUME NEW s \in Seq(X), NEW c \in X
      PROVE  Only(Append(s, c), S) = NextOnly(Only(s, S), c, S)
  <2>1. Append(s, c) \in Seq(X) /\ FoldOf(step, <<>>, s) \in V
    BY <1>4, <1>5 DEF FoldLaws
  <2>2. Only(Append(s, c), S) = step[<<FoldOf(step, <<>>, s), c>>]
    BY <1>3, <1>5, <2>1 DEF FoldLaws
  <2>. QED  BY <1>2, <1>3, <2>1, <2>2
<1>. QED  BY <1>3, <1>4, <1>5, <1>6 DEF V, FoldLaws

---------------------------------------------------------------------------
(* Bytes, and the lines of a sequence. *)

IsBytes(f, s) ==
  f = [i \in 0 .. Len(s) |-> IF i = 0 THEN 0 ELSE f[i - 1] + Width(s[i])]

LEMMA BytesFacts ==
  ASSUME NEW X
  PROVE  /\ Bytes(<<>>) = 0
         /\ \A s \in Seq(X) : Bytes(s) \in Nat
         /\ \A s \in Seq(X), c \in X : Bytes(Append(s, c)) = Bytes(s) + Width(c)
<1>. DEFINE V == Nat
            step == [vc \in V \X X |-> vc[1] + Width(vc[2])]
<1>1. IsStep(step, V, X) /\ 0 \in V
  <2>1. ASSUME NEW v \in V, NEW c \in X PROVE v + Width(c) \in V
    <3>1. Width(c) \in Nat
      BY DEF Width
    <3>. QED  BY <3>1
  <2>2. \A vc \in V \X X : vc[1] \in V /\ vc[2] \in X
    OBVIOUS
  <2>. HIDE DEF V
  <2>3. \A vc \in V \X X : vc[1] + Width(vc[2]) \in V
    BY <2>1, <2>2
  <2>4. 0 \in V
    BY DEF V
  <2>. QED  BY <2>3, <2>4 DEF IsStep
<1>2. \A v \in V, c \in X : step[<<v, c>>] = v + Width(c)
  OBVIOUS
<1>. HIDE DEF V, step
<1>3. ASSUME NEW s \in Seq(X) PROVE Bytes(s) = FoldOf(step, 0, s)
  <2>. DEFINE n == Len(s)
  <2>1. PICK g : /\ g = [i \in 0 .. n |-> g[i]] /\ g[0] = 0
                 /\ \A i \in 1 .. n : g[i - 1] \in V /\ s[i] \in X /\ g[i] = step[<<g[i - 1], s[i]>>]
    BY <1>1, FoldRun
  <2>2. n \in Nat /\ \A i \in 1 .. n : s[i] \in X
    OBVIOUS
  <2>. HIDE DEF n
  <2>3. 0 \in 0 .. n /\ \A i \in 0 .. n : i = 0 \/ i \in 1 .. n
    BY <2>2
  <2>4. \A i \in 0 .. n : g[i] = IF i = 0 THEN 0 ELSE g[i - 1] + Width(s[i])
    BY <1>2, <2>1, <2>3
  <2>5. IsBytes(g, s)
    BY <2>1, <2>4 DEF IsBytes, n
  <2>6. PICK f : f = (CHOOSE h : IsBytes(h, s)) /\ IsBytes(f, s)
    BY <2>5
  <2>7. /\ f = [i \in 0 .. n |-> f[i]]
        /\ \A i \in 0 .. n : f[i] = IF i = 0 THEN 0 ELSE f[i - 1] + Width(s[i])
    BY <2>6 DEF IsBytes, n
  <2>8. \A i \in 1 .. n : i \in 0 .. n /\ i # 0
    BY <2>2
  <2>9. \A i \in 1 .. n : f[i - 1] \in V => f[i] = step[<<f[i - 1], s[i]>>]
    BY <1>2, <2>2, <2>7, <2>8
  <2>10. Follows(f, step, 0, s, V)
    BY <2>3, <2>7, <2>9 DEF Follows, n
  <2>11. FoldOf(step, 0, s) = f[Len(s)]
    BY <1>1, <2>10, FoldIs
  <2>. QED  BY <2>6, <2>11 DEF Bytes, IsBytes
<1>4. <<>> \in Seq(X) /\ \A s \in Seq(X), c \in X : Append(s, c) \in Seq(X)
  OBVIOUS
<1>5. FoldLaws(step, 0, V, X)
  BY <1>1, FoldValues
<1>6. ASSUME NEW s \in Seq(X), NEW c \in X
      PROVE  Bytes(Append(s, c)) = Bytes(s) + Width(c)
  <2>1. Append(s, c) \in Seq(X) /\ FoldOf(step, 0, s) \in V
    BY <1>4, <1>5 DEF FoldLaws
  <2>2. Bytes(Append(s, c)) = step[<<FoldOf(step, 0, s), c>>]
    BY <1>3, <1>5, <2>1 DEF FoldLaws
  <2>. QED  BY <1>2, <1>3, <2>1, <2>2
<1>. QED  BY <1>3, <1>4, <1>5, <1>6 DEF V, FoldLaws

(* Lines: sequences of them that are not empty. *)
LineSeq(X) == {v \in Seq(Seq(X \ {"\n"})) : Len(v) >= 1}

LEMMA LineType == ASSUME NEW X PROVE << <<>> >> \in LineSeq(X)
BY DEF LineSeq

LEMMA GrownType ==
  ASSUME NEW X, NEW v \in LineSeq(X), NEW c \in X
  PROVE  Grown(v, c) \in LineSeq(X)
<1>. DEFINE Y == X \ {"\n"}
            n == Len(v)
<1>1. v \in Seq(Seq(Y)) /\ n \in Nat /\ n >= 1
  BY DEF LineSeq
<1>2. CASE c = "\n"
  <2>1. <<>> \in Seq(Y)
    OBVIOUS
  <2>. HIDE DEF Y
  <2>2. Append(v, <<>>) \in Seq(Seq(Y)) /\ Len(Append(v, <<>>)) = n + 1
    BY <1>1, <2>1, SeqAppend
  <2>. QED  BY <1>1, <1>2, <2>2 DEF Grown, LineSeq, Y
<1>3. CASE c # "\n"
  <2>1. c \in Y
    BY <1>3
  <2>2. n \in 1 .. n /\ v[n] \in Seq(Y)
    BY <1>1
  <2>. HIDE DEF Y
  <2>3. Append(v[n], c) \in Seq(Y)
    BY <2>1, <2>2, SeqAppend
  <2>. DEFINE w == [v EXCEPT ![n] = Append(v[n], c)]
  <2>4. w \in Seq(Seq(Y)) /\ Len(w) = n
    BY <1>1, <2>2, <2>3
  <2>5. Grown(v, c) = w
    BY <1>3 DEF Grown
  <2>. HIDE DEF w
  <2>. QED  BY <1>1, <2>4, <2>5 DEF LineSeq, Y
<1>. QED  BY <1>2, <1>3

IsLinesOf(f, s) ==
  f = [i \in 0 .. Len(s) |-> IF i = 0 THEN << <<>> >> ELSE Grown(f[i - 1], s[i])]

LEMMA LinesOfFacts ==
  ASSUME NEW X
  PROVE  /\ LinesOf(<<>>) = << <<>> >>
         /\ \A s \in Seq(X) : LinesOf(s) \in LineSeq(X)
         /\ \A s \in Seq(X), c \in X : LinesOf(Append(s, c)) = Grown(LinesOf(s), c)
<1>. DEFINE V == LineSeq(X)
            step == [vc \in V \X X |-> Grown(vc[1], vc[2])]
<1>1. IsStep(step, V, X) /\ << <<>> >> \in V
  <2>1. ASSUME NEW v \in V, NEW c \in X PROVE Grown(v, c) \in V
    BY GrownType
  <2>2. \A vc \in V \X X : vc[1] \in V /\ vc[2] \in X
    OBVIOUS
  <2>. HIDE DEF V
  <2>3. \A vc \in V \X X : Grown(vc[1], vc[2]) \in V
    BY <2>1, <2>2
  <2>4. << <<>> >> \in V
    BY LineType DEF V
  <2>. QED  BY <2>3, <2>4 DEF IsStep
<1>2. \A v \in V, c \in X : step[<<v, c>>] = Grown(v, c)
  OBVIOUS
<1>. HIDE DEF V, step
<1>3. ASSUME NEW s \in Seq(X) PROVE LinesOf(s) = FoldOf(step, << <<>> >>, s)
  <2>. DEFINE n == Len(s)
  <2>1. PICK g : /\ g = [i \in 0 .. n |-> g[i]] /\ g[0] = << <<>> >>
                 /\ \A i \in 1 .. n : g[i - 1] \in V /\ s[i] \in X /\ g[i] = step[<<g[i - 1], s[i]>>]
    BY <1>1, FoldRun
  <2>2. n \in Nat /\ \A i \in 1 .. n : s[i] \in X
    OBVIOUS
  <2>. HIDE DEF n
  <2>3. 0 \in 0 .. n /\ \A i \in 0 .. n : i = 0 \/ i \in 1 .. n
    BY <2>2
  <2>4. \A i \in 0 .. n : g[i] = IF i = 0 THEN << <<>> >> ELSE Grown(g[i - 1], s[i])
    BY <1>2, <2>1, <2>3
  <2>5. IsLinesOf(g, s)
    BY <2>1, <2>4 DEF IsLinesOf, n
  <2>6. PICK f : f = (CHOOSE h : IsLinesOf(h, s)) /\ IsLinesOf(f, s)
    BY <2>5
  <2>7. /\ f = [i \in 0 .. n |-> f[i]]
        /\ \A i \in 0 .. n : f[i] = IF i = 0 THEN << <<>> >> ELSE Grown(f[i - 1], s[i])
    BY <2>6 DEF IsLinesOf, n
  <2>8. \A i \in 1 .. n : i \in 0 .. n /\ i # 0
    BY <2>2
  <2>9. \A i \in 1 .. n : f[i - 1] \in V => f[i] = step[<<f[i - 1], s[i]>>]
    BY <1>2, <2>2, <2>7, <2>8
  <2>10. Follows(f, step, << <<>> >>, s, V)
    BY <2>3, <2>7, <2>9 DEF Follows, n
  <2>11. FoldOf(step, << <<>> >>, s) = f[Len(s)]
    BY <1>1, <2>10, FoldIs
  <2>. QED  BY <2>6, <2>11 DEF LinesOf, IsLinesOf
<1>4. <<>> \in Seq(X) /\ \A s \in Seq(X), c \in X : Append(s, c) \in Seq(X)
  OBVIOUS
<1>5. FoldLaws(step, << <<>> >>, V, X)
  BY <1>1, FoldValues
<1>6. ASSUME NEW s \in Seq(X), NEW c \in X
      PROVE  LinesOf(Append(s, c)) = Grown(LinesOf(s), c)
  <2>1. Append(s, c) \in Seq(X) /\ FoldOf(step, << <<>> >>, s) \in V
    BY <1>4, <1>5 DEF FoldLaws
  <2>2. LinesOf(Append(s, c)) = step[<<FoldOf(step, << <<>> >>, s), c>>]
    BY <1>3, <1>5, <2>1 DEF FoldLaws
  <2>. QED  BY <1>2, <1>3, <2>1, <2>2
<1>. QED  BY <1>3, <1>4, <1>5, <1>6 DEF V, FoldLaws

LEMMA OnlyType ==
  ASSUME NEW X, NEW S, NEW s \in Seq(X)
  PROVE  Only(s, S) \in Seq(X \cap S) /\ Only(s, S) \in Seq(X)
<1>1. Only(s, S) \in Seq(X \cap S)
  BY OnlyFacts
<1>. QED  BY <1>1

LEMMA OnlyAppend ==
  ASSUME NEW X, NEW S, NEW s \in Seq(X), NEW c \in X
  PROVE  Only(Append(s, c), S) = IF c \in S THEN Append(Only(s, S), c) ELSE Only(s, S)
<1>1. Only(Append(s, c), S) = NextOnly(Only(s, S), c, S)
  BY OnlyFacts
<1>. QED  BY <1>1 DEF NextOnly

LEMMA OnlyEmpty == ASSUME NEW S PROVE Only(<<>>, S) = <<>>
<1>1. \A X : Only(<<>>, S) = <<>>
  BY OnlyFacts, Zenon
<1>. QED  BY <1>1

LEMMA OnlyOne ==
  ASSUME NEW S, NEW c
  PROVE  Only(<<c>>, S) = IF c \in S THEN <<c>> ELSE <<>>
<1>1. <<>> \in Seq({c}) /\ c \in {c} /\ Append(<<>>, c) = <<c>>
  OBVIOUS
<1>2. Only(Append(<<>>, c), S) = IF c \in S THEN Append(Only(<<>>, S), c) ELSE Only(<<>>, S)
  BY <1>1, OnlyAppend
<1>. QED  BY <1>1, <1>2, OnlyEmpty

(* Only distributes over concatenation, and so do bytes. *)
LEMMA OnlyConcat ==
  ASSUME NEW X, NEW S, NEW s \in Seq(X), NEW t \in Seq(X)
  PROVE  Only(s \o t, S) = Only(s, S) \o Only(t, S)
<1>. DEFINE D == {u \in Seq(X) : Only(s \o u, S) = Only(s, S) \o Only(u, S)}
<1>1. <<>> \in D
  <2>1. <<>> \in Seq(X) /\ s \o <<>> = s
    BY ConcatEmpty
  <2>2. Only(s, S) \o <<>> = Only(s, S)
    BY OnlyType, ConcatEmpty
  <2>. QED  BY <2>1, <2>2, OnlyEmpty
<1>2. ASSUME NEW u \in Seq(X), NEW c \in X, u \in D PROVE Append(u, c) \in D
  <2>0. s \o u \in Seq(X)
    BY SeqConcat
  <2>1. s \o Append(u, c) = Append(s \o u, c) /\ Append(u, c) \in Seq(X)
    BY ConcatAppend, SeqAppend
  <2>2. Only(Append(s \o u, c), S) = IF c \in S THEN Append(Only(s \o u, S), c) ELSE Only(s \o u, S)
    <3>. DEFINE w == s \o u
    <3>1. w \in Seq(X)
      BY <2>0
    <3>. HIDE DEF w
    <3>2. Only(Append(w, c), S) = IF c \in S THEN Append(Only(w, S), c) ELSE Only(w, S)
      BY <3>1, OnlyAppend
    <3>. QED  BY <3>2 DEF w
  <2>3. Only(Append(u, c), S) = IF c \in S THEN Append(Only(u, S), c) ELSE Only(u, S)
    BY OnlyAppend
  <2>4. Only(s \o u, S) = Only(s, S) \o Only(u, S)
    BY <1>2
  <2>5. Only(s, S) \o Append(Only(u, S), c) = Append(Only(s, S) \o Only(u, S), c)
    BY OnlyType, ConcatAppend
  <2>. QED  BY <2>1, <2>2, <2>3, <2>4, <2>5
<1>. HIDE DEF D
<1>3. t \in D
  BY <1>1, <1>2, SeqInduction
<1>. QED  BY <1>3 DEF D

LEMMA OnlyTwice ==
  ASSUME NEW X, NEW S, NEW T, NEW s \in Seq(X)
  PROVE  Only(Only(s, S), T) = Only(s, S \cap T)
<1>. DEFINE D == {u \in Seq(X) : Only(Only(u, S), T) = Only(u, S \cap T)}
<1>1. <<>> \in D
  <2>1. <<>> \in Seq(X)
    OBVIOUS
  <2>. QED  BY <2>1, OnlyEmpty
<1>2. ASSUME NEW u \in Seq(X), NEW c \in X, u \in D PROVE Append(u, c) \in D
  <2>1. Only(u, S) \in Seq(X) /\ Append(u, c) \in Seq(X)
    BY OnlyType, SeqAppend
  <2>2. Only(Append(u, c), S) = IF c \in S THEN Append(Only(u, S), c) ELSE Only(u, S)
    BY OnlyAppend
  <2>3. Only(Append(Only(u, S), c), T)
          = IF c \in T THEN Append(Only(Only(u, S), T), c) ELSE Only(Only(u, S), T)
    BY <2>1, OnlyAppend
  <2>4. Only(Append(u, c), S \cap T)
          = IF c \in S \cap T THEN Append(Only(u, S \cap T), c) ELSE Only(u, S \cap T)
    BY OnlyAppend
  <2>5. Only(Only(u, S), T) = Only(u, S \cap T)
    BY <1>2
  <2>6. Only(Only(Append(u, c), S), T) = Only(Append(u, c), S \cap T)
    <3>1. CASE c \in S
      <4>1. Only(Append(u, c), S) = Append(Only(u, S), c) /\ (c \in S \cap T <=> c \in T)
        BY <2>2, <3>1
      <4>2. CASE c \in T
        BY <2>3, <2>4, <2>5, <4>1, <4>2, Zenon
      <4>3. CASE c \notin T
        BY <2>3, <2>4, <2>5, <4>1, <4>3, Zenon
      <4>. QED  BY <4>2, <4>3
    <3>2. CASE c \notin S
      BY <2>2, <2>4, <2>5, <3>2, Zenon
    <3>. QED  BY <3>1, <3>2
  <2>. QED  BY <2>1, <2>6
<1>. HIDE DEF D
<1>3. s \in D
  BY <1>1, <1>2, SeqInduction
<1>. QED  BY <1>3 DEF D

LEMMA OnlyAll ==
  ASSUME NEW X, NEW S, X \subseteq S, NEW s \in Seq(X)
  PROVE  Only(s, S) = s
<1>. DEFINE D == {u \in Seq(X) : Only(u, S) = u}
<1>1. <<>> \in D
  BY OnlyEmpty
<1>2. ASSUME NEW u \in Seq(X), NEW c \in X, u \in D PROVE Append(u, c) \in D
  <2>1. c \in S /\ Append(u, c) \in Seq(X)
    BY SeqAppend
  <2>2. Only(Append(u, c), S) = Append(Only(u, S), c)
    BY <2>1, OnlyAppend
  <2>. QED  BY <1>2, <2>1, <2>2
<1>. HIDE DEF D
<1>3. s \in D
  BY <1>1, <1>2, SeqInduction
<1>. QED  BY <1>3 DEF D

LEMMA OnlyNone ==
  ASSUME NEW X, NEW S, X \cap S = {}, NEW s \in Seq(X)
  PROVE  Only(s, S) = <<>>
<1>1. Only(s, S) \in Seq({})
  BY OnlyType
<1>. QED  BY <1>1

LEMMA BytesType == ASSUME NEW X, NEW s \in Seq(X) PROVE Bytes(s) \in Nat
BY BytesFacts

LEMMA BytesEmpty == Bytes(<<>>) = 0
<1>1. \A X : Bytes(<<>>) = 0
  BY BytesFacts, Zenon
<1>. QED  BY <1>1

LEMMA BytesAppend ==
  ASSUME NEW X, NEW s \in Seq(X), NEW c \in X
  PROVE  Bytes(Append(s, c)) = Bytes(s) + Width(c)
BY BytesFacts

LEMMA WidthRange == ASSUME NEW c PROVE Width(c) \in 1 .. 5 /\ (c \notin Codes => Width(c) = 1)
BY DEF Width, Codes

LEMMA BytesConcat ==
  ASSUME NEW X, NEW s \in Seq(X), NEW t \in Seq(X)
  PROVE  Bytes(s \o t) = Bytes(s) + Bytes(t)
<1>. DEFINE D == {u \in Seq(X) : Bytes(s \o u) = Bytes(s) + Bytes(u)}
<1>1. <<>> \in D
  <2>1. <<>> \in Seq(X) /\ s \o <<>> = s
    BY ConcatEmpty
  <2>2. Bytes(s) \in Nat /\ Bytes(<<>>) = 0
    BY BytesFacts
  <2>. QED  BY <2>1, <2>2
<1>2. ASSUME NEW u \in Seq(X), NEW c \in X, u \in D PROVE Append(u, c) \in D
  <2>1. s \o Append(u, c) = Append(s \o u, c) /\ s \o u \in Seq(X) /\ Append(u, c) \in Seq(X)
    BY ConcatAppend, SeqConcat, SeqAppend
  <2>2. /\ Bytes(Append(s \o u, c)) = Bytes(s \o u) + Width(c)
        /\ Bytes(Append(u, c)) = Bytes(u) + Width(c)
    BY <2>1, BytesAppend
  <2>3. Bytes(s) \in Nat /\ Bytes(u) \in Nat /\ Width(c) \in Nat
    BY BytesType, WidthRange
  <2>4. Bytes(s \o u) = Bytes(s) + Bytes(u)
    BY <1>2
  <2>5. Bytes(s \o Append(u, c)) = Bytes(s) + Bytes(Append(u, c))
    BY <2>1, <2>2, <2>3, <2>4
  <2>. QED  BY <2>1, <2>5
<1>. HIDE DEF D
<1>3. t \in D
  BY <1>1, <1>2, SeqInduction
<1>. QED  BY <1>3 DEF D

LEMMA BytesPlain ==
  ASSUME NEW X, X \cap Codes = {}, NEW s \in Seq(X)
  PROVE  Bytes(s) = Len(s)
<1>. DEFINE D == {u \in Seq(X) : Bytes(u) = Len(u)}
<1>1. <<>> \in D
  BY BytesFacts
<1>2. ASSUME NEW u \in Seq(X), NEW c \in X, u \in D PROVE Append(u, c) \in D
  <2>1. c \notin Codes
    OBVIOUS
  <2>2. Width(c) = 1
    BY <2>1, WidthRange
  <2>3. Append(u, c) \in Seq(X) /\ Len(Append(u, c)) = Len(u) + 1
    BY SeqAppend
  <2>4. Bytes(Append(u, c)) = Bytes(u) + Width(c)
    BY BytesAppend
  <2>. QED  BY <1>2, <2>2, <2>3, <2>4
<1>. HIDE DEF D
<1>3. s \in D
  BY <1>1, <1>2, SeqInduction
<1>. QED  BY <1>3 DEF D

LEMMA BytesOne == ASSUME NEW c PROVE Bytes(<<c>>) = Width(c)
<1>1. <<>> \in Seq({c}) /\ c \in {c} /\ Append(<<>>, c) = <<c>>
  OBVIOUS
<1>2. Bytes(Append(<<>>, c)) = Bytes(<<>>) + Width(c)
  BY <1>1, BytesAppend
<1>3. Bytes(<<>>) = 0 /\ Width(c) \in Nat
  BY BytesFacts, WidthRange
<1>. QED  BY <1>1, <1>2, <1>3

---------------------------------------------------------------------------
(* What a piece of a line and its output have to do with each other. *)

Letters == Char \ {"\n"}
Glyphs == Letters \cup Codes

Kept(p, o) ==
  /\ Only(o, Char \ Markers) = Only(p, Char \ Markers)
  /\ \A c \in Markers : Len(Only(o, Char \cap {c})) <= Len(Only(p, {c}))

Marks == Markers \ {" "}
Unmarked(p) == \A i \in DOMAIN p : p[i] \notin Markers \ {" "}
Plain(p, o) == Unmarked(p) => Only(o, Char) = p

Paired(s) ==
  /\ Len(s) % 2 = 0
  /\ \A i \in DOMAIN s : i % 2 = 1 => s[i] \in DOMAIN Closing /\ s[i + 1] = Closing[s[i]]

Keeps(p, o) ==
  /\ o \in Seq(Glyphs)
  /\ Kept(p, o)
  /\ Plain(p, o)
  /\ Paired(Only(o, Codes))
  /\ Bytes(o) <= 11 * Len(p)

LEMMA LettersAreGlyphs ==
  /\ Letters \subseteq Glyphs /\ Codes \subseteq Glyphs /\ Letters \subseteq Char
  /\ Letters \cap Codes = {} /\ Char \cap Codes = {} /\ "\n" \notin Glyphs
  /\ \A s \in Seq(Letters) : s \in Seq(Glyphs) /\ s \in Seq(Char)
<1>1. Letters \subseteq Glyphs /\ Codes \subseteq Glyphs /\ Letters \subseteq Char
  BY DEF Letters, Glyphs
<1>2. Letters \cap Codes = {} /\ Char \cap Codes = {}
  BY TerminalAssumption DEF Letters
<1>3. "\n" \notin Glyphs
  BY DEF Letters, Glyphs, Codes
<1>. QED  BY <1>1, <1>2, <1>3

LEMMA PairedConcat ==
  ASSUME NEW s \in Seq(Codes), NEW t \in Seq(Codes), Paired(s), Paired(t)
  PROVE  Paired(s \o t)
<1>. DEFINE u == s \o t
            m == Len(s)
            n == Len(t)
<1>1. /\ Len(u) = m + n /\ m \in Nat /\ n \in Nat /\ DOMAIN u = 1 .. m + n
      /\ \A i \in 1 .. m : u[i] = s[i]
      /\ \A i \in 1 .. n : u[m + i] = t[i]
  BY SeqConcat
<1>0. DOMAIN s = 1 .. m /\ DOMAIN t = 1 .. n
  OBVIOUS
<1>2. /\ m % 2 = 0
      /\ \A i \in 1 .. m : i % 2 = 1 => s[i] \in DOMAIN Closing /\ s[i + 1] = Closing[s[i]]
  BY <1>0, Zenon DEF Paired
<1>3. /\ n % 2 = 0
      /\ \A i \in 1 .. n : i % 2 = 1 => t[i] \in DOMAIN Closing /\ t[i + 1] = Closing[t[i]]
  BY <1>0, Zenon DEF Paired
<1>. HIDE DEF u, m, n
<1>4. m \in Nat /\ n \in Nat /\ m % 2 = 0 /\ n % 2 = 0
  BY <1>1, <1>2, <1>3
<1>5. (m + n) % 2 = 0
  BY <1>4
<1>6. ASSUME NEW i \in 1 .. m + n, i % 2 = 1
      PROVE  u[i] \in DOMAIN Closing /\ u[i + 1] = Closing[u[i]]
  <2>1. CASE i <= m
    <3>1. i \in 1 .. m /\ i + 1 \in 1 .. m
      BY <1>4, <1>6, <2>1
    <3>. QED  BY <1>1, <1>2, <1>6, <3>1
  <2>2. CASE i > m
    <3>. DEFINE j == i - m
    <3>1. j \in 1 .. n /\ j + 1 \in 1 .. n /\ j % 2 = 1 /\ i = m + j /\ i + 1 = m + (j + 1)
      BY <1>4, <1>6, <2>2
    <3>. HIDE DEF j
    <3>2. t[j] \in DOMAIN Closing /\ t[j + 1] = Closing[t[j]]
      BY <1>3, <3>1
    <3>3. u[i] = t[j] /\ u[i + 1] = t[j + 1]
      BY <1>1, <3>1
    <3>. QED  BY <3>2, <3>3
  <2>3. i <= m \/ i > m
    BY <1>4
  <2>. QED  BY <2>1, <2>2, <2>3
<1>7. Len(u) % 2 = 0
  BY <1>1, <1>5
<1>. QED  BY <1>1, <1>6, <1>7 DEF Paired, u

LEMMA KeptConcat ==
  ASSUME NEW p \in Seq(Letters), NEW q \in Seq(Letters), NEW o \in Seq(Glyphs), NEW x \in Seq(Glyphs),
         Kept(p, o), Kept(q, x)
  PROVE  Kept(p \o q, o \o x)
<1>1. \A S : /\ Only(p \o q, S) = Only(p, S) \o Only(q, S)
             /\ Only(o \o x, S) = Only(o, S) \o Only(x, S)
  BY OnlyConcat
<1>2. Only(o \o x, Char \ Markers) = Only(p \o q, Char \ Markers)
  BY <1>1 DEF Kept
<1>3. ASSUME NEW c \in Markers
      PROVE  Len(Only(o \o x, Char \cap {c})) <= Len(Only(p \o q, {c}))
  <2>. DEFINE a == Only(o, Char \cap {c})
              b == Only(x, Char \cap {c})
              d == Only(p, {c})
              e == Only(q, {c})
  <2>1. a \in Seq(Glyphs) /\ b \in Seq(Glyphs) /\ d \in Seq(Letters) /\ e \in Seq(Letters)
    BY OnlyType
  <2>2. Len(a) <= Len(d) /\ Len(b) <= Len(e)
    BY DEF Kept
  <2>3. Only(o \o x, Char \cap {c}) = a \o b /\ Only(p \o q, {c}) = d \o e
    BY <1>1
  <2>. HIDE DEF a, b, d, e
  <2>4. Len(a \o b) = Len(a) + Len(b) /\ Len(d \o e) = Len(d) + Len(e)
    BY <2>1, SeqConcat
  <2>5. Len(a) \in Nat /\ Len(b) \in Nat /\ Len(d) \in Nat /\ Len(e) \in Nat
    BY <2>1
  <2>6. Len(a \o b) <= Len(d \o e)
    BY <2>2, <2>4, <2>5
  <2>. QED  BY <2>3, <2>6
<1>. QED  BY <1>2, <1>3 DEF Kept

LEMMA UnmarkedConcat ==
  ASSUME NEW p \in Seq(Letters), NEW q \in Seq(Letters), Unmarked(p \o q)
  PROVE  Unmarked(p) /\ Unmarked(q)
<1>1. /\ DOMAIN (p \o q) = 1 .. Len(p) + Len(q)
      /\ Len(p) \in Nat /\ Len(q) \in Nat
      /\ DOMAIN p = 1 .. Len(p) /\ DOMAIN q = 1 .. Len(q)
  BY SeqConcat
<1>2. \A i \in 1 .. Len(p) : i \in DOMAIN (p \o q) /\ (p \o q)[i] = p[i]
  BY <1>1, SeqConcat
<1>3. \A i \in 1 .. Len(q) : Len(p) + i \in DOMAIN (p \o q) /\ (p \o q)[Len(p) + i] = q[i]
  BY <1>1, SeqConcat
<1>. QED  BY <1>1, <1>2, <1>3 DEF Unmarked

LEMMA KeepsConcat ==
  ASSUME NEW p \in Seq(Letters), NEW q \in Seq(Letters), NEW o, NEW x, Keeps(p, o), Keeps(q, x)
  PROVE  Keeps(p \o q, o \o x)
<1>1. o \in Seq(Glyphs) /\ x \in Seq(Glyphs)
  BY DEF Keeps
<1>2. o \o x \in Seq(Glyphs)
  BY <1>1, SeqConcat
<1>3. Kept(p \o q, o \o x)
  BY <1>1, KeptConcat DEF Keeps
<1>4. \A S : Only(o \o x, S) = Only(o, S) \o Only(x, S)
  BY <1>1, OnlyConcat
<1>5. Plain(p \o q, o \o x)
  BY <1>4, UnmarkedConcat DEF Keeps, Plain
<1>6. Paired(Only(o \o x, Codes))
  <2>1. Only(o, Codes) \in Seq(Glyphs \cap Codes) /\ Only(x, Codes) \in Seq(Glyphs \cap Codes)
    BY <1>1, OnlyType
  <2>2. Glyphs \cap Codes = Codes
    BY LettersAreGlyphs
  <2>3. Only(o, Codes) \in Seq(Codes) /\ Only(x, Codes) \in Seq(Codes)
    BY <2>1, <2>2
  <2>. QED  BY <1>4, <2>3, PairedConcat DEF Keeps
<1>7. Bytes(o \o x) <= 11 * Len(p \o q)
  <2>1. Bytes(o \o x) = Bytes(o) + Bytes(x) /\ Bytes(o) \in Nat /\ Bytes(x) \in Nat
    BY <1>1, BytesConcat, BytesType
  <2>2. Len(p \o q) = Len(p) + Len(q) /\ Len(p) \in Nat /\ Len(q) \in Nat
    BY SeqConcat
  <2>3. Bytes(o) <= 11 * Len(p) /\ Bytes(x) <= 11 * Len(q)
    BY DEF Keeps
  <2>. QED  BY <2>1, <2>2, <2>3
<1>. QED  BY <1>2, <1>3, <1>5, <1>6, <1>7 DEF Keeps

LEMMA KeptSame ==
  ASSUME NEW p \in Seq(Letters)
  PROVE  Kept(p, p)
<1>1. ASSUME NEW c \in Markers PROVE Len(Only(p, Char \cap {c})) <= Len(Only(p, {c}))
  <2>0. Len(Only(p, {c})) \in Nat
    BY OnlyType
  <2>1. CASE c \in Char
    <3>1. Char \cap {c} = {c}
      BY <2>1
    <3>2. Only(p, Char \cap {c}) = Only(p, {c})
      BY <3>1, Zenon
    <3>. HIDE DEF Only
    <3>. QED  BY <2>0, <3>2
  <2>2. CASE c \notin Char
    <3>1. Letters \cap (Char \cap {c}) = {}
      BY <2>2
    <3>2. Only(p, Char \cap {c}) = <<>>
      BY <3>1, OnlyNone
    <3>. QED  BY <2>0, <3>2
  <2>. QED  BY <2>1, <2>2
<1>. QED  BY <1>1 DEF Kept

LEMMA PairedEmpty == Paired(<<>>)
BY DEF Paired

LEMMA KeepsSame ==
  ASSUME NEW p \in Seq(Letters)
  PROVE  Keeps(p, p) /\ Only(p, Char) = p
<1>1. Only(p, Char) = p
  BY LettersAreGlyphs, OnlyAll
<1>2. Only(p, Codes) = <<>>
  BY LettersAreGlyphs, OnlyNone
<1>3. Bytes(p) = Len(p) /\ Len(p) \in Nat
  BY LettersAreGlyphs, BytesPlain
<1>4. Bytes(p) <= 11 * Len(p)
  BY <1>3
<1>5. p \in Seq(Glyphs)
  BY LettersAreGlyphs
<1>. QED  BY <1>1, <1>2, <1>4, <1>5, KeptSame, PairedEmpty DEF Keeps, Plain

(* A code that appears, and markers that do not. *)
LEMMA KeptCode ==
  ASSUME NEW x \in Codes
  PROVE  Kept(<<>>, <<x>>)
<1>1. x \notin Char
  BY LettersAreGlyphs
<1>2. \A S : x \notin S => Only(<<x>>, S) = Only(<<>>, S)
  BY OnlyOne, OnlyEmpty
<1>3. \A c : Only(<<>>, {c}) = <<>> /\ Only(<<>>, Char \cap {c}) = <<>>
  BY OnlyEmpty
<1>4. Len(<<>>) <= Len(<<>>)
  OBVIOUS
<1>. QED  BY <1>1, <1>2, <1>3, <1>4 DEF Kept

LEMMA KeptDrop ==
  ASSUME NEW a \in Seq(Letters \cap Markers)
  PROVE  Kept(a, <<>>)
<1>1. (Letters \cap Markers) \cap (Char \ Markers) = {}
  OBVIOUS
<1>2. Only(a, Char \ Markers) = <<>>
  BY <1>1, OnlyNone
<1>3. \A S : Only(<<>>, S) = <<>>
  BY OnlyEmpty
<1>4. \A c : Len(Only(a, {c})) \in Nat
  BY OnlyType
<1>5. \A c : Len(Only(<<>>, Char \cap {c})) <= Len(Only(a, {c}))
  BY <1>3, <1>4
<1>. QED  BY <1>2, <1>3, <1>5 DEF Kept

LEMMA ClosingCodes == \A x \in DOMAIN Closing : x \in Codes /\ Closing[x] \in Codes
BY DEF Closing, Codes

LEMMA TwoCodes == ASSUME NEW C, NEW x \in C, NEW y \in C PROVE <<x>> \o <<y>> = <<x, y>>
<1>. DEFINE u == <<x>> \o <<y>>
            v == <<x, y>>
<1>1. <<x>> \in Seq(C) /\ <<y>> \in Seq(C)
  OBVIOUS
<1>2. u \in Seq(C) /\ Len(u) = 2 /\ u[1] = x /\ u[2] = y
  BY <1>1, SeqConcat
<1>3. v \in Seq(C) /\ Len(v) = 2 /\ v[1] = x /\ v[2] = y
  OBVIOUS
<1>. HIDE DEF u, v
<1>4. \A i \in 1 .. 2 : i = 1 \/ i = 2
  OBVIOUS
<1>5. u = v
  BY <1>2, <1>3, <1>4, SameElements
<1>. QED  BY <1>5 DEF u, v

Wrapped(x, m) == <<x>> \o m \o <<Closing[x]>>

LEMMA KeepsWrapped ==
  ASSUME NEW x \in DOMAIN Closing, NEW m \in Seq(Letters)
  PROVE  /\ Wrapped(x, m) \in Seq(Glyphs) /\ Wrapped(x, m) # <<>>
         /\ Kept(m, Wrapped(x, m)) /\ Only(Wrapped(x, m), Char) = m
         /\ Paired(Only(Wrapped(x, m), Codes))
         /\ Bytes(Wrapped(x, m)) <= Len(m) + 10
<1>. DEFINE y == Closing[x]
            u == <<x>> \o m
            o == u \o <<y>>
<1>1. x \in Codes /\ y \in Codes
  BY ClosingCodes
<1>2. x \in Glyphs /\ y \in Glyphs
  BY <1>1, LettersAreGlyphs
<1>3. <<x>> \in Seq(Glyphs) /\ <<y>> \in Seq(Glyphs) /\ Len(<<x>>) = 1 /\ Len(<<y>>) = 1
  BY <1>2
<1>4. m \in Seq(Glyphs) /\ Len(m) \in Nat
  BY LettersAreGlyphs
<1>5. u \in Seq(Glyphs) /\ Len(u) = Len(m) + 1
  BY <1>3, <1>4, SeqConcat
<1>. HIDE DEF y
<1>6. o = Wrapped(x, m)
  BY DEF Wrapped, y
<1>7. \A S : Only(u, S) = Only(<<x>>, S) \o Only(m, S)
  BY <1>3, <1>4, OnlyConcat
<1>8. Bytes(u) = Bytes(<<x>>) + Bytes(m)
  BY <1>3, <1>4, BytesConcat
<1>9. Kept(m, u)
  <2>1. <<>> \in Seq(Letters) /\ <<>> \o m = m
    BY ConcatEmpty
  <2>2. Kept(<<>>, <<x>>) /\ Kept(m, m)
    BY <1>1, KeptCode, KeptSame
  <2>3. Kept(<<>> \o m, <<x>> \o m)
    BY <1>3, <1>4, <2>1, <2>2, KeptConcat
  <2>. QED  BY <2>1, <2>3
<1>. HIDE DEF u
<1>10. o \in Seq(Glyphs) /\ Len(o) = Len(m) + 2
  BY <1>3, <1>4, <1>5, SeqConcat
<1>11. \A S : Only(o, S) = Only(u, S) \o Only(<<y>>, S)
  BY <1>3, <1>5, OnlyConcat
<1>12. Bytes(o) = Bytes(u) + Bytes(<<y>>)
  BY <1>3, <1>5, BytesConcat
<1>13. Kept(m, o)
  <2>1. <<>> \in Seq(Letters) /\ m \o <<>> = m
    BY ConcatEmpty
  <2>2. Kept(<<>>, <<y>>)
    BY <1>1, KeptCode
  <2>3. Kept(m \o <<>>, u \o <<y>>)
    BY <1>3, <1>5, <1>9, <2>1, <2>2, KeptConcat
  <2>. QED  BY <2>1, <2>3
<1>. HIDE DEF o
<1>14. o # <<>>
  BY <1>4, <1>10
<1>15. Only(o, Char) = m
  <2>1. Only(<<x>>, Char) = <<>> /\ Only(<<y>>, Char) = <<>>
    BY <1>1, LettersAreGlyphs, OnlyOne
  <2>2. Only(m, Char) = m /\ <<>> \o m = m /\ m \o <<>> = m
    BY KeepsSame, ConcatEmpty
  <2>. QED  BY <1>7, <1>11, <2>1, <2>2
<1>16. Paired(Only(o, Codes))
  <2>1. Only(<<x>>, Codes) = <<x>> /\ Only(<<y>>, Codes) = <<y>>
    BY <1>1, OnlyOne
  <2>2. Only(m, Codes) = <<>> /\ <<x>> \o <<>> = <<x>>
    BY <1>3, LettersAreGlyphs, OnlyNone, ConcatEmpty
  <2>3. Only(o, Codes) = <<x>> \o <<y>>
    BY <1>7, <1>11, <2>1, <2>2
  <2>4. <<x>> \o <<y>> = <<x, y>>
    BY <1>2, TwoCodes
  <2>5. Paired(<<x, y>>)
    <3>. DEFINE z == <<x, y>>
    <3>1. Len(z) = 2 /\ DOMAIN z = 1 .. 2 /\ z[1] = x /\ z[2] = y
      OBVIOUS
    <3>. HIDE DEF z
    <3>2. \A i \in 1 .. 2 : i % 2 = 1 => i = 1
      OBVIOUS
    <3>3. Len(z) % 2 = 0
      BY <3>1
    <3>4. \A i \in 1 .. 2 : i = 1 => z[i] \in DOMAIN Closing /\ z[i + 1] = Closing[z[i]]
      BY <3>1 DEF y
    <3>5. Paired(z)
      BY <3>1, <3>2, <3>3, <3>4 DEF Paired
    <3>. QED  BY <3>5 DEF z
  <2>. QED  BY <2>3, <2>4, <2>5
<1>17. Bytes(o) <= Len(m) + 10
  <2>1. Bytes(<<x>>) \in 1 .. 5 /\ Bytes(<<y>>) \in 1 .. 5
    BY BytesOne, WidthRange
  <2>2. Bytes(m) = Len(m)
    BY LettersAreGlyphs, BytesPlain
  <2>. QED  BY <1>4, <1>8, <1>12, <2>1, <2>2
<1>. QED  BY <1>6, <1>10, <1>13, <1>14, <1>15, <1>16, <1>17

(* Markers around a piece disappear, and codes appear in their places. *)
LEMMA KeptInside ==
  ASSUME NEW a \in Seq(Letters \cap Markers), NEW b \in Seq(Letters \cap Markers),
         NEW m \in Seq(Letters), NEW o \in Seq(Glyphs), Kept(m, o)
  PROVE  Kept(a \o m \o b, o)
<1>1. a \in Seq(Letters) /\ b \in Seq(Letters) /\ <<>> \in Seq(Glyphs)
  OBVIOUS
<1>2. Kept(a \o m, <<>> \o o) /\ a \o m \in Seq(Letters)
  BY <1>1, KeptDrop, KeptConcat, SeqConcat
<1>3. <<>> \o o = o /\ o \o <<>> = o
  BY ConcatEmpty
<1>4. Kept(a \o m, o)
  BY <1>2, <1>3
<1>. DEFINE u == a \o m
<1>5. u \in Seq(Letters) /\ Kept(u, o)
  BY <1>2, <1>4
<1>. HIDE DEF u
<1>6. Kept(u \o b, o \o <<>>)
  BY <1>1, <1>5, KeptDrop, KeptConcat
<1>. QED  BY <1>3, <1>6 DEF u

LEMMA KeepsSpan ==
  ASSUME NEW a \in Seq(Letters \cap Markers), NEW b \in Seq(Letters \cap Markers),
         NEW m \in Seq(Letters), NEW x \in DOMAIN Closing, Len(a) >= 1, ~Unmarked(a)
  PROVE  Keeps(a \o m \o b, Wrapped(x, m))
<1>. DEFINE p == a \o m \o b
            o == Wrapped(x, m)
            i == Len(a)  j == Len(m)  k == Len(b)
<1>0. a \in Seq(Letters) /\ b \in Seq(Letters)
  OBVIOUS
<1>1. i \in Nat /\ j \in Nat /\ k \in Nat /\ i >= 1
  OBVIOUS
<1>. HIDE DEF i, j, k
<1>2. a \o m \in Seq(Letters) /\ Len(a \o m) = i + j
  BY <1>0, SeqConcat DEF i, j
<1>3. Len(p) = i + j + k
  BY <1>0, <1>2, SeqConcat DEF k
<1>4. ~ Unmarked(p)
  BY <1>0, <1>2, UnmarkedConcat
<1>5. /\ o \in Seq(Glyphs) /\ Kept(m, o) /\ Paired(Only(o, Codes)) /\ Bytes(o) <= j + 10
      /\ Bytes(o) \in Nat
  BY KeepsWrapped, BytesType DEF j
<1>. HIDE DEF o
<1>6. Kept(p, o)
  BY <1>5, KeptInside DEF p
<1>. HIDE DEF p
<1>7. Plain(p, o)
  BY <1>4 DEF Plain
<1>8. Bytes(o) <= 11 * Len(p)
  BY <1>1, <1>3, <1>5
<1>. QED  BY <1>5, <1>6, <1>7, <1>8 DEF Keeps, p, o
(* An escape: the marker disappears, the rest stays. *)
LEMMA KeepsDrop ==
  ASSUME NEW a \in Seq(Letters \cap Markers), NEW m \in Seq(Letters), ~Unmarked(a)
  PROVE  Keeps(a \o m, m)
<1>0. a \in Seq(Letters)
  OBVIOUS
<1>1. m \in Seq(Glyphs) /\ Kept(m, m) /\ Paired(Only(m, Codes))
  BY KeepsSame DEF Keeps
<1>2. Kept(a \o m, m)
  <2>1. Kept(a, <<>>) /\ <<>> \in Seq(Glyphs) /\ <<>> \o m = m
    BY KeptDrop, ConcatEmpty
  <2>2. Kept(a \o m, <<>> \o m)
    BY <1>0, <1>1, <2>1, KeptConcat
  <2>. QED  BY <2>1, <2>2
<1>3. Plain(a \o m, m)
  BY <1>0, UnmarkedConcat DEF Plain
<1>4. Bytes(m) <= 11 * Len(a \o m)
  <2>1. Bytes(m) = Len(m)
    BY LettersAreGlyphs, BytesPlain
  <2>2. Len(a \o m) = Len(a) + Len(m) /\ Len(a) \in Nat /\ Len(m) \in Nat
    BY <1>0, SeqConcat
  <2>. QED  BY <2>1, <2>2
<1>. QED  BY <1>1, <1>2, <1>3, <1>4 DEF Keeps

---------------------------------------------------------------------------
(* The inline scan. *)
LEMMA LeastIs ==
  ASSUME NEW S \in SUBSET Nat, S # {}
  PROVE  Least(S) \in S /\ \A j \in S : Least(S) <= j
BY LeastElement DEF Least

LEMMA PastIs ==
  ASSUME NEW X, NEW p \in Seq(X), NEW i \in 1 .. Len(p) + 1, NEW cs
  PROVE  /\ Past(p, i, cs) \in i .. Len(p) + 1
         /\ \A j \in i .. Past(p, i, cs) - 1 : p[j] \in cs
         /\ Past(p, i, cs) <= Len(p) => p[Past(p, i, cs)] \notin cs
<1>. DEFINE n == Len(p)
            S == {j \in i .. n + 1 : j = n + 1 \/ p[j] \notin cs}
            k == Past(p, i, cs)
<1>1. n \in Nat
  OBVIOUS
<1>. HIDE DEF n
<1>2. i \in 1 .. n + 1
  BY DEF n
<1>3. S \in SUBSET Nat /\ n + 1 \in S
  BY <1>1, <1>2
<1>4. k = Least(S)
  BY DEF Past, n
<1>. HIDE DEF S
<1>5. k \in S /\ \A j \in S : k <= j
  BY <1>3, <1>4, LeastIs
<1>. HIDE DEF k
<1>6. k \in i .. n + 1 /\ (k <= n => p[k] \notin cs)
  <2>1. k \in i .. n + 1 /\ (k = n + 1 \/ p[k] \notin cs)
    BY <1>5 DEF S
  <2>. QED  BY <1>1, <2>1
<1>7. ASSUME NEW j \in i .. k - 1 PROVE p[j] \in cs
  <2>1. j \in i .. n + 1 /\ ~ (k <= j)
    BY <1>1, <1>2, <1>6
  <2>. QED  BY <1>5, <2>1 DEF S
<1>. QED  BY <1>6, <1>7 DEF k, n

LEMMA SubMarkers ==
  ASSUME NEW X, NEW M, NEW p \in Seq(X), NEW a \in Nat, a >= 1, NEW b \in Int, b <= Len(p),
         \A j \in a .. b : p[j] \in M
  PROVE  SubSeq(p, a, b) \in Seq(X \cap M)
<1>. DEFINE s == SubSeq(p, a, b)
            n == Len(s)
<1>1. s \in Seq(X) /\ n = (IF a <= b THEN b - a + 1 ELSE 0)
      /\ \A i \in 1 .. b - a + 1 : s[i] = p[a + i - 1]
  BY SeqSub
<1>2. n \in Nat /\ s = [i \in 1 .. n |-> s[i]] /\ \A i \in 1 .. n : s[i] \in X
  BY <1>1
<1>. HIDE DEF s, n
<1>3. \A i \in 1 .. n : i \in 1 .. b - a + 1 /\ a + i - 1 \in a .. b
  BY <1>1
<1>4. \A i \in 1 .. n : s[i] \in X \cap M
  BY <1>1, <1>2, <1>3
<1>. QED  BY <1>2, <1>4 DEF s

LEMMA SubConcat ==
  ASSUME NEW X, NEW p \in Seq(X), NEW a \in Nat, a >= 1, NEW b \in Int, NEW c \in Int,
         a <= b + 1, b <= c, c <= Len(p)
  PROVE  SubSeq(p, a, b) \o SubSeq(p, b + 1, c) = SubSeq(p, a, c)
<1>. DEFINE s == SubSeq(p, a, b)
            t == SubSeq(p, b + 1, c)
            u == SubSeq(p, a, c)
<1>0. b + 1 \in Nat /\ b + 1 >= 1 /\ b <= Len(p)
  OBVIOUS
<1>1. s \in Seq(X) /\ Len(s) = (IF a <= b THEN b - a + 1 ELSE 0)
      /\ \A i \in 1 .. b - a + 1 : s[i] = p[a + i - 1]
  BY <1>0, SeqSub
<1>2. t \in Seq(X) /\ Len(t) = (IF b + 1 <= c THEN c - (b + 1) + 1 ELSE 0)
      /\ \A i \in 1 .. c - (b + 1) + 1 : t[i] = p[(b + 1) + i - 1]
  BY <1>0, SeqSub
<1>3. u \in Seq(X) /\ Len(u) = (IF a <= c THEN c - a + 1 ELSE 0)
      /\ \A i \in 1 .. c - a + 1 : u[i] = p[a + i - 1]
  BY <1>0, SeqSub
<1>. HIDE DEF s, t, u
<1>4. Len(s) = b - a + 1 /\ Len(t) = c - b /\ Len(u) = c - a + 1
  BY <1>1, <1>2, <1>3
<1>. DEFINE v == s \o t
<1>5. v \in Seq(X) /\ Len(v) = Len(s) + Len(t)
      /\ (\A i \in 1 .. Len(s) : v[i] = s[i])
      /\ (\A i \in 1 .. Len(t) : v[Len(s) + i] = t[i])
  <2>1. s \in Seq(X) /\ t \in Seq(X)
    BY <1>1, <1>2
  <2>. QED  BY <2>1, SeqConcat
<1>. HIDE DEF v
<1>6. Len(v) = Len(u)
  BY <1>4, <1>5
<1>7. ASSUME NEW i \in 1 .. Len(v) PROVE v[i] = u[i]
  <2>. DEFINE l == b - a + 1
  <2>0. l \in Nat /\ Len(v) = c - a + 1 /\ Len(s) = l
    BY <1>4, <1>5
  <2>1. CASE i <= l
    <3>1. i \in 1 .. l /\ i \in 1 .. c - a + 1 /\ i \in 1 .. Len(s)
      BY <2>0, <2>1
    <3>. QED  BY <1>1, <1>3, <1>5, <3>1
  <2>2. CASE i > l
    <3>. DEFINE j == i - l
    <3>1. j \in 1 .. c - b /\ i = l + j /\ i \in 1 .. c - a + 1
      BY <2>0, <2>2
    <3>2. (b + 1) + j - 1 = a + i - 1 /\ j \in 1 .. c - (b + 1) + 1 /\ j \in 1 .. Len(t)
      BY <1>4, <3>1
    <3>. HIDE DEF j
    <3>3. v[i] = t[j]
      BY <1>5, <2>0, <3>1, <3>2
    <3>4. t[j] = p[a + i - 1]
      BY <1>2, <3>2
    <3>. QED  BY <1>3, <3>1, <3>3, <3>4
  <2>. QED  BY <2>0, <2>1, <2>2
<1>. QED  BY <1>3, <1>5, <1>6, <1>7, SameElements DEF v, s, t, u

LEMMA SubOne ==
  ASSUME NEW X, NEW p \in Seq(X), NEW i \in 1 .. Len(p)
  PROVE  SubSeq(p, i, i) = <<p[i]>>
<1>. DEFINE s == SubSeq(p, i, i)
            t == <<p[i]>>
<1>1. s \in Seq(X) /\ Len(s) = 1 /\ s[1] = p[i]
  <2>1. i \in Nat /\ i >= 1 /\ i \in Int /\ i <= Len(p) /\ i - i + 1 = 1 /\ i + 1 - 1 = i
    OBVIOUS
  <2>. HIDE DEF s
  <2>2. s \in Seq(X) /\ Len(s) = (IF i <= i THEN i - i + 1 ELSE 0)
        /\ \A j \in 1 .. i - i + 1 : s[j] = p[i + j - 1]
    BY <2>1, SeqSub DEF s
  <2>3. Len(s) = 1
    BY <2>1, <2>2
  <2>4. 1 \in 1 .. i - i + 1
    BY <2>1
  <2>5. s[1] = p[i + 1 - 1]
    BY <2>2, <2>4
  <2>. QED  BY <2>1, <2>2, <2>3, <2>5
<1>2. p[i] \in X
  OBVIOUS
<1>3. t \in Seq(X) /\ Len(t) = 1 /\ t[1] = p[i]
  BY <1>2
<1>. HIDE DEF s, t
<1>4. \A j \in 1 .. 1 : j = 1
  OBVIOUS
<1>5. s = t
  BY <1>1, <1>3, <1>4, SameElements
<1>. QED  BY <1>5 DEF s, t

(* A step of the scan goes forward, and it shows what it passes. *)
Advances(p, i, sp) ==
  /\ sp.next \in i + 1 .. Len(p) + 1
  /\ Keeps(SubSeq(p, i, sp.next - 1), sp.shown)
  /\ sp.shown # <<>>

LEMMA MarkedSub ==
  ASSUME NEW p \in Seq(Letters), NEW i \in 1 .. Len(p), p[i] \in Marks,
         NEW b \in i .. Len(p)
  PROVE  ~ Unmarked(SubSeq(p, i, b)) /\ Len(SubSeq(p, i, b)) = b - i + 1
<1>. DEFINE s == SubSeq(p, i, b)
<1>1. i \in Nat /\ i >= 1 /\ b \in Int /\ b <= Len(p) /\ i <= b /\ b - i + 1 >= 1 /\ i + 1 - 1 = i
      /\ 1 \in 1 .. b - i + 1
  OBVIOUS
<1>. HIDE DEF s
<1>2. s \in Seq(Letters) /\ Len(s) = (IF i <= b THEN b - i + 1 ELSE 0)
      /\ \A j \in 1 .. b - i + 1 : s[j] = p[i + j - 1]
  BY <1>1, SeqSub DEF s
<1>3. Len(s) = b - i + 1 /\ s[1] = p[i]
  BY <1>1, <1>2
<1>4. DOMAIN s = 1 .. Len(s)
  BY <1>2
<1>5. 1 \in DOMAIN s
  BY <1>1, <1>3, <1>4
<1>. QED  BY <1>3, <1>5, Zenon DEF Unmarked, Marks, s

(* A span behind an opener of markers that a closer of markers ends. *)
LEMMA SpanAdvances ==
  ASSUME NEW p \in Seq(Letters), NEW i \in 1 .. Len(p), p[i] \in Marks,
         NEW b \in i .. Len(p), NEW k \in b + 1 .. Len(p), NEW e \in k .. Len(p),
         \A j \in i .. b : p[j] \in Markers,
         \A j \in k .. e : p[j] \in Markers,
         NEW x \in DOMAIN Closing
  PROVE  Advances(p, i, Shown(Wrapped(x, SubSeq(p, b + 1, k - 1)), e + 1))
<1>. DEFINE a == SubSeq(p, i, b)
            m == SubSeq(p, b + 1, k - 1)
            z == SubSeq(p, k, e)
            n == Len(p)
<1>0. n \in Nat /\ i \in 1 .. n /\ b \in i .. n /\ k \in b + 1 .. n /\ e \in k .. n
  OBVIOUS
<1>1. /\ i \in Nat /\ i >= 1 /\ b \in Int /\ b <= n /\ b + 1 \in Nat /\ b + 1 >= 1
      /\ k - 1 \in Int /\ k - 1 <= n /\ k \in Nat /\ k >= 1 /\ e \in Int /\ e <= n
      /\ i <= b + 1 /\ b <= k - 1 /\ i <= (k - 1) + 1 /\ k - 1 <= e /\ (k - 1) + 1 = k
      /\ (e + 1) - 1 = e /\ e + 1 \in i + 1 .. n + 1 /\ b - i + 1 >= 1
  BY <1>0
<1>2. a \in Seq(Letters \cap Markers) /\ z \in Seq(Letters \cap Markers) /\ m \in Seq(Letters)
  BY <1>1, SubMarkers, SeqSub
<1>3. ~ Unmarked(a) /\ Len(a) >= 1
  BY <1>1, MarkedSub
<1>4. a \o m = SubSeq(p, i, k - 1)
  BY <1>1, SubConcat
<1>5. SubSeq(p, i, k - 1) \o z = SubSeq(p, i, e)
  <2>1. SubSeq(p, i, k - 1) \o SubSeq(p, (k - 1) + 1, e) = SubSeq(p, i, e)
    BY <1>1, SubConcat
  <2>. QED  BY <1>1, <2>1
<1>. HIDE DEF a, m, z
<1>6. Keeps(a \o m \o z, Wrapped(x, m))
  BY <1>2, <1>3, KeepsSpan
<1>7. a \o m \o z = SubSeq(p, i, e)
  BY <1>4, <1>5
<1>8. Wrapped(x, m) # <<>>
  BY <1>2, KeepsWrapped
<1>9. Keeps(SubSeq(p, i, e), Wrapped(x, m))
  BY <1>6, <1>7
<1>. DEFINE w == Wrapped(x, m)
<1>. HIDE DEF w
<1>10. Shown(w, e + 1).next = e + 1 /\ Shown(w, e + 1).shown = w
  BY DEF Shown
<1>11. Advances(p, i, Shown(w, e + 1))
  BY <1>1, <1>8, <1>9, <1>10 DEF Advances, n, w
<1>. QED  BY <1>11 DEF w, m

(* Characters that stay. *)
LEMMA RestAdvances ==
  ASSUME NEW p \in Seq(Letters), NEW i \in 1 .. Len(p), NEW b \in i .. Len(p)
  PROVE  Advances(p, i, Shown(SubSeq(p, i, b), b + 1))
<1>. DEFINE s == SubSeq(p, i, b)
            n == Len(p)
<1>1. /\ i \in Nat /\ i >= 1 /\ b \in Int /\ b <= n /\ i <= b /\ b - i + 1 >= 1
      /\ (b + 1) - 1 = b /\ b + 1 \in i + 1 .. n + 1
  OBVIOUS
<1>. HIDE DEF n
<1>2. s \in Seq(Letters) /\ Len(s) = (IF i <= b THEN b - i + 1 ELSE 0)
  BY <1>1, SeqSub DEF n
<1>. HIDE DEF s
<1>3. s # <<>>
  BY <1>1, <1>2
<1>4. Keeps(s, s)
  BY <1>2, KeepsSame
<1>5. Shown(s, b + 1).next = b + 1 /\ Shown(s, b + 1).shown = s
  BY DEF Shown
<1>6. Keeps(SubSeq(p, i, b), s)
  BY <1>4 DEF s
<1>7. Advances(p, i, Shown(s, b + 1))
  BY <1>1, <1>3, <1>5, <1>6 DEF Advances, n
<1>. QED  BY <1>7 DEF s

LEMMA EscapeAdvances ==
  ASSUME NEW p \in Seq(Letters), NEW i \in 1 .. Len(p) - 1, p[i] \in Marks
  PROVE  Advances(p, i, Shown(<<p[i + 1]>>, i + 2))
<1>. DEFINE a == SubSeq(p, i, i)
            m == SubSeq(p, i + 1, i + 1)
            n == Len(p)
<1>1. /\ i \in Nat /\ i >= 1 /\ i \in Int /\ i <= n /\ i \in i .. n /\ i \in 1 .. n
      /\ i + 1 \in Nat /\ i + 1 >= 1 /\ i + 1 \in Int /\ i + 1 <= n /\ i + 1 \in 1 .. n
      /\ i <= i + 1 /\ (i + 2) - 1 = i + 1 /\ i + 2 \in i + 1 .. n + 1
  OBVIOUS
<1>2. \A j \in i .. i : j = i
  OBVIOUS
<1>3. p[i] \in Markers
  BY DEF Marks
<1>4. a \in Seq(Letters \cap Markers)
  BY <1>1, <1>2, <1>3, SubMarkers
<1>5. m \in Seq(Letters) /\ m = <<p[i + 1]>>
  BY <1>1, SeqSub, SubOne
<1>6. ~ Unmarked(a)
  BY <1>1, MarkedSub
<1>7. a \o m = SubSeq(p, i, i + 1)
  BY <1>1, SubConcat
<1>. HIDE DEF a, m, n
<1>8. Keeps(a \o m, m)
  BY <1>4, <1>5, <1>6, KeepsDrop
<1>9. Keeps(SubSeq(p, i, i + 1), m)
  BY <1>7, <1>8
<1>10. m # <<>>
  BY <1>5
<1>11. Shown(m, i + 2).next = i + 2 /\ Shown(m, i + 2).shown = m
  BY DEF Shown
<1>12. Advances(p, i, Shown(m, i + 2))
  BY <1>1, <1>9, <1>10, <1>11 DEF Advances, n
<1>. QED  BY <1>5, <1>12

Starred(p, a, b) == \A j \in a .. b : p[j] \in {"*"}

LEMMA StarsAreMarkers ==
  ASSUME NEW p, NEW a, NEW b, Starred(p, a, b)
  PROVE  \A j \in a .. b : p[j] \in Markers
BY DEF Starred, Markers

Runs(p, i) == IF i < Len(p) /\ p[i + 1] = "*" THEN 2 ELSE 1

LEMMA RunIs ==
  ASSUME NEW X, NEW p \in Seq(X), NEW i \in 1 .. Len(p), p[i] \in {"*"}
  PROVE  Runs(p, i) \in 1 .. 2 /\ i + Runs(p, i) - 1 \in i .. Len(p)
         /\ Starred(p, i, i + Runs(p, i) - 1)
<1>. DEFINE n == Len(p)
            second == i < n /\ p[i + 1] \in {"*"}
<1>1. n \in Nat /\ i \in 1 .. n
  OBVIOUS
<1>2. Runs(p, i) = IF second THEN 2 ELSE 1
  BY DEF Runs
<1>3. second => i < n /\ p[i + 1] \in {"*"}
  OBVIOUS
<1>4. p[i] \in {"*"}
  OBVIOUS
<1>. HIDE DEF n, second
<1>5. CASE second
  <2>1. i < n /\ i + 2 - 1 = i + 1 /\ i + 1 \in i .. n /\ Runs(p, i) = 2
    BY <1>1, <1>2, <1>3, <1>5
  <2>2. \A j \in i .. i + 1 : j = i \/ j = i + 1
    BY <1>1
  <2>3. Starred(p, i, i + 1)
    BY <1>3, <1>4, <1>5, <2>2, Zenon DEF Starred
  <2>. QED  BY <2>1, <2>3 DEF n
<1>6. CASE ~ second
  <2>1. i + 1 - 1 = i /\ i \in i .. n /\ Runs(p, i) = 1
    BY <1>1, <1>2, <1>6
  <2>2. \A j \in i .. i : j = i
    BY <1>1
  <2>3. Starred(p, i, i)
    BY <1>4, <2>2, Zenon DEF Starred
  <2>. QED  BY <2>1, <2>3 DEF n
<1>. QED  BY <1>5, <1>6

LEMMA CloserIs ==
  ASSUME NEW X, NEW p \in Seq(X), NEW i \in 1 .. Len(p), NEW run \in 1 .. 2,
         Closers(p, i, run) # {}
  PROVE  \E k \in i + run .. Len(p) :
           /\ Least(Closers(p, i, run)) = k
           /\ k + run - 1 \in k .. Len(p)
           /\ Starred(p, k, k + run - 1)
<1>. DEFINE n == Len(p)
            C == Closers(p, i, run)
            k == Least(C)
            e == Past(p, k, {"*"})
<1>1. n \in Nat /\ i \in 1 .. n
  OBVIOUS
<1>2. C \subseteq Positions(p, i + run, "*") /\ Positions(p, i + run, "*") \subseteq i + run .. n
  BY DEF Closers, Positions
<1>3. \A j \in C : Past(p, j, {"*"}) - j >= run
  BY DEF Closers
<1>. HIDE DEF n
<1>4. i + run .. n \subseteq Nat
  BY <1>1
<1>. HIDE DEF C
<1>5. C \in SUBSET Nat /\ C # {}
  BY <1>2, <1>4 DEF C
<1>6. k \in C
  BY <1>5, LeastIs
<1>7. k \in i + run .. n /\ e - k >= run
  BY <1>2, <1>3, <1>6
<1>. HIDE DEF k
<1>8. k \in 1 .. Len(p) + 1
  BY <1>1, <1>7 DEF n
<1>9. e \in k .. n + 1 /\ \A j \in k .. e - 1 : p[j] \in {"*"}
  BY <1>8, PastIs DEF n
<1>. HIDE DEF e
<1>10. k + run - 1 \in k .. n /\ \A j \in k .. k + run - 1 : j \in k .. e - 1
  BY <1>1, <1>7, <1>9
<1>11. Starred(p, k, k + run - 1)
  BY <1>9, <1>10, Zenon DEF Starred
<1>. QED  BY <1>7, <1>10, <1>11 DEF n, k, C

LEMMA EmphasisAdvances ==
  ASSUME NEW p \in Seq(Letters), NEW i \in 1 .. Len(p), p[i] \in {"*"}
  PROVE  Advances(p, i, Emphasis(p, i))
<1>. DEFINE n == Len(p)
            run == Runs(p, i)
            b == i + run - 1
            x == IF run = 2 THEN "[1m" ELSE "[3m"
<1>1. run \in 1 .. 2 /\ b \in i .. n /\ Starred(p, i, b)
  BY RunIs
<1>2. p[i] \in Marks
  BY DEF Marks, Markers
<1>3. n \in Nat /\ i \in 1 .. n
  OBVIOUS
<1>4. x \in DOMAIN Closing
  BY DEF Closing
<1>5. <<x>> = (IF run = 2 THEN BoldOn ELSE ItalicOn)
  BY DEF BoldOn, ItalicOn
<1>6. <<Closing[x]>> = (IF run = 2 THEN BoldOff ELSE ItalicOff)
  BY DEF Closing, BoldOff, ItalicOff
<1>. HIDE DEF run, x, n
<1>7. b + 1 = i + run
  BY <1>1, <1>3
<1>8. CASE Closers(p, i, run) = {}
  <2>1. Emphasis(p, i) = Shown(SubSeq(p, i, b), b + 1)
    BY <1>7, <1>8 DEF Emphasis, run, Runs
  <2>. HIDE DEF b
  <2>. QED  BY <1>1, <2>1, RestAdvances DEF n
<1>9. CASE Closers(p, i, run) # {}
  <2>1. PICK k \in i + run .. n : /\ Least(Closers(p, i, run)) = k
                                  /\ k + run - 1 \in k .. n
                                  /\ Starred(p, k, k + run - 1)
    BY <1>1, <1>9, CloserIs DEF n
  <2>. DEFINE e == k + run - 1
  <2>2. e + 1 = k + run /\ k \in b + 1 .. n /\ e \in k .. n
    BY <1>1, <1>3, <1>7, <2>1
  <2>3. Emphasis(p, i)
          = Shown((IF run = 2 THEN BoldOn ELSE ItalicOn) \o SubSeq(p, i + run, k - 1)
                    \o (IF run = 2 THEN BoldOff ELSE ItalicOff), k + run)
    BY <1>9, <2>1 DEF Emphasis, run, Runs
  <2>4. Emphasis(p, i) = Shown(Wrapped(x, SubSeq(p, b + 1, k - 1)), e + 1)
    BY <1>5, <1>6, <1>7, <2>2, <2>3 DEF Wrapped
  <2>5. (\A j \in i .. b : p[j] \in Markers) /\ (\A j \in k .. e : p[j] \in Markers)
    BY <1>1, <2>1, StarsAreMarkers
  <2>. HIDE DEF b, e
  <2>. QED  BY <1>1, <1>2, <1>4, <2>2, <2>4, <2>5, SpanAdvances DEF n
<1>. QED  BY <1>8, <1>9

LEMMA SpanKeeps ==
  ASSUME NEW p \in Seq(Letters), NEW i \in 1 .. Len(p)
  PROVE  Advances(p, i, Span(p, i))
<1>. DEFINE n == Len(p)
            T == Positions(p, i + 1, "tick")
<1>1. n \in Nat /\ i \in 1 .. n /\ i \in i .. n
  OBVIOUS
<1>2. CASE p[i] = "\\" /\ i < Len(p)
  <2>1. Span(p, i) = Shown(<<p[i + 1]>>, i + 2)
    BY <1>2 DEF Span
  <2>2. p[i] \in Marks
    BY <1>2 DEF Marks, Markers
  <2>3. i \in 1 .. Len(p) - 1
    BY <1>1, <1>2
  <2>. QED  BY <2>1, <2>2, <2>3, EscapeAdvances
<1>3. CASE p[i] = "tick" /\ T # {}
  <2>. DEFINE k == Least(T)
              x == "[36m"
  <2>1. Span(p, i) = Shown(CodeOn \o SubSeq(p, i + 1, k - 1) \o CodeOff, k + 1)
    BY <1>3 DEF Span
  <2>2. p[i] \in Marks
    BY <1>3 DEF Marks, Markers
  <2>3. T \subseteq i + 1 .. n /\ \A j \in T : p[j] \in Markers
    BY DEF Positions, Markers
  <2>4. T # {}
    BY <1>3
  <2>5. i + 1 .. n \subseteq Nat
    BY <1>1
  <2>. HIDE DEF T
  <2>6. T \in SUBSET Nat
    BY <2>3, <2>5
  <2>7. k \in T
    BY <2>4, <2>6, LeastIs
  <2>8. k \in i + 1 .. n /\ p[k] \in Markers
    BY <2>3, <2>7
  <2>9. x \in DOMAIN Closing /\ <<x>> = CodeOn /\ <<Closing[x]>> = CodeOff
    BY DEF Closing, CodeOn, CodeOff
  <2>. HIDE DEF k, x, n
  <2>10. Span(p, i) = Shown(Wrapped(x, SubSeq(p, i + 1, k - 1)), k + 1)
    BY <2>1, <2>9 DEF Wrapped
  <2>11. /\ \A j \in i .. i : j = i
         /\ \A j \in k .. k : j = k
         /\ k \in k .. n
    BY <1>1, <2>8
  <2>12. (\A j \in i .. i : p[j] \in Markers) /\ (\A j \in k .. k : p[j] \in Markers)
    BY <2>2, <2>8, <2>11 DEF Marks
  <2>. QED  BY <1>1, <2>2, <2>8, <2>9, <2>10, <2>11, <2>12, SpanAdvances DEF n
<1>4. CASE p[i] = "*"
  <2>1. Span(p, i) = Emphasis(p, i)
    BY <1>4 DEF Span
  <2>2. p[i] \in {"*"}
    BY <1>4
  <2>. QED  BY <2>1, <2>2, EmphasisAdvances
<1>5. CASE /\ ~ (p[i] = "\\" /\ i < Len(p))
           /\ ~ (p[i] = "tick" /\ T # {})
           /\ p[i] # "*"
  <2>1. Span(p, i) = Shown(<<p[i]>>, i + 1)
    BY <1>5 DEF Span
  <2>2. SubSeq(p, i, i) = <<p[i]>>
    BY SubOne
  <2>3. Advances(p, i, Shown(SubSeq(p, i, i), i + 1))
    BY <1>1, RestAdvances DEF n
  <2>. QED  BY <2>1, <2>2, <2>3
<1>. QED  BY <1>2, <1>3, <1>4, <1>5, Zenon

(* The rest of the scan, by what its first step leaves. *)
ScanAt(p, f, i) == IF i > Len(p) THEN <<>> ELSE Span(p, i).shown \o f[Span(p, i).next]
IsScan(p, f) == f = [i \in 1 .. Len(p) + 2 |-> ScanAt(p, f, i)]

LEMMA ScanExists ==
  ASSUME NEW p \in Seq(Letters)
  PROVE  \E f : IsScan(p, f)
<1>. DEFINE n == Len(p)
            next(i) == Span(p, i).next
            Part(g, k) == /\ g = [i \in 1 .. n + 2 |-> g[i]]
                          /\ \A i \in 1 .. n + 2 : i + k >= n + 2 => g[i] = ScanAt(p, g, i)
            D == {k \in Nat : k <= n + 1 => \E g : Part(g, k)}
<1>1. n \in Nat
  OBVIOUS
<1>2. \A i \in 1 .. n : next(i) \in i + 1 .. n + 1
  BY SpanKeeps DEF Advances
<1>4. \A g, h, i : ScanAt(p, g, i) = IF i > n THEN <<>> ELSE Span(p, i).shown \o g[next(i)]
  BY DEF ScanAt
<1>. HIDE DEF n, next
<1>5. 0 \in D
  <2>. DEFINE g == [j \in 1 .. n + 2 |-> <<>>]
  <2>1. g = [i \in 1 .. n + 2 |-> g[i]] /\ \A i \in 1 .. n + 2 : g[i] = <<>>
    OBVIOUS
  <2>. HIDE DEF g
  <2>2. \A i \in 1 .. n + 2 : i + 0 >= n + 2 => i > n
    BY <1>1
  <2>3. Part(g, 0)
    BY <1>4, <2>1, <2>2
  <2>. QED  BY <2>3
<1>6. ASSUME NEW k \in Nat, k \in D PROVE k + 1 \in D
  <2>. SUFFICES ASSUME k + 1 <= n + 1 PROVE \E g : Part(g, k + 1)
    OBVIOUS
  <2>1. k <= n + 1
    BY <1>1
  <2>2. PICK g : Part(g, k)
    BY <1>6, <2>1
  <2>. DEFINE m == (n + 2) - (k + 1)
              h == [i \in 1 .. n + 2 |-> IF i = m THEN ScanAt(p, g, m) ELSE g[i]]
  <2>3. m \in 1 .. n + 1 /\ m + k + 1 = n + 2
    BY <1>1
  <2>. HIDE DEF m
  <2>4. /\ h = [i \in 1 .. n + 2 |-> h[i]]
        /\ \A i \in 1 .. n + 2 : h[i] = IF i = m THEN ScanAt(p, g, m) ELSE g[i]
    OBVIOUS
  <2>. HIDE DEF h
  <2>5. ASSUME NEW i \in 1 .. n + 2, i >= m PROVE ScanAt(p, h, i) = ScanAt(p, g, i)
    <3>1. CASE i > n
      BY <1>4, <3>1
    <3>2. CASE i <= n
      <4>1. i \in 1 .. n /\ next(i) \in 1 .. n + 2 /\ next(i) # m
        BY <1>1, <1>2, <2>3, <2>5, <3>2
      <4>2. h[next(i)] = g[next(i)]
        BY <2>4, <4>1
      <4>. QED  BY <1>4, <4>2
    <3>. QED  BY <1>1, <3>1, <3>2
  <2>6. ASSUME NEW i \in 1 .. n + 2, i + (k + 1) >= n + 2 PROVE h[i] = ScanAt(p, h, i)
    <3>1. i >= m
      BY <1>1, <2>3, <2>6
    <3>2. CASE i = m
      BY <2>4, <2>5, <3>1, <3>2
    <3>3. CASE i # m
      <4>1. i + k >= n + 2
        BY <1>1, <2>3, <3>1, <3>3
      <4>2. g[i] = ScanAt(p, g, i)
        BY <2>2, <4>1
      <4>. QED  BY <2>4, <2>5, <3>1, <3>3, <4>2
    <3>. QED  BY <3>2, <3>3
  <2>7. Part(h, k + 1)
    BY <2>4, <2>6
  <2>. QED  BY <2>7
<1>. HIDE DEF D
<1>7. \A k \in Nat : k \in D
  BY <1>5, <1>6, SetInduction
<1>8. n + 1 \in Nat /\ n + 1 <= n + 1
  BY <1>1
<1>9. PICK g : Part(g, n + 1)
  BY <1>7, <1>8 DEF D
<1>10. \A i \in 1 .. n + 2 : i + (n + 1) >= n + 2
  BY <1>1
<1>11. /\ g = [i \in 1 .. n + 2 |-> g[i]]
       /\ \A i \in 1 .. n + 2 : g[i] = ScanAt(p, g, i)
  BY <1>9, <1>10
<1>12. IsScan(p, g)
  BY <1>11 DEF IsScan, n
<1>. QED  BY <1>12

LEMMA ConcatNotEmpty ==
  ASSUME NEW C, NEW s \in Seq(C), NEW t \in Seq(C), s # <<>> \/ t # <<>>
  PROVE  s \o t # <<>>
<1>1. Len(s \o t) = Len(s) + Len(t) /\ Len(s) \in Nat /\ Len(t) \in Nat
  BY SeqConcat
<1>2. Len(s) > 0 \/ Len(t) > 0
  OBVIOUS
<1>3. Len(s \o t) > 0
  BY <1>1, <1>2
<1>. QED  BY <1>3

LEMMA InlineKeeps ==
  ASSUME NEW p \in Seq(Letters)
  PROVE  Keeps(p, InlinePass(p)) /\ (p # <<>> => InlinePass(p) # <<>>)
<1>. DEFINE n == Len(p)
<1>1. n \in Nat
  OBVIOUS
<1>2. PICK f : f = (CHOOSE g : IsScan(p, g)) /\ IsScan(p, f)
  BY ScanExists
<1>3. InlinePass(p) = f[1]
  BY <1>2 DEF InlinePass, IsScan, ScanAt
<1>4. \A i \in 1 .. n + 2 : f[i] = IF i > n THEN <<>> ELSE Span(p, i).shown \o f[Span(p, i).next]
  BY <1>2 DEF IsScan, ScanAt
<1>. DEFINE Good(i) == Keeps(SubSeq(p, i, n), f[i])
            D == {k \in Nat : \A l \in 0 .. k : l <= n => Good(n + 1 - l)}
<1>5. ASSUME NEW i \in 1 .. n, Good(Span(p, i).next)
      PROVE  Good(i) /\ f[i] # <<>>
  <2>. DEFINE nx == Span(p, i).next
              sh == Span(p, i).shown
  <2>1. nx \in i + 1 .. n + 1 /\ Keeps(SubSeq(p, i, nx - 1), sh) /\ sh # <<>>
    BY SpanKeeps DEF Advances
  <2>0. i \in 1 .. n + 2 /\ ~ (i > n)
    BY <1>1
  <2>2. f[i] = sh \o f[nx]
    BY <1>4, <2>0, Zenon
  <2>3. Keeps(SubSeq(p, nx, n), f[nx])
    BY <1>5
  <2>. HIDE DEF nx, sh, n
  <2>4. /\ i \in Nat /\ i >= 1 /\ nx - 1 \in Int /\ n \in Int /\ i <= (nx - 1) + 1 /\ nx - 1 <= n
        /\ n <= n /\ nx - 1 <= n /\ (nx - 1) + 1 = nx /\ nx \in Nat /\ nx >= 1
    BY <1>1, <2>1
  <2>5. SubSeq(p, i, nx - 1) \in Seq(Letters) /\ SubSeq(p, nx, n) \in Seq(Letters)
    BY <2>4, SeqSub DEF n
  <2>6. SubSeq(p, i, nx - 1) \o SubSeq(p, (nx - 1) + 1, n) = SubSeq(p, i, n)
    BY <2>4, SubConcat DEF n
  <2>7. SubSeq(p, i, nx - 1) \o SubSeq(p, nx, n) = SubSeq(p, i, n)
    BY <2>4, <2>6
  <2>8. Keeps(SubSeq(p, i, nx - 1) \o SubSeq(p, nx, n), sh \o f[nx])
    BY <2>1, <2>3, <2>5, KeepsConcat
  <2>9. sh \in Seq(Glyphs) /\ f[nx] \in Seq(Glyphs)
    BY <2>1, <2>3 DEF Keeps
  <2>10. sh \o f[nx] # <<>>
    BY <2>1, <2>9, ConcatNotEmpty
  <2>. QED  BY <2>2, <2>7, <2>8, <2>10
<1>6. Good(n + 1)
  <2>1. SubSeq(p, n + 1, n) = <<>>
    <3>1. Len(SubSeq(p, n + 1, n)) = 0 /\ SubSeq(p, n + 1, n) \in Seq(Letters)
      BY <1>1, SeqSub
    <3>. QED  BY <3>1
  <2>2. n + 1 \in 1 .. n + 2 /\ n + 1 > n
    BY <1>1
  <2>3. f[n + 1] = <<>>
    BY <1>4, <2>2
  <2>4. <<>> \in Seq(Letters)
    OBVIOUS
  <2>5. Keeps(<<>>, <<>>)
    BY <2>4, KeepsSame
  <2>. QED  BY <2>1, <2>3, <2>5
<1>7. \A i \in 1 .. n : Span(p, i).next \in i + 1 .. n + 1
  BY SpanKeeps DEF Advances
<1>. HIDE DEF n, Good
<1>8. 0 \in D
  <2>1. \A l \in 0 .. 0 : n + 1 - l = n + 1
    BY <1>1
  <2>. QED  BY <1>6, <2>1
<1>9. ASSUME NEW k \in Nat, k \in D PROVE k + 1 \in D
  <2>1. ASSUME NEW l \in 0 .. k + 1, l <= n PROVE Good(n + 1 - l)
    <3>1. CASE l <= k
      <4>1. l \in 0 .. k
        BY <3>1
      <4>. QED  BY <1>9, <2>1, <4>1
    <3>2. CASE l = k + 1
      <4>. DEFINE i == n + 1 - l
                  e == n + 1 - Span(p, i).next
      <4>1. i \in 1 .. n
        BY <1>1, <2>1, <3>2
      <4>. HIDE DEF i
      <4>2. Span(p, i).next \in i + 1 .. n + 1
        BY <1>7, <4>1
      <4>3. e \in 0 .. k /\ e <= n /\ n + 1 - e = Span(p, i).next
        BY <1>1, <2>1, <3>2, <4>1, <4>2 DEF i
      <4>4. Good(n + 1 - e)
        BY <1>9, <4>3
      <4>5. Good(i)
        BY <1>5, <4>1, <4>3, <4>4
      <4>. QED  BY <4>5 DEF i
    <3>. QED  BY <3>1, <3>2
  <2>. QED  BY <2>1
<1>. HIDE DEF D
<1>10. \A k \in Nat : k \in D
  BY <1>8, <1>9, SetInduction
<1>11. ASSUME NEW i \in 1 .. n + 1 PROVE Good(i)
  <2>. DEFINE l == n + 1 - i
  <2>1. l \in Nat /\ l \in 0 .. l /\ l <= n /\ n + 1 - l = i
    BY <1>1
  <2>. HIDE DEF l
  <2>2. l \in D
    BY <1>10, <2>1
  <2>. QED  BY <2>1, <2>2 DEF D
<1>12. 1 \in 1 .. n + 1
  BY <1>1
<1>13. SubSeq(p, 1, n) = p
  BY DEF n
<1>14. Keeps(p, f[1])
  BY <1>11, <1>12, <1>13 DEF Good
<1>15. p # <<>> => f[1] # <<>>
  <2>1. SUFFICES ASSUME p # <<>> PROVE f[1] # <<>>
    OBVIOUS
  <2>2. 1 \in 1 .. n
    BY <1>1, <2>1 DEF n
  <2>3. Span(p, 1).next \in 1 .. n + 1
    BY <1>1, <1>7, <2>2
  <2>. QED  BY <1>5, <1>11, <2>2, <2>3
<1>. QED  BY <1>3, <1>14, <1>15

---------------------------------------------------------------------------
(* A whole line. *)
LEMMA FromIs ==
  ASSUME NEW X, NEW p \in Seq(X), NEW k \in 1 .. Len(p) + 1
  PROVE  /\ From(p, k) \in Seq(X) /\ Len(From(p, k)) = Len(p) + 1 - k
         /\ SubSeq(p, 1, k - 1) \in Seq(X) /\ Len(SubSeq(p, 1, k - 1)) = k - 1
         /\ SubSeq(p, 1, k - 1) \o From(p, k) = p
<1>. DEFINE n == Len(p)
<1>1. /\ n \in Nat /\ k \in Nat /\ k >= 1 /\ k - 1 \in Int /\ k - 1 <= n /\ n \in Int /\ n <= n
      /\ 1 \in Nat /\ 1 >= 1 /\ 1 <= (k - 1) + 1 /\ (k - 1) + 1 = k
  OBVIOUS
<1>2. From(p, k) = SubSeq(p, k, n)
  BY DEF From
<1>3. SubSeq(p, k, n) \in Seq(X) /\ Len(SubSeq(p, k, n)) = (IF k <= n THEN n - k + 1 ELSE 0)
  BY <1>1, SeqSub
<1>4. SubSeq(p, 1, k - 1) \in Seq(X)
      /\ Len(SubSeq(p, 1, k - 1)) = (IF 1 <= k - 1 THEN (k - 1) - 1 + 1 ELSE 0)
  BY <1>1, SeqSub
<1>5. SubSeq(p, 1, k - 1) \o SubSeq(p, (k - 1) + 1, n) = SubSeq(p, 1, n)
  BY <1>1, SubConcat
<1>6. SubSeq(p, 1, n) = p
  OBVIOUS
<1>. HIDE DEF n
<1>7. Len(SubSeq(p, k, n)) = n + 1 - k /\ Len(SubSeq(p, 1, k - 1)) = k - 1
  <2>1. k \in 1 .. n + 1
    BY DEF n
  <2>. QED  BY <1>1, <1>3, <1>4, <2>1
<1>. QED  BY <1>1, <1>2, <1>3, <1>4, <1>5, <1>6, <1>7 DEF n

LEMMA BlockPrefixIs ==
  ASSUME NEW X, NEW p \in Seq(X)
  PROVE  BlockPrefix(p) \in 0 .. Len(p)
<1>. DEFINE n == Len(p)
            i == Past(p, 1, {" ", "\t"})
            j == Past(p, i, Digits)
            SpI == i < Len(p) /\ p[i + 1] = " "
            SpJ == j < Len(p) /\ p[j + 1] = " "
            A == i > Len(p)
            B == i <= Len(p) /\ p[i] = ">"
            C == i <= Len(p) /\ p[i] \in {"-", "*", "+"} /\ SpI
            E == i < j /\ j <= Len(p) /\ p[j] \in {".", ")"} /\ SpJ
<1>1. n \in Nat
  OBVIOUS
<1>2. 1 \in 1 .. Len(p) + 1
  BY <1>1
<1>3. i \in 1 .. n + 1
  BY <1>2, PastIs
<1>4. j \in i .. n + 1
  <2>. HIDE DEF i
  <2>. QED  BY <1>3, PastIs
<1>5. (B => i <= n) /\ (SpI => i < n) /\ (C => i < n) /\ (E => j < n)
  OBVIOUS
<1>6. BlockPrefix(p) = CASE A -> 0 [] B -> IF SpI THEN i + 1 ELSE i [] C -> i + 1 [] E -> j + 1
                       [] OTHER -> 0
  BY DEF BlockPrefix
<1>. HIDE DEF n, i, j, SpI, SpJ, A, B, C, E
<1>7. \/ BlockPrefix(p) = 0
      \/ B /\ SpI /\ BlockPrefix(p) = i + 1
      \/ B /\ BlockPrefix(p) = i
      \/ C /\ BlockPrefix(p) = i + 1
      \/ E /\ BlockPrefix(p) = j + 1
  BY <1>6
<1>8. BlockPrefix(p) \in 0 .. n
  BY <1>1, <1>3, <1>4, <1>5, <1>7
<1>. QED  BY <1>8 DEF n

(* A heading's marker: a run of markers, of which the first or a later one *)
(* is a hash, and bold around the rest.                                    *)
LEMMA HeadingKeeps ==
  ASSUME NEW p \in Seq(Letters), NEW text \in 2 .. Len(p) + 1, NEW h \in 1 .. text - 1,
         \A j \in 1 .. text - 1 : p[j] \in Markers,
         p[h] \in Marks,
         text <= Len(p) => p[text] \in Markers
  PROVE  Keeps(p, Wrapped("[1m", From(p, text + 1)))
         /\ Wrapped("[1m", From(p, text + 1)) # <<>>
<1>. DEFINE n == Len(p)
            x == "[1m"
            e == IF text <= n THEN text ELSE n
            m == From(p, text + 1)
            a == SubSeq(p, 1, e)
            o == Wrapped(x, m)
<1>1. n \in Nat /\ text \in 2 .. n + 1 /\ h \in 1 .. text - 1
  OBVIOUS
<1>2. x \in DOMAIN Closing
  BY DEF Closing
<1>3. \A j \in 1 .. e : p[j] \in Markers
  BY <1>1
<1>4. a \in Seq(Letters \cap Markers) /\ Len(a) = e /\ m \in Seq(Letters) /\ a \o m = p
      /\ Len(m) + e = n /\ Len(m) \in Nat
  <2>1. CASE text <= n
    <3>1. text + 1 \in 1 .. n + 1 /\ (text + 1) - 1 = text /\ e = text
          /\ n + 1 - (text + 1) + text = n
      BY <1>1, <2>1
    <3>2. 1 \in Nat /\ 1 >= 1 /\ e \in Int /\ e <= n
      BY <1>1, <3>1
    <3>3. a \in Seq(Letters \cap Markers)
      BY <1>3, <3>2, SubMarkers
    <3>4. /\ m \in Seq(Letters) /\ Len(m) = n + 1 - (text + 1)
          /\ Len(SubSeq(p, 1, (text + 1) - 1)) = (text + 1) - 1
          /\ SubSeq(p, 1, (text + 1) - 1) \o m = p
      BY <3>1, FromIs
    <3>5. a = SubSeq(p, 1, (text + 1) - 1)
      BY <3>1
    <3>. HIDE DEF a, m, e, n
    <3>6. Len(a) = e /\ a \o m = p
      BY <3>1, <3>4, <3>5
    <3>7. Len(m) + e = n /\ Len(m) \in Nat
      BY <1>1, <2>1, <3>1, <3>4
    <3>. QED  BY <3>3, <3>4, <3>6, <3>7
  <2>2. CASE text > n
    <3>1. text = n + 1 /\ e = n /\ text + 1 > n /\ text + 1 \in Nat /\ text + 1 >= 1
      BY <1>1, <2>2
    <3>2. 1 \in Nat /\ 1 >= 1 /\ n \in Int /\ n <= n
      BY <1>1
    <3>3. a = p /\ SubSeq(p, 1, n) = p
      BY <3>1
    <3>4. SubSeq(p, 1, n) \in Seq(Letters \cap Markers)
      BY <1>3, <3>1, <3>2, SubMarkers
    <3>5. m = SubSeq(p, text + 1, n)
      BY DEF From
    <3>6. m \in Seq(Letters) /\ Len(m) = 0
      BY <3>1, <3>2, <3>5, SeqSub
    <3>7. m = <<>> /\ p \o <<>> = p
      BY <3>6, ConcatEmpty
    <3>8. Len(p) = n
      OBVIOUS
    <3>. HIDE DEF a, m, e, n
    <3>9. Len(a) = e /\ a \o m = p
      BY <3>1, <3>3, <3>7, <3>8
    <3>10. a \in Seq(Letters \cap Markers)
      BY <3>1, <3>3, <3>4
    <3>11. Len(m) + e = n /\ Len(m) \in Nat
      BY <1>1, <3>1, <3>6
    <3>. QED  BY <3>6, <3>9, <3>10, <3>11
  <2>3. text <= n \/ text > n
    BY <1>1
  <2>. QED  BY <2>1, <2>2, <2>3, Zenon
<1>5. e >= 1 /\ e \in Nat
  BY <1>1
<1>6. h \in DOMAIN p
  <2>1. DOMAIN p = 1 .. n
    OBVIOUS
  <2>. QED  BY <1>1, <2>1
<1>7. ~ Unmarked(p)
  BY <1>6, Zenon DEF Unmarked, Marks
<1>. HIDE DEF m, x, e
<1>8. /\ o \in Seq(Glyphs) /\ o # <<>> /\ Kept(m, o) /\ Paired(Only(o, Codes))
      /\ Bytes(o) <= Len(m) + 10 /\ Bytes(o) \in Nat
  BY <1>2, <1>4, KeepsWrapped, BytesType
<1>. HIDE DEF a, o
<1>9. Kept(p, o)
  <2>1. <<>> \in Seq(Letters \cap Markers)
    OBVIOUS
  <2>2. Kept(a \o m \o <<>>, o)
    BY <1>4, <1>8, <2>1, KeptInside
  <2>3. p \o <<>> = p
    BY ConcatEmpty
  <2>. QED  BY <1>4, <2>2, <2>3
<1>10. Plain(p, o)
  BY <1>7 DEF Plain
<1>11. Bytes(o) <= 11 * Len(p)
  <2>. HIDE DEF n
  <2>1. Bytes(o) <= 11 * n
    BY <1>1, <1>4, <1>5, <1>8
  <2>. QED  BY <2>1 DEF n
<1>. QED  BY <1>8, <1>9, <1>10, <1>11 DEF Keeps, o, m, x
(* A bounded search for the end of a run. *)
RunEnd(p, i, w, cs) == Least({j \in i .. w : j = w \/ j > Len(p) \/ p[j] \notin cs})

LEMMA RunEndIs ==
  ASSUME NEW X, NEW p \in Seq(X), NEW i \in Nat, NEW w \in Nat, i <= w, NEW cs
  PROVE  /\ RunEnd(p, i, w, cs) \in i .. w
         /\ \A j \in i .. RunEnd(p, i, w, cs) - 1 : j <= Len(p) /\ p[j] \in cs
<1>. DEFINE n == Len(p)
            S == {j \in i .. w : j = w \/ j > n \/ p[j] \notin cs}
            k == Least(S)
<1>1. n \in Nat
  OBVIOUS
<1>. HIDE DEF n
<1>2. w \in S /\ S \in SUBSET Nat
  OBVIOUS
<1>3. \A j \in i .. w : j \notin S => ~ (j > n) /\ p[j] \in cs
  OBVIOUS
<1>4. \A j \in S : j \in i .. w
  OBVIOUS
<1>. HIDE DEF S
<1>5. k \in S /\ \A j \in S : k <= j
  BY <1>2, LeastIs
<1>. HIDE DEF k
<1>6. k \in i .. w
  BY <1>4, <1>5
<1>7. \A j \in i .. k - 1 : j \in i .. w /\ ~ (k <= j)
  BY <1>6
<1>8. \A j \in i .. k - 1 : ~ (j > n) /\ p[j] \in cs
  BY <1>3, <1>5, <1>7
<1>9. \A j \in i .. k - 1 : ~ (j > n) => j <= n
  BY <1>1, <1>6
<1>. QED  BY <1>6, <1>8, <1>9 DEF n, S, k, RunEnd

Blanks == {" "}
Hashes == {"#"}

LEMMA NormalKeeps ==
  ASSUME NEW p \in Seq(Letters)
  PROVE  Keeps(p, NormalLine(p)) /\ (p # <<>> => NormalLine(p) # <<>>)
<1>. DEFINE n == Len(p)
            i == RunEnd(p, 1, 4, Blanks)
            text == RunEnd(p, i, i + 6, Hashes)
            prefix == BlockPrefix(p)
            head == text > i /\ (text > Len(p) \/ p[text] \in Blanks)
            a == SubSeq(p, 1, prefix)
            rest == From(p, prefix + 1)
<1>1. n \in Nat
  OBVIOUS
<1>2. NormalLine(p) = IF head THEN BoldOn \o From(p, text + 1) \o BoldOff
                              ELSE a \o InlinePass(rest)
  <2>1. i = Least({j \in 1 .. 4 : j = 4 \/ j > Len(p) \/ p[j] # " "})
    BY DEF RunEnd, Blanks
  <2>. HIDE DEF i
  <2>2. text = Least({j \in i .. i + 6 : j = i + 6 \/ j > Len(p) \/ p[j] # "#"})
    BY DEF RunEnd, Hashes
  <2>. HIDE DEF text
  <2>3. head <=> (text > i /\ (text > Len(p) \/ p[text] = " "))
    BY DEF Blanks
  <2>. HIDE DEF head
  <2>. QED  BY <2>1, <2>2, <2>3, Zenon DEF NormalLine
<1>3. CASE head
  <2>1. i \in 1 .. 4 /\ \A j \in 1 .. i - 1 : j <= n /\ p[j] \in Blanks
    BY RunEndIs
  <2>2. head
    BY <1>3
  <2>. HIDE DEF i
  <2>3. i \in Nat /\ i + 6 \in Nat /\ i <= i + 6
    BY <2>1
  <2>4. text \in i .. i + 6 /\ \A j \in i .. text - 1 : j <= n /\ p[j] \in Hashes
    BY <2>3, RunEndIs
  <2>5. text > i /\ (text > n \/ p[text] \in Blanks)
    BY <2>2
  <2>. HIDE DEF text, n
  <2>6. text \in Nat /\ text - 1 \in i .. text - 1 /\ i \in i .. text - 1 /\ i \in 1 .. text - 1
    BY <2>1, <2>3, <2>4, <2>5
  <2>7. text - 1 <= n
    BY <2>4, <2>6
  <2>8. text \in 2 .. n + 1
    BY <1>1, <2>1, <2>5, <2>6, <2>7
  <2>9. Blanks \subseteq Markers /\ Hashes \subseteq Markers /\ Hashes \subseteq Marks
    BY DEF Blanks, Hashes, Markers, Marks
  <2>10. \A j \in 1 .. text - 1 : p[j] \in Markers
    <3>1. \A j \in 1 .. text - 1 : j \in 1 .. i - 1 \/ j \in i .. text - 1
      BY <2>1, <2>6
    <3>. QED  BY <2>1, <2>4, <2>9, <3>1
  <2>11. p[i] \in Marks
    BY <2>4, <2>6, <2>9
  <2>12. text <= n => p[text] \in Markers
    <3>1. text <= n => ~ (text > n)
      BY <1>1, <2>6
    <3>. QED  BY <2>5, <2>9, <3>1
  <2>13. Wrapped("[1m", From(p, text + 1)) = BoldOn \o From(p, text + 1) \o BoldOff
    BY DEF Wrapped, BoldOn, BoldOff, Closing
  <2>14. NormalLine(p) = Wrapped("[1m", From(p, text + 1))
    BY <1>2, <2>2, <2>13
  <2>15. Keeps(p, Wrapped("[1m", From(p, text + 1))) /\ Wrapped("[1m", From(p, text + 1)) # <<>>
    BY <2>6, <2>8, <2>10, <2>11, <2>12, HeadingKeeps DEF n
  <2>. QED  BY <2>14, <2>15
<1>4. CASE ~ head
  <2>1. prefix \in 0 .. n
    BY BlockPrefixIs
  <2>. HIDE DEF prefix
  <2>2. prefix + 1 \in 1 .. n + 1 /\ (prefix + 1) - 1 = prefix
    BY <1>1, <2>1
  <2>3. rest \in Seq(Letters) /\ SubSeq(p, 1, (prefix + 1) - 1) \in Seq(Letters)
        /\ SubSeq(p, 1, (prefix + 1) - 1) \o rest = p
    BY <2>2, FromIs
  <2>4. a \in Seq(Letters) /\ a \o rest = p
    BY <2>2, <2>3
  <2>. HIDE DEF a, rest
  <2>5. Keeps(a, a) /\ Keeps(rest, InlinePass(rest)) /\ (rest # <<>> => InlinePass(rest) # <<>>)
    BY <2>3, <2>4, KeepsSame, InlineKeeps
  <2>6. Keeps(a \o rest, a \o InlinePass(rest))
    BY <2>3, <2>4, <2>5, KeepsConcat
  <2>7. p # <<>> => a \o InlinePass(rest) # <<>>
    <3>1. a \in Seq(Glyphs) /\ InlinePass(rest) \in Seq(Glyphs)
      BY <2>5 DEF Keeps
    <3>2. p # <<>> => a # <<>> \/ rest # <<>>
      BY <2>4, ConcatEmpty
    <3>. QED  BY <2>5, <3>1, <3>2, ConcatNotEmpty
  <2>. QED  BY <1>2, <1>4, <2>4, <2>6, <2>7
<1>. QED  BY <1>3, <1>4

LEMMA KeptIsShown ==
  ASSUME NEW p \in Seq(Letters), NEW o \in Seq(Glyphs), NEW fenced \in BOOLEAN,
         Kept(p, o), Paired(Only(o, Codes)), Long(p) => o = p,
         fenced \/ IsFence(p) \/ Unmarked(p) => Only(o, Char) = p
  PROVE  LineShown(p, fenced, o)
<1>. DEFINE plain == Only(o, Char)
            codes == Only(o, Codes)
<1>1. Long(p) => o = p
  OBVIOUS
<1>2. fenced \/ IsFence(p) \/ (\A i \in DOMAIN p : p[i] \notin Markers \ {" "}) => plain = p
  BY DEF Unmarked
<1>3. Only(plain, Char \ Markers) = Only(p, Char \ Markers)
  <2>1. Only(plain, Char \ Markers) = Only(o, Char \cap (Char \ Markers))
    BY OnlyTwice
  <2>2. Char \cap (Char \ Markers) = Char \ Markers
    OBVIOUS
  <2>. QED  BY <2>1, <2>2 DEF Kept
<1>4. \A c \in Markers : Len(Only(plain, {c})) <= Len(Only(p, {c}))
  <2>1. \A c : Only(plain, {c}) = Only(o, Char \cap {c})
    BY OnlyTwice
  <2>. QED  BY <2>1 DEF Kept
<1>5. /\ Len(codes) % 2 = 0
      /\ \A i \in DOMAIN codes : i % 2 = 1 =>
           codes[i] \in DOMAIN Closing /\ codes[i + 1] = Closing[codes[i]]
  BY DEF Paired
<1>. HIDE DEF plain, codes
<1>6. LineShown(p, fenced, o) <=>
         /\ Long(p) => o = p
         /\ fenced \/ IsFence(p) \/ (\A i \in DOMAIN p : p[i] \notin Markers \ {" "}) => plain = p
         /\ Only(plain, Char \ Markers) = Only(p, Char \ Markers)
         /\ \A c \in Markers : Len(Only(plain, {c})) <= Len(Only(p, {c}))
         /\ Len(codes) % 2 = 0
         /\ \A i \in DOMAIN codes : i % 2 = 1 =>
              codes[i] \in DOMAIN Closing /\ codes[i + 1] = Closing[codes[i]]
  BY Zenon DEF LineShown, plain, codes
<1>. QED  BY <1>1, <1>2, <1>3, <1>4, <1>5, <1>6, Zenon

(* A line that is not styled is shown as it is. *)
LEMMA RawShown ==
  ASSUME NEW p \in Seq(Letters), NEW fenced \in BOOLEAN
  PROVE  LineShown(p, fenced, p)
<1>1. p \in Seq(Glyphs) /\ Kept(p, p) /\ Paired(Only(p, Codes)) /\ Only(p, Char) = p
  BY KeepsSame DEF Keeps
<1>. QED  BY <1>1, KeptIsShown

(* style_line: shows the line, in at most eleven bytes for each of its own. *)
Styles(fenced, p, o) ==
  /\ o \in Seq(Glyphs)
  /\ LineShown(p, fenced, o)
  /\ p # <<>> => o # <<>> /\ Bytes(o) <= 11 * Len(p)
  /\ Bytes(o) <= 11 * Len(p) + 10

LEMMA WrappedStyles ==
  ASSUME NEW p \in Seq(Letters), NEW fenced \in BOOLEAN, ~ Long(p), NEW x \in DOMAIN Closing
  PROVE  Styles(fenced, p, Wrapped(x, p))
<1>. DEFINE o == Wrapped(x, p)
<1>1. /\ o \in Seq(Glyphs) /\ o # <<>> /\ Kept(p, o) /\ Only(o, Char) = p
      /\ Paired(Only(o, Codes)) /\ Bytes(o) <= Len(p) + 10 /\ Bytes(o) \in Nat
  BY KeepsWrapped, BytesType
<1>. HIDE DEF o
<1>2. LineShown(p, fenced, o)
  BY <1>1, KeptIsShown
<1>3. Len(p) \in Nat /\ (p # <<>> => Len(p) >= 1)
  OBVIOUS
<1>4. (p # <<>> => Bytes(o) <= 11 * Len(p)) /\ Bytes(o) <= 11 * Len(p) + 10
  BY <1>1, <1>3
<1>5. Styles(fenced, p, o)
  BY <1>1, <1>2, <1>4 DEF Styles
<1>. QED  BY <1>5 DEF o

LEMMA StyleShows ==
  ASSUME NEW p \in Seq(Letters), NEW fenced \in BOOLEAN, ~ Long(p)
  PROVE  Styles(fenced, p, StyleLine(fenced, p))
<1>1. CASE IsFence(p)
  <2>1. "[2m" \in DOMAIN Closing /\ Wrapped("[2m", p) = DimOn \o p \o DimOff
    BY DEF Closing, Wrapped, DimOn, DimOff
  <2>2. StyleLine(fenced, p) = Wrapped("[2m", p)
    BY <1>1, <2>1 DEF StyleLine
  <2>. QED  BY <2>1, <2>2, WrappedStyles
<1>2. CASE ~ IsFence(p) /\ fenced
  <2>1. "[36m" \in DOMAIN Closing /\ Wrapped("[36m", p) = CodeOn \o p \o CodeOff
    BY DEF Closing, Wrapped, CodeOn, CodeOff
  <2>2. StyleLine(fenced, p) = Wrapped("[36m", p)
    BY <1>2, <2>1 DEF StyleLine
  <2>. QED  BY <2>1, <2>2, WrappedStyles
<1>3. CASE ~ IsFence(p) /\ ~ fenced
  <2>. DEFINE o == NormalLine(p)
  <2>1. StyleLine(fenced, p) = o
    BY <1>3 DEF StyleLine
  <2>2. Keeps(p, o) /\ (p # <<>> => o # <<>>)
    BY NormalKeeps
  <2>. HIDE DEF o
  <2>3. /\ o \in Seq(Glyphs) /\ Kept(p, o) /\ Plain(p, o) /\ Paired(Only(o, Codes))
        /\ Bytes(o) <= 11 * Len(p)
    BY <2>2 DEF Keeps
  <2>4. LineShown(p, fenced, o)
    BY <1>3, <2>3, KeptIsShown DEF Plain
  <2>5. Len(p) \in Nat /\ Bytes(o) \in Nat
    BY <2>3, BytesType
  <2>6. Bytes(o) <= 11 * Len(p) + 10
    BY <2>3, <2>5
  <2>. QED  BY <2>1, <2>2, <2>3, <2>4, <2>6 DEF Styles
<1>. QED  BY <1>1, <1>2, <1>3

---------------------------------------------------------------------------
(* Lines. *)
LEMMA LinesType == ASSUME NEW X, NEW s \in Seq(X) PROVE LinesOf(s) \in LineSeq(X)
BY LinesOfFacts

LEMMA LinesAppend ==
  ASSUME NEW X, NEW s \in Seq(X), NEW c \in X
  PROVE  LinesOf(Append(s, c)) = Grown(LinesOf(s), c)
BY LinesOfFacts

LEMMA LinesEmpty == LinesOf(<<>>) = << <<>> >>
<1>1. \A X : LinesOf(<<>>) = << <<>> >>
  BY LinesOfFacts, Zenon
<1>. QED  BY <1>1

(* The lines with more at the end of the last one. *)
Extended(v, x) == [v EXCEPT ![Len(v)] = v[Len(v)] \o x]

LEMMA ExtendedIs ==
  ASSUME NEW X, NEW v \in LineSeq(X), NEW x \in Seq(X \ {"\n"})
  PROVE  /\ Extended(v, x) \in LineSeq(X) /\ Len(Extended(v, x)) = Len(v)
         /\ Len(v) \in Nat /\ Len(v) >= 1 /\ v[Len(v)] \in Seq(X \ {"\n"})
         /\ Extended(v, x)[Len(v)] = v[Len(v)] \o x
         /\ \A k \in 1 .. Len(v) - 1 : Extended(v, x)[k] = v[k]
<1>. DEFINE Y == X \ {"\n"}
            n == Len(v)
            w == v[n] \o x
            u == [v EXCEPT ![n] = w]
<1>1. v \in Seq(Seq(Y)) /\ n \in Nat /\ n >= 1
  BY DEF LineSeq
<1>2. n \in 1 .. n /\ v[n] \in Seq(Y) /\ x \in Seq(Y)
  BY <1>1
<1>. HIDE DEF Y
<1>3. w \in Seq(Y)
  BY <1>2, SeqConcat
<1>. HIDE DEF w
<1>4. u \in Seq(Seq(Y)) /\ Len(u) = n /\ u[n] = w /\ \A k \in 1 .. n - 1 : u[k] = v[k]
  BY <1>1, <1>2, <1>3
<1>5. Extended(v, x) = u
  BY DEF Extended, w
<1>. HIDE DEF u
<1>. QED  BY <1>1, <1>2, <1>4, <1>5 DEF LineSeq, Y, w

LEMMA GrownIs ==
  ASSUME NEW X, NEW v \in LineSeq(X), NEW c \in X
  PROVE  Grown(v, c) = IF c = "\n" THEN Append(v, <<>>) ELSE Extended(v, <<c>>)
<1>1. CASE c = "\n"
  BY <1>1 DEF Grown
<1>2. CASE c # "\n"
  <2>. DEFINE n == Len(v)
  <2>1. v[n] \in Seq(X \ {"\n"}) /\ c \in X \ {"\n"}
    <3>1. v \in Seq(Seq(X \ {"\n"})) /\ n >= 1 /\ n \in Nat
      BY DEF LineSeq
    <3>. QED  BY <1>2, <3>1
  <2>2. Append(v[n], c) = v[n] \o <<c>>
    <3>. DEFINE Y == X \ {"\n"}
                a == v[n]
    <3>1. a \in Seq(Y) /\ c \in Y
      BY <2>1
    <3>. HIDE DEF a, Y
    <3>2. <<>> \in Seq(Y) /\ <<c>> = Append(<<>>, c)
      OBVIOUS
    <3>3. a \o Append(<<>>, c) = Append(a \o <<>>, c)
      BY <3>1, <3>2, ConcatAppend
    <3>4. a \o <<>> = a
      BY <3>1, ConcatEmpty
    <3>. QED  BY <3>2, <3>3, <3>4 DEF a
  <2>. QED  BY <1>2, <2>2 DEF Grown, Extended
<1>. QED  BY <1>1, <1>2

LEMMA LinesExtend ==
  ASSUME NEW X, NEW s \in Seq(X), NEW x \in Seq(X \ {"\n"})
  PROVE  LinesOf(s \o x) = Extended(LinesOf(s), x)
<1>. DEFINE Y == X \ {"\n"}
            v == LinesOf(s)
            n == Len(v)
            D == {u \in Seq(Y) : LinesOf(s \o u) = Extended(v, u)}
<1>0. Y \subseteq X /\ \A c \in Y : c # "\n"
  OBVIOUS
<1>1. v \in LineSeq(X)
  BY LinesType
<1>2. v \in Seq(Seq(Y)) /\ n \in Nat /\ n >= 1
  BY <1>1 DEF LineSeq
<1>3. n \in 1 .. n /\ v[n] \in Seq(Y)
  BY <1>2
<1>4. x \in Seq(Y)
  OBVIOUS
<1>5. \A u \in Seq(Y) : u \in Seq(X)
  BY <1>0
<1>. HIDE DEF v
<1>6. <<>> \in D
  <2>1. <<>> \in Seq(Y) /\ s \o <<>> = s
    BY ConcatEmpty
  <2>2. v[n] \o <<>> = v[n]
    BY <1>3, ConcatEmpty
  <2>. HIDE DEF Y
  <2>3. [v EXCEPT ![n] = v[n]] = v
    BY <1>2, <1>3
  <2>. QED  BY <2>1, <2>2, <2>3 DEF Extended, v
<1>7. ASSUME NEW u \in Seq(Y), NEW c \in Y, u \in D PROVE Append(u, c) \in D
  <2>1. s \o u \in Seq(X) /\ s \o Append(u, c) = Append(s \o u, c) /\ Append(u, c) \in Seq(Y)
    BY <1>0, <1>5, SeqConcat, ConcatAppend, SeqAppend
  <2>2. LinesOf(s \o u) = Extended(v, u)
    BY <1>7
  <2>3. c \in X /\ c # "\n"
    BY <1>0
  <2>. DEFINE w == s \o u
  <2>. HIDE DEF w
  <2>4. LinesOf(Append(w, c)) = Grown(LinesOf(w), c)
    BY <2>1, <2>3, LinesAppend DEF w
  <2>5. Extended(v, u) \in LineSeq(X) /\ Len(Extended(v, u)) = n /\ Extended(v, u)[n] = v[n] \o u
    BY <1>1, ExtendedIs
  <2>6. Grown(Extended(v, u), c) = [Extended(v, u) EXCEPT ![n] = Append(v[n] \o u, c)]
    BY <2>3, <2>5 DEF Grown
  <2>7. [Extended(v, u) EXCEPT ![n] = Append(v[n] \o u, c)] = [v EXCEPT ![n] = Append(v[n] \o u, c)]
    <3>. DEFINE a == v[n] \o u
                b == Append(a, c)
    <3>. HIDE DEF a, b, Y
    <3>1. [[v EXCEPT ![n] = a] EXCEPT ![n] = b] = [v EXCEPT ![n] = b]
      BY <1>2
    <3>. QED  BY <3>1 DEF Extended, a, b
  <2>8. Append(v[n] \o u, c) = v[n] \o Append(u, c)
    <3>. DEFINE a == v[n]
    <3>1. a \in Seq(Y)
      BY <1>3
    <3>. HIDE DEF a, Y
    <3>2. a \o Append(u, c) = Append(a \o u, c)
      BY <3>1, ConcatAppend
    <3>. QED  BY <3>2 DEF a
  <2>9. LinesOf(s \o Append(u, c)) = [v EXCEPT ![n] = v[n] \o Append(u, c)]
    BY <2>1, <2>2, <2>4, <2>6, <2>7, <2>8 DEF w
  <2>. QED  BY <2>1, <2>9 DEF Extended
<1>. HIDE DEF D, Y
<1>8. x \in D
  BY <1>4, <1>6, <1>7, SeqInduction
<1>. QED  BY <1>8 DEF D, v

(* The last line is empty where a sequence is, or where it ends a line. *)
LEMMA LinesEnd ==
  ASSUME NEW X, NEW s \in Seq(X)
  PROVE  LinesOf(s)[Len(LinesOf(s))] = <<>> <=> (s = <<>> \/ s[Len(s)] = "\n")
<1>1. CASE s = <<>>
  <2>1. Len(<< <<>> >>) = 1 /\ << <<>> >>[1] = <<>>
    OBVIOUS
  <2>. QED  BY <1>1, <2>1, LinesEmpty
<1>2. CASE s # <<>>
  <2>. DEFINE m == Len(s) - 1
  <2>1. m \in Nat /\ Len(s) = m + 1
    BY <1>2
  <2>. HIDE DEF m
  <2>2. PICK t \in Seq(X), c \in X : s = Append(t, c)
    <3>1. \E t \in Seq(X), c \in X : s = Append(t, c) /\ Len(t) = m
      BY <2>1, SeqSplit
    <3>. QED  BY <3>1
  <2>3. s[Len(s)] = c
    BY <2>2, SeqAppend
  <2>. DEFINE v == LinesOf(t)
              n == Len(v)
              w == LinesOf(s)
  <2>4. v \in LineSeq(X) /\ w = Grown(v, c)
    BY <2>2, LinesType, LinesAppend
  <2>. HIDE DEF v, w
  <2>5. w = IF c = "\n" THEN Append(v, <<>>) ELSE Extended(v, <<c>>)
    BY <2>4, GrownIs
  <2>6. CASE c = "\n"
    <3>1. w = Append(v, <<>>)
      BY <2>5, <2>6
    <3>2. <<>> \in Seq(X \ {"\n"}) /\ v \in Seq(Seq(X \ {"\n"}))
      BY <2>4 DEF LineSeq
    <3>3. Len(w) = n + 1 /\ w[n + 1] = <<>>
      BY <3>1, <3>2, SeqAppend
    <3>. QED  BY <2>3, <2>6, <3>3 DEF w
  <2>7. CASE c # "\n"
    <3>1. w = Extended(v, <<c>>) /\ <<c>> \in Seq(X \ {"\n"})
      BY <2>5, <2>7
    <3>2. Len(w) = n /\ w[n] = v[n] \o <<c>> /\ v[n] \in Seq(X \ {"\n"})
      <4>. DEFINE x == <<c>>
      <4>1. x \in Seq(X \ {"\n"})
        BY <3>1
      <4>. HIDE DEF x
      <4>2. Len(Extended(v, x)) = n /\ Extended(v, x)[n] = v[n] \o x /\ v[n] \in Seq(X \ {"\n"})
        BY <2>4, <4>1, ExtendedIs
      <4>. QED  BY <3>1, <4>2 DEF x
    <3>3. <<c>> # <<>>
      OBVIOUS
    <3>4. w[Len(w)] # <<>>
      BY <3>1, <3>2, <3>3, ConcatNotEmpty
    <3>. QED  BY <1>2, <2>3, <2>7, <3>4 DEF w
  <2>. QED  BY <2>6, <2>7
<1>. QED  BY <1>1, <1>2

---------------------------------------------------------------------------
(* The renderer, character by character. *)

Raw == Char \cup Codes
RState == {r \in [line : Seq(Letters), in_fence : BOOLEAN, line_overflowed : BOOLEAN,
                  ended_newline : BOOLEAN, out : Seq(Raw)] : ~ Long(r.line)}

LEMMA RawGlyphs ==
  Raw \ {"\n"} = Glyphs /\ Glyphs \subseteq Raw /\ Char \subseteq Raw /\ Letters \subseteq Glyphs
  /\ (\A s \in Seq(Glyphs) : s \in Seq(Raw)) /\ (\A s \in Seq(Letters) : s \in Seq(Glyphs))
<1>1. Raw \ {"\n"} = Glyphs /\ Glyphs \subseteq Raw /\ Char \subseteq Raw /\ Letters \subseteq Glyphs
  BY DEF Raw, Glyphs, Letters, Codes
<1>. QED  BY <1>1

LEMMA RStateFields ==
  ASSUME NEW r \in RState
  PROVE  /\ r.line \in Seq(Letters) /\ r.in_fence \in BOOLEAN /\ r.line_overflowed \in BOOLEAN
         /\ r.ended_newline \in BOOLEAN /\ r.out \in Seq(Raw) /\ ~ Long(r.line)
BY DEF RState

LEMMA EmptyNotLong == ~ Long(<<>>)
<1>1. Len(<<>>) = 0 /\ RenderLineMax \in Nat
  BY TerminalAssumption
<1>. QED  BY <1>1 DEF Long

MakeR(line, fence, over, ended, out) ==
  [line |-> line, in_fence |-> fence, line_overflowed |-> over, ended_newline |-> ended, out |-> out]

LEMMA MadeR ==
  ASSUME NEW line \in Seq(Letters), NEW fence \in BOOLEAN, NEW over \in BOOLEAN,
         NEW ended \in BOOLEAN, NEW out \in Seq(Raw), ~ Long(line)
  PROVE  MakeR(line, fence, over, ended, out) \in RState
BY DEF MakeR, RState

Has(r, line, fence, over, ended, out) ==
  /\ r.line = line /\ r.in_fence = fence /\ r.line_overflowed = over
  /\ r.ended_newline = ended /\ r.out = out

LEMMA MadeRHas ==
  ASSUME NEW line, NEW fence, NEW over, NEW ended, NEW out
  PROVE  Has(MakeR(line, fence, over, ended, out), line, fence, over, ended, out)
BY DEF MakeR, Has

LEMMA NewlineR ==
  ASSUME NEW r, NEW c, NEW q,
         r = MakeR(r.line, r.in_fence, r.line_overflowed, r.ended_newline, r.out),
         q = [r EXCEPT !.line_overflowed = FALSE, !.out = Append(@, c), !.ended_newline = TRUE]
  PROVE  q = MakeR(r.line, r.in_fence, FALSE, TRUE, Append(r.out, c))
BY DEF MakeR

LEMMA InitR == RenderInit \in RState
<1>1. RenderInit = MakeR(<<>>, FALSE, FALSE, TRUE, <<>>)
  BY DEF RenderInit, MakeR
<1>2. <<>> \in Seq(Letters) /\ <<>> \in Seq(Raw)
  OBVIOUS
<1>. QED  BY <1>1, <1>2, EmptyNotLong, MadeR

(* A complete line's effect on in_fence. *)
Toggled(fence, p) == IF IsFence(p) THEN ~ fence ELSE fence

(* What a character does, case by case. *)
LEMMA CharCases ==
  ASSUME NEW r \in RState, NEW c \in Char
  PROVE  LET q == RenderChar(r, c) IN
         \/ /\ c = "\n" /\ ~ r.line_overflowed
            /\ q = MakeR(<<>>, Toggled(r.in_fence, r.line), FALSE, TRUE,
                         Append(r.out \o StyleLine(r.in_fence, r.line), c))
         \/ /\ c = "\n" /\ r.line_overflowed
            /\ q = MakeR(r.line, r.in_fence, FALSE, TRUE, Append(r.out, c))
         \/ /\ c # "\n" /\ r.line_overflowed
            /\ q = MakeR(r.line, r.in_fence, r.line_overflowed, FALSE, Append(r.out, c))
         \/ /\ c # "\n" /\ ~ r.line_overflowed /\ ~ Long(Append(r.line, c))
            /\ q = MakeR(Append(r.line, c), r.in_fence, r.line_overflowed, r.ended_newline, r.out)
         \/ /\ c # "\n" /\ ~ r.line_overflowed /\ Long(Append(r.line, c))
            /\ q = MakeR(<<>>, r.in_fence, TRUE, FALSE, Append(r.out \o r.line, c))
<1>. DEFINE l == r.line  f == r.in_fence  v == r.line_overflowed  e == r.ended_newline  o == r.out
            q == RenderChar(r, c)
<1>1. r = MakeR(l, f, v, e, o) /\ v \in BOOLEAN
  BY DEF RState, MakeR
<1>0. f \in BOOLEAN /\ e \in BOOLEAN /\ Toggled(f, l) \in BOOLEAN
  BY RStateFields DEF Toggled
<1>2. Long(Append(l, c)) <=> ~ (Len(l) < RenderLineMax)
  <2>1. l \in Seq(Letters)
    BY RStateFields
  <2>2. Len(Append(l, c)) = Len(l) + 1 /\ Len(l) \in Nat
    <3>. HIDE DEF l
    <3>. QED  BY <2>1
  <2>3. RenderLineMax \in Nat
    BY TerminalAssumption
  <2>. HIDE DEF l
  <2>. QED  BY <2>2, <2>3 DEF Long
<1>3. CASE c = "\n" /\ ~ v
  <2>1. q = [Styled(r) EXCEPT !.line_overflowed = FALSE, !.out = Append(@, c), !.ended_newline = TRUE]
    BY <1>3 DEF RenderChar
  <2>2. Styled(r) = MakeR(<<>>, Toggled(f, l), v, e, o \o StyleLine(f, l))
    <3>. DEFINE g == Toggled(f, l)
                w == o \o StyleLine(f, l)
    <3>1. Styled(r) = [r EXCEPT !.in_fence = g, !.out = w, !.line = <<>>]
      BY DEF Styled, Toggled
    <3>. HIDE DEF g, w
    <3>3. g \in BOOLEAN
      BY <1>0 DEF g
    <3>. DEFINE y == Styled(r)
    <3>4. y = [r EXCEPT !.in_fence = g, !.out = w, !.line = <<>>]
      BY <3>1
    <3>. HIDE DEF y
    <3>2. y = MakeR(<<>>, g, v, e, w)
      <4>1. r = MakeR(r.line, r.in_fence, r.line_overflowed, r.ended_newline, r.out)
        BY <1>1
      <4>2. y = MakeR(<<>>, g, r.line_overflowed, r.ended_newline, w)
        BY <3>3, <3>4, <4>1, Zenon DEF MakeR
      <4>. QED  BY <4>2
    <3>. QED  BY <3>2 DEF g, w, y
  <2>3. q = MakeR(<<>>, Toggled(f, l), FALSE, TRUE, Append(o \o StyleLine(f, l), c))
    <3>. DEFINE g == Toggled(f, l)
                w == o \o StyleLine(f, l)
    <3>1. Styled(r) = MakeR(<<>>, g, v, e, w)
      BY <2>2
    <3>. HIDE DEF g, w
    <3>. DEFINE y == Styled(r)
    <3>3. y.line = <<>> /\ y.in_fence = g /\ y.out = w
          /\ y.line_overflowed = v /\ y.ended_newline = e
      <4>1. Has(MakeR(<<>>, g, v, e, w), <<>>, g, v, e, w)
        BY MadeRHas
      <4>2. Has(y, <<>>, g, v, e, w)
        BY <3>1, <4>1, Zenon
      <4>. HIDE DEF y
      <4>. QED  BY <4>2 DEF Has
    <3>4. y = MakeR(y.line, y.in_fence, y.line_overflowed, y.ended_newline, y.out)
      BY <3>1, <3>3
    <3>5. q = [y EXCEPT !.line_overflowed = FALSE, !.out = Append(@, c), !.ended_newline = TRUE]
      BY <2>1
    <3>. HIDE DEF y
    <3>. HIDE DEF q
    <3>6. q = MakeR(y.line, y.in_fence, FALSE, TRUE, Append(y.out, c))
      BY <3>4, <3>5, NewlineR
    <3>2. q = MakeR(<<>>, g, FALSE, TRUE, Append(w, c))
      BY <3>3, <3>6, Zenon
    <3>. QED  BY <3>2 DEF g, w
  <2>. QED  BY <1>3, <2>3
<1>4. CASE c = "\n" /\ v
  <2>1. q = [r EXCEPT !.line_overflowed = FALSE, !.out = Append(@, c), !.ended_newline = TRUE]
    BY <1>4 DEF RenderChar
  <2>2. q = MakeR(l, f, FALSE, TRUE, Append(o, c))
    BY <1>1, <2>1 DEF MakeR
  <2>. QED  BY <1>4, <2>2
<1>5. CASE c # "\n" /\ v
  <2>1. q = [r EXCEPT !.out = Append(@, c), !.ended_newline = FALSE]
    BY <1>5 DEF RenderChar
  <2>2. q = MakeR(l, f, v, FALSE, Append(o, c))
    BY <1>1, <2>1 DEF MakeR
  <2>. QED  BY <1>5, <2>2
<1>6. CASE c # "\n" /\ ~ v /\ Len(l) < RenderLineMax
  <2>1. q = [r EXCEPT !.line = Append(@, c)]
    BY <1>6 DEF RenderChar
  <2>2. q = MakeR(Append(l, c), f, v, e, o)
    BY <1>1, <2>1 DEF MakeR
  <2>. QED  BY <1>2, <1>6, <2>2
<1>7. CASE c # "\n" /\ ~ v /\ ~ (Len(l) < RenderLineMax)
  <2>1. q = [r EXCEPT !.out = Append(@ \o r.line, c), !.line = <<>>,
                      !.line_overflowed = TRUE, !.ended_newline = FALSE]
    BY <1>7 DEF RenderChar
  <2>2. q = MakeR(<<>>, f, TRUE, FALSE, Append(o \o l, c))
    BY <1>1, <2>1 DEF MakeR
  <2>. QED  BY <1>2, <1>7, <2>2
<1>. HIDE DEF l, f, v, e, o, q
<1>8. \/ c = "\n" /\ ~ v
      \/ c = "\n" /\ v
      \/ c # "\n" /\ v
      \/ c # "\n" /\ ~ v /\ Len(l) < RenderLineMax
      \/ c # "\n" /\ ~ v /\ ~ (Len(l) < RenderLineMax)
  <2>. DEFINE P == c = "\n"  S == Len(l) < RenderLineMax
  <2>. HIDE DEF P, S
  <2>0. (P \/ ~ P) /\ (v \/ ~ v) /\ (S \/ ~ S)
    OBVIOUS
  <2>1. (P /\ ~ v) \/ (P /\ v) \/ (~ P /\ v) \/ (~ P /\ ~ v /\ S) \/ (~ P /\ ~ v /\ ~ S)
    BY <2>0, Zenon
  <2>. QED  BY <2>1 DEF P, S
<1>. QED  BY <1>3, <1>4, <1>5, <1>6, <1>7, <1>8, Zenon

LEMMA CharType ==
  ASSUME NEW r \in RState, NEW c \in Char
  PROVE  RenderChar(r, c) \in RState
<1>. DEFINE q == RenderChar(r, c)
            style == StyleLine(r.in_fence, r.line)
<1>1. /\ r.line \in Seq(Letters) /\ r.in_fence \in BOOLEAN /\ r.line_overflowed \in BOOLEAN
      /\ r.ended_newline \in BOOLEAN /\ r.out \in Seq(Raw) /\ ~ Long(r.line)
  BY RStateFields
<1>2. style \in Seq(Raw) /\ r.line \in Seq(Raw) /\ c \in Raw
  <2>1. style \in Seq(Glyphs)
    BY <1>1, StyleShows DEF Styles
  <2>. QED  BY <1>1, <2>1, RawGlyphs
<1>. HIDE DEF style
<1>3. /\ r.out \o style \in Seq(Raw) /\ r.out \o r.line \in Seq(Raw) /\ Append(r.out, c) \in Seq(Raw)
  BY <1>1, <1>2, SeqConcat, SeqAppend
<1>4. Append(r.out \o style, c) \in Seq(Raw) /\ Append(r.out \o r.line, c) \in Seq(Raw)
  BY <1>2, <1>3, SeqAppend
<1>5. c # "\n" => Append(r.line, c) \in Seq(Letters)
  <2>1. c # "\n" => c \in Letters
    BY DEF Letters
  <2>. QED  BY <1>1, <2>1, SeqAppend
<1>6. Toggled(r.in_fence, r.line) \in BOOLEAN /\ TRUE \in BOOLEAN /\ FALSE \in BOOLEAN
  BY <1>1 DEF Toggled
<1>7. <<>> \in Seq(Letters)
  OBVIOUS
<1>. DEFINE A == c = "\n" /\ ~ r.line_overflowed
                 /\ q = MakeR(<<>>, Toggled(r.in_fence, r.line), FALSE, TRUE, Append(r.out \o style, c))
            B == c = "\n" /\ r.line_overflowed
                 /\ q = MakeR(r.line, r.in_fence, FALSE, TRUE, Append(r.out, c))
            C == c # "\n" /\ r.line_overflowed
                 /\ q = MakeR(r.line, r.in_fence, r.line_overflowed, FALSE, Append(r.out, c))
            E == c # "\n" /\ ~ r.line_overflowed /\ ~ Long(Append(r.line, c))
                 /\ q = MakeR(Append(r.line, c), r.in_fence, r.line_overflowed, r.ended_newline, r.out)
            F == c # "\n" /\ ~ r.line_overflowed /\ Long(Append(r.line, c))
                 /\ q = MakeR(<<>>, r.in_fence, TRUE, FALSE, Append(r.out \o r.line, c))
<1>8. A \/ B \/ C \/ E \/ F
  BY CharCases, Zenon DEF style
<1>9. CASE A  BY <1>4, <1>6, <1>7, <1>9, EmptyNotLong, MadeR
<1>10. CASE B  BY <1>1, <1>3, <1>6, <1>10, MadeR
<1>11. CASE C  BY <1>1, <1>3, <1>6, <1>11, MadeR
<1>12. CASE E  BY <1>1, <1>5, <1>12, MadeR
<1>13. CASE F  BY <1>1, <1>4, <1>6, <1>7, <1>13, EmptyNotLong, MadeR
<1>. HIDE DEF A, B, C, E, F
<1>. QED  BY <1>8, <1>9, <1>10, <1>11, <1>12, <1>13

IsRenderFeed(f, r, s) ==
  f = [i \in 0 .. Len(s) |-> IF i = 0 THEN r ELSE RenderChar(f[i - 1], s[i])]

LEMMA RenderFeedFacts ==
  ASSUME NEW r \in RState
  PROVE  /\ RenderFeed(r, <<>>) = r
         /\ \A s \in Seq(Char) : RenderFeed(r, s) \in RState
         /\ \A s \in Seq(Char), c \in Char : RenderFeed(r, Append(s, c)) = RenderChar(RenderFeed(r, s), c)
<1>. DEFINE V == RState
            step == [vc \in V \X Char |-> RenderChar(vc[1], vc[2])]
<1>1. IsStep(step, V, Char) /\ r \in V
  <2>1. \A v \in V, c \in Char : RenderChar(v, c) \in V
    BY CharType
  <2>2. \A vc \in V \X Char : vc[1] \in V /\ vc[2] \in Char
    OBVIOUS
  <2>. HIDE DEF V
  <2>3. \A vc \in V \X Char : RenderChar(vc[1], vc[2]) \in V
    BY <2>1, <2>2
  <2>4. r \in V
    BY DEF V
  <2>. QED  BY <2>3, <2>4 DEF IsStep
<1>2. \A v \in V, c \in Char : step[<<v, c>>] = RenderChar(v, c)
  OBVIOUS
<1>. HIDE DEF V, step
<1>3. ASSUME NEW s \in Seq(Char) PROVE RenderFeed(r, s) = FoldOf(step, r, s)
  <2>. DEFINE n == Len(s)
  <2>1. PICK g : /\ g = [i \in 0 .. n |-> g[i]] /\ g[0] = r
                 /\ \A i \in 1 .. n : g[i - 1] \in V /\ s[i] \in Char /\ g[i] = step[<<g[i - 1], s[i]>>]
    BY <1>1, FoldRun
  <2>2. n \in Nat /\ \A i \in 1 .. n : s[i] \in Char
    OBVIOUS
  <2>. HIDE DEF n
  <2>3. 0 \in 0 .. n /\ \A i \in 0 .. n : i = 0 \/ i \in 1 .. n
    BY <2>2
  <2>4. \A i \in 0 .. n : g[i] = IF i = 0 THEN r ELSE RenderChar(g[i - 1], s[i])
    BY <1>2, <2>1, <2>3
  <2>5. IsRenderFeed(g, r, s)
    BY <2>1, <2>4 DEF IsRenderFeed, n
  <2>6. PICK f : f = (CHOOSE h : IsRenderFeed(h, r, s)) /\ IsRenderFeed(f, r, s)
    BY <2>5
  <2>7. /\ f = [i \in 0 .. n |-> f[i]]
        /\ \A i \in 0 .. n : f[i] = IF i = 0 THEN r ELSE RenderChar(f[i - 1], s[i])
    BY <2>6 DEF IsRenderFeed, n
  <2>8. \A i \in 1 .. n : i \in 0 .. n /\ i # 0
    BY <2>2
  <2>9. \A i \in 1 .. n : f[i - 1] \in V => f[i] = step[<<f[i - 1], s[i]>>]
    BY <1>2, <2>2, <2>7, <2>8
  <2>10. Follows(f, step, r, s, V)
    BY <2>3, <2>7, <2>9 DEF Follows, n
  <2>11. FoldOf(step, r, s) = f[Len(s)]
    BY <1>1, <2>10, FoldIs
  <2>. QED  BY <2>6, <2>11 DEF RenderFeed, IsRenderFeed
<1>4. <<>> \in Seq(Char) /\ \A s \in Seq(Char), c \in Char : Append(s, c) \in Seq(Char)
  OBVIOUS
<1>5. FoldLaws(step, r, V, Char)
  BY <1>1, FoldValues
<1>6. ASSUME NEW s \in Seq(Char), NEW c \in Char
      PROVE  RenderFeed(r, Append(s, c)) = RenderChar(RenderFeed(r, s), c)
  <2>1. Append(s, c) \in Seq(Char) /\ FoldOf(step, r, s) \in V
    BY <1>4, <1>5 DEF FoldLaws
  <2>2. RenderFeed(r, Append(s, c)) = step[<<FoldOf(step, r, s), c>>]
    BY <1>3, <1>5, <2>1 DEF FoldLaws
  <2>. QED  BY <1>2, <1>3, <2>1, <2>2
<1>. QED  BY <1>3, <1>4, <1>5, <1>6 DEF V, FoldLaws

LEMMA FeedAppend ==
  ASSUME NEW r \in RState, NEW s \in Seq(Char), NEW c \in Char
  PROVE  RenderFeed(r, Append(s, c)) = RenderChar(RenderFeed(r, s), c)
BY RenderFeedFacts

LEMMA FeedType ==
  ASSUME NEW r \in RState, NEW s \in Seq(Char)
  PROVE  RenderFeed(r, s) \in RState /\ RenderFeed(r, <<>>) = r
BY RenderFeedFacts

---------------------------------------------------------------------------
(* Fences. *)
LEMMA FencesFinite ==
  ASSUME NEW p, NEW k \in Nat
  PROVE  IsFiniteSet(Fences(p, k)) /\ Cardinality(Fences(p, k)) \in Nat
<1>1. IsFiniteSet(1 .. k - 1)
  BY FS_Interval
<1>2. Fences(p, k) \subseteq 1 .. k - 1
  BY DEF Fences
<1>. QED  BY <1>1, <1>2, FS_Subset, FS_CardinalityType

LEMMA FencesAgree ==
  ASSUME NEW p, NEW q, NEW k \in Nat, \A j \in 1 .. k - 1 : p[j] = q[j]
  PROVE  Fenced(p, k) = Fenced(q, k)
<1>1. Fences(p, k) = Fences(q, k)
  BY DEF Fences
<1>. QED  BY <1>1, Zenon DEF Fenced

LEMMA FencesNext ==
  ASSUME NEW p, NEW k \in Nat, k >= 1
  PROVE  Fenced(p, k + 1) = IF ~ Long(p[k]) THEN Toggled(Fenced(p, k), p[k]) ELSE Fenced(p, k)
<1>. DEFINE S == Fences(p, k)
            m == Cardinality(S)
            edge == ~ Long(p[k]) /\ IsFence(p[k])
<1>1. IsFiniteSet(S) /\ m \in Nat
  BY FencesFinite
<1>2. k \notin S /\ k \in Nat
  <2>1. k \notin 1 .. k - 1
    OBVIOUS
  <2>. QED  BY <2>1 DEF Fences
<1>3. 1 .. (k + 1) - 1 = (1 .. k - 1) \cup {k}
  OBVIOUS
<1>4. Fences(p, k + 1) = IF edge THEN S \cup {k} ELSE S
  BY <1>3 DEF Fences
<1>5. CASE edge
  <2>1. Cardinality(S \cup {k}) = m + 1
    BY <1>1, <1>2, FS_AddElement
  <2>2. Cardinality(Fences(p, k + 1)) = m + 1
    BY <1>4, <1>5, <2>1
  <2>. HIDE DEF m
  <2>3. (m + 1) % 2 = 1 <=> ~ (m % 2 = 1)
    BY <1>1
  <2>. QED  BY <1>5, <2>2, <2>3, Zenon DEF Fenced, m, Toggled
<1>6. CASE ~ edge
  BY <1>4, <1>6, Zenon DEF Fenced, Toggled
<1>. QED  BY <1>5, <1>6

LEMMA FencedBoolean == ASSUME NEW p, NEW k PROVE Fenced(p, k) \in BOOLEAN
BY Zenon DEF Fenced

(* The lines p of a text and q of its output, all but the last complete. *)
ShownSoFar(p, q) ==
  /\ Len(q) = Len(p)
  /\ \A k \in 1 .. Len(p) - 1 : LineShown(p[k], Fenced(p, k), q[k])

LEMMA ExtendedRaw ==
  ASSUME NEW v \in LineSeq(Raw), NEW x \in Seq(Glyphs)
  PROVE  Extended(v, x)[Len(v)] = v[Len(v)] \o x
<1>1. \A y \in Seq(Raw \ {"\n"}) : Extended(v, y)[Len(v)] = v[Len(v)] \o y
  BY ExtendedIs
<1>2. x \in Seq(Raw \ {"\n"})
  BY RawGlyphs
<1>. QED  BY <1>1, <1>2, Zenon

LEMMA LastLineGrows ==
  ASSUME NEW p \in LineSeq(Char), NEW q \in LineSeq(Raw), ShownSoFar(p, q),
         NEW x \in Seq(Letters), NEW y \in Seq(Glyphs)
  PROVE  /\ ShownSoFar(Extended(p, x), Extended(q, y))
         /\ Fenced(Extended(p, x), Len(p)) = Fenced(p, Len(p))
<1>. DEFINE n == Len(p)  a == Extended(p, x)  b == Extended(q, y)
<1>1. Len(a) = n /\ n \in Nat /\ n >= 1 /\ \A k \in 1 .. n - 1 : a[k] = p[k]
  BY ExtendedIs DEF Letters
<1>2. Len(b) = Len(q) /\ \A k \in 1 .. Len(q) - 1 : b[k] = q[k]
  BY ExtendedIs, RawGlyphs
<1>3. Len(q) = n /\ \A k \in 1 .. n - 1 : LineShown(p[k], Fenced(p, k), q[k])
  BY DEF ShownSoFar
<1>. HIDE DEF n, a, b
<1>4. ASSUME NEW k \in 1 .. n PROVE Fenced(a, k) = Fenced(p, k)
  <2>1. k \in Nat /\ \A j \in 1 .. k - 1 : a[j] = p[j]
    BY <1>1
  <2>. QED  BY <2>1, FencesAgree
<1>5. n \in 1 .. n /\ \A k \in 1 .. n - 1 : k \in 1 .. n
  BY <1>1
<1>6. \A k \in 1 .. n - 1 : LineShown(a[k], Fenced(a, k), b[k])
  BY <1>1, <1>2, <1>3, <1>4, <1>5
<1>. QED  BY <1>1, <1>2, <1>3, <1>4, <1>5, <1>6 DEF ShownSoFar, n, a, b

LEMMA LineEnds ==
  ASSUME NEW p \in LineSeq(Char), NEW q \in LineSeq(Raw), ShownSoFar(p, q),
         LineShown(p[Len(p)], Fenced(p, Len(p)), q[Len(p)])
  PROVE  /\ ShownSoFar(Append(p, <<>>), Append(q, <<>>))
         /\ Fenced(Append(p, <<>>), Len(p) + 1)
              = IF ~ Long(p[Len(p)]) THEN Toggled(Fenced(p, Len(p)), p[Len(p)]) ELSE Fenced(p, Len(p))
<1>. DEFINE n == Len(p)  a == Append(p, <<>>)  b == Append(q, <<>>)
<1>1. p \in Seq(Seq(Letters)) /\ q \in Seq(Seq(Glyphs)) /\ n >= 1 /\ n \in Nat
  BY RawGlyphs DEF LineSeq, Letters
<1>2. <<>> \in Seq(Letters) /\ <<>> \in Seq(Glyphs)
  OBVIOUS
<1>3. Len(q) = n /\ \A k \in 1 .. n - 1 : LineShown(p[k], Fenced(p, k), q[k])
  BY DEF ShownSoFar
<1>4. Len(a) = n + 1 /\ \A k \in 1 .. n : a[k] = p[k]
  BY <1>1, <1>2, SeqAppend
<1>5. Len(b) = n + 1 /\ \A k \in 1 .. n : b[k] = q[k]
  BY <1>1, <1>2, <1>3, SeqAppend
<1>6. LineShown(p[n], Fenced(p, n), q[n])
  OBVIOUS
<1>. HIDE DEF n, a, b
<1>7. ASSUME NEW k \in 1 .. n + 1 PROVE Fenced(a, k) = Fenced(p, k)
  <2>1. k \in Nat /\ \A j \in 1 .. k - 1 : a[j] = p[j]
    BY <1>1, <1>4
  <2>. QED  BY <2>1, FencesAgree
<1>8. /\ n + 1 \in 1 .. n + 1 /\ n \in 1 .. n
      /\ \A k \in 1 .. (n + 1) - 1 : k \in 1 .. n + 1 /\ k \in 1 .. n /\ (k = n \/ k \in 1 .. n - 1)
  BY <1>1
<1>9. \A k \in 1 .. (n + 1) - 1 : LineShown(a[k], Fenced(a, k), b[k])
  BY <1>3, <1>4, <1>5, <1>6, <1>7, <1>8
<1>10. Fenced(a, n + 1)
         = IF ~ Long(p[n]) THEN Toggled(Fenced(p, n), p[n]) ELSE Fenced(p, n)
  <2>1. Fenced(a, n + 1) = Fenced(p, n + 1)
    BY <1>7, <1>8
  <2>2. Fenced(p, n + 1) = IF ~ Long(p[n]) THEN Toggled(Fenced(p, n), p[n]) ELSE Fenced(p, n)
    BY <1>1, FencesNext
  <2>. QED  BY <2>1, <2>2
<1>. QED  BY <1>4, <1>5, <1>9, <1>10 DEF ShownSoFar, n, a, b

---------------------------------------------------------------------------
(* The renderer against the lines of what it was fed. *)
LEMMA ExtendedEmpty ==
  ASSUME NEW X, NEW v \in LineSeq(X)
  PROVE  Extended(v, <<>>) = v
<1>. DEFINE n == Len(v)
<1>1. v \in Seq(Seq(X \ {"\n"})) /\ n \in 1 .. n /\ v[n] \in Seq(X \ {"\n"})
  <2>1. v \in Seq(Seq(X \ {"\n"})) /\ n \in Nat /\ n >= 1
    BY DEF LineSeq
  <2>2. n \in 1 .. n
    BY <2>1
  <2>. QED  BY <2>1, <2>2
<1>2. v[n] \o <<>> = v[n]
  BY <1>1, ConcatEmpty
<1>3. Extended(v, <<>>) = [v EXCEPT ![n] = v[n]]
  BY <1>2 DEF Extended
<1>4. [v EXCEPT ![n] = v[n]] = v
  BY <1>1
<1>. QED  BY <1>3, <1>4

LEMMA AppendOne ==
  ASSUME NEW C, NEW s \in Seq(C), NEW c \in C
  PROVE  s \o <<c>> = Append(s, c) /\ <<c>> \in Seq(C)
<1>1. <<>> \in Seq(C) /\ <<c>> = Append(<<>>, c) /\ <<c>> \in Seq(C)
  OBVIOUS
<1>2. s \o Append(<<>>, c) = Append(s \o <<>>, c)
  BY <1>1, ConcatAppend
<1>. QED  BY <1>1, <1>2, ConcatEmpty

LEMMA LongGrows ==
  ASSUME NEW C, NEW s \in Seq(C), NEW c \in C, Long(s)
  PROVE  Long(Append(s, c))
<1>1. Len(Append(s, c)) = Len(s) + 1 /\ Len(s) \in Nat
  OBVIOUS
<1>2. RenderLineMax \in Nat
  BY TerminalAssumption
<1>. QED  BY <1>1, <1>2 DEF Long

FedWell(t, r) ==
  LET p == LinesOf(t)  q == LinesOf(r.out)  n == Len(p) IN
  /\ r \in RState
  /\ ShownSoFar(p, q)
  /\ r.in_fence = Fenced(p, n)
  /\ r.line_overflowed => r.line = <<>> /\ Long(p[n]) /\ q[n] = p[n] /\ ~ r.ended_newline
  /\ ~ r.line_overflowed => r.line = p[n] /\ q[n] = <<>> /\ r.ended_newline
  /\ Bytes(r.out) + 11 * Len(r.line) <= 11 * Len(t)

LEMMA FedLines ==
  ASSUME NEW t \in Seq(Char), NEW r, FedWell(t, r)
  PROVE  /\ LinesOf(t) \in LineSeq(Char) /\ LinesOf(r.out) \in LineSeq(Raw)
         /\ Len(LinesOf(t)) \in Nat /\ Len(LinesOf(t)) >= 1
         /\ Len(LinesOf(r.out)) = Len(LinesOf(t))
         /\ LinesOf(t)[Len(LinesOf(t))] \in Seq(Letters)
         /\ LinesOf(r.out)[Len(LinesOf(t))] \in Seq(Glyphs)
         /\ r.line \in Seq(Letters) /\ r.out \in Seq(Raw) /\ ~ Long(r.line)
<1>1. r.line \in Seq(Letters) /\ r.out \in Seq(Raw) /\ ~ Long(r.line)
  BY RStateFields DEF FedWell
<1>. DEFINE p == LinesOf(t)  q == LinesOf(r.out)
<1>2. p \in LineSeq(Char) /\ q \in LineSeq(Raw)
  BY <1>1, LinesType
<1>3. Len(q) = Len(p)
  BY DEF FedWell, ShownSoFar
<1>. HIDE DEF p, q
<1>4. Len(p) \in Nat /\ Len(p) >= 1 /\ p \in Seq(Seq(Letters)) /\ q \in Seq(Seq(Glyphs))
  BY <1>2, RawGlyphs DEF LineSeq, Letters
<1>5. Len(p) \in 1 .. Len(p)
  BY <1>4
<1>6. p[Len(p)] \in Seq(Letters) /\ q[Len(p)] \in Seq(Glyphs)
  BY <1>3, <1>4, <1>5
<1>. QED  BY <1>1, <1>2, <1>3, <1>4, <1>6 DEF p, q

LEMMA InitFed == FedWell(<<>>, RenderInit)
<1>2. /\ RenderInit.line = <<>> /\ RenderInit.in_fence = FALSE /\ RenderInit.line_overflowed = FALSE
      /\ RenderInit.ended_newline = TRUE /\ RenderInit.out = <<>>
  BY DEF RenderInit
<1>. DEFINE p == << <<>> >>
<1>3. LinesOf(<<>>) = p
  BY LinesEmpty
<1>4. Len(p) = 1 /\ p[1] = <<>>
  OBVIOUS
<1>. HIDE DEF p
<1>5. \A k \in 1 .. 1 - 1 : FALSE
  OBVIOUS
<1>6. ShownSoFar(p, p)
  BY <1>4, <1>5 DEF ShownSoFar
<1>7. Fenced(p, 1) = FALSE
  <2>1. Fences(p, 1) = {}
    BY <1>5 DEF Fences
  <2>2. Cardinality(Fences(p, 1)) = 0
    BY <2>1, FS_EmptySet
  <2>3. ~ (0 % 2 = 1)
    OBVIOUS
  <2>. QED  BY <2>2, <2>3, Zenon DEF Fenced
<1>8. Bytes(<<>>) + 11 * Len(<<>>) <= 11 * Len(<<>>)
  <2>1. Bytes(<<>>) = 0 /\ Len(<<>>) = 0
    BY BytesEmpty
  <2>. QED  BY <2>1
<1>. QED  BY <1>2, <1>3, <1>4, <1>6, <1>7, <1>8, InitR, Zenon DEF FedWell
(* What a character makes of the lines, and of the bytes. *)
IsNewline(c) == c = "\n"

LEMMA FedNewlineStyled ==
  ASSUME NEW t \in Seq(Char), NEW r, FedWell(t, r), NEW c \in Char, IsNewline(c),
         ~ r.line_overflowed, NEW z \in RState,
         Has(z, <<>>, Toggled(r.in_fence, r.line), FALSE, TRUE,
             Append(r.out \o StyleLine(r.in_fence, r.line), c))
  PROVE  FedWell(Append(t, c), z)
<1>. DEFINE p == LinesOf(t)  q == LinesOf(r.out)  n == Len(p)  l == r.line
            x == StyleLine(r.in_fence, r.line)
            b == Extended(q, x)
<1>1. /\ z.line = <<>> /\ z.in_fence = Toggled(r.in_fence, l) /\ z.line_overflowed = FALSE
      /\ z.ended_newline = TRUE /\ z.out = Append(r.out \o x, c)
  BY Zenon DEF Has
<1>2. /\ p \in LineSeq(Char) /\ q \in LineSeq(Raw) /\ n \in Nat /\ n >= 1 /\ Len(q) = n
      /\ l \in Seq(Letters) /\ r.out \in Seq(Raw) /\ ~ Long(l)
  BY FedLines
<1>3. /\ ShownSoFar(p, q) /\ r.in_fence = Fenced(p, n)
      /\ l = p[n] /\ q[n] = <<>>
      /\ Bytes(r.out) + 11 * Len(l) <= 11 * Len(t)
  BY DEF FedWell
<1>4. Styles(Fenced(p, n), l, x)
  BY <1>2, <1>3, StyleShows, FencedBoolean
<1>5. x \in Seq(Glyphs) /\ LineShown(l, Fenced(p, n), x) /\ Bytes(x) <= 11 * Len(l) + 10
  BY <1>4 DEF Styles
<1>6. /\ r.out \o x \in Seq(Raw) /\ c \in Raw
      /\ Bytes(r.out \o x) = Bytes(r.out) + Bytes(x)
      /\ Bytes(r.out) \in Nat /\ Bytes(x) \in Nat /\ x \in Seq(Raw)
  <2>1. x \in Seq(Raw) /\ c \in Raw
    BY <1>5, RawGlyphs
  <2>. HIDE DEF x
  <2>. QED  BY <1>2, <2>1, SeqConcat, BytesConcat, BytesType
<1>7. LinesOf(r.out \o x) = b
  BY <1>2, <1>5, RawGlyphs, LinesExtend
<1>8. LinesOf(Append(t, c)) = Append(p, <<>>) /\ LinesOf(z.out) = Append(b, <<>>)
  <2>1. LinesOf(Append(t, c)) = Append(p, <<>>)
    BY LinesAppend DEF Grown, IsNewline
  <2>. DEFINE y == r.out \o x
  <2>2. y \in Seq(Raw) /\ LinesOf(y) = b /\ z.out = Append(y, c)
    BY <1>1, <1>6, <1>7
  <2>. HIDE DEF y
  <2>3. LinesOf(Append(y, c)) = Grown(LinesOf(y), c)
    BY <1>6, <2>2, LinesAppend
  <2>. QED  BY <2>1, <2>2, <2>3 DEF Grown, IsNewline
<1>9. Bytes(z.out) + 11 * Len(z.line) <= 11 * Len(Append(t, c))
  <2>. DEFINE y == r.out \o x
  <2>1. y \in Seq(Raw) /\ z.out = Append(y, c)
    BY <1>1, <1>6
  <2>2. Bytes(y) = Bytes(r.out) + Bytes(x)
    BY <1>6
  <2>. HIDE DEF y
  <2>3. Bytes(Append(y, c)) = Bytes(y) + Width(c)
    BY <1>6, <2>1, BytesAppend
  <2>4. c \notin Codes
    BY LettersAreGlyphs
  <2>5. Width(c) = 1
    BY <2>4, WidthRange
  <2>6. Len(Append(t, c)) = Len(t) + 1 /\ Len(t) \in Nat
    BY SeqAppend
  <2>7. Len(l) \in Nat /\ Len(z.line) = 0
    <3>1. l \in Seq(Letters) /\ z.line = <<>>
      BY <1>1, <1>2
    <3>. HIDE DEF l
    <3>. QED  BY <3>1
  <2>. DEFINE N == Len(t)  L == Len(l)  B == Bytes(r.out)  Z == Bytes(z.out)
  <2>8. Z = B + Bytes(x) + 1
    BY <2>1, <2>2, <2>3, <2>5
  <2>9. N \in Nat /\ L \in Nat /\ B \in Nat /\ Bytes(x) \in Nat /\ B + 11 * L <= 11 * N
        /\ Bytes(x) <= 11 * L + 10
    BY <1>3, <1>5, <1>6, <2>6, <2>7
  <2>. HIDE DEF x, l, N, L, B, Z
  <2>10. Z + 11 * 0 <= 11 * (N + 1)
    BY <2>8, <2>9
  <2>. QED  BY <2>6, <2>7, <2>10 DEF N, Z
<1>. HIDE DEF x
<1>10. b \in LineSeq(Raw) /\ Len(b) = n /\ b[n] = x
  <2>1. b \in LineSeq(Raw) /\ Len(b) = Len(q) /\ b[Len(q)] = q[Len(q)] \o x
    <3>1. x \in Seq(Raw \ {"\n"})
      BY <1>5, RawGlyphs
    <3>. HIDE DEF q
    <3>. QED  BY <1>2, <3>1, ExtendedIs
  <2>2. <<>> \o x = x
    BY <1>5, ConcatEmpty
  <2>. QED  BY <1>2, <1>3, <2>1, <2>2
<1>. HIDE DEF p, q
<1>11. ShownSoFar(p, b)
  <2>1. <<>> \in Seq(Letters)
    OBVIOUS
  <2>2. Extended(p, <<>>) = p
    BY <1>2, ExtendedEmpty
  <2>3. ShownSoFar(Extended(p, <<>>), b)
    BY <1>2, <1>3, <1>5, <2>1, LastLineGrows
  <2>. QED  BY <2>2, <2>3
<1>. HIDE DEF b, n
<1>12. ShownSoFar(Append(p, <<>>), Append(b, <<>>))
      /\ Fenced(Append(p, <<>>), n + 1) = Toggled(Fenced(p, n), p[n])
  BY <1>2, <1>3, <1>5, <1>10, <1>11, LineEnds DEF n
<1>13. Len(Append(p, <<>>)) = n + 1 /\ Append(p, <<>>)[n + 1] = <<>> /\ Append(b, <<>>)[n + 1] = <<>>
  <2>1. p \in Seq(Seq(Letters)) /\ b \in Seq(Seq(Glyphs)) /\ <<>> \in Seq(Letters) /\ <<>> \in Seq(Glyphs)
    BY <1>2, <1>10, RawGlyphs DEF LineSeq, Letters
  <2>. QED  BY <1>10, <2>1, SeqAppend DEF n
<1>. QED  BY <1>1, <1>3, <1>8, <1>9, <1>12, <1>13, Zenon DEF FedWell

LEMMA FedNewlineRaw ==
  ASSUME NEW t \in Seq(Char), NEW r, FedWell(t, r), NEW c \in Char, IsNewline(c),
         r.line_overflowed, NEW z \in RState,
         Has(z, r.line, r.in_fence, FALSE, TRUE, Append(r.out, c))
  PROVE  FedWell(Append(t, c), z)
<1>. DEFINE p == LinesOf(t)  q == LinesOf(r.out)  n == Len(p)
<1>1. /\ z.line = r.line /\ z.in_fence = r.in_fence /\ z.line_overflowed = FALSE
      /\ z.ended_newline = TRUE /\ z.out = Append(r.out, c)
  BY Zenon DEF Has
<1>2. /\ p \in LineSeq(Char) /\ q \in LineSeq(Raw) /\ n \in Nat /\ n >= 1 /\ Len(q) = n
      /\ r.out \in Seq(Raw) /\ p[n] \in Seq(Letters)
  BY FedLines
<1>3. /\ ShownSoFar(p, q) /\ r.in_fence = Fenced(p, n)
      /\ r.line = <<>> /\ Long(p[n]) /\ q[n] = p[n]
      /\ Bytes(r.out) + 11 * Len(r.line) <= 11 * Len(t)
  BY DEF FedWell
<1>4. c \in Raw
  BY RawGlyphs
<1>5. LinesOf(Append(t, c)) = Append(p, <<>>) /\ LinesOf(z.out) = Append(q, <<>>)
  <2>1. LinesOf(Append(t, c)) = Grown(p, c) /\ LinesOf(z.out) = Grown(q, c)
    BY <1>1, <1>2, <1>4, LinesAppend
  <2>. QED  BY <2>1 DEF Grown, IsNewline
<1>6. Bytes(z.out) + 11 * Len(z.line) <= 11 * Len(Append(t, c))
  <2>1. Bytes(Append(r.out, c)) = Bytes(r.out) + Width(c) /\ Bytes(r.out) \in Nat
    BY <1>2, <1>4, BytesAppend, BytesType
  <2>2. c \notin Codes
    BY LettersAreGlyphs
  <2>3. Width(c) = 1
    BY <2>2, WidthRange
  <2>4. Len(Append(t, c)) = Len(t) + 1 /\ Len(t) \in Nat
    BY SeqAppend
  <2>5. Len(<<>>) = 0
    OBVIOUS
  <2>. DEFINE N == Len(t)  B == Bytes(r.out)  Z == Bytes(z.out)
  <2>6. Z = B + 1 /\ N \in Nat /\ B \in Nat /\ B + 11 * 0 <= 11 * N
    BY <1>1, <1>3, <2>1, <2>3, <2>4, <2>5
  <2>. HIDE DEF N, B, Z
  <2>7. Z + 11 * 0 <= 11 * (N + 1)
    BY <2>6
  <2>. QED  BY <1>1, <1>3, <2>4, <2>5, <2>7 DEF N, Z
<1>. HIDE DEF p, q
<1>7. LineShown(p[n], Fenced(p, n), q[n])
  BY <1>2, <1>3, RawShown, FencedBoolean
<1>. HIDE DEF n
<1>8. ShownSoFar(Append(p, <<>>), Append(q, <<>>))
      /\ Fenced(Append(p, <<>>), n + 1) = Fenced(p, n)
  BY <1>2, <1>3, <1>7, LineEnds DEF n
<1>9. Len(Append(p, <<>>)) = n + 1 /\ Append(p, <<>>)[n + 1] = <<>> /\ Append(q, <<>>)[n + 1] = <<>>
  <2>1. p \in Seq(Seq(Letters)) /\ q \in Seq(Seq(Glyphs)) /\ <<>> \in Seq(Letters) /\ <<>> \in Seq(Glyphs)
    BY <1>2, RawGlyphs DEF LineSeq, Letters
  <2>. QED  BY <1>2, <2>1, SeqAppend DEF n
<1>. QED  BY <1>1, <1>3, <1>5, <1>6, <1>8, <1>9, Zenon DEF FedWell

(* Another character of the line that is being collected: b are the lines  *)
(* of the output, with y for it.                                           *)
Grows(t, c, out, b, y) ==
  LET p == LinesOf(t)  q == LinesOf(out)  n == Len(p)  a == LinesOf(Append(t, c)) IN
  /\ Len(a) = n /\ ShownSoFar(a, b) /\ Fenced(a, n) = Fenced(p, n)
  /\ a[n] = Append(p[n], c) /\ b[n] = q[n] \o y
  /\ c \in Letters

LEMMA FedGrow ==
  ASSUME NEW t \in Seq(Char), NEW r, FedWell(t, r), NEW c \in Char, ~ IsNewline(c),
         NEW y \in Seq(Glyphs), NEW b, b = Extended(LinesOf(r.out), y)
  PROVE  Grows(t, c, r.out, b, y)
<1>. DEFINE p == LinesOf(t)  q == LinesOf(r.out)  x == <<c>>  n == Len(p)
            a == LinesOf(Append(t, c))
<1>1. /\ p \in LineSeq(Char) /\ q \in LineSeq(Raw) /\ n \in Nat /\ n >= 1 /\ Len(q) = n
      /\ p[n] \in Seq(Letters)
  BY FedLines
<1>2. ShownSoFar(p, q)
  BY DEF FedWell
<1>3. c \in Letters
  BY DEF Letters, IsNewline
<1>4. p[n] \o x = Append(p[n], c) /\ x \in Seq(Letters)
  BY <1>1, <1>3, AppendOne
<1>5. a = Grown(p, c)
  BY LinesAppend
<1>6. a = Extended(p, x)
  BY <1>1, <1>5, GrownIs DEF IsNewline
<1>. HIDE DEF p, q, x, n, a
<1>7. ShownSoFar(a, b) /\ Fenced(a, n) = Fenced(p, n)
  BY <1>1, <1>2, <1>4, <1>6, LastLineGrows DEF p, q, n
<1>8. Len(a) = n /\ a[n] = p[n] \o x
  <2>1. x \in Seq(Char \ {"\n"})
    BY <1>4 DEF Letters
  <2>2. Len(Extended(p, x)) = Len(p) /\ Extended(p, x)[Len(p)] = p[Len(p)] \o x
    BY <1>1, <2>1, ExtendedIs
  <2>3. n = Len(p)
    BY DEF n
  <2>. QED  BY <1>6, <2>2, <2>3, Zenon
<1>9. b[n] = q[n] \o y
  <2>1. Extended(q, y)[Len(q)] = q[Len(q)] \o y
    BY <1>1, ExtendedRaw
  <2>2. b = Extended(q, y)
    BY DEF q
  <2>. QED  BY <1>1, <2>1, <2>2, Zenon
<1>. QED  BY <1>3, <1>4, <1>7, <1>8, <1>9, Zenon DEF p, q, n, a, Grows

LEMMA FedRaw ==
  ASSUME NEW t \in Seq(Char), NEW r, FedWell(t, r), NEW c \in Char, ~ IsNewline(c),
         r.line_overflowed, NEW z \in RState,
         Has(z, r.line, r.in_fence, r.line_overflowed, FALSE, Append(r.out, c))
  PROVE  FedWell(Append(t, c), z)
<1>. DEFINE p == LinesOf(t)  q == LinesOf(r.out)  n == Len(p)
            a == LinesOf(Append(t, c))  b == LinesOf(z.out)
<1>1. /\ z.line = r.line /\ z.in_fence = r.in_fence /\ z.line_overflowed = r.line_overflowed
      /\ z.ended_newline = FALSE /\ z.out = Append(r.out, c)
  BY Zenon DEF Has
<1>2. /\ q \in LineSeq(Raw) /\ r.out \in Seq(Raw) /\ p[n] \in Seq(Letters)
  BY FedLines
<1>3. /\ r.in_fence = Fenced(p, n)
      /\ r.line = <<>> /\ Long(p[n]) /\ q[n] = p[n]
      /\ Bytes(r.out) + 11 * Len(r.line) <= 11 * Len(t)
  BY DEF FedWell
<1>4. c \in Raw /\ c \in Letters /\ c \in Glyphs
  BY RawGlyphs DEF Letters, IsNewline
<1>5. b = Extended(q, <<c>>) /\ <<c>> \in Seq(Glyphs)
  <2>1. b = Grown(q, c)
    BY <1>1, <1>2, <1>4, LinesAppend
  <2>. HIDE DEF b
  <2>. QED  BY <1>2, <1>4, <2>1, GrownIs DEF IsNewline
<1>6. /\ Len(a) = n /\ ShownSoFar(a, b) /\ Fenced(a, n) = Fenced(p, n)
      /\ a[n] = Append(p[n], c) /\ b[n] = q[n] \o <<c>>
  <2>. DEFINE y == <<c>>
  <2>1. y \in Seq(Glyphs) /\ b = Extended(q, y)
    BY <1>5
  <2>. HIDE DEF y, b
  <2>2. Grows(t, c, r.out, b, y)
    BY <2>1, FedGrow
  <2>. QED  BY <2>2, Zenon DEF y, Grows
<1>7. b[n] = a[n] /\ Long(a[n])
  BY <1>2, <1>3, <1>4, <1>6, AppendOne, LongGrows
<1>8. Bytes(z.out) + 11 * Len(z.line) <= 11 * Len(Append(t, c))
  <2>1. Bytes(Append(r.out, c)) = Bytes(r.out) + Width(c) /\ Bytes(r.out) \in Nat
    BY <1>2, <1>4, BytesAppend, BytesType
  <2>2. c \notin Codes
    BY LettersAreGlyphs
  <2>3. Width(c) = 1
    BY <2>2, WidthRange
  <2>4. Len(Append(t, c)) = Len(t) + 1 /\ Len(t) \in Nat
    BY SeqAppend
  <2>5. Len(<<>>) = 0
    OBVIOUS
  <2>. DEFINE N == Len(t)  B == Bytes(r.out)  Z == Bytes(z.out)
  <2>6. Z = B + 1 /\ N \in Nat /\ B \in Nat /\ B + 11 * 0 <= 11 * N
    BY <1>1, <1>3, <2>1, <2>3, <2>4, <2>5
  <2>. HIDE DEF N, B, Z
  <2>7. Z + 11 * 0 <= 11 * (N + 1)
    BY <2>6
  <2>. QED  BY <1>1, <1>3, <2>4, <2>5, <2>7 DEF N, Z
<1>. QED  BY <1>1, <1>3, <1>6, <1>7, <1>8, Zenon DEF FedWell

LEMMA FedCollected ==
  ASSUME NEW t \in Seq(Char), NEW r, FedWell(t, r), NEW c \in Char, ~ IsNewline(c),
         ~ r.line_overflowed, NEW z \in RState,
         Has(z, Append(r.line, c), r.in_fence, r.line_overflowed, r.ended_newline, r.out)
  PROVE  FedWell(Append(t, c), z)
<1>. DEFINE p == LinesOf(t)  q == LinesOf(r.out)  n == Len(p)
            a == LinesOf(Append(t, c))
<1>1. /\ z.line = Append(r.line, c) /\ z.in_fence = r.in_fence /\ z.line_overflowed = r.line_overflowed
      /\ z.ended_newline = r.ended_newline /\ z.out = r.out
  BY Zenon DEF Has
<1>2. /\ q \in LineSeq(Raw) /\ r.out \in Seq(Raw) /\ r.line \in Seq(Letters)
  BY FedLines
<1>3. /\ r.in_fence = Fenced(p, n)
      /\ r.line = p[n] /\ q[n] = <<>> /\ r.ended_newline
      /\ Bytes(r.out) + 11 * Len(r.line) <= 11 * Len(t)
  BY DEF FedWell
<1>4. <<>> \in Seq(Glyphs) /\ q = Extended(q, <<>>) /\ <<>> \o <<>> = <<>>
  <2>1. <<>> \in Seq(Glyphs)
    OBVIOUS
  <2>. HIDE DEF q
  <2>. QED  BY <1>2, <2>1, ExtendedEmpty, ConcatEmpty
<1>5. /\ Len(a) = n /\ ShownSoFar(a, q) /\ Fenced(a, n) = Fenced(p, n)
      /\ a[n] = Append(p[n], c) /\ q[n] = q[n] \o <<>> /\ c \in Letters
  <2>1. Grows(t, c, r.out, q, <<>>)
    BY <1>4, FedGrow
  <2>. QED  BY <2>1, Zenon DEF Grows
<1>6. Bytes(z.out) + 11 * Len(z.line) <= 11 * Len(Append(t, c))
  <2>1. Len(z.line) = Len(r.line) + 1 /\ Len(r.line) \in Nat
    BY <1>1, <1>2, <1>5, SeqAppend
  <2>2. Len(Append(t, c)) = Len(t) + 1 /\ Len(t) \in Nat
    BY SeqAppend
  <2>3. Bytes(r.out) \in Nat
    BY <1>2, BytesType
  <2>. DEFINE N == Len(t)  B == Bytes(r.out)  L == Len(r.line)
  <2>4. B \in Nat /\ N \in Nat /\ L \in Nat /\ B + 11 * L <= 11 * N
    BY <1>3, <2>1, <2>2, <2>3
  <2>. HIDE DEF N, B, L
  <2>5. B + 11 * (L + 1) <= 11 * (N + 1)
    BY <2>4
  <2>. QED  BY <1>1, <2>1, <2>2, <2>5 DEF N, B, L
<1>. QED  BY <1>1, <1>3, <1>5, <1>6, Zenon DEF FedWell

LEMMA FedOverflows ==
  ASSUME NEW t \in Seq(Char), NEW r, FedWell(t, r), NEW c \in Char, ~ IsNewline(c),
         ~ r.line_overflowed, Long(Append(r.line, c)), NEW z \in RState,
         Has(z, <<>>, r.in_fence, TRUE, FALSE, Append(r.out \o r.line, c))
  PROVE  FedWell(Append(t, c), z)
<1>. DEFINE p == LinesOf(t)  q == LinesOf(r.out)  n == Len(p)  l == r.line  y == Append(l, c)
            a == LinesOf(Append(t, c))  b == LinesOf(z.out)
<1>1. /\ z.line = <<>> /\ z.in_fence = r.in_fence /\ z.line_overflowed = TRUE
      /\ z.ended_newline = FALSE /\ z.out = Append(r.out \o l, c)
  BY Zenon DEF Has
<1>2. /\ q \in LineSeq(Raw) /\ r.out \in Seq(Raw) /\ l \in Seq(Letters)
  BY FedLines
<1>3. /\ r.in_fence = Fenced(p, n)
      /\ l = p[n] /\ q[n] = <<>>
      /\ Bytes(r.out) + 11 * Len(l) <= 11 * Len(t)
  BY DEF FedWell
<1>4. c \in Letters /\ c \in Raw
  BY RawGlyphs DEF Letters, IsNewline
<1>5. y \in Seq(Letters) /\ Len(y) = Len(l) + 1 /\ Len(l) \in Nat
  BY <1>2, <1>4, SeqAppend
<1>6. z.out = r.out \o y
  <2>1. l \in Seq(Raw)
    BY <1>2, RawGlyphs
  <2>. DEFINE o == r.out
  <2>2. o \in Seq(Raw)
    BY <1>2
  <2>. HIDE DEF l, o
  <2>3. o \o Append(l, c) = Append(o \o l, c)
    BY <1>4, <2>1, <2>2, ConcatAppend
  <2>. QED  BY <1>1, <2>3 DEF o
<1>7. Long(y)
  OBVIOUS
<1>. HIDE DEF y
<1>8. y \in Seq(Glyphs) /\ y \in Seq(Raw)
  BY <1>5, RawGlyphs
<1>9. b = Extended(q, y)
  BY <1>2, <1>6, <1>8, RawGlyphs, LinesExtend
<1>. HIDE DEF b
<1>10. /\ Len(a) = n /\ ShownSoFar(a, b) /\ Fenced(a, n) = Fenced(p, n)
       /\ a[n] = Append(p[n], c) /\ b[n] = q[n] \o y
  <2>1. Grows(t, c, r.out, b, y)
    BY <1>8, <1>9, FedGrow
  <2>. QED  BY <2>1, Zenon DEF Grows
<1>11. b[n] = a[n] /\ Long(a[n])
  <2>1. <<>> \o y = y
    BY <1>8, ConcatEmpty
  <2>2. b[n] = y /\ a[n] = y
    BY <1>3, <1>10, <2>1 DEF y
  <2>. QED  BY <1>7, <2>2
<1>12. Bytes(z.out) + 11 * Len(z.line) <= 11 * Len(Append(t, c))
  <2>1. Bytes(z.out) = Bytes(r.out) + Bytes(y) /\ Bytes(r.out) \in Nat
    BY <1>2, <1>6, <1>8, BytesConcat, BytesType
  <2>2. Bytes(y) = Len(y)
    BY <1>5, LettersAreGlyphs, BytesPlain
  <2>3. Len(Append(t, c)) = Len(t) + 1 /\ Len(t) \in Nat
    BY SeqAppend
  <2>4. Len(<<>>) = 0
    OBVIOUS
  <2>. DEFINE N == Len(t)  B == Bytes(r.out)  Z == Bytes(z.out)  L == Len(l)
  <2>5. Z = B + L + 1 /\ N \in Nat /\ B \in Nat /\ L \in Nat /\ B + 11 * L <= 11 * N
    BY <1>3, <1>5, <2>1, <2>2, <2>3
  <2>. HIDE DEF N, B, Z, L
  <2>6. Z + 11 * 0 <= 11 * (N + 1)
    BY <2>5
  <2>. QED  BY <1>1, <2>3, <2>4, <2>6 DEF N, Z
<1>. QED  BY <1>1, <1>3, <1>10, <1>11, <1>12, Zenon DEF FedWell, b

LEMMA FedStep ==
  ASSUME NEW t \in Seq(Char), NEW r, FedWell(t, r), NEW c \in Char
  PROVE  FedWell(Append(t, c), RenderChar(r, c))
<1>. DEFINE z == RenderChar(r, c)
<1>1. r \in RState
  BY DEF FedWell
<1>2. z \in RState
  BY <1>1, CharType
<1>. DEFINE A == c = "\n" /\ ~ r.line_overflowed
                 /\ z = MakeR(<<>>, Toggled(r.in_fence, r.line), FALSE, TRUE,
                              Append(r.out \o StyleLine(r.in_fence, r.line), c))
            B == c = "\n" /\ r.line_overflowed
                 /\ z = MakeR(r.line, r.in_fence, FALSE, TRUE, Append(r.out, c))
            C == c # "\n" /\ r.line_overflowed
                 /\ z = MakeR(r.line, r.in_fence, r.line_overflowed, FALSE, Append(r.out, c))
            E == c # "\n" /\ ~ r.line_overflowed /\ ~ Long(Append(r.line, c))
                 /\ z = MakeR(Append(r.line, c), r.in_fence, r.line_overflowed, r.ended_newline, r.out)
            F == c # "\n" /\ ~ r.line_overflowed /\ Long(Append(r.line, c))
                 /\ z = MakeR(<<>>, r.in_fence, TRUE, FALSE, Append(r.out \o r.line, c))
<1>3. A \/ B \/ C \/ E \/ F
  BY <1>1, CharCases, Zenon
<1>4. CASE A
  <2>1. Has(z, <<>>, Toggled(r.in_fence, r.line), FALSE, TRUE,
            Append(r.out \o StyleLine(r.in_fence, r.line), c))
    BY <1>4, MadeRHas, Zenon
  <2>2. IsNewline(c) /\ ~ r.line_overflowed
    BY <1>4 DEF IsNewline
  <2>. HIDE DEF z, A
  <2>3. FedWell(Append(t, c), z)
    BY <1>2, <2>1, <2>2, FedNewlineStyled
  <2>. QED  BY <2>3 DEF z
<1>5. CASE B
  <2>1. Has(z, r.line, r.in_fence, FALSE, TRUE, Append(r.out, c))
    BY <1>5, MadeRHas, Zenon
  <2>2. IsNewline(c) /\ r.line_overflowed
    BY <1>5 DEF IsNewline
  <2>. HIDE DEF z, B
  <2>3. FedWell(Append(t, c), z)
    BY <1>2, <2>1, <2>2, FedNewlineRaw
  <2>. QED  BY <2>3 DEF z
<1>6. CASE C
  <2>1. Has(z, r.line, r.in_fence, r.line_overflowed, FALSE, Append(r.out, c))
    BY <1>6, MadeRHas, Zenon
  <2>2. ~ IsNewline(c) /\ r.line_overflowed
    BY <1>6 DEF IsNewline
  <2>. HIDE DEF z, C
  <2>3. FedWell(Append(t, c), z)
    BY <1>2, <2>1, <2>2, FedRaw
  <2>. QED  BY <2>3 DEF z
<1>7. CASE E
  <2>1. Has(z, Append(r.line, c), r.in_fence, r.line_overflowed, r.ended_newline, r.out)
    BY <1>7, MadeRHas, Zenon
  <2>2. ~ IsNewline(c) /\ ~ r.line_overflowed
    BY <1>7 DEF IsNewline
  <2>. HIDE DEF z, E
  <2>3. FedWell(Append(t, c), z)
    BY <1>2, <2>1, <2>2, FedCollected
  <2>. QED  BY <2>3 DEF z
<1>8. CASE F
  <2>1. Has(z, <<>>, r.in_fence, TRUE, FALSE, Append(r.out \o r.line, c))
    BY <1>8, MadeRHas, Zenon
  <2>2. ~ IsNewline(c) /\ ~ r.line_overflowed /\ Long(Append(r.line, c))
    BY <1>8 DEF IsNewline
  <2>. HIDE DEF z, F
  <2>3. FedWell(Append(t, c), z)
    BY <1>2, <2>1, <2>2, FedOverflows
  <2>. QED  BY <2>3 DEF z
<1>. HIDE DEF A, B, C, E, F
<1>. QED  BY <1>3, <1>4, <1>5, <1>6, <1>7, <1>8

LEMMA FedThroughout ==
  ASSUME NEW t \in Seq(Char)
  PROVE  FedWell(t, RenderFeed(RenderInit, t))
<1>. DEFINE D == {u \in Seq(Char) : FedWell(u, RenderFeed(RenderInit, u))}
<1>1. <<>> \in D
  <2>1. <<>> \in Seq(Char)
    OBVIOUS
  <2>2. RenderFeed(RenderInit, <<>>) = RenderInit
    BY <2>1, InitR, FeedType
  <2>. QED  BY <2>1, <2>2, InitFed
<1>2. ASSUME NEW u \in Seq(Char), NEW c \in Char, u \in D PROVE Append(u, c) \in D
  <2>1. RenderFeed(RenderInit, Append(u, c)) = RenderChar(RenderFeed(RenderInit, u), c)
    BY InitR, FeedAppend
  <2>2. FedWell(Append(u, c), RenderChar(RenderFeed(RenderInit, u), c))
    BY <1>2, FedStep
  <2>3. Append(u, c) \in Seq(Char)
    BY SeqAppend
  <2>. QED  BY <2>1, <2>2, <2>3
<1>. HIDE DEF D
<1>3. t \in D
  BY <1>1, <1>2, SeqInduction
<1>. QED  BY <1>3 DEF D

(* render_flush, and what it leaves on the terminal. *)
LEMMA FlushCases ==
  ASSUME NEW r \in RState
  PROVE  LET z == RenderFlush(r) IN
         \/ ~ r.line_overflowed /\ r.line # <<>>
            /\ z.out = r.out \o StyleLine(r.in_fence, r.line) /\ z.ended_newline = FALSE
         \/ (r.line_overflowed \/ r.line = <<>>)
            /\ z.out = r.out /\ z.ended_newline = r.ended_newline
<1>. DEFINE z == RenderFlush(r)
            flushed == ~ r.line_overflowed /\ r.line # <<>>
            s == IF flushed THEN [Styled(r) EXCEPT !.ended_newline = FALSE] ELSE r
<1>1. z = [s EXCEPT !.line = <<>>, !.line_overflowed = FALSE, !.in_fence = FALSE]
  BY DEF RenderFlush
<1>2. r = MakeR(r.line, r.in_fence, r.line_overflowed, r.ended_newline, r.out)
  BY DEF RState, MakeR
<1>3. CASE flushed
  <2>. DEFINE y == Styled(r)  w == r.out \o StyleLine(r.in_fence, r.line)
              g == Toggled(r.in_fence, r.line)
  <2>1. y = [r EXCEPT !.in_fence = g, !.out = w, !.line = <<>>]
    BY DEF Styled, Toggled
  <2>2. s = [y EXCEPT !.ended_newline = FALSE]
    BY <1>3
  <2>. HIDE DEF w, g, y, s, z
  <2>3. y.out = w /\ y = [line |-> y.line, in_fence |-> y.in_fence,
                          line_overflowed |-> y.line_overflowed, ended_newline |-> y.ended_newline,
                          out |-> y.out]
    BY <1>2, <2>1, Zenon DEF MakeR
  <2>4. z.out = w /\ z.ended_newline = FALSE
    BY <1>1, <2>2, <2>3
  <2>. QED  BY <1>3, <2>4 DEF w, z
<1>4. CASE ~ flushed
  <2>1. s = r
    BY <1>4
  <2>. HIDE DEF s, z
  <2>2. z.out = r.out /\ z.ended_newline = r.ended_newline
    BY <1>1, <1>2, <2>1 DEF MakeR
  <2>. QED  BY <1>4, <2>2 DEF z
<1>. QED  BY <1>3, <1>4

(* The last line makes the output the text's. *)
LEMMA ShowsAll ==
  ASSUME NEW t \in Seq(Char), NEW z, z.out \in Seq(Raw),
         NEW p, p = LinesOf(t), NEW b, b = LinesOf(z.out), NEW n, n = Len(p),
         ShownSoFar(p, b), LineShown(p[n], Fenced(p, n), b[n]),
         z.ended_newline <=> b[n] = <<>>, Bytes(z.out) <= 11 * Len(t)
  PROVE  Shows(t, z)
<1>1. p \in LineSeq(Char) /\ Len(b) = n
  BY LinesType DEF ShownSoFar
<1>2. n \in Nat /\ DOMAIN p = 1 .. n /\ \A k \in 1 .. n : k = n \/ k \in 1 .. n - 1
  <2>1. p \in Seq(Seq(Letters)) /\ n \in Nat /\ n >= 1
    BY <1>1 DEF LineSeq, Letters
  <2>2. DOMAIN p = 1 .. n
    BY <2>1
  <2>. QED  BY <2>1, <2>2
<1>3. \A k \in DOMAIN p : LineShown(p[k], Fenced(p, k), b[k])
  BY <1>2 DEF ShownSoFar
<1>4. b[n] = <<>> <=> (z.out = <<>> \/ z.out[Len(z.out)] = "\n")
  <2>. DEFINE o == z.out
  <2>1. LinesOf(o)[Len(LinesOf(o))] = <<>> <=> (o = <<>> \/ o[Len(o)] = "\n")
    BY LinesEnd
  <2>. QED  BY <1>1, <2>1
<1>. QED  BY <1>1, <1>3, <1>4, Zenon DEF Shows

(* render_flush, on a line that is still being collected. *)
LEMMA FlushShows ==
  ASSUME NEW t \in Seq(Char), NEW r, FedWell(t, r), ~ r.line_overflowed, r.line # <<>>,
         NEW z, z.out = r.out \o StyleLine(r.in_fence, r.line), z.ended_newline = FALSE
  PROVE  Shows(t, z)
<1>. DEFINE p == LinesOf(t)  q == LinesOf(r.out)  n == Len(p)  l == r.line
            x == StyleLine(r.in_fence, r.line)
            b == LinesOf(z.out)
<1>1. /\ p \in LineSeq(Char) /\ q \in LineSeq(Raw) /\ n \in Nat /\ n >= 1 /\ Len(q) = n
      /\ l \in Seq(Letters) /\ r.out \in Seq(Raw) /\ ~ Long(l)
  BY FedLines
<1>2. /\ ShownSoFar(p, q) /\ r.in_fence = Fenced(p, n)
      /\ l = p[n] /\ q[n] = <<>>
      /\ Bytes(r.out) + 11 * Len(l) <= 11 * Len(t)
  BY DEF FedWell
<1>3. Styles(Fenced(p, n), l, x)
  BY <1>1, <1>2, StyleShows, FencedBoolean
<1>4. x \in Seq(Glyphs) /\ LineShown(l, Fenced(p, n), x) /\ x # <<>> /\ Bytes(x) <= 11 * Len(l)
  BY <1>3 DEF Styles
<1>5. x \in Seq(Raw)
  BY <1>4, RawGlyphs
<1>6. z.out \in Seq(Raw) /\ Bytes(z.out) <= 11 * Len(t)
  <2>1. z.out \in Seq(Raw) /\ Bytes(z.out) = Bytes(r.out) + Bytes(x)
    <3>. DEFINE y == r.out
    <3>1. y \in Seq(Raw) /\ z.out = y \o x
      BY <1>1
    <3>. HIDE DEF x, y
    <3>2. y \o x \in Seq(Raw) /\ Bytes(y \o x) = Bytes(y) + Bytes(x)
      BY <1>5, <3>1, SeqConcat, BytesConcat
    <3>. QED  BY <3>1, <3>2 DEF y
  <2>2. Bytes(r.out) \in Nat /\ Bytes(x) \in Nat
    BY <1>1, <1>5, BytesType
  <2>3. Len(l) \in Nat /\ Len(t) \in Nat
    <3>1. l \in Seq(Letters)
      BY <1>1
    <3>. HIDE DEF l
    <3>. QED  BY <3>1
  <2>. DEFINE N == Len(t)  L == Len(l)  B == Bytes(r.out)  X == Bytes(x)  Z == Bytes(z.out)
  <2>4. N \in Nat /\ L \in Nat /\ B \in Nat /\ X \in Nat /\ Z = B + X
        /\ X <= 11 * L /\ B + 11 * L <= 11 * N
    BY <1>2, <1>4, <2>1, <2>2, <2>3
  <2>. HIDE DEF N, L, B, X, Z
  <2>5. Z <= 11 * N
    BY <2>4
  <2>. QED  BY <2>1, <2>5 DEF N, Z
<1>7. b = Extended(q, x)
  BY <1>1, <1>4, RawGlyphs, LinesExtend
<1>. HIDE DEF x, b
<1>8. b[n] = x
  <2>1. Extended(q, x)[Len(q)] = q[Len(q)] \o x
    <3>. HIDE DEF q
    <3>. QED  BY <1>1, <1>4, ExtendedRaw
  <2>2. <<>> \o x = x
    BY <1>4, ConcatEmpty
  <2>. QED  BY <1>1, <1>2, <1>7, <2>1, <2>2, Zenon
<1>9. ShownSoFar(p, b)
  <2>. HIDE DEF p, q
  <2>1. <<>> \in Seq(Letters) /\ Extended(p, <<>>) = p
    <3>1. <<>> \in Seq(Letters)
      OBVIOUS
    <3>. QED  BY <1>1, <3>1, ExtendedEmpty
  <2>2. ShownSoFar(Extended(p, <<>>), b)
    BY <1>1, <1>2, <1>4, <1>7, <2>1, LastLineGrows
  <2>. QED  BY <2>1, <2>2
<1>10. z.ended_newline <=> b[n] = <<>>
  BY <1>4, <1>8
<1>11. LineShown(p[n], Fenced(p, n), b[n])
  BY <1>2, <1>4, <1>8, Zenon
<1>. QED  BY <1>6, <1>9, <1>10, <1>11, ShowsAll DEF b

(* render_flush, on a line that is already shown, or on none. *)
LEMMA NothingToFlush ==
  ASSUME NEW t \in Seq(Char), NEW r, FedWell(t, r), r.line_overflowed \/ r.line = <<>>,
         NEW z, z.out = r.out, z.ended_newline = r.ended_newline
  PROVE  Shows(t, z)
<1>. DEFINE p == LinesOf(t)  q == LinesOf(z.out)  n == Len(p)
<1>1. /\ p[n] \in Seq(Letters) /\ z.out \in Seq(Raw) /\ r.line \in Seq(Letters)
  BY FedLines
<1>2. ShownSoFar(p, q) /\ Bytes(r.out) + 11 * Len(r.line) <= 11 * Len(t)
  BY DEF FedWell
<1>3. q[n] = p[n] /\ (z.ended_newline <=> q[n] = <<>>)
  <2>1. CASE r.line_overflowed
    <3>1. Long(p[n]) /\ q[n] = p[n] /\ z.ended_newline = FALSE
      <4>1. Long(p[n]) /\ q[n] = p[n] /\ ~ r.ended_newline /\ r \in RState
        BY <2>1 DEF FedWell
      <4>2. r.ended_newline \in BOOLEAN
        BY <4>1, RStateFields
      <4>. QED  BY <4>1, <4>2
    <3>2. p[n] # <<>>
      BY <3>1, EmptyNotLong
    <3>. QED  BY <3>1, <3>2
  <2>2. CASE ~ r.line_overflowed
    BY <2>2 DEF FedWell
  <2>. QED  BY <2>1, <2>2
<1>4. LineShown(p[n], Fenced(p, n), q[n])
  BY <1>1, <1>3, RawShown, FencedBoolean
<1>5. Bytes(z.out) <= 11 * Len(t)
  <2>1. Bytes(r.out) \in Nat
    BY <1>1, BytesType
  <2>2. Len(r.line) \in Nat /\ Len(t) \in Nat
    <3>. DEFINE l == r.line
    <3>1. l \in Seq(Letters)
      BY <1>1
    <3>. HIDE DEF l
    <3>2. Len(l) \in Nat /\ Len(t) \in Nat
      BY <3>1
    <3>. QED  BY <3>2 DEF l
  <2>. DEFINE N == Len(t)  L == Len(r.line)  B == Bytes(r.out)
  <2>3. N \in Nat /\ L \in Nat /\ B \in Nat /\ B + 11 * L <= 11 * N
    BY <1>2, <2>1, <2>2
  <2>. HIDE DEF N, L, B
  <2>4. B <= 11 * N
    BY <2>3
  <2>. QED  BY <2>4 DEF N, B
<1>. HIDE DEF p, q, n
<1>. QED  BY <1>1, <1>2, <1>3, <1>4, <1>5, ShowsAll DEF p, q, n

LEMMA EveryTextIsShown ==
  ASSUME NEW t \in Seq(Char)
  PROVE  Faithful(t)
<1>. DEFINE r == RenderFeed(RenderInit, t)  z == RenderFlush(r)
<1>1. FedWell(t, r)
  BY FedThroughout
<1>2. r \in RState
  BY <1>1 DEF FedWell
<1>. HIDE DEF r
<1>3. \/ ~ r.line_overflowed /\ r.line # <<>>
         /\ z.out = r.out \o StyleLine(r.in_fence, r.line) /\ z.ended_newline = FALSE
      \/ (r.line_overflowed \/ r.line = <<>>)
         /\ z.out = r.out /\ z.ended_newline = r.ended_newline
  BY <1>2, FlushCases
<1>. HIDE DEF z
<1>4. Shows(t, z)
  BY <1>1, <1>3, FlushShows, NothingToFlush
<1>. QED  BY <1>4 DEF Faithful, r, z

---------------------------------------------------------------------------
(* The pieces of a response. *)
LEMMA FeedTwice ==
  ASSUME NEW r \in RState, NEW s \in Seq(Char), NEW t \in Seq(Char)
  PROVE  RenderFeed(RenderFeed(r, s), t) = RenderFeed(r, s \o t)
<1>. DEFINE q == RenderFeed(r, s)
            D == {u \in Seq(Char) : RenderFeed(q, u) = RenderFeed(r, s \o u)}
<1>1. q \in RState
  BY FeedType
<1>2. <<>> \in D
  <2>1. <<>> \in Seq(Char) /\ s \o <<>> = s
    BY ConcatEmpty
  <2>2. RenderFeed(q, <<>>) = q
    BY <1>1, <2>1, FeedType
  <2>. QED  BY <2>1, <2>2
<1>3. ASSUME NEW u \in Seq(Char), NEW c \in Char, u \in D PROVE Append(u, c) \in D
  <2>1. s \o u \in Seq(Char) /\ s \o Append(u, c) = Append(s \o u, c) /\ Append(u, c) \in Seq(Char)
    BY SeqConcat, SeqAppend, ConcatAppend
  <2>. DEFINE v == s \o u
  <2>. HIDE DEF q
  <2>2. RenderFeed(q, Append(u, c)) = RenderChar(RenderFeed(q, u), c)
    BY <1>1, FeedAppend
  <2>3. RenderFeed(q, u) = RenderFeed(r, v)
    BY <1>3
  <2>. HIDE DEF v
  <2>4. v \in Seq(Char)
    BY <2>1 DEF v
  <2>5. RenderFeed(r, Append(v, c)) = RenderChar(RenderFeed(r, v), c)
    BY <2>4, FeedAppend
  <2>6. RenderFeed(q, Append(u, c)) = RenderFeed(r, s \o Append(u, c))
    BY <2>1, <2>2, <2>3, <2>5 DEF v
  <2>. QED  BY <2>1, <2>6
<1>. HIDE DEF D
<1>4. t \in D
  BY <1>2, <1>3, SeqInduction
<1>. QED  BY <1>4 DEF D

LEMMA PieceText == ASSUME NEW x \in Payload PROVE Piece[x] \in Seq(Char)
BY TerminalAssumption

IsFed(f, s) ==
  f = [i \in 0 .. Len(s) |-> IF i = 0 THEN RenderInit ELSE RenderFeed(f[i - 1], Piece[s[i]])]

LEMMA FedFacts ==
  ASSUME NEW S, S = Payload
  PROVE  /\ Fed(<<>>) = RenderInit
         /\ \A s \in Seq(S) : Fed(s) \in RState
         /\ \A s \in Seq(S), c \in S : Fed(Append(s, c)) = RenderFeed(Fed(s), Piece[c])
<1>. DEFINE V == RState
            step == [vc \in V \X S |-> RenderFeed(vc[1], Piece[vc[2]])]
<1>1. IsStep(step, V, S) /\ RenderInit \in V
  <2>1. \A v \in V, c \in S : RenderFeed(v, Piece[c]) \in V
    BY FeedType, PieceText
  <2>2. \A vc \in V \X S : vc[1] \in V /\ vc[2] \in S
    OBVIOUS
  <2>. HIDE DEF V
  <2>3. \A vc \in V \X S : RenderFeed(vc[1], Piece[vc[2]]) \in V
    BY <2>1, <2>2
  <2>4. RenderInit \in V
    BY InitR DEF V
  <2>. QED  BY <2>3, <2>4 DEF IsStep
<1>2. \A v \in V, c \in S : step[<<v, c>>] = RenderFeed(v, Piece[c])
  OBVIOUS
<1>. HIDE DEF V, step
<1>3. ASSUME NEW s \in Seq(S) PROVE Fed(s) = FoldOf(step, RenderInit, s)
  <2>. DEFINE n == Len(s)
  <2>1. PICK g : /\ g = [i \in 0 .. n |-> g[i]] /\ g[0] = RenderInit
                 /\ \A i \in 1 .. n : g[i - 1] \in V /\ s[i] \in S /\ g[i] = step[<<g[i - 1], s[i]>>]
    BY <1>1, FoldRun
  <2>2. n \in Nat /\ \A i \in 1 .. n : s[i] \in S
    OBVIOUS
  <2>. HIDE DEF n
  <2>3. 0 \in 0 .. n /\ \A i \in 0 .. n : i = 0 \/ i \in 1 .. n
    BY <2>2
  <2>4. \A i \in 0 .. n : g[i] = IF i = 0 THEN RenderInit ELSE RenderFeed(g[i - 1], Piece[s[i]])
    BY <1>2, <2>1, <2>3
  <2>5. IsFed(g, s)
    BY <2>1, <2>4 DEF IsFed, n
  <2>6. PICK f : f = (CHOOSE h : IsFed(h, s)) /\ IsFed(f, s)
    BY <2>5
  <2>7. /\ f = [i \in 0 .. n |-> f[i]]
        /\ \A i \in 0 .. n : f[i] = IF i = 0 THEN RenderInit ELSE RenderFeed(f[i - 1], Piece[s[i]])
    BY <2>6 DEF IsFed, n
  <2>8. \A i \in 1 .. n : i \in 0 .. n /\ i # 0
    BY <2>2
  <2>9. \A i \in 1 .. n : f[i - 1] \in V => f[i] = step[<<f[i - 1], s[i]>>]
    BY <1>2, <2>2, <2>7, <2>8
  <2>10. Follows(f, step, RenderInit, s, V)
    BY <2>3, <2>7, <2>9 DEF Follows, n
  <2>11. FoldOf(step, RenderInit, s) = f[Len(s)]
    BY <1>1, <2>10, FoldIs
  <2>. QED  BY <2>6, <2>11 DEF Fed, IsFed
<1>4. <<>> \in Seq(S) /\ \A s \in Seq(S), c \in S : Append(s, c) \in Seq(S)
  OBVIOUS
<1>5. FoldLaws(step, RenderInit, V, S)
  BY <1>1, FoldValues
<1>6. ASSUME NEW s \in Seq(S), NEW c \in S
      PROVE  Fed(Append(s, c)) = RenderFeed(Fed(s), Piece[c])
  <2>1. Append(s, c) \in Seq(S) /\ FoldOf(step, RenderInit, s) \in V
    BY <1>4, <1>5 DEF FoldLaws
  <2>2. Fed(Append(s, c)) = step[<<FoldOf(step, RenderInit, s), c>>]
    BY <1>3, <1>5, <2>1 DEF FoldLaws
  <2>. QED  BY <1>2, <1>3, <2>1, <2>2
<1>. QED  BY <1>3, <1>4, <1>5, <1>6 DEF V, FoldLaws

IsSpelt(f, s) ==
  f = [i \in 0 .. Len(s) |-> IF i = 0 THEN <<>> ELSE f[i - 1] \o Piece[s[i]]]

LEMMA SpeltFacts ==
  ASSUME NEW S, S = Payload
  PROVE  /\ Spelt(<<>>) = <<>>
         /\ \A s \in Seq(S) : Spelt(s) \in Seq(Char)
         /\ \A s \in Seq(S), c \in S : Spelt(Append(s, c)) = Spelt(s) \o Piece[c]
<1>. DEFINE V == Seq(Char)
            step == [vc \in V \X S |-> vc[1] \o Piece[vc[2]]]
<1>1. IsStep(step, V, S) /\ <<>> \in V
  <2>1. \A v \in V, c \in S : v \o Piece[c] \in V
    BY PieceText, SeqConcat
  <2>2. \A vc \in V \X S : vc[1] \in V /\ vc[2] \in S
    OBVIOUS
  <2>. HIDE DEF V
  <2>3. \A vc \in V \X S : vc[1] \o Piece[vc[2]] \in V
    BY <2>1, <2>2
  <2>4. <<>> \in V
    BY DEF V
  <2>. QED  BY <2>3, <2>4 DEF IsStep
<1>2. \A v \in V, c \in S : step[<<v, c>>] = v \o Piece[c]
  OBVIOUS
<1>. HIDE DEF V, step
<1>3. ASSUME NEW s \in Seq(S) PROVE Spelt(s) = FoldOf(step, <<>>, s)
  <2>. DEFINE n == Len(s)
  <2>1. PICK g : /\ g = [i \in 0 .. n |-> g[i]] /\ g[0] = <<>>
                 /\ \A i \in 1 .. n : g[i - 1] \in V /\ s[i] \in S /\ g[i] = step[<<g[i - 1], s[i]>>]
    BY <1>1, FoldRun
  <2>2. n \in Nat /\ \A i \in 1 .. n : s[i] \in S
    OBVIOUS
  <2>. HIDE DEF n
  <2>3. 0 \in 0 .. n /\ \A i \in 0 .. n : i = 0 \/ i \in 1 .. n
    BY <2>2
  <2>4. \A i \in 0 .. n : g[i] = IF i = 0 THEN <<>> ELSE g[i - 1] \o Piece[s[i]]
    BY <1>2, <2>1, <2>3
  <2>5. IsSpelt(g, s)
    BY <2>1, <2>4 DEF IsSpelt, n
  <2>6. PICK f : f = (CHOOSE h : IsSpelt(h, s)) /\ IsSpelt(f, s)
    BY <2>5
  <2>7. /\ f = [i \in 0 .. n |-> f[i]]
        /\ \A i \in 0 .. n : f[i] = IF i = 0 THEN <<>> ELSE f[i - 1] \o Piece[s[i]]
    BY <2>6 DEF IsSpelt, n
  <2>8. \A i \in 1 .. n : i \in 0 .. n /\ i # 0
    BY <2>2
  <2>9. \A i \in 1 .. n : f[i - 1] \in V => f[i] = step[<<f[i - 1], s[i]>>]
    BY <1>2, <2>2, <2>7, <2>8
  <2>10. Follows(f, step, <<>>, s, V)
    BY <2>3, <2>7, <2>9 DEF Follows, n
  <2>11. FoldOf(step, <<>>, s) = f[Len(s)]
    BY <1>1, <2>10, FoldIs
  <2>. QED  BY <2>6, <2>11 DEF Spelt, IsSpelt
<1>4. <<>> \in Seq(S) /\ \A s \in Seq(S), c \in S : Append(s, c) \in Seq(S)
  OBVIOUS
<1>5. FoldLaws(step, <<>>, V, S)
  BY <1>1, FoldValues
<1>6. ASSUME NEW s \in Seq(S), NEW c \in S
      PROVE  Spelt(Append(s, c)) = Spelt(s) \o Piece[c]
  <2>1. Append(s, c) \in Seq(S) /\ FoldOf(step, <<>>, s) \in V
    BY <1>4, <1>5 DEF FoldLaws
  <2>2. Spelt(Append(s, c)) = step[<<FoldOf(step, <<>>, s), c>>]
    BY <1>3, <1>5, <2>1 DEF FoldLaws
  <2>. QED  BY <1>2, <1>3, <2>1, <2>2
<1>. QED  BY <1>3, <1>4, <1>5, <1>6 DEF V, FoldLaws

(* However a text is cut, the renderer comes to the same. *)
LEMMA FedIsSpelt ==
  ASSUME NEW s \in Seq(Payload)
  PROVE  Spelt(s) \in Seq(Char) /\ Fed(s) = RenderFeed(RenderInit, Spelt(s))
<1>. DEFINE D == {t \in Seq(Payload) : Fed(t) = RenderFeed(RenderInit, Spelt(t))}
<1>1. /\ Fed(<<>>) = RenderInit /\ Spelt(<<>>) = <<>>
      /\ \A t \in Seq(Payload) : Spelt(t) \in Seq(Char)
      /\ \A t \in Seq(Payload), x \in Payload :
           /\ Fed(Append(t, x)) = RenderFeed(Fed(t), Piece[x])
           /\ Spelt(Append(t, x)) = Spelt(t) \o Piece[x]
  BY FedFacts, SpeltFacts
<1>2. <<>> \in D
  <2>1. <<>> \in Seq(Payload) /\ <<>> \in Seq(Char)
    OBVIOUS
  <2>2. RenderFeed(RenderInit, <<>>) = RenderInit
    BY <2>1, InitR, FeedType
  <2>. QED  BY <1>1, <2>1, <2>2
<1>3. ASSUME NEW t \in Seq(Payload), NEW x \in Payload, t \in D PROVE Append(t, x) \in D
  <2>1. Append(t, x) \in Seq(Payload)
    BY SeqAppend
  <2>2. RenderFeed(RenderFeed(RenderInit, Spelt(t)), Piece[x]) = RenderFeed(RenderInit, Spelt(t) \o Piece[x])
    BY <1>1, InitR, PieceText, FeedTwice
  <2>. QED  BY <1>1, <1>3, <2>1, <2>2
<1>. HIDE DEF D
<1>4. s \in D
  BY <1>2, <1>3, SeqInduction
<1>. QED  BY <1>1, <1>4 DEF D

---------------------------------------------------------------------------
(* render.c behind main.c's on_text: what the terminal shows is the text,  *)
(* whatever it is, line by line and but for markers; and the text of a     *)
(* finished response is shown as if it had come in one piece, whatever the *)
(* attempts and deltas that brought it.                                    *)
THEOREM TerminalShowsTheResponse == Spec => []TerminalExact
<1>1. ASSUME StreamInv PROVE TerminalExact
  <2>1. RendersFaithfully
    BY EveryTextIsShown, TerminalAssumption DEF RendersFaithfully
  <2>2. ASSUME finished = "done"
        PROVE  RenderFlush(Fed(heard)) = RenderFlush(RenderFeed(RenderInit, Spelt(message[1].content)))
    <3>1. heard = content /\ message = <<Assembled>> /\ heard \in Seq(Payload)
      BY <1>1, <2>2 DEF StreamInv, ShownIsContent, Accumulated, TypeOK
    <3>2. message[1].content = heard
      BY <3>1 DEF Assembled
    <3>. QED  BY <3>1, <3>2, FedIsSpelt
  <2>. QED  BY <2>1, <2>2 DEF TerminalExact
<1>. QED
  BY <1>1, StreamInductive, PTL

===========================================================================
