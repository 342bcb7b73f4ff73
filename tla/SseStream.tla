------------------------------ MODULE SseStream ------------------------------
(***************************************************************************)
(* One response of POST /translate/stream: the task that translates the      *)
(* texts one by one (src/translator-api/src/routes/translate.rs), the bytes  *)
(* between server and client, and the client's parser of server-sent events  *)
(* (src/translator-api-client/src/stream.rs).                                *)
(*                                                                          *)
(* The bytes of an event are cut down to the places where a cut matters: its *)
(* name line, its data up to the middle of a character of several bytes, the *)
(* rest of its data, and two newlines.                                       *)
(***************************************************************************)
EXTENDS Integers, Sequences

CONSTANTS
  WireRoom,  \* the connection takes another event below this many bytes
  MayPanic   \* may a call of the engine panic?

ASSUME WireRoomPositive == WireRoom \in Nat \ {0}
ASSUME MayPanicBoolean == MayPanic \in BOOLEAN

VARIABLES
  texts,     \* how many texts the request has
  task,      \* the spawned task: none, working, sending, ended
  event,     \* the event it is about to send
  sent,      \* the events it has put into the channel
  panicked,  \* has a call of the engine panicked? (history)
  channel,   \* the tokio channel
  receiver,  \* does the response body, which holds rx, still exist?
  conn,      \* the connection: open, finished, broken
  wire,      \* the bytes between server and client
  parser,    \* the unfold: idle, polling, ended, dropped
  buffer,    \* its buffer
  yielded,   \* the items it has yielded, except read errors
  erred      \* has it yielded a read error?

taskVars == <<texts, task, event, sent, panicked>>
wireVars == <<channel, receiver, conn, wire>>
parserVars == <<parser, buffer, yielded, erred>>
sseVars == <<taskVars, wireVars, parserVars>>

Done == [kind |-> "done", text |-> 0]
Comment == [kind |-> "comment", text |-> 0]
Event(kind, n) == [kind |-> kind, text |-> n]

SseInit ==
  /\ texts = 0 /\ task = "none" /\ event = Done /\ sent = <<>>
  /\ panicked = FALSE
  /\ channel = <<>> /\ receiver = TRUE /\ conn = "open" /\ wire = <<>>
  /\ parser = "idle" /\ buffer = <<>> /\ yielded = <<>> /\ erred = FALSE

-----------------------------------------------------------------------------
(* The server's task *)

Start(n) ==
  /\ task = "none"
  /\ texts' = n /\ task' = "working"
  /\ UNCHANGED <<event, sent, panicked, wireVars, parserVars>>

CapacityOfOne == 1  \* mutant
Capacity == texts + 1

Sending(e) == task' = "sending" /\ event' = e

\* A panic of the engine's thread breaks the loop: done is next.
Panicked == MayPanic /\ panicked' = TRUE /\ Sending(Done)

\* The engine returns the next text's translation or the whole call's error.
Translate ==
  /\ task = "working"
  /\ \/ /\ \E kind \in {"translation", "error"} :
             Sending(Event(kind, Len(sent) + 1))
        /\ UNCHANGED panicked
     \/ Panicked
  /\ UNCHANGED <<texts, sent, wireVars, parserVars>>

\* What follows the event that was just sent.
Proceed ==
  IF event = Done THEN task' = "ended" /\ UNCHANGED event
  ELSE IF Len(sent) + 1 = texts THEN Sending(Done)
  ELSE task' = "working" /\ UNCHANGED event

\* The channel takes the event, or has lost its receiver, which ends the task.
SendEvent ==
  /\ task = "sending"
  /\ \/ /\ receiver /\ Len(channel) < Capacity
        /\ channel' = Append(channel, event)
        /\ sent' = Append(sent, event)
        /\ Proceed
     \/ /\ ~receiver /\ task' = "ended"
        /\ UNCHANGED <<event, sent, channel>>
  /\ UNCHANGED <<texts, panicked, receiver, conn, wire, parserVars>>

-----------------------------------------------------------------------------
(* The response body and the connection *)

Part(p, e) == [part |-> p, of |-> e, good |-> TRUE]
NL == Part("newline", Done)

Bytes(e) ==
  CASE e.kind = "comment" -> <<Part("colon", e), NL, NL>>
    [] e.kind = "done" -> <<Part("name", e), Part("data", e), NL, NL>>
    [] OTHER -> <<Part("name", e), Part("lead", e), Part("data", e), NL, NL>>

Writable == task # "none" /\ conn = "open" /\ receiver /\ Len(wire) < WireRoom

\* The body passes on the next event; while there is none it may write a
\* comment that keeps the connection alive.
Forward ==
  /\ Writable
  /\ \/ /\ channel # <<>>
        /\ wire' = wire \o Bytes(Head(channel)) /\ channel' = Tail(channel)
     \/ /\ channel = <<>> /\ task # "ended"
        /\ wire' = wire \o Bytes(Comment) /\ UNCHANGED channel
  /\ UNCHANGED <<taskVars, receiver, conn, parserVars>>

\* The task has dropped tx and the channel is empty: the response is complete.
Finish ==
  /\ conn = "open" /\ receiver /\ task = "ended" /\ channel = <<>>
  /\ conn' = "finished"
  /\ UNCHANGED <<taskVars, channel, receiver, wire, parserVars>>

\* The connection is reset, or the client's limit on the whole request passes;
\* some of the bytes under way are lost.
Break ==
  /\ task # "none" /\ conn # "broken" /\ parser \in {"idle", "polling"}
  /\ conn' = "broken"
  /\ \E k \in 0 .. Len(wire) : wire' = SubSeq(wire, 1, k)
  /\ UNCHANGED <<taskVars, channel, receiver, parserVars>>

\* The server notices and drops the response body.
Notice ==
  /\ conn = "broken" /\ receiver
  /\ receiver' = FALSE /\ channel' = <<>>
  /\ UNCHANGED <<taskVars, conn, wire, parserVars>>

-----------------------------------------------------------------------------
(* The client's parser *)

\* The consumer asks for the next item,
Poll ==
  /\ task # "none" /\ parser = "idle" /\ parser' = "polling"
  /\ UNCHANGED <<taskVars, wireVars, buffer, yielded, erred>>

\* or drops the stream, and with it the connection.
Drop ==
  /\ task # "none" /\ parser \in {"idle", "polling"}
  /\ parser' = "dropped"
  /\ conn' = "broken" /\ wire' = <<>>
  /\ UNCHANGED <<taskVars, channel, receiver, buffer, yielded, erred>>

Cut(s) == {p \in 1 .. Len(s) - 1 : s[p] = NL /\ s[p + 1] = NL}
FirstCut(s) == CHOOSE p \in Cut(s) : \A q \in Cut(s) : p <= q

\* parse_sse_block: the last name and the last data line count.
Has(block, p) == \E k \in DOMAIN block : block[k].part = p
LastOf(block, p) ==
  block[CHOOSE k \in DOMAIN block :
          /\ block[k].part = p
          /\ \A j \in DOMAIN block : block[j].part = p => j <= k]

Nothing == Event("nothing", 0)

Parsed(block) ==
  IF ~Has(block, "name") \/ ~(Has(block, "data") \/ Has(block, "lead"))
    THEN Nothing
  ELSE LET e == LastOf(block, "name").of
           whole == Has(block, "data")
           good == \A k \in DOMAIN block : block[k].good
       IN CASE e.kind = "translation" ->
                 Event(IF ~whole THEN "truncated"
                       ELSE IF good THEN "translation" ELSE "garbled", e.text)
            [] e.kind = "error" -> e
            [] OTHER -> Nothing

\* An item ends the poll; done, comments and unknown events do not.
Yield(item) ==
  IF item = Nothing THEN UNCHANGED <<parser, yielded>>
  ELSE parser' = "idle" /\ yielded' = Append(yielded, item)

KeepBreak(p) == SubSeq(buffer, p, Len(buffer))  \* mutant
Rest(p) == SubSeq(buffer, p + 2, Len(buffer))

\* A complete block leaves the buffer.
Extract ==
  /\ parser = "polling" /\ Cut(buffer) # {}
  /\ LET p == FirstCut(buffer)
     IN /\ Yield(Parsed(SubSeq(buffer, 1, p - 1)))
        /\ buffer' = Rest(p)
  /\ UNCHANGED <<taskVars, wireVars, erred>>

Reading == parser = "polling" /\ Cut(buffer) = {}

\* from_utf8_lossy of one chunk replaces a character that the chunk cuts.
Lossy(chunk) ==
  [j \in DOMAIN chunk |->
     [chunk[j] EXCEPT !.good =
        CASE chunk[j].part = "lead" -> j < Len(chunk)
          [] chunk[j].part = "data" /\ chunk[j].of # Done -> j > 1
          [] OTHER -> TRUE]]

Read ==
  /\ Reading /\ wire # <<>>
  /\ \E k \in 1 .. Len(wire) :
       /\ buffer' = buffer \o Lossy(SubSeq(wire, 1, k))
       /\ wire' = SubSeq(wire, k + 1, Len(wire))
  /\ UNCHANGED <<taskVars, channel, receiver, conn, parser, yielded, erred>>

\* A read error is an item and ends nothing; it may come again.
ReadError ==
  /\ Reading /\ wire = <<>> /\ conn = "broken"
  /\ parser' = "idle" /\ erred' = TRUE
  /\ UNCHANGED <<taskVars, wireVars, buffer, yielded>>

RemainderStays ==  \* mutant
  IF Parsed(buffer) = Nothing
    THEN parser' = "ended" /\ UNCHANGED <<buffer, yielded>>
    ELSE Yield(Parsed(buffer)) /\ UNCHANGED buffer

\* What the buffer still holds at the end is parsed as a block.
Remainder ==
  IF Parsed(buffer) = Nothing
    THEN parser' = "ended" /\ UNCHANGED <<buffer, yielded>>
    ELSE Yield(Parsed(buffer)) /\ buffer' = <<>>

ConnectionEnded == conn # "open"  \* mutant
StreamEnded == conn = "finished" \/ (conn = "broken" /\ erred)

Eof ==
  /\ Reading /\ wire = <<>> /\ StreamEnded
  /\ Remainder
  /\ UNCHANGED <<taskVars, wireVars, erred>>

-----------------------------------------------------------------------------

Server == Translate \/ SendEvent
Connection == Forward \/ Finish \/ Notice
Parser == Extract \/ Read \/ ReadError \/ Eof
SseNext == Server \/ Connection \/ Break \/ Poll \/ Drop \/ Parser

\* The client's limit on the time of a whole request, looked at while it polls.
TimeOut == parser = "polling" /\ Break

\* The engine returns, and the runtime runs what can run.  Nobody promises
\* that the consumer polls.
SseFairness ==
  /\ WF_sseVars(Translate) /\ WF_sseVars(SendEvent)
  /\ WF_sseVars(Forward) /\ WF_sseVars(Finish) /\ WF_sseVars(Notice)
  /\ WF_sseVars(Parser) /\ WF_sseVars(TimeOut)

-----------------------------------------------------------------------------
(* Properties *)

\* The consumer gets one item for each text, in the order of the request,
\* whatever the chunks; an item cut short can only be the last one, and only
\* after a read error (stream.rs:19-55).
InOrder ==
  \A j \in DOMAIN yielded :
    /\ j <= Len(sent) /\ sent[j].kind # "done" /\ yielded[j].text = sent[j].text
    /\ (yielded[j].kind = "error") = (sent[j].kind = "error")
    /\ yielded[j].kind = "truncated" => erred /\ j = Len(yielded)

\* A stream that ends without a read error has yielded an item for every text
\* of the request: neither a lost connection nor bytes cut anywhere look like the
\* end.  A panic of the engine does: the server then sends done early, and the
\* stream has all that came before (stream.rs:9-10, translate.rs:161-174).
EndIsEverything ==
  parser = "ended" /\ ~erred =>
    /\ Len(yielded) = Len(sent) - 1 /\ sent[Len(sent)] = Done
    /\ Len(yielded) = texts \/ panicked

\* The task ends, whether the client reads, stops reading or goes away: the
\* channel has room for every event, done included, and no stream holds its
\* place on the server for ever (translate.rs:128-175).  This supposes that the
\* engine returns, see Stranded of TranslationService for a call that does not.
TaskEnds == task = "working" ~> task = "ended"

\* A consumer that keeps asking reaches the end of the stream or an error
\* (stream.rs:19-55).
StreamEnds ==
  WF_sseVars(Poll) =>
    (task = "working" ~> parser \in {"ended", "dropped"} \/ erred)

\* Violated: each translation arrives as it was sent (stream.rs:9, "Yields one
\* `TranslationResult` per `event: translation` SSE event").
TextsIntact == \A j \in DOMAIN yielded : yielded[j].kind # "garbled"
=============================================================================
