---------------------------- MODULE ChatStream ----------------------------
(***************************************************************************)
(* The decoder of OpenAI Chat streams (protocol/openai/chat/stream.go)     *)
(* behind its driver.  A chunk carries choices; a choice has at most one   *)
(* text of each kind and tool calls by index, and may announce that it is  *)
(* finished, with the whole message or without.  The end of the response   *)
(* is announced only when the stream is closed.                            *)
(*                                                                         *)
(* A chunk is "unreadable", "invalid" (refused before anything is emitted),*)
(* an "error" of the provider, or has "choices".  Usage, audio and         *)
(* warnings are left out.                                                  *)
(***************************************************************************)
EXTENDS StreamPublication

CONSTANTS
    Chunk,          \* what the provider may send
    MaxFrames       \* bound on the length of a stream

VARIABLE frames     \* how many there were

vars == <<publication, frames>>

\* The order in which a delta, and a finished choice, go through the texts.
DeltaOrder  == <<"reasoning", "message", "refusal">>
FinishOrder == <<"message", "refusal", "reasoning">>

NewDecoder ==
    Conclude(NewEmitter @@ [texts |-> {}, tools |-> <<>>, pending |-> ""], "response.started")

(* emitText; an item is a choice with the kind of text or the index of the *)
(* tool.                                                                   *)
EmitText(d, choice, kind, text) ==
    LET item == <<choice, kind>>
        started == IF item \in d.texts THEN d
                   ELSE [Start(d, item, FALSE) EXCEPT !.texts = @ \cup {item}]
    IN  IF text = <<>> THEN d ELSE Note(started, "content.delta", item, text)

(* emitTool                                                                *)
Tool(choice, index) == <<choice, "tool", index>>
EmitTool(d, choice, index, arguments) ==
    LET item == Tool(choice, index)
        started == IF item \in ToSet(d.tools) THEN d
                   ELSE [Start(d, item, TRUE) EXCEPT !.tools = Append(@, item)]
    IN  IF arguments = <<>> THEN started
        ELSE Note(started, "tool.arguments.delta", item, arguments)

(* hydrateTerminalOnlyFields: what the deltas have not mentioned; calls    *)
(* are the tool calls of a message, counted from 0 (assistantToolCalls).   *)
Hydrate(d, choice, message) ==
    LET untold(kind) == <<choice, kind>> \notin d.texts
        texts == FoldLeft(LAMBDA e, kind :
                             IF untold(kind) THEN EmitText(e, choice, kind, message.text[kind])
                             ELSE e,
                          d, DeltaOrder)
        uncalled(n) == Tool(choice, n - 1) \notin ToSet(d.tools)
    IN  FoldLeft(LAMBDA e, n : IF uncalled(n) THEN EmitTool(e, choice, n - 1, message.calls[n])
                               ELSE e,
                 texts, [n \in DOMAIN message.calls |-> n])

(* terminalForFinishReason                                                 *)
TerminalFor(reason) ==
    CASE reason = "stop"   -> "response.completed"
      [] reason = "length" -> "response.incomplete"
      [] OTHER             -> "response.failed"

(* finishChoice: every item of the choice is completed, and the first      *)
(* choice that finishes says how the response ends.                        *)
FinishChoice(d, choice, message, reason) ==
    LET e == Hydrate(d, choice, message)
        calls == message.calls
        final(tool) == IF tool[3] + 1 \in DOMAIN calls THEN calls[tool[3] + 1] ELSE <<>>
        tools == FoldLeft(LAMBDA c, tool :
                             Note(Note(c, "tool.arguments.completed", tool, final(tool)),
                                  "item.completed", tool, <<>>),
                          e, SelectSeq(e.tools, LAMBDA tool : tool[1] = choice))
        texts == FoldLeft(LAMBDA c, kind :
                             IF <<choice, kind>> \in e.texts
                             THEN Note(c, "item.completed", <<choice, kind>>, <<>>) ELSE c,
                          tools, FinishOrder)
    IN  [texts EXCEPT !.pending = IF @ = "" THEN TerminalFor(reason) ELSE @]

(* One choice of a chunk: its texts, its tools, its end.                   *)
PushChoice(d, c) ==
    LET texts == FoldLeft(LAMBDA e, kind : EmitText(e, c.choice, kind, c.text[kind]),
                          d, DeltaOrder)
        tools == FoldLeft(LAMBDA e, call : EmitTool(e, c.choice, call.index, call.text),
                          texts, c.tools)
    IN  IF c.finish = "" THEN tools ELSE FinishChoice(tools, c.choice, c.message, c.finish)

(* Push, and the JSON the driver reads before it, whatever came before     *)
Push(d, chunk) ==
    CASE chunk.type = "unreadable" -> Refuse(d)
      [] chunk.type # "unreadable" /\ Terminal(d.response) -> d
      [] chunk.type # "unreadable" /\ ~Terminal(d.response) ->
           CASE chunk.type = "invalid" -> Refuse(d)
             [] chunk.type = "error" ->
                  IF d.pending = "" THEN Conclude(d, "response.failed") ELSE d
             [] chunk.type = "choices" -> FoldLeft(PushChoice, d, chunk.choices)

(* Close: what a choice announced, whatever happened to the stream since.  *)
Close(d, cause) ==
    LET e == [d EXCEPT !.failed = FALSE]
    IN  CASE Terminal(d.response) -> e
          [] ~Terminal(d.response) /\ d.pending # "" -> Conclude(e, d.pending)
          [] ~Terminal(d.response) /\ d.pending = "" ->
               Conclude(e, IF cause = "eof" THEN "response.incomplete" ELSE "response.failed")
Closed(d) == [cause \in Cause |-> Close(d, cause)]

Init ==
    /\ decoder = NewDecoder
    /\ log = <<>>
    /\ end = "opening"
    /\ frames = 0

OpenStream == Open /\ UNCHANGED frames

ReceiveChunk ==
    /\ frames < MaxFrames
    /\ frames' = frames + 1
    /\ \E chunk \in Chunk : LET d == Push(decoder, chunk) IN Receive(d, Closed(d))

Interrupt == Interrupted(Closed(decoder)) /\ UNCHANGED frames
EndOfBody == Finish(Close(decoder, "eof")) /\ UNCHANGED frames

Next == OpenStream \/ ReceiveChunk \/ Interrupt \/ EndOfBody
Spec == Init /\ [][Next]_vars
=============================================================================
