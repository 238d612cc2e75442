-------------------------- MODULE ResponsesStream --------------------------
(***************************************************************************)
(* The decoder of OpenAI Responses streams (protocol/openai/responses/     *)
(* stream.go) behind its driver.  A stream speaks of output items, the     *)
(* sources, by identifier, by index or by both; a source has parts, each   *)
(* of which is an item of the response.                                    *)
(*                                                                         *)
(* A frame is a record of what the decoder looks at.  "unreadable" stands  *)
(* for an envelope that is no event, "invalid" for every event that is     *)
(* refused for its shape or for tool fields that changed, "note" for those *)
(* that only add usage, citations or warnings.  Hosted tools and computer  *)
(* calls are left out, and custom tools, which behave like functions.      *)
(***************************************************************************)
EXTENDS StreamPublication
LOCAL INSTANCE FiniteSets

CONSTANTS
    Frame,          \* what the provider may send
    MaxFrames       \* bound on the length of a stream

VARIABLE frames     \* how many there were

vars == <<publication, frames>>

NoID == ""
NoIndex == -1

SourceType(kind) ==
    CASE kind \in {"message", "refusal"}  -> "message"
      [] kind \in {"summary", "reasoning"} -> "reasoning"
      [] OTHER -> kind

\* The parts of a source in the order they are completed; searches are not.
Area(kind) ==
    CASE kind \in {"message", "refusal"} -> 1
      [] kind = "function_call" -> 2
      [] kind = "summary" -> 3
      [] kind = "reasoning" -> 4
      [] kind = "web_search_call" -> 5

(* semanticItemID, reasoningSemanticItemID, sourceIdentity                 *)
Item(source, kind, slot) ==
    <<source.id, IF source.id = NoID THEN source.index ELSE NoIndex, kind, slot>>

NewDecoder == Conclude(NewEmitter @@ [sources |-> <<>>, at |-> 0], "response.started")

-----------------------------------------------------------------------------
(* Sources and parts.                                                      *)

(* ensureSource: the source an event speaks of, at the decoder's hand.     *)
Source(d, id, index, type) ==
    LET known == {s \in DOMAIN d.sources :
                     \/ id # NoID /\ d.sources[s].id = id
                     \/ index # NoIndex /\ d.sources[s].index = index}
        new == [id |-> id, index |-> index, type |-> type, status |-> "", parts |-> <<>>]
        s == CHOOSE s \in known : TRUE
        old == d.sources[s]
        merged == [old EXCEPT !.id = IF id = NoID THEN @ ELSE id,
                              !.index = IF index = NoIndex THEN @ ELSE index]
    IN  CASE d.failed -> d
          [] ~d.failed /\ known = {} ->
               IF id = NoID /\ index = NoIndex THEN Refuse(d)
               ELSE [d EXCEPT !.sources = Append(@, new), !.at = Len(d.sources) + 1]
          [] ~d.failed /\ known # {} ->
               IF \/ Cardinality(known) > 1
                  \/ id # NoID /\ old.id \notin {NoID, id}
                  \/ index # NoIndex /\ old.index \notin {NoIndex, index}
                  \/ old.type # type
               THEN Refuse(d)
               ELSE [d EXCEPT !.sources[s] = merged, !.at = s]

PartKey(kind, slot) == <<Area(kind), slot>>
Has(d, key) == key \in DOMAIN d.sources[d.at].parts
PartOf(d, key) == d.sources[d.at].parts[key]

(* ensureContent, ensureTool, ensureReasoning, ensureSearch, startSemantic *)
Part(d, kind, slot) ==
    LET key == PartKey(kind, slot)
        item == Item(d.sources[d.at], kind, slot)
        part == [item |-> item, kind |-> kind, text |-> <<>>, final |-> FALSE, done |-> FALSE]
    IN  CASE d.failed -> d
          [] ~d.failed /\ Has(d, key) -> IF PartOf(d, key).kind = kind THEN d ELSE Refuse(d)
          [] ~d.failed /\ ~Has(d, key) ->
               [Start(d, item, kind = "function_call")
                   EXCEPT !.sources[d.at].parts = @ @@ (key :> part)]

Told(d, key, text) == [d EXCEPT !.sources[d.at].parts[key].text = text]
Settled(d, key) == [d EXCEPT !.sources[d.at].parts[key].final = TRUE]

-----------------------------------------------------------------------------
(* Texts and arguments.                                                    *)

DeltaType(kind) == IF kind = "function_call" THEN "tool.arguments.delta" ELSE "content.delta"

\* An empty text says nothing, but empty arguments are an event, which is refused.
AddTo(d, key, text) ==
    LET part == PartOf(d, key)
    IN  IF text = <<>> /\ part.kind # "function_call" THEN d
        ELSE Note(Told(d, key, part.text \o text), DeltaType(part.kind), part.item, text)

\* Faulty variant: what comes after the final text is added to it.
AddedLate(d, kind, slot, text) ==
    Then(Part(d, kind, slot), LAMBDA e : AddTo(e, PartKey(kind, slot), text))

(* emitTextDelta, emitToolArgumentsDelta                                   *)
Added(d, kind, slot, text) ==
    Then(Part(d, kind, slot),
         LAMBDA e : IF PartOf(e, PartKey(kind, slot)).final THEN Refuse(e)
                    ELSE AddTo(e, PartKey(kind, slot), text))

\* Faulty variant: the final text is added to what the deltas brought.
SettleAgain(d, key, text) ==
    IF PartOf(d, key).final \/ text = <<>> THEN d
    ELSE Settled(Note(Note(Told(d, key, text), "content.delta", PartOf(d, key).item, text),
                      "content.completed", PartOf(d, key).item, <<>>), key)
FinalTextAgain(d, kind, slot, text) ==
    Then(Part(d, kind, slot), LAMBDA e : SettleAgain(e, PartKey(kind, slot), text))

(* emitTextDone, completeContentPart, completeReasoningSummaryPart through *)
(* emitFullText and emitFullReasoning: what the deltas left out is added.  *)
Settle(d, key, text) ==
    LET part == PartOf(d, key)
        missing == SubSeq(text, Len(part.text) + 1, Len(text))
    IN  IF part.final THEN IF text = part.text THEN d ELSE Refuse(d)
        ELSE IF ~IsPrefix(part.text, text) THEN Refuse(d)
        ELSE Settled(Note(IF missing = <<>> THEN d ELSE AddTo(d, key, missing),
                          "content.completed", part.item, <<>>), key)
FinalText(d, kind, slot, text) ==
    Then(Part(d, kind, slot), LAMBDA e : Settle(e, PartKey(kind, slot), text))

(* completeTool, recordToolFields                                          *)
FinalArguments(d, text) ==
    LET key == PartKey("function_call", 0)
        part == PartOf(d, key)
        arguments == IF text # <<>> \/ part.text = <<>> THEN text ELSE part.text
    IN  IF part.final THEN IF text \in {<<>>, part.text} THEN d ELSE Refuse(d)
        ELSE Settled(Note(Told(d, key, arguments), "tool.arguments.completed",
                          part.item, arguments), key)

Final(d, kind, slot, text) ==
    IF kind = "function_call"
    THEN Then(Part(d, kind, slot), LAMBDA e : FinalArguments(e, text))
    ELSE FinalText(d, kind, slot, text)

-----------------------------------------------------------------------------
(* Completion.                                                             *)

(* completeSemantic, after the arguments of a tool                         *)
CompletePart(d, key) ==
    LET part == PartOf(d, key)
    IN  IF d.failed \/ part.done THEN d
        ELSE [Note(IF part.kind = "function_call" THEN FinalArguments(d, <<>>) ELSE d,
                   "item.completed", part.item, <<>>)
                 EXCEPT !.sources[d.at].parts[key].done = TRUE]

(* completeSource: contents, tool, summaries and reasoning in this order   *)
CompleteSource(d) ==
    LET keys == {key \in DOMAIN d.sources[d.at].parts : key[1] # Area("web_search_call")}
        before(k, l) == k[1] < l[1] \/ (k[1] = l[1] /\ k[2] < l[2])
    IN  IF d.failed THEN d ELSE FoldLeft(CompletePart, d, SetToSortSeq(keys, before))

(* completeAllSources: the code sorts the sources by their identity; here  *)
(* they keep the order they appeared in, and nothing tells which it is.    *)
CompleteAll(d) ==
    FoldLeft(LAMBDA e, s : CompleteSource([e EXCEPT !.at = s]), d,
             [s \in DOMAIN d.sources |-> s])

(* recordOutputItemState                                                   *)
WithStatus(d, kind, status) ==
    LET old == d.sources[d.at].status
    IN  CASE d.failed \/ kind = "web_search_call" \/ status \in {"", old} -> d
          [] ~d.failed /\ kind # "web_search_call" /\ status \notin {"", old} ->
               IF old = "" \/ (old = "in_progress" /\ status \in {"completed", "incomplete"})
               THEN [d EXCEPT !.sources[d.at].status = status]
               ELSE Refuse(d)

(* ensureSearch: a search that starts without a status is refused.         *)
StartSearch(d, status) ==
    IF ~Has(d, PartKey("web_search_call", 0)) /\ status = "" THEN Refuse(d)
    ELSE Part(d, "web_search_call", 0)

(* completeSearch: it is announced again when it is completed again.       *)
CompleteSearch(d, status) ==
    LET key == PartKey("web_search_call", 0)
    IN  IF status # "completed" THEN Refuse(d)
        ELSE [Note(d, "item.completed", PartOf(d, key).item, <<>>)
                 EXCEPT !.sources[d.at].parts[key].done = TRUE]

(* The source of an item, with its status.                                 *)
ItemSource(d, f) == WithStatus(Source(d, f.id, f.index, f.kind), f.kind, f.status)

(* observeOutputItemAdded                                                  *)
ItemAdded(d, f) ==
    Then(ItemSource(d, f),
         LAMBDA e : CASE f.kind \in {"message", "reasoning"} -> e
                      [] f.kind = "function_call"   -> Part(e, f.kind, 0)
                      [] f.kind = "web_search_call" -> StartSearch(e, f.status))

(* emitOutputItem: a complete item, from its own event or from the         *)
(* snapshot at the end.  parts: the kind, the position and the final text. *)
WholeItem(d, f) ==
    LET tell(e) ==
            IF f.kind = "web_search_call"
            THEN Then(StartSearch(e, f.status), LAMBDA c : CompleteSearch(c, f.status))
            ELSE FoldLeft(LAMBDA c, p : Final(c, p.kind, p.slot, p.text), e, f.parts)
        complete(e) ==
            IF e.sources[e.at].status \in {"in_progress", "incomplete"} THEN e
            ELSE CompleteSource(e)
    IN  Then(Then(ItemSource(d, f), tell), complete)

-----------------------------------------------------------------------------
(* The whole stream.                                                       *)

(* terminate, observeResponse: the status, and all items once more, at     *)
(* their positions.                                                        *)
Terminate(d, f) ==
    LET completed == f.status = "completed"
        open(item) == completed /\ item.status \in {"in_progress", "incomplete"}
        tell(e, n) == Then(WholeItem(e, f.output[n] @@ [index |-> n - 1]),
                           LAMBDA c : IF open(f.output[n]) THEN Refuse(c) ELSE c)
        snapshot == FoldLeft(tell, d, [n \in DOMAIN f.output |-> n])
        type == CHOOSE type \in DOMAIN Ending : Ending[type] = f.status
    IN  Conclude(Then(snapshot, LAMBDA e : IF completed THEN CompleteAll(e) ELSE e), type)

(* PushSSE, Push: nothing is looked at after the end of the response, but  *)
(* it must be an event.                                                    *)
Push(d, f) ==
    LET of(e) == CASE f.type = "part.added" -> Part(e, f.kind, f.slot)
                   [] f.type = "delta"      -> Added(e, f.kind, f.slot, f.text)
                   [] f.type = "done"       -> Final(e, f.kind, f.slot, f.text)
    IN  CASE f.type = "unreadable" -> Refuse(d)
          [] f.type # "unreadable" /\ Terminal(d.response) -> d
          [] f.type # "unreadable" /\ ~Terminal(d.response) ->
               CASE f.type = "invalid"    -> Refuse(d)
                 [] f.type = "note"       -> d
                 [] f.type = "item.added" ->
                      IF f.status \in {"", "in_progress"} THEN ItemAdded(d, f) ELSE Refuse(d)
                 [] f.type = "item.done"  ->
                      IF f.status \in {"", "completed"} THEN WholeItem(d, f) ELSE Refuse(d)
                 [] f.type \in {"part.added", "delta", "done"} ->
                      Then(Source(d, f.id, f.index, SourceType(f.kind)), of)
                 [] f.type = "ended"      -> Terminate(d, f)
                 [] f.type = "error"      -> Conclude(d, "response.failed")

Close(d, cause) ==
    IF Terminal(d.response) THEN [d EXCEPT !.failed = FALSE]
    ELSE Conclude([d EXCEPT !.failed = FALSE],
                  CASE cause = "eof"       -> "response.incomplete"
                    [] cause = "cancelled" -> "response.cancelled"
                    [] cause = "error"     -> "response.failed")
Closed(d) == [cause \in Cause |-> Close(d, cause)]

Init ==
    /\ decoder = NewDecoder
    /\ log = <<>>
    /\ end = "streaming"
    /\ frames = 0

ReceiveFrame ==
    /\ frames < MaxFrames
    /\ frames' = frames + 1
    /\ \E f \in Frame : LET d == Push(decoder, f) IN Receive(d, Closed(d))

Interrupt == Interrupted(Closed(decoder)) /\ UNCHANGED frames
EndOfBody == Finish(Close(decoder, "eof")) /\ UNCHANGED frames

Next == ReceiveFrame \/ Interrupt \/ EndOfBody
Spec == Init /\ [][Next]_vars

-----------------------------------------------------------------------------
(* What the decoder believes the provider said of an item is what everyone *)
(* who reduces its events has, deltas, final texts, items and the snapshot *)
(* at the end in whatever mixture (emitTextDelta, emitFullText,            *)
(* completeTool).                                                          *)
PartsMatchItems ==
    ~decoder.failed =>
        \A s \in DOMAIN decoder.sources :
            \A part \in Range(decoder.sources[s].parts) :
                decoder.response.items[part.item].text = part.text

(* A text or the arguments of a call that were announced as final never    *)
(* change for a reader of the log (contentCompleted,                       *)
(* toolArgumentsCompleted).                                                *)
Announced == {e.item : e \in {e \in ToSet(log) :
                  e.type \in {"content.completed", "tool.arguments.completed"}}}
FinalStandsStep ==
    \A item \in Announced :
        Read(log').response.items[item].text = Read(log).response.items[item].text
FinalStands == [][FinalStandsStep]_vars

(* A response that is completed leaves no item open, except a search that  *)
(* was added and never reported as done (completeAllSources,               *)
(* completeSource).                                                        *)
CompletedLeavesNothingOpen ==
    LET response == decoder.response
        open == {item \in DOMAIN response.items : response.items[item].status # "completed"}
    IN  response.status = "completed" => \A item \in open : item[3] = "web_search_call"
=============================================================================
