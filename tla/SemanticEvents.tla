--------------------------- MODULE SemanticEvents ---------------------------
(***************************************************************************)
(* The semantic events of a response and the reducer that folds them into  *)
(* the response: src/internal/vcp/events.go.  Every consumer of a stream   *)
(* runs this reducer: the decoder of a protocol, the sink that makes its   *)
(* events durable, the check of a provider's result, and a client.         *)
(*                                                                         *)
(* An event is a record with its sequence number, type, item and text.     *)
(* The event identifier is derived from sequence and type, so the sequence *)
(* stands for both.  A text is a sequence of tokens.  The final arguments  *)
(* of a tool call are optional; <<>> stands for none, as no emitter states *)
(* empty ones after others.                                                *)
(*                                                                         *)
(* Usage, citations, warnings and route summaries only add to fields of    *)
(* their own and are left out, as are the checks of identities that the    *)
(* emitters satisfy by construction.                                       *)
(***************************************************************************)
EXTENDS Integers, SequencesExt, TLC

Delta    == {"content.delta", "tool.arguments.delta"}
ToolNote == {"tool.arguments.delta", "tool.arguments.completed"}
ItemNote == Delta \cup ToolNote \cup {"item.completed"}
Ending   == [type \in {"response.completed", "response.incomplete",
                       "response.failed", "response.cancelled"} |->
                CASE type = "response.completed"  -> "completed"
                  [] type = "response.incomplete" -> "incomplete"
                  [] type = "response.failed"     -> "failed"
                  [] type = "response.cancelled"  -> "cancelled"]

(* NewReducer                                                              *)
NewResponse == [status |-> "in_progress", items |-> <<>>, last |-> 0, seen |-> {}]

Terminal(r) == r.status # "in_progress"

(* An event no consumer takes: Validate refuses an empty delta, and the    *)
(* reducer an event out of order and one of an item it does not know.      *)
Refused(r, e) ==
    \/ e.type \in Delta /\ e.text = <<>>
    \/ /\ e.seq \notin r.seen
       /\ \/ e.seq <= r.last
          \/ ~Terminal(r) /\ e.type \in ItemNote /\ e.item \notin DOMAIN r.items
          \/ ~Terminal(r) /\ e.type \in ToolNote /\ ~r.items[e.item].tool

(* markOpenItemsIncomplete                                                 *)
Abandoned(items) ==
    [i \in DOMAIN items |->
        IF items[i].status = "completed" THEN items[i]
        ELSE [items[i] EXCEPT !.status = "incomplete"]]

(* Apply, for an event it does not refuse: an event seen before and one    *)
(* after the terminal change nothing.                                      *)
Reduced(r, e) ==
    LET taken == [r EXCEPT !.last = e.seq, !.seen = @ \cup {e.seq}]
        items ==
          CASE e.type = "item.started" /\ e.item \notin DOMAIN r.items ->
                 r.items @@ (e.item :> [tool |-> e.tool, status |-> "in_progress", text |-> <<>>])
            [] e.type \in Delta -> [r.items EXCEPT ![e.item].text = @ \o e.text]
            [] e.type = "tool.arguments.completed" /\ e.text # <<>> ->
                 [r.items EXCEPT ![e.item].text = e.text]
            [] e.type = "item.completed" -> [r.items EXCEPT ![e.item].status = "completed"]
            [] e.type \in DOMAIN Ending \ {"response.completed"} -> Abandoned(r.items)
            [] OTHER -> r.items
    IN  IF e.seq \in r.seen \/ Terminal(r) THEN r
        ELSE [taken EXCEPT !.items = items,
                           !.status = IF e.type \in DOMAIN Ending THEN Ending[e.type] ELSE @]

(* A consumer of a log of events that goes on after one it refuses.        *)
Read(log) ==
    FoldLeft(LAMBDA reader, e :
                IF Refused(reader.response, e) THEN [reader EXCEPT !.refused = TRUE]
                ELSE [reader EXCEPT !.response = Reduced(@, e)],
             [response |-> NewResponse, refused |-> FALSE], log)

-----------------------------------------------------------------------------
(* What every decoder has: the last sequence number, a reducer, all events *)
(* so far, and whether the frame at hand was refused; a refusal ends the   *)
(* frame.                                                                  *)
NewEmitter == [seq |-> 0, response |-> NewResponse, events |-> <<>>, failed |-> FALSE]

Refuse(d) == [d EXCEPT !.failed = TRUE]

(* What comes next in a frame that has not been refused.                   *)
Then(d, Op(_)) == IF d.failed THEN d ELSE Op(d)

(* emitter.event and emit: a refused event uses up its number.             *)
EmitEvent(d, type, item, tool, text) ==
    LET e == [seq |-> d.seq + 1, type |-> type, item |-> item, tool |-> tool, text |-> text]
    IN  IF d.failed THEN d
        ELSE IF Refused(d.response, e) THEN Refuse([d EXCEPT !.seq = @ + 1])
        ELSE [d EXCEPT !.seq = @ + 1, !.response = Reduced(@, e), !.events = Append(@, e)]

NoItem == <<>>
Start(d, item, tool)      == EmitEvent(d, "item.started", item, tool, <<>>)
Note(d, type, item, text) == EmitEvent(d, type, item, FALSE, text)
Conclude(d, type)         == EmitEvent(d, type, NoItem, FALSE, <<>>)
=============================================================================
