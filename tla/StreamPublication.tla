------------------------- MODULE StreamPublication -------------------------
(***************************************************************************)
(* What a streaming driver does with the events of its decoder: every      *)
(* batch goes through the durable sink into the event log of the           *)
(* execution before the next frame is read (executeStream of the drivers,  *)
(* EmitExecutionEvents, event_sink.go), and when the stream has ended well *)
(* the events the sink has not seen are appended to the log (succeed).     *)
(*                                                                         *)
(* The decoder is a record with the fields of SemanticEvents!NewEmitter;   *)
(* what it makes of a frame, and of the end of the stream, is up to the    *)
(* module of the protocol, which hands over the decoder after the frame    *)
(* (d) and the decoders it would be closed into for each cause (closed).   *)
(***************************************************************************)
EXTENDS SemanticEvents

VARIABLES
    decoder,
    log,     \* the semantic events in the execution's log, in its order
    end      \* "opening", "streaming", "succeeded" or "failed"

publication == <<decoder, log, end>>

(* Why a stream is closed: its end, a transport or decoding error or a     *)
(* store that fails, a cancelled context.                                  *)
Cause == {"eof", "error", "cancelled"}

New(before, d) == SubSeq(d.events, Len(before.events) + 1, Len(d.events))

\* Faulty variant: two events of one type and item are one event to the sink.
PublishedOnce(batch, n) ==
    {log \o SelectSeq(SubSeq(batch, 1, n),
                      LAMBDA e : \A f \in ToSet(log) : <<f.type, f.item>> # <<e.type, e.item>>)}

(* EmitExecutionEvents through the sink, which runs a reducer over what it *)
(* publishes: the log with the first n events of a batch.                  *)
Published(batch, n) ==
    LET longer == log \o SubSeq(batch, 1, n)
    IN  IF Read(longer).refused THEN {} ELSE {longer}

(* The driver closes the decoder into d and tries to publish what that     *)
(* adds to the events it had; no result, the execution fails.              *)
Abandon(published, before, d) ==
    /\ decoder' = d
    /\ log' \in {published, published \o New(before, d)}
    /\ end' = "failed"

-----------------------------------------------------------------------------
(* The chat driver publishes what the decoder starts with; the others do   *)
(* not.                                                                    *)
Open ==
    /\ end = "opening"
    /\ \/ log' \in Published(decoder.events, Len(decoder.events)) /\ end' = "streaming"
       \/ UNCHANGED log /\ end' = "failed"
    /\ UNCHANGED decoder

(* The callback of ReadSSE.  Events of a frame that is refused halfway are *)
(* never published.                                                        *)
Receive(d, closed) ==
    LET batch == New(decoder, d)
    IN  /\ end = "streaming"
        /\ \/ d.failed /\ Abandon(log, d, closed["error"])
           \/ /\ ~d.failed
              /\ log' \in Published(batch, Len(batch))
              /\ decoder' = d
              /\ UNCHANGED end
           \/ /\ ~d.failed
              /\ \E n \in 0..(Len(batch) - 1), cause \in {"error", "cancelled"} :
                    \E published \in Published(batch, n) :
                        Abandon(published, d, closed[cause])

(* The body cannot be read any further; events that were published stay.   *)
Interrupted(closed) ==
    /\ end = "streaming"
    /\ \E cause \in {"error", "cancelled"} : Abandon(log, decoder, closed[cause])

(* validateCanonicalProviderResponse                                       *)
Canonical(d) ==
    LET reader == Read(d.events)
    IN  /\ ~reader.refused /\ reader.response = d.response
        /\ d.response.status \in {"completed", "incomplete"}

(* filterPending                                                           *)
Pending(d) == SelectSeq(d.events, LAMBDA e : e \notin ToSet(log))

(* The end of the body.  d is the decoder closed without an error: its     *)
(* closing events are published, the result is checked, and what is        *)
(* pending is saved with it.                                               *)
Finish(d) ==
    LET batch == New(decoder, d)
    IN  /\ end = "streaming"
        /\ decoder' = d
        /\ \/ /\ Canonical(d)
              /\ \E published \in Published(batch, Len(batch)) :
                    log' = published \o
                           SelectSeq(Pending(d), LAMBDA e : e \notin ToSet(batch))
              /\ end' = "succeeded"
           \/ ~Canonical(d) /\ log' \in Published(batch, Len(batch)) /\ end' = "failed"
           \/ batch # <<>> /\ UNCHANGED log /\ end' = "failed"

-----------------------------------------------------------------------------
(* Whoever reads the log of a finished stream, and goes on after an event  *)
(* it cannot use, has the items and the status of the response that was    *)
(* checked and stored (executeStream, filterPending, succeed).             *)
ReaderSeesTheResponse ==
    end = "succeeded" =>
        LET read == Read(log).response
        IN  read.items = decoder.response.items /\ read.status = decoder.response.status

(* docs/architecture/0006-vulcan-protocol-rulebook.md:628: every event has *)
(* a globally monotonic sequence; a reader of the log, which is what       *)
(* clients replay, is refused nothing.                                     *)
HistoryInOrder == end = "succeeded" => ~Read(log).refused
=============================================================================
