---------------------------- MODULE EventFollower ----------------------------
(***************************************************************************)
(* Clients that follow the event log of one execution                      *)
(* (handleExecutionEvents of httpapi/executions.go over the polling        *)
(* distributor of execution/distribution.go), and the writers that make    *)
(* the log grow under them.  A client reads a connection event by event;   *)
(* when the connection is gone it opens another one with the identifier of *)
(* the last event it has.  What the handler has written and the client has *)
(* not read is lost with the connection.                                   *)
(*                                                                         *)
(* An event is its sequence number and what it tells.  The identifier is   *)
(* derived from the sequence number, and parseLastEventID takes it back.   *)
(***************************************************************************)
EXTENDS Naturals, Sequences

CONSTANTS
    Follower,       \* clients
    MaxSaves,       \* bound on the revision of the record
    MaxEvents,      \* bound on the log
    MaxBreaks       \* bound on connections that break, and on clients that
                    \* begin anew

ASSUME FollowerAssumption ==
    MaxSaves \in Nat /\ MaxEvents \in Nat \ {0} /\ MaxBreaks \in Nat

VARIABLES
    revision,       \* of the record
    ended,          \* its status is terminal
    events,         \* the log
    author,         \* writer -> what it knows and where it is
    connection,     \* client -> where its handler is
    after,          \* client -> afterSequence of the handler
    wire,           \* client -> events written and not yet read
    received,       \* client -> events it has, in the order it got them
    breaks

followerVars ==
    <<revision, ended, events, author, connection, after, wire, received, breaks>>
recordVars == <<revision, ended, events>>
clientVars == <<connection, after, wire, received, breaks>>

(* The durable sink of a dispatch that streams, and every other writer:    *)
(* another worker that has the execution in hand, a cancellation, its end. *)
Author == {"sink", "worker"}
Note   == {"started", "semantic", "lifecycle", "terminal"}
Event  == [sequence: Nat, note: Note]

FollowerInit ==
    /\ revision = 1 /\ ended = FALSE
    /\ events = <<[sequence |-> 1, note |-> "started"]>>
    /\ author = [a \in Author |-> [pc |-> "new", revision |-> 0, last |-> 0]]
    /\ connection = [f \in Follower |-> "closed"]
    /\ after = [f \in Follower |-> 0]
    /\ wire = [f \in Follower |-> <<>>]
    /\ received = [f \in Follower |-> <<>>]
    /\ breaks = 0

-----------------------------------------------------------------------------
(* Writers.  Save compares the revision and the sequence of the first new  *)
(* event; records may be saved without an event.                           *)

\* Faulty variant: the revision is all that is compared.
AppendableUnnumbered(last, more) == Len(events) + more <= MaxEvents

Appendable(last, more) == last = Len(events) /\ Len(events) + more <= MaxEvents

Appended(last, notes) ==
    /\ events' = events \o [n \in 1..Len(notes) |-> [sequence |-> last + n, note |-> notes[n]]]
    /\ revision' = revision + 1

Moves(a, pc) == author' = [author EXCEPT ![a].pc = pc]

(* refreshSequence and nextEventSequence: the last sequence of the log.    *)
LearnsSequence(a, from, to) ==
    /\ author[a].pc = from
    /\ author' = [author EXCEPT ![a].pc = to, ![a].last = Len(events)]
    /\ UNCHANGED <<recordVars, clientVars>>

(* Get: a copy of the record.                                              *)
Gets(a, from, to) ==
    /\ author[a].pc = from
    /\ author' = [author EXCEPT ![a].pc = IF ended THEN "closed" ELSE to,
                                ![a].revision = revision]
    /\ UNCHANGED <<recordVars, clientVars>>

(* Emit: the sequence is learnt once and then counted, again only after a  *)
(* revision conflict.  Any other error of Save ends the stream.            *)
SinkStep ==
    \/ LearnsSequence("sink", "new", "get")
    \/ Gets("sink", "get", "save")
    \/ LearnsSequence("sink", "conflict", "get")

SinkSaves ==
    LET sink == author["sink"]
    IN  /\ sink.pc = "save" /\ revision < MaxSaves
        /\ IF sink.revision # revision
           THEN Moves("sink", "conflict") /\ UNCHANGED recordVars
           ELSE \/ /\ Appendable(sink.last, 1)
                   /\ Appended(sink.last, <<"semantic">>)
                   /\ author' = [author EXCEPT !["sink"].pc = "get", !["sink"].last = @ + 1]
                   /\ UNCHANGED ended
                \/ /\ sink.last # Len(events)
                   /\ Moves("sink", "refused")
                   /\ UNCHANGED recordVars
        /\ UNCHANGED clientVars

(* appendLifecycle, transition, Cancel, succeed: the sequence is learnt    *)
(* after the record was read; a conflict ends the call, and the record is  *)
(* read again by the next one.                                             *)
WorkerStep ==
    \/ Gets("worker", "new", "sequence")
    \/ LearnsSequence("worker", "sequence", "save")

WorkerSaves ==
    LET worker == author["worker"]
    IN  /\ worker.pc = "save" /\ revision < MaxSaves
        /\ Moves("worker", "new")
        /\ IF worker.revision # revision
           THEN UNCHANGED recordVars
           ELSE \/ revision' = revision + 1 /\ UNCHANGED <<events, ended>>
                \/ /\ Appendable(worker.last, 1)
                   /\ Appended(worker.last, <<"lifecycle">>)
                   /\ UNCHANGED ended
                \/ \E notes \in {<<"terminal">>, <<"semantic", "terminal">>} :
                      /\ Appendable(worker.last, Len(notes))
                      /\ Appended(worker.last, notes)
                      /\ ended' = TRUE
        /\ UNCHANGED clientVars

-----------------------------------------------------------------------------
(* The handler.                                                            *)

HasTheEnd(f) == \E n \in DOMAIN received[f] : received[f][n].note = "terminal"

\* Faulty variant: an execution that has ended is not opened again.
OpensWhileRunning(f) == ~ended \/ received[f] = <<>>

\* Get: the execution is there, whatever its status.
Opens(f) == TRUE

(* Last-Event-ID, or none.                                                 *)
Connect(f) ==
    /\ connection[f] = "closed" /\ ~HasTheEnd(f)
    /\ after' = [after EXCEPT ![f] = IF received[f] = <<>> THEN 0
                                     ELSE received[f][Len(received[f])].sequence]
    /\ connection' = [connection EXCEPT ![f] = IF Opens(f) THEN "list" ELSE "closed"]
    /\ UNCHANGED <<recordVars, author, wire, received, breaks>>

(* ListEvents: what follows a sequence.                                    *)
Following(sequence) == SubSeq(events, sequence + 1, Len(events))

(* Every event of the batch is written, and afterSequence follows.         *)
Writes(f, next) ==
    LET batch == Following(after[f])
    IN  /\ wire' = [wire EXCEPT ![f] = @ \o batch]
        /\ after' = [after EXCEPT ![f] = IF batch = <<>> THEN @ ELSE batch[Len(batch)].sequence]
        /\ connection' = [connection EXCEPT ![f] = next]
        /\ UNCHANGED <<recordVars, author, received, breaks>>

List(f) == connection[f] = "list" /\ Writes(f, "check")

(* The record is read after the events: an execution that ended in between *)
(* closes the stream.                                                      *)
Check(f) ==
    /\ connection[f] = "check"
    /\ connection' = [connection EXCEPT ![f] = IF ended THEN "ending" ELSE "wait"]
    /\ UNCHANGED <<recordVars, author, after, wire, received, breaks>>

(* Wait returns events, or nothing when its time is up.                    *)
Wait(f) ==
    /\ connection[f] = "wait"
    /\ \/ Following(after[f]) # <<>> /\ Writes(f, "list")
       \/ /\ connection' = [connection EXCEPT ![f] = "list"]
          /\ UNCHANGED <<recordVars, author, after, wire, received, breaks>>

Serve(f) == List(f) \/ Check(f) \/ Wait(f)

-----------------------------------------------------------------------------
(* The client.                                                             *)

Receive(f) ==
    /\ wire[f] # <<>>
    /\ received' = [received EXCEPT ![f] = Append(@, Head(wire[f]))]
    /\ wire' = [wire EXCEPT ![f] = Tail(@)]
    /\ UNCHANGED <<recordVars, author, connection, after, breaks>>

(* The stream is over when everything that was written has been read.      *)
Hangup(f) ==
    /\ connection[f] = "ending" /\ wire[f] = <<>>
    /\ connection' = [connection EXCEPT ![f] = "closed"]
    /\ UNCHANGED <<recordVars, author, after, wire, received, breaks>>

(* The connection, either side of it or the process is gone; or the client *)
(* has lost what it had, too.                                              *)
Break(f) ==
    /\ connection[f] # "closed" /\ breaks < MaxBreaks
    /\ breaks' = breaks + 1
    /\ connection' = [connection EXCEPT ![f] = "closed"]
    /\ wire' = [wire EXCEPT ![f] = <<>>]
    /\ \/ UNCHANGED received
       \/ received' = [received EXCEPT ![f] = <<>>]
    /\ UNCHANGED <<recordVars, author, after>>

Reading(f) == Connect(f) \/ Receive(f) \/ Hangup(f)

FollowerNext ==
    \/ SinkStep \/ SinkSaves \/ WorkerStep \/ WorkerSaves
    \/ \E f \in Follower : Serve(f) \/ Reading(f) \/ Break(f)

FollowerSpec == FollowerInit /\ [][FollowerNext]_followerVars

(* A handler that can go on does, and a client that has not given up reads *)
(* on and comes back.  Nothing makes anyone write, and nothing breaks      *)
(* connections forever (MaxBreaks).                                        *)
FollowerFairness ==
    \A f \in Follower : WF_followerVars(Serve(f)) /\ WF_followerVars(Reading(f))

-----------------------------------------------------------------------------
FollowerTypeOK ==
    /\ revision \in Nat /\ ended \in BOOLEAN
    /\ events \in Seq(Event)
    /\ author \in [Author -> [pc: {"new", "get", "sequence", "save", "conflict",
                                   "refused", "closed"},
                              revision: Nat, last: Nat]]
    /\ connection \in [Follower -> {"closed", "list", "check", "wait", "ending"}]
    /\ after \in [Follower -> Nat]
    /\ wire \in [Follower -> Seq(Event)]
    /\ received \in [Follower -> Seq(Event)]
    /\ breaks \in Nat

(* A client that comes back with the last event it has is given every      *)
(* event of the log exactly once and in order, across connections that     *)
(* break with events under way, whoever wrote them meanwhile: what it has  *)
(* is the beginning of the log (docs/architecture/0011, real-time events   *)
(* 1 and 4).                                                               *)
DeliveredInOrder ==
    \A f \in Follower :
        /\ Len(received[f]) <= Len(events)
        /\ received[f] = SubSeq(events, 1, Len(received[f]))

(* A client that does not give up has the whole log some time after the    *)
(* execution ended, also when its stream was closed before the last event. *)
FollowerSeesTheEnd ==
    \A f \in Follower : ended ~> (received[f] = events)

(* Not so: a stream that the handler closes itself may lack the last       *)
(* events, since the record is read after the log.                         *)
StreamEndsWithTheEnd ==
    \A f \in Follower :
        connection[f] = "ending" =>
            \E n \in DOMAIN (received[f] \o wire[f]) :
                (received[f] \o wire[f])[n].note = "terminal"

(* Not so: an event of a second writer, without a conflict of revisions,   *)
(* leaves the sink with a number that Save refuses.                        *)
SinkNeverRefused == author["sink"].pc # "refused"
=============================================================================
