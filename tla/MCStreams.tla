----------------------------- MODULE MCStreams -----------------------------
(***************************************************************************)
(* What the providers of the streaming runs send.  The Responses provider  *)
(* has a message a, a call b, a search s and a reasoning item r, told by   *)
(* their positions and, mostly, their identifiers, in pieces, as a whole   *)
(* and in the snapshot at the end, in any order.  The Chat provider has    *)
(* two choices, the first with two calls.                                  *)
(***************************************************************************)
EXTENDS Integers, Sequences, TLC

x  == <<"x">>
xy == <<"x", "y">>

-----------------------------------------------------------------------------
About(id, index, kind) == [id |-> id, index |-> index, kind |-> kind]
MessageParts == <<[kind |-> "message", slot |-> 0, text |-> xy]>>

MessageFrames ==
    {About("a", 0, "message") @@ f : f \in
        {[type |-> "item.added", status |-> "in_progress"],
         [type |-> "part.added", slot |-> 0],
         [type |-> "delta", slot |-> 0, text |-> x],
         [type |-> "done", slot |-> 0, text |-> x],
         [type |-> "done", slot |-> 0, text |-> xy]}}
    \cup {About("a", 0, "refusal") @@ [type |-> "delta", slot |-> 1, text |-> x]}
    \cup {About("a", 0, "message") @@ [type |-> "item.done", status |-> "", parts |-> MessageParts],
          About("", 0, "message") @@ [type |-> "item.done", status |-> "completed", parts |-> MessageParts]}

CallFrames ==
    {About("b", 1, "function_call") @@ f : f \in
        {[type |-> "item.added", status |-> ""],
         [type |-> "delta", slot |-> 0, text |-> <<>>],
         [type |-> "delta", slot |-> 0, text |-> x],
         [type |-> "done", slot |-> 0, text |-> xy]}}

SearchFrames ==
    {About("s", 2, "web_search_call") @@ f : f \in
        {[type |-> "item.added", status |-> "in_progress"],
         [type |-> "item.done", status |-> "completed", parts |-> <<>>]}}

\* The second one gives the reasoning item the position of the call.
ReasoningFrames ==
    {About("r", 3, "summary") @@ [type |-> "delta", slot |-> 0, text |-> x],
     About("r", 1, "reasoning") @@ [type |-> "delta", slot |-> 0, text |-> x]}

Snapshot(id, status) ==
    <<[id |-> id, kind |-> "message", status |-> status, parts |-> MessageParts]>>
Ended(status, output) == [type |-> "ended", status |-> status, output |-> output]

EndFrames ==
    {Ended("completed", <<>>), Ended("completed", Snapshot("", "completed")),
     Ended("completed", Snapshot("a", "in_progress")),
     Ended("incomplete", Snapshot("a", "incomplete"))}
    \cup {[type |-> t] : t \in {"error", "note", "invalid", "unreadable"}}

Frames == MessageFrames \cup CallFrames \cup SearchFrames \cup ReasoningFrames \cup EndFrames

-----------------------------------------------------------------------------
Silent == [kind \in {"message", "refusal", "reasoning"} |-> <<>>]
Nothing == [text |-> Silent, calls |-> <<>>]
Whole == [text |-> [Silent EXCEPT !["message"] = xy, !["refusal"] = x], calls |-> <<xy>>]

Choice(n) == [choice |-> n, text |-> Silent, tools |-> <<>>, finish |-> "", message |-> Nothing]
Says(c, kind) == [c EXCEPT !.text[kind] = x]
Calls(c, n, text) == [c EXCEPT !.tools = <<[index |-> n, text |-> text]>>]
Ends(c, reason, message) == [c EXCEPT !.finish = reason, !.message = message]

Deltas ==
    {Says(Choice(0), "message"), Says(Choice(0), "reasoning"), Says(Choice(1), "message"),
     Calls(Choice(0), 0, x), Calls(Choice(0), 1, <<>>)}
Finishes ==
    {Ends(Choice(0), reason, message) :
        reason \in {"stop", "length", "content_filter"}, message \in {Nothing, Whole}}
    \cup {Ends(Calls(Choice(1), 0, x), "stop", Nothing)}

Chunks ==
    {[type |-> "choices", choices |-> <<c>>] : c \in Deltas \cup Finishes}
    \cup {[type |-> "choices",
           choices |-> <<Says(Choice(0), "message"), Says(Choice(1), "message")>>]}
    \cup {[type |-> t] : t \in {"error", "invalid", "unreadable"}}
=============================================================================
