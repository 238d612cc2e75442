------------------------ MODULE MCRoutingAndStreams ------------------------
(***************************************************************************)
(* The two halves of the choice of a credential, and the two streaming     *)
(* decoders that answer with it, side by side in one run: the initial      *)
(* state says which of them runs.                                          *)
(*                                                                         *)
(*   feedback   two credentials of one shared account: a path depends on   *)
(*              the account, which no success clears, and on the           *)
(*              credential's own state                                     *)
(*   selector   three credentials of one priority, two of them with a      *)
(*              known capacity                                             *)
(***************************************************************************)
EXTENDS RuntimeFeedback, MCStreams

CONSTANTS account, own1, own2
AllKeys == {account, own1, own2}
TwoPaths == <<<<account, own1>>, <<account, own2>>>>
OwnStates == <<<<own1>>, <<own2>>>>

CONSTANTS Pool, Sparing

CONSTANTS ResponsesFrames, ChatChunks    \* bounds on the length of a stream

VARIABLES part, cursor, turns, decoder, log, end, frames
selectorVars == <<cursor, turns>>
streamVars == <<decoder, log, end, frames>>

Selector == INSTANCE CredentialSelector
                WITH Credential <- {1, 2, 3}, Priority <- <<1, 1, 1>>,
                     Capacity <- <<8, 0, 8>>, MaxKeys <- 2, MaxCursor <- 4

Responses == INSTANCE ResponsesStream WITH Frame <- Frames, MaxFrames <- ResponsesFrames
Chat      == INSTANCE ChatStream WITH Chunk <- Chunks, MaxFrames <- ChatChunks

ResponsesInit == part = "responses" /\ Init /\ Selector!Init /\ Responses!Init
PartsInit ==
    \/ part \in {"feedback", "selector"} /\ Init /\ Selector!Init /\ Responses!Init
    \/ ResponsesInit
    \/ part = "chat" /\ Init /\ Selector!Init /\ Chat!Init

FeedbackStep == part = "feedback" /\ Next /\ UNCHANGED <<part, selectorVars, streamVars>>
SelectorStep == part = "selector" /\ Selector!Next /\ UNCHANGED <<part, vars, streamVars>>
ResponsesStep == part = "responses" /\ Responses!Next /\ UNCHANGED <<part, vars, selectorVars>>
ChatStep == part = "chat" /\ Chat!Next /\ UNCHANGED <<part, vars, selectorVars>>

allVars == <<part, vars, selectorVars, streamVars>>
PartsSpec ==
    PartsInit /\ [][FeedbackStep \/ SelectorStep \/ ResponsesStep \/ ChatStep]_allVars
ResponsesSpec == ResponsesInit /\ [][ResponsesStep]_allVars

\* Requests, and pools of one policy, differ in nothing but their names.
Symmetry == Permutations(Request) \cup Permutations(Pool \ Sparing)

-----------------------------------------------------------------------------
(* The properties of the parts, under the names they have there.           *)
RotationVisitsAll == Selector!RotationVisitsAll

(* Of both decoders; the log of a chat is also in order.                   *)
ReaderSeesTheResponse ==
    /\ part = "responses" => Responses!ReaderSeesTheResponse
    /\ part = "chat" => Chat!ReaderSeesTheResponse /\ Chat!HistoryInOrder

(* What the decoder believes of its items, and that it completes them.     *)
ItemsAsTold ==
    part = "responses" => Responses!PartsMatchItems /\ Responses!CompletedLeavesNothingOpen

HistoryInOrder == part = "responses" => Responses!HistoryInOrder

FinalStands == [][part = "responses" => Responses!FinalStandsStep]_allVars
=============================================================================
