------------------------- MODULE MCExecutionService -------------------------
(***************************************************************************)
(* Requests for the runs on ExecutionService.  Each run submits requests   *)
(* of one kind; the union of a few kinds stands where they must compete.   *)
(***************************************************************************)
EXTENDS ExecutionServiceProperties, TLC

Base(e) ==
    [owner |-> CHOOSE o \in Owner : TRUE, key |-> NoKey,
     hash |-> CHOOSE h \in Hash : TRUE, deferred |-> TRUE, async |-> FALSE,
     stream |-> FALSE, plan |-> FALSE, budget |-> FALSE, max |-> e]

Deferred  == {Base(0)}
Limited   == {[Base(2) EXCEPT !.plan = TRUE]}
Budgeted  == {[Base(0) EXCEPT !.budget = TRUE]}
Immediate == {[Base(0) EXCEPT !.deferred = FALSE]}
Streaming == {[Base(0) EXCEPT !.deferred = FALSE, !.stream = TRUE]}
Tasked    == {[Base(1) EXCEPT !.async = TRUE]}
Retried   == {[Base(0) EXCEPT !.async = TRUE]}

Synchronous == Deferred \cup Immediate \cup Streaming
Durable == Deferred \cup Limited \cup Budgeted

Case(running, submitted, crashes, stalls, cancellations) ==
    [instances |-> running, requests |-> submitted, deaths |-> crashes,
     pauses |-> stalls, cancels |-> cancellations]

\* Two instances around a synchronous execution, with a crash or a
\* cancellation, or one instance that starts and polls a provider task, and
\* may crash, and lose its lease for a while.
Executions ==
    {Case(Instance, Synchronous, 1, 0, 0), Case(Instance, Synchronous, 0, 0, 1)}
        \cup {Case({i}, Tasked, 1, 1, 1) : i \in Instance}

\* Retries through a crash and a cancellation.
Retries == {Case(Instance, Durable, 1, 0, 1)}

\* Nothing fails.
ImmediateOnly == {Case(Instance, Immediate, 0, 0, 0)}
RetriedTask == {Case(Instance, Retried, 0, 0, 0)}

\* Instances differ in nothing but their names.
Symmetry == Permutations(Instance)
=============================================================================
