------------------------- MODULE CredentialSelector -------------------------
(***************************************************************************)
(* The selector of internal/routing: which of the eligible credentials of  *)
(* a pool gets the next request.  Pick holds a mutex over the cursors, so  *)
(* it is one step.                                                         *)
(***************************************************************************)
EXTENDS Naturals, Sequences, FiniteSets, SequencesExt

CONSTANTS
    Credential,     \* identifiers, in their order
    Priority,       \* lower values win
    Capacity,       \* context ceiling of every credential, 0 when unknown
    Pool,           \* cursor keys: instance, subject and profile
    Sparing,        \* pools whose profile prefers the smallest sufficient account
    MaxKeys,        \* defaultMaximumCursorKeys
    MaxCursor       \* maximumSafeCursorValue

VARIABLES
    cursor,         \* next index of every key that has one
    turns           \* history: picks of a pool since its bucket or its cursor changed

vars == <<cursor, turns>>

NoTurns == [bucket |-> {}, picked |-> <<>>]

TypeOK ==
    /\ DOMAIN cursor \subseteq Pool /\ Cardinality(DOMAIN cursor) <= MaxKeys
    /\ \A k \in DOMAIN cursor : cursor[k] \in 1..MaxCursor
    /\ \A k \in Pool : /\ turns[k].bucket \subseteq Credential
                       /\ turns[k].picked \in Seq(turns[k].bucket)

Init ==
    /\ cursor = <<>>
    /\ turns = [k \in Pool |-> NoTurns]

-----------------------------------------------------------------------------
(* preferredBucket: sort, and keep the prefix that is as good as the first.*)

\* Credentials compare by priority, then, for the policy that prefers the
\* smallest sufficient account, known capacities before unknown ones and
\* small before large.
Grade(c, smallest) ==
    <<Priority[c], IF smallest /\ Capacity[c] = 0 THEN 1 ELSE 0,
      IF smallest THEN Capacity[c] ELSE 0>>

Precedes(g, h) ==
    \E i \in DOMAIN g : g[i] < h[i] /\ \A j \in 1..(i - 1) : g[j] = h[j]

Before(a, b, smallest) ==
    \/ Precedes(Grade(a, smallest), Grade(b, smallest))
    \/ Grade(a, smallest) = Grade(b, smallest) /\ a < b

Sorted(candidates, smallest) ==
    SetToSortSeq(candidates, LAMBDA a, b : Before(a, b, smallest))

Bucket(candidates, smallest) ==
    LET ordered == Sorted(candidates, smallest)
        end == SelectInSeq(ordered, LAMBDA c :
                               Grade(c, smallest) # Grade(ordered[1], smallest))
    IN  IF end = 0 THEN ordered ELSE SubSeq(ordered, 1, end - 1)

-----------------------------------------------------------------------------
(* Pick, for the round-robin strategy; fill-first takes the first of the   *)
(* bucket and touches nothing.                                             *)

\* A new key that would be one too many clears the map first.
Cursors(k) ==
    IF k \in DOMAIN cursor \/ Cardinality(DOMAIN cursor) < MaxKeys THEN cursor ELSE <<>>

Index(cursors, k) ==
    IF k \in DOMAIN cursors /\ cursors[k] < MaxCursor THEN cursors[k] ELSE 0

Chosen(bucket, index) == bucket[(index % Len(bucket)) + 1]

\* Picks are counted anew when the bucket is another one, when the pool gets
\* a cursor, and when its cursor starts over.
Turn(k, bucket, index) ==
    LET old == IF turns[k].bucket = Range(bucket) /\ index # 0 THEN turns[k].picked ELSE <<>>
        kept == IF Len(old) = Len(bucket) THEN Tail(old) ELSE old
    IN  [bucket |-> Range(bucket),
         picked |-> Append(kept, Chosen(bucket, index))]

\* Faulty variant: all pools share one index.
MovedTogether(k, cursors, index) ==
    (k :> index + 1) @@ [o \in DOMAIN cursors \ {k} |-> index + 1]

Moved(k, cursors, index) == (k :> index + 1) @@ cursors

Pick(k, candidates) ==
    LET bucket == Bucket(candidates, k \in Sparing)
        cursors == Cursors(k)
        index == Index(cursors, k)
    IN  /\ cursor' = Moved(k, cursors, index)
        /\ turns' = [turns EXCEPT ![k] = Turn(k, bucket, index)]

Next == \E k \in Pool, candidates \in SUBSET Credential \ {{}} : Pick(k, candidates)

Spec == Init /\ [][Next]_vars

-----------------------------------------------------------------------------
\* "RoutingRoundRobin balances requests across equally eligible credentials":
\* as long as a pool's bucket stays the same and its cursor is not reset, as
\* many picks as there are credentials go to all of them, whatever the other
\* pools do.
RotationVisitsAll ==
    \A k \in Pool : IsInjective(turns[k].picked)
=============================================================================
