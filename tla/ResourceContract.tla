-------------------------- MODULE ResourceContract --------------------------
(***************************************************************************)
(* What the resource service promises its callers: a resource becomes      *)
(* available once, under the quota, and stops being available for good;    *)
(* its bytes are there for as long as it is available.                     *)
(***************************************************************************)
EXTENDS Naturals, FiniteSets, FiniteSetsExt

CONSTANTS
    Resource,
    Size,           \* bytes of every resource
    Quota           \* bytes all available resources may have together

VARIABLES
    available,      \* resources whose content may be asked for
    past,           \* resources that were available, or never will be
    bytes           \* resources whose content is stored

vars == <<available, past, bytes>>

Total(S) == MapThenSumSet(LAMBDA r : Size[r], S)

Init == available = {} /\ past = {} /\ bytes = {}

Store(r) ==
    /\ r \notin available \cup past \cup bytes
    /\ bytes' = bytes \cup {r} /\ UNCHANGED <<available, past>>

Offer(r) ==
    /\ r \in bytes \ (available \cup past)
    /\ Total(available \cup {r}) <= Quota
    /\ available' = available \cup {r} /\ UNCHANGED <<past, bytes>>

Withdraw(r) ==
    /\ r \notin past
    /\ available' = available \ {r} /\ past' = past \cup {r}
    /\ UNCHANGED bytes

Remove(r) ==
    /\ r \in bytes \ available
    /\ bytes' = bytes \ {r} /\ UNCHANGED <<available, past>>

Next == \E r \in Resource : Store(r) \/ Offer(r) \/ Withdraw(r) \/ Remove(r)

Spec == Init /\ [][Next]_vars
=============================================================================
