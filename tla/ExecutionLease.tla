--------------------------- MODULE ExecutionLease ---------------------------
(***************************************************************************)
(* The lease of one execution in time: withExecutionLease with its         *)
(* heartbeat (internal/execution/service.go) over the execution_leases row *)
(* of internal/sqlitestore/execution_store.go.                             *)
(*                                                                         *)
(* A lease operation reads the clock first and runs its statement later.   *)
(* SQLite compares the two timestamps as text: formatExecutionTime writes  *)
(* the fraction of a second without its trailing zeros, and no fraction at *)
(* all for a whole second.  Time is counted in ticks, four to the second,  *)
(* and the fraction has two binary digits; what matters is that "." comes  *)
(* before the digits and the digits before "Z".                            *)
(***************************************************************************)
EXTENDS Naturals, Sequences, FiniteSets

CONSTANTS
    Worker,         \* recovery loops and immediate requests, each its own owner
    TTL,            \* lease duration, in seconds
    Readings,       \* the ticks of a second at which a clock is ever read
    ClockHorizon    \* bound on the clock

TicksPerSecond == 4

\* What the code guarantees of them.
ASSUME LeaseAssumption ==
    /\ TTL \in Nat \ {0}
    /\ Readings \subseteq 0..(TicksPerSecond - 1) /\ Readings # {}
    /\ ClockHorizon \in Nat /\ ClockHorizon >= TicksPerSecond
    /\ "none" \notin Worker

VARIABLES
    now,
    leaseRow,   \* the row of execution_leases
    doing,      \* what each worker does about the lease
    stamp       \* the clock reading each worker acts upon

leaseVars == <<now, leaseRow, doing, stamp>>

NoRow == [owner |-> "none", expires |-> 0]

LeaseInit ==
    /\ now \in Readings
    /\ leaseRow = NoRow
    /\ doing = [w \in Worker |-> "idle"]
    /\ stamp = [w \in Worker |-> 0]

-----------------------------------------------------------------------------
(* Timestamps as the database sees them.                                   *)

Dot == 1
Zee == 9
Digit(d) == 2 + d

\* The seconds have a fixed width; the fraction is printed without zeros at
\* its end.
Text(t) ==
    LET f == t % TicksPerSecond
        fraction == CASE f = 0 -> <<>>
                      [] f = 2 -> <<Dot, Digit(1)>>
                      [] OTHER -> <<Dot, Digit(f \div 2), Digit(f % 2)>>
    IN  <<t \div TicksPerSecond>> \o fraction \o <<Zee>>

\* a <= b as text: BINARY collation, decided at the first difference.
AtMost(a, b) ==
    LET x == Text(a)  y == Text(b)
    IN  x = y \/ \E k \in 1..Len(x) :
                    /\ k <= Len(y) /\ x[k] < y[k]
                    /\ \A j \in 1..(k - 1) : x[j] = y[j]

Expiry(t) == t + TTL * TicksPerSecond

-----------------------------------------------------------------------------
\* Every operation on the lease starts with options.Now().
ReadClock(w, from, to) ==
    /\ doing[w] = from
    /\ doing' = [doing EXCEPT ![w] = to]
    /\ stamp' = [stamp EXCEPT ![w] = now]
    /\ UNCHANGED <<now, leaseRow>>

\* AcquireLease: an absent row, an own row or one that has expired.
Acquire(w) ==
    /\ doing[w] = "acquiring"
    /\ IF leaseRow = NoRow \/ leaseRow.owner = w \/ AtMost(leaseRow.expires, stamp[w])
       THEN /\ leaseRow' = [owner |-> w, expires |-> Expiry(stamp[w])]
            /\ doing' = [doing EXCEPT ![w] = "holding"]
       ELSE /\ doing' = [doing EXCEPT ![w] = "idle"]
            /\ UNCHANGED leaseRow
    /\ UNCHANGED <<now, stamp>>

\* RenewLease: only an unexpired row of its own; otherwise the heartbeat
\* cancels the context of the work.
Renew(w) ==
    /\ doing[w] = "renewing"
    /\ IF leaseRow.owner = w /\ ~AtMost(leaseRow.expires, stamp[w])
       THEN /\ leaseRow' = [leaseRow EXCEPT !.expires = Expiry(stamp[w])]
            /\ doing' = [doing EXCEPT ![w] = "holding"]
       ELSE /\ doing' = [doing EXCEPT ![w] = "lost"]
            /\ UNCHANGED leaseRow
    /\ UNCHANGED <<now, stamp>>

\* Faulty variant: the row goes whoever owns it.
ReleaseAnyone(w) ==
    /\ doing[w] \in {"holding", "lost"}
    /\ leaseRow' = NoRow
    /\ doing' = [doing EXCEPT ![w] = "idle"]
    /\ UNCHANGED <<now, stamp>>

\* The work returns, with or without its lease: ReleaseLease.
Release(w) ==
    /\ doing[w] \in {"holding", "lost"}
    /\ leaseRow' = IF leaseRow.owner = w THEN NoRow ELSE leaseRow
    /\ doing' = [doing EXCEPT ![w] = "idle"]
    /\ UNCHANGED <<now, stamp>>

\* The process dies and its random identity with it.
WorkerDies(w) ==
    /\ Cardinality({v \in Worker : doing[v] = "dead"}) + 1 < Cardinality(Worker)
    /\ doing[w] # "dead"
    /\ doing' = [doing EXCEPT ![w] = "dead"]
    /\ UNCHANGED <<now, leaseRow, stamp>>

\* Time passes to the next moment at which some clock is read.
ClockTick ==
    /\ \E t \in (now + 1)..ClockHorizon :
          /\ t % TicksPerSecond \in Readings
          /\ \A s \in (now + 1)..(t - 1) : s % TicksPerSecond \notin Readings
          /\ now' = t
    /\ UNCHANGED <<leaseRow, doing, stamp>>

LeaseNext ==
    \/ \E w \in Worker : \/ ReadClock(w, "idle", "acquiring")
                         \/ ReadClock(w, "holding", "renewing")
                         \/ Acquire(w) \/ Renew(w) \/ Release(w) \/ WorkerDies(w)
    \/ ClockTick

LeaseSpec == LeaseInit /\ [][LeaseNext]_leaseVars

-----------------------------------------------------------------------------
LeaseTypeOK ==
    /\ now \in 0..ClockHorizon
    /\ leaseRow \in [owner: Worker \cup {"none"}, expires: 0..Expiry(ClockHorizon)]
    /\ doing \in [Worker -> {"idle", "acquiring", "holding", "renewing", "lost",
                          "dead"}]
    /\ stamp \in [Worker -> 0..ClockHorizon]

(* A lease changes hands only once it has expired: whoever finds another   *)
(* owner in the row he takes, takes it after the time it names             *)
(* (AcquireLease, "takes an expired execution lease").                     *)
TakeoverOnlyAfterExpiry ==
    [][leaseRow.owner # "none" /\ leaseRow'.owner \notin {leaseRow.owner, "none"}
          => leaseRow.expires <= now]_leaseVars

Second(t) == t \div TicksPerSecond

(* Nobody is dispossessed but by time: while a worker holds the lease and  *)
(* the second in which it expires has not begun, the row is its own        *)
(* (AcquireLease; ReleaseLease and RenewLease touch only the exact         *)
(* worker's row).  Within that second the text decides, and may take the   *)
(* lease too early: see TakeoverOnlyAfterExpiry.                           *)
HolderOwnsRow ==
    \A w \in Worker :
        doing[w] = "holding" /\ Second(now) < Second(Expiry(stamp[w])) => leaseRow.owner = w
=============================================================================
