----------------------------- MODULE RateLimiter -----------------------------
(***************************************************************************)
(* server/lib/rate-limiter.ts: a rolling window of time stamps per caller. *)
(* The map is in memory. A caller without an entry and one with an empty   *)
(* list behave alike and are both the empty sequence.                      *)
(***************************************************************************)
EXTENDS Naturals, Sequences

CONSTANTS
    Callers,        \* keys: "ip:" and the address clientIp() resolves
    MaxEvents,      \* takes allowed per window
    Window,         \* windowMs
    MaxTime         \* bound on the clock

ASSUME LimiterAssumption ==
    MaxEvents \in Nat \ {0} /\ Window \in Nat \ {0} /\ MaxTime \in Nat

VARIABLES
    now,            \* the clock
    events          \* events[k]: the stamps kept for k, oldest first

limiterVars == <<now, events>>

LimiterTypeOK ==
    /\ now \in 0..MaxTime
    /\ events \in [Callers -> Seq(0..MaxTime)]
    /\ \A k \in Callers : Len(events[k]) <= MaxEvents

LimiterInit ==
    /\ now = 0
    /\ events = [k \in Callers |-> <<>>]

\* Mutant: a stamp is let go one tick early.
FreshShort(s) == (now - s) + 1 < Window

Fresh(s) == now - s < Window

\* events.get(key).filter: a recursive function, which the proofs can expand.
Alive(k) ==
    LET kept[n \in 0..Len(events[k])] ==
          IF n = 0 THEN <<>>
          ELSE IF Fresh(events[k][n]) THEN Append(kept[n - 1], events[k][n])
          ELSE kept[n - 1]
    IN kept[Len(events[k])]

Admitted(k) == Len(Alive(k)) < MaxEvents

RetryAfter(k) == (Alive(k)[1] + Window) - now

TakeGranted(k) ==
    /\ Admitted(k)
    /\ events' = [events EXCEPT ![k] = Append(Alive(k), now)]
    /\ UNCHANGED now

TakeRefused(k) ==
    /\ ~Admitted(k)
    /\ events' = [events EXCEPT ![k] = Alive(k)]
    /\ UNCHANGED now

SweepLimiter ==
    /\ events' = [k \in Callers |-> Alive(k)]
    /\ UNCHANGED now

Tick ==
    /\ now < MaxTime
    /\ now' = now + 1
    /\ UNCHANGED events

ForgetCallers ==
    /\ events' = [k \in Callers |-> <<>>]
    /\ UNCHANGED now

===============================================================================
