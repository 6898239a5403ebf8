----------------------------- MODULE OfficerDesk -----------------------------
(***************************************************************************)
(* server/account/officer.ts behind its routes: registration and login     *)
(* share one limiter of five attempts an hour per address. Officer and     *)
(* sessions are SQLite rows and survive a restart, the limiter does not.   *)
(* checks is the observer's: when a secret was compared for a caller.      *)
(***************************************************************************)
EXTENDS RateLimiter, FiniteSets

CONSTANTS
    Officers,       \* display name and password of those who may register
    MaxDesk,        \* bound: live officer sessions
    Nobody

VARIABLES
    officer,        \* the row of officer_accounts, or Nobody
    desk,           \* officer_sessions: id -> "absent", "live" or "late"
    checks          \* checks[k]: times a code or a password of k was compared

officerVars == <<limiterVars, officer, desk, checks>>

OfficerTypeOK ==
    /\ LimiterTypeOK
    /\ officer \in Officers \cup {Nobody}
    /\ desk \in [1..MaxDesk -> {"absent", "live", "late"}]
    /\ checks \in [Callers -> Seq(0..MaxTime)]

OfficerInit ==
    /\ LimiterInit
    /\ officer = Nobody
    /\ desk = [i \in 1..MaxDesk |-> "absent"]
    /\ checks = [k \in Callers |-> <<>>]

Compare(k) == checks' = [checks EXCEPT ![k] = Append(@, now)]

\* createSession
OpenDesk == \E i \in 1..MaxDesk : desk[i] = "absent" /\ desk' = [desk EXCEPT ![i] = "live"]

\* Registration with the right commissioning code and a valid form.
RegisterOfficer(k, o) ==
    /\ TakeGranted(k)
    /\ Compare(k)
    /\ officer = Nobody
    /\ officer' = o
    /\ OpenDesk

\* A wrong code, an officer that exists, or a form that is refused.
RefuseOfficer(k) ==
    /\ TakeGranted(k)
    /\ Compare(k)
    /\ UNCHANGED <<officer, desk>>

LoginOfficer(k, o) ==
    /\ TakeGranted(k)
    /\ Compare(k)
    /\ \/ officer = o /\ OpenDesk
       \/ officer # o /\ UNCHANGED desk
    /\ UNCHANGED officer

OfficerLimited(k) == TakeRefused(k) /\ UNCHANGED <<officer, desk, checks>>

LapseDesk(i) ==
    /\ desk[i] = "live"
    /\ desk' = [desk EXCEPT ![i] = "late"]
    /\ UNCHANGED <<limiterVars, officer, checks>>

\* logout, getBySessionToken of a late row, or purgeExpired.
CloseDesk(i) ==
    /\ desk[i] # "absent"
    /\ desk' = [desk EXCEPT ![i] = "absent"]
    /\ UNCHANGED <<limiterVars, officer, checks>>

OfficerRestart ==
    /\ ForgetCallers
    /\ checks' = [k \in Callers |-> <<>>]
    /\ UNCHANGED <<officer, desk>>

OfficerNext ==
    \/ \E k \in Callers :
         \/ RefuseOfficer(k) \/ OfficerLimited(k)
         \/ \E o \in Officers : RegisterOfficer(k, o) \/ LoginOfficer(k, o)
    \/ \E i \in 1..MaxDesk : LapseDesk(i) \/ CloseDesk(i)
    \/ (SweepLimiter \/ Tick) /\ UNCHANGED <<officer, desk, checks>>
    \/ OfficerRestart

OfficerSpec == OfficerInit /\ [][OfficerNext]_officerVars

-------------------------------------------------------------------------------
(* Properties.                                                               *)

\* Secrets compared for k in the Window ticks up to and including t.
ComparedUpTo(k, t) == {i \in DOMAIN checks[k] : checks[k][i] <= t /\ t - checks[k][i] < Window}

\* In every window of one life of the process an address has at most MaxEvents
\* codes and passwords compared, registrations and logins together. It is turned
\* away exactly when its window is full, however sweeps and refusals prune the
\* list, and the wait it is told is the shortest after which it is let in again
\* (rate-limiter.ts:32-50, index.ts:1572-1581, 1634-1643).
AttemptsAreMetered ==
    \A k \in Callers :
        /\ Cardinality(ComparedUpTo(k, now)) <= MaxEvents
        /\ Admitted(k) <=> Cardinality(ComparedUpTo(k, now)) < MaxEvents
        /\ ~Admitted(k) =>
             \A t \in now..(now + Window) :
                 Cardinality(ComparedUpTo(k, t)) < MaxEvents <=> t >= now + RetryAfter(k)
===============================================================================
