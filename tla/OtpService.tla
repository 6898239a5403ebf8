------------------------------ MODULE OtpService ------------------------------
(***************************************************************************)
(* server/lib/otp-service.ts: the one-time-code store of the server, with  *)
(* the two ways its clients issue a code.                                  *)
(*                                                                         *)
(*   two-phase  beginIssue; await the transport; commitIssue               *)
(*              (registration e-mail, password recovery, SMS, WhatsApp)    *)
(*   one-phase  issue; then await the transport                            *)
(*              (services/contact-provider.ts)                             *)
(*                                                                         *)
(* Requests interleave at the await, so several two-phase requests for one *)
(* key can be past beginIssue at once. The rolling window is an array of   *)
(* time stamps in the code; the stamps of a key are distinct because       *)
(* Cooldown > 0, so the model keeps them as a set.                         *)
(***************************************************************************)
EXTENDS Naturals, FiniteSets

CONSTANTS
    Keys,           \* keys of the service's maps
    Reqs,           \* concurrent issuing requests
    Codes,          \* the six-digit codes
    Ttl,            \* ttlMs
    MaxAttempts,    \* maxAttempts
    Cooldown,       \* resendCooldownMs
    MaxSends,       \* maxSendsPerWindow
    Window,         \* sendWindowMs
    MaxTime,        \* bound of the model's clock
    None

Times == 0..MaxTime

(* Every instance the server builds keeps the defaults, a cooldown of one  *)
(* minute and a window of one hour; a code lives ten minutes, five by SMS. *)
ASSUME OtpAssumption ==
    /\ Ttl \in Nat \ {0}
    /\ MaxAttempts \in Nat \ {0}
    /\ Cooldown \in Nat \ {0}
    /\ MaxSends \in Nat \ {0}
    /\ Window \in Nat
    /\ Cooldown <= Window
    /\ MaxTime \in Nat
    /\ None \notin Nat
    /\ None \notin [code : Codes, expiresAt : Nat, attempts : 0..MaxAttempts, at : Times]
    /\ None \notin [key : Keys, code : Codes, expiresAt : Nat]
    /\ None \notin [code : Codes, left : 1..MaxAttempts]

VARIABLES
    now,
    client,         \* client[k]: how the one client that uses k issues; it never changes
    active,         \* active[k]: the stored code, or None; at is the time it was stored
    stamps,         \* history[k].stamps
    lastSent,       \* history[k].lastSentAt
    req,            \* req[r]: what a two-phase request holds across its await
    \* observers
    sent,           \* sent[k]: every time a code of k was stored
    mailbox,        \* mailbox[k]: the codes the transport delivered
    tried,          \* tried[k][t]: guesses compared with the code stored at t
    accepted        \* accepted[k]: <<stored at, accepted at>> of every right guess

vars == <<now, client, active, stamps, lastSent, req, sent, mailbox, tried, accepted>>

ActiveOtp == [code : Codes, expiresAt : Nat, attempts : 0..(MaxAttempts - 1), at : Times]
Pending   == [key : Keys, code : Codes, expiresAt : Nat]

TypeOK ==
    /\ now \in Times
    /\ client \in [Keys -> {"two-phase", "one-phase"}]
    /\ active \in [Keys -> ActiveOtp \cup {None}]
    /\ stamps \in [Keys -> SUBSET Times]
    /\ lastSent \in [Keys -> Times \cup {None}]
    /\ req \in [Reqs -> Pending \cup {None}]
    /\ sent \in [Keys -> SUBSET Times]
    /\ mailbox \in [Keys -> SUBSET Codes]
    /\ tried \in [Keys -> [Times -> Nat]]
    /\ accepted \in [Keys -> SUBSET (Times \X Times)]

Init ==
    /\ now = 0
    /\ client \in [Keys -> {"two-phase", "one-phase"}]
    /\ active = [k \in Keys |-> None]
    /\ stamps = [k \in Keys |-> {}]
    /\ lastSent = [k \in Keys |-> None]
    /\ req = [r \in Reqs |-> None]
    /\ sent = [k \in Keys |-> {}]
    /\ mailbox = [k \in Keys |-> {}]
    /\ tried = [k \in Keys |-> [t \in Times |-> 0]]
    /\ accepted = [k \in Keys |-> {}]

-------------------------------------------------------------------------------
(* The checks beginIssue and commitIssue share. Both prune the stored      *)
(* stamps before they decide, also when they refuse.                       *)

Recent(k) == {s \in stamps[k] : now - s < Window}

\* Mutant: the cap admits one more.
UnderCapOffByOne(k) == Cardinality(Recent(k)) <= MaxSends

UnderCap(k) == Cardinality(Recent(k)) < MaxSends

Cooled(k) == lastSent[k] # None => now - lastSent[k] >= Cooldown

MaySend(k) == UnderCap(k) /\ Cooled(k)

Prune(k) == stamps' = [stamps EXCEPT ![k] = Recent(k)]

\* The state a granted commit writes: a stamp and a code with no attempts.
Store(k, c, expiresAt) ==
    /\ stamps' = [stamps EXCEPT ![k] = Recent(k) \cup {now}]
    /\ lastSent' = [lastSent EXCEPT ![k] = now]
    /\ active' = [active EXCEPT ![k] =
                     [code |-> c, expiresAt |-> expiresAt, attempts |-> 0, at |-> now]]
    /\ sent' = [sent EXCEPT ![k] = @ \cup {now}]

\* Mutant: the code is stored before the transport has it.
BeginIssueStoresEarly(r, k, c) ==
    /\ client[k] = "two-phase"
    /\ req[r] = None
    /\ MaySend(k)
    /\ Store(k, c, now + Ttl)
    /\ req' = [req EXCEPT ![r] = [key |-> k, code |-> c, expiresAt |-> now + Ttl]]
    /\ UNCHANGED <<now, client, mailbox, tried, accepted>>

\* beginIssue: nothing but the pruning is recorded; the code goes to the transport.
BeginIssue(r, k, c) ==
    /\ client[k] = "two-phase"
    /\ req[r] = None
    /\ MaySend(k)
    /\ Prune(k)
    /\ req' = [req EXCEPT ![r] = [key |-> k, code |-> c, expiresAt |-> now + Ttl]]
    /\ UNCHANGED <<now, client, active, lastSent, sent, mailbox, tried, accepted>>

\* beginIssue or commitIssue answers cooldown or rate-limited.
BeginRefused(k) ==
    /\ ~MaySend(k)
    /\ Prune(k)
    /\ UNCHANGED <<now, client, active, lastSent, req, sent, mailbox, tried, accepted>>

\* Mutant: the commit trusts the checks beginIssue made before the await.
CommitIssueUnchecked(k, p) == Store(k, p.code, p.expiresAt)

\* The transport confirms; commitIssue runs in the same synchronous stretch
\* and repeats the checks.
CommitIssue(k, p) ==
    IF MaySend(k)
    THEN Store(k, p.code, p.expiresAt)
    ELSE Prune(k) /\ UNCHANGED <<active, lastSent, sent>>

DeliveredThenCommit(r) ==
    /\ req[r] # None
    /\ LET p == req[r] IN
         /\ mailbox' = [mailbox EXCEPT ![p.key] = @ \cup {p.code}]
         /\ CommitIssue(p.key, p)
    /\ req' = [req EXCEPT ![r] = None]
    /\ UNCHANGED <<now, client, tried, accepted>>

\* The transport throws: the request returns and the service is untouched.
DeliveryFailed(r) ==
    /\ req[r] # None
    /\ req' = [req EXCEPT ![r] = None]
    /\ UNCHANGED <<now, client, active, stamps, lastSent, sent, mailbox, tried, accepted>>

\* issue(): begin and commit in one call, before the transport has the code.
Issue(k, c) ==
    /\ client[k] = "one-phase"
    /\ MaySend(k)
    /\ Store(k, c, now + Ttl)
    /\ UNCHANGED <<now, client, req, mailbox, tried, accepted>>

-------------------------------------------------------------------------------
VerifyExpired(k) ==
    /\ active[k] # None
    /\ now >= active[k].expiresAt
    /\ active' = [active EXCEPT ![k] = None]
    /\ UNCHANGED <<now, client, stamps, lastSent, req, sent, mailbox, tried, accepted>>

\* Mutant: a wrong guess does not count.
AttemptedUncounted(e) == e.attempts

Attempted(e) == e.attempts + 1

\* Mutant: the right guess leaves the code armed.
AfterGuessReusable(e, n, match) == IF n >= MaxAttempts THEN None ELSE [e EXCEPT !.attempts = n]

\* Mutant: the last wrong guess leaves the code armed.
AfterGuessOneMore(e, n, match) ==
    IF match \/ n > MaxAttempts THEN None ELSE [e EXCEPT !.attempts = n]

AfterGuess(e, n, match) ==
    IF match \/ n >= MaxAttempts THEN None ELSE [e EXCEPT !.attempts = n]

\* verify() on a live entry: count the attempt, compare, and drop the entry on
\* a match or when the attempt was the last one.
Verify(k, c) ==
    /\ active[k] # None
    /\ now < active[k].expiresAt
    /\ LET e     == active[k]
           n     == Attempted(e)
           match == n <= MaxAttempts /\ c = e.code
       IN
         /\ tried' = IF n <= MaxAttempts THEN [tried EXCEPT ![k][e.at] = @ + 1] ELSE tried
         /\ active' = [active EXCEPT ![k] = AfterGuess(e, n, match)]
         /\ accepted' = IF match
                        THEN [accepted EXCEPT ![k] = @ \cup {<<e.at, now>>}]
                        ELSE accepted
    /\ UNCHANGED <<now, client, stamps, lastSent, req, sent, mailbox>>

\* sweep(): expired codes go, and the whole history of a key with no recent stamp.
Sweep ==
    /\ active' = [k \in Keys |-> IF active[k] # None /\ now >= active[k].expiresAt
                                 THEN None ELSE active[k]]
    /\ stamps' = [k \in Keys |-> IF Recent(k) = {} THEN {} ELSE stamps[k]]
    /\ lastSent' = [k \in Keys |-> IF Recent(k) = {} THEN None ELSE lastSent[k]]
    /\ UNCHANGED <<now, client, req, sent, mailbox, tried, accepted>>

Tick ==
    /\ now < MaxTime
    /\ now' = now + 1
    /\ UNCHANGED <<client, active, stamps, lastSent, req, sent, mailbox, tried, accepted>>

Next ==
    \/ \E r \in Reqs, k \in Keys, c \in Codes : BeginIssue(r, k, c)
    \/ \E k \in Keys : BeginRefused(k) \/ VerifyExpired(k)
    \/ \E r \in Reqs : DeliveredThenCommit(r) \/ DeliveryFailed(r)
    \/ \E k \in Keys, c \in Codes : Issue(k, c) \/ Verify(k, c)
    \/ Sweep
    \/ Tick

Spec == Init /\ [][Next]_vars

-------------------------------------------------------------------------------
(* Header, "issuance per contact per rolling hour window is capped": however  *)
(* begins, deliveries, refusals and sweeps interleave, no window of length    *)
(* Window holds more than MaxSends stored codes of one key.                   *)
SendBudget ==
    \A k \in Keys, t \in Times :
        Cardinality({s \in sent[k] : s <= t /\ t - s < Window}) <= MaxSends

(* Header, "re-issuing for the same contact is cooldown-limited": two stored  *)
(* codes of a key are a cooldown apart even when both requests passed         *)
(* beginIssue together, and even after sweep() has dropped the history.       *)
CooldownGap ==
    \A k \in Keys : \A s, t \in sent[k] : s < t => t - s >= Cooldown

(* Header, "wrong attempts are capped": over the whole life of a stored code  *)
(* at most MaxAttempts guesses are ever compared with it.                     *)
AttemptCap == \A k \in Keys, t \in Times : tried[k][t] <= MaxAttempts

(* Header, "a code is single-use" and "codes expire after a TTL": one stored  *)
(* code lets at most one guess in, and never Ttl or more after it was stored, *)
(* however long its delivery took.                                            *)
AcceptedOnceAndFresh ==
    \A k \in Keys : \A a, b \in accepted[k] :
        /\ a[1] = b[1] => a = b
        /\ a[1] \in sent[k] /\ a[1] <= a[2] /\ a[2] - a[1] < Ttl

(* beginIssue's comment, "a failed delivery never persists an undeliverable   *)
(* code": a key of a two-phase client only ever answers to a code the         *)
(* transport has handed over.                                                 *)
StoredImpliesDelivered ==
    \A k \in Keys : client[k] = "two-phase" /\ active[k] # None => active[k].code \in mailbox[k]

(* The service keeps the promise its clients are written against.             *)
ArmedCodes ==
    [k \in Keys |-> IF active[k] = None THEN None
                    ELSE [code |-> active[k].code, left |-> MaxAttempts - active[k].attempts]]

Promise == INSTANCE OneTimeCode WITH armed <- ArmedCodes

ImplementsOneTimeCode == Promise!OtcSpec
===============================================================================
