--------------------------- MODULE GoogleChallenge ---------------------------
(***************************************************************************)
(* server/account/google-provider.ts over server/lib/oauth-state.ts: the   *)
(* sign-in of a wallet with Google. A redirect keeps the challenge object  *)
(* it peeked across three awaits (the token exchange, the verification of  *)
(* the ID token, the profile) and marks that object at the end, whether it *)
(* is still in the book or not. State, nonce and PKCE verifier are random  *)
(* and never repeat: a challenge, its state and its nonce are one value.   *)
(***************************************************************************)
EXTENDS Naturals

CONSTANTS
    Signers,        \* wallets with an account
    States,         \* bound: challenges begun
    Redirects,      \* bound: callback requests
    NoGoogle

VARIABLES
    challenge,      \* challenge[s]: the object, or NoGoogle before begin()
    redirect,       \* redirect[r]: the request and what it holds, or NoGoogle
    linked,         \* wallets whose row has googleLinked
    proven,         \* observer: challenges whose nonce came back in a verified token
    completions     \* observer: how often complete() accepted a challenge

googleVars == <<challenge, redirect, linked, proven, completions>>

GooglePhases == {"exchanging", "verifying", "profiling", "over"}

OAuthChallenge == [wallet : Signers, booked : BOOLEAN, late : BOOLEAN,
                   redirectVerified : BOOLEAN, consumed : BOOLEAN]

GoogleRedirect == [of : States, phase : GooglePhases]

\* undefined is no object.
ASSUME GoogleAssumption == NoGoogle \notin OAuthChallenge \cup GoogleRedirect

GoogleTypeOK ==
    /\ challenge \in [States -> OAuthChallenge \cup {NoGoogle}]
    /\ redirect \in [Redirects -> GoogleRedirect \cup {NoGoogle}]
    /\ linked \subseteq Signers
    /\ proven \subseteq States
    /\ completions \in [States -> 0..1]

GoogleInit ==
    /\ challenge = [s \in States |-> NoGoogle]
    /\ redirect = [r \in Redirects |-> NoGoogle]
    /\ linked = {}
    /\ proven = {}
    /\ completions = [s \in States |-> 0]

Begun(s) == challenge[s] # NoGoogle
Booked(s) == Begun(s) /\ challenge[s].booked

GoogleBegin(s, w) ==
    /\ ~Begun(s)
    /\ challenge' = [challenge EXCEPT ![s] =
           [wallet |-> w, booked |-> TRUE, late |-> FALSE, redirectVerified |-> FALSE, consumed |-> FALSE]]
    /\ UNCHANGED <<redirect, linked, proven, completions>>

\* peek() drops a late challenge; a consumed one and a used one are refused.
Peekable(s) == Booked(s) /\ ~challenge[s].consumed /\ ~challenge[s].late

RedirectStarts(r, s) ==
    /\ redirect[r] = NoGoogle
    /\ Peekable(s) /\ ~challenge[s].redirectVerified
    /\ redirect' = [redirect EXCEPT ![r] = [of |-> s, phase |-> "exchanging"]]
    /\ UNCHANGED <<challenge, linked, proven, completions>>

DropLate(s) ==
    /\ Booked(s) /\ challenge[s].late
    /\ challenge' = [challenge EXCEPT ![s].booked = FALSE]
    /\ UNCHANGED <<redirect, linked, proven, completions>>

At(r, phase) == redirect[r] # NoGoogle /\ redirect[r].phase = phase

Exchanged(r) ==
    /\ At(r, "exchanging")
    /\ redirect' = [redirect EXCEPT ![r].phase = "verifying"]
    /\ UNCHANGED <<challenge, linked, proven, completions>>

\* Mutant: any ID token of the client will do.
NonceMatchesAny(n, s) == n \in States

NonceMatches(n, s) == n = s

\* The ID token is genuine and was issued for the challenge n.
TokenVerified(r, n) ==
    /\ At(r, "verifying")
    /\ Begun(n)
    /\ NonceMatches(n, redirect[r].of)
    /\ redirect' = [redirect EXCEPT ![r].phase = "profiling"]
    /\ proven' = proven \cup {n}
    /\ UNCHANGED <<challenge, linked, completions>>

\* The profile agrees, or there is no access token to ask for it.
RedirectSucceeds(r) ==
    /\ At(r, "profiling")
    /\ challenge' = [challenge EXCEPT ![redirect[r].of].redirectVerified = TRUE]
    /\ redirect' = [redirect EXCEPT ![r].phase = "over"]
    /\ UNCHANGED <<linked, proven, completions>>

\* An error, a time-out, a bad token or another profile at any of the awaits.
RedirectFails(r) ==
    /\ redirect[r] # NoGoogle /\ ~At(r, "over")
    /\ redirect' = [redirect EXCEPT ![r].phase = "over"]
    /\ UNCHANGED <<challenge, linked, proven, completions>>

Completable(w, s) ==
    /\ Booked(s) /\ ~challenge[s].consumed
    /\ challenge[s].wallet = w
    /\ challenge[s].redirectVerified
    /\ ~challenge[s].late

\* consumed is set before the nonce is compared, consume() drops the entry.
Spend(s) == challenge' = [challenge EXCEPT ![s].consumed = TRUE, ![s].booked = FALSE]

GoogleComplete(w, s) ==
    /\ Completable(w, s)
    /\ Spend(s)
    /\ linked' = linked \cup {w}
    /\ completions' = [completions EXCEPT ![s] = @ + 1]
    /\ UNCHANGED <<redirect, proven>>

\* The nonce is not the challenge's: the challenge is spent all the same.
WrongNonce(w, s) ==
    /\ Completable(w, s)
    /\ challenge' = [challenge EXCEPT ![s].consumed = TRUE]
    /\ UNCHANGED <<redirect, linked, proven, completions>>

ChallengeLapses(s) ==
    /\ Begun(s) /\ ~challenge[s].late
    /\ challenge' = [challenge EXCEPT ![s].late = TRUE]
    /\ UNCHANGED <<redirect, linked, proven, completions>>

\* The book and the waiting requests are lost; the accounts are not.
GoogleRestart ==
    /\ challenge' = [s \in States |-> IF Begun(s) THEN [challenge[s] EXCEPT !.booked = FALSE] ELSE NoGoogle]
    /\ redirect' = [r \in Redirects |->
           IF redirect[r] = NoGoogle THEN NoGoogle ELSE [redirect[r] EXCEPT !.phase = "over"]]
    /\ UNCHANGED <<linked, proven, completions>>

GoogleNext ==
    \/ \E s \in States, w \in Signers : GoogleBegin(s, w) \/ GoogleComplete(w, s) \/ WrongNonce(w, s)
    \/ \E s \in States : DropLate(s) \/ ChallengeLapses(s)
    \/ \E r \in Redirects :
         \/ Exchanged(r) \/ RedirectSucceeds(r) \/ RedirectFails(r)
         \/ \E s \in States : RedirectStarts(r, s) \/ TokenVerified(r, s)
    \/ GoogleRestart

GoogleSpec == GoogleInit /\ [][GoogleNext]_googleVars

-------------------------------------------------------------------------------
(* Properties.                                                               *)

\* A wallet's Google factor rests on a challenge of that wallet whose nonce came
\* back in a verified ID token, accepted once and in time: no redirect of another
\* challenge that waited for Google meanwhile, no wrong nonce, lapse, restart or
\* redirect that ends late makes it good (google-provider.ts:176-224, 231-249).
LinksAreEarned ==
    [][/\ \A s \in States :
            completions'[s] # completions[s] =>
                /\ s \in proven /\ completions[s] = 0
                /\ ~challenge[s].consumed /\ ~challenge[s].late
       /\ \A w \in linked' \ linked : \E s \in States :
            challenge[s] # NoGoogle /\ challenge[s].wallet = w /\ completions'[s] = 1]_googleVars
===============================================================================
