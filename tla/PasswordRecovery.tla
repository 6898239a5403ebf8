--------------------------- MODULE PasswordRecovery ---------------------------
(***************************************************************************)
(* server/registration/forgot-password.ts and its routes over Accounts: a  *)
(* recovery row per wallet, opened by a mailed code and closed by a reset. *)
(*                                                                         *)
(* begin() awaits the mail transport between beginIssue and commitIssue;   *)
(* only the commit writes the row. attempt[b] is one call of begin() and   *)
(* its random code is b itself. The row is SQLite and survives a restart;  *)
(* the code, the liveness run of "forgot:<wallet>" and the face tokens are *)
(* in memory and are not cleared when a new row is made. OneTimeCode,      *)
(* LivenessGate and the book of Accounts say what those do. A refused      *)
(* begin() answers as an accepted one and does nothing.                    *)
(***************************************************************************)
EXTENDS Accounts

CONSTANTS
    Begins,         \* bound: calls of begin() the model follows
    Total           \* challenges of a liveness run

VARIABLES
    recovery,       \* recovery[w]: the row, or None
    attempt,        \* attempt[b]: the wallet it waits to be mailed for, "new" or "over"
    mailed,         \* OneTimeCode of "forgot-email:<wallet>"
    run             \* LivenessGate of "forgot:<wallet>"

recoveryVars == <<recovery, attempt, mailed, run>>

allAccountVars == <<accountVars, recoveryVars>>

Mail == INSTANCE OneTimeCode WITH Keys <- Wallets, Codes <- Begins, MaxAttempts <- 1, armed <- mailed
Gate == INSTANCE LivenessGate WITH Keys <- Wallets

\* late is the row's expiresAt; by and entered are the observer's: the begin()
\* that made the row and the code its e-mail gate was opened with.
Recovery == [email : BOOLEAN, liveness : BOOLEAN, face : BOOLEAN, late : BOOLEAN,
             by : Begins, entered : Begins \cup {None}]

ASSUME RecoveryAssumption ==
    /\ Total \in Nat \ {0}
    /\ None \notin Recovery

RecoveryTypeOK ==
    /\ AccountsTypeOK
    /\ recovery \in [Wallets -> Recovery \cup {None}]
    /\ attempt \in [Begins -> Wallets \cup {"new", "over"}]
    /\ Mail!OtcTypeOK
    /\ Gate!GateTypeOK

RecoveryInit ==
    /\ AccountsInit
    /\ recovery = [w \in Wallets |-> None]
    /\ attempt = [b \in Begins |-> "new"]
    /\ Mail!OtcInit
    /\ Gate!GateInit

-------------------------------------------------------------------------------
\* findAccountByEmail: the first row with the address and a wallet.
FoundByEmail(e, a) ==
    /\ account[a].email = e /\ account[a].wallet # None
    /\ \A b \in Opened : b < a => ~(account[b].email = e /\ account[b].wallet # None)

Begin(b, w, e) ==
    /\ attempt[b] = "new"
    /\ \E a \in Opened : FoundByEmail(e, a) /\ account[a].wallet = w
    /\ attempt' = [attempt EXCEPT ![b] = w]
    /\ UNCHANGED <<accountVars, recovery, mailed, run>>

\* Mutant: a column without a value.
NewRecoveryUnset(b) == [email |-> FALSE, liveness |-> FALSE, face |-> None, late |-> FALSE,
                        by |-> b, entered |-> None]

NewRecovery(b) == [email |-> FALSE, liveness |-> FALSE, face |-> FALSE, late |-> FALSE,
                   by |-> b, entered |-> None]

\* Mutant: the gates of a row that is there already are kept.
OpenRowKept(w, b) ==
    recovery' = [recovery EXCEPT ![w] = IF @ = None THEN NewRecovery(b) ELSE [@ EXCEPT !.by = b]]

OpenRow(w, b) == recovery' = [recovery EXCEPT ![w] = NewRecovery(b)]

\* The mail has gone out and commitIssue stores its code.
Mailed(b) ==
    /\ attempt[b] \in Wallets
    /\ Mail!Arm(attempt[b], b)
    /\ OpenRow(attempt[b], b)
    /\ attempt' = [attempt EXCEPT ![b] = "over"]
    /\ UNCHANGED <<accountVars, run>>

\* The transport throws, or the commit finds a cooldown or the cap.
NotMailed(b) ==
    /\ attempt[b] \in Wallets
    /\ attempt' = [attempt EXCEPT ![b] = "over"]
    /\ UNCHANGED <<accountVars, recovery, mailed, run>>

-------------------------------------------------------------------------------
\* mustLoad
Loaded(w) == recovery[w] # None /\ ~recovery[w].late

ExpireRecovery(w) ==
    /\ Loaded(w)
    /\ recovery' = [recovery EXCEPT ![w].late = TRUE]
    /\ UNCHANGED <<accountVars, attempt, mailed, run>>

\* mustLoad of any handler, or purgeExpired.
DestroyRecovery(w) ==
    /\ recovery[w] # None /\ recovery[w].late
    /\ recovery' = [recovery EXCEPT ![w] = None]
    /\ UNCHANGED <<accountVars, attempt, mailed, run>>

VerifyEmailOtp(w, c) ==
    /\ Loaded(w)
    /\ Mail!RightGuess(w, c)
    /\ recovery' = [recovery EXCEPT ![w].email = TRUE, ![w].entered = c]
    /\ UNCHANGED <<accountVars, attempt, run>>

LivenessStart(w) ==
    /\ Loaded(w)
    /\ recovery[w].email /\ ~recovery[w].liveness
    /\ Gate!StartRun(w)
    /\ UNCHANGED <<accountVars, recovery, attempt, mailed>>

LivenessEvidence(w) ==
    /\ Loaded(w)
    /\ recovery[w].email
    /\ \/ Gate!Advance(w) /\ UNCHANGED recovery
       \/ Gate!Finish(w) /\ recovery' = [recovery EXCEPT ![w].liveness = TRUE]
    /\ UNCHANGED <<accountVars, attempt, mailed>>

FaceReady(w) == Loaded(w) /\ recovery[w].email /\ recovery[w].liveness

\* biometricStart asks what the public verification/begin asks.
BiometricStart(t, w) ==
    /\ FaceReady(w)
    /\ BeginVerification(t, w)
    /\ UNCHANGED recoveryVars

BiometricVerify(t, w) ==
    /\ FaceReady(w)
    /\ \/ Match(t, w) /\ recovery' = [recovery EXCEPT ![w].face = TRUE]
       \/ Mismatch(t, w) /\ UNCHANGED recovery
    /\ UNCHANGED <<attempt, mailed, run>>

-------------------------------------------------------------------------------
AllGates(w) == recovery[w].email /\ recovery[w].liveness /\ recovery[w].face

\* Mutant: sessions are looked up by the wallet they carry.
OthersByWallet(w) == {s \in sessions : s.wallet # w}

\* destroyByAccount of the account that has the wallet.
Others(w) == {s \in sessions : s.account \notin Holders(w)}

RecoverySpent(w) == recovery' = [recovery EXCEPT ![w] = None]

\* reset() and the route that called it, in one piece.
Reset(w, p) ==
    /\ Loaded(w)
    /\ AllGates(w)
    /\ Update(w, "password", p)
    /\ sessions' = Others(w)
    /\ RecoverySpent(w)
    /\ Gate!LapseRuns({w})
    /\ UNCHANGED <<token, spent, matched, attempt, mailed>>

-------------------------------------------------------------------------------
\* A code or a run times out.
RecoveryMemoryLapses(w) ==
    /\ \/ mailed[w] # None /\ Mail!Lapse({w}) /\ UNCHANGED run
       \/ run[w] # None /\ Gate!LapseRuns({w}) /\ UNCHANGED mailed
    /\ UNCHANGED <<accountVars, recovery, attempt>>

RecoveryRestart ==
    /\ ForgetMemory
    /\ Mail!Lapse(Wallets)
    /\ Gate!LapseRuns(Wallets)
    /\ attempt' = [b \in Begins |-> IF attempt[b] = "new" THEN "new" ELSE "over"]
    /\ UNCHANGED recovery

RecoveryNext ==
    \/ AccountsNext /\ UNCHANGED recoveryVars
    \/ RecoveryRestart
    \/ \E b \in Begins : Mailed(b) \/ NotMailed(b)
    \/ \E w \in Wallets :
         \/ ExpireRecovery(w) \/ DestroyRecovery(w) \/ RecoveryMemoryLapses(w)
         \/ LivenessStart(w) \/ LivenessEvidence(w)
         \/ \E b \in Begins, e \in Emails : Begin(b, w, e)
         \/ \E c \in Begins : VerifyEmailOtp(w, c)
         \/ \E t \in Tokens : BiometricStart(t, w) \/ BiometricVerify(t, w)
         \/ \E p \in Passwords : Reset(w, p)

RecoverySpec == RecoveryInit /\ [][RecoveryNext]_allAccountVars

-------------------------------------------------------------------------------
(* Properties.                                                               *)

\* No one stays logged in on the strength of a password that a reset replaced:
\* not the sessions minted before a wallet was associated, nor those re-minted
\* by an association (index.ts:2146-2151, 1537-1542).
SessionsUnderCurrentPassword ==
    \A s \in sessions : account[s.account].password = s.under

\* The gates of a recovery row are its own: the code that opened the first is
\* the one mailed by the begin() that made the row, and the later ones rest on
\* the earlier, whatever a concurrent begin(), a late mail or a restart leaves
\* behind in the row, the code store or the liveness runs
\* (forgot-password.ts:143-161, 168-175, 214-216, 244-246).
GatesAreTheRows ==
    \A w \in Wallets :
        LET r == recovery[w] IN
        r # None =>
            /\ r.email => r.entered = r.by
            /\ r.liveness => r.email
            /\ r.face => r.liveness /\ \E t \in Tokens : matched[t] \in Holders(w)
===============================================================================
