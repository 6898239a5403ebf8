------------------------------- MODULE Accounts -------------------------------
(***************************************************************************)
(* server/account: the account rows, the login sessions and the single-use *)
(* face-check tokens, as the routes under /api/v1/account drive them.      *)
(*                                                                         *)
(* Every handler here runs in one piece except the sending of an SMS or    *)
(* WhatsApp code, which touches nothing but the code store: OtpService.tla *)
(* has that, and here a verification finds the code that was sent.         *)
(* Accounts are numbered in the order of their rows. A session token is    *)
(* random and never comes back, so live sessions are a set of what they    *)
(* hold; a token of the biometric book is a model value used once.         *)
(* Rows are SQLite and survive a restart; tokens do not.                   *)
(* replaceBiometricReference and the Google factor are left out: nothing   *)
(* calls the first, and GoogleChallenge.tla has the second.                *)
(***************************************************************************)
EXTENDS Naturals, FiniteSets

CONSTANTS
    MaxAccounts,    \* bound: accounts the model follows
    MaxSessions,    \* bound: sessions live at once that differ in what they hold
    Wallets,        \* wallet addresses
    Passwords,
    Emails,         \* addresses that registration may have verified
    Channels,       \* the code channels login asks for: SMS and WhatsApp
    Tokens,         \* bound: face-check tokens the model follows
    None

Ids == 1..MaxAccounts

VARIABLES
    account,        \* account[a]: the row, or None
    sessions,       \* what the live rows of login_sessions hold
    token,          \* token[t]: the entry of the book, or None
    spent,          \* tokens that were in the book and are not any more
    matched         \* observer: the reference each token was matched against

accountVars == <<account, sessions, token, spent, matched>>

\* identityVerified, identityEvidenceAcceptedAt and the stored reference.
Row == [wallet : Wallets \cup {None}, password : Passwords, email : Emails \cup {None},
        passed : SUBSET Channels, evidence : BOOLEAN, identity : BOOLEAN,
        reference : {"none", "live", "revoked"}]

\* under is the observer's: the password that was in force when the holder
\* last proved to be the owner.
Session == [account : Ids, wallet : Wallets \cup {None}, under : Passwords]

Challenge == [wallet : Wallets, purpose : {"enrollment", "verification"}]

\* undefined is no wallet, no row number and no object.
ASSUME AccountsAssumption ==
    /\ MaxAccounts \in Nat
    /\ None \notin Wallets \cup Nat \cup Row \cup Challenge

AccountsTypeOK ==
    /\ account \in [Ids -> Row \cup {None}]
    /\ sessions \subseteq Session
    /\ token \in [Tokens -> Challenge \cup {None}]
    /\ spent \subseteq Tokens
    /\ matched \in [Tokens -> Ids \cup {None}]

AccountsInit ==
    /\ account = [a \in Ids |-> None]
    /\ sessions = {}
    /\ token = [t \in Tokens |-> None]
    /\ spent = {}
    /\ matched = [t \in Tokens |-> None]

-------------------------------------------------------------------------------
Opened == {a \in Ids : account[a] # None}

\* store.getByWallet: the accounts whose row has the wallet.
Holders(w) == {a \in Opened : account[a].wallet = w}

\* Store.create: the row after the last one.
NextId == CHOOSE a \in Ids : a \notin Opened /\ \A b \in Ids : b < a => b \in Opened

SessionFor(a, w, p) == [account |-> a, wallet |-> w, under |-> p]

\* sessionService.create
Mint(others, a, w, p) ==
    /\ sessions' = others \cup {SessionFor(a, w, p)}
    /\ Cardinality(sessions') <= MaxSessions

Update(w, field, value) ==
    account' = [a \in Ids |-> IF a \in Holders(w)
                              THEN [account[a] EXCEPT ![field] = value] ELSE account[a]]

\* requireAuth and requireWallet: the wallet the session was minted with.
WalletSession(w) == \E s \in sessions : s.wallet = w

-------------------------------------------------------------------------------
\* POST account/register: a wallet and a password, no factor passed yet.
Register(w, p) ==
    /\ Holders(w) = {}
    /\ Opened # Ids
    /\ account' = [account EXCEPT ![NextId] =
            [wallet |-> w, password |-> p, email |-> None, passed |-> {},
             evidence |-> FALSE, identity |-> FALSE, reference |-> "none"]]
    /\ Mint(sessions, NextId, w, p)
    /\ UNCHANGED <<token, spent, matched>>

\* The account a finalized registration opens: every channel and the liveness
\* and location evidence behind it, no wallet and no face yet.
Finalized(e, p) ==
    /\ Opened # Ids
    /\ account' = [account EXCEPT ![NextId] =
            [wallet |-> None, password |-> p, email |-> e, passed |-> Channels,
             evidence |-> TRUE, identity |-> FALSE, reference |-> "none"]]
    /\ Mint(sessions, NextId, None, p)
    /\ UNCHANGED <<token, spent, matched>>

\* Mutant: the owner of the wallet is not looked up.
MayAssociateAny(a, w) == account[a].wallet \in {None, w}

MayAssociate(a, w) ==
    /\ account[a].wallet \in {None, w}
    /\ Holders(w) \subseteq {a}

\* The session the request came with gives way to one that has the wallet.
\* Another session of the same account and wallet may outlive it.
AssociateWallet(s, w) ==
    /\ s \in sessions
    /\ MayAssociate(s.account, w)
    /\ account' = [account EXCEPT ![s.account].wallet = w]
    /\ \E twin \in SUBSET {s} : Mint((sessions \ {s}) \cup twin, s.account, w, s.under)
    /\ UNCHANGED <<token, spent, matched>>

\* Logout, expiry and the purge end one session; a twin may outlive it.
EndSession(s) ==
    /\ s \in sessions
    /\ sessions' = sessions \ {s}
    /\ UNCHANGED <<account, token, spent, matched>>

FactorsHold(a) == account[a].identity /\ account[a].passed = Channels

Login(w, p) ==
    \E a \in Holders(w) :
        /\ account[a].password = p
        /\ FactorsHold(a)
        /\ Mint(sessions, a, w, p)
        /\ UNCHANGED <<account, token, spent, matched>>

-------------------------------------------------------------------------------
\* verifySmsOtp, verifyWhatsappOtp: the code that was sent has come back.
VerifyCode(ch, w) ==
    /\ WalletSession(w)
    /\ account' = [a \in Ids |-> IF a \in Holders(w)
                                 THEN [account[a] EXCEPT !.passed = @ \cup {ch}] ELSE account[a]]
    /\ UNCHANGED <<sessions, token, spent, matched>>

\* POST account/identity-evidence that the validator accepts.
RecordEvidence(w) ==
    /\ WalletSession(w)
    /\ Update(w, "evidence", TRUE)
    /\ UNCHANGED <<sessions, token, spent, matched>>

-------------------------------------------------------------------------------
(* The biometric book.                                                       *)

IssueToken(t, w, purpose) ==
    /\ token[t] = None /\ t \notin spent
    /\ token' = [token EXCEPT ![t] = [wallet |-> w, purpose |-> purpose]]
    /\ UNCHANGED spent

\* Entries leave the book for good.
Drop(S) ==
    /\ token' = [t \in Tokens |-> IF t \in S THEN None ELSE token[t]]
    /\ spent' = spent \cup S

Redeemable(t, w, purpose) == token[t] = [wallet |-> w, purpose |-> purpose]

\* Mutant: the token is left in the book.
ConsumeKeeps(t, w, purpose) == Redeemable(t, w, purpose) /\ UNCHANGED <<token, spent>>

Consume(t, w, purpose) ==
    /\ Redeemable(t, w, purpose)
    /\ Drop({t})

TokenLapses(t) ==
    /\ token[t] # None
    /\ Drop({t})
    /\ UNCHANGED <<account, sessions, matched>>

BeginEnrollment(t, w) ==
    /\ WalletSession(w)
    /\ \E a \in Holders(w) : account[a].reference = "none" /\ account[a].evidence
    /\ IssueToken(t, w, "enrollment")
    /\ UNCHANGED <<account, sessions, matched>>

MayEnroll(a) == account[a].reference = "none"

\* The token is spent before the captured frames are judged.
Enroll(t, w) ==
    /\ WalletSession(w)
    /\ \E a \in Holders(w) :
         /\ MayEnroll(a)
         /\ Consume(t, w, "enrollment")
         /\ \/ UNCHANGED account
            \/ account' = [account EXCEPT ![a].reference = "live", ![a].identity = TRUE]
    /\ UNCHANGED <<sessions, matched>>

\* Mutant: the account stays verified.
RevokedOnly(row) == [row EXCEPT !.reference = "revoked"]

Revoked(row) == [row EXCEPT !.reference = "revoked", !.identity = FALSE]

Revoke(w) ==
    /\ WalletSession(w)
    /\ \E a \in Holders(w) :
         /\ account[a].reference = "live"
         /\ account' = [account EXCEPT ![a] = Revoked(account[a])]
    /\ UNCHANGED <<sessions, token, spent, matched>>

\* Anyone may ask for a challenge of an enrolled wallet.
CanMatch(w) == \E a \in Holders(w) : account[a].reference = "live"

BeginVerification(t, w) ==
    /\ CanMatch(w)
    /\ IssueToken(t, w, "verification")
    /\ UNCHANGED <<account, sessions, matched>>

\* verifyBiometricMatch: a mismatch spends the token like a match.
Match(t, w) ==
    \E a \in Holders(w) :
        /\ account[a].reference = "live"
        /\ Consume(t, w, "verification")
        /\ matched' = [matched EXCEPT ![t] = a]
        /\ UNCHANGED <<account, sessions>>

Mismatch(t, w) ==
    /\ CanMatch(w)
    /\ Consume(t, w, "verification")
    /\ UNCHANGED <<account, sessions, matched>>

CompleteVerification(t, w) == WalletSession(w) /\ (Match(t, w) \/ Mismatch(t, w))

-------------------------------------------------------------------------------
\* What a restart takes: the maps in memory.
ForgetMemory ==
    /\ Drop({t \in Tokens : token[t] # None})
    /\ UNCHANGED <<account, sessions, matched>>

AccountsNext ==
    \/ \E w \in Wallets :
         \/ RecordEvidence(w) \/ Revoke(w)
         \/ \E p \in Passwords : Register(w, p) \/ Login(w, p)
         \/ \E s \in sessions : AssociateWallet(s, w)
         \/ \E ch \in Channels : VerifyCode(ch, w)
         \/ \E t \in Tokens :
              \/ BeginEnrollment(t, w) \/ Enroll(t, w)
              \/ BeginVerification(t, w) \/ CompleteVerification(t, w)
    \/ \E e \in Emails, p \in Passwords : Finalized(e, p)
    \/ \E s \in sessions : EndSession(s)
    \/ \E t \in Tokens : TokenLapses(t)

AccountsSpec == AccountsInit /\ [][AccountsNext]_accountVars

-------------------------------------------------------------------------------
(* Properties.                                                               *)

\* A wallet belongs to one account, whatever order registrations, associations
\* and re-minted sessions come in, and a session acts for the account that has
\* its wallet: store.update goes by wallet and session.accountId by id, and the
\* two must be the same row (service.ts:1058-1077, index.ts:1530-1542).
WalletBinding ==
    /\ \A a, b \in Opened :
         account[a].wallet # None /\ account[a].wallet = account[b].wallet => a = b
    /\ \A s \in sessions : s.wallet # None => s.account \in Holders(s.wallet)

\* Who is identity-verified has a live reference, made after the liveness and
\* location evidence was accepted - through enrolments that fail after their
\* token is spent, revocations and restarts (service.ts:577-601, 610-698).
IdentityRestsOnFace ==
    \A a \in Opened :
        /\ account[a].identity <=> account[a].reference = "live"
        /\ account[a].reference # "none" => account[a].evidence

\* A face token is good for one answer of one wallet: what was matched with it
\* is the account that has the wallet it was issued for, and afterwards it is
\* spent for good (biometric.ts:283-302).
TokensAreSpentOnce ==
    [][\A t \in Tokens :
        /\ matched'[t] # matched[t] =>
             /\ matched[t] = None /\ t \in spent'
             /\ token[t] # None /\ matched'[t] \in Holders(token[t].wallet)
        /\ t \in spent => token'[t] = None /\ matched'[t] = matched[t]]_accountVars
===============================================================================
