------------------------ MODULE PasswordRecovery_proofs ------------------------
(***************************************************************************)
(* Proofs about Accounts and PasswordRecovery for every set of wallets,    *)
(* passwords, addresses, channels, tokens and begin() calls and for any    *)
(* number of accounts and live sessions.                                   *)
(***************************************************************************)
EXTENDS PasswordRecovery, WellFoundedInduction, TLAPS

-------------------------------------------------------------------------------
(* Steps of the account store. A recovery makes some of them of its own.      *)

\* What a reset does to the rows and the sessions.
PasswordReplaced(w, p) ==
    /\ Update(w, "password", p)
    /\ sessions' = Others(w)
    /\ UNCHANGED <<token, spent, matched>>

AccountMove ==
    \/ AccountsNext
    \/ ForgetMemory
    \/ \E t \in Tokens, w \in Wallets : BeginVerification(t, w) \/ Match(t, w) \/ Mismatch(t, w)
    \/ \E w \in Wallets, p \in Passwords : PasswordReplaced(w, p)

(* Whatever a recovery step does, the account store makes one of its moves or *)
(* none.                                                                      *)
LEMMA RecoveryMoves ==
    ASSUME [RecoveryNext]_allAccountVars
    PROVE  AccountMove \/ UNCHANGED accountVars
  BY DEF RecoveryNext, allAccountVars, AccountMove, RecoveryRestart, Mailed, NotMailed, ExpireRecovery,
     DestroyRecovery, RecoveryMemoryLapses, LivenessStart, LivenessEvidence, Begin, VerifyEmailOtp,
     BiometricStart, BiometricVerify, Reset, PasswordReplaced, accountVars

(* The row after the last one is free: Store.create overwrites nothing.       *)
LEMMA NextIdIsFree ==
    ASSUME Opened # Ids
    PROVE  NextId \in Ids /\ NextId \notin Opened /\ account[NextId] = None
<1> DEFINE Free == Ids \ Opened
<1>1. Free # {} /\ Free \in SUBSET Nat /\ Ids \subseteq Nat
  BY AccountsAssumption DEF Opened, Ids
<1>2. PICK a \in Free : \A b \in Free : <<b, a>> \notin OpToRel(<, Nat)
  BY <1>1, WFMin, NatLessThanWellFounded
<1>3. \A b \in Ids : b < a => b \in Opened
  BY <1>1, <1>2 DEF OpToRel
<1>4. \E n \in Ids : n \notin Opened /\ \A b \in Ids : b < n => b \in Opened
  BY <1>2, <1>3
<1>5. NextId \in Ids /\ NextId \notin Opened
  BY <1>4 DEF NextId
<1>6. QED
  BY <1>5 DEF Opened

-------------------------------------------------------------------------------
(* Types.                                                                     *)

(* Writing one field of a row leaves a row.                                   *)
LEMMA RowWritten ==
    ASSUME NEW row \in Row
    PROVE  /\ \A p \in Passwords : [row EXCEPT !["password"] = p] \in Row
           /\ \A w \in Wallets : [row EXCEPT !.wallet = w] \in Row
           /\ \A ch \in Channels : [row EXCEPT !.passed = @ \cup {ch}] \in Row
           /\ [row EXCEPT !["evidence"] = TRUE] \in Row
           /\ [row EXCEPT !.reference = "live", !.identity = TRUE] \in Row
           /\ Revoked(row) \in Row
  BY DEF Row, Revoked

(* And the fields it does not name stay what they were.                       *)
LEMMA FieldsKept ==
    ASSUME NEW row \in Row, NEW field \in {"wallet", "password", "evidence"}
    PROVE  /\ \A p \in Passwords : field # "password" => [row EXCEPT !["password"] = p][field] = row[field]
           /\ \A ch \in Channels : [row EXCEPT !.passed = @ \cup {ch}][field] = row[field]
           /\ field # "evidence" => [row EXCEPT !["evidence"] = TRUE][field] = row[field]
           /\ [row EXCEPT !.reference = "live", !.identity = TRUE][field] = row[field]
           /\ Revoked(row)[field] = row[field]
  BY DEF Row, Revoked

(* The steps of the face-check book.                                          *)
LEMMA BookTyped ==
    ASSUME AccountsTypeOK
    PROVE  /\ \A S \in SUBSET Tokens : Drop(S) =>
                token' \in [Tokens -> Challenge \cup {None}] /\ spent' \subseteq Tokens
           /\ \A t \in Tokens, w \in Wallets, purpose \in {"enrollment", "verification"} :
                IssueToken(t, w, purpose) =>
                    token' \in [Tokens -> Challenge \cup {None}] /\ spent' \subseteq Tokens
  BY DEF AccountsTypeOK, Drop, IssueToken, Challenge

LEMMA AccountsInitTyped == AccountsInit => AccountsTypeOK
  BY DEF AccountsInit, AccountsTypeOK

(* Every session is one of a row that exists. Without it an association could *)
(* write a wallet into a row that is not there.                               *)
SessionsOpened == \A s \in sessions : s.account \in Opened

(* Every move of the account store keeps every type. *)
LEMMA MoveTyped ==
    ASSUME AccountsTypeOK, SessionsOpened, AccountMove
    PROVE  AccountsTypeOK'
<1>0. \A w \in Wallets : \A a \in Holders(w) : a \in Ids /\ account[a] \in Row
  BY DEF AccountsTypeOK, Holders, Opened
<1>1. ASSUME NEW w \in Wallets, NEW p \in Passwords, Register(w, p)
      PROVE  AccountsTypeOK'
  <2>1. NextId \in Ids
    BY <1>1, NextIdIsFree DEF Register
  <2>2. SessionFor(NextId, w, p) \in Session
    BY <2>1 DEF SessionFor, Session
  <2>3. account' \in [Ids -> Row \cup {None}]
    BY <1>1, <2>1 DEF Register, AccountsTypeOK, Row
  <2>4. QED
    BY <1>1, <2>2, <2>3 DEF Register, Mint, AccountsTypeOK
<1>2. ASSUME NEW e \in Emails, NEW p \in Passwords, Finalized(e, p)
      PROVE  AccountsTypeOK'
  <2>1. NextId \in Ids
    BY <1>2, NextIdIsFree DEF Finalized
  <2>2. SessionFor(NextId, None, p) \in Session
    BY <2>1 DEF SessionFor, Session
  <2>3. account' \in [Ids -> Row \cup {None}]
    BY <1>2, <2>1 DEF Finalized, AccountsTypeOK, Row
  <2>4. QED
    BY <1>2, <2>2, <2>3 DEF Finalized, Mint, AccountsTypeOK
<1>4. ASSUME NEW s \in sessions, EndSession(s)
      PROVE  AccountsTypeOK'
  BY <1>4 DEF EndSession, AccountsTypeOK
<1>5. ASSUME NEW w \in Wallets, NEW p \in Passwords, Login(w, p)
      PROVE  AccountsTypeOK'
  BY <1>0, <1>5 DEF Login, Mint, SessionFor, Session, AccountsTypeOK
<1>6. ASSUME NEW w \in Wallets, NEW ch \in Channels, VerifyCode(ch, w)
      PROVE  AccountsTypeOK'
  BY <1>0, <1>6, RowWritten DEF VerifyCode, AccountsTypeOK
<1>7. ASSUME NEW w \in Wallets, RecordEvidence(w)
      PROVE  AccountsTypeOK'
  BY <1>0, <1>7, RowWritten DEF RecordEvidence, Update, AccountsTypeOK
<1>8. ASSUME NEW t \in Tokens, NEW w \in Wallets, BeginEnrollment(t, w) \/ BeginVerification(t, w)
      PROVE  AccountsTypeOK'
  BY <1>8, BookTyped DEF BeginEnrollment, BeginVerification, AccountsTypeOK
<1>9. ASSUME NEW t \in Tokens, NEW w \in Wallets, Enroll(t, w)
      PROVE  AccountsTypeOK'
  <2>1. token' \in [Tokens -> Challenge \cup {None}] /\ spent' \subseteq Tokens
    BY <1>9, BookTyped DEF Enroll, Consume
  <2>2. PICK a \in Holders(w) :
          \/ UNCHANGED account
          \/ account' = [account EXCEPT ![a].reference = "live", ![a].identity = TRUE]
    BY <1>9 DEF Enroll
  <2>3. account' \in {account, [account EXCEPT ![a] = [account[a] EXCEPT !.reference = "live",
                                                                     !.identity = TRUE]]}
    BY <1>0, <2>2 DEF AccountsTypeOK
  <2>4. account' \in [Ids -> Row \cup {None}]
    <3> DEFINE row == [account[a] EXCEPT !.reference = "live", !.identity = TRUE]
    <3>1. row \in Row
      BY <1>0, RowWritten
    <3>2. account' \in {account, [account EXCEPT ![a] = row]}
      BY <2>3
    <3> HIDE DEF row
    <3>3. QED
      BY <1>0, <3>1, <3>2 DEF AccountsTypeOK
  <2>5. QED
    BY <1>9, <2>1, <2>4 DEF Enroll, AccountsTypeOK
<1>10. ASSUME NEW w \in Wallets, Revoke(w)
      PROVE  AccountsTypeOK'
  BY <1>0, <1>10, RowWritten DEF Revoke, AccountsTypeOK
<1>11. ASSUME NEW t \in Tokens, NEW w \in Wallets, Match(t, w) \/ Mismatch(t, w)
      PROVE  AccountsTypeOK'
  BY <1>0, <1>11, BookTyped DEF Match, Mismatch, Consume, AccountsTypeOK
<1>12. ASSUME NEW t \in Tokens, TokenLapses(t)
      PROVE  AccountsTypeOK'
  BY <1>12, BookTyped DEF TokenLapses, AccountsTypeOK
<1>13. CASE ForgetMemory
  BY <1>13, BookTyped DEF ForgetMemory, AccountsTypeOK
<1>14. ASSUME NEW w \in Wallets, NEW p \in Passwords, PasswordReplaced(w, p)
      PROVE  AccountsTypeOK'
  BY <1>0, <1>14, RowWritten DEF PasswordReplaced, Update, Others, AccountsTypeOK
<1>15. ASSUME NEW s \in sessions, NEW w \in Wallets, AssociateWallet(s, w)
       PROVE  AccountsTypeOK'
  <2>1. s.account \in Ids /\ SessionFor(s.account, w, s.under) \in Session
    BY <1>15 DEF AccountsTypeOK, Session, SessionFor
  <2>2. sessions' \subseteq Session
    BY <1>15, <2>1 DEF AssociateWallet, Mint, AccountsTypeOK
  <2>3. account[s.account] \in Row
    BY <1>15, <2>1 DEF AccountsTypeOK, SessionsOpened, Opened
  <2>4. QED
    BY <1>15, <2>1, <2>2, <2>3, RowWritten DEF AssociateWallet, AccountsTypeOK
<1>16. QED
  BY <1>1, <1>2, <1>4, <1>5, <1>6, <1>7, <1>8, <1>9, <1>10, <1>11, <1>12, <1>13, <1>14, <1>15
     DEF AccountMove, AccountsNext, CompleteVerification

-------------------------------------------------------------------------------
(* What a move leaves of a row.                                               *)

\* The moves that write into rows that exist and touch no wallet.
Edit ==
    \/ \E w \in Wallets, ch \in Channels : VerifyCode(ch, w)
    \/ \E w \in Wallets : RecordEvidence(w) \/ Revoke(w)
    \/ \E w \in Wallets, t \in Tokens : Enroll(t, w)
    \/ \E w \in Wallets, p \in Passwords : PasswordReplaced(w, p)

\* The moves that open a row or give one its wallet.
Opening ==
    \/ \E w \in Wallets, p \in Passwords : Register(w, p)
    \/ \E e \in Emails, p \in Passwords : Finalized(e, p)

(* Every other move leaves the rows alone.                                    *)
LEMMA OtherMoves ==
    ASSUME AccountMove
    PROVE  \/ Edit \/ Opening
           \/ \E s \in sessions, w \in Wallets : AssociateWallet(s, w)
           \/ /\ UNCHANGED account
              /\ \/ sessions' \subseteq sessions
                 \/ \E w \in Wallets, p \in Passwords : Login(w, p)
<1>1. CASE AccountsNext
  BY <1>1 DEF AccountsNext, Edit, Opening, EndSession, BeginEnrollment, BeginVerification,
     CompleteVerification, Match, Mismatch, TokenLapses, Login
<1>2. CASE ForgetMemory
  BY <1>2 DEF ForgetMemory
<1>3. CASE \E t \in Tokens, w \in Wallets : BeginVerification(t, w) \/ Match(t, w) \/ Mismatch(t, w)
  BY <1>3 DEF BeginVerification, Match, Mismatch
<1>4. CASE \E w \in Wallets, p \in Passwords : PasswordReplaced(w, p)
  BY <1>4 DEF Edit
<1>5. QED
  BY <1>1, <1>2, <1>3, <1>4 DEF AccountMove

(* An edit keeps every row, its wallet and its evidence; only a reset changes *)
(* its password.                                                              *)
LEMMA EditKeeps ==
    ASSUME AccountsTypeOK, Edit
    PROVE  /\ Opened' = Opened
           /\ \A a \in Opened :
                /\ account'[a].wallet = account[a].wallet
                /\ account[a].evidence => account'[a].evidence
           /\ \/ sessions' = sessions /\ \A a \in Opened : account'[a].password = account[a].password
              \/ \E w \in Wallets, p \in Passwords : PasswordReplaced(w, p)
<1>0. /\ account \in [Ids -> Row \cup {None}]
      /\ \A w \in Wallets : Holders(w) \subseteq Opened
      /\ \A a \in Opened : a \in Ids /\ account[a] \in Row
      /\ None \notin Row
  BY AccountsAssumption DEF AccountsTypeOK, Holders, Opened
<1>1. ASSUME NEW S \in SUBSET Opened, NEW f,
             account' = [a \in Ids |-> IF a \in S THEN f[a] ELSE account[a]],
             \A a \in S : /\ f[a] \in Row /\ f[a].wallet = account[a].wallet
                          /\ account[a].evidence => f[a].evidence
      PROVE  /\ Opened' = Opened
             /\ \A a \in Opened : /\ account'[a].wallet = account[a].wallet
                                  /\ account[a].evidence => account'[a].evidence
             /\ (\A a \in S : f[a].password = account[a].password) =>
                    \A a \in Opened : account'[a].password = account[a].password
  <2>1. \A a \in Ids : account'[a] # None <=> account[a] # None
    BY <1>0, <1>1 DEF Opened
  <2>2. QED
    BY <1>0, <1>1, <2>1 DEF Opened
<1>2. ASSUME NEW w \in Wallets, NEW ch \in Channels, VerifyCode(ch, w)
      PROVE  /\ Opened' = Opened
             /\ \A a \in Opened : /\ account'[a].wallet = account[a].wallet
                                  /\ account[a].evidence => account'[a].evidence
                                  /\ account'[a].password = account[a].password
  <2> DEFINE f == [a \in Holders(w) |-> [account[a] EXCEPT !.passed = @ \cup {ch}]]
  <2>1. account' = [a \in Ids |-> IF a \in Holders(w) THEN f[a] ELSE account[a]]
    BY <1>2 DEF VerifyCode
  <2>2. \A a \in Holders(w) : /\ f[a] \in Row /\ f[a].wallet = account[a].wallet
                              /\ account[a].evidence => f[a].evidence
                              /\ f[a].password = account[a].password
    BY <1>0, RowWritten DEF Row
  <2> HIDE DEF f
  <2>3. QED
    BY <1>0, <1>1, <2>1, <2>2
<1>3. ASSUME NEW w \in Wallets, RecordEvidence(w)
      PROVE  /\ Opened' = Opened
             /\ \A a \in Opened : /\ account'[a].wallet = account[a].wallet
                                  /\ account[a].evidence => account'[a].evidence
                                  /\ account'[a].password = account[a].password
  <2> DEFINE f == [a \in Holders(w) |-> [account[a] EXCEPT !["evidence"] = TRUE]]
  <2>1. account' = [a \in Ids |-> IF a \in Holders(w) THEN f[a] ELSE account[a]]
    BY <1>3 DEF RecordEvidence, Update
  <2>2. \A a \in Holders(w) : /\ f[a] \in Row /\ f[a].wallet = account[a].wallet
                              /\ account[a].evidence => f[a].evidence
                              /\ f[a].password = account[a].password
    BY <1>0, RowWritten DEF Row
  <2> HIDE DEF f
  <2>3. QED
    BY <1>0, <1>1, <2>1, <2>2
<1>4. ASSUME NEW w \in Wallets, Revoke(w)
      PROVE  /\ Opened' = Opened
             /\ \A a \in Opened : /\ account'[a].wallet = account[a].wallet
                                  /\ account[a].evidence => account'[a].evidence
                                  /\ account'[a].password = account[a].password
  <2>1. PICK b \in Holders(w) : account' = [account EXCEPT ![b] = Revoked(account[b])]
    BY <1>4 DEF Revoke
  <2>2. /\ Revoked(account[b]) \in Row /\ Revoked(account[b]).wallet = account[b].wallet
        /\ Revoked(account[b]).evidence = account[b].evidence
        /\ Revoked(account[b]).password = account[b].password
    BY <1>0, RowWritten DEF Row, Revoked
  <2>3. QED
    BY <1>0, <2>1, <2>2 DEF Opened
<1>5. ASSUME NEW w \in Wallets, NEW t \in Tokens, Enroll(t, w)
      PROVE  /\ Opened' = Opened
             /\ \A a \in Opened : /\ account'[a].wallet = account[a].wallet
                                  /\ account[a].evidence => account'[a].evidence
                                  /\ account'[a].password = account[a].password
  <2>1. PICK b \in Holders(w) :
          \/ UNCHANGED account
          \/ account' = [account EXCEPT ![b].reference = "live", ![b].identity = TRUE]
    BY <1>5 DEF Enroll
  <2> DEFINE row == [account[b] EXCEPT !.reference = "live", !.identity = TRUE]
  <2>2. account' = account \/ account' = [account EXCEPT ![b] = row]
    BY <1>0, <2>1
  <2>3. /\ row \in Row /\ row.wallet = account[b].wallet
        /\ row.evidence = account[b].evidence
        /\ row.password = account[b].password
    BY <1>0, RowWritten, FieldsKept
  <2> HIDE DEF row
  <2>4. QED
    BY <1>0, <2>2, <2>3 DEF Opened
<1>6. ASSUME NEW w \in Wallets, NEW p \in Passwords, PasswordReplaced(w, p)
      PROVE  /\ Opened' = Opened
             /\ \A a \in Opened : /\ account'[a].wallet = account[a].wallet
                                  /\ account[a].evidence => account'[a].evidence
  <2> DEFINE f == [a \in Holders(w) |-> [account[a] EXCEPT !["password"] = p]]
  <2>1. account' = [a \in Ids |-> IF a \in Holders(w) THEN f[a] ELSE account[a]]
    BY <1>6 DEF PasswordReplaced, Update
  <2>2. \A a \in Holders(w) : /\ f[a] \in Row /\ f[a].wallet = account[a].wallet
                              /\ account[a].evidence => f[a].evidence
    <3> SUFFICES ASSUME NEW a \in Holders(w)
                 PROVE  /\ f[a] \in Row /\ f[a].wallet = account[a].wallet
                        /\ f[a].evidence = account[a].evidence
      OBVIOUS
    <3>1. account[a] \in Row /\ f[a] = [account[a] EXCEPT !["password"] = p]
      BY <1>0
    <3> HIDE DEF f
    <3>2. f[a] \in Row
      BY <3>1, RowWritten
    <3>3. f[a].wallet = account[a].wallet
      BY <3>1 DEF Row
    <3>4. f[a].evidence = account[a].evidence
      BY <3>1 DEF Row
    <3>5. QED
      BY <3>2, <3>3, <3>4
  <2> HIDE DEF f
  <2>3. QED
    BY <1>0, <1>1, <2>1, <2>2
<1>7. (\A w \in Wallets, p \in Passwords : ~PasswordReplaced(w, p)) => sessions' = sessions
  BY DEF Edit, VerifyCode, RecordEvidence, Revoke, Enroll
<1>8. QED
  BY <1>2, <1>3, <1>4, <1>5, <1>6, <1>7 DEF Edit

(* An opened row is new, has no face, its wallet is no one else's, and its    *)
(* session is minted under its password.                                      *)
LEMMA OpeningMakes ==
    ASSUME AccountsTypeOK, Opening
    PROVE  \E a \in Ids \ Opened, row \in Row :
             /\ account' = [account EXCEPT ![a] = row]
             /\ row.wallet # None => Holders(row.wallet) = {}
             /\ row.reference = "none" /\ row.identity = FALSE
             /\ sessions' = sessions \cup {SessionFor(a, row.wallet, row.password)}
<1>1. ASSUME NEW w \in Wallets, NEW p \in Passwords, Register(w, p)
      PROVE  \E a \in Ids \ Opened, row \in Row :
               /\ account' = [account EXCEPT ![a] = row]
               /\ row.wallet # None => Holders(row.wallet) = {}
               /\ row.reference = "none" /\ row.identity = FALSE
               /\ sessions' = sessions \cup {SessionFor(a, row.wallet, row.password)}
  <2> DEFINE row == [wallet |-> w, password |-> p, email |-> None, passed |-> {},
                     evidence |-> FALSE, identity |-> FALSE, reference |-> "none"]
  <2>1. row \in Row
    BY DEF Row
  <2>2. NextId \in Ids \ Opened
    BY <1>1, NextIdIsFree DEF Register
  <2>3. /\ account' = [account EXCEPT ![NextId] = row]
        /\ Holders(row.wallet) = {} /\ row.reference = "none" /\ row.identity = FALSE
        /\ sessions' = sessions \cup {SessionFor(NextId, row.wallet, row.password)}
    BY <1>1 DEF Register, Mint
  <2> HIDE DEF row
  <2>4. QED
    BY <2>1, <2>2, <2>3
<1>2. ASSUME NEW e \in Emails, NEW p \in Passwords, Finalized(e, p)
      PROVE  \E a \in Ids \ Opened, row \in Row :
               /\ account' = [account EXCEPT ![a] = row]
               /\ row.wallet # None => Holders(row.wallet) = {}
               /\ row.reference = "none" /\ row.identity = FALSE
               /\ sessions' = sessions \cup {SessionFor(a, row.wallet, row.password)}
  <2> DEFINE row == [wallet |-> None, password |-> p, email |-> e, passed |-> Channels,
                     evidence |-> TRUE, identity |-> FALSE, reference |-> "none"]
  <2>1. row \in Row
    BY DEF Row
  <2>2. NextId \in Ids \ Opened
    BY <1>2, NextIdIsFree DEF Finalized
  <2>3. /\ account' = [account EXCEPT ![NextId] = row]
        /\ row.wallet = None /\ row.reference = "none" /\ row.identity = FALSE
        /\ sessions' = sessions \cup {SessionFor(NextId, row.wallet, row.password)}
    BY <1>2 DEF Finalized, Mint
  <2> HIDE DEF row
  <2>4. QED
    BY <2>1, <2>2, <2>3
<1>3. QED
  BY <1>1, <1>2 DEF Opening

(* An association writes one wallet into the row of the session, which had    *)
(* none or that one, and re-mints the session under its old password.         *)
LEMMA AssociationMakes ==
    ASSUME AccountsTypeOK, SessionsOpened, NEW s \in sessions, NEW w \in Wallets, AssociateWallet(s, w)
    PROVE  \E row \in Row :
             /\ s.account \in Opened /\ account[s.account].wallet \in {None, w}
             /\ Holders(w) \subseteq {s.account}
             /\ account' = [account EXCEPT ![s.account] = row]
             /\ row.wallet = w /\ row.password = account[s.account].password
             /\ row.evidence = account[s.account].evidence
             /\ row.reference = account[s.account].reference
             /\ row.identity = account[s.account].identity
             /\ sessions' \subseteq sessions \cup {SessionFor(s.account, w, s.under)}
<1> DEFINE a == s.account
           row == [account[a] EXCEPT !.wallet = w]
<1>1. a \in Opened /\ a \in Ids /\ account[a] \in Row
  BY DEF SessionsOpened, Opened, AccountsTypeOK
<1>2. account[a].wallet \in {None, w} /\ Holders(w) \subseteq {a}
  BY DEF AssociateWallet, MayAssociate
<1>3. account' = [account EXCEPT ![a] = row]
  BY <1>1 DEF AssociateWallet, AccountsTypeOK
<1>4. sessions' \subseteq sessions \cup {SessionFor(a, w, s.under)}
  BY DEF AssociateWallet, Mint
<1>5. /\ row \in Row /\ row.wallet = w
      /\ row.password = account[a].password /\ row.evidence = account[a].evidence
      /\ row.reference = account[a].reference /\ row.identity = account[a].identity
  BY <1>1, RowWritten DEF Row
<1> HIDE DEF row
<1>6. QED
  BY <1>1, <1>2, <1>3, <1>4, <1>5

(* A login mints a session of the wallet's account under its password.        *)
LEMMA LoginMakes ==
    ASSUME NEW w \in Wallets, NEW p \in Passwords, Login(w, p)
    PROVE  \E a \in Holders(w) : sessions' = sessions \cup {SessionFor(a, w, account[a].password)}
  BY DEF Login, Mint

(* Rows are never deleted, and a row keeps its wallet and its evidence.       *)
LEMMA RowsStay ==
    ASSUME AccountsTypeOK, SessionsOpened, AccountMove
    PROVE  \A a \in Opened :
             /\ a \in Opened'
             /\ account[a].wallet # None => account'[a].wallet = account[a].wallet
             /\ account[a].evidence => account'[a].evidence
<1>0. None \notin Row /\ account \in [Ids -> Row \cup {None}] /\ Opened \subseteq Ids
  BY AccountsAssumption DEF AccountsTypeOK, Opened
<1>1. CASE Edit
  BY <1>1, EditKeeps
<1>2. CASE Opening
  <2>1. PICK b \in Ids \ Opened, row \in Row : account' = [account EXCEPT ![b] = row]
    BY <1>2, OpeningMakes
  <2>2. QED
    BY <1>0, <2>1 DEF Opened
<1>3. CASE \E s \in sessions, w \in Wallets : AssociateWallet(s, w)
  <2>1. PICK s \in sessions, w \in Wallets : AssociateWallet(s, w)
    BY <1>3
  <2>2. PICK row \in Row :
          /\ s.account \in Opened /\ account[s.account].wallet \in {None, w}
          /\ account' = [account EXCEPT ![s.account] = row]
          /\ row.wallet = w /\ row.evidence = account[s.account].evidence
    BY <2>1, AssociationMakes
  <2>3. QED
    BY <1>0, <2>2 DEF Opened
<1>4. CASE UNCHANGED account
  BY <1>4 DEF Opened
<1>5. QED
  BY <1>1, <1>2, <1>3, <1>4, OtherMoves

(* So who holds a wallet goes on holding it.                                  *)
LEMMA HoldersStay ==
    ASSUME AccountsTypeOK, SessionsOpened, AccountMove, NEW w \in Wallets
    PROVE  Holders(w) \subseteq Holders(w)'
<1>1. w # None
  BY AccountsAssumption
<1>2. QED
  BY <1>1, RowsStay DEF Holders

-------------------------------------------------------------------------------
(* Wallets, sessions and passwords.                                           *)

\* SessionsOpened, WalletBinding and SessionsUnderCurrentPassword, as what is
\* asked of every two rows and of every session.
BoundPart ==
    /\ \A a, b \in Opened :
         account[a].wallet # None /\ account[a].wallet = account[b].wallet => a = b
    /\ \A s \in sessions :
         /\ s.account \in Opened
         /\ s.wallet # None => account[s.account].wallet = s.wallet
         /\ account[s.account].password = s.under

LEMMA BoundPartIs ==
    BoundPart <=> SessionsOpened /\ WalletBinding /\ SessionsUnderCurrentPassword
  BY DEF BoundPart, SessionsOpened, WalletBinding, SessionsUnderCurrentPassword, Holders

(* What a minted session holds.                                               *)
LEMMA MintedHolds ==
    ASSUME NEW a, NEW w, NEW p
    PROVE  /\ SessionFor(a, w, p).account = a
           /\ SessionFor(a, w, p).wallet = w
           /\ SessionFor(a, w, p).under = p
  BY DEF SessionFor

(* Every move keeps each wallet to one row and each session to the row of its *)
(* wallet and to the password in force.                                       *)
LEMMA BoundPartKept ==
    ASSUME AccountsTypeOK, BoundPart, AccountMove
    PROVE  BoundPart'
<1>0. /\ None \notin Row /\ account \in [Ids -> Row \cup {None}] /\ Opened \subseteq Ids
      /\ \A a \in Opened : account[a] \in Row
      /\ None \notin Wallets
      /\ \A w : Holders(w) \subseteq Opened
  BY AccountsAssumption DEF AccountsTypeOK, Opened, Holders
<1>1. ASSUME Edit, sessions' = sessions, \A a \in Opened : account'[a].password = account[a].password
      PROVE  BoundPart'
  BY <1>1, EditKeeps DEF BoundPart
<1>2. ASSUME NEW w \in Wallets, NEW p \in Passwords, PasswordReplaced(w, p)
      PROVE  BoundPart'
  <2>1. Opened' = Opened /\ \A a \in Opened : account'[a].wallet = account[a].wallet
    BY <1>2, EditKeeps DEF Edit
  <2>2. \A s \in sessions' : s \in sessions /\ s.account \notin Holders(w)
    BY <1>2 DEF PasswordReplaced, Others
  <2>3. \A a \in Opened : a \notin Holders(w) => account'[a] = account[a]
    BY <1>0, <1>2 DEF PasswordReplaced, Update
  <2>4. QED
    BY <2>1, <2>2, <2>3 DEF BoundPart
<1>3. CASE Opening
  <2>1. PICK a \in Ids \ Opened, row \in Row :
          /\ account' = [account EXCEPT ![a] = row]
          /\ row.wallet # None => Holders(row.wallet) = {}
          /\ sessions' = sessions \cup {SessionFor(a, row.wallet, row.password)}
    BY <1>3, OpeningMakes
  <2>2. /\ Opened' = Opened \cup {a} /\ account'[a] = row
        /\ \A b \in Opened : account'[b] = account[b]
    BY <1>0, <2>1 DEF Opened
  <2>3. \A b \in Opened : row.wallet # None => account[b].wallet # row.wallet
    BY <2>1 DEF Holders
  <2>4. \A s \in sessions' :
          \/ s \in sessions
          \/ s.account = a /\ s.wallet = row.wallet /\ s.under = row.password
    BY <2>1, MintedHolds
  <2>5. QED
    BY <2>2, <2>3, <2>4 DEF BoundPart
<1>4. ASSUME NEW s \in sessions, NEW w \in Wallets, AssociateWallet(s, w)
      PROVE  BoundPart'
  <2> DEFINE a == s.account
  <2>1. PICK row \in Row :
          /\ a \in Opened /\ account[a].wallet \in {None, w}
          /\ Holders(w) \subseteq {a}
          /\ account' = [account EXCEPT ![a] = row]
          /\ row.wallet = w /\ row.password = account[a].password
          /\ sessions' \subseteq sessions \cup {SessionFor(a, w, s.under)}
    BY <1>4, AssociationMakes, BoundPartIs
  <2>2. /\ Opened' = Opened /\ account'[a] = row
        /\ \A b \in Opened : b # a => account'[b] = account[b]
    BY <1>0, <2>1 DEF Opened
  <2>3. \A b \in Opened : b # a => account[b].wallet # w
    BY <2>1 DEF Holders
  <2>4. \A t \in sessions' :
          \/ t \in sessions
          \/ t.account = a /\ t.wallet = w /\ t.under = s.under
    BY <2>1, MintedHolds
  <2>5. \A t \in sessions : t.account = a /\ t.wallet # None => t.wallet = w
    BY <2>1 DEF BoundPart
  <2> HIDE DEF a
  <2>6. row.password = s.under
    BY <2>1 DEF BoundPart, a
  <2>7. \A b, c \in Opened :
          account'[b].wallet # None /\ account'[b].wallet = account'[c].wallet => b = c
    BY <2>1, <2>2, <2>3 DEF BoundPart
  <2>8. ASSUME NEW t \in sessions
        PROVE  /\ t.account \in Opened
               /\ t.wallet # None => account'[t.account].wallet = t.wallet
               /\ account'[t.account].password = t.under
    <3>1. CASE t.account = a
      BY <2>1, <2>2, <2>5, <3>1 DEF BoundPart
    <3>2. CASE t.account # a
      BY <2>2, <3>2 DEF BoundPart
    <3>3. QED
      BY <3>1, <3>2
  <2>9. QED
    BY <2>1, <2>2, <2>4, <2>6, <2>7, <2>8 DEF BoundPart
<1>5. CASE UNCHANGED account /\ sessions' \subseteq sessions
  BY <1>5 DEF BoundPart, Opened
<1>6. ASSUME UNCHANGED account, NEW w \in Wallets, NEW p \in Passwords, Login(w, p)
      PROVE  BoundPart'
  <2>1. PICK a \in Holders(w) : sessions' = sessions \cup {SessionFor(a, w, account[a].password)}
    BY <1>6, LoginMakes
  <2>2. a \in Opened /\ account[a].wallet = w
    BY DEF Holders
  <2>3. \A s \in sessions' :
          \/ s \in sessions
          \/ s.account = a /\ s.wallet = w /\ s.under = account[a].password
    BY <2>1, MintedHolds
  <2>4. QED
    BY <1>6, <2>2, <2>3 DEF BoundPart, Opened
<1>7. QED
  BY <1>1, <1>2, <1>3, <1>4, <1>5, <1>6, OtherMoves, EditKeeps

-------------------------------------------------------------------------------
(* The face-check book.                                                       *)

SpentIsGone ==
    \A t \in Tokens : /\ t \in spent => token[t] = None
                      /\ matched[t] # None => t \in spent

(* A step of the book: nothing, an issue, or tokens leaving for good, one of  *)
(* them perhaps matched.                                                      *)
LEMMA BookMoves ==
    ASSUME AccountMove
    PROVE  \/ UNCHANGED <<token, spent, matched>>
           \/ \E t \in Tokens, w \in Wallets :
                /\ IssueToken(t, w, "verification")
                /\ UNCHANGED <<account, matched>>
           \/ \E t \in Tokens, w \in Wallets :
                /\ IssueToken(t, w, "enrollment")
                /\ \E a \in Holders(w) : account[a].evidence
                /\ UNCHANGED <<account, matched>>
           \/ \E S \in SUBSET Tokens : Drop(S) /\ UNCHANGED matched
           \/ \E t \in Tokens, w \in Wallets : Match(t, w)
<1>1. CASE AccountsNext
  BY <1>1 DEF AccountsNext, RecordEvidence, Revoke, Register, Login, AssociateWallet, VerifyCode,
     BeginEnrollment, Enroll, BeginVerification, CompleteVerification, Mismatch, Consume, Finalized,
     EndSession, TokenLapses
<1>2. CASE ForgetMemory
  BY <1>2 DEF ForgetMemory
<1>3. CASE \E t \in Tokens, w \in Wallets : BeginVerification(t, w) \/ Match(t, w) \/ Mismatch(t, w)
  BY <1>3 DEF BeginVerification, Mismatch, Consume
<1>4. CASE \E w \in Wallets, p \in Passwords : PasswordReplaced(w, p)
  BY <1>4 DEF PasswordReplaced
<1>5. QED
  BY <1>1, <1>2, <1>3, <1>4 DEF AccountMove

(* Every move keeps what is spent out of the book, and matches with a token   *)
(* only as it leaves the book, once, for the wallet it was issued for.        *)
LEMMA BookKept ==
    ASSUME AccountsTypeOK, SpentIsGone, AccountMove
    PROVE  /\ SpentIsGone'
           /\ \A t \in Tokens :
                /\ matched'[t] # matched[t] =>
                     /\ matched[t] = None /\ t \in spent'
                     /\ token[t] # None /\ matched'[t] \in Holders(token[t].wallet)
                /\ t \in spent => token'[t] = None /\ matched'[t] = matched[t]
<1> USE DEF AccountsTypeOK, SpentIsGone
<1>1. CASE UNCHANGED <<token, spent, matched>>
  BY <1>1
<1>2. ASSUME NEW t \in Tokens, NEW w \in Wallets, NEW purpose, IssueToken(t, w, purpose),
             UNCHANGED matched
      PROVE  /\ SpentIsGone'
             /\ \A u \in Tokens : /\ matched'[u] = matched[u]
                                  /\ u \in spent => token'[u] = None
  BY <1>2 DEF IssueToken
<1>3. ASSUME NEW S \in SUBSET Tokens, Drop(S), UNCHANGED matched
      PROVE  /\ SpentIsGone'
             /\ \A u \in Tokens : /\ matched'[u] = matched[u]
                                  /\ u \in spent => token'[u] = None
  BY <1>3 DEF Drop
<1>4. ASSUME NEW t \in Tokens, NEW w \in Wallets, Match(t, w)
      PROVE  /\ SpentIsGone'
             /\ \A u \in Tokens :
                  /\ matched'[u] # matched[u] =>
                       /\ matched[u] = None /\ u \in spent'
                       /\ token[u] # None /\ matched'[u] \in Holders(token[u].wallet)
                  /\ u \in spent => token'[u] = None /\ matched'[u] = matched[u]
  <2>1. PICK a \in Holders(w) : matched' = [matched EXCEPT ![t] = a]
    BY <1>4 DEF Match
  <2>2. token[t] = [wallet |-> w, purpose |-> "verification"]
    BY <1>4 DEF Match, Consume, Redeemable
  <2>3. /\ token' = [u \in Tokens |-> IF u = t THEN None ELSE token[u]]
        /\ spent' = spent \cup {t}
    BY <1>4 DEF Match, Consume, Drop
  <2>4. token[t] # None /\ token[t].wallet = w
    BY <2>2, AccountsAssumption DEF Challenge
  <2>5. t \notin spent /\ matched[t] = None
    BY <2>4
  <2>6. QED
    BY <2>1, <2>3, <2>4, <2>5
<1>5. QED
  BY <1>1, <1>2, <1>3, <1>4, BookMoves

\* An enrolment is only begun by who has evidence on record.
EnrollmentBacked ==
    \A t \in Tokens : token[t] # None /\ token[t].purpose = "enrollment" =>
        \E a \in Holders(token[t].wallet) : account[a].evidence

(* Every move keeps the evidence behind the enrolments that are under way.    *)
LEMMA BackingKept ==
    ASSUME AccountsTypeOK, SessionsOpened, EnrollmentBacked, AccountMove
    PROVE  EnrollmentBacked'
<1> SUFFICES ASSUME NEW t \in Tokens, token'[t] # None, token'[t].purpose = "enrollment"
             PROVE  \E a \in Opened' : account'[a].wallet = token'[t].wallet /\ account'[a].evidence
  BY DEF EnrollmentBacked, Holders
<1>1. CASE token'[t] = token[t]
  <2>1. token[t].wallet \in Wallets
    BY <1>1 DEF AccountsTypeOK, Challenge
  <2>2. PICK a \in Opened : account[a].wallet = token[t].wallet /\ account[a].evidence
    BY <1>1 DEF EnrollmentBacked, Holders
  <2>3. account[a].wallet # None
    BY <2>1, <2>2, AccountsAssumption
  <2>4. QED
    BY <1>1, <2>2, <2>3, RowsStay
<1>2. CASE token'[t] # token[t]
  <2>1. PICK u \in Tokens, w \in Wallets, purpose \in {"enrollment", "verification"} :
          /\ IssueToken(u, w, purpose)
          /\ purpose = "enrollment" => \E a \in Holders(w) : account[a].evidence
          /\ UNCHANGED account
    <3>1. ~UNCHANGED token
      BY <1>2
    <3>2. ~\E S \in SUBSET Tokens : Drop(S)
      BY <1>2 DEF Drop
    <3>3. \A v \in Tokens, w \in Wallets : ~Match(v, w)
      BY <3>2 DEF Match, Consume
    <3>4. QED
      BY <3>1, <3>2, <3>3, BookMoves
  <2>2. token'[t] = [wallet |-> w, purpose |-> purpose]
    BY <1>2, <2>1 DEF IssueToken, AccountsTypeOK
  <2>3. purpose = "enrollment" /\ token'[t].wallet = w
    BY <2>2
  <2>4. QED
    BY <2>1, <2>3 DEF Holders, Opened
<1>3. QED
  BY <1>1, <1>2

-------------------------------------------------------------------------------
(* Faces.                                                                     *)

FaceBacked(row) ==
    /\ row.identity <=> row.reference = "live"
    /\ row.reference # "none" => row.evidence

(* An edit keeps the face of every row backed: an enrolment finds the         *)
(* evidence its token was issued for, a revocation takes the identity too.    *)
LEMMA EditKeepsFaces ==
    ASSUME AccountsTypeOK, WalletBinding, EnrollmentBacked, IdentityRestsOnFace, Edit
    PROVE  \A a \in Opened : FaceBacked(account'[a])
<1>0. /\ account \in [Ids -> Row \cup {None}]
      /\ \A w : Holders(w) \subseteq Opened
      /\ \A a \in Opened : a \in Ids /\ account[a] \in Row /\ FaceBacked(account[a])
      /\ None \notin Wallets
  BY AccountsAssumption DEF AccountsTypeOK, Holders, Opened, IdentityRestsOnFace, FaceBacked
<1>1. ASSUME NEW w \in Wallets, NEW ch \in Channels, VerifyCode(ch, w), NEW a \in Opened
      PROVE  FaceBacked(account'[a])
  <2>1. account'[a] = account[a] \/ account'[a] = [account[a] EXCEPT !.passed = @ \cup {ch}]
    BY <1>0, <1>1 DEF VerifyCode
  <2>2. QED
    BY <1>0, <2>1 DEF FaceBacked, Row
<1>2. ASSUME NEW w \in Wallets, RecordEvidence(w), NEW a \in Opened
      PROVE  FaceBacked(account'[a])
  <2>1. account'[a] = account[a] \/ account'[a] = [account[a] EXCEPT !["evidence"] = TRUE]
    BY <1>0, <1>2 DEF RecordEvidence, Update
  <2>2. QED
    BY <1>0, <2>1 DEF FaceBacked, Row
<1>3. ASSUME NEW w \in Wallets, NEW p \in Passwords, PasswordReplaced(w, p), NEW a \in Opened
      PROVE  FaceBacked(account'[a])
  <2>1. account'[a] = account[a] \/ account'[a] = [account[a] EXCEPT !["password"] = p]
    BY <1>0, <1>3 DEF PasswordReplaced, Update
  <2>2. QED
    BY <1>0, <2>1 DEF FaceBacked, Row
<1>4. ASSUME NEW w \in Wallets, Revoke(w), NEW a \in Opened
      PROVE  FaceBacked(account'[a])
  <2>1. PICK b \in Holders(w) : /\ account[b].reference = "live"
                                /\ account' = [account EXCEPT ![b] = Revoked(account[b])]
    BY <1>4 DEF Revoke
  <2>2. FaceBacked(Revoked(account[b]))
    BY <1>0, <2>1 DEF FaceBacked, Row, Revoked
  <2>3. QED
    BY <1>0, <2>1, <2>2
<1>5. ASSUME NEW w \in Wallets, NEW t \in Tokens, Enroll(t, w), NEW a \in Opened
      PROVE  FaceBacked(account'[a])
  <2>1. PICK b \in Holders(w) :
          /\ Consume(t, w, "enrollment")
          /\ \/ UNCHANGED account
             \/ account' = [account EXCEPT ![b].reference = "live", ![b].identity = TRUE]
    BY <1>5 DEF Enroll
  <2>2. token[t] = [wallet |-> w, purpose |-> "enrollment"]
    BY <2>1 DEF Consume, Redeemable
  <2>3. token[t] # None /\ token[t].wallet = w /\ token[t].purpose = "enrollment"
    BY <2>2, AccountsAssumption DEF Challenge
  <2>4. PICK c \in Holders(w) : account[c].evidence
    BY <2>3 DEF EnrollmentBacked
  <2>5. b = c
    BY <1>0 DEF Holders, WalletBinding
  <2> DEFINE row == [account[b] EXCEPT !.reference = "live", !.identity = TRUE]
  <2>6. account' = account \/ account' = [account EXCEPT ![b] = row]
    BY <1>0, <2>1
  <2>7. FaceBacked(row)
    BY <1>0, <2>4, <2>5 DEF FaceBacked, Row
  <2> HIDE DEF row
  <2>8. QED
    BY <1>0, <2>6, <2>7
<1>6. QED
  BY <1>1, <1>2, <1>3, <1>4, <1>5 DEF Edit

(* Every move keeps who is identity-verified resting on a live face.          *)
LEMMA FacesKept ==
    ASSUME AccountsTypeOK, SessionsOpened, WalletBinding, EnrollmentBacked, IdentityRestsOnFace,
           AccountMove
    PROVE  IdentityRestsOnFace'
<1>0. /\ account \in [Ids -> Row \cup {None}] /\ Opened \subseteq Ids
      /\ None \notin Row
      /\ \A a \in Opened : FaceBacked(account[a])
  BY AccountsAssumption DEF AccountsTypeOK, Opened, IdentityRestsOnFace, FaceBacked
<1> SUFFICES \A a \in Opened' : FaceBacked(account'[a])
  BY DEF IdentityRestsOnFace, FaceBacked
<1>1. CASE Edit
  BY <1>1, EditKeeps, EditKeepsFaces
<1>2. CASE Opening
  <2>1. PICK b \in Ids \ Opened, row \in Row :
          /\ account' = [account EXCEPT ![b] = row]
          /\ row.reference = "none" /\ row.identity = FALSE
    BY <1>2, OpeningMakes
  <2>2. Opened' \subseteq Opened \cup {b} /\ account'[b] = row
          /\ \A a \in Opened : account'[a] = account[a]
    BY <1>0, <2>1 DEF Opened
  <2>3. FaceBacked(row)
    BY <2>1 DEF FaceBacked
  <2>4. QED
    BY <1>0, <2>2, <2>3
<1>3. ASSUME NEW s \in sessions, NEW w \in Wallets, AssociateWallet(s, w)
      PROVE  \A a \in Opened' : FaceBacked(account'[a])
  <2>1. PICK row \in Row :
          /\ s.account \in Opened
          /\ account' = [account EXCEPT ![s.account] = row]
          /\ row.evidence = account[s.account].evidence
          /\ row.reference = account[s.account].reference
          /\ row.identity = account[s.account].identity
    BY <1>3, AssociationMakes
  <2>2. Opened' = Opened
    BY <1>0, <2>1 DEF Opened
  <2>3. FaceBacked(row)
    BY <1>0, <2>1 DEF FaceBacked
  <2>4. QED
    BY <1>0, <2>1, <2>2, <2>3
<1>4. CASE UNCHANGED account
  BY <1>0, <1>4 DEF Opened
<1>5. QED
  BY <1>1, <1>2, <1>3, <1>4, OtherMoves

-------------------------------------------------------------------------------
(* The inductive invariant of the account store. Its types need               *)
(* SessionsOpened; IdentityRestsOnFace needs EnrollmentBacked and, because an *)
(* enrolment finds its row by wallet, WalletBinding; that a token is matched  *)
(* once needs SpentIsGone.                                                    *)
AccountsIInv ==
    /\ AccountsTypeOK
    /\ SessionsOpened
    /\ WalletBinding
    /\ SessionsUnderCurrentPassword
    /\ SpentIsGone
    /\ EnrollmentBacked
    /\ IdentityRestsOnFace

LEMMA AccountsInitInv == AccountsInit => AccountsIInv
  BY AccountsInitTyped, AccountsAssumption DEF AccountsInit, AccountsIInv, SessionsOpened, WalletBinding,
     SessionsUnderCurrentPassword, SpentIsGone, EnrollmentBacked, IdentityRestsOnFace, Opened, Row

(* Every move of the account store keeps it.                                  *)
LEMMA AccountsIInvKept ==
    ASSUME AccountsIInv, AccountMove \/ UNCHANGED accountVars
    PROVE  AccountsIInv'
<1>1. CASE AccountMove
  <2>1. AccountsTypeOK'
    BY <1>1, MoveTyped DEF AccountsIInv
  <2>2. BoundPart'
    BY <1>1, BoundPartIs, BoundPartKept DEF AccountsIInv
  <2>3. SessionsOpened' /\ WalletBinding' /\ SessionsUnderCurrentPassword'
    BY <2>2 DEF BoundPart, SessionsOpened, WalletBinding, SessionsUnderCurrentPassword, Holders
  <2>4. SpentIsGone'
    BY <1>1, BookKept DEF AccountsIInv
  <2>5. EnrollmentBacked'
    BY <1>1, BackingKept DEF AccountsIInv
  <2>6. IdentityRestsOnFace'
    BY <1>1, FacesKept DEF AccountsIInv
  <2>7. QED
    BY <2>1, <2>3, <2>4, <2>5, <2>6 DEF AccountsIInv
<1>2. CASE UNCHANGED accountVars
  BY <1>2 DEF accountVars, AccountsIInv, AccountsTypeOK, SessionsOpened, WalletBinding,
     SessionsUnderCurrentPassword, SpentIsGone, EnrollmentBacked, IdentityRestsOnFace, Opened, Holders
<1>3. QED
  BY <1>1, <1>2

(* It holds in every state of a server that also runs password recovery.      *)
THEOREM AccountsInductive == RecoverySpec => []AccountsIInv
<1>1. RecoveryInit => AccountsIInv
  BY AccountsInitInv DEF RecoveryInit
<1>2. AccountsIInv /\ [RecoveryNext]_allAccountVars => AccountsIInv'
  BY RecoveryMoves, AccountsIInvKept
<1>3. QED
  BY <1>1, <1>2, PTL DEF RecoverySpec

(* A wallet belongs to one account, and a session acts for the account that   *)
(* has its wallet.                                                            *)
THEOREM WalletBindingHolds == RecoverySpec => []WalletBinding
  BY AccountsInductive, PTL DEF AccountsIInv

(* Who is identity-verified has a live reference, enrolled after evidence.    *)
THEOREM IdentityRestsOnFaceHolds == RecoverySpec => []IdentityRestsOnFace
  BY AccountsInductive, PTL DEF AccountsIInv

(* No session outlives the password its holder last proved to know.           *)
THEOREM SessionsUnderCurrentPasswordHolds == RecoverySpec => []SessionsUnderCurrentPassword
  BY AccountsInductive, PTL DEF AccountsIInv

(* A face token answers once, for the wallet it was issued for.               *)
THEOREM TokensAreSpentOnceHolds == RecoverySpec => TokensAreSpentOnce
<1>1. AccountsIInv /\ [RecoveryNext]_allAccountVars =>
        [\A t \in Tokens :
            /\ matched'[t] # matched[t] =>
                 /\ matched[t] = None /\ t \in spent'
                 /\ token[t] # None /\ matched'[t] \in Holders(token[t].wallet)
            /\ t \in spent => token'[t] = None /\ matched'[t] = matched[t]]_accountVars
  BY RecoveryMoves, BookKept DEF AccountsIInv
<1>2. QED
  BY <1>1, AccountsInductive, PTL DEF RecoverySpec, TokensAreSpentOnce

-------------------------------------------------------------------------------
(* Recovery rows. GatesAreTheRows compares the code that was entered with the *)
(* begin() of the row; the handler compares it with the code in memory, so    *)
(* CodeIsTheRows says that the two are of one begin() while both are there.   *)
CodeIsTheRows ==
    \A w \in Wallets : mailed[w] # None /\ recovery[w] # None => mailed[w].code = recovery[w].by

RecoveryIInv == RecoveryTypeOK /\ AccountsIInv /\ CodeIsTheRows /\ GatesAreTheRows

(* A match stays one of a holder of the wallet.                               *)
LEMMA MatchStays ==
    ASSUME AccountsIInv, AccountMove \/ UNCHANGED accountVars, NEW t \in Tokens, NEW w \in Wallets,
           matched[t] \in Holders(w)
    PROVE  matched'[t] \in Holders(w)'
<1>1. matched[t] # None
  BY AccountsAssumption DEF Holders, Opened, Ids
<1>2. CASE AccountMove
  <2>1. matched'[t] = matched[t]
    BY <1>1, <1>2, BookKept DEF AccountsIInv
  <2>2. QED
    BY <1>2, <2>1, HoldersStay DEF AccountsIInv
<1>3. CASE UNCHANGED accountVars
  BY <1>3 DEF accountVars, Holders, Opened
<1>4. QED
  BY <1>2, <1>3

LEMMA RecoveryInitTyped == RecoveryInit => RecoveryTypeOK
  BY AccountsInitTyped DEF RecoveryInit, RecoveryTypeOK, Mail!OtcInit, Mail!OtcTypeOK, Gate!GateInit,
     Gate!GateTypeOK

(* Every step keeps the types of the recovery rows, codes and runs.           *)
LEMMA RecoveryStepTyped ==
    ASSUME RecoveryTypeOK, AccountsIInv, [RecoveryNext]_allAccountVars
    PROVE  RecoveryTypeOK'
<1>0. AccountsTypeOK'
  BY RecoveryMoves, AccountsIInvKept DEF AccountsIInv
<1> USE <1>0 DEF RecoveryTypeOK, Mail!OtcTypeOK, Gate!GateTypeOK, recoveryVars
<1>1. CASE UNCHANGED recoveryVars
  BY <1>1
<1>2. CASE RecoveryRestart
  BY <1>2 DEF RecoveryRestart, Mail!Lapse, Gate!LapseRuns
<1>3. ASSUME NEW b \in Begins, Mailed(b)
      PROVE  RecoveryTypeOK'
  <2>1. NewRecovery(b) \in Recovery
    BY DEF NewRecovery, Recovery
  <2>2. Mail!Fresh(b) \in [code : Begins, left : 1..1]
    BY DEF Mail!Fresh
  <2>3. QED
    BY <1>3, <2>1, <2>2 DEF Mailed, Mail!Arm, OpenRow
<1>4. ASSUME NEW b \in Begins, NotMailed(b)
      PROVE  RecoveryTypeOK'
  BY <1>4 DEF NotMailed
<1>5. ASSUME NEW w \in Wallets, ExpireRecovery(w)
      PROVE  RecoveryTypeOK'
  <2>1. [recovery[w] EXCEPT !.late = TRUE] \in Recovery
    BY <1>5 DEF ExpireRecovery, Loaded, Recovery
  <2>2. QED
    BY <1>5, <2>1 DEF ExpireRecovery
<1>6. ASSUME NEW w \in Wallets, DestroyRecovery(w)
      PROVE  RecoveryTypeOK'
  BY <1>6 DEF DestroyRecovery
<1>7. ASSUME NEW w \in Wallets, RecoveryMemoryLapses(w)
      PROVE  RecoveryTypeOK'
  BY <1>7 DEF RecoveryMemoryLapses, Mail!Lapse, Gate!LapseRuns
<1>8. ASSUME NEW w \in Wallets, LivenessStart(w)
      PROVE  RecoveryTypeOK'
  BY <1>8, RecoveryAssumption DEF LivenessStart, Gate!StartRun
<1>9. ASSUME NEW w \in Wallets, LivenessEvidence(w)
      PROVE  RecoveryTypeOK'
  <2>1. CASE Gate!Advance(w) /\ UNCHANGED recovery
    <3>1. run[w] \in 0..(Total - 1) /\ run[w] + 1 \in 0..(Total - 1)
      BY <2>1, RecoveryAssumption DEF Gate!Advance
    <3>2. QED
      BY <1>9, <2>1, <3>1 DEF LivenessEvidence, Gate!Advance
  <2>2. CASE Gate!Finish(w) /\ recovery' = [recovery EXCEPT ![w].liveness = TRUE]
    <3>0. recovery[w] \in Recovery
      BY <1>9 DEF LivenessEvidence, Loaded
    <3>1. [recovery[w] EXCEPT !.liveness = TRUE] \in Recovery
      BY <3>0 DEF Recovery
    <3>2. QED
      BY <1>9, <2>2, <3>1 DEF LivenessEvidence, Gate!Finish
  <2>3. QED
    BY <1>9, <2>1, <2>2 DEF LivenessEvidence
<1>10. ASSUME NEW w \in Wallets, NEW b \in Begins, NEW e \in Emails, Begin(b, w, e)
       PROVE  RecoveryTypeOK'
  BY <1>10 DEF Begin
<1>11. ASSUME NEW w \in Wallets, NEW c \in Begins, VerifyEmailOtp(w, c)
       PROVE  RecoveryTypeOK'
  <2>1. [recovery[w] EXCEPT !.email = TRUE, !.entered = c] \in Recovery
    BY <1>11 DEF VerifyEmailOtp, Loaded, Recovery
  <2>2. recovery' = [recovery EXCEPT ![w] = [recovery[w] EXCEPT !.email = TRUE, !.entered = c]]
    BY <1>11 DEF VerifyEmailOtp
  <2>3. QED
    BY <1>11, <2>1, <2>2 DEF VerifyEmailOtp, Mail!RightGuess
<1>12. ASSUME NEW w \in Wallets, NEW t \in Tokens, BiometricStart(t, w) \/ BiometricVerify(t, w)
       PROVE  RecoveryTypeOK'
  <2>1. FaceReady(w) => [recovery[w] EXCEPT !.face = TRUE] \in Recovery
    BY DEF FaceReady, Loaded, Recovery
  <2>2. QED
    BY <1>12, <2>1 DEF BiometricStart, BiometricVerify
<1>13. ASSUME NEW w \in Wallets, NEW p \in Passwords, Reset(w, p)
       PROVE  RecoveryTypeOK'
  BY <1>13 DEF Reset, RecoverySpent, Gate!LapseRuns
<1>14. QED
  BY <1>1, <1>2, <1>3, <1>4, <1>5, <1>6, <1>7, <1>8, <1>9, <1>10, <1>11, <1>12, <1>13
     DEF RecoveryNext, allAccountVars

(* A step leaves a recovery row alone, removes it, or makes one of these of   *)
(* it: the row of a begin() whose code was just mailed, or one more gate.      *)
LEMMA RowSteps ==
    ASSUME RecoveryTypeOK, [RecoveryNext]_allAccountVars, NEW w \in Wallets,
           recovery'[w] # None, recovery'[w] # recovery[w]
    PROVE  \/ \E b \in Begins : recovery'[w] = NewRecovery(b) /\ mailed'[w].code = b
           \/ /\ recovery[w] # None
              /\ \/ recovery'[w] = [recovery[w] EXCEPT !.late = TRUE]
                 \/ /\ mailed[w] # None
                    /\ recovery'[w] = [recovery[w] EXCEPT !.email = TRUE, !.entered = mailed[w].code]
                 \/ recovery[w].email /\ recovery'[w] = [recovery[w] EXCEPT !.liveness = TRUE]
                 \/ /\ recovery[w].email /\ recovery[w].liveness
                    /\ \E t \in Tokens : Match(t, w)
                    /\ recovery'[w] = [recovery[w] EXCEPT !.face = TRUE]
<1> USE DEF RecoveryTypeOK
<1>1. ASSUME NEW b \in Begins, Mailed(b)
      PROVE  recovery'[w] = NewRecovery(b) /\ mailed'[w].code = b
  <2>1. attempt[b] = w
    BY <1>1 DEF Mailed, OpenRow
  <2>2. QED
    BY <1>1, <2>1 DEF Mailed, OpenRow, Mail!OtcTypeOK, Mail!Arm, Mail!Fresh
<1>2. ASSUME NEW v \in Wallets, ExpireRecovery(v)
      PROVE  recovery[w] # None /\ recovery'[w] = [recovery[w] EXCEPT !.late = TRUE]
  BY <1>2 DEF ExpireRecovery, Loaded
<1>3. ASSUME NEW v \in Wallets, LivenessEvidence(v)
      PROVE  recovery[w] # None /\ recovery[w].email
               /\ recovery'[w] = [recovery[w] EXCEPT !.liveness = TRUE]
  BY <1>3 DEF LivenessEvidence, Loaded
<1>4. ASSUME NEW v \in Wallets, NEW c \in Begins, VerifyEmailOtp(v, c)
      PROVE  /\ recovery[w] # None /\ mailed[w] # None
             /\ recovery'[w] = [recovery[w] EXCEPT !.email = TRUE, !.entered = mailed[w].code]
  <2>1. recovery' = [recovery EXCEPT ![v] = [recovery[v] EXCEPT !.email = TRUE, !.entered = c]]
    BY <1>4 DEF VerifyEmailOtp
  <2>2. v = w
    BY <2>1
  <2>3. QED
    BY <1>4, <2>1, <2>2 DEF VerifyEmailOtp, Loaded, Mail!RightGuess
<1>5. ASSUME NEW v \in Wallets, NEW t \in Tokens, BiometricStart(t, v) \/ BiometricVerify(t, v)
      PROVE  /\ recovery[w] # None
             /\ recovery[w].email /\ recovery[w].liveness
             /\ \E u \in Tokens : Match(u, w)
             /\ recovery'[w] = [recovery[w] EXCEPT !.face = TRUE]
  <2>1. FaceReady(v) /\ Match(t, v) /\ recovery' = [recovery EXCEPT ![v].face = TRUE]
    BY <1>5 DEF BiometricStart, BiometricVerify, recoveryVars
  <2>2. v = w
    BY <2>1
  <2>3. QED
    BY <2>1, <2>2 DEF FaceReady, Loaded
<1>6. QED
  BY <1>1, <1>2, <1>3, <1>4, <1>5 DEF RecoveryNext, allAccountVars, recoveryVars, RecoveryRestart, NotMailed,
     DestroyRecovery, RecoveryMemoryLapses, LivenessStart, Begin, Reset, RecoverySpent

(* A code in memory that is new is the one just mailed.                       *)
LEMMA CodeSteps ==
    ASSUME RecoveryTypeOK, [RecoveryNext]_allAccountVars, NEW w \in Wallets, mailed'[w] # None
    PROVE  \/ mailed'[w] = mailed[w]
           \/ \E b \in Begins : mailed'[w].code = b /\ recovery'[w] = NewRecovery(b)
<1> USE DEF RecoveryTypeOK, Mail!OtcTypeOK
<1>1. ASSUME NEW b \in Begins, Mailed(b), mailed'[w] # mailed[w]
      PROVE  mailed'[w].code = b /\ recovery'[w] = NewRecovery(b)
  BY <1>1 DEF Mailed, OpenRow, Mail!Arm, Mail!Fresh
<1>2. ASSUME NEW v \in Wallets, NEW c \in Begins, VerifyEmailOtp(v, c)
      PROVE  mailed'[w] = mailed[w]
  BY <1>2 DEF VerifyEmailOtp, Mail!RightGuess
<1>3. CASE RecoveryRestart
  BY <1>3 DEF RecoveryRestart, Mail!Lapse
<1>4. ASSUME NEW v \in Wallets, RecoveryMemoryLapses(v)
      PROVE  mailed'[w] = mailed[w]
  BY <1>4 DEF RecoveryMemoryLapses, Mail!Lapse
<1>5. QED
  BY <1>1, <1>2, <1>3, <1>4 DEF RecoveryNext, allAccountVars, recoveryVars, NotMailed, ExpireRecovery,
     DestroyRecovery, LivenessStart, LivenessEvidence, Begin, BiometricStart, BiometricVerify, Reset

(* Every step keeps the code in memory and the row of one begin().            *)
LEMMA CodesKept ==
    ASSUME RecoveryTypeOK, CodeIsTheRows, [RecoveryNext]_allAccountVars
    PROVE  CodeIsTheRows'
<1> SUFFICES ASSUME NEW w \in Wallets, mailed'[w] # None, recovery'[w] # None
             PROVE  mailed'[w].code = recovery'[w].by
  BY DEF CodeIsTheRows
<1>1. CASE \E b \in Begins : mailed'[w].code = b /\ recovery'[w] = NewRecovery(b)
  BY <1>1 DEF NewRecovery
<1>2. CASE mailed'[w] = mailed[w] /\ recovery'[w] = recovery[w]
  BY <1>2 DEF CodeIsTheRows
<1>3. CASE mailed'[w] = mailed[w] /\ recovery'[w] # recovery[w]
  <2>1. CASE \E b \in Begins : recovery'[w] = NewRecovery(b) /\ mailed'[w].code = b
    BY <2>1 DEF NewRecovery
  <2>2. CASE recovery[w] # None /\ recovery'[w].by = recovery[w].by
    BY <1>3, <2>2 DEF CodeIsTheRows
  <2>3. QED
    BY <1>3, <2>1, <2>2, RowSteps DEF RecoveryTypeOK, Recovery
<1>4. QED
  BY <1>1, <1>2, <1>3, CodeSteps

\* GatesAreTheRows, of one row.
GatesOf(w, r) ==
    /\ r.email => r.entered = r.by
    /\ r.liveness => r.email
    /\ r.face => r.liveness /\ \E t \in Tokens : matched[t] \in Holders(w)

(* Every step leaves the gates of every row its own.                          *)
LEMMA GatesStayTheRows ==
    ASSUME RecoveryIInv, [RecoveryNext]_allAccountVars
    PROVE  GatesAreTheRows'
<1> SUFFICES ASSUME NEW w \in Wallets, recovery'[w] # None
             PROVE  /\ recovery'[w].email => recovery'[w].entered = recovery'[w].by
                    /\ recovery'[w].liveness => recovery'[w].email
                    /\ recovery'[w].face => /\ recovery'[w].liveness
                                            /\ \E t \in Tokens : matched'[t] \in Holders(w)'
  BY DEF GatesAreTheRows
<1>1. RecoveryTypeOK /\ AccountsIInv
  BY DEF RecoveryIInv
<1>2. recovery[w] # None => recovery[w] \in Recovery /\ GatesOf(w, recovery[w])
  BY <1>1 DEF RecoveryIInv, RecoveryTypeOK, GatesAreTheRows, GatesOf
<1>3. (\E t \in Tokens : matched[t] \in Holders(w)) => \E t \in Tokens : matched'[t] \in Holders(w)'
  BY <1>1, RecoveryMoves, MatchStays
<1>4. CASE recovery'[w] = recovery[w]
  BY <1>2, <1>3, <1>4 DEF GatesOf
<1>5. CASE \E b \in Begins : recovery'[w] = NewRecovery(b)
  BY <1>5 DEF NewRecovery
<1>6. CASE recovery[w] # None /\ recovery'[w] = [recovery[w] EXCEPT !.late = TRUE]
  BY <1>2, <1>3, <1>6 DEF GatesOf, Recovery
<1>7. CASE /\ recovery[w] # None /\ mailed[w] # None
           /\ recovery'[w] = [recovery[w] EXCEPT !.email = TRUE, !.entered = mailed[w].code]
  <2>1. mailed[w].code = recovery[w].by
    BY <1>7 DEF RecoveryIInv, CodeIsTheRows
  <2>2. QED
    BY <1>2, <1>3, <1>7, <2>1 DEF GatesOf, Recovery
<1>8. CASE /\ recovery[w] # None /\ recovery[w].email
           /\ recovery'[w] = [recovery[w] EXCEPT !.liveness = TRUE]
  BY <1>2, <1>3, <1>8 DEF GatesOf, Recovery
<1>9. CASE /\ recovery[w] # None /\ recovery[w].email /\ recovery[w].liveness
           /\ \E t \in Tokens : Match(t, w)
           /\ recovery'[w] = [recovery[w] EXCEPT !.face = TRUE]
  <2>1. PICK t \in Tokens : Match(t, w)
    BY <1>9
  <2>2. matched'[t] \in Holders(w)'
    BY <1>1, <2>1 DEF Match, AccountsIInv, AccountsTypeOK, Holders, Opened
  <2>3. QED
    BY <1>2, <1>9, <2>2 DEF GatesOf, Recovery
<1>10. QED
  BY <1>1, <1>4, <1>5, <1>6, <1>7, <1>8, <1>9, RowSteps

(* The inductive invariant of password recovery holds in every state.         *)
THEOREM RecoveryInductive == RecoverySpec => []RecoveryIInv
<1>1. RecoveryInit => RecoveryIInv
  BY RecoveryInitTyped, AccountsInitInv DEF RecoveryInit, RecoveryIInv, CodeIsTheRows, GatesAreTheRows
<1>2. RecoveryIInv /\ [RecoveryNext]_allAccountVars => RecoveryIInv'
  <2> SUFFICES ASSUME RecoveryIInv, [RecoveryNext]_allAccountVars
               PROVE  RecoveryIInv'
    OBVIOUS
  <2>1. RecoveryTypeOK'
    BY RecoveryStepTyped DEF RecoveryIInv
  <2>2. AccountsIInv'
    BY RecoveryMoves, AccountsIInvKept DEF RecoveryIInv
  <2>3. CodeIsTheRows'
    BY CodesKept DEF RecoveryIInv
  <2>4. GatesAreTheRows'
    BY GatesStayTheRows
  <2>5. QED
    BY <2>1, <2>2, <2>3, <2>4 DEF RecoveryIInv
<1>3. QED
  BY <1>1, <1>2, PTL DEF RecoverySpec

(* Every variable of the account store and of recovery keeps its type.        *)
THEOREM RecoveryTypeCorrect == RecoverySpec => []RecoveryTypeOK
  BY RecoveryInductive, PTL DEF RecoveryIInv

(* The gates of a recovery row are its own.                                   *)
THEOREM GatesAreTheRowsHolds == RecoverySpec => []GatesAreTheRows
  BY RecoveryInductive, PTL DEF RecoveryIInv

===============================================================================
