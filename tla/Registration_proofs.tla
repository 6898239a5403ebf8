--------------------------- MODULE Registration_proofs ---------------------------
(***************************************************************************)
(* Proofs about registration on the server, for every set of details,      *)
(* addresses, codes and concurrent requests and every value of its limits: *)
(* the session of an applicant, and the session beside the engines of      *)
(* codes and of liveness that MCRegistration checks.                       *)
(***************************************************************************)
EXTENDS MCRegistration, OtpService_proofs, Liveness_proofs

-------------------------------------------------------------------------------
(* Writing one gate of a row, or none, leaves a row: what every handler that  *)
(* patches the session relies on.                                             *)
LEMMA GateWritten ==
    ASSUME NEW row \in Session
    PROVE  /\ [row EXCEPT !.completed = TRUE] \in Session
           /\ [row EXCEPT !.document = TRUE] \in Session
           /\ [row EXCEPT !.email = TRUE] \in Session
           /\ [row EXCEPT !.linked = TRUE] \in Session
           /\ [row EXCEPT !.password = TRUE] \in Session
           /\ [row EXCEPT !.photo = TRUE] \in Session
           /\ [row EXCEPT !.liveness = TRUE] \in Session
           /\ [row EXCEPT !.location = TRUE] \in Session
           /\ [row EXCEPT !.finalized = TRUE] \in Session
  BY DEF Session

(* So does a personal step or a delivered mail, which write the profile.      *)
LEMMA ProfileWritten ==
    ASSUME NEW row \in Session
    PROVE  /\ \A d \in Details :
                [row EXCEPT !.profile = [who |-> d, email |-> Absent], !.masked = d,
                            !.completed = FALSE] \in Session
           /\ \A p \in Profile : [row EXCEPT !.profile = p, !.email = FALSE] \in Session
  BY DEF Session, Profile

(* The first state is typed. *)
LEMMA SessionInitTyped == SessionInit => SessionTypeOK
<1> SUFFICES ASSUME SessionInit
             PROVE  SessionTypeOK
  OBVIOUS
<1>1. accounts \in Seq(Account) /\ Len(accounts) <= MaxAccounts
  BY SessionAssumption DEF SessionInit
<1>2. Otp!OtcTypeOK /\ Gate!GateTypeOK
  BY DEF SessionInit, Otp!OtcInit, Otp!OtcTypeOK, Gate!GateInit, Gate!GateTypeOK
<1>3. QED
  BY <1>1, <1>2 DEF SessionInit, SessionTypeOK, Seen

(* Every step, stuttering included, keeps every type. *)
LEMMA SessionStepTyped == SessionTypeOK /\ [SessionNext]_sessionVars => SessionTypeOK'
<1> SUFFICES ASSUME SessionTypeOK, [SessionNext]_sessionVars
             PROVE  SessionTypeOK'
  OBVIOUS
<1> USE DEF SessionTypeOK, Otp!OtcTypeOK, Gate!GateTypeOK, Others, Returns, Patch, Loaded, HasProfile
<1>1. CASE Begin
  BY <1>1 DEF Begin, NewSession, Session
<1>2. CASE TimesOut
  BY <1>2 DEF TimesOut
<1>3. CASE DestroyExpired
  BY <1>3 DEF DestroyExpired
<1>4. CASE MemoryLapses
  BY <1>4 DEF MemoryLapses, Otp!Lapse, Gate!LapseRuns
<1>5. CASE Restart
  BY <1>5 DEF Restart, Otp!Lapse, Gate!LapseRuns
<1>6. CASE CompletePersonal \/ SetPassword \/ Photo
  BY <1>6, GateWritten DEF CompletePersonal, SetPassword, Photo
<1>7. CASE LivenessStart
  BY <1>7, SessionAssumption DEF LivenessStart, Gate!StartRun
<1>8. CASE LivenessEvidence
  <2>1. CASE Gate!Advance(Token) /\ UNCHANGED session
    <3>1. run[Token] \in 0..(Total - 1) /\ run[Token] + 1 \in 0..(Total - 1)
      BY <2>1, SessionAssumption DEF Gate!Advance
    <3>2. QED
      BY <1>8, <2>1, <3>1 DEF LivenessEvidence, Gate!Advance
  <2>2. CASE Gate!Finish(Token) /\ session' = [session EXCEPT !.liveness = TRUE]
    BY <1>8, <2>2, GateWritten DEF LivenessEvidence, Gate!Finish
  <2>3. QED
    BY <1>8, <2>1, <2>2 DEF LivenessEvidence
<1>9. CASE Finalize
  <2>1. [session |-> session, seen |-> seen] \in Account
    BY <1>9 DEF Finalize, Account
  <2>2. accounts' \in Seq(Account) /\ Len(accounts') <= MaxAccounts
    BY <1>9, <2>1, SessionAssumption DEF Finalize
  <2>3. QED
    BY <1>9, <2>2, GateWritten DEF Finalize
<1>10. ASSUME NEW d \in Details, PersonalWithoutPincode(d) PROVE SessionTypeOK'
  BY <1>10, ProfileWritten DEF PersonalWithoutPincode, WritePersonal
<1>11. ASSUME NEW c \in EmailCodes, VerifyEmailRight(c) PROVE SessionTypeOK'
  BY <1>11, GateWritten DEF VerifyEmailRight, Otp!RightGuess, Seen
<1>12. ASSUME NEW c \in EmailCodes, VerifyEmailWrong(c) PROVE SessionTypeOK'
  BY <1>12, SessionAssumption DEF VerifyEmailWrong, Otp!WrongGuess
<1>13. ASSUME NEW r \in Handlers, NEW d \in Details, PersonalBegin(r, d) \/ CompleteBegin(r, d)
       PROVE  SessionTypeOK'
  BY <1>13 DEF PersonalBegin, CompleteBegin, Await, Awaiting
<1>14. ASSUME NEW r \in Handlers, NEW a \in Emails, NEW c \in EmailCodes, EmailBegin(r, a, c)
       PROVE  SessionTypeOK'
  <2>1. session.profile \in Profile
    BY <1>14 DEF EmailBegin, Session
  <2>2. [op |-> "email", profile |-> [session.profile EXCEPT !.email = a], code |-> c] \in Awaiting
    BY <2>1 DEF Awaiting, Profile
  <2>3. QED
    BY <1>14, <2>2 DEF EmailBegin, Await
<1>15. ASSUME NEW r \in Handlers, ProviderRefuses(r) PROVE SessionTypeOK'
  BY <1>15 DEF ProviderRefuses
<1>16. ASSUME NEW r \in Handlers, PersonalFinish(r) PROVE SessionTypeOK'
  <2>1. flight[r].who \in Details
    BY <1>16 DEF PersonalFinish, Awaiting
  <2>2. QED
    BY <1>16, <2>1, ProfileWritten DEF PersonalFinish, WritePersonal
<1>17. ASSUME NEW r \in Handlers, DocumentBegin(r) \/ LinkBegin(r) PROVE SessionTypeOK'
  <2>1. session.profile.who \in Details
    BY <1>17 DEF DocumentBegin, LinkBegin, Session, Profile
  <2>2. QED
    BY <1>17, <2>1 DEF DocumentBegin, LinkBegin, Await, Awaiting
<1>18. ASSUME NEW r \in Handlers, DocumentMatches(r) PROVE SessionTypeOK'
  <2>1. flight[r].who \in Details
    BY <1>18 DEF DocumentMatches, Awaiting
  <2>2. QED
    BY <1>18, <2>1, GateWritten DEF DocumentMatches, Seen
<1>19. ASSUME NEW r \in Handlers, EmailDelivered(r) PROVE SessionTypeOK'
  <2>1. flight[r].profile \in Profile /\ flight[r].code \in EmailCodes
    BY <1>19 DEF EmailDelivered, Awaiting
  <2>2. armed' \in [{Token} -> [code : EmailCodes, left : 1..MaxGuesses] \cup {Absent}]
    BY <1>19, <2>1, SessionAssumption DEF EmailDelivered, Otp!Arm, Otp!Fresh
  <2>3. QED
    BY <1>19, <2>1, <2>2, ProfileWritten DEF EmailDelivered, Seen, Profile
<1>20. ASSUME NEW r \in Handlers, LinkVerified(r) \/ CompleteVerified(r) PROVE SessionTypeOK'
  <2>1. flight[r].who \in Details
    BY <1>20 DEF LinkVerified, CompleteVerified, Awaiting
  <2>2. Linked(r) /\ challenges' \subseteq Details /\ UNCHANGED <<begun, late, armed, run, accounts>>
    BY <1>20 DEF LinkVerified, CompleteVerified
  <2>3. session' \in Session \cup {Absent} /\ flight' \in [Handlers -> Awaiting \cup {Absent}]
    BY <2>2, GateWritten DEF Linked
  <2>4. seen' \in Seen
    BY <2>1, <2>2 DEF Linked, Seen
  <2>5. QED
    BY <2>2, <2>3, <2>4
<1>21. ASSUME NEW r \in Handlers, LinkChallenged(r) \/ CompleteNotLinked(r) PROVE SessionTypeOK'
  <2>1. flight[r].who \in Details
    BY <1>21 DEF LinkChallenged, CompleteNotLinked, Awaiting
  <2>2. QED
    BY <1>21, <2>1 DEF LinkChallenged, CompleteNotLinked
<1>22. ASSUME NEW r \in Handlers, LocationBegin(r) PROVE SessionTypeOK'
  BY <1>22 DEF LocationBegin, Await, Awaiting
<1>23. ASSUME NEW r \in Handlers, LocationAccepted(r) PROVE SessionTypeOK'
  BY <1>23, GateWritten DEF LocationAccepted
<1>24. CASE UNCHANGED sessionVars
  BY <1>24 DEF sessionVars
<1>25. QED
  BY <1>1, <1>2, <1>3, <1>4, <1>5, <1>6, <1>7, <1>8, <1>9, <1>10, <1>11, <1>12, <1>13, <1>14,
     <1>15, <1>16, <1>17, <1>18, <1>19, <1>20, <1>21, <1>22, <1>23, <1>24 DEF SessionNext

(* Every variable keeps its type. *)
THEOREM SessionTypeCorrect == SessionSpec => []SessionTypeOK
  BY SessionInitTyped, SessionStepTyped, PTL DEF SessionSpec

-------------------------------------------------------------------------------
(* The inductive invariant. EmailProvenance speaks of the address the right   *)
(* code was entered for, which the row does not hold: MailedIsStored says the *)
(* address in the row is the one the last code was mailed to, so a right code *)
(* is about it. An account copies the gates of the row, so GatesHaveEvidence  *)
(* asks of the row what AccountsRestOnEvidence asks of accounts; for the      *)
(* e-mail gate that takes CodeWasMailed and MailHasAddress: a code that can   *)
(* be guessed was sent, and nothing is sent without an address.               *)

RowWasBegun == session # Absent => begun

MailedIsStored ==
    session # Absent /\ session.profile # Absent /\ session.profile.email # Absent =>
        session.profile.email = seen.mailed

CodeWasMailed == armed[Token] # Absent => seen.mailed # Absent

MailHasAddress ==
    \A r \in Handlers : flight[r] # Absent /\ flight[r].op = "email" =>
        flight[r].profile.email # Absent

GatesHaveEvidence ==
    session # Absent =>
        /\ session.document => seen.document # {}
        /\ session.linked => seen.linked # {}
        /\ session.email => seen.email # Absent

SessionIInv ==
    /\ SessionTypeOK
    /\ RowWasBegun
    /\ MailedIsStored
    /\ CodeWasMailed
    /\ MailHasAddress
    /\ GatesHaveEvidence
    /\ EmailProvenance
    /\ AccountsRestOnEvidence

(* The part of it that speaks of the row, the code and what was seen.         *)
RowPart ==
    /\ RowWasBegun /\ MailedIsStored /\ CodeWasMailed /\ MailHasAddress /\ GatesHaveEvidence
    /\ session # Absent => ProvedAddress(session, seen)

(* A row whose gates are passed, kept with what was seen of it, is an account *)
(* of the kind the properties ask for.                                        *)
LEMMA AccountIsProved ==
    ASSUME SessionTypeOK, RowPart, session # Absent, GatesPassed
    PROVE  /\ ProvedAddress(session, seen)
           /\ seen.document # {} /\ seen.linked # {} /\ seen.email # Absent
  BY DEF RowPart, GatesPassed, GatesHaveEvidence

(* Every step keeps the part that speaks of the row.                          *)
LEMMA RowPartKept ==
    ASSUME SessionTypeOK, RowPart, SessionNext
    PROVE  RowPart'
  <1> USE DEF SessionTypeOK, RowPart, RowWasBegun, MailedIsStored, CodeWasMailed, MailHasAddress,
              GatesHaveEvidence, ProvedAddress, Otp!OtcTypeOK, Others, Returns, Patch, Loaded, HasProfile
  <1>1. CASE Begin
    BY <1>1 DEF Begin, NewSession
  <1>2. CASE TimesOut
    BY <1>2 DEF TimesOut
  <1>3. CASE DestroyExpired
    BY <1>3 DEF DestroyExpired
  <1>4. CASE MemoryLapses
    BY <1>4 DEF MemoryLapses, Otp!Lapse
  <1>5. CASE Restart
    BY <1>5 DEF Restart, Otp!Lapse
  <1>6. CASE CompletePersonal \/ SetPassword \/ Photo \/ Finalize
    BY <1>6 DEF CompletePersonal, SetPassword, Photo, Finalize, Session
  <1>7. CASE LivenessStart
    BY <1>7 DEF LivenessStart
  <1>8. CASE LivenessEvidence
    BY <1>8 DEF LivenessEvidence, Session
  <1>10. ASSUME NEW d \in Details, PersonalWithoutPincode(d) PROVE RowPart'
    BY <1>10 DEF PersonalWithoutPincode, WritePersonal, Session
  <1>11. ASSUME NEW c \in EmailCodes, VerifyEmailRight(c) PROVE RowPart'
    BY <1>11 DEF VerifyEmailRight, Otp!RightGuess, Session, Seen
  <1>12. ASSUME NEW c \in EmailCodes, VerifyEmailWrong(c) PROVE RowPart'
    BY <1>12 DEF VerifyEmailWrong, Otp!WrongGuess
  <1>13. ASSUME NEW r \in Handlers, NEW d \in Details, PersonalBegin(r, d) \/ CompleteBegin(r, d)
         PROVE  RowPart'
    BY <1>13 DEF PersonalBegin, CompleteBegin, Await
  <1>14. ASSUME NEW r \in Handlers, NEW a \in Emails, NEW c \in EmailCodes, EmailBegin(r, a, c)
         PROVE  RowPart'
    BY <1>14, SessionAssumption DEF EmailBegin, Await, Session, Profile
  <1>15. ASSUME NEW r \in Handlers, ProviderRefuses(r) PROVE RowPart'
    BY <1>15 DEF ProviderRefuses
  <1>16. ASSUME NEW r \in Handlers, PersonalFinish(r) PROVE RowPart'
    BY <1>16 DEF PersonalFinish, WritePersonal, Session
  <1>17. ASSUME NEW r \in Handlers, DocumentBegin(r) \/ LinkBegin(r) \/ LocationBegin(r) PROVE RowPart'
    BY <1>17 DEF DocumentBegin, LinkBegin, LocationBegin, Await
  <1>18. ASSUME NEW r \in Handlers, DocumentMatches(r) PROVE RowPart'
    BY <1>18 DEF DocumentMatches, Session, Seen
  <1>19. ASSUME NEW r \in Handlers, EmailDelivered(r) PROVE RowPart'
    BY <1>19 DEF EmailDelivered, Otp!Arm, Otp!Fresh, Session, Seen
  <1>20. ASSUME NEW r \in Handlers, LinkVerified(r) \/ CompleteVerified(r) PROVE RowPart'
    <2>1. /\ session' = IF session = Absent THEN Absent ELSE [session EXCEPT !.linked = TRUE]
          /\ seen' = [seen EXCEPT !.linked = @ \cup {flight[r].who}]
          /\ flight' = [flight EXCEPT ![r] = Absent]
          /\ UNCHANGED <<begun, armed>>
      BY <1>20 DEF LinkVerified, CompleteVerified, Linked
    <2>2. MailHasAddress' /\ RowWasBegun'
      BY <2>1
    <2>3. seen'.linked # {} /\ seen'.document = seen.document /\ seen'.mailed = seen.mailed
            /\ seen'.email = seen.email
      BY <2>1 DEF Seen
    <2>4. session # Absent => /\ session' # Absent => session'.profile = session.profile
                              /\ session'.document = session.document
                              /\ session'.email = session.email
      BY <2>1 DEF Session
    <2>5. QED
      BY <2>1, <2>2, <2>3, <2>4
  <1>21. ASSUME NEW r \in Handlers, LinkChallenged(r) \/ CompleteNotLinked(r) PROVE RowPart'
    BY <1>21 DEF LinkChallenged, CompleteNotLinked
  <1>22. ASSUME NEW r \in Handlers, LocationAccepted(r) PROVE RowPart'
    BY <1>22 DEF LocationAccepted, Session
  <1>23. QED
    BY <1>1, <1>2, <1>3, <1>4, <1>5, <1>6, <1>7, <1>8, <1>10, <1>11, <1>12, <1>13, <1>14,
       <1>15, <1>16, <1>17, <1>18, <1>19, <1>20, <1>21, <1>22 DEF SessionNext

(* Finalize alone opens an account, and only one for a live row whose gates   *)
(* are passed.                                                                *)
LEMMA OnlyFinalizeOpens ==
    ASSUME SessionNext
    PROVE  UNCHANGED accounts \/ Finalize
  BY DEF SessionNext, Begin, TimesOut, DestroyExpired, MemoryLapses, Restart, CompletePersonal,
     SetPassword, Photo, LivenessStart, LivenessEvidence, PersonalWithoutPincode, VerifyEmailRight,
     VerifyEmailWrong, PersonalBegin, CompleteBegin, EmailBegin, ProviderRefuses, PersonalFinish,
     DocumentBegin, DocumentMatches, EmailDelivered, LinkBegin, LinkVerified, LinkChallenged,
     CompleteVerified, CompleteNotLinked, LocationBegin, LocationAccepted, Await, Others

(* The inductive invariant holds in every state.                              *)
THEOREM SessionInductive == SessionSpec => []SessionIInv
<1>1. SessionInit => SessionIInv
  <2> SUFFICES ASSUME SessionInit
               PROVE  SessionIInv
    OBVIOUS
  <2>1. SessionTypeOK
    BY SessionInitTyped
  <2>2. DOMAIN accounts = {} /\ armed[Token] = Absent
    BY DEF SessionInit, Otp!OtcInit
  <2>3. QED
    BY <2>1, <2>2 DEF SessionInit, SessionIInv, RowWasBegun, MailedIsStored, CodeWasMailed,
       MailHasAddress, GatesHaveEvidence, EmailProvenance, AccountsRestOnEvidence
<1>2. SessionIInv /\ [SessionNext]_sessionVars => SessionIInv'
  <2> SUFFICES ASSUME SessionIInv, [SessionNext]_sessionVars
               PROVE  SessionIInv'
    OBVIOUS
  <2>1. SessionTypeOK /\ RowPart
    BY DEF SessionIInv, RowPart, EmailProvenance
  <2>2. SessionTypeOK'
    BY <2>1, SessionStepTyped
  <2>3. CASE SessionNext
    <3>1. RowPart'
      BY <2>1, <2>3, RowPartKept
    <3>2. \A i \in DOMAIN accounts' :
            /\ ProvedAddress(accounts'[i].session, accounts'[i].seen)
            /\ accounts'[i].seen.document # {}
            /\ accounts'[i].seen.linked # {}
            /\ accounts'[i].seen.email # Absent
      <4>1. CASE UNCHANGED accounts
        BY <4>1 DEF SessionIInv, EmailProvenance, AccountsRestOnEvidence
      <4>2. CASE Finalize
        <5> DEFINE new == [session |-> session, seen |-> seen]
        <5>1. accounts' = Append(accounts, new)
          BY <4>2 DEF Finalize
        <5>2. /\ ProvedAddress(session, seen)
              /\ seen.document # {} /\ seen.linked # {} /\ seen.email # Absent
          BY <2>1, <4>2, AccountIsProved DEF Finalize, Loaded
        <5>3. accounts \in Seq(Account) /\ new \in Account
          BY <2>1, <4>2 DEF SessionTypeOK, Account, Finalize, Loaded
        <5>4. /\ DOMAIN accounts = 1..Len(accounts)
              /\ DOMAIN accounts' = 1..(Len(accounts) + 1)
              /\ \A i \in DOMAIN accounts : accounts'[i] = accounts[i]
              /\ accounts'[Len(accounts) + 1] = new
          BY <5>1, <5>3
        <5>5. ASSUME NEW i \in DOMAIN accounts'
              PROVE  \/ i \in DOMAIN accounts /\ accounts'[i] = accounts[i]
                     \/ accounts'[i].session = session /\ accounts'[i].seen = seen
          BY <5>3, <5>4, <5>5
        <5>6. QED
          BY <5>2, <5>5 DEF SessionIInv, EmailProvenance, AccountsRestOnEvidence
      <4>3. QED
        BY <2>3, <4>1, <4>2, OnlyFinalizeOpens
    <3>3. QED
      BY <2>2, <3>1, <3>2 DEF SessionIInv, RowPart, EmailProvenance, AccountsRestOnEvidence
  <2>4. CASE UNCHANGED sessionVars
    BY <2>2, <2>4 DEF sessionVars, SessionIInv, RowWasBegun, MailedIsStored, CodeWasMailed,
       MailHasAddress, GatesHaveEvidence, EmailProvenance, AccountsRestOnEvidence
  <2>5. QED
    BY <2>3, <2>4
<1>3. QED
  BY <1>1, <1>2, PTL DEF SessionSpec

(* An address that counts as proved is the one a right code came back for.    *)
THEOREM EmailProvenanceHolds == SessionSpec => []EmailProvenance
  BY SessionInductive, PTL DEF SessionIInv

(* Every account rests on a document, a link and a mailed code.               *)
THEOREM AccountsRestOnEvidenceHolds == SessionSpec => []AccountsRestOnEvidence
  BY SessionInductive, PTL DEF SessionIInv

-------------------------------------------------------------------------------
(* What a step may never do to the row and to the accounts.                   *)

(* No step brings a destroyed row back.                                       *)
THEOREM NoResurrectionHolds == SessionSpec => NoResurrection
<1>1. [SessionNext]_sessionVars => [begun /\ session = Absent => session' = Absent]_sessionVars
  BY DEF SessionNext, Begin, TimesOut, DestroyExpired, MemoryLapses, Restart, CompletePersonal,
     SetPassword, Photo, LivenessStart, LivenessEvidence, PersonalWithoutPincode, VerifyEmailRight,
     VerifyEmailWrong, PersonalBegin, CompleteBegin, EmailBegin, ProviderRefuses, PersonalFinish,
     DocumentBegin, DocumentMatches, EmailDelivered, LinkBegin, LinkVerified, LinkChallenged, Linked,
     CompleteVerified, CompleteNotLinked, LocationBegin, LocationAccepted, Await, Patch, Loaded,
     HasProfile, WritePersonal, Finalize
<1>2. QED
  BY <1>1, PTL DEF SessionSpec, NoResurrection

(* An expired session opens no account: Finalize needs a live row.            *)
THEOREM NoAccountAfterExpiryHolds == SessionSpec => NoAccountAfterExpiry
<1>1. [SessionNext]_sessionVars => [late => accounts' = accounts]_sessionVars
  BY OnlyFinalizeOpens DEF Finalize, Loaded
<1>2. QED
  BY <1>1, PTL DEF SessionSpec, NoAccountAfterExpiry

(* The gates that stay open once they are: all but the e-mail and the          *)
(* completed personal step.                                                   *)
GatesKept(row, new) ==
    /\ new \in Session
    /\ row.document => new.document
    /\ row.linked => new.linked
    /\ row.password => new.password
    /\ row.photo => new.photo
    /\ row.liveness => new.liveness
    /\ row.location => new.location
    /\ row.finalized => new.finalized

(* Opening any gate keeps them.                                               *)
LEMMA OpeningKeeps ==
    ASSUME NEW row \in Session,
           NEW gate \in {"completed", "document", "email", "linked", "password", "photo",
                         "liveness", "location", "finalized"}
    PROVE  GatesKept(row, [row EXCEPT ![gate] = TRUE])
<1> DEFINE new == [row EXCEPT ![gate] = TRUE]
<1>1. new \in Session
  BY GateWritten
<1>2. \A g \in {"document", "linked", "password", "photo", "liveness", "location", "finalized"} :
        row[g] = TRUE => new[g] = TRUE
  BY DEF Session
<1>3. \A g \in {"document", "linked", "password", "photo", "liveness", "location", "finalized"} :
        row[g] \in BOOLEAN /\ new[g] \in BOOLEAN
  BY <1>1 DEF Session
<1>4. QED
  BY <1>1, <1>2, <1>3 DEF GatesKept

(* A step leaves a live row as it is, replaces its profile or opens a gate:   *)
(* whatever it does, the row stays and each of the seven gates that were open *)
(* still are.                                                                 *)
LEMMA LiveRowKept ==
    ASSUME SessionTypeOK, RowWasBegun, SessionNext, session # Absent, ~late
    PROVE  GatesKept(session, session')
<1> USE DEF Patch, Others
<1>0. session \in Session /\ begun
  BY DEF SessionTypeOK, RowWasBegun
<1>1. CASE UNCHANGED session
  BY <1>0, <1>1 DEF GatesKept
<1>2. CASE CompletePersonal \/ SetPassword \/ Photo \/ Finalize \/ LivenessEvidence
  BY <1>0, <1>2, OpeningKeeps, <1>1 DEF CompletePersonal, SetPassword, Photo, Finalize, LivenessEvidence
<1>3. ASSUME NEW d \in Details, WritePersonal(d) PROVE GatesKept(session, session')
  BY <1>0, <1>3, ProfileWritten DEF WritePersonal, Session, GatesKept
<1>4. ASSUME NEW c \in EmailCodes, VerifyEmailRight(c) PROVE GatesKept(session, session')
  BY <1>0, <1>4, OpeningKeeps DEF VerifyEmailRight
<1>5. ASSUME NEW r \in Handlers, PersonalFinish(r) PROVE GatesKept(session, session')
  <2>1. flight[r].who \in Details /\ WritePersonal(flight[r].who)
    BY <1>5 DEF PersonalFinish, SessionTypeOK, Awaiting
  <2>2. QED
    BY <1>3, <2>1
<1>6. ASSUME NEW r \in Handlers, EmailDelivered(r) PROVE GatesKept(session, session')
  <2>1. flight[r].profile \in Profile
    BY <1>6 DEF EmailDelivered, SessionTypeOK, Awaiting
  <2>2. QED
    BY <1>0, <1>6, <2>1, ProfileWritten DEF EmailDelivered, Session, GatesKept
<1>7. ASSUME NEW r \in Handlers,
             DocumentMatches(r) \/ LinkVerified(r) \/ CompleteVerified(r) \/ LocationAccepted(r)
      PROVE  GatesKept(session, session')
  BY <1>0, <1>7, OpeningKeeps DEF DocumentMatches, LinkVerified, CompleteVerified, Linked,
     LocationAccepted
<1>8. QED
  BY <1>0, <1>1, <1>2, <1>3, <1>4, <1>5, <1>6, <1>7 DEF SessionNext, Begin, TimesOut, DestroyExpired,
     MemoryLapses, Restart, LivenessStart, PersonalWithoutPincode, VerifyEmailWrong, PersonalBegin,
     CompleteBegin, EmailBegin, ProviderRefuses, DocumentBegin, LinkBegin, LinkChallenged,
     CompleteNotLinked, LocationBegin, Await

(* While the session lives, no step loses the row or closes one of its gates. *)
THEOREM ProgressKeptHolds == SessionSpec => ProgressKept
<1>1. SessionIInv /\ [SessionNext]_sessionVars =>
        [session # Absent /\ ~late =>
            session' # Absent /\ Lasting(session) \subseteq Lasting(session')]_sessionVars
  <2> SUFFICES ASSUME SessionIInv, SessionNext, session # Absent, ~late
               PROVE  session' # Absent /\ Lasting(session) \subseteq Lasting(session')
    OBVIOUS
  <2>1. GatesKept(session, session')
    BY LiveRowKept DEF SessionIInv
  <2>2. session' # Absent
    BY <2>1, SessionAssumption DEF GatesKept
  <2>3. QED
    BY <2>1, <2>2 DEF GatesKept, Lasting
<1>2. QED
  BY <1>1, SessionInductive, PTL DEF SessionSpec, ProgressKept

-------------------------------------------------------------------------------
(* The composition that MCRegistration checks. The session relies on its      *)
(* engines through OneTimeCode and LivenessGate alone; the engines implement   *)
(* them, so what is proved of each part holds of the whole.                   *)

(* A step of the composition is, for each part, a step of it or a stutter.     *)
LEMMA RegistrationStepIsOfParts ==
    ASSUME [RegistrationNext]_<<sessionVars, vars, livenessVars, part>>
    PROVE  [SessionNext]_sessionVars /\ [Next]_vars /\ [LivenessNext]_livenessVars
<1>1. CASE RegistrationNext
  BY <1>1 DEF RegistrationNext
<1>2. CASE UNCHANGED <<sessionVars, vars, livenessVars, part>>
  BY <1>2
<1>3. QED
  BY <1>1, <1>2

(* The composition implements the specification of each part.                 *)
THEOREM RegistrationImplementsParts ==
    RegistrationSpec => SessionSpec /\ Spec /\ LivenessSpec
<1>1. RegistrationInit => SessionInit /\ Init /\ LivenessInit
  BY DEF RegistrationInit
<1>2. [RegistrationNext]_<<sessionVars, vars, livenessVars, part>> =>
         [SessionNext]_sessionVars /\ [Next]_vars /\ [LivenessNext]_livenessVars
  BY RegistrationStepIsOfParts
<1>3. QED
  BY <1>1, <1>2, PTL DEF RegistrationSpec, SessionSpec, Spec, LivenessSpec

(* Every variable of the composition stays in its set.                        *)
THEOREM RegistrationTypeCorrect == RegistrationSpec => []RegistrationTypeOK
<1>1. SessionTypeOK /\ TypeOK /\ LivenessTypeOK => RegistrationTypeOK
  BY DEF RegistrationTypeOK
<1>2. QED
  BY <1>1, RegistrationImplementsParts, SessionTypeCorrect, TypeCorrect, LivenessTypeCorrect, PTL

(* What the session and its engines promise one by one, they promise together; *)
(* and the engines are the one-time code and the liveness gate of the session. *)
THEOREM RegistrationKeepsPromises ==
    RegistrationSpec =>
        /\ [](EmailProvenance /\ AccountsRestOnEvidence /\ PassIsEarned)
        /\ [](SendBudget /\ CooldownGap /\ AttemptCap)
        /\ [](AcceptedOnceAndFresh /\ StoredImpliesDelivered)
        /\ NoResurrection /\ NoAccountAfterExpiry /\ ProgressKept
        /\ ImplementsOneTimeCode /\ ImplementsLivenessGate
BY RegistrationImplementsParts, EmailProvenanceHolds, AccountsRestOnEvidenceHolds, PassIsEarnedHolds,
   SendBudgetHolds, CooldownGapHolds, AttemptCapHolds, AcceptedOnceAndFreshHolds,
   StoredImpliesDeliveredHolds, NoResurrectionHolds, NoAccountAfterExpiryHolds, ProgressKeptHolds,
   Implements, LivenessImplements, PTL

===============================================================================
