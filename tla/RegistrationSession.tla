-------------------------- MODULE RegistrationSession --------------------------
(***************************************************************************)
(* server/registration/service.ts over session-store.ts: one registration  *)
(* session (one priestate_reg_sid cookie) from begin() to finalize().      *)
(*                                                                         *)
(* Node runs a handler in one piece up to its next await, so a handler     *)
(* that awaits a provider is two actions: the first reads the session and  *)
(* keeps what it read in flight[r], the second acts on the answer with     *)
(* those values and writes the session as it is then. Every other handler  *)
(* is one action. Several requests of the same browser session may be in   *)
(* flight together. The session is a SQLite row and survives a restart;    *)
(* one-time codes, liveness runs, provider challenges and requests do not. *)
(*                                                                         *)
(* A citizen's details (name, mobile, Aadhaar) are one value of Details.   *)
(* The lifetimes are an environment step each: TimesOut for the session,   *)
(* the Lapse of OneTimeCode and of LivenessGate for codes and runs.        *)
(* profile is what personalPiiCipherText decrypts to, masked what the      *)
(* maskedMobile and maskedAadhaar beside it were made from; each BOOLEAN   *)
(* of the session is the stored flag, status or timestamp of one gate.     *)
(***************************************************************************)
EXTENDS Naturals, Sequences

CONSTANTS
    Details,        \* what the personal step may be told
    Emails,         \* addresses the e-mail step may be told
    Handlers,       \* requests that can be awaiting a provider at once
    EmailCodes,     \* one-time codes
    MaxGuesses,     \* guesses a code answers
    Total,          \* challenges of a liveness run
    MaxAccounts,    \* bound: accounts the model follows
    Absent

VARIABLES
    session,        \* the row, or Absent before begin() and after a destroy
    begun,          \* begin() has minted the token
    late,           \* session.expiresAt has passed
    flight,         \* flight[r]: what an awaiting request read, or Absent
    challenges,     \* details whose mobile the KYC provider has challenged
    armed,          \* OneTimeCode of "reg-email:<token>"
    run,            \* LivenessGate of the token
    accounts,       \* what finalize() handed to the account store, in order
    seen            \* observer: what the checks that passed were made against

sessionVars == <<session, begun, late, flight, challenges, armed, run, accounts, seen>>

Token == "token"

Otp == INSTANCE OneTimeCode WITH Keys <- {Token}, Codes <- EmailCodes,
                                 MaxAttempts <- MaxGuesses, None <- Absent
Gate == INSTANCE LivenessGate WITH Keys <- {Token}, None <- Absent

Profile == [who : Details, email : Emails \cup {Absent}]

Session == [profile : Profile \cup {Absent}, masked : Details \cup {Absent}, completed : BOOLEAN, document : BOOLEAN,
            email : BOOLEAN, linked : BOOLEAN, password : BOOLEAN, photo : BOOLEAN,
            liveness : BOOLEAN, location : BOOLEAN, finalized : BOOLEAN]

NewSession == [profile |-> Absent, masked |-> Absent, completed |-> FALSE, document |-> FALSE,
               email |-> FALSE, linked |-> FALSE, password |-> FALSE, photo |-> FALSE,
               liveness |-> FALSE, location |-> FALSE, finalized |-> FALSE]

Awaiting == [op : {"personal", "document", "link", "complete"}, who : Details]
    \cup [op : {"email"}, profile : Profile, code : EmailCodes]
    \cup [op : {"location"}]

Seen == [document : SUBSET Details, linked : SUBSET Details,
         mailed : Emails \cup {Absent}, email : Emails \cup {Absent}]

Account == [session : Session, seen : Seen]

\* undefined is neither an address nor an object; every limit is positive.
ASSUME SessionAssumption ==
    /\ Absent \notin Emails \cup Profile \cup Session
    /\ MaxGuesses \in Nat \ {0} /\ Total \in Nat \ {0} /\ MaxAccounts \in Nat

SessionTypeOK ==
    /\ session \in Session \cup {Absent}
    /\ begun \in BOOLEAN /\ late \in BOOLEAN
    /\ flight \in [Handlers -> Awaiting \cup {Absent}]
    /\ challenges \subseteq Details
    /\ Otp!OtcTypeOK
    /\ Gate!GateTypeOK
    /\ accounts \in Seq(Account) /\ Len(accounts) <= MaxAccounts
    /\ seen \in Seen

SessionInit ==
    /\ session = Absent
    /\ begun = FALSE /\ late = FALSE
    /\ flight = [r \in Handlers |-> Absent]
    /\ challenges = {}
    /\ Otp!OtcInit
    /\ Gate!GateInit
    /\ accounts = <<>>
    /\ seen = [document |-> {}, linked |-> {}, mailed |-> Absent, email |-> Absent]

-------------------------------------------------------------------------------
(* mustLoad: a live row. The row of an expired session is destroyed by the   *)
(* first handler that loads it, and by purgeExpired.                         *)

\* Mutant: the expiry of the row is not looked at.
LoadedForever == session # Absent

Loaded == session # Absent /\ ~late

HasProfile == Loaded /\ session.profile # Absent

\* Mutant: an update inserts the row again.
PatchRecreates(new) == session' = IF session = Absent THEN NewSession ELSE new

\* store.update: a patch of a row that is gone is dropped without an error.
Patch(new) == session' = IF session = Absent THEN Absent ELSE new

Begin ==
    /\ ~begun
    /\ begun' = TRUE
    /\ session' = NewSession
    /\ UNCHANGED <<late, flight, challenges, armed, run, accounts, seen>>

TimesOut ==
    /\ begun /\ ~late
    /\ late' = TRUE
    /\ UNCHANGED <<session, begun, flight, challenges, armed, run, accounts, seen>>

DestroyExpired ==
    /\ late /\ session # Absent
    /\ session' = Absent
    /\ UNCHANGED <<begun, late, flight, challenges, armed, run, accounts, seen>>

\* What the step of one handler leaves alone.
Others == UNCHANGED <<begun, late, challenges, armed, run, accounts, seen>>

Await(r, what) ==
    /\ flight[r] = Absent
    /\ flight' = [flight EXCEPT ![r] = what]
    /\ UNCHANGED session
    /\ Others

Returns(r) == flight' = [flight EXCEPT ![r] = Absent]

\* A provider fails, or its answer is one the handler turns into a refusal.
ProviderRefuses(r) ==
    /\ flight[r] # Absent
    /\ Returns(r)
    /\ UNCHANGED session
    /\ Others

-------------------------------------------------------------------------------
(* Personal details. A new profile has no e-mail; the only flag its patch     *)
(* clears is personalCompletedAt. A given pincode is looked up first.         *)

\* Mutant: the edit starts over.
WritePersonalStartsOver(d) ==
    Patch([NewSession EXCEPT !.profile = [who |-> d, email |-> Absent], !.masked = d])

WritePersonal(d) ==
    Patch([session EXCEPT !.profile = [who |-> d, email |-> Absent], !.masked = d,
                          !.completed = FALSE])

PersonalWithoutPincode(d) ==
    /\ Loaded
    /\ WritePersonal(d)
    /\ UNCHANGED flight
    /\ Others

PersonalBegin(r, d) == Loaded /\ Await(r, [op |-> "personal", who |-> d])

PersonalFinish(r) ==
    /\ flight[r] # Absent /\ flight[r].op = "personal"
    /\ WritePersonal(flight[r].who)
    /\ Returns(r)
    /\ Others

CompletePersonal ==
    /\ HasProfile
    /\ session' = [session EXCEPT !.completed = TRUE]
    /\ UNCHANGED flight
    /\ Others

-------------------------------------------------------------------------------
(* Aadhaar document: the name is compared with the profile read before the    *)
(* OCR provider was awaited.                                                  *)

DocumentBegin(r) == HasProfile /\ Await(r, [op |-> "document", who |-> session.profile.who])

DocumentMatches(r) ==
    /\ flight[r] # Absent /\ flight[r].op = "document"
    /\ Patch([session EXCEPT !.document = TRUE])
    /\ seen' = [seen EXCEPT !.document = @ \cup {flight[r].who}]
    /\ Returns(r)
    /\ UNCHANGED <<begun, late, challenges, armed, run, accounts>>

-------------------------------------------------------------------------------
(* E-mail. submitEmail re-encrypts the profile it read before the mail was    *)
(* sent and stores it after the commit. Cooldown and send cap are             *)
(* OtpService's: here a begin or a commit may be refused at any time.         *)

EmailBegin(r, a, c) ==
    /\ HasProfile
    /\ Await(r, [op |-> "email", profile |-> [session.profile EXCEPT !.email = a], code |-> c])

\* Mutant: a new address inherits the proof of the one before it.
EmailDeliveredKeepsFlag(r) ==
    /\ flight[r] # Absent /\ flight[r].op = "email"
    /\ Otp!Arm(Token, flight[r].code)
    /\ Patch([session EXCEPT !.profile = flight[r].profile])
    /\ seen' = [seen EXCEPT !.mailed = flight[r].profile.email]
    /\ Returns(r)
    /\ UNCHANGED <<begun, late, challenges, run, accounts>>

EmailDelivered(r) ==
    /\ flight[r] # Absent /\ flight[r].op = "email"
    /\ Otp!Arm(Token, flight[r].code)
    /\ Patch([session EXCEPT !.profile = flight[r].profile, !.email = FALSE])
    /\ seen' = [seen EXCEPT !.mailed = flight[r].profile.email]
    /\ Returns(r)
    /\ UNCHANGED <<begun, late, challenges, run, accounts>>

VerifyEmailRight(c) ==
    /\ Loaded
    /\ Otp!RightGuess(Token, c)
    /\ session' = [session EXCEPT !.email = TRUE]
    /\ seen' = [seen EXCEPT !.email = seen.mailed]
    /\ UNCHANGED <<begun, late, flight, challenges, run, accounts>>

VerifyEmailWrong(c) ==
    /\ Loaded
    /\ Otp!WrongGuess(Token, c)
    /\ UNCHANGED <<session, begun, late, flight, challenges, run, accounts, seen>>

-------------------------------------------------------------------------------
(* Aadhaar-mobile link: a direct answer of the provider, or a challenge whose *)
(* session id the client brings back. Neither is tied to the profile again.   *)

LinkBegin(r) == HasProfile /\ Await(r, [op |-> "link", who |-> session.profile.who])

Linked(r) ==
    /\ Patch([session EXCEPT !.linked = TRUE])
    /\ seen' = [seen EXCEPT !.linked = @ \cup {flight[r].who}]
    /\ Returns(r)

LinkVerified(r) ==
    /\ flight[r] # Absent /\ flight[r].op = "link"
    /\ Linked(r)
    /\ UNCHANGED <<begun, late, challenges, armed, run, accounts>>

\* Mutant: a challenge that was only started counts as a link.
LinkChallengedCounts(r) ==
    /\ flight[r] # Absent /\ flight[r].op = "link"
    /\ challenges' = challenges \cup {flight[r].who}
    /\ Patch([session EXCEPT !.linked = TRUE])
    /\ Returns(r)
    /\ UNCHANGED <<begun, late, armed, run, accounts, seen>>

LinkChallenged(r) ==
    /\ flight[r] # Absent /\ flight[r].op = "link"
    /\ challenges' = challenges \cup {flight[r].who}
    /\ Returns(r)
    /\ UNCHANGED <<session, begun, late, armed, run, accounts, seen>>

CompleteBegin(r, d) == Loaded /\ d \in challenges /\ Await(r, [op |-> "complete", who |-> d])

\* The provider's verdict ends its challenge, whatever it is.
CompleteVerified(r) ==
    /\ flight[r] # Absent /\ flight[r].op = "complete"
    /\ challenges' = challenges \ {flight[r].who}
    /\ Linked(r)
    /\ UNCHANGED <<begun, late, armed, run, accounts>>

CompleteNotLinked(r) ==
    /\ flight[r] # Absent /\ flight[r].op = "complete"
    /\ challenges' = challenges \ {flight[r].who}
    /\ Returns(r)
    /\ UNCHANGED <<session, begun, late, armed, run, accounts, seen>>

-------------------------------------------------------------------------------
SetPassword ==
    /\ Loaded
    /\ session' = [session EXCEPT !.password = TRUE]
    /\ UNCHANGED flight /\ Others

Photo ==
    /\ Loaded
    /\ session' = [session EXCEPT !.photo = TRUE]
    /\ UNCHANGED flight /\ Others

LivenessStart ==
    /\ Loaded /\ ~session.liveness
    /\ Gate!StartRun(Token)
    /\ UNCHANGED <<session, begun, late, flight, challenges, armed, accounts, seen>>

LivenessEvidence ==
    /\ Loaded
    /\ \/ Gate!Advance(Token) /\ UNCHANGED session
       \/ Gate!Finish(Token) /\ session' = [session EXCEPT !.liveness = TRUE]
    /\ UNCHANGED <<begun, late, flight, challenges, armed, accounts, seen>>

LocationBegin(r) == Loaded /\ session.liveness /\ Await(r, [op |-> "location"])

LocationAccepted(r) ==
    /\ flight[r] # Absent /\ flight[r].op = "location"
    /\ Patch([session EXCEPT !.location = TRUE])
    /\ Returns(r)
    /\ Others

-------------------------------------------------------------------------------
GatesPassed ==
    /\ session.profile # Absent
    /\ session.document /\ session.email /\ session.linked
    /\ session.password /\ session.photo
    /\ session.liveness /\ session.location

Finalize ==
    /\ Loaded
    /\ GatesPassed
    /\ Len(accounts) < MaxAccounts
    /\ accounts' = Append(accounts, [session |-> session, seen |-> seen])
    /\ session' = [session EXCEPT !.finalized = TRUE]
    /\ UNCHANGED <<begun, late, flight, challenges, armed, run, seen>>

\* Time or a sweep drops what the services keep in memory.
MemoryLapses ==
    /\ \/ Otp!Lapse({Token}) /\ UNCHANGED run
       \/ Gate!LapseRuns({Token}) /\ UNCHANGED armed
    /\ UNCHANGED <<session, begun, late, flight, challenges, accounts, seen>>

\* The process restarts: the database is what is left.
Restart ==
    /\ flight' = [r \in Handlers |-> Absent]
    /\ challenges' = {}
    /\ Otp!Lapse({Token})
    /\ Gate!LapseRuns({Token})
    /\ UNCHANGED <<session, begun, late, accounts, seen>>

SessionNext ==
    \/ Begin \/ TimesOut \/ DestroyExpired \/ MemoryLapses \/ Restart
    \/ CompletePersonal \/ SetPassword \/ Photo
    \/ LivenessStart \/ LivenessEvidence \/ Finalize
    \/ \E d \in Details : PersonalWithoutPincode(d)
    \/ \E c \in EmailCodes : VerifyEmailRight(c) \/ VerifyEmailWrong(c)
    \/ \E r \in Handlers, d \in Details : PersonalBegin(r, d) \/ CompleteBegin(r, d)
    \/ \E r \in Handlers, a \in Emails, c \in EmailCodes : EmailBegin(r, a, c)
    \/ \E r \in Handlers :
         \/ ProviderRefuses(r) \/ PersonalFinish(r)
         \/ DocumentBegin(r) \/ DocumentMatches(r)
         \/ EmailDelivered(r)
         \/ LinkBegin(r) \/ LinkVerified(r) \/ LinkChallenged(r)
         \/ CompleteVerified(r) \/ CompleteNotLinked(r)
         \/ LocationBegin(r) \/ LocationAccepted(r)

SessionSpec == SessionInit /\ [][SessionNext]_sessionVars

-------------------------------------------------------------------------------
(* Properties.                                                               *)

\* An address that counts as proved, in the session or in an account made of
\* it, is the one a right code was entered for - however submissions, their
\* deliveries, edits and verifications interleave (service.ts:511-535).
ProvedAddress(row, evidence) ==
    row.email /\ row.profile # Absent /\ row.profile.email # Absent =>
        row.profile.email = evidence.email

EmailProvenance ==
    /\ session # Absent => ProvedAddress(session, seen)
    /\ \A i \in DOMAIN accounts : ProvedAddress(accounts[i].session, accounts[i].seen)

\* An account rests on answers from outside: a document that matched, a link
\* the KYC provider confirmed and a code that came back by mail, whatever
\* restarts, refusals and late answers its session went through
\* (service.ts:464-468, 531-534, 555-581, 698-722).
AccountsRestOnEvidence ==
    \A i \in DOMAIN accounts :
        /\ accounts[i].seen.document # {}
        /\ accounts[i].seen.linked # {}
        /\ accounts[i].seen.email # Absent

\* A destroyed session stays destroyed: the answer of a request that was still
\* waiting when the row went does not bring it back (session-store.ts:290-292).
NoResurrection == [][begun /\ session = Absent => session' = Absent]_sessionVars

\* An expired session opens no account, even if its row is still there and all
\* its gates are passed (service.ts:748-756).
NoAccountAfterExpiry == [][late => accounts' = accounts]_sessionVars

\* While the session lives its row survives a restart and every other step, and
\* no write of a slower request takes back a gate that was passed meanwhile.
\* The e-mail gate and the completed personal step are the two that may be.
Lasting(row) == {g \in {"document", "linked", "password", "photo", "liveness",
                        "location", "finalized"} : row[g]}

ProgressKept ==
    [][session # Absent /\ ~late =>
        session' # Absent /\ Lasting(session) \subseteq Lasting(session')]_sessionVars

-------------------------------------------------------------------------------
(* Claims of the repository's texts, each property checked by a run.          *)

\* docs/USAGE.md:74 says that finalizing freezes the session, hence that it opens
\* one account; docs/USAGE.md:67 that the name on the document is cross-checked
\* against the name the citizen typed, hence that a document named each account's
\* holder. This follows from either claim alone, so that a state without it refutes
\* both: a further account of the session, for a holder no document names.
AccountIsFirstOrNamed ==
    \A i \in DOMAIN accounts :
        i = 1 \/ accounts[i].session.profile.who \in accounts[i].seen.document

\* src/pages/UserRegistrationPage.tsx:661: the number stored encrypted is shown
\* as maskedMobile, so the two are of the same details.
MaskedIsOfStored ==
    session # Absent /\ session.profile # Absent => session.masked = session.profile.who
===============================================================================
