--------------------------- MODULE PriestateContract ---------------------------
(***************************************************************************)
(* contracts/priestate.compact: the public ledger state and one action per *)
(* exported circuit. A circuit takes effect as a whole on the ledger state *)
(* its transaction is applied to; when an assert does not hold there, the  *)
(* transaction has no effect. Witnesses are parameters: the caller's       *)
(* secret and the private property value.                                  *)
(***************************************************************************)
EXTENDS Naturals

CONSTANTS
    Secrets,            \* secret keys callers hold
    OfficerSecret,      \* the one the sealed officer key was derived from
    Applications,       \* area, district and submittedAt of a submission
    Values,             \* private property values
    Threshold,          \* the sealed eligibilityThreshold
    MaxRegistrations    \* bound: registrations the model follows

VARIABLES
    registrationCounter,
    registrations,      \* the ledger Map, from ids to records
    eligibilityResult

ledger == <<registrationCounter, registrations, eligibilityResult>>

ASSUME ContractAssumption ==
    /\ OfficerSecret \in Secrets
    /\ MaxRegistrations \in Nat
    /\ Values \subseteq Nat /\ Threshold \in Nat

\* deriveDappKey: a domain-separated hash, taken to be injective.
DeriveDappKey(secret) == <<"priestate:dapp-pk", secret>>

Officer == DeriveDappKey(OfficerSecret)

Blank == <<"pad", "">>      \* pad(32, ""), the reviewer of a pending record

PublicKeys == {DeriveDappKey(s) : s \in Secrets}

Status == {"PENDING", "APPROVED", "REJECTED"}

Registration == [owner : PublicKeys, application : Applications, status : Status,
                 reviewedBy : PublicKeys \cup {Blank}]

Ids == 0..(MaxRegistrations - 1)

ContractTypeOK ==
    /\ registrationCounter \in 0..MaxRegistrations
    /\ registrations \in [0..(registrationCounter - 1) -> Registration]
    /\ eligibilityResult \in BOOLEAN

\* The constructor; a Boolean ledger field starts out false.
ContractInit ==
    /\ registrationCounter = 0
    /\ registrations = [id \in {} |-> Blank]
    /\ eligibilityResult = FALSE

-------------------------------------------------------------------------------
\* Map.insert: the entry of id is added or replaced.
Insert(id, record) ==
    registrations' = [i \in DOMAIN registrations \cup {id} |->
                         IF i = id THEN record ELSE registrations[i]]

NewRecord(secret, application) ==
    [owner |-> DeriveDappKey(secret), application |-> application,
     status |-> "PENDING", reviewedBy |-> Blank]

\* Mutants: the id is read after the increment; the counter is not incremented.
SubmitRegistrationSkips(secret, application) ==
    /\ registrationCounter < MaxRegistrations
    /\ Insert(registrationCounter + 1, NewRecord(secret, application))
    /\ registrationCounter' = registrationCounter + 1
    /\ UNCHANGED eligibilityResult

SubmitRegistrationInPlace(secret, application) ==
    /\ registrationCounter < MaxRegistrations
    /\ Insert(registrationCounter, NewRecord(secret, application))
    /\ UNCHANGED <<registrationCounter, eligibilityResult>>

SubmitRegistration(secret, application) ==
    /\ registrationCounter < MaxRegistrations
    /\ Insert(registrationCounter, NewRecord(secret, application))
    /\ registrationCounter' = registrationCounter + 1
    /\ UNCHANGED eligibilityResult

\* The three asserts of approveRegistration and rejectRegistration.
\* Mutants: the status is not asserted; the officer is not asserted.
MayReviewAgain(secret, id) ==
    /\ DeriveDappKey(secret) = Officer
    /\ id \in DOMAIN registrations

MayReviewAnyone(secret, id) ==
    /\ id \in DOMAIN registrations
    /\ registrations[id].status = "PENDING"

MayReview(secret, id) ==
    /\ DeriveDappKey(secret) = Officer
    /\ id \in DOMAIN registrations
    /\ registrations[id].status = "PENDING"

\* Mutant: the record is rebuilt with the reviewer as its owner.
ReviewTakesOver(secret, id, verdict) ==
    /\ MayReview(secret, id)
    /\ Insert(id, [registrations[id] EXCEPT !.status = verdict,
                                            !.owner = DeriveDappKey(secret),
                                            !.reviewedBy = DeriveDappKey(secret)])
    /\ UNCHANGED <<registrationCounter, eligibilityResult>>

Review(secret, id, verdict) ==
    /\ MayReview(secret, id)
    /\ Insert(id, [registrations[id] EXCEPT !.status = verdict,
                                            !.reviewedBy = DeriveDappKey(secret)])
    /\ UNCHANGED <<registrationCounter, eligibilityResult>>

ApproveRegistration(secret, id) == Review(secret, id, "APPROVED")

RejectRegistration(secret, id) == Review(secret, id, "REJECTED")

Eligible(value) == value >= Threshold

CheckEligibility(value) ==
    /\ eligibilityResult' = Eligible(value)
    /\ UNCHANGED <<registrationCounter, registrations>>

ContractNext ==
    \/ \E s \in Secrets, a \in Applications : SubmitRegistration(s, a)
    \/ \E s \in Secrets, id \in Ids : ApproveRegistration(s, id) \/ RejectRegistration(s, id)
    \/ \E v \in Values : CheckEligibility(v)

ContractSpec == ContractInit /\ [][ContractNext]_ledger

-------------------------------------------------------------------------------
(* Properties of the contract alone.                                         *)

\* A record carries a verdict exactly when the holder of the officer's secret
\* has reviewed it (priestate.compact:79-112).
OnlyOfficerDecides ==
    \A id \in DOMAIN registrations :
        registrations[id].reviewedBy =
            IF registrations[id].status = "PENDING" THEN Blank ELSE Officer

\* What PropertyLifecycle keeps of the records: it counts them from 1.
Entry(r) == [owner |-> r.owner, application |-> r.application, status |-> r.status]

Book == [i \in 1..registrationCounter |-> Entry(registrations[i - 1])]

Lifecycle == INSTANCE PropertyLifecycle WITH Owners <- PublicKeys, book <- Book

\* The ledger implements the life cycle of docs/USAGE.md, section 4.
ImplementsLifecycle == Lifecycle!LifecycleSpec
===============================================================================
