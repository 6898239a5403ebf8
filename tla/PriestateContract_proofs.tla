------------------------ MODULE PriestateContract_proofs ------------------------
(***************************************************************************)
(* Proofs about the ledger of contracts/priestate.compact: its type        *)
(* invariant, that only the officer's key decides a registration, and that *)
(* it implements PropertyLifecycle. All three hold for every number of     *)
(* secrets, applications and registrations.                                *)
(***************************************************************************)
EXTENDS PriestateContract, SequenceTheorems, TLAPS

LInv == ContractTypeOK /\ OnlyOfficerDecides

(* Map.insert of a well-formed record, at a key of the map or right after    *)
(* its last one, gives a map with the new record there and the old elsewhere.*)
LEMMA InsertIsUpdate ==
    ASSUME NEW id, NEW record, Insert(id, record)
    PROVE  /\ DOMAIN registrations' = DOMAIN registrations \cup {id}
           /\ registrations'[id] = record
           /\ \A i \in DOMAIN registrations : i # id => registrations'[i] = registrations[i]
BY DEF Insert

(* A submission keeps the types and the officer's monopoly.                   *)
LEMMA SubmitKeeps ==
    ASSUME LInv, NEW s \in Secrets, NEW a \in Applications, SubmitRegistration(s, a)
    PROVE  LInv'
<1>1. NewRecord(s, a) \in Registration
  BY DEF NewRecord, Registration, PublicKeys, Status
<1>2. registrationCounter' \in 0..MaxRegistrations
  BY ContractAssumption DEF LInv, ContractTypeOK, SubmitRegistration
<1>3. DOMAIN registrations = 0..(registrationCounter - 1)
  BY DEF LInv, ContractTypeOK
<1>4. DOMAIN registrations' = 0..(registrationCounter' - 1)
  <2>1. DOMAIN registrations' = DOMAIN registrations \cup {registrationCounter}
    BY InsertIsUpdate DEF SubmitRegistration
  <2>2. registrationCounter \in Nat /\ registrationCounter' = registrationCounter + 1
    BY ContractAssumption DEF LInv, ContractTypeOK, SubmitRegistration
  <2> QED
    BY <1>3, <2>1, <2>2
<1>5. registrations' \in [0..(registrationCounter' - 1) -> Registration]
  BY <1>1, <1>4 DEF LInv, ContractTypeOK, SubmitRegistration, Insert
<1>6. ContractTypeOK'
  BY <1>2, <1>5 DEF LInv, ContractTypeOK, SubmitRegistration
<1>7. OnlyOfficerDecides'
  BY DEF LInv, OnlyOfficerDecides, SubmitRegistration, Insert, NewRecord
<1> QED
  BY <1>6, <1>7 DEF LInv

(* So does a review, by either circuit.                                       *)
LEMMA ReviewKeeps ==
    ASSUME LInv, NEW s \in Secrets, NEW id \in Ids, NEW verdict \in {"APPROVED", "REJECTED"},
           Review(s, id, verdict)
    PROVE  LInv'
<1> DEFINE new == [registrations[id] EXCEPT !.status = verdict,
                                            !.reviewedBy = DeriveDappKey(s)]
<1>1. id \in DOMAIN registrations /\ DeriveDappKey(s) = Officer
  BY DEF Review, MayReview
<1>2. registrations[id] \in Registration
  BY <1>1 DEF LInv, ContractTypeOK
<1>3. DeriveDappKey(s) \in PublicKeys
  BY DEF PublicKeys
<1>4. new \in Registration /\ new.status = verdict /\ new.reviewedBy = Officer
  BY <1>1, <1>2, <1>3 DEF Registration, Status
<1> HIDE DEF new
<1>5. Insert(id, new) /\ UNCHANGED <<registrationCounter, eligibilityResult>>
  BY DEF Review, new
<1>6. ContractTypeOK'
  BY <1>1, <1>4, <1>5 DEF LInv, ContractTypeOK, Insert
<1>7. OnlyOfficerDecides'
  BY <1>4, <1>5 DEF LInv, OnlyOfficerDecides, Insert
<1> QED
  BY <1>6, <1>7 DEF LInv

LEMMA LInvInit == ContractInit => LInv
<1> SUFFICES ASSUME ContractInit PROVE LInv
  OBVIOUS
<1>1. ContractTypeOK
  <2>1. 0..(registrationCounter - 1) = {}
    BY DEF ContractInit
  <2>2. registrations \in [0..(registrationCounter - 1) -> Registration]
    BY <2>1 DEF ContractInit
  <2>3. registrationCounter = 0 /\ eligibilityResult = FALSE
    BY DEF ContractInit
  <2>4. registrationCounter \in 0..MaxRegistrations
    BY <2>3, ContractAssumption
  <2>5. eligibilityResult \in BOOLEAN
    BY <2>3
  <2> QED
    BY <2>2, <2>4, <2>5 DEF ContractTypeOK
<1>2. OnlyOfficerDecides
  BY DEF ContractInit, OnlyOfficerDecides
<1> QED
  BY <1>1, <1>2 DEF LInv

LEMMA LInvStep == LInv /\ [ContractNext]_ledger => LInv'
<1> SUFFICES ASSUME LInv, [ContractNext]_ledger PROVE LInv'
  OBVIOUS
<1>1. CASE \E s \in Secrets, a \in Applications : SubmitRegistration(s, a)
  BY <1>1, SubmitKeeps
<1>2. CASE \E s \in Secrets, id \in Ids : ApproveRegistration(s, id) \/ RejectRegistration(s, id)
  BY <1>2, ReviewKeeps DEF ApproveRegistration, RejectRegistration
<1>3. CASE \E v \in Values : CheckEligibility(v)
  <2>1. PICK v \in Values : CheckEligibility(v)
    BY <1>3
  <2>2. Eligible(v) \in BOOLEAN
    BY ContractAssumption DEF Eligible
  <2>3. ContractTypeOK'
    BY <2>1, <2>2 DEF LInv, ContractTypeOK, CheckEligibility
  <2>4. OnlyOfficerDecides'
    BY <2>1 DEF LInv, OnlyOfficerDecides, CheckEligibility
  <2> QED
    BY <2>3, <2>4 DEF LInv
<1>4. CASE UNCHANGED ledger
  BY <1>4 DEF LInv, ContractTypeOK, OnlyOfficerDecides, ledger
<1> QED
  BY <1>1, <1>2, <1>3, <1>4 DEF ContractNext

(* Every state of the ledger is well formed: the ids are dense and below the  *)
(* counter, so the next insert overwrites nothing (priestate.compact:63-76).  *)
THEOREM LedgerTypeCorrect == ContractSpec => []ContractTypeOK
<1>1. LInv => ContractTypeOK
  BY DEF LInv
<1> QED
  BY LInvInit, LInvStep, <1>1, PTL DEF ContractSpec

(* A record has a verdict exactly when the officer's key reviewed it          *)
(* (priestate.compact:79-112).                                                *)
THEOREM OfficerDecides == ContractSpec => []OnlyOfficerDecides
<1>1. LInv => OnlyOfficerDecides
  BY DEF LInv
<1> QED
  BY LInvInit, LInvStep, <1>1, PTL DEF ContractSpec

-------------------------------------------------------------------------------
(* The refinement.                                                           *)

(* The book is a sequence with one entry per registration.                    *)
LEMMA BookIsSeq ==
    ASSUME ContractTypeOK
    PROVE  /\ registrationCounter \in Nat
           /\ Book \in Seq({Entry(r) : r \in Registration})
           /\ Len(Book) = registrationCounter
           /\ DOMAIN Book = 1..registrationCounter
<1>1. registrationCounter \in Nat
  BY ContractAssumption DEF ContractTypeOK
<1>2. \A i \in 1..registrationCounter : registrations[i - 1] \in Registration
  BY <1>1 DEF ContractTypeOK
<1>3. Book \in [1..registrationCounter -> {Entry(r) : r \in Registration}]
  BY <1>2 DEF Book
<1>4. Book \in Seq({Entry(r) : r \in Registration}) /\ Len(Book) = registrationCounter
  BY <1>1, <1>3
<1> QED
  BY <1>1, <1>3, <1>4

(* A submission appends its record to the book.                               *)
LEMMA SubmitFiles ==
    ASSUME ContractTypeOK, ContractTypeOK', NEW s \in Secrets, NEW a \in Applications,
           SubmitRegistration(s, a)
    PROVE  Book' = Append(Book, [owner |-> DeriveDappKey(s), application |-> a,
                                 status |-> "PENDING"])
<1> DEFINE n == registrationCounter
           e == [owner |-> DeriveDappKey(s), application |-> a, status |-> "PENDING"]
<1>1. n \in Nat /\ n' = n + 1
  BY BookIsSeq DEF SubmitRegistration
<1>2. DOMAIN registrations = 0..(n - 1)
  BY DEF ContractTypeOK
<1>3. Insert(n, NewRecord(s, a))
  BY DEF SubmitRegistration
<1>4. registrations'[n] = NewRecord(s, a)
  BY <1>3, InsertIsUpdate
<1>5. \A i \in 0..(n - 1) : registrations'[i] = registrations[i]
  BY <1>1, <1>2, <1>3 DEF Insert
<1>6. Entry(NewRecord(s, a)) = e
  BY DEF Entry, NewRecord
<1>7. Book' = [i \in 1..(n + 1) |-> Entry(registrations'[i - 1])]
  BY <1>1 DEF Book, Entry
<1>8. \A i \in 1..(n + 1) :
        Entry(registrations'[i - 1]) = IF i = n + 1 THEN e ELSE Book[i]
  <2> SUFFICES ASSUME NEW i \in 1..(n + 1)
               PROVE  Entry(registrations'[i - 1]) = IF i = n + 1 THEN e ELSE Book[i]
    OBVIOUS
  <2>1. CASE i = n + 1
    <3>1. i - 1 = n
      BY <2>1, <1>1
    <3> QED
      BY <2>1, <3>1, <1>4, <1>6
  <2>2. CASE i # n + 1
    <3>1. i \in 1..n /\ i - 1 \in 0..(n - 1)
      BY <2>2, <1>1
    <3>2. Book[i] = Entry(registrations[i - 1])
      BY <3>1 DEF Book
    <3> QED
      BY <2>2, <3>1, <3>2, <1>5
  <2> QED
    BY <2>1, <2>2
<1>9. Append(Book, e) = [i \in 1..(n + 1) |-> IF i = n + 1 THEN e ELSE Book[i]]
  <2> DEFINE S == {Entry(r) : r \in Registration}
  <2>1. Book \in Seq(S) /\ Len(Book) = n
    BY BookIsSeq
  <2>2. e \in S
    <3>1. NewRecord(s, a) \in Registration
      BY DEF NewRecord, Registration, PublicKeys, Status
    <3> QED
      BY <3>1, <1>6
  <2> HIDE DEF e, S
  <2>3. /\ Append(Book, e) \in Seq(S) /\ Len(Append(Book, e)) = n + 1
        /\ \A i \in 1..n : Append(Book, e)[i] = Book[i]
        /\ Append(Book, e)[n + 1] = e
    BY <2>1, <2>2, AppendProperties
  <2> DEFINE longer == Append(Book, e)
  <2>4. longer \in [1..(n + 1) -> S]
    <3>1. longer \in Seq(S) /\ Len(longer) = n + 1
      BY <2>3
    <3> HIDE DEF longer, n
    <3> QED
      BY <3>1
  <2>5. \A i \in 1..(n + 1) : Append(Book, e)[i] = IF i = n + 1 THEN e ELSE Book[i]
    BY <1>1, <2>3
  <2> QED
    BY <2>4, <2>5
<1> QED
  BY <1>7, <1>8, <1>9

(* A review changes the status of one pending entry and nothing else.         *)
LEMMA ReviewDecides ==
    ASSUME ContractTypeOK, NEW s \in Secrets, NEW id \in Ids,
           NEW verdict \in {"APPROVED", "REJECTED"}, Review(s, id, verdict)
    PROVE  id + 1 \in DOMAIN Book /\ Lifecycle!Decide(id + 1, verdict)
<1> DEFINE n   == registrationCounter
           new == [registrations[id] EXCEPT !.status = verdict,
                                            !.reviewedBy = DeriveDappKey(s)]
<1>1. n \in Nat /\ n' = n /\ DOMAIN registrations = 0..(n - 1)
  BY BookIsSeq DEF Review, ContractTypeOK
<1>2. id \in 0..(n - 1) /\ registrations[id].status = "PENDING"
  BY <1>1 DEF Review, MayReview
<1>3. registrations[id] \in Registration
  BY <1>2 DEF ContractTypeOK
<1>4. Insert(id, new)
  BY DEF Review
<1>5. registrations'[id] = new
        /\ \A i \in 0..(n - 1) : i # id => registrations'[i] = registrations[i]
  <2> HIDE DEF new
  <2> QED
    BY <1>1, <1>4, InsertIsUpdate
<1>6. id + 1 \in 1..n /\ (id + 1) - 1 = id
  BY <1>1, <1>2
<1>7. Book[id + 1] = Entry(registrations[id])
  BY <1>6 DEF Book
<1>8. Entry(new) = [Entry(registrations[id]) EXCEPT !.status = verdict]
  BY <1>3 DEF Entry, Registration
<1> HIDE DEF new
<1>9. Book' = [i \in 1..n |-> Entry(registrations'[i - 1])]
  BY <1>1 DEF Book, Entry
<1>10. \A i \in 1..n : Entry(registrations'[i - 1]) =
          IF i = id + 1 THEN [Book[i] EXCEPT !.status = verdict] ELSE Book[i]
  <2> SUFFICES ASSUME NEW i \in 1..n
               PROVE  Entry(registrations'[i - 1]) =
                        IF i = id + 1 THEN [Book[i] EXCEPT !.status = verdict] ELSE Book[i]
    OBVIOUS
  <2>1. CASE i = id + 1
    BY <2>1, <1>5, <1>6, <1>7, <1>8
  <2>2. CASE i # id + 1
    <3>1. i - 1 \in 0..(n - 1) /\ i - 1 # id
      BY <2>2, <1>1, <1>2
    <3>2. Book[i] = Entry(registrations[i - 1])
      BY DEF Book
    <3> QED
      BY <2>2, <3>1, <3>2, <1>5
  <2> QED
    BY <2>1, <2>2
<1>11. DOMAIN Book = 1..n
  BY BookIsSeq
<1>12. Book[id + 1].status = "PENDING"
  BY <1>2, <1>7 DEF Entry
<1>13. Book' = [Book EXCEPT ![id + 1].status = verdict]
  BY <1>9, <1>10, <1>11
<1> QED
  BY <1>6, <1>11, <1>12, <1>13 DEF Lifecycle!Decide

(* Every step of the ledger is a step of PropertyLifecycle or leaves the book *)
(* as it is: a registration is appended as pending, decided at most once, and *)
(* otherwise never touched (priestate.compact:63-112).                        *)
THEOREM LedgerImplementsLifecycle == ContractSpec => ImplementsLifecycle
<1>1. ContractInit => Lifecycle!LifecycleInit
  <2> SUFFICES ASSUME ContractInit PROVE Book = << >>
    BY DEF Lifecycle!LifecycleInit
  <2>1. 1..registrationCounter = {}
    BY DEF ContractInit
  <2> QED
    BY <2>1 DEF Book
<1>2. LInv /\ LInv' /\ [ContractNext]_ledger => [Lifecycle!LifecycleNext]_Book
  <2> SUFFICES ASSUME LInv, LInv', [ContractNext]_ledger
               PROVE  Lifecycle!LifecycleNext \/ Book' = Book
    OBVIOUS
  <2>0. ContractTypeOK /\ ContractTypeOK'
    BY DEF LInv
  <2>1. ASSUME NEW s \in Secrets, NEW a \in Applications, SubmitRegistration(s, a)
        PROVE  Lifecycle!LifecycleNext
    <3>1. DeriveDappKey(s) \in PublicKeys
      BY DEF PublicKeys
    <3>2. Lifecycle!File(DeriveDappKey(s), a)
      BY <2>0, <2>1, SubmitFiles DEF Lifecycle!File
    <3> QED
      BY <3>1, <3>2 DEF Lifecycle!LifecycleNext
  <2>2. ASSUME NEW s \in Secrets, NEW id \in Ids, NEW verdict \in {"APPROVED", "REJECTED"},
               Review(s, id, verdict)
        PROVE  Lifecycle!LifecycleNext
    <3>1. id + 1 \in DOMAIN Book /\ Lifecycle!Decide(id + 1, verdict)
      BY <2>0, <2>2, ReviewDecides, Zenon
    <3> QED
      BY <3>1 DEF Lifecycle!LifecycleNext, Lifecycle!Verdicts
  <2>3. CASE \E v \in Values : CheckEligibility(v)
    BY <2>3 DEF CheckEligibility, Book, Entry
  <2>4. CASE UNCHANGED ledger
    BY <2>4 DEF ledger, Book, Entry
  <2> QED
    BY <2>1, <2>2, <2>3, <2>4
    DEF ContractNext, ApproveRegistration, RejectRegistration
<1> QED
  BY <1>1, <1>2, LInvInit, LInvStep, PTL
  DEF ContractSpec, ImplementsLifecycle, Lifecycle!LifecycleSpec
===============================================================================
