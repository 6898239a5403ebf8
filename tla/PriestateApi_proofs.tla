--------------------------- MODULE PriestateApi_proofs ---------------------------
(***************************************************************************)
(* Proofs about browsers, transactions and the ledger together, for any    *)
(* number of browsers and transactions: what holds of the contract alone   *)
(* holds of the composed system, each applied submission has a record of   *)
(* its own, and one review decides a registration.                         *)
(***************************************************************************)
EXTENDS PriestateApi, PriestateContract_proofs

-------------------------------------------------------------------------------
(* The inductive invariant. A transaction that was not started was not        *)
(* applied either; a holder that a started check will read has been set; and  *)
(* only known registrations were reviewed, so that a new record has no        *)
(* review behind it.                                                          *)
Started == \A t \in Txs : tx[t] = None => fate[t] = "pending"

HolderSet ==
    \A t \in Txs : tx[t] # None /\ tx[t].op = "check" => holder[tx[t].by] \in Values

KnownReviewed ==
    \A t \in Txs : tx[t] # None /\ fate[t] = "applied" /\ tx[t].op \in {"approve", "reject"} =>
        tx[t].id \in DOMAIN registrations

Relations == KnownReviewed /\ EachSubmissionHasItsRecord /\ VerdictIsTheOneReview

AInv == TypeOK /\ OnlyOfficerDecides /\ Started /\ HolderSet /\ Relations

Reviewed == {t \in Txs : tx[t] # None /\ fate[t] = "applied"
                            /\ tx[t].op \in {"approve", "reject"}}

(* What a started transaction carries, by the call it is of.                  *)
LEMMA CallFields ==
    ASSUME TypeOK, NEW t \in Txs, tx[t] # None
    PROVE  /\ tx[t] \in Call
           /\ tx[t].op \in {"submit", "approve", "reject", "check"}
           /\ tx[t].op = "submit" => tx[t].secret \in Secrets /\ tx[t].application \in Applications
           /\ tx[t].op \in {"approve", "reject"} => tx[t].secret \in Secrets /\ tx[t].id \in Ids
           /\ tx[t].op = "check" => tx[t].by \in Browsers /\ tx[t].value \in Values
<1>1. tx[t] \in Call
  BY DEF TypeOK
<1> QED
  BY <1>1 DEF Call

(* A step of the system is a step of the contract or leaves the ledger alone. *)
LEMMA StepOfContract ==
    ASSUME TypeOK, [Next]_vars
    PROVE  [ContractNext]_ledger
<1>1. ASSUME NEW t \in Txs, ApplySubmit(t)
      PROVE  ContractNext
  <2>1. tx[t].secret \in Secrets /\ tx[t].application \in Applications
    BY <1>1, CallFields DEF ApplySubmit, Pending
  <2> QED
    BY <1>1, <2>1 DEF ApplySubmit, ContractNext
<1>2. ASSUME NEW t \in Txs, ApplyReview(t)
      PROVE  ContractNext
  <2>1. tx[t].secret \in Secrets /\ tx[t].id \in Ids
    BY <1>2, CallFields DEF ApplyReview, Pending
  <2> QED
    BY <1>2, <2>1 DEF ApplyReview, ContractNext
<1>3. ASSUME NEW t \in Txs, ApplyCheck(t)
      PROVE  ContractNext
  <2>1. input[t] \in Values
    BY <1>3 DEF ApplyCheck, TypeOK
  <2> QED
    BY <1>3, <2>1 DEF ApplyCheck, ContractNext
<1>4. ASSUME NEW b \in Browsers, NEW t \in Txs, NEW call \in Call, Start(b, t, call)
      PROVE  UNCHANGED ledger
  BY <1>4 DEF Start, ledger
<1>5. CASE UNCHANGED vars
  BY <1>5 DEF vars, ledger
<1>6. ASSUME NEW t \in Txs, Prove(t) \/ Drop(t)
      PROVE  UNCHANGED ledger
  BY <1>6 DEF Prove, Drop, ledger
<1>7. ASSUME NEW b \in Browsers, NEW t \in Txs, Answer(b, t) \/ Fails(b, t) \/ TimesOut(b, t)
      PROVE  UNCHANGED ledger
  BY <1>7 DEF Answer, Fails, TimesOut, ledger
<1> QED
  BY <1>1, <1>2, <1>3, <1>4, <1>5, <1>6, <1>7 DEF Next

-------------------------------------------------------------------------------
(* A step that applies neither a submission nor a review leaves the relations *)
(* between transactions and records alone.                                    *)
LEMMA RelationsUnmoved ==
    ASSUME Relations,
           registrations' = registrations,
           Submissions' = Submissions,
           Reviewed' = Reviewed,
           \A t \in Submissions \cup Reviewed : tx'[t] = tx[t],
           \A t \in Submissions : result'[t] = result[t]
    PROVE  Relations'
<1>1. KnownReviewed'
  BY DEF Relations, KnownReviewed, Reviewed
<1>2. EachSubmissionHasItsRecord'
  BY DEF Relations, EachSubmissionHasItsRecord
<1>3. VerdictIsTheOneReview'
  <2>1. \A id : Reviews(id) = {t \in Reviewed : tx[t].id = id}
    BY DEF Reviews, Reviewed
  <2>2. \A id : Reviews(id)' = {t \in Reviewed : tx[t].id = id}
    BY DEF Reviews, Reviewed
  <2>3. \A id : Reviews(id)' = Reviews(id)
    BY <2>1, <2>2
  <2>4. \A id : \A t \in Reviews(id) : tx'[t] = tx[t]
    BY <2>1
  <2> QED
    BY <2>3, <2>4 DEF Relations, VerdictIsTheOneReview, DecidedByOneReview
<1> QED
  BY <1>1, <1>2, <1>3 DEF Relations

(* The record of a submission is new, and has no review behind it.            *)
LEMMA SubmitRelates ==
    ASSUME AInv, NEW t \in Txs, ApplySubmit(t)
    PROVE  Relations'
<1> DEFINE n == registrationCounter
           record == NewRecord(tx[t].secret, tx[t].application)
<1>1. /\ tx[t] # None /\ fate[t] = "pending" /\ tx[t].op = "submit"
      /\ Insert(n, record)
      /\ tx' = tx
      /\ fate' = [fate EXCEPT ![t] = "applied"]
      /\ result' = [result EXCEPT ![t] = [id |-> n]]
  BY DEF ApplySubmit, Pending, Applied, SubmitRegistration
<1>2. /\ n \notin DOMAIN registrations
      /\ DOMAIN registrations' = DOMAIN registrations \cup {n}
      /\ registrations'[n] = record
      /\ \A i \in DOMAIN registrations : registrations'[i] = registrations[i]
  <2>1. n \in Nat /\ DOMAIN registrations = 0..(n - 1)
    BY ContractAssumption DEF AInv, TypeOK, ContractTypeOK
  <2>2. n \notin DOMAIN registrations
    BY <2>1
  <2> HIDE DEF n, record
  <2> QED
    BY <1>1, <2>2 DEF Insert
<1>3. fate \in [Txs -> {"pending", "applied", "dropped"}] /\ result \in [Txs -> Outcome \cup {None}]
  BY DEF AInv, TypeOK
<1>4. Submissions' = Submissions \cup {t} /\ t \notin Submissions
  BY <1>1, <1>3 DEF Submissions
<1>5. Reviewed' = Reviewed
  BY <1>1, <1>3 DEF Reviewed
<1>6. \A u \in Submissions : result'[u] = result[u]
  BY <1>1, <1>3, <1>4 DEF Submissions
<1>7. result'[t] = [id |-> n]
  BY <1>1, <1>3
<1>8. record.owner = DeriveDappKey(tx[t].secret) /\ record.application = tx[t].application
      /\ record.status = "PENDING"
  BY DEF NewRecord
<1> HIDE DEF n, record
<1>9. KnownReviewed'
  BY <1>1, <1>2, <1>5 DEF AInv, Relations, KnownReviewed, Reviewed
<1>10. EachSubmissionHasItsRecord'
  <2>1. \A u \in Submissions' :
          /\ result'[u].id \in DOMAIN registrations'
          /\ registrations'[result'[u].id].owner = DeriveDappKey(tx'[u].secret)
          /\ registrations'[result'[u].id].application = tx'[u].application
    BY <1>1, <1>2, <1>4, <1>6, <1>7, <1>8 DEF AInv, Relations, EachSubmissionHasItsRecord
  <2>2. \A id \in DOMAIN registrations' : \E u \in Submissions' : result'[u].id = id
    BY <1>2, <1>4, <1>6, <1>7 DEF AInv, Relations, EachSubmissionHasItsRecord
  <2>3. \A u \in Submissions : result'[u] # result'[t]
    BY <1>2, <1>6, <1>7 DEF AInv, Relations, EachSubmissionHasItsRecord
  <2>4. \A u, v \in Submissions' : result'[u] = result'[v] => u = v
    BY <1>4, <1>6, <2>3 DEF AInv, Relations, EachSubmissionHasItsRecord
  <2> QED
    BY <2>1, <2>2, <2>4 DEF EachSubmissionHasItsRecord
<1>11. VerdictIsTheOneReview'
  <2>1. \A id : Reviews(id)' = Reviews(id)
    <3>1. \A id : Reviews(id) = {u \in Reviewed : tx[u].id = id}
      BY DEF Reviews, Reviewed
    <3>2. \A id : Reviews(id)' = {u \in Reviewed' : tx'[u].id = id}
      BY DEF Reviews, Reviewed
    <3> QED
      BY <1>1, <1>5, <3>1, <3>2
  <2>2. Reviews(n) = {}
    BY <1>2 DEF AInv, Relations, KnownReviewed, Reviews
  <2> QED
    BY <1>1, <1>2, <1>8, <2>1, <2>2
    DEF AInv, Relations, VerdictIsTheOneReview, DecidedByOneReview
<1> QED
  BY <1>9, <1>10, <1>11 DEF Relations

(* A review finds the record pending, so that it is the first one, and keeps  *)
(* the owner and the application of the record.                               *)
LEMMA ReviewRelates ==
    ASSUME AInv, NEW t \in Txs, ApplyReview(t)
    PROVE  Relations'
<1> DEFINE id == tx[t].id
           verdict == IF tx[t].op = "approve" THEN "APPROVED" ELSE "REJECTED"
           record == [registrations[id] EXCEPT !.status = verdict,
                                               !.reviewedBy = DeriveDappKey(tx[t].secret)]
<1>1. /\ tx[t] # None /\ fate[t] = "pending" /\ tx[t].op \in {"approve", "reject"}
      /\ Review(tx[t].secret, id, verdict)
      /\ tx' = tx
      /\ fate' = [fate EXCEPT ![t] = "applied"]
      /\ result' = [result EXCEPT ![t] = [id |-> id]]
  BY DEF ApplyReview, Pending, Applied, ApproveRegistration, RejectRegistration
<1>2. id \in DOMAIN registrations /\ registrations[id].status = "PENDING"
  BY <1>1 DEF Review, MayReview
<1>3. registrations[id] \in Registration
  BY <1>2 DEF AInv, TypeOK, ContractTypeOK
<1>4. record.owner = registrations[id].owner /\ record.status = verdict
      /\ record.application = registrations[id].application
  BY <1>3 DEF Registration
<1>5. Insert(id, record)
  BY <1>1 DEF Review
<1> HIDE DEF record
<1>6. /\ DOMAIN registrations' = DOMAIN registrations
      /\ registrations'[id] = record
      /\ \A i \in DOMAIN registrations : i # id => registrations'[i] = registrations[i]
  BY <1>2, <1>5 DEF Insert
<1>7. fate \in [Txs -> {"pending", "applied", "dropped"}] /\ result \in [Txs -> Outcome \cup {None}]
  BY DEF AInv, TypeOK
<1>8. Submissions' = Submissions /\ \A u \in Submissions : result'[u] = result[u]
  BY <1>1, <1>7 DEF Submissions
<1>9. Reviewed' = Reviewed \cup {t} /\ t \notin Reviewed
  BY <1>1, <1>7 DEF Reviewed
<1>10. KnownReviewed'
  BY <1>1, <1>2, <1>6, <1>9 DEF AInv, Relations, KnownReviewed, Reviewed
<1>11. EachSubmissionHasItsRecord'
  <2>1. \A i \in DOMAIN registrations :
          /\ registrations'[i].owner = registrations[i].owner
          /\ registrations'[i].application = registrations[i].application
    BY <1>4, <1>6
  <2> QED
    BY <1>1, <1>6, <1>8, <2>1 DEF AInv, Relations, EachSubmissionHasItsRecord
<1>12. VerdictIsTheOneReview'
  <2>1. \A i : Reviews(i) = {u \in Reviewed : tx[u].id = i}
    BY DEF Reviews, Reviewed
  <2>2. \A i : Reviews(i)' = {u \in Reviewed' : tx'[u].id = i}
    BY DEF Reviews, Reviewed
  <2>3. Reviews(id) = {}
    BY <1>2 DEF AInv, Relations, VerdictIsTheOneReview, DecidedByOneReview
  <2>4. \A i : i = id => Reviews(i)' = {t}
    BY <1>1, <1>9, <2>1, <2>2, <2>3
  <2>5. \A i : i # id => Reviews(i)' = Reviews(i)
    BY <1>1, <1>9, <2>1, <2>2
  <2>6. registrations'[id].status = IF tx'[t].op = "approve" THEN "APPROVED" ELSE "REJECTED"
    BY <1>1, <1>4, <1>6
  <2>7. \A i \in DOMAIN registrations : DecidedByOneReview(i)
    BY DEF AInv, Relations, VerdictIsTheOneReview
  <2>8. DOMAIN registrations' = DOMAIN registrations
    BY <1>6
  <2> HIDE DEF id, verdict
  <2> SUFFICES ASSUME NEW i \in DOMAIN registrations
               PROVE  DecidedByOneReview(i)'
    BY <2>8, Zenon DEF VerdictIsTheOneReview
  <2>9. CASE i = id
    <3>1. Reviews(i)' = {t}
      BY <2>4, <2>9
    <3>2. registrations'[i].status =
            IF tx'[t].op = "approve" THEN "APPROVED" ELSE "REJECTED"
      BY <2>6, <2>9
    <3> QED
      BY <3>1, <3>2 DEF DecidedByOneReview
  <2>10. CASE i # id
    <3>1. Reviews(i)' = Reviews(i) /\ registrations'[i] = registrations[i] /\ tx' = tx
      BY <1>1, <1>6, <2>5, <2>10
    <3> QED
      BY <2>7, <3>1 DEF DecidedByOneReview
  <2> QED
    BY <2>9, <2>10
<1> QED
  BY <1>10, <1>11, <1>12 DEF Relations

LEMMA RelationsStep == AInv /\ [Next]_vars => Relations'
<1> SUFFICES ASSUME AInv, [Next]_vars PROVE Relations'
  OBVIOUS
<1>0. /\ Relations
      /\ tx \in [Txs -> Call \cup {None}]
      /\ fate \in [Txs -> {"pending", "applied", "dropped"}]
      /\ result \in [Txs -> Outcome \cup {None}]
  BY DEF AInv, TypeOK
<1>1. ASSUME NEW b \in Browsers, NEW t \in Txs, NEW call \in Call, Start(b, t, call)
      PROVE  Relations'
  <2>1. tx[t] = None /\ fate[t] = "pending"
    BY <1>1 DEF Start, AInv, Started
  <2>2. Submissions' = Submissions /\ Reviewed' = Reviewed
    BY <1>0, <1>1, <2>1 DEF Start, Submissions, Reviewed
  <2>3. \A u \in Submissions \cup Reviewed : tx'[u] = tx[u]
    BY <1>0, <1>1, <2>1 DEF Start, Submissions, Reviewed
  <2> QED
    BY <1>0, <1>1, <2>2, <2>3, RelationsUnmoved DEF Start, ledger
<1>2. ASSUME NEW b \in Browsers, NEW t \in Txs, Answer(b, t) \/ Fails(b, t) \/ TimesOut(b, t)
      PROVE  Relations'
  <2>1. UNCHANGED <<registrations, tx, fate, result>>
    BY <1>2 DEF Answer, Fails, TimesOut, ledger
  <2> QED
    BY <1>0, <2>1, RelationsUnmoved DEF Submissions, Reviewed
<1>3. ASSUME NEW t \in Txs, Prove(t) \/ Drop(t)
      PROVE  Relations'
  <2>1. UNCHANGED <<registrations, tx, result>>
    BY <1>3 DEF Prove, Drop, ledger
  <2>2. Submissions' = Submissions /\ Reviewed' = Reviewed
    BY <1>0, <1>3, <2>1 DEF Prove, Drop, Pending, Submissions, Reviewed
  <2> QED
    BY <1>0, <2>1, <2>2, RelationsUnmoved
<1>4. ASSUME NEW t \in Txs, ApplyCheck(t)
      PROVE  Relations'
  <2>1. UNCHANGED <<registrations, tx>>
    BY <1>4 DEF ApplyCheck, Applied, CheckEligibility
  <2>2. tx[t].op = "check" /\ fate' = [fate EXCEPT ![t] = "applied"]
        /\ \A u \in Txs : u # t => result'[u] = result[u]
    BY <1>0, <1>4 DEF ApplyCheck, Applied
  <2>3. Submissions' = Submissions /\ Reviewed' = Reviewed
    BY <1>0, <2>1, <2>2 DEF Submissions, Reviewed
  <2>4. \A u \in Submissions : result'[u] = result[u]
    BY <2>2 DEF Submissions
  <2> QED
    BY <1>0, <2>1, <2>3, <2>4, RelationsUnmoved
<1>5. CASE UNCHANGED vars
  <2>1. UNCHANGED <<registrations, tx, fate, result>>
    BY <1>5 DEF vars, ledger
  <2> QED
    BY <1>0, <2>1, RelationsUnmoved DEF Submissions, Reviewed
<1> QED
  BY <1>1, <1>2, <1>3, <1>4, <1>5, SubmitRelates, ReviewRelates DEF Next

-------------------------------------------------------------------------------
LEMMA StartedStep == AInv /\ [Next]_vars => Started'
<1> SUFFICES ASSUME AInv, [Next]_vars PROVE Started'
  OBVIOUS
<1>0. /\ tx \in [Txs -> Call \cup {None}]
      /\ fate \in [Txs -> {"pending", "applied", "dropped"}]
      /\ Started
  BY DEF AInv, TypeOK
<1>1. ASSUME NEW b \in Browsers, NEW t \in Txs, NEW call \in Call, Start(b, t, call)
      PROVE  Started'
  BY <1>0, <1>1, ApiAssumption DEF Start, Started
<1>2. ASSUME NEW b \in Browsers, NEW t \in Txs, Answer(b, t) \/ Fails(b, t) \/ TimesOut(b, t)
      PROVE  Started'
  BY <1>0, <1>2 DEF Answer, Fails, TimesOut, Started
<1>3. ASSUME NEW t \in Txs,
             \/ Prove(t) \/ Drop(t)
             \/ ApplySubmit(t) \/ ApplyReview(t) \/ ApplyCheck(t)
      PROVE  Started'
  <2>1. /\ tx' = tx /\ tx[t] # None
        /\ \A u \in Txs : u # t => fate'[u] = fate[u]
    BY <1>0, <1>3
    DEF Prove, Drop, ApplySubmit, ApplyReview, ApplyCheck, Applied, Pending
  <2> QED
    BY <1>0, <2>1 DEF Started
<1>4. CASE UNCHANGED vars
  BY <1>0, <1>4 DEF vars, Started
<1> QED
  BY <1>1, <1>2, <1>3, <1>4 DEF Next

LEMMA HolderSetStep == AInv /\ [Next]_vars => HolderSet'
<1> SUFFICES ASSUME AInv, [Next]_vars PROVE HolderSet'
  OBVIOUS
<1>0. /\ tx \in [Txs -> Call \cup {None}]
      /\ holder \in [Browsers -> Values \cup {0}]
      /\ HolderSet
  BY DEF AInv, TypeOK
<1>1. ASSUME NEW b \in Browsers, NEW t \in Txs, NEW call \in Call, Start(b, t, call)
      PROVE  HolderSet'
  <2>1. tx' = [tx EXCEPT ![t] = call]
    BY <1>1 DEF Start
  <2>2. CASE call.op = "check"
    <3>1. call.by = b /\ call.value \in Values /\ holder' = [holder EXCEPT ![b] = call.value]
      BY <1>1, <2>2 DEF Start, Call
    <3>2. \A c \in Browsers : holder[c] \in Values => holder'[c] \in Values
      BY <1>0, <3>1
    <3>3. holder'[b] \in Values
      BY <1>0, <3>1
    <3>4. \A u \in Txs : tx[u] # None /\ tx[u].op = "check" => tx[u].by \in Browsers
      BY <1>0 DEF Call
    <3> QED
      BY <1>0, <2>1, <3>1, <3>2, <3>3, <3>4 DEF HolderSet
  <2>3. CASE call.op # "check"
    <3>1. holder' = holder
      BY <1>1, <2>3 DEF Start
    <3> QED
      BY <1>0, <2>1, <2>3, <3>1 DEF HolderSet
  <2> QED
    BY <2>2, <2>3
<1>2. CASE UNCHANGED <<tx, holder>>
  BY <1>0, <1>2 DEF HolderSet
<1>3. ASSUME NEW b \in Browsers, NEW t \in Txs, Answer(b, t) \/ Fails(b, t) \/ TimesOut(b, t)
      PROVE  UNCHANGED <<tx, holder>>
  BY <1>3 DEF Answer, Fails, TimesOut
<1>4. ASSUME NEW t \in Txs,
             \/ Prove(t) \/ Drop(t)
             \/ ApplySubmit(t) \/ ApplyReview(t) \/ ApplyCheck(t)
      PROVE  UNCHANGED <<tx, holder>>
  BY <1>4 DEF Prove, Drop, ApplySubmit, ApplyReview, ApplyCheck, Applied
<1>5. CASE UNCHANGED vars
  BY <1>2, <1>5 DEF vars
<1> QED
  BY <1>1, <1>2, <1>3, <1>4, <1>5 DEF Next

LEMMA TypeStep == AInv /\ [Next]_vars => TypeOK'
<1> SUFFICES ASSUME AInv, [Next]_vars PROVE TypeOK'
  OBVIOUS
<1> DEFINE Local ==
      /\ tx \in [Txs -> Call \cup {None}]
      /\ holder \in [Browsers -> Values \cup {0}]
      /\ input \in [Txs -> Values \cup {None}]
      /\ fate \in [Txs -> {"pending", "applied", "dropped"}]
      /\ result \in [Txs -> Outcome \cup {None}]
      /\ waits \in [Browsers -> Txs \cup {None}]
      /\ told \in [Txs -> Outcome \cup {None}]
<1>0. TypeOK /\ Local /\ ContractTypeOK
  BY DEF AInv, TypeOK
<1>c. ContractTypeOK'
  <2>1. LInv
    BY DEF AInv, TypeOK, LInv
  <2> QED
    BY <1>0, <2>1, StepOfContract, LInvStep DEF LInv
<1>1. ASSUME NEW b \in Browsers, NEW t \in Txs, NEW call \in Call, Start(b, t, call)
      PROVE  Local'
  <2>1. holder' \in [Browsers -> Values \cup {0}]
    <3>1. CASE call.op = "check"
      <4>1. call.value \in Values /\ holder' = [holder EXCEPT ![b] = call.value]
        BY <1>1, <3>1 DEF Start, Call
      <4> QED
        BY <1>0, <4>1
    <3>2. CASE call.op # "check"
      BY <1>0, <1>1, <3>2 DEF Start
    <3> QED
      BY <3>1, <3>2
  <2> QED
    BY <1>0, <1>1, <2>1 DEF Start
<1>2. ASSUME NEW b \in Browsers, NEW t \in Txs, Answer(b, t)
      PROVE  Local'
  <2>1. AnswerTo(tx[t]) \in Outcome
    <3>1. tx[t] # None /\ fate[t] = "applied"
      BY <1>2 DEF Answer, AInv, Started
    <3>2. CASE tx[t].op = "submit"
      <4>1. t \in Submissions
        BY <3>1, <3>2 DEF Submissions
      <4>2. DOMAIN registrations # {} /\ DOMAIN registrations = 0..(registrationCounter - 1)
        BY <1>0, <4>1 DEF AInv, Relations, EachSubmissionHasItsRecord, ContractTypeOK
      <4>3. registrationCounter - 1 \in Ids
        BY <1>0, <4>2, ContractAssumption DEF ContractTypeOK, Ids
      <4> QED
        BY <3>2, <4>3 DEF AnswerTo, Outcome
    <3>3. CASE tx[t].op = "check"
      BY <1>0, <3>3 DEF AnswerTo, Outcome, ContractTypeOK
    <3>4. CASE tx[t].op \in {"approve", "reject"}
      <4>1. tx[t].id \in Ids
        BY <1>0, <3>1, <3>4, CallFields
      <4> QED
        BY <3>4, <4>1 DEF AnswerTo, Outcome
    <3> QED
      BY <1>0, <3>1, <3>2, <3>3, <3>4, CallFields
  <2> QED
    BY <1>0, <1>2, <2>1 DEF Answer, StopWaiting
<1>3. ASSUME NEW b \in Browsers, NEW t \in Txs, Fails(b, t) \/ TimesOut(b, t)
      PROVE  Local'
  BY <1>0, <1>3 DEF Fails, TimesOut, StopWaiting
<1>4. ASSUME NEW t \in Txs, Prove(t)
      PROVE  Local'
  <2>1. holder[tx[t].by] \in Values
    BY <1>4 DEF Prove, Pending, AInv, HolderSet
  <2> QED
    BY <1>0, <1>4, <2>1 DEF Prove
<1>5. ASSUME NEW t \in Txs, Drop(t)
      PROVE  Local'
  BY <1>0, <1>5 DEF Drop
<1>6. ASSUME NEW t \in Txs, NEW value \in Outcome, Applied(t, value)
      PROVE  Local'
  BY <1>0, <1>6 DEF Applied
<1>7. ASSUME NEW t \in Txs, ApplySubmit(t)
      PROVE  Local'
  <2>1. registrationCounter \in Ids
    BY <1>0, <1>7, ContractAssumption DEF ApplySubmit, SubmitRegistration, ContractTypeOK, Ids
  <2>2. [id |-> registrationCounter] \in Outcome
    BY <2>1 DEF Outcome
  <2> QED
    BY <1>6, <1>7, <2>2 DEF ApplySubmit
<1>8. ASSUME NEW t \in Txs, ApplyReview(t)
      PROVE  Local'
  <2>1. tx[t].id \in Ids
    BY <1>0, <1>8, CallFields DEF ApplyReview, Pending
  <2>2. [id |-> tx[t].id] \in Outcome
    BY <2>1 DEF Outcome
  <2> QED
    BY <1>6, <1>8, <2>2 DEF ApplyReview
<1>9. ASSUME NEW t \in Txs, ApplyCheck(t)
      PROVE  Local'
  <2>1. [eligible |-> Eligible(input[t])] \in Outcome
    BY DEF Outcome, Eligible
  <2> QED
    BY <1>6, <1>9, <2>1 DEF ApplyCheck
<1>10. ASSUME UNCHANGED vars
       PROVE  Local'
  BY <1>0, <1>10 DEF vars
<1>11. Local'
  <2> HIDE DEF Local
  <2> QED
    BY <1>1, <1>2, <1>3, <1>4, <1>5, <1>7, <1>8, <1>9, <1>10 DEF Next
<1> QED
  BY <1>c, <1>11 DEF TypeOK

LEMMA AInvInit == Init => AInv
<1> SUFFICES ASSUME Init PROVE AInv
  OBVIOUS
<1>1. ContractTypeOK /\ OnlyOfficerDecides
  BY LInvInit DEF Init, LInv
<1>2. TypeOK
  BY <1>1 DEF Init, TypeOK
<1>3. DOMAIN registrations = {} /\ \A t \in Txs : tx[t] = None /\ fate[t] = "pending"
  BY DEF Init, ContractInit
<1>4. Started /\ HolderSet
  BY <1>3 DEF Started, HolderSet
<1>5. Relations
  BY <1>3
  DEF Relations, KnownReviewed, EachSubmissionHasItsRecord, VerdictIsTheOneReview,
      DecidedByOneReview, Submissions
<1> QED
  BY <1>1, <1>2, <1>4, <1>5 DEF AInv

LEMMA AInvStep == AInv /\ [Next]_vars => AInv'
<1> SUFFICES ASSUME AInv, [Next]_vars PROVE AInv'
  OBVIOUS
<1>1. LInv /\ [ContractNext]_ledger
  BY StepOfContract DEF AInv, TypeOK, LInv
<1>2. OnlyOfficerDecides'
  BY <1>1, LInvStep DEF LInv
<1> QED
  BY <1>2, TypeStep, StartedStep, HolderSetStep, RelationsStep DEF AInv

-------------------------------------------------------------------------------
(* Every variable keeps its type, and a caller is only ever told an id the    *)
(* ledger has given or a verdict.                                             *)
THEOREM ApiTypeCorrect == Spec => []TypeOK
<1>1. AInv => TypeOK
  BY DEF AInv
<1> QED
  BY AInvInit, AInvStep, <1>1, PTL DEF Spec

(* Browsers and transactions do nothing to the ledger but run its circuits    *)
(* (priestate-api.ts:81-132).                                                 *)
THEOREM ApiImplementsContract == Spec => ContractSpec
<1>1. Init => ContractInit
  BY DEF Init
<1>2. TypeOK /\ [Next]_vars => [ContractNext]_ledger
  BY StepOfContract
<1> QED
  BY <1>1, <1>2, ApiTypeCorrect, PTL DEF Spec, ContractSpec

(* Whoever sends whichever transactions, only the officer's key gives a       *)
(* registration its verdict (priestate.compact:79-112).                       *)
THEOREM OnlyOfficerDecidesAlways == Spec => []OnlyOfficerDecides
BY ApiImplementsContract, OfficerDecides, PTL

(* The whole system implements PropertyLifecycle (priestate.compact:63-112).  *)
THEOREM ApiImplementsLifecycle == Spec => ImplementsLifecycle
BY ApiImplementsContract, LedgerImplementsLifecycle, PTL

(* No submission is lost, overwritten or merged with another, in whichever    *)
(* order transactions are applied and however often a user tries again after  *)
(* a time-out (priestate.compact:63-76, priestate-api.ts:99-112).             *)
THEOREM EachSubmissionHasItsRecordAlways == Spec => []EachSubmissionHasItsRecord
<1>1. AInv => EachSubmissionHasItsRecord
  BY DEF AInv, Relations
<1> QED
  BY AInvInit, AInvStep, <1>1, PTL DEF Spec

(* One review decides a registration, of however many are sent                *)
(* (priestate.compact:84, 102).                                               *)
THEOREM VerdictIsTheOneReviewAlways == Spec => []VerdictIsTheOneReview
<1>1. AInv => VerdictIsTheOneReview
  BY DEF AInv, Relations
<1> QED
  BY AInvInit, AInvStep, <1>1, PTL DEF Spec
===============================================================================
