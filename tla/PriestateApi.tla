----------------------------- MODULE PriestateApi -----------------------------
(***************************************************************************)
(* src/priestate-api.ts over the contract: browsers whose calls become     *)
(* transactions.                                                           *)
(*                                                                         *)
(* A call starts a transaction and waits. The property value goes through  *)
(* a holder of the browser's witness module that the circuit reads when it *)
(* is run for the proof; the secrets come from the build's configuration,  *)
(* so that their holders always hold the same value, and a call carries    *)
(* its secret here. The network applies the transaction or drops it,       *)
(* whether or not the browser still waits. submitRegistration and          *)
(* checkEligibility then take the first ledger state the indexer emits and *)
(* give up after a minute; approve and reject return when the transaction  *)
(* is final. A page makes one call at a time, so a browser that waits      *)
(* starts nothing else; after an error or a time-out the user may try      *)
(* again.                                                                  *)
(***************************************************************************)
EXTENDS PriestateContract

CONSTANTS
    Browsers,
    Txs,            \* bound: the transactions the model follows
    None

VARIABLES
    tx,             \* tx[t]: the call transaction t carries, or None
    holder,         \* holder[b]: _propertyValue in b's witness module
    input,          \* input[t]: the value the circuit of t was run with, or None
    fate,           \* fate[t]: pending, applied or dropped
    result,         \* result[t]: what applying t assigned or computed, or None
    waits,          \* waits[b]: the transaction b waits for, or None
    told            \* told[t]: what the caller of t was told, or None

vars == <<ledger, tx, holder, input, fate, result, waits, told>>

Call == [op : {"submit"}, secret : Secrets, application : Applications]
    \cup [op : {"approve", "reject"}, secret : Secrets, id : Ids]
    \cup [op : {"check"}, by : Browsers, value : Values]

\* What a call is answered with: an id or a verdict.
Outcome == [id : Ids] \cup [eligible : BOOLEAN]

ASSUME ApiAssumption ==
    /\ None \notin Call
    /\ None \notin Values
    /\ None \notin Txs

TypeOK ==
    /\ ContractTypeOK
    /\ tx \in [Txs -> Call \cup {None}]
    /\ holder \in [Browsers -> Values \cup {0}]
    /\ input \in [Txs -> Values \cup {None}]
    /\ fate \in [Txs -> {"pending", "applied", "dropped"}]
    /\ result \in [Txs -> Outcome \cup {None}]
    /\ waits \in [Browsers -> Txs \cup {None}]
    /\ told \in [Txs -> Outcome \cup {None}]

Init ==
    /\ ContractInit
    /\ tx = [t \in Txs |-> None]
    /\ holder = [b \in Browsers |-> 0]
    /\ input = [t \in Txs |-> None]
    /\ fate = [t \in Txs |-> "pending"]
    /\ result = [t \in Txs |-> None]
    /\ waits = [b \in Browsers |-> None]
    /\ told = [t \in Txs |-> None]

-------------------------------------------------------------------------------
\* The officer page lists what the indexer has shown it: ids that exist.
Callable(call) == call.op \in {"approve", "reject"} => call.id \in DOMAIN registrations

Start(b, t, call) ==
    /\ waits[b] = None
    /\ tx[t] = None
    /\ Callable(call)
    /\ IF call.op = "check"
       THEN call.by = b /\ holder' = [holder EXCEPT ![b] = call.value]
       ELSE UNCHANGED holder
    /\ tx' = [tx EXCEPT ![t] = call]
    /\ waits' = [waits EXCEPT ![b] = t]
    /\ UNCHANGED <<ledger, input, fate, result, told>>

Pending(t) == tx[t] # None /\ fate[t] = "pending"

\* The wallet's proof of a check reads the witness.
Prove(t) ==
    /\ Pending(t) /\ tx[t].op = "check" /\ input[t] = None
    /\ input' = [input EXCEPT ![t] = holder[tx[t].by]]
    /\ UNCHANGED <<ledger, tx, holder, fate, result, waits, told>>

Applied(t, value) ==
    /\ fate' = [fate EXCEPT ![t] = "applied"]
    /\ result' = [result EXCEPT ![t] = value]
    /\ UNCHANGED <<tx, holder, input, waits, told>>

ApplySubmit(t) ==
    /\ Pending(t) /\ tx[t].op = "submit"
    /\ SubmitRegistration(tx[t].secret, tx[t].application)
    /\ Applied(t, [id |-> registrationCounter])

ApplyReview(t) ==
    /\ Pending(t)
    /\ \/ tx[t].op = "approve" /\ ApproveRegistration(tx[t].secret, tx[t].id)
       \/ tx[t].op = "reject" /\ RejectRegistration(tx[t].secret, tx[t].id)
    /\ Applied(t, [id |-> tx[t].id])

ApplyCheck(t) ==
    /\ Pending(t) /\ tx[t].op = "check"
    /\ input[t] # None
    /\ CheckEligibility(input[t])
    /\ Applied(t, [eligible |-> Eligible(input[t])])

\* An assert fails, the wallet refuses, the network loses it.
Drop(t) ==
    /\ Pending(t)
    /\ fate' = [fate EXCEPT ![t] = "dropped"]
    /\ UNCHANGED <<ledger, tx, holder, input, result, waits, told>>

StopWaiting(b) == waits' = [waits EXCEPT ![b] = None]

\* firstRegistrationIdAfterTx and firstResultAfterTx: the ledger state emitted
\* once the transaction is final, which is not older than it but may be newer.
AnswerTo(call) ==
    CASE call.op = "submit" -> [id |-> registrationCounter - 1]
      [] call.op = "check" -> [eligible |-> eligibilityResult]
      [] OTHER -> [id |-> call.id]

Answer(b, t) ==
    /\ waits[b] = t
    /\ fate[t] = "applied"
    /\ told' = [told EXCEPT ![t] = AnswerTo(tx[t])]
    /\ StopWaiting(b)
    /\ UNCHANGED <<ledger, tx, holder, input, fate, result>>

Fails(b, t) ==
    /\ waits[b] = t
    /\ fate[t] = "dropped"
    /\ StopWaiting(b)
    /\ UNCHANGED <<ledger, tx, holder, input, fate, result, told>>

\* The minute is over; the transaction may still be applied.
TimesOut(b, t) ==
    /\ waits[b] = t
    /\ tx[t].op \in {"submit", "check"}
    /\ StopWaiting(b)
    /\ UNCHANGED <<ledger, tx, holder, input, fate, result, told>>

Next ==
    \/ \E b \in Browsers, t \in Txs :
         \/ \E call \in Call : Start(b, t, call)
         \/ Answer(b, t) \/ Fails(b, t) \/ TimesOut(b, t)
    \/ \E t \in Txs : Prove(t) \/ ApplySubmit(t) \/ ApplyReview(t) \/ ApplyCheck(t) \/ Drop(t)

Spec == Init /\ [][Next]_vars

-------------------------------------------------------------------------------
(* Properties.                                                               *)

\* Each submission that was applied has a record of its own, bound to its caller
\* and with its own application, and every record is the work of one
\* submission: none is overwritten, shared, invented or lost, however
\* submissions, retries after a time-out and reviews interleave
\* (priestate.compact:63-112).
Submissions == {t \in Txs : tx[t] # None /\ fate[t] = "applied" /\ tx[t].op = "submit"}

EachSubmissionHasItsRecord ==
    /\ \A t \in Submissions :
         /\ result[t].id \in DOMAIN registrations
         /\ registrations[result[t].id].owner = DeriveDappKey(tx[t].secret)
         /\ registrations[result[t].id].application = tx[t].application
    /\ \A id \in DOMAIN registrations : \E t \in Submissions : result[t].id = id
    /\ \A t, u \in Submissions : result[t] = result[u] => t = u

\* Of the reviews two officer pages send for one registration at most one is
\* applied, and the record shows that one's verdict (priestate.compact:84, 102).
Reviews(id) == {t \in Txs : tx[t] # None /\ fate[t] = "applied"
                               /\ tx[t].op \in {"approve", "reject"} /\ tx[t].id = id}

DecidedByOneReview(id) ==
    /\ \A t, u \in Reviews(id) : t = u
    /\ \A t \in Reviews(id) :
         registrations[id].status = IF tx[t].op = "approve" THEN "APPROVED" ELSE "REJECTED"
    /\ Reviews(id) = {} => registrations[id].status = "PENDING"

VerdictIsTheOneReview == \A id \in DOMAIN registrations : DecidedByOneReview(id)

-------------------------------------------------------------------------------
(* Claims of the repository's texts, each checked by a run of its own.       *)

\* src/priestate-api.ts:216-219: the id an applicant is told is the one assigned
\* to the registration just submitted.
ToldIdIsOwn == \A t \in Submissions : told[t] \in {None, result[t]}

\* src/priestate-api.ts:68-75: a check is answered with whether the value it was
\* given meets the threshold.
Checks == {t \in Txs : tx[t] # None /\ fate[t] = "applied" /\ tx[t].op = "check"}

ToldVerdictIsOwn ==
    \A t \in Checks : told[t] \in {None, [eligible |-> Eligible(tx[t].value)]}
===============================================================================
