--------------------------- MODULE PropertyLifecycle ---------------------------
(***************************************************************************)
(* What the contract promises of a property registration: it is appended   *)
(* to the book as pending, with the applicant it is bound to, and the      *)
(* designated officer decides it at most once. Nothing else ever changes.  *)
(***************************************************************************)
EXTENDS Naturals, Sequences

CONSTANTS
    Owners,         \* public keys registrations are bound to
    Applications    \* area, district and time of a submission

VARIABLE book       \* the registrations, in order of their id

Verdicts == {"APPROVED", "REJECTED"}

LifecycleInit == book = <<>>

File(o, a) ==
    book' = Append(book, [owner |-> o, application |-> a, status |-> "PENDING"])

Decide(i, verdict) ==
    /\ book[i].status = "PENDING"
    /\ book' = [book EXCEPT ![i].status = verdict]

LifecycleNext ==
    \/ \E o \in Owners, a \in Applications : File(o, a)
    \/ \E i \in DOMAIN book, verdict \in Verdicts : Decide(i, verdict)

LifecycleSpec == LifecycleInit /\ [][LifecycleNext]_book
===============================================================================
