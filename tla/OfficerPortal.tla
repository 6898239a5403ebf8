----------------------------- MODULE OfficerPortal -----------------------------
(***************************************************************************)
(* pages/OfficerPage.tsx: the officer reads the registrations from the     *)
(* ledger and decides on them. A verdict is a transaction with no          *)
(* time-out, which the contract takes for a pending registration only. The *)
(* page knows the ledger from what it was told last, and can be left and   *)
(* opened again while a verdict is under way. Who may see it is in         *)
(* OfficerSignIn, the transaction in PriestateApi.                         *)
(***************************************************************************)
EXTENDS Naturals, FiniteSets

CONSTANTS
    Registrations,     \* registrations on the ledger
    MaxVerdicts,       \* bound: verdicts under way at a time
    NoRegistration

VARIABLES
    register,          \* the ledger: registration -> status
    portal,            \* the page: open, what it knows, selected, busy, result
    verdicts           \* verdicts under way: whether on the ledger, and still of the page

officerPortalVars == <<register, portal, verdicts>>

Statuses == {"PENDING", "APPROVED", "REJECTED"}

ClosedPortal == [open |-> FALSE, known |-> [r \in Registrations |-> "PENDING"],
                 selected |-> NoRegistration, busy |-> FALSE, result |-> <<>>]

-------------------------------------------------------------------------------
\* The page joins the contract and is told the ledger as it is then and later.
PortalOpens ==
    /\ ~portal.open
    /\ portal' = [ClosedPortal EXCEPT !.open = TRUE, !.known = register]
    /\ UNCHANGED <<register, verdicts>>

LedgerTold ==
    /\ portal.open /\ portal.known # register
    /\ portal' = [portal EXCEPT !.known = register]
    /\ UNCHANGED <<register, verdicts>>

\* Left, or taken away by the guard: its verdicts go on.
PortalLeft ==
    /\ portal.open
    /\ portal' = ClosedPortal
    /\ verdicts' = {[v EXCEPT !.shown = FALSE] : v \in verdicts}
    /\ UNCHANGED register

\* Review, or Back: allowed while a verdict is submitted.
Select(r) ==
    /\ portal.open /\ (portal.selected = NoRegistration) # (r = NoRegistration)
    /\ portal' = [portal EXCEPT !.selected = r]
    /\ UNCHANGED <<register, verdicts>>

\* performAction: on the selected registration, shown pending, one at a time.
VerdictPressed(status) ==
    /\ portal.open /\ ~portal.busy /\ Cardinality(verdicts) < MaxVerdicts
    /\ portal.selected # NoRegistration /\ portal.known[portal.selected] = "PENDING"
    /\ portal' = [portal EXCEPT !.busy = TRUE, !.result = <<>>]
    /\ verdicts' = verdicts \cup
           {[of |-> portal.selected, status |-> status, onLedger |-> FALSE, shown |-> TRUE]}
    /\ UNCHANGED register

\* The circuit asserts that the registration is pending.
VerdictLands(v) ==
    /\ v \in verdicts /\ ~v.onLedger
    /\ register[v.of] = "PENDING"
    /\ register' = [register EXCEPT ![v.of] = v.status]
    /\ verdicts' = (verdicts \ {v}) \cup {[v EXCEPT !.onLedger = TRUE]}
    /\ UNCHANGED portal

\* The call returns: the page says so, and drops whatever is selected by then.
VerdictReturns(v) ==
    /\ v \in verdicts /\ v.onLedger
    /\ verdicts' = verdicts \ {v}
    /\ portal' = IF v.shown THEN [portal EXCEPT !.busy = FALSE, !.result = <<v.of, v.status>>,
                                                !.selected = NoRegistration]
                 ELSE portal
    /\ UNCHANGED register

\* Refused by the circuit or the wallet, or the answer is lost.
VerdictFails(v) ==
    /\ v \in verdicts
    /\ verdicts' = verdicts \ {v}
    /\ portal' = IF v.shown THEN [portal EXCEPT !.busy = FALSE] ELSE portal
    /\ UNCHANGED register

-------------------------------------------------------------------------------

OfficerPortalInit ==
    /\ register = [r \in Registrations |-> "PENDING"]
    /\ portal = ClosedPortal
    /\ verdicts = {}

OfficerPortalNext ==
    \/ PortalOpens \/ LedgerTold \/ PortalLeft
    \/ \E r \in Registrations \cup {NoRegistration} : Select(r)
    \/ \E status \in Statuses \ {"PENDING"} : VerdictPressed(status)
    \/ \E v \in verdicts : VerdictLands(v) \/ VerdictReturns(v) \/ VerdictFails(v)

-------------------------------------------------------------------------------

OfficerPortalTypeOK ==
    /\ register \in [Registrations -> Statuses]
    /\ portal.selected \in Registrations \cup {NoRegistration}
    /\ portal.known \in [Registrations -> Statuses]
    /\ verdicts \subseteq [of : Registrations, status : Statuses, onLedger : BOOLEAN, shown : BOOLEAN]

\* The verdict the page reports is the one on the ledger, also when an earlier visit
\* of the page has left another under way for the same registration, and every status
\* it lists as final is the ledger's; it offers a new verdict exactly when none of its
\* own is under way (OfficerPage.tsx 60-128, 266-289).
PortalShowsLedger ==
    /\ portal.result # <<>> => register[portal.result[1]] = portal.result[2]
    /\ \A r \in Registrations : portal.known[r] # "PENDING" => portal.known[r] = register[r]
    /\ portal.busy <=> \E v \in verdicts : v.shown
===============================================================================
