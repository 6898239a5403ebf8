---------------------------- MODULE EligibilityPage ----------------------------
(***************************************************************************)
(* pages/VerifyPage.tsx: one visit, with a wallet that stays connected     *)
(* once it is, over a contract whose address is fixed. The manager's joins *)
(* come down to whether a deployed one is tracked; other pages begin joins *)
(* as well (RegistryPages.tla has them).                                   *)
(*                                                                         *)
(* runVerification() waits for its join by `const sub = ...subscribe()`    *)
(* whose handler calls sub.unsubscribe() before it resolves. A join is a   *)
(* BehaviorSubject: one that is deployed already emits inside subscribe(), *)
(* where sub has no value yet, and what the handler throws then does not   *)
(* reach the promise. A join that is deployed later does resolve it, and   *)
(* then the list the code looks the contract up in is that of the render   *)
(* the button was pressed in.                                              *)
(***************************************************************************)
EXTENDS Naturals

CONSTANT Unverified     \* no verdict

VARIABLES
    wallet,         \* walletState, from the time a wallet has been found
    deployed,       \* the manager tracks a deployed join
    verify,         \* the page: verStep, verificationResult, what runVerification
                    \* awaits, and whether a deployed join is in its render's list
    kept            \* what sessionStorage has for the property

eligibilityVars == <<wallet, deployed, verify, kept>>

Verdicts == BOOLEAN \cup {Unverified}

EligibilityTypeOK ==
    /\ wallet \in {"ready", "connecting", "connected"}
    /\ deployed \in BOOLEAN
    /\ verify \in [step : {"wallet-required", "wallet-connecting", "wallet-connected", "preparing",
                           "generating-proof", "submitting", "verified", "error"},
                   verdict : Verdicts, awaits : {"nothing", "join", "transaction", "ledger"},
                   listed : BOOLEAN]
    /\ kept \in Verdicts

EligibilityInit ==
    /\ wallet = "ready" /\ deployed = FALSE /\ kept = Unverified
    /\ verify = [step |-> "wallet-required", verdict |-> Unverified, awaits |-> "nothing",
                 listed |-> FALSE]

Fails == [verify EXCEPT !.step = "error", !.awaits = "nothing"]

-------------------------------------------------------------------------------

\* The effect on walletState sets the step.
WalletPrompted ==
    /\ wallet = "ready" /\ wallet' = "connecting"
    /\ verify' = [verify EXCEPT !.step = "wallet-connecting"]
    /\ UNCHANGED <<deployed, kept>>

WalletConnects ==
    /\ wallet = "connecting" /\ wallet' = "connected"
    /\ verify' = [verify EXCEPT !.step = "wallet-connected"]
    /\ UNCHANGED <<deployed, kept>>

WalletRefuses ==
    /\ wallet = "connecting" /\ wallet' = "ready"
    /\ verify' = [verify EXCEPT !.step = "wallet-required"]
    /\ UNCHANGED <<deployed, kept>>

\* A join another page began is deployed.
JoinedElsewhere ==
    /\ wallet = "connected" /\ deployed' = TRUE
    /\ UNCHANGED <<wallet, verify, kept>>

\* Begin Verification, or Try Verification Again. Of a join that is deployed
\* nothing is heard; one that is begun is awaited.
VerifyPressed ==
    /\ wallet = "connected" /\ verify.step \in {"wallet-connected", "error"}
    /\ verify' = [step |-> "preparing", verdict |-> Unverified, listed |-> deployed,
                  awaits |-> IF deployed THEN "nothing" ELSE "join"]
    /\ UNCHANGED <<wallet, deployed, kept>>

JoinDeployed ==
    /\ verify.awaits = "join" /\ deployed' = TRUE
    /\ verify' = IF verify.listed
                 THEN [verify EXCEPT !.step = "generating-proof", !.awaits = "transaction"]
                 ELSE Fails
    /\ UNCHANGED <<wallet, kept>>

\* checkEligibility() of the contract: the transaction is final, then the ledger read.
TransactionFinal ==
    /\ verify.awaits = "transaction"
    /\ verify' = [verify EXCEPT !.step = "submitting", !.awaits = "ledger"]
    /\ UNCHANGED <<wallet, deployed, kept>>

VerdictRead(verdict) ==
    /\ verify.awaits = "ledger"
    /\ kept' = verdict
    /\ verify' = [verify EXCEPT !.step = "verified", !.verdict = verdict, !.awaits = "nothing"]
    /\ UNCHANGED <<wallet, deployed>>

VerificationFails ==
    /\ verify.awaits # "nothing" /\ verify' = Fails
    /\ UNCHANGED <<wallet, deployed, kept>>

EligibilityNext ==
    \/ WalletPrompted \/ WalletConnects \/ WalletRefuses \/ JoinedElsewhere
    \/ VerifyPressed \/ JoinDeployed \/ TransactionFinal \/ VerificationFails
    \/ \E verdict \in BOOLEAN : VerdictRead(verdict)

\* The person connects and presses what can be pressed, and what is tried again
\* and again succeeds at last.
EligibilityFairness ==
    /\ WF_eligibilityVars(WalletPrompted) /\ SF_eligibilityVars(WalletConnects)
    /\ WF_eligibilityVars(VerifyPressed) /\ SF_eligibilityVars(JoinDeployed)
    /\ SF_eligibilityVars(TransactionFinal)
    /\ SF_eligibilityVars(\E verdict \in BOOLEAN : VerdictRead(verdict))

-------------------------------------------------------------------------------

\* The verification comes to a verdict of the ledger, and the result page has it
\* (VerifyPage.tsx:32-93, ResultPage.tsx:28).
VerdictReached == verify.step = "verified" /\ kept = verify.verdict
===============================================================================
