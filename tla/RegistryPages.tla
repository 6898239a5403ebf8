----------------------------- MODULE RegistryPages -----------------------------
(***************************************************************************)
(* The pages of the on-chain registry and the wallet under them:           *)
(* hooks/useWallet.ts, browser-manager.ts, the ledger effect of            *)
(* hooks/usePriestateRegistrations.ts (OfficerPage.tsx has the same), and  *)
(* the submission of pages/RegistrationReviewPage.tsx.                     *)
(*                                                                         *)
(* The manager joins the contract with the providers of the connected      *)
(* wallet and keeps every join it has begun; resolve() hands out one that  *)
(* is deployed and begins another otherwise. The wallet object is new at   *)
(* every render and a join that begins or settles renders, so the effect   *)
(* of an open page runs again, and begins joins until one is deployed.     *)
(* Joins, wallet prompts and transactions have no time-out. A page behind  *)
(* a guard is there while the wallet is connected; what it started goes on *)
(* without it. What a join does on chain is in PriestateApi.               *)
(***************************************************************************)
EXTENDS Naturals, Sequences, SequencesExt

CONSTANTS
    Accounts,       \* accounts the wallet may answer with
    MaxPolls,       \* looks at window.midnight before detection gives up
    MaxJoins,       \* bound: joins begun
    Nobody          \* no account

ASSUME RegistryPagesAssumption == Nobody \notin Accounts /\ MaxPolls \in Nat \ {0} /\ MaxJoins \in Nat

VARIABLES
    link,           \* useWallet: walletState, address, and the looks taken; a
                    \* connecting wallet that has answered still has to say its address
    manager,        \* BrowserPriestateManager: connection, providers, tracked joins
    joins,          \* every join begun: by whom, and how it stands
    ledger,         \* the ledger page: open, an effect is due, the join followed, api
    review          \* the review page: open, step, the join awaited, by whom, on chain

registryVars == <<link, manager, joins, ledger, review>>

Maybe(accounts) == accounts \cup {Nobody}

Join == [by : Maybe(Accounts), status : {"in-progress", "deployed", "failed"}]

ClosedLedger == [open |-> FALSE, due |-> FALSE, follows |-> 0, api |-> Nobody]

ClosedReview == [open |-> FALSE, step |-> "review", follows |-> 0, by |-> Nobody, onChain |-> FALSE]

RegistryTypeOK ==
    /\ link \in [state : {"detecting", "no-wallet", "ready", "connecting", "answered", "connected"},
                 account : Maybe(Accounts), polls : 0..(MaxPolls - 1)]
    /\ manager.connection \in Maybe(Accounts) /\ manager.providers \in Maybe(Accounts)
    /\ \A i \in DOMAIN manager.tracked : manager.tracked[i] \in 1..MaxJoins
    /\ Len(joins) <= MaxJoins /\ \A i \in DOMAIN joins : joins[i] \in Join
    /\ ledger \in [open : BOOLEAN, due : BOOLEAN, follows : 0..MaxJoins, api : Maybe(Accounts)]
    /\ review \in [open : BOOLEAN, step : {"review", "submitting", "submitted"},
                   follows : 0..MaxJoins, by : Maybe(Accounts), onChain : BOOLEAN]

RegistryInit ==
    /\ link = [state |-> "detecting", account |-> Nobody, polls |-> 0]
    /\ manager = [connection |-> Nobody, providers |-> Nobody, tracked |-> <<>>]
    /\ joins = <<>> /\ ledger = ClosedLedger /\ review = ClosedReview

-------------------------------------------------------------------------------
(* useWallet.                                                                *)

\* The first look, at once or every 100 ms, that finds a wallet ends the detection.
WalletFound ==
    /\ link.state = "detecting"
    /\ link' = [link EXCEPT !.state = "ready"]
    /\ UNCHANGED <<manager, joins, ledger, review>>

\* Mutant: the look that is one too many is still taken.
LooksAgainLate(polls) == polls <= MaxPolls

LooksAgain(polls) == polls < MaxPolls

NoWalletFound ==
    /\ link.state = "detecting"
    /\ link' = IF LooksAgain(link.polls + 1) THEN [link EXCEPT !.polls = @ + 1]
                                             ELSE [link EXCEPT !.state = "no-wallet"]
    /\ UNCHANGED <<manager, joins, ledger, review>>

Redetect ==
    /\ link.state = "no-wallet"
    /\ link' = [link EXCEPT !.state = "detecting", !.polls = 0]
    /\ UNCHANGED <<manager, joins, ledger, review>>

ConnectPressed ==
    /\ link.state = "ready"
    /\ link' = [link EXCEPT !.state = "connecting"]
    /\ UNCHANGED <<manager, joins, ledger, review>>

\* connect() of the wallet answers: setConnectedAPI() drops the providers.
WalletAnswers(a) ==
    /\ link.state = "connecting"
    /\ link' = [link EXCEPT !.state = "answered"]
    /\ manager' = [manager EXCEPT !.connection = a, !.providers = Nobody]
    /\ UNCHANGED <<joins, ledger, review>>

\* The address arrives, and guarded pages are shown.
AddressKnown ==
    /\ link.state = "answered"
    /\ link' = [link EXCEPT !.state = "connected", !.account = manager.connection]
    /\ UNCHANGED <<manager, joins, ledger, review>>

\* The wallet or its address is refused. What setConnectedAPI() kept stays.
ConnectFails ==
    /\ link.state \in {"connecting", "answered"}
    /\ link' = [link EXCEPT !.state = "ready"]
    /\ UNCHANGED <<manager, joins, ledger, review>>

\* The guards take the pages away.
Disconnect ==
    /\ link.state = "connected"
    /\ link' = [link EXCEPT !.state = "ready", !.account = Nobody]
    /\ manager' = [connection |-> Nobody, providers |-> Nobody, tracked |-> <<>>]
    /\ ledger' = ClosedLedger
    /\ review' = [review EXCEPT !.open = FALSE]
    /\ UNCHANGED joins

-------------------------------------------------------------------------------
(* The manager.                                                              *)

\* The places of the tracked joins that are deployed.
Deployed == {n \in DOMAIN manager.tracked : joins[manager.tracked[n]].status = "deployed"}

\* getProviders()
Provided == IF manager.providers = Nobody THEN manager.connection ELSE manager.providers

\* resolve(): the first join that is deployed, or a new one, which is number i.
Resolves(i) ==
    IF Deployed # {}
    THEN i = manager.tracked[Min(Deployed)] /\ UNCHANGED <<manager, joins>>
    ELSE /\ Len(joins) < MaxJoins
         /\ i = Len(joins) + 1
         /\ joins' = Append(joins, [by |-> Provided, status |-> "in-progress"])
         /\ manager' = [manager EXCEPT !.providers = Provided, !.tracked = Append(@, i)]

\* setDeployments() renders the open page, whose effect is due again.
Rendered(l, i) == IF l.open /\ Contains(manager'.tracked, i) THEN [l EXCEPT !.due = TRUE] ELSE l

\* run() ends: the join is told to the page that follows it and to the submission
\* that waits for it.
JoinSettles(i, status) ==
    /\ joins[i].status = "in-progress"
    /\ joins' = [joins EXCEPT ![i].status = status]
    /\ UNCHANGED <<link, manager>>
    /\ ledger' = Rendered(IF ledger.follows = i /\ status = "deployed"
                          THEN [ledger EXCEPT !.api = joins[i].by] ELSE ledger, i)
    /\ review' = IF review.step # "submitting" \/ review.follows # i \/ review.by # Nobody THEN review
                 ELSE IF status = "deployed" THEN [review EXCEPT !.by = joins[i].by]
                 ELSE [review EXCEPT !.step = "review", !.follows = 0]

-------------------------------------------------------------------------------
(* The pages.                                                                *)

LedgerOpens ==
    /\ link.state = "connected" /\ ~ledger.open
    /\ ledger' = [ClosedLedger EXCEPT !.open = TRUE, !.due = TRUE]
    /\ UNCHANGED <<link, manager, joins, review>>

LedgerCloses ==
    /\ ledger.open
    /\ ledger' = ClosedLedger
    /\ UNCHANGED <<link, manager, joins, review>>

\* The effect unsubscribes from the join it followed and resolves again.
LedgerEffect ==
    /\ ledger.due
    /\ \E i \in 1..MaxJoins :
         /\ Resolves(i)
         /\ ledger' = [ledger EXCEPT !.follows = i, !.due = joins' # joins,
                           !.api = IF joins'[i].status = "deployed" THEN joins[i].by ELSE @]
    /\ UNCHANGED <<link, review>>

\* resolveApi() hears nothing of a join that was deployed before it subscribed:
\* the BehaviorSubject emits while `const sub` has no value, and the handler
\* throws. The submission waits for good.
Unheard ==
    /\ review.step = "submitting" /\ review.by = Nobody
    /\ joins[review.follows].status = "deployed"

\* One submission is followed at a time: a page that was left while it submits
\* is not opened again before that ends.
ReviewOpens ==
    /\ link.state = "connected" /\ ~review.open
    /\ review.step # "submitting" \/ Unheard
    /\ review' = [ClosedReview EXCEPT !.open = TRUE]
    /\ UNCHANGED <<link, manager, joins, ledger>>

ReviewLeft ==
    /\ review.open
    /\ review' = [review EXCEPT !.open = FALSE]
    /\ UNCHANGED <<link, manager, joins, ledger>>

\* handleSubmit: the step disables the button. Only a join begun now is heard of.
SubmitPressed ==
    /\ review.open /\ review.step = "review"
    /\ \E i \in 1..MaxJoins :
         /\ Resolves(i)
         /\ review' = [review EXCEPT !.step = "submitting", !.follows = i]
         /\ ledger' = IF joins' = joins THEN ledger ELSE Rendered(ledger, i)
    /\ UNCHANGED link

\* The transaction reaches the ledger, or not, before the call returns. What
\* follows a submission that returned, the metadata, changes nothing it shows.
Recorded ==
    /\ review.step = "submitting" /\ review.by # Nobody /\ ~review.onChain
    /\ review' = [review EXCEPT !.onChain = TRUE]
    /\ UNCHANGED <<link, manager, joins, ledger>>

SubmissionReturns ==
    /\ review.step = "submitting" /\ review.onChain
    /\ review' = [review EXCEPT !.step = "submitted"]
    /\ UNCHANGED <<link, manager, joins, ledger>>

SubmissionFails ==
    /\ review.step = "submitting" /\ review.by # Nobody
    /\ review' = [review EXCEPT !.step = "review", !.follows = 0, !.by = Nobody, !.onChain = FALSE]
    /\ UNCHANGED <<link, manager, joins, ledger>>

RegistryNext ==
    \/ WalletFound \/ NoWalletFound \/ Redetect \/ ConnectPressed
    \/ AddressKnown \/ ConnectFails \/ Disconnect
    \/ LedgerOpens \/ LedgerCloses \/ LedgerEffect
    \/ ReviewOpens \/ ReviewLeft \/ SubmitPressed \/ Recorded \/ SubmissionReturns \/ SubmissionFails
    \/ \E a \in Accounts : WalletAnswers(a)
    \/ \E i \in 1..Len(joins), status \in {"deployed", "failed"} : JoinSettles(i, status)

\* Only the timer of the detection is sure to go on.
DetectionProceeds == WalletFound \/ NoWalletFound

-------------------------------------------------------------------------------

\* Whoever connects, a ledger page and a submission act for the account that is
\* connected, never through a join that an earlier connection began; and the page
\* says "submitted" only of a submission the ledger has.
PagesActForTheConnected ==
    /\ ledger.api # Nobody => link.state = "connected" /\ ledger.api = link.account
    /\ review.open /\ review.by # Nobody => review.by = link.account
    /\ review.step = "submitted" => review.onChain

\* The detection waits for a wallet, or for the last look.
RegistryWaits == <<link.state = "detecting">>
===============================================================================
