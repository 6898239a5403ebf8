# Verification of Priestate

TLA+ modules, TLC configurations and TLAPS proofs about Priestate: a server for
citizen accounts and registration, a Compact contract that keeps property
registrations on the Midnight ledger, a browser client between the two, and the
scripts that deploy the contract. Paths are those of the repository under `src/`;
`service.ts` without a directory is `server/registration/service.ts`.

To check: `tlc -config X.cfg MCModule` for a row of the table of runs, and
`tlapm X_proofs.tla` for a module of proofs.

## 1. Inventory

The server is one Node process: a handler runs undisturbed up to its next
`await`, so all its interleavings are at awaits. SQLite holds accounts, login
sessions, registration and recovery sessions and officer accounts. One-time
codes, liveness runs, biometric tokens, provider and Google challenges, rate
limits and registry metadata are in memory and are lost at a restart. Nothing
calls the sweeps: there is no timer in `server/`, so expiry is noticed when an
entry is next looked at. The browser is single-threaded as well, but a page
sends calls while others are under way, is left and opened again, and goes on
after an await with the values of the render it began in. Browsers meet each
other on the ledger only.

| component | state | operations | hard because | correct when |
|---|---|---|---|---|
| one-time codes, `server/lib/otp-service.ts` | code and attempts per key; send history per key | issue, beginIssue, commitIssue, verify, sweep | two-phase issue around the delivery; windows; expiry | cooldown and budget hold for concurrent requests; a code is single-use, capped, fresh, and delivered |
| liveness, `server/registration/liveness.ts` | per binding key a list of challenges, next ordinal, expiry | start, evidence, clear, sweep | replacement of a run, repeated and late evidence, loss at a restart | a pass was earned in one run, in order, in time |
| registration session, `service.ts`, `session-store.ts` | a row of gates and an encrypted profile | some fifteen handlers, eight of them with an await | lost updates, stale reads, late answers after expiry, finalizing twice | accounts rest on evidence for their own details; nothing is undone or revived |
| property contract, `contracts/priestate.compact` | counter, map of records, one eligibility result | four circuits | transactions of many parties in any order | ids are dense, only the officer decides, and once |
| contract client, `src/priestate-api.ts`, `src/contract/witnesses.ts` | witness holders, what a page waits for | checkEligibility, submitRegistration, approve, reject | ledger read after the transaction; a time-out while it is on its way | a caller is told the outcome of its own call |
| accounts, `server/account/service.ts`, `biometric.ts`, `session.ts` | accounts, face tokens, login sessions | register, finalize, login, associate a wallet, enrol, match, revoke, evidence | uniqueness, single use, revocation | a wallet has one account; a verified identity has a live reference |
| password recovery, `server/registration/forgot-password.ts` | a row of gates per wallet | begin, three checks, reset | a begin replaces the row while a mail is under way; sessions of the old password | a reset needs the gates of its own row and ends the old sessions |
| officer accounts, `server/account/officer.ts`, `server/lib/rate-limiter.ts` | one officer, its sessions, stamps per address | register, login, logout, take, sweep | windows at the limit | a secret is compared at most five times an hour per address |
| Google verification, `server/account/google-provider.ts` | challenges by state | begin, redirect, complete | three awaits between read and write | one completion per challenge, for a wallet that proved it |
| KYC provider, `server/services/identity-provider.ts` | challenges, attempts | start, submit | overlapping submissions around the vendor's answer | submissions are bounded, a receipt is the vendor's |
| registry metadata, `server/registry/`, `src/registry-client.ts` | drafts, records by id of the chain | hand over, submit, intake, catalogue | written after the chain has answered, page left meanwhile | a record is of what is on the ledger under its id |
| HTTP layer, `server/index.ts` | requests being served | routes | bodies that break off, providers that do not answer | every request ends |
| browser: liveness and face panels | phase, index, calls under way | start, frames, retry | overlapping frames, late answers, effects that run during an await | a panel shows what the server has |
| browser: login, registration and contact pages | step, snapshot, calls under way, stored profile | buttons, reload, wallets that change | lost, late and overtaking answers | shown is what the server confirmed; no wait lasts |
| browser: wallet link, registry pages, property form | link, joins, form, documents | connect, join, submit, upload | joins of earlier connections; callbacks of earlier renders | a page acts for the connected account; typing survives |
| browser: eligibility pages | step, verdict, record in sessionStorage | verify | joins that are deployed already or during the run | a verification comes to the verdict of the ledger |
| browser: officer pages | authorization, portal, verdicts under way | sign in, decide | answers of older calls | the portal is the officer's; a verdict shown is on the ledger |
| scripts, `src/deploy.ts`, `network.ts`, `check-balance.ts` | two files kept between runs | setup, deploy, network | interrupted anywhere, other network, other seed | no seed lost, a recorded deployment is one |
| validators, parsers, geometry, rendering, build | none that others rely on | | | |

They interact as follows. The HTTP layer calls one service method per request.
Registration and recovery hold a one-time-code service and the liveness service
and finish in the account service. Pages call the HTTP layer and, independently
of it, the contract client; the registry is written by the page after the chain
has answered. The scripts deploy the contract the pages join. `PROJECT.json`
lists the hazards of this code one by one, with the properties that cover each.

## 2. Modules

| module | models | kind |
|---|---|---|
| `OneTimeCode` | what a client may assume of a one-time-code service | abstract |
| `OtpService` | `otp-service.ts` and the two ways of its clients to issue | implements `OneTimeCode` |
| `LivenessGate` | what a client may assume of the liveness service | abstract |
| `Liveness` | `liveness.ts` | implements `LivenessGate` |
| `RegistrationSession` | `service.ts` over `session-store.ts` | composes the two abstract modules |
| `PropertyLifecycle` | what the contract promises of a registration | abstract |
| `PriestateContract` | `priestate.compact` | implements `PropertyLifecycle` |
| `PriestateApi` | `priestate-api.ts` and the witness holders, several browsers | extends `PriestateContract` |
| `Accounts` | accounts, login sessions, the book of face tokens | |
| `PasswordRecovery` | `forgot-password.ts` | extends `Accounts`, uses `OneTimeCode`, `LivenessGate` |
| `RateLimiter`, `OfficerDesk` | `rate-limiter.ts`; `officer.ts` behind it | the second extends the first |
| `GoogleChallenge`, `KycChallenge` | `google-provider.ts`; the code flow of `identity-provider.ts` | |
| `HttpServer` | what `handle()` does with a request around the services | |
| `CameraLiveness` | `ServerRegistrationLiveness.tsx` over a run of the server | uses `LivenessGate` |
| `FacePanels` | `LoginFaceVerification.tsx`, `login-face-machine.ts`, `BiometricEnrollment.tsx` | |
| `IdentityCheck` | `RegistrationLiveness.tsx`, `state-machine.ts`, `location-watcher.ts` | |
| `LoginPage`, `RegistrationPage`, `ContactPage` | the pages and the server's side of their calls | |
| `RegistryPages` | `useWallet.ts`, `browser-manager.ts`, the ledger effect, the submission | |
| `EligibilityPage` | `VerifyPage.tsx` and what it keeps for the result page | |
| `RegisterForm` | `RegisterPage.tsx`, `DocumentUpload.tsx`, the merge | |
| `RegistryMetadata` | a draft on its way to the record beside the ledger | |
| `OfficerSignIn`, `OfficerPortal` | `AuthContext.tsx`, guards and sign-in; `OfficerPage.tsx` | |
| `Deploy` | the scripts and their files | |
| `..._proofs` | | proofs |
| `MC...` | compositions, symmetry and small constants | instances for TLC |

Operators whose comment begins with "Mutant" are variants of the definition that
follows them with one plausible mistake; no specification uses them. They show
that each property can fail: with the variant in place of the definition, the
run that checks the property finds it violated.

### Composition

`MCRegistration`, `MCServer` and `MCClients` each hold several specifications
that share no variable. `part` says which one a behaviour is of; the others
stay in their initial state. Since no part reads or writes what another has, an
interleaving of two of them is, for each property of one, a behaviour of that
one with stuttering steps: the sum of the parts has every behaviour that matters
and none of the product's states. Parts that do interact are composed in the
module itself: recovery works on the variables of `Accounts`, the officer's
routes on those of the limiter, browsers on those of the contract; a session
consults the abstract `OneTimeCode` and `LivenessGate`, which the detailed
services are shown to implement; a page has the server's side of its own calls,
at the grain of what the page can tell apart.

### One-time codes and liveness

In `OtpService`, `active`, `stamps` and `lastSent` are the two maps of the
service, `req` what a two-phase request holds across the delivery. `BeginIssue`
hands a code to the transport and records nothing but the pruning of the window;
`DeliveredThenCommit` is the stretch from the transport's answer to the end of
`commitIssue`, which repeats both checks; `DeliveryFailed` is the exception.
`Issue` is the one-phase way of `contact-provider.ts`; a key is used in one of
the two ways (`client`). Time is explicit, since budget, cooldown and lifetime
are about it; stamps of one key are distinct because the cooldown is positive,
so the array of stamps is a set. `sent`, `mailbox`, `tried` and `accepted`
observe and guard nothing.

In `Liveness`, a challenge is its type and what the client must give back for it
(a finger count, a phrase up to `normalizePhrase`). `Start` allows every list
`start()` can draw: distinct types, the phrase among them. `Evidence` is the
accepting path of `evidence()`, with each type's window in milliseconds; a
refused answer changes nothing and so is a stuttering step; `EvidenceExpired`
deletes the run. `trail` and `passed` observe.

### Registration, accounts and the rest of the server

`RegistrationSession` is one session, which is all a session's handlers touch. A
handler without an await is one action. A handler with one is two: the first
keeps in `flight[r]` what the code keeps in local variables, the second acts on
the provider's answer. `Patch` is `store.update`: it merges named fields into
the row as it is then, and a row that is gone stays gone. Expiry is the step
`TimesOut`, after which `Loaded` (`mustLoad`) is false; `DestroyExpired` stands
for the deletion by the next handler or by `purgeExpired`. `Restart` empties
what is in memory. `seen` and `accounts` observe what each passed check was made
against. Field validation, the photo test and the geocoder decide only whether a
step happens.

`Accounts` has rows, live sessions as the set of what they hold, and face
tokens, which are values used once. `PasswordRecovery` keeps the call of
`begin()` that waits for its mail in `attempt`. `GoogleChallenge` keeps in
`redirect[r]` what `handleOAuthRedirect` has between its awaits: it marks the
object it peeked, whether that is still in the book or not. `KycChallenge` lets
several submissions of one challenge wait for the vendor at once, each counted
before. `RateLimiter` has the prune, the limit and the stamp of `take()`.

In `HttpServer` a route is how it reads its body, what credential it asks for,
the limiter it takes from and whether its service waits for a provider; a
request goes through body, parse, route, session, limiter, handler, provider
and answer, and may break off, be too long, be refused at each, or fail.

### Pages

A page module has what the component holds, the calls under way and, of the
server, what these calls read and write. A call is served once, at some time
after it was sent; its answer comes at some later time, or is lost after the
server has acted; answers may overtake each other. What a handler keeps of the
render it began in is part of the call. Observers (`earned`, `recorded`,
`confirmed`, `told`, `ever`) keep what the server or ledger has confirmed.

`RegistryPages` distinguishes joins of an earlier connection from those of the
present one; that a submission hears nothing of a join that was deployed before
it subscribed is `Unheard`. `RegistryMetadata` follows details from the draft
through the submission, the id told and the intake to the record; an id told may
be another's, as the run `told_id` shows. `Deploy` keeps the two files apart from
the chain and may be cut off, or fail, between any two awaits.

### Contract and its clients

Each exported circuit is an action on the ledger state its transaction is applied
to; a failed assert is a transaction without effect (`Drop`). `deriveDappKey` is
taken to be injective. `PriestateApi` adds browsers and transactions: `Start`
sets the witness holder and begins the call, `Prove` reads the holder, the
network applies or drops a transaction at any later time, in any order, and the
caller is answered from the ledger as it is when it looks (`AnswerTo`), fails, or
gives up after a minute (`TimesOut`) while its transaction goes on. The ledger
runtime and the network are external.

## 3. Runs

| run | module | question | result |
|---|---|---|---|
| registration | `MCRegistration` | codes: do budget, cooldown, cap, single use, freshness and delivery hold for concurrent requests? liveness: is a pass earned in one run? session: what does an account rest on; can a late answer revive a session, lose progress, or open an expired account? do the services implement what the session assumes? | hold |
| registry | `MCPriestateApi` | are records lost, overwritten or decided twice or by others? does the ledger implement `PropertyLifecycle`? | hold |
| server | `MCServer` | one account per wallet; identity only with a face; no session of an old password after a reset; gates only from the row's own checks; attempts metered; tokens spent once; links earned; submissions bounded | hold |
| clients | `MCClients` | does any page show what is not confirmed? do the scripts' files stay true? does every wait end? | hold |
| finalize | `RegistrationSession` | does finalizing freeze the session (`docs/USAGE.md:74`), or is at least the holder of what it opens someone a document was compared with (`docs/USAGE.md:67`)? | violated |
| masked | `RegistrationSession` | is the number stored the one shown masked (`UserRegistrationPage.tsx:661`)? | violated |
| told_id | `MCPriestateApi` | is the id an applicant is told its own (`priestate-api.ts:216-219`)? | violated |
| told_verdict | `MCPriestateApi` | is a check answered with its own verdict (`priestate-api.ts:69-70`)? | violated |
| restart | `CameraLiveness` | is a liveness check done only when the server accepted every challenge (`ServerRegistrationLiveness.tsx:62`)? | violated |
| first_save | `MCFirstSave` | can a citizen save a complete form (`UserRegistrationPage.tsx:936`)? | violated |
| panels | `MCPanels` | does a face get past the login or the enrolment panel, a property check come to a verdict (`docs/USAGE.md:141-142`), or an identity check complete (`RegistrationLiveness.tsx:241`)? | violated |
| typed_fields | `RegisterForm` | does what was typed survive an upload (`RegisterPage.tsx:79-80`)? | violated |

What the violations show:

- *finalize*: all gates are passed for one name, the details are edited, and
  `Finalize` comes twice. `personal()` clears only the personal step and the unused
  SMS flag, so the document gate stays for a name no document was compared with;
  `finalize()` does not look at `finalizedAt`, and the account store's test for an
  existing account is by wallet, which is null. The property of the run, an account
  is the first of its session or a document names its holder, follows from either
  text, so that this trace refutes both.
- *masked*: an e-mail address is submitted, the details are edited while the mail
  is on its way, the mail is accepted: the earlier profile is written back, the
  later mask stays.
- *told_id*: two submissions become final before the first browser reads the
  counter, or the second is proved only after the first was applied.
- *told_verdict*: another check becomes final before the answer is read; or the
  user, after a time-out, checks another value before the first circuit runs.
- *restart*: two frames of a challenge are looked at together. The first is
  accepted, the device lacks what the next challenge needs, and `advance()` shows
  the failure without stopping anything. Restart is pressed, the server begins a
  new run, and the second frame posts its ordinal, which is the new run's too. Its
  answer advances from the old index, here past the end: done, after one
  challenge of two.
- *first_save*: the Save button and Continue both need details the server has,
  and on a first visit it has none.
- *panels*: in all four flows at once, with every device, server and network
  succeeding at last. The login panel's cleanup effect resets the state the
  verdict is applied to; the enrolment captures with the camera of the render
  before there was one; the verification of a property either looks up the
  contract in a list of joins without one, or waits for a join whose emission
  was lost because it came before `subscribe()` had returned; the identity check
  ends on a refused location with neither Start nor Retry.
- *typed_fields*: the upload's callback is that of the first render, and merges
  into an empty form.

### Bounds

- registration: codes with two requests, two sends in a window of five ticks, a
  cooldown and a lifetime of two, two attempts, seven ticks, past the window of
  the first code; liveness with three of five challenges, two finger counts, two
  phrases, windows at their boundaries, a lifetime of two of four ticks, so a
  second run starts after the first expired; a session with two requests in
  flight, two addresses, two codes, a run of two challenges, one account.
  Details are one value, since no property of the run compares them; they
  are two in `finalize`, which has two accounts, and in `masked`.
- registry: two browsers, three transactions, two secrets, two values around the
  threshold, at most three records: two submissions and a review, or one
  submission and two reviews.
- server: two accounts, two wallets, two passwords, two sessions, two face
  tokens, two begins of a recovery; two callers with two events in a window of
  two of three ticks; two Google challenges and two redirects; two KYC
  challenges, three submissions, two attempts. Each is one more than a single
  actor needs to follow the rule, so that a second can break it.
- clients: two requests, three calls of a page under way, two wallets; of the
  liveness check three challenges with the phrase in the middle, two frames, two
  requests; two starts of the identity check and three movements, three joins, two
  filings, two verdicts, two runs of scripts with two tries. Enough for an answer to be late behind a newer action and for a run to
  find what an interrupted one left.
- restart: two challenges with the phrase last, two frames, and three calls under
  way, so that a start and late evidence can be.

Deadlock is not checked where the supply of calls, transactions or runs ends or
a person may simply stop (`CHECK_DEADLOCK FALSE`); it is checked in
`registration`, where some handler can always be called.

### Fairness

In `MCClients` weakly fair are only steps somebody is sure to take: a request
ends by its body, by node's time-out or by the time-out of the provider's client
(`HttpServer`); a call of a page is answered or fails, one condition per kind of
call, since a fetch settles (of the liveness check, whose calls are a list, the
oldest call that has an answer gets it, `OldestAnswered`); the wallet detection's interval ticks; a script's
bounded waits (faucet, registration tries, DUST, proof server) run out; the
sign-in's call settles. No person is assumed to press anything, no mail to
arrive, no transaction to become final. `EveryWaitEnds` says under these that no
request, spinner or bounded wait lasts.

The violation runs `first_save` and `panels` assume more, since what they refute
is that a determined person gets on: that buttons which stay enabled are pressed
(weak) and that what is tried again and again succeeds at last (strong). Of the
identity check, `panels` takes the steps that succeed, and a location that may be
refused but not for ever; a frame that is looked at comes back before the location
does (`IdentityMeetsLocation`). A
counterexample then is the code's own doing. All other runs and all theorems are
of safety and assume no fairness.

### Assumptions of the page models

- React commits a state change before the next event the page handles, and during
  awaits; effects run at the commit.
- Requests of one page are served in the order sent where the module says so
  (`CameraLiveness`); elsewhere in any order.
- `CameraLiveness`: the camera is granted and the hand model loaded in one step.
- `RegistryPages`, `OfficerPortal`: one submission, and a bounded number of
  verdicts, are followed after their page was left.
- Joins and transactions settle, or not, at any time.
- `EligibilityPage`: the wallet stays connected once it is; a contract address is
  configured (without one, verification ends in an error at once).
- `Deploy`: one script at a time on a checkout.

## 4. Proofs

TLC decides the small instances above; TLAPS proves the following for every value
of the constants that meets the module's assumption. Every invariant, action
property and refinement of a passing run has a theorem; `EveryWaitEnds` is the one
property of them that TLC alone decides.

The assumptions on constants are mostly of three kinds, and TLC evaluates each on
its run. A value that means "nothing" is none of the values it is distinguished
from, as `undefined` and `null` are in the code. Limits of the code are positive
(attempts, challenges, a window; `LivenessAssumption` has at most the five
challenges the engine draws from), and the cooldown of codes is at most their
window. Bounds that are of the model alone (numbers of calls, accounts, ticks,
runs) are natural numbers, without an upper limit. Beyond these: at least one
wallet exists (`ContactAssumption`), the local network is one of the networks, the
officer's secret one of the secrets, what is counted or compared with a threshold
is a natural number, and the watcher of a location is in one of its two states.

A promise about a whole history is seldom inductive, since the code decides by
what it still remembers. Each strengthening below says what that memory means.

**`OtpService_proofs`.** Budget and cooldown speak of all codes ever stored
(`sent`), while the code decides by `stamps` and `lastSent`, which it prunes and
forgets. `IInv` says that the stamps of a key contain every stored time within
the window, that `lastSent` is the latest of them or the key was forgotten after
its window passed, and that the attempts of an armed code are those counted in
`tried`. From it follow `TypeOK`, `SendBudget`, `CooldownGap`, `AttemptCap`,
`AcceptedOnceAndFresh`, `StoredImpliesDelivered` and the refinement
`ImplementsOneTimeCode`.

**`Liveness_proofs`.** A pass is earned in one run, but the run only has the
number of the next challenge. `RunsAreTold` says that the trail has the accepted
answers to exactly the challenges before it, in order, since this start and in
time. With it `PassIsEarned` is inductive and each step is one of `LivenessGate`.
By the two refinements `RegistrationSession` and `PasswordRecovery` may use the
abstract modules.

**`Registration_proofs`.** `SessionIInv` ties a gate to its evidence through what
lies between them: a code that is armed was mailed (`CodeWasMailed`), the address
in the row is the one mailed last (`MailedIsStored`), a handler that waits for its
mail has an address to write (`MailHasAddress`), and a gate in the row has its
observation (`GatesHaveEvidence`).
`EmailProvenance` and `AccountsRestOnEvidence` follow, for any number of handlers
in the middle of an await. `NoResurrection`, `NoAccountAfterExpiry` and
`ProgressKept` are about steps; they need the types and the facts that a row was
begun. `RegistrationImplementsParts` carries all of it, with codes and liveness,
to the composition of the run.

**`PasswordRecovery_proofs`.** On the accounts, every step of recovery is an
`AccountMove`: one of their own steps, the loss of what is in memory, the begin or
the end of a face verification, a replaced password. The invariants of `Accounts`
are proved of these moves once. `SessionsOpened` is the
fact `WalletBinding` rests on: a session is of a row that exists, or an
association would write a wallet into a row that is not there. `SpentIsGone` and
`EnrollmentBacked` say that a face token is in the book or spent, not both, and
that one for enrolment belongs to an account with evidence. They give
`IdentityRestsOnFace`, `SessionsUnderCurrentPassword` and `TokensAreSpentOnce`.
For `GatesAreTheRows` the handler compares an entered code with the one in memory,
which may be of another row: `CodeIsTheRows` says that both are of the same
begin() while both are there.

**`Server_proofs`.** *Google*: `LinksAreEarned` compares a completion with Google's
word and with earlier completions; complete() looks at two flags.
`VerifiedIsProven` and `CompletedIsConsumed` say that the flags tell the truth, and
`WaitingIsProven` carries the nonce through the last await of a redirect.
*KYC*: the vendor's count of submissions is the session's (`AttemptsArePosts`), an
answered session takes no more codes (`ToldIsDropped`), and an answer finds the
session it was sent for (`SubmissionsBegun`). *Limiter*: `AttemptsAreMetered`
counts attempts, the limiter decides on its list; `EventsAreTheRest` says that the
list of a caller is what is left of its attempts when some stale ones at the front
are gone. That needs the attempts in order of time (`ChecksInOrder`) and lemmas on
what remains of an ordered sequence after such a front. The theorem
`ServerKeepsPromises` states all of them of the composition.

**`PriestateContract_proofs`, `PriestateApi_proofs`.** `LInv` (types and officer)
is inductive; the types say that ids are dense below the counter, hence that an
insert at the counter overwrites nothing. The ledger implements
`PropertyLifecycle`: a submission appends to the book, a review decides one
pending entry, a check leaves the book alone. Every step of the composed system
is a step of the contract or leaves the ledger alone, so this holds with any
number of browsers and transactions; every applied submission has a record of its
own, and of several reviews of a registration one is applied.

**`Clients_proofs`.** Each page, the HTTP layer and the scripts have an inductive
invariant, `ClientsIInv` is their conjunction, and a step of the composition is one
of a single part (`ClientsStepIsOfParts`). What the strengthenings say is what an
answer under way may still claim when it is taken:

| part | strengthening of its invariant |
|---|---|
| camera | as long as the last start met nothing of an earlier try (`Clean`): the challenges shown as done and the accepted answers under way are together at most what the server's run has done (`CountsFit`); a start is alone on the wire (`StartsAlone`); a last answer was earned (`LastIsEarned`) |
| login | what a call has seen verified still is; an accepted password has opened the session (`LoginCallsFit`) |
| registration page | a session that was read, in the page or on its way, shows only finished steps that were recorded (`SeenFits`) |
| contact | a granted answer is of a contact confirmed for the wallet that asked, and one that will be taken is of the wallet connected now (`ContactCallsFit`) |
| registry pages | a manager tracks only joins of its own account, and a page follows a tracked join (`TracksOwnJoins`, `PagesFollowTracked`) |
| sign-in | an authorization rests on an answer, a rendered role on the grant; no cookie is of a session there never was (`AuthorizedIsTold`, `SessionsWere`, `OneSignIn`) |
| portal | one verdict at a time will be shown, a report is never of "pending" (`OneVerdictShown`, `Reported`), and a verdict on the ledger is the one it has (`VerdictsDecide`) |
| metadata | a filing that is final is on the ledger at its id, a record under way at the id it names or before (`FilingsFit`, `IntakesFit`); a page awaits one filing (`OneFilingShown`); a pending filing leaves room in the counter (`RoomForFiling`, by an injection) |
| identity check | what is counted fits both the session shown and the one the next frame will take (`Fits`) |
| scripts | the file holds nothing that is still to be made (`FileIsOfThePast`); an address a run holds is that of its own contract (`LandedIsDeployed`), of which a run makes one (`OneContractPerRun`) |

They give `ShownIsConfirmed`, `FilesSurviveRuns` and `ClientsTypeOK`. For the
camera `ShownIsConfirmed` claims nothing after a restart that met frames, a
recognition or requests of the try before: such restarts are among the steps, the
observer `tangled` marks them until a start that meets nothing, and `restart` shows
what they do. A page's
calls are a sequence from which an answered one is removed and to which its
handler may append; the lemmas on that (`RemovedAt`, `Answering`, `AllOf`) are
stated once at the head of the module.

A definition that a proof needs has no RECURSIVE operator and no fold in it: the
limiter's list is filtered by a recursive function (`Alive`), and the join a page
takes is described by the least place in the tracked list (`Resolves`).

What stays with TLC: liveness under fairness (`EveryWaitEnds` and the temporal
properties of `first_save` and `panels`) and `ENABLED`, which the provers do not
have; what the violated runs show, since a counterexample needs one instance;
and the modules that only those runs use (`FacePanels`, `EligibilityPage`,
`RegisterForm`).

## 5. Plan

The order of the modules was: codes, contract and session; liveness; accounts and
recovery; the other services; the pages and the scripts. All are modelled, and
every safety property that a passing run checks is proved. What is left, in this
order:

1. An abstract specification of the accounts (one wallet each, a password that
   sessions are opened under, an identity that rests on a face) which
   `PasswordRecovery` implements, in the way `PropertyLifecycle` is one of the
   contract, and its refinement proved.
2. That each part of `MCClients` behaves as its own specification says, as
   `ServerImplementsParts` says of the services, so that the promises of a page
   can be cited without the composition.
3. What holds of the panels and the form beside what the runs refute: the types
   and the reducer of `FacePanels`, what `RegisterForm` never merges.

## 6. Where code and intention part, without a run

Met while modelling. The models follow the code in each; a run has no room for
them, or no text of the repository says otherwise.

Server:
- Registry routes are called without `await` (`server/index.ts`); a body that is
  too long destroys the connection before the 400 is sent.
- Nothing calls `sweep()` or the purges (`otp-service.ts:225`): memory grows.
- After `revokeBiometricReference` an account can never enrol again, though
  `account/service.ts:679-684` says it must; `replaceBiometricReference` has no route.
- `forgot-password.ts:96-99` speaks of identity-complete accounts only, `begin()`
  does not check; `findAccountByEmail` sees the first account only; a recovery's
  liveness run or face token may have been started before its row.
- Wallet addresses are compared case-sensitively.
- A Google challenge that was completed is deleted, so a repeat answers
  `bad-state`; `replay` is reached only after a wrong nonce.
- Two submissions of one KYC code in flight may both give a receipt.

Browser:
- Registration: after a reload the form is blank and Continue takes a different
  form, while the server completes the stored one; an expired session
  leaves `emailSent`; a failed refresh after a verified code leaves the page until
  a reload; the lookup and Save may both begin a session, and the second replaces
  the first; a late refresh may take "Account Created" back.
- Login: an early return precedes hooks (`UserLoginPage.tsx:148`); the server never
  lists Google as pending, so the section the page's header requires is not shown.
- `CameraLiveness`: the comment at 27-28 says that camera, recognizer and hand model
  are released on every exit path, but a failed advance releases none (what a restart
  makes of it is the run `restart`); a lost answer leaves the panel behind without a restart; the preview's
  element is not mounted when the stream is attached.
- `IdentityCheck`: no page imports `RegistrationLiveness.tsx`. Start may be pressed
  again while the camera is awaited; a camera that opens after the check is over, or
  after the page was left (not modelled), stays on, though the comment at 21-22 says
  it is stopped on every exit. A frame that returns after the end shows the idle
  panel again. Without geolocation the panel waits without a word.
- Joins: the ledger effect runs again at every render and begins joins until one is
  deployed; a rejected promise of the providers stays cached. A submission, and the
  proof of the review page, that finds a join already deployed waits for good
  (`RegistrationReviewPage.tsx:66`, as in the run `panels`). A joined contract has
  its own threshold, whatever the property's.
- Review page: a submission that returns late removes the draft stored by then
  (126); without a draft the page shows and submits the details of a demo (28-46).
- `isConfiguredOnServer` keeps a failed health check as "not configured".
- Officer: `RequireOfficer` asks for a wallet though `App.tsx:46-48` says the portal
  is not wallet-gated; granting the demo role does not render the guard again; a
  late 401 of the first `/me` undoes a sign-in; authorization outlives the server's
  session; `officerLogout` is called nowhere; a verdict that returns closes whatever
  registration is open by then.
- The hand-over link of `mobile-session.ts` cannot be redeemed: its tokens are in
  the memory of the tab that made it.

Scripts: the sync cache is per network, not per wallet; `check-balance.ts:95-97`
speaks of a checkpoint every minute that nothing writes; `refreshUnregisteredUtxos`
falls back to the snapshot although `deploy.ts:436-440` says a submitted
registration is never submitted again blindly; `deployContract` and the syncs have
no time-out; a run that dies after the deployment leaves a contract nobody
recorded (in the model), and two scripts at once can lose a wallet (not in it).

## 7. Not modelled

- Field validation (`validation.ts`, `personal-validation.ts`, `dialling-plans.ts`,
  `account/model.ts`): pure functions of one input each.
- Camera capture, landmarks, hands, face embeddings, photo tests: numeric; their
  outcomes are choices in the models.
- Cookies, headers and `requestOrigin` (`server/index.ts:660`): the variable is
  shared by requests, and the value it selects is a header only.
- The wallet SDK, proof server, indexer, mail, SMS, KYC, OCR and OAuth vendors
  beyond what their callers see; cryptography (hashes are injective,
  encryption an inverse pair).
- The views that only render (`DashboardPage`, `PropertyPage`, `LandingPage`), the demo of
  `IdentityVerificationPage`, demo providers and data.
- `npm run clean`, which deletes the wallets' seeds, a reset of the local network,
  and the build scripts.
