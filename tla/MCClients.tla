------------------------------- MODULE MCClients -------------------------------
(***************************************************************************)
(* The pages that talk to the server, how the server answers, and the      *)
(* deployer's scripts, side by side. A behaviour is one of one part: part  *)
(* says which, and the others stay in their initial state. Each page has   *)
(* the server's side of its own calls, so that no part reads or writes     *)
(* what another has.                                                       *)
(*                                                                         *)
(* The e-mail card of the contact page is checked with one wallet and two  *)
(* addresses, the Aadhaar card with wallets that come and go.              *)
(*                                                                         *)
(* Fair are only the steps somebody is sure to take: a request ends by its *)
(* body, by node's time-out or by the time-out of the provider's client    *)
(* (http), a call of a page is answered or fails, one step per kind of     *)
(* call, the timer of the wallet detection ticks, and what a script puts a *)
(* time-out on ends.                                                       *)
(***************************************************************************)
EXTENDS HttpServer, CameraLiveness, LoginPage, RegistrationPage, ContactPage, RegistryPages,
        Deploy, OfficerSignIn, OfficerPortal, RegistryMetadata, IdentityCheck

VARIABLE part

Parts == {"http", "camera", "login", "registration", "email", "aadhaar", "registry",
          "deploy", "officer", "portal", "metadata", "identity"}

clientsVars ==
    <<httpVars, cameraVars, loginVars, registrationPageVars, contactVars, registryVars, deployVars,
      signInVars, officerPortalVars, metadataVars, identityVars, part>>

ClientsInit ==
    /\ HttpInit /\ CameraInit /\ LoginInit /\ RegistrationPageInit /\ ContactInit /\ RegistryInit
    /\ DeployInit /\ SignInInit /\ OfficerPortalInit /\ MetadataInit /\ IdentityInit
    /\ part \in Parts
    \* A part that stays in its initial state needs only one of them.
    /\ part # "login" => ~held.exists
    /\ part # "registration" => row = NoRow
    /\ part # "metadata" => ~catalogue.configured
    /\ part # "deploy" => stage[Undeployed][Genesis] = "none"

OneWallet == {CHOOSE w \in Owners : TRUE}

ClientsNext ==
    /\ UNCHANGED part
    /\ \/ /\ part = "http" /\ HttpNext
          /\ UNCHANGED <<cameraVars, loginVars, registrationPageVars, contactVars, registryVars,
                         deployVars, signInVars, officerPortalVars, metadataVars, identityVars>>
       \/ /\ part = "camera" /\ CameraNext
          /\ UNCHANGED <<httpVars, loginVars, registrationPageVars, contactVars, registryVars,
                         deployVars, signInVars, officerPortalVars, metadataVars, identityVars>>
       \/ /\ part = "login" /\ LoginNext
          /\ UNCHANGED <<httpVars, cameraVars, registrationPageVars, contactVars, registryVars,
                         deployVars, signInVars, officerPortalVars, metadataVars, identityVars>>
       \/ /\ part = "registration" /\ RegistrationPageNext
          /\ UNCHANGED <<httpVars, cameraVars, loginVars, contactVars, registryVars,
                         deployVars, signInVars, officerPortalVars, metadataVars, identityVars>>
       \/ /\ \/ part = "email" /\ ContactNext({"email"}, OneWallet)
             \/ part = "aadhaar" /\ ContactNext({"aadhaar"}, Owners)
          /\ UNCHANGED <<httpVars, cameraVars, loginVars, registrationPageVars, registryVars,
                         deployVars, signInVars, officerPortalVars, metadataVars, identityVars>>
       \/ /\ part = "registry" /\ RegistryNext
          /\ UNCHANGED <<httpVars, cameraVars, loginVars, registrationPageVars, contactVars,
                         deployVars, signInVars, officerPortalVars, metadataVars, identityVars>>
       \/ /\ part = "deploy" /\ DeployNext
          /\ UNCHANGED <<httpVars, cameraVars, loginVars, registrationPageVars, contactVars,
                         registryVars, signInVars, officerPortalVars, metadataVars, identityVars>>
       \/ /\ part = "officer" /\ SignInNext
          /\ UNCHANGED <<httpVars, cameraVars, loginVars, registrationPageVars, contactVars,
                         registryVars, deployVars, officerPortalVars, metadataVars, identityVars>>
       \/ /\ part = "portal" /\ OfficerPortalNext
          /\ UNCHANGED <<httpVars, cameraVars, loginVars, registrationPageVars, contactVars,
                         registryVars, deployVars, signInVars, metadataVars, identityVars>>
       \/ /\ part = "metadata" /\ MetadataNext
          /\ UNCHANGED <<httpVars, cameraVars, loginVars, registrationPageVars, contactVars,
                         registryVars, deployVars, signInVars, officerPortalVars, identityVars>>
       \/ /\ part = "identity" /\ IdentityNext
          /\ UNCHANGED <<httpVars, cameraVars, loginVars, registrationPageVars, contactVars,
                         registryVars, deployVars, signInVars, officerPortalVars, metadataVars>>

ClientsFairness ==
    /\ \A r \in Requests :
         /\ WF_httpVars(part = "http" /\ BodyBreaks(r))
         /\ WF_httpVars(part = "http" /\ ProviderEnds(r))
    /\ WF_cameraVars(part = "camera" /\ CameraServed)
    /\ WF_cameraVars(part = "camera" /\ OldestAnswered)
    /\ \A k \in Kinds : WF_loginVars(part = "login" /\ CallProceeds(k))
    /\ \A next \in Ops :
         WF_registrationPageVars(part = "registration" /\ RegistrationCallProceeds(next))
    /\ \A c \in Cards, op \in {"send", "verify"} :
         WF_contactVars(part \in {"email", "aadhaar"} /\ ContactCallProceeds(c, op))
    /\ WF_registryVars(part = "registry" /\ DetectionProceeds)
    /\ WF_deployVars(part = "deploy" /\ FaucetGivesUp)
    /\ WF_deployVars(part = "deploy" /\ \E answers \in BOOLEAN : ReadDustState(answers))
    /\ WF_deployVars(part = "deploy" /\ RegisterAttempts)
    /\ WF_deployVars(part = "deploy" /\ DustGivesUp)
    /\ WF_deployVars(part = "deploy" /\ \E ready \in BOOLEAN : ProofServer(ready))
    /\ WF_signInVars(part = "officer" /\ SignInProceeds)

ClientsSpec == ClientsInit /\ [][ClientsNext]_clientsVars /\ ClientsFairness

-------------------------------------------------------------------------------

\* The type invariants of the parts.
ClientsTypeOK ==
    /\ HttpTypeOK /\ CameraTypeOK /\ LoginTypeOK /\ RegistrationPageTypeOK
    /\ ContactTypeOK /\ RegistryTypeOK /\ DeployTypeOK
    /\ SignInTypeOK /\ OfficerPortalTypeOK /\ MetadataTypeOK /\ IdentityTypeOK

\* Whatever answers come late, are lost or overtake a newer action, no page shows
\* as done, verified or its own what the server, or the ledger, has not confirmed:
\* the liveness challenge (CameraLiveness), the login factors (LoginPage), the
\* account and its wallet (RegistrationPage), a contact (ContactPage), a submitted
\* property and the account a page acts for (RegistryPages), the officer's standing
\* (OfficerSignIn) and verdicts (OfficerPortal), the record of a registration
\* (RegistryMetadata), and a check made in the browser alone (IdentityCheck).
\* For the liveness challenge only as long as the last start met nothing of an
\* earlier try: one that does may be ahead of the server (DoneIsEarned).
ShownIsConfirmed ==
    /\ CameraShowsRun /\ LoginShowsServer /\ RegistrationShowsServer
    /\ ContactsAreConfirmed /\ PagesActForTheConnected
    /\ PortalIsGuarded /\ PortalShowsLedger /\ RecordsFollowLedger
    /\ PassRestsOnChecks

\* The files of the scripts stand for what is on the chain, whichever run was
\* interrupted where: no seed is lost, and a recorded deployment is one.
FilesSurviveRuns == SeedsAreKept /\ RecordedIsDeployed

\* What the part has under way: requests of the server, the spinners of a page,
\* the bounded waits of a script.
Waits ==
    CASE part = "http" -> HttpWaits
      [] part = "camera" -> CameraWaits
      [] part = "login" -> LoginWaits
      [] part = "registration" -> RegistrationWaits
      [] part \in {"email", "aadhaar"} -> ContactWaits(part)
      [] part = "registry" -> RegistryWaits
      [] part = "deploy" -> DeployWaits
      [] part = "officer" -> SignInWaits
      [] part \in {"portal", "metadata", "identity"} -> <<>>

WaitsFor(i) == i \in DOMAIN Waits /\ Waits[i]

\* A request is answered, a page that waits stops waiting, each wait of it, and a
\* script gets past each wait it bounds, or ends.
EveryWaitEnds == \A i \in 1..3 : WaitsFor(i) ~> ~WaitsFor(i)
===============================================================================
