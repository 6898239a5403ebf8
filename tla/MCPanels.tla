------------------------------- MODULE MCPanels -------------------------------
(***************************************************************************)
(* Four flows of the browser, side by side: the two face panels and the    *)
(* eligibility page, whose asynchronous functions go on with what they had *)
(* when they began, and the identity check with its location gate. Nothing *)
(* is shared between them. Everything a person can press is pressed and    *)
(* every device, server and network succeeds at last, so that a flow that  *)
(* does not get on is held up by its own code.                             *)
(***************************************************************************)
EXTENDS FacePanels, EligibilityPage, IdentityCheck

PanelsInit == PanelInit /\ EligibilityInit /\ IdentityInit

PanelsNext ==
    \/ PanelNext /\ UNCHANGED <<eligibilityVars, identityVars>>
    \/ EligibilityNext /\ UNCHANGED <<panelVars, identityVars>>
    \/ IdentityMeetsLocation /\ UNCHANGED <<panelVars, eligibilityVars>>

PanelsSpec ==
    /\ PanelsInit /\ [][PanelsNext]_<<panelVars, eligibilityVars, identityVars>>
    /\ PanelFairness /\ EligibilityFairness /\ IdentityFairness

\* What the flows are for is reached by one of them at least: a face is shown as
\* verified or captured for enrolment (LoginFaceVerification.tsx:173-193,
\* BiometricEnrollment.tsx:97-140), an eligibility verdict is read from the ledger,
\* as docs/USAGE.md:141-142 says it is, or the identity check completes, which a
\* refused location leaves to a retry (RegistrationLiveness.tsx:241).
FlowsGetOn == <>(FaceGetsOn \/ VerdictReached \/ CheckCompletes)
===============================================================================
