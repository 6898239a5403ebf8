------------------------------- MODULE MCFirstSave -------------------------------
(***************************************************************************)
(* A first visit to the registration page by a citizen who fills in the    *)
(* form, leaves it as it is and presses whatever can be pressed; the       *)
(* server is up and its session lives on.                                  *)
(***************************************************************************)
EXTENDS RegistrationPage

FirstVisitInit == RegistrationPageInit /\ row = NoRow

\* Nobody edits a complete form, reloads the page or waits for the session to end.
FirstVisitNext ==
    /\ RegistrationPageNext
    /\ page.form # Blank => page'.form = page.form

\* A call of the handler is served and answered with success.
CallSucceeds(next) ==
    /\ RegistrationCallProceeds(next)
    /\ \E i \in DOMAIN asked :
         \/ RegistrationServed(i) /\ asked'[i].verdict = "ok"
         \/ asked[i].verdict = "ok" /\ RegistrationAnswered(i)

\* Buttons that stay enabled are pressed, calls that are tried again and again
\* succeed at last.
FirstVisitFairness ==
    /\ \A f \in Forms : WF_registrationPageVars(TypesForm(f))
    /\ WF_registrationPageVars(SavePressed) /\ WF_registrationPageVars(ContinuePressed)
    /\ \A next \in Ops : /\ WF_registrationPageVars(RegistrationCallProceeds(next))
                         /\ SF_registrationPageVars(CallSucceeds(next))

FirstVisitSpec ==
    FirstVisitInit /\ [][FirstVisitNext]_registrationPageVars /\ FirstVisitFairness
===============================================================================
