---------------------------- MODULE MCRegistration ----------------------------
(***************************************************************************)
(* Registration on the server: the session of one applicant, and the two   *)
(* challenge engines it consults, one-time codes and liveness. The session *)
(* module speaks to the engines through OneTimeCode and LivenessGate, which *)
(* the engines are checked here to implement, so the three share no state: *)
(* a behaviour is one of one of them, which part names, and the others     *)
(* stay in their initial states.                                           *)
(*                                                                         *)
(* Codes: two concurrent requests, a window of two sends, two attempts, the *)
(* smallest instance in which a second commit can be refused by the        *)
(* cooldown, by the cap, or granted over an older code.                    *)
(***************************************************************************)
EXTENDS RegistrationSession, OtpService, Liveness, TLC

VARIABLE part

RegistrationInit ==
    /\ SessionInit /\ Init /\ LivenessInit
    /\ part \in {"session", "codes", "liveness"}
    \* A part that stays in its initial state needs only one of them.
    /\ part # "codes" => \A k \in Keys : client[k] = "two-phase"

RegistrationNext ==
    /\ UNCHANGED part
    /\ \/ part = "session" /\ SessionNext /\ UNCHANGED <<vars, livenessVars>>
       \/ part = "codes" /\ Next /\ UNCHANGED <<sessionVars, livenessVars>>
       \/ part = "liveness" /\ LivenessNext /\ UNCHANGED <<sessionVars, vars>>

RegistrationSpec ==
    RegistrationInit /\ [][RegistrationNext]_<<sessionVars, vars, livenessVars, part>>

\* The type invariants of the parts.
RegistrationTypeOK == SessionTypeOK /\ TypeOK /\ LivenessTypeOK

\* 299 ms is too short for every window, 399 for all but the blink, 900 is the
\* shortest that does for all of them, 20001 is too long.
MCObserved == {299, 399, 900, 20001}

MCFingers == {1, 5}

\* Handlers and Reqs are given the same model values; EmailCodes, Codes and Phrases too.
Interchangeable ==
    Permutations(Details) \cup Permutations(Emails) \cup Permutations(Reqs) \cup Permutations(Codes)
===============================================================================
