------------------------------- MODULE MCServer -------------------------------
(***************************************************************************)
(* The services of the server that share no state, side by side. A         *)
(* behaviour is one of one of them: part says which, and the others stay   *)
(* in their initial state. Since none reads or writes what another has,    *)
(* their interleavings would add states but no behaviour of any of them.   *)
(***************************************************************************)
EXTENDS PasswordRecovery, OfficerDesk, GoogleChallenge, KycChallenge, TLC

VARIABLE part

serverVars == <<allAccountVars, officerVars, googleVars, kycVars, part>>

ServerInit ==
    /\ RecoveryInit /\ OfficerInit /\ GoogleInit /\ KycInit
    /\ part \in {"accounts", "officer", "google", "kyc"}

ServerNext ==
    /\ UNCHANGED part
    /\ \/ part = "accounts" /\ RecoveryNext /\ UNCHANGED <<officerVars, googleVars, kycVars>>
       \/ part = "officer" /\ OfficerNext /\ UNCHANGED <<allAccountVars, googleVars, kycVars>>
       \/ part = "google" /\ GoogleNext /\ UNCHANGED <<allAccountVars, officerVars, kycVars>>
       \/ part = "kyc" /\ KycNext /\ UNCHANGED <<allAccountVars, officerVars, googleVars>>

ServerSpec == ServerInit /\ [][ServerNext]_serverVars

\* The type invariants of the parts.
ServerTypeOK == RecoveryTypeOK /\ OfficerTypeOK /\ GoogleTypeOK /\ KycTypeOK

Interchangeable ==
    Permutations(Wallets) \cup Permutations(Passwords) \cup Permutations(Tokens)
        \cup Permutations(Begins)
===============================================================================
