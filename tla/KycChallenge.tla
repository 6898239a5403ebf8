----------------------------- MODULE KycChallenge -----------------------------
(***************************************************************************)
(* server/services/identity-provider.ts, the flow with a one-time code: a  *)
(* challenge is begun at the vendor, codes are submitted to it, each        *)
(* submission counted before it waits for the vendor. Several submissions  *)
(* of one challenge may wait at once. The session map is in memory.        *)
(***************************************************************************)
EXTENDS Naturals

CONSTANTS
    Mobiles,            \* normalised mobile numbers
    KycSessions,        \* bound: challenges begun
    Submissions,        \* bound: calls of verifyAadhaarMobileVerification
    MaxChallengeAttempts,
    NoKyc

VARIABLES
    kyc,            \* kyc[c]: the session, or NoKyc; begun is the wait for the vendor
    submission,     \* submission[v]: the challenge it waits for, NoKyc or "over"
    receipts,       \* mobiles a receipt was given for
    posts,          \* observer: submissions that reached the vendor
    told            \* observer: challenges the vendor has answered

kycVars == <<kyc, submission, receipts, posts, told>>

KycSession == [mobile : Mobiles, at : {"begun", "booked", "dropped"}, late : BOOLEAN,
               attempts : 0..MaxChallengeAttempts + 1]

\* undefined is no object; a session id is random and no mark of this module.
ASSUME KycAssumption ==
    /\ MaxChallengeAttempts \in Nat \ {0}
    /\ NoKyc \notin KycSession
    /\ {NoKyc, "over"} \cap KycSessions = {}

KycTypeOK ==
    /\ kyc \in [KycSessions -> KycSession \cup {NoKyc}]
    /\ submission \in [Submissions -> KycSessions \cup {NoKyc, "over"}]
    /\ receipts \subseteq Mobiles
    /\ posts \in [KycSessions -> Nat]
    /\ told \subseteq KycSessions

KycInit ==
    /\ kyc = [c \in KycSessions |-> NoKyc]
    /\ submission = [v \in Submissions |-> NoKyc]
    /\ receipts = {}
    /\ posts = [c \in KycSessions |-> 0]
    /\ told = {}

KycAt(c, place) == kyc[c] # NoKyc /\ kyc[c].at = place

StartChallenge(c, m) ==
    /\ kyc[c] = NoKyc
    /\ kyc' = [kyc EXCEPT ![c] = [mobile |-> m, at |-> "begun", late |-> FALSE, attempts |-> 0]]
    /\ UNCHANGED <<submission, receipts, posts, told>>

\* sweepSessions runs when a challenge is stored.
ChallengeStored(c) ==
    /\ KycAt(c, "begun")
    /\ kyc' = [d \in KycSessions |->
           IF d = c THEN [kyc[c] EXCEPT !.at = "booked"]
           ELSE IF KycAt(d, "booked") /\ kyc[d].late THEN [kyc[d] EXCEPT !.at = "dropped"]
           ELSE kyc[d]]
    /\ UNCHANGED <<submission, receipts, posts, told>>

ChallengeRefused(c) ==
    /\ KycAt(c, "begun")
    /\ kyc' = [kyc EXCEPT ![c].at = "dropped"]
    /\ UNCHANGED <<submission, receipts, posts, told>>

\* directLinkCheck: no challenge, the answer gives the receipt.
DirectLink(m) ==
    /\ receipts' = receipts \cup {m}
    /\ UNCHANGED <<kyc, submission, posts, told>>

Counted(c) == kyc' = [kyc EXCEPT ![c].attempts = @ + 1]

Submit(v, c) ==
    /\ submission[v] = NoKyc
    /\ KycAt(c, "booked") /\ ~kyc[c].late
    /\ kyc[c].attempts < MaxChallengeAttempts
    /\ Counted(c)
    /\ submission' = [submission EXCEPT ![v] = c]
    /\ posts' = [posts EXCEPT ![c] = @ + 1]
    /\ UNCHANGED <<receipts, told>>

\* One attempt too many, or a late session: the session is dropped.
SubmitTooLate(c) ==
    /\ KycAt(c, "booked")
    /\ kyc[c].late \/ kyc[c].attempts >= MaxChallengeAttempts
    /\ kyc' = [kyc EXCEPT ![c].at = "dropped"]
    /\ UNCHANGED <<submission, receipts, posts, told>>

\* Mutant: only a link ends the challenge.
EndsWithAnswerLinked(linked) == linked

EndsWithAnswer(linked) == linked \in BOOLEAN

\* The vendor says linked, not linked or something unclear.
VendorAnswers(v, linked) ==
    /\ submission[v] \in KycSessions
    /\ LET c == submission[v] IN
       /\ kyc' = IF EndsWithAnswer(linked) THEN [kyc EXCEPT ![c].at = "dropped"] ELSE kyc
       /\ receipts' = IF linked THEN receipts \cup {kyc[c].mobile} ELSE receipts
       /\ told' = told \cup {c}
    /\ submission' = [submission EXCEPT ![v] = "over"]
    /\ UNCHANGED posts

\* No answer in time, or an HTTP error: the session stays for another try.
VendorFails(v) ==
    /\ submission[v] \in KycSessions
    /\ submission' = [submission EXCEPT ![v] = "over"]
    /\ UNCHANGED <<kyc, receipts, posts, told>>

KycLapses(c) ==
    /\ KycAt(c, "booked") /\ ~kyc[c].late
    /\ kyc' = [kyc EXCEPT ![c].late = TRUE]
    /\ UNCHANGED <<submission, receipts, posts, told>>

KycRestart ==
    /\ kyc' = [c \in KycSessions |-> IF kyc[c] = NoKyc THEN NoKyc ELSE [kyc[c] EXCEPT !.at = "dropped"]]
    /\ submission' = [v \in Submissions |-> IF submission[v] = NoKyc THEN NoKyc ELSE "over"]
    /\ UNCHANGED <<receipts, posts, told>>

KycNext ==
    \/ \E c \in KycSessions :
         \/ ChallengeStored(c) \/ ChallengeRefused(c) \/ SubmitTooLate(c) \/ KycLapses(c)
         \/ \E m \in Mobiles : StartChallenge(c, m)
         \/ \E v \in Submissions : Submit(v, c)
    \/ \E m \in Mobiles : DirectLink(m)
    \/ \E v \in Submissions :
         \/ VendorFails(v)
         \/ \E linked \in BOOLEAN : VendorAnswers(v, linked)
    \/ KycRestart

KycSpec == KycInit /\ [][KycNext]_kycVars

-------------------------------------------------------------------------------
(* Properties.                                                               *)

\* However many submissions wait at once, the vendor sees no more of them for
\* one challenge than the limit, and none once it has given an answer, be it an
\* unclear one (identity-provider.ts:132-136, 148-149).
SubmissionsAreBounded ==
    [][\A c \in KycSessions :
         posts'[c] # posts[c] => posts[c] < MaxChallengeAttempts /\ c \notin told]_kycVars
===============================================================================
