----------------------------- MODULE Server_proofs -----------------------------
(***************************************************************************)
(* Proofs about the server's services side by side, for every set of       *)
(* wallets, callers, challenges, redirects and submissions: the two        *)
(* challenge flows that wait for a vendor, and the composition that        *)
(* MCServer checks.                                                        *)
(***************************************************************************)
EXTENDS MCServer, PasswordRecovery_proofs, SequenceTheorems, FiniteSetTheorems

-------------------------------------------------------------------------------
(* Google sign-in. LinksAreEarned compares a completion with what Google said *)
(* and with earlier completions, which complete() does not look at: it looks  *)
(* at redirectVerified and consumed. VerifiedIsProven and CompletedIsConsumed *)
(* say that these flags tell the truth, WaitingIsProven carries the nonce     *)
(* through the last await of a redirect.                                      *)

RedirectsBegun == \A r \in Redirects : redirect[r] # NoGoogle => Begun(redirect[r].of)

WaitingIsProven == \A r \in Redirects : At(r, "profiling") => redirect[r].of \in proven

VerifiedIsProven == \A s \in States : Begun(s) /\ challenge[s].redirectVerified => s \in proven

CompletedIsConsumed == \A s \in States : completions[s] # 0 => Begun(s) /\ challenge[s].consumed

GoogleIInv ==
    /\ GoogleTypeOK
    /\ RedirectsBegun
    /\ WaitingIsProven
    /\ VerifiedIsProven
    /\ CompletedIsConsumed

(* Every step of the Google flow keeps its invariant.                         *)
LEMMA GoogleStepKeeps ==
    ASSUME GoogleIInv, [GoogleNext]_googleVars
    PROVE  GoogleIInv'
<1> USE DEF GoogleIInv, GoogleTypeOK, RedirectsBegun, WaitingIsProven, VerifiedIsProven,
            CompletedIsConsumed, Begun, Booked, At
<1>1. ASSUME NEW s \in States, NEW w \in Signers, GoogleBegin(s, w)
      PROVE  GoogleIInv'
  <2>1. [wallet |-> w, booked |-> TRUE, late |-> FALSE, redirectVerified |-> FALSE,
         consumed |-> FALSE] \in OAuthChallenge
    BY DEF OAuthChallenge
  <2>2. QED
    BY <1>1, <2>1, GoogleAssumption DEF GoogleBegin
<1>2. ASSUME NEW s \in States, NEW c \in OAuthChallenge,
             Begun(s), c.redirectVerified => s \in proven,
             challenge[s].consumed => c.consumed,
             challenge' = [challenge EXCEPT ![s] = c],
             UNCHANGED <<redirect, proven, completions>>, linked' \subseteq Signers
      PROVE  GoogleIInv'
  BY <1>2, GoogleAssumption
<1>3. ASSUME NEW s \in States, Begun(s)
      PROVE  /\ \A b \in BOOLEAN :
                  LET c == [challenge[s] EXCEPT !.booked = b] IN
                  /\ c \in OAuthChallenge
                  /\ c.redirectVerified = challenge[s].redirectVerified
                  /\ c.consumed = challenge[s].consumed
             /\ LET c == [challenge[s] EXCEPT !.late = TRUE] IN
                  /\ c \in OAuthChallenge
                  /\ c.redirectVerified = challenge[s].redirectVerified
                  /\ c.consumed = challenge[s].consumed
             /\ LET c == [challenge[s] EXCEPT !.redirectVerified = TRUE] IN
                  /\ c \in OAuthChallenge
                  /\ c.consumed = challenge[s].consumed
             /\ LET c == [challenge[s] EXCEPT !.consumed = TRUE] IN
                  /\ c \in OAuthChallenge
                  /\ c.redirectVerified = challenge[s].redirectVerified
                  /\ c.consumed
             /\ LET c == [challenge[s] EXCEPT !.consumed = TRUE, !.booked = FALSE] IN
                  /\ c \in OAuthChallenge
                  /\ c.redirectVerified = challenge[s].redirectVerified
                  /\ c.consumed
  <2>1. challenge[s] \in OAuthChallenge
    BY <1>3
  <2>2. QED
    BY <2>1 DEF OAuthChallenge
<1>4. ASSUME NEW s \in States, DropLate(s) \/ ChallengeLapses(s)
      PROVE  GoogleIInv'
  <2>1. CASE DropLate(s)
    <3> DEFINE c == [challenge[s] EXCEPT !.booked = FALSE]
    <3>1. Begun(s) /\ challenge' = [challenge EXCEPT ![s] = c]
      BY <2>1 DEF DropLate
    <3>2. /\ c \in OAuthChallenge
          /\ c.redirectVerified = challenge[s].redirectVerified
          /\ c.consumed = challenge[s].consumed
      BY <1>3, <3>1
    <3> HIDE DEF c
    <3>3. QED
      BY <1>2, <2>1, <3>1, <3>2 DEF DropLate
  <2>2. CASE ChallengeLapses(s)
    <3> DEFINE c == [challenge[s] EXCEPT !.late = TRUE]
    <3>1. Begun(s) /\ challenge' = [challenge EXCEPT ![s] = c]
      BY <2>2 DEF ChallengeLapses
    <3>2. /\ c \in OAuthChallenge
          /\ c.redirectVerified = challenge[s].redirectVerified
          /\ c.consumed = challenge[s].consumed
      BY <1>3, <3>1
    <3> HIDE DEF c
    <3>3. QED
      BY <1>2, <2>2, <3>1, <3>2 DEF ChallengeLapses
  <2>3. QED
    BY <1>4, <2>1, <2>2
<1>5. ASSUME NEW s \in States, NEW w \in Signers, WrongNonce(w, s)
      PROVE  GoogleIInv'
  BY <1>2, <1>3, <1>5 DEF WrongNonce, Completable, OAuthChallenge
<1>6. ASSUME NEW s \in States, NEW w \in Signers, GoogleComplete(w, s)
      PROVE  GoogleIInv'
  <2> DEFINE c == [challenge[s] EXCEPT !.consumed = TRUE, !.booked = FALSE]
  <2>1. /\ Begun(s) /\ ~challenge[s].consumed /\ challenge[s].redirectVerified
        /\ challenge' = [challenge EXCEPT ![s] = c]
        /\ completions' = [completions EXCEPT ![s] = @ + 1]
        /\ linked' = linked \cup {w}
        /\ UNCHANGED <<redirect, proven>>
    BY <1>6 DEF GoogleComplete, Completable, Spend
  <2>2. /\ c \in OAuthChallenge
        /\ c.redirectVerified = challenge[s].redirectVerified
        /\ c.consumed
    BY <1>3, <2>1
  <2> HIDE DEF c
  <2>3. completions[s] = 0
    BY <2>1
  <2>4. completions' = [completions EXCEPT ![s] = 1]
    BY <2>1, <2>3
  <2>5. QED
    BY <2>1, <2>2, <2>4, GoogleAssumption
<1>7. ASSUME NEW r \in Redirects, Exchanged(r) \/ RedirectFails(r)
      PROVE  GoogleIInv'
  BY <1>7, GoogleAssumption DEF Exchanged, RedirectFails, GoogleRedirect, GooglePhases
<1>8. ASSUME NEW r \in Redirects, NEW s \in States, RedirectStarts(r, s)
      PROVE  GoogleIInv'
  BY <1>8, GoogleAssumption DEF RedirectStarts, Peekable, GoogleRedirect, GooglePhases
<1>9. ASSUME NEW r \in Redirects, NEW s \in States, TokenVerified(r, s)
      PROVE  GoogleIInv'
  BY <1>9, GoogleAssumption DEF TokenVerified, NonceMatches, GoogleRedirect, GooglePhases
<1>10. ASSUME NEW r \in Redirects, RedirectSucceeds(r)
       PROVE  GoogleIInv'
  <2> DEFINE s == redirect[r].of
             c == [challenge[s] EXCEPT !.redirectVerified = TRUE]
  <2>1. redirect[r] \in GoogleRedirect /\ s \in States /\ s \in proven /\ Begun(s)
    BY <1>10 DEF RedirectSucceeds, GoogleRedirect
  <2>2. /\ challenge' = [challenge EXCEPT ![s] = c]
        /\ UNCHANGED <<linked, proven, completions>>
    BY <1>10 DEF RedirectSucceeds
  <2>3. c \in OAuthChallenge /\ c.consumed = challenge[s].consumed
    BY <1>3, <2>1
  <2>4. /\ redirect' \in [Redirects -> GoogleRedirect \cup {NoGoogle}]
        /\ \A q \in Redirects : redirect'[q] # NoGoogle =>
             redirect[q] # NoGoogle /\ redirect'[q].of = redirect[q].of
        /\ \A q \in Redirects : At(q, "profiling")' => At(q, "profiling")
    BY <1>10, <2>1, GoogleAssumption DEF RedirectSucceeds, GoogleRedirect, GooglePhases
  <2> HIDE DEF s, c
  <2>5. QED
    BY <2>1, <2>2, <2>3, <2>4, GoogleAssumption
<1>11. CASE GoogleRestart
  <2>1. \A s \in States : Begun(s) =>
          /\ challenge'[s] \in OAuthChallenge
          /\ challenge'[s].redirectVerified = challenge[s].redirectVerified
          /\ challenge'[s].consumed = challenge[s].consumed
    BY <1>3, <1>11 DEF GoogleRestart
  <2>2. /\ \A s \in States : ~Begun(s) => challenge'[s] = NoGoogle
        /\ challenge' = [s \in States |-> challenge'[s]]
        /\ UNCHANGED <<linked, proven, completions>>
    BY <1>11 DEF GoogleRestart
  <2>3. /\ redirect' \in [Redirects -> GoogleRedirect \cup {NoGoogle}]
        /\ \A q \in Redirects : redirect'[q] # NoGoogle =>
             redirect[q] # NoGoogle /\ redirect'[q].of = redirect[q].of
        /\ \A q \in Redirects : ~At(q, "profiling")'
    BY <1>11, GoogleAssumption DEF GoogleRestart, GoogleRedirect, GooglePhases
  <2>4. challenge' \in [States -> OAuthChallenge \cup {NoGoogle}]
    BY <2>1, <2>2
  <2>5. \A s \in States : Begun(s)' <=> Begun(s)
    BY <2>1, <2>2, GoogleAssumption
  <2>6. GoogleTypeOK'
    BY <2>2, <2>3, <2>4
  <2>7. RedirectsBegun' /\ WaitingIsProven'
    BY <2>3, <2>5 DEF GoogleRedirect
  <2>8. VerifiedIsProven' /\ CompletedIsConsumed'
    BY <2>1, <2>2, <2>5
  <2>9. QED
    BY <2>6, <2>7, <2>8
<1>12. CASE UNCHANGED googleVars
  BY <1>12 DEF googleVars
<1>13. QED
  BY <1>1, <1>4, <1>5, <1>6, <1>7, <1>8, <1>9, <1>10, <1>11, <1>12 DEF GoogleNext

(* Every behaviour of the Google flow keeps its invariant: completions is a   *)
(* flag, and every flag of a challenge tells what happened to it.             *)
THEOREM GoogleInductive == GoogleSpec => []GoogleIInv
<1>1. GoogleInit => GoogleIInv
  BY GoogleAssumption DEF GoogleInit, GoogleIInv, GoogleTypeOK, RedirectsBegun, WaitingIsProven,
     VerifiedIsProven, CompletedIsConsumed, Begun, At
<1>2. GoogleIInv /\ [GoogleNext]_googleVars => GoogleIInv'
  BY GoogleStepKeeps
<1>3. QED
  BY <1>1, <1>2, PTL DEF GoogleSpec

(* A wallet's Google factor rests on a challenge of that wallet whose nonce    *)
(* came back in a verified ID token, accepted once and in time                *)
(* (google-provider.ts:176-224, 231-249).                                     *)
THEOREM LinksAreEarnedHolds == GoogleSpec => LinksAreEarned
<1> DEFINE Earned ==
      /\ \A s \in States :
            completions'[s] # completions[s] =>
                /\ s \in proven /\ completions[s] = 0
                /\ ~challenge[s].consumed /\ ~challenge[s].late
      /\ \A w \in linked' \ linked : \E s \in States :
            challenge[s] # NoGoogle /\ challenge[s].wallet = w /\ completions'[s] = 1
<1>1. GoogleIInv /\ [GoogleNext]_googleVars => [Earned]_googleVars
  <2> SUFFICES ASSUME GoogleIInv, [GoogleNext]_googleVars PROVE Earned \/ UNCHANGED googleVars
    OBVIOUS
  <2>1. ASSUME NEW s \in States, NEW w \in Signers, GoogleComplete(w, s)
        PROVE  Earned
    <3>1. /\ Begun(s) /\ ~challenge[s].consumed /\ ~challenge[s].late
          /\ challenge[s].redirectVerified /\ challenge[s].wallet = w
          /\ completions' = [completions EXCEPT ![s] = @ + 1]
          /\ linked' = linked \cup {w}
      BY <2>1 DEF GoogleComplete, Completable, Booked
    <3>2. completions[s] = 0 /\ s \in proven /\ completions \in [States -> 0..1]
      BY <3>1 DEF GoogleIInv, GoogleTypeOK, VerifiedIsProven, CompletedIsConsumed
    <3>3. completions'[s] = 1 /\ \A q \in States : q # s => completions'[q] = completions[q]
      BY <3>1, <3>2
    <3>4. challenge[s] # NoGoogle
      BY <3>1 DEF Begun
    <3>5. QED
      BY <3>1, <3>2, <3>3, <3>4
  <2>2. ASSUME UNCHANGED <<completions, linked>> PROVE Earned
    BY <2>2
  <2>3. CASE UNCHANGED googleVars
    BY <2>3
  <2>4. QED
    BY <2>1, <2>2, <2>3 DEF GoogleNext, GoogleBegin, WrongNonce, DropLate, ChallengeLapses, Exchanged,
       RedirectSucceeds, RedirectFails, RedirectStarts, TokenVerified, GoogleRestart
<1>2. QED
  BY <1>1, GoogleInductive, PTL DEF GoogleSpec, LinksAreEarned

-------------------------------------------------------------------------------
(* The mobile KYC challenge. The observers posts and told see only what left  *)
(* the server; the code looks at the session. AttemptsArePosts says that its  *)
(* counter is that of the vendor, ToldIsDropped that an answered session can  *)
(* take no more codes, SubmissionsBegun that an answer finds its session.     *)

AttemptsArePosts ==
    \A c \in KycSessions : posts[c] = IF kyc[c] = NoKyc THEN 0 ELSE kyc[c].attempts

ToldIsDropped == \A c \in told : KycAt(c, "dropped")

SubmissionsBegun ==
    \A v \in Submissions : submission[v] \in KycSessions =>
        kyc[submission[v]] # NoKyc /\ kyc[submission[v]].at # "begun"

KycIInv ==
    /\ KycTypeOK
    /\ AttemptsArePosts
    /\ ToldIsDropped
    /\ SubmissionsBegun

(* A step that writes the one session c, not back to "begun" and without      *)
(* changing its counter, and that leaves the observers alone, keeps KycIInv.  *)
LEMMA KycWritten ==
    ASSUME KycIInv, NEW c \in KycSessions, NEW k \in KycSession,
           kyc[c] # NoKyc, k.attempts = kyc[c].attempts, k.at # "begun",
           kyc[c].at = "dropped" => k.at = "dropped",
           kyc' = [kyc EXCEPT ![c] = k],
           UNCHANGED <<posts, told>>, receipts' \subseteq Mobiles,
           submission' \in [Submissions -> KycSessions \cup {NoKyc, "over"}],
           \A v \in Submissions : submission'[v] \in KycSessions => submission'[v] = submission[v]
    PROVE  KycIInv'
<1> USE DEF KycIInv, KycTypeOK, AttemptsArePosts, ToldIsDropped, SubmissionsBegun, KycAt
<1>1. KycTypeOK'
  OBVIOUS
<1>2. AttemptsArePosts'
  BY KycAssumption
<1>3. ToldIsDropped'
  BY KycAssumption
<1>4. SubmissionsBegun'
  BY KycAssumption
<1>5. QED
  BY <1>1, <1>2, <1>3, <1>4

(* What the field updates of the module make of a session that exists.        *)
LEMMA KycFields ==
    ASSUME KycTypeOK, NEW c \in KycSessions, kyc[c] # NoKyc
    PROVE  /\ kyc[c] \in KycSession
           /\ \A place \in {"booked", "dropped"} :
                LET k == [kyc[c] EXCEPT !.at = place] IN
                k \in KycSession /\ k.at = place /\ k.attempts = kyc[c].attempts
           /\ LET k == [kyc[c] EXCEPT !.late = TRUE] IN
                k \in KycSession /\ k.at = kyc[c].at /\ k.attempts = kyc[c].attempts
<1>1. kyc[c] \in KycSession
  BY DEF KycTypeOK
<1>2. QED
  BY <1>1 DEF KycSession

(* Every step of the mobile flow keeps its invariant.                         *)
LEMMA KycStepKeeps ==
    ASSUME KycIInv, [KycNext]_kycVars
    PROVE  KycIInv'
<1> USE DEF KycIInv, KycTypeOK, AttemptsArePosts, ToldIsDropped, SubmissionsBegun, KycAt
<1>1. ASSUME NEW c \in KycSessions, NEW m \in Mobiles, StartChallenge(c, m)
      PROVE  KycIInv'
  <2> DEFINE k == [mobile |-> m, at |-> "begun", late |-> FALSE, attempts |-> 0]
  <2>1. k \in KycSession /\ k.attempts = 0
    BY KycAssumption DEF KycSession
  <2>2. /\ kyc[c] = NoKyc /\ kyc' = [kyc EXCEPT ![c] = k]
        /\ UNCHANGED <<submission, receipts, posts, told>>
    BY <1>1 DEF StartChallenge
  <2> HIDE DEF k
  <2>3. c \notin told
    BY <2>2
  <2>4. QED
    BY <2>1, <2>2, <2>3, KycAssumption
<1>2. ASSUME NEW c \in KycSessions, ChallengeStored(c)
      PROVE  KycIInv'
  <2>1. \A d \in KycSessions : kyc[d] # NoKyc =>
          /\ kyc'[d] \in KycSession
          /\ kyc'[d].attempts = kyc[d].attempts
          /\ kyc'[d].at = "begun" => kyc[d].at = "begun"
          /\ kyc[d].at = "dropped" => kyc'[d].at = "dropped"
    BY <1>2, KycFields DEF ChallengeStored
  <2>2. /\ \A d \in KycSessions : kyc[d] = NoKyc => kyc'[d] = NoKyc
        /\ kyc' = [d \in KycSessions |-> kyc'[d]]
        /\ UNCHANGED <<submission, receipts, posts, told>>
    BY <1>2 DEF ChallengeStored
  <2>3. KycTypeOK'
    BY <2>1, <2>2
  <2>4. AttemptsArePosts' /\ ToldIsDropped' /\ SubmissionsBegun'
    BY <2>1, <2>2, KycAssumption
  <2>5. QED
    BY <2>3, <2>4
<1>3. ASSUME NEW c \in KycSessions, ChallengeRefused(c) \/ SubmitTooLate(c)
      PROVE  KycIInv'
  <2> DEFINE k == [kyc[c] EXCEPT !.at = "dropped"]
  <2>1. /\ kyc[c] # NoKyc /\ kyc' = [kyc EXCEPT ![c] = k]
        /\ UNCHANGED <<submission, receipts, posts, told>>
    BY <1>3 DEF ChallengeRefused, SubmitTooLate
  <2>2. k \in KycSession /\ k.at = "dropped" /\ k.attempts = kyc[c].attempts
    BY <2>1, KycFields
  <2> HIDE DEF k
  <2>3. QED
    BY <2>1, <2>2, KycWritten
<1>4. ASSUME NEW c \in KycSessions, KycLapses(c)
      PROVE  KycIInv'
  <2> DEFINE k == [kyc[c] EXCEPT !.late = TRUE]
  <2>1. /\ kyc[c] # NoKyc /\ kyc[c].at = "booked" /\ kyc' = [kyc EXCEPT ![c] = k]
        /\ UNCHANGED <<submission, receipts, posts, told>>
    BY <1>4 DEF KycLapses
  <2>2. k \in KycSession /\ k.at = "booked" /\ k.attempts = kyc[c].attempts
    BY <2>1, KycFields
  <2> HIDE DEF k
  <2>3. QED
    BY <2>1, <2>2, KycWritten
<1>5. ASSUME NEW v \in Submissions, NEW c \in KycSessions, Submit(v, c)
      PROVE  KycIInv'
  <2> DEFINE k == [kyc[c] EXCEPT !.attempts = @ + 1]
  <2>1. /\ kyc[c] # NoKyc /\ kyc[c].at = "booked" /\ kyc[c].attempts < MaxChallengeAttempts
        /\ kyc' = [kyc EXCEPT ![c] = k]
        /\ submission' = [submission EXCEPT ![v] = c]
        /\ posts' = [posts EXCEPT ![c] = @ + 1]
        /\ UNCHANGED <<receipts, told>>
    BY <1>5 DEF Submit, Counted
  <2>2. kyc[c] \in KycSession /\ kyc[c].attempts \in 0..MaxChallengeAttempts + 1
    BY <2>1 DEF KycSession
  <2>3. kyc[c].attempts + 1 \in 0..MaxChallengeAttempts + 1
    BY <2>1, <2>2, KycAssumption
  <2>4. k \in KycSession /\ k.at = "booked" /\ k.attempts = kyc[c].attempts + 1
    BY <2>1, <2>2, <2>3 DEF KycSession
  <2> HIDE DEF k
  <2>5. posts[c] = kyc[c].attempts /\ c \notin told
    BY <2>1
  <2>6. posts' = [posts EXCEPT ![c] = k.attempts] /\ k.attempts \in Nat
    BY <2>1, <2>3, <2>4, <2>5, KycAssumption
  <2>7. KycTypeOK'
    BY <2>1, <2>4, <2>6
  <2>8. AttemptsArePosts'
    BY <2>1, <2>4, <2>6, KycAssumption
  <2>9. ToldIsDropped'
    BY <2>1, <2>5
  <2>10. SubmissionsBegun'
    BY <2>1, <2>4, KycAssumption
  <2>11. QED
    BY <2>7, <2>8, <2>9, <2>10
<1>6. ASSUME NEW v \in Submissions, NEW matches \in BOOLEAN, VendorAnswers(v, matches)
      PROVE  KycIInv'
  <2> DEFINE c == submission[v]
             k == [kyc[c] EXCEPT !.at = "dropped"]
  <2>1. /\ c \in KycSessions /\ kyc[c] # NoKyc
        /\ kyc' = [kyc EXCEPT ![c] = k]
        /\ receipts' \subseteq receipts \cup {kyc[c].mobile}
        /\ told' = told \cup {c}
        /\ submission' = [submission EXCEPT ![v] = "over"]
        /\ UNCHANGED posts
    BY <1>6 DEF VendorAnswers, EndsWithAnswer
  <2>2. k \in KycSession /\ k.at = "dropped" /\ k.attempts = kyc[c].attempts
    BY <2>1, KycFields
  <2>3. kyc[c].mobile \in Mobiles
    BY <2>1, KycFields DEF KycSession
  <2> HIDE DEF k, c
  <2>4. KycTypeOK'
    BY <2>1, <2>2, <2>3
  <2>5. AttemptsArePosts' /\ ToldIsDropped'
    BY <2>1, <2>2, KycAssumption
  <2>6. SubmissionsBegun'
    BY <2>1, <2>2, KycAssumption
  <2>7. QED
    BY <2>4, <2>5, <2>6
<1>7. ASSUME NEW v \in Submissions, VendorFails(v)
      PROVE  KycIInv'
  BY <1>7, KycAssumption DEF VendorFails
<1>8. ASSUME NEW m \in Mobiles, DirectLink(m)
      PROVE  KycIInv'
  BY <1>8 DEF DirectLink
<1>9. CASE KycRestart
  <2>1. \A d \in KycSessions : kyc[d] # NoKyc =>
          /\ kyc'[d] \in KycSession
          /\ kyc'[d].attempts = kyc[d].attempts
          /\ kyc'[d].at = "dropped"
    BY <1>9, KycFields DEF KycRestart
  <2>2. /\ \A d \in KycSessions : kyc[d] = NoKyc => kyc'[d] = NoKyc
        /\ kyc' = [d \in KycSessions |-> kyc'[d]]
        /\ submission' \in [Submissions -> {NoKyc, "over"}]
        /\ UNCHANGED <<receipts, posts, told>>
    BY <1>9 DEF KycRestart
  <2>3. KycTypeOK'
    BY <2>1, <2>2
  <2>4. AttemptsArePosts' /\ ToldIsDropped' /\ SubmissionsBegun'
    BY <2>1, <2>2, KycAssumption
  <2>5. QED
    BY <2>3, <2>4
<1>10. CASE UNCHANGED kycVars
  BY <1>10 DEF kycVars
<1>11. QED
  BY <1>1, <1>2, <1>3, <1>4, <1>5, <1>6, <1>7, <1>8, <1>9, <1>10 DEF KycNext

(* Every behaviour of the mobile flow keeps its invariant.                    *)
THEOREM KycInductive == KycSpec => []KycIInv
<1>1. KycInit => KycIInv
  BY KycAssumption DEF KycInit, KycIInv, KycTypeOK, AttemptsArePosts, ToldIsDropped,
     SubmissionsBegun, KycAt
<1>2. KycIInv /\ [KycNext]_kycVars => KycIInv'
  BY KycStepKeeps
<1>3. QED
  BY <1>1, <1>2, PTL DEF KycSpec

(* However many submissions of a challenge wait at once, the vendor sees no    *)
(* more of them than the limit, and none once it has answered                 *)
(* (identity-provider.ts:132-136, 148-149).                                   *)
THEOREM SubmissionsAreBoundedHolds == KycSpec => SubmissionsAreBounded
<1> DEFINE Bounded == \A c \in KycSessions :
             posts'[c] # posts[c] => posts[c] < MaxChallengeAttempts /\ c \notin told
<1>1. KycIInv /\ [KycNext]_kycVars => [Bounded]_kycVars
  <2> SUFFICES ASSUME KycIInv, [KycNext]_kycVars PROVE Bounded \/ UNCHANGED kycVars
    OBVIOUS
  <2>1. ASSUME NEW v \in Submissions, NEW c \in KycSessions, Submit(v, c)
        PROVE  Bounded
    BY <2>1, KycAssumption
    DEF Submit, KycIInv, KycTypeOK, AttemptsArePosts, ToldIsDropped, KycAt
  <2>2. ASSUME UNCHANGED posts PROVE Bounded
    BY <2>2
  <2>3. QED
    BY <2>1, <2>2 DEF KycNext, ChallengeStored, ChallengeRefused, SubmitTooLate, KycLapses,
       StartChallenge, DirectLink, VendorFails, VendorAnswers, KycRestart
<1>2. QED
  BY <1>1, KycInductive, PTL DEF KycSpec, SubmissionsAreBounded

-------------------------------------------------------------------------------
(* The limiter. events is what the code keeps, checks every stamp of this life *)
(* of the process; the code never sorts its list, but stamps come in order, so *)
(* that dropping stale ones cuts off a beginning and nothing else.             *)

Sorted(s) == \A i, j \in 1..Len(s) : i <= j => s[i] <= s[j]

(* The end e of the stale stamps of an ordered list.                          *)
CutAt(s, e) ==
    /\ e \in 0..Len(s)
    /\ \A i \in 1..e : ~Fresh(s[i])
    /\ \A i \in (e + 1)..Len(s) : Fresh(s[i])

(* An ordered list of stamps has such an end: the least number after which    *)
(* every stamp is fresh.                                                      *)
LEMMA SortedIsCut ==
    ASSUME NEW S \in SUBSET Nat, NEW s \in Seq(S), Sorted(s), now \in Nat
    PROVE  \E e : CutAt(s, e)
<1> DEFINE Ends == {n \in 0..Len(s) : \A i \in (n + 1)..Len(s) : Fresh(s[i])}
<1>1. /\ Len(s) \in Ends /\ Ends \in SUBSET Nat
      /\ \A i \in 1..Len(s) : s[i] \in Nat
  <2>1. Len(s) \in Nat /\ \A i \in 1..Len(s) : s[i] \in S
    OBVIOUS
  <2>2. \A i \in 1..Len(s) : s[i] \in Nat
    BY <2>1
  <2>3. Len(s) \in Ends
    BY <2>1
  <2>4. Ends \in SUBSET Nat
    BY <2>1
  <2> HIDE DEF Ends
  <2>5. QED
    BY <2>2, <2>3, <2>4
<1>2. PICK e \in Ends : \A b \in Ends : <<b, e>> \notin OpToRel(<, Nat)
  BY <1>1, WFMin, NatLessThanWellFounded
<1>3. \A b \in Ends : ~(b < e)
  BY <1>1, <1>2 DEF OpToRel
<1>4. e \in 0..Len(s) /\ \A i \in (e + 1)..Len(s) : Fresh(s[i])
  OBVIOUS
<1>5. ASSUME e > 0 PROVE ~Fresh(s[e])
  <2>1. e - 1 \in 0..Len(s) /\ e - 1 < e
    BY <1>4, <1>5
  <2>2. e - 1 \notin Ends
    BY <1>3, <2>1
  <2>3. PICK i \in e..Len(s) : ~Fresh(s[i])
    BY <2>1, <2>2
  <2>4. QED
    BY <1>4, <2>3
<1>6. ASSUME NEW i \in 1..e PROVE ~Fresh(s[i])
  <2>1. i \in 1..Len(s) /\ e \in 1..Len(s) /\ s[i] <= s[e]
    BY <1>4, <1>6 DEF Sorted
  <2>2. ~Fresh(s[e])
    BY <1>4, <1>5, <1>6
  <2>3. QED
    BY <1>1, <2>1, <2>2, LimiterAssumption DEF Fresh
<1>7. QED
  BY <1>4, <1>6 DEF CutAt

(* What filter() keeps of an ordered list is what comes after that end.       *)
LEMMA AliveIsRest ==
    ASSUME NEW k \in Callers, NEW e, events[k] \in Seq(0..MaxTime), CutAt(events[k], e)
    PROVE  Alive(k) = SubSeq(events[k], e + 1, Len(events[k]))
<1> DEFINE s == events[k]
           Of(f) == [n \in 0..Len(s) |->
                       IF n = 0 THEN <<>>
                       ELSE IF Fresh(s[n]) THEN Append(f[n - 1], s[n])
                       ELSE f[n - 1]]
           g == [n \in 0..Len(s) |-> SubSeq(s, e + 1, n)]
           kept == CHOOSE f : f = Of(f)
<1>1. Alive(k) = kept[Len(s)]
  BY DEF Alive
<1>2. s \in Seq(0..MaxTime) /\ Len(s) \in Nat /\ e \in 0..Len(s)
  BY DEF CutAt
<1>3. ASSUME NEW n \in 1..Len(s), n <= e
      PROVE  g[n] = <<>> /\ g[n - 1] = <<>> /\ ~Fresh(s[n])
  BY <1>2, <1>3 DEF CutAt
<1>4. ASSUME NEW n \in 1..Len(s), n > e
      PROVE  g[n] = Append(g[n - 1], s[n]) /\ Fresh(s[n])
  <2>1. e + 1 \in 1..Len(s) /\ n \in (e + 1)..Len(s) /\ n - 1 \in 0..Len(s)
    BY <1>2, <1>4
  <2>2. SubSeq(s, e + 1, n) = SubSeq(s, e + 1, n - 1) \o <<s[n]>>
    BY <1>2, <2>1, SubSeqRecursiveSecond
  <2>3. SubSeq(s, e + 1, n - 1) \in Seq(0..MaxTime) /\ s[n] \in 0..MaxTime
    <3>1. \A i \in 1..Len(s) : s[i] \in 0..MaxTime
      BY <1>2, ElementOfSeq
    <3>2. e + 1 \in Int /\ n - 1 \in Int /\ \A i \in (e + 1)..(n - 1) : i \in 1..Len(s)
      BY <1>2
    <3> HIDE DEF s
    <3>3. QED
      BY <3>1, <3>2, SubSeqProperties
  <2>4. SubSeq(s, e + 1, n) = Append(SubSeq(s, e + 1, n - 1), s[n])
    BY <2>2, <2>3, AppendIsConcat
  <2>5. g[n] = SubSeq(s, e + 1, n) /\ g[n - 1] = SubSeq(s, e + 1, n - 1)
    <3>1. n \in 0..Len(s)
      BY <1>2
    <3>2. \A m \in 0..Len(s) : g[m] = SubSeq(s, e + 1, m)
      OBVIOUS
    <3> HIDE DEF g, s
    <3>3. QED
      BY <2>1, <3>1, <3>2
  <2>6. QED
    BY <2>1, <2>4, <2>5 DEF CutAt
<1>5. g[0] = <<>>
  BY <1>2
<1>6. g = Of(g)
  <2>1. ASSUME NEW n \in 0..Len(s) PROVE g[n] = Of(g)[n]
    <3>1. n = 0 \/ (n \in 1..Len(s) /\ n <= e) \/ (n \in 1..Len(s) /\ n > e)
      BY <1>2
    <3> HIDE DEF g
    <3>2. QED
      BY <1>3, <1>4, <1>5, <3>1
  <2>2. g = [n \in 0..Len(s) |-> g[n]]
    OBVIOUS
  <2> HIDE DEF g
  <2>3. QED
    BY <2>1, <2>2
<1>7. kept = Of(kept)
  <2> HIDE DEF g, Of, s
  <2>1. QED
    BY <1>6
<1>8. \A n \in 0..Len(s) : kept[n] = g[n]
  <2> DEFINE Wrong == {n \in 0..Len(s) : kept[n] # g[n]}
  <2>1. SUFFICES ASSUME Wrong # {} PROVE FALSE
    OBVIOUS
  <2>2. PICK n \in Wrong : \A b \in Wrong : <<b, n>> \notin OpToRel(<, Nat)
    <3>1. Wrong \in SUBSET Nat
      BY <1>2
    <3> HIDE DEF Wrong
    <3>2. QED
      BY <2>1, <3>1, WFMin, NatLessThanWellFounded
  <2>3. \A b \in 0..Len(s) : b < n => kept[b] = g[b]
    <3>1. n \in Nat /\ Wrong \in SUBSET Nat
      BY <1>2
    <3>2. \A b \in Wrong : ~(b < n)
      <4> HIDE DEF Wrong
      <4>1. QED
        BY <2>2, <3>1 DEF OpToRel
    <3> HIDE DEF g, kept
    <3>3. QED
      BY <3>2
  <2>4. n \in 0..Len(s) /\ (n # 0 => kept[n - 1] = g[n - 1])
    <3> HIDE DEF g, kept
    <3>1. n \in 0..Len(s)
      OBVIOUS
    <3>2. n # 0 => n - 1 \in 0..Len(s) /\ n - 1 < n
      BY <1>2, <3>1
    <3>3. QED
      BY <2>3, <3>1, <3>2
  <2> HIDE DEF g, kept
  <2>5. kept[n] = Of(g)[n]
    BY <1>7, <2>4
  <2>6. QED
    BY <1>6, <2>2, <2>5
<1>9. kept[Len(s)] = g[Len(s)]
  <2> HIDE DEF kept, g
  <2>1. QED
    BY <1>2, <1>8
<1>10. g[Len(s)] = SubSeq(s, e + 1, Len(s))
  BY <1>2
<1>11. QED
  BY <1>1, <1>9, <1>10

(* The part of an ordered list after the place d.                             *)
Rest(s, d) == SubSeq(s, d + 1, Len(s))

(* The length and the elements of such a part.                                *)
LEMMA RestProperties ==
    ASSUME NEW S, NEW s \in Seq(S), NEW d \in 0..Len(s)
    PROVE  /\ Rest(s, d) \in Seq(S)
           /\ Len(Rest(s, d)) = Len(s) - d
           /\ \A i \in 1..(Len(s) - d) : Rest(s, d)[i] = s[d + i]
<1>1. Len(s) \in Nat /\ d + 1 \in Int /\ \A i \in 1..Len(s) : s[i] \in S
  BY ElementOfSeq
<1>2. \A i \in (d + 1)..Len(s) : s[i] \in S
  BY <1>1
<1>3. /\ SubSeq(s, d + 1, Len(s)) \in Seq(S)
      /\ Len(SubSeq(s, d + 1, Len(s))) = IF d + 1 <= Len(s) THEN Len(s) - (d + 1) + 1 ELSE 0
      /\ \A i \in 1..(Len(s) - (d + 1) + 1) : SubSeq(s, d + 1, Len(s))[i] = s[(d + 1) + i - 1]
  BY <1>1, <1>2, SubSeqProperties
<1>4. Rest(s, d) \in Seq(S) /\ Len(Rest(s, d)) = Len(s) - d
  BY <1>1, <1>3 DEF Rest
<1>5. ASSUME NEW i \in 1..(Len(s) - d) PROVE Rest(s, d)[i] = s[d + i]
  <2>1. i \in 1..(Len(s) - (d + 1) + 1) /\ (d + 1) + i - 1 = d + i
    BY <1>1
  <2>2. QED
    BY <1>3, <2>1 DEF Rest
<1>6. QED
  BY <1>4, <1>5

(* A part of a part is a part of the whole.                                   *)
LEMMA RestOfRest ==
    ASSUME NEW S, NEW s \in Seq(S), NEW d \in 0..Len(s), NEW e \in 0..(Len(s) - d)
    PROVE  Rest(Rest(s, d), e) = Rest(s, d + e)
<1> DEFINE r == Rest(s, d)
<1>1. r \in Seq(S) /\ Len(r) = Len(s) - d /\ \A i \in 1..(Len(s) - d) : r[i] = s[d + i]
  BY RestProperties
<1>2. Len(s) \in Nat /\ e \in 0..Len(r) /\ d + e \in 0..Len(s)
  BY <1>1
<1> HIDE DEF r
<1>3. /\ Rest(r, e) \in Seq(S) /\ Len(Rest(r, e)) = Len(r) - e
      /\ \A i \in 1..(Len(r) - e) : Rest(r, e)[i] = r[e + i]
  BY <1>1, <1>2, RestProperties
<1>4. /\ Rest(s, d + e) \in Seq(S) /\ Len(Rest(s, d + e)) = Len(s) - (d + e)
      /\ \A i \in 1..(Len(s) - (d + e)) : Rest(s, d + e)[i] = s[(d + e) + i]
  BY <1>2, RestProperties
<1>5. Len(Rest(r, e)) = Len(Rest(s, d + e))
  <2>1. (Len(s) - d) - e = Len(s) - (d + e)
    BY <1>2
  <2>2. QED
    BY <1>1, <1>3, <1>4, <2>1
<1>6. ASSUME NEW i \in 1..Len(Rest(r, e)) PROVE Rest(r, e)[i] = Rest(s, d + e)[i]
  <2>1. i \in 1..(Len(r) - e) /\ e + i \in 1..(Len(s) - d) /\ i \in 1..(Len(s) - (d + e))
    BY <1>1, <1>2, <1>3, <1>6
  <2>2. d + (e + i) = (d + e) + i
    BY <1>2, <2>1
  <2>3. QED
    BY <1>1, <1>3, <1>4, <2>1, <2>2
<1>7. Rest(r, e) = Rest(s, d + e)
  BY <1>3, <1>4, <1>5, <1>6, SeqEqual
<1>8. QED
  BY <1>7 DEF r

-------------------------------------------------------------------------------
(* The officer's desk. AttemptsAreMetered counts in checks what the limiter   *)
(* decides on events. EventsAreTheRest ties the two: a caller's list is what   *)
(* is left of its checks when some stale ones are gone from the front.        *)

ChecksInOrder ==
    \A k \in Callers : Sorted(checks[k]) /\ \A i \in 1..Len(checks[k]) : checks[k][i] <= now

RestFrom(k, d) ==
    /\ d \in 0..Len(checks[k])
    /\ \A i \in 1..d : ~Fresh(checks[k][i])
    /\ events[k] = Rest(checks[k], d)

EventsAreTheRest == \A k \in Callers : \E d : RestFrom(k, d)

OfficerIInv ==
    /\ OfficerTypeOK
    /\ ChecksInOrder
    /\ EventsAreTheRest

(* In such a state the stamps that filter() keeps are the fresh checks.       *)
LEMMA AliveIsFresh ==
    ASSUME OfficerIInv, NEW k \in Callers
    PROVE  \E e : /\ CutAt(checks[k], e) /\ Alive(k) = Rest(checks[k], e)
                  /\ Len(checks[k]) - e <= MaxEvents
<1> DEFINE c == checks[k]
<1>1. c \in Seq(0..MaxTime) /\ Sorted(c) /\ now \in Nat /\ Len(c) \in Nat
  BY LimiterAssumption DEF OfficerIInv, OfficerTypeOK, ChecksInOrder, LimiterTypeOK
<1>2. PICK d : RestFrom(k, d)
  BY DEF OfficerIInv, EventsAreTheRest
<1>3. 0..MaxTime \in SUBSET Nat
  BY LimiterAssumption
<1>4. PICK e : CutAt(c, e)
  <2> HIDE DEF c
  <2>1. QED
    BY <1>1, <1>3, SortedIsCut
<1>5. d \in 0..Len(c) /\ e \in 0..Len(c) /\ d <= e
  BY <1>1, <1>2, <1>4 DEF RestFrom, CutAt
<1>6. /\ events[k] \in Seq(0..MaxTime) /\ Len(events[k]) = Len(c) - d
      /\ \A i \in 1..(Len(c) - d) : events[k][i] = c[d + i]
  BY <1>1, <1>2, <1>5, RestProperties DEF RestFrom
<1>7. CutAt(events[k], e - d)
  <2>1. e - d \in 0..Len(events[k])
    BY <1>1, <1>5, <1>6
  <2>2. ASSUME NEW i \in 1..(e - d) PROVE ~Fresh(events[k][i])
    <3>1. d + i \in 1..e /\ i \in 1..(Len(c) - d)
      BY <1>1, <1>5
    <3> HIDE DEF c
    <3>2. QED
      BY <1>4, <1>6, <3>1 DEF CutAt
  <2>3. ASSUME NEW i \in (e - d + 1)..Len(events[k]) PROVE Fresh(events[k][i])
    <3>1. d + i \in (e + 1)..Len(c) /\ i \in 1..(Len(c) - d)
      BY <1>1, <1>5, <1>6
    <3> HIDE DEF c
    <3>2. QED
      BY <1>4, <1>6, <3>1 DEF CutAt
  <2>4. QED
    BY <2>1, <2>2, <2>3 DEF CutAt
<1>8. Alive(k) = Rest(events[k], e - d)
  BY <1>6, <1>7, AliveIsRest DEF Rest
<1>9. Rest(Rest(c, d), e - d) = Rest(c, e)
  <2> HIDE DEF c
  <2>1. e - d \in 0..(Len(c) - d) /\ d + (e - d) = e
    BY <1>1, <1>5
  <2>2. QED
    BY <1>1, <1>5, <2>1, RestOfRest
<1>10. Len(c) - e <= MaxEvents
  <2>1. Len(c) - d <= MaxEvents
    BY <1>6 DEF OfficerIInv, OfficerTypeOK, LimiterTypeOK
  <2>2. QED
    BY <1>1, <1>5, <2>1, LimiterAssumption
<1>11. QED
  BY <1>2, <1>4, <1>8, <1>9, <1>10 DEF RestFrom

(* A step that prunes lists to what filter() keeps, or leaves them, and        *)
(* touches no check, keeps a list the rest of its checks.                     *)
LEMMA PruningKeeps ==
    ASSUME OfficerIInv, NEW k \in Callers,
           UNCHANGED <<now, checks>>,
           events'[k] \in {events[k], Alive(k)}
    PROVE  /\ events'[k] \in Seq(0..MaxTime) /\ Len(events'[k]) <= MaxEvents
           /\ \E d : RestFrom(k, d)'
<1>1. checks[k] \in Seq(0..MaxTime) /\ events[k] \in Seq(0..MaxTime) /\ Len(events[k]) <= MaxEvents
  BY DEF OfficerIInv, OfficerTypeOK, LimiterTypeOK
<1>2. PICK d : RestFrom(k, d)
  BY DEF OfficerIInv, EventsAreTheRest
<1>3. PICK e : CutAt(checks[k], e) /\ Alive(k) = Rest(checks[k], e)
  BY AliveIsFresh
<1>4. d <= e /\ d \in 0..Len(checks[k]) /\ e \in 0..Len(checks[k]) /\ Len(checks[k]) \in Nat
  BY <1>1, <1>2, <1>3 DEF RestFrom, CutAt
<1>5. /\ Alive(k) \in Seq(0..MaxTime) /\ Len(Alive(k)) = Len(checks[k]) - e
      /\ Len(events[k]) = Len(checks[k]) - d
  BY <1>1, <1>2, <1>3, <1>4, RestProperties DEF RestFrom
<1>6. Len(Alive(k)) <= MaxEvents
  BY <1>1, <1>4, <1>5, LimiterAssumption
<1>7. CASE events'[k] = events[k]
  <2>1. RestFrom(k, d)'
    BY <1>2, <1>7 DEF RestFrom, Fresh
  <2>2. QED
    BY <1>1, <1>7, <2>1
<1>8. CASE events'[k] = Alive(k)
  <2>1. RestFrom(k, e)'
    BY <1>3, <1>8 DEF RestFrom, CutAt, Fresh
  <2>2. QED
    BY <1>5, <1>6, <1>8, <2>1
<1>9. QED
  BY <1>7, <1>8

(* A granted attempt that is compared puts the clock at the end of both lists. *)
LEMMA GrantKeeps ==
    ASSUME OfficerIInv, NEW k \in Callers, TakeGranted(k), Compare(k)
    PROVE  LimiterTypeOK' /\ checks' \in [Callers -> Seq(0..MaxTime)]
           /\ ChecksInOrder' /\ EventsAreTheRest'
<1> DEFINE c == checks[k]
           grown == Append(c, now)
<1>1. /\ c \in Seq(0..MaxTime) /\ now \in 0..MaxTime /\ MaxTime \in Nat
      /\ Len(c) \in Nat
      /\ Sorted(c) /\ \A i \in 1..Len(c) : c[i] <= now
      /\ \A i \in 1..Len(c) : c[i] \in 0..MaxTime
  BY LimiterAssumption, ElementOfSeq DEF OfficerIInv, OfficerTypeOK, LimiterTypeOK, ChecksInOrder
<1>2. PICK e : CutAt(c, e) /\ Alive(k) = Rest(c, e)
  BY AliveIsFresh
<1>3. e \in 0..Len(c)
  BY <1>2 DEF CutAt
<1>4. /\ checks \in [Callers -> Seq(0..MaxTime)]
      /\ checks' = [checks EXCEPT ![k] = grown] /\ now' = now
      /\ events \in [Callers -> Seq(0..MaxTime)]
      /\ events' = [events EXCEPT ![k] = Append(Rest(c, e), now)]
      /\ Len(Rest(c, e)) < MaxEvents
  BY <1>2 DEF TakeGranted, Compare, Admitted, OfficerIInv, OfficerTypeOK, LimiterTypeOK
<1> HIDE DEF c
<1>5. /\ grown \in Seq(0..MaxTime) /\ Len(grown) = Len(c) + 1
      /\ grown[Len(c) + 1] = now /\ \A i \in 1..Len(c) : grown[i] = c[i]
  BY <1>1, AppendProperties
<1>6. /\ Rest(c, e) \in Seq(0..MaxTime) /\ Len(Rest(c, e)) = Len(c) - e
      /\ \A i \in 1..(Len(c) - e) : Rest(c, e)[i] = c[e + i]
  BY <1>1, <1>3, RestProperties
<1>7. Append(Rest(c, e), now) = Rest(grown, e)
  <2> DEFINE a == Append(Rest(c, e), now)
             b == Rest(grown, e)
  <2>1. /\ a \in Seq(0..MaxTime) /\ Len(a) = (Len(c) - e) + 1
        /\ a[(Len(c) - e) + 1] = now
        /\ \A i \in 1..(Len(c) - e) : a[i] = c[e + i]
    BY <1>1, <1>6, AppendProperties
  <2>2. e \in 0..Len(grown)
    BY <1>1, <1>3, <1>5
  <2> HIDE DEF grown
  <2>3. /\ b \in Seq(0..MaxTime) /\ Len(b) = Len(grown) - e
        /\ \A i \in 1..(Len(grown) - e) : b[i] = grown[e + i]
    BY <1>5, <2>2, RestProperties
  <2> HIDE DEF a, b
  <2>4. Len(a) = Len(b)
    BY <1>1, <1>3, <1>5, <2>1, <2>3
  <2>5. ASSUME NEW i \in 1..Len(a) PROVE a[i] = b[i]
    <3>1. i \in 1..(Len(grown) - e)
      BY <2>3, <2>4, <2>5
    <3>2. CASE i \in 1..(Len(c) - e)
      <4>1. e + i \in 1..Len(c)
        BY <1>1, <1>3, <3>2
      <4>2. QED
        BY <1>5, <2>1, <2>3, <3>1, <3>2, <4>1
    <3>3. CASE i = (Len(c) - e) + 1
      <4>1. e + i = Len(c) + 1
        BY <1>1, <1>3, <3>3
      <4>2. QED
        BY <1>5, <2>1, <2>3, <3>1, <3>3, <4>1
    <3>4. QED
      BY <1>1, <1>3, <2>1, <2>5, <3>2, <3>3
  <2>6. a = b
    BY <2>1, <2>3, <2>4, <2>5, SeqEqual
  <2>7. QED
    BY <2>6 DEF a, b
<1> HIDE DEF grown
<1>8. Append(Rest(c, e), now) \in Seq(0..MaxTime) /\ Len(Append(Rest(c, e), now)) <= MaxEvents
  <2>1. /\ Append(Rest(c, e), now) \in Seq(0..MaxTime)
        /\ Len(Append(Rest(c, e), now)) = Len(Rest(c, e)) + 1
    BY <1>1, <1>6, AppendProperties
  <2>2. Len(Rest(c, e)) \in Int
    BY <1>1, <1>3, <1>6
  <2>3. QED
    BY <1>4, <2>1, <2>2, LimiterAssumption
<1>9. LimiterTypeOK'
  BY <1>4, <1>8 DEF LimiterTypeOK, OfficerIInv, OfficerTypeOK
<1>10. checks' \in [Callers -> Seq(0..MaxTime)]
  BY <1>4, <1>5
<1>11. Sorted(grown) /\ \A i \in 1..Len(grown) : grown[i] <= now
  <2>1. \A i \in 1..Len(grown) : i \in 1..Len(c) \/ i = Len(c) + 1
    BY <1>1, <1>5
  <2>2. \A i \in 1..Len(grown) : grown[i] \in 0..MaxTime /\ grown[i] <= now
    <3>1. \A i \in 1..Len(c) : grown[i] \in 0..MaxTime /\ grown[i] <= now
      BY <1>1, <1>5
    <3>2. grown[Len(c) + 1] \in 0..MaxTime /\ grown[Len(c) + 1] <= now
      BY <1>1, <1>5
    <3>3. QED
      BY <2>1, <3>1, <3>2
  <2>3. ASSUME NEW i \in 1..Len(grown), NEW j \in 1..Len(grown), i <= j
        PROVE  grown[i] <= grown[j]
    <3>1. CASE j = Len(c) + 1
      BY <1>5, <2>2, <3>1
    <3>2. CASE j \in 1..Len(c)
      <4>1. i \in 1..Len(c)
        BY <1>1, <2>3, <3>2
      <4>2. QED
        BY <1>1, <1>5, <2>3, <3>2, <4>1 DEF Sorted
    <3>3. QED
      BY <2>1, <3>1, <3>2
  <2>4. QED
    BY <2>2, <2>3 DEF Sorted
<1>12. ChecksInOrder'
  BY <1>4, <1>11 DEF ChecksInOrder, OfficerIInv
<1>13. RestFrom(k, e)'
  <2>1. checks'[k] = grown /\ events'[k] = Rest(grown, e)
    BY <1>4, <1>7
  <2>2. e \in 0..Len(grown) /\ \A i \in 1..e : i \in 1..Len(c)
    BY <1>1, <1>3, <1>5
  <2>3. \A i \in 1..e : ~Fresh(grown[i])
    BY <1>2, <1>5, <2>2 DEF CutAt
  <2>4. QED
    BY <1>4, <2>1, <2>2, <2>3 DEF RestFrom, Fresh
<1>14. ASSUME NEW q \in Callers, q # k PROVE \E d : RestFrom(q, d)'
  <2>1. PICK d : RestFrom(q, d)
    BY DEF OfficerIInv, EventsAreTheRest
  <2>2. checks'[q] = checks[q] /\ events'[q] = events[q]
    BY <1>4, <1>14
  <2>3. RestFrom(q, d)'
    BY <1>4, <2>1, <2>2 DEF RestFrom, Fresh
  <2>4. QED
    BY <2>3
<1>15. EventsAreTheRest'
  BY <1>13, <1>14 DEF EventsAreTheRest
<1>16. QED
  BY <1>9, <1>10, <1>12, <1>15

(* Every step at the desk keeps its invariant.                                *)
LEMMA OfficerStepKeeps ==
    ASSUME OfficerIInv, [OfficerNext]_officerVars
    PROVE  OfficerIInv'
<1> DEFINE Rows == officer' \in Officers \cup {Nobody} /\ desk' \in [1..MaxDesk -> {"absent", "live", "late"}]
<1>1. ASSUME UNCHANGED <<now, checks>>, Rows,
             events' = [k \in Callers |-> events'[k]],
             \A k \in Callers : events'[k] \in {events[k], Alive(k)}
      PROVE  OfficerIInv'
  <2>1. \A k \in Callers :
          /\ events'[k] \in Seq(0..MaxTime) /\ Len(events'[k]) <= MaxEvents
          /\ \E d : RestFrom(k, d)'
    BY <1>1, PruningKeeps
  <2>2. LimiterTypeOK'
    BY <1>1, <2>1 DEF LimiterTypeOK, OfficerIInv, OfficerTypeOK
  <2>3. OfficerTypeOK'
    BY <1>1, <2>2 DEF OfficerTypeOK, OfficerIInv
  <2>4. ChecksInOrder'
    BY <1>1 DEF ChecksInOrder, OfficerIInv
  <2>5. QED
    BY <2>1, <2>3, <2>4 DEF OfficerIInv, EventsAreTheRest
<1>2. ASSUME NEW k \in Callers, TakeGranted(k), Compare(k), Rows
      PROVE  OfficerIInv'
  BY <1>2, GrantKeeps DEF OfficerIInv, OfficerTypeOK
<1>3. officer \in Officers \cup {Nobody} /\ desk \in [1..MaxDesk -> {"absent", "live", "late"}]
  BY DEF OfficerIInv, OfficerTypeOK
<1>4. events \in [Callers -> Seq(0..MaxTime)]
  BY DEF OfficerIInv, OfficerTypeOK, LimiterTypeOK
<1>5. ASSUME NEW k \in Callers, NEW o \in Officers,
             RefuseOfficer(k) \/ RegisterOfficer(k, o) \/ LoginOfficer(k, o)
      PROVE  OfficerIInv'
  <2>1. TakeGranted(k) /\ Compare(k)
    BY <1>5 DEF RefuseOfficer, RegisterOfficer, LoginOfficer
  <2>2. Rows
    BY <1>3, <1>5 DEF RefuseOfficer, RegisterOfficer, LoginOfficer, OpenDesk
  <2>3. QED
    BY <1>2, <2>1, <2>2
<1>6. ASSUME NEW k \in Callers, RefuseOfficer(k)
      PROVE  OfficerIInv'
  BY <1>2, <1>3, <1>6 DEF RefuseOfficer
<1>7. ASSUME NEW k \in Callers, OfficerLimited(k)
      PROVE  OfficerIInv'
  <2>1. events' = [events EXCEPT ![k] = Alive(k)] /\ UNCHANGED <<now, checks, officer, desk>>
    BY <1>7 DEF OfficerLimited, TakeRefused
  <2>2. QED
    BY <1>1, <1>3, <1>4, <2>1
<1>8. ASSUME NEW i \in 1..MaxDesk, LapseDesk(i) \/ CloseDesk(i)
      PROVE  OfficerIInv'
  <2>1. UNCHANGED <<now, events, checks>> /\ Rows
    BY <1>3, <1>8 DEF LapseDesk, CloseDesk, limiterVars
  <2>2. QED
    BY <1>1, <1>4, <2>1
<1>9. CASE SweepLimiter /\ UNCHANGED <<officer, desk, checks>>
  <2>1. /\ events' = [k \in Callers |-> Alive(k)] /\ UNCHANGED <<now, checks>> /\ Rows
    BY <1>3, <1>9 DEF SweepLimiter
  <2>2. QED
    BY <1>1, <2>1
<1>10. CASE Tick /\ UNCHANGED <<officer, desk, checks>>
  <2>1. /\ now \in 0..MaxTime /\ now < MaxTime /\ now' = now + 1 /\ MaxTime \in Nat /\ Window \in Nat
        /\ UNCHANGED <<events, officer, desk, checks>>
    BY <1>10, LimiterAssumption DEF Tick, OfficerIInv, OfficerTypeOK, LimiterTypeOK
  <2>2. OfficerTypeOK'
    BY <2>1 DEF OfficerIInv, OfficerTypeOK, LimiterTypeOK
  <2>3. \A k \in Callers, i \in Nat : i \in 1..Len(checks[k]) => checks[k][i] \in 0..MaxTime
    BY ElementOfSeq DEF OfficerIInv, OfficerTypeOK
  <2>4. ChecksInOrder'
    BY <2>1, <2>3 DEF OfficerIInv, ChecksInOrder
  <2>5. ASSUME NEW k \in Callers PROVE \E d : RestFrom(k, d)'
    <3>1. PICK d : RestFrom(k, d)
      BY DEF OfficerIInv, EventsAreTheRest
    <3>2. Len(checks[k]) \in Nat
      BY DEF OfficerIInv, OfficerTypeOK
    <3>3. \A i \in 1..d : ~((now + 1) - checks[k][i] < Window)
      BY <2>1, <2>3, <3>1, <3>2 DEF RestFrom, Fresh
    <3>4. RestFrom(k, d)'
      <4>1. d \in 0..Len(checks'[k]) /\ events'[k] = Rest(checks'[k], d)
        BY <2>1, <3>1 DEF RestFrom
      <4>2. \A i \in 1..d : ~Fresh(checks[k][i])'
        BY <2>1, <3>3 DEF Fresh
      <4>3. QED
        BY <4>1, <4>2 DEF RestFrom
    <3>5. QED
      BY <3>4
  <2>6. QED
    BY <2>2, <2>4, <2>5 DEF OfficerIInv, EventsAreTheRest
<1>11. CASE OfficerRestart
  <2>1. /\ events' = [k \in Callers |-> <<>>] /\ checks' = [k \in Callers |-> <<>>]
        /\ UNCHANGED <<now, officer, desk>>
    BY <1>11 DEF OfficerRestart, ForgetCallers
  <2>2. OfficerTypeOK' /\ ChecksInOrder'
    BY <2>1, LimiterAssumption DEF OfficerIInv, OfficerTypeOK, LimiterTypeOK, ChecksInOrder, Sorted
  <2>3. \A k \in Callers : RestFrom(k, 0)'
    BY <2>1 DEF RestFrom, Rest
  <2>4. QED
    BY <2>2, <2>3 DEF OfficerIInv, EventsAreTheRest
<1>12. CASE UNCHANGED officerVars
  <2>1. UNCHANGED <<now, events, checks, officer, desk>>
    BY <1>12 DEF officerVars, limiterVars
  <2>2. QED
    BY <1>1, <1>3, <1>4, <2>1
<1>13. QED
  BY <1>5, <1>6, <1>7, <1>8, <1>9, <1>10, <1>11, <1>12 DEF OfficerNext

(* Every behaviour of the desk keeps its invariant.                           *)
THEOREM OfficerInductive == OfficerSpec => []OfficerIInv
<1>1. OfficerInit => OfficerIInv
  <2> SUFFICES ASSUME OfficerInit PROVE OfficerIInv
    OBVIOUS
  <2>1. OfficerTypeOK /\ ChecksInOrder
    BY LimiterAssumption
    DEF OfficerInit, LimiterInit, OfficerTypeOK, LimiterTypeOK, ChecksInOrder, Sorted
  <2>2. \A k \in Callers : RestFrom(k, 0)
    BY DEF OfficerInit, LimiterInit, RestFrom, Rest
  <2>3. QED
    BY <2>1, <2>2 DEF OfficerIInv, EventsAreTheRest
<1>2. OfficerIInv /\ [OfficerNext]_officerVars => OfficerIInv'
  BY OfficerStepKeeps
<1>3. QED
  BY <1>1, <1>2, PTL DEF OfficerSpec

(* In a state of the invariant the attempts are metered.                      *)
LEMMA MeteredWhenInOrder == OfficerIInv => AttemptsAreMetered
<1> SUFFICES ASSUME OfficerIInv, NEW k \in Callers
             PROVE  /\ Cardinality(ComparedUpTo(k, now)) <= MaxEvents
                    /\ Admitted(k) <=> Cardinality(ComparedUpTo(k, now)) < MaxEvents
                    /\ ~Admitted(k) =>
                         \A t \in now..(now + Window) :
                             Cardinality(ComparedUpTo(k, t)) < MaxEvents <=> t >= now + RetryAfter(k)
  BY DEF AttemptsAreMetered
<1> DEFINE c == checks[k]
<1>1. /\ c \in Seq(0..MaxTime) /\ Len(c) \in Nat /\ DOMAIN c = 1..Len(c)
      /\ now \in Nat /\ MaxEvents \in Nat \ {0} /\ Window \in Nat \ {0}
      /\ Sorted(c) /\ \A i \in 1..Len(c) : c[i] <= now
      /\ \A i \in 1..Len(c) : c[i] \in Nat
  BY LimiterAssumption, ElementOfSeq DEF OfficerIInv, OfficerTypeOK, LimiterTypeOK, ChecksInOrder
<1>2. PICK e : CutAt(c, e) /\ Alive(k) = Rest(c, e) /\ Len(c) - e <= MaxEvents
  BY AliveIsFresh
<1> DEFINE Seen(t) == {i \in 1..Len(c) : c[i] <= t /\ t - c[i] < Window}
<1>3. \A t : ComparedUpTo(k, t) = Seen(t)
  BY <1>1 DEF ComparedUpTo
<1> HIDE DEF c
<1>4. /\ e \in 0..Len(c) /\ \A i \in 1..e : ~(now - c[i] < Window)
      /\ \A i \in (e + 1)..Len(c) : now - c[i] < Window
  BY <1>2 DEF CutAt, Fresh
<1>5. e \in Nat /\ Len(c) \in Nat /\ e <= Len(c) /\ MaxEvents \in Nat \ {0}
  BY <1>1, <1>4
<1>6. Len(Alive(k)) = Len(c) - e /\ \A i \in 1..(Len(c) - e) : Alive(k)[i] = c[e + i]
  <2>1. /\ Len(Rest(c, e)) = Len(c) - e
        /\ \A i \in 1..(Len(c) - e) : Rest(c, e)[i] = c[e + i]
    BY <1>1, <1>4, RestProperties
  <2>2. QED
    BY <1>2, <2>1
<1>7. ASSUME NEW t \in Nat, now <= t PROVE Seen(t) \subseteq (e + 1)..Len(c)
  <2>1. ASSUME NEW i \in 1..e PROVE ~(t - c[i] < Window)
    <3>1. i \in 1..Len(c) /\ c[i] \in Nat /\ ~(now - c[i] < Window)
      BY <1>1, <1>4
    <3>2. QED
      BY <1>1, <1>7, <3>1
  <2>2. QED
    BY <1>1, <1>4, <2>1
<1>8. Cardinality((e + 1)..Len(c)) = Len(c) - e /\ IsFiniteSet((e + 1)..Len(c))
  <2>1. e + 1 \in Int /\ Len(c) \in Int
    BY <1>1, <1>4
  <2>2. /\ IsFiniteSet((e + 1)..Len(c))
        /\ Cardinality((e + 1)..Len(c)) = IF e + 1 > Len(c) THEN 0 ELSE Len(c) - (e + 1) + 1
    BY <2>1, FS_Interval
  <2>3. (IF e + 1 > Len(c) THEN 0 ELSE Len(c) - (e + 1) + 1) = Len(c) - e
    BY <1>5
  <2>4. QED
    BY <2>2, <2>3
<1>9. Cardinality(Seen(now)) = Len(c) - e
  <2>1. Seen(now) = (e + 1)..Len(c)
    BY <1>1, <1>4, <1>7
  <2>2. QED
    BY <1>8, <2>1
<1>10. Admitted(k) <=> Len(c) - e < MaxEvents
  BY <1>6 DEF Admitted
<1>11. ASSUME ~Admitted(k), NEW t \in now..(now + Window)
       PROVE  Cardinality(Seen(t)) < MaxEvents <=> t >= now + RetryAfter(k)
  <2>1. Len(c) - e = MaxEvents /\ e + 1 \in 1..Len(c) /\ t \in Nat /\ now <= t
    <3>1. Len(c) - e <= MaxEvents /\ ~(Len(c) - e < MaxEvents)
      BY <1>2, <1>10, <1>11
    <3>2. Len(c) - e = MaxEvents /\ e + 1 \in 1..Len(c)
      BY <1>5, <3>1
    <3>3. t \in Nat /\ now <= t
      BY <1>1, <1>11
    <3>4. QED
      BY <3>2, <3>3
  <2>2. RetryAfter(k) = (c[e + 1] + Window) - now /\ c[e + 1] \in Nat
    BY <1>1, <1>4, <1>6, <2>1 DEF RetryAfter
  <2>3. now + RetryAfter(k) = c[e + 1] + Window
    BY <1>1, <2>2
  <2>4. CASE t >= c[e + 1] + Window
    <3>1. e + 1 \notin Seen(t)
      BY <1>1, <2>1, <2>2, <2>4
    <3>2. Seen(t) \subseteq (e + 2)..Len(c)
      <4>1. Seen(t) \subseteq (e + 1)..Len(c)
        BY <1>7, <2>1
      <4>2. \A i \in (e + 1)..Len(c) : i = e + 1 \/ i \in (e + 2)..Len(c)
        BY <1>1, <1>4
      <4> HIDE DEF Seen
      <4>3. QED
        BY <3>1, <4>1, <4>2
    <3>3. Cardinality((e + 2)..Len(c)) = (Len(c) - e) - 1 /\ IsFiniteSet((e + 2)..Len(c))
      <4>1. e + 2 \in Int /\ Len(c) \in Int
        BY <1>1, <1>4
      <4>2. /\ IsFiniteSet((e + 2)..Len(c))
            /\ Cardinality((e + 2)..Len(c)) = IF e + 2 > Len(c) THEN 0 ELSE Len(c) - (e + 2) + 1
        BY <4>1, FS_Interval
      <4>3. (IF e + 2 > Len(c) THEN 0 ELSE Len(c) - (e + 2) + 1) = (Len(c) - e) - 1
        BY <1>5, <2>1
      <4>4. QED
        BY <4>2, <4>3
    <3> HIDE DEF Seen
    <3>4. Cardinality(Seen(t)) \in Nat /\ Cardinality(Seen(t)) <= Cardinality((e + 2)..Len(c))
      BY <3>2, <3>3, FS_Subset, FS_CardinalityType
    <3>5. QED
      BY <1>1, <2>1, <2>3, <2>4, <3>3, <3>4
  <2>5. CASE ~(t >= c[e + 1] + Window)
    <3>1. ASSUME NEW i \in (e + 1)..Len(c) PROVE i \in Seen(t)
      <4>1. i \in 1..Len(c) /\ c[i] \in Nat /\ c[i] <= now
        BY <1>1, <1>4
      <4>2. c[e + 1] <= c[i]
        BY <1>1, <1>4, <2>1, <4>1 DEF Sorted
      <4>3. QED
        BY <1>1, <2>1, <2>2, <2>5, <4>1, <4>2
    <3>2. Seen(t) = (e + 1)..Len(c)
      BY <1>7, <2>1, <3>1
    <3>3. Cardinality(Seen(t)) = MaxEvents
      BY <1>8, <2>1, <3>2
    <3> HIDE DEF Seen
    <3>4. QED
      BY <1>1, <2>3, <2>5, <3>3
  <2>6. QED
    BY <2>4, <2>5
<1> HIDE DEF Seen
<1>12. QED
  BY <1>2, <1>3, <1>9, <1>10, <1>11

(* However sweeps and refusals prune a caller's list, in every window of one   *)
(* life of the process at most MaxEvents secrets are compared for it; it is    *)
(* turned away exactly when the window is full, and the wait it is told is the *)
(* shortest after which it is let in (rate-limiter.ts:32-50).                 *)
THEOREM AttemptsAreMeteredHolds == OfficerSpec => []AttemptsAreMetered
BY OfficerInductive, MeteredWhenInOrder, PTL

-------------------------------------------------------------------------------
(* The composition that MCServer checks: each service, whatever the others do, *)
(* behaves as its own specification says, and its promises hold beside theirs. *)

(* A step of the composition is, for each service, a step of it or a stutter.  *)
LEMMA ServerStepIsOfParts ==
    ASSUME [ServerNext]_serverVars
    PROVE  /\ [RecoveryNext]_allAccountVars
           /\ [OfficerNext]_officerVars
           /\ [GoogleNext]_googleVars
           /\ [KycNext]_kycVars
<1>1. CASE ServerNext
  BY <1>1 DEF ServerNext
<1>2. CASE UNCHANGED serverVars
  BY <1>2 DEF serverVars
<1>3. QED
  BY <1>1, <1>2

(* The composition implements the specification of every service.             *)
THEOREM ServerImplementsParts ==
    ServerSpec => RecoverySpec /\ OfficerSpec /\ GoogleSpec /\ KycSpec
<1>1. ServerInit => RecoveryInit /\ OfficerInit /\ GoogleInit /\ KycInit
  BY DEF ServerInit
<1>2. [ServerNext]_serverVars => /\ [RecoveryNext]_allAccountVars /\ [OfficerNext]_officerVars
                                 /\ [GoogleNext]_googleVars /\ [KycNext]_kycVars
  BY ServerStepIsOfParts
<1>3. QED
  BY <1>1, <1>2, PTL DEF ServerSpec, RecoverySpec, OfficerSpec, GoogleSpec, KycSpec

(* Every variable of the composition stays in its set.                        *)
THEOREM ServerTypeCorrect == ServerSpec => []ServerTypeOK
<1>1. RecoveryIInv /\ OfficerIInv /\ GoogleIInv /\ KycIInv => ServerTypeOK
  BY DEF RecoveryIInv, OfficerIInv, GoogleIInv, KycIInv, ServerTypeOK
<1>2. QED
  BY <1>1, ServerImplementsParts, RecoveryInductive, OfficerInductive, GoogleInductive,
     KycInductive, PTL

(* What the services promise one by one, the composition promises: no other    *)
(* service, and nothing in how they are wired, takes it back.                 *)
THEOREM ServerKeepsPromises ==
    ServerSpec => /\ [](WalletBinding /\ IdentityRestsOnFace /\ SessionsUnderCurrentPassword)
                  /\ [](GatesAreTheRows /\ AttemptsAreMetered)
                  /\ TokensAreSpentOnce /\ LinksAreEarned /\ SubmissionsAreBounded
BY ServerImplementsParts, WalletBindingHolds, IdentityRestsOnFaceHolds,
   SessionsUnderCurrentPasswordHolds, GatesAreTheRowsHolds, AttemptsAreMeteredHolds,
   TokensAreSpentOnceHolds, LinksAreEarnedHolds, SubmissionsAreBoundedHolds, PTL

===============================================================================
