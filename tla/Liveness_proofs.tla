---------------------------- MODULE Liveness_proofs ----------------------------
(***************************************************************************)
(* Proofs about the liveness engine for every set of binding keys, prompts *)
(* and observation windows, every number of challenges and every lifetime. *)
(***************************************************************************)
EXTENDS Liveness, SequenceTheorems, TLAPS

-------------------------------------------------------------------------------
(* What an accepted answer leaves of the run: the run itself, one challenge   *)
(* further, or nothing after the last challenge.                              *)
LEMMA AfterAnswerTyped ==
    ASSUME NEW r \in Run
    PROVE  /\ r.next = ChallengeCount => AfterAnswer(r) = Nothing
           /\ r.next # ChallengeCount =>
                /\ r.next + 1 \in 1..ChallengeCount
                /\ AfterAnswer(r) \in Run
                /\ AfterAnswer(r) # Nothing
                /\ AfterAnswer(r).challenges = r.challenges
                /\ AfterAnswer(r).expiresAt = r.expiresAt
                /\ AfterAnswer(r).next = r.next + 1
<1>1. ChallengeCount \in Nat /\ r.next \in 1..ChallengeCount
  BY LivenessAssumption DEF Run
<1>2. CASE r.next = ChallengeCount
  BY <1>2 DEF AfterAnswer
<1>3. CASE r.next # ChallengeCount
  <2>1. r.next + 1 \in 1..ChallengeCount
    BY <1>1, <1>3
  <2>2. AfterAnswer(r) = [r EXCEPT !.next = r.next + 1]
    BY <1>3 DEF AfterAnswer
  <2>3. AfterAnswer(r) \in Run
    BY <2>1, <2>2 DEF Run
  <2>4. QED
    BY <1>3, <2>1, <2>2, <2>3, LivenessAssumption DEF Run
<1>4. QED
  BY <1>2, <1>3

(* The challenge whose turn it is.                                            *)
LEMMA ChallengeDrawn ==
    ASSUME NEW r \in Run, NEW i \in 1..ChallengeCount
    PROVE  r.challenges[i] \in LivenessChallenge
  BY DEF Run, ChallengeLists

(* The fields of a challenge and of a client's evidence.                      *)
LEMMA InputTyped ==
    /\ \A c \in LivenessChallenge : c = [type |-> c.type, value |-> c.value] /\ c.value \in Asked(c.type)
                                     /\ c.type \in Types
    /\ \A ev \in EvidenceInput : /\ ev.type \in Types /\ ev.value \in Asked(ev.type)
                                 /\ ev.ordinal \in Nat
                                 /\ [type |-> ev.type, value |-> ev.value] \in LivenessChallenge
<1>1. ASSUME NEW c \in LivenessChallenge
      PROVE  c = [type |-> c.type, value |-> c.value] /\ c.value \in Asked(c.type) /\ c.type \in Types
  BY DEF LivenessChallenge
<1>2. ASSUME NEW ev \in EvidenceInput
      PROVE  /\ ev.type \in Types /\ ev.value \in Asked(ev.type)
             /\ ev.ordinal \in Nat
             /\ [type |-> ev.type, value |-> ev.value] \in LivenessChallenge
  <2>1. /\ ev.type \in Types /\ ev.value \in Asked(ev.type)
        /\ ev.ordinal \in 0..(ChallengeCount + 1)
    BY DEF EvidenceInput
  <2>2. QED
    BY <2>1, LivenessAssumption DEF LivenessChallenge
<1>3. QED
  BY <1>1, <1>2

(* An accepted answer gives back exactly what the challenge asks for: the     *)
(* drawn number or phrase, and nothing where nothing was drawn.               *)
LEMMA AcceptedIsAsked ==
    ASSUME NEW c \in LivenessChallenge, NEW ev \in EvidenceInput, Accepts(c, ev)
    PROVE  [type |-> ev.type, value |-> ev.value] = c
<1>1. ev.type = c.type
  BY DEF Accepts
<1>2. CASE c.type \in {"finger-count", "phrase"}
  BY <1>1, <1>2, InputTyped DEF Accepts
<1>3. CASE c.type \notin {"finger-count", "phrase"}
  <2>1. Asked(c.type) = {Nothing}
    BY <1>3, InputTyped DEF Asked, Types
  <2>2. ev.value = Nothing /\ c.value = Nothing
    BY <1>1, <2>1, InputTyped
  <2>3. QED
    BY <1>1, <2>2, InputTyped
<1>4. QED
  BY <1>2, <1>3

(* One answer appended to a list of answers.                                  *)
LEMMA AnswerAppended ==
    ASSUME NEW given \in Seq(Answer), NEW a \in Answer
    PROVE  /\ Append(given, a) \in Seq(Answer)
           /\ Len(Append(given, a)) = Len(given) + 1
           /\ DOMAIN given = 1..Len(given) /\ Len(given) \in Nat
           /\ DOMAIN Append(given, a) = 1..(Len(given) + 1)
           /\ \A i \in DOMAIN given : Append(given, a)[i] = given[i]
           /\ Append(given, a)[Len(given) + 1] = a
  OBVIOUS

(* What an accepted answer records, and of which challenge.                   *)
LEMMA AnswerTyped ==
    ASSUME LivenessTypeOK, NEW k \in Bindings, NEW ev \in EvidenceInput, Evidence(k, ev)
    PROVE  LET c == runs[k].challenges[runs[k].next]
           IN  /\ runs[k] \in Run
               /\ c \in LivenessChallenge
               /\ [type |-> ev.type, value |-> ev.value] = c
               /\ [challenge |-> c, ordinal |-> ev.ordinal,
                   given |-> [type |-> ev.type, value |-> ev.value], at |-> clock] \in Answer
<1> DEFINE c == runs[k].challenges[runs[k].next]
<1>1. runs[k] \in Run
  BY DEF Evidence, LivenessTypeOK
<1>2. c \in LivenessChallenge
  BY <1>1, ChallengeDrawn DEF Run
<1>3. [type |-> ev.type, value |-> ev.value] = c
  BY <1>2, AcceptedIsAsked DEF Evidence
<1>4. clock \in Nat
  BY LivenessAssumption DEF LivenessTypeOK
<1>5. QED
  BY <1>1, <1>2, <1>3, <1>4, InputTyped DEF Answer

LEMMA LivenessInitTyped == LivenessInit => LivenessTypeOK
<1>1. <<>> \in Seq(Answer)
  OBVIOUS
<1>2. QED
  BY <1>1, LivenessAssumption DEF LivenessInit, LivenessTypeOK

(* Every step, stuttering included, keeps every type. *)
LEMMA LivenessStepTyped == LivenessTypeOK /\ [LivenessNext]_livenessVars => LivenessTypeOK'
<1> SUFFICES ASSUME LivenessTypeOK, [LivenessNext]_livenessVars
             PROVE  LivenessTypeOK'
  OBVIOUS
<1>1. ASSUME NEW k \in Bindings, NEW list \in ChallengeLists, Start(k, list)
      PROVE  LivenessTypeOK'
  <2>1. [challenges |-> list, expiresAt |-> clock + RunTtl, next |-> 1] \in Run
    BY LivenessAssumption DEF LivenessTypeOK, Run
  <2>2. [since |-> clock, answers |-> <<>>] \in [since : Nat, answers : Seq(Answer)]
    BY LivenessAssumption DEF LivenessTypeOK
  <2>3. QED
    BY <1>1, <2>1, <2>2 DEF Start, LivenessTypeOK
<1>2. ASSUME NEW k \in Bindings, NEW ev \in EvidenceInput, Evidence(k, ev)
      PROVE  LivenessTypeOK'
  <2> DEFINE c == runs[k].challenges[runs[k].next]
             a == [challenge |-> c, ordinal |-> ev.ordinal,
                   given |-> [type |-> ev.type, value |-> ev.value], at |-> clock]
  <2>1. runs[k] \in Run /\ a \in Answer
    BY <1>2, AnswerTyped
  <2>2. AfterAnswer(runs[k]) \in Run \cup {Nothing}
    BY <2>1, AfterAnswerTyped
  <2>3. Append(trail[k].answers, a) \in Seq(Answer)
    BY <2>1, AnswerAppended DEF LivenessTypeOK
  <2>4. runs' = [runs EXCEPT ![k] = AfterAnswer(runs[k])]
    BY <1>2 DEF Evidence
  <2>5. trail' = [trail EXCEPT ![k].answers = Append(trail[k].answers, a)]
    BY <1>2 DEF Evidence
  <2>6. clock' = clock /\ passed' = [passed EXCEPT ![k] = AfterAnswer(runs[k]) = Nothing]
    BY <1>2 DEF Evidence
  <2> HIDE DEF a
  <2>7. trail' \in [Bindings -> [since : Nat, answers : Seq(Answer)]]
    BY <2>3, <2>5 DEF LivenessTypeOK
  <2>8. QED
    BY <2>2, <2>4, <2>6, <2>7 DEF LivenessTypeOK
<1>3. ASSUME NEW k \in Bindings, EvidenceExpired(k) \/ ClearRun(k)
      PROVE  LivenessTypeOK'
  BY <1>3 DEF EvidenceExpired, ClearRun, LivenessTypeOK
<1>4. CASE SweepRuns \/ LivenessRestart
  BY <1>4 DEF SweepRuns, LivenessRestart, LivenessTypeOK
<1>5. CASE LivenessTick
  BY <1>5, LivenessAssumption DEF LivenessTick, LivenessTypeOK
<1>6. CASE UNCHANGED livenessVars
  BY <1>6 DEF livenessVars, LivenessTypeOK
<1>7. QED
  BY <1>1, <1>2, <1>3, <1>4, <1>5, <1>6 DEF LivenessNext

(* Every variable keeps its type. *)
THEOREM LivenessTypeCorrect == LivenessSpec => []LivenessTypeOK
  BY LivenessInitTyped, LivenessStepTyped, PTL DEF LivenessSpec

-------------------------------------------------------------------------------
(* The inductive invariant. PassIsEarned looks back from the end of a run;    *)
(* RunsAreTold says the same of a run that is under way, as far as it got:    *)
(* the answers accepted since its start are those of the challenges before    *)
(* the next one, in order, each given before the run expires.                 *)
Told(k) ==
    LET r == runs[k]
        given == trail[k].answers
    IN  /\ ~passed[k]
        /\ r.expiresAt = trail[k].since + RunTtl
        /\ Len(given) = r.next - 1
        /\ \A i \in DOMAIN given :
             /\ given[i].challenge = r.challenges[i]
             /\ given[i].ordinal = i
             /\ given[i].given = given[i].challenge
             /\ given[i].at < r.expiresAt

RunsAreTold == \A k \in Bindings : runs[k] # Nothing => Told(k)

\* PassIsEarned, of one key.
Earned(k) ==
    LET given == trail[k].answers
    IN  /\ Len(given) = ChallengeCount
        /\ \A i \in DOMAIN given :
             /\ given[i].ordinal = i
             /\ given[i].given = given[i].challenge
             /\ given[i].at < trail[k].since + RunTtl
             /\ \A j \in DOMAIN given : i # j =>
                    given[i].challenge.type # given[j].challenge.type
        /\ \E i \in DOMAIN given : given[i].challenge.type = "phrase"

LivenessIInv == LivenessTypeOK /\ RunsAreTold /\ PassIsEarned

LEMMA PassIsEarnedOfKeys == PassIsEarned <=> \A k \in Bindings : passed[k] => Earned(k)
  BY DEF PassIsEarned, Earned

(* What an accepted answer adds to what is told of the run.                   *)
LEMMA AnswerTold ==
    ASSUME LivenessTypeOK, NEW k \in Bindings, NEW ev \in EvidenceInput, Evidence(k, ev), Told(k)
    PROVE  LET given == trail'[k].answers
           IN  /\ trail'[k].since = trail[k].since
               /\ Len(given) = runs[k].next
               /\ DOMAIN given = 1..runs[k].next
               /\ \A i \in DOMAIN given :
                    /\ given[i].challenge = runs[k].challenges[i]
                    /\ given[i].ordinal = i
                    /\ given[i].given = given[i].challenge
                    /\ given[i].at < runs[k].expiresAt
<1> DEFINE c == runs[k].challenges[runs[k].next]
           a == [challenge |-> c, ordinal |-> ev.ordinal,
                 given |-> [type |-> ev.type, value |-> ev.value], at |-> clock]
           old == trail[k].answers
           n == runs[k].next
<1>1. runs[k] \in Run /\ a \in Answer /\ [type |-> ev.type, value |-> ev.value] = c
  BY AnswerTyped
<1>2. n \in 1..ChallengeCount /\ ChallengeCount \in Nat /\ runs[k].expiresAt \in Nat
  BY <1>1, LivenessAssumption DEF Run
<1>3. ev.ordinal = n /\ clock < runs[k].expiresAt
  BY <1>1, <1>2, LivenessAssumption DEF Evidence, Expired, LivenessTypeOK
<1>4. a.challenge = c /\ a.ordinal = n /\ a.given = c /\ a.at = clock
  BY <1>1, <1>3
<1>5. trail' = [trail EXCEPT ![k].answers = Append(old, a)]
  BY DEF Evidence
<1>6. old \in Seq(Answer) /\ trail[k] \in [since : Nat, answers : Seq(Answer)]
  BY DEF LivenessTypeOK
<1> HIDE DEF a
<1>7. trail'[k].since = trail[k].since /\ trail'[k].answers = Append(old, a)
  BY <1>5, <1>6 DEF LivenessTypeOK
<1>8. Len(old) = n - 1
  BY DEF Told
<1>9. /\ Len(Append(old, a)) = n /\ DOMAIN Append(old, a) = 1..n
      /\ DOMAIN old = 1..(n - 1)
      /\ \A i \in DOMAIN old : Append(old, a)[i] = old[i]
      /\ Append(old, a)[n] = a
  BY <1>1, <1>2, <1>6, <1>8, AnswerAppended
<1>10. ASSUME NEW i \in 1..n
       PROVE  /\ Append(old, a)[i].challenge = runs[k].challenges[i]
              /\ Append(old, a)[i].ordinal = i
              /\ Append(old, a)[i].given = Append(old, a)[i].challenge
              /\ Append(old, a)[i].at < runs[k].expiresAt
  <2>1. CASE i = n
    BY <1>3, <1>4, <1>9, <2>1
  <2>2. CASE i # n
    <3>1. i \in DOMAIN old
      BY <1>2, <1>9, <2>2
    <3>2. QED
      BY <1>9, <3>1 DEF Told
  <2>3. QED
    BY <2>1, <2>2
<1>11. QED
  BY <1>7, <1>9, <1>10

(* The lists that are drawn: distinct types, the phrase among them.           *)
LEMMA ListDrawn ==
    ASSUME NEW r \in Run
    PROVE  /\ \A i, j \in 1..ChallengeCount : i # j => r.challenges[i].type # r.challenges[j].type
           /\ \E i \in 1..ChallengeCount : r.challenges[i].type = "phrase"
  BY DEF Run, ChallengeLists

(* An accepted answer that leaves the run alive is told of it; one that ends  *)
(* the run has earned the pass.                                               *)
LEMMA AnswerEarns ==
    ASSUME LivenessTypeOK, NEW k \in Bindings, NEW ev \in EvidenceInput, Evidence(k, ev), Told(k)
    PROVE  /\ runs'[k] # Nothing => Told(k)'
           /\ passed'[k] => Earned(k)'
<1>1. /\ runs[k] \in Run
      /\ runs'[k] = AfterAnswer(runs[k])
      /\ passed'[k] = (AfterAnswer(runs[k]) = Nothing)
  BY AnswerTyped DEF Evidence, LivenessTypeOK
<1>2. runs[k].next \in Nat /\ ChallengeCount \in Nat
  BY <1>1, LivenessAssumption DEF Run
<1>3. CASE runs[k].next = ChallengeCount
  <2>1. runs'[k] = Nothing
    BY <1>1, <1>3, AfterAnswerTyped
  <2>2. runs[k].expiresAt = trail[k].since + RunTtl
    BY DEF Told
  <2> DEFINE given == trail'[k].answers
             list == runs[k].challenges
  <2>3. /\ Len(given) = ChallengeCount /\ DOMAIN given = 1..ChallengeCount
        /\ \A i \in 1..ChallengeCount :
             /\ given[i].challenge = list[i]
             /\ given[i].ordinal = i
             /\ given[i].given = given[i].challenge
             /\ given[i].at < trail'[k].since + RunTtl
    BY <1>3, <2>2, AnswerTold
  <2>4. /\ \A i, j \in 1..ChallengeCount : i # j => list[i].type # list[j].type
        /\ \E i \in 1..ChallengeCount : list[i].type = "phrase"
    BY <1>1, ListDrawn
  <2>5. Earned(k)'
    <3> HIDE DEF list
    <3>1. \A i, j \in 1..ChallengeCount : i # j => given[i].challenge.type # given[j].challenge.type
      BY <2>3, <2>4
    <3>2. \E i \in 1..ChallengeCount : given[i].challenge.type = "phrase"
      BY <2>3, <2>4
    <3>3. QED
      BY <2>3, <3>1, <3>2 DEF Earned
  <2>6. QED
    BY <2>1, <2>5
<1>4. CASE runs[k].next # ChallengeCount
  <2>1. ~passed'[k]
    BY <1>1, <1>4, AfterAnswerTyped
  <2>2. Told(k)'
    <3>1. /\ runs'[k].challenges = runs[k].challenges
          /\ runs'[k].expiresAt = runs[k].expiresAt
          /\ runs'[k].next = runs[k].next + 1
      BY <1>1, <1>4, AfterAnswerTyped
    <3>2. runs[k].expiresAt = trail[k].since + RunTtl
      BY DEF Told
    <3>3. QED
      BY <1>2, <2>1, <3>1, <3>2, AnswerTold DEF Told
  <2>3. QED
    BY <2>1, <2>2
<1>5. QED
  BY <1>3, <1>4

(* The inductive invariant holds in every state.                              *)
THEOREM LivenessInductive == LivenessSpec => []LivenessIInv
<1>1. LivenessInit => LivenessIInv
  BY LivenessInitTyped DEF LivenessInit, LivenessIInv, RunsAreTold, PassIsEarned
<1>2. LivenessIInv /\ [LivenessNext]_livenessVars => LivenessIInv'
  <2> SUFFICES ASSUME LivenessIInv, [LivenessNext]_livenessVars
               PROVE  \A k \in Bindings : /\ runs'[k] # Nothing => Told(k)'
                                          /\ passed'[k] => Earned(k)'
    BY LivenessStepTyped, PassIsEarnedOfKeys DEF LivenessIInv, RunsAreTold, PassIsEarned, Earned
  <2>0. /\ LivenessTypeOK
        /\ \A k \in Bindings : runs[k] # Nothing => Told(k)
        /\ \A k \in Bindings : passed[k] => Earned(k)
    BY PassIsEarnedOfKeys DEF LivenessIInv, RunsAreTold
  <2> TAKE other \in Bindings
  <2>1. ASSUME /\ runs'[other] \in {runs[other], Nothing}
               /\ trail'[other] = trail[other]
               /\ passed'[other] = passed[other]
        PROVE  /\ runs'[other] # Nothing => Told(other)'
               /\ passed'[other] => Earned(other)'
    BY <2>0, <2>1 DEF Told, Earned
  <2>2. ASSUME NEW k \in Bindings, NEW list \in ChallengeLists, Start(k, list)
        PROVE  /\ runs'[other] # Nothing => Told(other)'
               /\ passed'[other] => Earned(other)'
    <3>1. CASE k = other
      <4>1. /\ runs'[k] = [challenges |-> list, expiresAt |-> clock + RunTtl, next |-> 1]
            /\ trail'[k] = [since |-> clock, answers |-> <<>>]
            /\ passed'[k] = FALSE
        BY <2>0, <2>2 DEF Start, LivenessTypeOK
      <4>2. QED
        BY <3>1, <4>1 DEF Told
    <3>2. CASE k # other
      BY <2>0, <2>1, <2>2, <3>2 DEF Start, LivenessTypeOK
    <3>3. QED
      BY <3>1, <3>2
  <2>3. ASSUME NEW k \in Bindings, NEW ev \in EvidenceInput, Evidence(k, ev)
        PROVE  /\ runs'[other] # Nothing => Told(other)'
               /\ passed'[other] => Earned(other)'
    <3>1. CASE k = other
      <4>1. Told(k)
        BY <2>0, <2>3 DEF Evidence
      <4>2. QED
        BY <2>0, <2>3, <3>1, <4>1, AnswerEarns
    <3>2. CASE k # other
      <4>1. runs'[other] = runs[other] /\ passed'[other] = passed[other]
        BY <2>0, <2>3, <3>2 DEF Evidence, LivenessTypeOK
      <4>2. trail'[other] = trail[other]
        BY <2>0, <2>3, <3>2 DEF Evidence, LivenessTypeOK
      <4>3. QED
        BY <2>1, <4>1, <4>2
    <3>3. QED
      BY <3>1, <3>2
  <2>4. ASSUME NEW k \in Bindings, EvidenceExpired(k) \/ ClearRun(k)
        PROVE  /\ runs'[other] # Nothing => Told(other)'
               /\ passed'[other] => Earned(other)'
    BY <2>0, <2>1, <2>4 DEF EvidenceExpired, ClearRun, LivenessTypeOK
  <2>5. CASE SweepRuns \/ LivenessRestart \/ LivenessTick \/ UNCHANGED livenessVars
    BY <2>0, <2>1, <2>5 DEF SweepRuns, LivenessRestart, LivenessTick, livenessVars, LivenessTypeOK
  <2>6. QED
    BY <2>2, <2>3, <2>4, <2>5 DEF LivenessNext
<1>3. QED
  BY <1>1, <1>2, PTL DEF LivenessSpec

(* A pass is earned by the answers of its own run, in time and in order.      *)
THEOREM PassIsEarnedHolds == LivenessSpec => []PassIsEarned
  BY LivenessInductive, PTL DEF LivenessIInv

-------------------------------------------------------------------------------
(* The engine implements LivenessGate: an answer advances or finishes the run *)
(* the callers see, everything that deletes a run is a lapse of theirs.       *)

\* run of LivenessGate, as ImplementsLivenessGate maps it.
Gone == [k \in Bindings |-> IF runs[k] = Nothing THEN Nothing ELSE runs[k].next - 1]

(* The runs of some keys are deleted and the others kept: a lapse.            *)
LEMMA DeletedIsLapsed ==
    ASSUME NEW S \in SUBSET Bindings,
           runs' = [k \in Bindings |-> IF k \in S THEN Nothing ELSE runs[k]]
    PROVE  Promised!GateNext
<1>1. Gone' = [k \in Bindings |-> IF k \in S THEN Nothing ELSE Gone[k]]
  BY DEF Gone
<1>2. Promised!LapseRuns(S)
  BY <1>1 DEF Gone, Promised!LapseRuns
<1>3. QED
  BY <1>2 DEF Promised!GateNext

(* Every step of the engine is a step its callers expect or no step at all.   *)
LEMMA LivenessStepPromised ==
    LivenessTypeOK /\ [LivenessNext]_livenessVars => [Promised!GateNext]_Gone
<1> SUFFICES ASSUME LivenessTypeOK, [LivenessNext]_livenessVars
             PROVE  [Promised!GateNext]_Gone
  OBVIOUS
<1>1. ASSUME NEW k \in Bindings, NEW list \in ChallengeLists, Start(k, list)
      PROVE  Promised!GateNext
  <2>1. [challenges |-> list, expiresAt |-> clock + RunTtl, next |-> 1] # Nothing
    BY LivenessAssumption DEF LivenessTypeOK, Run
  <2>2. Gone' = [Gone EXCEPT ![k] = 0]
    <3>1. /\ runs' \in [Bindings -> Run \cup {Nothing}] /\ runs'[k] # Nothing /\ runs'[k].next = 1
          /\ \A j \in Bindings \ {k} : runs'[j] = runs[j]
      BY <1>1, <2>1, LivenessStepTyped DEF Start, LivenessTypeOK, LivenessNext
    <3>2. Gone'[k] = 0 /\ \A j \in Bindings \ {k} : Gone'[j] = Gone[j]
      BY <3>1 DEF Gone
    <3>3. QED
      BY <3>2 DEF Gone
  <2>3. Promised!StartRun(k)
    BY <2>2 DEF Gone, Promised!StartRun
  <2>4. QED
    BY <2>3 DEF Promised!GateNext
<1>2. ASSUME NEW k \in Bindings, NEW ev \in EvidenceInput, Evidence(k, ev)
      PROVE  Promised!GateNext
  <2>1. runs[k] \in Run /\ runs' = [runs EXCEPT ![k] = AfterAnswer(runs[k])]
    BY <1>2, AnswerTyped DEF Evidence
  <2>2. runs[k].next \in 1..ChallengeCount /\ ChallengeCount \in Nat
    BY <2>1, LivenessAssumption DEF Run
  <2>3. Gone[k] = runs[k].next - 1 /\ Gone[k] \in Nat /\ Gone[k] # Nothing
    BY <1>2, <2>2, LivenessAssumption DEF Gone, Evidence
  <2>4. CASE runs[k].next = ChallengeCount
    <3>1. Gone' = [Gone EXCEPT ![k] = Nothing]
      BY <2>1, <2>4, AfterAnswerTyped DEF Gone, LivenessTypeOK
    <3>2. Promised!Finish(k)
      BY <2>2, <2>3, <2>4, <3>1 DEF Gone, Promised!Finish
    <3>3. QED
      BY <3>2 DEF Promised!GateNext
  <2>5. CASE runs[k].next # ChallengeCount
    <3>1. Gone' = [Gone EXCEPT ![k] = runs[k].next]
      <4>1. /\ runs'[k] # Nothing /\ runs'[k].next = runs[k].next + 1
            /\ \A j \in Bindings \ {k} : runs'[j] = runs[j]
        BY <2>1, <2>5, AfterAnswerTyped DEF LivenessTypeOK
      <4>2. Gone'[k] = runs[k].next /\ \A j \in Bindings \ {k} : Gone'[j] = Gone[j]
        BY <2>2, <4>1 DEF Gone
      <4>3. QED
        BY <4>2 DEF Gone
    <3>2. Promised!Advance(k)
      <4>1. Gone[k] + 1 = runs[k].next /\ Gone[k] + 1 < ChallengeCount
        BY <2>2, <2>3, <2>5
      <4>2. Gone' = [Gone EXCEPT ![k] = Gone[k] + 1]
        BY <3>1, <4>1
      <4>3. QED
        BY <2>3, <4>1, <4>2 DEF Gone, Promised!Advance
    <3>3. QED
      BY <3>2 DEF Promised!GateNext
  <2>6. QED
    BY <2>4, <2>5
<1>3. ASSUME NEW k \in Bindings, EvidenceExpired(k) \/ ClearRun(k)
      PROVE  Promised!GateNext
  <2>1. runs' = [j \in Bindings |-> IF j \in {k} THEN Nothing ELSE runs[j]]
    BY <1>3 DEF EvidenceExpired, ClearRun, LivenessTypeOK
  <2>2. QED
    BY <2>1, DeletedIsLapsed
<1>4. CASE SweepRuns
  <2>1. runs' = [k \in Bindings |-> IF k \in {j \in Bindings : Expired(j)} THEN Nothing ELSE runs[k]]
    BY <1>4 DEF SweepRuns
  <2>2. QED
    BY <2>1, DeletedIsLapsed
<1>5. CASE LivenessRestart
  <2>1. runs' = [k \in Bindings |-> IF k \in Bindings THEN Nothing ELSE runs[k]]
    BY <1>5 DEF LivenessRestart
  <2>2. QED
    BY <2>1, DeletedIsLapsed
<1>6. CASE LivenessTick \/ UNCHANGED livenessVars
  BY <1>6 DEF LivenessTick, livenessVars, Gone
<1>7. QED
  BY <1>1, <1>2, <1>3, <1>4, <1>5, <1>6 DEF LivenessNext

(* The liveness engine implements the gate its callers rely on.               *)
THEOREM LivenessImplements == LivenessSpec => ImplementsLivenessGate
<1>1. LivenessInit => Promised!GateInit
  BY DEF LivenessInit, Promised!GateInit
<1>2. LivenessTypeOK /\ [LivenessNext]_livenessVars => [Promised!GateNext]_Gone
  BY LivenessStepPromised
<1>3. QED
  BY <1>1, <1>2, LivenessTypeCorrect, PTL DEF LivenessSpec, ImplementsLivenessGate, Promised!GateSpec, Gone

===============================================================================
