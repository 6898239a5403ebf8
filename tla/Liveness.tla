------------------------------- MODULE Liveness -------------------------------
(***************************************************************************)
(* server/registration/liveness.ts: the challenge engine behind the        *)
(* liveness steps of registration and password recovery.                   *)
(*                                                                         *)
(* start() draws a list of challenges of distinct types, the spoken phrase *)
(* always among them, with a finger count or a phrase the client has to    *)
(* give back. evidence() accepts answers in the issued order, each with an *)
(* observation window in range; the last one ends the run. Every method    *)
(* runs in one piece. An answer that is refused changes nothing, unless    *)
(* the run has expired, which deletes it. The runs are in memory.          *)
(***************************************************************************)
EXTENDS Naturals, Sequences

CONSTANTS
    Bindings,               \* binding keys
    ChallengeCount,     \* challenges of a run: 5 unless configured
    Fingers,            \* finger counts that may be drawn: 1..5
    Phrases,            \* prompts, up to normalizePhrase
    Observed,           \* observation windows a client may report, in ms
    RunTtl,                \* ttlMs
    LastTick,           \* bound: the clock stops here
    Nothing

VARIABLES
    clock,
    runs,               \* runs[k]: the run of k, or Nothing
    trail,              \* observer: start and accepted answers of the last run
    passed              \* observer: evidence() has reported that run as done

livenessVars == <<clock, runs, trail, passed>>

Types == {"blink", "head-movement", "hand-up", "finger-count", "phrase"}

\* What the client must give back for a challenge; Nothing where nothing is drawn.
Asked(type) ==
    CASE type = "finger-count" -> Fingers
      [] type = "phrase" -> Phrases
      [] OTHER -> {Nothing}

LivenessChallenge == UNION {[type : {t}, value : Asked(t)] : t \in Types}

ChallengeLists ==
    {list \in [1..ChallengeCount -> LivenessChallenge] :
        /\ \A i, j \in 1..ChallengeCount : i # j => list[i].type # list[j].type
        /\ \E i \in 1..ChallengeCount : list[i].type = "phrase"}

Run == [challenges : ChallengeLists, expiresAt : Nat, next : 1..ChallengeCount]

\* undefined is neither a number, a phrase nor an object.
ASSUME LivenessAssumption ==
    /\ ChallengeCount \in 1..5
    /\ RunTtl \in Nat /\ LastTick \in Nat
    /\ Fingers \subseteq Nat /\ Observed \subseteq Nat
    /\ Nothing \notin Nat \cup Phrases \cup Run

EvidenceInput ==
    UNION {[ordinal : 0..(ChallengeCount + 1), type : {t}, observedMs : Observed, value : Asked(t)] :
               t \in Types}

Answer == [challenge : LivenessChallenge, ordinal : Nat, given : LivenessChallenge, at : Nat]

LivenessTypeOK ==
    /\ clock \in 0..LastTick
    /\ runs \in [Bindings -> Run \cup {Nothing}]
    /\ trail \in [Bindings -> [since : Nat, answers : Seq(Answer)]]
    /\ passed \in [Bindings -> BOOLEAN]

LivenessInit ==
    /\ clock = 0
    /\ runs = [k \in Bindings |-> Nothing]
    /\ trail = [k \in Bindings |-> [since |-> 0, answers |-> <<>>]]
    /\ passed = [k \in Bindings |-> FALSE]

-------------------------------------------------------------------------------
MaxObserved == 20000

MinObserved(type) ==
    CASE type = "blink" -> 300
      [] type = "head-movement" -> 400
      [] type = "hand-up" -> 800
      [] type = "phrase" -> 900

InWindow(type, ms) == MinObserved(type) <= ms /\ ms <= MaxObserved

\* The switch of evidence(): a finger count has no window, the phrase has both.
Accepts(challenge, ev) ==
    /\ ev.type = challenge.type
    /\ challenge.type \in {"finger-count", "phrase"} => ev.value = challenge.value
    /\ challenge.type # "finger-count" => InWindow(challenge.type, ev.observedMs)

Start(k, list) ==
    /\ runs' = [runs EXCEPT ![k] =
                       [challenges |-> list, expiresAt |-> clock + RunTtl, next |-> 1]]
    /\ trail' = [trail EXCEPT ![k] = [since |-> clock, answers |-> <<>>]]
    /\ passed' = [passed EXCEPT ![k] = FALSE]
    /\ UNCHANGED clock

\* Mutant: the instant of the expiry is still in time.
ExpiredLate(k) == runs[k] # Nothing /\ clock > runs[k].expiresAt

\* The test of evidence() and of sweep().
Expired(k) == runs[k] # Nothing /\ clock >= runs[k].expiresAt

EvidenceExpired(k) ==
    /\ Expired(k)
    /\ runs' = [runs EXCEPT ![k] = Nothing]
    /\ UNCHANGED <<clock, trail, passed>>

\* Mutant: an answer skips a challenge.
AfterAnswerSkips(run) ==
    IF run.next + 2 > ChallengeCount THEN Nothing ELSE [run EXCEPT !.next = run.next + 2]

\* nextOrdinal is advanced; past the end of the list the run is deleted.
AfterAnswer(run) ==
    IF run.next = ChallengeCount THEN Nothing ELSE [run EXCEPT !.next = run.next + 1]

Evidence(k, ev) ==
    LET run == runs[k]
    IN  /\ run # Nothing
        /\ ~Expired(k)
        /\ ev.ordinal = run.next
        /\ Accepts(run.challenges[run.next], ev)
        /\ runs' = [runs EXCEPT ![k] = AfterAnswer(run)]
        /\ trail' = [trail EXCEPT ![k].answers =
                        Append(@, [challenge |-> run.challenges[run.next], ordinal |-> ev.ordinal,
                                   given |-> [type |-> ev.type, value |-> ev.value],
                                   at |-> clock])]
        /\ passed' = [passed EXCEPT ![k] = AfterAnswer(run) = Nothing]
        /\ UNCHANGED clock

\* A completed recovery clears its key, answered or not.
ClearRun(k) ==
    /\ runs' = [runs EXCEPT ![k] = Nothing]
    /\ UNCHANGED <<clock, trail, passed>>

SweepRuns ==
    /\ \E k \in Bindings : Expired(k)
    /\ runs' = [k \in Bindings |-> IF Expired(k) THEN Nothing ELSE runs[k]]
    /\ UNCHANGED <<clock, trail, passed>>

\* The process restarts.
LivenessRestart ==
    /\ \E k \in Bindings : runs[k] # Nothing
    /\ runs' = [k \in Bindings |-> Nothing]
    /\ UNCHANGED <<clock, trail, passed>>

LivenessTick ==
    /\ clock < LastTick
    /\ clock' = clock + 1
    /\ UNCHANGED <<runs, trail, passed>>

LivenessNext ==
    \/ \E k \in Bindings :
         \/ \E list \in ChallengeLists : Start(k, list)
         \/ \E ev \in EvidenceInput : Evidence(k, ev)
         \/ EvidenceExpired(k)
         \/ ClearRun(k)
    \/ SweepRuns \/ LivenessRestart \/ LivenessTick

LivenessSpec == LivenessInit /\ [][LivenessNext]_livenessVars

-------------------------------------------------------------------------------
(* Properties.                                                               *)

\* A run that was reported as done was answered challenge by challenge since
\* its own start: each type once, in the issued order, the spoken phrase among
\* them, finger count and phrase those the server drew, and all of it before the
\* run expired. Nothing of an earlier, expired or lost run of the key counts
\* (liveness.ts:136-179, 185-246; the header, 6-18).
PassIsEarned ==
    \A k \in Bindings : passed[k] =>
        LET given == trail[k].answers
        IN  /\ Len(given) = ChallengeCount
            /\ \A i \in DOMAIN given :
                 /\ given[i].ordinal = i
                 /\ given[i].given = given[i].challenge
                 /\ given[i].at < trail[k].since + RunTtl
                 /\ \A j \in DOMAIN given : i # j =>
                        given[i].challenge.type # given[j].challenge.type
            /\ \E i \in DOMAIN given : given[i].challenge.type = "phrase"

\* What its callers are promised: LivenessGate.
Promised == INSTANCE LivenessGate WITH
            Keys <- Bindings, Total <- ChallengeCount, None <- Nothing,
            run <- [k \in Bindings |-> IF runs[k] = Nothing THEN Nothing ELSE runs[k].next - 1]

ImplementsLivenessGate == Promised!GateSpec
===============================================================================
