---------------------------- MODULE CameraLiveness ----------------------------
(***************************************************************************)
(* components/ServerRegistrationLiveness.tsx against the server's run of   *)
(* challenges, which is LivenessGate. Frames are looked at every 120 ms    *)
(* and submitting is tested before a frame's detection is awaited, so that *)
(* several frames of one challenge may each post its evidence. Requests    *)
(* are served in the order they were sent; answers come in any order, or   *)
(* are lost after the server has acted. Gestures are left out: a frame     *)
(* either completes the challenge it was captured for or shows nothing.    *)
(* A restart leaves frames, recognition and requests of the last try under *)
(* way, and several start() calls may be.                                  *)
(***************************************************************************)
EXTENDS Naturals, Sequences, FiniteSets, SequencesExt

CONSTANTS
    Applicant,          \* binding key of the registration session
    Challenges,         \* challenges of a run
    Phrases,            \* bound: ordinals a run may have its spoken phrase at
    MaxFrames,          \* bound: detections awaited at once
    MaxWire,            \* bound: requests and start() calls under way at once
    NoRun

ASSUME CameraAssumption ==
    /\ Challenges \in Nat \ {0} /\ Phrases \subseteq 1..Challenges
    /\ MaxFrames \in Nat /\ MaxWire \in Nat

VARIABLES
    camera,             \* what the component holds
    looking,            \* looking[f]: ordinal a frame was captured for, 0 if none
    hearing,            \* ordinal the recognition was started for, 0 if none
    wire,               \* calls under way; one of ordinal 0 is a start()
    run,                \* the server's run, as in LivenessGate
    spoken,             \* ordinal of the spoken phrase of that run
    earned,             \* observer: the server has finished that run
    tangled             \* observer: the last start met what an earlier one left

cameraVars == <<camera, looking, hearing, wire, run, spoken, earned, tangled>>

Server == INSTANCE LivenessGate WITH Keys <- {Applicant}, Total <- Challenges, None <- NoRun

\* A start() goes on after its answer: it awaits models and camera.
Verdicts == {"sent", "accepted", "last", "refused", "setup"}

\* phrase: the ordinal of the spoken phrase, 0 before a run; index: what is shown as
\* completed; on: there is a camera; finished: finishedRef; listening: the button's
\* state, which outlives a recognition that finish() has stopped.
CameraState ==
    [phase : {"idle", "starting", "setup", "running", "done", "failed"},
     index : 0..Challenges, phrase : 0..Challenges,
     submitting : BOOLEAN, on : BOOLEAN, finished : BOOLEAN, listening : BOOLEAN]

\* phrase: of a start, the one its run was given; of evidence, its ordinal if it
\* is a transcript and 0 if it is of frames.
WireCall == [ordinal : 0..Challenges, phrase : 0..Challenges, verdict : Verdicts]

CameraTypeOK ==
    /\ camera \in CameraState
    /\ looking \in [1..MaxFrames -> 0..Challenges]
    /\ hearing \in 0..Challenges
    /\ wire \in Seq(WireCall) /\ Len(wire) <= MaxWire
    /\ Server!GateTypeOK
    /\ spoken \in 1..Challenges
    /\ earned \in BOOLEAN /\ tangled \in BOOLEAN

CameraInit ==
    /\ camera = [phase |-> "idle", index |-> 0, phrase |-> 0, submitting |-> FALSE,
                 on |-> FALSE, finished |-> FALSE, listening |-> FALSE]
    /\ looking = [f \in 1..MaxFrames |-> 0]
    /\ hearing = 0
    /\ wire = <<>>
    /\ Server!GateInit
    /\ spoken = 1
    /\ earned = FALSE
    /\ tangled = FALSE

\* Past the end currentIndexRef stays at the last challenge.
Current == IF camera.index < Challenges THEN camera.index + 1 ELSE Challenges

Send(ordinal, phrase) ==
    /\ Len(wire) < MaxWire
    /\ wire' = Append(wire, [ordinal |-> ordinal, phrase |-> phrase, verdict |-> "sent"])

-------------------------------------------------------------------------------
(* The server.                                                               *)

Unserved(i) == wire[i].verdict = "sent" /\ \A j \in 1..(i - 1) : wire[j].verdict # "sent"

Judge(i, verdict) ==
    /\ wire' = [wire EXCEPT ![i].verdict = verdict]
    /\ UNCHANGED <<camera, looking, hearing, tangled>>

ServeStart(i, p) ==
    /\ wire[i].ordinal = 0
    /\ Server!StartRun(Applicant)
    /\ spoken' = p
    /\ earned' = FALSE
    /\ wire' = [wire EXCEPT ![i].verdict = "accepted", ![i].phrase = p]
    /\ UNCHANGED <<camera, looking, hearing, tangled>>

\* Evidence of the type of the challenge. Two runs may have the same type of frame
\* at one place or not: then it is refused.
ServeEvidence(i) ==
    /\ run[Applicant] # NoRun
    /\ wire[i].ordinal = run[Applicant] + 1
    /\ wire[i].phrase = wire[i].ordinal <=> wire[i].ordinal = spoken
    /\ \/ Server!Advance(Applicant) /\ Judge(i, "accepted") /\ UNCHANGED earned
       \/ Server!Finish(Applicant) /\ Judge(i, "last") /\ earned' = TRUE
    /\ UNCHANGED spoken

ServeRefuses(i) == Judge(i, "refused") /\ UNCHANGED <<run, spoken, earned>>

CameraServes(i) ==
    /\ Unserved(i)
    /\ (\E p \in Phrases : ServeStart(i, p)) \/ ServeEvidence(i) \/ ServeRefuses(i)

RunLapses ==
    /\ run[Applicant] # NoRun
    /\ Server!LapseRuns({Applicant})
    /\ UNCHANGED <<camera, looking, hearing, wire, spoken, earned, tangled>>

-------------------------------------------------------------------------------
(* The component.                                                            *)

\* Nothing is left of earlier tries. The buttons do not ask.
Settled == wire = <<>> /\ hearing = 0 /\ \A f \in 1..MaxFrames : looking[f] = 0

StartPressed ==
    /\ camera.phase \in {"idle", "failed"}
    /\ camera' = [camera EXCEPT !.phase = "starting", !.finished = FALSE]
    /\ Send(0, 0)
    /\ tangled' = ~Settled
    /\ UNCHANGED <<looking, hearing, run, spoken, earned>>

\* Models and camera of a start() are loaded, or not, whatever the page shows by
\* now. The first challenge may need what the device lacks.
SetupEnds(i) ==
    /\ wire[i].verdict = "setup"
    /\ wire' = RemoveAt(wire, i)
    /\ \/ camera' = [camera EXCEPT !.phase = "failed"]
       \/ \E phase \in {"running", "failed"} :
            camera' = [camera EXCEPT !.phase = phase, !.index = 0, !.on = TRUE]
    /\ UNCHANGED <<looking, hearing, run, spoken, earned, tangled>>

FrameCaptured(f) ==
    /\ camera.phase = "running" /\ camera.on /\ ~camera.submitting
    /\ Current # camera.phrase
    /\ looking[f] = 0
    /\ looking' = [looking EXCEPT ![f] = Current]
    /\ UNCHANGED <<camera, hearing, wire, run, spoken, earned, tangled>>

\* The detection has ended. Frames of an earlier challenge find another tracker,
\* make a new one, and may complete it.
FrameDetected(f) ==
    /\ looking[f] # 0
    /\ looking' = [looking EXCEPT ![f] = 0]
    /\ \/ UNCHANGED <<camera, wire>>
       \/ Send(looking[f], 0) /\ camera' = [camera EXCEPT !.submitting = TRUE]
    /\ UNCHANGED <<hearing, run, spoken, earned, tangled>>

BeginPhraseListening ==
    /\ camera.phase = "running" /\ Current = camera.phrase
    /\ ~camera.listening
    /\ camera' = [camera EXCEPT !.listening = TRUE]
    /\ hearing' = Current
    /\ UNCHANGED <<looking, wire, run, spoken, earned, tangled>>

PhraseHeard ==
    /\ hearing # 0
    /\ hearing' = 0
    /\ LET quiet == [camera EXCEPT !.listening = FALSE] IN
       \/ camera' = quiet /\ UNCHANGED wire
       \/ camera' = [quiet EXCEPT !.submitting = TRUE] /\ Send(hearing, hearing)
    /\ UNCHANGED <<looking, run, spoken, earned, tangled>>

\* finish(true).
Finished(c) ==
    IF c.finished THEN c ELSE [c EXCEPT !.phase = "done", !.finished = TRUE, !.on = FALSE]

\* advance(), or finish(true) past the end. The device may lack what the next
\* challenge needs.
Advanced(c) ==
    IF c.index + 1 >= Challenges THEN {Finished([c EXCEPT !.index = Challenges])}
    ELSE {[c EXCEPT !.phase = phase, !.index = c.index + 1] : phase \in {"running", "failed"}}

\* Mutant: whatever the answer, the challenge is over.
AfterAnswerMovesOn(verdict, c) ==
    IF verdict = "last" THEN {Finished(c)} ELSE Advanced(c)

\* What the component does with the answer to its evidence.
AfterAnswer(verdict, c) ==
    CASE verdict = "last" -> {Finished(c)}
      [] verdict = "accepted" -> Advanced(c)
      [] OTHER -> {c}

\* What start() does with the answer of onStart().
Started(i, verdict) ==
    IF verdict = "refused"
    THEN wire' = RemoveAt(wire, i) /\ camera' = [camera EXCEPT !.phase = "failed"]
    ELSE /\ wire' = [wire EXCEPT ![i].verdict = "setup"]
         /\ camera' = [camera EXCEPT !.phase = "setup", !.index = 0, !.phrase = wire[i].phrase,
                                     !.submitting = FALSE]

\* finish() stops a recognition that goes on.
Heard == IF camera'.finished /\ ~camera.finished THEN 0 ELSE hearing

\* An answer arrives; one that is lost looks like a refusal.
Arrives(i) ==
    /\ wire[i].verdict \notin {"sent", "setup"}
    /\ \E verdict \in {wire[i].verdict, "refused"} :
         IF wire[i].ordinal = 0 THEN Started(i, verdict)
         ELSE /\ wire' = RemoveAt(wire, i)
              /\ camera' \in AfterAnswer(verdict, [camera EXCEPT !.submitting = FALSE])
    /\ hearing' = Heard
    /\ UNCHANGED <<looking, run, spoken, earned, tangled>>

CameraServed == \E i \in DOMAIN wire : CameraServes(i)
CameraAnswered == \E i \in DOMAIN wire : Arrives(i)

\* The answer to the oldest call that has one: what every call's answer arriving
\* at last comes to, however many younger ones overtake it.
OldestAnswered ==
    \E i \in DOMAIN wire :
        Arrives(i) /\ \A j \in 1..(i - 1) : wire[j].verdict \in {"sent", "setup"}

CameraNext ==
    \/ StartPressed \/ BeginPhraseListening \/ PhraseHeard
    \/ \E i \in DOMAIN wire : SetupEnds(i)
    \/ CameraServed \/ CameraAnswered \/ RunLapses
    \/ \E f \in 1..MaxFrames : FrameCaptured(f) \/ FrameDetected(f)

-------------------------------------------------------------------------------
(* Properties.                                                               *)

\* As long as the last start was pressed with nothing of an earlier try under way,
\* the dots and "done" do not run ahead of the server: however many frames have
\* posted the same evidence and in whatever order the answers come, the page has
\* counted, or has under way, at most what the server accepted of its run, and
\* says done only when the server finished it
\* (ServerRegistrationLiveness.tsx:283-336, 413-490). Nothing of the kind holds
\* of a start that finds something under way (DoneIsEarned).
CameraShowsRun ==
    ~tangled =>
        /\ camera.phase = "done" => earned
        /\ camera.phase = "running" /\ run[Applicant] # NoRun =>
             camera.index
                 + Cardinality({i \in DOMAIN wire :
                                  wire[i].ordinal # 0 /\ wire[i].verdict = "accepted"})
                 <= run[Applicant]

\* A start that was asked for and evidence that was posted wait for their answer.
CameraWaits == <<camera.phase = "starting", camera.submitting>>

-------------------------------------------------------------------------------
(* A claim of the repository's texts, checked by a run of its own.           *)

CameraSpec == CameraInit /\ [][CameraNext]_cameraVars

\* ServerRegistrationLiveness.tsx:62: onComplete hears that the check is passed
\* only after the server accepted every challenge.
DoneIsEarned == camera.phase = "done" => earned
===============================================================================
