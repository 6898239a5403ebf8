----------------------------- MODULE IdentityCheck -----------------------------
(***************************************************************************)
(* components/RegistrationLiveness.tsx with liveness/state-machine.ts and  *)
(* location-watcher.ts: camera, challenges, then a fix of the location.    *)
(* A frame is looked at every 120 ms and awaits the detector, so that      *)
(* several frames, and the starts pressed while no camera is there, are    *)
(* under way at once; each goes on with pendingSessionRef as it then is.   *)
(* What a frame shows and how good a fix is are outcomes, and so is which  *)
(* frame without the movement was the last attempt of its challenge.       *)
(***************************************************************************)
EXTENDS Naturals

CONSTANTS
    Movements,          \* challenges of a session
    MaxDetections,      \* bound: frames whose detection is awaited at once
    MaxStarts,          \* bound: starts under way at once
    Watchers            \* states a new watcher may be in: "inactive" without geolocation

ASSUME IdentityAssumption ==
    /\ Movements \in Nat \ {0} /\ MaxDetections \in Nat /\ MaxStarts \in Nat
    /\ Watchers \subseteq {"inactive", "requesting"}

VARIABLES
    check,              \* session shown, pendingSessionRef, camera, provider, finishedRef
    awaited,            \* starts awaiting the models, or the camera; frames awaiting the detector
    place,              \* state of the location watcher, "none" when there is none
    seen,               \* observer: movements seen since the last session was built
    report              \* the last onComplete(), with what had been observed by then

identityVars == <<check, awaited, place, seen, report>>

Reasons == {"camera_denied", "camera_unavailable", "challenge_failed"}

Sessions ==
    [state : {"idle", "requesting_camera", "camera_ready", "challenge_active", "liveness_passed"}
                 \cup Reasons,
     at : 0..Movements]

NewSession == [state |-> "idle", at |-> 0]

NoReport == [passed |-> FALSE, seen |-> 0, located |-> FALSE]

IdentityTypeOK ==
    /\ check \in [shown : Sessions, pending : Sessions, camera : BOOLEAN, provider : BOOLEAN,
                  finished : BOOLEAN]
    /\ awaited \in [models : 0..MaxStarts, camera : 0..MaxStarts, detector : 0..MaxDetections]
    /\ place \in {"none", "inactive", "requesting", "active", "refused"}
    /\ seen \in 0..Movements
    /\ report \in [passed : BOOLEAN, seen : 0..Movements, located : BOOLEAN]

IdentityInit ==
    /\ check = [shown |-> NewSession, pending |-> NewSession, camera |-> FALSE, provider |-> FALSE,
                finished |-> FALSE]
    /\ awaited = [models |-> 0, camera |-> 0, detector |-> 0]
    /\ place = "none"
    /\ seen = 0
    /\ report = NoReport

-------------------------------------------------------------------------------
(* transitionLiveness, for the events the component has.                     *)

Passes(s) == s.state = "challenge_active" /\ s.at + 1 >= Movements

After(s, event) ==
    CASE s.state = "idle" /\ event = "start" -> [s EXCEPT !.state = "requesting_camera"]
      [] s.state = "requesting_camera" /\ event = "camera_ready" -> [s EXCEPT !.state = event]
      [] s.state = "requesting_camera" /\ event = "camera_denied" -> [s EXCEPT !.state = event]
      [] s.state \in {"requesting_camera", "camera_ready", "challenge_active"}
           /\ event = "camera_unavailable" -> [s EXCEPT !.state = event]
      [] s.state = "camera_ready" /\ event = "quality_ok" -> [state |-> "challenge_active", at |-> 0]
      [] Passes(s) /\ event = "movement" -> [s EXCEPT !.state = "liveness_passed"]
      [] s.state = "challenge_active" /\ ~Passes(s) /\ event = "movement" -> [s EXCEPT !.at = @ + 1]
      [] s.state = "challenge_active" /\ event = "last_attempt" -> [s EXCEPT !.state = "challenge_failed"]
      [] OTHER -> s

IsFailureOutcome(s) == s.state \in Reasons

-------------------------------------------------------------------------------
(* What React does with the state a step has set: the cleanup of the effect on *)
(* the camera, when that changed, and then the effect on the session.         *)

Committed(c, s, camera, changed, finished) ==
    [c EXCEPT !.shown = s, !.camera = camera, !.finished = finished,
              !.pending = IF finished /\ changed THEN NewSession ELSE s]

\* The effect on the session creates the watcher, unless it is there.
Watched(s, changed, finished) ==
    LET kept == IF changed THEN "none" ELSE place
    IN  IF s.state = "liveness_passed" /\ ~finished /\ kept = "none"
        THEN Watchers
        ELSE {kept}

Settles(s, camera, changed) ==
    /\ check' = Committed(check, s, camera, changed, check.finished)
    /\ place' \in Watched(s, changed, check.finished)
    /\ UNCHANGED report

\* finish(), with the session s set just before.
Finish(passed, s) ==
    IF check.finished THEN Settles(s, check.camera, FALSE)
    ELSE /\ check' = Committed(check, s, FALSE, check.camera, TRUE)
         /\ place' = "none"
         /\ report' = [passed |-> passed, seen |-> seen, located |-> place = "active"]

-------------------------------------------------------------------------------
(* start() and retry().                                                      *)

Starting == awaited.models + awaited.camera < MaxStarts

StartCheck ==
    /\ check.shown.state \in {"idle", "requesting_camera"} /\ ~check.camera
    /\ Starting
    /\ check' = [check EXCEPT !.finished = FALSE]
    /\ awaited' = [awaited EXCEPT !.models = @ + 1]
    /\ UNCHANGED <<place, seen, report>>

RetryCheck ==
    /\ IsFailureOutcome(check.shown)
    /\ Starting
    /\ check' = [check EXCEPT !.camera = FALSE, !.finished = FALSE,
                              !.pending = IF check.camera THEN check.shown ELSE @]
    /\ place' = "none"
    /\ awaited' = [awaited EXCEPT !.models = @ + 1]
    /\ UNCHANGED <<seen, report>>

ModelsMissing ==
    /\ awaited.models > 0
    /\ awaited' = [awaited EXCEPT !.models = @ - 1]
    /\ check' = [check EXCEPT !.provider = FALSE, !.shown = NewSession,
                              !.pending = IF check.finished THEN @ ELSE NewSession]
    /\ UNCHANGED <<place, seen, report>>

ModelsLoaded ==
    /\ awaited.models > 0
    /\ awaited' = [awaited EXCEPT !.models = @ - 1, !.camera = @ + 1]
    /\ check' = [check EXCEPT !.provider = TRUE, !.shown = After(NewSession, "start"),
                              !.pending = After(NewSession, "start")]
    /\ seen' = 0
    /\ UNCHANGED <<place, report>>

CameraOpens ==
    /\ awaited.camera > 0
    /\ awaited' = [awaited EXCEPT !.camera = @ - 1]
    /\ Settles(After(check.pending, "camera_ready"), TRUE, TRUE)
    /\ UNCHANGED seen

CameraRefused ==
    /\ awaited.camera > 0
    /\ awaited' = [awaited EXCEPT !.camera = @ - 1]
    /\ \E reason \in {"camera_denied", "camera_unavailable"} :
         Settles(After(check.pending, reason), check.camera, FALSE)
    /\ UNCHANGED seen

-------------------------------------------------------------------------------
(* onFrame().                                                                *)

FrameLooked ==
    /\ check.camera /\ check.provider
    /\ awaited.detector < MaxDetections
    /\ awaited' = [awaited EXCEPT !.detector = @ + 1]
    /\ UNCHANGED <<check, place, seen, report>>

\* A usable face starts the challenges.
FaceShown(s) == After(s, "quality_ok")

FrameOver == awaited.detector > 0 /\ awaited' = [awaited EXCEPT !.detector = @ - 1]

\* Nothing was detected, or no face that could be used, or no movement yet.
FrameShowsNothing ==
    /\ FrameOver
    /\ \/ UNCHANGED check
       \/ \E s \in {check.pending, FaceShown(check.pending)} :
            /\ ~IsFailureOutcome(s)
            /\ check' = Committed(check, s, check.camera, FALSE, check.finished)
    /\ UNCHANGED <<place, seen, report>>

FrameShowsMovement ==
    LET s == FaceShown(check.pending)
    IN  /\ FrameOver
        /\ s.state = "challenge_active"
        /\ Settles(After(s, "movement"), check.camera, FALSE)
        /\ seen' = seen + 1

\* The attempts of the challenge are used up, or the session has failed already.
FrameFails ==
    LET s == After(FaceShown(check.pending), "last_attempt")
    IN  /\ FrameOver
        /\ IsFailureOutcome(s)
        /\ Finish(FALSE, s)
        /\ UNCHANGED seen

-------------------------------------------------------------------------------
(* The location watcher and its poll.                                        *)

\* watchPosition goes on until it is stopped, and a later fix may be refused.
FixOrError ==
    /\ place \notin {"none", "inactive"}
    /\ place' \in {"active", "refused"}
    /\ UNCHANGED <<check, awaited, seen, report>>

PollLocation ==
    /\ check.shown.state = "liveness_passed" /\ ~check.finished
    /\ place \in {"active", "refused"}
    /\ Finish(place = "active", check.shown)
    /\ UNCHANGED <<awaited, seen>>

IdentityNext ==
    \/ StartCheck \/ RetryCheck \/ ModelsMissing \/ ModelsLoaded \/ CameraOpens \/ CameraRefused
    \/ FrameLooked \/ FrameShowsNothing \/ FrameShowsMovement \/ FrameFails
    \/ FixOrError \/ PollLocation

\* The steps of a person whose camera and models are there and who makes the
\* movements: only a frame that no challenge waits for shows nothing, and only the
\* location may be refused, and is not for ever.
IdentityMeetsLocation ==
    \/ StartCheck \/ RetryCheck \/ ModelsLoaded \/ CameraOpens
    \/ FrameLooked \/ FrameShowsMovement \/ FixOrError \/ PollLocation
    \/ FaceShown(check.pending).state # "challenge_active" /\ FrameShowsNothing

IdentityFairness ==
    /\ WF_identityVars(StartCheck) /\ WF_identityVars(RetryCheck)
    /\ WF_identityVars(ModelsLoaded) /\ WF_identityVars(CameraOpens)
    /\ WF_identityVars(FrameLooked) /\ WF_identityVars(FrameShowsMovement)
    /\ SF_identityVars(FixOrError /\ place' = "active")
    /\ SF_identityVars(PollLocation /\ report'.passed)

-------------------------------------------------------------------------------
(* Properties.                                                               *)

\* The check is reported as passed only on every movement of the session that is
\* open, seen since it was built, whatever frames and cameras of an earlier start
\* came late, and on a fix of the location that is good when it is reported
\* (RegistrationLiveness.tsx:1-12, 197-272).
PassRestsOnChecks == report.passed => report.seen = Movements /\ report.located

\* The check is completed.
CheckCompletes == report.passed
===============================================================================
