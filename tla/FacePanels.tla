------------------------------- MODULE FacePanels -------------------------------
(***************************************************************************)
(* components/LoginFaceVerification.tsx with liveness/login-face-machine.ts,*)
(* and components/BiometricEnrollment.tsx. Both ask for the camera, put    *)
(* the handle into React state and go on in the same asynchronous function.*)
(* Such a function keeps the values of the render it was created in; the   *)
(* state it sets is committed, and the effects on it are run, while it     *)
(* waits.                                                                  *)
(***************************************************************************)
EXTENDS Naturals

VARIABLES
    face,               \* the login panel: session shown, pendingRef, camera, what run awaits
    enrol               \* the enrolment panel: phase, camera, finishedRef, what run awaits

panelVars == <<face, enrol>>

\* "setting": setCamera(handle) was called and is not committed yet.
Cameras == {"off", "setting", "on"}

Failures == {"camera_denied", "camera_unavailable", "verification_unavailable", "no_face",
             "mismatch", "insufficient_quality", "multiple_faces", "provider_error"}

FaceStates == {"idle", "requesting_camera", "face_verification_in_progress", "identity_verified"}
                \cup Failures

PanelTypeOK ==
    /\ face \in [shown : FaceStates, pending : FaceStates, camera : Cameras,
                 awaits : {"nothing", "camera", "models", "match"}]
    /\ enrol \in [phase : {"idle", "camera", "capturing", "consent", "uploading", "enrolled", "failed"},
                  camera : Cameras, held : Cameras, finished : BOOLEAN,
                  awaits : {"nothing", "camera", "frames", "server"}]

PanelInit ==
    /\ face = [shown |-> "idle", pending |-> "idle", camera |-> "off", awaits |-> "nothing"]
    /\ enrol = [phase |-> "idle", camera |-> "off", held |-> "off", finished |-> FALSE,
                awaits |-> "nothing"]

-------------------------------------------------------------------------------
(* The login panel. The reference is checked by the server and the provider   *)
(* is there, so that the capabilities let it go on.                           *)

\* update()
Show(state, awaits) == [face EXCEPT !.shown = state, !.pending = state, !.awaits = awaits]

\* transitionLoginFace on a verification_result: only a verification under way ends.
WithVerdict(state, verdict) ==
    IF state = "face_verification_in_progress" THEN verdict ELSE state

FaceStart ==
    /\ face.shown = "idle" \/ face.shown \in Failures
    /\ face.awaits = "nothing"
    /\ face' = [Show("requesting_camera", "camera")
                   EXCEPT !.camera = IF face.shown = "idle" THEN @ ELSE "off"]
    /\ UNCHANGED enrol

FaceCameraRefused ==
    /\ face.awaits = "camera"
    /\ \E reason \in {"camera_denied", "camera_unavailable"} : face' = Show(reason, "nothing")
    /\ UNCHANGED enrol

FaceCameraGranted ==
    /\ face.awaits = "camera"
    /\ face' = [Show("face_verification_in_progress", "models") EXCEPT !.camera = "setting"]
    /\ UNCHANGED enrol

\* The handle is committed: the cleanup of the effect of the render before runs.
FaceCameraCommitted ==
    /\ face.camera = "setting"
    /\ face' = [face EXCEPT !.camera = "on", !.pending = "idle"]
    /\ UNCHANGED enrol

FaceEnds(verdict) ==
    face' = Show(WithVerdict(face.pending, verdict), "nothing") /\ UNCHANGED enrol

\* Models are loaded and a face was found in the frame, or not.
FaceFrameTaken ==
    /\ face.awaits = "models" /\ face.camera = "on"
    /\ face' = [face EXCEPT !.awaits = "match"]
    /\ UNCHANGED enrol

FaceFrameFails ==
    /\ face.awaits = "models" /\ face.camera = "on"
    /\ \E reason \in {"verification_unavailable", "no_face"} : FaceEnds(reason)

FaceMatched == face.awaits = "match" /\ FaceEnds("identity_verified")

FaceNotMatched ==
    /\ face.awaits = "match"
    /\ \E reason \in Failures : FaceEnds(reason)

-------------------------------------------------------------------------------
(* The enrolment panel. start() calls the capture() of its own render, which   *)
(* holds the camera there was when the button was pressed.                    *)

EnrolStart ==
    /\ enrol.phase \in {"idle", "failed"}
    /\ enrol' = [phase |-> "camera", camera |-> "off", held |-> enrol.camera, finished |-> FALSE,
                 awaits |-> "camera"]
    /\ UNCHANGED face

EnrolCameraRefused ==
    /\ enrol.awaits = "camera"
    /\ enrol' = [enrol EXCEPT !.phase = "failed", !.awaits = "nothing"]
    /\ UNCHANGED face

EnrolCameraGranted ==
    /\ enrol.awaits = "camera"
    /\ enrol' = [enrol EXCEPT !.phase = "capturing", !.camera = "setting", !.awaits = "frames"]
    /\ UNCHANGED face

EnrolCameraCommitted ==
    /\ enrol.camera = "setting"
    /\ enrol' = [enrol EXCEPT !.camera = "on", !.finished = TRUE]
    /\ UNCHANGED face

Captured(enough) ==
    /\ enrol.awaits = "frames"
    /\ enough => enrol.held = "on"
    /\ enrol' = [enrol EXCEPT !.awaits = "nothing",
                              !.camera = IF enough /\ ~enrol.finished THEN @ ELSE "off",
                              !.phase = IF enrol.finished THEN @ ELSE IF enough THEN "consent" ELSE "failed"]
    /\ UNCHANGED face

FramesCaptured == Captured(TRUE)

FramesMissing == Captured(FALSE)

ConsentGiven ==
    /\ enrol.phase = "consent"
    /\ enrol' = [enrol EXCEPT !.phase = "uploading", !.awaits = "server"]
    /\ UNCHANGED face

EnrolAnswered ==
    /\ enrol.awaits = "server"
    /\ \E phase \in {"enrolled", "failed"} :
         enrol' = [enrol EXCEPT !.phase = phase, !.awaits = "nothing",
                                !.camera = IF phase = "enrolled" THEN "off" ELSE @]
    /\ UNCHANGED face

-------------------------------------------------------------------------------
PanelNext ==
    \/ FaceStart \/ FaceCameraRefused \/ FaceCameraGranted \/ FaceCameraCommitted
    \/ FaceFrameTaken \/ FaceFrameFails \/ FaceMatched \/ FaceNotMatched
    \/ EnrolStart \/ EnrolCameraRefused \/ EnrolCameraGranted \/ EnrolCameraCommitted
    \/ FramesCaptured \/ FramesMissing \/ ConsentGiven \/ EnrolAnswered

\* The person presses what can be pressed, what is awaited ends, and what is tried
\* again and again succeeds at last.
PanelFairness ==
    /\ WF_panelVars(FaceStart) /\ WF_panelVars(FaceCameraCommitted)
    /\ SF_panelVars(FaceCameraGranted) /\ SF_panelVars(FaceFrameTaken) /\ SF_panelVars(FaceMatched)
    /\ WF_panelVars(EnrolStart) /\ WF_panelVars(FramesMissing)
    /\ SF_panelVars(EnrolCameraGranted) /\ SF_panelVars(FramesCaptured)

-------------------------------------------------------------------------------
(* Properties.                                                               *)

\* One of the two panels gets on: a match of the server is shown as verified, or
\* frames are captured for the consent (LoginFaceVerification.tsx:173-193,
\* BiometricEnrollment.tsx:97-140).
FaceGetsOn == face.shown = "identity_verified" \/ enrol.phase = "consent"
===============================================================================
