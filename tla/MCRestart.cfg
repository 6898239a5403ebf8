SPECIFICATION CameraSpec
CONSTANTS
    Applicant = applicant
    Challenges = 2
    Phrases = {2}
    MaxFrames = 2
    MaxWire = 3
    NoRun = NoRun
INVARIANT DoneIsEarned
CHECK_DEADLOCK FALSE
