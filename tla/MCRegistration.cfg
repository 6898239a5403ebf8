SPECIFICATION RegistrationSpec
CONSTANTS
    Details = {asha}
    Emails = {home, work}
    Handlers = {r1, r2}
    EmailCodes = {c1, c2}
    Absent = Absent
    MaxGuesses = 1
    Total = 2
    MaxAccounts = 1
    Keys = {contact}
    Reqs = {r1, r2}
    Codes = {c1, c2}
    Ttl = 2
    MaxAttempts = 2
    Cooldown = 2
    MaxSends = 2
    Window = 5
    MaxTime = 7
    None = None
    Bindings = {registration}
    ChallengeCount = 3
    Fingers <- MCFingers
    Phrases = {c1, c2}
    Observed <- MCObserved
    RunTtl = 2
    LastTick = 4
    Nothing = Nothing
    asha = asha
    home = home
    work = work
    registration = registration
    contact = contact
    r1 = r1
    r2 = r2
    c1 = c1
    c2 = c2
INVARIANTS
    RegistrationTypeOK
    EmailProvenance AccountsRestOnEvidence
    SendBudget CooldownGap AttemptCap AcceptedOnceAndFresh StoredImpliesDelivered
    PassIsEarned
PROPERTIES
    NoResurrection NoAccountAfterExpiry ProgressKept
    ImplementsOneTimeCode ImplementsLivenessGate
SYMMETRY Interchangeable
