SPECIFICATION ClientsSpec
CONSTANTS
    Requests = {1, 2}
    NoRequest = NoRequest
    Applicant = applicant
    Challenges = 3
    Phrases = {2}
    MaxFrames = 2
    MaxWire = 2
    NoRun = NoRun
    MaxCalls = 3
    Unknown = Unknown
    Forms = {f1}
    Blank = Blank
    NoRow = NoRow
    MaxAsked = 2
    Owners = {w1, w2}
    Addresses = {e1, e2}
    Numbers = {m1}
    MaxContactCalls = 2
    Unset = Unset
    Accounts = {a1, a2}
    MaxPolls = 2
    MaxJoins = 3
    Nobody = Nobody
    Networks = {undeployed, preprod}
    Undeployed = undeployed
    RegisterTries = 2
    DeployTries = 2
    MaxScripts = 2
    MaxSessions = 2
    MaxOfficerCalls = 3
    Registrations = {r1, r2}
    NoRegistration = NoRegistration
    MaxVerdicts = 2
    Drafts = {f1}
    Demo = Demo
    MaxFiled = 2
    Movements = 3
    MaxDetections = 2
    MaxStarts = 2
    Watchers = {"requesting", "inactive"}
    applicant = applicant
    undeployed = undeployed
    preprod = preprod
    r1 = r1
    r2 = r2
    f1 = f1
    w1 = w1
    w2 = w2
    e1 = e1
    e2 = e2
    m1 = m1
    a1 = a1
    a2 = a2
INVARIANTS ClientsTypeOK ShownIsConfirmed FilesSurviveRuns
PROPERTIES EveryWaitEnds
CHECK_DEADLOCK FALSE
