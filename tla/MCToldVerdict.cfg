SPECIFICATION Spec
CONSTANTS
    Secrets = {officer, alice}
    OfficerSecret = officer
    Applications = {plot, field}
    Values = {1, 2}
    Threshold = 2
    MaxRegistrations = 2
    Browsers = {b1, b2}
    Txs = {t1, t2}
    None = None
    officer = officer
    alice = alice
    plot = plot
    field = field
    b1 = b1
    b2 = b2
    t1 = t1
    t2 = t2
INVARIANT ToldVerdictIsOwn
CHECK_DEADLOCK FALSE
