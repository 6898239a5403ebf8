SPECIFICATION ServerSpec
CONSTANTS
    MaxAccounts = 2
    MaxSessions = 2
    Wallets = {w1, w2}
    Passwords = {p1, p2}
    Emails = {mail}
    Channels = {sms}
    Tokens = {t1, t2}
    Begins = {b1, b2}
    Total = 2
    None = None
    Callers = {ip1, ip2}
    MaxEvents = 2
    Window = 2
    MaxTime = 3
    Officers = {o1, o2}
    MaxDesk = 1
    Nobody = Nobody
    Signers = {g1, g2}
    States = {s1, s2}
    Redirects = {r1, r2}
    NoGoogle = NoGoogle
    Mobiles = {m1, m2}
    KycSessions = {c1, c2}
    Submissions = {v1, v2, v3}
    MaxChallengeAttempts = 2
    NoKyc = NoKyc
    w1 = w1
    w2 = w2
    p1 = p1
    p2 = p2
    mail = mail
    sms = sms
    t1 = t1
    t2 = t2
    b1 = b1
    b2 = b2
    ip1 = ip1
    ip2 = ip2
    o1 = o1
    o2 = o2
    g1 = g1
    g2 = g2
    s1 = s1
    s2 = s2
    r1 = r1
    r2 = r2
    m1 = m1
    m2 = m2
    c1 = c1
    c2 = c2
    v1 = v1
    v2 = v2
    v3 = v3
INVARIANTS
    ServerTypeOK
    WalletBinding
    IdentityRestsOnFace
    SessionsUnderCurrentPassword
    GatesAreTheRows
    AttemptsAreMetered
PROPERTIES
    TokensAreSpentOnce
    LinksAreEarned
    SubmissionsAreBounded
SYMMETRY Interchangeable
CHECK_DEADLOCK FALSE
