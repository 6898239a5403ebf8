SPECIFICATION SessionSpec
CONSTANTS
    Details = {asha, ravi}
    Emails = {home}
    Handlers = {r1}
    EmailCodes = {c1}
    MaxGuesses = 1
    Total = 1
    MaxAccounts = 1
    Absent = Absent
    asha = asha
    ravi = ravi
    home = home
    r1 = r1
    c1 = c1
INVARIANT MaskedIsOfStored
