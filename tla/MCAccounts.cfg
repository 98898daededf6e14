SPECIFICATION FairSpec
CONSTANTS
    asdf = asdf
    bob = bob
    eve = eve
    p = p
    q = q
    Emails = {asdf, bob, eve}
    Passwords = {p, q}
    Dump <- SubmittedDump
    Faults = {"refused", "unanswered", "link", "crash", "insert", "reset"}
    MaxFaults = 2
    MaxUsers = 4
    Nobody = Nobody
    NoRequest = NoRequest
    NoAnswer = NoAnswer
INVARIANT
    TypeOK
PROPERTIES
    IdsStayInStep
    LoginOnOwnRow
    DateOfOwnRow
    ImplementsAccountRegistry
    CommandAnswered
