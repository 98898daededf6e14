SPECIFICATION Spec
CONSTANTS
    asdf = asdf
    bob = bob
    eve = eve
    p = p
    q = q
    Emails = {asdf, bob, eve}
    Passwords = {p, q}
    Dump <- SubmittedDump
    Faults = {"refused"}
    MaxFaults = 1
    MaxUsers = 4
    Nobody = Nobody
    NoRequest = NoRequest
    NoAnswer = NoAnswer
INVARIANT
    DateOfOwnAccount
