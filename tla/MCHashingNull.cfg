SPECIFICATION Spec
CONSTANTS
    Radix = 2
    Xor <- ByteXor
    InitP <- SomeP
    InitS <- SomeS
    Base64Code <- SomeCode
    BCRYPT_MAXSALT = 4
    BCRYPT_MINLOGROUNDS = 1
    Magic <- SomeMagic
    Failed = Failed
    alphanum = {5}
    BytesBefore = {0}
    SaltLength = 2
    LogRounds = 1
    Csalts <- SomeCsalts
    Passwords <- SomePasswords
    Space = 1
    NoRow = NoRow
    NoAttempt = NoAttempt
    Keys <- SomeKeys
    Ivs <- SomeIvs
    Texts <- SomeTexts
INVARIANTS
    AcceptedIsCorrect
CHECK_DEADLOCK FALSE
