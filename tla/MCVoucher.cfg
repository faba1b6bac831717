CONSTANTS
    Mfg = Mfg
    Alice = Alice
    Bob = Bob
    Unsupported = Unsupported
    Keys <- MCKeys
    Honest <- MCHonest
    Headers <- MCHeaders
    Minted <- MCMinted
    Algs = {"SHA256", "SHA384"}
    MaxSigned = 2
    MaxForged = 1
    MaxEntries = 3
SPECIFICATION Spec
INVARIANTS TypeOK CustodyAgreement CurrentIdentity VerdictExact
CHECK_DEADLOCK FALSE
