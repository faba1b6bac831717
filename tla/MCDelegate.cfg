CONSTANTS
    O = O
    D1 = D1
    D2 = D2
    Keys = {O, D1, D2}
    Owner = O
    Ekus <- MCEkus
    PathLens = {0, 40000}
    MAX_DELEGATE_CHAIN_LEN = 3
SPECIFICATION Spec
INVARIANTS NoDelegateExceedsItsGrant WalksAgree
CHECK_DEADLOCK FALSE
