CONSTANTS
    U32 = 100000
    Guids = {"g1", "g2"}
    RvInfos <- MCRvInfos
    Revs = {1, 2, 40, 300, 200001}
    Artifacts <- MCArtifacts
    ExpectedCt = "type"
    MaxInits = 2
SPECIFICATION Spec
INVARIANTS CredentialReadBack RvReadersAgree ScopeExact
CHECK_DEADLOCK FALSE
