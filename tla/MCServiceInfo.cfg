\* The ServiceInfo loop with the BMO session, Done and the chainload.
CONSTANTS
    Bytes <- MCBytes
    MaxImage = 1
    Publishers <- MCPublishers
    WatchdogTimeout = 8
    U64 = 16
    StartTimeout = 1
    EfiImages <- MCEfiImages
    LoadModes = {"Buffer", "File"}
    TempFiles <- MCTempFiles
    BeginMessages <- MCBeginMessages
    SetMessages <- MCSetMessages
    Chunks <- MCChunks
    EndHashes <- MCEndHashes
    Served <- MCServed
    MetaPayloads <- MCMetaPayloads
    MaxServiceInfoRounds = 3
    MaxEntries = 2

SPECIFICATION SvcSpec

INVARIANTS
    SvcTypeOK
    StartedVouched
    IvNeverReused
    RepliesConserved

PROPERTIES
    Terminates
    ImplementsBootGate

\* A run of perform_to2 ends.
CHECK_DEADLOCK FALSE
