\* One BMO session, any order of messages, images of up to two bytes.
CONSTANTS
    Bytes <- MCBytes
    MaxImage = 2
    Publishers <- MCPublishers
    WatchdogTimeout = 8
    U64 = 16
    BeginMessages <- MCBeginMessages
    SetMessages <- MCSetMessages
    Chunks <- MCChunks
    EndHashes <- MCEndHashes
    Served <- MCServed
    MetaPayloads <- MCMetaPayloads

SPECIFICATION Spec

INVARIANTS
    TypeOK
    BootImageVouched
    ArtifactBindsImage
