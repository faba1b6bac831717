\* Three boots of a device, with power loss anywhere and failing TPM commands; with and
\* without -force-di and reads of the index that may fail.
CONSTANTS
    MaxBoots = 3
    MaxGuids = 3
    DiMaxAttempts = 2
    DefaultSize = 11
    OVHeaders <- MCOVHeaders
    OldHeaders <- MCOldHeaders
    Firmwares <- MCFirmwares
    Adversities <- MCAdversities

SPECIFICATION Spec

INVARIANTS
    MinRevNeverLowered
    NoRollback
    CredentialBacked

PROPERTIES
    CredentialSurvives
    BootEnds

\* The last boot ends.
CHECK_DEADLOCK FALSE
