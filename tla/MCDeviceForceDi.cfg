\* Re-provisioning with -force-di.
CONSTANTS
    MaxBoots = 3
    MaxGuids = 3
    DiMaxAttempts = 2
    DefaultSize = 11
    OVHeaders <- MCOVHeaders
    OldHeaders <- MCOldHeaders
    Firmwares <- MCFirmwares
    Adversities = {{"force"}}

SPECIFICATION Spec

INVARIANTS
    MinRevOnlyIncreased

\* The last boot ends.
CHECK_DEADLOCK FALSE
