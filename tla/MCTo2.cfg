\* Two runs of the TO2 handshake over a network that replays.
CONSTANTS
    MaxRuns = 2
    MaxAnswers = 2
    TransientSlots = 1
    Custody <- MCCustody
    Chains <- MCChains
    Stranger = "stranger"
    To1ds <- MCTo1ds

SPECIFICATION Spec

INVARIANTS
    OwnerAuthenticated
    SecretsOnlyToOnboarders
    SekNeverReused
    ChannelAuthorityEarned
    RedirectVouched
    SlotsNeverExhausted

\* The last run ends.
CHECK_DEADLOCK FALSE
