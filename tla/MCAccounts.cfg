CONSTANTS
    MaxTenant = 1
    MaxUser = 3
    MaxInvite = 1
    Email = {e1, e2}
    NoEmail = NoEmail
    MaxTokens = 2
    MaxWork = 1
    One = 2
SPECIFICATION FairSpec
INVARIANTS
    TypeOK
    OneAccountPerInvitation
PROPERTIES
    LastOwnerKept
    LastSuperadminKept
    OnesClaimsCatchUp
CHECK_DEADLOCK FALSE
