SPECIFICATION FairSpec
CONSTANTS
    MaxMishaps = 2
    Chunks = 1
INVARIANTS TypeOK NeverAhead InviteIsFresh NotRegisteredIsTrue OffsetRecovers KeyedCanGoOn
PROPERTY FirstInvite
