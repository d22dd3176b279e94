SPECIFICATION EscrowSpec
CONSTANTS
    p1 = p1
    p2 = p2
    z1 = z1
    Provider = {p1, p2}
    Zone = {z1}
    NoZone = NoZone
    Admin = Admin
    MaxTime = 2
    Amount <- MCAmount
    Policy <- MCPolicy
    InitialPolicy <- MCInitialPolicy
    InitialFunds = 1
    MaxUint64 = 2
    MaxReputation = 1
    MaxDepth = 2
SYMMETRY ProviderSymmetry
INVARIANTS BucketsMatchBalance StakesSumToTotal DeactivatedMayLeave
PROPERTY PrincipalMovesByRule
