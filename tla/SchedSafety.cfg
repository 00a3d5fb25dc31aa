\* One server process, two accounts, a quota of one.
SPECIFICATION Spec
CONSTANTS
    a1 = a1  a2 = a2  i1 = i1  i2 = i2  i3 = i3
    n1 = n1  n2 = n2  h1 = h1  h2 = h2  plain = plain  poison = poison
    None = None
    Accounts = {a1, a2}
    Ids = {i1, i2, i3}
    Nodes = {n1}
    Handlers = {h1}
    Host <- MCHost
    Bodies = {plain}
    Poison = {}
    Times = {0}
    OAuthAccounts = {a2}
    Reach <- MCReach
    Stoppable = {}
    MaxPending = 1
    MaxAttempts = 2
    Grace = 0
    Horizon = 1
    OAuthHorizon = 0
    MaxTime = 0
    MaxRequests = 3
    MaxTroubles = 1
    MaxRotations = 1
SYMMETRY MCSymmetry
PROPERTY AtRestForGood
INVARIANTS NoSilentLoss CopiesAccounted QuotaOvershootBounded OwnerIsolation
