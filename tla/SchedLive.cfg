\* One server process that fails, is stopped and is started again, with
\* records of two accounts and mail servers that may stop answering.
SPECIFICATION FairSpec
CONSTANTS
    a1 = a1  a2 = a2  i1 = i1  i2 = i2  i3 = i3
    n1 = n1  n2 = n2  h1 = h1  h2 = h2  plain = plain  poison = poison
    None = None
    Accounts = {a1, a2}
    Ids = {i1, i2}
    Nodes = {n1}
    Handlers = {h1}
    Host <- MCHost
    Bodies = {plain, poison}
    Poison = {poison}
    Times = {1}
    OAuthAccounts = {}
    Reach <- MCReach
    Stoppable = {n1}
    MaxPending = 1
    MaxAttempts = 2
    Grace = 0
    Horizon = 1
    OAuthHorizon = 0
    MaxTime = 1
    MaxRequests = 2
    MaxTroubles = 1
    MaxRotations = 1
INVARIANT TypeOK
PROPERTY DueRecordRetires
CHECK_DEADLOCK FALSE
