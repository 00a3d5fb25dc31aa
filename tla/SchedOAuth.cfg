\* An account with a short-lived token: do edits respect its horizon?
SPECIFICATION Spec
CONSTANTS
    a1 = a1  a2 = a2  i1 = i1  i2 = i2  i3 = i3
    n1 = n1  n2 = n2  h1 = h1  h2 = h2  plain = plain  poison = poison
    None = None
    Accounts = {a1}
    Ids = {i1}
    Nodes = {n1}
    Handlers = {h1}
    Host <- MCHost
    Bodies = {plain}
    Poison = {}
    Times = {0, 1}
    OAuthAccounts = {a1}
    Reach <- MCReach
    Stoppable = {}
    MaxPending = 1
    MaxAttempts = 2
    Grace = 0
    Horizon = 1
    OAuthHorizon = 0
    MaxTime = 0
    MaxRequests = 2
    MaxTroubles = 0
    MaxRotations = 0
PROPERTY OAuthHorizonKept
