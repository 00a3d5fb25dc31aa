\* Two requests, two clients; one failing command and one foreign change.
SPECIFICATION MCSpec
CONSTANTS
    Own = own  Other = other
    Listing <- MCListing  Mail <- MCMail
    Label = "Label"
    Versions = {v1}
    Requests = {r1, r2}
    MaxRequests = 2  MaxFaults = 1  MaxOthers = 1
    None = None
    m1 = m1  m2 = m2  d1 = d1
    Paths = {p1, p2, p3}  Books = {b1, b2}  g1 = g1  g2 = g2
    Start = {p1, p2}  FirstBook = b1  BookOf <- MCBookOf  Groups = {g1, g2}  MaxEdits = 1
    p1 = p1  p2 = p2  p3 = p3  b1 = b1  b2 = b2
    Slots = {s1, f1}  FormSlots = {f1}  Meetings = {i1}
    MaxVersions = 3  MaxChanges = 3
    Users = {ua, ub}  Home = {ua}  Demo = demo
    Rotates = TRUE  MaxGrants = 2  MaxAdmitted = 4
    Tokens = {r1, r2}  TTL = 1  MaxComposed = 2
    Primary = own  Titles = {m1}  Limit = 2  MaxPuts = 3
    Endpoints = {e1, e2, e3}  Key <- MCKey  Senders = {n1, n2}
    Ids = {1, 2, 3}  Subjects = {"s"}  Positions = {1, 2, 3}  Lists <- MCLists
    e1 = e1  e2 = e2  e3 = e3  k1 = k1  k2 = k2
SYMMETRY MCSymmetry
CHECK_DEADLOCK FALSE
INVARIANTS
    TypesOK NothingLost CopiesBounded
    AnswersAgree InviteesAgree TokenUsable
    TokenOnce UploadAccounted RetriesStoreOnce NoCycle CompleteListShownOnce
PROPERTIES
    OnlyStaleWritesUndo SuccessReachesAll
    OnlyALoginSignsIn IdentityKept EntriesAreRight OnlyGoneIsRemoved
