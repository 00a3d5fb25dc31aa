\* Two requests, three callers of the session file; a quota of one account.
SPECIFICATION MCSpec
CONSTANTS
    Requests = {r1, r2}
    None = None
    Files = {f1, f2, f3, f4}
    Callers = {c1, c2, c3}
    Domains = {d1, d2, d3}  MaxEntries = 2  Warmers = {c1}
    Emails = {e1, e2, e3}  Primary = p  Quota = 1  MaxFetches = 1  MaxFaults = 1
CHECK_DEADLOCK FALSE
INVARIANTS
    TypesOK OnlyLogoutCutsOff OrderIsTheCache QuotaOvershoot
PROPERTIES
    StuckOnlyByUpgrade RequestEnds MarkIsTakenBack UnifiedAnswers
