\* A watcher opens the INBOX of another user.
SPECIFICATION Spec
CONSTANTS
    u1 = u1  u2 = u2  t1 = t1  t2 = t2  t3 = t3
    w1 = w1  w2 = w2  w3 = w3
    None = None
    Users = {u1, u2}
    Tabs = {t1, t3}
    OwnerOf <- MCOwnerOf
    Watchers = {w1, w2}
    Buffer = 1
    MaxMail = 1
INVARIANT WatchesOwnInbox
