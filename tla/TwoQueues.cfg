SPECIFICATION MCSpec
CONSTANTS
    a = a
    b = b
    c = c
    d = d
    e = e
    u = u
    s = s
    t = t
    own = own
    n1 = n1
    n2 = n2
    Messages = {a, b, c, d, e}
    Unseen = {u}
    Refs <- MCRefs
    Senders = {s, t, own}
    SenderOf <- MCSenderOf
    Classified = {s}
    Sent = {d}
    Merges = {k1}
    Mails = {a, b}
    Authors = {s}
    AuthorOf <- MCAuthorOf
    Members = {v, w}
    Admins = {w}
    Names = {a, b, c}
    Words = {s, t}
    MaxBody = 2
    MaxEntries = 2
    MaxBytes = 14
    MaxEntry = 1
    MaxArchive = 12
    Archives = {n1, n2}
    RowsOf <- MCRowsOf
    ObjectsOf <- MCObjectsOf
    Targets = {n1, n2}
INVARIANT NeverInBoth
CHECK_DEADLOCK FALSE
