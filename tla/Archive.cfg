SPECIFICATION MCSpec
CONSTANTS
    a = a
    b = b
    c = c
    u = u
    s = s
    t = t
    Messages = {a, b, c}
    Unseen = {u}
    Refs <- MCRefs
    Senders = {s, t}
    SenderOf <- MCSenderOf
    Classified = {s}
    Sent = {}
    Merges = {k1}
INVARIANT ExportIsAccepted
CHECK_DEADLOCK FALSE
