CONSTANTS
    u1 = u1
    u2 = u2
    d1 = d1
    d2 = d2
    NoGroup = NoGroup
    Reqs = {q1, q2}
    Sessions = {u1, u2}
    Splits = {d1, d2}
    Sticky = {d1}
    Groups <- MCGroups
    Hash <- MCHash
    MaxSessions = 1
    MaxReloads = 1
SPECIFICATION SplitSpec
INVARIANTS StickyForLife
