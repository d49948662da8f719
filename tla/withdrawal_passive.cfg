\* Two contributors and two members who never contributed, one ballot handled
\* at a time and no failure at all.
CONSTANTS
    Users = {u1, u2, u3, u4}
    Members = {u1, u2, u3, u4}
    Contributors = {u1, u2}
    Requests = {w1}
    Attempts = {a1, a2}
    Handlers = {h1}
    Hooks = {}
    InitialBalance = 1
    Amount = 1
    Share = 1
    MaxDebits = 1
    Environment = {}
    None = None
    Threshold = 60
    QuorumMin = 1
SPECIFICATION Spec
SYMMETRY Symmetry
CHECK_DEADLOCK FALSE
INVARIANT
    PassiveMembersCannotBlock
