\* Three contributors who all vote, with the default threshold and quorum, and
\* no failure at all; the last two ballots are handled at one time.
CONSTANTS
    Users = {u1, u2, u3}
    Members = {u1, u2, u3}
    Contributors = {u1, u2, u3}
    Requests = {w1}
    Attempts = {a1, a2}
    Handlers = {h1, h2}
    Hooks = {}
    InitialBalance = 1
    Amount = 1
    Share = 1
    MaxDebits = 1
    Environment = {}
    None = None
    Threshold = 60
    QuorumMin = 3
SPECIFICATION Spec
SYMMETRY Symmetry
CHECK_DEADLOCK FALSE
INVARIANT
    TransferredOnce
