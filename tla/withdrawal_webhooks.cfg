\* Two contributors; two ballots and a webhook at a time, delivered again
\* after the booking; no restart, since nothing resumes what it interrupts.
CONSTANTS
    Users = {u1, u2}
    Members = {u1, u2}
    Contributors = {u1, u2}
    Requests = {w1}
    Attempts = {a1, a2}
    Handlers = {h1, h2}
    Hooks = {k1}
    InitialBalance = 1
    Amount = 1
    Share = 1
    MaxDebits = 2
    Environment <- SettlingSurroundings
    None = None
    Threshold = 60
    QuorumMin = 2
SPECIFICATION FairSpec
CHECK_DEADLOCK FALSE
INVARIANTS
    DisbursingIsHandled
PROPERTY
    DisbursementSettles
