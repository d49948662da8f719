\* Two users of whom one has contributed at the start.  Users contribute, leave, are
\* removed and join during the vote, and ballots are deleted on errors; the provider
\* answers every order and sends no webhook.
CONSTANTS
    Users = {u1, u2}
    Members = {u1, u2}
    Contributors = {u1}
    Requests = {w1}
    Attempts = {a1, a2}
    Handlers = {h1, h2}
    Hooks = {}
    InitialBalance = 1
    Amount = 1
    Share = 0
    MaxDebits = 2
    Environment <- FailingSteps
    None = None
    Threshold = 50
    QuorumMin = 1
SPECIFICATION Spec
SYMMETRY Symmetry
CHECK_DEADLOCK FALSE
INVARIANTS
    BooksMatchTransfers
    OneOrderPerBallot
