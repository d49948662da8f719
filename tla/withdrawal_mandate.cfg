\* Two contributors and a passive member; two ballots and a webhook at a time.
CONSTANTS
    Users = {u1, u2, u3}
    Members = {u1, u2, u3}
    Contributors = {u1, u2}
    Requests = {w1}
    Attempts = {a1, a2}
    Handlers = {h1, h2}
    Hooks = {k1}
    InitialBalance = 1
    Amount = 1
    Share = 1
    MaxDebits = 1
    Environment <- StableSurroundings
    None = None
    Threshold = 50
    QuorumMin = 1
SPECIFICATION Spec
SYMMETRY Symmetry
CHECK_DEADLOCK FALSE
INVARIANTS
    TypeOK
    Mandate
    RejectedNeverOrdered
    OneOrderPerBallot
    BookedMeansAccepted
PROPERTY
    ImplementsDisbursement
