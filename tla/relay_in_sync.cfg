\* Two relays of a member that read the same nonce.
CONSTANTS
    Members = {m1, m2}
    Vaults = {v1}
    Relays = {r1, r2}
    Amounts = {1}
    BallotFloor = 5
    Lifetime = 0
    MaxTries = 1
    MaxProposals = 1
    MaxTime = 0
SPECIFICATION Spec
SYMMETRY Symmetry
CHECK_DEADLOCK FALSE
INVARIANT
    ConfirmedIsAccepted
