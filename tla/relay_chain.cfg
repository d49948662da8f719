\* Three relays of two members, each submitted up to twice, before or after its
\* deadline; a proposal is resolved by its first ballot.
CONSTANTS
    Members = {m1, m2}
    Vaults = {v1}
    Relays = {r1, r2, r3}
    Amounts = {1}
    BallotFloor = 0
    Lifetime = 0
    MaxTries = 2
    MaxProposals = 1
    MaxTime = 1
SPECIFICATION Spec
SYMMETRY Symmetry
CHECK_DEADLOCK FALSE
INVARIANTS
    TypeOK
    AccountsMatchEvents
    TalliesAreVoters
    ReleasedByMajority
    ExecutedOnce
    ConfirmedIsSettled
