SPECIFICATION FairSpec
CONSTANTS
    MaxActions = 3
    Ballots <- MCBallots
    Runs = {r1, r2}
    MaxRetries = 2
    MaxCrashes = 1
INVARIANTS
    TypeOK
    NothingDropped
    EffectsAreCounted
    EarlierBallotFirst
PROPERTY
    EventuallySettled
CHECK_DEADLOCK FALSE
