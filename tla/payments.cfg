\* A payment and a direct contribution, two requests at a time beside the event
\* listener, and every failure.
CONSTANTS
    Keys = {k1, k2}
    Direct = {k2}
    Handlers = {h1, h2}
    Amount = 1
    Attempts = 2
    Environment <- EnvironmentKinds
SPECIFICATION ListenerSpec
SYMMETRY Symmetry
CHECK_DEADLOCK FALSE
INVARIANTS
    ListenerTypeOK
    PaymentWasCollected
    PromptsAreBounded
    CountedOnce
    BalanceIsConfirmed
    EventsAreRecorded
PROPERTIES
    ImplementsCollections
    ImplementsPayments
