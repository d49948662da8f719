\* One payment, two requests at a time; the only failure is a relay that throws.
CONSTANTS
    Keys = {k1}
    Direct = {}
    Handlers = {h1, h2}
    Amount = 1
    Attempts = 3
    Environment = {"relayError"}
SPECIFICATION Spec
CHECK_DEADLOCK FALSE
INVARIANT
    AcknowledgedIsNotFailed
