SPECIFICATION Spec
CONSTANTS
    Users = {u1, u2}
    Invitations = {i1, i2}
    Handlers = {h1, h2}
    MaxRows = 2
    None = None
SYMMETRY Symmetry
INVARIANTS
    TypeOK
    AdmissionsAreBounded
PROPERTIES
    LastAdminLostByRaceOnly
    AdminsDemotedByRaceOnly
    ClosedStaysClosed
CHECK_DEADLOCK FALSE
