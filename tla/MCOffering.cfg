\* One form, two concurrent decisions, two churches, one user.
CONSTANTS
    c1 = c1
    m1 = m1
    Forms = {f1}
    Calls = {d1, d2}
    Users = {u1}
    Churches = {c1, c2}
    Methods = {m1}
    MethodChurch <- MCMethodChurch
    Admins = {}
    Nobody = Nobody
SPECIFICATION Spec
SYMMETRY Symmetry
INVARIANTS
    TypeOK
    DecidedByItsClergy
    OfferingOfItsChurch
PROPERTY ImplementsDecision
CHECK_DEADLOCK FALSE
