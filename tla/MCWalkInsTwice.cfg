SPECIFICATION Spec
CONSTANTS
    r1 = r1
    r2 = r2
    Request = {r1, r2}
    WalkIn = {w1}
    Client = {c1, c2}
    Appointment = {a1, a2}
    Line = {l1, l2}
    NameOf <- SameName
    May <- TwoConverters
    Null = Null
SYMMETRY Keys
INVARIANTS
    LinkedHistoryIsComplete
