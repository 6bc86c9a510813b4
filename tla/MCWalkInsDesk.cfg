SPECIFICATION Spec
CONSTANTS
    r1 = r1
    r2 = r2
    Request = {r1, r2}
    WalkIn = {w1, w2}
    Client = {c1, c2, c3}
    Appointment = {a1, a2}
    Line = {l1, l2}
    NameOf <- SameName
    May <- ConverterAndDesk
    Null = Null
SYMMETRY Keys
INVARIANTS
    TypeOK
    HistoryIsPreserved
    HistoryIsEarned
