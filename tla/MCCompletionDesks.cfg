SPECIFICATION Spec
CONSTANTS
    r1 = r1
    r2 = r2
    Request = {r1, r2}
    Appointment = {a1, a2}
    HasClient = {a1}
    Product = {p1}
    UsageKey = {u1, u2}
    Quantity = {1}
    MaxStock = 1
    May <- DeskAndDeliveries
    Null = Null
SYMMETRY UsageSymmetry
INVARIANTS
    TypeOK
    NeverByHalves
    StockNeverNegative
PROPERTIES
    OnlyStaleWritesLose
