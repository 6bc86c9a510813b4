SPECIFICATION Spec
CONSTANTS
    r1 = r1
    r2 = r2
    Request = {r1, r2}
    Appointment = {a1}
    HasClient = {a1}
    Product = {p1}
    UsageKey = {u1}
    Quantity = {1}
    MaxStock = 2
    May <- TwoDesks
    Null = Null
SYMMETRY UsageSymmetry
INVARIANTS
    RenderedOnce
