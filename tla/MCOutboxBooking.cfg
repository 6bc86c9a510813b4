SPECIFICATION Spec
CONSTANTS
    r1 = r1
    r2 = r2
    a1 = a1
    a2 = a2
    c1 = c1
    u1 = u1
    Request = {r1}
    Operation = {o1, o2, o3}
    Appointment = {a1, a2}
    User = {u1}
    Client = {c1}
    ClientOf <- ClientAndWalkIn
    AccountOf <- OneAccount
    MaxNotes = 3
    May <- OneDesk
    Null = Null
SYMMETRY OperationSymmetry
INVARIANTS
    BookingIsAnnounced
