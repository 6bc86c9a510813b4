SPECIFICATION Spec
CONSTANTS
    r1 = r1
    r2 = r2
    r3 = r3
    Request = {r1, r2}
    Appointment = {a1, a2}
    Staff = {s1, s2}
    Edited = {}
    Start = {0, 1}
    Duration = {2}
    May <- TwoMovers
    Null = Null
SYMMETRY KeySymmetry
INVARIANTS
    TypeOK
    NoDoubleBooking
    PassedIsClear
PROPERTIES
    FollowsLifecycle
    ImplementsCalendar
