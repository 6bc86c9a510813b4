SPECIFICATION Spec
CONSTANTS
    r1 = r1
    r2 = r2
    r3 = r3
    Request = {r1, r2, r3}
    Appointment = {a1, a2}
    Staff = {s1}
    Edited = {s1}
    Start = {0, 1}
    Duration = {1, 2}
    May <- BookersAndDesk
    Null = Null
SYMMETRY KeySymmetry
INVARIANTS
    WindowStaysFree
    NoWaitCycle
PROPERTIES
    ConflictIsReal
