SPECIFICATION FairSpec
CONSTANTS
    r1 = r1
    r2 = r2
    r3 = r3
    Request = {r1, r2, r3}
    Appointment = {a1, a2}
    Staff = {s1, s2}
    Edited = {}
    Start = {0}
    Duration = {1}
    May <- OneOfEach
    Null = Null
PROPERTIES
    EveryRequestEnds
