SPECIFICATION Spec
CONSTANTS
    r1 = r1
    r2 = r2
    a1 = a1
    a2 = a2
    p1 = p1
    p2 = p2
    s1 = s1
    s2 = s2
    o1 = o1
    l1 = l1
    l2 = l2
    l3 = l3
    v1 = v1
    v2 = v2
    d1 = d1
    d2 = d2
    Request = {r1, r2}
    Appointment = {a1, a2}
    Payment = {p1}
    Period = {d1, d2}
    Service = {v1, v2}
    Staff = {s1, s2}
    Specialist = {o1}
    Line = {l1, l2, l3}
    Amount = {1, 2}
    StaffOf <- StaffOfAppointment
    TotalOf <- Totals
    DiscountOf <- Discounts
    AppointmentOf <- AppointmentOfLine
    ServiceOf <- Services
    PriceOf <- Prices
    QuantityOf <- Quantities
    RateOf <- Rates
    SpecialistOf <- Specialists
    PaidFor <- Payees
    PeriodOf <- Periods
    Self <- Office
    May <- DeskAndOwner
    Null = Null
INVARIANTS
    TypeOK
    SettledIsPaidUp
    
    
    
PROPERTIES
    NoEditIsUndone
