------------------------------- MODULE Ledger -------------------------------
(***************************************************************************)
(* Money: the payments recorded against appointments, the balance of an    *)
(* appointment, the commissions a completion writes, and the reports that  *)
(* add all of it up.  A request reads, edits the object it has read, and   *)
(* commits the columns that differ; a report reads in several statements,  *)
(* each of which sees what is committed when it starts.                    *)
(*                                                                         *)
(* What a booking fixes once and for all is a constant: the lines, their   *)
(* prices and rates, the total and the discount.  Who performs it is one   *)
(* too (moving an appointment is in Booking), and the window every report  *)
(* is asked for covers all appointments.                                   *)
(***************************************************************************)
EXTENDS Integers, FiniteSets, FiniteSetsExt, Functions, Lifecycle

CONSTANTS
    Request,        \* the concurrent requests the server is working on
    Appointment,    \* appointments that can be booked
    Payment,        \* bound: the payments that can ever be recorded
    Period,         \* calendar periods the revenue report buckets by
    Service,        \* names of services
    Staff,          \* staff members
    Specialist,     \* specialist records, which commissions are owed to
    Line,           \* service lines of the appointments
    Amount,         \* bound: the amounts somebody types in
    StaffOf,        \* StaffOf[a]: who performs appointment a
    TotalOf, DiscountOf,            \* of an appointment, fixed when booked
    AppointmentOf, ServiceOf, PriceOf, QuantityOf, RateOf,  \* of a line
    SpecialistOf,   \* SpecialistOf[s]: the record of a staff member, or Null
    PaidFor, PeriodOf,      \* of a payment: its appointment, the period it is recorded in
    Self,           \* Self[r]: the staff member who makes request r, or Null
    May,            \* May[r]: the kinds of request r makes
    Null            \* SQL NULL, an absent row

Kind == {"book", "status", "delete_staff", "pay", "edit", "remove",
         "balance", "performance", "commissions"}

ASSUME AmountAssumption == Amount \subseteq Nat \ {0}
ASSUME PricesAssumption ==
    /\ AppointmentOf \in [Line -> Appointment]
    /\ PriceOf \in [Line -> Nat] /\ RateOf \in [Line -> Nat]
    /\ QuantityOf \in [Line -> Nat \ {0}]
    /\ ServiceOf \in [Line -> Service] /\ PeriodOf \in [Payment -> Period]
    /\ TotalOf \in [Appointment -> Nat] /\ DiscountOf \in [Appointment -> Nat]
ASSUME PeopleAssumption ==
    /\ StaffOf \in [Appointment -> Staff] /\ PaidFor \in [Payment -> Appointment]
    /\ SpecialistOf \in [Staff -> Specialist \cup {Null}]
    /\ \A s, u \in Staff :      \* a record has one staff_id
            SpecialistOf[s] = SpecialistOf[u] /\ SpecialistOf[s] # Null => s = u
    /\ Self \in [Request -> Staff \cup {Null}]
    /\ Staff \cap Specialist = {}   \* keys of two tables, both uuid4
ASSUME FiniteAssumption ==
    \A rows \in {Appointment, Payment, Line, Staff, Service, Period} : IsFiniteSet(rows)
ASSUME MayAssumption == May \in [Request -> SUBSET Kind]

VARIABLES
    status,         \* status[a]: Null or the committed status
    payments,       \* payments[p]: Null or the committed row
    commissions,    \* commissions[l]: how many rows there are for line l
    deletedStaff,   \* staff members that are soft-deleted
    pc, tx,         \* the requests: step, transaction
    answer          \* the balance or report the last step has answered with

tables == <<status, payments, commissions, deletedStaff>>
vars == <<tables, pc, tx, answer>>

PaymentStatus == {"pending", "paid", "refunded"}

PaymentRow == [amount : Amount, status : PaymentStatus, deleted : BOOLEAN]

ASSUME NullAssumption == Null \notin Status \cup PaymentRow \cup Staff \cup Specialist

(* An open transaction: the payment with the row that was read and the     *)
(* object it was turned into; the appointment, the status read and the one *)
(* asked for, whether commissions were found; what a report has read.      *)
Tx == [ kind : Kind \cup {"none"},
        payment : Payment \cup {Null},
        read : PaymentRow \cup {Null}, object : PaymentRow \cup {Null},
        appt : Appointment \cup {Null}, status : Status \cup {Null},
        processed : BOOLEAN,
        scope : Staff \cup {Null},
        bookings : [Staff -> Nat], completed : [Staff -> Nat],
        revenue : [Staff -> Nat] ]

Nothing == [s \in Staff |-> 0]

NoTx == [ kind |-> "none", payment |-> Null, read |-> Null, object |-> Null,
          appt |-> Null, status |-> Null, processed |-> FALSE, scope |-> Null,
          bookings |-> Nothing, completed |-> Nothing, revenue |-> Nothing ]

BalanceOut == [ kind : {"balance"}, appt : Appointment, paid : Nat,
                outstanding : Nat, settled : BOOLEAN ]

PerformanceOut == [ kind : {"performance"}, scope : Staff \cup {Null},
                    bookings : [Staff -> Nat], completed : [Staff -> Nat],
                    revenue : [Staff -> Nat], named : SUBSET Staff ]

CommissionsOut == [ kind : {"commissions"}, scope : Staff \cup Specialist \cup {Null},
                    amount : [Specialist -> Nat] ]

TypeOK ==
    /\ status \in [Appointment -> Status \cup {Null}]
    /\ payments \in [Payment -> PaymentRow \cup {Null}]
    /\ commissions \in [Line -> Nat]
    /\ deletedStaff \subseteq Staff
    /\ pc \in [Request -> {"idle", "commit", "sum", "revenue", "names"}]
    /\ tx \in [Request -> Tx]
    /\ answer \in {Null} \cup BalanceOut \cup PerformanceOut \cup CommissionsOut

Init ==
    /\ status = [a \in Appointment |-> Null]
    /\ payments = [p \in Payment |-> Null]
    /\ commissions = [l \in Line |-> 0]
    /\ deletedStaff = {}
    /\ pc = [r \in Request |-> "idle"]
    /\ tx = [r \in Request |-> NoTx]
    /\ answer = Null

-----------------------------------------------------------------------------
(* Sums and counts, each one statement of the program.                     *)

PaymentsOf(a) == {p \in Payment : PaidFor[p] = a}

(* WHERE status = 'paid' AND deleted_at IS NULL                            *)
Counts(p) == payments[p] # Null /\ payments[p].status = "paid" /\ ~payments[p].deleted

Sum(ps) == SumFunctionOnSet([p \in ps |-> payments[p].amount], ps)

PaidSum(a) == Sum({p \in PaymentsOf(a) : Counts(p)})

LinesOf(a) == {l \in Line : AppointmentOf[l] = a}

Value(ls) == SumFunctionOnSet([l \in ls |-> PriceOf[l] * QuantityOf[l]], ls)

With(set) == {a \in Appointment : status[a] \in set}

CompletedLines == {l \in Line : AppointmentOf[l] \in With({"completed"})}

(* A payment joins the one appointment it is for.                          *)
DayRevenue ==
    Sum({p \in Payment : Counts(p) /\ status[PaidFor[p]] # Null})

RevenueByPeriod == [d \in Period |-> Sum({p \in Payment : Counts(p) /\ PeriodOf[p] = d})]

RevenueByService ==
    [v \in Service |-> Value({l \in CompletedLines : ServiceOf[l] = v})]

RevenueByStaff ==
    [s \in Staff |-> Value({l \in CompletedLines : StaffOf[AppointmentOf[l]] = s})]

Bookings(set) == [s \in Staff |-> Cardinality({a \in With(set) : StaffOf[a] = s})]

(* Fault: rounded up, a whole cent added to what is exact.                 *)
RoundUpCents(n, d) == n \div d + 1

(* _round_cents: ROUND_HALF_UP of n / d.                                   *)
RoundCents(n, d) == (2 * n + d) \div (2 * d)

(* The amount of a commission row, by the rate of the line in percent.     *)
CommissionOn(l) == RoundCents(PriceOf[l] * QuantityOf[l] * RateOf[l], 100)

OwedTo(o) ==
    SumFunctionOnSet([l \in Line |-> commissions[l] * CommissionOn(l)],
                     {l \in Line : SpecialistOf[StaffOf[AppointmentOf[l]]] = o})

-----------------------------------------------------------------------------
Moves(r, step, t) == pc' = [pc EXCEPT ![r] = step] /\ tx' = [tx EXCEPT ![r] = t]

Go(r, step, t) == Moves(r, step, t) /\ answer' = Null

Reply(r) == Go(r, "idle", NoTx)

Shows(r, out) == Moves(r, "idle", NoTx) /\ answer' = out

Receives(r, kind) == pc[r] = "idle" /\ kind \in May[r]

-----------------------------------------------------------------------------
(* Appointments, as far as money sees them.                                *)

Book(r) ==
    /\ Receives(r, "book")
    /\ \E a \in Appointment :
        /\ status[a] = Null /\ StaffOf[a] \notin deletedStaff
        /\ status' = [status EXCEPT ![a] = "requested"]
    /\ Reply(r)
    /\ UNCHANGED <<payments, commissions, deletedStaff>>

StatusArrive(r) ==
    /\ Receives(r, "status")
    /\ \E a \in Appointment, new \in Status :
        /\ status[a] # Null /\ new \in LegalTransitions[status[a]]
        /\ Go(r, "commit",
              [NoTx EXCEPT !.kind = "status", !.appt = a, !.status = new,
                           !.processed = \E l \in LinesOf(a) : commissions[l] > 0])
    /\ UNCHANGED tables

(* Lines a completion adds a commission row for: the staff member has a    *)
(* specialist record and no row was found.                                 *)
Earning(t) ==
    IF /\ t.status = "completed"
       /\ ~t.processed
       /\ SpecialistOf[StaffOf[t.appt]] # Null
    THEN LinesOf(t.appt)
    ELSE {}

CommitStatus(r) ==
    /\ pc[r] = "commit" /\ tx[r].kind = "status"
    /\ status' = [status EXCEPT ![tx[r].appt] = tx[r].status]
    /\ commissions' =
        [l \in Line |-> commissions[l] + (IF l \in Earning(tx[r]) THEN 1 ELSE 0)]
    /\ Reply(r)
    /\ UNCHANGED <<payments, deletedStaff>>

DeleteStaff(r) ==
    /\ Receives(r, "delete_staff")
    /\ \E s \in Staff \ deletedStaff : deletedStaff' = deletedStaff \cup {s}
    /\ Reply(r)
    /\ UNCHANGED <<status, payments, commissions>>

-----------------------------------------------------------------------------
(* Payments.                                                               *)

(* POST /payments: against any appointment, whatever it has been paid.     *)
CreatePayment(r) ==
    /\ Receives(r, "pay")
    /\ \E p \in Payment, n \in Amount, s \in PaymentStatus :
        /\ payments[p] = Null /\ status[PaidFor[p]] # Null
        /\ payments' = [payments EXCEPT ![p] =
                [amount |-> n, status |-> s, deleted |-> FALSE]]
    /\ Reply(r)
    /\ UNCHANGED <<status, commissions, deletedStaff>>

Loads(r, kind, p, object) ==
    /\ payments[p] # Null /\ ~payments[p].deleted
    /\ Go(r, "commit", [NoTx EXCEPT !.kind = kind, !.payment = p,
                                    !.read = payments[p], !.object = object])

(* PATCH /payments/{id}: 404 unless live; the fields that were sent.       *)
EditArrive(r) ==
    /\ Receives(r, "edit")
    /\ \E p \in Payment :
        \/ \E n \in Amount : Loads(r, "edit", p, [payments[p] EXCEPT !.amount = n])
        \/ \E s \in PaymentStatus : Loads(r, "edit", p, [payments[p] EXCEPT !.status = s])
        \/ \E n \in Amount, s \in PaymentStatus :
                Loads(r, "edit", p, [payments[p] EXCEPT !.amount = n, !.status = s])
    /\ UNCHANGED tables

(* DELETE /payments/{id}: 404 unless live.                                 *)
RemoveArrive(r) ==
    /\ Receives(r, "remove")
    /\ \E p \in Payment : Loads(r, "remove", p, [payments[p] EXCEPT !.deleted = TRUE])
    /\ UNCHANGED tables

(* Fault: the UPDATE writes every column of the object.                    *)
WrittenWhole(row, read, object) == object

(* The UPDATE of a commit writes the columns the request has changed, onto *)
(* the row as it is then.                                                  *)
Written(row, read, object) ==
    [f \in DOMAIN row |-> IF object[f] # read[f] THEN object[f] ELSE row[f]]

CommitPayment(r) ==
    /\ pc[r] = "commit" /\ tx[r].kind \in {"edit", "remove"}
    /\ payments' = [payments EXCEPT ![tx[r].payment] =
            Written(payments[tx[r].payment], tx[r].read, tx[r].object)]
    /\ Reply(r)
    /\ UNCHANGED <<status, commissions, deletedStaff>>

-----------------------------------------------------------------------------
(* GET .../balance: the appointment, then what is paid.                    *)

BalanceArrive(r) ==
    /\ Receives(r, "balance")
    /\ \E a \in Appointment :
        /\ status[a] # Null
        /\ Go(r, "sum", [NoTx EXCEPT !.kind = "balance", !.appt = a])
    /\ UNCHANGED tables

Owed(a) == TotalOf[a] - DiscountOf[a]

(* Fault: an overpaid appointment has a negative amount outstanding.       *)
BalanceUnfloored(a, paid) ==
    [ kind |-> "balance", appt |-> a, paid |-> paid,
      outstanding |-> Owed(a) - paid, settled |-> paid >= Owed(a) ]

(* Fault: settled compares with the total, as if there were no discount.   *)
BalanceOfTotal(a, paid) ==
    [ kind |-> "balance", appt |-> a, paid |-> paid,
      outstanding |-> Max({0, Owed(a) - paid}), settled |-> paid >= TotalOf[a] ]

Balance(a, paid) ==
    [ kind |-> "balance", appt |-> a, paid |-> paid,
      outstanding |-> Max({0, Owed(a) - paid}), settled |-> paid >= Owed(a) ]

BalanceSum(r) ==
    /\ pc[r] = "sum"
    /\ Shows(r, Balance(tx[r].appt, PaidSum(tx[r].appt)))
    /\ UNCHANGED tables

-----------------------------------------------------------------------------
(* Reports.                                                                *)

(* _resolve_specialist_id: the office gives any id, or none for everyone;  *)
(* a staff member gets their own staff id, and none when it is deleted.    *)
Scopes(r, ids) ==
    IF Self[r] = Null THEN ids \cup {Null}
    ELSE IF Self[r] \in deletedStaff THEN {Null}
    ELSE {Self[r]}

CountBookings(t) ==
    [t EXCEPT !.bookings = Bookings(Status), !.completed = Bookings({"completed"})]

SumRevenue(t) == [t EXCEPT !.revenue = RevenueByStaff]

(* Fault: the revenue is summed before the bookings are counted.           *)
RevenueFirst(first, t) == IF first THEN SumRevenue(t) ELSE CountBookings(t)

(* The first two statements of the performance report, in their order.     *)
BookingsFirst(first, t) == IF first THEN CountBookings(t) ELSE SumRevenue(t)

PerformanceArrive(r) ==
    /\ Receives(r, "performance")
    /\ \E s \in Scopes(r, Staff) :
        Go(r, "revenue",
           BookingsFirst(TRUE, [NoTx EXCEPT !.kind = "performance", !.scope = s]))
    /\ UNCHANGED tables

PerformanceRevenue(r) ==
    /\ pc[r] = "revenue"
    /\ Go(r, "names", BookingsFirst(FALSE, tx[r]))
    /\ UNCHANGED tables

(* Fault: names only of staff that is not deleted.                         *)
LiveNames(scope) ==
    {s \in Staff \ deletedStaff : Bookings(Status)[s] > 0 /\ (scope = Null \/ scope = s)}

(* The last statement: the staff with appointments in range, and the only  *)
(* one that is restricted to the scope.                                    *)
Names(scope) == {s \in Staff : Bookings(Status)[s] > 0 /\ (scope = Null \/ scope = s)}

PerformanceNames(r) ==
    /\ pc[r] = "names"
    /\ Shows(r, [ kind |-> "performance", scope |-> tx[r].scope,
                  bookings |-> tx[r].bookings, completed |-> tx[r].completed,
                  revenue |-> tx[r].revenue, named |-> Names(tx[r].scope) ])
    /\ UNCHANGED tables

(* GET /reports/commissions: rows by specialist record, restricted to the  *)
(* one whose specialist_id equals the scope, which may be a staff id.      *)
ReportCommissions(r) ==
    /\ Receives(r, "commissions")
    /\ \E s \in Scopes(r, Staff \cup Specialist) :
        Shows(r, [ kind |-> "commissions", scope |-> s,
                   amount |-> [o \in Specialist |->
                        IF s = Null \/ o = s THEN OwedTo(o) ELSE 0] ])
    /\ UNCHANGED tables

-----------------------------------------------------------------------------
(* The connection dies: what is committed stays.                           *)
Abort(r) ==
    /\ pc[r] # "idle"
    /\ Reply(r)
    /\ UNCHANGED tables

Next ==
    \E r \in Request :
        \/ Book(r) \/ StatusArrive(r) \/ CommitStatus(r) \/ DeleteStaff(r)
        \/ CreatePayment(r) \/ EditArrive(r) \/ RemoveArrive(r) \/ CommitPayment(r)
        \/ BalanceArrive(r) \/ BalanceSum(r)
        \/ PerformanceArrive(r) \/ PerformanceRevenue(r) \/ PerformanceNames(r)
        \/ ReportCommissions(r)
        \/ Abort(r)

Spec == Init /\ [][Next]_vars

-----------------------------------------------------------------------------
(* Properties.                                                             *)

ChangesAsAsked ==
    \A p \in Payment :
        payments[p] # Null =>
            \A f \in DOMAIN payments[p] :
                payments'[p][f] # payments[p][f] =>
                    \E r \in Request :
                        /\ pc[r] = "commit" /\ pc'[r] = "idle"
                        /\ tx[r].payment = p
                        /\ tx[r].object[f] = payments'[p][f]
                        /\ tx[r].object[f] # tx[r].read[f]

(* A column of a payment changes only to what a request that commits in    *)
(* this very step asked for; two requests that edit different columns of a *)
(* payment, or one that edits and one that deletes it, never undo one      *)
(* another (update_payment, delete_payment).                               *)
NoEditIsUndone == [][ChangesAsAsked]_vars

Answers(kind) == answer # Null /\ answer.kind = kind

(* A balance is settled exactly when nothing is outstanding, also when the *)
(* discount is larger than the total or more was paid than was owed, and   *)
(* before any payment exactly when the discount covers the total           *)
(* (appointment_balance).                                                  *)
SettledIsPaidUp ==
    Answers("balance") =>
        /\ answer.settled <=> answer.outstanding = 0
        /\ answer.paid + answer.outstanding >= Owed(answer.appt)
        /\ answer.paid = 0 =>
            (answer.settled <=> DiscountOf[answer.appt] >= TotalOf[answer.appt])

(* A row that counts completed appointments and values the lines of as many. *)
Earned(row) ==
    \A s \in Staff :
        \E as \in SUBSET {a \in Appointment : StaffOf[a] = s} :
            /\ Cardinality(as) >= row.completed[s]
            /\ row.revenue[s] = Value(UNION {LinesOf(a) : a \in as})

(* The performance report shows, for every staff member, the value of at   *)
(* least as many completed appointments as it counts, although a           *)
(* completion may commit between the two statements (performance_report).  *)
(* It holds while one request at a time changes statuses.                  *)
CompletedIsEarned == Answers("performance") => Earned(answer)

(* A performance report of everyone knows the name of everyone it has      *)
(* numbers for, staff deleted since included (performance_report).         *)
EveryRowIsNamed ==
    Answers("performance") /\ answer.scope = Null =>
        {s \in Staff : answer.bookings[s] > 0 \/ answer.revenue[s] > 0}
            \subseteq answer.named

(* However it is grouped, the revenue report sums the same recognized      *)
(* revenue, that of the dashboard ("Recognized revenue (paid payments)",   *)
(* revenue_report). The code violates it: two of the groupings sum         *)
(* completed lines, paid or not.                                           *)
GroupingsAgree ==
    /\ SumFunction(RevenueByPeriod) = DayRevenue
    /\ SumFunction(RevenueByService) = DayRevenue
    /\ SumFunction(RevenueByStaff) = DayRevenue

(* With one desk changing statuses, and rates of at most a hundred         *)
(* percent, nobody is owed more commission than their completed services   *)
(* cost, line by line rounding included (_generate_commissions,            *)
(* _round_cents).                                                          *)
CommissionsWithinRevenue ==
    \A s \in Staff :
        /\ SpecialistOf[s] # Null
        /\ \A l \in Line : StaffOf[AppointmentOf[l]] = s => RateOf[l] <= 100
        => OwedTo(SpecialistOf[s]) <= RevenueByStaff[s]

(* A commission report restricted to a staff member shows what their       *)
(* specialist record is owed ("Earned commissions per specialist for       *)
(* completed appointments in range", commissions_report). The code         *)
(* violates it: a staff id is no key of specialists.                       *)
OwnCommissionsShown ==
    Answers("commissions") =>
        \A s \in Staff :
            answer.scope = s /\ SpecialistOf[s] # Null =>
                answer.amount[SpecialistOf[s]] = OwedTo(SpecialistOf[s])

=============================================================================
