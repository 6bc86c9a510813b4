---------------------------- MODULE LedgerProofs ----------------------------
(***************************************************************************)
(* Ledger proved for any number of requests, appointments, payments, lines *)
(* and staff, and for all prices, rates and amounts.  That an edit never   *)
(* undoes another, that a balance is settled when nothing is outstanding   *)
(* and that a report names everyone it has numbers for holds whatever runs *)
(* side by side.  That completed appointments are earned and that          *)
(* commissions stay within the revenue is proved for one request at a time *)
(* that changes statuses.                                                  *)
(***************************************************************************)
EXTENDS Ledger, Sums

Steps == {"idle", "commit", "sum", "revenue", "names"}

(* A staff member who has an appointment. *)
HasBooked(s) == \E a \in Appointment : status[a] # Null /\ StaffOf[a] = s

(* What a request carries at a step: what it is about is there, and whom a *)
(* report has numbers for has an appointment.                              *)
Carried(r, step, t) ==
    /\ step # "idle" => t.kind \in May[r]
    /\ step = "commit" => t.kind \in {"status", "edit", "remove"}
    /\ step = "commit" /\ t.kind = "status" =>
          t.appt \in Appointment /\ status[t.appt] # Null /\ t.status \in Status
    /\ step = "commit" /\ t.kind \in {"edit", "remove"} =>
          /\ t.payment \in Payment /\ payments[t.payment] # Null
          /\ t.read \in PaymentRow /\ t.object \in PaymentRow
    /\ step = "sum" => t.appt \in Appointment
    /\ step \in {"revenue", "names"} =>
          \A s \in Staff : t.bookings[s] > 0 \/ t.revenue[s] > 0 => HasBooked(s)

Carries == \A r \in Request : Carried(r, pc[r], tx[r])

IInv == TypeOK /\ Carries

-----------------------------------------------------------------------------
(* The sums and counts.                                                    *)

LEMMA FiniteRows ==
    /\ IsFiniteSet(Appointment) /\ IsFiniteSet(Payment) /\ IsFiniteSet(Line)
    /\ IsFiniteSet(Staff) /\ IsFiniteSet(Service) /\ IsFiniteSet(Period)
BY FiniteAssumption

LEMMA NullIs ==
    /\ Null \notin Status /\ Null \notin PaymentRow
    /\ Null \notin Staff /\ Null \notin Specialist
BY NullAssumption

(* The greater of zero and an integer. *)
LEMMA Floored ==
    ASSUME NEW x \in Int
    PROVE  /\ Max({0, x}) \in Nat
           /\ Max({0, x}) >= x
           /\ Max({0, x}) = 0 <=> x <= 0
<1>1. \E m \in {0, x} : \A y \in {0, x} : m >= y
  <2>1. CASE x >= 0
    BY <2>1
  <2>2. CASE x < 0
    BY <2>2
  <2> QED
    BY <2>1, <2>2
<1>2. Max({0, x}) \in {0, x} /\ \A y \in {0, x} : Max({0, x}) >= y
  BY <1>1 DEF Max
<1>3. PICK m : m = Max({0, x})
  OBVIOUS
<1> QED
  BY <1>2, <1>3

LEMMA SumOfRows ==
    ASSUME TypeOK, NEW ps \in SUBSET Payment, \A p \in ps : payments[p] # Null
    PROVE  Sum(ps) \in Nat
<1> DEFINE f == [p \in ps |-> payments[p].amount]
<1>1. IsFiniteSet(ps)
  BY FiniteRows, FS_Subset
<1>2. \A p \in ps : f[p] \in Nat
  BY AmountAssumption DEF TypeOK, PaymentRow
<1>3. SumFunctionOnSet(f, ps) \in Nat
  <2> HIDE DEF f
  <2> QED
    BY <1>1, <1>2, SumNat
<1> QED
  BY <1>3 DEF Sum

LEMMA PaidSumType == ASSUME TypeOK, NEW a PROVE PaidSum(a) \in Nat
BY SumOfRows DEF PaidSum, PaymentsOf, Counts

(* The price of a line, how often it was sold. *)
LEMMA LineValue == \A l \in Line : PriceOf[l] * QuantityOf[l] \in Nat
BY PricesAssumption

LEMMA ValueType ==
    ASSUME NEW ls \in SUBSET Line
    PROVE  Value(ls) \in Nat /\ (Value(ls) > 0 => ls # {})
<1> DEFINE f == [l \in ls |-> PriceOf[l] * QuantityOf[l]]
<1>1. IsFiniteSet(ls)
  BY FiniteRows, FS_Subset
<1>2. \A l \in ls : f[l] \in Nat
  BY LineValue
<1>3. SumFunctionOnSet(f, ls) \in Nat
  <2> HIDE DEF f
  <2> QED
    BY <1>1, <1>2, SumNat
<1>4. ls = {} => SumFunctionOnSet(f, ls) = 0
  <2> HIDE DEF f
  <2> QED
    BY SumEmpty
<1> QED
  BY <1>3, <1>4 DEF Value

LEMMA RevenueType ==
    /\ RevenueByStaff \in [Staff -> Nat]
    /\ \A s \in Staff : RevenueByStaff[s] > 0 => HasBooked(s)
<1> DEFINE ls(s) == {l \in CompletedLines : StaffOf[AppointmentOf[l]] = s}
<1>1. \A s \in Staff : ls(s) \in SUBSET Line /\ RevenueByStaff[s] = Value(ls(s))
  BY DEF CompletedLines, RevenueByStaff
<1>2. \A s \in Staff : RevenueByStaff[s] \in Nat /\ (RevenueByStaff[s] > 0 => ls(s) # {})
  <2> HIDE DEF ls
  <2> QED
    BY <1>1, ValueType
<1>3. ASSUME NEW s \in Staff, ls(s) # {} PROVE HasBooked(s)
  <2>1. PICK l \in Line : AppointmentOf[l] \in With({"completed"})
                          /\ StaffOf[AppointmentOf[l]] = s
    BY <1>3 DEF CompletedLines
  <2>2. status[AppointmentOf[l]] = "completed" /\ AppointmentOf[l] \in Appointment
    BY <2>1 DEF With
  <2> QED
    BY <2>1, <2>2, NullIs DEF HasBooked, Status
<1>4. RevenueByStaff \in [Staff -> Nat]
  <2> HIDE DEF ls
  <2> QED
    BY <1>2 DEF RevenueByStaff
<1> QED
  BY <1>2, <1>3, <1>4

(* A finite set that is counted as something is not empty. *)
LEMMA CountType ==
    ASSUME NEW S, IsFiniteSet(S)
    PROVE  Cardinality(S) \in Nat /\ (Cardinality(S) > 0 <=> S # {})
<1>1. PICK n : n = Cardinality(S)
  OBVIOUS
<1>2. n \in Nat /\ (n = 0 <=> S = {})
  BY <1>1, FS_CardinalityType, FS_EmptySet
<1>3. n > 0 <=> S # {}
  BY <1>2
<1> QED
  BY <1>1, <1>2, <1>3, Zenon

LEMMA BookingsType ==
    ASSUME NEW set \in SUBSET Status
    PROVE  /\ Bookings(set) \in [Staff -> Nat]
           /\ \A s \in Staff : Bookings(set)[s] > 0 => HasBooked(s)
<1> DEFINE as(s) == {a \in With(set) : StaffOf[a] = s}
<1>1. \A s \in Staff : as(s) \in SUBSET Appointment /\ Bookings(set)[s] = Cardinality(as(s))
  BY DEF With, Bookings
<1>2. \A s \in Staff : IsFiniteSet(as(s)) /\ Cardinality(as(s)) \in Nat
                       /\ (Cardinality(as(s)) > 0 => as(s) # {})
  <2> SUFFICES ASSUME NEW s \in Staff
               PROVE  IsFiniteSet(as(s)) /\ Cardinality(as(s)) \in Nat
                      /\ (Cardinality(as(s)) > 0 => as(s) # {})
    OBVIOUS
  <2>1. PICK mine : mine = as(s)
    OBVIOUS
  <2>2. IsFiniteSet(mine)
    BY <1>1, <2>1, FiniteRows, FS_Subset
  <2>3. Cardinality(mine) \in Nat /\ (Cardinality(mine) > 0 => mine # {})
    BY <2>2, CountType
  <2> HIDE DEF as
  <2> QED
    BY <2>1, <2>2, <2>3, Zenon
<1>3. ASSUME NEW s \in Staff, as(s) # {} PROVE HasBooked(s)
  BY <1>3, NullIs DEF HasBooked, With
<1>4. Bookings(set) \in [Staff -> Nat]
  <2> HIDE DEF as
  <2> QED
    BY <1>1, <1>2 DEF Bookings
<1> QED
  BY <1>1, <1>2, <1>3, <1>4

(* Who has an appointment is counted for it. *)
LEMMA BookedIsCounted ==
    ASSUME TypeOK, NEW s \in Staff, HasBooked(s)
    PROVE  Bookings(Status)[s] > 0
<1> DEFINE as == {a \in With(Status) : StaffOf[a] = s}
<1>1. as # {}
  BY DEF HasBooked, With, TypeOK
<1>2. as \in SUBSET Appointment /\ Bookings(Status)[s] = Cardinality(as)
  BY DEF With, Bookings
<1> HIDE DEF as
<1>3. Cardinality(as) > 0
  BY <1>1, <1>2, FiniteRows, FS_Subset, CountType
<1> QED
  BY <1>2, <1>3

-----------------------------------------------------------------------------
LEMMA NothingType == Nothing \in [Staff -> Nat] /\ \A s \in Staff : Nothing[s] = 0
BY DEF Nothing

LEMMA NoTxType == NoTx \in Tx /\ NoTx.bookings = Nothing /\ NoTx.revenue = Nothing
                  /\ NoTx.completed = Nothing
BY NothingType DEF NoTx, Tx

LEMMA InitInv == Init => IInv
<1> SUFFICES ASSUME Init PROVE IInv
  OBVIOUS
<1>1. TypeOK
  BY NoTxType DEF Init, TypeOK
<1>2. Carries
  BY DEF Init, Carries, Carried
<1> QED
  BY <1>1, <1>2 DEF IInv

(* Appointments and payments never go away. *)
Grows ==
    /\ \A a \in Appointment : status[a] # Null => status'[a] # Null
    /\ \A p \in Payment : payments[p] # Null => payments'[p] # Null

TablesType ==
    /\ status \in [Appointment -> Status \cup {Null}]
    /\ payments \in [Payment -> PaymentRow \cup {Null}]
    /\ commissions \in [Line -> Nat]
    /\ deletedStaff \subseteq Staff

AnswerType == {Null} \cup BalanceOut \cup PerformanceOut \cup CommissionsOut

LEMMA StillCarried ==
    ASSUME Grows, NEW r, NEW step, NEW t, Carried(r, step, t)
    PROVE  Carried(r, step, t)'
<1>1. \A s \in Staff : HasBooked(s) => HasBooked(s)'
  BY DEF Grows, HasBooked
<1> QED
  BY <1>1 DEF Carried, Grows

LEMMA MovesInv ==
    ASSUME IInv, NEW r \in Request, NEW step \in Steps, NEW t \in Tx,
           Moves(r, step, t), Carried(r, step, t),
           Grows, TablesType', answer' \in AnswerType
    PROVE  IInv'
<1> USE DEF IInv
<1>1. pc'[r] = step /\ tx'[r] = t
      /\ \A q \in Request \ {r} : pc'[q] = pc[q] /\ tx'[q] = tx[q]
  BY DEF Moves, TypeOK
<1>2. TypeOK'
  BY DEF Moves, TypeOK, TablesType, AnswerType, Steps
<1>3. ASSUME NEW q \in Request PROVE Carried(q, pc[q], tx[q])'
  <2>1. PICK step1, t1 : step1 = pc'[q] /\ t1 = tx'[q]
    OBVIOUS
  <2>2. Carried(q, step1, t1)
    BY <1>1, <2>1 DEF Carries
  <2>3. Carried(q, step1, t1)'
    BY <2>2, StillCarried
  <2> QED
    BY <2>1, <2>3 DEF Carried
<1> QED
  BY <1>2, <1>3 DEF Carries

LEMMA SameTables ==
    ASSUME IInv, UNCHANGED tables
    PROVE  Grows /\ TablesType'
BY DEF IInv, TypeOK, TablesType, Grows, tables

LEMMA GoInv ==
    ASSUME IInv, NEW r \in Request, NEW step \in Steps, NEW t \in Tx,
           Go(r, step, t), UNCHANGED tables, Carried(r, step, t)
    PROVE  IInv'
BY SameTables, MovesInv DEF Go, AnswerType

LEMMA ShowsInv ==
    ASSUME IInv, NEW r \in Request, NEW out \in AnswerType,
           Shows(r, out), UNCHANGED tables
    PROVE  IInv'
<1>1. Carried(r, "idle", NoTx)
  BY DEF Carried
<1> QED
  BY <1>1, SameTables, MovesInv, NoTxType DEF Shows, Steps

LEMMA ReplyInv ==
    ASSUME IInv, NEW r \in Request, Reply(r), Grows, TablesType'
    PROVE  IInv'
<1>1. Carried(r, "idle", NoTx)
  BY DEF Carried
<1> QED
  BY <1>1, MovesInv, NoTxType DEF Reply, Go, Steps, AnswerType

-----------------------------------------------------------------------------
(* One lemma per handler.                                                  *)

LEMMA BookInv ==
    ASSUME IInv, NEW r \in Request, Book(r)
    PROVE  IInv'
<1>1. PICK a \in Appointment :
        status[a] = Null /\ status' = [status EXCEPT ![a] = "requested"]
  BY DEF Book
<1>2. UNCHANGED <<payments, commissions, deletedStaff>> /\ Reply(r)
  BY DEF Book
<1>3. Grows
  BY <1>1, <1>2, NullIs DEF Grows, IInv, TypeOK, Status
<1>4. TablesType'
  BY <1>1, <1>2 DEF TablesType, IInv, TypeOK, Status
<1> QED
  BY <1>2, <1>3, <1>4, ReplyInv

LEMMA TransitionsType ==
    \A old \in Status : LegalTransitions[old] \subseteq Status
BY DEF LegalTransitions, Status

LEMMA StatusArriveInv ==
    ASSUME IInv, NEW r \in Request, StatusArrive(r)
    PROVE  IInv'
<1>1. PICK a \in Appointment, new \in Status :
        /\ status[a] # Null /\ new \in LegalTransitions[status[a]]
        /\ Go(r, "commit",
              [NoTx EXCEPT !.kind = "status", !.appt = a, !.status = new,
                           !.processed = \E l \in LinesOf(a) : commissions[l] > 0])
  BY DEF StatusArrive
<1>2. UNCHANGED tables /\ "status" \in May[r]
  BY DEF StatusArrive, Receives
<1> DEFINE found == \E l \in LinesOf(a) : commissions[l] > 0
           t == [NoTx EXCEPT !.kind = "status", !.appt = a, !.status = new,
                             !.processed = found]
<1>3. t \in Tx
  <2>1. found \in BOOLEAN
    OBVIOUS
  <2> HIDE DEF found
  <2> QED
    BY <2>1, NoTxType DEF Tx, Kind
<1>4. t.kind = "status" /\ t.appt = a /\ t.status = new
  BY DEF NoTx
<1>5. Go(r, "commit", t)
  BY <1>1
<1> HIDE DEF t
<1>6. Carried(r, "commit", t)
  BY <1>1, <1>2, <1>4 DEF Carried
<1> QED
  BY <1>2, <1>3, <1>5, <1>6, GoInv DEF Steps

LEMMA CommitStatusInv ==
    ASSUME IInv, NEW r \in Request, CommitStatus(r)
    PROVE  IInv'
<1>1. tx[r].appt \in Appointment /\ tx[r].status \in Status
  BY DEF CommitStatus, IInv, Carries, Carried
<1>2. /\ status' = [status EXCEPT ![tx[r].appt] = tx[r].status]
      /\ UNCHANGED <<payments, deletedStaff>> /\ Reply(r)
  BY DEF CommitStatus
<1>3. commissions' \in [Line -> Nat]
  BY DEF CommitStatus, IInv, TypeOK
<1>4. Grows
  BY <1>1, <1>2, NullIs DEF Grows, IInv, TypeOK
<1>5. TablesType'
  BY <1>1, <1>2, <1>3 DEF TablesType, IInv, TypeOK
<1> QED
  BY <1>2, <1>4, <1>5, ReplyInv

LEMMA DeleteStaffInv ==
    ASSUME IInv, NEW r \in Request, DeleteStaff(r)
    PROVE  IInv'
<1>1. UNCHANGED <<status, payments, commissions>> /\ Reply(r) /\ deletedStaff' \subseteq Staff
  BY DEF DeleteStaff, IInv, TypeOK
<1>2. Grows /\ TablesType'
  BY <1>1 DEF Grows, TablesType, IInv, TypeOK
<1> QED
  BY <1>1, <1>2, ReplyInv

LEMMA CreatePaymentInv ==
    ASSUME IInv, NEW r \in Request, CreatePayment(r)
    PROVE  IInv'
<1>1. PICK p \in Payment, n \in Amount, s \in PaymentStatus :
        /\ payments[p] = Null /\ status[PaidFor[p]] # Null
        /\ payments' = [payments EXCEPT ![p] =
                [amount |-> n, status |-> s, deleted |-> FALSE]]
  BY DEF CreatePayment
<1>2. UNCHANGED <<status, commissions, deletedStaff>> /\ Reply(r)
  BY DEF CreatePayment
<1>3. [amount |-> n, status |-> s, deleted |-> FALSE] \in PaymentRow
  BY DEF PaymentRow
<1>4. Grows
  BY <1>1, <1>2, <1>3, NullIs DEF Grows, IInv, TypeOK
<1>5. TablesType'
  BY <1>1, <1>2, <1>3 DEF TablesType, IInv, TypeOK
<1> QED
  BY <1>2, <1>4, <1>5, ReplyInv

(* A payment that is read and turned into another row. *)
LEMMA LoadsInv ==
    ASSUME IInv, NEW r \in Request, NEW kind \in {"edit", "remove"}, kind \in May[r],
           NEW p \in Payment, NEW object, payments[p] # Null => object \in PaymentRow,
           Loads(r, kind, p, object), UNCHANGED tables
    PROVE  IInv'
<1> DEFINE t == [NoTx EXCEPT !.kind = kind, !.payment = p,
                             !.read = payments[p], !.object = object]
<1>1. payments[p] # Null /\ payments[p] \in PaymentRow /\ object \in PaymentRow
  BY DEF Loads, IInv, TypeOK
<1>2. t \in Tx
  BY <1>1, NoTxType DEF Tx, Kind
<1>3. t.kind = kind /\ t.payment = p /\ t.read = payments[p] /\ t.object = object
  BY DEF NoTx
<1>4. Go(r, "commit", t)
  BY DEF Loads
<1> HIDE DEF t
<1>5. Carried(r, "commit", t)
  BY <1>1, <1>3 DEF Carried
<1> QED
  BY <1>2, <1>4, <1>5, GoInv DEF Steps

LEMMA EditArriveInv ==
    ASSUME IInv, NEW r \in Request, EditArrive(r) \/ RemoveArrive(r)
    PROVE  IInv'
<1>1. UNCHANGED tables
  BY DEF EditArrive, RemoveArrive
<1>2. CASE EditArrive(r)
  <2>1. "edit" \in May[r]
    BY <1>2 DEF EditArrive, Receives
  <2>2. PICK p \in Payment :
          \/ \E n \in Amount : Loads(r, "edit", p, [payments[p] EXCEPT !.amount = n])
          \/ \E s \in PaymentStatus : Loads(r, "edit", p, [payments[p] EXCEPT !.status = s])
          \/ \E n \in Amount, s \in PaymentStatus :
                Loads(r, "edit", p, [payments[p] EXCEPT !.amount = n, !.status = s])
    BY <1>2 DEF EditArrive
  <2>3. \E object : (payments[p] # Null => object \in PaymentRow) /\ Loads(r, "edit", p, object)
    <3>1. payments[p] # Null => payments[p] \in PaymentRow
      BY DEF IInv, TypeOK
    <3>2. ASSUME NEW n \in Amount, Loads(r, "edit", p, [payments[p] EXCEPT !.amount = n])
          PROVE  \E object : (payments[p] # Null => object \in PaymentRow)
                             /\ Loads(r, "edit", p, object)
      <4>1. payments[p] # Null => [payments[p] EXCEPT !.amount = n] \in PaymentRow
        BY <3>1 DEF PaymentRow
      <4> QED
        BY <3>2, <4>1
    <3>3. ASSUME NEW s \in PaymentStatus,
                 Loads(r, "edit", p, [payments[p] EXCEPT !.status = s])
          PROVE  \E object : (payments[p] # Null => object \in PaymentRow)
                             /\ Loads(r, "edit", p, object)
      <4>1. payments[p] # Null => [payments[p] EXCEPT !.status = s] \in PaymentRow
        BY <3>1 DEF PaymentRow
      <4> QED
        BY <3>3, <4>1
    <3>4. ASSUME NEW n \in Amount, NEW s \in PaymentStatus,
                 Loads(r, "edit", p, [payments[p] EXCEPT !.amount = n, !.status = s])
          PROVE  \E object : (payments[p] # Null => object \in PaymentRow)
                             /\ Loads(r, "edit", p, object)
      <4>1. payments[p] # Null =>
              [payments[p] EXCEPT !.amount = n, !.status = s] \in PaymentRow
        BY <3>1 DEF PaymentRow
      <4> QED
        BY <3>4, <4>1
    <3> QED
      BY <2>2, <3>2, <3>3, <3>4
  <2>4. PICK object : (payments[p] # Null => object \in PaymentRow) /\ Loads(r, "edit", p, object)
    BY <2>3
  <2> QED
    BY <1>1, <2>1, <2>4, LoadsInv
<1>3. CASE RemoveArrive(r)
  <2>1. "remove" \in May[r]
    BY <1>3 DEF RemoveArrive, Receives
  <2>2. PICK p \in Payment : Loads(r, "remove", p, [payments[p] EXCEPT !.deleted = TRUE])
    BY <1>3 DEF RemoveArrive
  <2>3. payments[p] # Null => [payments[p] EXCEPT !.deleted = TRUE] \in PaymentRow
    BY DEF IInv, TypeOK, PaymentRow
  <2>4. PICK object : object = [payments[p] EXCEPT !.deleted = TRUE]
    OBVIOUS
  <2> QED
    BY <1>1, <2>1, <2>2, <2>3, <2>4, LoadsInv
<1> QED
  BY <1>2, <1>3

(* A commit writes a row. *)
LEMMA WrittenType ==
    ASSUME NEW row \in PaymentRow, NEW read \in PaymentRow, NEW object \in PaymentRow
    PROVE  Written(row, read, object) \in PaymentRow
<1> DEFINE new == [ amount |-> IF object.amount # read.amount THEN object.amount ELSE row.amount,
                    status |-> IF object.status # read.status THEN object.status ELSE row.status,
                    deleted |-> IF object.deleted # read.deleted THEN object.deleted
                                                                 ELSE row.deleted ]
<1>1. DOMAIN row = {"amount", "status", "deleted"}
  BY DEF PaymentRow
<1>2. Written(row, read, object) = new
  BY <1>1 DEF Written
<1>3. new \in PaymentRow
  BY DEF PaymentRow
<1> QED
  BY <1>2, <1>3

LEMMA CommitPaymentInv ==
    ASSUME IInv, NEW r \in Request, CommitPayment(r)
    PROVE  IInv'
<1> DEFINE p == tx[r].payment
           row == Written(payments[p], tx[r].read, tx[r].object)
<1>1. /\ p \in Payment /\ payments[p] # Null
      /\ tx[r].read \in PaymentRow /\ tx[r].object \in PaymentRow
  BY DEF CommitPayment, IInv, Carries, Carried
<1>2. row \in PaymentRow
  BY <1>1, WrittenType DEF IInv, TypeOK
<1>3. /\ payments' = [payments EXCEPT ![p] = row]
      /\ UNCHANGED <<status, commissions, deletedStaff>> /\ Reply(r)
  BY DEF CommitPayment
<1> HIDE DEF row
<1>4. Grows
  BY <1>1, <1>2, <1>3, NullIs DEF Grows, IInv, TypeOK
<1>5. TablesType'
  BY <1>1, <1>2, <1>3 DEF TablesType, IInv, TypeOK
<1> QED
  BY <1>3, <1>4, <1>5, ReplyInv

LEMMA BalanceArriveInv ==
    ASSUME IInv, NEW r \in Request, BalanceArrive(r)
    PROVE  IInv'
<1>1. PICK a \in Appointment :
        Go(r, "sum", [NoTx EXCEPT !.kind = "balance", !.appt = a])
  BY DEF BalanceArrive
<1>2. UNCHANGED tables /\ "balance" \in May[r]
  BY DEF BalanceArrive, Receives
<1> DEFINE t == [NoTx EXCEPT !.kind = "balance", !.appt = a]
<1>3. t \in Tx
  BY NoTxType DEF Tx, Kind
<1>4. t.kind = "balance" /\ t.appt = a
  BY DEF NoTx
<1>5. Go(r, "sum", t)
  BY <1>1
<1> HIDE DEF t
<1>6. Carried(r, "sum", t)
  BY <1>2, <1>4 DEF Carried
<1> QED
  BY <1>2, <1>3, <1>5, <1>6, GoInv DEF Steps

LEMMA BalanceType ==
    ASSUME NEW a \in Appointment, NEW paid \in Nat
    PROVE  /\ Owed(a) \in Int
           /\ Balance(a, paid) \in BalanceOut
<1>1. Owed(a) \in Int
  BY PricesAssumption DEF Owed
<1>2. Max({0, Owed(a) - paid}) \in Nat
  BY <1>1, Floored
<1> QED
  BY <1>1, <1>2 DEF Balance, BalanceOut

LEMMA BalanceSumInv ==
    ASSUME IInv, NEW r \in Request, BalanceSum(r)
    PROVE  IInv'
<1>1. tx[r].appt \in Appointment
  BY DEF BalanceSum, IInv, Carries, Carried
<1>2. PaidSum(tx[r].appt) \in Nat
  BY PaidSumType DEF IInv
<1>3. PICK out : out = Balance(tx[r].appt, PaidSum(tx[r].appt))
  OBVIOUS
<1>4. out \in AnswerType
  BY <1>1, <1>2, <1>3, BalanceType DEF AnswerType
<1> QED
  BY <1>3, <1>4, ShowsInv DEF BalanceSum

LEMMA PerformanceArriveInv ==
    ASSUME IInv, NEW r \in Request, PerformanceArrive(r)
    PROVE  IInv'
<1>1. PICK s \in Scopes(r, Staff) :
        Go(r, "revenue",
           BookingsFirst(TRUE, [NoTx EXCEPT !.kind = "performance", !.scope = s]))
  BY DEF PerformanceArrive
<1>2. UNCHANGED tables /\ "performance" \in May[r]
  BY DEF PerformanceArrive, Receives
<1>3. s \in Staff \cup {Null}
  BY PeopleAssumption DEF Scopes
<1> DEFINE b == Bookings(Status)
           c == Bookings({"completed"})
           t == [NoTx EXCEPT !.kind = "performance", !.scope = s,
                             !.bookings = b, !.completed = c]
<1>4. /\ b \in [Staff -> Nat] /\ c \in [Staff -> Nat]
      /\ \A u \in Staff : b[u] > 0 => HasBooked(u)
  BY BookingsType DEF Status
<1>5. Go(r, "revenue", t)
  <2>1. BookingsFirst(TRUE, [NoTx EXCEPT !.kind = "performance", !.scope = s]) = t
    BY DEF BookingsFirst, CountBookings, NoTx
  <2> QED
    BY <1>1, <2>1
<1> HIDE DEF b, c
<1>6. t \in Tx
  BY <1>3, <1>4, NoTxType DEF Tx, Kind
<1>7. t.kind = "performance" /\ t.bookings = b /\ t.revenue = Nothing
  BY DEF NoTx
<1> HIDE DEF t
<1>8. Carried(r, "revenue", t)
  <2>1. \A u \in Staff : t.bookings[u] > 0 \/ t.revenue[u] > 0 => HasBooked(u)
    BY <1>4, <1>7, NothingType
  <2> QED
    BY <1>2, <1>7, <2>1 DEF Carried
<1> QED
  BY <1>2, <1>5, <1>6, <1>8, GoInv DEF Steps

LEMMA PerformanceRevenueInv ==
    ASSUME IInv, NEW r \in Request, PerformanceRevenue(r)
    PROVE  IInv'
<1> DEFINE v == RevenueByStaff
           t == [tx[r] EXCEPT !.revenue = v]
<1>1. Go(r, "names", t) /\ UNCHANGED tables /\ pc[r] = "revenue"
  BY DEF PerformanceRevenue, BookingsFirst, SumRevenue
<1>2. v \in [Staff -> Nat] /\ \A s \in Staff : v[s] > 0 => HasBooked(s)
  BY RevenueType
<1>3. tx[r] \in Tx /\ Carried(r, "revenue", tx[r])
  BY <1>1 DEF IInv, TypeOK, Carries
<1> HIDE DEF v
<1>4. t \in Tx /\ t.revenue = v /\ t.bookings = tx[r].bookings /\ t.kind = tx[r].kind
  BY <1>2, <1>3 DEF Tx
<1> HIDE DEF t
<1>5. Carried(r, "names", t)
  BY <1>2, <1>3, <1>4 DEF Carried
<1> QED
  BY <1>1, <1>4, <1>5, GoInv DEF Steps

LEMMA PerformanceNamesInv ==
    ASSUME IInv, NEW r \in Request, PerformanceNames(r)
    PROVE  IInv'
<1>1. tx[r] \in Tx
  BY DEF IInv, TypeOK
<1>2. PICK out : out = [ kind |-> "performance", scope |-> tx[r].scope,
                  bookings |-> tx[r].bookings, completed |-> tx[r].completed,
                  revenue |-> tx[r].revenue, named |-> Names(tx[r].scope) ]
  OBVIOUS
<1>3. Names(tx[r].scope) \in SUBSET Staff
  BY DEF Names
<1>4. out \in AnswerType
  BY <1>1, <1>2, <1>3 DEF AnswerType, PerformanceOut, Tx
<1> QED
  BY <1>2, <1>4, ShowsInv DEF PerformanceNames

(* What a specialist is owed. *)
LEMMA CommissionType == \A l \in Line : CommissionOn(l) \in Nat
<1> SUFFICES ASSUME NEW l \in Line PROVE CommissionOn(l) \in Nat
  OBVIOUS
<1>1. PriceOf[l] * QuantityOf[l] * RateOf[l] \in Nat
  BY PricesAssumption
<1>2. \A n \in Nat : RoundCents(n, 100) \in Nat
  BY DEF RoundCents
<1> QED
  BY <1>1, <1>2 DEF CommissionOn

LEMMA OwedType ==
    ASSUME TypeOK, NEW o
    PROVE  OwedTo(o) \in Nat
<1> DEFINE f == [l \in Line |-> commissions[l] * CommissionOn(l)]
           ls == {l \in Line : SpecialistOf[StaffOf[AppointmentOf[l]]] = o}
<1>1. \A l \in ls : f[l] \in Nat
  BY CommissionType DEF TypeOK
<1>2. IsFiniteSet(ls)
  BY FiniteRows, FS_Subset
<1>3. SumFunctionOnSet(f, ls) \in Nat
  <2> HIDE DEF f, ls
  <2> QED
    BY <1>1, <1>2, SumNat
<1> QED
  BY <1>3 DEF OwedTo

LEMMA ReportCommissionsInv ==
    ASSUME IInv, NEW r \in Request, ReportCommissions(r)
    PROVE  IInv'
<1>1. PICK s \in Scopes(r, Staff \cup Specialist) :
        Shows(r, [ kind |-> "commissions", scope |-> s,
                   amount |-> [o \in Specialist |->
                        IF s = Null \/ o = s THEN OwedTo(o) ELSE 0] ])
  BY DEF ReportCommissions
<1>2. s \in Staff \cup Specialist \cup {Null}
  BY PeopleAssumption DEF Scopes
<1> DEFINE amount == [o \in Specialist |-> IF s = Null \/ o = s THEN OwedTo(o) ELSE 0]
<1>3. amount \in [Specialist -> Nat]
  BY OwedType DEF IInv
<1> HIDE DEF amount
<1>4. PICK out : out = [ kind |-> "commissions", scope |-> s, amount |-> amount ]
  OBVIOUS
<1>5. out \in AnswerType
  BY <1>2, <1>3, <1>4 DEF AnswerType, CommissionsOut
<1>6. Shows(r, out) /\ UNCHANGED tables
  BY <1>1, <1>4 DEF ReportCommissions, amount
<1> QED
  BY <1>5, <1>6, ShowsInv

LEMMA StepInv == IInv /\ [Next]_vars => IInv'
<1> SUFFICES ASSUME IInv, [Next]_vars PROVE IInv'
  OBVIOUS
<1>1. CASE UNCHANGED vars
  <2>1. \A s : HasBooked(s) => HasBooked(s)'
    BY <1>1 DEF HasBooked, vars, tables
  <2>2. Carries'
    BY <1>1, <2>1 DEF IInv, Carries, Carried, vars, tables
  <2> QED
    BY <1>1, <2>2 DEF IInv, TypeOK, vars, tables
<1>2. CASE Next
  <2>1. PICK r \in Request :
          \/ Book(r) \/ StatusArrive(r) \/ CommitStatus(r) \/ DeleteStaff(r)
          \/ CreatePayment(r) \/ EditArrive(r) \/ RemoveArrive(r) \/ CommitPayment(r)
          \/ BalanceArrive(r) \/ BalanceSum(r)
          \/ PerformanceArrive(r) \/ PerformanceRevenue(r) \/ PerformanceNames(r)
          \/ ReportCommissions(r) \/ Abort(r)
    BY <1>2 DEF Next
  <2>2. CASE Abort(r)
    BY <2>2, ReplyInv, SameTables DEF Abort
  <2> QED
    BY <2>1, <2>2, BookInv, StatusArriveInv, CommitStatusInv, DeleteStaffInv,
       CreatePaymentInv, EditArriveInv, CommitPaymentInv, BalanceArriveInv,
       BalanceSumInv, PerformanceArriveInv, PerformanceRevenueInv,
       PerformanceNamesInv, ReportCommissionsInv
<1> QED
  BY <1>1, <1>2

LEMMA SpecInv == Spec => []IInv
BY InitInv, StepInv, PTL DEF Spec

(* Every variable keeps its type; a payment is a whole row and a sum of    *)
(* payments, lines or commissions is a natural number (every handler).     *)
THEOREM TypeCorrect == Spec => []TypeOK
<1>1. IInv => TypeOK
  BY DEF IInv
<1> QED
  BY <1>1, SpecInv, PTL

-----------------------------------------------------------------------------
(* What a step answers with.                                               *)

Handlers(r) ==
    \/ Book(r) \/ StatusArrive(r) \/ CommitStatus(r) \/ DeleteStaff(r)
    \/ CreatePayment(r) \/ EditArrive(r) \/ RemoveArrive(r) \/ CommitPayment(r)
    \/ BalanceArrive(r) \/ PerformanceArrive(r) \/ PerformanceRevenue(r) \/ Abort(r)

LEMMA Silent ==
    ASSUME NEW r \in Request, Handlers(r)
    PROVE  answer' = Null
BY DEF Handlers, Book, StatusArrive, CommitStatus, DeleteStaff, CreatePayment, EditArrive,
   RemoveArrive, Loads, CommitPayment, BalanceArrive, PerformanceArrive,
   PerformanceRevenue, Abort, Reply, Go

LEMMA AnswersStep ==
    ASSUME Next
    PROVE  \/ answer' = Null
           \/ \E r \in Request : BalanceSum(r) \/ PerformanceNames(r) \/ ReportCommissions(r)
<1>1. PICK r \in Request :
        Handlers(r) \/ BalanceSum(r) \/ PerformanceNames(r) \/ ReportCommissions(r)
  BY DEF Next, Handlers
<1> QED
  BY <1>1, Silent

(* A balance is settled exactly when nothing is outstanding, whatever was  *)
(* paid and whatever the discount (appointment_balance).                   *)
LEMMA BalanceIsSettled ==
    ASSUME NEW a \in Appointment, NEW paid \in Nat, NEW out, out = Balance(a, paid)
    PROVE  /\ out.settled <=> out.outstanding = 0
           /\ out.paid + out.outstanding >= Owed(out.appt)
           /\ out.paid = 0 => (out.settled <=> DiscountOf[out.appt] >= TotalOf[out.appt])
<1>1. TotalOf[a] \in Nat /\ DiscountOf[a] \in Nat /\ Owed(a) = TotalOf[a] - DiscountOf[a]
  BY PricesAssumption DEF Owed
<1>2. PICK x : x = Owed(a) - paid
  OBVIOUS
<1>3. PICK m : m = Max({0, x})
  OBVIOUS
<1>4. x \in Int /\ m \in Nat /\ m >= x /\ (m = 0 <=> x <= 0)
  BY <1>1, <1>2, <1>3, Floored
<1>5. /\ out.appt = a /\ out.paid = paid /\ out.outstanding = m
      /\ out.settled <=> paid >= Owed(a)
  BY <1>2, <1>3 DEF Balance
<1> HIDE DEF Owed
<1> QED
  BY <1>1, <1>2, <1>4, <1>5

LEMMA StepSettled == IInv /\ SettledIsPaidUp /\ [Next]_vars => SettledIsPaidUp'
<1> SUFFICES ASSUME IInv, SettledIsPaidUp, [Next]_vars PROVE SettledIsPaidUp'
  OBVIOUS
<1>1. CASE UNCHANGED vars
  BY <1>1 DEF SettledIsPaidUp, Answers, vars
<1>2. CASE Next
  <2>1. CASE answer' = Null
    BY <2>1 DEF SettledIsPaidUp, Answers
  <2>2. ASSUME NEW r \in Request, BalanceSum(r) PROVE SettledIsPaidUp'
    <3>1. tx[r].appt \in Appointment /\ PaidSum(tx[r].appt) \in Nat
      BY <2>2, PaidSumType DEF BalanceSum, IInv, Carries, Carried
    <3>2. PICK out : out = Balance(tx[r].appt, PaidSum(tx[r].appt))
      OBVIOUS
    <3>3. answer' = out
      BY <2>2, <3>2 DEF BalanceSum, Shows
    <3>4. /\ out.settled <=> out.outstanding = 0
          /\ out.paid + out.outstanding >= Owed(out.appt)
          /\ out.paid = 0 => (out.settled <=> DiscountOf[out.appt] >= TotalOf[out.appt])
      BY <3>1, <3>2, BalanceIsSettled
    <3> QED
      BY <3>3, <3>4 DEF SettledIsPaidUp, Owed
  <2>3. ASSUME NEW r \in Request, PerformanceNames(r) \/ ReportCommissions(r)
        PROVE  SettledIsPaidUp'
    <3>1. answer'.kind # "balance"
      BY <2>3 DEF PerformanceNames, ReportCommissions, Shows
    <3> QED
      BY <3>1 DEF SettledIsPaidUp, Answers
  <2> QED
    BY <1>2, <2>1, <2>2, <2>3, AnswersStep
<1> QED
  BY <1>1, <1>2

(* Every balance answered is settled exactly when nothing is outstanding,  *)
(* covers with what was paid at least what is owed, and is settled before  *)
(* any payment exactly when the discount covers the total, for all prices, *)
(* discounts and payments (appointment_balance).                           *)
THEOREM Settled == Spec => []SettledIsPaidUp
<1>1. Init => SettledIsPaidUp
  BY DEF Init, SettledIsPaidUp, Answers
<1> QED
  BY <1>1, StepSettled, SpecInv, PTL DEF Spec

LEMMA StepNamed == IInv /\ EveryRowIsNamed /\ [Next]_vars => EveryRowIsNamed'
<1> SUFFICES ASSUME IInv, EveryRowIsNamed, [Next]_vars PROVE EveryRowIsNamed'
  OBVIOUS
<1>1. CASE UNCHANGED vars
  BY <1>1 DEF EveryRowIsNamed, Answers, vars
<1>2. CASE Next
  <2>1. CASE answer' = Null
    BY <2>1 DEF EveryRowIsNamed, Answers
  <2>2. ASSUME NEW r \in Request, PerformanceNames(r) PROVE EveryRowIsNamed'
    <3>1. \A s \in Staff :
            tx[r].bookings[s] > 0 \/ tx[r].revenue[s] > 0 => HasBooked(s)
      BY <2>2 DEF PerformanceNames, IInv, Carries, Carried
    <3>2. PICK named : named = Names(tx[r].scope)
      OBVIOUS
    <3>3. tx[r].scope = Null => \A s \in Staff : HasBooked(s) => s \in named
      BY <3>2, BookedIsCounted DEF Names, IInv
    <3>4. /\ answer'.scope = tx[r].scope /\ answer'.bookings = tx[r].bookings
          /\ answer'.revenue = tx[r].revenue /\ answer'.named = named
      BY <2>2, <3>2 DEF PerformanceNames, Shows
    <3> QED
      BY <3>1, <3>3, <3>4 DEF EveryRowIsNamed
  <2>3. ASSUME NEW r \in Request, BalanceSum(r) \/ ReportCommissions(r)
        PROVE  EveryRowIsNamed'
    <3>1. answer'.kind # "performance"
      BY <2>3 DEF BalanceSum, Balance, ReportCommissions, Shows
    <3> QED
      BY <3>1 DEF EveryRowIsNamed, Answers
  <2> QED
    BY <1>2, <2>1, <2>2, <2>3, AnswersStep
<1> QED
  BY <1>1, <1>2

(* A performance report of everyone names everyone it has numbers for,     *)
(* although bookings, completions and deletions of staff commit between    *)
(* its three statements: who had an appointment when the numbers were read *)
(* still has it when the names are (performance_report).                   *)
THEOREM Named == Spec => []EveryRowIsNamed
<1>1. Init => EveryRowIsNamed
  BY DEF Init, EveryRowIsNamed, Answers
<1> QED
  BY <1>1, StepNamed, SpecInv, PTL DEF Spec

-----------------------------------------------------------------------------
(* Payments are changed by nobody but the request that was asked to.       *)

LEMMA StepEdits == IInv /\ [Next]_vars => [ChangesAsAsked]_vars
<1> SUFFICES ASSUME IInv, Next,
                    NEW p \in Payment, payments[p] # Null, NEW f \in DOMAIN payments[p],
                    payments'[p][f] # payments[p][f]
             PROVE  \E r \in Request :
                        /\ pc[r] = "commit" /\ pc'[r] = "idle"
                        /\ tx[r].payment = p
                        /\ tx[r].object[f] = payments'[p][f]
                        /\ tx[r].object[f] # tx[r].read[f]
  BY DEF ChangesAsAsked
<1>1. payments' # payments
  OBVIOUS
<1>2. PICK r \in Request : CreatePayment(r) \/ CommitPayment(r)
  BY <1>1 DEF Next, tables, Book, StatusArrive, CommitStatus, DeleteStaff, EditArrive,
     RemoveArrive, BalanceArrive, BalanceSum, PerformanceArrive, PerformanceRevenue,
     PerformanceNames, ReportCommissions, Abort
<1>3. ~CreatePayment(r)
  <2> SUFFICES ASSUME CreatePayment(r) PROVE FALSE
    OBVIOUS
  <2>1. PICK q \in Payment :
          payments[q] = Null /\ \E row : payments' = [payments EXCEPT ![q] = row]
    BY DEF CreatePayment
  <2> QED
    BY <2>1 DEF IInv, TypeOK
<1>4. CommitPayment(r)
  BY <1>2, <1>3
<1>5. PICK row : row = Written(payments[tx[r].payment], tx[r].read, tx[r].object)
  OBVIOUS
<1>6. payments' = [payments EXCEPT ![tx[r].payment] = row]
  BY <1>4, <1>5 DEF CommitPayment
<1>7. tx[r].payment = p /\ payments'[p] = row
  BY <1>6 DEF IInv, TypeOK
<1>8. row[f] = IF tx[r].object[f] # tx[r].read[f] THEN tx[r].object[f] ELSE payments[p][f]
  BY <1>5, <1>7 DEF Written
<1>9. tx[r].object[f] # tx[r].read[f] /\ tx[r].object[f] = payments'[p][f]
  BY <1>7, <1>8
<1>10. pc[r] = "commit" /\ pc'[r] = "idle"
  BY <1>4 DEF CommitPayment, Reply, Go, Moves, IInv, TypeOK
<1> QED
  BY <1>7, <1>9, <1>10

(* No edit or removal of a payment undoes another: a column changes only   *)
(* to what a request that commits in that step was asked for, however many *)
(* edit and remove one payment side by side (update_payment,               *)
(* delete_payment).                                                        *)
THEOREM NoneUndone == Spec => NoEditIsUndone
BY StepEdits, SpecInv, PTL DEF Spec, NoEditIsUndone

-----------------------------------------------------------------------------
(* A value of lines is that of one function on all lines.                  *)
ValueOf == [l \in Line |-> PriceOf[l] * QuantityOf[l]]

LEMMA ValueByLine ==
    ASSUME NEW ls \in SUBSET Line
    PROVE  Value(ls) = SumFunctionOnSet(ValueOf, ls)
<1> DEFINE f == [l \in ls |-> PriceOf[l] * QuantityOf[l]]
<1>1. IsFiniteSet(ls)
  BY FiniteRows, FS_Subset
<1>2. \A l \in ls : f[l] \in Int /\ f[l] = ValueOf[l]
  BY LineValue DEF ValueOf
<1>3. SumFunctionOnSet(f, ls) = SumFunctionOnSet(ValueOf, ls)
  <2> HIDE DEF f
  <2> QED
    BY <1>1, <1>2, SumSame
<1> QED
  BY <1>3 DEF Value

-----------------------------------------------------------------------------
(* One request at a time changes statuses: what it has judged is still so  *)
(* when it commits, and what is completed stays completed.                 *)

AloneOnStatus == \A q, r \in Request : ("status" \in May[q] /\ "status" \in May[r]) => q = r

Judged(step, t) ==
    /\ step = "commit" /\ t.kind = "status" => t.status \in LegalTransitions[status[t.appt]]
    /\ step = "revenue" =>
          \A s \in Staff : t.completed[s] <= Bookings({"completed"})[s]
    /\ step = "names" => Earned(t)

(* A line earns one commission at most, and only when completed. *)
OnePerLine ==
    \A l \in Line :
        /\ commissions[l] <= 1
        /\ commissions[l] > 0 => status[AppointmentOf[l]] = "completed"

ILone == IInv /\ OnePerLine /\ \A r \in Request : Judged(pc[r], tx[r])

LEMMA InitLone == Init => ILone
<1> SUFFICES ASSUME Init PROVE ILone
  OBVIOUS
<1>1. OnePerLine
  BY DEF Init, OnePerLine
<1>2. \A r \in Request : Judged(pc[r], tx[r])
  BY DEF Init, Judged
<1> QED
  BY <1>1, <1>2, InitInv DEF ILone

(* Nothing that is completed is taken back. *)
CompletedStays ==
    \A a \in Appointment : status[a] = "completed" => status'[a] = "completed"

LEMMA CountStays ==
    ASSUME CompletedStays, NEW s \in Staff
    PROVE  Bookings({"completed"})[s] <= Bookings({"completed"})'[s]
<1>1. PICK old, new : old = {a \in With({"completed"}) : StaffOf[a] = s}
                      /\ new = {a \in With({"completed"}) : StaffOf[a] = s}'
  OBVIOUS
<1>2. old \in SUBSET new /\ new \in SUBSET Appointment
  BY <1>1 DEF With, CompletedStays
<1>3. IsFiniteSet(new)
  BY <1>2, FiniteRows, FS_Subset
<1>4. Cardinality(old) <= Cardinality(new)
  BY <1>2, <1>3, FS_Subset
<1> QED
  BY <1>1, <1>4 DEF Bookings

LEMMA MovesLone ==
    ASSUME ILone, NEW r \in Request, NEW step, NEW t, Moves(r, step, t), IInv',
           CompletedStays, OnePerLine', Judged(step, t),
           step = "commit" => UNCHANGED status,
           \A q \in Request \ {r} :
              pc[q] = "commit" /\ tx[q].kind = "status" =>
                  status'[tx[q].appt] = status[tx[q].appt]
    PROVE  ILone'
<1>1. pc'[r] = step /\ tx'[r] = t
      /\ \A q \in Request \ {r} : pc'[q] = pc[q] /\ tx'[q] = tx[q]
  BY DEF Moves, ILone, IInv, TypeOK
<1>2. ASSUME NEW q \in Request PROVE Judged(pc[q], tx[q])'
  <2>1. PICK step1, t1 : step1 = pc'[q] /\ t1 = tx'[q]
    OBVIOUS
  <2>2. Judged(step1, t1)
    BY <1>1, <2>1 DEF ILone
  <2>3. step1 = "commit" /\ t1.kind = "status" =>
          t1.status \in LegalTransitions[status'[t1.appt]]
    BY <1>1, <2>1, <2>2 DEF Judged
  <2>4. t1 \in Tx
    BY <2>1 DEF IInv, TypeOK
  <2>5. step1 = "revenue" =>
          \A s \in Staff : t1.completed[s] <= Bookings({"completed"})'[s]
    <3> SUFFICES ASSUME step1 = "revenue", NEW s \in Staff
                 PROVE  t1.completed[s] <= Bookings({"completed"})'[s]
      OBVIOUS
    <3>1. PICK x, y, z : x = t1.completed[s] /\ y = Bookings({"completed"})[s]
                         /\ z = Bookings({"completed"})'[s]
      OBVIOUS
    <3>2. x <= y /\ y <= z
      BY <2>2, <3>1, CountStays DEF Judged
    <3>3. x \in Nat
      BY <2>4, <3>1 DEF Tx
    <3>4. y \in Nat
      BY <3>1, BookingsType DEF Status
    <3>5. z \in Nat
      <4>1. PICK new : new = {a \in With({"completed"}) : StaffOf[a] = s}'
        OBVIOUS
      <4>2. new \in SUBSET Appointment
        BY <4>1 DEF With
      <4>3. Cardinality(new) \in Nat
        BY <4>2, FiniteRows, FS_Subset, CountType
      <4> QED
        BY <3>1, <4>1, <4>3 DEF Bookings
    <3> QED
      BY <3>1, <3>2, <3>3, <3>4, <3>5
  <2>6. step1 = "names" => Earned(t1)'
    BY <2>2 DEF Judged, Earned
  <2> QED
    BY <2>1, <2>3, <2>5, <2>6 DEF Judged, Earned
<1> QED
  BY <1>2 DEF ILone

(* Requests that leave appointments and commissions alone. *)
LEMMA QuietLone ==
    ASSUME ILone, NEW r \in Request, NEW step, NEW t, Moves(r, step, t), IInv',
           UNCHANGED <<status, commissions>>, Judged(step, t)
    PROVE  ILone'
BY MovesLone DEF ILone, CompletedStays, OnePerLine

LEMMA IdleLone ==
    ASSUME ILone, NEW r \in Request, NEW t, Moves(r, "idle", t), IInv',
           UNCHANGED <<status, commissions>>
    PROVE  ILone'
BY QuietLone DEF Judged

LEMMA BookLone ==
    ASSUME ILone, NEW r \in Request, Book(r), IInv'
    PROVE  ILone'
<1>1. PICK a \in Appointment :
        status[a] = Null /\ status' = [status EXCEPT ![a] = "requested"]
  BY DEF Book
<1>2. UNCHANGED commissions /\ Moves(r, "idle", NoTx)
  BY DEF Book, Reply, Go
<1>3. \A b \in Appointment : status[b] # Null => status'[b] = status[b]
  BY <1>1 DEF ILone, IInv, TypeOK
<1>4. CompletedStays /\ OnePerLine'
  BY <1>2, <1>3, NullIs, PricesAssumption DEF CompletedStays, OnePerLine, ILone, Status
<1>5. \A q \in Request : pc[q] = "commit" /\ tx[q].kind = "status" =>
        status'[tx[q].appt] = status[tx[q].appt]
  BY <1>3 DEF ILone, IInv, Carries, Carried
<1>6. Judged("idle", NoTx)
  BY DEF Judged
<1> QED
  BY <1>2, <1>4, <1>5, <1>6, MovesLone

LEMMA StatusArriveLone ==
    ASSUME ILone, NEW r \in Request, StatusArrive(r), IInv'
    PROVE  ILone'
<1>1. PICK a \in Appointment, new \in Status :
        /\ status[a] # Null /\ new \in LegalTransitions[status[a]]
        /\ Go(r, "commit",
              [NoTx EXCEPT !.kind = "status", !.appt = a, !.status = new,
                           !.processed = \E l \in LinesOf(a) : commissions[l] > 0])
  BY DEF StatusArrive
<1> DEFINE t == [NoTx EXCEPT !.kind = "status", !.appt = a, !.status = new,
                             !.processed = \E l \in LinesOf(a) : commissions[l] > 0]
<1>2. t.appt = a /\ t.status = new
  BY DEF NoTx
<1>3. Moves(r, "commit", t) /\ UNCHANGED <<status, commissions>>
  BY <1>1 DEF Go, StatusArrive, tables
<1> HIDE DEF t
<1>4. Judged("commit", t)
  BY <1>1, <1>2 DEF Judged
<1> QED
  BY <1>3, <1>4, QuietLone

LEMMA CommitStatusLone ==
    ASSUME ILone, AloneOnStatus, NEW r \in Request, CommitStatus(r), IInv'
    PROVE  ILone'
<1> DEFINE a == tx[r].appt
           new == tx[r].status
<1>1. /\ pc[r] = "commit" /\ tx[r].kind = "status" /\ "status" \in May[r]
      /\ a \in Appointment /\ status[a] # Null /\ new \in LegalTransitions[status[a]]
  BY DEF CommitStatus, ILone, IInv, Carries, Carried, Judged
<1>2. /\ status' = [status EXCEPT ![a] = new]
      /\ commissions' =
            [l \in Line |-> commissions[l] + (IF l \in Earning(tx[r]) THEN 1 ELSE 0)]
      /\ Moves(r, "idle", NoTx)
  BY DEF CommitStatus, Reply, Go
<1>3. status[a] \in Status
  BY <1>1 DEF ILone, IInv, TypeOK
<1>4. status[a] # "completed"
  BY <1>1, <1>3 DEF LegalTransitions
<1>5. CompletedStays
  BY <1>1, <1>2, <1>4 DEF CompletedStays, ILone, IInv, TypeOK
<1>6. OnePerLine'
  <2> SUFFICES ASSUME NEW l \in Line
               PROVE  /\ commissions'[l] <= 1
                      /\ commissions'[l] > 0 => status'[AppointmentOf[l]] = "completed"
    BY DEF OnePerLine
  <2>1. /\ commissions[l] \in Nat /\ commissions[l] <= 1
        /\ commissions[l] > 0 => status[AppointmentOf[l]] = "completed"
        /\ AppointmentOf[l] \in Appointment
    BY PricesAssumption DEF ILone, IInv, TypeOK, OnePerLine
  <2>2. CASE l \in Earning(tx[r])
    <3>1. new = "completed" /\ AppointmentOf[l] = a
      BY <2>2 DEF Earning, LinesOf
    <3>2. commissions[l] = 0
      BY <1>4, <2>1, <3>1
    <3>3. status'[AppointmentOf[l]] = "completed"
      BY <1>1, <1>2, <3>1 DEF ILone, IInv, TypeOK
    <3> HIDE DEF a, new
    <3> QED
      BY <1>2, <2>2, <3>2, <3>3
  <2>3. CASE l \notin Earning(tx[r])
    <3>1. commissions'[l] = commissions[l]
      BY <1>2, <2>1, <2>3
    <3> QED
      BY <1>5, <2>1, <3>1 DEF CompletedStays
  <2> QED
    BY <2>2, <2>3
<1>7. \A q \in Request \ {r} : ~(pc[q] = "commit" /\ tx[q].kind = "status")
  BY <1>1 DEF AloneOnStatus, ILone, IInv, Carries, Carried
<1>8. Judged("idle", NoTx)
  BY DEF Judged
<1> QED
  BY <1>2, <1>5, <1>6, <1>7, <1>8, MovesLone

LEMMA LoadsLone ==
    ASSUME ILone, NEW r \in Request, EditArrive(r) \/ RemoveArrive(r), IInv'
    PROVE  ILone'
<1>1. \E p, object : Loads(r, "edit", p, object) \/ Loads(r, "remove", p, object)
  <2>1. CASE EditArrive(r)
    <3>1. PICK p \in Payment :
            \/ \E n \in Amount : Loads(r, "edit", p, [payments[p] EXCEPT !.amount = n])
            \/ \E s \in PaymentStatus : Loads(r, "edit", p, [payments[p] EXCEPT !.status = s])
            \/ \E n \in Amount, s \in PaymentStatus :
                  Loads(r, "edit", p, [payments[p] EXCEPT !.amount = n, !.status = s])
      BY <2>1 DEF EditArrive
    <3>2. \E object : Loads(r, "edit", p, object)
      BY <3>1
    <3> QED
      BY <3>2
  <2>2. CASE RemoveArrive(r)
    BY <2>2 DEF RemoveArrive
  <2> QED
    BY <2>1, <2>2
<1>2. PICK p, object, kind :
        kind \in {"edit", "remove"} /\ Loads(r, kind, p, object)
  BY <1>1
<1> DEFINE t == [NoTx EXCEPT !.kind = kind, !.payment = p,
                             !.read = payments[p], !.object = object]
<1>3. t.kind = kind
  BY DEF NoTx
<1>4. Moves(r, "commit", t) /\ UNCHANGED <<status, commissions>>
  BY <1>2 DEF Loads, Go, EditArrive, RemoveArrive, tables
<1> HIDE DEF t
<1>5. Judged("commit", t)
  BY <1>2, <1>3 DEF Judged
<1> QED
  BY <1>4, <1>5, QuietLone

LEMMA BalanceArriveLone ==
    ASSUME ILone, NEW r \in Request, BalanceArrive(r), IInv'
    PROVE  ILone'
<1>1. PICK t : Moves(r, "sum", t) /\ UNCHANGED <<status, commissions>>
  BY DEF BalanceArrive, Go, tables
<1>2. Judged("sum", t)
  BY DEF Judged
<1> QED
  BY <1>1, <1>2, QuietLone

LEMMA PerformanceArriveLone ==
    ASSUME ILone, NEW r \in Request, PerformanceArrive(r), IInv'
    PROVE  ILone'
<1>1. PICK s : Moves(r, "revenue",
                 BookingsFirst(TRUE, [NoTx EXCEPT !.kind = "performance", !.scope = s]))
  BY DEF PerformanceArrive, Go
<1> DEFINE b == Bookings(Status)
           c == Bookings({"completed"})
           t == [NoTx EXCEPT !.kind = "performance", !.scope = s,
                             !.bookings = b, !.completed = c]
<1>2. Moves(r, "revenue", t)
  <2>1. BookingsFirst(TRUE, [NoTx EXCEPT !.kind = "performance", !.scope = s]) = t
    BY DEF BookingsFirst, CountBookings, NoTx
  <2> QED
    BY <1>1, <2>1
<1>3. t.completed = Bookings({"completed"})
  BY DEF NoTx
<1> HIDE DEF t
<1>4. \A u \in Staff : Bookings({"completed"})[u] \in Nat
  BY BookingsType DEF Status
<1>5. Judged("revenue", t)
  BY <1>3, <1>4 DEF Judged
<1>6. UNCHANGED <<status, commissions>>
  BY DEF PerformanceArrive, tables
<1> QED
  BY <1>2, <1>5, <1>6, QuietLone

(* The lines of the completed appointments are the completed lines. *)
LEMMA RevenueIsEarned ==
    ASSUME NEW t, t.revenue = RevenueByStaff,
           \A s \in Staff : t.completed[s] \in Nat
                            /\ t.completed[s] <= Bookings({"completed"})[s]
    PROVE  Earned(t)
<1> SUFFICES ASSUME NEW s \in Staff
             PROVE  \E as \in SUBSET {a \in Appointment : StaffOf[a] = s} :
                        /\ Cardinality(as) >= t.completed[s]
                        /\ t.revenue[s] = Value(UNION {LinesOf(a) : a \in as})
  BY DEF Earned
<1>1. PICK as : as = {a \in With({"completed"}) : StaffOf[a] = s}
  OBVIOUS
<1>2. as \in SUBSET {a \in Appointment : StaffOf[a] = s}
  BY <1>1 DEF With
<1>3. Cardinality(as) = Bookings({"completed"})[s]
  BY <1>1 DEF Bookings
<1>4. Cardinality(as) >= t.completed[s]
  <2>1. PICK n : n = Cardinality(as)
    OBVIOUS
  <2>2. t.completed[s] <= n /\ n \in Nat
    BY <1>3, <2>1, BookingsType DEF Status
  <2> QED
    BY <2>1, <2>2
<1>5. UNION {LinesOf(a) : a \in as} = {l \in CompletedLines : StaffOf[AppointmentOf[l]] = s}
  <2>1. PICK ls : ls = UNION {LinesOf(a) : a \in as}
    OBVIOUS
  <2>2. \A l : l \in ls <=> l \in Line /\ AppointmentOf[l] \in as
    <3>1. \A l : l \in ls <=> \E a \in as : l \in LinesOf(a)
      BY <2>1
    <3> QED
      BY <3>1 DEF LinesOf
  <2>3. \A l : l \in ls <=> l \in CompletedLines /\ StaffOf[AppointmentOf[l]] = s
    BY <1>1, <2>2 DEF CompletedLines
  <2> QED
    BY <2>1, <2>3
<1>6. t.revenue[s] = Value(UNION {LinesOf(a) : a \in as})
  BY <1>5 DEF RevenueByStaff
<1> QED
  BY <1>2, <1>4, <1>6

LEMMA PerformanceRevenueLone ==
    ASSUME ILone, NEW r \in Request, PerformanceRevenue(r), IInv'
    PROVE  ILone'
<1> DEFINE t == [tx[r] EXCEPT !.revenue = RevenueByStaff]
<1>1. /\ Moves(r, "names", t) /\ UNCHANGED <<status, commissions>>
      /\ pc[r] = "revenue"
  BY DEF PerformanceRevenue, BookingsFirst, SumRevenue, Go, tables
<1>2. tx[r] \in Tx /\ Judged("revenue", tx[r])
  BY <1>1 DEF ILone, IInv, TypeOK
<1>3. t.revenue = RevenueByStaff /\ t.completed = tx[r].completed
  BY <1>2 DEF Tx
<1> HIDE DEF t
<1>4. \A s \in Staff : t.completed[s] \in Nat
                       /\ t.completed[s] <= Bookings({"completed"})[s]
  BY <1>2, <1>3 DEF Judged, Tx
<1>5. Judged("names", t)
  BY <1>3, <1>4, RevenueIsEarned DEF Judged
<1> QED
  BY <1>1, <1>5, QuietLone

(* The steps that end a request and change neither. *)
LEMMA EndsLone ==
    ASSUME ILone, NEW r \in Request, IInv',
           \/ DeleteStaff(r) \/ CreatePayment(r) \/ CommitPayment(r) \/ BalanceSum(r)
           \/ PerformanceNames(r) \/ ReportCommissions(r) \/ Abort(r)
    PROVE  ILone'
<1>1. Moves(r, "idle", NoTx) /\ UNCHANGED <<status, commissions>>
  BY DEF DeleteStaff, CreatePayment, CommitPayment, BalanceSum, PerformanceNames,
     ReportCommissions, Abort, Reply, Go, Shows, tables
<1> QED
  BY <1>1, IdleLone

LEMMA StepLone == AloneOnStatus /\ ILone /\ [Next]_vars => ILone'
<1> SUFFICES ASSUME AloneOnStatus, ILone, [Next]_vars PROVE ILone'
  OBVIOUS
<1>1. IInv'
  BY StepInv DEF ILone
<1>2. CASE UNCHANGED vars
  <2>1. Bookings({"completed"})' = Bookings({"completed"})
    BY <1>2 DEF Bookings, With, vars, tables
  <2>2. \A r \in Request : Judged(pc[r], tx[r])'
    BY <1>2, <2>1 DEF ILone, Judged, Earned, vars, tables
  <2> QED
    BY <1>1, <1>2, <2>2 DEF ILone, OnePerLine, vars, tables
<1>3. CASE Next
  <2>1. PICK r \in Request :
          \/ Book(r) \/ StatusArrive(r) \/ CommitStatus(r) \/ DeleteStaff(r)
          \/ CreatePayment(r) \/ EditArrive(r) \/ RemoveArrive(r) \/ CommitPayment(r)
          \/ BalanceArrive(r) \/ BalanceSum(r)
          \/ PerformanceArrive(r) \/ PerformanceRevenue(r) \/ PerformanceNames(r)
          \/ ReportCommissions(r) \/ Abort(r)
    BY <1>3 DEF Next
  <2> QED
    BY <1>1, <2>1, BookLone, StatusArriveLone, CommitStatusLone, LoadsLone,
       BalanceArriveLone, PerformanceArriveLone, PerformanceRevenueLone, EndsLone
<1> QED
  BY <1>2, <1>3

LEMMA SpecLone == AloneOnStatus => (Spec => []ILone)
<1> SUFFICES ASSUME AloneOnStatus PROVE Spec => []ILone
  OBVIOUS
<1>1. ILone /\ [Next]_vars => ILone'
  BY StepLone
<1> QED
  BY <1>1, InitLone, PTL DEF Spec

LEMMA StepEarned == ILone /\ CompletedIsEarned /\ [Next]_vars => CompletedIsEarned'
<1> SUFFICES ASSUME ILone, CompletedIsEarned, [Next]_vars PROVE CompletedIsEarned'
  OBVIOUS
<1>1. CASE UNCHANGED vars
  BY <1>1 DEF CompletedIsEarned, Answers, Earned, vars
<1>2. CASE Next
  <2>1. CASE answer' = Null
    BY <2>1 DEF CompletedIsEarned, Answers
  <2>2. ASSUME NEW r \in Request, PerformanceNames(r) PROVE CompletedIsEarned'
    <3>1. PICK t, row : t = tx[r] /\ row = answer'
      OBVIOUS
    <3>2. Earned(t)
      BY <2>2, <3>1 DEF PerformanceNames, ILone, Judged
    <3>3. row.completed = t.completed /\ row.revenue = t.revenue
      BY <2>2, <3>1 DEF PerformanceNames, Shows
    <3>4. Earned(row)
      BY <3>2, <3>3 DEF Earned
    <3>5. Earned(answer)'
      BY <3>1, <3>4 DEF Earned
    <3> QED
      BY <3>5 DEF CompletedIsEarned
  <2>3. ASSUME NEW r \in Request, BalanceSum(r) \/ ReportCommissions(r)
        PROVE  CompletedIsEarned'
    <3>1. answer'.kind # "performance"
      BY <2>3 DEF BalanceSum, Balance, ReportCommissions, Shows
    <3> QED
      BY <3>1 DEF CompletedIsEarned, Answers
  <2> QED
    BY <1>2, <2>1, <2>2, <2>3, AnswersStep
<1> QED
  BY <1>1, <1>2

(* With one request at a time that changes statuses, a performance report  *)
(* shows the value of at least as many appointments as it counts as        *)
(* completed: it counts first and sums afterwards, and what is completed   *)
(* in between stays completed (performance_report).                        *)
THEOREM EarnedAlone == AloneOnStatus => (Spec => []CompletedIsEarned)
<1> SUFFICES ASSUME AloneOnStatus PROVE Spec => []CompletedIsEarned
  OBVIOUS
<1>1. Init => CompletedIsEarned
  BY DEF Init, CompletedIsEarned, Answers
<1>2. Spec => []ILone
  BY SpecLone
<1> QED
  BY <1>1, <1>2, StepEarned, PTL DEF Spec

-----------------------------------------------------------------------------
(* What is owed stays within what was earned.                              *)

(* At a rate of at most a hundred percent, rounding to whole cents does    *)
(* not lift a commission above the price.                                  *)
LEMMA RoundedWithin ==
    ASSUME NEW c \in Nat, NEW rate \in Nat, rate <= 100
    PROVE  RoundCents(c * rate, 100) <= c
<1>1. PICK n : n = c * rate
  OBVIOUS
<1>2. n \in Nat /\ n <= c * 100
  BY <1>1
<1>3. (2 * n + 100) \div 200 <= c
  BY <1>2
<1> QED
  BY <1>1, <1>3 DEF RoundCents

LEMMA LoneWithin == ILone => CommissionsWithinRevenue
<1> SUFFICES ASSUME ILone, NEW s \in Staff, SpecialistOf[s] # Null,
                    \A l \in Line : StaffOf[AppointmentOf[l]] = s => RateOf[l] <= 100
             PROVE  OwedTo(SpecialistOf[s]) <= RevenueByStaff[s]
  BY DEF CommissionsWithinRevenue
<1> DEFINE due == [l \in Line |-> commissions[l] * CommissionOn(l)]
           mine == {l \in Line : StaffOf[AppointmentOf[l]] = s}
           done == {l \in CompletedLines : StaffOf[AppointmentOf[l]] = s}
<1>1. OwedTo(SpecialistOf[s]) = SumFunctionOnSet(due, mine)
  <2>1. {l \in Line : SpecialistOf[StaffOf[AppointmentOf[l]]] = SpecialistOf[s]} = mine
    BY PeopleAssumption, PricesAssumption
  <2> QED
    BY <2>1 DEF OwedTo
<1>2. RevenueByStaff[s] = SumFunctionOnSet(ValueOf, done)
  <2>1. done \in SUBSET Line /\ RevenueByStaff[s] = Value(done)
    BY DEF CompletedLines, RevenueByStaff
  <2> HIDE DEF done
  <2> QED
    BY <2>1, ValueByLine
<1>3. IsFiniteSet(mine) /\ done \in SUBSET mine /\ IsFiniteSet(done)
  <2>1. mine \in SUBSET Line /\ done \in SUBSET mine
    BY DEF CompletedLines
  <2> HIDE DEF mine, done
  <2> QED
    BY <2>1, FiniteRows, FS_Subset
<1>4. \A l \in mine : due[l] \in Nat
  BY CommissionType DEF ILone, IInv, TypeOK
<1>5. \A l \in mine \ done : due[l] = 0
  <2> SUFFICES ASSUME NEW l \in mine \ done PROVE due[l] = 0
    OBVIOUS
  <2>1. status[AppointmentOf[l]] # "completed"
    BY PricesAssumption DEF CompletedLines, With
  <2>2. commissions[l] = 0
    BY <2>1 DEF ILone, OnePerLine, IInv, TypeOK
  <2>3. CommissionOn(l) \in Nat
    BY CommissionType
  <2> QED
    BY <2>2, <2>3
<1>6. \A l \in done : due[l] \in Int /\ ValueOf[l] \in Int /\ due[l] <= ValueOf[l]
  <2> SUFFICES ASSUME NEW l \in done PROVE due[l] <= ValueOf[l]
    BY <1>3, <1>4, LineValue DEF CompletedLines, ValueOf
  <2>1. l \in Line /\ RateOf[l] \in Nat /\ RateOf[l] <= 100
    BY PricesAssumption DEF CompletedLines
  <2>2. PICK c : c = PriceOf[l] * QuantityOf[l]
    OBVIOUS
  <2>3. c \in Nat /\ ValueOf[l] = c
    BY <2>1, <2>2, LineValue DEF ValueOf
  <2>4. CommissionOn(l) = RoundCents(c * RateOf[l], 100)
    BY <2>2 DEF CommissionOn
  <2>5. CommissionOn(l) \in Nat /\ CommissionOn(l) <= c
    BY <2>1, <2>3, <2>4, RoundedWithin, CommissionType
  <2>6. commissions[l] \in {0, 1}
    BY <2>1 DEF ILone, OnePerLine, IInv, TypeOK
  <2>7. due[l] = commissions[l] * CommissionOn(l)
    BY <2>1
  <2> HIDE DEF due
  <2> QED
    BY <2>3, <2>5, <2>6, <2>7
<1> HIDE DEF due, mine, done
<1>7. SumFunctionOnSet(due, mine)
        = SumFunctionOnSet(due, done) + SumFunctionOnSet(due, mine \ done)
  BY <1>3, <1>4, SumUnion
<1>8. SumFunctionOnSet(due, mine \ done) = 0
  BY <1>3, <1>5, FS_Subset, SumZero
<1>9. SumFunctionOnSet(due, done) <= SumFunctionOnSet(ValueOf, done)
  BY <1>3, <1>6, SumMonotone
<1>10. SumFunctionOnSet(due, done) \in Int
  BY <1>3, <1>6, SumType
<1> QED
  BY <1>1, <1>2, <1>7, <1>8, <1>9, <1>10

(* With one request at a time that changes statuses, nobody is owed more   *)
(* than their completed services cost at rates of at most a hundred        *)
(* percent: a line earns once, when its appointment completes, and what it *)
(* earns, rounded to whole cents, is at most its price                     *)
(* (_generate_commissions, _round_cents).                                  *)
THEOREM WithinAlone == AloneOnStatus => (Spec => []CommissionsWithinRevenue)
<1> SUFFICES ASSUME AloneOnStatus PROVE Spec => []CommissionsWithinRevenue
  OBVIOUS
<1>1. Spec => []ILone
  BY SpecLone
<1> QED
  BY <1>1, LoneWithin, PTL

=============================================================================
