------------------------------ MODULE Booking ------------------------------
(***************************************************************************)
(* Concurrent HTTP requests against the appointments and staff tables:     *)
(* booking, rescheduling and status changes, one database statement per    *)
(* action.  Each request has its own session and transaction (READ         *)
(* COMMITTED); requests interleave at every await.                         *)
(*                                                                         *)
(* A session neither flushes before a query nor at assignment              *)
(* (autoflush=False), so an update reaches the database inside the final   *)
(* commit() and a booking's row inside its flush().  What PostgreSQL does  *)
(* with the statement - row locks, the exclusion constraint's wait for an  *)
(* uncommitted rival, the foreign key's KEY SHARE lock, deadlock           *)
(* detection - is modelled from how this code uses it.                     *)
(***************************************************************************)
EXTENDS Integers, Lifecycle

CONSTANTS
    Request,        \* the concurrent requests the server is working on
    Appointment,    \* primary keys an appointment can get
    Staff,          \* staff rows of the organization
    Edited,         \* those an administrator may still update or delete
    Start,          \* start times a caller asks for
    Duration,       \* total durations of the booked lines
    May,            \* May[r]: the kinds of request r makes
    Null            \* SQL NULL, an absent row, the front desk as an actor

Kind == {"book", "move", "status"}

ASSUME StartAssumption == Start \subseteq Int
ASSUME DurationAssumption == Duration \subseteq Nat \ {0}
ASSUME EditedAssumption == Edited \subseteq Staff
ASSUME MayAssumption == May \in [Request -> SUBSET Kind]

Row == [status : Status, staff : Staff, start : Start, dur : Duration]

Reservation == [staff : Staff, start : Start, dur : Duration]

ASSUME NullAssumption ==
    /\ Null \notin Row
    /\ Null \notin Staff
    /\ Null \notin Status
    /\ Null \notin Start
    /\ Null \notin Appointment

VARIABLES
    staff,      \* staff[s]: "active", "inactive" or (soft) "deleted"
    appts,      \* committed appointments: Null or a row
    pc,         \* where each request's handler stands
    tx,         \* its transaction: the row it read and the row it will write
    answer      \* what its caller was told last

vars == <<staff, appts, pc, tx, answer>>

(* The columns an update sets; Null for a column it leaves alone.          *)
Patch == [status : Status \cup {Null}, staff : Staff \cup {Null}, start : Start \cup {Null}]

NoPatch == [status |-> Null, staff |-> Null, start |-> Null]

(* An open transaction: the columns an update will set (until it is        *)
(* placed), the tuple a booking inserts or an update has placed, the staff *)
(* member acting (Null for the front desk), and the appointments that      *)
(* matched a booking's overlap query when it started.                      *)
Tx == [ kind : Kind \cup {"none"}, appt : Appointment \cup {Null},
        set : Patch, new : Row \cup {Null}, by : Staff \cup {Null},
        seen : SUBSET Appointment ]

NoTx == [ kind |-> "none", appt |-> Null, set |-> NoPatch, new |-> Null,
          by |-> Null, seen |-> {} ]

Step == {"idle", "resolve", "lock", "check", "judge", "insert",  \* booking
         "auth", "restaff", "write",                        \* update
         "placed", "passed"}                                \* both

(* "done" is 200 or 201, "refused" 400, 403 or 404, "conflict" 409          *)
(* SCHEDULE_CONFLICT, "error" 500; "none" while a request is worked on.    *)
Answer == {"none", "done", "refused", "conflict", "error"}

StaffState == {"active", "inactive", "deleted"}

TypeOK ==
    /\ staff \in [Staff -> StaffState]
    /\ appts \in [Appointment -> Row \cup {Null}]
    /\ pc \in [Request -> Step]
    /\ tx \in [Request -> Tx]
    /\ answer \in [Request -> Answer]

Init ==
    /\ staff = [s \in Staff |-> "active"]
    /\ appts = [a \in Appointment |-> Null]
    /\ pc = [r \in Request |-> "idle"]
    /\ tx = [r \in Request |-> NoTx]
    /\ answer = [r \in Request |-> "none"]

-----------------------------------------------------------------------------
(* Rows and locks.                                                         *)

(* Fault: windows that merely touch count as overlapping.                  *)
OverlapsOrTouches(x, y) ==
    /\ x.staff = y.staff
    /\ x.start <= y.start + y.dur
    /\ y.start <= x.start + x.dur

(* start_time < other.end_time AND end_time > other.start_time             *)
Overlaps(x, y) ==
    /\ x.staff = y.staff
    /\ x.start < y.start + y.dur
    /\ y.start < x.start + x.dur

(* A booked slot, as the overlap query of a booking sees it.               *)
Busy(x, y) ==
    /\ y # Null
    /\ y.status \in ActiveStatuses
    /\ Overlaps(x, y)

(* Fault: the constraint covers only active appointments.                  *)
ExcludedWhileActive(x, y) ==
    /\ x # Null /\ y # Null
    /\ HoldsSlotWhileActive(x.status) /\ HoldsSlotWhileActive(y.status)
    /\ Overlaps(x, y)

(* Two rows the exclusion constraint appointments_no_overlap refuses.      *)
Excluded(x, y) ==
    /\ x # Null /\ y # Null
    /\ HoldsSlot(x.status) /\ HoldsSlot(y.status)
    /\ Overlaps(x, y)

(* The request's new tuple is in the table, uncommitted.                   *)
InFlight(r) == pc[r] \in {"placed", "passed"}

(* Fault: the schedule lock is not taken, so nobody waits for it.          *)
HoldsNothing(r, s) == FALSE

(* SELECT staff.id ... FOR UPDATE, held until the transaction ends.        *)
HoldsStaff(r, s) ==
    /\ tx[r].kind = "book"
    /\ pc[r] \in {"check", "judge", "insert", "placed", "passed"}
    /\ tx[r].new.staff = s

(* The foreign key check of an update that changes staff_id.               *)
ChangesStaff(r) ==
    /\ tx[r].kind = "move"
    /\ tx[r].new.staff # appts[tx[r].appt].staff

(* q has the lock of an appointment's row: an uncommitted new version of   *)
(* it, or the overlap query has matched and locked it.                     *)
HoldsRow(q, a) ==
    \/ InFlight(q) /\ tx[q].appt = a
    \/ pc[q] \in {"insert", "placed", "passed"} /\ a \in tx[q].seen

(* Fault: an uncommitted rival is overlooked.                              *)
NeverRivals(q, r) == FALSE

(* q has a conflicting tuple, the one it placed or the committed one it is *)
(* replacing: the exclusion check has to wait for q's outcome.             *)
Rivals(q, r) ==
    /\ InFlight(q)
    /\ \/ Excluded(tx[r].new, tx[q].new)
       \/ Excluded(tx[r].new, appts[tx[q].appt])

(* The requests whose transaction must end before r's statement goes on.   *)
WaitsOn(r) ==
    {q \in Request \ {r} :
        \/ pc[r] = "lock"   /\ HoldsStaff(q, tx[r].new.staff)
        \/ pc[r] = "judge"  /\ \E a \in tx[r].seen : HoldsRow(q, a)
        \/ pc[r] = "write"  /\ HoldsRow(q, tx[r].appt)
        \/ pc[r] = "placed" /\ Rivals(q, r)
        \/ pc[r] = "passed" /\ ChangesStaff(r) /\ HoldsStaff(q, tx[r].new.staff)}

(* Fault: nobody looks for cycles.                                         *)
NeverInCycle(r) == FALSE

(* r is in a cycle of waits: in every set that has what r waits for and    *)
(* what its members wait for.                                              *)
InCycle(r) ==
    \A S \in SUBSET Request :
        (WaitsOn(r) \subseteq S /\ \A q \in S : WaitsOn(q) \subseteq S) => r \in S

(* Fault: every column is written back, changed or not.                    *)
ChangedAlways(read, value) == value

(* The ORM sets a column only when the handler gave it another value than  *)
(* the one it had read.                                                    *)
Changed(read, value) == IF value = read THEN Null ELSE value

(* Fault: the status is written even when it was not set.                  *)
MergeStatusAlways(row, set) ==
    [row EXCEPT
        !.status = set.status,
        !.staff  = IF set.staff = Null THEN @ ELSE set.staff,
        !.start  = IF set.start = Null THEN @ ELSE set.start]

Merge(row, set) ==
    [row EXCEPT
        !.status = IF set.status = Null THEN @ ELSE set.status,
        !.staff  = IF set.staff = Null THEN @ ELSE set.staff,
        !.start  = IF set.start = Null THEN @ ELSE set.start]

-----------------------------------------------------------------------------
(* How a handler moves on and how it ends.                                 *)

Go(r, step, t) ==
    /\ pc' = [pc EXCEPT ![r] = step]
    /\ tx' = [tx EXCEPT ![r] = t]
    /\ answer' = [answer EXCEPT ![r] = "none"]

Reply(r, code) ==
    /\ pc' = [pc EXCEPT ![r] = "idle"]
    /\ tx' = [tx EXCEPT ![r] = NoTx]
    /\ answer' = [answer EXCEPT ![r] = code]

Receives(r, kind) == pc[r] = "idle" /\ kind \in May[r]

-----------------------------------------------------------------------------
(* POST /appointments                                                      *)

(* The primary key of a new row: a UUID no row and no request has.         *)
FreshKey(a) ==
    /\ appts[a] = Null
    /\ \A r \in Request : tx[r].appt # a

(* Read the staff row: refused when it is deleted or inactive.             *)
BookArrive(r) ==
    /\ Receives(r, "book")
    /\ \E a \in Appointment, s \in Staff, start \in Start, dur \in Duration :
        /\ FreshKey(a)
        /\ IF staff[s] # "active"
           THEN Reply(r, "refused")
           ELSE Go(r, "resolve",
                   [NoTx EXCEPT
                       !.kind = "book", !.appt = a,
                       !.new = [status |-> "requested", staff |-> s,
                                start |-> start, dur |-> dur]])
    /\ UNCHANGED <<staff, appts>>

(* Read the client or walk-in and the services or package: any of them may *)
(* be missing or inactive.                                                 *)
BookResolve(r) ==
    /\ pc[r] = "resolve"
    /\ \/ Reply(r, "refused")
       \/ Go(r, "lock", tx[r])
    /\ UNCHANGED <<staff, appts>>

BookLock(r) ==
    /\ pc[r] = "lock"
    /\ WaitsOn(r) = {}
    /\ Go(r, "check", tx[r])
    /\ UNCHANGED <<staff, appts>>

(* The overlap query, FOR UPDATE: the rows that match when it starts.      *)
BookCheck(r) ==
    /\ pc[r] = "check"
    /\ LET found == {a \in Appointment : Busy(tx[r].new, appts[a])}
       IN  Go(r, IF found = {} THEN "insert" ELSE "judge", [tx[r] EXCEPT !.seen = found])
    /\ UNCHANGED <<staff, appts>>

(* It waits for the writers of the rows it has matched, locks them and     *)
(* judges those again, and no others, as they are by then.                 *)
BookJudge(r) ==
    /\ pc[r] = "judge"
    /\ WaitsOn(r) = {}
    /\ IF \E a \in tx[r].seen : Busy(tx[r].new, appts[a])
       THEN Reply(r, "conflict")
       ELSE Go(r, "insert", tx[r])
    /\ UNCHANGED <<staff, appts>>

BookInsert(r) ==
    /\ pc[r] = "insert"
    /\ Go(r, "placed", tx[r])
    /\ UNCHANGED <<staff, appts>>

-----------------------------------------------------------------------------
(* PATCH /appointments/{id}                                                *)

(* Read the appointment, whatever its status, and set the new window; a    *)
(* payload field left out, or equal to what was read, changes nothing, and *)
(* nothing at all is sent if the user is the last one who wrote the row.   *)
MoveArrive(r) ==
    /\ Receives(r, "move")
    /\ \E a \in Appointment :
        \/ /\ appts[a] = Null
           /\ Reply(r, "refused")
        \/ /\ appts[a] # Null
           /\ Reply(r, "done")
        \/ /\ appts[a] # Null
           /\ \E start \in Start, s \in Staff :
                Go(r, IF s = appts[a].staff THEN "write" ELSE "restaff",
                   [NoTx EXCEPT
                       !.kind = "move", !.appt = a,
                       !.set = [status |-> Changed(appts[a].status, appts[a].status),
                                staff  |-> Changed(appts[a].staff, s),
                                start  |-> Changed(appts[a].start, start)]])
    /\ UNCHANGED <<staff, appts>>

(* Read the new staff row, which must be active.                           *)
MoveStaff(r) ==
    /\ pc[r] = "restaff"
    /\ IF staff[tx[r].set.staff] = "active"
       THEN Go(r, "write", tx[r])
       ELSE Reply(r, "refused")
    /\ UNCHANGED <<staff, appts>>

-----------------------------------------------------------------------------
(* POST /appointments/{id}/status and /complete                            *)

(* LEGAL_TRANSITIONS, applied to the status that was read.                 *)
MayFollow(read, status) == status \in LegalTransitions[read]

(* Read the appointment and judge the new status by what was read.  It is  *)
(* refused when the appointment is missing, the role or the transition is  *)
(* wrong, the appointment is another specialist's, or a cancellation has   *)
(* no reason; a specialist's staff row is read before the update.          *)
StatusArrive(r) ==
    /\ Receives(r, "status")
    /\ \E a \in Appointment :
        \/ Reply(r, "refused")
        \/ /\ appts[a] # Null
           /\ \E status \in Status, by \in {Null, appts[a].staff} :
                /\ MayFollow(appts[a].status, status)
                /\ Go(r, IF by = Null THEN "write" ELSE "auth",
                      [NoTx EXCEPT
                          !.kind = "status", !.appt = a, !.by = by,
                          !.set = [NoPatch EXCEPT !.status = status]])
    /\ UNCHANGED <<staff, appts>>

(* resolve_staff_from_user: a deleted staff record is nobody's.            *)
StatusAuth(r) ==
    /\ pc[r] = "auth"
    /\ IF staff[tx[r].by] # "deleted"
       THEN Go(r, "write", tx[r])
       ELSE Reply(r, "refused")
    /\ UNCHANGED <<staff, appts>>

(* The completion pipeline finds a product understocked and blocks.        *)
StatusBlocked(r) ==
    /\ pc[r] = "write"
    /\ tx[r].set.status = "completed"
    /\ Reply(r, "refused")
    /\ UNCHANGED <<staff, appts>>

-----------------------------------------------------------------------------
(* The statement in the database.                                          *)

(* commit() of an update with a changed column: wait for the row, then put *)
(* the new version, computed from the newest committed one, in the table.  *)
Place(r) ==
    /\ pc[r] = "write"
    /\ tx[r].set # NoPatch
    /\ WaitsOn(r) = {}
    /\ Go(r, "placed",
          [tx[r] EXCEPT !.new = Merge(appts[tx[r].appt], tx[r].set), !.set = NoPatch])
    /\ UNCHANGED <<staff, appts>>

(* commit() of an update that sets updated_by only: it waits for the row   *)
(* and has nothing for the exclusion constraint to judge.                  *)
Touch(r) ==
    /\ pc[r] = "write"
    /\ tx[r].set = NoPatch
    /\ WaitsOn(r) = {}
    /\ Reply(r, "done")
    /\ UNCHANGED <<staff, appts>>

(* Fault: no exclusion constraint.                                         *)
NeverRefused(r) == FALSE

(* A committed row, of no open transaction, that excludes the new tuple.   *)
Refused(r) ==
    \E a \in Appointment \ {tx[r].appt} :
        /\ Excluded(tx[r].new, appts[a])
        /\ \A q \in Request \ {r} : InFlight(q) => tx[q].appt # a

ExclusionPass(r) ==
    /\ pc[r] = "placed"
    /\ WaitsOn(r) = {}
    /\ ~Refused(r)
    /\ Go(r, "passed", tx[r])
    /\ UNCHANGED <<staff, appts>>

(* IntegrityError: a booking answers 409, an update does not catch it.     *)
ExclusionFail(r) ==
    /\ pc[r] = "placed"
    /\ Refused(r)
    /\ Reply(r, IF tx[r].kind = "book" THEN "conflict" ELSE "error")
    /\ UNCHANGED <<staff, appts>>

Commit(r) ==
    /\ pc[r] = "passed"
    /\ WaitsOn(r) = {}
    /\ appts' = [appts EXCEPT ![tx[r].appt] = tx[r].new]
    /\ Reply(r, "done")
    /\ UNCHANGED staff

(* The deadlock detector aborts a member of a cycle: an unhandled error.   *)
Deadlock(r) ==
    /\ InCycle(r)
    /\ Reply(r, "error")
    /\ UNCHANGED <<staff, appts>>

(* The process or the connection dies: the session's transaction is rolled *)
(* back and the caller hears nothing.                                      *)
Abort(r) ==
    /\ pc[r] # "idle"
    /\ Reply(r, "none")
    /\ UNCHANGED <<staff, appts>>

-----------------------------------------------------------------------------
(* PATCH and DELETE /staff/{id}: one short transaction, whose update waits *)
(* for a booking that holds the row.                                       *)

StaffUpdate(s) ==
    /\ staff[s] # "deleted"
    /\ \A r \in Request : ~HoldsStaff(r, s)
    /\ \E active \in {"active", "inactive"} : staff' = [staff EXCEPT ![s] = active]
    /\ UNCHANGED <<appts, pc, tx, answer>>

StaffDelete(s) ==
    /\ staff[s] # "deleted"
    /\ \A r \in Request : ~HoldsStaff(r, s)
    /\ staff' = [staff EXCEPT ![s] = "deleted"]
    /\ UNCHANGED <<appts, pc, tx, answer>>

-----------------------------------------------------------------------------
Arrive(r) == BookArrive(r) \/ MoveArrive(r) \/ StatusArrive(r)

(* Steps that wait for nobody, and steps that may wait for a lock.         *)
Run(r) ==
    \/ BookResolve(r) \/ BookCheck(r) \/ BookInsert(r)
    \/ MoveStaff(r) \/ StatusAuth(r) \/ StatusBlocked(r)

Acquire(r) ==
    \/ BookLock(r) \/ BookJudge(r) \/ Place(r) \/ Touch(r)
    \/ ExclusionPass(r) \/ ExclusionFail(r) \/ Commit(r)

Next ==
    \/ \E r \in Request :
        Arrive(r) \/ Run(r) \/ Acquire(r) \/ Deadlock(r) \/ Abort(r)
    \/ \E s \in Edited : StaffUpdate(s) \/ StaffDelete(s)

Spec == Init /\ [][Next]_vars

(* The server runs every handler on; PostgreSQL queues lock requests in    *)
(* order and looks for deadlocks after a second of waiting.                *)
Fairness ==
    \A r \in Request :
        /\ WF_vars(Run(r))
        /\ SF_vars(Acquire(r))
        /\ WF_vars(Deadlock(r))

FairSpec == Spec /\ Fairness

-----------------------------------------------------------------------------
(* Properties.                                                             *)

Covers(row, t) ==
    /\ row # Null
    /\ HoldsSlot(row.status)
    /\ row.start <= t /\ t < row.start + row.dur

(* No staff member is due in two places: at no moment do two committed     *)
(* appointments that still hold their slots cover the same staff member's  *)
(* time, whatever bookings, moves and status changes ran concurrently      *)
(* (create_appointment, reschedule_appointment, transition_status).  Two   *)
(* windows that meet meet at the start of one of them.                     *)
NoDoubleBooking ==
    \A a, b \in Appointment, t \in Start :
        (a # b /\ Covers(appts[a], t) /\ Covers(appts[b], t))
            => appts[a].staff # appts[b].staff

(* A tuple that passed the exclusion check conflicts neither with a        *)
(* committed row nor with another tuple that passed, until its transaction *)
(* ends, whoever books, moves or changes a status meanwhile                *)
(* (appointments_no_overlap, create_appointment, reschedule_appointment).  *)
PassedIsClear ==
    \A r \in Request : pc[r] = "passed" =>
        /\ \A a \in Appointment \ {tx[r].appt} : ~Excluded(tx[r].new, appts[a])
        /\ \A q \in Request \ {r} :
              pc[q] = "passed" => ~Excluded(tx[r].new, tx[q].new)

(* A 409 is honest: it is answered only while the staff member has a       *)
(* committed appointment, still holding its slot, in the window asked for, *)
(* so a cancelled or missed appointment frees its slot for a new booking   *)
(* and back-to-back windows do not collide (create_appointment).           *)
ConflictIsReal ==
    [][\A r \in Request :
          (pc[r] # "idle" /\ pc'[r] = "idle" /\ answer'[r] = "conflict") =>
              \E a \in Appointment, t \in Start :
                  /\ Covers(appts[a], t) /\ Covers(tx[r].new, t)
                  /\ appts[a].staff = tx[r].new.staff]_vars

(* The schedule lock does what its comment says: once a booking has found  *)
(* its window free, the window stays free of other active appointments     *)
(* until it commits or gives up. It holds where nobody moves, which takes  *)
(* no schedule lock, and one request at a time changes statuses            *)
(* (create_appointment, reschedule_appointment).                           *)
WindowStaysFree ==
    \A r \in Request :
        (tx[r].kind = "book" /\ pc[r] \in {"insert", "placed", "passed"}) =>
            \A a \in Appointment : ~Busy(tx[r].new, appts[a])

(* A committed appointment only ever takes a step of the transition table, *)
(* starts as requested and never disappears: concurrent moves do not write *)
(* an older status back (transition_status, reschedule_appointment).  It   *)
(* holds while one request at a time changes statuses; two judge the same  *)
(* read, and the second commit may leave a terminal status.                *)
FollowsLifecycle ==
    [][\A a \in Appointment :
          appts'[a] # appts[a] =>
              /\ appts'[a] # Null
              /\ IF appts[a] = Null
                 THEN appts'[a].status = "requested"
                 ELSE \/ appts'[a].status = appts[a].status
                      \/ appts'[a].status \in LegalTransitions[appts[a].status]]_vars

(* Requests never wait for one another in a circle: bookings take the      *)
(* staff row before they place a tuple. It holds under the same            *)
(* conditions; with a move it takes the deadlock detector                  *)
(* (create_appointment).                                                   *)
NoWaitCycle == \A r \in Request : ~InCycle(r)

(* Every request is answered or dies: nobody waits for ever, because waits *)
(* end with the other transaction and circles of waits are broken.         *)
EveryRequestEnds ==
    \A r \in Request : pc[r] # "idle" ~> pc[r] = "idle"

-----------------------------------------------------------------------------
(* The promise kept: the committed rows that hold a slot, as a calendar.   *)

Reserved(row) ==
    IF row # Null /\ HoldsSlot(row.status)
    THEN [staff |-> row.staff, start |-> row.start, dur |-> row.dur]
    ELSE Null

Promise == INSTANCE Calendar WITH
    Slot <- Reservation, Free <- Null,
    calendar <- [a \in Appointment |-> Reserved(appts[a])]

(* The requests, their locks and the constraint implement the calendar: a  *)
(* commit makes, moves or releases one reservation, and a move never gives *)
(* the old slot up before the new one is granted.                          *)
ImplementsCalendar == Promise!Spec

=============================================================================
