--------------------------- MODULE BookingProofs ---------------------------
(***************************************************************************)
(* Booking proved for any number of requests, staff members, appointments, *)
(* start times and durations.  The argument: two open transactions never   *)
(* hold tuples of one row, because a booking's key is its own and an       *)
(* update waits for the row; so a tuple that passed the exclusion check    *)
(* stays clear of every committed row until it commits, and a commit can   *)
(* therefore not create a double booking.  The later parts add to that     *)
(* invariant, one layer each: what a request was asked for (so a 409 has a *)
(* cause), what it has judged (so statuses follow the table, if one        *)
(* request at a time changes them), and what the schedule lock keeps (so a *)
(* checked window stays free and waits end, if moreover nobody moves).     *)
(***************************************************************************)
EXTENDS Booking, TLAPS

(* What each step of a handler carries. *)
Carries ==
    \A r \in Request :
        /\ pc[r] = "idle" => tx[r].kind = "none" /\ tx[r].appt = Null
        /\ pc[r] # "idle" => tx[r].kind \in Kind /\ tx[r].appt \in Appointment
        /\ pc[r] \in {"resolve", "lock", "check", "judge", "insert"} =>
              tx[r].kind = "book" /\ tx[r].new \in Row
        /\ pc[r] \in {"auth", "restaff", "write"} => tx[r].kind # "book"
        /\ InFlight(r) => tx[r].new \in Row

(* A booking's key belongs to it alone; an update's row is there to stay.  *)
KeysApart ==
    \A r \in Request :
        /\ tx[r].kind = "book" =>
              /\ appts[tx[r].appt] = Null
              /\ \A q \in Request \ {r} : tx[q].appt # tx[r].appt
        /\ tx[r].kind \in {"move", "status"} => appts[tx[r].appt] # Null

(* Two open transactions never hold tuples of one appointment.             *)
OneWriterPerRow ==
    \A r, q \in Request :
        (r # q /\ InFlight(r) /\ InFlight(q)) => tx[r].appt # tx[q].appt

(* An update in flight keeps the length of the appointment. *)
KeepsLength ==
    \A r \in Request :
        (InFlight(r) /\ tx[r].kind # "book") => tx[r].new.dur = appts[tx[r].appt].dur

CommittedClear ==
    \A a, b \in Appointment : a # b => ~Excluded(appts[a], appts[b])

IInv ==
    /\ TypeOK
    /\ Carries
    /\ KeysApart
    /\ OneWriterPerRow
    /\ KeepsLength
    /\ PassedIsClear
    /\ CommittedClear

-----------------------------------------------------------------------------
(* The exclusion of two rows does not depend on the order they are named. *)
LEMMA ExcludedSymmetric ==
    ASSUME NEW x, NEW y
    PROVE  Excluded(x, y) <=> Excluded(y, x)
BY DEF Excluded, Overlaps

(* The columns an update leaves alone are those of the committed row. *)
LEMMA MergeType ==
    ASSUME NEW row \in Row, NEW set \in Patch
    PROVE  /\ Merge(row, set) \in Row
           /\ Merge(row, set).dur = row.dur
BY NullAssumption DEF Merge, Row, Patch

(* A tuple that passes the exclusion check meets no committed row of       *)
(* another appointment and no other tuple in flight.                       *)
LEMMA PassClear ==
    ASSUME NEW r \in Request, ExclusionPass(r)
    PROVE  /\ \A a \in Appointment \ {tx[r].appt} : ~Excluded(tx[r].new, appts[a])
           /\ \A q \in Request \ {r} : InFlight(q) => ~Excluded(tx[r].new, tx[q].new)
<1>1. \A q \in Request \ {r} : ~Rivals(q, r)
  BY DEF ExclusionPass, WaitsOn
<1>2. ~Refused(r)
  BY DEF ExclusionPass
<1>3. QED
  BY <1>1, <1>2 DEF Rivals, Refused

-----------------------------------------------------------------------------
(* Nothing is booked and nobody is working on a request.                   *)
LEMMA InitInv == Init => IInv
<1> SUFFICES ASSUME Init PROVE IInv
  OBVIOUS
<1> USE DEF Init, NoTx
<1>1. TypeOK
  BY DEF TypeOK, Tx, NoPatch, Patch, Kind, Step, Answer, StaffState
<1>2. Carries /\ KeysApart /\ OneWriterPerRow /\ KeepsLength /\ PassedIsClear
  BY NullAssumption DEF Carries, KeysApart, OneWriterPerRow, KeepsLength, PassedIsClear, InFlight
<1>3. CommittedClear
  BY DEF CommittedClear, Excluded
<1>4. QED
  BY <1>1, <1>2, <1>3 DEF IInv

-----------------------------------------------------------------------------
(* A request that ends without committing leaves the tables as they are    *)
(* and its locks and tuple behind it (rollback).                           *)
LEMMA ReplyInv ==
    ASSUME IInv, NEW r \in Request, NEW code \in Answer,
           Reply(r, code), UNCHANGED <<staff, appts>>
    PROVE  IInv'
<1> USE DEF IInv, Reply
<1>1. NoTx \in Tx
  BY DEF NoTx, NoPatch, Tx, Patch
<1>2. \A q \in Request \ {r} : pc'[q] = pc[q] /\ tx'[q] = tx[q]
  BY DEF TypeOK
<1>3. pc'[r] = "idle" /\ tx'[r] = NoTx
  BY DEF TypeOK
<1>4. TypeOK'
  BY <1>1 DEF TypeOK, Step
<1>5. Carries'
  BY <1>2, <1>3 DEF Carries, InFlight, NoTx
<1>6. KeysApart'
  <2>1. \A q \in Request : tx[q].kind = "book" => tx[q].appt # Null
    BY NullAssumption DEF Carries
  <2>2. QED
    BY <1>2, <1>3, <2>1 DEF KeysApart, NoTx
<1>7. OneWriterPerRow' /\ KeepsLength' /\ PassedIsClear' /\ CommittedClear'
  BY <1>2, <1>3 DEF OneWriterPerRow, KeepsLength, PassedIsClear, CommittedClear, InFlight
<1>8. QED
  BY <1>4, <1>5, <1>6, <1>7

(* A request that goes on without placing a tuple and without touching the *)
(* tables.                                                                 *)
LEMMA GoInv ==
    ASSUME IInv, NEW r \in Request, NEW step \in Step \ {"idle", "placed", "passed"},
           NEW t \in Tx, t.kind \in Kind, t.appt \in Appointment,
           Go(r, step, t), UNCHANGED <<staff, appts>>,
           step \in {"resolve", "lock", "check", "judge", "insert"} =>
               t.kind = "book" /\ t.new \in Row,
           step \in {"auth", "restaff", "write"} => t.kind # "book",
           t.kind = "book" =>
               appts[t.appt] = Null /\ \A q \in Request \ {r} : tx[q].appt # t.appt,
           t.kind # "book" => appts[t.appt] # Null
    PROVE  IInv'
<1> USE DEF IInv, Go
<1>1. \A q \in Request \ {r} : pc'[q] = pc[q] /\ tx'[q] = tx[q]
  BY DEF TypeOK
<1>2. pc'[r] = step /\ tx'[r] = t
  BY DEF TypeOK
<1>3. TypeOK'
  BY DEF TypeOK, Answer
<1>4. Carries'
  BY <1>1, <1>2 DEF Carries, InFlight, Step
<1>5. KeysApart'
  BY <1>1, <1>2 DEF KeysApart, Kind
<1>6. OneWriterPerRow' /\ KeepsLength' /\ PassedIsClear' /\ CommittedClear'
  BY <1>1, <1>2 DEF OneWriterPerRow, KeepsLength, PassedIsClear, CommittedClear, InFlight
<1>7. QED
  BY <1>3, <1>4, <1>5, <1>6

(* The same transaction, one step further. *)
LEMMA GoOnInv ==
    ASSUME IInv, NEW r \in Request, NEW step \in Step \ {"idle", "placed", "passed"},
           Go(r, step, tx[r]), UNCHANGED <<staff, appts>>,
           \/ /\ pc[r] \in {"resolve", "lock", "judge"}
              /\ step \in {"lock", "check", "insert"}
           \/ pc[r] \in {"auth", "restaff"} /\ step = "write"
    PROVE  IInv'
<1>1. tx[r] \in Tx
  BY DEF IInv, TypeOK
<1>2. /\ tx[r].kind \in Kind
      /\ tx[r].appt \in Appointment
      /\ step \in {"resolve", "lock", "check", "judge", "insert"} =>
            tx[r].kind = "book" /\ tx[r].new \in Row
      /\ step \in {"auth", "restaff", "write"} => tx[r].kind # "book"
  BY DEF IInv, Carries
<1>3. /\ tx[r].kind = "book" =>
            appts[tx[r].appt] = Null /\ \A q \in Request \ {r} : tx[q].appt # tx[r].appt
      /\ tx[r].kind # "book" => appts[tx[r].appt] # Null
  BY <1>2 DEF IInv, KeysApart, Kind
<1>4. QED
  BY <1>1, <1>2, <1>3, GoInv

(* A tuple enters the table: only its own row has no other writer. *)
LEMMA PlacedInv ==
    ASSUME IInv, NEW r \in Request, NEW t \in Tx,
           Go(r, "placed", t), UNCHANGED <<staff, appts>>,
           t.kind = tx[r].kind, t.appt = tx[r].appt, t.new \in Row,
           pc[r] \in {"insert", "write"},
           t.kind # "book" => t.new.dur = appts[t.appt].dur,
           \A q \in Request \ {r} : InFlight(q) => tx[q].appt # tx[r].appt
    PROVE  IInv'
<1> USE DEF IInv, Go
<1>1. \A q \in Request \ {r} : pc'[q] = pc[q] /\ tx'[q] = tx[q]
  BY DEF TypeOK
<1>2. pc'[r] = "placed" /\ tx'[r] = t
  BY DEF TypeOK
<1>3. TypeOK'
  BY DEF TypeOK, Answer, Step
<1>4. Carries'
  BY <1>1, <1>2 DEF Carries, InFlight
<1>5. KeysApart'
  BY <1>1, <1>2 DEF KeysApart
<1>6. OneWriterPerRow'
  BY <1>1, <1>2 DEF OneWriterPerRow, InFlight
<1>7. KeepsLength' /\ PassedIsClear' /\ CommittedClear'
  BY <1>1, <1>2 DEF KeepsLength, PassedIsClear, CommittedClear, InFlight
<1>8. QED
  BY <1>3, <1>4, <1>5, <1>6, <1>7

-----------------------------------------------------------------------------
(* One lemma per group of handlers. *)

(* A booking, up to its insert. *)
LEMMA BookInv ==
    ASSUME IInv, NEW r \in Request,
           \/ BookArrive(r) \/ BookResolve(r) \/ BookLock(r)
           \/ BookCheck(r) \/ BookJudge(r) \/ BookInsert(r)
    PROVE  IInv'
<1> USE DEF Answer, Step
<1>1. CASE BookArrive(r)
  <2>1. PICK a \in Appointment, s \in Staff, start \in Start, dur \in Duration :
          /\ FreshKey(a)
          /\ IF staff[s] # "active"
             THEN Reply(r, "refused")
             ELSE Go(r, "resolve",
                     [NoTx EXCEPT
                         !.kind = "book", !.appt = a,
                         !.new = [status |-> "requested", staff |-> s,
                                  start |-> start, dur |-> dur]])
    BY <1>1 DEF BookArrive
  <2> DEFINE row == [status |-> "requested", staff |-> s, start |-> start, dur |-> dur]
             t == [NoTx EXCEPT !.kind = "book", !.appt = a, !.new = row]
  <2>2. UNCHANGED <<staff, appts>>
    BY <1>1 DEF BookArrive
  <2>3. CASE Reply(r, "refused")
    BY <2>2, <2>3, ReplyInv
  <2>4. CASE Go(r, "resolve", t)
    <3>1. row \in Row
      BY DEF Row, Status
    <3>2. t \in Tx /\ t.kind = "book" /\ t.appt = a /\ t.new = row
      BY <3>1 DEF Tx, NoTx, NoPatch, Patch, Kind
    <3>3. appts[a] = Null /\ \A q \in Request \ {r} : tx[q].appt # a
      BY <2>1 DEF FreshKey
    <3> HIDE DEF t
    <3>4. QED
      BY <2>2, <2>4, <3>1, <3>2, <3>3, GoInv DEF Kind
  <2>5. QED
    BY <2>1, <2>3, <2>4
<1>2. CASE BookResolve(r)
  BY <1>2, ReplyInv, GoOnInv DEF BookResolve
<1>3. CASE BookLock(r)
  BY <1>3, GoOnInv DEF BookLock
<1>4. CASE BookCheck(r)
  <2> DEFINE found == {a \in Appointment : Busy(tx[r].new, appts[a])}
             step == IF found = {} THEN "insert" ELSE "judge"
             t == [tx[r] EXCEPT !.seen = found]
  <2>1. pc[r] = "check" /\ Go(r, step, t) /\ UNCHANGED <<staff, appts>>
    BY <1>4 DEF BookCheck
  <2>2. /\ tx[r] \in Tx /\ tx[r].kind = "book" /\ tx[r].new \in Row
        /\ tx[r].appt \in Appointment
    BY <2>1 DEF IInv, TypeOK, Carries
  <2>3. /\ t \in Tx /\ t.kind = tx[r].kind /\ t.appt = tx[r].appt /\ t.new = tx[r].new
        /\ step \in {"insert", "judge"}
    <3>1. found \in SUBSET Appointment
      OBVIOUS
    <3> HIDE DEF found
    <3> QED
      BY <2>2, <3>1 DEF Tx
  <2>4. appts[tx[r].appt] = Null /\ \A q \in Request \ {r} : tx[q].appt # tx[r].appt
    BY <2>2 DEF IInv, KeysApart
  <2> HIDE DEF step, t
  <2>5. QED
    BY <2>1, <2>2, <2>3, <2>4, GoInv DEF Kind
<1>5. CASE BookJudge(r)
  BY <1>5, ReplyInv, GoOnInv DEF BookJudge
<1>6. CASE BookInsert(r)
  <2>1. /\ Go(r, "placed", tx[r])
        /\ UNCHANGED <<staff, appts>>
        /\ pc[r] = "insert"
    BY <1>6 DEF BookInsert
  <2>2. tx[r] \in Tx /\ tx[r].kind = "book" /\ tx[r].new \in Row
    BY <2>1 DEF IInv, TypeOK, Carries
  <2>3. \A q \in Request \ {r} : tx[q].appt # tx[r].appt
    BY <2>2 DEF IInv, KeysApart
  <2>4. QED
    BY <2>1, <2>2, <2>3, PlacedInv
<1>7. QED
  BY <1>1, <1>2, <1>3, <1>4, <1>5, <1>6

(* A reschedule, up to its commit. *)
LEMMA MoveInv ==
    ASSUME IInv, NEW r \in Request, MoveArrive(r) \/ MoveStaff(r)
    PROVE  IInv'
<1> USE DEF Answer, Step
<1>1. CASE MoveArrive(r)
  <2>1. UNCHANGED <<staff, appts>>
    BY <1>1 DEF MoveArrive
  <2>2. CASE Reply(r, "refused") \/ Reply(r, "done")
    BY <2>1, <2>2, ReplyInv
  <2>3. CASE ~(Reply(r, "refused") \/ Reply(r, "done"))
    <3>1. PICK a \in Appointment :
            /\ appts[a] # Null
            /\ \E start \in Start, s \in Staff :
                 Go(r, IF s = appts[a].staff THEN "write" ELSE "restaff",
                    [NoTx EXCEPT
                       !.kind = "move", !.appt = a,
                       !.set = [status |-> Changed(appts[a].status, appts[a].status),
                                staff  |-> Changed(appts[a].staff, s),
                                start  |-> Changed(appts[a].start, start)]])
      BY <1>1, <2>3 DEF MoveArrive
    <3>2. PICK start \in Start, s \in Staff :
            Go(r, IF s = appts[a].staff THEN "write" ELSE "restaff",
               [NoTx EXCEPT
                  !.kind = "move", !.appt = a,
                  !.set = [status |-> Changed(appts[a].status, appts[a].status),
                           staff  |-> Changed(appts[a].staff, s),
                           start  |-> Changed(appts[a].start, start)]])
      BY <3>1
    <3> DEFINE step == IF s = appts[a].staff THEN "write" ELSE "restaff"
               set == [status |-> Changed(appts[a].status, appts[a].status),
                       staff  |-> Changed(appts[a].staff, s),
                       start  |-> Changed(appts[a].start, start)]
               t == [NoTx EXCEPT !.kind = "move", !.appt = a, !.set = set]
    <3>3. set \in Patch
      BY DEF Changed, Patch
    <3>4. t \in Tx /\ t.kind = "move" /\ t.appt = a
      <4> HIDE DEF set
      <4>1. QED
        BY <3>3 DEF Tx, NoTx, Kind
    <3>5. step \in {"write", "restaff"} /\ Go(r, step, t)
      BY <3>2
    <3> HIDE DEF step, t
    <3>6. QED
      BY <2>1, <3>1, <3>4, <3>5, GoInv DEF Kind
  <2>4. QED
    BY <2>2, <2>3
<1>2. CASE MoveStaff(r)
  BY <1>2, ReplyInv, GoOnInv DEF MoveStaff
<1>3. QED
  BY <1>1, <1>2

(* A status change, up to its commit. *)
LEMMA StatusInv ==
    ASSUME IInv, NEW r \in Request, StatusArrive(r) \/ StatusAuth(r) \/ StatusBlocked(r)
    PROVE  IInv'
<1> USE DEF Answer, Step
<1>1. CASE StatusArrive(r)
  <2>1. UNCHANGED <<staff, appts>>
    BY <1>1 DEF StatusArrive
  <2>2. CASE Reply(r, "refused")
    BY <2>1, <2>2, ReplyInv
  <2>3. CASE ~Reply(r, "refused")
    <3>1. PICK a \in Appointment :
            /\ appts[a] # Null
            /\ \E status \in Status, by \in {Null, appts[a].staff} :
                 Go(r, IF by = Null THEN "write" ELSE "auth",
                    [NoTx EXCEPT
                       !.kind = "status", !.appt = a, !.by = by,
                       !.set = [NoPatch EXCEPT !.status = status]])
      BY <1>1, <2>3 DEF StatusArrive
    <3>2. PICK status \in Status, by \in {Null, appts[a].staff} :
            Go(r, IF by = Null THEN "write" ELSE "auth",
               [NoTx EXCEPT
                  !.kind = "status", !.appt = a, !.by = by,
                  !.set = [NoPatch EXCEPT !.status = status]])
      BY <3>1
    <3> DEFINE step == IF by = Null THEN "write" ELSE "auth"
               set == [NoPatch EXCEPT !.status = status]
               t == [NoTx EXCEPT !.kind = "status", !.appt = a, !.by = by, !.set = set]
    <3>3. set \in Patch
      BY DEF NoPatch, Patch
    <3>4. by \in Staff \cup {Null}
      BY <3>1 DEF IInv, TypeOK, Row
    <3>5. t \in Tx /\ t.kind = "status" /\ t.appt = a
      <4> HIDE DEF set
      <4>1. QED
        BY <3>3, <3>4 DEF Tx, NoTx, Kind
    <3>6. step \in {"write", "auth"} /\ Go(r, step, t)
      BY <3>2
    <3> HIDE DEF step, t
    <3>7. QED
      BY <2>1, <3>1, <3>5, <3>6, GoInv DEF Kind
  <2>4. QED
    BY <2>2, <2>3
<1>2. CASE StatusAuth(r)
  BY <1>2, ReplyInv, GoOnInv DEF StatusAuth
<1>3. CASE StatusBlocked(r)
  BY <1>3, ReplyInv DEF StatusBlocked
<1>4. QED
  BY <1>1, <1>2, <1>3

(* An update puts its new version in the table. *)
LEMMA PlaceInv ==
    ASSUME IInv, NEW r \in Request, Place(r)
    PROVE  IInv'
<1> DEFINE row == appts[tx[r].appt]
           t == [tx[r] EXCEPT !.new = Merge(row, tx[r].set), !.set = NoPatch]
<1>1. /\ pc[r] = "write"
      /\ Go(r, "placed", t)
      /\ UNCHANGED <<staff, appts>>
      /\ \A q \in Request \ {r} : InFlight(q) => tx[q].appt # tx[r].appt
  BY DEF Place, WaitsOn, HoldsRow
<1>2. tx[r] \in Tx /\ tx[r].kind \in {"move", "status"} /\ tx[r].appt \in Appointment
  BY <1>1 DEF IInv, TypeOK, Carries, Kind
<1>3. row \in Row
  BY <1>2 DEF IInv, TypeOK, KeysApart
<1>4. Merge(row, tx[r].set) \in Row /\ Merge(row, tx[r].set).dur = row.dur
  BY <1>2, <1>3, MergeType DEF Tx
<1>5. NoPatch \in Patch
  BY DEF NoPatch, Patch
<1>6. /\ t \in Tx /\ t.kind = tx[r].kind /\ t.appt = tx[r].appt
      /\ t.new = Merge(row, tx[r].set)
  BY <1>2, <1>4, <1>5 DEF Tx
<1> HIDE DEF t
<1>7. QED
  BY <1>1, <1>4, <1>6, PlacedInv

(* A tuple passes the exclusion check. *)
LEMMA PassInv ==
    ASSUME IInv, NEW r \in Request, ExclusionPass(r)
    PROVE  IInv'
<1> USE DEF IInv
<1>1. pc[r] = "placed" /\ Go(r, "passed", tx[r]) /\ UNCHANGED <<staff, appts>>
  BY DEF ExclusionPass
<1>2. tx' = tx /\ pc' = [pc EXCEPT ![r] = "passed"]
  BY <1>1 DEF Go, TypeOK
<1>3. \A q \in Request : InFlight(q)' <=> InFlight(q)
  BY <1>1, <1>2 DEF InFlight, TypeOK
<1>4. TypeOK' /\ Carries' /\ KeysApart'
  BY <1>1, <1>2, <1>3 DEF Go, TypeOK, Carries, KeysApart, Answer, Step, InFlight
<1>5. OneWriterPerRow' /\ KeepsLength' /\ CommittedClear'
  BY <1>1, <1>2, <1>3 DEF OneWriterPerRow, KeepsLength, CommittedClear
<1>6. PassedIsClear'
  <2>1. /\ \A a \in Appointment \ {tx[r].appt} : ~Excluded(tx[r].new, appts[a])
        /\ \A q \in Request \ {r} : pc[q] = "passed" => ~Excluded(tx[r].new, tx[q].new)
    BY PassClear DEF InFlight
  <2>2. \A q \in Request \ {r} : pc[q] = "passed" => ~Excluded(tx[q].new, tx[r].new)
    BY <2>1, ExcludedSymmetric
  <2>3. QED
    BY <1>1, <1>2, <2>1, <2>2 DEF PassedIsClear, TypeOK
<1>7. QED
  BY <1>4, <1>5, <1>6

(* A tuple that passed becomes the committed row. *)
LEMMA CommitInv ==
    ASSUME IInv, NEW r \in Request, Commit(r)
    PROVE  IInv'
<1> USE DEF IInv
<1> DEFINE a == tx[r].appt
<1>1. /\ pc[r] = "passed"
      /\ appts' = [appts EXCEPT ![a] = tx[r].new]
      /\ pc' = [pc EXCEPT ![r] = "idle"]
      /\ tx' = [tx EXCEPT ![r] = NoTx]
      /\ answer' = [answer EXCEPT ![r] = "done"]
      /\ staff' = staff
  BY DEF Commit, Reply
<1>2. a \in Appointment /\ tx[r].new \in Row /\ tx[r].new # Null
  BY <1>1, NullAssumption DEF Carries, InFlight
<1>3. \A q \in Request \ {r} : pc'[q] = pc[q] /\ tx'[q] = tx[q]
  BY <1>1 DEF TypeOK
<1>4. pc'[r] = "idle" /\ tx'[r] = NoTx
  BY <1>1 DEF TypeOK
<1>5. appts'[a] = tx[r].new /\ \A b \in Appointment \ {a} : appts'[b] = appts[b]
  BY <1>1, <1>2 DEF TypeOK
<1>6. NoTx \in Tx
  BY DEF NoTx, NoPatch, Tx, Patch
<1>7. TypeOK'
  BY <1>1, <1>2, <1>6 DEF TypeOK, Step, Answer
<1>8. Carries'
  BY <1>3, <1>4 DEF Carries, InFlight, NoTx
<1>9. KeysApart'
  <2>1. \A q \in Request \ {r} : tx[q].kind = "book" => tx[q].appt # a
    BY DEF KeysApart
  <2>2. \A q \in Request : tx[q].kind \in Kind => tx[q].appt \in Appointment
    BY DEF Carries, Kind
  <2>3. QED
    BY <1>2, <1>3, <1>4, <1>5, <2>1, <2>2, NullAssumption DEF KeysApart, NoTx, Kind
<1>10. OneWriterPerRow'
  BY <1>3, <1>4 DEF OneWriterPerRow, InFlight
<1>11. KeepsLength'
  <2>1. \A q \in Request \ {r} : InFlight(q) => tx[q].appt \in Appointment \ {a}
    BY <1>1 DEF OneWriterPerRow, InFlight, Carries
  <2>2. QED
    BY <1>3, <1>4, <1>5, <2>1 DEF KeepsLength, InFlight
<1>12. PassedIsClear'
  <2>1. \A q \in Request \ {r} : pc[q] = "passed" => ~Excluded(tx[q].new, tx[r].new)
    BY <1>1 DEF PassedIsClear
  <2>2. QED
    BY <1>3, <1>4, <1>5, <2>1 DEF PassedIsClear
<1>13. CommittedClear'
  <2>1. \A b \in Appointment \ {a} : ~Excluded(tx[r].new, appts[b])
    BY <1>1 DEF PassedIsClear
  <2>2. \A b \in Appointment \ {a} : ~Excluded(appts[b], tx[r].new)
    BY <2>1, ExcludedSymmetric
  <2>3. QED
    BY <1>5, <2>1, <2>2 DEF CommittedClear
<1>14. QED
  BY <1>7, <1>8, <1>9, <1>10, <1>11, <1>12, <1>13

(* The administrator's changes to staff touch no appointment. *)
LEMMA StaffInv ==
    ASSUME IInv, NEW s \in Staff, StaffUpdate(s) \/ StaffDelete(s)
    PROVE  IInv'
<1>1. UNCHANGED <<appts, pc, tx, answer>> /\ staff' \in [Staff -> StaffState]
  BY DEF StaffUpdate, StaffDelete, IInv, TypeOK, StaffState
<1>2. QED
  BY <1>1 DEF IInv, TypeOK, Carries, KeysApart, OneWriterPerRow, KeepsLength,
              PassedIsClear, CommittedClear, InFlight

-----------------------------------------------------------------------------
(* Every step preserves the inductive invariant. *)
LEMMA NextInv == IInv /\ [Next]_vars => IInv'
<1> SUFFICES ASSUME IInv, [Next]_vars PROVE IInv'
  OBVIOUS
<1>1. CASE UNCHANGED vars
  BY <1>1 DEF vars, IInv, TypeOK, Carries, KeysApart, OneWriterPerRow, KeepsLength,
              PassedIsClear, CommittedClear, InFlight
<1>2. ASSUME NEW s \in Edited, StaffUpdate(s) \/ StaffDelete(s) PROVE IInv'
  BY <1>2, EditedAssumption, StaffInv
<1>3. ASSUME NEW r \in Request, Arrive(r) \/ Run(r) \/ Acquire(r) \/ Deadlock(r) \/ Abort(r)
      PROVE  IInv'
  <2>1. CASE Arrive(r)
    BY <2>1, BookInv, MoveInv, StatusInv DEF Arrive
  <2>2. CASE Touch(r) \/ ExclusionFail(r) \/ Deadlock(r) \/ Abort(r)
    BY <2>2, ReplyInv DEF Touch, ExclusionFail, Deadlock, Abort, Answer
  <2>3. CASE Run(r)
    BY <2>2, <2>3, BookInv, MoveInv, StatusInv DEF Run
  <2>4. CASE Acquire(r)
    BY <2>2, <2>4, BookInv, PlaceInv, PassInv, CommitInv DEF Acquire
  <2>5. QED
    BY <1>3, <2>1, <2>2, <2>3, <2>4
<1>4. QED
  BY <1>1, <1>2, <1>3 DEF Next

(* The inductive invariant always holds. *)
LEMMA Invariance == Spec => []IInv
<1>1. QED
  BY InitInv, NextInv, PTL DEF Spec

(* Type correctness: every request's step, transaction and answer, and     *)
(* every committed row, keep their shape (appointments and staff tables).  *)
THEOREM TypeCorrect == Spec => []TypeOK
<1>1. IInv => TypeOK
  BY DEF IInv
<1>2. QED
  BY <1>1, Invariance, PTL

(* No staff member is ever due in two places, for any number of concurrent *)
(* bookings, moves and status changes (create_appointment,                 *)
(* reschedule_appointment, transition_status).                             *)
THEOREM NeverDoubleBooked == Spec => []NoDoubleBooking
<1>1. IInv => NoDoubleBooking
  <2> SUFFICES ASSUME IInv, NEW a \in Appointment, NEW b \in Appointment, NEW t \in Start,
                      a # b, Covers(appts[a], t), Covers(appts[b], t),
                      appts[a].staff = appts[b].staff
               PROVE  FALSE
    BY DEF NoDoubleBooking
  <2>1. appts[a] \in Row /\ appts[b] \in Row
    BY DEF IInv, TypeOK, Covers
  <2>2. /\ appts[a].start \in Int /\ appts[a].dur \in Int
        /\ appts[b].start \in Int /\ appts[b].dur \in Int /\ t \in Int
    <3>1. /\ appts[a].start \in Start /\ appts[a].dur \in Duration
          /\ appts[b].start \in Start /\ appts[b].dur \in Duration
      BY <2>1 DEF Row
    <3>2. \A x \in Start : x \in Int
      BY StartAssumption
    <3>3. \A x \in Duration : x \in Int
      BY DurationAssumption
    <3>4. QED
      BY <3>1, <3>2, <3>3
  <2>3. Overlaps(appts[a], appts[b])
    BY <2>2 DEF Covers, Overlaps
  <2>4. Excluded(appts[a], appts[b])
    BY <2>3 DEF Excluded, Covers
  <2>5. QED
    BY <2>4 DEF IInv, CommittedClear
<1>2. QED
  BY <1>1, Invariance, PTL

(* What passed the exclusion check stays clear of every committed row and  *)
(* of everything else that passed, until its own commit                    *)
(* (appointments_no_overlap).                                              *)
THEOREM PassedStaysClear == Spec => []PassedIsClear
<1>1. IInv => PassedIsClear
  BY DEF IInv
<1>2. QED
  BY <1>1, Invariance, PTL

-----------------------------------------------------------------------------
(* The refinement.  A commit changes one reservation; every other step     *)
(* leaves the calendar as it is.                                           *)

(* What a commit finds and leaves behind. *)
LEMMA CommitClear ==
    ASSUME IInv, NEW r \in Request, Commit(r)
    PROVE  LET a == tx[r].appt
               row == tx[r].new
           IN  /\ a \in Appointment /\ row \in Row
               /\ appts' = [appts EXCEPT ![a] = row]
               /\ \A b \in Appointment \ {a} : ~Excluded(row, appts[b])
               /\ appts[a] # Null => row.dur = appts[a].dur
<1>1. pc[r] = "passed" /\ appts' = [appts EXCEPT ![tx[r].appt] = tx[r].new]
  BY DEF Commit
<1>2. tx[r].appt \in Appointment /\ tx[r].new \in Row
  BY <1>1 DEF IInv, Carries, InFlight
<1>3. \A b \in Appointment \ {tx[r].appt} : ~Excluded(tx[r].new, appts[b])
  BY <1>1 DEF IInv, PassedIsClear
<1>4. appts[tx[r].appt] # Null => tx[r].new.dur = appts[tx[r].appt].dur
  BY <1>1 DEF IInv, KeepsLength, KeysApart, InFlight
<1>5. QED
  BY <1>1, <1>2, <1>3, <1>4

(* Reservations clash only if the rows they come from exclude each other. *)
LEMMA ClashExcluded ==
    ASSUME NEW x \in Row \cup {Null}, NEW y \in Row \cup {Null},
           Promise!Clash(Reserved(x), Reserved(y))
    PROVE  Excluded(x, y)
<1>1. Reserved(x) # Null /\ Reserved(y) # Null
  BY DEF Promise!Clash
<1>2. x # Null /\ HoldsSlot(x.status) /\ y # Null /\ HoldsSlot(y.status)
  BY <1>1 DEF Reserved
<1>3. /\ Reserved(x) = [staff |-> x.staff, start |-> x.start, dur |-> x.dur]
      /\ Reserved(y) = [staff |-> y.staff, start |-> y.start, dur |-> y.dur]
  BY <1>2 DEF Reserved
<1>4. QED
  BY <1>2, <1>3 DEF Promise!Clash, Excluded, Overlaps

(* A commit is a step of the calendar, or leaves it as it is. *)
LEMMA CommitRefines ==
    ASSUME IInv, NEW r \in Request, Commit(r)
    PROVE  Promise!Next \/ UNCHANGED [a \in Appointment |-> Reserved(appts[a])]
<1> DEFINE cal == [b \in Appointment |-> Reserved(appts[b])]
           a == tx[r].appt
           row == tx[r].new
           slot == Reserved(row)
<1>1. /\ a \in Appointment /\ row \in Row
      /\ appts' = [appts EXCEPT ![a] = row]
      /\ \A b \in Appointment \ {a} : ~Excluded(row, appts[b])
      /\ appts[a] # Null => row.dur = appts[a].dur
  BY CommitClear
<1>2. appts \in [Appointment -> Row \cup {Null}]
  BY DEF IInv, TypeOK
<1>3. cal' = [cal EXCEPT ![a] = slot]
  BY <1>1, <1>2
<1>4. Promise!Available(a, slot)
  BY <1>1, <1>2, ClashExcluded DEF Promise!Available
<1>5. cal[a] = Reserved(appts[a])
  BY <1>1
<1>6. CASE slot = Null
  <2>1. CASE cal[a] = Null
    BY <1>1, <1>3, <1>6, <2>1
  <2>2. CASE cal[a] # Null
    BY <1>1, <1>3, <1>6, <2>2 DEF Promise!Next, Promise!Release
  <2>3. QED
    BY <2>1, <2>2
<1>7. CASE slot # Null
  <2>1. slot = [staff |-> row.staff, start |-> row.start, dur |-> row.dur]
    BY <1>7 DEF Reserved
  <2>2. slot \in Reservation
    BY <1>1, <2>1 DEF Reservation, Row
  <2>3. CASE cal[a] = Null
    BY <1>1, <1>3, <1>4, <2>2, <2>3 DEF Promise!Next, Promise!Reserve
  <2>4. CASE cal[a] # Null
    <3>1. appts[a] # Null /\ cal[a].dur = appts[a].dur
      BY <1>5, <2>4 DEF Reserved
    <3>2. slot.dur = cal[a].dur
      BY <1>1, <2>1, <3>1
    <3>3. QED
      BY <1>1, <1>3, <1>4, <2>2, <2>4, <3>2 DEF Promise!Next, Promise!Move
  <2>5. QED
    BY <2>3, <2>4
<1>8. QED
  BY <1>6, <1>7

(* Only a commit writes the appointments table. *)
LEMMA OnlyCommitWrites ==
    ASSUME [Next]_vars, \A r \in Request : ~Commit(r)
    PROVE  appts' = appts
BY DEF Next, vars, Arrive, Run, Acquire, BookArrive, BookResolve, BookLock, BookCheck,
       BookJudge, BookInsert, MoveArrive, MoveStaff, StatusArrive, StatusAuth, StatusBlocked, Touch,
       Place, ExclusionPass, ExclusionFail, Deadlock, Abort, StaffUpdate, StaffDelete

(* The concurrent requests keep the calendar's promise: reservations of    *)
(* one staff member never clash, and each commit makes, moves or releases  *)
(* exactly one of them (appointments table under the schedule lock and     *)
(* appointments_no_overlap).                                               *)
THEOREM KeepsThePromise == Spec => ImplementsCalendar
<1> DEFINE cal == [a \in Appointment |-> Reserved(appts[a])]
<1>1. Init => Promise!Init
  BY DEF Init, Promise!Init, Reserved
<1>2. IInv /\ [Next]_vars => [Promise!Next]_cal
  <2> SUFFICES ASSUME IInv, [Next]_vars PROVE Promise!Next \/ UNCHANGED cal
    OBVIOUS
  <2>1. CASE \A r \in Request : ~Commit(r)
    <3>1. appts' = appts
      BY <2>1, OnlyCommitWrites
    <3>2. QED
      BY <3>1
  <2>2. CASE \E r \in Request : Commit(r)
    BY <2>2, CommitRefines
  <2>3. QED
    BY <2>1, <2>2
<1>3. QED
  BY <1>1, <1>2, Invariance, PTL DEF Spec, ImplementsCalendar, Promise!Spec

-----------------------------------------------------------------------------
(* What a request has been asked for stays with it: a booking is for an    *)
(* appointment to be requested, a move sets no status, and a status change *)
(* nothing else.                                                           *)

Asked(r, step, t) ==
    /\ step # "idle" => t.kind \in May[r]
    /\ step = "restaff" => t.kind = "move"
    /\ step = "auth" => t.kind = "status"
    /\ t.kind = "book" => t.new.status = "requested"
    /\ t.kind = "move" /\ step \in {"restaff", "write"} => t.set.status = Null
    /\ t.kind = "status" /\ step \in {"auth", "write"} =>
          t.set.staff = Null /\ t.set.start = Null

IAsked == IInv /\ \A r \in Request : Asked(r, pc[r], tx[r])

(* What an update is about to make of the row as it is now: a move leaves  *)
(* its status, a status change takes a step of the transition table and    *)
(* leaves the window.                                                      *)
Judged(step, t) ==
    /\ t.kind = "move" /\ step \in {"placed", "passed"} =>
          t.new.status = appts[t.appt].status
    /\ t.kind = "status" /\ step \in {"auth", "write"} =>
          t.set.status \in LegalTransitions[appts[t.appt].status]
    /\ t.kind = "status" /\ step \in {"placed", "passed"} =>
          /\ t.new.status \in LegalTransitions[appts[t.appt].status]
          /\ t.new.staff = appts[t.appt].staff
          /\ t.new.start = appts[t.appt].start

AllJudged == \A r \in Request : Judged(pc[r], tx[r])

(* How a step of a request moves it on. *)
Moves(r, step, t) == pc' = [pc EXCEPT ![r] = step] /\ tx' = [tx EXCEPT ![r] = t]

(* What a handler makes of its request while it writes no row. *)
Handles(r) ==
    /\ UNCHANGED appts
    /\ \E step, t : Moves(r, step, t) /\ Asked(r, step, t) /\ (AllJudged => Judged(step, t))

LEMMA NoTxAsked == \A r : Asked(r, "idle", NoTx) /\ Judged("idle", NoTx)
BY DEF Asked, Judged, NoTx

LEMMA InitJudged == Init => IAsked /\ AllJudged
<1> SUFFICES ASSUME Init PROVE IAsked /\ AllJudged
  OBVIOUS
<1>1. \A r \in Request : pc[r] = "idle" /\ tx[r] = NoTx
  BY DEF Init
<1> QED
  BY <1>1, InitInv, NoTxAsked DEF AllJudged, IAsked, Asked, Judged

LEMMA ReplyHandles ==
    ASSUME NEW r \in Request, NEW code, Reply(r, code), UNCHANGED appts
    PROVE  Handles(r)
BY NoTxAsked DEF Reply, Moves, Handles

LEMMA GoHandles ==
    ASSUME NEW r \in Request, NEW step, NEW t, Go(r, step, t), UNCHANGED appts,
           Asked(r, step, t), AllJudged => Judged(step, t)
    PROVE  Handles(r)
BY DEF Go, Moves, Handles

(* The same transaction, one step further. *)
LEMMA GoOnHandles ==
    ASSUME IAsked, NEW r \in Request, NEW step, Go(r, step, tx[r]), UNCHANGED appts,
           \/ step \in {"lock", "check", "insert", "placed"}
                  /\ pc[r] \in {"resolve", "lock", "judge", "insert"}
           \/ step = "passed" /\ pc[r] = "placed"
           \/ step = "write" /\ pc[r] \in {"auth", "restaff"}
    PROVE  Handles(r)
<1>1. /\ Asked(r, pc[r], tx[r]) /\ (AllJudged => Judged(pc[r], tx[r]))
      /\ pc[r] \in {"resolve", "lock", "judge", "insert"} => tx[r].kind = "book"
  BY DEF IAsked, AllJudged, IInv, Carries
<1>2. Asked(r, step, tx[r])
  BY <1>1 DEF Asked
<1>3. AllJudged => Judged(step, tx[r])
  BY <1>1 DEF Judged, Asked
<1> QED
  BY <1>2, <1>3, GoHandles

LEMMA ArriveHandles ==
    ASSUME IAsked, NEW r \in Request, Arrive(r)
    PROVE  Handles(r)
<1>1. UNCHANGED appts
  BY DEF Arrive, BookArrive, MoveArrive, StatusArrive
<1>2. CASE BookArrive(r)
  <2>1. PICK a \in Appointment, s \in Staff, start \in Start, dur \in Duration :
          IF staff[s] # "active"
          THEN Reply(r, "refused")
          ELSE Go(r, "resolve",
                  [NoTx EXCEPT
                      !.kind = "book", !.appt = a,
                      !.new = [status |-> "requested", staff |-> s,
                               start |-> start, dur |-> dur]])
    BY <1>2 DEF BookArrive
  <2> DEFINE t == [NoTx EXCEPT
                      !.kind = "book", !.appt = a,
                      !.new = [status |-> "requested", staff |-> s,
                               start |-> start, dur |-> dur]]
  <2>2. t.kind = "book" /\ t.new.status = "requested" /\ "book" \in May[r]
    BY <1>2 DEF NoTx, BookArrive, Receives
  <2>3. Reply(r, "refused") \/ Go(r, "resolve", t)
    BY <2>1
  <2> HIDE DEF t
  <2>4. Asked(r, "resolve", t) /\ Judged("resolve", t)
    BY <2>2 DEF Asked, Judged
  <2> QED
    BY <1>1, <2>3, <2>4, ReplyHandles, GoHandles
<1>3. CASE MoveArrive(r)
  <2>1. CASE Reply(r, "refused") \/ Reply(r, "done")
    BY <1>1, <2>1, ReplyHandles
  <2>2. CASE ~(Reply(r, "refused") \/ Reply(r, "done"))
    <3>1. PICK a \in Appointment :
            \E start \in Start, s \in Staff :
                 Go(r, IF s = appts[a].staff THEN "write" ELSE "restaff",
                    [NoTx EXCEPT
                       !.kind = "move", !.appt = a,
                       !.set = [status |-> Changed(appts[a].status, appts[a].status),
                                staff  |-> Changed(appts[a].staff, s),
                                start  |-> Changed(appts[a].start, start)]])
      BY <1>3, <2>2 DEF MoveArrive
    <3>2. PICK start \in Start, s \in Staff :
            Go(r, IF s = appts[a].staff THEN "write" ELSE "restaff",
               [NoTx EXCEPT
                  !.kind = "move", !.appt = a,
                  !.set = [status |-> Changed(appts[a].status, appts[a].status),
                           staff  |-> Changed(appts[a].staff, s),
                           start  |-> Changed(appts[a].start, start)]])
      BY <3>1
    <3> DEFINE step == IF s = appts[a].staff THEN "write" ELSE "restaff"
               set == [status |-> Changed(appts[a].status, appts[a].status),
                       staff  |-> Changed(appts[a].staff, s),
                       start  |-> Changed(appts[a].start, start)]
               t == [NoTx EXCEPT !.kind = "move", !.appt = a, !.set = set]
    <3>3. set.status = Null
      BY DEF Changed
    <3>4. t.kind = "move" /\ t.set = set /\ "move" \in May[r]
      <4> HIDE DEF set
      <4> QED
        BY <1>3 DEF NoTx, MoveArrive, Receives
    <3>5. step \in {"write", "restaff"} /\ Go(r, step, t)
      BY <3>2
    <3> HIDE DEF step, set, t
    <3>6. Asked(r, step, t) /\ Judged(step, t)
      BY <3>3, <3>4, <3>5 DEF Asked, Judged
    <3> QED
      BY <1>1, <3>5, <3>6, GoHandles
  <2> QED
    BY <2>1, <2>2
<1>4. CASE StatusArrive(r)
  <2>1. CASE Reply(r, "refused")
    BY <1>1, <2>1, ReplyHandles
  <2>2. CASE ~Reply(r, "refused")
    <3>1. PICK a \in Appointment :
            /\ appts[a] # Null
            /\ \E status \in Status, by \in {Null, appts[a].staff} :
                 /\ MayFollow(appts[a].status, status)
                 /\ Go(r, IF by = Null THEN "write" ELSE "auth",
                       [NoTx EXCEPT
                          !.kind = "status", !.appt = a, !.by = by,
                          !.set = [NoPatch EXCEPT !.status = status]])
      BY <1>4, <2>2 DEF StatusArrive
    <3>2. PICK status \in Status, by \in {Null, appts[a].staff} :
            /\ MayFollow(appts[a].status, status)
            /\ Go(r, IF by = Null THEN "write" ELSE "auth",
                  [NoTx EXCEPT
                     !.kind = "status", !.appt = a, !.by = by,
                     !.set = [NoPatch EXCEPT !.status = status]])
      BY <3>1
    <3> DEFINE step == IF by = Null THEN "write" ELSE "auth"
               set == [NoPatch EXCEPT !.status = status]
               t == [NoTx EXCEPT !.kind = "status", !.appt = a, !.by = by, !.set = set]
    <3>3. set.status = status /\ set.staff = Null /\ set.start = Null
      BY DEF NoPatch
    <3>4. t.kind = "status" /\ t.appt = a /\ t.set = set /\ "status" \in May[r]
      <4> HIDE DEF set
      <4> QED
        BY <1>4 DEF NoTx, StatusArrive, Receives
    <3>5. step \in {"write", "auth"} /\ Go(r, step, t)
      BY <3>2
    <3> HIDE DEF step, set, t
    <3>6. Asked(r, step, t) /\ Judged(step, t)
      BY <3>2, <3>3, <3>4, <3>5 DEF Asked, Judged, MayFollow
    <3> QED
      BY <1>1, <3>5, <3>6, GoHandles
  <2> QED
    BY <2>1, <2>2
<1> QED
  BY <1>2, <1>3, <1>4 DEF Arrive

(* What was judged is what the new version makes of the row. *)
LEMMA PlaceHandles ==
    ASSUME IAsked, NEW r \in Request, Place(r)
    PROVE  Handles(r)
<1> DEFINE row == appts[tx[r].appt]
           new == Merge(row, tx[r].set)
           t == [tx[r] EXCEPT !.new = new, !.set = NoPatch]
<1>1. pc[r] = "write" /\ Go(r, "placed", t) /\ UNCHANGED appts
  BY DEF Place
<1>2. /\ tx[r] \in Tx /\ Asked(r, "write", tx[r]) /\ (AllJudged => Judged("write", tx[r]))
      /\ tx[r].kind \in {"move", "status"} /\ tx[r].appt \in Appointment
  BY <1>1 DEF IAsked, AllJudged, IInv, TypeOK, Carries, Kind
<1>3. row \in Row
  BY <1>2 DEF IAsked, IInv, TypeOK, KeysApart
<1>4. /\ new.status = IF tx[r].set.status = Null THEN row.status ELSE tx[r].set.status
      /\ new.staff = IF tx[r].set.staff = Null THEN row.staff ELSE tx[r].set.staff
      /\ new.start = IF tx[r].set.start = Null THEN row.start ELSE tx[r].set.start
  BY <1>3 DEF Merge, Row
<1> HIDE DEF new
<1>5. t.kind = tx[r].kind /\ t.appt = tx[r].appt /\ t.new = new
  BY <1>2 DEF Tx
<1> HIDE DEF t
<1>6. Asked(r, "placed", t)
  BY <1>2, <1>5 DEF Asked
<1>7. AllJudged => Judged("placed", t)
  <2> SUFFICES ASSUME AllJudged PROVE Judged("placed", t)
    OBVIOUS
  <2>1. CASE tx[r].kind = "move"
    BY <1>2, <1>4, <1>5, <2>1 DEF Judged, Asked
  <2>2. CASE tx[r].kind = "status"
    <3>1. tx[r].set.status \in LegalTransitions[row.status]
      BY <1>2, <2>2 DEF Judged
    <3>2. \A old \in Status : Null \notin LegalTransitions[old]
      BY NullAssumption DEF LegalTransitions, Status
    <3>3. tx[r].set.status # Null
      BY <1>3, <3>1, <3>2 DEF Row
    <3> QED
      BY <1>2, <1>4, <1>5, <2>2, <3>1, <3>3 DEF Judged, Asked
  <2> QED
    BY <1>2, <2>1, <2>2
<1> QED
  BY <1>1, <1>6, <1>7, GoHandles

(* The query's matches are noted; what was asked for stays. *)
LEMMA CheckHandles ==
    ASSUME IAsked, NEW r \in Request, BookCheck(r)
    PROVE  Handles(r)
<1> DEFINE found == {a \in Appointment : Busy(tx[r].new, appts[a])}
           step == IF found = {} THEN "insert" ELSE "judge"
           t == [tx[r] EXCEPT !.seen = found]
<1>1. pc[r] = "check" /\ Go(r, step, t) /\ UNCHANGED appts
  BY DEF BookCheck
<1>2. step \in {"insert", "judge"}
  OBVIOUS
<1>3. tx[r] \in Tx /\ tx[r].kind = "book" /\ Asked(r, pc[r], tx[r])
  BY <1>1 DEF IAsked, IInv, TypeOK, Carries
<1> HIDE DEF found, step
<1>4. t.kind = "book" /\ t.new = tx[r].new
  BY <1>3 DEF Tx
<1> HIDE DEF t
<1>5. Asked(r, step, t) /\ Judged(step, t)
  BY <1>1, <1>2, <1>3, <1>4 DEF Asked, Judged
<1> QED
  BY <1>1, <1>5, GoHandles

(* Whatever a request does, it commits a row or handles its own. *)
LEMMA StepHandles ==
    ASSUME IAsked, NEW r \in Request,
           Arrive(r) \/ Run(r) \/ Acquire(r) \/ Deadlock(r) \/ Abort(r), ~Commit(r)
    PROVE  Handles(r)
<1>1. CASE Arrive(r)
  BY <1>1, ArriveHandles
<1>2. CASE StatusBlocked(r) \/ Touch(r) \/ ExclusionFail(r) \/ Deadlock(r) \/ Abort(r)
  BY <1>2, ReplyHandles DEF StatusBlocked, Touch, ExclusionFail, Deadlock, Abort
<1>3. CASE Run(r)
  BY <1>2, <1>3, ReplyHandles, GoOnHandles, CheckHandles
     DEF Run, BookResolve, BookInsert, MoveStaff, StatusAuth
<1>4. CASE Acquire(r)
  BY <1>2, <1>4, ReplyHandles, GoOnHandles, PlaceHandles
     DEF Acquire, BookLock, BookJudge, ExclusionPass
<1> QED
  BY <1>1, <1>2, <1>3, <1>4

LEMMA HandlesAsked ==
    ASSUME IAsked, NEW r \in Request, Handles(r), IInv'
    PROVE  IAsked' /\ (AllJudged => AllJudged')
<1>1. PICK step, t : Moves(r, step, t) /\ Asked(r, step, t) /\ (AllJudged => Judged(step, t))
  BY DEF Handles
<1>2. /\ pc'[r] = step /\ tx'[r] = t
      /\ \A q \in Request \ {r} : pc'[q] = pc[q] /\ tx'[q] = tx[q]
  BY <1>1 DEF Moves, IAsked, IInv, TypeOK
<1>3. IAsked'
  BY <1>1, <1>2 DEF IAsked, Asked
<1>4. AllJudged => AllJudged'
  BY <1>1, <1>2 DEF AllJudged, Judged, Handles
<1> QED
  BY <1>3, <1>4

-----------------------------------------------------------------------------
(* What the handlers are asked for is inductive without further            *)
(* assumptions; that what they judged still holds when they write is not.  *)

LEMMA ReplyAsked ==
    ASSUME IAsked, NEW r \in Request, NEW code, Reply(r, code), IInv'
    PROVE  IAsked'
<1>1. /\ pc'[r] = "idle" /\ tx'[r] = NoTx
      /\ \A q \in Request \ {r} : pc'[q] = pc[q] /\ tx'[q] = tx[q]
  BY DEF Reply, IAsked, IInv, TypeOK
<1>2. \A q \in Request : Asked(q, pc'[q], tx'[q])
  BY <1>1, NoTxAsked DEF IAsked
<1> QED
  BY <1>2 DEF IAsked, Asked

LEMMA NextAsked == IAsked /\ [Next]_vars => IAsked'
<1> SUFFICES ASSUME IAsked, [Next]_vars PROVE IAsked'
  OBVIOUS
<1>1. IInv'
  BY NextInv DEF IAsked
<1>2. CASE UNCHANGED <<pc, tx>>
  BY <1>1, <1>2 DEF IAsked, Asked
<1>3. CASE ~UNCHANGED <<pc, tx>>
  <2>1. PICK r \in Request : Arrive(r) \/ Run(r) \/ Acquire(r) \/ Deadlock(r) \/ Abort(r)
    BY <1>3 DEF Next, vars, StaffUpdate, StaffDelete
  <2>2. CASE Commit(r)
    BY <1>1, <2>2, ReplyAsked DEF Commit
  <2>3. CASE ~Commit(r)
    BY <1>1, <2>1, <2>3, StepHandles, HandlesAsked
  <2> QED
    BY <2>2, <2>3
<1> QED
  BY <1>2, <1>3

LEMMA InvarianceAsked == Spec => []IAsked
BY InitJudged, NextAsked, PTL DEF Spec

-----------------------------------------------------------------------------
(* Windows that overlap share a start.                                     *)

LEMMA OverlapCovered ==
    ASSUME NEW x \in Row, NEW y \in Row, Overlaps(x, y),
           HoldsSlot(x.status), HoldsSlot(y.status)
    PROVE  \E t \in Start : Covers(x, t) /\ Covers(y, t) /\ x.staff = y.staff
<1> DEFINE t == IF x.start <= y.start THEN y.start ELSE x.start
<1>1. /\ x.start \in Start /\ y.start \in Start
      /\ x.dur \in Duration /\ y.dur \in Duration
  BY DEF Row
<1>2. /\ x.start \in Int /\ y.start \in Int
      /\ x.dur \in Int /\ y.dur \in Int /\ x.dur > 0 /\ y.dur > 0
  <2>1. \A m \in Start : m \in Int
    BY StartAssumption
  <2>2. \A d \in Duration : d \in Int /\ d > 0
    BY DurationAssumption
  <2> QED
    BY <1>1, <2>1, <2>2
<1>3. /\ t \in Start
      /\ x.start <= t /\ t < x.start + x.dur
      /\ y.start <= t /\ t < y.start + y.dur
  BY <1>1, <1>2 DEF Overlaps
<1>4. x # Null /\ y # Null /\ x.staff = y.staff
  BY NullAssumption DEF Overlaps
<1> QED
  BY <1>3, <1>4 DEF Covers

(* Only the overlap query and the exclusion constraint answer "conflict",  *)
(* and both only to a booking.                                             *)
LEMMA WhoConflicts ==
    ASSUME IAsked, [Next]_vars, NEW r \in Request,
           pc[r] # "idle", pc'[r] = "idle", answer'[r] = "conflict"
    PROVE  \/ BookJudge(r) /\ \E a \in tx[r].seen : Busy(tx[r].new, appts[a])
           \/ ExclusionFail(r) /\ tx[r].kind = "book"
<1>1. pc \in [Request -> Step] /\ answer \in [Request -> Answer]
  BY DEF IAsked, IInv, TypeOK
<1>2. PICK q \in Request : Arrive(q) \/ Run(q) \/ Acquire(q) \/ Deadlock(q) \/ Abort(q)
  BY DEF Next, vars, StaffUpdate, StaffDelete
<1>3. \A p \in Request : \A step \in Step : \A t : Go(p, step, t) => answer'[p] # "conflict"
  BY <1>1 DEF Go
<1>4. \A p \in Request : \A code : Reply(p, code) => answer'[p] = code
  BY <1>1 DEF Reply
<1>5. q = r
  <2>1. \A step, t : Go(q, step, t) => q = r \/ pc'[r] = pc[r]
    BY <1>1 DEF Go
  <2>2. \A code : Reply(q, code) => q = r \/ pc'[r] = pc[r]
    BY <1>1 DEF Reply
  <2> QED
    BY <1>2, <2>1, <2>2 DEF Arrive, Run, Acquire, Deadlock, Abort, BookArrive, BookResolve,
       BookLock, BookCheck, BookJudge, BookInsert, MoveArrive, MoveStaff, StatusArrive, StatusAuth,
       StatusBlocked, Touch, Place, ExclusionPass, ExclusionFail, Commit
<1>6. ~Arrive(r)
  BY DEF Arrive, BookArrive, MoveArrive, StatusArrive, Receives
<1>7. ~Run(r) /\ ~Deadlock(r) /\ ~Abort(r)
  BY <1>3, <1>4 DEF Run, Deadlock, Abort, BookResolve, BookCheck, BookInsert, MoveStaff,
     StatusAuth, StatusBlocked, Step
<1>8. ~BookLock(r) /\ ~Place(r) /\ ~Touch(r) /\ ~ExclusionPass(r) /\ ~Commit(r)
  BY <1>3, <1>4 DEF BookLock, Place, Touch, ExclusionPass, Commit, Step
<1>9. BookJudge(r) \/ ExclusionFail(r)
  BY <1>2, <1>5, <1>6, <1>7, <1>8 DEF Acquire
<1>10. CASE BookJudge(r)
  BY <1>3, <1>10 DEF BookJudge, Step
<1>11. CASE ExclusionFail(r)
  BY <1>4, <1>11 DEF ExclusionFail
<1> QED
  BY <1>9, <1>10, <1>11

(* A 409 is honest: the staff member has a committed appointment that      *)
(* still holds its slot in the window asked for (create_appointment and    *)
(* appointments_no_overlap).                                               *)
THEOREM ConflictsAreReal == Spec => ConflictIsReal
<1>1. IAsked /\ [Next]_vars =>
        [\A r \in Request :
          (pc[r] # "idle" /\ pc'[r] = "idle" /\ answer'[r] = "conflict") =>
              \E a \in Appointment, t \in Start :
                  /\ Covers(appts[a], t) /\ Covers(tx[r].new, t)
                  /\ appts[a].staff = tx[r].new.staff]_vars
  <2> SUFFICES ASSUME IAsked, [Next]_vars, NEW r \in Request,
                      pc[r] # "idle", pc'[r] = "idle", answer'[r] = "conflict"
               PROVE  \E a \in Appointment, t \in Start :
                         /\ Covers(appts[a], t) /\ Covers(tx[r].new, t)
                         /\ appts[a].staff = tx[r].new.staff
    OBVIOUS
  <2>1. tx[r].new \in Row /\ (tx[r].kind = "book" => tx[r].new.status = "requested")
    BY WhoConflicts DEF IAsked, IInv, Carries, Asked, BookJudge, ExclusionFail, InFlight
  <2>2. PICK a \in Appointment :
          /\ appts[a] # Null /\ Overlaps(tx[r].new, appts[a])
          /\ HoldsSlot(tx[r].new.status) /\ HoldsSlot(appts[a].status)
    <3>1. CASE BookJudge(r) /\ \E a \in tx[r].seen : Busy(tx[r].new, appts[a])
      <4>1. tx[r].new.status = "requested"
        BY <2>1, <3>1 DEF BookJudge, IAsked, IInv, Carries
      <4>2. tx[r].seen \subseteq Appointment
        BY DEF IAsked, IInv, TypeOK, Tx
      <4> QED
        BY <3>1, <4>1, <4>2 DEF Busy, ActiveStatuses, HoldsSlot
    <3>2. CASE ExclusionFail(r) /\ tx[r].kind = "book"
      BY <3>2 DEF ExclusionFail, Refused, Excluded
    <3> QED
      BY <3>1, <3>2, WhoConflicts
  <2>3. appts[a] \in Row
    BY <2>2 DEF IAsked, IInv, TypeOK
  <2> QED
    BY <2>1, <2>2, <2>3, OverlapCovered
<1> QED
  BY <1>1, InvarianceAsked, PTL DEF Spec, ConflictIsReal

-----------------------------------------------------------------------------
(* What one request has judged, another can outdate.  Where one request at *)
(* a time changes statuses, the row a commit replaces is still the row its *)
(* request read.                                                           *)

AloneOnStatus ==
    \A q, r \in Request : ("status" \in May[q] /\ "status" \in May[r]) => q = r

IJudged == IAsked /\ AllJudged

LEMMA CommitJudged ==
    ASSUME AloneOnStatus, IJudged, NEW r \in Request, Commit(r)
    PROVE  AllJudged'
<1> DEFINE a == tx[r].appt
<1>1. /\ pc[r] = "passed" /\ a \in Appointment
      /\ appts' = [appts EXCEPT ![a] = tx[r].new]
      /\ pc'[r] = "idle" /\ tx'[r] = NoTx
      /\ \A q \in Request \ {r} : pc'[q] = pc[q] /\ tx'[q] = tx[q]
  BY DEF Commit, Reply, IJudged, IAsked, IInv, TypeOK, Carries, InFlight
<1>2. appts'[a] = tx[r].new /\ \A b \in Appointment \ {a} : appts'[b] = appts[b]
  BY <1>1 DEF IJudged, IAsked, IInv, TypeOK
<1>3. SUFFICES ASSUME NEW q \in Request \ {r} PROVE Judged(pc[q], tx[q])'
  <2>1. Judged(pc[r], tx[r])'
    BY <1>1 DEF Judged, NoTx
  <2> QED
    BY <1>3, <2>1 DEF AllJudged
<1>4. Judged(pc[q], tx[q]) /\ (tx[q].kind \in Kind => tx[q].appt \in Appointment)
  BY DEF IJudged, AllJudged, IAsked, IInv, Carries, Kind
<1>5. CASE tx[q].appt # a
  BY <1>1, <1>2, <1>4, <1>5 DEF Judged, Kind
<1>6. CASE tx[q].appt = a
  <2>1. ~InFlight(q)
    BY <1>1, <1>6 DEF IJudged, IAsked, IInv, OneWriterPerRow, InFlight
  <2>2. SUFFICES ASSUME tx[q].kind = "status", pc[q] \in {"auth", "write"}
                 PROVE  tx[q].set.status \in LegalTransitions[tx[r].new.status]
    BY <1>1, <1>2, <1>6, <2>1 DEF Judged, InFlight
  <2>3. tx[q].set.status \in LegalTransitions[appts[a].status]
    BY <1>4, <1>6, <2>2 DEF Judged
  <2>4. tx[r].kind = "move"
    <3>1. tx[r].kind \in Kind /\ tx[r].kind # "book"
      BY <1>1, <1>6 DEF IJudged, IAsked, IInv, Carries, KeysApart
    <3>2. tx[r].kind \in May[r] /\ "status" \in May[q]
      BY <1>1, <2>2 DEF IJudged, IAsked, Asked
    <3> QED
      BY <3>1, <3>2 DEF Kind, AloneOnStatus
  <2>5. tx[r].new.status = appts[a].status
    BY <1>1, <2>4 DEF IJudged, AllJudged, Judged
  <2> QED
    BY <2>3, <2>5
<1> QED
  BY <1>5, <1>6

LEMMA NextJudged == AloneOnStatus /\ IJudged /\ [Next]_vars => IJudged'
<1> SUFFICES ASSUME AloneOnStatus, IJudged, [Next]_vars PROVE IJudged'
  OBVIOUS
<1>1. IAsked' /\ IInv'
  BY NextAsked DEF IJudged, IAsked
<1>2. CASE UNCHANGED <<pc, tx>>
  <2>1. UNCHANGED appts
    <3>1. \A r \in Request : ~Commit(r)
      BY <1>2 DEF Commit, Reply, IJudged, IAsked, IInv, TypeOK
    <3> QED
      BY <3>1, OnlyCommitWrites
  <2> QED
    BY <1>1, <1>2, <2>1 DEF IJudged, AllJudged, Judged
<1>3. CASE ~UNCHANGED <<pc, tx>>
  <2>1. PICK r \in Request : Arrive(r) \/ Run(r) \/ Acquire(r) \/ Deadlock(r) \/ Abort(r)
    BY <1>3 DEF Next, vars, StaffUpdate, StaffDelete
  <2>2. CASE Commit(r)
    BY <1>1, <2>2, CommitJudged DEF IJudged
  <2>3. CASE ~Commit(r)
    BY <1>1, <2>1, <2>3, StepHandles, HandlesAsked DEF IJudged
  <2> QED
    BY <2>2, <2>3
<1> QED
  BY <1>2, <1>3

LEMMA InvarianceJudged ==
    ASSUME AloneOnStatus
    PROVE  Spec => []IJudged
<1>1. Init => IJudged
  BY InitJudged DEF IJudged
<1>2. IJudged /\ [Next]_vars => IJudged'
  BY NextJudged
<1> QED
  BY <1>1, <1>2, PTL DEF Spec

(* A committed appointment starts as requested, never disappears and only  *)
(* takes steps of the transition table, whatever bookings and moves run    *)
(* concurrently, where one request at a time changes statuses              *)
(* (transition_status, reschedule_appointment).                            *)
THEOREM LifecycleAlone == AloneOnStatus => (Spec => FollowsLifecycle)
<1> SUFFICES ASSUME AloneOnStatus PROVE Spec => FollowsLifecycle
  OBVIOUS
<1>1. IJudged /\ [Next]_vars =>
        [\A a \in Appointment :
          appts'[a] # appts[a] =>
              /\ appts'[a] # Null
              /\ IF appts[a] = Null
                 THEN appts'[a].status = "requested"
                 ELSE \/ appts'[a].status = appts[a].status
                      \/ appts'[a].status \in LegalTransitions[appts[a].status]]_vars
  <2> SUFFICES ASSUME IJudged, [Next]_vars, NEW a \in Appointment, appts'[a] # appts[a]
               PROVE  /\ appts'[a] # Null
                      /\ IF appts[a] = Null
                         THEN appts'[a].status = "requested"
                         ELSE \/ appts'[a].status = appts[a].status
                              \/ appts'[a].status \in LegalTransitions[appts[a].status]
    OBVIOUS
  <2>1. PICK r \in Request : Commit(r)
    BY OnlyCommitWrites
  <2>2. /\ pc[r] = "passed" /\ appts' = [appts EXCEPT ![tx[r].appt] = tx[r].new]
        /\ tx[r].kind \in Kind /\ tx[r].new \in Row
    BY <2>1 DEF Commit, IJudged, IAsked, IInv, Carries, InFlight
  <2>3. a = tx[r].appt /\ appts'[a] = tx[r].new
    BY <2>2 DEF IJudged, IAsked, IInv, TypeOK
  <2>4. appts'[a] # Null
    BY <2>2, <2>3, NullAssumption
  <2>5. CASE tx[r].kind = "book"
    BY <2>2, <2>3, <2>4, <2>5 DEF IJudged, IAsked, Asked, IInv, KeysApart
  <2>6. CASE tx[r].kind \in {"move", "status"}
    BY <2>2, <2>3, <2>4, <2>6 DEF IJudged, AllJudged, Judged, IAsked, IInv, KeysApart
  <2> QED
    BY <2>2, <2>5, <2>6 DEF Kind
<1> QED
  BY <1>1, InvarianceJudged, PTL DEF Spec, FollowsLifecycle

-----------------------------------------------------------------------------
(* The schedule lock.  A move takes no lock on the new window's staff      *)
(* member before it writes; where nothing is moved, the lock and the       *)
(* overlap query keep a booking's window free until it commits.            *)

NobodyMoves == \A r \in Request : "move" \notin May[r]

(* What a booking knows once it has the lock, and once it has looked.      *)
Locked(r, step, t) ==
    t.kind = "book" =>
        /\ step \in {"check", "judge", "insert", "placed", "passed"} =>
              \A q \in Request \ {r} : ~HoldsStaff(q, t.new.staff)
        /\ step = "judge" =>
              \A a \in Appointment : Busy(t.new, appts[a]) => a \in t.seen
        /\ step \in {"insert", "placed", "passed"} =>
              \A a \in Appointment : ~Busy(t.new, appts[a])

AllLocked == \A r \in Request : Locked(r, pc[r], tx[r])

ILocked == IJudged /\ AllLocked

LEMMA InitLocked == Init => ILocked
<1> SUFFICES ASSUME Init PROVE ILocked
  OBVIOUS
<1>1. \A r \in Request : tx[r].kind = "none"
  BY DEF Init, NoTx
<1> QED
  BY <1>1, InitJudged DEF ILocked, IJudged, AllLocked, Locked

(* The lock excludes both ways. *)
LEMMA StaysLocked ==
    ASSUME ILocked, NEW r \in Request, NEW step, NEW t, Moves(r, step, t),
           Locked(r, step, t), UNCHANGED appts
    PROVE  AllLocked'
<1>1. /\ pc'[r] = step /\ tx'[r] = t
      /\ \A q \in Request \ {r} : pc'[q] = pc[q] /\ tx'[q] = tx[q]
  BY DEF Moves, ILocked, IJudged, IAsked, IInv, TypeOK
<1>2. \A q \in Request : Locked(q, pc[q], tx[q])
  BY DEF ILocked, AllLocked
<1>3. \A q \in Request \ {r} :
        (/\ t.kind = "book" /\ step \in {"check", "judge", "insert", "placed", "passed"}
         /\ tx[q].kind = "book"
         /\ pc[q] \in {"check", "judge", "insert", "placed", "passed"})
            => tx[q].new.staff # t.new.staff
  BY DEF Locked, HoldsStaff
<1>4. Locked(r, pc[r], tx[r])'
  BY <1>1 DEF Locked, HoldsStaff
<1>5. \A q \in Request \ {r} : Locked(q, pc[q], tx[q])'
  BY <1>1, <1>2, <1>3 DEF Locked, HoldsStaff
<1> QED
  BY <1>4, <1>5 DEF AllLocked

LEMMA ReplyLocked ==
    ASSUME ILocked, NEW r \in Request, NEW code, Reply(r, code), UNCHANGED appts
    PROVE  AllLocked'
<1>1. Moves(r, "idle", NoTx) /\ Locked(r, "idle", NoTx)
  BY DEF Reply, Moves, Locked, NoTx
<1> QED
  BY <1>1, StaysLocked

LEMMA GoLocked ==
    ASSUME ILocked, NEW r \in Request, NEW step, NEW t, Go(r, step, t),
           Locked(r, step, t), UNCHANGED appts
    PROVE  AllLocked'
<1>1. Moves(r, step, t)
  BY DEF Go, Moves
<1> QED
  BY <1>1, StaysLocked

LEMMA ArriveLocked ==
    ASSUME ILocked, NEW r \in Request, Arrive(r)
    PROVE  AllLocked'
<1>1. UNCHANGED appts
  BY DEF Arrive, BookArrive, MoveArrive, StatusArrive
<1>2. CASE Reply(r, "refused") \/ Reply(r, "done")
  BY <1>1, <1>2, ReplyLocked
<1>3. CASE ~(Reply(r, "refused") \/ Reply(r, "done"))
  <2>1. CASE BookArrive(r)
    <3>1. \E t : Go(r, "resolve", t)
      BY <1>3, <2>1 DEF BookArrive
    <3> QED
      BY <1>1, <3>1, GoLocked DEF Locked
  <2>2. CASE MoveArrive(r) \/ StatusArrive(r)
    <3>1. \E step \in {"write", "restaff", "auth"} : \E t : Go(r, step, t)
      <4>1. CASE MoveArrive(r)
        BY <1>3, <4>1 DEF MoveArrive
      <4>2. CASE StatusArrive(r)
        BY <1>3, <4>2 DEF StatusArrive
      <4> QED
        BY <2>2, <4>1, <4>2
    <3> QED
      BY <1>1, <3>1, GoLocked DEF Locked
  <2> QED
    BY <2>1, <2>2 DEF Arrive
<1> QED
  BY <1>2, <1>3

LEMMA StepLocked ==
    ASSUME ILocked, NEW r \in Request,
           Arrive(r) \/ Run(r) \/ Acquire(r) \/ Deadlock(r) \/ Abort(r), ~Commit(r)
    PROVE  AllLocked'
<1>1. Locked(r, pc[r], tx[r])
  BY DEF ILocked, AllLocked
<1>2. CASE Arrive(r)
  BY <1>2, ArriveLocked
<1>3. CASE StatusBlocked(r) \/ Touch(r) \/ ExclusionFail(r) \/ Deadlock(r) \/ Abort(r)
  BY <1>3, ReplyLocked DEF StatusBlocked, Touch, ExclusionFail, Deadlock, Abort
<1>4. CASE Run(r)
  <2>1. CASE BookResolve(r)
    BY <2>1, ReplyLocked, GoLocked DEF BookResolve, Locked
  <2>2. CASE BookInsert(r)
    BY <1>1, <2>2, GoLocked DEF BookInsert, Locked
  <2>3. CASE MoveStaff(r) \/ StatusAuth(r)
    BY <2>3, ReplyLocked, GoLocked DEF MoveStaff, StatusAuth, Locked
  <2>4. CASE BookCheck(r)
    <3> DEFINE found == {a \in Appointment : Busy(tx[r].new, appts[a])}
               step == IF found = {} THEN "insert" ELSE "judge"
               t == [tx[r] EXCEPT !.seen = found]
    <3>1. pc[r] = "check" /\ Go(r, step, t) /\ UNCHANGED appts
      BY <2>4 DEF BookCheck
    <3>2. t.kind = tx[r].kind /\ t.new = tx[r].new /\ t.seen = found
      BY DEF ILocked, IJudged, IAsked, IInv, TypeOK, Tx
    <3>3. \/ step = "judge" /\ \A a \in Appointment : Busy(t.new, appts[a]) => a \in t.seen
          \/ step = "insert" /\ \A a \in Appointment : ~Busy(t.new, appts[a])
      BY <3>2
    <3> HIDE DEF step, t
    <3>4. Locked(r, step, t)
      BY <1>1, <3>1, <3>2, <3>3 DEF Locked
    <3> QED
      BY <3>1, <3>4, GoLocked
  <2> QED
    BY <1>3, <1>4, <2>1, <2>2, <2>3, <2>4 DEF Run
<1>5. CASE Acquire(r)
  <2>1. CASE BookLock(r)
    <3>1. Go(r, "check", tx[r]) /\ UNCHANGED appts
      BY <2>1 DEF BookLock
    <3>2. \A q \in Request \ {r} : ~HoldsStaff(q, tx[r].new.staff)
      BY <2>1 DEF BookLock, WaitsOn
    <3> QED
      BY <3>1, <3>2, GoLocked DEF Locked
  <2>2. CASE BookJudge(r)
    <3>1. CASE Reply(r, "conflict")
      BY <2>2, <3>1, ReplyLocked DEF BookJudge
    <3>2. CASE ~Reply(r, "conflict")
      <4>1. /\ pc[r] = "judge" /\ Go(r, "insert", tx[r]) /\ UNCHANGED appts
            /\ \A a \in tx[r].seen : ~Busy(tx[r].new, appts[a])
        BY <2>2, <3>2 DEF BookJudge
      <4> QED
        BY <1>1, <4>1, GoLocked DEF Locked
    <3> QED
      BY <3>1, <3>2
  <2>3. CASE Place(r)
    <3>1. PICK t : Go(r, "placed", t) /\ t.kind = tx[r].kind
      <4> DEFINE u == [tx[r] EXCEPT !.new = Merge(appts[tx[r].appt], tx[r].set), !.set = NoPatch]
      <4>1. u.kind = tx[r].kind
        BY DEF ILocked, IJudged, IAsked, IInv, TypeOK, Tx
      <4>2. Go(r, "placed", u)
        BY <2>3 DEF Place
      <4> HIDE DEF u
      <4> QED
        BY <4>1, <4>2
    <3>2. pc[r] = "write" /\ tx[r].kind # "book" /\ UNCHANGED appts
      BY <2>3 DEF Place, ILocked, IJudged, IAsked, IInv, Carries
    <3> QED
      BY <3>1, <3>2, GoLocked DEF Locked
  <2>4. CASE ExclusionPass(r)
    BY <1>1, <2>4, GoLocked DEF ExclusionPass, Locked
  <2> QED
    BY <1>3, <1>5, <2>1, <2>2, <2>3, <2>4 DEF Acquire
<1> QED
  BY <1>2, <1>3, <1>4, <1>5

(* The table has an active row wherever a transition leads to a slot.      *)
LEMMA StepKeepsBusy ==
    ASSUME NEW x, NEW y \in Row, NEW z \in Row,
           z.status \in LegalTransitions[y.status],
           z.staff = y.staff, z.start = y.start, z.dur = y.dur
    PROVE  /\ Overlaps(x, z) => Busy(x, y)
           /\ Overlaps(x, y) => Busy(x, y)
<1>1. y.status \in ActiveStatuses
  BY DEF Row, Status, LegalTransitions, ActiveStatuses
<1>2. Overlaps(x, z) <=> Overlaps(x, y)
  BY DEF Overlaps
<1> QED
  BY <1>1, <1>2, NullAssumption DEF Busy

(* What a status change in flight makes of its row. *)
LEMMA StatusInFlight ==
    ASSUME IJudged, NEW r \in Request, InFlight(r), tx[r].kind = "status"
    PROVE  LET old == appts[tx[r].appt]
               new == tx[r].new
           IN  /\ old \in Row /\ new \in Row
               /\ new.status \in LegalTransitions[old.status]
               /\ new.staff = old.staff /\ new.start = old.start /\ new.dur = old.dur
<1>1. tx[r].appt \in Appointment /\ tx[r].new \in Row
  BY DEF IJudged, IAsked, IInv, Carries, InFlight
<1>2. appts[tx[r].appt] \in Row
  BY <1>1 DEF IJudged, IAsked, IInv, KeysApart, TypeOK
<1>3. tx[r].new.dur = appts[tx[r].appt].dur
  BY DEF IJudged, IAsked, IInv, KeepsLength
<1> QED
  BY <1>1, <1>2, <1>3 DEF IJudged, AllJudged, Judged, InFlight

(* Where nothing moves, what is in flight is a booking or a status change. *)
LEMMA NoMoveInFlight ==
    ASSUME NobodyMoves, IJudged, NEW r \in Request, pc[r] # "idle"
    PROVE  tx[r].kind \in {"book", "status"}
BY DEF NobodyMoves, IJudged, IAsked, Asked, IInv, Carries, Kind

LEMMA CommitLocked ==
    ASSUME NobodyMoves, ILocked, NEW r \in Request, Commit(r)
    PROVE  AllLocked'
<1> DEFINE a == tx[r].appt
<1>1. /\ pc[r] = "passed" /\ a \in Appointment /\ tx[r].new \in Row
      /\ appts' = [appts EXCEPT ![a] = tx[r].new]
      /\ pc'[r] = "idle" /\ tx'[r] = NoTx
      /\ \A q \in Request \ {r} : pc'[q] = pc[q] /\ tx'[q] = tx[q]
  BY DEF Commit, Reply, ILocked, IJudged, IAsked, IInv, TypeOK, Carries, InFlight
<1>2. appts'[a] = tx[r].new /\ \A b \in Appointment \ {a} : appts'[b] = appts[b]
  BY <1>1 DEF ILocked, IJudged, IAsked, IInv, TypeOK
<1>3. Locked(r, pc[r], tx[r])'
  BY <1>1 DEF Locked, NoTx
<1>4. ASSUME NEW q \in Request \ {r} PROVE Locked(q, pc[q], tx[q])'
  <2>1. Locked(q, pc[q], tx[q])
    BY DEF ILocked, AllLocked
  <2>2. tx[q].kind = "book" /\ pc[q] \in {"judge", "insert", "placed", "passed"} =>
            (Busy(tx[q].new, tx[r].new) => Busy(tx[q].new, appts[a]))
    <3> SUFFICES ASSUME tx[q].kind = "book", pc[q] \in {"judge", "insert", "placed", "passed"},
                        Busy(tx[q].new, tx[r].new)
                 PROVE  Busy(tx[q].new, appts[a])
      OBVIOUS
    <3>1. ~HoldsStaff(r, tx[q].new.staff)
      BY <1>1, <2>1 DEF Locked
    <3>2. CASE tx[r].kind = "book"
      BY <1>1, <3>1, <3>2 DEF HoldsStaff, Busy, Overlaps
    <3>3. CASE tx[r].kind = "status"
      <4>1. Overlaps(tx[q].new, tx[r].new) => Busy(tx[q].new, appts[a])
        BY <1>1, <3>3, StatusInFlight, StepKeepsBusy DEF ILocked, InFlight
      <4> QED
        BY <4>1 DEF Busy
    <3> QED
      BY <1>1, <3>2, <3>3, NoMoveInFlight DEF ILocked
  <2>3. \A s : HoldsStaff(r, s)' => FALSE
    BY <1>1 DEF HoldsStaff, NoTx
  <2>4. \A p \in Request \ {r} : \A s : HoldsStaff(p, s)' => HoldsStaff(p, s)
    BY <1>1 DEF HoldsStaff
  <2> QED
    BY <1>1, <1>2, <2>1, <2>2, <2>3, <2>4 DEF Locked
<1> QED
  BY <1>3, <1>4 DEF AllLocked

LEMMA NextLocked == AloneOnStatus /\ NobodyMoves /\ ILocked /\ [Next]_vars => ILocked'
<1> SUFFICES ASSUME AloneOnStatus, NobodyMoves, ILocked, [Next]_vars PROVE ILocked'
  OBVIOUS
<1>1. IJudged'
  BY NextJudged DEF ILocked
<1>2. CASE UNCHANGED <<pc, tx>>
  <2>1. UNCHANGED appts
    <3>1. \A r \in Request : ~Commit(r)
      BY <1>2 DEF Commit, Reply, ILocked, IJudged, IAsked, IInv, TypeOK
    <3> QED
      BY <3>1, OnlyCommitWrites
  <2> QED
    BY <1>1, <1>2, <2>1 DEF ILocked, AllLocked, Locked, HoldsStaff
<1>3. CASE ~UNCHANGED <<pc, tx>>
  <2>1. PICK r \in Request : Arrive(r) \/ Run(r) \/ Acquire(r) \/ Deadlock(r) \/ Abort(r)
    BY <1>3 DEF Next, vars, StaffUpdate, StaffDelete
  <2>2. AllLocked'
    BY <2>1, StepLocked, CommitLocked
  <2> QED
    BY <1>1, <2>2 DEF ILocked
<1> QED
  BY <1>2, <1>3

LEMMA InvarianceLocked ==
    ASSUME AloneOnStatus, NobodyMoves
    PROVE  Spec => []ILocked
<1>1. ILocked /\ [Next]_vars => ILocked'
  BY NextLocked
<1> QED
  BY <1>1, InitLocked, PTL DEF Spec

(* Once a booking has found its window free, the window stays free of      *)
(* other active appointments until it commits or gives up, where nothing   *)
(* is moved and one request at a time changes statuses                     *)
(* (lock_staff_schedule, create_appointment).                              *)
THEOREM WindowHolds == (AloneOnStatus /\ NobodyMoves) => (Spec => []WindowStaysFree)
<1> SUFFICES ASSUME AloneOnStatus, NobodyMoves PROVE Spec => []WindowStaysFree
  OBVIOUS
<1>1. ILocked => WindowStaysFree
  BY DEF ILocked, AllLocked, Locked, WindowStaysFree
<1> QED
  BY <1>1, InvarianceLocked, PTL

-----------------------------------------------------------------------------
(* Waits.  A booking that has judged its window and a tuple in flight wait *)
(* for nobody; the overlap query and an update wait for those, and the     *)
(* schedule lock for bookings that have it.                                *)

LEMMA InFlightGoesOn ==
    ASSUME AloneOnStatus, NobodyMoves, ILocked, NEW r \in Request, InFlight(r)
    PROVE  WaitsOn(r) = {}
<1> SUFFICES ASSUME NEW q \in Request \ {r}, q \in WaitsOn(r) PROVE FALSE
  BY DEF WaitsOn
<1>1. tx[r].kind \in {"book", "status"}
  BY NoMoveInFlight DEF ILocked, InFlight
<1>2. ~ChangesStaff(r)
  BY <1>1 DEF ChangesStaff
<1>3. InFlight(q) /\ (\/ Excluded(tx[r].new, tx[q].new)
                      \/ Excluded(tx[r].new, appts[tx[q].appt]))
  BY <1>2 DEF WaitsOn, Rivals, InFlight
<1>4. tx[q].kind \in {"book", "status"} /\ tx[q].appt \in Appointment
  BY <1>3, NoMoveInFlight DEF ILocked, InFlight, IJudged, IAsked, IInv, Carries
<1>5. tx[q].kind = "book" => appts[tx[q].appt] = Null
  BY DEF ILocked, IJudged, IAsked, IInv, KeysApart
<1>6. CASE tx[r].kind = "book" /\ tx[q].kind = "book"
  <2>1. tx[q].new.staff # tx[r].new.staff
    BY <1>3, <1>6 DEF ILocked, AllLocked, Locked, HoldsStaff, InFlight
  <2> QED
    BY <1>3, <1>5, <1>6, <2>1 DEF Excluded, Overlaps
<1>7. CASE tx[r].kind = "book" /\ tx[q].kind = "status"
  <2>1. ~Busy(tx[r].new, appts[tx[q].appt])
    BY <1>4, <1>7 DEF ILocked, AllLocked, Locked, InFlight
  <2>2. ~Overlaps(tx[r].new, tx[q].new) /\ ~Overlaps(tx[r].new, appts[tx[q].appt])
    BY <1>3, <1>7, <2>1, StatusInFlight, StepKeepsBusy DEF ILocked
  <2> QED
    BY <1>3, <2>2 DEF Excluded
<1>8. CASE tx[r].kind = "status" /\ tx[q].kind = "book"
  <2>1. tx[r].appt \in Appointment
    BY DEF ILocked, IJudged, IAsked, IInv, Carries, InFlight
  <2>2. ~Busy(tx[q].new, appts[tx[r].appt])
    BY <1>3, <1>8, <2>1 DEF ILocked, AllLocked, Locked, InFlight
  <2>3. ~Overlaps(tx[q].new, tx[r].new)
    BY <1>8, <2>2, StatusInFlight, StepKeepsBusy DEF ILocked
  <2>4. Excluded(tx[q].new, tx[r].new)
    BY <1>3, <1>5, <1>8, ExcludedSymmetric DEF Excluded
  <2> QED
    BY <2>3, <2>4 DEF Excluded
<1>9. CASE tx[r].kind = "status" /\ tx[q].kind = "status"
  BY <1>3, <1>9 DEF AloneOnStatus, ILocked, IJudged, IAsked, Asked, InFlight
<1> QED
  BY <1>1, <1>4, <1>6, <1>7, <1>8, <1>9

(* A set that waits for nobody outside it, without r, frees r of cycles. *)
LEMMA OutOfCycle ==
    ASSUME NEW r \in Request, NEW S \in SUBSET Request, r \notin S,
           WaitsOn(r) \subseteq S, \A q \in S : WaitsOn(q) \subseteq S
    PROVE  ~InCycle(r)
BY DEF InCycle

(* Requests never wait for one another in a circle, where nothing is moved *)
(* and one request at a time changes statuses (lock_staff_schedule,        *)
(* create_appointment, transition_status).                                 *)
THEOREM NobodyWaitsInACircle == (AloneOnStatus /\ NobodyMoves) => (Spec => []NoWaitCycle)
<1> SUFFICES ASSUME AloneOnStatus, NobodyMoves PROVE Spec => []NoWaitCycle
  OBVIOUS
<1>1. ILocked => NoWaitCycle
  <2> SUFFICES ASSUME ILocked, NEW r \in Request PROVE ~InCycle(r)
    BY DEF NoWaitCycle
  <2> DEFINE going == {q \in Request : pc[q] \in {"insert", "placed", "passed"}}
             holding == {q \in Request : pc[q] \in {"check", "judge"}} \cup going
  <2>1. \A q \in going : WaitsOn(q) = {}
    BY InFlightGoesOn DEF InFlight, WaitsOn
  <2>2. \A q \in Request : pc[q] \in {"judge", "write"} => WaitsOn(q) \subseteq going
    BY DEF WaitsOn, HoldsRow, InFlight
  <2>3. \A q \in Request : pc[q] = "lock" => WaitsOn(q) \subseteq holding
    BY DEF WaitsOn, HoldsStaff
  <2>4. \A q \in Request :
          pc[q] \notin {"lock", "judge", "write", "placed", "passed"} => WaitsOn(q) = {}
    BY DEF WaitsOn
  <2>5. CASE pc[r] = "lock"
    <3>1. \A q \in holding : WaitsOn(q) \subseteq holding
      BY <2>1, <2>2, <2>4
    <3> QED
      BY <2>3, <2>5, <3>1, OutOfCycle
  <2>6. CASE pc[r] \in {"judge", "write"}
    BY <2>1, <2>2, <2>6, OutOfCycle
  <2>7. CASE pc[r] \notin {"lock", "judge", "write"}
    <3>1. WaitsOn(r) = {}
      BY <2>1, <2>4, <2>7
    <3> QED
      BY <3>1, OutOfCycle
  <2> QED
    BY <2>5, <2>6, <2>7
<1> QED
  BY <1>1, InvarianceLocked, PTL

=============================================================================
