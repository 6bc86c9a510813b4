------------------------------ MODULE Calendar ------------------------------
(***************************************************************************)
(* What the booking subsystem promises its users, with no transactions in  *)
(* sight: a set of reservations of staff time, no two of which share a     *)
(* moment of one staff member.  A reservation is made, moved or given up   *)
(* in one indivisible step; moving it keeps its length and never passes    *)
(* through a state in which the appointment holds no slot at all.          *)
(***************************************************************************)
EXTENDS Integers

CONSTANTS Appointment, Slot, Free

VARIABLE calendar   \* Appointment -> the slot it holds, or Free

Clash(x, y) ==
    /\ x # Free /\ y # Free
    /\ x.staff = y.staff
    /\ x.start < y.start + y.dur
    /\ y.start < x.start + x.dur

Available(a, slot) == \A b \in Appointment \ {a} : ~Clash(slot, calendar[b])

Init == calendar = [a \in Appointment |-> Free]

Reserve(a, slot) ==
    /\ calendar[a] = Free
    /\ Available(a, slot)
    /\ calendar' = [calendar EXCEPT ![a] = slot]

Move(a, slot) ==
    /\ calendar[a] # Free
    /\ slot.dur = calendar[a].dur
    /\ Available(a, slot)
    /\ calendar' = [calendar EXCEPT ![a] = slot]

Release(a) ==
    /\ calendar[a] # Free
    /\ calendar' = [calendar EXCEPT ![a] = Free]

Next ==
    \E a \in Appointment :
        \/ \E slot \in Slot : Reserve(a, slot) \/ Move(a, slot)
        \/ Release(a)

Spec == Init /\ [][Next]_calendar

=============================================================================
