----------------------------- MODULE Lifecycle -----------------------------
(***************************************************************************)
(* The statuses of an appointment, the transition table every status       *)
(* change is checked against (app/models/base.py), and the two readings of *)
(* "this appointment occupies its slot" the program has: the list the      *)
(* booking query and the availability view use (ACTIVE_STATUSES) and the   *)
(* predicate of the database's exclusion constraint, which also keeps the  *)
(* slot of a completed appointment.                                        *)
(***************************************************************************)

Status ==
    {"requested", "confirmed", "in_progress", "completed", "cancelled", "no_show"}

LegalTransitions == [
    requested   |-> {"confirmed", "cancelled"},
    confirmed   |-> {"in_progress", "cancelled", "no_show"},
    in_progress |-> {"completed", "cancelled"},
    completed   |-> {},
    cancelled   |-> {},
    no_show     |-> {} ]

ActiveStatuses == {"requested", "confirmed", "in_progress"}

(* Fault: the constraint with the list the booking query uses.              *)
HoldsSlotWhileActive(status) == status \in ActiveStatuses

(* WHERE (status NOT IN ('cancelled', 'no_show') AND deleted_at IS NULL):   *)
(* no handler of the program sets an appointment's deleted_at.             *)
HoldsSlot(status) == status \notin {"cancelled", "no_show"}

=============================================================================
