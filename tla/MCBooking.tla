----------------------------- MODULE MCBooking -----------------------------
(***************************************************************************)
(* Small instances of Booking: who may make which requests, and symmetry.  *)
(***************************************************************************)
EXTENDS Booking, TLC

CONSTANTS r1, r2, r3

(* Two desks, one of which also books. *)
TwoDesks == (r1 :> {"book", "status"}) @@ (r2 :> {"status"})

(* Two requests that both move appointments, against a booking or a change. *)
TwoMovers == (r1 :> {"book", "move"}) @@ (r2 :> {"move", "status"})

(* Two callers booking while one front desk works through the status list. *)
BookersAndDesk == (r1 :> {"book"}) @@ (r2 :> {"book"}) @@ (r3 :> {"status"})

(* A booking, a move and a status change. *)
OneOfEach == (r1 :> {"book"}) @@ (r2 :> {"move"}) @@ (r3 :> {"status"})

(* A booking (and status changes) against a move. *)
BookerAndMover == (r1 :> {"book", "status"}) @@ (r2 :> {"move"})

KeySymmetry == Permutations(Appointment)
=============================================================================
