------------------------------ MODULE MCLedger ------------------------------
(***************************************************************************)
(* Small instances of Ledger: one appointment whose discount is smaller    *)
(* than its total and one whose discount is larger, of two staff members,  *)
(* and lines whose commission falls on half a cent and on the whole price. *)
(***************************************************************************)
EXTENDS Ledger, TLC

CONSTANTS r1, r2, a1, a2, p1, p2, s1, s2, o1, l1, l2, l3, v1, v2, d1, d2

StaffOfAppointment == (a1 :> s1) @@ (a2 :> s2)
Totals == (a1 :> 4) @@ (a2 :> 1)
Discounts == (a1 :> 2) @@ (a2 :> 2)

AppointmentOfLine == (l1 :> a1) @@ (l2 :> a1) @@ (l3 :> a2)
Services == (l1 :> v1) @@ (l2 :> v2) @@ (l3 :> v1)
Prices == (l1 :> 1) @@ (l2 :> 3) @@ (l3 :> 1)
Quantities == (l1 :> 1) @@ (l2 :> 1) @@ (l3 :> 2)
Rates == (l1 :> 50) @@ (l2 :> 100) @@ (l3 :> 15)

(* Only one of the two has a specialist record. *)
Specialists == (s1 :> o1) @@ (s2 :> Null)

Payees == [p \in Payment |-> a1]
Periods == [p \in Payment |-> IF p = p1 THEN d1 ELSE d2]

Office == [r \in Request |-> Null]

OfficeAndStylist == (r1 :> Null) @@ (r2 :> s1)

(* A desk that also takes payments and corrects them, and an owner who     *)
(* corrects or removes payments and reads the books.                       *)
DeskAndOwner ==
    (r1 :> {"book", "status", "pay", "edit", "delete_staff"})
        @@ (r2 :> {"remove", "balance", "performance", "commissions"})

(* A desk, and a stylist who looks up what they have earned. *)
DeskAndStylist == (r1 :> {"book", "status"}) @@ (r2 :> {"commissions"})
=============================================================================
