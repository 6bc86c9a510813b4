----------------------------- MODULE MCWalkIns -----------------------------
(***************************************************************************)
(* Small instances of WalkIns: service names and who may ask for what.     *)
(***************************************************************************)
EXTENDS WalkIns, TLC

CONSTANTS r1, r2

(* Every line renders the same service: names do not tell lines apart. *)
SameName == [l \in Line |-> "service"]

(* One desk converts, another books and changes statuses. *)
ConverterAndDesk == (r1 :> {"convert"}) @@ (r2 :> {"book", "status"})

(* Two desks convert, one of them books and changes statuses as well. *)
TwoConverters == (r1 :> {"convert"}) @@ (r2 :> Kind)

Keys == Permutations(Appointment) \cup Permutations(WalkIn)
            \cup Permutations(Client) \cup Permutations(Line)
=============================================================================
