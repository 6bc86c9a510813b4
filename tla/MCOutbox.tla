------------------------------ MODULE MCOutbox ------------------------------
(***************************************************************************)
(* Small instances of Outbox: who may make which requests, and whose       *)
(* appointments they are.                                                  *)
(***************************************************************************)
EXTENDS Outbox, TLC

CONSTANTS r1, r2, a1, a2, c1, u1

(* A desk works through appointments; an administrator changes statuses    *)
(* too, edits, clears the log and attends to notifications.                *)
DeskAndAdmin == (r1 :> {"book", "status"}) @@ (r2 :> {"status", "edit", "send", "mark", "clear"})

(* One desk, one request after the other. *)
OneDesk == (r1 :> {"book", "status"})

(* One appointment of a client, the other of a walk-in. *)
ClientAndWalkIn == (a1 :> c1) @@ (a2 :> Null)

(* The client has registered. *)
OneAccount == (c1 :> u1)

OperationSymmetry == Permutations(Operation)
=============================================================================
