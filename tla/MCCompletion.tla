---------------------------- MODULE MCCompletion ----------------------------
(***************************************************************************)
(* Small instances of Completion: who may make which requests.             *)
(***************************************************************************)
EXTENDS Completion, TLC

CONSTANTS r1, r2

(* One desk works through everything, another records product usage. *)
DeskAndStylist == (r1 :> {"complete", "cancel", "adjust", "set"}) @@ (r2 :> {"use"})

(* Two desks complete appointments. *)
TwoDesks == (r1 :> {"complete"}) @@ (r2 :> {"complete"})

(* One completes what another adjusts. *)
DeskAndStock == (r1 :> {"complete", "use"}) @@ (r2 :> {"adjust"})

(* Two desks do the work of appointments, and nobody restocks. *)
TwoWorkers == (r1 :> {"complete", "cancel", "use"}) @@ (r2 :> {"complete", "cancel", "use"})

(* Two desks, one of which also takes deliveries and corrects the stock. *)
DeskAndDeliveries == (r1 :> {"complete", "cancel", "use"}) @@ (r2 :> {"complete", "adjust", "set"})

UsageSymmetry == Permutations(UsageKey)
=============================================================================
