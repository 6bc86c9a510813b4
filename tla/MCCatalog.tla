------------------------------ MODULE MCCatalog -----------------------------
(***************************************************************************)
(* Small instances of Catalog: two keys in one list, one in another, and   *)
(* which tables whose requests are about.                                  *)
(***************************************************************************)
EXTENDS Catalog, TLC

CONSTANTS r1, r2, x, y, z, l1, l2

KeysOfLists == (x :> l1) @@ (y :> l1) @@ (z :> l2)

DefaultAccounts == <<x, y>>

(* Every table and each of its requests.                                   *)
Everything ==
    ({"create", "delete"} \X (Table \ {"schedule"}))
        \cup ({"replace"} \X {"package_item", "staff_service", "schedule"})
        \cup {<<"rename", "category">>, <<"seed", "user">>}

TwoOfEverything == [r \in Request |-> Everything]

(* A transaction is about one table and no two tables share anything, so   *)
(* that rows of one table at a time show what there is to see.             *)
OneTable ==
    Cardinality({rows[i].table : i \in {j \in Row : rows[j] # Null}}
                    \cup {tx[r].table : r \in {q \in Request : pc[q] # "idle"}}) <= 1

(* Either request may do everything, and rows are alike. *)
KeySymmetry == Permutations(Row) \cup Permutations(Request)
=============================================================================
