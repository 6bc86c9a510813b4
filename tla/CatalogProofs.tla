--------------------------- MODULE CatalogProofs ---------------------------
(***************************************************************************)
(* Catalog proved for any number of requests, rows, keys and lists.  The   *)
(* argument: two rows of one key that are both there are never both        *)
(* committed, because the second was inserted by the very transaction that *)
(* is deleting the first; the commit that makes the one visible takes the  *)
(* other away.  And what a replacement has marked for deletion is what was *)
(* in its list, whoever else is at work.  The last parts say what a step   *)
(* of one request leaves of the rows of the others, and so what each       *)
(* transaction that inserts can count on when it ends: a list is replaced  *)
(* whole, a server has seeded every account, a failed insert had a rival.  *)
(***************************************************************************)
EXTENDS Catalog, TLAPS

(* The tables whose rows are replaced as a list. *)
Replaced == {"package_item", "staff_service", "schedule"}

(* What each step of a handler carries. *)
Carries ==
    \A r \in Request :
        /\ pc[r] = "idle" => tx[r].kind = "none"
        /\ pc[r] = "look" => tx[r].kind = "seed"
        /\ pc[r] = "doom" => tx[r].kind = "replace" /\ tx[r].table \in Table
        /\ pc[r] = "insert" => tx[r].kind \in {"create", "replace", "seed"}
        /\ pc[r] = "insert" => tx[r].table \in Table
        /\ pc[r] = "commit" => tx[r].kind \in {"update", "rename", "delete"}
        /\ tx[r].kind = "seed" => tx[r].table = "user"

(* A row that is to be renamed or deleted is committed, and a row of a     *)
(* table whose rows go is still what it was when it was read.              *)
HasRow ==
    \A r \in Request :
        tx[r].kind \in {"rename", "delete"} =>
            /\ tx[r].row \in Row /\ tx[r].key \in Key
            /\ rows[tx[r].row] \in RowType /\ rows[tx[r].row] # Null
            /\ rows[tx[r].row].xmin = Null
            /\ tx[r].table = rows[tx[r].row].table
            /\ tx[r].kind = "rename" => tx[r].table = "category"
            /\ tx[r].table # "category" => rows[tx[r].row].key = tx[r].key

(* A row in doubt belongs to a transaction that inserts, or to a           *)
(* replacement of the list the row is in.                                  *)
InDoubt ==
    \A i \in Row, r \in Request :
        rows[i] # Null =>
            /\ rows[i].xmin = r => pc[r] \in {"insert", "look"}
            /\ rows[i].xmax = r =>
                  /\ pc[r] = "insert" /\ tx[r].kind = "replace"
                  /\ rows[i].xmin = Null
                  /\ rows[i].table = tx[r].table /\ rows[i].table \in Replaced
                  /\ ListOf[rows[i].key] = tx[r].list

(* What a replacement is going to delete is in its list.                   *)
SeesItsList ==
    \A r \in Request :
        pc[r] = "doom" =>
            \A i \in tx[r].seen :
                /\ rows[i] # Null
                /\ rows[i].xmin = Null
                /\ rows[i].table = tx[r].table /\ rows[i].table \in Replaced
                /\ ListOf[rows[i].key] = tx[r].list

(* Of two rows of one key that are there, the same transaction inserted    *)
(* the one and is deleting the other.                                      *)
Succeeds(i, j) ==
    \E r \in Request : rows[i].xmin = r /\ rows[j].xmax = r

KeysApart ==
    \A i, j \in Row :
        /\ i # j /\ rows[i] # Null /\ rows[j] # Null
        /\ ~rows[i].gone /\ ~rows[j].gone
        /\ rows[i].table \in Keyed
        /\ rows[i].table = rows[j].table /\ rows[i].key = rows[j].key
        => Succeeds(i, j) \/ Succeeds(j, i)

IInv == TypeOK /\ Carries /\ HasRow /\ InDoubt /\ SeesItsList /\ KeysApart

-----------------------------------------------------------------------------
(* The catalog is empty and nobody is working on a request.                *)
LEMMA InitInv == Init => IInv
<1> SUFFICES ASSUME Init PROVE IInv
  OBVIOUS
<1> USE DEF Init, NoTx
<1>1. TypeOK
  BY DEF TypeOK, Tx, Kind, Table, Step, Answer
<1>2. Carries /\ HasRow /\ InDoubt /\ SeesItsList /\ KeysApart
  BY DEF Carries, HasRow, InDoubt, SeesItsList, KeysApart
<1>3. QED
  BY <1>1, <1>2 DEF IInv

(* The invariant says no more than that two committed rows differ in their *)
(* key: none of them is in doubt.                                          *)
LEMMA ApartIsUnique == IInv => KeysUnique
<1> SUFFICES ASSUME IInv,
                    NEW i \in Row, NEW j \in Row,
                    Committed(i), Committed(j),
                    rows[i].table \in Keyed,
                    rows[i].table = rows[j].table, rows[i].key = rows[j].key,
                    i # j
             PROVE  FALSE
  BY DEF KeysUnique
<1>1. Succeeds(i, j) \/ Succeeds(j, i)
  BY DEF IInv, KeysApart, Committed
<1>2. QED
  BY <1>1, NullAssumption DEF Succeeds, Committed

-----------------------------------------------------------------------------
(* A request that goes on, or answers, without touching the tables.        *)
LEMMA StandsInv ==
    ASSUME IInv, NEW r \in Request, NEW step \in Step, NEW t \in Tx,
           Moves(r, step, t), answer' \in Answer, rows' = rows, up' \subseteq Request,
           step = "idle" => t.kind = "none",
           step = "look" => t.kind = "seed",
           step = "doom" => t.kind = "replace" /\ t.table \in Table,
           step = "insert" => t.kind \in {"create", "replace", "seed"},
           step = "insert" => t.table \in Table,
           step = "commit" => t.kind \in {"update", "rename", "delete"},
           t.kind = "seed" => t.table = "user",
           t.kind \in {"rename", "delete"} =>
               /\ t.row \in Row /\ t.key \in Key
               /\ rows[t.row] # Null /\ rows[t.row].xmin = Null
               /\ t.table = rows[t.row].table
               /\ t.kind = "rename" => t.table = "category"
               /\ t.table # "category" => rows[t.row].key = t.key,
           step = "doom" =>
               \A i \in t.seen :
                   /\ rows[i] # Null
                   /\ rows[i].xmin = Null
                   /\ rows[i].table = t.table /\ rows[i].table \in Replaced
                   /\ ListOf[rows[i].key] = t.list,
           \/ pc[r] \in {"idle", "commit"}
           \/ pc[r] = "look" /\ step \in {"look", "insert"} /\ t.kind = "seed"
    PROVE  IInv'
<1> USE DEF IInv, Moves
<1>1. \A q \in Request \ {r} : pc'[q] = pc[q] /\ tx'[q] = tx[q]
  BY DEF TypeOK
<1>2. pc'[r] = step /\ tx'[r] = t
  BY DEF TypeOK
<1>3. \A i \in Row : rows[i] # Null => rows[i].xmax # r
  BY DEF InDoubt
<1>4. \A i \in Row : rows[i] # Null /\ rows[i].xmin = r => pc[r] = "look"
  BY DEF InDoubt
<1>5. InDoubt'
  BY <1>1, <1>2, <1>3, <1>4 DEF InDoubt
<1>6. TypeOK'
  <2>1. /\ rows' \in [Row -> RowType \cup {Null}]
        /\ pc' \in [Request -> Step] /\ tx' \in [Request -> Tx]
        /\ answer' \in Answer /\ up' \subseteq Request
    BY DEF TypeOK
  <2>2. \A i \in Row, q \in Request :
            rows'[i] # Null /\ q \in {rows'[i].xmin, rows'[i].xmax} => pc'[q] # "idle"
    BY <1>5 DEF InDoubt
  <2>3. QED
    BY <2>1, <2>2 DEF TypeOK
<1>7. Carries'
  BY <1>1, <1>2 DEF Carries
<1>8. HasRow'
  <2>1. \A i \in Row : rows[i] # Null => rows[i] \in RowType
    BY DEF TypeOK
  <2>2. QED
    BY <1>1, <1>2, <2>1 DEF HasRow
<1>9. SeesItsList'
  BY <1>1, <1>2 DEF SeesItsList
<1>10. KeysApart'
  BY DEF KeysApart, Succeeds
<1>11. QED
  BY <1>5, <1>6, <1>7, <1>8, <1>9, <1>10

-----------------------------------------------------------------------------
(* A transaction that is undone leaves the rows it has not inserted, and   *)
(* none of them in doubt.                                                  *)
LEMMA RollbackInv ==
    ASSUME IInv, NEW r \in Request,
           Moves(r, "idle", NoTx), answer' \in Answer, up' \subseteq Request,
           rows' = [i \in Row |-> Undone(r, i)]
    PROVE  IInv'
<1> USE DEF IInv, Moves
<1>1. \A q \in Request \ {r} : pc'[q] = pc[q] /\ tx'[q] = tx[q]
  BY DEF TypeOK
<1>2. pc'[r] = "idle" /\ tx'[r] = NoTx
  BY DEF TypeOK
<1>3. \A i \in Row :
        \/ rows'[i] = Null /\ (rows[i] = Null \/ rows[i].xmin = r)
        \/ /\ rows'[i] \in RowType /\ rows[i] \in RowType
           /\ rows[i].xmin # r /\ rows[i].xmax = r
           /\ rows'[i] = [rows[i] EXCEPT !.xmax = Null]
        \/ /\ rows'[i] = rows[i] /\ rows[i] \in RowType
           /\ rows[i].xmin # r /\ rows[i].xmax # r
  BY DEF TypeOK, Undone, RowType
<1>4. \A i \in Row : rows'[i] # Null =>
        /\ rows[i] # Null
        /\ rows'[i].xmin = rows[i].xmin /\ rows'[i].xmin # r
        /\ rows'[i].xmax = rows[i].xmax \/ rows'[i].xmax = Null
        /\ rows'[i].xmax # r
        /\ rows'[i].table = rows[i].table /\ rows'[i].key = rows[i].key
        /\ rows'[i].gone = rows[i].gone
  BY <1>3, NullAssumption DEF RowType
<1>5. InDoubt'
  BY <1>1, <1>4, NullAssumption DEF InDoubt
<1>6. TypeOK'
  <2>1. /\ rows' \in [Row -> RowType \cup {Null}]
        /\ pc' \in [Request -> Step] /\ tx' \in [Request -> Tx]
        /\ answer' \in Answer /\ up' \subseteq Request
    BY <1>3 DEF TypeOK, Step, NoTx, Tx
  <2>2. \A i \in Row, q \in Request :
            rows'[i] # Null /\ q \in {rows'[i].xmin, rows'[i].xmax} => pc'[q] # "idle"
    BY <1>5 DEF InDoubt
  <2>3. QED
    BY <2>1, <2>2 DEF TypeOK
<1>7. Carries'
  BY <1>1, <1>2 DEF Carries, NoTx
<1>8. HasRow' /\ SeesItsList'
  <2>1. \A i \in Row : rows[i] # Null /\ rows[i].xmin = Null =>
            /\ rows'[i] # Null /\ rows'[i] \in RowType /\ rows'[i].xmin = Null
            /\ rows'[i].table = rows[i].table /\ rows'[i].key = rows[i].key
    BY <1>3, <1>4, NullAssumption
  <2>2. \A q \in Request : tx[q].seen \subseteq Row
    BY DEF TypeOK, Tx
  <2>3. QED
    BY <1>1, <1>2, <2>1, <2>2 DEF HasRow, SeesItsList, NoTx
<1>9. KeysApart'
  <2>1. SUFFICES ASSUME NEW i \in Row, NEW j \in Row,
                        i # j, rows'[i] # Null, rows'[j] # Null,
                        ~rows'[i].gone, ~rows'[j].gone, rows'[i].table \in Keyed,
                        rows'[i].table = rows'[j].table, rows'[i].key = rows'[j].key
                 PROVE  Succeeds(i, j)' \/ Succeeds(j, i)'
    BY DEF KeysApart
  <2>2. Succeeds(i, j) \/ Succeeds(j, i)
    BY <1>4, <2>1 DEF KeysApart
  <2>3. ASSUME NEW x \in Row, NEW y \in Row, Succeeds(x, y),
               rows'[x] # Null, rows'[y] # Null
        PROVE  Succeeds(x, y)'
    <3>1. PICK q \in Request : rows[x].xmin = q /\ rows[y].xmax = q
      BY <2>3 DEF Succeeds
    <3>2. q # r
      BY <1>4, <2>3, <3>1
    <3>3. rows'[x].xmin = q /\ rows'[y] = rows[y]
      BY <1>3, <1>4, <2>3, <3>1, <3>2
    <3>4. QED
      BY <3>1, <3>3 DEF Succeeds
  <2>4. QED
    BY <2>1, <2>2, <2>3
<1>10. QED
  BY <1>5, <1>6, <1>7, <1>8, <1>9

(* A commit makes the rows it has inserted visible and those it is         *)
(* deleting go.                                                            *)
LEMMA CommitInv ==
    ASSUME IInv, NEW r \in Request,
           Moves(r, "idle", NoTx), answer' \in Answer, up' \subseteq Request, Commits(r)
    PROVE  IInv'
<1> USE DEF IInv, Moves, Commits
<1>1. \A q \in Request \ {r} : pc'[q] = pc[q] /\ tx'[q] = tx[q]
  BY DEF TypeOK
<1>2. pc'[r] = "idle" /\ tx'[r] = NoTx
  BY DEF TypeOK
<1>3. \A i \in Row :
        \/ rows'[i] = Null /\ rows[i] = Null
        \/ /\ rows'[i] \in RowType /\ rows[i] \in RowType /\ rows[i] # Null
           /\ \/ rows[i].xmin = r /\ rows'[i] = [rows[i] EXCEPT !.xmin = Null]
              \/ /\ rows[i].xmin # r /\ rows[i].xmax = r
                 /\ rows'[i] = [rows[i] EXCEPT !.xmax = Null, !.gone = TRUE]
              \/ rows[i].xmin # r /\ rows[i].xmax # r /\ rows'[i] = rows[i]
  BY DEF TypeOK, Settled, RowType
<1>4. \A i \in Row : rows'[i] # Null =>
        /\ rows[i] # Null
        /\ rows'[i].xmin = rows[i].xmin \/ rows'[i].xmin = Null
        /\ rows'[i].xmax = rows[i].xmax \/ rows'[i].xmax = Null
        /\ rows'[i].xmin # r /\ rows'[i].xmax # r
        /\ rows'[i].table = rows[i].table /\ rows'[i].key = rows[i].key
        /\ rows'[i].gone = rows[i].gone \/ rows'[i].gone = TRUE
        /\ rows[i].xmin = Null => rows'[i].xmin = Null
  <2>1. \A i \in Row : rows[i] # Null /\ rows[i].xmin = r => rows[i].xmax # r
    BY NullAssumption DEF InDoubt
  <2>2. SUFFICES ASSUME NEW i \in Row, rows'[i] # Null, rows[i] # Null, rows[i] \in RowType
                 PROVE  /\ rows'[i].xmin = rows[i].xmin \/ rows'[i].xmin = Null
                        /\ rows'[i].xmax = rows[i].xmax \/ rows'[i].xmax = Null
                        /\ rows'[i].xmin # r /\ rows'[i].xmax # r
                        /\ rows'[i].table = rows[i].table /\ rows'[i].key = rows[i].key
                        /\ rows'[i].gone = rows[i].gone \/ rows'[i].gone = TRUE
                        /\ rows[i].xmin = Null => rows'[i].xmin = Null
    BY <1>3
  <2>3. CASE rows[i].xmin = r /\ rows'[i] = [rows[i] EXCEPT !.xmin = Null]
    BY <2>1, <2>2, <2>3, NullAssumption DEF RowType
  <2>4. CASE /\ rows[i].xmin # r
             /\ rows'[i] = [rows[i] EXCEPT !.xmax = Null, !.gone = TRUE]
    BY <2>2, <2>4, NullAssumption DEF RowType
  <2>5. CASE rows[i].xmin # r /\ rows[i].xmax # r /\ rows'[i] = rows[i]
    BY <2>5
  <2>6. QED
    BY <1>3, <2>2, <2>3, <2>4, <2>5
<1>5. InDoubt'
  BY <1>1, <1>4, NullAssumption DEF InDoubt
<1>6. TypeOK'
  <2>1. rows' \in [Row -> RowType \cup {Null}]
    BY <1>3
  <2>4. /\ pc' \in [Request -> Step] /\ tx' \in [Request -> Tx]
        /\ answer' \in Answer /\ up' \subseteq Request
    BY DEF TypeOK, Step, NoTx, Tx
  <2>2. \A i \in Row, q \in Request :
            rows'[i] # Null /\ q \in {rows'[i].xmin, rows'[i].xmax} => pc'[q] # "idle"
    BY <1>5 DEF InDoubt
  <2>3. QED
    BY <2>1, <2>2, <2>4 DEF TypeOK
<1>7. Carries'
  BY <1>1, <1>2 DEF Carries, NoTx
<1>8. HasRow' /\ SeesItsList'
  <2>1. \A i \in Row : rows[i] # Null /\ rows[i].xmin = Null =>
            /\ rows'[i] # Null /\ rows'[i] \in RowType /\ rows'[i].xmin = Null
            /\ rows'[i].table = rows[i].table /\ rows'[i].key = rows[i].key
    BY <1>3, <1>4, NullAssumption
  <2>2. \A q \in Request : tx[q].seen \subseteq Row
    BY DEF TypeOK, Tx
  <2>3. QED
    BY <1>1, <1>2, <2>1, <2>2 DEF HasRow, SeesItsList, NoTx
<1>9. KeysApart'
  <2>1. SUFFICES ASSUME NEW i \in Row, NEW j \in Row,
                        i # j, rows'[i] # Null, rows'[j] # Null,
                        ~rows'[i].gone, ~rows'[j].gone, rows'[i].table \in Keyed,
                        rows'[i].table = rows'[j].table, rows'[i].key = rows'[j].key
                 PROVE  Succeeds(i, j)' \/ Succeeds(j, i)'
    BY DEF KeysApart
  <2>2. Succeeds(i, j) \/ Succeeds(j, i)
    BY <1>4, <2>1 DEF KeysApart, RowType
  <2>3. ASSUME NEW x \in Row, NEW y \in Row, Succeeds(x, y),
               rows'[x] # Null, rows'[y] # Null, ~rows'[y].gone
        PROVE  Succeeds(x, y)'
    <3>1. PICK q \in Request : rows[x].xmin = q /\ rows[y].xmax = q
      BY <2>3 DEF Succeeds
    <3>2. rows[y].xmin = Null
      BY <1>4, <2>3, <3>1 DEF InDoubt
    <3>3. q # r
      BY <1>3, <2>3, <3>1, <3>2, NullAssumption DEF RowType
    <3>4. rows'[x].xmin = q /\ rows'[y].xmax = q
      <4>1. rows'[y] = rows[y]
        BY <1>3, <2>3, <3>1, <3>2, <3>3, NullAssumption
      <4>2. rows[x].xmax # r
        BY <1>4, <2>3, <3>1, NullAssumption DEF InDoubt
      <4>3. rows'[x] = rows[x]
        BY <1>3, <2>3, <3>1, <3>3, <4>2, NullAssumption
      <4>4. QED
        BY <3>1, <4>1, <4>3
    <3>5. QED
      BY <3>4 DEF Succeeds
  <2>4. QED
    BY <2>1, <2>2, <2>3
<1>10. QED
  BY <1>5, <1>6, <1>7, <1>8, <1>9

(* A statement that writes rows without putting any in doubt and commits.  *)
LEMMA WriteInv ==
    ASSUME IInv, NEW r \in Request, pc[r] = "commit",
           Moves(r, "idle", NoTx), answer' \in Answer, up' = up,
           rows' \in [Row -> RowType \cup {Null}],
           \A i \in Row :
               \/ rows'[i] = Null /\ rows[i] = Null
               \/ /\ rows'[i] # Null /\ rows[i] # Null
                  /\ rows'[i].xmin = rows[i].xmin /\ rows'[i].xmax = rows[i].xmax
                  /\ rows'[i].table = rows[i].table
                  /\ rows[i].table # "category" => rows'[i].key = rows[i].key,
           KeysApart'
    PROVE  IInv'
<1> USE DEF IInv, Moves
<1>1. \A q \in Request \ {r} : pc'[q] = pc[q] /\ tx'[q] = tx[q]
  BY DEF TypeOK
<1>2. pc'[r] = "idle" /\ tx'[r] = NoTx
  BY DEF TypeOK
<1>3. \A i \in Row : rows[i] # Null => rows[i].xmin # r /\ rows[i].xmax # r
  BY DEF InDoubt
<1>4. InDoubt'
  BY <1>1, <1>3 DEF InDoubt, Replaced
<1>5. TypeOK'
  <2>1. /\ pc' \in [Request -> Step] /\ tx' \in [Request -> Tx]
        /\ answer' \in Answer /\ up' \subseteq Request
    BY DEF TypeOK, Step, NoTx, Tx
  <2>2. \A i \in Row, q \in Request :
            rows'[i] # Null /\ q \in {rows'[i].xmin, rows'[i].xmax} => pc'[q] # "idle"
    BY <1>4 DEF InDoubt
  <2>3. QED
    BY <2>1, <2>2 DEF TypeOK
<1>6. Carries'
  BY <1>1, <1>2 DEF Carries, NoTx
<1>7. HasRow' /\ SeesItsList'
  <2>1. \A q \in Request : tx[q].seen \subseteq Row
    BY DEF TypeOK, Tx
  <2>2. \A i \in Row : rows'[i] # Null => rows'[i] \in RowType
    OBVIOUS
  <2>3. HasRow'
    BY <1>1, <1>2, <2>2 DEF HasRow, NoTx
  <2>4. SeesItsList'
    BY <1>1, <1>2, <2>1 DEF SeesItsList, Replaced
  <2>5. QED
    BY <2>3, <2>4
<1>8. QED
  BY <1>4, <1>5, <1>6, <1>7

-----------------------------------------------------------------------------
(* What a transaction carries before it begins.                            *)
LEMMA NoTxType == NoTx \in Tx /\ NoTx.kind = "none"
BY DEF NoTx, Tx

(* The steps that look and answer.                                         *)
LEMMA CreateArriveInv ==
    ASSUME IInv, NEW r \in Request, CreateArrive(r)
    PROVE  IInv'
<1> PICK t \in Table \ {"schedule"}, k \in Key :
        /\ Receives(r, "create", t)
        /\ \/ \E code \in {"conflict", "done"} : Reply(r, code)
           \/ Go(r, "commit", [NoTx EXCEPT !.kind = "update", !.table = t, !.key = k,
                                           !.seen = Taken(t, k)])
           \/ Go(r, "insert", [NoTx EXCEPT !.kind = "create", !.table = t, !.key = k,
                                           !.inserts = <<k>>, !.seen = Holding(t, k)])
        /\ UNCHANGED <<rows, up>>
  BY DEF CreateArrive, CreateCategory, CreateSpecialist, CreateStaff, Register,
         ClientRegister, CreateUser, QualifyStaff, AddSpecialty, AddPackageItem,
         Create, Attach, Inserts, Table
<1> USE DEF Receives
<1>1. Taken(t, k) \subseteq Row /\ Holding(t, k) \subseteq Row
  BY DEF Taken, Holding, Versions
<1>2. <<k>> \in Seq(Key)
  OBVIOUS
<1>3. up' \subseteq Request /\ rows' = rows
  BY DEF IInv, TypeOK
<1>4. ASSUME NEW code \in {"conflict", "done"}, Reply(r, code)
      PROVE  IInv'
  <2>1. QED
    BY <1>3, <1>4, NoTxType, StandsInv DEF Reply, Answer, Step
<1>5. CASE Go(r, "commit", [NoTx EXCEPT !.kind = "update", !.table = t, !.key = k,
                                        !.seen = Taken(t, k)])
  <2> DEFINE u == [NoTx EXCEPT !.kind = "update", !.table = t, !.key = k, !.seen = Taken(t, k)]
  <2>1. u \in Tx /\ u.kind = "update"
    BY <1>1, NoTxType DEF Tx, Kind
  <2> HIDE DEF u
  <2>2. Moves(r, "commit", u) /\ answer' \in Answer
    BY <1>5 DEF Go, Answer, u
  <2>3. QED
    BY <1>3, <2>1, <2>2, StandsInv DEF Step
<1>6. CASE Go(r, "insert", [NoTx EXCEPT !.kind = "create", !.table = t, !.key = k,
                                        !.inserts = <<k>>, !.seen = Holding(t, k)])
  <2> DEFINE u == [NoTx EXCEPT !.kind = "create", !.table = t, !.key = k,
                               !.inserts = <<k>>, !.seen = Holding(t, k)]
  <2>1. u \in Tx /\ u.kind = "create" /\ u.table \in Table
    BY <1>1, <1>2, NoTxType DEF Tx, Kind
  <2> HIDE DEF u
  <2>2. Moves(r, "insert", u) /\ answer' \in Answer
    BY <1>6 DEF Go, Answer, u
  <2>3. QED
    BY <1>3, <2>1, <2>2, StandsInv DEF Step
<1>7. QED
  BY <1>4, <1>5, <1>6

LEMMA CommitUpdateInv ==
    ASSUME IInv, NEW r \in Request, CommitUpdate(r)
    PROVE  IInv'
<1>1. Moves(r, "idle", NoTx) /\ answer' \in Answer /\ up' \subseteq Request
  BY DEF CommitUpdate, Reply, Answer, IInv, TypeOK
<1>2. QED
  BY <1>1, NoTxType, StandsInv DEF CommitUpdate, Step

LEMMA NotFoundInv ==
    ASSUME IInv, NEW r \in Request, NotFound(r)
    PROVE  IInv'
<1>1. Moves(r, "idle", NoTx) /\ answer' \in Answer /\ up' \subseteq Request
  BY DEF NotFound, Reply, Answer, IInv, TypeOK
<1>2. rows' = rows /\ pc[r] = "idle"
  BY DEF NotFound, Receives
<1>3. QED
  BY <1>1, <1>2, NoTxType, StandsInv DEF Step

LEMMA RenameArriveInv ==
    ASSUME IInv, NEW r \in Request, RenameArrive(r)
    PROVE  IInv'
<1> PICK i \in Row, k \in Key :
        /\ Committed(i) /\ rows[i].table = "category" /\ rows[i].key # k
        /\ Go(r, "commit", [NoTx EXCEPT !.kind = "rename", !.table = "category",
                                        !.row = i, !.key = k])
  BY DEF RenameArrive
<1> DEFINE u == [NoTx EXCEPT !.kind = "rename", !.table = "category", !.row = i, !.key = k]
<1>1. u \in Tx /\ u.kind = "rename" /\ u.table = "category" /\ u.row = i /\ u.key = k
  BY NoTxType DEF Tx, Kind, Table
<1> HIDE DEF u
<1>2. Moves(r, "commit", u) /\ answer' \in Answer /\ up' \subseteq Request
  BY DEF Go, Answer, RenameArrive, IInv, TypeOK, u
<1>3. QED
  BY <1>1, <1>2, StandsInv DEF RenameArrive, Receives, Step, Committed

LEMMA DeleteArriveInv ==
    ASSUME IInv, NEW r \in Request, DeleteArrive(r)
    PROVE  IInv'
<1> PICK i \in Row :
        /\ Committed(i)
        /\ Receives(r, "delete", rows[i].table)
        /\ Go(r, "commit", [NoTx EXCEPT !.kind = "delete", !.table = rows[i].table,
                                        !.row = i, !.key = rows[i].key])
        /\ UNCHANGED <<rows, up>>
  BY DEF DeleteArrive, DeleteCategory, DeleteSpecialist, DeleteStaff, DeleteUser,
         RemoveSpecialty, RemovePackageItem, RemoveQualification, Delete
<1> DEFINE u == [NoTx EXCEPT !.kind = "delete", !.table = rows[i].table,
                             !.row = i, !.key = rows[i].key]
<1>1. rows[i] \in RowType
  BY DEF Committed, IInv, TypeOK
<1>2. /\ u \in Tx /\ u.kind = "delete" /\ u.row = i
      /\ u.table = rows[i].table /\ u.key = rows[i].key /\ u.key \in Key
  BY <1>1, NoTxType DEF Tx, Kind, RowType
<1> HIDE DEF u
<1>3. Moves(r, "commit", u) /\ answer' \in Answer /\ up' \subseteq Request
  BY DEF Go, Answer, IInv, TypeOK, u
<1>4. QED
  BY <1>2, <1>3, StandsInv DEF Receives, Step, Committed

LEMMA ReplaceArriveInv ==
    ASSUME IInv, NEW r \in Request, ReplaceArrive(r)
    PROVE  IInv'
<1> PICK t \in Replaced, list \in List : \E asked \in Lists(list) :
        /\ Receives(r, "replace", t)
        /\ Go(r, "doom",
              [NoTx EXCEPT !.kind = "replace", !.table = t, !.list = list,
                           !.inserts = asked, !.asked = {asked[n] : n \in DOMAIN asked},
                           !.seen = ToDelete(t, list)])
        /\ UNCHANGED <<rows, up>>
  BY DEF ReplaceArrive, UpdatePackage, UpdateService, SetSchedule, Replace, Replaced
<1> PICK asked \in Lists(list) :
        /\ Receives(r, "replace", t)
        /\ Go(r, "doom",
              [NoTx EXCEPT !.kind = "replace", !.table = t, !.list = list,
                           !.inserts = asked, !.asked = {asked[n] : n \in DOMAIN asked},
                           !.seen = ToDelete(t, list)])
        /\ UNCHANGED <<rows, up>>
  OBVIOUS
<1> DEFINE u == [NoTx EXCEPT !.kind = "replace", !.table = t, !.list = list,
                             !.inserts = asked, !.asked = {asked[n] : n \in DOMAIN asked},
                             !.seen = ToDelete(t, list)]
<1>1. asked \in Seq(Key) /\ {asked[n] : n \in DOMAIN asked} \subseteq Key
  <2>1. PICK n \in 0..MaxAsked : asked \in [1..n -> {k \in Key : ListOf[k] = list}]
    BY DEF Lists
  <2>2. n \in Nat
    BY <2>1, BoundAssumption
  <2>3. asked \in [1..n -> Key]
    BY <2>1
  <2>4. QED
    BY <2>2, <2>3
<1>2. ToDelete(t, list) \subseteq Row
  BY DEF ToDelete, ListRows
<1>3. t \in Table
  BY DEF Replaced, Table
<1>4. /\ u \in Tx /\ u.kind = "replace" /\ u.table = t /\ u.list = list
      /\ u.seen = ToDelete(t, list)
  BY <1>1, <1>2, <1>3, NoTxType DEF Tx, Kind
<1> HIDE DEF u
<1>5. Moves(r, "doom", u) /\ answer' \in Answer /\ up' \subseteq Request
  BY DEF Go, Answer, IInv, TypeOK, u
<1>6. \A i \in u.seen :
        /\ rows[i] # Null /\ rows[i].xmin = Null
        /\ rows[i].table = u.table /\ rows[i].table \in Replaced
        /\ ListOf[rows[i].key] = u.list
  BY <1>4 DEF ToDelete, ListRows, Committed
<1>7. QED
  BY <1>3, <1>4, <1>5, <1>6, StandsInv DEF Receives, Step

LEMMA SeedArriveInv ==
    ASSUME IInv, NEW r \in Request, SeedArrive(r)
    PROVE  IInv'
<1> DEFINE u == [NoTx EXCEPT !.kind = "seed", !.table = "user", !.todo = Defaults]
<1>1. u \in Tx /\ u.kind = "seed" /\ u.table = "user"
  BY KeyAssumption, NoTxType DEF Tx, Kind, Table
<1> HIDE DEF u
<1>2. Moves(r, "look", u) /\ answer' \in Answer /\ up' \subseteq Request
  BY DEF SeedArrive, Go, Answer, IInv, TypeOK, u
<1>3. QED
  BY <1>1, <1>2, StandsInv DEF SeedArrive, Receives, Step

LEMMA SeedLookInv ==
    ASSUME IInv, NEW r \in Request, SeedLook(r)
    PROVE  IInv'
<1> DEFINE k == Head(tx[r].todo)
           t == [tx[r] EXCEPT !.todo = Tail(@), !.key = k, !.seen = Holding("user", k)]
           u == [t EXCEPT !.todo = AfterFound(r)]
           v == [t EXCEPT !.inserts = <<k>>]
<1>1. tx[r] \in Tx /\ tx[r].kind = "seed" /\ tx[r].table = "user" /\ pc[r] = "look"
  BY DEF SeedLook, IInv, TypeOK, Carries
<1>2. tx[r].todo \in Seq(Key) /\ tx[r].todo # <<>>
  BY <1>1 DEF SeedLook, Tx
<1>3. k \in Key /\ Tail(tx[r].todo) \in Seq(Key) /\ Holding("user", k) \subseteq Row
  BY <1>2 DEF Holding, Versions
<1>4. <<k>> \in Seq(Key)
  BY <1>3
<1>5. t \in Tx /\ t.kind = "seed" /\ t.table = "user"
  BY <1>1, <1>3 DEF Tx
<1> HIDE DEF k
<1>6. u \in Tx /\ u.kind = "seed" /\ u.table = "user"
  BY <1>3, <1>5 DEF AfterFound, Tx
<1>7. v \in Tx /\ v.kind = "seed" /\ v.table = "user"
  BY <1>5, <1>4 DEF Tx
<1>8. Go(r, "look", u) \/ Go(r, "insert", v)
  BY DEF SeedLook, k
<1> HIDE DEF u, v
<1>9. up' \subseteq Request /\ rows' = rows /\ answer' \in Answer
  BY <1>8 DEF SeedLook, IInv, TypeOK, Go, Answer
<1>10. CASE Go(r, "look", u)
  BY <1>1, <1>6, <1>9, <1>10, StandsInv DEF Go, Step
<1>11. CASE Go(r, "insert", v)
  BY <1>1, <1>7, <1>9, <1>11, StandsInv DEF Go, Step, Table
<1>12. QED
  BY <1>8, <1>10, <1>11

-----------------------------------------------------------------------------
(* The steps that write.                                                   *)
LEMMA CommitRenameInv ==
    ASSUME IInv, NEW r \in Request, CommitRename(r)
    PROVE  IInv'
<1>1. CASE Rollback(r, "error")
  BY <1>1, RollbackInv DEF CommitRename, Rollback, Reply, Answer, IInv, TypeOK
<1>2. CASE /\ Collides(r, "category", tx[r].key) \subseteq {tx[r].row}
           /\ rows' = [rows EXCEPT ![tx[r].row].key = tx[r].key]
           /\ Reply(r, "done")
  <2> DEFINE x == tx[r].row
             k == tx[r].key
  <2>1. /\ x \in Row /\ k \in Key /\ rows[x] \in RowType /\ rows[x] # Null
        /\ rows[x].table = "category"
    BY DEF CommitRename, IInv, HasRow
  <2>2. /\ rows'[x] = [rows[x] EXCEPT !.key = k]
        /\ \A i \in Row \ {x} : rows'[i] = rows[i]
    BY <1>2, <2>1 DEF IInv, TypeOK
  <2>3. /\ rows'[x] \in RowType /\ rows'[x] # Null
        /\ rows'[x].key = k /\ rows'[x].table = "category"
        /\ rows'[x].xmin = rows[x].xmin /\ rows'[x].xmax = rows[x].xmax
        /\ rows'[x].gone = rows[x].gone
    BY <2>1, <2>2, NullAssumption DEF RowType
  <2>4. rows' \in [Row -> RowType \cup {Null}]
    BY <1>2, <2>1, <2>2, <2>3 DEF IInv, TypeOK
  <2>5. \A j \in Row \ {x} :
          rows[j] # Null /\ ~rows[j].gone /\ rows[j].table = "category" => rows[j].key # k
    <3>1. SUFFICES ASSUME NEW j \in Row \ {x}, rows[j] # Null, ~rows[j].gone,
                          rows[j].table = "category", rows[j].key = k
                   PROVE  FALSE
      OBVIOUS
    <3>2. rows[j].xmax # r
      BY <3>1 DEF CommitRename, IInv, InDoubt
    <3>3. j \in Collides(r, "category", k)
      BY <3>1, <3>2 DEF Collides, Versions, Keyed, Table
    <3>4. QED
      BY <1>2, <3>1, <3>3
  <2>6. KeysApart'
    <3>1. SUFFICES ASSUME NEW i \in Row, NEW j \in Row,
                          i # j, rows'[i] # Null, rows'[j] # Null,
                          ~rows'[i].gone, ~rows'[j].gone, rows'[i].table \in Keyed,
                          rows'[i].table = rows'[j].table, rows'[i].key = rows'[j].key
                   PROVE  Succeeds(i, j)' \/ Succeeds(j, i)'
      BY DEF KeysApart
    <3>2. ASSUME NEW y \in Row \ {x}, rows'[y] # Null, ~rows'[y].gone,
                 rows'[y].table = "category"
          PROVE  rows'[y].key # k
      <4>1. rows'[y] = rows[y]
        BY <2>2
      <4>2. QED
        BY <2>5, <3>2, <4>1
    <3>3. i # x /\ j # x
      BY <2>3, <3>1, <3>2
    <3>4. rows'[i] = rows[i] /\ rows'[j] = rows[j]
      BY <2>2, <3>3
    <3>5. QED
      BY <3>1, <3>4 DEF Succeeds, IInv, KeysApart
  <2>7. \A i \in Row :
          \/ rows'[i] = Null /\ rows[i] = Null
          \/ /\ rows'[i] # Null /\ rows[i] # Null
             /\ rows'[i].xmin = rows[i].xmin /\ rows'[i].xmax = rows[i].xmax
             /\ rows'[i].table = rows[i].table
             /\ rows[i].table # "category" => rows'[i].key = rows[i].key
    BY <2>1, <2>2, <2>3
  <2> HIDE DEF x, k
  <2>8. Moves(r, "idle", NoTx) /\ answer' \in Answer /\ up' = up /\ pc[r] = "commit"
    BY <1>2 DEF CommitRename, Reply, Answer
  <2>9. QED
    BY <2>4, <2>6, <2>7, <2>8, WriteInv
<1>3. QED
  BY <1>1, <1>2 DEF CommitRename

LEMMA CommitSoftDeleteInv ==
    ASSUME IInv, NEW r \in Request, CommitSoftDelete(r)
    PROVE  IInv'
<1> DEFINE x == tx[r].row
<1>1. x \in Row /\ rows[x] \in RowType /\ rows[x] # Null
  BY DEF CommitSoftDelete, IInv, HasRow
<1>2. /\ rows'[x] = [rows[x] EXCEPT !.deleted = TRUE]
      /\ \A i \in Row \ {x} : rows'[i] = rows[i]
  BY <1>1 DEF CommitSoftDelete, IInv, TypeOK
<1>3. /\ rows'[x] \in RowType /\ rows'[x] # Null
      /\ rows'[x].key = rows[x].key /\ rows'[x].table = rows[x].table
      /\ rows'[x].xmin = rows[x].xmin /\ rows'[x].xmax = rows[x].xmax
      /\ rows'[x].gone = rows[x].gone
  BY <1>1, <1>2, NullAssumption DEF RowType
<1>4. rows' \in [Row -> RowType \cup {Null}]
  BY <1>1, <1>2, <1>3 DEF CommitSoftDelete, IInv, TypeOK
<1>5. \A i \in Row :
        \/ rows'[i] = Null /\ rows[i] = Null
        \/ /\ rows'[i] # Null /\ rows[i] # Null
           /\ rows'[i].key = rows[i].key /\ rows'[i].table = rows[i].table
           /\ rows'[i].xmin = rows[i].xmin /\ rows'[i].xmax = rows[i].xmax
           /\ rows'[i].gone = rows[i].gone
  BY <1>1, <1>2, <1>3
<1>6. KeysApart'
  BY <1>5 DEF IInv, KeysApart, Succeeds
<1> HIDE DEF x
<1>7. QED
  BY <1>4, <1>5, <1>6, WriteInv DEF CommitSoftDelete, Reply, Answer

LEMMA CommitHardDeleteInv ==
    ASSUME IInv, NEW r \in Request, CommitHardDelete(r)
    PROVE  IInv'
<1>1. CASE rows' = rows
  <2>1. Moves(r, "idle", NoTx) /\ answer' \in Answer /\ up' \subseteq Request
    BY DEF CommitHardDelete, Reply, Answer, IInv, TypeOK
  <2>2. QED
    BY <1>1, <2>1, NoTxType, StandsInv DEF CommitHardDelete, Step
<1>2. CASE rows' = [i \in Row |->
            IF i \in Targets(r) THEN [rows[i] EXCEPT !.gone = TRUE] ELSE rows[i]]
  <2>1. \A i \in Row : i \in Targets(r) => rows[i] # Null /\ rows[i] \in RowType
    BY DEF Targets, Holding, Versions, Committed, IInv, TypeOK
  <2>2. \A i \in Row :
          \/ i \notin Targets(r) /\ rows'[i] = rows[i] /\ rows[i] \in RowType \cup {Null}
          \/ /\ rows'[i] = [rows[i] EXCEPT !.gone = TRUE]
             /\ rows[i] # Null /\ rows[i] \in RowType
    BY <1>2, <2>1 DEF IInv, TypeOK
  <2>3. \A i \in Row :
          \/ rows'[i] = Null /\ rows[i] = Null
          \/ /\ rows'[i] # Null /\ rows[i] # Null /\ rows'[i] \in RowType
             /\ rows'[i].key = rows[i].key /\ rows'[i].table = rows[i].table
             /\ rows'[i].xmin = rows[i].xmin /\ rows'[i].xmax = rows[i].xmax
             /\ rows'[i].gone = rows[i].gone \/ rows'[i].gone = TRUE
    <3>1. SUFFICES ASSUME NEW i \in Row, rows[i] # Null, rows[i] \in RowType,
                          rows'[i] = [rows[i] EXCEPT !.gone = TRUE]
                   PROVE  /\ rows'[i] # Null /\ rows'[i] \in RowType
                          /\ rows'[i].key = rows[i].key /\ rows'[i].table = rows[i].table
                          /\ rows'[i].xmin = rows[i].xmin /\ rows'[i].xmax = rows[i].xmax
                          /\ rows'[i].gone = TRUE
      BY <2>2
    <3>2. QED
      BY <3>1, NullAssumption DEF RowType
  <2>4. rows' \in [Row -> RowType \cup {Null}]
    BY <1>2, <2>3
  <2>5. KeysApart'
    BY <2>3 DEF IInv, KeysApart, Succeeds
  <2>6. QED
    BY <2>3, <2>4, <2>5, WriteInv DEF CommitHardDelete, Reply, Answer
<1>3. QED
  BY <1>1, <1>2 DEF CommitHardDelete

(* Only committed rows come to be deleted, and those of the list; a row    *)
(* that is there beside one of them was not inserted by anybody yet.       *)
LEMMA DoomInv ==
    ASSUME IInv, NEW r \in Request, Doom(r)
    PROVE  IInv'
<1> USE DEF IInv
<1>1. /\ pc[r] = "doom" /\ tx[r] \in Tx /\ tx[r].kind = "replace"
      /\ tx[r].seen \subseteq Row
  BY DEF Doom, TypeOK, Carries, Tx
<1>2. \A q \in Request \ {r} : pc'[q] = pc[q] /\ tx'[q] = tx[q]
  BY DEF Doom, Go, Moves, TypeOK
<1>3. pc'[r] = "insert" /\ tx'[r] = tx[r] /\ tx' \in [Request -> Tx]
  BY <1>1 DEF Doom, Go, Moves, TypeOK
<1>4. \A i \in Row : rows[i] # Null => rows[i].xmin # r /\ rows[i].xmax # r
  BY <1>1 DEF InDoubt
<1>5. \A i \in Row :
        \/ /\ rows'[i] = [rows[i] EXCEPT !.xmax = r]
           /\ i \in tx[r].seen /\ Committed(i) /\ rows[i] \in RowType
        \/ rows'[i] = rows[i] /\ rows[i] \in RowType \cup {Null}
  BY DEF Doom, TypeOK, Committed
<1>6. \A i \in tx[r].seen : Committed(i) => rows[i].xmax = Null
  BY <1>1, <1>4 DEF Doom, Locked, Committed
<1>7. \A i \in Row :
        \/ rows'[i] = rows[i] /\ rows[i] \in RowType \cup {Null}
        \/ /\ i \in tx[r].seen /\ rows[i] # Null /\ rows'[i] # Null
           /\ rows[i] \in RowType /\ rows'[i] \in RowType
           /\ rows[i].xmin = Null /\ rows[i].xmax = Null
           /\ rows'[i].xmin = Null /\ rows'[i].xmax = r
           /\ rows'[i].table = rows[i].table /\ rows'[i].key = rows[i].key
           /\ rows'[i].gone = rows[i].gone
  <2>1. SUFFICES ASSUME NEW i \in Row, rows'[i] = [rows[i] EXCEPT !.xmax = r],
                        i \in tx[r].seen, Committed(i), rows[i] \in RowType
                 PROVE  /\ rows[i] # Null /\ rows'[i] # Null /\ rows'[i] \in RowType
                        /\ rows[i].xmin = Null /\ rows[i].xmax = Null
                        /\ rows'[i].xmin = Null /\ rows'[i].xmax = r
                        /\ rows'[i].table = rows[i].table /\ rows'[i].key = rows[i].key
                        /\ rows'[i].gone = rows[i].gone
    BY <1>5
  <2>2. QED
    BY <1>6, <2>1, NullAssumption DEF RowType, Committed
<1>8. InDoubt'
  <2>1. SUFFICES ASSUME NEW i \in Row, NEW q \in Request, rows'[i] # Null
                 PROVE  /\ rows'[i].xmin = q => pc'[q] \in {"insert", "look"}
                        /\ rows'[i].xmax = q =>
                             /\ pc'[q] = "insert" /\ tx'[q].kind = "replace"
                             /\ rows'[i].xmin = Null
                             /\ rows'[i].table = tx'[q].table /\ rows'[i].table \in Replaced
                             /\ ListOf[rows'[i].key] = tx'[q].list
    BY DEF InDoubt
  <2>2. CASE rows'[i] = rows[i]
    BY <1>2, <1>4, <2>1, <2>2 DEF InDoubt
  <2>3. CASE /\ i \in tx[r].seen
             /\ rows'[i].xmin = Null /\ rows'[i].xmax = r
             /\ rows'[i].table = rows[i].table /\ rows'[i].key = rows[i].key
    BY <1>1, <1>3, <2>1, <2>3, NullAssumption DEF SeesItsList
  <2>4. QED
    BY <1>7, <2>2, <2>3
<1>9. TypeOK'
  <2>1. rows' \in [Row -> RowType \cup {Null}]
    BY <1>7 DEF Doom
  <2>2. pc' \in [Request -> Step] /\ answer' \in Answer /\ up' \subseteq Request
    BY DEF Doom, Go, Moves, TypeOK, Step, Answer
  <2>3. \A i \in Row, q \in Request :
            rows'[i] # Null /\ q \in {rows'[i].xmin, rows'[i].xmax} => pc'[q] # "idle"
    BY <1>8 DEF InDoubt
  <2>4. QED
    BY <1>3, <2>1, <2>2, <2>3 DEF TypeOK
<1>10. Carries'
  BY <1>1, <1>2, <1>3 DEF Carries
<1>11. HasRow' /\ SeesItsList'
  <2>1. \A q \in Request : tx[q].seen \subseteq Row
    BY DEF TypeOK, Tx
  <2>2. \A i \in Row : rows[i] # Null /\ rows[i].xmin = Null =>
            /\ rows'[i] # Null /\ rows'[i] \in RowType /\ rows'[i].xmin = Null
            /\ rows'[i].table = rows[i].table /\ rows'[i].key = rows[i].key
    BY <1>7
  <2>3. QED
    BY <1>1, <1>2, <1>3, <2>1, <2>2 DEF HasRow, SeesItsList
<1>12. KeysApart'
  <2>1. SUFFICES ASSUME NEW i \in Row, NEW j \in Row,
                        i # j, rows'[i] # Null, rows'[j] # Null,
                        ~rows'[i].gone, ~rows'[j].gone, rows'[i].table \in Keyed,
                        rows'[i].table = rows'[j].table, rows'[i].key = rows'[j].key
                 PROVE  Succeeds(i, j)' \/ Succeeds(j, i)'
    BY DEF KeysApart
  <2>2. Succeeds(i, j) \/ Succeeds(j, i)
    BY <1>7, <2>1 DEF KeysApart
  <2>3. ASSUME NEW x \in Row, NEW y \in Row, Succeeds(x, y)
        PROVE  Succeeds(x, y)'
    BY <1>7, <2>3, NullAssumption DEF Succeeds
  <2>4. QED
    BY <2>2, <2>3
<1>13. QED
  BY <1>8, <1>9, <1>10, <1>11, <1>12

(* The row that is inserted meets no row of its key but such as the same   *)
(* transaction is deleting.                                                *)
LEMMA InsertNextInv ==
    ASSUME IInv, NEW r \in Request, InsertNext(r)
    PROVE  IInv'
<1> USE DEF IInv
<1> DEFINE t == tx[r].table
           k == Head(tx[r].inserts)
           new == [ table |-> t, key |-> k, deleted |-> FALSE, gone |-> FALSE,
                    xmin |-> r, xmax |-> Null ]
           step == IF tx[r].kind = "seed" THEN "look" ELSE "insert"
           u == [tx[r] EXCEPT !.inserts = Tail(@)]
<1>1. /\ pc[r] = "insert" /\ tx[r] \in Tx /\ t \in Table
      /\ tx[r].kind \in {"create", "replace", "seed"}
      /\ tx[r].kind = "seed" => t = "user"
  BY DEF InsertNext, TypeOK, Carries
<1>2. tx[r].inserts \in Seq(Key) /\ tx[r].inserts # <<>>
  BY <1>1 DEF InsertNext, Tx
<1>3. k \in Key /\ Tail(tx[r].inserts) \in Seq(Key)
  BY <1>2
<1>4. /\ u \in Tx /\ u.kind = tx[r].kind /\ u.table = t
      /\ u.list = tx[r].list
  BY <1>1, <1>3 DEF Tx
<1>5. Rivals(r, t, k) = {} /\ Collides(r, t, k) = {}
  BY DEF InsertNext
<1>6. PICK x \in Row : rows[x] = Null /\ rows' = [rows EXCEPT ![x] = new]
  BY DEF InsertNext
<1> HIDE DEF k, t
<1>7. /\ new \in RowType /\ new # Null /\ new.xmin = r /\ new.xmax = Null
      /\ new.table = t /\ new.key = k
  <2>1. new \in RowType
    BY <1>1, <1>3 DEF RowType
  <2>2. new.xmin = r /\ new.xmax = Null /\ new.table = t /\ new.key = k
    OBVIOUS
  <2>3. QED
    BY <2>1, <2>2, NullAssumption
<1> HIDE DEF new
<1>8. rows'[x] = new /\ \A i \in Row \ {x} : rows'[i] = rows[i]
  BY <1>6 DEF TypeOK
<1>9. step \in {"insert", "look"} /\ (step = "look" <=> tx[r].kind = "seed")
  OBVIOUS
<1>10. Go(r, step, u) /\ up' = up
  BY DEF InsertNext
<1> HIDE DEF step, u
<1>11. /\ pc'[r] = step /\ tx'[r] = u /\ tx' \in [Request -> Tx]
       /\ \A q \in Request \ {r} : pc'[q] = pc[q] /\ tx'[q] = tx[q]
  BY <1>4, <1>10 DEF Go, Moves, TypeOK
<1>12. InDoubt'
  <2>1. SUFFICES ASSUME NEW i \in Row, NEW q \in Request, rows'[i] # Null
                 PROVE  /\ rows'[i].xmin = q => pc'[q] \in {"insert", "look"}
                        /\ rows'[i].xmax = q =>
                             /\ pc'[q] = "insert" /\ tx'[q].kind = "replace"
                             /\ rows'[i].xmin = Null
                             /\ rows'[i].table = tx'[q].table /\ rows'[i].table \in Replaced
                             /\ ListOf[rows'[i].key] = tx'[q].list
    BY DEF InDoubt
  <2>2. CASE i = x
    BY <1>7, <1>8, <1>9, <1>11, <2>1, <2>2, NullAssumption
  <2>3. CASE i # x /\ q # r
    BY <1>8, <1>11, <2>1, <2>3 DEF InDoubt
  <2>4. CASE i # x /\ q = r
    <3>1. rows'[i] = rows[i]
      BY <1>8, <2>4
    <3>2. rows[i].xmax = r => step = "insert"
      BY <1>9, <2>1, <3>1 DEF InDoubt
    <3>3. u.kind = tx[r].kind /\ u.table = tx[r].table /\ u.list = tx[r].list
      BY <1>4 DEF t
    <3>4. QED
      BY <1>9, <1>11, <2>1, <2>4, <3>1, <3>2, <3>3 DEF InDoubt
  <2>5. QED
    BY <2>2, <2>3, <2>4
<1>13. TypeOK'
  <2>1. rows' \in [Row -> RowType \cup {Null}]
    BY <1>6, <1>7 DEF TypeOK
  <2>2. pc' \in [Request -> Step] /\ answer' \in Answer /\ up' \subseteq Request
    BY <1>9, <1>10 DEF Go, Moves, TypeOK, Step, Answer
  <2>3. \A i \in Row, q \in Request :
            rows'[i] # Null /\ q \in {rows'[i].xmin, rows'[i].xmax} => pc'[q] # "idle"
    BY <1>12 DEF InDoubt
  <2>4. QED
    BY <1>11, <2>1, <2>2, <2>3 DEF TypeOK
<1>14. Carries'
  BY <1>1, <1>4, <1>9, <1>11 DEF Carries
<1>15. HasRow' /\ SeesItsList'
  <2>1. HasRow'
    <3>1. SUFFICES ASSUME NEW q \in Request, tx'[q].kind \in {"rename", "delete"}
                   PROVE  HasRow!(q)'
      BY DEF HasRow
    <3>2. q # r
      BY <1>1, <1>4, <1>11, <3>1
    <3>3. QED
      BY <1>6, <1>8, <1>11, <3>1, <3>2 DEF HasRow
  <2>2. SeesItsList'
    <3>1. \A q \in Request : tx[q].seen \subseteq Row
      BY DEF TypeOK, Tx
    <3>2. QED
      BY <1>6, <1>8, <1>9, <1>11, <3>1 DEF SeesItsList
  <2>3. QED
    BY <2>1, <2>2
<1>16. KeysApart'
  <2>1. ASSUME NEW j \in Row \ {x}, rows[j] # Null, ~rows[j].gone, t \in Keyed,
               rows[j].table = t, rows[j].key = k
        PROVE  rows[j].xmax = r
    BY <1>5, <2>1 DEF Collides, Versions
  <2>2. SUFFICES ASSUME NEW i \in Row, NEW j \in Row,
                        i # j, rows'[i] # Null, rows'[j] # Null,
                        ~rows'[i].gone, ~rows'[j].gone, rows'[i].table \in Keyed,
                        rows'[i].table = rows'[j].table, rows'[i].key = rows'[j].key
                 PROVE  Succeeds(i, j)' \/ Succeeds(j, i)'
    BY DEF KeysApart
  <2>3. CASE i = x
    <3>1. rows'[j] = rows[j]
      BY <1>8, <2>2, <2>3
    <3>2. rows[j].xmax = r
      BY <1>7, <1>8, <2>1, <2>2, <2>3, <3>1
    <3>3. QED
      BY <1>7, <1>8, <2>3, <3>1, <3>2 DEF Succeeds
  <2>4. CASE j = x
    <3>1. rows'[i] = rows[i]
      BY <1>8, <2>2, <2>4
    <3>2. rows[i].xmax = r
      BY <1>7, <1>8, <2>1, <2>2, <2>4, <3>1
    <3>3. QED
      BY <1>7, <1>8, <2>4, <3>1, <3>2 DEF Succeeds
  <2>5. CASE i # x /\ j # x
    <3>1. rows'[i] = rows[i] /\ rows'[j] = rows[j]
      BY <1>8, <2>5
    <3>2. QED
      BY <2>2, <3>1 DEF KeysApart, Succeeds
  <2>6. QED
    BY <2>3, <2>4, <2>5
<1>17. QED
  BY <1>12, <1>13, <1>14, <1>15, <1>16

-----------------------------------------------------------------------------
(* Every step preserves the invariant. *)
LEMMA NextInv == IInv /\ [Next]_vars => IInv'
<1> SUFFICES ASSUME IInv, [Next]_vars PROVE IInv'
  OBVIOUS
<1>1. CASE UNCHANGED vars
  BY <1>1 DEF vars, IInv, TypeOK, Carries, HasRow, InDoubt, SeesItsList, KeysApart, Succeeds
<1>2. ASSUME NEW r \in Request,
             \/ CreateArrive(r) \/ CommitUpdate(r) \/ RenameArrive(r) \/ DeleteArrive(r)
             \/ NotFound(r) \/ ReplaceArrive(r) \/ SeedArrive(r) \/ SeedLook(r)
      PROVE  IInv'
  BY <1>2, CreateArriveInv, CommitUpdateInv, RenameArriveInv, DeleteArriveInv,
     NotFoundInv, ReplaceArriveInv, SeedArriveInv, SeedLookInv
<1>3. ASSUME NEW r \in Request,
             \/ CommitRename(r) \/ CommitSoftDelete(r) \/ CommitHardDelete(r)
             \/ Doom(r) \/ InsertNext(r)
      PROVE  IInv'
  BY <1>3, CommitRenameInv, CommitSoftDeleteInv, CommitHardDeleteInv, DoomInv, InsertNextInv
<1>4. ASSUME NEW r \in Request, Commit(r) \/ SeedCommit(r)
      PROVE  IInv'
  <2>1. /\ Commits(r) /\ Moves(r, "idle", NoTx) /\ answer' \in Answer
        /\ up' \subseteq Request
    BY <1>4 DEF Commit, SeedCommit, Reply, Answer, IInv, TypeOK
  <2>2. QED
    BY <2>1, CommitInv
<1>5. ASSUME NEW r \in Request,
             ItemMissing(r) \/ StaffMissing(r) \/ InsertFails(r) \/ Deadlock(r) \/ Abort(r)
      PROVE  IInv'
  <2>1. /\ rows' = [i \in Row |-> Undone(r, i)] /\ Moves(r, "idle", NoTx)
        /\ answer' \in Answer /\ up' \subseteq Request
    BY <1>5 DEF ItemMissing, StaffMissing, InsertFails, Deadlock, Abort, Rollback, Reply,
       Go, Answer,
                IInv, TypeOK
  <2>2. QED
    BY <2>1, RollbackInv
<1>6. QED
  BY <1>1, <1>2, <1>3, <1>4, <1>5 DEF Next

LEMMA SpecInv == Spec => []IInv
BY InitInv, NextInv, PTL DEF Spec

(* Every variable has its type, and no row stays in doubt when the         *)
(* transaction that touched it has ended, however it ended.                *)
THEOREM TypeCorrect == Spec => []TypeOK
<1>1. IInv => TypeOK
  BY DEF IInv
<1>2. QED
  BY <1>1, SpecInv, PTL

(* Whatever is created, renamed, replaced or seeded at the same time, no   *)
(* key of a table with a unique constraint is held by two committed rows.  *)
THEOREM KeysStayUnique == Spec => []KeysUnique
BY SpecInv, ApartIsUnique, PTL

-----------------------------------------------------------------------------
(* What a step does to a row that is committed.                            *)
LEMMA StaysLemma ==
    ASSUME IInv, [Next]_vars, NEW i \in Row, Committed(i)
    PROVE  StaysUnlessMeant(i)
<1> USE DEF IInv
<1>1. rows[i] \in RowType /\ rows[i] # Null /\ rows[i].xmin = Null /\ ~rows[i].gone
  BY DEF Committed, TypeOK
<1>2. CASE rows'[i] = rows[i]
  BY <1>1, <1>2 DEF StaysUnlessMeant
<1>3. ASSUME NEW r \in Request, rows'[i] = Undone(r, i)
      PROVE  StaysUnlessMeant(i)
  <2>1. rows'[i] = rows[i] \/ rows'[i] = [rows[i] EXCEPT !.xmax = Null]
    BY <1>1, <1>3, NullAssumption DEF Undone
  <2>2. rows'[i].gone = rows[i].gone /\ rows'[i].deleted = rows[i].deleted
    BY <1>1, <2>1 DEF RowType
  <2>3. QED
    BY <1>1, <2>2 DEF StaysUnlessMeant
<1>4. ASSUME NEW r \in Request, Commit(r) \/ SeedCommit(r)
      PROVE  StaysUnlessMeant(i)
  <2>1. rows'[i] = Settled(r, i) /\ pc'[r] = "idle"
    BY <1>4 DEF Commit, SeedCommit, Commits, Reply, Moves, TypeOK
  <2>2. CASE rows[i].xmax # r
    BY <1>1, <1>2, <2>1, <2>2, NullAssumption DEF Settled
  <2>3. CASE rows[i].xmax = r
    <3>1. rows'[i] = [rows[i] EXCEPT !.xmax = Null, !.gone = TRUE]
      BY <1>1, <2>1, <2>3, NullAssumption DEF Settled
    <3>2. rows'[i].deleted = rows[i].deleted
      BY <1>1, <3>1 DEF RowType
    <3>3. /\ pc[r] = "insert" /\ tx[r].kind = "replace"
          /\ rows[i].table = tx[r].table /\ ListOf[rows[i].key] = tx[r].list
      BY <1>1, <2>3 DEF InDoubt
    <3>4. QED
      BY <2>1, <3>2, <3>3 DEF StaysUnlessMeant
  <2>4. QED
    BY <2>2, <2>3
<1>5. ASSUME NEW r \in Request, CommitRename(r), rows'[i] # Undone(r, i), rows'[i] # rows[i]
      PROVE  StaysUnlessMeant(i)
  <2>1. rows'[i] = [rows[i] EXCEPT !.key = tx[r].key]
    BY <1>5 DEF CommitRename, Rollback, TypeOK
  <2>2. rows'[i].gone = rows[i].gone /\ rows'[i].deleted = rows[i].deleted
    BY <1>1, <2>1 DEF RowType
  <2>3. QED
    BY <1>1, <2>2 DEF StaysUnlessMeant
<1>6. ASSUME NEW r \in Request, CommitSoftDelete(r), rows'[i] # rows[i]
      PROVE  StaysUnlessMeant(i)
  <2>1. rows'[i] = [rows[i] EXCEPT !.deleted = TRUE]
    BY <1>6 DEF CommitSoftDelete, TypeOK
  <2>2. rows'[i].gone = rows[i].gone /\ rows'[i].deleted = TRUE
    BY <1>1, <2>1 DEF RowType
  <2>3. QED
    BY <1>1, <2>2 DEF StaysUnlessMeant
<1>7. ASSUME NEW r \in Request, CommitHardDelete(r), rows'[i] # rows[i]
      PROVE  StaysUnlessMeant(i)
  <2>1. i \in Targets(r) /\ rows'[i] = [rows[i] EXCEPT !.gone = TRUE]
    BY <1>7 DEF CommitHardDelete
  <2>2. rows'[i].deleted = rows[i].deleted
    BY <1>1, <2>1 DEF RowType
  <2>3. /\ pc[r] = "commit" /\ tx[r].kind = "delete" /\ tx[r].table # "category"
        /\ pc'[r] = "idle"
    BY <1>7 DEF CommitHardDelete, Soft, Reply, Moves, TypeOK
  <2>4. rows[i].table = tx[r].table /\ rows[i].key = tx[r].key
    <3>1. CASE tx[r].table \in Link
      BY <2>1, <3>1 DEF Targets, Holding, Versions
    <3>2. CASE tx[r].table \notin Link
      BY <2>1, <2>3, <3>2 DEF Targets, HasRow
    <3>3. QED
      BY <3>1, <3>2
  <2>5. QED
    BY <2>2, <2>3, <2>4 DEF StaysUnlessMeant
<1>8. ASSUME NEW r \in Request, Doom(r), rows'[i] # rows[i]
      PROVE  StaysUnlessMeant(i)
  <2>1. rows'[i] = [rows[i] EXCEPT !.xmax = r]
    BY <1>8 DEF Doom
  <2>2. rows'[i].gone = rows[i].gone /\ rows'[i].deleted = rows[i].deleted
    BY <1>1, <2>1 DEF RowType
  <2>3. QED
    BY <1>1, <2>2 DEF StaysUnlessMeant
<1>9. ASSUME NEW r \in Request, InsertNext(r)
      PROVE  rows'[i] = rows[i]
  BY <1>1, <1>9 DEF InsertNext, TypeOK
<1>10. ASSUME NEW r \in Request,
              \/ CreateArrive(r) \/ CommitUpdate(r) \/ RenameArrive(r) \/ DeleteArrive(r)
              \/ NotFound(r) \/ ReplaceArrive(r) \/ SeedArrive(r) \/ SeedLook(r)
       PROVE  rows'[i] = rows[i]
  BY <1>10 DEF CreateArrive, CreateCategory, CreateSpecialist, CreateStaff, Register,
               ClientRegister, CreateUser, QualifyStaff, AddSpecialty, AddPackageItem,
               Create, Attach, NotFound, CommitUpdate, RenameArrive,
               DeleteArrive, DeleteCategory, DeleteSpecialist, DeleteStaff, DeleteUser,
               RemoveSpecialty, RemovePackageItem, RemoveQualification, Delete,
               ReplaceArrive, UpdatePackage, UpdateService, SetSchedule, Replace,
               SeedArrive, SeedLook
<1>11. ASSUME NEW r \in Request,
              ItemMissing(r) \/ StaffMissing(r) \/ InsertFails(r) \/ Deadlock(r) \/ Abort(r)
       PROVE  rows'[i] = Undone(r, i)
  BY <1>11 DEF ItemMissing, StaffMissing, InsertFails, Deadlock, Abort, Rollback
<1>12. CASE UNCHANGED vars
  BY <1>2, <1>12 DEF vars
<1>13. QED
  BY <1>2, <1>3, <1>4, <1>5, <1>6, <1>7, <1>8, <1>9, <1>10, <1>11, <1>12 DEF Next

(* No committed row of any table is lost to a request that was about       *)
(* another row or another list, and one marked as deleted stays so.        *)
THEOREM NothingIsLost == Spec => NothingElseVanishes
<1>1. IInv /\ [Next]_vars => [\A i \in Row : StaysUnlessMeant(i)]_vars
  BY StaysLemma DEF StaysUnlessMeant
<1>2. QED
  BY <1>1, SpecInv, PTL DEF Spec, NothingElseVanishes

-----------------------------------------------------------------------------
(* What is undone leaves no trace.                                         *)

(* What a step that acknowledges nothing does to a row.                    *)
LEMMA SameVisible ==
    ASSUME IInv, [Next]_vars, answer' # "done", NEW i \in Row
    PROVE  Visible(i)' = Visible(i)
<1> USE DEF IInv
<1>1. rows[i] = Null \/ rows[i] \in RowType
  BY DEF TypeOK
<1>2. CASE rows'[i] = rows[i]
  BY <1>2 DEF Visible, Committed
<1>3. ASSUME NEW r \in Request, rows'[i] = Undone(r, i)
      PROVE  Visible(i)' = Visible(i)
  <2>1. CASE rows[i] # Null /\ rows[i].xmin = r
    BY <1>3, <2>1, NullAssumption DEF Undone, Visible, Committed
  <2>2. CASE rows[i] # Null /\ rows[i].xmin # r /\ rows[i].xmax = r
    <3>1. rows'[i] = [rows[i] EXCEPT !.xmax = Null]
      BY <1>3, <2>2 DEF Undone
    <3>2. /\ rows'[i] # Null /\ rows'[i].table = rows[i].table /\ rows'[i].key = rows[i].key
          /\ rows'[i].deleted = rows[i].deleted /\ rows'[i].gone = rows[i].gone
          /\ rows'[i].xmin = rows[i].xmin
      BY <1>1, <2>2, <3>1, NullAssumption DEF RowType
    <3> QED
      BY <2>2, <3>2 DEF Visible, Committed
  <2> QED
    BY <1>2, <1>3, <2>1, <2>2 DEF Undone
<1>4. ASSUME NEW r \in Request, Doom(r)
      PROVE  Visible(i)' = Visible(i)
  <2>1. CASE i \in tx[r].seen /\ Committed(i)
    <3>1. rows'[i] = [rows[i] EXCEPT !.xmax = r] /\ rows[i] # Null
      BY <1>4, <2>1 DEF Doom, Committed
    <3>2. /\ rows'[i] # Null /\ rows'[i].table = rows[i].table /\ rows'[i].key = rows[i].key
          /\ rows'[i].deleted = rows[i].deleted /\ rows'[i].gone = rows[i].gone
          /\ rows'[i].xmin = rows[i].xmin
      BY <1>1, <3>1, NullAssumption DEF RowType
    <3> QED
      BY <3>1, <3>2 DEF Visible, Committed
  <2> QED
    BY <1>2, <1>4, <2>1 DEF Doom
<1>5. ASSUME NEW r \in Request, InsertNext(r)
      PROVE  Visible(i)' = Visible(i)
  <2>1. PICK j \in Row :
          /\ rows[j] = Null
          /\ rows' = [rows EXCEPT ![j] =
                [ table |-> tx[r].table, key |-> Head(tx[r].inserts),
                  deleted |-> FALSE, gone |-> FALSE, xmin |-> r, xmax |-> Null ]]
    BY <1>5 DEF InsertNext
  <2>2. CASE i = j
    <3>1. rows[i] = Null /\ rows'[i].xmin = r
      BY <2>1, <2>2 DEF TypeOK
    <3> QED
      BY <3>1, NullAssumption DEF Visible, Committed
  <2> QED
    BY <1>2, <2>1, <2>2
<1>6. ASSUME NEW r \in Request,
             \/ Commit(r) \/ SeedCommit(r) \/ CommitSoftDelete(r) \/ CommitHardDelete(r)
      PROVE  FALSE
  BY <1>6 DEF Commit, SeedCommit, CommitSoftDelete, CommitHardDelete, Reply
<1>7. ASSUME NEW r \in Request, CommitRename(r)
      PROVE  rows'[i] = Undone(r, i)
  BY <1>7 DEF CommitRename, Rollback, Reply
<1>8. ASSUME NEW r \in Request,
             ItemMissing(r) \/ StaffMissing(r) \/ InsertFails(r) \/ Deadlock(r) \/ Abort(r)
      PROVE  rows'[i] = Undone(r, i)
  BY <1>8 DEF ItemMissing, StaffMissing, InsertFails, Deadlock, Abort, Rollback
<1>9. ASSUME NEW r \in Request,
             \/ CreateArrive(r) \/ CommitUpdate(r) \/ RenameArrive(r) \/ DeleteArrive(r)
             \/ NotFound(r) \/ ReplaceArrive(r) \/ SeedArrive(r) \/ SeedLook(r)
      PROVE  rows'[i] = rows[i]
  BY <1>9 DEF CreateArrive, CreateCategory, CreateSpecialist, CreateStaff, Register,
              ClientRegister, CreateUser, QualifyStaff, AddSpecialty, AddPackageItem,
              Create, Attach, NotFound, CommitUpdate, RenameArrive,
              DeleteArrive, DeleteCategory, DeleteSpecialist, DeleteStaff, DeleteUser,
              RemoveSpecialty, RemovePackageItem, RemoveQualification, Delete,
              ReplaceArrive, UpdatePackage, UpdateService, SetSchedule, Replace,
              SeedArrive, SeedLook
<1>10. CASE UNCHANGED vars
  BY <1>2, <1>10 DEF vars
<1> QED
  BY <1>2, <1>3, <1>4, <1>5, <1>6, <1>7, <1>8, <1>9, <1>10 DEF Next

(* A request that is refused, fails on a constraint or a foreign key, is   *)
(* chosen by the deadlock detector or breaks off changes nothing that is   *)
(* committed, of any table, the list it had deleted already included       *)
(* (_replace_items, _replace_staff_assignments, set_schedule; get_db).     *)
THEOREM NoTraceIsLeft == Spec => UndoneLeavesNoTrace
<1>1. IInv /\ [Next]_vars =>
        [answer' # "done" => \A i \in Row : Visible(i)' = Visible(i)]_vars
  BY SameVisible
<1> QED
  BY <1>1, SpecInv, PTL DEF Spec, UndoneLeavesNoTrace

-----------------------------------------------------------------------------
(* What becomes of the rows of others.                                     *)

(* What a step of q does to a row that q has not inserted: all that is     *)
(* known of the row stays, its doubts included.                            *)
RowSteady(q, i) ==
    rows[i] # Null /\ rows[i].xmin # q =>
        /\ rows'[i] # Null
        /\ rows'[i].table = rows[i].table /\ rows'[i].xmin = rows[i].xmin
        /\ rows[i].table # "category" \/ rows[i].xmin # Null => rows'[i].key = rows[i].key
        /\ rows[i].deleted => rows'[i].deleted
        /\ rows[i].gone => rows'[i].gone
        /\ rows[i].xmin # Null /\ ~rows[i].gone => ~rows'[i].gone
        /\ \A p \in Request \ {q} : rows[i].xmax = p => rows'[i].xmax = p

(* And it inserts rows of its own only. *)
OwnInserts(q, i) ==
    rows'[i] # Null /\ rows'[i].xmin \notin {Null, q} =>
        rows[i] # Null /\ rows[i].xmin = rows'[i].xmin

Steady(q) == \A i \in Row : RowSteady(q, i) /\ OwnInserts(q, i)

(* The ways a step writes a row.                                           *)
Writes(q, i) ==
    \/ rows'[i] = rows[i]
    \/ rows'[i] = Undone(q, i)
    \/ rows'[i] = Settled(q, i)
    \/ /\ rows[i] # Null /\ rows[i].table = "category" /\ rows[i].xmin = Null
       /\ \E k \in Key : rows'[i] = [rows[i] EXCEPT !.key = k]
    \/ rows[i] # Null /\ rows'[i] = [rows[i] EXCEPT !.deleted = TRUE]
    \/ Committed(i) /\ rows'[i] = [rows[i] EXCEPT !.gone = TRUE]
    \/ /\ Committed(i) /\ rows[i].xmax \in {Null, q}
       /\ rows'[i] = [rows[i] EXCEPT !.xmax = q]
    \/ /\ rows[i] = Null /\ rows'[i] \in RowType /\ rows'[i].xmin = q

StepOf(q) ==
    \/ CreateArrive(q) \/ CommitUpdate(q) \/ NotFound(q)
    \/ RenameArrive(q) \/ CommitRename(q)
    \/ DeleteArrive(q) \/ CommitSoftDelete(q) \/ CommitHardDelete(q)
    \/ ReplaceArrive(q) \/ Doom(q) \/ ItemMissing(q) \/ StaffMissing(q)
    \/ InsertNext(q) \/ InsertFails(q) \/ Commit(q)
    \/ SeedArrive(q) \/ SeedLook(q) \/ SeedCommit(q)
    \/ Deadlock(q) \/ Abort(q)

LEMMA StepWrites ==
    ASSUME IInv, NEW q \in Request, StepOf(q), NEW i \in Row
    PROVE  Writes(q, i)
<1>1. rows \in [Row -> RowType \cup {Null}]
  BY DEF IInv, TypeOK
<1>2. CASE Commit(q) \/ SeedCommit(q)
  BY <1>2 DEF Commit, SeedCommit, Commits, Writes
<1>3. CASE ItemMissing(q) \/ StaffMissing(q) \/ InsertFails(q) \/ Deadlock(q) \/ Abort(q)
  BY <1>3 DEF ItemMissing, StaffMissing, InsertFails, Deadlock, Abort, Rollback, Writes
<1>4. CASE CommitRename(q)
  <2>1. /\ tx[q].row \in Row /\ tx[q].key \in Key
        /\ rows[tx[q].row] # Null /\ rows[tx[q].row].xmin = Null
        /\ rows[tx[q].row].table = "category"
    BY <1>4 DEF CommitRename, IInv, HasRow
  <2>2. CASE Rollback(q, "error")
    BY <2>2 DEF Rollback, Writes
  <2>3. CASE rows' = [rows EXCEPT ![tx[q].row].key = tx[q].key]
    BY <1>1, <2>1, <2>3 DEF Writes
  <2> QED
    BY <1>4, <2>2, <2>3 DEF CommitRename
<1>5. CASE CommitSoftDelete(q)
  <2>1. tx[q].row \in Row /\ rows[tx[q].row] # Null
    BY <1>5 DEF CommitSoftDelete, IInv, HasRow
  <2> QED
    BY <1>1, <1>5, <2>1 DEF CommitSoftDelete, Writes
<1>6. CASE CommitHardDelete(q)
  <2>1. i \in Targets(q) => Committed(i)
    BY DEF Targets, Holding
  <2> QED
    BY <1>6, <2>1 DEF CommitHardDelete, Writes
<1>7. CASE Doom(q)
  <2>1. i \in tx[q].seen => rows[i].xmax \in {Null, q}
    BY <1>7 DEF Doom, Locked
  <2> QED
    BY <1>7, <2>1 DEF Doom, Writes
<1>8. CASE InsertNext(q)
  <2> DEFINE new == [ table |-> tx[q].table, key |-> Head(tx[q].inserts),
                      deleted |-> FALSE, gone |-> FALSE, xmin |-> q, xmax |-> Null ]
  <2>1. new \in RowType /\ new.xmin = q
    <3>1. /\ tx[q].table \in Table
          /\ tx[q].inserts \in Seq(Key) /\ tx[q].inserts # <<>>
      BY <1>8 DEF InsertNext, IInv, TypeOK, Tx, Carries
    <3> QED
      BY <3>1 DEF RowType
  <2>2. PICK x \in Row : rows[x] = Null /\ rows' = [rows EXCEPT ![x] = new]
    BY <1>8 DEF InsertNext
  <2> HIDE DEF new
  <2> QED
    BY <1>1, <2>1, <2>2 DEF Writes
<1>9. CASE \/ CreateArrive(q) \/ CommitUpdate(q) \/ RenameArrive(q) \/ DeleteArrive(q)
           \/ NotFound(q) \/ ReplaceArrive(q) \/ SeedArrive(q) \/ SeedLook(q)
  <2>1. rows' = rows
    BY <1>9 DEF CreateArrive, CreateCategory, CreateSpecialist, CreateStaff, Register,
               ClientRegister, CreateUser, QualifyStaff, AddSpecialty, AddPackageItem,
               Create, Attach, NotFound, CommitUpdate, RenameArrive,
               DeleteArrive, DeleteCategory, DeleteSpecialist, DeleteStaff, DeleteUser,
               RemoveSpecialty, RemovePackageItem, RemoveQualification, Delete,
               ReplaceArrive, UpdatePackage, UpdateService, SetSchedule, Replace,
               SeedArrive, SeedLook
  <2> QED
    BY <2>1 DEF Writes
<1> QED
  BY <1>2, <1>3, <1>4, <1>5, <1>6, <1>7, <1>8, <1>9 DEF StepOf

LEMMA StepSteady ==
    ASSUME IInv, NEW q \in Request, StepOf(q)
    PROVE  Steady(q)
<1> SUFFICES ASSUME NEW i \in Row PROVE RowSteady(q, i) /\ OwnInserts(q, i)
  BY DEF Steady
<1>1. Writes(q, i)
  BY StepWrites
<1>2. rows[i] \in RowType \cup {Null} /\ Null \notin Request /\ Null \notin RowType
  BY NullAssumption DEF IInv, TypeOK
<1>3. rows[i] # Null => \A p \in Request : rows[i].xmax = p => rows[i].xmin = Null
  BY DEF IInv, InDoubt
<1>4. CASE rows'[i] = rows[i]
  BY <1>2, <1>4 DEF RowSteady, OwnInserts
<1>5. CASE rows'[i] = Undone(q, i)
  <2>1. CASE rows[i] # Null /\ rows[i].xmin # q /\ rows[i].xmax = q
    BY <1>2, <1>5, <2>1 DEF RowSteady, OwnInserts, Undone, RowType
  <2>2. CASE rows[i] # Null /\ rows[i].xmin = q
    BY <1>2, <1>5, <2>2 DEF RowSteady, OwnInserts, Undone
  <2> QED
    BY <1>4, <1>5, <2>1, <2>2 DEF Undone
<1>6. CASE rows'[i] = Settled(q, i)
  <2>1. CASE rows[i] # Null /\ rows[i].xmin # q /\ rows[i].xmax = q
    <3>1. rows[i].xmin = Null
      BY <1>3, <2>1
    <3>2. rows'[i] = [rows[i] EXCEPT !.xmax = Null, !.gone = TRUE]
      BY <1>2, <1>6, <2>1, <3>1 DEF Settled
    <3>3. rows[i] \in RowType
      BY <1>2, <2>1
    <3>4. /\ rows'[i] # Null /\ rows'[i].gone = TRUE /\ rows'[i].xmin = Null
          /\ rows'[i].table = rows[i].table /\ rows'[i].key = rows[i].key
          /\ rows'[i].deleted = rows[i].deleted
      BY <1>2, <3>1, <3>2, <3>3 DEF RowType
    <3> QED
      BY <2>1, <3>1, <3>4 DEF RowSteady, OwnInserts
  <2>2. CASE rows[i] # Null /\ rows[i].xmin = q
    BY <1>2, <1>6, <2>2 DEF RowSteady, OwnInserts, Settled, RowType
  <2> QED
    BY <1>4, <1>6, <2>1, <2>2 DEF Settled
<1>7. CASE /\ rows[i] # Null /\ rows[i].table = "category" /\ rows[i].xmin = Null
           /\ \E k \in Key : rows'[i] = [rows[i] EXCEPT !.key = k]
  BY <1>2, <1>7 DEF RowSteady, OwnInserts, RowType
<1>8. CASE rows[i] # Null /\ rows'[i] = [rows[i] EXCEPT !.deleted = TRUE]
  BY <1>2, <1>8 DEF RowSteady, OwnInserts, RowType
<1>9. CASE Committed(i) /\ rows'[i] = [rows[i] EXCEPT !.gone = TRUE]
  BY <1>2, <1>9 DEF RowSteady, OwnInserts, RowType, Committed
<1>10. CASE /\ Committed(i) /\ rows[i].xmax \in {Null, q}
            /\ rows'[i] = [rows[i] EXCEPT !.xmax = q]
  BY <1>2, <1>10 DEF RowSteady, OwnInserts, RowType, Committed
<1>11. CASE rows[i] = Null /\ rows'[i] \in RowType /\ rows'[i].xmin = q
  BY <1>2, <1>11 DEF RowSteady, OwnInserts
<1> QED
  BY <1>1, <1>4, <1>5, <1>6, <1>7, <1>8, <1>9, <1>10, <1>11 DEF Writes

-----------------------------------------------------------------------------
(* What the transactions that insert keep to themselves.                   *)

(* Default account k is there, for this seeding at least, or is on its way *)
(* into the table, or is still to be looked for.                           *)
Account(r, k) ==
    \/ \E i \in Row :
          /\ rows[i] # Null /\ rows[i].xmin \in {Null, r}
          /\ rows[i].table = "user" /\ rows[i].key = k
    \/ \E n \in DOMAIN tx[r].todo : tx[r].todo[n] = k
    \/ pc[r] = "insert" /\ tx[r].inserts # <<>> /\ Head(tx[r].inserts) = k

Seeding(r) ==
    tx[r].kind = "seed" =>
        /\ pc[r] \in {"look", "insert"}
        /\ \A n \in DOMAIN Defaults : Account(r, Defaults[n])

(* A seeding has inserted nothing that it has still to look for.           *)
SeedsOnce(r) ==
    tx[r].kind = "seed" =>
        /\ \A m, n \in DOMAIN tx[r].todo : tx[r].todo[m] = tx[r].todo[n] => m = n
        /\ \A n \in DOMAIN tx[r].todo :
              /\ \A i \in Row : rows[i] # Null /\ rows[i].xmin = r => rows[i].key # tx[r].todo[n]
              /\ pc[r] = "insert" /\ tx[r].inserts # <<>> => Head(tx[r].inserts) # tx[r].todo[n]

(* What is being inserted has been looked for: nothing live was there, and *)
(* the transaction has no row of that key itself.                          *)
LooksFirst(r) ==
    tx[r].kind \in {"create", "seed"} /\ pc[r] = "insert" /\ tx[r].inserts # <<>> =>
        /\ tx[r].key = Head(tx[r].inserts) /\ Tail(tx[r].inserts) = <<>>
        /\ \A i \in tx[r].seen : rows[i] # Null /\ rows[i].xmin = Null /\ rows[i].deleted
        /\ \A i \in Row : rows[i] # Null /\ rows[i].xmin = r => rows[i].key # tx[r].key

(* A replacement has marked what it has seen, and has inserted or is going *)
(* to insert what it was asked for.                                        *)
Replacing(r) ==
    tx[r].kind = "replace" =>
        /\ pc[r] \in {"doom", "insert"}
        /\ pc[r] = "insert" =>
              \A i \in tx[r].seen :
                  rows[i] # Null /\ rows[i].xmin = Null /\ (rows[i].gone \/ rows[i].xmax = r)
        /\ \A k \in tx[r].asked :
              \/ \E n \in DOMAIN tx[r].inserts : tx[r].inserts[n] = k
              \/ \E i \in Row :
                    /\ rows[i] # Null /\ rows[i].xmin = r /\ ~rows[i].gone
                    /\ rows[i].table = tx[r].table /\ rows[i].key = k

Keeps(r) == Seeding(r) /\ SeedsOnce(r) /\ LooksFirst(r) /\ Replacing(r)

LEMMA TailFacts ==
    ASSUME NEW s \in Seq(Key), s # <<>>
    PROVE  /\ DOMAIN s \subseteq Nat \ {0} /\ 1 \in DOMAIN s /\ Head(s) = s[1]
           /\ \A m \in DOMAIN Tail(s) : m \in Nat /\ m + 1 \in DOMAIN s /\ Tail(s)[m] = s[m + 1]
           /\ \A n \in DOMAIN s :
                n = 1 \/ (n - 1 \in DOMAIN Tail(s) /\ Tail(s)[n - 1] = s[n])
OBVIOUS

LEMMA StepMoves ==
    ASSUME NEW q \in Request, StepOf(q)
    PROVE  \E step, t : Moves(q, step, t)
<1>1. \A step, t : Go(q, step, t) => Moves(q, step, t)
  BY DEF Go
<1>2. \A code : Reply(q, code) => Moves(q, "idle", NoTx)
  BY DEF Reply
<1>3. CASE \/ Commit(q) \/ SeedCommit(q) \/ ItemMissing(q) \/ StaffMissing(q)
           \/ InsertFails(q) \/ Deadlock(q)
           \/ Abort(q) \/ CommitSoftDelete(q) \/ CommitHardDelete(q) \/ CommitUpdate(q)
           \/ NotFound(q)
  BY <1>1, <1>2, <1>3 DEF Commit, SeedCommit, ItemMissing, StaffMissing, InsertFails, Deadlock, Abort,
     CommitSoftDelete, CommitHardDelete, CommitUpdate, NotFound, Rollback
<1>4. CASE CommitRename(q)
  BY <1>2, <1>4 DEF CommitRename, Rollback
<1>5. CASE CreateArrive(q)
  BY <1>1, <1>2, <1>5 DEF CreateArrive, CreateCategory, CreateSpecialist, CreateStaff,
     Register, ClientRegister, CreateUser, QualifyStaff, AddSpecialty, AddPackageItem,
     Create, Attach, Inserts
<1>6. CASE RenameArrive(q)
  BY <1>1, <1>6 DEF RenameArrive
<1>7. CASE DeleteArrive(q)
  BY <1>1, <1>7 DEF DeleteArrive, DeleteCategory, DeleteSpecialist, DeleteStaff,
     DeleteUser, RemoveSpecialty, RemovePackageItem, RemoveQualification, Delete
<1>8. CASE ReplaceArrive(q)
  BY <1>1, <1>8 DEF ReplaceArrive, UpdatePackage, UpdateService, SetSchedule, Replace
<1>9. CASE Doom(q) \/ SeedArrive(q)
  BY <1>1, <1>9 DEF Doom, SeedArrive
<1>10. CASE InsertNext(q)
  BY <1>1, <1>10 DEF InsertNext
<1>11. CASE SeedLook(q)
  BY <1>1, <1>11 DEF SeedLook
<1> QED
  BY <1>3, <1>4, <1>5, <1>6, <1>7, <1>8, <1>9, <1>10, <1>11 DEF StepOf

(* A step leaves the other requests where they are.                        *)
LEMMA OthersStand ==
    ASSUME IInv, NEW q \in Request, StepOf(q), NEW r \in Request \ {q}
    PROVE  pc'[r] = pc[r] /\ tx'[r] = tx[r]
BY StepMoves DEF Moves, IInv, TypeOK

LEMMA OthersKeep ==
    ASSUME IInv, NEW q \in Request, StepOf(q), NEW r \in Request \ {q}, Keeps(r)
    PROVE  Keeps(r)'
<1>1. pc'[r] = pc[r] /\ tx'[r] = tx[r]
  BY OthersStand
<1>2. \A i \in Row : RowSteady(q, i) /\ OwnInserts(q, i)
  BY StepSteady DEF Steady
<1>3. q # Null /\ r # Null /\ r # q /\ tx[r].seen \subseteq Row
  BY NullAssumption DEF IInv, TypeOK, Tx
<1>4. \A i \in Row : rows[i] # Null /\ rows[i].xmin \in {Null, r} =>
        /\ rows'[i] # Null /\ rows'[i].xmin = rows[i].xmin
        /\ rows'[i].table = rows[i].table
        /\ rows[i].table # "category" \/ rows[i].xmin = r => rows'[i].key = rows[i].key
        /\ rows[i].deleted => rows'[i].deleted
        /\ rows[i].gone => rows'[i].gone
        /\ rows[i].xmin = r /\ ~rows[i].gone => ~rows'[i].gone
        /\ rows[i].xmax = r => rows'[i].xmax = r
  BY <1>2, <1>3 DEF RowSteady
<1>5. \A i \in Row : rows'[i] # Null /\ rows'[i].xmin = r =>
        rows[i] # Null /\ rows[i].xmin = r /\ rows'[i].key = rows[i].key
  BY <1>2, <1>3, <1>4 DEF OwnInserts
<1>6. Seeding(r)'
  BY <1>1, <1>4 DEF Keeps, Seeding, Account
<1>7. SeedsOnce(r)'
  BY <1>1, <1>5 DEF Keeps, SeedsOnce
<1>8. LooksFirst(r)'
  BY <1>1, <1>3, <1>4, <1>5 DEF Keeps, LooksFirst
<1>9. Replacing(r)'
  BY <1>1, <1>3, <1>4 DEF Keeps, Replacing
<1> QED
  BY <1>6, <1>7, <1>8, <1>9 DEF Keeps

(* A request that ends, or that inserts nothing.                           *)
LEMMA NothingToKeep ==
    ASSUME IInv, NEW q \in Request, NEW step, NEW t, Moves(q, step, t),
           t.kind \notin {"create", "seed", "replace"}
    PROVE  Keeps(q)'
<1>1. pc'[q] = step /\ tx'[q] = t
  BY DEF Moves, IInv, TypeOK
<1> QED
  BY <1>1 DEF Keeps, Seeding, SeedsOnce, LooksFirst, Replacing

LEMMA EndKeeps ==
    ASSUME IInv, NEW q \in Request, Moves(q, "idle", NoTx)
    PROVE  Keeps(q)'
BY NothingToKeep DEF NoTx

(* An idle request has no row of its own.                                  *)
LEMMA IdleOwnsNothing ==
    ASSUME IInv, NEW q \in Request, pc[q] = "idle", NEW i \in Row, rows[i] # Null
    PROVE  rows[i].xmin # q
BY DEF IInv, TypeOK

LEMMA CreateKeeps ==
    ASSUME IInv, NEW q \in Request, CreateArrive(q)
    PROVE  Keeps(q)'
<1> PICK t \in Table \ {"schedule"}, k \in Key :
        /\ Receives(q, "create", t)
        /\ \/ \E code \in {"conflict", "done"} : Reply(q, code)
           \/ Go(q, "commit", [NoTx EXCEPT !.kind = "update", !.table = t, !.key = k,
                                           !.seen = Taken(t, k)])
           \/ /\ Taken(t, k) = {}
              /\ Go(q, "insert", [NoTx EXCEPT !.kind = "create", !.table = t, !.key = k,
                                           !.inserts = <<k>>, !.seen = Holding(t, k)])
        /\ UNCHANGED rows
  BY DEF CreateArrive, CreateCategory, CreateSpecialist, CreateStaff, Register,
         ClientRegister, CreateUser, QualifyStaff, AddSpecialty, AddPackageItem,
         Create, Attach, Inserts, Table
<1>1. CASE \E code \in {"conflict", "done"} : Reply(q, code)
  BY <1>1, EndKeeps DEF Reply
<1>2. CASE Go(q, "commit", [NoTx EXCEPT !.kind = "update", !.table = t, !.key = k,
                                        !.seen = Taken(t, k)])
  <2> DEFINE u == [NoTx EXCEPT !.kind = "update", !.table = t, !.key = k, !.seen = Taken(t, k)]
  <2>1. Moves(q, "commit", u) /\ u.kind = "update"
    BY <1>2 DEF Go, NoTx
  <2> HIDE DEF u
  <2> QED
    BY <2>1, NothingToKeep
<1>3. CASE /\ Taken(t, k) = {}
           /\ Go(q, "insert", [NoTx EXCEPT !.kind = "create", !.table = t, !.key = k,
                                        !.inserts = <<k>>, !.seen = Holding(t, k)])
  <2> DEFINE v == [NoTx EXCEPT !.kind = "create", !.table = t, !.key = k,
                               !.inserts = <<k>>, !.seen = Holding(t, k)]
  <2>1. /\ v.kind = "create" /\ v.key = k /\ v.seen = Holding(t, k)
        /\ Head(v.inserts) = k /\ Tail(v.inserts) = <<>>
    BY DEF NoTx
  <2>2. Moves(q, "insert", v)
    BY <1>3 DEF Go
  <2> HIDE DEF v
  <2>3. pc'[q] = "insert" /\ tx'[q] = v /\ rows' = rows
    BY <2>2 DEF Moves, IInv, TypeOK
  <2>4. \A i \in Holding(t, k) : rows[i] # Null /\ rows[i].xmin = Null /\ rows[i].deleted
    BY <1>3 DEF Taken, Holding, Versions, Committed
  <2>5. \A i \in Row : rows[i] # Null => rows[i].xmin # q
    BY IdleOwnsNothing DEF Receives
  <2> QED
    BY <2>1, <2>3, <2>4, <2>5 DEF Keeps, Seeding, SeedsOnce, LooksFirst, Replacing
<1> QED
  BY <1>1, <1>2, <1>3

LEMMA RenameDeleteKeeps ==
    ASSUME IInv, NEW q \in Request, RenameArrive(q) \/ DeleteArrive(q)
    PROVE  Keeps(q)'
<1>1. \E step, t : Moves(q, step, t) /\ t.kind \in {"rename", "delete"}
  <2>1. CASE RenameArrive(q)
    <3>1. PICK i \in Row, k \in Key :
            Go(q, "commit", [NoTx EXCEPT !.kind = "rename", !.table = "category",
                                         !.row = i, !.key = k])
      BY <2>1 DEF RenameArrive
    <3> DEFINE u == [NoTx EXCEPT !.kind = "rename", !.table = "category", !.row = i, !.key = k]
    <3>2. u.kind = "rename" /\ Moves(q, "commit", u)
      BY <3>1 DEF Go, NoTx
    <3> HIDE DEF u
    <3> QED
      BY <3>2
  <2>2. CASE DeleteArrive(q)
    <3>1. PICK i \in Row, t \in Table :
            Go(q, "commit", [NoTx EXCEPT !.kind = "delete", !.table = t,
                                         !.row = i, !.key = rows[i].key])
      BY <2>2 DEF DeleteArrive, DeleteCategory, DeleteSpecialist, DeleteStaff,
         DeleteUser, RemoveSpecialty, RemovePackageItem, RemoveQualification, Delete, Table
    <3> DEFINE u == [NoTx EXCEPT !.kind = "delete", !.table = t, !.row = i, !.key = rows[i].key]
    <3>2. u.kind = "delete" /\ Moves(q, "commit", u)
      BY <3>1 DEF Go, NoTx
    <3> HIDE DEF u
    <3> QED
      BY <3>2
  <2> QED
    BY <2>1, <2>2
<1> QED
  BY <1>1, NothingToKeep

LEMMA ReplaceKeeps ==
    ASSUME IInv, NEW q \in Request, ReplaceArrive(q)
    PROVE  Keeps(q)'
<1> PICK t \in Replaced, list \in List : \E asked \in Lists(list) :
        Go(q, "doom",
              [NoTx EXCEPT !.kind = "replace", !.table = t, !.list = list,
                           !.inserts = asked, !.asked = {asked[n] : n \in DOMAIN asked},
                           !.seen = ToDelete(t, list)])
  BY DEF ReplaceArrive, UpdatePackage, UpdateService, SetSchedule, Replace, Replaced
<1> PICK asked \in Lists(list) :
        Go(q, "doom",
              [NoTx EXCEPT !.kind = "replace", !.table = t, !.list = list,
                           !.inserts = asked, !.asked = {asked[n] : n \in DOMAIN asked},
                           !.seen = ToDelete(t, list)])
  OBVIOUS
<1> DEFINE u == [NoTx EXCEPT !.kind = "replace", !.table = t, !.list = list,
                             !.inserts = asked, !.asked = {asked[n] : n \in DOMAIN asked},
                             !.seen = ToDelete(t, list)]
<1>1. /\ u.kind = "replace" /\ u.inserts = asked
      /\ u.asked = {asked[n] : n \in DOMAIN asked} /\ Moves(q, "doom", u)
  BY DEF Go, NoTx
<1> HIDE DEF u
<1>2. pc'[q] = "doom" /\ tx'[q] = u
  BY <1>1 DEF Moves, IInv, TypeOK
<1> QED
  BY <1>1, <1>2 DEF Keeps, Seeding, SeedsOnce, LooksFirst, Replacing

LEMMA DoomKeeps ==
    ASSUME IInv, NEW q \in Request, Doom(q), Keeps(q)
    PROVE  Keeps(q)'
<1>1. /\ pc[q] = "doom" /\ tx[q].kind = "replace" /\ tx[q].seen \subseteq Row
      /\ pc'[q] = "insert" /\ tx'[q] = tx[q]
  BY DEF Doom, Go, Moves, IInv, TypeOK, Carries, Tx
<1>2. \A i \in tx[q].seen : rows[i] # Null /\ rows[i] \in RowType /\ rows[i].xmin = Null
  BY <1>1 DEF IInv, SeesItsList, TypeOK
<1>3. \A i \in tx[q].seen :
        rows'[i] # Null /\ rows'[i].xmin = Null /\ (rows'[i].gone \/ rows'[i].xmax = q)
  <2> SUFFICES ASSUME NEW i \in tx[q].seen
               PROVE  rows'[i] # Null /\ rows'[i].xmin = Null /\ (rows'[i].gone \/ rows'[i].xmax = q)
    OBVIOUS
  <2>1. CASE Committed(i)
    <3>1. rows'[i] = [rows[i] EXCEPT !.xmax = q]
      BY <1>1, <2>1 DEF Doom
    <3> QED
      BY <1>2, <3>1, NullAssumption DEF RowType
  <2>2. CASE ~Committed(i)
    <3>1. rows'[i] = rows[i]
      BY <1>1, <2>2 DEF Doom
    <3> QED
      BY <1>2, <2>2, <3>1 DEF Committed
  <2> QED
    BY <2>1, <2>2
<1>4. \A i \in Row : rows[i] # Null => rows[i].xmin # q
  BY <1>1 DEF IInv, InDoubt
<1> QED
  BY <1>1, <1>3, <1>4 DEF Keeps, Seeding, SeedsOnce, LooksFirst, Replacing

LEMMA SeedArriveKeeps ==
    ASSUME IInv, NEW q \in Request, SeedArrive(q)
    PROVE  Keeps(q)'
<1> DEFINE u == [NoTx EXCEPT !.kind = "seed", !.table = "user", !.todo = Defaults]
<1>1. u.kind = "seed" /\ u.todo = Defaults /\ Moves(q, "look", u)
  BY DEF SeedArrive, Go, NoTx
<1> HIDE DEF u
<1>2. pc'[q] = "look" /\ tx'[q] = u /\ rows' = rows
  BY <1>1 DEF Moves, SeedArrive, IInv, TypeOK
<1>3. \A i \in Row : rows[i] # Null => rows[i].xmin # q
  BY IdleOwnsNothing DEF SeedArrive, Receives
<1>4. Seeding(q)'
  BY <1>1, <1>2 DEF Seeding, Account
<1>5. SeedsOnce(q)'
  BY <1>1, <1>2, <1>3, DefaultsAssumption DEF SeedsOnce
<1> QED
  BY <1>1, <1>2, <1>4, <1>5 DEF Keeps, LooksFirst, Replacing

LEMMA SeedLookKeeps ==
    ASSUME IInv, NEW q \in Request, SeedLook(q), Keeps(q)
    PROVE  Keeps(q)'
<1> PICK s : s = tx[q].todo
  OBVIOUS
<1> PICK k : k = Head(s)
  OBVIOUS
<1> DEFINE t == [tx[q] EXCEPT !.todo = Tail(s), !.key = k, !.seen = Holding("user", k)]
           v == [t EXCEPT !.inserts = <<k>>]
<1>1. /\ pc[q] = "look" /\ s # <<>> /\ tx[q] \in Tx /\ tx[q].kind = "seed"
      /\ s \in Seq(Key) /\ k \in Key /\ rows' = rows
  BY DEF SeedLook, IInv, TypeOK, Carries, Tx
<1>2. /\ DOMAIN s \subseteq Nat \ {0} /\ 1 \in DOMAIN s /\ k = s[1]
      /\ \A m \in DOMAIN Tail(s) : m \in Nat /\ m + 1 \in DOMAIN s /\ Tail(s)[m] = s[m + 1]
      /\ \A n \in DOMAIN s :
           n = 1 \/ (n - 1 \in DOMAIN Tail(s) /\ Tail(s)[n - 1] = s[n])
  BY <1>1, TailFacts
<1>3. \A n \in DOMAIN s : s[n] = k \/ \E m \in DOMAIN Tail(s) : Tail(s)[m] = s[n]
  BY <1>2
<1>4. /\ \A m, n \in DOMAIN Tail(s) : Tail(s)[m] = Tail(s)[n] => m = n
      /\ \A n \in DOMAIN Tail(s) :
            /\ Tail(s)[n] # k
            /\ \A i \in Row : rows[i] # Null /\ rows[i].xmin = q => rows[i].key # Tail(s)[n]
  <2>1. /\ \A m, n \in DOMAIN s : s[m] = s[n] => m = n
        /\ \A n \in DOMAIN s : \A i \in Row :
              rows[i] # Null /\ rows[i].xmin = q => rows[i].key # s[n]
    BY <1>1 DEF Keeps, SeedsOnce
  <2>2. \A m, n \in DOMAIN Tail(s) : Tail(s)[m] = Tail(s)[n] => m = n
    <3> SUFFICES ASSUME NEW m \in DOMAIN Tail(s), NEW n \in DOMAIN Tail(s),
                        Tail(s)[m] = Tail(s)[n]
                 PROVE  m = n
      OBVIOUS
    <3>1. m + 1 = n + 1
      BY <1>2, <2>1
    <3> QED
      BY <1>2, <3>1
  <2>3. \A n \in DOMAIN Tail(s) : Tail(s)[n] # k
    <3> SUFFICES ASSUME NEW n \in DOMAIN Tail(s), Tail(s)[n] = k PROVE FALSE
      OBVIOUS
    <3>1. n + 1 = 1 /\ n + 1 \in DOMAIN s /\ n \in Nat
      BY <1>2, <2>1
    <3>2. n = 0
      BY <3>1
    <3>3. DOMAIN Tail(s) \subseteq Nat \ {0}
      BY <1>1
    <3> QED
      BY <3>2, <3>3
  <2>4. \A n \in DOMAIN Tail(s) : \A i \in Row :
          rows[i] # Null /\ rows[i].xmin = q => rows[i].key # Tail(s)[n]
    BY <1>2, <2>1
  <2> QED
    BY <2>2, <2>3, <2>4
<1>5. t.kind = "seed" /\ t.todo = Tail(s)
  BY <1>1 DEF Tx
<1>6. v.kind = "seed" /\ v.todo = Tail(s) /\ v.key = k /\ v.seen = Holding("user", k)
      /\ v.inserts = <<k>> /\ Head(v.inserts) = k /\ Tail(v.inserts) = <<>>
  BY <1>1 DEF Tx
<1>7. \/ Taken("user", k) # {} /\ Moves(q, "look", t)
      \/ Taken("user", k) = {} /\ Moves(q, "insert", v)
  BY <1>1 DEF SeedLook, AfterFound, Go, Tx
<1> HIDE DEF t, v
<1>8. \A n \in DOMAIN Defaults :
        \/ \E i \in Row :
              /\ rows[i] # Null /\ rows[i].xmin \in {Null, q}
              /\ rows[i].table = "user" /\ rows[i].key = Defaults[n]
        \/ \E m \in DOMAIN Tail(s) : Tail(s)[m] = Defaults[n]
        \/ Defaults[n] = k
  BY <1>1, <1>3 DEF Keeps, Seeding, Account
<1>9. CASE Taken("user", k) # {} /\ Moves(q, "look", t)
  <2>1. pc'[q] = "look" /\ tx'[q] = t
    BY <1>9 DEF Moves, IInv, TypeOK
  <2>2. \E i \in Row : /\ rows[i] # Null /\ rows[i].xmin \in {Null, q}
                       /\ rows[i].table = "user" /\ rows[i].key = k
    BY <1>9 DEF Taken, Holding, Versions, Committed
  <2>3. Seeding(q)'
    <3>1. PICK rest : rest = Tail(s)
      OBVIOUS
    <3>2. tx'[q].todo = rest
      BY <1>5, <2>1, <3>1
    <3>3. \A n \in DOMAIN Defaults :
            \/ \E i \in Row :
                  /\ rows'[i] # Null /\ rows'[i].xmin \in {Null, q}
                  /\ rows'[i].table = "user" /\ rows'[i].key = Defaults[n]
            \/ \E m \in DOMAIN rest : rest[m] = Defaults[n]
      BY <1>1, <1>8, <2>2, <3>1
    <3> QED
      BY <2>1, <3>2, <3>3 DEF Seeding, Account
  <2>4. SeedsOnce(q)'
    BY <1>1, <1>4, <1>5, <2>1 DEF SeedsOnce
  <2> QED
    BY <1>5, <2>1, <2>3, <2>4 DEF Keeps, LooksFirst, Replacing
<1>10. CASE Taken("user", k) = {} /\ Moves(q, "insert", v)
  <2>1. pc'[q] = "insert" /\ tx'[q] = v
    BY <1>10 DEF Moves, IInv, TypeOK
  <2>2. Holding("user", k) = {}
    BY <1>10 DEF Taken, Holding, Versions
  <2>3. Seeding(q)'
    <3>1. PICK rest : rest = Tail(s)
      OBVIOUS
    <3>2. /\ tx'[q].todo = rest
          /\ tx'[q].inserts # <<>> /\ Head(tx'[q].inserts) = k
      BY <1>6, <2>1, <3>1
    <3>3. \A n \in DOMAIN Defaults :
            \/ \E i \in Row :
                  /\ rows'[i] # Null /\ rows'[i].xmin \in {Null, q}
                  /\ rows'[i].table = "user" /\ rows'[i].key = Defaults[n]
            \/ \E m \in DOMAIN rest : rest[m] = Defaults[n]
            \/ Defaults[n] = k
      BY <1>1, <1>8, <3>1
    <3> QED
      BY <2>1, <3>2, <3>3 DEF Seeding, Account
  <2>4. SeedsOnce(q)'
    BY <1>1, <1>4, <1>6, <2>1 DEF SeedsOnce
  <2>5. \A i \in Row : rows[i] # Null /\ rows[i].xmin = q => rows[i].key # k
    BY <1>1, <1>2 DEF Keeps, SeedsOnce
  <2>6. LooksFirst(q)'
    BY <1>1, <1>6, <2>1, <2>2, <2>5 DEF LooksFirst
  <2> QED
    BY <1>6, <2>1, <2>3, <2>4, <2>6 DEF Keeps, Replacing
<1> QED
  BY <1>7, <1>9, <1>10

LEMMA InsertNextKeeps ==
    ASSUME IInv, NEW q \in Request, InsertNext(q), Keeps(q)
    PROVE  Keeps(q)'
<1> PICK s : s = tx[q].inserts
  OBVIOUS
<1> PICK k : k = Head(s)
  OBVIOUS
<1> DEFINE new == [ table |-> tx[q].table, key |-> k, deleted |-> FALSE, gone |-> FALSE,
                    xmin |-> q, xmax |-> Null ]
           step == IF tx[q].kind = "seed" THEN "look" ELSE "insert"
           u == [tx[q] EXCEPT !.inserts = Tail(s)]
<1>1. /\ pc[q] = "insert" /\ s # <<>> /\ tx[q] \in Tx /\ tx[q].table \in Table
      /\ tx[q].kind \in {"create", "replace", "seed"}
      /\ tx[q].kind = "seed" => tx[q].table = "user"
      /\ s \in Seq(Key) /\ k \in Key /\ tx[q].seen \subseteq Row
  BY DEF InsertNext, IInv, TypeOK, Carries, Tx
<1>2. \A n \in DOMAIN s : s[n] = k \/ \E m \in DOMAIN Tail(s) : Tail(s)[m] = s[n]
  BY <1>1, TailFacts
<1>3. /\ u.kind = tx[q].kind /\ u.table = tx[q].table /\ u.todo = tx[q].todo
      /\ u.inserts = Tail(s) /\ u.asked = tx[q].asked /\ u.seen = tx[q].seen
  BY <1>1 DEF Tx
<1>4. PICK x \in Row : rows[x] = Null /\ rows' = [rows EXCEPT ![x] = new]
  BY DEF InsertNext
<1>5. Moves(q, step, u)
  BY DEF InsertNext, Go
<1>6. /\ new # Null /\ new.xmin = q /\ new.table = tx[q].table /\ new.key = k
      /\ new.gone = FALSE
  <2>1. new \in RowType
    BY <1>1 DEF RowType
  <2> QED
    BY <2>1, NullAssumption
<1>7. step \in {"insert", "look"} /\ (step = "look" <=> tx[q].kind = "seed")
  OBVIOUS
<1> HIDE DEF new, u, step
<1>8. rows'[x] = new /\ \A i \in Row \ {x} : rows'[i] = rows[i]
  BY <1>4 DEF IInv, TypeOK
<1>9. pc'[q] = step /\ tx'[q] = u
  BY <1>5 DEF Moves, IInv, TypeOK
<1>10. \A i \in Row : rows[i] # Null => rows'[i] = rows[i]
  BY <1>4, <1>8
<1>11. CASE tx[q].kind = "seed"
  <2>1. \A n \in DOMAIN Defaults :
          \/ \E i \in Row :
                /\ rows[i] # Null /\ rows[i].xmin \in {Null, q}
                /\ rows[i].table = "user" /\ rows[i].key = Defaults[n]
          \/ \E m \in DOMAIN tx[q].todo : tx[q].todo[m] = Defaults[n]
          \/ Defaults[n] = k
    BY <1>11 DEF Keeps, Seeding, Account
  <2>2. \E i \in Row :
          /\ rows'[i] # Null /\ rows'[i].xmin \in {Null, q}
          /\ rows'[i].table = "user" /\ rows'[i].key = k
    BY <1>1, <1>6, <1>8, <1>11
  <2>3. Seeding(q)'
    BY <1>3, <1>7, <1>9, <1>10, <1>11, <2>1, <2>2 DEF Seeding, Account
  <2>4. SeedsOnce(q)'
    BY <1>1, <1>3, <1>6, <1>7, <1>8, <1>9, <1>11 DEF Keeps, SeedsOnce
  <2> QED
    BY <1>3, <1>7, <1>9, <1>11, <2>3, <2>4 DEF Keeps, LooksFirst, Replacing
<1>12. CASE tx[q].kind = "create"
  <2>1. Tail(s) = <<>>
    BY <1>1, <1>12 DEF Keeps, LooksFirst
  <2> QED
    BY <1>3, <1>9, <1>12, <2>1 DEF Keeps, Seeding, SeedsOnce, LooksFirst, Replacing
<1>13. CASE tx[q].kind = "replace"
  <2>1. \A i \in tx[q].seen :
          /\ i \in Row /\ rows[i] # Null
          /\ rows[i].xmin = Null /\ (rows[i].gone \/ rows[i].xmax = q)
    BY <1>1, <1>13 DEF Keeps, Replacing
  <2>2. \A j \in tx[q].asked :
          \/ \E n \in DOMAIN s : s[n] = j
          \/ \E i \in Row :
                /\ rows[i] # Null /\ rows[i].xmin = q /\ ~rows[i].gone
                /\ rows[i].table = tx[q].table /\ rows[i].key = j
    BY <1>13 DEF Keeps, Replacing
  <2>3. \A j \in tx[q].asked :
          \/ \E n \in DOMAIN Tail(s) : Tail(s)[n] = j
          \/ \E i \in Row :
                /\ rows'[i] # Null /\ rows'[i].xmin = q /\ ~rows'[i].gone
                /\ rows'[i].table = tx[q].table /\ rows'[i].key = j
    BY <1>2, <1>6, <1>8, <1>10, <2>2
  <2>4. Replacing(q)'
    <3>1. \A i \in tx'[q].seen :
            rows'[i] # Null /\ rows'[i].xmin = Null /\ (rows'[i].gone \/ rows'[i].xmax = q)
      BY <1>3, <1>9, <1>10, <2>1
    <3>2. PICK rest : rest = Tail(s)
      OBVIOUS
    <3>3. tx'[q].inserts = rest /\ tx'[q].asked = tx[q].asked /\ tx'[q].table = tx[q].table
      BY <1>3, <1>9, <3>2
    <3>4. \A j \in tx[q].asked :
            \/ \E n \in DOMAIN rest : rest[n] = j
            \/ \E i \in Row :
                  /\ rows'[i] # Null /\ rows'[i].xmin = q /\ ~rows'[i].gone
                  /\ rows'[i].table = tx[q].table /\ rows'[i].key = j
      BY <2>3, <3>2
    <3>5. pc'[q] = "insert"
      BY <1>7, <1>9, <1>13
    <3> QED
      BY <3>1, <3>3, <3>4, <3>5 DEF Replacing
  <2> QED
    BY <1>3, <1>9, <1>13, <2>4 DEF Keeps, Seeding, SeedsOnce, LooksFirst
<1> QED
  BY <1>1, <1>11, <1>12, <1>13

LEMMA StepKeeps ==
    ASSUME IInv, NEW q \in Request, StepOf(q), Keeps(q)
    PROVE  Keeps(q)'
<1>1. CASE \/ Commit(q) \/ SeedCommit(q) \/ ItemMissing(q) \/ StaffMissing(q)
           \/ InsertFails(q) \/ Deadlock(q)
           \/ Abort(q) \/ CommitSoftDelete(q) \/ CommitHardDelete(q) \/ CommitUpdate(q)
           \/ NotFound(q) \/ CommitRename(q)
  <2>1. Moves(q, "idle", NoTx)
    BY <1>1 DEF Commit, SeedCommit, ItemMissing, StaffMissing, InsertFails, Deadlock, Abort, Go, Reply,
       CommitSoftDelete, CommitHardDelete, CommitUpdate, NotFound, CommitRename, Rollback
  <2> QED
    BY <2>1, EndKeeps
<1>2. CASE \/ CreateArrive(q) \/ RenameArrive(q) \/ DeleteArrive(q) \/ ReplaceArrive(q)
           \/ Doom(q) \/ SeedArrive(q) \/ SeedLook(q) \/ InsertNext(q)
  BY <1>2, CreateKeeps, RenameDeleteKeeps, ReplaceKeeps, DoomKeeps, SeedArriveKeeps,
     SeedLookKeeps, InsertNextKeeps
<1> QED
  BY <1>1, <1>2 DEF StepOf

-----------------------------------------------------------------------------
(* The second layer of the invariant: what the transactions keep, and what *)
(* a server that has started leaves behind.                                *)

IKeeps == IInv /\ (\A r \in Request : Keeps(r)) /\ StartedIsSeeded

LEMMA InitKeeps == Init => IKeeps
<1> SUFFICES ASSUME Init PROVE IKeeps
  OBVIOUS
<1>1. \A r \in Request : tx[r].kind = "none"
  BY DEF Init, NoTx
<1>2. up = {}
  BY DEF Init
<1> QED
  BY <1>1, <1>2, InitInv
     DEF IKeeps, Keeps, Seeding, SeedsOnce, LooksFirst, Replacing, StartedIsSeeded

(* A server that starts commits the accounts it has inserted; those that   *)
(* were there stay.                                                        *)
LEMMA SeedCommitSeeds ==
    ASSUME IInv, NEW q \in Request, SeedCommit(q), Keeps(q)
    PROVE  StartedIsSeeded'
<1>1. /\ tx[q].kind = "seed" /\ pc[q] = "look" /\ tx[q].todo = <<>>
      /\ \A i \in Row : rows'[i] = Settled(q, i)
  BY DEF SeedCommit, Commits, IInv, Carries
<1> SUFFICES ASSUME NEW n \in DOMAIN Defaults
             PROVE  \E i \in Row :
                      /\ rows'[i] # Null /\ rows'[i].xmin = Null
                      /\ rows'[i].table = "user" /\ rows'[i].key = Defaults[n]
  BY DEF StartedIsSeeded
<1>2. PICK i \in Row :
        /\ rows[i] # Null /\ rows[i].xmin \in {Null, q}
        /\ rows[i].table = "user" /\ rows[i].key = Defaults[n]
  <2>1. Account(q, Defaults[n])
    BY <1>1 DEF Keeps, Seeding
  <2>2. DOMAIN tx[q].todo = {}
    BY <1>1
  <2> QED
    BY <1>1, <2>1, <2>2 DEF Account
<1>3. rows[i] \in RowType
  BY <1>2 DEF IInv, TypeOK
<1>4. CASE rows[i].xmin = q
  <2>1. rows'[i] = [rows[i] EXCEPT !.xmin = Null]
    BY <1>1, <1>2, <1>4 DEF Settled
  <2> QED
    BY <1>2, <1>3, <2>1, NullAssumption DEF RowType
<1>5. CASE rows[i].xmin = Null
  <2>1. RowSteady(q, i)
    BY StepSteady DEF StepOf, Steady
  <2> QED
    BY <1>2, <1>5, <2>1, NullAssumption DEF RowSteady
<1> QED
  BY <1>2, <1>4, <1>5

LEMMA NextKeeps == IKeeps /\ [Next]_vars => IKeeps'
<1> SUFFICES ASSUME IKeeps, [Next]_vars PROVE IKeeps'
  OBVIOUS
<1>1. IInv'
  BY NextInv DEF IKeeps
<1>2. CASE UNCHANGED vars
  BY <1>1, <1>2 DEF vars, IKeeps, Keeps, Seeding, Account, SeedsOnce, LooksFirst,
     Replacing, StartedIsSeeded
<1>3. ASSUME NEW q \in Request, StepOf(q) PROVE IKeeps'
  <2>1. \A r \in Request : Keeps(r)'
    BY <1>3, StepKeeps, OthersKeep DEF IKeeps
  <2>2. StartedIsSeeded'
    <3>1. CASE SeedCommit(q)
      BY <3>1, SeedCommitSeeds DEF IKeeps
    <3>2. CASE ~SeedCommit(q)
      <4>1. up' = up
        BY <1>3, <3>2 DEF StepOf, CreateArrive, CreateCategory, CreateSpecialist,
           CreateStaff, Register, ClientRegister, CreateUser, QualifyStaff, AddSpecialty,
           AddPackageItem, Create, Attach, NotFound, CommitUpdate, RenameArrive, CommitRename,
           DeleteArrive, DeleteCategory, DeleteSpecialist, DeleteStaff, DeleteUser,
           RemoveSpecialty, RemovePackageItem, RemoveQualification, Delete,
           CommitSoftDelete, CommitHardDelete, ReplaceArrive, UpdatePackage, UpdateService,
           SetSchedule, Replace, Doom, ItemMissing, StaffMissing, InsertNext, InsertFails, Commit,
           SeedArrive, SeedLook, Deadlock, Abort
      <4>2. \A i \in Row :
              rows[i] # Null /\ rows[i].xmin = Null /\ rows[i].table = "user" =>
                /\ rows'[i] # Null /\ rows'[i].xmin = Null
                /\ rows'[i].table = "user" /\ rows'[i].key = rows[i].key
        BY <1>3, StepSteady, NullAssumption DEF IKeeps, Steady, RowSteady
      <4> QED
        BY <4>1, <4>2 DEF IKeeps, StartedIsSeeded
    <3> QED
      BY <3>1, <3>2
  <2> QED
    BY <1>1, <2>1, <2>2 DEF IKeeps
<1> QED
  BY <1>2, <1>3 DEF Next, StepOf

LEMMA InvarianceKeeps == Spec => []IKeeps
BY InitKeeps, NextKeeps, PTL DEF Spec

(* A server that has started has found or created every default account,   *)
(* whatever other servers and administrators did meanwhile; one that is    *)
(* missing has been deleted since (seed_accounts, delete_user).            *)
THEOREM StartsSeeded == Spec => []StartedIsSeeded
<1>1. IKeeps => StartedIsSeeded
  BY DEF IKeeps
<1> QED
  BY <1>1, InvarianceKeeps, PTL

-----------------------------------------------------------------------------
(* The answers to what is inserted.                                        *)

(* Who answers a request that is inserting, and how.                       *)
LEMMA WhoAnswers ==
    ASSUME IInv, [Next]_vars, NEW r \in Request, pc[r] = "insert", pc'[r] = "idle"
    PROVE  /\ answer' = "done" => Commit(r)
           /\ answer' = "error" /\ tx[r].kind # "replace" => InsertFails(r)
<1>1. PICK q \in Request : StepOf(q)
  BY DEF Next, vars, StepOf
<1>2. q = r
  BY <1>1, OthersStand
<1>3. /\ ~CreateArrive(r) /\ ~RenameArrive(r) /\ ~DeleteArrive(r) /\ ~ReplaceArrive(r)
      /\ ~SeedArrive(r)
  BY DEF CreateArrive, CreateCategory, CreateSpecialist, CreateStaff, Register,
     ClientRegister, CreateUser, QualifyStaff, AddSpecialty, AddPackageItem, Create, Attach,
     RenameArrive, DeleteArrive, DeleteCategory, DeleteSpecialist, DeleteStaff, DeleteUser,
     RemoveSpecialty, RemovePackageItem, RemoveQualification, Delete,
     ReplaceArrive, UpdatePackage, UpdateService, SetSchedule, Replace, SeedArrive, Receives
<1>4. /\ ~CommitUpdate(r) /\ ~NotFound(r) /\ ~CommitRename(r) /\ ~CommitSoftDelete(r)
      /\ ~CommitHardDelete(r) /\ ~Doom(r) /\ ~SeedLook(r) /\ ~SeedCommit(r)
  BY DEF CommitUpdate, NotFound, Receives, CommitRename, CommitSoftDelete,
     CommitHardDelete, Doom, SeedLook, SeedCommit
<1>5. ~InsertNext(r)
  BY DEF InsertNext, Go, Moves, IInv, TypeOK
<1>6. ItemMissing(r) \/ StaffMissing(r) \/ InsertFails(r) \/ Commit(r) \/ Deadlock(r) \/ Abort(r)
  BY <1>1, <1>2, <1>3, <1>4, <1>5 DEF StepOf
<1> QED
  BY <1>6 DEF ItemMissing, StaffMissing, InsertFails, Commit, Deadlock, Abort, Rollback,
     Reply, Go

(* The replacement of a list leaves nothing of what was there when it      *)
(* began and everything that was asked for, also beside another            *)
(* replacement of the same list (_replace_items,                           *)
(* _replace_staff_assignments, set_schedule).                              *)
THEOREM ReplacementsHold == Spec => ReplacementHolds
<1>1. IKeeps /\ [Next]_vars =>
        [\A r \in Request :
            /\ tx[r].kind = "replace" /\ pc[r] = "insert" /\ pc'[r] = "idle"
            /\ answer' = "done"
            => /\ \A i \in tx[r].seen : rows'[i].gone
               /\ \A k \in tx[r].asked : \E i \in Row :
                    Committed(i)' /\ rows'[i].table = tx[r].table /\ rows'[i].key = k]_vars
  <2> SUFFICES ASSUME IKeeps, [Next]_vars, NEW r \in Request, tx[r].kind = "replace",
                      pc[r] = "insert", pc'[r] = "idle", answer' = "done"
               PROVE  /\ \A i \in tx[r].seen : rows'[i].gone
                      /\ \A k \in tx[r].asked : \E i \in Row :
                           Committed(i)' /\ rows'[i].table = tx[r].table /\ rows'[i].key = k
    OBVIOUS
  <2>1. /\ tx[r].inserts = <<>> /\ \A i \in Row : rows'[i] = Settled(r, i)
    BY WhoAnswers DEF IKeeps, Commit, Commits
  <2>2. ASSUME NEW i \in tx[r].seen PROVE rows'[i].gone
    <3>1. /\ i \in Row /\ rows[i] \in RowType /\ rows[i].xmin = Null
          /\ rows[i].gone \/ rows[i].xmax = r
      BY DEF IKeeps, Keeps, Replacing, IInv, TypeOK, Tx
    <3>2. \/ rows'[i] = [rows[i] EXCEPT !.xmax = Null, !.gone = TRUE]
          \/ rows'[i] = rows[i] /\ rows[i].gone
      BY <2>1, <3>1, NullAssumption DEF Settled
    <3> QED
      BY <3>1, <3>2 DEF RowType
  <2>3. ASSUME NEW k \in tx[r].asked
        PROVE  \E i \in Row :
                 Committed(i)' /\ rows'[i].table = tx[r].table /\ rows'[i].key = k
    <3>1. DOMAIN tx[r].inserts = {}
      BY <2>1
    <3>2. PICK i \in Row :
            /\ rows[i] # Null /\ rows[i].xmin = r /\ ~rows[i].gone
            /\ rows[i].table = tx[r].table /\ rows[i].key = k
      BY <3>1 DEF IKeeps, Keeps, Replacing
    <3>3. rows[i] \in RowType /\ rows'[i] = [rows[i] EXCEPT !.xmin = Null]
      BY <2>1, <3>2 DEF Settled, IKeeps, IInv, TypeOK
    <3>4. /\ rows'[i] # Null /\ ~rows'[i].gone /\ rows'[i].xmin = Null
          /\ rows'[i].table = tx[r].table /\ rows'[i].key = k
      BY <3>2, <3>3, NullAssumption DEF RowType
    <3> QED
      BY <3>4 DEF Committed
  <2> QED
    BY <2>2, <2>3
<1> QED
  BY <1>1, InvarianceKeeps, PTL DEF Spec, ReplacementHolds

(* A creation fails on the constraint only for a row that is marked as     *)
(* deleted, which the look passes over, or for one committed after the     *)
(* look (create_category, create_specialist, create_user, seed_accounts).  *)
THEOREM ErrorsHaveReasons == Spec => ErrorHasReason
<1>1. IKeeps /\ [Next]_vars =>
        [\A r \in Request :
            LET held == Holding(tx[r].table, tx[r].key)
            IN  /\ tx[r].kind \in {"create", "seed"}
                /\ pc[r] = "insert" /\ pc'[r] = "idle" /\ answer' = "error"
                => /\ held # {}
                   /\ \A i \in held : rows[i].deleted \/ i \notin tx[r].seen]_vars
  <2> SUFFICES ASSUME IKeeps, [Next]_vars, NEW r \in Request,
                      tx[r].kind \in {"create", "seed"},
                      pc[r] = "insert", pc'[r] = "idle", answer' = "error"
               PROVE  /\ Holding(tx[r].table, tx[r].key) # {}
                      /\ \A i \in Holding(tx[r].table, tx[r].key) :
                            rows[i].deleted \/ i \notin tx[r].seen
    OBVIOUS
  <2>1. InsertFails(r)
    BY WhoAnswers DEF IKeeps
  <2>2. /\ tx[r].inserts # <<>> /\ tx[r].key = Head(tx[r].inserts)
        /\ \A i \in tx[r].seen : rows[i] # Null /\ rows[i].xmin = Null /\ rows[i].deleted
        /\ \A i \in Row : rows[i] # Null /\ rows[i].xmin = r => rows[i].key # tx[r].key
    BY <2>1 DEF InsertFails, IKeeps, Keeps, LooksFirst
  <2>3. PICK i \in Collides(r, tx[r].table, tx[r].key) : TRUE
    BY <2>1, <2>2 DEF InsertFails
  <2>4. Rivals(r, tx[r].table, tx[r].key) = {}
    BY <2>1, <2>2 DEF InsertFails
  <2>5. /\ i \in Versions(tx[r].table, tx[r].key) /\ ~Locked(r, i)
    BY <2>3, <2>4 DEF Collides, Rivals
  <2>6. rows[i].xmin = Null
    BY <2>2, <2>5 DEF Versions, Locked
  <2>7. i \in Holding(tx[r].table, tx[r].key)
    BY <2>5, <2>6 DEF Holding, Versions, Committed
  <2> QED
    BY <2>2, <2>7
<1> QED
  BY <1>1, InvarianceKeeps, PTL DEF Spec, ErrorHasReason

=============================================================================
