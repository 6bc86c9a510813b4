------------------------------ MODULE Catalog ------------------------------
(***************************************************************************)
(* What the salon offers and who works there: rows of tables that share    *)
(* one way of being kept.  A handler looks whether a key is taken, inserts *)
(* a row if it is not, and commits; nothing is locked in between, so that  *)
(* only the unique constraint of the table decides between two of them.    *)
(* Lists (the items of a package, the staff of a service, the week of a    *)
(* staff member) are replaced as a whole: every row deleted, then one row  *)
(* inserted for each that was asked for.                                   *)
(*                                                                         *)
(* A row carries the transactions that inserted it and that is deleting    *)
(* it, as PostgreSQL's xmin and xmax do while they are open.               *)
(***************************************************************************)
EXTENDS Naturals, Sequences, FiniteSets, FiniteSetsExt

CONSTANTS
    Request,        \* the requests and starting servers at work
    Row,            \* bound: the rows that can ever be inserted
    Key,            \* names, people, e-mails, services, days of the week
    List,           \* packages, services and staff members that own a list
    ListOf,         \* ListOf[k]: the list key k belongs to
    Defaults,       \* the e-mails of the default accounts, in seeding order
    May,            \* May[r]: the kinds of request r makes, each of a table
    MaxAsked,       \* bound: the length of a list somebody asks for
    Null            \* SQL NULL, an absent row

Table == {"category", "specialist", "staff", "user", "specialty",
          "package_item", "staff_service", "schedule"}

Kind == {"create", "update", "rename", "delete", "replace", "seed"}

ASSUME KeyAssumption == ListOf \in [Key -> List] /\ Defaults \in Seq(Key)
(* The e-mails are written down in the code, each a different one.         *)
ASSUME DefaultsAssumption == \A m, n \in DOMAIN Defaults : Defaults[m] = Defaults[n] => m = n

ASSUME MayAssumption == May \in [Request -> SUBSET (Kind \X Table)]
ASSUME BoundAssumption == MaxAsked \in Nat

VARIABLES
    rows,           \* rows[i]: Null or row i, dead ones included
    pc, tx,         \* the requests: step, transaction
    answer,         \* what the last step has answered, if it has
    up              \* history: the servers that have started

vars == <<rows, pc, tx, answer, up>>

(* Tables whose rows are marked as deleted, not deleted.                   *)
Soft == {"category", "specialist", "staff"}

(* Tables with a row for a pair, added to what is there already.           *)
Link == {"specialty", "package_item", "staff_service"}

(* Tables with a unique constraint or a primary key over what the program  *)
(* takes for their key; the week of a staff member has none.               *)
Keyed == Table \ {"schedule"}

RowType == [ table : Table, key : Key, deleted : BOOLEAN, gone : BOOLEAN,
             xmin : Request \cup {Null}, xmax : Request \cup {Null} ]

ASSUME NullAssumption == Null \notin Request /\ Null \notin RowType

(* An open transaction: the row it has read, the list it replaces, the     *)
(* keys it still has to insert, those it was asked for, those it still has *)
(* to look at (seeding), and the rows its last look has found.             *)
Tx == [ kind : Kind \cup {"none"}, table : Table \cup {"none"},
        row : Row \cup {Null}, key : Key \cup {Null}, list : List \cup {Null},
        inserts : Seq(Key), asked : SUBSET Key, todo : Seq(Key),
        seen : SUBSET Row ]

NoTx == [ kind |-> "none", table |-> "none", row |-> Null, key |-> Null,
          list |-> Null, inserts |-> <<>>, asked |-> {}, todo |-> <<>>,
          seen |-> {} ]

Answer == {"none", "done", "conflict", "missing", "error", "deadlock"}

Step == {"idle", "look", "doom", "insert", "commit"}

(* Every variable has its type, and a row in doubt belongs to a transaction*)
(* that is still open: none is left locked by one that has ended (get_db   *)
(* closes the session, which rolls back).                                  *)
TypeOK ==
    /\ rows \in [Row -> RowType \cup {Null}]
    /\ pc \in [Request -> Step]
    /\ tx \in [Request -> Tx]
    /\ answer \in Answer
    /\ up \subseteq Request
    /\ \A i \in Row, r \in Request :
        rows[i] # Null /\ r \in {rows[i].xmin, rows[i].xmax} => pc[r] # "idle"

Init ==
    /\ rows = [i \in Row |-> Null]
    /\ pc = [r \in Request |-> "idle"]
    /\ tx = [r \in Request |-> NoTx]
    /\ answer = "none"
    /\ up = {}

-----------------------------------------------------------------------------
(* What the database holds.                                                *)

(* Rows of key k that exist for somebody.                                  *)
Versions(t, k) ==
    {i \in Row : rows[i] # Null /\ ~rows[i].gone /\ rows[i].table = t /\ rows[i].key = k}

Committed(i) == rows[i] # Null /\ ~rows[i].gone /\ rows[i].xmin = Null

(* The rows of key k a statement sees.                                     *)
Holding(t, k) == {i \in Versions(t, k) : Committed(i)}

ListRows(t, list) ==
    {i \in Row : Committed(i) /\ rows[i].table = t /\ ListOf[rows[i].key] = list}

(* Fault: the look comes back empty.                                       *)
OverlooksAll(t, k) == {}

(* The rows the handler of a table looks for: live ones of a category or a *)
(* specialist, any of the others.                                          *)
Taken(t, k) ==
    {i \in Holding(t, k) : t \in {"category", "specialist"} => ~rows[i].deleted}

(* Another transaction is inserting or deleting row i.                     *)
Locked(r, i) == rows[i].xmin \notin {Null, r} \/ rows[i].xmax \notin {Null, r}

(* An insert of key k waits for the transactions these rows belong to.     *)
Rivals(r, t, k) == {i \in Versions(t, k) : t \in Keyed /\ Locked(r, i)}

(* Fault: the constraint covers live rows only.                            *)
CollidesLive(r, t, k) ==
    {i \in Versions(t, k) : t \in Keyed /\ rows[i].xmax # r /\ ~rows[i].deleted}

(* The rows a unique constraint refuses another row of key k for: deleted  *)
(* in name only, or inserted by this very transaction, they count.         *)
Collides(r, t, k) == {i \in Versions(t, k) : t \in Keyed /\ rows[i].xmax # r}

-----------------------------------------------------------------------------
Moves(r, step, t) == pc' = [pc EXCEPT ![r] = step] /\ tx' = [tx EXCEPT ![r] = t]

Go(r, step, t) == Moves(r, step, t) /\ answer' = "none"

Reply(r, code) == Moves(r, "idle", NoTx) /\ answer' = code

(* Fault: a commit forgets the rows it has deleted.                        *)
KeepsDeleted(r, i) ==
    IF rows[i] # Null /\ rows[i].xmin = r THEN [rows[i] EXCEPT !.xmin = Null]
    ELSE IF rows[i] # Null /\ rows[i].xmax = r THEN [rows[i] EXCEPT !.xmax = Null]
    ELSE rows[i]

(* Row i when the transaction of r has committed.                          *)
Settled(r, i) ==
    IF rows[i] # Null /\ rows[i].xmin = r THEN [rows[i] EXCEPT !.xmin = Null]
    ELSE IF rows[i] # Null /\ rows[i].xmax = r
    THEN [rows[i] EXCEPT !.xmax = Null, !.gone = TRUE]
    ELSE rows[i]

(* Fault: a rollback takes back what was inserted, not what was deleted.   *)
UndoneInserts(r, i) ==
    IF rows[i] # Null /\ rows[i].xmin = r THEN Null ELSE rows[i]

(* Row i when it has been rolled back.                                     *)
Undone(r, i) ==
    IF rows[i] # Null /\ rows[i].xmin = r THEN Null
    ELSE IF rows[i] # Null /\ rows[i].xmax = r THEN [rows[i] EXCEPT !.xmax = Null]
    ELSE rows[i]

Commits(r) == rows' = [i \in Row |-> Settled(r, i)]

Rollback(r, code) == rows' = [i \in Row |-> Undone(r, i)] /\ Reply(r, code)

Receives(r, kind, t) == pc[r] = "idle" /\ <<kind, t>> \in May[r]

(* Bound: there is a row for everything that is going to be inserted.      *)
Planned(r) == Len(tx[r].inserts) + Len(tx[r].todo)

Room(n) == Cardinality({i \in Row : rows[i] = Null}) >= n + MapThenSumSet(Planned, Request)

-----------------------------------------------------------------------------
(* One row at a time.                                                      *)

(* Nothing holds the key: the row is on its way to be inserted.            *)
Inserts(r, t, k) ==
    /\ Taken(t, k) = {} /\ Room(1)
    /\ Go(r, "insert", [NoTx EXCEPT !.kind = "create", !.table = t, !.key = k,
                                    !.inserts = <<k>>, !.seen = Holding(t, k)])

(* A POST that refuses a key it finds taken.                               *)
Create(r, t) ==
    \E k \in Key :
        /\ Receives(r, "create", t)
        /\ \/ Taken(t, k) # {} /\ Reply(r, "conflict")
           \/ Inserts(r, t, k)
        /\ UNCHANGED <<rows, up>>

CreateCategory(r) == Create(r, "category")
CreateSpecialist(r) == Create(r, "specialist")
CreateStaff(r) == Create(r, "staff")

(* Three ways to an account, of an owner, a customer and an employee.      *)
Register(r) == Create(r, "user")
ClientRegister(r) == Create(r, "user")
CreateUser(r) == Create(r, "user")

(* A POST that is content with a link it finds.                            *)
Attach(r, t) ==
    \E k \in Key :
        /\ Receives(r, "create", t)
        /\ \/ Taken(t, k) # {} /\ Reply(r, "done")
           \/ Inserts(r, t, k)
        /\ UNCHANGED <<rows, up>>

QualifyStaff(r) == Attach(r, "staff_service")
AddSpecialty(r) == Attach(r, "specialty")

(* The item of a package that is there gets the quantity asked for.        *)
AddPackageItem(r) ==
    \E k \in Key :
        /\ Receives(r, "create", "package_item")
        /\ \/ /\ Taken("package_item", k) # {}
              /\ Go(r, "commit", [NoTx EXCEPT !.kind = "update", !.table = "package_item",
                                              !.key = k, !.seen = Taken("package_item", k)])
           \/ Inserts(r, "package_item", k)
        /\ UNCHANGED <<rows, up>>

CreateArrive(r) ==
    \/ CreateCategory(r) \/ CreateSpecialist(r) \/ CreateStaff(r)
    \/ Register(r) \/ ClientRegister(r) \/ CreateUser(r)
    \/ QualifyStaff(r) \/ AddSpecialty(r) \/ AddPackageItem(r)

(* 404: the row a request is about, or one that it names besides (the      *)
(* staff member of a specialist, the service of an item, the organization  *)
(* of a customer), is not there.                                           *)
NotFound(r) ==
    /\ \E t \in Table :
        \/ \E kind \in {"rename", "delete", "replace"} : Receives(r, kind, t)
        \/ t \in Link \cup {"specialist", "user"} /\ Receives(r, "create", t)
    /\ Reply(r, "missing")
    /\ UNCHANGED <<rows, up>>

(* The UPDATE of a package item's quantity, by its primary key.  Where the *)
(* row is gone it is a StaleDataError; where another has come in its place *)
(* it depends on whether the statement began before that.                  *)
CommitUpdate(r) ==
    /\ pc[r] = "commit" /\ tx[r].kind = "update"
    /\ Rivals(r, tx[r].table, tx[r].key) = {}
    /\ \/ /\ Holding(tx[r].table, tx[r].key) # {}
          /\ Reply(r, "done")
       \/ /\ \A i \in tx[r].seen : ~Committed(i)
          /\ Reply(r, "error")
    /\ UNCHANGED <<rows, up>>

(* PATCH /categories/{id}: the row is read, the new name is not looked at. *)
RenameArrive(r) ==
    /\ Receives(r, "rename", "category")
    /\ \E i \in Row, k \in Key :
        /\ Committed(i) /\ rows[i].table = "category" /\ ~rows[i].deleted
        /\ rows[i].key # k
        /\ Go(r, "commit", [NoTx EXCEPT !.kind = "rename", !.table = "category",
                                        !.row = i, !.key = k])
    /\ UNCHANGED <<rows, up>>

(* The UPDATE is the last statement before the commit: two that cross fail *)
(* each other whether the database calls it a deadlock or a duplicate, so  *)
(* that the two are one step.                                              *)
CommitRename(r) ==
    /\ pc[r] = "commit" /\ tx[r].kind = "rename"
    /\ Rivals(r, "category", tx[r].key) = {}
    /\ \/ /\ Collides(r, "category", tx[r].key) \subseteq {tx[r].row}
          /\ rows' = [rows EXCEPT ![tx[r].row].key = tx[r].key]
          /\ Reply(r, "done")
       \/ /\ ~ Collides(r, "category", tx[r].key) \subseteq {tx[r].row}
          /\ Rollback(r, "error")
    /\ UNCHANGED up

(* DELETE of a row that is there; one marked as deleted is not.            *)
Delete(r, t) ==
    \E i \in Row :
        /\ Receives(r, "delete", t)
        /\ Committed(i) /\ rows[i].table = t /\ ~rows[i].deleted
        /\ Go(r, "commit", [NoTx EXCEPT !.kind = "delete", !.table = t,
                                        !.row = i, !.key = rows[i].key])
        /\ UNCHANGED <<rows, up>>

DeleteCategory(r) == Delete(r, "category")
DeleteSpecialist(r) == Delete(r, "specialist")
DeleteStaff(r) == Delete(r, "staff")
DeleteUser(r) == Delete(r, "user")
RemoveSpecialty(r) == Delete(r, "specialty")
RemovePackageItem(r) == Delete(r, "package_item")
RemoveQualification(r) == Delete(r, "staff_service")

DeleteArrive(r) ==
    \/ DeleteCategory(r) \/ DeleteSpecialist(r) \/ DeleteStaff(r) \/ DeleteUser(r)
    \/ RemoveSpecialty(r) \/ RemovePackageItem(r) \/ RemoveQualification(r)

(* deleted_at is set, on the row as it is by then.                         *)
CommitSoftDelete(r) ==
    /\ pc[r] = "commit" /\ tx[r].kind = "delete" /\ tx[r].table \in Soft
    /\ rows' = [rows EXCEPT ![tx[r].row].deleted = TRUE]
    /\ Reply(r, "done")
    /\ UNCHANGED up

(* The rows a DELETE by primary key meets: a link has the key itself, and  *)
(* one that has come in place of the row that was read is met by chance.   *)
Targets(r) ==
    IF tx[r].table \in Link THEN Holding(tx[r].table, tx[r].key)
    ELSE {i \in {tx[r].row} : Committed(i)}

CommitHardDelete(r) ==
    /\ pc[r] = "commit" /\ tx[r].kind = "delete" /\ tx[r].table \notin Soft
    /\ \A i \in Targets(r) : ~Locked(r, i)
    /\ \/ rows' = [i \in Row |->
            IF i \in Targets(r) THEN [rows[i] EXCEPT !.gone = TRUE] ELSE rows[i]]
       \/ ~Committed(tx[r].row) /\ rows' = rows
    /\ Reply(r, "done")
    /\ UNCHANGED up

-----------------------------------------------------------------------------
(* A list as a whole.                                                      *)

(* Fault: the DELETE has no WHERE for the list.                            *)
SeesEveryList(t, list) == {i \in Row : Committed(i) /\ rows[i].table = t}

(* The rows of the list that the DELETE statement sees when it starts.     *)
ToDelete(t, list) == ListRows(t, list)

Lists(list) ==
    UNION {[1..n -> {k \in Key : ListOf[k] = list}] : n \in 0..MaxAsked}

Replace(r, t) ==
    \E list \in List :
        /\ Receives(r, "replace", t)
        /\ \E asked \in Lists(list) :
            /\ Room(Len(asked))
            /\ Go(r, "doom",
                  [NoTx EXCEPT !.kind = "replace", !.table = t, !.list = list,
                               !.inserts = asked, !.asked = {asked[n] : n \in DOMAIN asked},
                               !.seen = ToDelete(t, list)])
        /\ UNCHANGED <<rows, up>>

(* A service or a package that is being created replaces an empty list.    *)
UpdatePackage(r) == Replace(r, "package_item")
UpdateService(r) == Replace(r, "staff_service")
SetSchedule(r) == Replace(r, "schedule")

ReplaceArrive(r) == UpdatePackage(r) \/ UpdateService(r) \/ SetSchedule(r)

(* The DELETE waits for whoever is deleting one of them too, and then      *)
(* passes over what has gone meanwhile.                                    *)
Doom(r) ==
    /\ pc[r] = "doom"
    /\ \A i \in tx[r].seen : ~Locked(r, i)
    /\ rows' = [i \in Row |->
            IF i \in tx[r].seen /\ Committed(i) THEN [rows[i] EXCEPT !.xmax = r]
            ELSE rows[i]]
    /\ Go(r, "insert", tx[r])
    /\ UNCHANGED up

(* Fault: the session commits what a refused request has done so far.      *)
MissingCommits(r) ==
    /\ pc[r] = "insert" /\ tx[r].kind = "replace" /\ tx[r].table = "package_item"
    /\ tx[r].asked # {}
    /\ \A i \in {j \in Row : rows[j] # Null} : rows[i].xmin # r
    /\ Commits(r) /\ Reply(r, "missing")
    /\ UNCHANGED up

(* An item of a package names no live service: 404, and all is undone.     *)
(* Nothing is inserted before they have all been looked at.                *)
ItemMissing(r) ==
    /\ pc[r] = "insert" /\ tx[r].kind = "replace" /\ tx[r].table = "package_item"
    /\ tx[r].asked # {}
    /\ \A i \in {j \in Row : rows[j] # Null} : rows[i].xmin # r
    /\ Rollback(r, "missing")
    /\ UNCHANGED up

(* A staff id that nobody has: the foreign key refuses the link, and nobody*)
(* handles the IntegrityError.                                             *)
StaffMissing(r) ==
    /\ pc[r] = "insert" /\ tx[r].kind = "replace" /\ tx[r].table = "staff_service"
    /\ tx[r].inserts # <<>>
    /\ Rollback(r, "error")
    /\ UNCHANGED up

-----------------------------------------------------------------------------
(* Inserting, key by key, and the commit.                                  *)

InsertNext(r) ==
    /\ pc[r] = "insert" /\ tx[r].inserts # <<>>
    /\ LET t == tx[r].table
           k == Head(tx[r].inserts)
       IN  /\ Rivals(r, t, k) = {} /\ Collides(r, t, k) = {}
           /\ \E i \in Row :
                /\ rows[i] = Null
                /\ rows' = [rows EXCEPT ![i] =
                        [ table |-> t, key |-> k, deleted |-> FALSE, gone |-> FALSE,
                          xmin |-> r, xmax |-> Null ]]
    /\ Go(r, IF tx[r].kind = "seed" THEN "look" ELSE "insert",
          [tx[r] EXCEPT !.inserts = Tail(@)])
    /\ UNCHANGED up

(* An IntegrityError nobody handles.                                       *)
InsertFails(r) ==
    /\ pc[r] = "insert" /\ tx[r].inserts # <<>>
    /\ LET k == Head(tx[r].inserts)
       IN  Rivals(r, tx[r].table, k) = {} /\ Collides(r, tx[r].table, k) # {}
    /\ Rollback(r, "error")
    /\ UNCHANGED up

Commit(r) ==
    /\ pc[r] = "insert" /\ tx[r].inserts = <<>>
    /\ Commits(r)
    /\ Reply(r, "done")
    /\ UNCHANGED up

-----------------------------------------------------------------------------
(* seed_accounts, when a server starts: look for each default account and  *)
(* insert it if it is not there; one commit at the end.                    *)

SeedArrive(r) ==
    /\ Receives(r, "seed", "user") /\ r \notin up
    /\ Room(Len(Defaults))
    /\ Go(r, "look", [NoTx EXCEPT !.kind = "seed", !.table = "user", !.todo = Defaults])
    /\ UNCHANGED <<rows, up>>

(* Fault: the first account that exists ends the seeding.                  *)
StopsAtFirst(r) == <<>>

(* The accounts left to look at when one is there already.                 *)
AfterFound(r) == Tail(tx[r].todo)

SeedLook(r) ==
    /\ pc[r] = "look" /\ tx[r].todo # <<>>
    /\ LET k == Head(tx[r].todo)
           t == [tx[r] EXCEPT !.todo = Tail(@), !.key = k, !.seen = Holding("user", k)]
       IN  \/ /\ Taken("user", k) # {}
              /\ Go(r, "look", [t EXCEPT !.todo = AfterFound(r)])
           \/ /\ Taken("user", k) = {}
              /\ Go(r, "insert", [t EXCEPT !.inserts = <<k>>])
    /\ UNCHANGED <<rows, up>>

SeedCommit(r) ==
    /\ pc[r] = "look" /\ tx[r].todo = <<>>
    /\ Commits(r)
    /\ Reply(r, "done")
    /\ up' = up \cup {r}

-----------------------------------------------------------------------------
(* Whom a transaction is waiting for, and the deadlock detector.           *)

Owners(is, r) == ({rows[i].xmin : i \in is} \cup {rows[i].xmax : i \in is}) \ {Null, r}

WaitsOn(r) ==
    IF pc[r] = "insert" /\ tx[r].inserts # <<>>
    THEN Owners(Rivals(r, tx[r].table, Head(tx[r].inserts)), r)
    ELSE IF pc[r] = "doom" THEN Owners({i \in tx[r].seen : rows[i] # Null}, r)
    ELSE {}

InCycle(r) ==
    \E rs \in SUBSET Request : r \in rs /\ \A q \in rs : WaitsOn(q) \cap rs # {}

Deadlock(r) ==
    /\ InCycle(r)
    /\ Rollback(r, "deadlock")
    /\ UNCHANGED up

(* The connection dies, or the starting server: all is undone.             *)
Abort(r) ==
    /\ pc[r] # "idle"
    /\ rows' = [i \in Row |-> Undone(r, i)]
    /\ Go(r, "idle", NoTx)
    /\ UNCHANGED up

Next ==
    \E r \in Request :
        \/ CreateArrive(r) \/ CommitUpdate(r) \/ NotFound(r)
        \/ RenameArrive(r) \/ CommitRename(r)
        \/ DeleteArrive(r) \/ CommitSoftDelete(r) \/ CommitHardDelete(r)
        \/ ReplaceArrive(r) \/ Doom(r) \/ ItemMissing(r) \/ StaffMissing(r)
        \/ InsertNext(r) \/ InsertFails(r) \/ Commit(r)
        \/ SeedArrive(r) \/ SeedLook(r) \/ SeedCommit(r)
        \/ Deadlock(r) \/ Abort(r)

Spec == Init /\ [][Next]_vars

-----------------------------------------------------------------------------
(* Properties.                                                             *)

(* Whatever two handlers have looked at before they insert, no key of a    *)
(* keyed table is ever held by two committed rows, live or deleted         *)
(* (uq_staff_org_user, uq_service_categories_org_name and their like,      *)
(* against the unlocked checks of create_staff, create_category,           *)
(* create_user, seed_accounts, qualify_staff_for_service).                 *)
KeysUnique ==
    \A i, j \in Row :
        /\ Committed(i) /\ Committed(j)
        /\ rows[i].table \in Keyed
        /\ rows[i].table = rows[j].table /\ rows[i].key = rows[j].key
        => i = j

(* A creation fails on the constraint for one of two reasons only: the key *)
(* belongs to a row that is marked as deleted, which the look passes over, *)
(* or to one that was committed after the look (create_category,           *)
(* create_specialist, create_user, seed_accounts).                         *)
ErrorHasReason ==
    [][\A r \in Request :
        LET held == Holding(tx[r].table, tx[r].key)
        IN  /\ tx[r].kind \in {"create", "seed"}
            /\ pc[r] = "insert" /\ pc'[r] = "idle" /\ answer' = "error"
            => /\ held # {}
               /\ \A i \in held : rows[i].deleted \/ i \notin tx[r].seen]_vars

(* A row that is committed goes only by a request that was about it: its   *)
(* own deletion, or the replacement of the very list it is in; and one     *)
(* marked as deleted never comes back (_replace_items,                     *)
(* _replace_staff_assignments, set_schedule, remove_package_item).         *)
StaysUnlessMeant(i) ==
    Committed(i) =>
        /\ rows[i].deleted => rows'[i].deleted
        /\ rows'[i].gone =>
            \E r \in Request :
                /\ pc[r] # "idle" /\ pc'[r] = "idle"
                /\ tx[r].table = rows[i].table
                /\ \/ tx[r].kind = "delete" /\ tx[r].key = rows[i].key
                   \/ tx[r].kind = "replace" /\ tx[r].list = ListOf[rows[i].key]

(* No committed row ever goes, or comes back, in any other way.            *)
NothingElseVanishes == [][\A i \in Row : StaysUnlessMeant(i)]_vars

(* The replacement of a list leaves nothing of what was there when it      *)
(* began and everything that was asked for, in one step, also beside       *)
(* another replacement of the same list (_replace_items,                   *)
(* _replace_staff_assignments, set_schedule).                              *)
ReplacementHolds ==
    [][\A r \in Request :
        /\ tx[r].kind = "replace" /\ pc[r] = "insert" /\ pc'[r] = "idle"
        /\ answer' = "done"
        => /\ \A i \in tx[r].seen : rows'[i].gone
           /\ \A k \in tx[r].asked : \E i \in Row :
                Committed(i)' /\ rows'[i].table = tx[r].table /\ rows'[i].key = k]_vars

(* Row i as everybody sees it.                                             *)
Visible(i) == IF Committed(i) THEN <<rows[i].table, rows[i].key, rows[i].deleted>> ELSE Null

(* Only what is acknowledged shows: a request that is refused, fails on a  *)
(* constraint, is chosen by the deadlock detector or breaks off, and every *)
(* step on the way there, leaves all that is committed as it was, the list *)
(* it has deleted already included (_replace_items,                        *)
(* _replace_staff_assignments, set_schedule; get_db).                      *)
UndoneLeavesNoTrace == [][answer' # "done" => \A i \in Row : Visible(i)' = Visible(i)]_vars

(* A server that has started has found or created every default account,   *)
(* in whatever order several servers and administrators went about it; one *)
(* that is missing has been deleted (seed_accounts, delete_user).          *)
StartedIsSeeded ==
    up # {} =>
        \A n \in DOMAIN Defaults :
            \E i \in Row :
                /\ rows[i] # Null /\ rows[i].xmin = Null
                /\ rows[i].table = "user" /\ rows[i].key = Defaults[n]

=============================================================================
