----------------------------- MODULE Completion -----------------------------
(***************************************************************************)
(* What completing an appointment does to the rest of the books: product   *)
(* stock is deducted, commissions and service history are written, all in  *)
(* the one transaction that sets the status.  Beside it run the other      *)
(* requests that touch the same rows: cancelling, recording and deleting   *)
(* product usage, adjusting and setting stock, deleting a product or the   *)
(* specialist.                                                             *)
(*                                                                         *)
(* Each query is one action.  Nothing locks the rows that are read, and    *)
(* the stock is written as the absolute value computed from what was read. *)
(* A commission or history batch - one row per service line, written       *)
(* together - is one unit of a counter.                                    *)
(***************************************************************************)
EXTENDS Integers, FiniteSets, Functions, Lifecycle

CONSTANTS
    Request,        \* the concurrent requests the server is working on
    Appointment,    \* appointments in progress, all with one staff member
    HasClient,      \* those booked for a client rather than a walk-in
    Product,        \* products of the organization
    UsageKey,       \* primary keys product usage rows can get
    Quantity,       \* quantities used or adjusted
    MaxStock,       \* bound: no product is stocked beyond it
    May,            \* May[r]: the kinds of request r makes
    Null            \* SQL NULL, an absent row

Kind == {"complete", "cancel", "adjust", "set", "use"}

ASSUME ClientAssumption == HasClient \subseteq Appointment
ASSUME QuantityAssumption == Quantity \subseteq Nat \ {0}
ASSUME MaxStockAssumption == MaxStock \in Nat
ASSUME UsageKeyAssumption == IsFiniteSet(UsageKey)
ASSUME MayAssumption == May \in [Request -> SUBSET Kind]

VARIABLES
    status,         \* status[a]
    stock,          \* stock[p]: products.stock_quantity
    gone,           \* the (soft) deleted products
    usage,          \* usage[u]: Null or a product usage row
    specialist,     \* the staff member has a live specialist record
    commissions,    \* commissions[a]: batches of commission rows
    history,        \* history[a]: batches of service history rows
    pc, tx, answer, \* the requests: step, transaction, last answer
    spent,          \* history: the usage rows a completion has deducted
    ledger          \* history: the stock all acknowledged changes add up to

tables == <<status, stock, gone, usage, specialist, commissions, history>>
vars == <<tables, pc, tx, answer, spent, ledger>>

UsageRow == [appt : Appointment, product : Product, qty : Quantity, live : BOOLEAN]

ASSUME NullAssumption == Null \notin Int /\ Null \notin UsageRow

(* An open transaction.  read is the stock it has loaded to change it, want *)
(* what it will write (Null: leave the product alone), change what that    *)
(* means to its caller, rows the usage rows it counted, pays whether it    *)
(* will write commissions.                                                 *)
Tx == [ kind : Kind \cup {"none"}, appt : Appointment \cup {Null},
        rows : SUBSET UsageKey, read : [Product -> Int \cup {Null}],
        want : [Product -> Int \cup {Null}],
        change : [Product -> Int], pays : BOOLEAN, row : UsageRow \cup {Null} ]

NoTx == [ kind |-> "none", appt |-> Null, rows |-> {},
          read |-> [p \in Product |-> Null], want |-> [p \in Product |-> Null],
          change |-> [p \in Product |-> 0], pays |-> FALSE, row |-> Null ]

Step == {"idle", "usage", "products", "specialist", "existing", "commit"}

Answer == {"none", "done", "refused", "error"}

TypeOK ==
    /\ status \in [Appointment -> Status]
    /\ stock \in [Product -> Int]
    /\ gone \subseteq Product
    /\ usage \in [UsageKey -> UsageRow \cup {Null}]
    /\ specialist \in BOOLEAN
    /\ commissions \in [Appointment -> Nat]
    /\ history \in [Appointment -> Nat]
    /\ pc \in [Request -> Step]
    /\ tx \in [Request -> Tx]
    /\ answer \in [Request -> Answer]
    /\ spent \subseteq UsageKey
    /\ ledger \in [Product -> Int]

(* Appointments that have been started, with no product used yet.          *)
Init ==
    /\ status = [a \in Appointment |-> "in_progress"]
    /\ stock = [p \in Product |-> MaxStock]
    /\ gone = {}
    /\ usage = [u \in UsageKey |-> Null]
    /\ specialist = TRUE
    /\ commissions = [a \in Appointment |-> 0]
    /\ history = [a \in Appointment |-> 0]
    /\ pc = [r \in Request |-> "idle"]
    /\ tx = [r \in Request |-> NoTx]
    /\ answer = [r \in Request |-> "none"]
    /\ spent = {}
    /\ ledger = stock

-----------------------------------------------------------------------------
Go(r, step, t) ==
    /\ pc' = [pc EXCEPT ![r] = step]
    /\ tx' = [tx EXCEPT ![r] = t]
    /\ answer' = [answer EXCEPT ![r] = "none"]
    /\ UNCHANGED <<spent, ledger>>

Ends(r, code) ==
    /\ pc' = [pc EXCEPT ![r] = "idle"]
    /\ tx' = [tx EXCEPT ![r] = NoTx]
    /\ answer' = [answer EXCEPT ![r] = code]

Reply(r, code) == Ends(r, code) /\ UNCHANGED <<spent, ledger>>

Receives(r, kind) == pc[r] = "idle" /\ kind \in May[r]

(* LEGAL_TRANSITIONS, applied to the status that was read.                 *)
Allows(read, new) == new \in LegalTransitions[read]

(* The usage rows of an appointment, as the pipeline's first query.        *)
UsageOf(a) == {u \in UsageKey : usage[u] # Null /\ usage[u].live /\ usage[u].appt = a}

(* Rows whose product the second query still returns.                      *)
Counted(rows) == {u \in rows : usage[u].product \notin gone}

Used(rows, p) ==
    SumFunctionOnSet([u \in rows |-> usage[u].qty], {u \in rows : usage[u].product = p})

(* Fault: each row is subtracted from the value first read.                *)
RemainingOfOneRow(rows, p) ==
    stock[p] - usage[CHOOSE u \in rows : usage[u].product = p].qty

(* The second loop subtracts row after row from the same in-memory value.  *)
Remaining(rows, p) == stock[p] - Used(rows, p)

(* The first loop: each row alone must fit.                                *)
Short(rows) == \E u \in rows : stock[usage[u].product] - usage[u].qty < 0

(* Fault: any commission row will do.                                      *)
NoneAnywhere(a) == \A b \in Appointment : commissions[b] = 0

(* No commission row of the appointment: not processed yet.                *)
Unprocessed(a) == commissions[a] = 0

-----------------------------------------------------------------------------
(* POST /appointments/{id}/complete, or /status with completed.            *)

CompleteArrive(r) ==
    /\ Receives(r, "complete")
    /\ \E a \in Appointment :
        IF Allows(status[a], "completed")
        THEN Go(r, "usage", [NoTx EXCEPT !.kind = "complete", !.appt = a])
        ELSE Reply(r, "refused")
    /\ UNCHANGED tables

ReadUsage(r) ==
    /\ pc[r] = "usage"
    /\ LET rows == UsageOf(tx[r].appt)
       IN  Go(r, IF rows = {} THEN "specialist" ELSE "products",
              [tx[r] EXCEPT !.rows = rows])
    /\ UNCHANGED tables

(* Blocks when a row does not fit; otherwise the new stock is computed.    *)
ReadProducts(r) ==
    /\ pc[r] = "products"
    /\ LET rows == Counted(tx[r].rows)
           used == {usage[u].product : u \in rows}
       IN  IF Short(rows)
           THEN Reply(r, "refused")
           ELSE Go(r, "specialist",
                   [tx[r] EXCEPT
                       !.rows = rows,
                       !.read = [p \in Product |-> IF p \in used THEN stock[p] ELSE Null],
                       !.want = [p \in Product |->
                                    IF p \in used THEN Remaining(rows, p) ELSE Null],
                       !.change = [p \in Product |-> 0 - Used(rows, p)]])
    /\ UNCHANGED tables

(* No specialist record, no commission.  (The history step reads only the  *)
(* specialist's id and the service lines, which never change.)             *)
ReadSpecialist(r) ==
    /\ pc[r] = "specialist"
    /\ Go(r, IF specialist THEN "existing" ELSE "commit", tx[r])
    /\ UNCHANGED tables

ReadCommissions(r) ==
    /\ pc[r] = "existing"
    /\ Go(r, "commit", [tx[r] EXCEPT !.pays = Unprocessed(tx[r].appt)])
    /\ UNCHANGED tables

-----------------------------------------------------------------------------
(* The other requests.                                                     *)

(* POST /appointments/{id}/status with cancelled, and a reason.            *)
CancelArrive(r) ==
    /\ Receives(r, "cancel")
    /\ \E a \in Appointment :
        IF Allows(status[a], "cancelled")
        THEN Go(r, "commit", [NoTx EXCEPT !.kind = "cancel", !.appt = a])
        ELSE Reply(r, "refused")
    /\ UNCHANGED tables

(* POST /products/{id}/stock: read, add the delta, write the sum.          *)
AdjustArrive(r) ==
    /\ Receives(r, "adjust")
    /\ \E p \in Product, delta \in Quantity \cup {0 - qty : qty \in Quantity} :
        /\ stock[p] + delta <= MaxStock
        /\ IF p \in gone \/ stock[p] + delta < 0
           THEN Reply(r, "refused")
           ELSE Go(r, "commit",
                   [NoTx EXCEPT !.kind = "adjust", !.read[p] = stock[p],
                                !.want[p] = stock[p] + delta, !.change[p] = delta])
    /\ UNCHANGED tables

(* PATCH /products/{id} with a stock quantity; nothing is written if it is *)
(* what was read.                                                          *)
SetArrive(r) ==
    /\ Receives(r, "set")
    /\ \E p \in Product, qty \in Quantity \cup {0} :
        /\ qty <= MaxStock
        /\ IF p \in gone
           THEN Reply(r, "refused")
           ELSE Go(r, "commit",
                   [NoTx EXCEPT !.kind = "set", !.read[p] = stock[p],
                                !.want[p] = IF qty = stock[p] THEN Null ELSE qty])
    /\ UNCHANGED tables

(* POST /products/usage, on an appointment of any status.                  *)
UseArrive(r) ==
    /\ Receives(r, "use")
    /\ \E a \in Appointment, p \in Product, qty \in Quantity :
        IF p \in gone
        THEN Reply(r, "refused")
        ELSE Go(r, "commit",
                [NoTx EXCEPT !.kind = "use", !.appt = a,
                             !.row = [appt |-> a, product |-> p, qty |-> qty, live |-> TRUE]])
    /\ UNCHANGED tables

-----------------------------------------------------------------------------
(* commit()                                                                *)

(* Fault: no such constraint, and stock is cut off at zero.                *)
ViolatesNothing(want) == FALSE

(* CHECK (stock_quantity >= 0)                                             *)
Violates(want) == \E p \in Product : want[p] # Null /\ want[p] < 0

(* Fault: every product is written, with or without a new value.           *)
OverwrittenAlways(old, want) == want

(* The products a transaction gave a new quantity to, and the others.      *)
Overwritten(old, want) == [p \in Product |-> IF want[p] = Null THEN old[p] ELSE want[p]]

WriteStock(r) ==
    /\ stock' = Overwritten(stock, tx[r].want)
    /\ ledger' = [p \in Product |-> ledger[p] + tx[r].change[p]]

(* The constraint fails the whole transaction, and nobody catches it.      *)
CommitFails(r) ==
    /\ pc[r] = "commit"
    /\ Violates(tx[r].want)
    /\ Reply(r, "error")
    /\ UNCHANGED tables

CommitComplete(r) ==
    /\ pc[r] = "commit" /\ tx[r].kind = "complete"
    /\ ~Violates(tx[r].want)
    /\ status' = [status EXCEPT ![tx[r].appt] = "completed"]
    /\ WriteStock(r)
    /\ commissions' = [commissions EXCEPT ![tx[r].appt] = @ + IF tx[r].pays THEN 1 ELSE 0]
    /\ history' = [history EXCEPT
                      ![tx[r].appt] = @ + IF tx[r].appt \in HasClient THEN 1 ELSE 0]
    /\ spent' = spent \cup tx[r].rows
    /\ Ends(r, "done")
    /\ UNCHANGED <<gone, usage, specialist>>

CommitCancel(r) ==
    /\ pc[r] = "commit" /\ tx[r].kind = "cancel"
    /\ status' = [status EXCEPT ![tx[r].appt] = "cancelled"]
    /\ Reply(r, "done")
    /\ UNCHANGED <<stock, gone, usage, specialist, commissions, history>>

CommitAdjust(r) ==
    /\ pc[r] = "commit" /\ tx[r].kind = "adjust"
    /\ WriteStock(r)
    /\ Ends(r, "done")
    /\ UNCHANGED <<status, gone, usage, specialist, commissions, history, spent>>

CommitSet(r) ==
    /\ pc[r] = "commit" /\ tx[r].kind = "set"
    /\ stock' = Overwritten(stock, tx[r].want)
    /\ ledger' = Overwritten(ledger, tx[r].want)
    /\ Ends(r, "done")
    /\ UNCHANGED <<status, gone, usage, specialist, commissions, history, spent>>

CommitUse(r) ==
    /\ pc[r] = "commit" /\ tx[r].kind = "use"
    /\ \E u \in UsageKey :
        /\ usage[u] = Null
        /\ usage' = [usage EXCEPT ![u] = tx[r].row]
    /\ Reply(r, "done")
    /\ UNCHANGED <<status, stock, gone, specialist, commissions, history>>

(* The connection or the process dies: rolled back, nobody is told.        *)
Abort(r) ==
    /\ pc[r] # "idle"
    /\ Reply(r, "none")
    /\ UNCHANGED tables

-----------------------------------------------------------------------------
(* Short transactions of an administrator: one read of the row by its key, *)
(* one update that depends on nothing else.                                *)

DeleteProduct(p) ==
    /\ p \notin gone
    /\ gone' = gone \cup {p}
    /\ UNCHANGED <<status, stock, usage, specialist, commissions, history,
                   pc, tx, answer, spent, ledger>>

DeleteUsage(u) ==
    /\ usage[u] # Null /\ usage[u].live
    /\ usage' = [usage EXCEPT ![u].live = FALSE]
    /\ UNCHANGED <<status, stock, gone, specialist, commissions, history,
                   pc, tx, answer, spent, ledger>>

DeleteSpecialist ==
    /\ specialist
    /\ specialist' = FALSE
    /\ UNCHANGED <<status, stock, gone, usage, commissions, history,
                   pc, tx, answer, spent, ledger>>

-----------------------------------------------------------------------------
Complete(r) ==
    \/ CompleteArrive(r) \/ ReadUsage(r) \/ ReadProducts(r)
    \/ ReadSpecialist(r) \/ ReadCommissions(r) \/ CommitComplete(r)

Administer ==
    \/ \E p \in Product : DeleteProduct(p)
    \/ \E u \in UsageKey : DeleteUsage(u)
    \/ DeleteSpecialist

Next ==
    \/ \E r \in Request :
        \/ Complete(r)
        \/ CancelArrive(r) \/ CommitCancel(r)
        \/ AdjustArrive(r) \/ CommitAdjust(r)
        \/ SetArrive(r) \/ CommitSet(r)
        \/ UseArrive(r) \/ CommitUse(r)
        \/ CommitFails(r)
        \/ Abort(r)
    \/ Administer

Spec == Init /\ [][Next]_vars

-----------------------------------------------------------------------------
(* Properties.                                                             *)

(* Completion is all or nothing: a completed appointment of a client has   *)
(* exactly one batch of history rows, one batch of commissions unless the  *)
(* specialist record went away, and one that is not completed has left no  *)
(* trace in history, commissions or stock (transition_status pipeline). It *)
(* holds while one request at a time completes or cancels.                 *)
CompletionIsWhole ==
    \A a \in Appointment :
        IF status[a] = "completed"
        THEN /\ history[a] = IF a \in HasClient THEN 1 ELSE 0
             /\ commissions[a] \in 0..1
             /\ specialist => commissions[a] = 1
        ELSE /\ history[a] = 0 /\ commissions[a] = 0
             /\ \A u \in spent : usage[u].appt # a

(* The parts of a completion are not stored one without the others,        *)
(* however many requests complete or cancel side by side: an appointment   *)
(* that is completed, or of which commissions, history or a deduction are  *)
(* on record, has all that is due - more than once, if it was completed    *)
(* twice - and was not left open (_deduct_stock, _generate_commissions,    *)
(* _write_service_history, one commit).                                    *)
NeverByHalves ==
    \A a \in Appointment :
        \/ status[a] = "completed" \/ history[a] > 0 \/ commissions[a] > 0
        \/ \E u \in spent : usage[u].appt = a
        =>
        /\ status[a] \in {"completed", "cancelled"}
        /\ a \in HasClient => history[a] > 0
        /\ specialist => commissions[a] > 0

(* The stock on record is what the acknowledged deliveries, corrections    *)
(* and completions add up to (_deduct_stock, adjust_stock,                 *)
(* update_product). It holds while one request at a time does any of       *)
(* these; of two side by side one is lost.                                 *)
StockAddsUp == stock = ledger

(* Stock is lost in one way only: by a commit of a quantity computed from  *)
(* one that is no longer on record.  Several rows of one product, refused  *)
(* and failed completions and deletions lose nothing (_deduct_stock,       *)
(* adjust_stock, update_product).                                          *)
OnlyStaleWritesLose ==
    [][ \A p \in Product :
            stock[p] = ledger[p] /\ stock'[p] # ledger'[p] =>
                \E r \in Request :
                    /\ pc[r] = "commit" /\ pc'[r] = "idle"
                    /\ tx[r].read[p] \notin {stock[p], Null} ]_vars

(* Completions side by side may deduct too little, never too much: where   *)
(* nobody adjusts or sets it, there is at least as much stock on record as *)
(* the acknowledged completions leave (_deduct_stock).                     *)
StockNotUnderstated == \A p \in Product : stock[p] >= ledger[p]

(* No request drives the stock below zero, alone or with others.           *)
StockNeverNegative == \A p \in Product : stock[p] >= 0

(* An appointment is rendered once: whatever requests run side by side, no *)
(* line gets a second commission or history row (_generate_commissions,    *)
(* _write_service_history). The code violates it: two completions read the *)
(* same.                                                                   *)
RenderedOnce == \A a \in Appointment : commissions[a] <= 1 /\ history[a] <= 1

=============================================================================
