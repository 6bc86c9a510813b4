# Verification of the salon management backend

TLA+ models of the booking backend under `src/app` (FastAPI, SQLAlchemy async
sessions, PostgreSQL), the TLC configurations that check them on small
instances, and TLAPS proofs, for instances of any size, of every invariant and
action property the passing runs check.

The program is a set of HTTP handlers over one database. It has no background
workers and keeps nothing in memory between requests: all state is rows, and
everything that is hard about it comes from handlers that interleave at every
`await`, each in a transaction of its own.

## 1. The system

### How requests reach the database

`core/database.py` gives each request one `AsyncSession` (`get_db`, 28-31),
created with `autoflush=False` and `expire_on_commit=False` (17-23). Three
consequences shape every model:

- A query never writes pending changes first. A changed attribute reaches the
  database inside `commit()` (or an explicit `flush()`), however early in the
  handler it was assigned. A new row is inserted there too.
- An `UPDATE` sets only the columns whose value differs from what was loaded,
  to absolute values. Columns not set keep what is committed by then. Nothing
  is loaded again before it is judged.
- The isolation level is PostgreSQL's default, READ COMMITTED: each statement
  sees what is committed when it starts. A handler that leaves by an exception
  closes its session, which rolls back.

Only one query locks anything: the booking's
`SELECT staff.id ... FOR UPDATE`, with the overlap query that follows it (also
`FOR UPDATE`).

### Components

| Part | Source | State | Operations | Model |
|---|---|---|---|---|
| Booking | `services/appointments.py` 151-303, `routers/appointments.py` 117-159, the migration's constraint | `appointments`, `staff` (locked) | create, reschedule | `Booking`, `Calendar` |
| Status machine | `models/base.py` 37-49, `services/appointments.py` 443-520, `routers/appointments.py` 39-57, 162-206 | `appointments.status` | status change, complete | `Lifecycle`, `Booking`, `Completion` |
| Completion pipeline | `services/appointments.py` 306-440 | `products`, `product_usage`, `commissions`, `service_history` | deduct stock, generate commissions, write history | `Completion` |
| Inventory | `routers/products.py` | `products`, `product_usage` | adjust, set, delete; record and delete usage | `Completion` (in part) |
| Walk-ins | `routers/walk_ins.py` | `walk_in_customers`, `clients`, `service_history` | create, delete, convert to client | `WalkIns` |
| Staff administration | `routers/staff.py` | `staff`, `staff_services` | create, update, delete, qualify | `Catalog`; `Booking` (active, inactive, deleted) |
| Specialists | `routers/specialists.py` | `specialists`, `specialist_specialties` | create, update, delete, specialties, availability view | `Catalog`; `Completion` (deletion) |
| Schedules, days off | `routers/scheduling.py` | `staff_schedules`, `staff_time_offs` | replace a week; create, update, delete a day off | `Catalog` (weeks), `Outbox` (as logged edits) |
| Catalog | `routers/categories.py`, `services.py`, `packages.py` | `service_categories`, `services`, `service_packages`, junctions | create, rename, soft delete, replace lists | `Catalog` |
| Payments | `routers/payments.py` | `payments` | pay, correct, delete, balance | `Ledger` |
| Reports | `routers/reports.py` | none | sums over several statements | `Ledger` |
| Identity, tokens | `routers/auth.py`, `core/security.py` | `platform_users` | register, create, delete, log in | `Catalog` (accounts) |
| Startup | `main.py` | schema, seed rows | create tables, seed accounts | `Catalog` (seeding) |
| Notifications, activity log | `services/appointments.py` 258-287, 484-509, `routers/notifications.py`, `activity_logs.py` | `notifications`, `activity_logs` | written after an operation's commit; sent, marked read, cleared | `Outbox` |
| Clients | `routers/clients.py` | `clients` | single-row reads and writes by key | `Outbox` (as logged edits) |
| Schemas, web client | `schemas/`, `web/` | none | validation; presentation | value sets; not modelled |

### How the parts interact

Through shared rows, never through messages. A booking locks the staff row that
staff administration updates and reads the walk-in or client that conversion
and deletion change. A status change runs the completion pipeline inside its
own transaction, so the pipeline writes stock that inventory requests also
write, reads the specialist record an administrator may delete, and writes the
history that a walk-in's conversion also writes. The exclusion constraint
`appointments_no_overlap` judges bookings, moves and status changes alike.
Payments refer to appointments and change nothing of them; reports read what
bookings, completions and payments have committed, one statement at a time. The
catalog's tables depend on one another only through foreign keys to rows that
are never deleted in fact, but for accounts, to which nothing refers by one.

### What is hard, and what must hold

- **Check, then act.** Handlers read, decide and write with nothing locked in
  between: status changes, conversions, stock, commissions. What must hold:
  the transition table, one completion, one conversion, stock that adds up.
- **Two guards that differ.** The overlap query counts requested, confirmed and
  in-progress appointments; the constraint counts completed ones too. What must
  hold: no double booking, whichever guard a request passes, and no 409 without
  an appointment in the way.
- **Waiting.** Bookings wait for a staff row, updates for an appointment row,
  placed tuples for an uncommitted rival. What must hold: everybody gets an
  answer.
- **Failing in the middle.** A process or connection may die between any two
  statements. What must hold: a completion is whole or absent.
- **Soft deletes.** Rows leave queries but stay in unique constraints. What must
  hold: a key is never held twice, and a refusal has a reason.
- **Lists replaced as a whole.** A `DELETE` of what it sees, then inserts, in
  one transaction. What must hold: nothing of the old list stays, all of the new
  is there, no other list is touched.
- **Figures from several statements.** Reports and balances read while others
  commit. What must hold: what one answer says does not contradict itself.
- **Writes after the commit.** Log rows and notifications are added to the
  session when the transaction is over, and stored only if the handler commits
  again. What must hold: what was acknowledged is on record, the log agrees with
  the notifications, and a notification reaches whom it is for.

`PROJECT.json` lists every hazard at its line with the properties that cover it.

## 2. The modules

### Lifecycle

The statuses, `LEGAL_TRANSITIONS`, and the two readings of "holds its slot":
`ActiveStatuses` (the booking query and the availability view) and `HoldsSlot`
(the constraint's `WHERE`).

### Booking, the core

One action per database statement of a handler.

| Variable | Program |
|---|---|
| `staff[s]` | active, inactive or soft-deleted staff row |
| `appts[a]` | the committed row: status, staff, start, length |
| `pc[r]`, `tx[r]` | where request `r`'s handler is, and its open transaction: the columns it will set (`set`), the tuple it has put in the table (`new`), the rows its overlap query has matched (`seen`), the specialist acting (`by`) |
| `answer[r]` | what the caller was told: 2xx, 4xx, 409, 500 |

- `POST /appointments`: `BookArrive` (staff check), `BookResolve` (client and
  services), `BookLock` (staff `FOR UPDATE`), `BookCheck` (the rows the overlap
  query matches when it starts), `BookJudge` (the query is `FOR UPDATE` too: it
  waits for the writers of those rows, locks them and judges them again, and no
  others), `BookInsert` (`flush`), then the constraint and the commit.
- `PATCH /appointments/{id}`: `MoveArrive`, `MoveStaff` (the new staff row),
  then `Place`, the constraint, `Commit`; or `Touch` when only `updated_by`
  changed, which waits for the row and nothing else; or an answer at once when
  nothing is sent. The handler accepts an appointment of any status and takes no
  schedule lock.
- `POST /appointments/{id}/status` and `/complete`: `StatusArrive` (judges the
  transition on the status read), `StatusAuth` (a specialist's own record),
  `StatusBlocked` (the pipeline refuses), then as above.
- In the database: `Place` puts the new version, computed from the newest
  committed row, in the table; `ExclusionPass` / `ExclusionFail` is the
  constraint; `Commit` is the foreign key check and the commit; `Deadlock` is
  the detector; `Abort` is a lost connection or process.
- `StaffUpdate`, `StaffDelete`: one short transaction each.

`WaitsOn(r)` is PostgreSQL's waiting as this code meets it: a booking for the
staff row; an update, or the overlap query about to judge, for the row's lock,
which another update or another overlap query holds (`HoldsRow`); a placed tuple
for a rival tuple that is not committed; a commit that changes `staff_id` for a
booking's lock on that staff row (`KEY SHARE` against `FOR UPDATE`). A placed
tuple is visible to other exclusion checks before it is committed, which is why
two may wait for each other. One simplification: the overlap query takes the
locks of the rows it has matched together, where PostgreSQL takes them one by one.

Abstractions: one organization; integer time; a booking's lines are one total
length; the appointment's price, notes and source are left out; a client,
walk-in or service lookup may fail at any time (`BookResolve`, `StatusArrive`
choose).

### Calendar, the promise

Reservations of staff time that never share a moment; each is made, moved or
given up in one step, and a move keeps its length and never lets go of the old
slot first. `Booking` implements it with the mapping "committed rows that hold
a slot": `ImplementsCalendar == Promise!Spec`.

### Completion

The pipeline query by query (`ReadUsage`, `ReadProducts`, `ReadSpecialist`,
`ReadCommissions`, `CommitComplete`, `CommitFails`) beside cancelling, adjusting
and setting stock, recording usage, and an administrator's deletions.
`read[p]` is the stock the transaction has loaded, `want[p]` the absolute value
it will write, `change[p]` what that means; two history variables remember what was acknowledged: `ledger`, the stock the
acknowledged changes add up to, and `spent`, the usage rows that were deducted.
A batch of commission or history rows is one unit of a counter. Appointments
start in progress: earlier steps write nothing but the status, and `Booking`
models them.

### WalkIns

Creation, deletion and conversion of walk-ins (`ConvertArrive`,
`ConvertInsert`, `ReadCompleted`, `ReadHistory`, `CommitConvert`) beside
bookings for walk-ins and their status changes. The history is kept row by row
(client, appointment, line), since the conversion tells rows apart only by
appointment and service name. The history variable `owed` remembers what was complete when a
successful conversion was asked for. Completing an appointment is one commit
here: without a `client_id` it writes no history, and what else it writes is in
`Completion`.

### Outbox

An operation commits its work (`CommitWork`, `CommitEdit`), adds its log row and
notification to the session (`Announce`), and then either commits again
(`CommitAgain`, `CommitLog`) or just returns (`CloseSession`), which drops what was added. `CommitsAgain` and
`Notifies` say which operations do what: bookings, status changes with or
without a client to tell, and the edits of clients, staff, services, schedules
and days off, which all follow one pattern. Beside them notifications are sent
and marked read, one by one or all at once, and the log is cleared.

A notification has an addressee, `to`: `transition_status` writes the key of the
appointment's client (`ClientOf`), an administrator who sends one types any key.
An account sees, and marks, those addressed to its own key (`Inbox`,
`MarkArrive`, `MarkAll`). Keys of `clients` and of `platform_users` are drawn
apart, and a client and an account are tied by their e-mail only (`AccountOf`;
`routers/auth.py` 184-193). The history variables are `acked` (operations whose
caller was told so) and `cleared` (log rows an administrator has read and
cleared).

### Ledger

Payments, balances, commissions and the reports. `status[a]` is the committed
status of an appointment, `payments[p]` a committed payment, `commissions[l]`
how many commission rows service line `l` has (two completions could write
two), `deletedStaff` the soft-deleted staff, `answer` the balance or report the
last step has answered with.

- `POST /payments`: `CreatePayment`. `PATCH`, `DELETE`: `EditArrive`,
  `RemoveArrive` read the row and change the object, `CommitPayment` writes the
  columns that differ from what was read (`Written`) onto the row as it is then.
- `GET .../balance`: `BalanceArrive`, `BalanceSum`.
- `GET /reports/performance`: `PerformanceArrive` (counts), `PerformanceRevenue`
  (sums), `PerformanceNames` (names and answer), one statement each. `GET
  /reports/commissions`: `ReportCommissions`, restricted by `Scopes`.
- `GET /reports/revenue` and the dashboard's revenue are operators
  (`RevenueByPeriod`, `RevenueByService`, `RevenueByStaff`, `DayRevenue`) that
  `GroupingsAgree` compares: the first and the last sum paid payments, the other
  two the prices of completed lines, paid or not, which the report's docstring
  does not say (disagreement 9).

What a booking fixes (lines, prices, rates, total, discount, staff) is constant,
since nothing in `src/` changes it but a move to other staff (in `Booking`). Commission
rates are whole percents, so that rounding half up is
`(2 * n + 100) \div 200`. Left out: tips, a payment's own discount, method and
reference (no figure depends on them), the window of a report (every appointment
is in it), the specialist record's deletion (in `Completion`).

### Catalog

The tables that share one way of being kept, as rows of one variable with a
`table` column: categories, specialists, staff records, accounts, specialties,
package items, staff qualifications and weekly schedules.

| Variable | Program |
|---|---|
| `rows[i]` | a row: its table, its key, marked as deleted or not, `gone` once deleted in fact; `xmin` and `xmax`, the open transactions that insert and delete it |
| `pc[r]`, `tx[r]` | the handler's step; the row it has read, the keys it still has to insert, what its last look has found |
| `answer` | what the last step has answered |
| `up` | the servers that have started (a history variable) |

- Each `POST` is `Create` (409 when taken) or `Attach` (content with what is
  there) on its table, then `InsertNext` or `InsertFails`, and `Commit`. What
  the look overlooks differs by table: deleted categories and specialists, but
  not deleted staff (`Taken`).
- `RenameArrive`, `CommitRename`; `DeleteArrive` with `CommitSoftDelete` or
  `CommitHardDelete`, by table.
- `UpdatePackage`, `UpdateService`, `SetSchedule`: `Replace`, then `Doom` (the
  `DELETE`, which waits for rows others are deleting and passes over those that
  have gone), the inserts, `Commit`; `ItemMissing` is the 404 in between. A new
  package or service replaces an empty list.
- `SeedArrive`, `SeedLook`, `SeedCommit`: a starting server.
- `WaitsOn`, `Deadlock`: an insert waits for a rival of its key, a `DELETE` for
  the row's other transaction. Two replacements that insert the same keys in
  opposite orders do wait in a circle. A rename's `UPDATE` is the last statement
  before its commit, so the two are one step: two renames that cross fail one
  another either way, by a deadlock or by a duplicate.
- `StaffMissing`: a staff member named for a service that is not there breaks the
  foreign key, which nobody catches.

Unique constraints come from the models and migrations; `staff_schedules` has
none, since the table is created by `main.py` 138-148 without the one
`models/staff.py` 123 declares. Abstractions: keys are the unique columns
(name, user, e-mail, pair); whether the rows a request names besides exist is a
choice (`NotFound`, `ItemMissing`); registration's organization, staff and client
rows belong to the same transaction and have no rivals. The row of a package or
service that is updated together with its list is not locked in the model: an
`UPDATE` is only sent when a column of it changes, so two replacements may run
side by side; where it is sent, the model allows more than the program.

### The proof modules

`BookingProofs`, `CompletionProofs`, `WalkInsProofs`, `OutboxProofs`,
`LedgerProofs` and `CatalogProofs` each extend the module they are named after
with its inductive invariant, one lemma per action, and the theorems (section
5). `Sums` has what `CompletionProofs` and `LedgerProofs` need about
`SumFunctionOnSet`: an element taken out, monotonicity, union.

### Fault definitions

Beside some definitions stands a variant marked "Fault:", the mistake the
property next to it in `PROJECT.json` must notice: a dropped lock, a missing
constraint, a check of the wrong list. Nothing uses them in normal runs.

## 3. What the runs show

| Run | Question | Result |
|---|---|---|
| `pairs` | Two requests book, move and change statuses over two staff members in every interleaving, with aborts. | No double booking; each commit is one calendar step; passed tuples are clear; statuses follow the table |
| `lock` | Two bookings with windows of two lengths, a desk, and an administrator changing the staff row; nobody moves. | The schedule lock keeps a checked window free; nobody waits in a circle; a 409 has a cause |
| `fair` | A booking, a move and a status change, with deadlocks. | Every request ends |
| `completion` | Two desks complete appointments side by side; one cancels and records usage, the other takes deliveries and sets quantities; deletions. | No completion is stored by halves; the stock stays non-negative, and is lost by stale writes and in no other way |
| `twice` | Two desks complete one appointment. | Violated: two batches of commissions and history |
| `walkins` | A desk converts walk-ins, another books and changes statuses; deletions. | What was completed is carried over line by line, nothing else is |
| `converters` | Two desks convert one walk-in. | Violated: the client it ends up with lacks its history |
| `outbox` | A desk books and changes statuses; an administrator changes statuses too, edits, sends and reads notifications, clears the log; failures between two commits. | What was acknowledged is on record; log and notifications agree |
| `unannounced` | A desk books. | Violated: the log row and the notifications of a booking are never stored |
| `untold` | A desk changes the status of a registered client's appointment. | Violated: the client's account is not shown the notification |
| `ledger` | A desk books, completes, takes and corrects payments and deletes staff; an owner deletes payments and reads balances and reports. | Settled means paid up, with discounts above the total and overpayments; reports name everyone and never count a completion they have no revenue for; commissions stay within what was earned; a correction and a deletion do not undo one another |
| `catalog` | Two requests do everything to every table; failures and deadlocks. | Keys stay unique; a failed insert has a cause; lists are replaced whole, also side by side; nothing else goes; what is undone leaves no trace; a server that has started has all its accounts |

### The disagreements

1 to 4 are runs, with the line they contradict quoted under `findings` in
`PROJECT.json`. The others are counterexamples anybody can produce: each has a
configuration, which TLC ends with the violation.

1. `transition_status` (451) judges what it read; the `UPDATE` does not repeat
   the test, so two completions run the pipeline twice (`twice`); the "already
   processed" check reads commissions nobody has committed. In the same way one
   of two requests that both read *requested* cancels and the other then
   confirms the cancelled appointment: put `May <- TwoDesks` in
   `MCBookingPairs.cfg` and `FollowsLifecycle` fails.
2. `convert_to_client` (134) tests `converted_client_id` on an unlocked read, so
   two conversions of one walk-in register two clients. The later one finds the
   history the earlier has written, under the other client, takes its lines for
   already copied (173, 185), and links the walk-in to its own client, who has
   none of it (`converters`).
3. A booking's log row and notifications are added after its only commit
   (`unannounced`). A status change that notifies nobody (a no-show, or an
   appointment of a walk-in) loses its log row in the same way.
4. The notification of a status change is addressed to `appointment.client_id`
   (506), a key of `clients`; every endpoint of `routers/notifications.py` reads
   by `principal.user_id` (41, 57, 77, 124), a key of `platform_users`. No client
   ever finds one, registered or not (`untold`). What `DoneIsRecorded` says of
   notifications is therefore only that they are stored.
5. Stock is written as an absolute value computed from an unlocked read:
   a delivery (`routers/products.py` 142) beside a completion is lost
   (`MCCompletionLost.cfg`, `StockAddsUp`).
6. `reschedule_appointment` does not take the schedule lock, so a move enters a
   locked window (`MCBookingMoved.cfg`, `WindowStaysFree`) although the comment
   at `services/appointments.py` 193 says nothing can "interleave between our
   check and our insert", and move and booking may insert overlapping rows and
   wait for each other. The constraint still prevents the double booking; the
   booking that lost is answered 409 after its check had succeeded, or is the
   deadlock's victim.
7. History of a walk-in's appointment is written only by the conversion
   (`_write_service_history` returns without a `client_id`, 410), and a
   conversion never runs again: what completes later, or while it runs, is in no
   history (`MCWalkInsLate.cfg`, `WalkInHistoryAppears`). `HistoryIsPreserved`
   states the half that holds.
8. `commissions_report` restricts `specialist_id`, a key of `specialists`, to a
   staff id (`routers/reports.py` 304), and looks names up by it: a stylist sees
   nothing, and names are missing for everyone (`MCLedgerOwn.cfg`,
   `OwnCommissionsShown`).
9. `revenue_report` says it sums "recognized revenue (paid payments)"
   (`routers/reports.py` 154-157). By period it does; by service and by staff it
   sums the prices of completed lines, paid or not (197-253), so that the
   groupings of one report disagree (`MCLedgerRevenue.cfg`, `GroupingsAgree`).

One more is visible in `completion` as the action `CommitFails`: `_deduct_stock`
compares each usage row alone with the stock (338), so two rows of one product
that fit only one by one end in an unhandled constraint error rather than the
400 its docstring announces. The `CHECK` constraint keeps the stock
non-negative, so `StockNeverNegative` holds all the same.

So the passing runs state exactly what does hold. `NeverByHalves` and
`OnlyStaleWritesLose` hold for any number of desks; stronger statements hold for
fewer. `CompletionIsWhole` (once, and with everything) holds while one request at
a time completes or cancels, `StockAddsUp` while moreover nobody else restocks:
`MCCompletionDesk.cfg` checks both. `StockNotUnderstated` holds for any number of
desks where nobody restocks (`MCCompletionWorkers.cfg`). `FollowsLifecycle` holds
while one request at a time changes statuses (moves and bookings may run beside
it), `HistoryIsPreserved` and `HistoryIsEarned` while moreover one at a time
converts. `WindowStaysFree` and `NoWaitCycle` hold for one desk where nobody
moves; with `May <- TwoDesks` and two requests in `MCBookingLock.cfg` both fail,
because the second desk confirms an appointment the first has cancelled, in a
window that has since been booked. Section 5 says which theorems carry such a
condition and which need none.

### Bounds

| Run | Instance | Why it is enough |
|---|---|---|
| `pairs` | 2 requests, 2 appointments, 2 staff, starts 0 and 1, length 2 | both starts overlap, so every placement on one staff member conflicts; a move may change staff, start or both; each conflict is between two rows |
| `lock` | 3 requests, 2 appointments, 1 staff, starts 0 and 1, lengths 1 and 2 | windows that touch, overlap and nest; a third request releases what two bookings fight for |
| `fair` | 3 requests, one kind each, 2 appointments, 2 staff | cycles of two and of three waits; a move to the other staff member |
| `completion` | 2 requests, 2 appointments (one of a client), 1 product, 2 usage rows of quantity 1, stock at most 1 | each row fits, both do not, and a delivery or a correction makes room again; usage before, during and after a completion; two completions of one appointment and of two that use one product. (Two rows that fit together, and quantities 1 and 2, are in `MCCompletionDesk.cfg`) |
| `twice` | 1 appointment, 1 product | smallest instance that shows it |
| `walkins` | 2 requests, keys for two of everything, two lines of one name | a walk-in and a stranger; names that do not tell lines apart |
| `converters` | 2 requests, 1 walk-in, 2 clients, 2 appointments | smallest instance that shows it |
| `unannounced`, `untold` | 1 request, 1 client with an account | the sequence needs no concurrency |
| `outbox` | 2 requests, 3 operations, 2 appointments (one of a registered client), 2 notifications | a booking and two told statuses, or an edit among them; repetition is about pairs |
| `ledger` | 2 requests, 2 appointments (total 4 discount 2, total 1 discount 2), 3 lines, 1 payment of 1 or 2, 2 staff (one a specialist) | owed 2 and -1, underpaid, paid and overpaid; commissions that fall on half a cent and on the whole price; one payment is enough for lost corrections, and sums are over sets |
| `catalog` | 2 requests, 4 rows, keys x, y in one list and z in another, lists of at most 2, 2 default accounts of 4 | two rivals for a key; an old list beside a new one of two keys, in both orders, with a repetition; a list that must be left alone |

The `CONSTRAINT` of `catalog` keeps rows and transactions to one table at a time: no
action reads or writes rows of two tables, and none waits for another table's
rows, so a state with two tables is two states side by side. `Room` bounds the
rows: a request is taken on only while there is a row for each insert. `MaxAsked` bounds the
length of a list.

`MaxStock` bounds adjustments and absolute updates in the guards of
`AdjustArrive` and `SetArrive`, `MaxNotes` the notifications in `Later`, and
`Operation` how many operations are committed. The sets of keys bound how many rows can ever be
created. Nothing else is bounded. Symmetry permutes primary keys, and in `catalog` the two
requests, which may do the same; it is used only in runs without liveness
properties.

### Fairness

Only `fair` assumes any (`Fairness` in `Booking`):

- `WF(Run(r))`: the server runs every handler on; nothing in these steps waits.
- `SF(Acquire(r))`: a step that needs a lock may be enabled and disabled again
  as others take the lock first. PostgreSQL grants queued locks in order of
  arrival, so a waiter is not overtaken for ever.
- `WF(Deadlock(r))`: the detector looks after a second of waiting.

Nothing obliges a request to arrive, an administrator to act or a connection to
fail. Without the detector (`NeverInCycle`) `EveryRequestEnds` fails: waits in a
circle do happen between bookings and moves. `NoWaitCycle` holds in `lock`
because nobody moves.

## 4. Deadlock checking

TLC's deadlock check is on in every run: an idle request can always try an
operation, and a waiting one can always be aborted.

## 5. What is proved

The theorems hold for every value of the constants: any number of requests,
rows, quantities, prices and times. What they assume of the constants is named in
the modules and evaluated by TLC in every run:

- types of tables fixed at booking (`PricesAssumption`, `PeopleAssumption`,
  `KeyAssumption`), of bounds and inputs (`StartAssumption`, `DurationAssumption`,
  `QuantityAssumption`, `AmountAssumption`, `EditedAssumption`, `ClientAssumption`,
  `MaxStockAssumption`, `BoundAssumption`, `MayAssumption`), and NULL being no value
  (`NullAssumption`). Durations, quantities and amounts are positive because the
  schemas refuse others;
- `UsageKeyAssumption` and `FiniteAssumption`: tables that are summed are finite;
- `PeopleAssumption`: a specialist record is of one staff member (its `staff_id`,
  `models/staff.py` 51-76), and primary keys of two tables do not coincide
  (both are uuid4);
- `DefaultsAssumption`: the seeded e-mails differ (they are written down in
  `main.py` 176-260).

A theorem about `Spec` alone has no other hypothesis. The others are named
`...Alone` (or `WindowHolds`, `NobodyWaitsInACircle`, `NotUnderstated`) and state a condition on the
constant `May`, who may make which requests: that at most one of them is ever
of a kind, or none. The program does not ensure it; it describes an office in which one
desk does that work, any number of other requests running beside it. The runs
satisfy it with two or three requests. Without it the properties fail, for the
reasons in "The disagreements": they say how much of the code is right, and how
far.

| Property | Proved for | Why the condition |
|---|---|---|
| `FollowsLifecycle`, `CompletedIsEarned`, `CommissionsWithinRevenue` | one request at a time changes statuses | a status is judged on a stale read (1.) |
| `CompletionIsWhole` | one completes or cancels | the same: two batches (`twice`) |
| `StockNotUnderstated` | nobody adjusts or sets stock | a delivery that is overwritten, or overwrites (5.) |
| `HistoryIsPreserved`, `HistoryIsEarned` | one converts, one changes statuses | both 1. and 2. |
| `WindowStaysFree`, `NoWaitCycle` | one changes statuses, nobody moves | a move takes no schedule lock (6.); a stale status change brings a cancelled appointment back |
| all others | whatever runs side by side | |

### Booking

Unconditional: `TypeCorrect`, `NeverDoubleBooked`, `KeepsThePromise` (`Spec =>
ImplementsCalendar`), `PassedStaysClear`, `ConflictsAreReal`.
Conditional: `LifecycleAlone`, `WindowHolds`, `NobodyWaitsInACircle`.

`NoDoubleBooking` is not inductive: a commit preserves it only because the tuple
passed a check earlier, and only if nobody who could conflict committed since.
The invariant `IInv` carries that over the steps in between:

- `TypeOK`;
- `Carries`: a transaction that writes has the row it writes, of the right kind;
- `KeysApart`: the key of a booking in progress is unused, and every other
  transaction is about a committed row;
- `OneWriterPerRow`: two open transactions never hold tuples of one row;
- `KeepsLength`: an update's tuple is as long as the row it replaces;
- `PassedIsClear`: a tuple that passed the exclusion check conflicts with no
  committed row but its own and with no other tuple that passed;
- `CommittedClear`: no two committed rows exclude each other.

The argument: `ExclusionPass` requires that no rival is in flight and no
committed row excludes the tuple, which gives `PassedIsClear` (lemma
`PassClear`; exclusion is symmetric). Until `r` commits, any other request that
passes must have found `r`'s tuple in flight and not conflicting, so
`PassedIsClear` survives; the row lock (`OneWriterPerRow`) guarantees that no
one replaces the row underneath. Then `Commit` yields `CommittedClear`, and
`NoDoubleBooking` follows since two windows that share a moment overlap. One
lemma per handler (`BookInv`, `MoveInv`, `StatusInv`, `PlaceInv`, `PassInv`,
`CommitInv`, `StaffInv`) rests on four about how a handler ends or goes on
(`ReplyInv`, `GoInv`, `GoOnInv`, `PlacedInv`). `KeepsThePromise` maps a commit
to `Reserve`, `Move`, `Release` or a stutter by what the old and new rows hold.
The schedule lock and the overlap query are not used in any of this: the
exclusion constraint alone makes the system safe.

Three layers on top of `IInv` give the rest:

- `IAsked`: what a request was asked for stays with it (a booking's row is
  *requested*, a move sets no status, a status change nothing else).
  `ConflictsAreReal` follows: both ways to a 409 have a committed row in front of
  them.
- `IJudged`: what an update is about to make of the row *as it is now* is a legal
  step of the table. `OneWriterPerRow` keeps it while the tuple is in flight; the
  condition keeps it while the handler has only read.
- `ILocked`: past the lock nobody else holds it, a query about to judge has noted
  every active appointment in the window, and once it has judged none is there.
  This is where lock and query are used: the only other ways into a window are a
  booking (which would need the lock), a move, and a step from an inactive status to
  an active one (which the table forbids, with `IJudged`). `NobodyWaitsInACircle`
  then ranks the requests: a booking that has judged and a tuple in flight wait for
  nobody, since whatever could exclude them would be in the checked window or hold its
  lock (`InFlightGoesOn`); a query that judges and an update wait for those only; and a
  booking before its lock waits for bookings that have it.

### Completion

Unconditional: `TypeCorrect`, `NeverNegative`, `OnlyStaleLose`, `NotByHalves`.
Conditional: `NotUnderstated`, `WholeAlone`.

`IInv` adds to the types what a request carries at each step, that usage rows that
were read exist and are about the appointment (`RowsExist`), and that only a
completion can be about to write a negative quantity (`WantsStock`), which the
`CHECK` constraint refuses. Four layers stand on it:

- `IMeant`: what is about to be written is what was read and the change it stands
  for (`WantsWhatIsMeant`), however many usage rows there are. So a commit that
  has read today's stock changes stock and ledger alike: `OnlyStaleLose`.
- `IEnough`: what a completion has read was at least the ledger, and a completion
  only deducts (`ReadsEnough`), so a late write leaves too much and never too
  little: `NotUnderstated`.
- `IHalves`: a completion about to commit pays, unless there is nobody to pay or it
  was paid already (`PaysOrPaid`): `NotByHalves`.
- `IWhole`: the status that was judged still holds, and a completion about to commit
  pays while there is a specialist to pay (`Judged`): `WholeAlone`. It is what is left
  of `RenderedOnce`, the property `twice` refutes, for one desk.

An administrator's deletions and a stylist's usage rows run beside all of them
without disturbing them.

### WalkIns

Unconditional: `TypeCorrect`. Conditional: `PreservedAlone`, `EarnedAlone`.

`ILink`: a walk-in under conversion has no client yet, and a client that a
conversion registered is linked. `IHist` adds what the conversion has read is
still so when it commits: the appointments it found are completed (completed is
terminal, if the status was judged on a fresh read), all that was complete when it
was asked for is among them, and no history row of them exists yet, since history of
a walk-in is written only by its one conversion. So what it writes is all of it
(`HistoryIsPreserved`) and nothing else (`HistoryIsEarned`).

### Outbox

All unconditional: `TypeCorrect`, `Recorded`, `LogMatches`.

`OwnOps`: between its two commits an operation belongs to the request that
committed it, and nobody has been told of it. So the second commit tells it once,
with the log row (`NotesMatchLog`), and only then is the caller answered
(`AckedDone`, `DoneIsRecorded`). Two second commits that come in another order than
the changes disturb neither.

### Ledger

Unconditional: `TypeCorrect`, `Settled`, `NoneUndone`, `Named`.
Conditional: `EarnedAlone`, `WithinAlone`.

`IInv` adds what a report carries between its statements: whom it has numbers for
has an appointment (`Carries`), so the statement for names, which does not look at
whether staff were deleted, finds them. `NoEditIsUndone` is about `Written`: a
column that was not changed is not sent. `ILone` adds that a line has one commission at most and only if its
appointment is completed (`OnePerLine`), so the rounded commissions of a staff
member are bounded line by line (`RoundedWithin`), and that what a
report has counted as completed stays completed (`Judged`; completed is terminal).

Sums over sets are folds, defined by recursion on a set, and the library's
induction theorems cannot be used by the provers (they take a predicate as a
parameter). `Sums` argues without them: strict inclusion among the subsets of a finite
set is well-founded, so a set of counterexamples, an ordinary set, has a smallest
member. From this it proves that the function behind the fold exists and is unique,
and from that each fact about sums.

### Catalog

All unconditional: `TypeCorrect`, which includes that no row is left in doubt by a
transaction that has ended, `KeysStayUnique`, `NothingIsLost`, `NoTraceIsLeft`,
`StartsSeeded`, `ReplacementsHold`, `ErrorsHaveReasons`.

`KeysUnique` speaks of committed rows and is not inductive: a replacement
inserts a key while the row it is deleting still holds it for everyone else. The
invariant `IInv` is

- `TypeOK`;
- `Carries`, `HasRow`: what each step of a handler carries; the row a rename or
  a deletion is about is committed, and has kept its key unless it is a category;
- `InDoubt`: a row in doubt belongs to an inserting transaction, or to a
  replacement of the very list it is in;
- `SeesItsList`: what a replacement is about to delete is in its list;
- `KeysApart`: of two rows of one key that are there, one transaction inserted
  the one and is deleting the other.

An insert finds no rival and no row of its key but those it deletes itself,
which gives `KeysApart`; its commit settles both rows in one step, its rollback
takes the new one back. `KeysUnique` follows, since of two rows that are kept
apart one is not committed. `NothingIsLost` follows from `InDoubt`: a commit
takes away only rows in doubt, and those are in the list being replaced. So does
`NoTraceIsLeft`: what a transaction inserts or deletes stays in doubt, and thus as
it was for everyone else, until its commit, and a rollback settles it the other way.
`StandsInv`, `RollbackInv`, `CommitInv` and `WriteInv` are the four ways a step can
end; one lemma per action rests on them.

`IKeeps` adds what a transaction that inserts can count on until it ends, which
depends on what the steps of *others* do to its rows (`Steady`: a step changes
nothing about a row in doubt that is not its own, never takes back a deletion, and
inserts rows of its own only):

- `Seeding`: for each default account there is a row, or it is still to be looked
  for or inserted. When nothing is left, the server has started: `StartedIsSeeded`.
- `SeedsOnce`, `LooksFirst`: what is being inserted was looked for, what the look
  saw was deleted, and the transaction has no row of that key itself; so a row that
  makes the insert fail is one the look passed over or one that came later:
  `ErrorHasReason`. `SeedsOnce` is where the default e-mails must differ.
- `Replacing`: what was seen is marked or gone, and what was asked for is inserted or
  still to be: `ReplacementHolds` at the commit.

### Only model-checked

`EveryRequestEnds`: liveness under fairness is beyond the prover. `StockAddsUp` for
one desk: the proof would exclude by hypothesis the very writers that break it. The
properties of "The disagreements" are refuted by counterexamples. That the
conditions in the table are needed was found by TLC.

## 6. What is not modelled, and the plan

Worth doing next: abstract specifications, each as a refinement with its proof:
a register of lists for `Catalog` (a list changes in one step, or not at all), an
account for `Ledger` (payments come, change and go, the balance is their sum),
and, for one desk, an appointment that is completed once with everything that
belongs to it, for `Completion`.

Left out, with the reason:

- descriptive fields and single-row writes by key (names, prices, rates, the
  deletion of services and packages, days off, client preferences): one commit,
  nothing read before it that could be stale;
- the availability view and the other counters of the dashboard: read-only, one
  statement each, and nothing is compared with them;
- the package a booking reads in three statements, and the organization of the
  default accounts after the default administrator was deleted: hazards in
  `PROJECT.json`, whose rows no module has;
- the order of notifications, by `created_at`: two desks can store two status
  changes in the other order, and nothing promises otherwise;
- creation of missing tables at startup (`CREATE TABLE IF NOT EXISTS`);
- login, refresh and tokens: no state is kept;
- schemas (their bounds appear in the value sets of the models), the web client,
  the wording of errors;
- tenant isolation: every query filters by the caller's organization; the models
  are of one organization.

## 7. Running

    tlc -config MCBookingPairs.cfg MCBooking.tla
    tlapm Sums.tla
    tlapm BookingProofs.tla
    tlapm CompletionProofs.tla
    tlapm WalkInsProofs.tla
    tlapm OutboxProofs.tla
    tlapm LedgerProofs.tla
    tlapm CatalogProofs.tla

The configurations of the runs are named in `PROJECT.json`. Beside them stand
`MCCompletionDesk.cfg` and `MCCompletionWorkers.cfg`, which TLC passes, and
`MCCompletionLost.cfg`, `MCBookingMoved.cfg`, `MCWalkInsLate.cfg`, `MCLedgerOwn.cfg`
and `MCLedgerRevenue.cfg`, which end with the counterexamples to disagreements 5
to 9.
