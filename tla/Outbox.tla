------------------------------- MODULE Outbox -------------------------------
(***************************************************************************)
(* What is told about an operation after it is done: a row of the activity *)
(* log and notifications.  An operation commits its own work first; then   *)
(* log_activity and create_notification add their rows to the same         *)
(* session, and whether these are stored depends on a second commit of the *)
(* handler.  A notification is addressed by a key, and an account reads    *)
(* the notifications addressed to its own.  Beside the operations run the  *)
(* readers: notifications are marked read one by one or all at once, and   *)
(* an administrator clears the log.                                        *)
(***************************************************************************)
EXTENDS Naturals, Sequences, Lifecycle

CONSTANTS
    Request,        \* the concurrent requests the server is working on
    Operation,      \* bound: the operations that can ever be committed
    Appointment,    \* appointments that can be booked
    User,           \* keys of the accounts (platform_users)
    Client,         \* keys of the clients
    ClientOf,       \* ClientOf[a]: its client, Null when it is of a walk-in
    AccountOf,      \* AccountOf[c]: the account of the client's e-mail, or Null
    MaxNotes,       \* bound: notifications there can be
    May,            \* May[r]: the kinds of request r makes
    Null            \* SQL NULL, an absent row

Kind == {"book", "status", "edit", "send", "mark", "clear"}

(* What an operation has done: set a status (a booking sets the first), or *)
(* edited a client, a staff member, a schedule, a day off or a service     *)
(* (deleting a service is the one edit that is not logged, and left out).  *)
What == Status \cup {"edited"}

(* Keys of both tables are drawn apart (uuid4).                            *)
ASSUME ClientAssumption ==
    /\ ClientOf \in [Appointment -> Client \cup {Null}]
    /\ AccountOf \in [Client -> User \cup {Null}]
    /\ User \cap Client = {}
ASSUME MayAssumption == May \in [Request -> SUBSET Kind]

VARIABLES
    appts,          \* appts[a]: Null or the committed status
    done,           \* done[o]: Null or what the committed operation did
    log,            \* operations with a row in the activity log
    notes,          \* notifications, oldest first
    pc, tx, answer, \* the requests: step, transaction, last answer
    acked,          \* history: operations whose caller was told so
    cleared         \* history: log rows an administrator has read and cleared

tables == <<appts, done, log, notes>>
vars == <<tables, pc, tx, answer, acked, cleared>>

Done == [what : What, appt : Appointment \cup {Null}]

ASSUME NullAssumption ==
    Null \notin Operation \cup Appointment \cup Status \cup Done \cup User \cup Client

(* A notification and the key it is addressed to, which no foreign key     *)
(* ties to a table; one that somebody typed in is about no operation.      *)
Note == [about : Operation \cup {Null}, to : User \cup Client, read : BOOLEAN]

(* An open transaction: the work to commit, or the operation that was      *)
(* committed and the rows that were added to the session since; the log    *)
(* rows read for clearing; the notification and the flag to write.         *)
Tx == [ kind : Kind \cup {"none"}, work : Done \cup {Null}, op : Operation \cup {Null},
        told : BOOLEAN, rows : SUBSET Operation, note : Nat, read : BOOLEAN ]

NoTx == [ kind |-> "none", work |-> Null, op |-> Null, told |-> FALSE,
          rows |-> {}, note |-> 0, read |-> FALSE ]

Step == {"idle", "work", "announce", "again", "commit"}

Answer == {"none", "done", "refused"}

TypeOK ==
    /\ appts \in [Appointment -> Status \cup {Null}]
    /\ done \in [Operation -> Done \cup {Null}]
    /\ log \subseteq Operation
    /\ notes \in Seq(Note)
    /\ pc \in [Request -> Step]
    /\ tx \in [Request -> Tx]
    /\ answer \in [Request -> Answer]
    /\ acked \subseteq Operation
    /\ cleared \subseteq Operation

Init ==
    /\ appts = [a \in Appointment |-> Null]
    /\ done = [o \in Operation |-> Null]
    /\ log = {}
    /\ notes = <<>>
    /\ pc = [r \in Request |-> "idle"]
    /\ tx = [r \in Request |-> NoTx]
    /\ answer = [r \in Request |-> "none"]
    /\ acked = {}
    /\ cleared = {}

-----------------------------------------------------------------------------
Go(r, step, t) ==
    /\ pc' = [pc EXCEPT ![r] = step]
    /\ tx' = [tx EXCEPT ![r] = t]
    /\ answer' = [answer EXCEPT ![r] = "none"]
    /\ UNCHANGED <<acked, cleared>>

Ends(r, code) ==
    /\ pc' = [pc EXCEPT ![r] = "idle"]
    /\ tx' = [tx EXCEPT ![r] = NoTx]
    /\ answer' = [answer EXCEPT ![r] = code]

Reply(r, code) == Ends(r, code) /\ UNCHANGED <<acked, cleared>>

(* Success, told to the caller of an operation.                            *)
Acknowledge(r) ==
    /\ Ends(r, "done")
    /\ acked' = acked \cup {tx[r].op}
    /\ UNCHANGED cleared

Receives(r, kind) == pc[r] = "idle" /\ kind \in May[r]

(* LEGAL_TRANSITIONS, applied to the status that was read.                 *)
Allows(read, new) == new \in LegalTransitions[read]

(* Fault: whether there is a client is not looked at.                      *)
TellsAnyone(work) == work.what \in {"confirmed", "cancelled", "in_progress", "completed"}

(* Status changes the client of the appointment is notified of.            *)
TellsClient(work) ==
    /\ work.what \in {"confirmed", "cancelled", "in_progress", "completed"}
    /\ ClientOf[work.appt] # Null

(* Fault: the second commit belongs to the notification.                   *)
OnlyNotified(work) == TellsClient(work)

(* The handlers that commit again after adding to the log: every edit, and *)
(* a status change that has a notification.  A booking does not.           *)
CommitsAgain(work) == work.what = "edited" \/ TellsClient(work)

(* A booking notifies the administrators, a status change the client.      *)
Notifies(work) == work.what = "requested" \/ TellsClient(work)

Later(n) == Len(notes) + n <= MaxNotes

(* Fault: the log row is added when the session has been committed.        *)
LoggedTooLate(r) == {}

(* The log row a second commit stores.                                     *)
Logged(r) == {tx[r].op}

(* Its notification, addressed to the key of the client.  (Those of a      *)
(* booking, to the administrators, never come to a second commit.)         *)
Noted(r) ==
    IF tx[r].told
    THEN <<[about |-> tx[r].op, to |-> ClientOf[tx[r].work.appt], read |-> FALSE]>>
    ELSE <<>>

-----------------------------------------------------------------------------
(* The operations.                                                         *)

(* POST /appointments; what may refuse a booking is left open.             *)
BookArrive(r) ==
    /\ Receives(r, "book")
    /\ \E a \in Appointment :
        /\ appts[a] = Null
        /\ \/ Reply(r, "refused")
           \/ Go(r, "work",
                 [NoTx EXCEPT !.kind = "book",
                              !.work = [what |-> "requested", appt |-> a]])
    /\ UNCHANGED tables

(* POST /appointments/{id}/status: judged by the status that was read; the *)
(* completion pipeline and the caller's rights may refuse as well.         *)
StatusArrive(r) ==
    /\ Receives(r, "status")
    /\ \E a \in Appointment, status \in Status :
        /\ appts[a] # Null
        /\ \/ Reply(r, "refused")
           \/ /\ Allows(appts[a], status)
              /\ Go(r, "work",
                    [NoTx EXCEPT !.kind = "status", !.work = [what |-> status, appt |-> a]])
    /\ UNCHANGED tables

(* The changes of clients, staff, services, schedules and days off.        *)
EditArrive(r) ==
    /\ Receives(r, "edit")
    /\ \/ Reply(r, "refused")
       \/ Go(r, "work",
             [NoTx EXCEPT !.kind = "edit", !.work = [what |-> "edited", appt |-> Null]])
    /\ UNCHANGED tables

(* The first commit: the work itself.  A booking's key is new.             *)
CommitWork(r) ==
    /\ pc[r] = "work" /\ tx[r].kind # "edit"
    /\ tx[r].kind = "book" => appts[tx[r].work.appt] = Null
    /\ appts' = [appts EXCEPT ![tx[r].work.appt] = tx[r].work.what]
    /\ \E o \in Operation :
        /\ done[o] = Null
        /\ done' = [done EXCEPT ![o] = tx[r].work]
        /\ Go(r, "announce", [tx[r] EXCEPT !.op = o])
    /\ UNCHANGED <<log, notes>>

CommitEdit(r) ==
    /\ pc[r] = "work" /\ tx[r].kind = "edit"
    /\ \E o \in Operation :
        /\ done[o] = Null
        /\ done' = [done EXCEPT ![o] = tx[r].work]
        /\ Go(r, "announce", [tx[r] EXCEPT !.op = o])
    /\ UNCHANGED <<appts, log, notes>>

(* log_activity, then create_notification: added to the session.           *)
Announce(r) ==
    /\ pc[r] = "announce"
    /\ Go(r, "again", [tx[r] EXCEPT !.told = Notifies(tx[r].work)])
    /\ UNCHANGED tables

(* The second commit, of a status change with a notification and of an     *)
(* edit.                                                                   *)
CommitAgain(r) ==
    /\ pc[r] = "again" /\ tx[r].kind # "edit"
    /\ CommitsAgain(tx[r].work)
    /\ Later(Len(Noted(r)))
    /\ log' = log \cup Logged(r)
    /\ notes' = notes \o Noted(r)
    /\ Acknowledge(r)
    /\ UNCHANGED <<appts, done>>

CommitLog(r) ==
    /\ pc[r] = "again" /\ tx[r].kind = "edit"
    /\ CommitsAgain(tx[r].work)
    /\ log' = log \cup Logged(r)
    /\ Acknowledge(r)
    /\ UNCHANGED <<appts, done, notes>>

(* The handler returns; get_db closes the session and what was added to it *)
(* since the last commit is gone.                                          *)
CloseSession(r) ==
    /\ pc[r] = "again"
    /\ ~CommitsAgain(tx[r].work)
    /\ Acknowledge(r)
    /\ UNCHANGED tables

(* The process or the connection dies: what is committed stays.            *)
Abort(r) ==
    /\ pc[r] # "idle"
    /\ Reply(r, "none")
    /\ UNCHANGED tables

-----------------------------------------------------------------------------
(* The readers.                                                            *)

(* POST /notifications: the recipient's key is not looked up.              *)
Send(r) ==
    /\ Receives(r, "send")
    /\ Later(1)
    /\ \E to \in User \cup Client :
        notes' = Append(notes, [about |-> Null, to |-> to, read |-> FALSE])
    /\ Reply(r, "done")
    /\ UNCHANGED <<appts, done, log>>

(* PATCH /notifications/{id}: read the row, not found (404) if it is not   *)
(* addressed to the caller; then set its flag, unless it has that value.   *)
MarkArrive(r) ==
    /\ Receives(r, "mark")
    /\ \E me \in User, i \in DOMAIN notes, read \in BOOLEAN :
        \/ notes[i].to # me /\ Reply(r, "refused")
        \/ notes[i].to = me /\ notes[i].read = read /\ Reply(r, "done")
        \/ /\ notes[i].to = me /\ notes[i].read # read
           /\ Go(r, "commit", [NoTx EXCEPT !.kind = "mark", !.note = i, !.read = read])
    /\ UNCHANGED tables

CommitMark(r) ==
    /\ pc[r] = "commit" /\ tx[r].kind = "mark"
    /\ notes' = [notes EXCEPT ![tx[r].note].read = tx[r].read]
    /\ Reply(r, "done")
    /\ UNCHANGED <<appts, done, log>>

(* The notifications that list_notifications shows an account.             *)
Inbox(me) == {i \in DOMAIN notes : notes[i].to = me}

(* POST /notifications/read-all                                            *)
MarkAll(r) ==
    /\ Receives(r, "mark")
    /\ \E me \in User :
        notes' = [i \in DOMAIN notes |->
                    IF i \in Inbox(me) THEN [notes[i] EXCEPT !.read = TRUE] ELSE notes[i]]
    /\ Reply(r, "done")
    /\ UNCHANGED <<appts, done, log>>

(* DELETE /activity-logs: read every row, then delete those.               *)
ClearArrive(r) ==
    /\ Receives(r, "clear")
    /\ Go(r, "commit", [NoTx EXCEPT !.kind = "clear", !.rows = log])
    /\ UNCHANGED tables

(* The log rows that are left.                                             *)
Keeps(r) == log \ tx[r].rows

CommitClear(r) ==
    /\ pc[r] = "commit" /\ tx[r].kind = "clear"
    /\ log' = Keeps(r)
    /\ cleared' = cleared \cup tx[r].rows
    /\ Ends(r, "done")
    /\ UNCHANGED <<appts, done, notes, acked>>

-----------------------------------------------------------------------------
Operate(r) ==
    \/ BookArrive(r) \/ StatusArrive(r) \/ EditArrive(r)
    \/ CommitWork(r) \/ CommitEdit(r) \/ Announce(r)
    \/ CommitAgain(r) \/ CommitLog(r) \/ CloseSession(r)

Read(r) ==
    \/ Send(r)
    \/ MarkArrive(r) \/ CommitMark(r) \/ MarkAll(r)
    \/ ClearArrive(r) \/ CommitClear(r)

Next == \E r \in Request : Operate(r) \/ Read(r) \/ Abort(r)

Spec == Init /\ [][Next]_vars

-----------------------------------------------------------------------------
(* Properties.                                                             *)

HasLogRow(o) == o \in log \cup cleared

HasNote(o) == \E i \in DOMAIN notes : notes[i].about = o

HasNoteTo(o, key) == \E i \in DOMAIN notes : notes[i].about = o /\ notes[i].to = key

(* Whoever edits something, or changes a status the client is told of, and *)
(* hears that it is done, finds it in the log until an administrator who   *)
(* has seen the row clears it, and a notification is stored under the key  *)
(* of the appointment's client (log_activity and the second commit() of    *)
(* the handlers, clear_activity_logs).                                     *)
DoneIsRecorded ==
    \A o \in acked :
        /\ (done[o].what = "edited" \/ TellsClient(done[o])) => HasLogRow(o)
        /\ TellsClient(done[o]) => HasNoteTo(o, ClientOf[done[o].appt])

(* A client with an account finds a status change that was acknowledged    *)
(* among the notifications that account is shown (transition_status,       *)
(* "Notify the client about the status change").  The code violates it:    *)
(* the key of a client is never the key of an account.                     *)
ClientIsTold ==
    \A o \in acked :
        TellsClient(done[o]) =>
            LET me == AccountOf[ClientOf[done[o].appt]]
            IN  me # Null => \E i \in Inbox(me) : notes[i].about = o

(* The log and the notifications do not contradict one another: what a     *)
(* client is told of is in the log, and nothing is told twice or before it *)
(* is done (transition_status).                                            *)
NotesMatchLog ==
    \A i \in DOMAIN notes :
        notes[i].about # Null =>
            /\ done[notes[i].about] # Null
            /\ HasLogRow(notes[i].about)
            /\ \A j \in DOMAIN notes : notes[j].about = notes[i].about => i = j

(* A booking that was acknowledged is in the log, and the administrators   *)
(* are notified of it (create_appointment, "Notify all admin/staff users   *)
(* about the new appointment request"). The code violates it: both are     *)
(* added after its only commit.                                            *)
BookingIsAnnounced ==
    \A o \in acked : done[o].what = "requested" => HasLogRow(o) /\ HasNote(o)

=============================================================================
