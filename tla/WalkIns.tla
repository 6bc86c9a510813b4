------------------------------ MODULE WalkIns ------------------------------
(***************************************************************************)
(* Walk-in customers: their appointments, and the conversion of a walk-in  *)
(* into a client, which has to carry over the history of what was rendered *)
(* before.  Completing an appointment writes history only for clients, so  *)
(* for a walk-in the conversion is the only writer.                        *)
(*                                                                         *)
(* Each query is one action.  The conversion flushes the new client first  *)
(* and writes the link and the history inside its commit(); nothing locks  *)
(* the walk-in or its appointments.                                        *)
(***************************************************************************)
EXTENDS Integers, Lifecycle

CONSTANTS
    Request,        \* the concurrent requests the server is working on
    WalkIn,         \* primary keys walk-in customers can get
    Client,         \* primary keys clients can get
    Appointment,    \* primary keys appointments can get
    Line,           \* service lines an appointment can have
    NameOf,         \* the service name snapshotted on a line
    May,            \* May[r]: the kinds of request r makes
    Null            \* SQL NULL, an absent row

Kind == {"convert", "book", "status"}

ASSUME MayAssumption == May \in [Request -> SUBSET Kind]

VARIABLES
    walkins,        \* walkins[w]: Null or a row
    clients,        \* clients that conversions have registered
    appts,          \* appts[a]: Null or an appointment of a walk-in
    history,        \* service history rows
    pc, tx, answer, \* the requests: step, transaction, last answer
    owed            \* history: what a conversion found when it was asked for

tables == <<walkins, clients, appts, history>>
vars == <<tables, pc, tx, answer, owed>>

WalkInRow == [client : Client \cup {Null}, live : BOOLEAN]

ApptRow == [walkin : WalkIn, status : Status, lines : SUBSET Line]

HistoryRow == [client : Client, appt : Appointment, line : Line]

ASSUME NullAssumption ==
    Null \notin Client \cup WalkIn \cup Appointment \cup WalkInRow \cup ApptRow

(* An open transaction.  done are the completed appointments a conversion  *)
(* found, seen the appointments and names that are in the history already, *)
(* before those that were complete when the request arrived.               *)
Tx == [ kind : Kind \cup {"none"}, walkin : WalkIn \cup {Null},
        client : Client \cup {Null}, done : SUBSET Appointment,
        seen : SUBSET (Appointment \X {NameOf[l] : l \in Line}),
        before : SUBSET Appointment,
        appt : Appointment \cup {Null}, status : Status, lines : SUBSET Line ]

NoTx == [ kind |-> "none", walkin |-> Null, client |-> Null, done |-> {}, seen |-> {},
          before |-> {}, appt |-> Null, status |-> "requested", lines |-> {} ]

Step == {"idle", "insert", "completed", "history", "commit"}

(* "conflict" is 409, "refused" 400 or 404.                                *)
Answer == {"none", "done", "refused", "conflict"}

TypeOK ==
    /\ walkins \in [WalkIn -> WalkInRow \cup {Null}]
    /\ clients \subseteq Client
    /\ appts \in [Appointment -> ApptRow \cup {Null}]
    /\ history \subseteq HistoryRow
    /\ pc \in [Request -> Step]
    /\ tx \in [Request -> Tx]
    /\ answer \in [Request -> Answer]
    /\ owed \subseteq Client \X Appointment

Init ==
    /\ walkins = [w \in WalkIn |-> Null]
    /\ clients = {}
    /\ appts = [a \in Appointment |-> Null]
    /\ history = {}
    /\ pc = [r \in Request |-> "idle"]
    /\ tx = [r \in Request |-> NoTx]
    /\ answer = [r \in Request |-> "none"]
    /\ owed = {}

-----------------------------------------------------------------------------
Go(r, step, t) ==
    /\ pc' = [pc EXCEPT ![r] = step]
    /\ tx' = [tx EXCEPT ![r] = t]
    /\ answer' = [answer EXCEPT ![r] = "none"]
    /\ UNCHANGED owed

Ends(r, code) ==
    /\ pc' = [pc EXCEPT ![r] = "idle"]
    /\ tx' = [tx EXCEPT ![r] = NoTx]
    /\ answer' = [answer EXCEPT ![r] = code]

Reply(r, code) == Ends(r, code) /\ UNCHANGED owed

Receives(r, kind) == pc[r] = "idle" /\ kind \in May[r]

Live(w) == walkins[w] # Null /\ walkins[w].live

(* 409 once the walk-in is linked to a client.                             *)
Convertible(w) == walkins[w].client = Null

(* Fault: appointments of any status count as rendered.                    *)
EverBooked(w) == {a \in Appointment : appts[a] # Null /\ appts[a].walkin = w}

(* The walk-in's completed appointments.                                   *)
Rendered(w) ==
    {a \in Appointment :
        appts[a] # Null /\ appts[a].walkin = w /\ appts[a].status = "completed"}

(* Fault: a name in anybody's history counts as seen.                      *)
SeenAnywhere(done) == {<<a, NameOf[row.line]>> : a \in done, row \in history}

(* Existing history, by appointment and service name.                      *)
Seen(done) == {<<row.appt, NameOf[row.line]>> : row \in {h \in history : h.appt \in done}}

(* Fault: the rows are written before the client has a key.                *)
BackfillUnkeyed(client, done, seen) ==
    {[client |-> Null, appt |-> a, line |-> l] : a \in done, l \in Line}

(* The rows a conversion adds: every line it does not find in seen.        *)
Backfill(client, done, seen) ==
    {row \in HistoryRow :
        /\ row.client = client
        /\ row.appt \in done
        /\ row.line \in appts[row.appt].lines
        /\ <<row.appt, NameOf[row.line]>> \notin seen}

-----------------------------------------------------------------------------
(* POST /walk-ins, DELETE /walk-ins/{id}                                   *)

CreateWalkIn(w) ==
    /\ walkins[w] = Null
    /\ walkins' = [walkins EXCEPT ![w] = [client |-> Null, live |-> TRUE]]
    /\ UNCHANGED <<clients, appts, history, pc, tx, answer, owed>>

DeleteWalkIn(w) ==
    /\ Live(w)
    /\ walkins' = [walkins EXCEPT ![w].live = FALSE]
    /\ UNCHANGED <<clients, appts, history, pc, tx, answer, owed>>

-----------------------------------------------------------------------------
(* POST /walk-ins/{id}/convert-to-client                                   *)

ConvertArrive(r) ==
    /\ Receives(r, "convert")
    /\ \E w \in WalkIn :
        \/ ~Live(w) /\ Reply(r, "refused")
        \/ Live(w) /\ ~Convertible(w) /\ Reply(r, "conflict")
        \/ /\ Live(w) /\ Convertible(w)
           /\ Go(r, "insert",
                 [NoTx EXCEPT !.kind = "convert", !.walkin = w, !.before = Rendered(w)])
    /\ UNCHANGED tables

(* flush(): the new client is in the table, uncommitted.                   *)
ConvertInsert(r) ==
    /\ pc[r] = "insert"
    /\ \E c \in Client \ clients :
        /\ \A q \in Request : tx[q].client # c
        /\ Go(r, "completed", [tx[r] EXCEPT !.client = c])
    /\ UNCHANGED tables

ReadCompleted(r) ==
    /\ pc[r] = "completed"
    /\ LET done == Rendered(tx[r].walkin)
       IN  Go(r, IF done = {} THEN "commit" ELSE "history", [tx[r] EXCEPT !.done = done])
    /\ UNCHANGED tables

(* The lines of an appointment never change: reading them commutes with    *)
(* everything.                                                             *)
ReadHistory(r) ==
    /\ pc[r] = "history"
    /\ Go(r, "commit", [tx[r] EXCEPT !.seen = Seen(tx[r].done)])
    /\ UNCHANGED tables

CommitConvert(r) ==
    /\ pc[r] = "commit" /\ tx[r].kind = "convert"
    /\ clients' = clients \cup {tx[r].client}
    /\ walkins' = [walkins EXCEPT ![tx[r].walkin].client = tx[r].client]
    /\ history' = history \cup Backfill(tx[r].client, tx[r].done, tx[r].seen)
    /\ owed' = owed \cup {tx[r].client} \X tx[r].before
    /\ Ends(r, "done")
    /\ UNCHANGED appts

-----------------------------------------------------------------------------
(* POST /appointments for a walk-in, converted or not, and its status.     *)

BookArrive(r) ==
    /\ Receives(r, "book")
    /\ \E w \in WalkIn, lines \in SUBSET Line \ {{}} :
        IF Live(w)
        THEN Go(r, "commit", [NoTx EXCEPT !.kind = "book", !.walkin = w, !.lines = lines])
        ELSE Reply(r, "refused")
    /\ UNCHANGED tables

CommitBook(r) ==
    /\ pc[r] = "commit" /\ tx[r].kind = "book"
    /\ \E a \in Appointment :
        /\ appts[a] = Null
        /\ appts' = [appts EXCEPT
                        ![a] = [walkin |-> tx[r].walkin, status |-> "requested",
                                lines |-> tx[r].lines]]
    /\ Reply(r, "done")
    /\ UNCHANGED <<walkins, clients, history>>

(* Read the appointment and judge the new status.                          *)
StatusArrive(r) ==
    /\ Receives(r, "status")
    /\ \E a \in Appointment, status \in Status :
        /\ appts[a] # Null
        /\ IF status \in LegalTransitions[appts[a].status]
           THEN Go(r, "commit", [NoTx EXCEPT !.kind = "status", !.appt = a, !.status = status])
           ELSE Reply(r, "refused")
    /\ UNCHANGED tables

(* Completing writes no history: the appointment has no client.            *)
CommitStatus(r) ==
    /\ pc[r] = "commit" /\ tx[r].kind = "status"
    /\ appts' = [appts EXCEPT ![tx[r].appt].status = tx[r].status]
    /\ Reply(r, "done")
    /\ UNCHANGED <<walkins, clients, history>>

(* The process or the connection dies: rolled back, nobody is told.        *)
Abort(r) ==
    /\ pc[r] # "idle"
    /\ Reply(r, "none")
    /\ UNCHANGED tables

-----------------------------------------------------------------------------
Convert(r) ==
    \/ ConvertArrive(r) \/ ConvertInsert(r)
    \/ ReadCompleted(r) \/ ReadHistory(r) \/ CommitConvert(r)

Next ==
    \/ \E r \in Request :
        \/ Convert(r)
        \/ BookArrive(r) \/ CommitBook(r)
        \/ StatusArrive(r) \/ CommitStatus(r)
        \/ Abort(r)
    \/ \E w \in WalkIn : CreateWalkIn(w) \/ DeleteWalkIn(w)

Spec == Init /\ [][Next]_vars

-----------------------------------------------------------------------------
(* Properties.                                                             *)

(* Conversion preserves history: whatever the walk-in had completed when   *)
(* the conversion was asked for is, line by line, in the history of the    *)
(* client it is linked to, and stays there (convert_to_client). It holds   *)
(* while one request at a time converts and one changes statuses.          *)
HistoryIsPreserved ==
    \A entry \in owed :
        LET client == entry[1]
            a == entry[2]
        IN  /\ walkins[appts[a].walkin].client = client
            /\ \A line \in appts[a].lines :
                  [client |-> client, appt |-> a, line |-> line] \in history

(* Nobody's history tells of services that were not rendered to them: each *)
(* row is a line of a completed appointment of the walk-in the client      *)
(* comes from (convert_to_client against transition_status). It holds      *)
(* under the same conditions.                                              *)
HistoryIsEarned ==
    \A row \in history :
        /\ row.client \in clients
        /\ appts[row.appt].status = "completed"
        /\ row.line \in appts[row.appt].lines
        /\ walkins[appts[row.appt].walkin].client = row.client

(* The client a walk-in is linked to in the end has the history that its   *)
(* own conversion owed it ("history is preserved across the conversion",   *)
(* convert_to_client). The code violates it: of two conversions the later  *)
(* takes the rows of the earlier for already copied.                       *)
LinkedHistoryIsComplete ==
    \A entry \in owed :
        LET client == entry[1]
            a == entry[2]
        IN  walkins[appts[a].walkin].client = client =>
               \A line \in appts[a].lines :
                   [client |-> client, appt |-> a, line |-> line] \in history

(* What was rendered to a walk-in appears in the history of the client it  *)
(* is converted to, also what is completed during the conversion or after  *)
(* it (_write_service_history against convert_to_client). The code         *)
(* violates it: nobody writes that history.                                *)
WalkInHistoryAppears ==
    \A a \in Appointment :
        appts[a] # Null /\ appts[a].status = "completed" =>
            LET client == walkins[appts[a].walkin].client
            IN  client # Null =>
                   \A line \in appts[a].lines :
                       [client |-> client, appt |-> a, line |-> line] \in history

=============================================================================
