---------------------------- MODULE OutboxProofs ----------------------------
(***************************************************************************)
(* Outbox proved for any number of requests, operations, appointments,     *)
(* accounts and notifications.  That what is acknowledged is recorded, and *)
(* that the log and the notifications do not contradict one another, holds *)
(* whatever runs side by side: a committed operation is recorded by the    *)
(* request that committed it and by no other.                              *)
(***************************************************************************)
EXTENDS Outbox, SequenceTheorems, TLAPS

(* The steps of an operation whose work is committed. *)
Announcing == {"announce", "again"}

(* What a request carries at a step: after the commit of its work, an      *)
(* operation nobody has been told of.                                      *)
Carried(r, step, t) ==
    /\ step = "idle" => t = NoTx
    /\ step # "idle" => t.kind \in May[r]
    /\ step \in {"work"} \cup Announcing =>
          /\ t.kind \in {"book", "status", "edit"} /\ t.work \in Done
          /\ t.kind = "edit" => t.work.what = "edited"
          /\ t.kind # "edit" => t.work.what \in Status /\ t.work.appt \in Appointment
          /\ t.kind = "book" => t.work.what = "requested"
    /\ step \in Announcing =>
          t.op \in Operation /\ done[t.op] = t.work /\ ~HasNote(t.op)
    /\ step = "again" => t.told = Notifies(t.work)

Carries == \A r \in Request : Carried(r, pc[r], tx[r])

(* No two requests announce one operation. *)
OwnOps ==
    \A q, r \in Request :
        pc[q] \in Announcing /\ pc[r] \in Announcing /\ tx[q].op = tx[r].op => q = r

AckedDone == \A o \in acked : done[o] # Null

IInv == TypeOK /\ Carries /\ OwnOps /\ AckedDone /\ DoneIsRecorded /\ NotesMatchLog

-----------------------------------------------------------------------------
LEMMA NoTxType == NoTx \in Tx /\ NoTx.kind = "none" /\ "idle" \notin Announcing
BY DEF NoTx, Tx, Announcing

(* One more notification at the end. *)
LEMMA Appended ==
    ASSUME NEW s \in Seq(Note), NEW n \in Note, NEW t, t = Append(s, n) \/ t = s \o <<n>>
    PROVE  /\ t \in Seq(Note)
           /\ DOMAIN t = DOMAIN s \cup {Len(s) + 1}
           /\ \A i \in DOMAIN s : t[i] = s[i] /\ i < Len(s) + 1
           /\ t[Len(s) + 1] = n
           /\ Len(s) + 1 \notin DOMAIN s
<1>1. Len(s) \in Nat /\ DOMAIN s = 1..Len(s) /\ \A i \in 1..Len(s) : s[i] \in Note
  BY LenProperties
<1>2. <<n>> \in Seq(Note) /\ Len(<<n>>) = 1 /\ <<n>>[1] = n
  OBVIOUS
<1>3. /\ t \in Seq(Note) /\ Len(t) = Len(s) + 1
      /\ \A i \in 1..Len(s) : t[i] = s[i]
      /\ t[Len(s) + 1] = n
  <2>1. CASE t = Append(s, n)
    BY <1>1, <2>1
  <2>2. CASE t = s \o <<n>>
    BY <1>1, <1>2, <2>2, ConcatProperties
  <2> QED
    BY <2>1, <2>2
<1>4. DOMAIN t = 1..(Len(s) + 1)
  BY <1>3, LenProperties
<1> QED
  BY <1>1, <1>3, <1>4

LEMMA InitInv == Init => IInv
<1> SUFFICES ASSUME Init PROVE IInv
  OBVIOUS
<1>1. TypeOK
  BY NoTxType DEF Init, TypeOK, Step, Answer
<1>2. Carries /\ OwnOps /\ AckedDone
  BY NoTxType DEF Init, Carries, Carried, OwnOps, AckedDone, Announcing
<1>3. DoneIsRecorded /\ NotesMatchLog
  BY DEF Init, DoneIsRecorded, NotesMatchLog
<1> QED
  BY <1>1, <1>2, <1>3 DEF IInv

(* The other requests carry what they carried as long as what is done      *)
(* stays done and nobody is told of their operations.                      *)
LEMMA CarriesStep ==
    ASSUME Carries, OwnOps, NEW r \in Request,
           \A q \in Request \ {r} : pc'[q] = pc[q] /\ tx'[q] = tx[q],
           \A o \in Operation : done[o] # Null => done'[o] = done[o],
           \A q \in Request \ {r} : pc[q] \in Announcing =>
              \A i \in DOMAIN notes' : notes'[i].about # tx[q].op,
           Carried(r, pc[r], tx[r])',
           \A q \in Request \ {r} :
              pc[q] \in Announcing /\ pc'[r] \in Announcing => tx[q].op # tx'[r].op
    PROVE  Carries' /\ OwnOps'
<1>1. ASSUME NEW q \in Request \ {r} PROVE Carried(q, pc[q], tx[q])'
  <2>1. pc[q] \in Announcing => done'[tx[q].op] = tx[q].work
    BY NullAssumption DEF Carries, Carried
  <2> QED
    BY <2>1 DEF Carries, Carried, HasNote, Notifies, TellsClient
<1>2. Carries'
  BY <1>1 DEF Carries
<1>3. OwnOps'
  BY DEF OwnOps
<1> QED
  BY <1>2, <1>3

(* Nothing that was told or logged is taken back. *)
LEMMA PropertiesStep ==
    ASSUME IInv,
           \A o \in Operation : done[o] # Null => done'[o] = done[o],
           log \cup cleared \subseteq log' \cup cleared',
           DOMAIN notes' = DOMAIN notes,
           \A i \in DOMAIN notes :
              notes'[i].about = notes[i].about /\ notes'[i].to = notes[i].to,
           acked' = acked
    PROVE  AckedDone' /\ DoneIsRecorded' /\ NotesMatchLog'
<1> USE DEF IInv
<1>1. \A o \in acked : o \in Operation /\ done'[o] = done[o]
  BY DEF AckedDone, TypeOK
<1>2. \A i \in DOMAIN notes : notes[i].about # Null =>
        notes[i].about \in Operation /\ done[notes[i].about] # Null
  <2>1. \A i \in DOMAIN notes : notes[i] \in Note
    BY DEF TypeOK
  <2> QED
    BY <2>1 DEF NotesMatchLog, Note
<1>3. AckedDone'
  BY <1>1 DEF AckedDone
<1>4. DoneIsRecorded'
  <2>1. \A o : HasLogRow(o) => HasLogRow(o)'
    BY DEF HasLogRow
  <2>2. \A o, key : HasNoteTo(o, key) => HasNoteTo(o, key)'
    BY DEF HasNoteTo
  <2> QED
    BY <1>1, <2>1, <2>2 DEF DoneIsRecorded, TellsClient
<1>5. NotesMatchLog'
  BY <1>2 DEF NotesMatchLog, HasLogRow
<1> QED
  BY <1>3, <1>4, <1>5

LEMMA GoInv ==
    ASSUME IInv, NEW r \in Request, NEW step \in Step, NEW t \in Tx,
           Go(r, step, t), UNCHANGED tables, Carried(r, step, t),
           \A q \in Request \ {r} :
              pc[q] \in Announcing /\ step \in Announcing => tx[q].op # t.op
    PROVE  IInv'
<1> USE DEF IInv
<1>1. pc'[r] = step /\ tx'[r] = t
      /\ \A q \in Request \ {r} : pc'[q] = pc[q] /\ tx'[q] = tx[q]
  BY DEF Go, TypeOK
<1>2. UNCHANGED <<appts, done, log, notes, acked, cleared>>
  BY DEF Go, tables
<1>3. TypeOK'
  BY <1>2 DEF Go, TypeOK, Answer
<1>4. \A o : HasNote(o)' = HasNote(o)
  BY <1>2 DEF HasNote
<1>5. Carried(r, pc[r], tx[r])'
  BY <1>1, <1>2, <1>4 DEF Carried, Notifies, TellsClient
<1>6. Carries' /\ OwnOps'
  <2>1. \A q \in Request \ {r} : pc[q] \in Announcing =>
              \A i \in DOMAIN notes' : notes'[i].about # tx[q].op
    BY <1>2 DEF Carries, Carried, HasNote
  <2> QED
    BY <1>1, <1>2, <1>5, <2>1, CarriesStep
<1>7. AckedDone' /\ DoneIsRecorded' /\ NotesMatchLog'
  BY <1>2, PropertiesStep
<1> QED
  BY <1>3, <1>6, <1>7

(* A request that ends, without a word about the operations of others.     *)
LEMMA EndsInv ==
    ASSUME IInv, NEW r \in Request, NEW code \in Answer, Ends(r, code), UNCHANGED done,
           \A q \in Request \ {r} : pc[q] \in Announcing =>
              \A i \in DOMAIN notes' : notes'[i].about # tx[q].op
    PROVE  Carries' /\ OwnOps' /\ pc' \in [Request -> Step] /\ tx' \in [Request -> Tx]
           /\ answer' \in [Request -> Answer]
<1> USE DEF IInv
<1>1. pc'[r] = "idle" /\ tx'[r] = NoTx
      /\ \A q \in Request \ {r} : pc'[q] = pc[q] /\ tx'[q] = tx[q]
  BY DEF Ends, TypeOK
<1>2. Carried(r, pc[r], tx[r])'
  BY <1>1, NoTxType DEF Carried, Announcing
<1>3. Carries' /\ OwnOps'
  BY <1>1, <1>2, NoTxType, CarriesStep
<1>4. /\ pc' \in [Request -> Step] /\ tx' \in [Request -> Tx]
      /\ answer' \in [Request -> Answer]
  BY NoTxType DEF Ends, TypeOK, Step
<1> QED
  BY <1>3, <1>4

(* ... and that tells nobody anything about an operation.                  *)
LEMMA QuietInv ==
    ASSUME IInv, NEW r \in Request, NEW code \in Answer, Ends(r, code),
           UNCHANGED <<appts, done, acked>>,
           log' \subseteq Operation, cleared' \subseteq Operation,
           log \cup cleared \subseteq log' \cup cleared',
           notes' \in Seq(Note), DOMAIN notes' = DOMAIN notes,
           \A i \in DOMAIN notes : notes'[i].about = notes[i].about /\ notes'[i].to = notes[i].to
    PROVE  IInv'
<1> USE DEF IInv
<1>1. \A q \in Request \ {r} : pc[q] \in Announcing =>
              \A i \in DOMAIN notes' : notes'[i].about # tx[q].op
  BY DEF Carries, Carried, HasNote
<1>2. Carries' /\ OwnOps' /\ pc' \in [Request -> Step] /\ tx' \in [Request -> Tx]
      /\ answer' \in [Request -> Answer]
  BY <1>1, EndsInv
<1>3. TypeOK'
  BY <1>2 DEF TypeOK
<1>4. AckedDone' /\ DoneIsRecorded' /\ NotesMatchLog'
  BY PropertiesStep
<1> QED
  BY <1>2, <1>3, <1>4

LEMMA ReplyInv ==
    ASSUME IInv, NEW r \in Request, NEW code \in Answer, Reply(r, code), UNCHANGED tables
    PROVE  IInv'
BY QuietInv DEF Reply, tables, IInv, TypeOK

-----------------------------------------------------------------------------
(* One lemma per group of handlers.                                        *)

LEMMA ArriveInv ==
    ASSUME IInv, NEW r \in Request, BookArrive(r) \/ StatusArrive(r) \/ EditArrive(r)
    PROVE  IInv'
<1>1. UNCHANGED tables
  BY DEF BookArrive, StatusArrive, EditArrive
<1>2. ASSUME NEW kind \in {"book", "status", "edit"}, kind \in May[r],
             NEW work \in Done,
             kind = "edit" => work.what = "edited",
             kind # "edit" => work.what \in Status /\ work.appt \in Appointment,
             kind = "book" => work.what = "requested",
             Go(r, "work", [NoTx EXCEPT !.kind = kind, !.work = work])
      PROVE  IInv'
  <2> DEFINE t == [NoTx EXCEPT !.kind = kind, !.work = work]
  <2>1. t \in Tx
    BY NoTxType DEF Tx, Kind
  <2>2. t.kind = kind /\ t.work = work
    BY DEF NoTx
  <2>3. Go(r, "work", t)
    BY <1>2
  <2> HIDE DEF t
  <2>4. Carried(r, "work", t)
    BY <1>2, <2>2 DEF Carried, Announcing
  <2> QED
    BY <1>1, <2>1, <2>3, <2>4, GoInv DEF Step, Announcing
<1>3. ASSUME Reply(r, "refused") PROVE IInv'
  BY <1>1, <1>3, ReplyInv DEF Answer
<1>4. CASE BookArrive(r)
  <2>1. PICK a \in Appointment :
          \/ Reply(r, "refused")
          \/ Go(r, "work", [NoTx EXCEPT !.kind = "book",
                                        !.work = [what |-> "requested", appt |-> a]])
    BY <1>4 DEF BookArrive
  <2>2. [what |-> "requested", appt |-> a] \in Done
    BY DEF Done, What, Status
  <2>3. "book" \in May[r]
    BY <1>4 DEF BookArrive, Receives
  <2> QED
    BY <1>2, <1>3, <2>1, <2>2, <2>3 DEF Status
<1>5. CASE StatusArrive(r)
  <2>1. PICK a \in Appointment, s \in Status :
          \/ Reply(r, "refused")
          \/ Go(r, "work", [NoTx EXCEPT !.kind = "status",
                                        !.work = [what |-> s, appt |-> a]])
    BY <1>5 DEF StatusArrive
  <2>2. [what |-> s, appt |-> a] \in Done
    BY DEF Done, What
  <2>3. "status" \in May[r]
    BY <1>5 DEF StatusArrive, Receives
  <2> QED
    BY <1>2, <1>3, <2>1, <2>2, <2>3
<1>6. CASE EditArrive(r)
  <2>1. \/ Reply(r, "refused")
        \/ Go(r, "work", [NoTx EXCEPT !.kind = "edit",
                                      !.work = [what |-> "edited", appt |-> Null]])
    BY <1>6 DEF EditArrive
  <2>2. [what |-> "edited", appt |-> Null] \in Done
    BY DEF Done, What
  <2>3. "edit" \in May[r]
    BY <1>6 DEF EditArrive, Receives
  <2> QED
    BY <1>2, <1>3, <2>1, <2>2, <2>3
<1> QED
  BY <1>4, <1>5, <1>6

(* The operation gets a number of its own; nobody knows of it yet.         *)
LEMMA CommitWorkInv ==
    ASSUME IInv, NEW r \in Request, CommitWork(r) \/ CommitEdit(r)
    PROVE  IInv'
<1> USE DEF IInv
<1>1. PICK o \in Operation :
        /\ done[o] = Null
        /\ done' = [done EXCEPT ![o] = tx[r].work]
        /\ Go(r, "announce", [tx[r] EXCEPT !.op = o])
  BY DEF CommitWork, CommitEdit
<1>2. UNCHANGED <<log, notes>>
  BY DEF CommitWork, CommitEdit
<1>3. tx[r] \in Tx /\ Carried(r, "work", tx[r])
  BY DEF CommitWork, CommitEdit, TypeOK, Carries
<1> DEFINE t == [tx[r] EXCEPT !.op = o]
<1>4. t \in Tx /\ t.op = o /\ t.kind = tx[r].kind /\ t.work = tx[r].work
  BY <1>3 DEF Tx
<1>5. Go(r, "announce", t)
  BY <1>1
<1> HIDE DEF t
<1>6. pc'[r] = "announce" /\ tx'[r] = t
      /\ \A q \in Request \ {r} : pc'[q] = pc[q] /\ tx'[q] = tx[q]
  BY <1>5 DEF Go, TypeOK
<1>7. /\ tx[r].work \in Done /\ done'[o] = tx[r].work
      /\ \A p \in Operation : done[p] # Null => done'[p] = done[p]
      /\ done' \in [Operation -> Done \cup {Null}]
  BY <1>1, <1>3 DEF Carried, TypeOK
<1>8. appts' \in [Appointment -> Status \cup {Null}]
  <2>1. CASE CommitEdit(r)
    BY <2>1 DEF CommitEdit, TypeOK
  <2>2. CASE CommitWork(r)
    <3>1. tx[r].work.what \in Status /\ tx[r].work.appt \in Appointment
      BY <1>3, <2>2 DEF CommitWork, Carried
    <3>2. appts' = [appts EXCEPT ![tx[r].work.appt] = tx[r].work.what]
      BY <2>2 DEF CommitWork
    <3> QED
      BY <3>1, <3>2 DEF TypeOK
  <2> QED
    BY <2>1, <2>2
<1>9. TypeOK'
  BY <1>2, <1>4, <1>5, <1>7, <1>8 DEF TypeOK, Go, Step, Answer
<1>10. ~HasNote(o)
  <2> SUFFICES ASSUME NEW i \in DOMAIN notes, notes[i].about = o PROVE FALSE
    BY DEF HasNote
  <2>1. o # Null
    BY NullAssumption
  <2> QED
    BY <1>1, <2>1 DEF NotesMatchLog
<1>11. \A p : HasNote(p)' = HasNote(p)
  BY <1>2 DEF HasNote
<1>12. Carried(r, pc[r], tx[r])'
  BY <1>3, <1>4, <1>6, <1>7, <1>10, <1>11 DEF Carried, Announcing
<1>13. \A q \in Request \ {r} : 
        pc[q] \in Announcing => /\ tx[q].op # o
                               /\ \A i \in DOMAIN notes' : notes'[i].about # tx[q].op
  BY <1>1, <1>2, NullAssumption DEF Carries, Carried, HasNote
<1>14. Carries' /\ OwnOps'
  BY <1>4, <1>6, <1>7, <1>12, <1>13, CarriesStep
<1>15. AckedDone' /\ DoneIsRecorded' /\ NotesMatchLog'
  BY <1>2, <1>5, <1>7, PropertiesStep DEF Go
<1> QED
  BY <1>9, <1>14, <1>15

LEMMA AnnounceInv ==
    ASSUME IInv, NEW r \in Request, Announce(r)
    PROVE  IInv'
<1> DEFINE t == [tx[r] EXCEPT !.told = Notifies(tx[r].work)]
<1>1. /\ tx[r] \in Tx /\ Carried(r, "announce", tx[r]) /\ pc[r] \in Announcing
      /\ Go(r, "again", t) /\ UNCHANGED tables
  BY DEF Announce, IInv, TypeOK, Carries, Announcing
<1>2. Notifies(tx[r].work) \in BOOLEAN
  BY DEF Notifies, TellsClient
<1>3. /\ t \in Tx /\ t.kind = tx[r].kind /\ t.work = tx[r].work /\ t.op = tx[r].op
      /\ t.told = Notifies(tx[r].work)
  BY <1>1, <1>2 DEF Tx
<1> HIDE DEF t
<1>4. Carried(r, "again", t)
  BY <1>1, <1>3 DEF Carried, Announcing
<1>5. \A q \in Request \ {r} : pc[q] \in Announcing => tx[q].op # t.op
  BY <1>1, <1>3 DEF IInv, OwnOps
<1> QED
  BY <1>1, <1>3, <1>4, <1>5, GoInv DEF Step

(* The end of an operation: what has to be announced is. *)
LEMMA FinishInv ==
    ASSUME IInv, NEW r \in Request, CommitAgain(r) \/ CommitLog(r) \/ CloseSession(r)
    PROVE  IInv'
<1> USE DEF IInv
<1> PICK o, work : o = tx[r].op /\ work = tx[r].work
  OBVIOUS
<1>1. /\ Carried(r, "again", tx[r]) /\ pc[r] \in Announcing
      /\ Ends(r, "done") /\ acked' = acked \cup {o}
      /\ UNCHANGED <<appts, done, cleared>>
  BY DEF CommitAgain, CommitLog, CloseSession, Acknowledge, tables, Carries, Announcing
<1>2. /\ o \in Operation /\ o # Null /\ done[o] = work /\ work # Null /\ ~HasNote(o)
      /\ work \in Done
      /\ tx[r].told = Notifies(work)
  BY <1>1, NullAssumption DEF Carried, Announcing
<1>3. \/ log' = log /\ ~CommitsAgain(work)
      \/ log' = log \cup {o}
  BY DEF CommitAgain, CommitLog, CloseSession, tables, Logged
<1> DEFINE to == ClientOf[work.appt]
<1>4. \/ notes' = notes /\ ~TellsClient(work)
      \/ /\ notes' = notes \o <<[about |-> o, to |-> to, read |-> FALSE]>>
         /\ log' = log \cup {o} /\ TellsClient(work)
  <2>1. CASE CloseSession(r)
    BY <2>1 DEF CloseSession, tables, CommitsAgain
  <2>2. CASE CommitLog(r)
    <3>1. work.what = "edited"
      BY <1>1, <2>2 DEF CommitLog, Carried, Announcing
    <3> QED
      BY <2>2, <3>1 DEF CommitLog, TellsClient
  <2>3. CASE CommitAgain(r)
    <3>1. notes' = notes \o Noted(r) /\ log' = log \cup {o}
      BY <2>3 DEF CommitAgain, Logged
    <3>2. TellsClient(work) /\ tx[r].told
      BY <1>1, <1>2, <2>3 DEF CommitAgain, CommitsAgain, Carried, Announcing, Notifies, Status
    <3> QED
      BY <3>1, <3>2 DEF Noted
  <2> QED
    BY <2>1, <2>2, <2>3
<1>5. TellsClient(work) => work.appt \in Appointment /\ to \in User \cup Client
  <2>1. TellsClient(work) => tx[r].kind # "edit"
    BY <1>1 DEF TellsClient, Carried, Announcing
  <2>2. TellsClient(work) => work.appt \in Appointment /\ ClientOf[work.appt] # Null
    BY <1>1, <2>1 DEF TellsClient, Carried, Announcing
  <2> QED
    BY <2>2, ClientAssumption
<1> DEFINE n == [about |-> o, to |-> to, read |-> FALSE]
           k == Len(notes) + 1
<1>6. \/ notes' = notes /\ ~TellsClient(work)
      \/ /\ n.about = o /\ n.to = to /\ TellsClient(work)
         /\ notes' \in Seq(Note) /\ log' = log \cup {o}
         /\ DOMAIN notes' = DOMAIN notes \cup {k}
         /\ \A i \in DOMAIN notes : notes'[i] = notes[i]
         /\ notes'[k] = n
  <2>1. (TellsClient(work) => n \in Note) /\ n.about = o /\ n.to = to
    BY <1>2, <1>5 DEF Note
  <2>2. \/ notes' = notes /\ ~TellsClient(work)
        \/ notes' = notes \o <<n>> /\ log' = log \cup {o} /\ TellsClient(work)
    BY <1>4
  <2>3. notes \in Seq(Note)
    BY DEF TypeOK
  <2> HIDE DEF n
  <2>4. CASE notes' = notes \o <<n>> /\ log' = log \cup {o} /\ TellsClient(work)
    <3>1. /\ notes' \in Seq(Note)
          /\ DOMAIN notes' = DOMAIN notes \cup {k}
          /\ \A i \in DOMAIN notes : notes'[i] = notes[i]
          /\ notes'[k] = n
      BY <2>1, <2>3, <2>4, Appended
    <3> QED
      BY <2>1, <2>4, <3>1
  <2> QED
    BY <2>2, <2>4
<1> HIDE DEF n, k
<1>7. \A p : HasNote(p)' => HasNote(p) \/ p = o
  BY <1>6 DEF HasNote
<1>8. \A q \in Request \ {r} : pc[q] \in Announcing =>
              \A i \in DOMAIN notes' : notes'[i].about # tx[q].op
  BY <1>1, <1>7 DEF Carries, Carried, OwnOps, HasNote
<1>9. Carries' /\ OwnOps' /\ pc' \in [Request -> Step] /\ tx' \in [Request -> Tx]
      /\ answer' \in [Request -> Answer]
  BY <1>1, <1>8, EndsInv DEF Answer
<1>10. TypeOK'
  BY <1>1, <1>2, <1>3, <1>6, <1>9 DEF TypeOK
<1>11. AckedDone'
  BY <1>1, <1>2 DEF AckedDone
<1>12. DoneIsRecorded'
  <2>1. \A p, key : /\ HasLogRow(p) => HasLogRow(p)'
                    /\ HasNoteTo(p, key) => HasNoteTo(p, key)'
    BY <1>1, <1>3, <1>6 DEF HasLogRow, HasNoteTo
  <2>2. TellsClient(work) => HasNoteTo(o, to)' /\ HasLogRow(o)'
    BY <1>6 DEF HasNoteTo, HasLogRow
  <2>3. work.what = "edited" => HasLogRow(o)'
    BY <1>3 DEF CommitsAgain, HasLogRow
  <2>4. \A p \in acked \cup {o} :
          /\ (done[p].what = "edited" \/ TellsClient(done[p])) => HasLogRow(p)'
          /\ TellsClient(done[p]) => HasNoteTo(p, ClientOf[done[p].appt])'
    <3>1. ASSUME NEW p \in acked
          PROVE  /\ (done[p].what = "edited" \/ TellsClient(done[p])) => HasLogRow(p)'
                 /\ TellsClient(done[p]) => HasNoteTo(p, ClientOf[done[p].appt])'
      BY <1>1, <2>1 DEF DoneIsRecorded
    <3>2. HasNoteTo(o, to)' => HasNoteTo(o, ClientOf[done[o].appt])'
      BY <1>1, <1>2
    <3> QED
      BY <1>2, <2>2, <2>3, <3>1, <3>2
  <2> QED
    BY <1>1, <2>4 DEF DoneIsRecorded, TellsClient
<1>13. NotesMatchLog'
  <2>1. \A p : HasLogRow(p) => HasLogRow(p)'
    BY <1>1, <1>3 DEF HasLogRow
  <2>2. CASE notes' = notes
    BY <1>1, <2>1, <2>2 DEF NotesMatchLog
  <2>3. CASE notes' # notes
    <3>1. o \in log'
      BY <1>6, <2>3
    <3>2. \A i \in DOMAIN notes : notes[i].about # o
      BY <1>2 DEF HasNote
    <3>3. \A i \in DOMAIN notes' : notes'[i].about # Null =>
            /\ done[notes'[i].about] # Null
            /\ notes'[i].about \in log' \cup cleared'
      <4>1. \A i \in DOMAIN notes : notes[i].about # Null =>
              done[notes[i].about] # Null /\ notes[i].about \in log' \cup cleared'
        BY <2>1 DEF NotesMatchLog, HasLogRow
      <4>2. o \in log' \cup cleared'
        BY <3>1
      <4> QED
        BY <1>2, <1>6, <2>3, <4>1, <4>2
    <3>4. \A i, j \in DOMAIN notes' :
            notes'[i].about # Null /\ notes'[j].about = notes'[i].about => i = j
      BY <1>6, <2>3, <3>2 DEF NotesMatchLog
    <3> QED
      BY <1>1, <3>3, <3>4 DEF NotesMatchLog, HasLogRow
  <2> QED
    BY <2>2, <2>3
<1> QED
  BY <1>9, <1>10, <1>11, <1>12, <1>13

(* The readers: a notification about nothing in particular, flags, and a   *)
(* log that is cleared of what was read.                                   *)
LEMMA ReadersArriveInv ==
    ASSUME IInv, NEW r \in Request, MarkArrive(r) \/ ClearArrive(r)
    PROVE  IInv'
<1>1. UNCHANGED tables
  BY DEF MarkArrive, ClearArrive
<1>2. CASE MarkArrive(r)
  <2>1. PICK i \in DOMAIN notes, read \in BOOLEAN :
          \/ Reply(r, "refused")
          \/ Reply(r, "done")
          \/ Go(r, "commit", [NoTx EXCEPT !.kind = "mark", !.note = i, !.read = read])
    BY <1>2 DEF MarkArrive
  <2> DEFINE t == [NoTx EXCEPT !.kind = "mark", !.note = i, !.read = read]
  <2>2. i \in Nat
    BY DEF IInv, TypeOK
  <2>3. t \in Tx
    BY <2>2, NoTxType DEF Tx, Kind
  <2>4. t.kind = "mark" /\ "mark" \in May[r]
    BY <1>2 DEF NoTx, MarkArrive, Receives
  <2>5. Go(r, "commit", t) \/ Reply(r, "done") \/ Reply(r, "refused")
    BY <2>1
  <2> HIDE DEF t
  <2>6. Carried(r, "commit", t)
    BY <2>4 DEF Carried, Announcing
  <2> QED
    BY <1>1, <2>3, <2>5, <2>6, GoInv, ReplyInv DEF Step, Answer, Announcing
<1>3. CASE ClearArrive(r)
  <2> DEFINE t == [NoTx EXCEPT !.kind = "clear", !.rows = log]
  <2>1. t \in Tx
    BY NoTxType DEF Tx, Kind, IInv, TypeOK
  <2>2. t.kind = "clear" /\ "clear" \in May[r]
    BY <1>3 DEF NoTx, ClearArrive, Receives
  <2>3. Go(r, "commit", t)
    BY <1>3 DEF ClearArrive
  <2> HIDE DEF t
  <2>4. Carried(r, "commit", t)
    BY <2>2 DEF Carried, Announcing
  <2> QED
    BY <1>1, <2>1, <2>3, <2>4, GoInv DEF Step, Announcing
<1> QED
  BY <1>2, <1>3

(* Marking changes flags, and nothing else of a notification. *)
LEMMA Marked ==
    ASSUME IInv, NEW r \in Request, CommitMark(r) \/ MarkAll(r)
    PROVE  /\ notes' \in Seq(Note) /\ DOMAIN notes' = DOMAIN notes
           /\ \A i \in DOMAIN notes :
                 notes'[i].about = notes[i].about /\ notes'[i].to = notes[i].to
<1>1. /\ Len(notes) \in Nat /\ DOMAIN notes = 1..Len(notes)
      /\ \A i \in DOMAIN notes : notes[i] \in Note
  BY LenProperties DEF IInv, TypeOK
<1>2. /\ DOMAIN notes' = 1..Len(notes)
      /\ notes' = [i \in 1..Len(notes) |-> notes'[i]]
      /\ \A i \in 1..Len(notes) : \E read \in BOOLEAN :
            notes'[i] = [notes[i] EXCEPT !.read = read]
  <2>1. CASE MarkAll(r)
    <3>1. PICK me \in User :
            notes' = [i \in DOMAIN notes |->
                        IF i \in Inbox(me) THEN [notes[i] EXCEPT !.read = TRUE] ELSE notes[i]]
      BY <2>1 DEF MarkAll
    <3>2. \A i \in 1..Len(notes) :
            /\ notes[i] = [notes[i] EXCEPT !.read = notes[i].read]
            /\ notes[i].read \in BOOLEAN
      BY <1>1 DEF Note
    <3> QED
      BY <1>1, <3>1, <3>2
  <2>2. CASE CommitMark(r)
    <3> DEFINE k == tx[r].note
    <3>1. tx[r].read \in BOOLEAN
      BY DEF IInv, TypeOK, Tx
    <3>2. notes' = [notes EXCEPT ![k] = [notes[k] EXCEPT !.read = tx[r].read]]
      BY <2>2 DEF CommitMark
    <3> HIDE DEF k
    <3>3. \A i \in 1..Len(notes) :
            notes'[i] = IF i = k THEN [notes[i] EXCEPT !.read = tx[r].read] ELSE notes[i]
      BY <1>1, <3>2
    <3>4. \A i \in 1..Len(notes) : notes[i] = [notes[i] EXCEPT !.read = notes[i].read]
      BY <1>1 DEF Note
    <3>5. \A i \in 1..Len(notes) : notes[i].read \in BOOLEAN
      BY <1>1 DEF Note
    <3>6. \A i \in 1..Len(notes) : \E read \in BOOLEAN :
            notes'[i] = [notes[i] EXCEPT !.read = read]
      BY <3>1, <3>3, <3>4, <3>5
    <3> QED
      BY <1>1, <3>2, <3>6
  <2> QED
    BY <2>1, <2>2
<1>3. \A i \in 1..Len(notes) :
        /\ notes'[i] \in Note
        /\ notes'[i].about = notes[i].about /\ notes'[i].to = notes[i].to
  BY <1>1, <1>2 DEF Note
<1>4. notes' \in [1..Len(notes) -> Note]
  BY <1>2, <1>3
<1>5. notes' \in Seq(Note)
  BY <1>1, <1>4, SeqDef
<1> QED
  BY <1>1, <1>2, <1>3, <1>5

LEMMA MarkInv ==
    ASSUME IInv, NEW r \in Request, CommitMark(r) \/ MarkAll(r)
    PROVE  IInv'
<1>1. Ends(r, "done") /\ UNCHANGED <<appts, done, log, acked, cleared>>
  BY DEF CommitMark, MarkAll, Reply
<1> QED
  BY <1>1, Marked, QuietInv DEF IInv, TypeOK, Answer

LEMMA CommitClearInv ==
    ASSUME IInv, NEW r \in Request, CommitClear(r)
    PROVE  IInv'
<1>1. tx[r].rows \subseteq Operation /\ log \subseteq Operation /\ cleared \subseteq Operation
      /\ notes \in Seq(Note)
  BY DEF IInv, TypeOK, Tx
<1>2. /\ log' = log \ tx[r].rows /\ cleared' = cleared \cup tx[r].rows
      /\ Ends(r, "done") /\ UNCHANGED <<appts, done, notes, acked>>
  BY DEF CommitClear, Keeps
<1> QED
  BY <1>1, <1>2, QuietInv DEF Answer

LEMMA SendInv ==
    ASSUME IInv, NEW r \in Request, Send(r)
    PROVE  IInv'
<1> USE DEF IInv
<1> PICK to \in User \cup Client :
        notes' = Append(notes, [about |-> Null, to |-> to, read |-> FALSE])
  BY DEF Send
<1> DEFINE n == [about |-> Null, to |-> to, read |-> FALSE]
           k == Len(notes) + 1
<1>1. n \in Note /\ n.about = Null
  BY DEF Note
<1>2. notes' = Append(notes, n) /\ notes \in Seq(Note)
  BY DEF TypeOK
<1> HIDE DEF n
<1>3. /\ notes' \in Seq(Note) /\ DOMAIN notes' = DOMAIN notes \cup {k}
      /\ \A i \in DOMAIN notes : notes'[i] = notes[i]
      /\ notes'[k] = n
  BY <1>1, <1>2, Appended
<1> HIDE DEF k
<1>4. Ends(r, "done") /\ UNCHANGED <<appts, done, log, acked, cleared>>
  BY DEF Send, Reply
<1>5. \A q \in Request \ {r} : pc[q] \in Announcing =>
        \A i \in DOMAIN notes' : notes'[i].about # tx[q].op
  BY <1>1, <1>3, NullAssumption DEF Carries, Carried, HasNote
<1>6. Carries' /\ OwnOps' /\ pc' \in [Request -> Step] /\ tx' \in [Request -> Tx]
      /\ answer' \in [Request -> Answer]
  BY <1>4, <1>5, EndsInv DEF Answer
<1>7. TypeOK' /\ AckedDone'
  BY <1>3, <1>4, <1>6 DEF TypeOK, AckedDone
<1>8. DoneIsRecorded'
  <2>1. \A p, key : HasNoteTo(p, key) => HasNoteTo(p, key)'
    BY <1>3 DEF HasNoteTo
  <2> QED
    BY <1>4, <2>1 DEF DoneIsRecorded, TellsClient, HasLogRow
<1>9. NotesMatchLog'
  <2>1. \A i \in DOMAIN notes' : notes'[i].about # Null =>
          i \in DOMAIN notes /\ notes'[i] = notes[i]
    BY <1>1, <1>3
  <2>2. \A i \in DOMAIN notes' : notes'[i].about # Null =>
          /\ done[notes'[i].about] # Null
          /\ notes'[i].about \in log \cup cleared
          /\ \A j \in DOMAIN notes' : notes'[j].about = notes'[i].about => i = j
    BY <2>1 DEF NotesMatchLog, HasLogRow
  <2> QED
    BY <1>4, <2>2 DEF NotesMatchLog, HasLogRow
<1> QED
  BY <1>6, <1>7, <1>8, <1>9

-----------------------------------------------------------------------------
LEMMA StepInv == IInv /\ [Next]_vars => IInv'
<1> SUFFICES ASSUME IInv, [Next]_vars PROVE IInv'
  OBVIOUS
<1>1. ASSUME NEW r \in Request, Operate(r) PROVE IInv'
  BY <1>1, ArriveInv, CommitWorkInv, AnnounceInv, FinishInv DEF Operate
<1>2. ASSUME NEW r \in Request, Read(r) PROVE IInv'
  BY <1>2, SendInv, ReadersArriveInv, MarkInv, CommitClearInv DEF Read
<1>3. ASSUME NEW r \in Request, Abort(r) PROVE IInv'
  BY <1>3, ReplyInv DEF Abort, Answer
<1>4. CASE UNCHANGED vars
  BY <1>4 DEF IInv, vars, tables, TypeOK, Carries, Carried, HasNote, Notifies, TellsClient,
              OwnOps, AckedDone, DoneIsRecorded, NotesMatchLog, HasLogRow, HasNoteTo
<1> QED
  BY <1>1, <1>2, <1>3, <1>4 DEF Next

LEMMA SpecInv == Spec => []IInv
BY InitInv, StepInv, PTL DEF Spec

(* Types, for every value of the constants. *)
THEOREM TypeCorrect == Spec => []TypeOK
<1>1. IInv => TypeOK
  BY DEF IInv
<1> QED
  BY <1>1, SpecInv, PTL

(* Whoever is told that an edit, or a status change with a notification,   *)
(* is done finds it in the log, and the notification is stored under the   *)
(* key of the client, whatever readers and other operations run beside it  *)
(* (log_activity, create_notification, clear_activity_logs).               *)
THEOREM Recorded == Spec => []DoneIsRecorded
<1>1. IInv => DoneIsRecorded
  BY DEF IInv
<1> QED
  BY <1>1, SpecInv, PTL

(* The log and the notifications do not contradict one another             *)
(* (transition_status).                                                    *)
THEOREM LogMatches == Spec => []NotesMatchLog
<1>1. IInv => NotesMatchLog
  BY DEF IInv
<1> QED
  BY <1>1, SpecInv, PTL

=============================================================================
