--------------------------- MODULE WalkInsProofs ---------------------------
(***************************************************************************)
(* WalkIns proved for any number of requests, walk-ins, clients,           *)
(* appointments and lines.  Types hold whatever runs side by side.  The    *)
(* history of a walk-in is carried over, and is true, if one request at a  *)
(* time converts, so that no conversion meets another, and one changes     *)
(* statuses.                                                               *)
(***************************************************************************)
EXTENDS WalkIns, TLAPS

(* What a request carries at a step. *)
Carried(r, step, t) ==
    /\ step = "idle" => t = NoTx
    /\ step # "idle" => t.kind \in May[r]
    /\ step \in {"insert", "completed", "history"} => t.kind = "convert"
    /\ t.kind \in {"convert", "book"} => t.walkin \in WalkIn /\ walkins[t.walkin] # Null
    /\ t.kind = "convert" /\ step # "insert" => t.client \in Client
    /\ t.kind = "status" => t.appt \in Appointment /\ appts[t.appt] # Null

Carries == \A r \in Request : Carried(r, pc[r], tx[r])

(* An appointment belongs to a walk-in that was registered. *)
Belongs == \A a \in Appointment : appts[a] # Null => walkins[appts[a].walkin] # Null

IInv == TypeOK /\ Carries /\ Belongs

-----------------------------------------------------------------------------
LEMMA NoTxType == NoTx \in Tx /\ NoTx.kind = "none"
BY DEF NoTx, Tx, Status

LEMMA InitInv == Init => IInv
<1> SUFFICES ASSUME Init PROVE IInv
  OBVIOUS
<1>1. TypeOK
  BY NoTxType DEF Init, TypeOK, Step, Answer
<1>2. Carries /\ Belongs
  BY NoTxType DEF Init, Carries, Carried, Belongs
<1> QED
  BY <1>1, <1>2 DEF IInv

(* A step after which every request carries what it carried, or nothing,   *)
(* and no row has gone.                                                    *)
LEMMA KeepsCarries ==
    ASSUME Carries,
           \A w \in WalkIn : walkins[w] # Null => walkins'[w] # Null,
           \A a \in Appointment : appts[a] # Null => appts'[a] # Null,
           \A q \in Request :
              \/ pc'[q] = pc[q] /\ tx'[q] = tx[q]
              \/ pc'[q] = "idle" /\ tx'[q] = NoTx
              \/ Carried(q, pc'[q], tx'[q])
    PROVE  Carries'
<1> SUFFICES ASSUME NEW q \in Request PROVE Carried(q, pc[q], tx[q])'
  BY DEF Carries
<1>1. CASE pc'[q] = "idle" /\ tx'[q] = NoTx
  BY <1>1, NoTxType DEF Carried
<1>2. CASE Carried(q, pc'[q], tx'[q])
  BY <1>2 DEF Carried
<1>3. CASE pc'[q] = pc[q] /\ tx'[q] = tx[q]
  BY <1>3 DEF Carries, Carried
<1> QED
  BY <1>1, <1>2, <1>3

LEMMA GoInv ==
    ASSUME IInv, NEW r \in Request, NEW step \in Step, NEW t \in Tx,
           Go(r, step, t), Carried(r, step, t), UNCHANGED tables
    PROVE  IInv'
<1> USE DEF IInv, Go, tables
<1>1. pc'[r] = step /\ tx'[r] = t
      /\ \A q \in Request \ {r} : pc'[q] = pc[q] /\ tx'[q] = tx[q]
  BY DEF TypeOK
<1>2. TypeOK'
  BY DEF TypeOK, Answer
<1>3. Carries'
  BY <1>1, KeepsCarries
<1>4. Belongs'
  BY DEF Belongs
<1> QED
  BY <1>2, <1>3, <1>4

LEMMA EndsInv ==
    ASSUME IInv, NEW r \in Request, NEW code \in Answer, Ends(r, code),
           \A w \in WalkIn : walkins[w] # Null => walkins'[w] # Null,
           \A a \in Appointment : appts[a] # Null => appts'[a] # Null
    PROVE  Carries' /\ pc' \in [Request -> Step] /\ tx' \in [Request -> Tx]
           /\ answer' \in [Request -> Answer]
<1> USE DEF IInv, Ends
<1>1. pc'[r] = "idle" /\ tx'[r] = NoTx
      /\ \A q \in Request \ {r} : pc'[q] = pc[q] /\ tx'[q] = tx[q]
  BY DEF TypeOK
<1>2. Carries'
  BY <1>1, KeepsCarries
<1>3. /\ pc' \in [Request -> Step] /\ tx' \in [Request -> Tx]
      /\ answer' \in [Request -> Answer]
  BY NoTxType DEF TypeOK, Step
<1> QED
  BY <1>2, <1>3

LEMMA ReplyInv ==
    ASSUME IInv, NEW r \in Request, NEW code \in Answer, Reply(r, code),
           UNCHANGED tables
    PROVE  IInv'
<1> USE DEF IInv, Reply, tables
<1>1. Carries' /\ pc' \in [Request -> Step] /\ tx' \in [Request -> Tx]
      /\ answer' \in [Request -> Answer]
  BY EndsInv
<1>2. TypeOK' /\ Belongs'
  BY <1>1 DEF TypeOK, Belongs
<1> QED
  BY <1>1, <1>2

-----------------------------------------------------------------------------
LEMMA RenderedIsBooked ==
    ASSUME IInv, NEW w, NEW a \in Rendered(w)
    PROVE  a \in Appointment /\ appts[a] # Null /\ appts[a] \in ApptRow
           /\ appts[a].walkin = w /\ appts[a].status = "completed"
BY DEF Rendered, IInv, TypeOK

LEMMA ConvertArriveInv ==
    ASSUME IInv, NEW r \in Request, ConvertArrive(r)
    PROVE  IInv'
<1>1. UNCHANGED tables /\ "convert" \in May[r]
  BY DEF ConvertArrive, Receives
<1>2. PICK w \in WalkIn :
        \/ Reply(r, "refused")
        \/ Reply(r, "conflict")
        \/ /\ Live(w)
           /\ Go(r, "insert",
                 [NoTx EXCEPT !.kind = "convert", !.walkin = w, !.before = Rendered(w)])
  BY DEF ConvertArrive
<1> DEFINE t == [NoTx EXCEPT !.kind = "convert", !.walkin = w, !.before = Rendered(w)]
<1>3. t \in Tx
  BY NoTxType DEF Tx, Kind, Rendered
<1>4. t.kind = "convert" /\ t.walkin = w
  BY DEF NoTx
<1>5. CASE Live(w) /\ Go(r, "insert", t)
  <2> HIDE DEF t
  <2>1. Carried(r, "insert", t)
    BY <1>1, <1>4, <1>5 DEF Carried, Live
  <2> QED
    BY <1>1, <1>3, <1>5, <2>1, GoInv DEF Step
<1>6. CASE Reply(r, "refused") \/ Reply(r, "conflict")
  BY <1>1, <1>6, ReplyInv DEF Answer
<1> QED
  BY <1>2, <1>5, <1>6

(* The steps of a conversion after the first. *)
LEMMA ConvertOnInv ==
    ASSUME IInv, NEW r \in Request, ConvertInsert(r) \/ ReadCompleted(r) \/ ReadHistory(r)
    PROVE  IInv'
<1>1. UNCHANGED tables
  BY DEF ConvertInsert, ReadCompleted, ReadHistory
<1>2. tx[r] \in Tx /\ Carried(r, pc[r], tx[r])
  BY DEF IInv, TypeOK, Carries
<1>3. CASE ConvertInsert(r)
  <2>1. PICK c \in Client : Go(r, "completed", [tx[r] EXCEPT !.client = c])
    BY <1>3 DEF ConvertInsert
  <2> DEFINE t == [tx[r] EXCEPT !.client = c]
  <2>2. t \in Tx /\ t.kind = tx[r].kind /\ t.walkin = tx[r].walkin /\ t.client = c
    BY <1>2 DEF Tx
  <2>3. Go(r, "completed", t)
    BY <2>1
  <2> HIDE DEF t
  <2>4. Carried(r, "completed", t)
    BY <1>2, <1>3, <2>2 DEF Carried, ConvertInsert
  <2> QED
    BY <1>1, <2>2, <2>3, <2>4, GoInv DEF Step
<1>4. CASE ReadCompleted(r)
  <2> DEFINE done == Rendered(tx[r].walkin)
             step == IF done = {} THEN "commit" ELSE "history"
             t == [tx[r] EXCEPT !.done = done]
  <2>1. Go(r, step, t) /\ step \in {"commit", "history"}
    BY <1>4 DEF ReadCompleted
  <2>2. t \in Tx /\ t.kind = tx[r].kind /\ t.walkin = tx[r].walkin /\ t.client = tx[r].client
    BY <1>2 DEF Tx, Rendered
  <2> HIDE DEF t, step
  <2>3. Carried(r, step, t)
    BY <1>2, <1>4, <2>1, <2>2 DEF Carried, ReadCompleted
  <2> QED
    BY <1>1, <2>1, <2>2, <2>3, GoInv DEF Step
<1>5. CASE ReadHistory(r)
  <2> DEFINE seen == Seen(tx[r].done)
             t == [tx[r] EXCEPT !.seen = seen]
  <2>1. Go(r, "commit", t)
    BY <1>5 DEF ReadHistory
  <2>2. seen \subseteq Appointment \X {NameOf[l] : l \in Line}
    <3>1. \A row \in history : row.appt \in Appointment /\ row.line \in Line
      BY DEF IInv, TypeOK, HistoryRow
    <3> QED
      BY <3>1 DEF Seen
  <2> HIDE DEF seen
  <2>3. t \in Tx /\ t.kind = tx[r].kind /\ t.walkin = tx[r].walkin /\ t.client = tx[r].client
    BY <1>2, <2>2 DEF Tx
  <2> HIDE DEF t
  <2>4. Carried(r, "commit", t)
    BY <1>2, <1>5, <2>3 DEF Carried, ReadHistory
  <2> QED
    BY <1>1, <2>1, <2>3, <2>4, GoInv DEF Step
<1> QED
  BY <1>3, <1>4, <1>5

LEMMA CommitConvertInv ==
    ASSUME IInv, NEW r \in Request, CommitConvert(r)
    PROVE  IInv'
<1> USE DEF IInv
<1>1. /\ tx[r] \in Tx /\ tx[r].walkin \in WalkIn /\ tx[r].client \in Client
      /\ walkins[tx[r].walkin] \in WalkInRow
  BY DEF CommitConvert, TypeOK, Carries, Carried
<1>2. walkins' \in [WalkIn -> WalkInRow \cup {Null}]
      /\ \A w \in WalkIn : walkins[w] # Null => walkins'[w] # Null
  <2> DEFINE row == [walkins[tx[r].walkin] EXCEPT !.client = tx[r].client]
  <2>1. row \in WalkInRow /\ row # Null
    BY <1>1, NullAssumption DEF WalkInRow
  <2>2. walkins' = [walkins EXCEPT ![tx[r].walkin] = row]
    BY DEF CommitConvert
  <2> HIDE DEF row
  <2> QED
    BY <1>1, <2>1, <2>2 DEF TypeOK
<1>3. history' \subseteq HistoryRow /\ clients' \subseteq Client
      /\ owed' \subseteq Client \X Appointment /\ UNCHANGED appts
  <2>1. tx[r].before \subseteq Appointment
    BY <1>1 DEF Tx
  <2> QED
    BY <1>1, <2>1 DEF CommitConvert, TypeOK, Backfill
<1>4. Carries' /\ pc' \in [Request -> Step] /\ tx' \in [Request -> Tx]
      /\ answer' \in [Request -> Answer]
  BY <1>2, <1>3, EndsInv DEF CommitConvert, Answer
<1>5. TypeOK'
  BY <1>2, <1>3, <1>4 DEF TypeOK
<1>6. Belongs'
  BY <1>2, <1>3 DEF Belongs, TypeOK, ApptRow
<1> QED
  BY <1>4, <1>5, <1>6

LEMMA BookArriveInv ==
    ASSUME IInv, NEW r \in Request, BookArrive(r)
    PROVE  IInv'
<1>1. UNCHANGED tables /\ "book" \in May[r]
  BY DEF BookArrive, Receives
<1>2. PICK w \in WalkIn, lines \in SUBSET Line :
        \/ /\ Live(w)
           /\ Go(r, "commit", [NoTx EXCEPT !.kind = "book", !.walkin = w, !.lines = lines])
        \/ Reply(r, "refused")
  BY DEF BookArrive
<1> DEFINE t == [NoTx EXCEPT !.kind = "book", !.walkin = w, !.lines = lines]
<1>3. t \in Tx
  BY NoTxType DEF Tx, Kind
<1>4. t.kind = "book" /\ t.walkin = w
  BY DEF NoTx
<1>5. CASE Live(w) /\ Go(r, "commit", t)
  <2> HIDE DEF t
  <2>1. Carried(r, "commit", t)
    BY <1>1, <1>4, <1>5 DEF Carried, Live
  <2> QED
    BY <1>1, <1>3, <1>5, <2>1, GoInv DEF Step
<1>6. CASE Reply(r, "refused")
  BY <1>1, <1>6, ReplyInv DEF Answer
<1> QED
  BY <1>2, <1>5, <1>6

LEMMA StatusArriveInv ==
    ASSUME IInv, NEW r \in Request, StatusArrive(r)
    PROVE  IInv'
<1>1. UNCHANGED tables /\ "status" \in May[r]
  BY DEF StatusArrive, Receives
<1>2. PICK a \in Appointment, s \in Status :
        /\ appts[a] # Null
        /\ \/ Go(r, "commit", [NoTx EXCEPT !.kind = "status", !.appt = a, !.status = s])
           \/ Reply(r, "refused")
  BY DEF StatusArrive
<1> DEFINE t == [NoTx EXCEPT !.kind = "status", !.appt = a, !.status = s]
<1>3. t \in Tx
  BY NoTxType DEF Tx, Kind
<1>4. t.kind = "status" /\ t.appt = a
  BY DEF NoTx
<1>5. CASE Go(r, "commit", t)
  <2> HIDE DEF t
  <2>1. Carried(r, "commit", t)
    BY <1>1, <1>2, <1>4, <1>5 DEF Carried
  <2> QED
    BY <1>1, <1>3, <1>5, <2>1, GoInv DEF Step
<1>6. CASE Reply(r, "refused")
  BY <1>1, <1>6, ReplyInv DEF Answer
<1> QED
  BY <1>2, <1>5, <1>6

(* A booking adds a row, a status change keeps all but the status.         *)
LEMMA CommitApptRows ==
    ASSUME IInv, NEW r \in Request, CommitBook(r) \/ CommitStatus(r)
    PROVE  /\ appts' \in [Appointment -> ApptRow \cup {Null}]
           /\ \A a \in Appointment : appts[a] # Null =>
                 /\ appts'[a] # Null
                 /\ appts'[a].walkin = appts[a].walkin
                 /\ appts'[a].lines = appts[a].lines
                 /\ \/ appts'[a].status = appts[a].status
                    \/ CommitStatus(r) /\ tx[r].appt = a
           /\ \A a \in Appointment : appts'[a] # Null => walkins[appts'[a].walkin] # Null
<1> USE DEF IInv
<1>1. tx[r] \in Tx /\ Carried(r, pc[r], tx[r])
  BY DEF TypeOK, Carries
<1>2. CASE CommitBook(r)
  <2> DEFINE row == [walkin |-> tx[r].walkin, status |-> "requested", lines |-> tx[r].lines]
  <2>1. PICK a \in Appointment : appts[a] = Null /\ appts' = [appts EXCEPT ![a] = row]
    BY <1>2 DEF CommitBook
  <2>2. /\ row \in ApptRow /\ row # Null
        /\ row.walkin = tx[r].walkin /\ walkins[tx[r].walkin] # Null
    <3>1. /\ tx[r].walkin \in WalkIn /\ walkins[tx[r].walkin] # Null
          /\ tx[r].lines \subseteq Line
      BY <1>1, <1>2 DEF CommitBook, Carried, Tx
    <3>2. row \in ApptRow
      BY <3>1 DEF ApptRow, Status
    <3> QED
      BY <3>1, <3>2, NullAssumption
  <2> HIDE DEF row
  <2> QED
    BY <2>1, <2>2 DEF TypeOK, Belongs
<1>3. CASE CommitStatus(r)
  <2> DEFINE b == tx[r].appt
             row == [appts[b] EXCEPT !.status = tx[r].status]
  <2>1. b \in Appointment /\ appts[b] \in ApptRow /\ tx[r].status \in Status
    BY <1>1, <1>3 DEF CommitStatus, Carried, Tx, TypeOK
  <2>2. /\ row \in ApptRow /\ row # Null
        /\ row.walkin = appts[b].walkin /\ row.lines = appts[b].lines
    <3> HIDE DEF b
    <3>1. row \in ApptRow /\ row.walkin = appts[b].walkin /\ row.lines = appts[b].lines
      BY <2>1 DEF ApptRow
    <3> QED
      BY <3>1, NullAssumption
  <2>3. appts' = [appts EXCEPT ![b] = row] /\ appts[b] # Null
    BY <1>1, <1>3 DEF CommitStatus, Carried
  <2> HIDE DEF row, b
  <2>4. b = tx[r].appt
    BY DEF b
  <2> QED
    BY <1>3, <2>1, <2>2, <2>3, <2>4 DEF TypeOK, Belongs
<1> QED
  BY <1>2, <1>3

LEMMA CommitApptInv ==
    ASSUME IInv, NEW r \in Request, CommitBook(r) \/ CommitStatus(r)
    PROVE  IInv'
<1>1. UNCHANGED <<walkins, clients, history, owed>> /\ Ends(r, "done")
  BY DEF CommitBook, CommitStatus, Reply
<1>2. /\ appts' \in [Appointment -> ApptRow \cup {Null}]
      /\ \A a \in Appointment : appts[a] # Null => appts'[a] # Null
      /\ \A a \in Appointment : appts'[a] # Null => walkins[appts'[a].walkin] # Null
  BY CommitApptRows
<1>3. Carries' /\ pc' \in [Request -> Step] /\ tx' \in [Request -> Tx]
      /\ answer' \in [Request -> Answer]
  BY <1>1, <1>2, EndsInv DEF Answer
<1>4. TypeOK' /\ Belongs'
  BY <1>1, <1>2, <1>3 DEF IInv, TypeOK, Belongs
<1> QED
  BY <1>3, <1>4 DEF IInv

(* Creating and deleting keep every link there is.                         *)
LEMMA WalkInRows ==
    ASSUME IInv, NEW w \in WalkIn, CreateWalkIn(w) \/ DeleteWalkIn(w)
    PROVE  /\ walkins' \in [WalkIn -> WalkInRow \cup {Null}]
           /\ \A v \in WalkIn : walkins[v] # Null =>
                 walkins'[v] # Null /\ walkins'[v].client = walkins[v].client
           /\ UNCHANGED <<clients, appts, history, pc, tx, answer, owed>>
<1>1. CASE CreateWalkIn(w)
  <2> DEFINE row == [client |-> Null, live |-> TRUE]
  <2>1. row \in WalkInRow
    BY DEF WalkInRow
  <2> HIDE DEF row
  <2> QED
    BY <1>1, <2>1 DEF CreateWalkIn, IInv, TypeOK, row
<1>2. CASE DeleteWalkIn(w)
  <2> DEFINE row == [walkins[w] EXCEPT !.live = FALSE]
  <2>1. walkins[w] \in WalkInRow /\ walkins' = [walkins EXCEPT ![w] = row]
    BY <1>2 DEF DeleteWalkIn, Live, IInv, TypeOK
  <2>2. row \in WalkInRow /\ row.client = walkins[w].client /\ row # Null
    BY <2>1, NullAssumption DEF WalkInRow
  <2> HIDE DEF row
  <2> QED
    BY <1>2, <2>1, <2>2 DEF DeleteWalkIn, IInv, TypeOK
<1> QED
  BY <1>1, <1>2

LEMMA WalkInInv ==
    ASSUME IInv, NEW w \in WalkIn, CreateWalkIn(w) \/ DeleteWalkIn(w)
    PROVE  IInv'
<1> USE DEF IInv
<1>1. /\ walkins' \in [WalkIn -> WalkInRow \cup {Null}]
      /\ \A v \in WalkIn : walkins[v] # Null => walkins'[v] # Null
      /\ UNCHANGED <<clients, appts, history, pc, tx, answer, owed>>
  BY WalkInRows
<1>2. TypeOK'
  BY <1>1 DEF TypeOK
<1>3. Carries'
  BY <1>1, KeepsCarries
<1>4. Belongs'
  BY <1>1 DEF Belongs, TypeOK, ApptRow
<1> QED
  BY <1>2, <1>3, <1>4

LEMMA StepInv == IInv /\ [Next]_vars => IInv'
<1> SUFFICES ASSUME IInv, [Next]_vars PROVE IInv'
  OBVIOUS
<1>1. ASSUME NEW r \in Request, Abort(r) PROVE IInv'
  BY <1>1, ReplyInv DEF Abort, Answer
<1>2. CASE UNCHANGED vars
  BY <1>2 DEF IInv, vars, tables, TypeOK, Carries, Carried, Belongs
<1> QED
  BY <1>1, <1>2, ConvertArriveInv, ConvertOnInv, CommitConvertInv, BookArriveInv,
     StatusArriveInv, CommitApptInv, WalkInInv DEF Next, Convert

(* Types, for every value of the constants. *)
THEOREM TypeCorrect == Spec => []TypeOK
<1>1. IInv => TypeOK
  BY DEF IInv
<1> QED
  BY <1>1, InitInv, StepInv, PTL DEF Spec

-----------------------------------------------------------------------------
(* At most one of the requests is of this kind. *)
Alone(kind) == \A q, r \in Request : (kind \in May[q] /\ kind \in May[r]) => q = r

LEMMA NobodyElse ==
    ASSUME IInv, NEW kind \in Kind, Alone(kind), NEW r \in Request, pc[r] # "idle",
           tx[r].kind = kind, NEW q \in Request \ {r}
    PROVE  tx[q].kind # kind
<1> SUFFICES ASSUME tx[q].kind = kind PROVE FALSE
  OBVIOUS
<1>1. pc[q] # "idle"
  BY NoTxType DEF IInv, Carries, Carried, Kind
<1> QED
  BY <1>1 DEF IInv, Carries, Carried, Alone

(* The walk-in a conversion is about has no client yet. *)
Unlinked ==
    \A r \in Request : tx[r].kind = "convert" => walkins[tx[r].walkin].client = Null

(* A client that a conversion registered is linked. *)
Registered ==
    \A c \in clients : \E w \in WalkIn : walkins[w] # Null /\ walkins[w].client = c

ILink == IInv /\ Unlinked /\ Registered

(* What a step of one request does to the requests. *)
OneMoves(r, t) == tx'[r] = t /\ \A q \in Request \ {r} : tx'[q] = tx[q]

LEMMA GoMoves ==
    ASSUME IInv, NEW r \in Request, NEW step, NEW t, Go(r, step, t)
    PROVE  OneMoves(r, t) /\ pc'[r] = step /\ \A q \in Request \ {r} : pc'[q] = pc[q]
BY DEF Go, OneMoves, IInv, TypeOK

LEMMA EndsMoves ==
    ASSUME IInv, NEW r \in Request, NEW code, Ends(r, code)
    PROVE  OneMoves(r, NoTx) /\ pc'[r] = "idle" /\ \A q \in Request \ {r} : pc'[q] = pc[q]
BY DEF Ends, OneMoves, IInv, TypeOK

LEMMA KeepsLink ==
    ASSUME ILink, UNCHANGED <<walkins, clients>>, NEW r \in Request, NEW t, OneMoves(r, t),
           t.kind = "convert" => walkins[t.walkin].client = Null
    PROVE  Unlinked' /\ Registered'
BY DEF ILink, OneMoves, Unlinked, Registered

(* A conversion only starts from a walk-in without a client, and keeps to  *)
(* it.                                                                     *)
LEMMA ArriveLink ==
    ASSUME ILink, NEW r \in Request, ConvertArrive(r) \/ BookArrive(r) \/ StatusArrive(r)
    PROVE  Unlinked' /\ Registered'
<1>1. UNCHANGED <<walkins, clients>> /\ IInv
  BY DEF ConvertArrive, BookArrive, StatusArrive, tables, ILink
<1>2. ASSUME NEW code, Reply(r, code) PROVE Unlinked' /\ Registered'
  BY <1>1, <1>2, EndsMoves, KeepsLink, NoTxType DEF Reply
<1>3. CASE ConvertArrive(r)
  <2>1. PICK w \in WalkIn :
          \/ Reply(r, "refused")
          \/ Reply(r, "conflict")
          \/ /\ Convertible(w)
             /\ Go(r, "insert",
                   [NoTx EXCEPT !.kind = "convert", !.walkin = w, !.before = Rendered(w)])
    BY <1>3 DEF ConvertArrive
  <2> DEFINE t == [NoTx EXCEPT !.kind = "convert", !.walkin = w, !.before = Rendered(w)]
  <2>2. t.walkin = w
    BY DEF NoTx
  <2>3. Reply(r, "refused") \/ Reply(r, "conflict") \/ (Convertible(w) /\ Go(r, "insert", t))
    BY <2>1
  <2> HIDE DEF t
  <2> QED
    BY <1>1, <1>2, <2>2, <2>3, GoMoves, KeepsLink DEF Convertible
<1>4. CASE BookArrive(r)
  <2>1. PICK w \in WalkIn, lines \in SUBSET Line :
          \/ Go(r, "commit", [NoTx EXCEPT !.kind = "book", !.walkin = w, !.lines = lines])
          \/ Reply(r, "refused")
    BY <1>4 DEF BookArrive
  <2> DEFINE t == [NoTx EXCEPT !.kind = "book", !.walkin = w, !.lines = lines]
  <2>2. t.kind = "book"
    BY DEF NoTx
  <2>3. Go(r, "commit", t) \/ Reply(r, "refused")
    BY <2>1
  <2> HIDE DEF t
  <2> QED
    BY <1>1, <1>2, <2>2, <2>3, GoMoves, KeepsLink
<1>5. CASE StatusArrive(r)
  <2>1. PICK a \in Appointment, s \in Status :
          \/ Go(r, "commit", [NoTx EXCEPT !.kind = "status", !.appt = a, !.status = s])
          \/ Reply(r, "refused")
    BY <1>5 DEF StatusArrive
  <2> DEFINE t == [NoTx EXCEPT !.kind = "status", !.appt = a, !.status = s]
  <2>2. t.kind = "status"
    BY DEF NoTx
  <2>3. Go(r, "commit", t) \/ Reply(r, "refused")
    BY <2>1
  <2> HIDE DEF t
  <2> QED
    BY <1>1, <1>2, <2>2, <2>3, GoMoves, KeepsLink
<1> QED
  BY <1>3, <1>4, <1>5

LEMMA ConvertOnLink ==
    ASSUME ILink, NEW r \in Request, ConvertInsert(r) \/ ReadCompleted(r) \/ ReadHistory(r)
    PROVE  Unlinked' /\ Registered'
<1>1. UNCHANGED <<walkins, clients>> /\ IInv
  BY DEF ConvertInsert, ReadCompleted, ReadHistory, tables, ILink
<1>2. tx[r] \in Tx /\ (tx[r].kind = "convert" => walkins[tx[r].walkin].client = Null)
  BY DEF ILink, IInv, TypeOK, Unlinked
<1>3. PICK t : OneMoves(r, t) /\ t.kind = tx[r].kind /\ t.walkin = tx[r].walkin
  <2>1. CASE ConvertInsert(r)
    <3>1. PICK c \in Client : Go(r, "completed", [tx[r] EXCEPT !.client = c])
      BY <2>1 DEF ConvertInsert
    <3> DEFINE t == [tx[r] EXCEPT !.client = c]
    <3>2. t.kind = tx[r].kind /\ t.walkin = tx[r].walkin
      BY <1>2 DEF Tx
    <3> QED
      BY <1>1, <3>1, <3>2, GoMoves
  <2>2. CASE ReadCompleted(r)
    <3> DEFINE t == [tx[r] EXCEPT !.done = Rendered(tx[r].walkin)]
    <3>1. PICK step : Go(r, step, t)
      BY <2>2 DEF ReadCompleted
    <3>2. t.kind = tx[r].kind /\ t.walkin = tx[r].walkin
      BY <1>2 DEF Tx
    <3> QED
      BY <1>1, <3>1, <3>2, GoMoves
  <2>3. CASE ReadHistory(r)
    <3> DEFINE t == [tx[r] EXCEPT !.seen = Seen(tx[r].done)]
    <3>1. Go(r, "commit", t)
      BY <2>3 DEF ReadHistory
    <3>2. t.kind = tx[r].kind /\ t.walkin = tx[r].walkin
      BY <1>2 DEF Tx
    <3> QED
      BY <1>1, <3>1, <3>2, GoMoves
  <2> QED
    BY <2>1, <2>2, <2>3
<1> QED
  BY <1>1, <1>2, <1>3, KeepsLink

(* What the commit of a conversion does to the walk-ins. *)
LEMMA CommitConvertLinks ==
    ASSUME ILink, NEW r \in Request, CommitConvert(r)
    PROVE  /\ tx[r].walkin \in WalkIn /\ tx[r].client \in Client
           /\ walkins[tx[r].walkin].client = Null
           /\ walkins'[tx[r].walkin] # Null
           /\ walkins'[tx[r].walkin].client = tx[r].client
           /\ \A w \in WalkIn \ {tx[r].walkin} : walkins'[w] = walkins[w]
           /\ clients' = clients \cup {tx[r].client}
<1>1. /\ tx[r].walkin \in WalkIn /\ tx[r].client \in Client
      /\ walkins[tx[r].walkin] # Null
      /\ walkins[tx[r].walkin].client = Null
  BY DEF CommitConvert, ILink, IInv, Carries, Carried, Unlinked
<1>2. walkins[tx[r].walkin] \in WalkInRow /\ walkins \in [WalkIn -> WalkInRow \cup {Null}]
  BY <1>1 DEF ILink, IInv, TypeOK
<1> DEFINE row == [walkins[tx[r].walkin] EXCEPT !.client = tx[r].client]
<1>3. row \in WalkInRow /\ row.client = tx[r].client /\ row # Null
  BY <1>1, <1>2, NullAssumption DEF WalkInRow
<1>4. walkins' = [walkins EXCEPT ![tx[r].walkin] = row]
  BY DEF CommitConvert
<1> HIDE DEF row
<1> QED
  BY <1>1, <1>2, <1>3, <1>4 DEF CommitConvert

LEMMA CommitConvertLink ==
    ASSUME ILink, Alone("convert"), NEW r \in Request, CommitConvert(r)
    PROVE  Unlinked' /\ Registered'
<1>1. OneMoves(r, NoTx) /\ IInv
  BY EndsMoves DEF CommitConvert, ILink
<1>2. \A q \in Request \ {r} : tx[q].kind # "convert"
  BY <1>1, NobodyElse DEF CommitConvert, Kind
<1>3. Unlinked'
  BY <1>1, <1>2, NoTxType DEF Unlinked, OneMoves
<1>4. Registered'
  <2> SUFFICES ASSUME NEW c \in clients'
               PROVE  \E w \in WalkIn : walkins'[w] # Null /\ walkins'[w].client = c
    BY DEF Registered
  <2>1. CASE c = tx[r].client
    BY <2>1, CommitConvertLinks
  <2>2. CASE c \in clients
    <3>1. PICK w \in WalkIn : walkins[w] # Null /\ walkins[w].client = c
      BY <2>2 DEF ILink, Registered
    <3>2. c # Null
      BY <2>2, NullAssumption DEF ILink, IInv, TypeOK
    <3> QED
      BY <3>1, <3>2, CommitConvertLinks
  <2> QED
    BY <2>1, <2>2, CommitConvertLinks
<1> QED
  BY <1>3, <1>4

LEMMA StepLink == Alone("convert") /\ ILink /\ [Next]_vars => ILink'
<1> SUFFICES ASSUME Alone("convert"), ILink, [Next]_vars PROVE Unlinked' /\ Registered'
  BY StepInv DEF ILink
<1>1. ASSUME NEW r \in Request, CommitBook(r) \/ CommitStatus(r) \/ Abort(r)
      PROVE  Unlinked' /\ Registered'
  <2>1. PICK code : Ends(r, code)
    BY <1>1 DEF CommitBook, CommitStatus, Abort, Reply
  <2>2. UNCHANGED <<walkins, clients>>
    BY <1>1 DEF CommitBook, CommitStatus, Abort, tables
  <2> QED
    BY <2>1, <2>2, EndsMoves, KeepsLink, NoTxType DEF ILink
<1>2. ASSUME NEW w \in WalkIn, CreateWalkIn(w) \/ DeleteWalkIn(w)
      PROVE  Unlinked' /\ Registered'
  <2>1. /\ \A v \in WalkIn : walkins[v] # Null =>
             walkins'[v] # Null /\ walkins'[v].client = walkins[v].client
        /\ UNCHANGED <<clients, tx>>
    BY <1>2, WalkInRows DEF ILink
  <2>2. \A r \in Request : tx[r].kind = "convert" =>
            tx[r].walkin \in WalkIn /\ walkins[tx[r].walkin] # Null
    BY DEF ILink, IInv, Carries, Carried
  <2> QED
    BY <2>1, <2>2 DEF ILink, Unlinked, Registered
<1>3. CASE UNCHANGED vars
  BY <1>3 DEF vars, tables, ILink, Unlinked, Registered
<1> QED
  BY <1>1, <1>2, <1>3, ArriveLink, ConvertOnLink, CommitConvertLink DEF Next, Convert

LEMMA InitLink == Init => ILink
<1>1. Init => Unlinked /\ Registered
  BY NoTxType DEF Init, Unlinked, Registered
<1> QED
  BY <1>1, InitInv DEF ILink

-----------------------------------------------------------------------------
(* What a conversion found is rendered, all that was there when it was     *)
(* asked for is found, and none of it is in anybody's history yet.         *)
Converting ==
    \A r \in Request : tx[r].kind = "convert" =>
        /\ tx[r].done \subseteq Rendered(tx[r].walkin)
        /\ tx[r].before \subseteq Rendered(tx[r].walkin)
        /\ pc[r] \in {"history", "commit"} => tx[r].before \subseteq tx[r].done
        /\ tx[r].seen = {}

(* An appointment whose status is about to be set is not completed. *)
Judged == \A r \in Request : tx[r].kind = "status" => appts[tx[r].appt].status # "completed"

(* What the history tells of is there. *)
Kept ==
    /\ \A row \in history : appts[row.appt] # Null
    /\ \A entry \in owed : appts[entry[2]] # Null

IHist == ILink /\ Converting /\ Judged /\ Kept /\ HistoryIsEarned /\ HistoryIsPreserved

LEMMA NotYetTold ==
    ASSUME IHist, NEW w, walkins[w].client = Null, NEW done \in SUBSET Rendered(w)
    PROVE  Seen(done) = {}
<1>1. \A row \in history : row.appt \notin done
  <2> SUFFICES ASSUME NEW row \in history, row.appt \in done PROVE FALSE
    OBVIOUS
  <2>1. walkins[w].client = row.client
    BY RenderedIsBooked DEF IHist, ILink, HistoryIsEarned
  <2>2. row.client \in Client
    BY DEF IHist, ILink, IInv, TypeOK, HistoryRow
  <2> QED
    BY <2>1, <2>2, NullAssumption
<1> QED
  BY <1>1 DEF Seen

(* A step of one request that writes nothing. *)
LEMMA KeepsHist ==
    ASSUME IHist, UNCHANGED <<walkins, clients, appts, history, owed>>,
           NEW r \in Request, NEW step, NEW t, OneMoves(r, t),
           pc'[r] = step, \A q \in Request \ {r} : pc'[q] = pc[q],
           t.kind = "convert" =>
              /\ t.done \subseteq Rendered(t.walkin)
              /\ t.before \subseteq Rendered(t.walkin)
              /\ step \in {"history", "commit"} => t.before \subseteq t.done
              /\ t.seen = {},
           t.kind = "status" => appts[t.appt].status # "completed"
    PROVE  Converting' /\ Judged' /\ Kept' /\ HistoryIsEarned' /\ HistoryIsPreserved'
<1> USE DEF IHist
<1>1. \A w : Rendered(w)' = Rendered(w)
  BY DEF Rendered
<1>2. Converting'
  BY <1>1 DEF OneMoves, Converting
<1>3. Judged'
  BY DEF OneMoves, Judged
<1>4. Kept' /\ HistoryIsEarned' /\ HistoryIsPreserved'
  BY DEF Kept, HistoryIsEarned, HistoryIsPreserved
<1> QED
  BY <1>2, <1>3, <1>4

LEMMA EndsHist ==
    ASSUME IHist, UNCHANGED <<walkins, clients, appts, history, owed>>,
           NEW r \in Request, NEW code, Ends(r, code)
    PROVE  Converting' /\ Judged' /\ Kept' /\ HistoryIsEarned' /\ HistoryIsPreserved'
<1>1. OneMoves(r, NoTx) /\ pc'[r] = "idle" /\ \A q \in Request \ {r} : pc'[q] = pc[q]
  BY EndsMoves DEF IHist, ILink
<1> QED
  BY <1>1, KeepsHist, NoTxType

LEMMA ArriveHist ==
    ASSUME IHist, NEW r \in Request, ConvertArrive(r) \/ BookArrive(r) \/ StatusArrive(r)
    PROVE  Converting' /\ Judged' /\ Kept' /\ HistoryIsEarned' /\ HistoryIsPreserved'
<1>1. UNCHANGED tables /\ IInv
  BY DEF ConvertArrive, BookArrive, StatusArrive, IHist, ILink
<1>2. ASSUME NEW code, Reply(r, code)
      PROVE  Converting' /\ Judged' /\ Kept' /\ HistoryIsEarned' /\ HistoryIsPreserved'
  BY <1>1, <1>2, EndsHist DEF Reply, tables
<1>3. CASE ConvertArrive(r)
  <2>1. PICK w \in WalkIn :
          \/ Reply(r, "refused")
          \/ Reply(r, "conflict")
          \/ Go(r, "insert",
                [NoTx EXCEPT !.kind = "convert", !.walkin = w, !.before = Rendered(w)])
    BY <1>3 DEF ConvertArrive
  <2> DEFINE t == [NoTx EXCEPT !.kind = "convert", !.walkin = w, !.before = Rendered(w)]
  <2>2. /\ t.kind = "convert" /\ t.walkin = w /\ t.before = Rendered(w)
        /\ t.done = {} /\ t.seen = {}
    BY DEF NoTx
  <2>3. Reply(r, "refused") \/ Reply(r, "conflict") \/ Go(r, "insert", t)
    BY <2>1
  <2> HIDE DEF t
  <2>4. CASE Go(r, "insert", t)
    <3>1. /\ OneMoves(r, t) /\ pc'[r] = "insert"
          /\ \A q \in Request \ {r} : pc'[q] = pc[q]
      BY <1>1, <2>4, GoMoves
    <3>2. UNCHANGED <<walkins, clients, appts, history, owed>>
      BY <1>1, <2>4 DEF tables, Go
    <3> QED
      BY <2>2, <3>1, <3>2, KeepsHist
  <2> QED
    BY <1>2, <2>3, <2>4
<1>4. CASE BookArrive(r)
  <2>1. PICK w \in WalkIn, lines \in SUBSET Line :
          \/ Go(r, "commit", [NoTx EXCEPT !.kind = "book", !.walkin = w, !.lines = lines])
          \/ Reply(r, "refused")
    BY <1>4 DEF BookArrive
  <2> DEFINE t == [NoTx EXCEPT !.kind = "book", !.walkin = w, !.lines = lines]
  <2>2. t.kind = "book"
    BY DEF NoTx
  <2>3. Go(r, "commit", t) \/ Reply(r, "refused")
    BY <2>1
  <2> HIDE DEF t
  <2>4. CASE Go(r, "commit", t)
    <3>1. /\ OneMoves(r, t) /\ pc'[r] = "commit"
          /\ \A q \in Request \ {r} : pc'[q] = pc[q]
      BY <1>1, <2>4, GoMoves
    <3>2. UNCHANGED <<walkins, clients, appts, history, owed>>
      BY <1>1, <2>4 DEF tables, Go
    <3> QED
      BY <2>2, <3>1, <3>2, KeepsHist
  <2> QED
    BY <1>2, <2>3, <2>4
<1>5. CASE StatusArrive(r)
  <2>1. PICK a \in Appointment, s \in Status :
          IF s \in LegalTransitions[appts[a].status]
          THEN Go(r, "commit", [NoTx EXCEPT !.kind = "status", !.appt = a, !.status = s])
          ELSE Reply(r, "refused")
    BY <1>5 DEF StatusArrive
  <2> DEFINE t == [NoTx EXCEPT !.kind = "status", !.appt = a, !.status = s]
  <2>2. t.kind = "status" /\ t.appt = a
    BY DEF NoTx
  <2>3. \/ Go(r, "commit", t) /\ s \in LegalTransitions[appts[a].status]
        \/ Reply(r, "refused")
    BY <2>1
  <2>4. s \in LegalTransitions[appts[a].status] => appts[a].status # "completed"
    BY DEF LegalTransitions
  <2> HIDE DEF t
  <2>5. CASE Go(r, "commit", t) /\ s \in LegalTransitions[appts[a].status]
    BY <1>1, <2>2, <2>4, <2>5, GoMoves, KeepsHist DEF tables, Go
  <2> QED
    BY <1>2, <2>3, <2>5
<1> QED
  BY <1>3, <1>4, <1>5

LEMMA ConvertOnHist ==
    ASSUME IHist, NEW r \in Request, ConvertInsert(r) \/ ReadCompleted(r) \/ ReadHistory(r)
    PROVE  Converting' /\ Judged' /\ Kept' /\ HistoryIsEarned' /\ HistoryIsPreserved'
<1>1. UNCHANGED <<walkins, clients, appts, history, owed>> /\ IInv
  BY DEF ConvertInsert, ReadCompleted, ReadHistory, tables, IHist, ILink, Go
<1>2. /\ tx[r] \in Tx /\ tx[r].kind = "convert"
      /\ walkins[tx[r].walkin].client = Null
      /\ tx[r].done \subseteq Rendered(tx[r].walkin)
      /\ tx[r].before \subseteq Rendered(tx[r].walkin)
      /\ tx[r].seen = {}
      /\ pc[r] = "history" => tx[r].before \subseteq tx[r].done
  BY DEF ConvertInsert, ReadCompleted, ReadHistory, IHist, ILink, IInv, TypeOK,
         Carries, Carried, Unlinked, Converting
<1>3. CASE ConvertInsert(r)
  <2>1. PICK c \in Client : Go(r, "completed", [tx[r] EXCEPT !.client = c])
    BY <1>3 DEF ConvertInsert
  <2> DEFINE t == [tx[r] EXCEPT !.client = c]
  <2>2. /\ t.kind = "convert" /\ t.walkin = tx[r].walkin
        /\ t.done = tx[r].done /\ t.before = tx[r].before /\ t.seen = tx[r].seen
    BY <1>2 DEF Tx
  <2>3. Go(r, "completed", t)
    BY <2>1
  <2> HIDE DEF t
  <2> QED
    BY <1>1, <1>2, <2>2, <2>3, GoMoves, KeepsHist
<1>4. CASE ReadCompleted(r)
  <2> DEFINE done == Rendered(tx[r].walkin)
             t == [tx[r] EXCEPT !.done = done]
  <2>1. PICK step : Go(r, step, t)
    BY <1>4 DEF ReadCompleted
  <2>2. /\ t.kind = "convert" /\ t.walkin = tx[r].walkin
        /\ t.done = done /\ t.before = tx[r].before /\ t.seen = tx[r].seen
    BY <1>2 DEF Tx
  <2> HIDE DEF t
  <2> QED
    BY <1>1, <1>2, <2>1, <2>2, GoMoves, KeepsHist
<1>5. CASE ReadHistory(r)
  <2> DEFINE t == [tx[r] EXCEPT !.seen = Seen(tx[r].done)]
  <2>1. Go(r, "commit", t) /\ pc[r] = "history"
    BY <1>5 DEF ReadHistory
  <2>2. /\ t.kind = "convert" /\ t.walkin = tx[r].walkin
        /\ t.done = tx[r].done /\ t.before = tx[r].before /\ t.seen = Seen(tx[r].done)
    BY <1>2 DEF Tx
  <2>3. Seen(tx[r].done) = {}
    BY <1>2, NotYetTold
  <2> HIDE DEF t
  <2> QED
    BY <1>1, <1>2, <2>1, <2>2, <2>3, GoMoves, KeepsHist
<1> QED
  BY <1>3, <1>4, <1>5

(* The commit of the one conversion: what it adds was rendered to the      *)
(* walk-in it links, and what it owes it adds.                             *)
LEMMA CommitConvertHist ==
    ASSUME IHist, Alone("convert"), NEW r \in Request, CommitConvert(r)
    PROVE  Converting' /\ Judged' /\ Kept' /\ HistoryIsEarned' /\ HistoryIsPreserved'
<1> DEFINE w == tx[r].walkin
           c == tx[r].client
           new == Backfill(c, tx[r].done, tx[r].seen)
<1> USE DEF IHist, ILink
<1>1. OneMoves(r, NoTx) /\ UNCHANGED appts
  BY EndsMoves DEF CommitConvert
<1>2. \A q \in Request \ {r} : tx[q].kind # "convert"
  BY NobodyElse DEF CommitConvert, Kind
<1>3. /\ w \in WalkIn /\ c \in Client /\ walkins[w].client = Null
      /\ walkins'[w].client = c
      /\ \A v \in WalkIn \ {w} : walkins'[v] = walkins[v]
      /\ clients' = clients \cup {c}
  BY CommitConvertLinks
<1>4. /\ tx[r].done \subseteq Rendered(w) /\ tx[r].before \subseteq tx[r].done
      /\ tx[r].seen = {}
  BY DEF Converting, CommitConvert
<1>5. history' = history \cup new /\ owed' = owed \cup ({c} \X tx[r].before)
  BY DEF CommitConvert
<1>6. \A row \in new :
        /\ row.client = c /\ row.appt \in Rendered(w) /\ row.line \in appts[row.appt].lines
  BY <1>4 DEF Backfill
<1>7. \A a \in tx[r].done : \A line \in appts[a].lines :
        [client |-> c, appt |-> a, line |-> line] \in new
  <2> SUFFICES ASSUME NEW a \in tx[r].done, NEW line \in appts[a].lines
               PROVE  [client |-> c, appt |-> a, line |-> line] \in new
    OBVIOUS
  <2>1. a \in Appointment /\ appts[a] \in ApptRow
    BY <1>4, RenderedIsBooked
  <2>2. line \in Line
    BY <2>1 DEF ApptRow
  <2> QED
    BY <1>3, <1>4, <2>1, <2>2 DEF Backfill, HistoryRow
<1>8. \A a \in Rendered(w) :
        /\ a \in Appointment /\ appts[a] # Null
        /\ appts[a].walkin = w /\ appts[a].status = "completed"
  BY RenderedIsBooked
<1>9. \A row \in history : row.client \in Client /\ row.appt \in Appointment
  BY DEF IInv, TypeOK, HistoryRow
<1>10. \A a \in Appointment : appts[a] # Null => appts[a].walkin \in WalkIn
  BY DEF IInv, TypeOK, ApptRow
<1>11. \A entry \in owed : entry[1] \in Client /\ entry[2] \in Appointment
  BY DEF IInv, TypeOK
<1>12. Null \notin Client
  BY NullAssumption
<1> HIDE DEF w, c, new
<1>13. Converting' /\ Judged'
  BY <1>1, <1>2, NoTxType DEF Converting, Judged, OneMoves
<1>14. Kept'
  BY <1>1, <1>4, <1>5, <1>6, <1>8 DEF Kept
<1>15. HistoryIsEarned'
  <2> SUFFICES ASSUME NEW row \in history'
               PROVE  /\ row.client \in clients'
                      /\ appts[row.appt].status = "completed"
                      /\ row.line \in appts[row.appt].lines
                      /\ walkins'[appts[row.appt].walkin].client = row.client
    BY <1>1 DEF HistoryIsEarned
  <2>1. CASE row \in new
    BY <1>3, <1>6, <1>8, <2>1
  <2>2. CASE row \in history
    <3>1. /\ row.client \in clients
          /\ appts[row.appt].status = "completed"
          /\ row.line \in appts[row.appt].lines
          /\ walkins[appts[row.appt].walkin].client = row.client
      BY <2>2 DEF HistoryIsEarned
    <3>2. appts[row.appt].walkin \in WalkIn \ {w}
      BY <1>3, <1>9, <1>10, <1>12, <2>2, <3>1 DEF Kept
    <3> QED
      BY <1>3, <3>1, <3>2
  <2> QED
    BY <1>5, <2>1, <2>2
<1>16. HistoryIsPreserved'
  <2> SUFFICES ASSUME NEW entry \in owed'
               PROVE  /\ walkins'[appts[entry[2]].walkin].client = entry[1]
                      /\ \A line \in appts[entry[2]].lines :
                            [client |-> entry[1], appt |-> entry[2], line |-> line]
                                \in history'
    BY <1>1 DEF HistoryIsPreserved
  <2>1. CASE entry \in owed
    <3>1. /\ walkins[appts[entry[2]].walkin].client = entry[1]
          /\ \A line \in appts[entry[2]].lines :
                [client |-> entry[1], appt |-> entry[2], line |-> line] \in history
      BY <2>1 DEF HistoryIsPreserved
    <3>2. appts[entry[2]].walkin \in WalkIn \ {w}
      BY <1>3, <1>10, <1>11, <1>12, <2>1, <3>1 DEF Kept
    <3> QED
      BY <1>3, <1>5, <3>1, <3>2
  <2>2. CASE entry \in {c} \X tx[r].before
    <3>1. entry[1] = c /\ entry[2] \in tx[r].done
      BY <1>4, <2>2
    <3> QED
      BY <1>3, <1>4, <1>5, <1>7, <1>8, <3>1
  <2> QED
    BY <1>5, <2>1, <2>2
<1> QED
  BY <1>13, <1>14, <1>15, <1>16

(* Neither a booking nor the one status change touches what is completed.  *)
LEMMA CommitApptHist ==
    ASSUME IHist, Alone("status"), NEW r \in Request, CommitBook(r) \/ CommitStatus(r)
    PROVE  Converting' /\ Judged' /\ Kept' /\ HistoryIsEarned' /\ HistoryIsPreserved'
<1> USE DEF IHist, ILink
<1>1. /\ OneMoves(r, NoTx) /\ pc'[r] = "idle"
      /\ \A q \in Request \ {r} : pc'[q] = pc[q]
      /\ UNCHANGED <<walkins, clients, history, owed>>
  BY EndsMoves DEF CommitBook, CommitStatus, Reply
<1>2. /\ \A a \in Appointment : appts[a] # Null =>
            /\ appts'[a] # Null
            /\ appts'[a].walkin = appts[a].walkin
            /\ appts'[a].lines = appts[a].lines
            /\ \/ appts'[a].status = appts[a].status
               \/ CommitStatus(r) /\ tx[r].appt = a
  BY CommitApptRows
<1>3. \A a \in Appointment : appts[a] # Null /\ appts[a].status = "completed" =>
        appts'[a].status = "completed"
  BY <1>2 DEF CommitStatus, Judged
<1>4. \A v : Rendered(v) \subseteq Rendered(v)'
  BY <1>2, <1>3 DEF Rendered
<1>5. Converting'
  BY <1>1, <1>4, NoTxType DEF Converting, OneMoves
<1>6. Judged'
  <2> SUFFICES ASSUME NEW q \in Request, tx'[q].kind = "status"
               PROVE  appts'[tx'[q].appt].status # "completed"
    BY DEF Judged
  <2>1. q # r /\ tx'[q] = tx[q]
    BY <1>1, NoTxType DEF OneMoves
  <2>2. /\ tx[q].appt \in Appointment /\ appts[tx[q].appt] # Null
        /\ appts[tx[q].appt].status # "completed"
    BY <2>1 DEF IInv, Carries, Carried, Judged
  <2>3. ~CommitStatus(r)
    BY <2>1, NobodyElse DEF CommitStatus, Kind
  <2> QED
    BY <1>2, <2>1, <2>2, <2>3
<1>7. /\ \A row \in history : row.appt \in Appointment
      /\ \A entry \in owed : entry[2] \in Appointment
  BY DEF IInv, TypeOK, HistoryRow
<1>8. Kept'
  BY <1>1, <1>2, <1>7 DEF Kept
<1>9. HistoryIsEarned'
  BY <1>1, <1>2, <1>3, <1>7 DEF HistoryIsEarned, Kept
<1>10. HistoryIsPreserved'
  BY <1>1, <1>2, <1>7 DEF HistoryIsPreserved, Kept
<1> QED
  BY <1>5, <1>6, <1>8, <1>9, <1>10

LEMMA WalkInHist ==
    ASSUME IHist, NEW w \in WalkIn, CreateWalkIn(w) \/ DeleteWalkIn(w)
    PROVE  Converting' /\ Judged' /\ Kept' /\ HistoryIsEarned' /\ HistoryIsPreserved'
<1> USE DEF IHist, ILink
<1>1. /\ \A v \in WalkIn : walkins[v] # Null =>
            walkins'[v] # Null /\ walkins'[v].client = walkins[v].client
      /\ UNCHANGED <<clients, appts, history, pc, tx, answer, owed>>
  BY WalkInRows
<1>2. Converting' /\ Judged' /\ Kept'
  BY <1>1 DEF Converting, Judged, Kept, Rendered
<1>3. /\ \A row \in history : row.appt \in Appointment
      /\ \A entry \in owed : entry[2] \in Appointment
  BY DEF IInv, TypeOK, HistoryRow
<1>4. \A a \in Appointment : appts[a] # Null =>
        appts[a].walkin \in WalkIn /\ walkins[appts[a].walkin] # Null
  BY DEF IInv, TypeOK, ApptRow, Belongs
<1>5. HistoryIsEarned'
  BY <1>1, <1>3, <1>4 DEF HistoryIsEarned, Kept
<1>6. HistoryIsPreserved'
  BY <1>1, <1>3, <1>4 DEF HistoryIsPreserved, Kept
<1> QED
  BY <1>2, <1>5, <1>6

LEMMA StepHist == Alone("convert") /\ Alone("status") /\ IHist /\ [Next]_vars => IHist'
<1> SUFFICES ASSUME Alone("convert"), Alone("status"), IHist, [Next]_vars
             PROVE  Converting' /\ Judged' /\ Kept' /\ HistoryIsEarned' /\ HistoryIsPreserved'
  BY StepLink DEF IHist
<1>1. ASSUME NEW r \in Request, Abort(r)
      PROVE  Converting' /\ Judged' /\ Kept' /\ HistoryIsEarned' /\ HistoryIsPreserved'
  BY <1>1, EndsHist DEF Abort, Reply, tables
<1>2. CASE UNCHANGED vars
  BY <1>2 DEF vars, tables, IHist, Converting, Judged, Kept, Rendered, HistoryIsEarned,
              HistoryIsPreserved
<1> QED
  BY <1>1, <1>2, ArriveHist, ConvertOnHist, CommitConvertHist, CommitApptHist, WalkInHist
     DEF Next, Convert

LEMMA InitHist == Init => IHist
<1>1. Init => /\ Converting /\ Judged /\ Kept
              /\ HistoryIsEarned /\ HistoryIsPreserved
  BY NoTxType DEF Init, Converting, Judged, Kept, HistoryIsEarned, HistoryIsPreserved
<1> QED
  BY <1>1, InitLink DEF IHist

(* With one request at a time that converts and one that changes statuses, *)
(* beside each other and beside bookings, the history a walk-in had when   *)
(* its conversion was asked for is its client's (convert_to_client).       *)
THEOREM PreservedAlone ==
    Alone("convert") /\ Alone("status") => (Spec => []HistoryIsPreserved)
<1> SUFFICES ASSUME Alone("convert"), Alone("status") PROVE Spec => []HistoryIsPreserved
  OBVIOUS
<1>1. IHist /\ [Next]_vars => IHist'
  BY StepHist
<1>2. IHist => HistoryIsPreserved
  BY DEF IHist
<1> QED
  BY <1>1, <1>2, InitHist, PTL DEF Spec

(* And nobody's history tells of what was not rendered to them             *)
(* (convert_to_client against transition_status).                          *)
THEOREM EarnedAlone ==
    Alone("convert") /\ Alone("status") => (Spec => []HistoryIsEarned)
<1> SUFFICES ASSUME Alone("convert"), Alone("status") PROVE Spec => []HistoryIsEarned
  OBVIOUS
<1>1. IHist /\ [Next]_vars => IHist'
  BY StepHist
<1>2. IHist => HistoryIsEarned
  BY DEF IHist
<1> QED
  BY <1>1, <1>2, InitHist, PTL DEF Spec

=============================================================================
