-------------------------- MODULE CompletionProofs --------------------------
(***************************************************************************)
(* Completion proved for any number of requests, appointments, products,   *)
(* usage rows and quantities.  Types, a stock that is never negative, that *)
(* stock is lost by stale writes only and that no part of a completion is  *)
(* stored without the others hold whatever runs side by side.  That        *)
(* completions never deduct too much is proved where nobody restocks; that *)
(* a completion happens once, for one request at a time that judges        *)
(* statuses.                                                               *)
(***************************************************************************)
EXTENDS Completion, Sums

(* What each step of a request carries. *)
Carries ==
    \A r \in Request :
        /\ pc[r] = "idle" => tx[r] = NoTx
        /\ pc[r] # "idle" => tx[r].kind \in May[r]
        /\ pc[r] \in {"usage", "products", "specialist", "existing"} =>
              tx[r].kind = "complete"
        /\ tx[r].kind \in {"complete", "cancel", "use"} => tx[r].appt \in Appointment

(* Usage rows that were read exist, and are about the appointment. *)
RowsExist ==
    /\ \A r \in Request : \A u \in tx[r].rows :
          usage[u] # Null /\ usage[u].appt = tx[r].appt
    /\ \A u \in spent : usage[u] # Null

(* Only a completion may ask for a negative quantity. *)
WantsStock ==
    \A r \in Request : tx[r].kind # "complete" => ~Violates(tx[r].want)

IInv ==
    /\ TypeOK
    /\ Carries
    /\ RowsExist
    /\ WantsStock
    /\ StockNeverNegative

-----------------------------------------------------------------------------
LEMMA NoTxType == NoTx \in Tx
BY DEF NoTx, Tx

(* What an appointment used of a product is a natural number, and nothing  *)
(* if no row is about the product.                                         *)
LEMMA UsedType ==
    ASSUME TypeOK, NEW rows \in SUBSET UsageKey, \A u \in rows : usage[u] # Null,
           NEW p \in Product
    PROVE  /\ Used(rows, p) \in Nat
           /\ (\A u \in rows : usage[u].product # p) => Used(rows, p) = 0
<1> DEFINE f == [u \in rows |-> usage[u].qty]
           S == {u \in rows : usage[u].product = p}
<1>1. IsFiniteSet(S)
  BY UsageKeyAssumption, FS_Subset
<1>2. \A u \in S : f[u] \in Nat
  <2> SUFFICES ASSUME NEW u \in S PROVE f[u] \in Nat
    OBVIOUS
  <2>1. usage[u] \in UsageRow
    BY DEF TypeOK
  <2>2. usage[u].qty \in Quantity
    BY <2>1 DEF UsageRow
  <2>3. f[u] = usage[u].qty
    OBVIOUS
  <2>4. usage[u].qty \in Nat
    BY <2>2, QuantityAssumption
  <2> HIDE DEF f, S
  <2> QED
    BY <2>3, <2>4
<1>3. SumFunctionOnSet(f, S) \in Nat
  <2> HIDE DEF f, S
  <2> QED BY <1>1, <1>2, SumNat
<1>4. (\A u \in rows : usage[u].product # p) => S = {}
  OBVIOUS
<1>5. SumFunctionOnSet(f, {}) = 0
  BY SumEmpty
<1>6. Used(rows, p) = SumFunctionOnSet(f, S)
  BY DEF Used
<1> QED
  <2> HIDE DEF f, S
  <2> QED BY <1>3, <1>4, <1>5, <1>6

LEMMA InitInv == Init => IInv
<1> SUFFICES ASSUME Init PROVE IInv
  OBVIOUS
<1>1. TypeOK
  BY NoTxType, MaxStockAssumption DEF Init, TypeOK, Status, Step, Answer
<1>2. Carries /\ RowsExist /\ WantsStock
  BY DEF Init, Carries, RowsExist, WantsStock, NoTx, Violates
<1>3. StockNeverNegative
  BY MaxStockAssumption DEF Init, StockNeverNegative
<1> QED
  BY <1>1, <1>2, <1>3 DEF IInv

-----------------------------------------------------------------------------
(* A request that ends: its transaction is closed. *)
LEMMA EndsInv ==
    ASSUME IInv, NEW r \in Request, NEW code \in Answer, Ends(r, code),
           UNCHANGED usage, spent' \subseteq spent \cup tx[r].rows
    PROVE  Carries' /\ RowsExist' /\ WantsStock'
           /\ pc' \in [Request -> Step] /\ tx' \in [Request -> Tx]
           /\ answer' \in [Request -> Answer] /\ spent' \subseteq UsageKey
<1> USE DEF IInv, Ends
<1>1. \A q \in Request \ {r} : pc'[q] = pc[q] /\ tx'[q] = tx[q]
  BY DEF TypeOK
<1>2. pc'[r] = "idle" /\ tx'[r] = NoTx
  BY DEF TypeOK
<1>3. Carries'
  <2>1. NoTx.kind = "none"
    BY DEF NoTx
  <2> QED
    BY <1>1, <1>2, <2>1 DEF Carries
<1>4. RowsExist'
  BY <1>1, <1>2 DEF RowsExist, NoTx
<1>5. WantsStock'
  BY <1>1, <1>2 DEF WantsStock, NoTx, Violates
<1>6. /\ pc' \in [Request -> Step] /\ tx' \in [Request -> Tx]
      /\ answer' \in [Request -> Answer]
  BY NoTxType DEF TypeOK, Step
<1>7. spent' \subseteq UsageKey
  BY DEF TypeOK, Tx
<1> QED
  BY <1>3, <1>4, <1>5, <1>6, <1>7

LEMMA ReplyInv ==
    ASSUME IInv, NEW r \in Request, NEW code \in Answer, Reply(r, code),
           UNCHANGED tables
    PROVE  IInv'
<1> USE DEF IInv, Reply, tables
<1>1. Carries' /\ RowsExist' /\ WantsStock'
      /\ pc' \in [Request -> Step] /\ tx' \in [Request -> Tx]
      /\ answer' \in [Request -> Answer] /\ spent' \subseteq UsageKey
  BY EndsInv
<1>2. TypeOK'
  BY <1>1 DEF TypeOK
<1>3. StockNeverNegative'
  BY DEF StockNeverNegative
<1> QED
  BY <1>1, <1>2, <1>3

(* A request that goes on with a transaction of its kind. *)
LEMMA GoInv ==
    ASSUME IInv, NEW r \in Request, NEW step \in Step \ {"idle"}, NEW t \in Tx,
           Go(r, step, t), UNCHANGED tables,
           t.kind \in May[r],
           step \in {"usage", "products", "specialist", "existing"} =>
              t.kind = "complete",
           t.kind \in {"complete", "cancel", "use"} => t.appt \in Appointment,
           \A u \in t.rows : usage[u] # Null /\ usage[u].appt = t.appt,
           t.kind # "complete" => ~Violates(t.want)
    PROVE  IInv'
<1> USE DEF IInv, Go, tables
<1>1. \A q \in Request \ {r} : pc'[q] = pc[q] /\ tx'[q] = tx[q]
  BY DEF TypeOK
<1>2. pc'[r] = step /\ tx'[r] = t
  BY DEF TypeOK
<1>3. TypeOK'
  BY DEF TypeOK, Answer
<1>4. Carries'
  BY <1>1, <1>2 DEF Carries
<1>5. RowsExist'
  BY <1>1, <1>2 DEF RowsExist
<1>6. WantsStock'
  BY <1>1, <1>2 DEF WantsStock, Violates
<1>7. StockNeverNegative'
  BY DEF StockNeverNegative
<1> QED
  BY <1>3, <1>4, <1>5, <1>6, <1>7

-----------------------------------------------------------------------------
(* One lemma per group of handlers. *)

LEMMA CompleteArriveInv ==
    ASSUME IInv, NEW r \in Request, CompleteArrive(r)
    PROVE  IInv'
<1>1. PICK a \in Appointment :
        IF Allows(status[a], "completed")
        THEN Go(r, "usage", [NoTx EXCEPT !.kind = "complete", !.appt = a])
        ELSE Reply(r, "refused")
  BY DEF CompleteArrive
<1>2. UNCHANGED tables /\ "complete" \in May[r]
  BY DEF CompleteArrive, Receives
<1> DEFINE t == [NoTx EXCEPT !.kind = "complete", !.appt = a]
<1>3. t \in Tx /\ t.kind = "complete" /\ t.appt = a /\ t.rows = {}
  <2>1. t \in Tx
    BY NoTxType DEF Tx, Kind
  <2> QED
    BY <2>1 DEF NoTx
<1>4. CASE Go(r, "usage", t)
  <2> HIDE DEF t
  <2> QED BY <1>2, <1>3, <1>4, GoInv DEF Step
<1>5. CASE Reply(r, "refused")
  BY <1>2, <1>5, ReplyInv DEF Answer
<1> QED
  BY <1>1, <1>4, <1>5

LEMMA ReadUsageInv ==
    ASSUME IInv, NEW r \in Request, ReadUsage(r)
    PROVE  IInv'
<1> DEFINE rows == UsageOf(tx[r].appt)
           t == [tx[r] EXCEPT !.rows = rows]
           step == IF rows = {} THEN "specialist" ELSE "products"
<1>1. pc[r] = "usage" /\ Go(r, step, t) /\ UNCHANGED tables
  BY DEF ReadUsage
<1>2. tx[r] \in Tx /\ tx[r].kind = "complete" /\ tx[r].kind \in May[r]
      /\ tx[r].appt \in Appointment
  BY <1>1 DEF IInv, TypeOK, Carries
<1>3. rows \in SUBSET UsageKey
      /\ \A u \in rows : usage[u] # Null /\ usage[u].appt = tx[r].appt
  BY DEF UsageOf
<1>4. t \in Tx /\ t.kind = tx[r].kind /\ t.appt = tx[r].appt /\ t.rows = rows
  BY <1>2, <1>3 DEF Tx
<1>5. step \in {"specialist", "products"}
  OBVIOUS
<1> QED
  <2> HIDE DEF rows, t, step
  <2> QED BY <1>1, <1>2, <1>3, <1>4, <1>5, GoInv DEF Step

LEMMA ReadProductsInv ==
    ASSUME IInv, NEW r \in Request, ReadProducts(r)
    PROVE  IInv'
<1> DEFINE rows == Counted(tx[r].rows)
           want == [p \in Product |->
                       IF p \in {usage[u].product : u \in rows}
                       THEN Remaining(rows, p) ELSE Null]
           read == [p \in Product |->
                       IF p \in {usage[u].product : u \in rows} THEN stock[p] ELSE Null]
           change == [p \in Product |-> 0 - Used(rows, p)]
           t == [tx[r] EXCEPT !.rows = rows, !.read = read, !.want = want, !.change = change]
<1>1. /\ pc[r] = "products" /\ UNCHANGED tables
      /\ Reply(r, "refused") \/ Go(r, "specialist", t)
  BY DEF ReadProducts
<1>2. /\ tx[r] \in Tx /\ tx[r].kind = "complete" /\ tx[r].kind \in May[r]
      /\ tx[r].appt \in Appointment
  BY <1>1 DEF IInv, TypeOK, Carries
<1>3. /\ rows \in SUBSET UsageKey
      /\ \A u \in rows : usage[u] # Null /\ usage[u].appt = tx[r].appt
  BY <1>2 DEF Counted, IInv, RowsExist, Tx
<1>4. \A p \in Product : Used(rows, p) \in Int
  <2> HIDE DEF rows
  <2> QED BY <1>3, UsedType DEF IInv
<1>5. /\ want \in [Product -> Int \cup {Null}] /\ change \in [Product -> Int]
      /\ read \in [Product -> Int \cup {Null}]
  <2>1. \A p \in Product : Remaining(rows, p) \in Int /\ stock[p] \in Int
    <3> HIDE DEF rows
    <3> QED BY <1>4 DEF Remaining, IInv, TypeOK
  <2> QED BY <1>4, <2>1
<1>6. t \in Tx /\ t.kind = tx[r].kind /\ t.appt = tx[r].appt /\ t.rows = rows
  <2> HIDE DEF rows, read, want, change
  <2> QED BY <1>2, <1>3, <1>5 DEF Tx
<1>7. CASE Reply(r, "refused")
  BY <1>1, <1>7, ReplyInv DEF Answer
<1>8. CASE Go(r, "specialist", t)
  <2> HIDE DEF rows, t
  <2> QED BY <1>1, <1>2, <1>3, <1>6, <1>8, GoInv DEF Step
<1> QED
  BY <1>1, <1>7, <1>8

(* The two reads that go on with the same quantities. *)
LEMMA ReadOnInv ==
    ASSUME IInv, NEW r \in Request, ReadSpecialist(r) \/ ReadCommissions(r)
    PROVE  IInv'
<1>1. /\ tx[r] \in Tx /\ tx[r].kind = "complete" /\ tx[r].kind \in May[r]
      /\ tx[r].appt \in Appointment
      /\ \A u \in tx[r].rows : usage[u] # Null /\ usage[u].appt = tx[r].appt
  BY DEF IInv, TypeOK, Carries, RowsExist, ReadSpecialist, ReadCommissions
<1>2. CASE ReadSpecialist(r)
  BY <1>1, <1>2, GoInv DEF ReadSpecialist, Step
<1>3. CASE ReadCommissions(r)
  <2> DEFINE t == [tx[r] EXCEPT !.pays = Unprocessed(tx[r].appt)]
  <2>1. t \in Tx /\ t.kind = tx[r].kind /\ t.appt = tx[r].appt /\ t.rows = tx[r].rows
    BY <1>1 DEF Tx, Unprocessed
  <2>2. Go(r, "commit", t) /\ UNCHANGED tables
    BY <1>3 DEF ReadCommissions
  <2> HIDE DEF t
  <2> QED BY <1>1, <2>1, <2>2, GoInv DEF Step
<1> QED
  BY <1>2, <1>3

LEMMA CancelArriveInv ==
    ASSUME IInv, NEW r \in Request, CancelArrive(r)
    PROVE  IInv'
<1>1. PICK a \in Appointment :
        IF Allows(status[a], "cancelled")
        THEN Go(r, "commit", [NoTx EXCEPT !.kind = "cancel", !.appt = a])
        ELSE Reply(r, "refused")
  BY DEF CancelArrive
<1>2. UNCHANGED tables /\ "cancel" \in May[r]
  BY DEF CancelArrive, Receives
<1> DEFINE t == [NoTx EXCEPT !.kind = "cancel", !.appt = a]
<1>3. t \in Tx /\ t.kind = "cancel" /\ t.appt = a /\ t.rows = {} /\ ~Violates(t.want)
  <2>1. t \in Tx
    BY NoTxType DEF Tx, Kind
  <2> QED
    BY <2>1 DEF NoTx, Violates
<1>4. CASE Go(r, "commit", t)
  <2> HIDE DEF t
  <2> QED BY <1>2, <1>3, <1>4, GoInv DEF Step
<1>5. CASE Reply(r, "refused")
  BY <1>2, <1>5, ReplyInv DEF Answer
<1> QED
  BY <1>1, <1>4, <1>5

LEMMA AdjustArriveInv ==
    ASSUME IInv, NEW r \in Request, AdjustArrive(r)
    PROVE  IInv'
<1>1. PICK p \in Product, delta \in Quantity \cup {0 - qty : qty \in Quantity} :
        IF p \in gone \/ stock[p] + delta < 0
        THEN Reply(r, "refused")
        ELSE Go(r, "commit",
                [NoTx EXCEPT !.kind = "adjust", !.read[p] = stock[p],
                             !.want[p] = stock[p] + delta, !.change[p] = delta])
  BY DEF AdjustArrive
<1>2. UNCHANGED tables /\ "adjust" \in May[r]
  BY DEF AdjustArrive, Receives
<1> DEFINE t == [NoTx EXCEPT !.kind = "adjust", !.read[p] = stock[p],
                             !.want[p] = stock[p] + delta, !.change[p] = delta]
<1>3. delta \in Int /\ stock[p] \in Int
  BY QuantityAssumption DEF IInv, TypeOK
<1>4. t \in Tx /\ t.kind = "adjust" /\ t.rows = {}
  <2> DEFINE w == [p1 \in Product |-> IF p1 = p THEN stock[p] + delta ELSE Null]
             c == [p1 \in Product |-> IF p1 = p THEN delta ELSE 0]
             d == [p1 \in Product |-> IF p1 = p THEN stock[p] ELSE Null]
  <2>1. /\ w \in [Product -> Int \cup {Null}] /\ c \in [Product -> Int]
        /\ d \in [Product -> Int \cup {Null}]
    BY <1>3
  <2>2. t = [NoTx EXCEPT !.kind = "adjust", !.read = d, !.want = w, !.change = c]
    BY DEF NoTx
  <2>3. t \in Tx
    <3> HIDE DEF w, c, d, t
    <3> QED BY <2>1, <2>2, NoTxType DEF Tx, Kind
  <2> QED
    BY <2>3 DEF NoTx
<1>5. CASE Go(r, "commit", t) /\ ~(stock[p] + delta < 0)
  <2>1. ~Violates(t.want)
    BY <1>5 DEF NoTx, Violates
  <2> HIDE DEF t
  <2> QED BY <1>2, <1>4, <1>5, <2>1, GoInv DEF Step
<1>6. CASE Reply(r, "refused")
  BY <1>2, <1>6, ReplyInv DEF Answer
<1> QED
  BY <1>1, <1>5, <1>6

LEMMA SetArriveInv ==
    ASSUME IInv, NEW r \in Request, SetArrive(r)
    PROVE  IInv'
<1>1. PICK p \in Product, qty \in Quantity \cup {0} :
        IF p \in gone
        THEN Reply(r, "refused")
        ELSE Go(r, "commit",
                [NoTx EXCEPT !.kind = "set", !.read[p] = stock[p],
                             !.want[p] = IF qty = stock[p] THEN Null ELSE qty])
  BY DEF SetArrive
<1>2. UNCHANGED tables /\ "set" \in May[r]
  BY DEF SetArrive, Receives
<1> DEFINE t == [NoTx EXCEPT !.kind = "set", !.read[p] = stock[p],
                             !.want[p] = IF qty = stock[p] THEN Null ELSE qty]
<1>3. qty \in Nat /\ stock[p] \in Int
  BY QuantityAssumption DEF IInv, TypeOK
<1>4. t \in Tx /\ t.kind = "set" /\ t.rows = {} /\ ~Violates(t.want)
  <2> DEFINE w == [p1 \in Product |-> IF p1 = p /\ qty # stock[p] THEN qty ELSE Null]
             d == [p1 \in Product |-> IF p1 = p THEN stock[p] ELSE Null]
  <2>1. w \in [Product -> Int \cup {Null}] /\ d \in [Product -> Int \cup {Null}]
    BY <1>3
  <2>2. t = [NoTx EXCEPT !.kind = "set", !.read = d, !.want = w]
    BY DEF NoTx
  <2>3. t \in Tx
    <3> HIDE DEF w, d, t
    <3> QED BY <2>1, <2>2, NoTxType DEF Tx, Kind
  <2> QED
    BY <2>3, <1>3 DEF NoTx, Violates
<1>5. CASE Go(r, "commit", t)
  <2> HIDE DEF t
  <2> QED BY <1>2, <1>4, <1>5, GoInv DEF Step
<1>6. CASE Reply(r, "refused")
  BY <1>2, <1>6, ReplyInv DEF Answer
<1> QED
  BY <1>1, <1>5, <1>6

LEMMA UseArriveInv ==
    ASSUME IInv, NEW r \in Request, UseArrive(r)
    PROVE  IInv'
<1>1. PICK a \in Appointment, p \in Product, qty \in Quantity :
        IF p \in gone
        THEN Reply(r, "refused")
        ELSE Go(r, "commit",
                [NoTx EXCEPT !.kind = "use", !.appt = a,
                    !.row = [appt |-> a, product |-> p, qty |-> qty, live |-> TRUE]])
  BY DEF UseArrive
<1>2. UNCHANGED tables /\ "use" \in May[r]
  BY DEF UseArrive, Receives
<1> DEFINE t == [NoTx EXCEPT !.kind = "use", !.appt = a,
                    !.row = [appt |-> a, product |-> p, qty |-> qty, live |-> TRUE]]
<1>3. t \in Tx /\ t.kind = "use" /\ t.appt = a /\ t.rows = {} /\ ~Violates(t.want)
  <2>1. t \in Tx
    BY NoTxType DEF Tx, Kind, UsageRow
  <2> QED
    BY <2>1 DEF NoTx, Violates
<1>4. CASE Go(r, "commit", t)
  <2> HIDE DEF t
  <2> QED BY <1>2, <1>3, <1>4, GoInv DEF Step
<1>5. CASE Reply(r, "refused")
  BY <1>2, <1>5, ReplyInv DEF Answer
<1> QED
  BY <1>1, <1>4, <1>5

-----------------------------------------------------------------------------
(* The quantities that a commit leaves behind are integers, and none of    *)
(* them is negative unless the constraint is violated.                     *)
LEMMA OverwrittenType ==
    ASSUME NEW old \in [Product -> Int], NEW want \in [Product -> Int \cup {Null}],
           ~Violates(want), \A p \in Product : old[p] >= 0
    PROVE  /\ Overwritten(old, want) \in [Product -> Int]
           /\ \A p \in Product : Overwritten(old, want)[p] >= 0
BY DEF Overwritten, Violates

LEMMA CommitStockInv ==
    ASSUME IInv, NEW r \in Request,
           CommitComplete(r) \/ CommitAdjust(r) \/ CommitSet(r)
    PROVE  IInv'
<1> USE DEF IInv
<1>1. tx[r] \in Tx /\ stock \in [Product -> Int] /\ ledger \in [Product -> Int]
  BY DEF TypeOK
<1>2. /\ tx[r].want \in [Product -> Int \cup {Null}]
      /\ tx[r].change \in [Product -> Int] /\ tx[r].rows \subseteq UsageKey
  BY <1>1 DEF Tx
<1>3. ~Violates(tx[r].want)
  BY DEF CommitComplete, CommitAdjust, CommitSet, WantsStock
<1>4. stock' = Overwritten(stock, tx[r].want)
  BY DEF CommitComplete, CommitAdjust, CommitSet, WriteStock
<1>5. stock' \in [Product -> Int] /\ StockNeverNegative'
  BY <1>1, <1>2, <1>3, <1>4, OverwrittenType DEF StockNeverNegative
<1>6. ledger' \in [Product -> Int]
  <2>1. CASE CommitSet(r)
    BY <1>1, <1>2, <2>1 DEF CommitSet, Overwritten
  <2>2. CASE CommitComplete(r) \/ CommitAdjust(r)
    BY <1>1, <1>2, <2>2 DEF CommitComplete, CommitAdjust, WriteStock
  <2> QED BY <2>1, <2>2
<1>7. /\ Ends(r, "done") /\ UNCHANGED <<gone, usage, specialist>>
      /\ spent' \subseteq spent \cup tx[r].rows
  BY DEF CommitComplete, CommitAdjust, CommitSet
<1>8. Carries' /\ RowsExist' /\ WantsStock'
      /\ pc' \in [Request -> Step] /\ tx' \in [Request -> Tx]
      /\ answer' \in [Request -> Answer] /\ spent' \subseteq UsageKey
  BY <1>7, EndsInv DEF Answer
<1>9. /\ status' \in [Appointment -> Status]
      /\ commissions' \in [Appointment -> Nat]
      /\ history' \in [Appointment -> Nat]
  <2>1. CASE CommitComplete(r)
    <3>1. "completed" \in Status /\ tx[r].pays \in BOOLEAN
      BY <1>1 DEF Status, Tx
    <3>2. status' \in [Appointment -> Status]
      BY <2>1, <3>1 DEF CommitComplete, TypeOK
    <3> DEFINE paid == IF tx[r].pays THEN 1 ELSE 0
               told == IF tx[r].appt \in HasClient THEN 1 ELSE 0
    <3>3. paid \in Nat /\ told \in Nat
      OBVIOUS
    <3>4. /\ commissions' = [commissions EXCEPT ![tx[r].appt] = @ + paid]
          /\ history' = [history EXCEPT ![tx[r].appt] = @ + told]
      BY <2>1 DEF CommitComplete
    <3>5. commissions' \in [Appointment -> Nat] /\ history' \in [Appointment -> Nat]
      <4>1. /\ tx[r].appt \in Appointment
            /\ commissions \in [Appointment -> Nat] /\ history \in [Appointment -> Nat]
        BY <2>1 DEF CommitComplete, TypeOK, Carries
      <4> HIDE DEF paid, told
      <4>2. commissions[tx[r].appt] + paid \in Nat /\ history[tx[r].appt] + told \in Nat
        BY <3>3, <4>1
      <4> QED BY <3>4, <4>1, <4>2
    <3> QED
      BY <3>2, <3>5
  <2>2. CASE CommitAdjust(r) \/ CommitSet(r)
    BY <2>2 DEF CommitAdjust, CommitSet, TypeOK
  <2> QED BY <2>1, <2>2
<1>10. TypeOK'
  BY <1>5, <1>6, <1>7, <1>8, <1>9 DEF TypeOK
<1> QED
  BY <1>5, <1>8, <1>10

LEMMA CommitCancelInv ==
    ASSUME IInv, NEW r \in Request, CommitCancel(r)
    PROVE  IInv'
<1> USE DEF IInv, CommitCancel, Reply
<1>1. Carries' /\ RowsExist' /\ WantsStock'
      /\ pc' \in [Request -> Step] /\ tx' \in [Request -> Tx]
      /\ answer' \in [Request -> Answer] /\ spent' \subseteq UsageKey
  BY EndsInv DEF Answer
<1>2. TypeOK'
  BY <1>1 DEF TypeOK, Status
<1>3. StockNeverNegative'
  BY DEF StockNeverNegative
<1> QED
  BY <1>1, <1>2, <1>3

LEMMA CommitUseInv ==
    ASSUME IInv, NEW r \in Request, CommitUse(r)
    PROVE  IInv'
<1> USE DEF IInv
<1>1. PICK u \in UsageKey : usage[u] = Null /\ usage' = [usage EXCEPT ![u] = tx[r].row]
  BY DEF CommitUse
<1>2. Reply(r, "done")
      /\ UNCHANGED <<status, stock, gone, specialist, commissions, history>>
  BY DEF CommitUse
<1>3. \A q \in Request \ {r} : pc'[q] = pc[q] /\ tx'[q] = tx[q]
  BY <1>2 DEF TypeOK, Reply, Ends
<1>4. pc'[r] = "idle" /\ tx'[r] = NoTx
  BY <1>2 DEF TypeOK, Reply, Ends
<1>5. TypeOK'
  <2>1. tx[r].row \in UsageRow \cup {Null}
    BY DEF TypeOK, Tx
  <2> QED BY <1>1, <1>2, <2>1, NoTxType DEF TypeOK, Reply, Ends, Step, Answer
<1>6. Carries' /\ WantsStock'
  <2>1. NoTx.kind = "none" /\ ~Violates(NoTx.want)
    BY DEF NoTx, Violates
  <2>2. \A q \in Request : tx'[q].want = tx[q].want \/ tx'[q] = NoTx
    BY <1>3, <1>4
  <2> QED
    BY <1>3, <1>4, <2>1 DEF Carries, WantsStock
<1>7. \A v \in UsageKey : usage[v] # Null => usage'[v] = usage[v]
  BY <1>1 DEF TypeOK
<1>8. RowsExist'
  <2>1. \A q \in Request : tx[q].rows \subseteq UsageKey
    BY DEF TypeOK, Tx
  <2>2. spent' = spent /\ spent \subseteq UsageKey
    BY <1>2 DEF TypeOK, Reply
  <2> QED BY <1>3, <1>4, <1>7, <2>1, <2>2 DEF RowsExist, NoTx
<1>9. StockNeverNegative'
  BY <1>2 DEF StockNeverNegative
<1> QED
  BY <1>5, <1>6, <1>8, <1>9

(* The short transactions of an administrator. *)
LEMMA AdministerInv ==
    ASSUME IInv, Administer
    PROVE  IInv'
<1> USE DEF IInv
<1>1. UNCHANGED <<pc, tx, answer, spent, stock, ledger, status, commissions, history>>
  BY DEF Administer, DeleteProduct, DeleteUsage, DeleteSpecialist
<1>2. usage' \in [UsageKey -> UsageRow \cup {Null}]
      /\ \A v \in UsageKey : usage[v] # Null =>
            usage'[v] # Null /\ usage'[v].appt = usage[v].appt
  <2>1. CASE \E u \in UsageKey : DeleteUsage(u)
    <3>1. PICK u \in UsageKey : DeleteUsage(u)
      BY <2>1
    <3>2. usage[u] \in UsageRow /\ usage' = [usage EXCEPT ![u].live = FALSE]
      BY <3>1 DEF DeleteUsage, TypeOK
    <3> DEFINE row == [usage[u] EXCEPT !.live = FALSE]
    <3>3. row \in UsageRow /\ row.appt = usage[u].appt
      BY <3>2 DEF UsageRow
    <3>4. Null \notin UsageRow
      BY NullAssumption
    <3> QED
      BY <3>2, <3>3, <3>4 DEF TypeOK
  <2>2. CASE UNCHANGED usage
    BY <2>2 DEF TypeOK
  <2> QED
    BY <2>1, <2>2 DEF Administer, DeleteProduct, DeleteSpecialist
<1>3. gone' \subseteq Product /\ specialist' \in BOOLEAN
  BY DEF Administer, DeleteProduct, DeleteUsage, DeleteSpecialist, TypeOK
<1>4. TypeOK'
  BY <1>1, <1>2, <1>3 DEF TypeOK
<1>5. Carries' /\ WantsStock' /\ StockNeverNegative'
  BY <1>1 DEF Carries, WantsStock, StockNeverNegative
<1>6. RowsExist'
  BY <1>1, <1>2 DEF RowsExist, TypeOK, Tx
<1> QED
  BY <1>4, <1>5, <1>6

-----------------------------------------------------------------------------
LEMMA StepInv == IInv /\ [Next]_vars => IInv'
<1> SUFFICES ASSUME IInv, [Next]_vars PROVE IInv'
  OBVIOUS
<1>1. ASSUME NEW r \in Request, Complete(r) PROVE IInv'
  BY <1>1, CompleteArriveInv, ReadUsageInv, ReadProductsInv, ReadOnInv, CommitStockInv
     DEF Complete
<1>2. ASSUME NEW r \in Request,
             CancelArrive(r) \/ AdjustArrive(r) \/ SetArrive(r) \/ UseArrive(r)
      PROVE  IInv'
  BY <1>2, CancelArriveInv, AdjustArriveInv, SetArriveInv, UseArriveInv
<1>3. ASSUME NEW r \in Request,
             CommitCancel(r) \/ CommitAdjust(r) \/ CommitSet(r) \/ CommitUse(r)
      PROVE  IInv'
  BY <1>3, CommitCancelInv, CommitStockInv, CommitUseInv
<1>4. ASSUME NEW r \in Request, CommitFails(r) \/ Abort(r) PROVE IInv'
  BY <1>4, ReplyInv DEF CommitFails, Abort, Answer
<1>5. CASE Administer
  BY <1>5, AdministerInv
<1>6. CASE UNCHANGED vars
  BY <1>6 DEF IInv, vars, tables, TypeOK, Carries, RowsExist, WantsStock, Violates,
              StockNeverNegative
<1> QED
  BY <1>1, <1>2, <1>3, <1>4, <1>5, <1>6 DEF Next

LEMMA SpecInv == Spec => []IInv
BY InitInv, StepInv, PTL DEF Spec

(* Types, for every value of the constants. *)
THEOREM TypeCorrect == Spec => []TypeOK
<1>1. IInv => TypeOK
  BY DEF IInv
<1> QED
  BY <1>1, SpecInv, PTL

(* The stock is never negative: a completion that would make it so fails   *)
(* at the constraint, every other request has looked before (_deduct_stock, *)
(* adjust_stock, update_product).                                          *)
THEOREM NeverNegative == Spec => []StockNeverNegative
<1>1. IInv => StockNeverNegative
  BY DEF IInv
<1> QED
  BY <1>1, SpecInv, PTL

-----------------------------------------------------------------------------
(* What a transaction writes is what it has read and the change it means.  *)
Meant(t) ==
    \A p \in Product :
        IF t.want[p] = Null THEN t.change[p] = 0
        ELSE t.read[p] \in Int /\ t.want[p] = t.read[p] + t.change[p]

WantsWhatIsMeant == \A r \in Request : tx[r].kind \in {"complete", "adjust"} => Meant(tx[r])

IMeant == IInv /\ WantsWhatIsMeant

LEMMA NoTxMeant == Meant(NoTx) /\ NoTx.kind = "none"
BY DEF NoTx, Meant

LEMMA GoMeant ==
    ASSUME IMeant, NEW r \in Request, NEW step, NEW t, Go(r, step, t),
           t.kind \in {"complete", "adjust"} => Meant(t)
    PROVE  WantsWhatIsMeant'
BY DEF Go, IMeant, IInv, TypeOK, WantsWhatIsMeant, Meant

LEMMA EndsMeant ==
    ASSUME IMeant, NEW r \in Request, NEW code, Ends(r, code)
    PROVE  WantsWhatIsMeant'
BY NoTxMeant DEF Ends, IMeant, IInv, TypeOK, WantsWhatIsMeant, Meant

(* What was counted is what is subtracted. *)
LEMMA ReadProductsMeant ==
    ASSUME IMeant, NEW r \in Request, ReadProducts(r)
    PROVE  WantsWhatIsMeant'
<1> DEFINE rows == Counted(tx[r].rows)
           used == {usage[u].product : u \in rows}
           want == [p \in Product |-> IF p \in used THEN Remaining(rows, p) ELSE Null]
           read == [p \in Product |-> IF p \in used THEN stock[p] ELSE Null]
           change == [p \in Product |-> 0 - Used(rows, p)]
           t == [tx[r] EXCEPT !.rows = rows, !.read = read, !.want = want, !.change = change]
<1>1. Reply(r, "refused") \/ Go(r, "specialist", t)
  BY DEF ReadProducts
<1>2. tx[r] \in Tx /\ rows \in SUBSET UsageKey /\ \A u \in rows : usage[u] # Null
  BY DEF IMeant, IInv, TypeOK, RowsExist, Counted, Tx
<1>3. \A p \in Product :
        /\ Used(rows, p) \in Nat
        /\ (\A u \in rows : usage[u].product # p) => Used(rows, p) = 0
  <2> HIDE DEF rows
  <2> QED BY <1>2, UsedType DEF IMeant, IInv
<1>4. t.want = want /\ t.change = change /\ t.read = read
  <2> HIDE DEF rows, read, want, change
  <2> QED BY <1>2 DEF Tx
<1>5. Meant(t)
  <2> SUFFICES ASSUME NEW p \in Product
               PROVE  IF want[p] = Null THEN change[p] = 0
                      ELSE read[p] \in Int /\ want[p] = read[p] + change[p]
    <3> HIDE DEF read, want, change, t
    <3> QED BY <1>4 DEF Meant
  <2>1. Used(rows, p) \in Int /\ stock[p] \in Int
    BY <1>3 DEF IMeant, IInv, TypeOK
  <2>2. CASE p \in used
    <3>1. /\ want[p] = stock[p] - Used(rows, p) /\ change[p] = 0 - Used(rows, p)
          /\ read[p] = stock[p]
      BY <2>2 DEF Remaining
    <3> HIDE DEF rows, read, want, change
    <3> QED
      BY <2>1, <3>1, NullAssumption
  <2>3. CASE p \notin used
    <3>1. Used(rows, p) = 0
      <4>1. \A u \in rows : usage[u].product # p
        BY <2>3
      <4> QED
        BY <1>3, <4>1
    <3>2. want[p] = Null /\ change[p] = 0 - Used(rows, p)
      BY <2>3
    <3> QED
      BY <3>1, <3>2
  <2> QED
    BY <2>2, <2>3
<1> QED
  <2> HIDE DEF t
  <2> QED BY <1>1, <1>5, GoMeant, EndsMeant DEF Reply

LEMMA AdjustArriveMeant ==
    ASSUME IMeant, NEW r \in Request, AdjustArrive(r)
    PROVE  WantsWhatIsMeant'
<1>1. PICK p \in Product, delta \in Quantity \cup {0 - qty : qty \in Quantity} :
        IF p \in gone \/ stock[p] + delta < 0
        THEN Reply(r, "refused")
        ELSE Go(r, "commit",
                [NoTx EXCEPT !.kind = "adjust", !.read[p] = stock[p],
                             !.want[p] = stock[p] + delta, !.change[p] = delta])
  BY DEF AdjustArrive
<1> DEFINE t == [NoTx EXCEPT !.kind = "adjust", !.read[p] = stock[p],
                             !.want[p] = stock[p] + delta, !.change[p] = delta]
<1>2. delta \in Int /\ stock[p] \in Int
  BY QuantityAssumption DEF IMeant, IInv, TypeOK
<1>3. Meant(t)
  BY <1>2, NullAssumption DEF NoTx, Meant
<1>4. Go(r, "commit", t) \/ Reply(r, "refused")
  BY <1>1
<1> QED
  <2> HIDE DEF t
  <2> QED BY <1>3, <1>4, GoMeant, EndsMeant DEF Reply

(* The other arrivals: a transaction that writes no stock yet, or whatever *)
(* the caller says.                                                        *)
LEMMA ArriveMeant ==
    ASSUME IMeant, NEW r \in Request,
           CompleteArrive(r) \/ CancelArrive(r) \/ SetArrive(r) \/ UseArrive(r)
    PROVE  WantsWhatIsMeant'
<1>1. ASSUME NEW code, Reply(r, code) PROVE WantsWhatIsMeant'
  BY <1>1, EndsMeant DEF Reply
<1>2. CASE CompleteArrive(r)
  <2>1. PICK a \in Appointment :
          \/ Go(r, "usage", [NoTx EXCEPT !.kind = "complete", !.appt = a])
          \/ Reply(r, "refused")
    BY <1>2 DEF CompleteArrive
  <2>2. Meant([NoTx EXCEPT !.kind = "complete", !.appt = a])
    BY DEF Meant, NoTx
  <2> QED
    BY <1>1, <2>1, <2>2, GoMeant
<1>3. CASE CancelArrive(r)
  <2>1. PICK a \in Appointment :
          \/ Go(r, "commit", [NoTx EXCEPT !.kind = "cancel", !.appt = a])
          \/ Reply(r, "refused")
    BY <1>3 DEF CancelArrive
  <2>2. [NoTx EXCEPT !.kind = "cancel", !.appt = a].kind = "cancel"
    BY DEF NoTx
  <2> QED
    BY <1>1, <2>1, <2>2, GoMeant
<1>4. CASE SetArrive(r)
  <2>1. PICK p \in Product, qty \in Quantity \cup {0} :
          \/ Go(r, "commit",
                [NoTx EXCEPT !.kind = "set", !.read[p] = stock[p],
                             !.want[p] = IF qty = stock[p] THEN Null ELSE qty])
          \/ Reply(r, "refused")
    BY <1>4 DEF SetArrive
  <2> DEFINE t == [NoTx EXCEPT !.kind = "set", !.read[p] = stock[p],
                               !.want[p] = IF qty = stock[p] THEN Null ELSE qty]
  <2>2. t.kind = "set"
    BY DEF NoTx
  <2>3. Go(r, "commit", t) \/ Reply(r, "refused")
    BY <2>1
  <2> HIDE DEF t
  <2> QED
    BY <1>1, <2>2, <2>3, GoMeant
<1>5. CASE UseArrive(r)
  <2>1. PICK a, row :
          \/ Go(r, "commit", [NoTx EXCEPT !.kind = "use", !.appt = a, !.row = row])
          \/ Reply(r, "refused")
    BY <1>5 DEF UseArrive
  <2>2. [NoTx EXCEPT !.kind = "use", !.appt = a, !.row = row].kind = "use"
    BY DEF NoTx
  <2> QED
    BY <1>1, <2>1, <2>2, GoMeant
<1> QED
  BY <1>2, <1>3, <1>4, <1>5

LEMMA StepMeant == IMeant /\ [Next]_vars => IMeant'
<1> SUFFICES ASSUME IMeant, [Next]_vars PROVE WantsWhatIsMeant'
  BY StepInv DEF IMeant
<1>1. ASSUME NEW r \in Request, ReadUsage(r) \/ ReadSpecialist(r) \/ ReadCommissions(r)
      PROVE  WantsWhatIsMeant'
  <2>1. tx[r] \in Tx /\ Meant(tx[r])
    BY <1>1 DEF ReadUsage, ReadSpecialist, ReadCommissions, IMeant, IInv, Carries,
                WantsWhatIsMeant, TypeOK
  <2>2. PICK step, t : Go(r, step, t) /\ t \in {tx[r], [tx[r] EXCEPT !.rows = t.rows],
                                               [tx[r] EXCEPT !.pays = t.pays]}
    <3>1. CASE ReadUsage(r)
      <4> DEFINE t == [tx[r] EXCEPT !.rows = UsageOf(tx[r].appt)]
      <4>1. PICK step : Go(r, step, t)
        BY <3>1 DEF ReadUsage
      <4>2. t = [tx[r] EXCEPT !.rows = t.rows]
        BY <2>1 DEF Tx
      <4> QED
        BY <4>1, <4>2
    <3>2. CASE ReadSpecialist(r)
      BY <3>2 DEF ReadSpecialist
    <3>3. CASE ReadCommissions(r)
      <4> DEFINE t == [tx[r] EXCEPT !.pays = Unprocessed(tx[r].appt)]
      <4>1. Go(r, "commit", t)
        BY <3>3 DEF ReadCommissions
      <4>2. t = [tx[r] EXCEPT !.pays = t.pays]
        BY <2>1 DEF Tx
      <4> QED
        BY <4>1, <4>2
    <3> QED
      BY <1>1, <3>1, <3>2, <3>3
  <2>3. t.read = tx[r].read /\ t.want = tx[r].want /\ t.change = tx[r].change
    BY <2>1, <2>2 DEF Tx
  <2>4. Meant(t)
    BY <2>1, <2>3 DEF Meant
  <2> QED
    BY <2>2, <2>4, GoMeant
<1>2. ASSUME NEW r \in Request,
             \/ CommitComplete(r) \/ CommitCancel(r) \/ CommitAdjust(r) \/ CommitSet(r)
             \/ CommitUse(r) \/ CommitFails(r) \/ Abort(r)
      PROVE  WantsWhatIsMeant'
  <2>1. PICK code : Ends(r, code)
    BY <1>2 DEF CommitComplete, CommitCancel, CommitAdjust, CommitSet, CommitUse,
                CommitFails, Abort, Reply
  <2> QED
    BY <2>1, EndsMeant
<1>3. CASE UNCHANGED tx
  BY <1>3 DEF IMeant, WantsWhatIsMeant, Meant
<1>4. Administer \/ UNCHANGED vars => UNCHANGED tx
  BY DEF Administer, DeleteProduct, DeleteUsage, DeleteSpecialist, vars
<1> QED
  BY <1>1, <1>2, <1>3, <1>4, ArriveMeant, ReadProductsMeant, AdjustArriveMeant
     DEF Next, Complete

LEMMA SpecMeant == Spec => []IMeant
<1>1. Init => IMeant
  BY InitInv, NoTxMeant DEF Init, IMeant, WantsWhatIsMeant
<1> QED
  BY <1>1, StepMeant, PTL DEF Spec

(* Who writes stock, or the books about it. *)
WritesStock(r) == CommitComplete(r) \/ CommitAdjust(r) \/ CommitSet(r)

LEMMA StockWriters ==
    ASSUME [Next]_vars, ~\E r \in Request : WritesStock(r)
    PROVE  UNCHANGED <<stock, ledger>>
<1> DEFINE Same == UNCHANGED <<stock, ledger>>
<1>1. ASSUME NEW r \in Request, NEW step, NEW t, Go(r, step, t)
      PROVE  UNCHANGED ledger
  BY <1>1 DEF Go
<1>2. ASSUME NEW r \in Request, NEW code, Reply(r, code)
      PROVE  UNCHANGED ledger
  BY <1>2 DEF Reply
<1>3. UNCHANGED tables => UNCHANGED stock
  BY DEF tables
<1>4. ASSUME NEW r \in Request,
             \/ CompleteArrive(r) \/ ReadUsage(r) \/ ReadProducts(r)
             \/ ReadSpecialist(r) \/ ReadCommissions(r)
      PROVE  Same
  BY <1>1, <1>2, <1>3, <1>4
     DEF CompleteArrive, ReadUsage, ReadProducts, ReadSpecialist, ReadCommissions
<1>5. ASSUME NEW r \in Request,
             CancelArrive(r) \/ AdjustArrive(r) \/ SetArrive(r) \/ UseArrive(r)
      PROVE  Same
  BY <1>1, <1>2, <1>3, <1>5 DEF CancelArrive, AdjustArrive, SetArrive, UseArrive
<1>6. ASSUME NEW r \in Request, CommitCancel(r) \/ CommitFails(r) \/ Abort(r)
      PROVE  Same
  BY <1>2, <1>3, <1>6 DEF CommitCancel, CommitFails, Abort
<1>7. ASSUME NEW r \in Request, CommitUse(r)
      PROVE  Same
  BY <1>2, <1>7 DEF CommitUse
<1>8. CASE Administer
  BY <1>8 DEF Administer, DeleteProduct, DeleteUsage, DeleteSpecialist
<1>9. CASE UNCHANGED vars
  BY <1>9 DEF vars, tables
<1> QED
  BY <1>4, <1>5, <1>6, <1>7, <1>8, <1>9 DEF Next, Complete, WritesStock

(* What a commit makes of the stock and of the books. *)
LEMMA Writing ==
    ASSUME IMeant, NEW r \in Request, WritesStock(r), NEW p \in Product
    PROVE  /\ tx[r].read[p] \in Int \cup {Null} /\ tx[r].change[p] \in Int
           /\ stock[p] \in Int /\ ledger[p] \in Int
           /\ pc[r] = "commit" /\ pc'[r] = "idle"
           /\ \/ stock'[p] = stock[p] /\ ledger'[p] = ledger[p]
              \/ stock'[p] = ledger'[p] /\ tx[r].kind = "set"
              \/ /\ tx[r].read[p] \in Int /\ tx[r].kind \in {"complete", "adjust"}
                 /\ stock'[p] = tx[r].read[p] + tx[r].change[p]
                 /\ ledger'[p] = ledger[p] + tx[r].change[p]
<1> USE DEF IMeant, IInv
<1>1. tx[r] \in Tx /\ stock \in [Product -> Int] /\ ledger \in [Product -> Int]
  BY DEF TypeOK
<1>2. /\ tx[r].want \in [Product -> Int \cup {Null}] /\ tx[r].change \in [Product -> Int]
      /\ tx[r].read \in [Product -> Int \cup {Null}]
  BY <1>1 DEF Tx
<1>3. pc[r] = "commit" /\ pc'[r] = "idle"
  BY DEF WritesStock, CommitComplete, CommitAdjust, CommitSet, Ends, TypeOK
<1>4. CASE CommitSet(r)
  <2>1. /\ stock' = Overwritten(stock, tx[r].want) /\ ledger' = Overwritten(ledger, tx[r].want)
        /\ tx[r].kind = "set"
    BY <1>4 DEF CommitSet
  <2> QED
    BY <1>1, <1>2, <1>3, <2>1 DEF Overwritten
<1>5. CASE CommitComplete(r) \/ CommitAdjust(r)
  <2>1. Meant(tx[r]) /\ tx[r].kind \in {"complete", "adjust"}
    BY <1>5 DEF WantsWhatIsMeant, CommitComplete, CommitAdjust
  <2>2. /\ stock' = Overwritten(stock, tx[r].want)
        /\ ledger' = [q \in Product |-> ledger[q] + tx[r].change[q]]
    BY <1>5 DEF CommitComplete, CommitAdjust, WriteStock
  <2> QED
    BY <1>1, <1>2, <1>3, <2>1, <2>2 DEF Overwritten, Meant
<1> QED
  BY <1>4, <1>5 DEF WritesStock

(* Stock is lost by stale writes only, whatever runs side by side          *)
(* (_deduct_stock, adjust_stock, update_product).                          *)
THEOREM OnlyStaleLose == Spec => OnlyStaleWritesLose
<1> DEFINE Loses ==
      \A p \in Product :
         stock[p] = ledger[p] /\ stock'[p] # ledger'[p] =>
            \E r \in Request :
               /\ pc[r] = "commit" /\ pc'[r] = "idle"
               /\ tx[r].read[p] \notin {stock[p], Null}
<1>1. IMeant /\ [Next]_vars => [Loses]_vars
  <2> SUFFICES ASSUME IMeant, [Next]_vars, NEW p \in Product,
                      stock[p] = ledger[p], stock'[p] # ledger'[p]
               PROVE  \E r \in Request :
                         /\ pc[r] = "commit" /\ pc'[r] = "idle"
                         /\ tx[r].read[p] \notin {stock[p], Null}
    OBVIOUS
  <2>1. PICK r \in Request : WritesStock(r)
    BY StockWriters
  <2>2. /\ tx[r].read[p] \in Int /\ tx[r].change[p] \in Int
        /\ stock[p] \in Int /\ ledger[p] \in Int
        /\ pc[r] = "commit" /\ pc'[r] = "idle"
        /\ stock'[p] = tx[r].read[p] + tx[r].change[p]
        /\ ledger'[p] = ledger[p] + tx[r].change[p]
    BY <2>1, Writing
  <2>3. tx[r].read[p] # stock[p]
    BY <2>2
  <2>4. tx[r].read[p] # Null
    BY <2>2, NullAssumption
  <2> QED
    BY <2>2, <2>3, <2>4
<1> QED
  BY <1>1, SpecMeant, PTL DEF Spec, OnlyStaleWritesLose

-----------------------------------------------------------------------------
(* Nobody adjusts or sets stock. *)
NobodyRestocks == \A r \in Request : May[r] \cap {"adjust", "set"} = {}

(* What a completion has read was not too little, and it only deducts.     *)
Enough(t) ==
    \A p \in Product :
        /\ t.change[p] <= 0
        /\ t.read[p] # Null => t.read[p] >= ledger[p]

ReadsEnough == \A r \in Request : tx[r].kind = "complete" => Enough(tx[r])

IEnough == IMeant /\ ReadsEnough /\ StockNotUnderstated

LEMMA NoTxEnough == Enough(NoTx)
BY DEF Enough, NoTx

(* A step that leaves stock and books alone. *)
LEMMA KeepsEnough ==
    ASSUME IEnough, UNCHANGED <<stock, ledger>>,
           \A r \in Request : \/ tx'[r] = tx[r]
                              \/ tx'[r].kind = "complete" => Enough(tx'[r])
    PROVE  ReadsEnough' /\ StockNotUnderstated'
BY DEF IEnough, ReadsEnough, StockNotUnderstated, Enough

LEMMA GoEnough ==
    ASSUME IEnough, NEW r \in Request, NEW step, NEW t, Go(r, step, t), UNCHANGED stock,
           t.kind = "complete" => Enough(t)
    PROVE  ReadsEnough' /\ StockNotUnderstated'
<1>1. /\ UNCHANGED ledger /\ tx'[r] = t
      /\ \A q \in Request \ {r} : tx'[q] = tx[q]
  BY DEF Go, IEnough, IMeant, IInv, TypeOK
<1> QED
  BY <1>1, KeepsEnough

LEMMA ReplyEnough ==
    ASSUME IEnough, NEW r \in Request, NEW code, Reply(r, code), UNCHANGED stock
    PROVE  ReadsEnough' /\ StockNotUnderstated'
<1>1. /\ UNCHANGED ledger /\ tx'[r] = NoTx
      /\ \A q \in Request \ {r} : tx'[q] = tx[q]
  BY DEF Reply, Ends, IEnough, IMeant, IInv, TypeOK
<1> QED
  BY <1>1, NoTxEnough, KeepsEnough

LEMMA ReadProductsEnough ==
    ASSUME IEnough, NEW r \in Request, ReadProducts(r)
    PROVE  ReadsEnough' /\ StockNotUnderstated'
<1> DEFINE rows == Counted(tx[r].rows)
           used == {usage[u].product : u \in rows}
           want == [p \in Product |-> IF p \in used THEN Remaining(rows, p) ELSE Null]
           read == [p \in Product |-> IF p \in used THEN stock[p] ELSE Null]
           change == [p \in Product |-> 0 - Used(rows, p)]
           t == [tx[r] EXCEPT !.rows = rows, !.read = read, !.want = want, !.change = change]
<1> USE DEF IEnough, IMeant, IInv
<1>1. (Reply(r, "refused") \/ Go(r, "specialist", t)) /\ UNCHANGED stock
  BY DEF ReadProducts, tables
<1>2. tx[r] \in Tx /\ rows \in SUBSET UsageKey /\ \A u \in rows : usage[u] # Null
  BY DEF TypeOK, RowsExist, Counted, Tx
<1>3. \A p \in Product : Used(rows, p) \in Nat
  <2> HIDE DEF rows
  <2> QED BY <1>2, UsedType
<1>4. t.change = change /\ t.read = read
  <2> HIDE DEF rows, read, want, change
  <2> QED BY <1>2 DEF Tx
<1>5. \A p \in Product : change[p] <= 0 /\ (read[p] # Null => read[p] >= ledger[p])
  <2> HIDE DEF rows, used
  <2> QED BY <1>3 DEF StockNotUnderstated
<1>6. Enough(t)
  <2> HIDE DEF rows, read, want, change, t
  <2> QED BY <1>4, <1>5 DEF Enough
<1> QED
  <2> HIDE DEF t
  <2> QED BY <1>1, <1>6, GoEnough, ReplyEnough

(* The reads that go on with the same quantities. *)
LEMMA ReadOnEnough ==
    ASSUME IEnough, NEW r \in Request,
           ReadUsage(r) \/ ReadSpecialist(r) \/ ReadCommissions(r)
    PROVE  ReadsEnough' /\ StockNotUnderstated'
<1>1. tx[r] \in Tx /\ Enough(tx[r])
  BY DEF ReadUsage, ReadSpecialist, ReadCommissions, IEnough, IMeant, IInv, Carries,
         ReadsEnough, TypeOK
<1>2. /\ UNCHANGED <<stock, ledger>>
      /\ tx'[r].read = tx[r].read /\ tx'[r].change = tx[r].change
      /\ \A q \in Request \ {r} : tx'[q] = tx[q]
  BY <1>1 DEF ReadUsage, ReadSpecialist, ReadCommissions, Go, tables,
              IEnough, IMeant, IInv, TypeOK, Tx
<1>3. Enough(tx'[r])
  BY <1>1, <1>2 DEF Enough
<1> QED
  BY <1>2, <1>3, KeepsEnough

(* Of two completions that read the same stock, the later commit leaves    *)
(* what only it has deducted from it.                                      *)
LEMMA CommitEnough ==
    ASSUME IEnough, NobodyRestocks, NEW r \in Request, WritesStock(r)
    PROVE  ReadsEnough' /\ StockNotUnderstated'
<1> USE DEF IEnough
<1>1. /\ tx'[r] = NoTx /\ \A q \in Request \ {r} : tx'[q] = tx[q]
      /\ tx[r].kind \in May[r] /\ pc[r] # "idle"
  BY DEF WritesStock, CommitComplete, CommitAdjust, CommitSet, Ends, IMeant, IInv, TypeOK,
         Carries
<1>2. tx[r].kind = "complete" /\ Enough(tx[r])
  BY <1>1 DEF NobodyRestocks, WritesStock, CommitComplete, CommitAdjust, CommitSet,
              ReadsEnough
<1>3. ASSUME NEW p \in Product
      PROVE  ledger'[p] <= ledger[p] /\ stock'[p] >= ledger'[p]
             /\ ledger[p] \in Int /\ ledger'[p] \in Int
  <2>1. /\ tx[r].read[p] \in Int \cup {Null} /\ tx[r].change[p] \in Int
        /\ stock[p] \in Int /\ ledger[p] \in Int
        /\ \/ stock'[p] = stock[p] /\ ledger'[p] = ledger[p]
           \/ /\ tx[r].read[p] \in Int
              /\ stock'[p] = tx[r].read[p] + tx[r].change[p]
              /\ ledger'[p] = ledger[p] + tx[r].change[p]
    BY <1>2, Writing
  <2>2. tx[r].change[p] <= 0 /\ (tx[r].read[p] # Null => tx[r].read[p] >= ledger[p])
    BY <1>2 DEF Enough
  <2>3. stock[p] >= ledger[p]
    BY DEF StockNotUnderstated
  <2>4. tx[r].read[p] \in Int => tx[r].read[p] # Null
    BY NullAssumption
  <2> QED
    BY <2>1, <2>2, <2>3, <2>4
<1>4. ReadsEnough'
  <2> SUFFICES ASSUME NEW q \in Request, tx'[q].kind = "complete", NEW p \in Product
               PROVE  /\ tx'[q].change[p] <= 0
                      /\ tx'[q].read[p] # Null => tx'[q].read[p] >= ledger'[p]
    BY DEF ReadsEnough, Enough
  <2>1. q # r
    BY <1>1, NoTxMeant
  <2>2. tx'[q] = tx[q] /\ tx[q] \in Tx /\ Enough(tx[q])
    BY <1>1, <2>1 DEF ReadsEnough, IMeant, IInv, TypeOK
  <2>3. tx[q].read[p] \in Int \cup {Null}
    BY <2>2 DEF Tx
  <2> QED
    BY <1>3, <2>2, <2>3 DEF Enough
<1>5. StockNotUnderstated'
  BY <1>3 DEF StockNotUnderstated
<1> QED
  BY <1>4, <1>5

LEMMA StepEnough == NobodyRestocks /\ IEnough /\ [Next]_vars => IEnough'
<1> SUFFICES ASSUME NobodyRestocks, IEnough, [Next]_vars
             PROVE  ReadsEnough' /\ StockNotUnderstated'
  BY StepMeant DEF IEnough
<1>1. ASSUME NEW r \in Request, CompleteArrive(r)
      PROVE  ReadsEnough' /\ StockNotUnderstated'
  <2>1. PICK a \in Appointment :
          \/ Go(r, "usage", [NoTx EXCEPT !.kind = "complete", !.appt = a])
          \/ Reply(r, "refused")
    BY <1>1 DEF CompleteArrive
  <2>2. Enough([NoTx EXCEPT !.kind = "complete", !.appt = a])
    BY DEF Enough, NoTx
  <2> QED
    BY <1>1, <2>1, <2>2, GoEnough, ReplyEnough DEF CompleteArrive, tables
<1>2. ASSUME NEW r \in Request, CancelArrive(r)
      PROVE  ReadsEnough' /\ StockNotUnderstated'
  <2>1. PICK a \in Appointment :
          \/ Go(r, "commit", [NoTx EXCEPT !.kind = "cancel", !.appt = a])
          \/ Reply(r, "refused")
    BY <1>2 DEF CancelArrive
  <2>2. [NoTx EXCEPT !.kind = "cancel", !.appt = a].kind = "cancel"
    BY DEF NoTx
  <2> QED
    BY <1>2, <2>1, <2>2, GoEnough, ReplyEnough DEF CancelArrive, tables
<1>3. ASSUME NEW r \in Request, UseArrive(r)
      PROVE  ReadsEnough' /\ StockNotUnderstated'
  <2>1. PICK a, row :
          \/ Go(r, "commit", [NoTx EXCEPT !.kind = "use", !.appt = a, !.row = row])
          \/ Reply(r, "refused")
    BY <1>3 DEF UseArrive
  <2>2. [NoTx EXCEPT !.kind = "use", !.appt = a, !.row = row].kind = "use"
    BY DEF NoTx
  <2> QED
    BY <1>3, <2>1, <2>2, GoEnough, ReplyEnough DEF UseArrive, tables
<1>4. ASSUME NEW r \in Request PROVE ~AdjustArrive(r) /\ ~SetArrive(r)
  BY DEF NobodyRestocks, AdjustArrive, SetArrive, Receives
<1>5. ASSUME NEW r \in Request,
             CommitCancel(r) \/ CommitUse(r) \/ CommitFails(r) \/ Abort(r)
      PROVE  ReadsEnough' /\ StockNotUnderstated'
  BY <1>5, ReplyEnough DEF CommitCancel, CommitUse, CommitFails, Abort, tables
<1>6. CASE UNCHANGED <<stock, ledger, tx>>
  BY <1>6, KeepsEnough
<1>7. Administer \/ UNCHANGED vars => UNCHANGED <<stock, ledger, tx>>
  BY DEF Administer, DeleteProduct, DeleteUsage, DeleteSpecialist, vars, tables
<1> QED
  BY <1>1, <1>2, <1>3, <1>4, <1>5, <1>6, <1>7, ReadProductsEnough, ReadOnEnough,
     CommitEnough DEF Next, Complete, WritesStock

(* Where nobody adjusts or sets stock, any number of completions side by   *)
(* side never deduct more than they have acknowledged (_deduct_stock).     *)
THEOREM NotUnderstated == NobodyRestocks => (Spec => []StockNotUnderstated)
<1> SUFFICES ASSUME NobodyRestocks PROVE Spec => []StockNotUnderstated
  OBVIOUS
<1>1. Init => IEnough
  <2>1. Init => ReadsEnough /\ StockNotUnderstated
    BY NoTxMeant, MaxStockAssumption DEF Init, ReadsEnough, StockNotUnderstated
  <2>2. Init => IMeant
    BY InitInv, NoTxMeant DEF Init, IMeant, WantsWhatIsMeant
  <2> QED
    BY <2>1, <2>2 DEF IEnough
<1>2. IEnough /\ [Next]_vars => IEnough'
  BY StepEnough
<1>3. IEnough => StockNotUnderstated
  BY DEF IEnough
<1> QED
  BY <1>1, <1>2, <1>3, PTL DEF Spec

-----------------------------------------------------------------------------
(* A completion about to be committed pays, unless there is nobody to pay  *)
(* or it was paid already.                                                 *)
PaysOrPaid ==
    \A r \in Request :
        pc[r] = "commit" /\ tx[r].kind = "complete" =>
            (specialist => tx[r].pays \/ commissions[tx[r].appt] > 0)

IHalves == IInv /\ PaysOrPaid /\ NeverByHalves

(* Whatever leaves the books of appointments alone. *)
LEMMA KeepsHalves ==
    ASSUME IHalves, UNCHANGED <<status, commissions, history, spent>>,
           specialist' => specialist,
           \A u \in UsageKey : usage[u] # Null => usage'[u].appt = usage[u].appt,
           \A r \in Request :
              \/ tx'[r] = tx[r] /\ pc'[r] = pc[r]
              \/ pc'[r] # "commit" \/ tx'[r].kind # "complete"
              \/ specialist => tx'[r].pays \/ commissions[tx'[r].appt] > 0
    PROVE  PaysOrPaid' /\ NeverByHalves'
<1>1. PaysOrPaid'
  BY DEF IHalves, PaysOrPaid
<1>2. \A u \in spent : usage'[u].appt = usage[u].appt
  BY DEF IHalves, IInv, RowsExist, TypeOK
<1>3. NeverByHalves'
  BY <1>2 DEF IHalves, NeverByHalves
<1> QED
  BY <1>1, <1>3

LEMMA EndsHalves ==
    ASSUME IHalves, NEW r \in Request, NEW code, Ends(r, code),
           UNCHANGED <<status, commissions, history, spent, specialist>>,
           \A u \in UsageKey : usage[u] # Null => usage'[u].appt = usage[u].appt
    PROVE  PaysOrPaid' /\ NeverByHalves'
<1>1. /\ pc'[r] = "idle"
      /\ \A q \in Request \ {r} : tx'[q] = tx[q] /\ pc'[q] = pc[q]
  BY DEF Ends, IHalves, IInv, TypeOK
<1> QED
  BY <1>1, KeepsHalves

(* The steps before a commit. *)
LEMMA GoHalves ==
    ASSUME IHalves, NEW r \in Request, NEW step, NEW t, Go(r, step, t), UNCHANGED tables,
           \/ step # "commit" \/ t.kind # "complete"
           \/ specialist => t.pays \/ commissions[t.appt] > 0
    PROVE  PaysOrPaid' /\ NeverByHalves'
<1>1. /\ tx'[r] = t /\ pc'[r] = step
      /\ \A q \in Request \ {r} : tx'[q] = tx[q] /\ pc'[q] = pc[q]
  BY DEF Go, IHalves, IInv, TypeOK
<1>2. UNCHANGED <<status, commissions, history, spent, specialist, usage>>
  BY DEF Go, tables
<1> QED
  BY <1>1, <1>2, KeepsHalves

LEMMA ArriveHalves ==
    ASSUME IHalves, NEW r \in Request,
           \/ CompleteArrive(r) \/ CancelArrive(r)
           \/ AdjustArrive(r) \/ SetArrive(r) \/ UseArrive(r)
    PROVE  PaysOrPaid' /\ NeverByHalves'
<1>1. UNCHANGED tables
  BY DEF CompleteArrive, CancelArrive, AdjustArrive, SetArrive, UseArrive
<1>2. ASSUME NEW code, Reply(r, code) PROVE PaysOrPaid' /\ NeverByHalves'
  BY <1>1, <1>2, EndsHalves DEF Reply, tables
<1>3. CASE CompleteArrive(r)
  <2>1. PICK t : Go(r, "usage", t) \/ Reply(r, "refused")
    BY <1>3 DEF CompleteArrive
  <2> QED
    BY <1>1, <1>2, <2>1, GoHalves
<1>4. CASE ~CompleteArrive(r)
  <2>1. PICK t : (Go(r, "commit", t) /\ t.kind # "complete") \/ Reply(r, "refused")
    <3>1. CASE CancelArrive(r)
      <4>1. PICK a \in Appointment :
              \/ Go(r, "commit", [NoTx EXCEPT !.kind = "cancel", !.appt = a])
              \/ Reply(r, "refused")
        BY <3>1 DEF CancelArrive
      <4>2. [NoTx EXCEPT !.kind = "cancel", !.appt = a].kind = "cancel"
        BY DEF NoTx
      <4> QED
        BY <4>1, <4>2
    <3>2. CASE AdjustArrive(r)
      <4>1. PICK p \in Product, delta \in Quantity \cup {0 - qty : qty \in Quantity} :
              \/ Go(r, "commit",
                    [NoTx EXCEPT !.kind = "adjust", !.read[p] = stock[p],
                                 !.want[p] = stock[p] + delta, !.change[p] = delta])
              \/ Reply(r, "refused")
        BY <3>2 DEF AdjustArrive
      <4>2. [NoTx EXCEPT !.kind = "adjust", !.read[p] = stock[p],
                         !.want[p] = stock[p] + delta, !.change[p] = delta].kind = "adjust"
        BY DEF NoTx
      <4> QED
        BY <4>1, <4>2
    <3>3. CASE SetArrive(r)
      <4>1. PICK p \in Product, qty \in Quantity \cup {0} :
              \/ Go(r, "commit",
                    [NoTx EXCEPT !.kind = "set", !.read[p] = stock[p],
                                 !.want[p] = IF qty = stock[p] THEN Null ELSE qty])
              \/ Reply(r, "refused")
        BY <3>3 DEF SetArrive
      <4>2. [NoTx EXCEPT !.kind = "set", !.read[p] = stock[p],
                         !.want[p] = IF qty = stock[p] THEN Null ELSE qty].kind = "set"
        BY DEF NoTx
      <4> QED
        BY <4>1, <4>2
    <3>4. CASE UseArrive(r)
      <4>1. PICK a, row :
              \/ Go(r, "commit", [NoTx EXCEPT !.kind = "use", !.appt = a, !.row = row])
              \/ Reply(r, "refused")
        BY <3>4 DEF UseArrive
      <4>2. [NoTx EXCEPT !.kind = "use", !.appt = a, !.row = row].kind = "use"
        BY DEF NoTx
      <4> QED
        BY <4>1, <4>2
    <3> QED
      BY <1>4, <3>1, <3>2, <3>3, <3>4
  <2> QED
    BY <1>1, <1>2, <2>1, GoHalves
<1> QED
  BY <1>3, <1>4

LEMMA ReadHalves ==
    ASSUME IHalves, NEW r \in Request,
           ReadUsage(r) \/ ReadProducts(r) \/ ReadSpecialist(r) \/ ReadCommissions(r)
    PROVE  PaysOrPaid' /\ NeverByHalves'
<1>1. UNCHANGED tables
  BY DEF ReadUsage, ReadProducts, ReadSpecialist, ReadCommissions
<1>2. /\ tx[r] \in Tx /\ tx[r].appt \in Appointment
      /\ commissions \in [Appointment -> Nat]
  BY DEF ReadUsage, ReadProducts, ReadSpecialist, ReadCommissions,
         IHalves, IInv, TypeOK, Carries
<1>3. CASE ReadUsage(r) \/ ReadProducts(r)
  <2>1. PICK step, t : (Go(r, step, t) /\ step # "commit") \/ Reply(r, "refused")
    BY <1>3 DEF ReadUsage, ReadProducts
  <2> QED
    BY <1>1, <2>1, GoHalves, EndsHalves DEF Reply, tables
<1>4. CASE ReadSpecialist(r)
  BY <1>1, <1>4, GoHalves DEF ReadSpecialist
<1>5. CASE ReadCommissions(r)
  <2> DEFINE t == [tx[r] EXCEPT !.pays = Unprocessed(tx[r].appt)]
  <2>1. Go(r, "commit", t)
    BY <1>5 DEF ReadCommissions
  <2>2. t.appt = tx[r].appt /\ t.pays = Unprocessed(tx[r].appt)
    BY <1>2 DEF Tx
  <2>3. Unprocessed(tx[r].appt) \/ commissions[tx[r].appt] > 0
    BY <1>2 DEF Unprocessed
  <2> HIDE DEF t
  <2> QED
    BY <1>1, <2>1, <2>2, <2>3, GoHalves
<1> QED
  BY <1>3, <1>4, <1>5

(* A completion stores everything at once; a cancellation beside it leaves *)
(* what is stored.                                                         *)
LEMMA CommitHalves ==
    ASSUME IHalves, NEW r \in Request, CommitComplete(r) \/ CommitCancel(r)
    PROVE  PaysOrPaid' /\ NeverByHalves'
<1> USE DEF IHalves, IInv
<1> DEFINE a == tx[r].appt
<1>1. /\ pc'[r] = "idle"
      /\ \A q \in Request \ {r} : tx'[q] = tx[q] /\ pc'[q] = pc[q]
      /\ UNCHANGED <<usage, specialist>>
      /\ a \in Appointment /\ tx[r] \in Tx
  BY DEF CommitComplete, CommitCancel, Reply, Ends, TypeOK, Carries
<1>2. /\ status \in [Appointment -> Status] /\ commissions \in [Appointment -> Nat]
      /\ history \in [Appointment -> Nat]
  BY DEF TypeOK
<1>3. \A u \in tx[r].rows : usage[u].appt = a
  BY DEF RowsExist
<1>4. /\ \A b \in Appointment \ {a} :
            status'[b] = status[b] /\ commissions'[b] = commissions[b]
            /\ history'[b] = history[b]
      /\ \A b \in Appointment : commissions'[b] >= commissions[b]
      /\ status'[a] \in {"completed", "cancelled"}
  <2>1. CASE CommitComplete(r)
    <3> DEFINE paid == IF tx[r].pays THEN 1 ELSE 0
               told == IF a \in HasClient THEN 1 ELSE 0
    <3>1. /\ commissions' = [commissions EXCEPT ![a] = @ + paid]
          /\ history' = [history EXCEPT ![a] = @ + told]
          /\ status' = [status EXCEPT ![a] = "completed"]
      BY <2>1 DEF CommitComplete
    <3>2. paid \in Nat /\ told \in Nat
      OBVIOUS
    <3> HIDE DEF paid, told, a
    <3> QED
      BY <1>1, <1>2, <3>1, <3>2
  <2>2. CASE CommitCancel(r)
    BY <1>1, <1>2, <2>2 DEF CommitCancel
  <2> QED
    BY <2>1, <2>2
<1>5. PaysOrPaid'
  <2> SUFFICES ASSUME NEW q \in Request, pc'[q] = "commit", tx'[q].kind = "complete",
                      specialist'
               PROVE  tx'[q].pays \/ commissions'[tx'[q].appt] > 0
    BY DEF PaysOrPaid
  <2>1. q # r
    BY <1>1
  <2>2. /\ pc[q] = "commit" /\ tx[q].kind = "complete" /\ specialist /\ tx'[q] = tx[q]
        /\ tx[q].appt \in Appointment
    BY <1>1, <2>1 DEF Carries
  <2>3. tx[q].pays \/ commissions[tx[q].appt] > 0
    BY <2>2 DEF PaysOrPaid
  <2>4. commissions[tx[q].appt] \in Nat /\ commissions'[tx[q].appt] \in Nat
    BY <1>2, <2>2, StepInv, CommitStockInv, CommitCancelInv DEF TypeOK
  <2> QED
    BY <1>4, <2>2, <2>3, <2>4
<1>6. CASE CommitComplete(r)
  <2>1. /\ history'[a] = history[a] + (IF a \in HasClient THEN 1 ELSE 0)
        /\ commissions'[a] = commissions[a] + (IF tx[r].pays THEN 1 ELSE 0)
        /\ spent' = spent \cup tx[r].rows
    BY <1>1, <1>2, <1>6 DEF CommitComplete
  <2>2. specialist => tx[r].pays \/ commissions[a] > 0
    BY <1>6 DEF CommitComplete, PaysOrPaid
  <2>3. commissions[a] \in Nat /\ history[a] \in Nat
    BY <1>1, <1>2
  <2>4. /\ a \in HasClient => history'[a] > 0
        /\ specialist => commissions'[a] > 0
    BY <2>1, <2>2, <2>3
  <2> HIDE DEF a
  <2>5. ASSUME NEW b \in Appointment \ {a}, \E u \in spent' : usage'[u].appt = b
        PROVE  \E u \in spent : usage[u].appt = b
    BY <1>1, <1>3, <2>1, <2>5
  <2>6. NeverByHalves'
    BY <1>1, <1>4, <2>4, <2>5 DEF NeverByHalves
  <2> QED
    BY <1>5, <2>6
<1>7. CASE CommitCancel(r)
  <2>1. UNCHANGED <<history, commissions, spent>>
    BY <1>7 DEF CommitCancel, Reply
  <2>2. status[a] = "completed" =>
          (a \in HasClient => history[a] > 0) /\ (specialist => commissions[a] > 0)
    BY <1>1 DEF NeverByHalves
  <2>3. status'[a] = "cancelled"
    BY <1>1, <1>2, <1>7 DEF CommitCancel
  <2> HIDE DEF a
  <2>4. NeverByHalves'
    BY <1>1, <1>4, <2>1, <2>2, <2>3 DEF NeverByHalves
  <2> QED
    BY <1>5, <2>4
<1> QED
  BY <1>6, <1>7

(* What leaves usage rows with their appointments. *)
LEMMA UsageStays ==
    ASSUME IInv, (\E r \in Request : CommitUse(r)) \/ Administer
    PROVE  \A v \in UsageKey : usage[v] # Null => usage'[v].appt = usage[v].appt
<1>1. ASSUME NEW r \in Request, CommitUse(r)
      PROVE  \A v \in UsageKey : usage[v] # Null => usage'[v].appt = usage[v].appt
  <2>1. PICK u \in UsageKey : usage[u] = Null /\ usage' = [usage EXCEPT ![u] = tx[r].row]
    BY <1>1 DEF CommitUse
  <2> QED
    BY <2>1 DEF IInv, TypeOK
<1>2. ASSUME NEW u \in UsageKey, DeleteUsage(u)
      PROVE  \A v \in UsageKey : usage[v] # Null => usage'[v].appt = usage[v].appt
  BY <1>2 DEF DeleteUsage, IInv, TypeOK, UsageRow
<1>3. CASE UNCHANGED usage
  BY <1>3
<1> QED
  BY <1>1, <1>2, <1>3 DEF Administer, DeleteProduct, DeleteSpecialist

LEMMA StepHalves == IHalves /\ [Next]_vars => IHalves'
<1> SUFFICES ASSUME IHalves, [Next]_vars PROVE PaysOrPaid' /\ NeverByHalves'
  BY StepInv DEF IHalves
<1>1. ASSUME NEW r \in Request,
             CommitAdjust(r) \/ CommitSet(r) \/ CommitFails(r) \/ Abort(r)
      PROVE  PaysOrPaid' /\ NeverByHalves'
  <2>1. PICK code : Ends(r, code)
    BY <1>1 DEF CommitAdjust, CommitSet, CommitFails, Abort, Reply
  <2>2. UNCHANGED <<status, commissions, history, spent, specialist, usage>>
    BY <1>1 DEF CommitAdjust, CommitSet, CommitFails, Abort, Reply, tables
  <2> QED
    BY <2>1, <2>2, EndsHalves
<1>2. ASSUME NEW r \in Request, CommitUse(r)
      PROVE  PaysOrPaid' /\ NeverByHalves'
  <2>1. Ends(r, "done") /\ UNCHANGED <<status, commissions, history, spent, specialist>>
    BY <1>2 DEF CommitUse, Reply
  <2> QED
    BY <1>2, <2>1, UsageStays, EndsHalves DEF IHalves
<1>3. CASE Administer
  <2>1. UNCHANGED <<status, commissions, history, spent, tx, pc>> /\ (specialist' => specialist)
    BY <1>3 DEF Administer, DeleteProduct, DeleteUsage, DeleteSpecialist
  <2> QED
    BY <1>3, <2>1, UsageStays, KeepsHalves DEF IHalves
<1>4. CASE UNCHANGED vars
  BY <1>4 DEF vars, tables, IHalves, PaysOrPaid, NeverByHalves
<1> QED
  BY <1>1, <1>2, <1>3, <1>4, ArriveHalves, ReadHalves, CommitHalves DEF Next, Complete

(* However many requests complete, cancel, use and delete side by side, no *)
(* part of a completion is stored without the others (_deduct_stock,       *)
(* _generate_commissions, _write_service_history, one commit).             *)
THEOREM NotByHalves == Spec => []NeverByHalves
<1>1. Init => IHalves
  <2>1. Init => PaysOrPaid /\ NeverByHalves
    BY DEF Init, PaysOrPaid, NeverByHalves
  <2> QED
    BY <2>1, InitInv DEF IHalves
<1>2. IHalves => NeverByHalves
  BY DEF IHalves
<1> QED
  BY <1>1, <1>2, StepHalves, PTL DEF Spec

-----------------------------------------------------------------------------
(* At most one of the requests is of any of these kinds.                   *)
AloneOn(kinds) ==
    \A q, r \in Request :
        (May[q] \cap kinds # {} /\ May[r] \cap kinds # {}) => q = r

StatusKinds == {"complete", "cancel"}

(* The status that was judged still holds, and a completion about to be    *)
(* committed pays as long as there is somebody to pay.                     *)
Judged ==
    \A r \in Request :
        /\ tx[r].kind \in StatusKinds => status[tx[r].appt] # "completed"
        /\ pc[r] = "commit" /\ tx[r].kind = "complete" => (specialist => tx[r].pays)

IWhole == IInv /\ Judged /\ CompletionIsWhole

(* Whatever leaves statuses and what was written of them alone, and keeps  *)
(* each usage row with its appointment.                                    *)
LEMMA KeepsWhole ==
    ASSUME IWhole, UNCHANGED <<status, commissions, history, spent>>,
           specialist' => specialist,
           \A u \in UsageKey : usage[u] # Null => usage'[u].appt = usage[u].appt,
           \A r \in Request :
              \/ tx'[r] = tx[r] /\ pc'[r] = pc[r]
              \/ tx'[r].kind \notin StatusKinds
              \/ /\ status[tx'[r].appt] # "completed"
                 /\ pc'[r] = "commit" /\ tx'[r].kind = "complete" => (specialist => tx'[r].pays)
    PROVE  Judged' /\ CompletionIsWhole'
<1>1. Judged'
  BY DEF IWhole, Judged, StatusKinds
<1>2. \A u \in spent : usage'[u].appt = usage[u].appt
  BY DEF IWhole, IInv, RowsExist, TypeOK
<1>3. CompletionIsWhole'
  BY <1>2 DEF IWhole, CompletionIsWhole
<1> QED
  BY <1>1, <1>3

LEMMA GoWhole ==
    ASSUME IWhole, NEW r \in Request, NEW step, NEW t, Go(r, step, t), UNCHANGED tables,
           t.kind \in StatusKinds =>
              /\ status[t.appt] # "completed"
              /\ step = "commit" /\ t.kind = "complete" => (specialist => t.pays)
    PROVE  Judged' /\ CompletionIsWhole'
<1>1. /\ tx'[r] = t /\ pc'[r] = step
      /\ \A q \in Request \ {r} : tx'[q] = tx[q] /\ pc'[q] = pc[q]
  BY DEF Go, IWhole, IInv, TypeOK
<1>2. UNCHANGED <<status, commissions, history, spent, specialist, usage>>
  BY DEF Go, tables
<1> QED
  BY <1>1, <1>2, KeepsWhole

LEMMA EndsWhole ==
    ASSUME IWhole, NEW r \in Request, NEW code, Ends(r, code),
           UNCHANGED <<status, commissions, history, spent, specialist>>,
           \A u \in UsageKey : usage[u] # Null => usage'[u].appt = usage[u].appt
    PROVE  Judged' /\ CompletionIsWhole'
<1>1. /\ tx'[r] = NoTx
      /\ \A q \in Request \ {r} : tx'[q] = tx[q] /\ pc'[q] = pc[q]
  BY DEF Ends, IWhole, IInv, TypeOK
<1>2. tx'[r].kind \notin StatusKinds
  BY <1>1, NoTxMeant DEF StatusKinds
<1> QED
  BY <1>1, <1>2, KeepsWhole

(* The arrivals: what is judged is what the row says now, and a completed  *)
(* appointment allows nothing more.                                        *)
LEMMA ArriveWhole ==
    ASSUME IWhole, NEW r \in Request,
           \/ CompleteArrive(r) \/ CancelArrive(r)
           \/ AdjustArrive(r) \/ SetArrive(r) \/ UseArrive(r)
    PROVE  Judged' /\ CompletionIsWhole'
<1>1. UNCHANGED tables
  BY DEF CompleteArrive, CancelArrive, AdjustArrive, SetArrive, UseArrive
<1>2. ASSUME NEW code, Reply(r, code) PROVE Judged' /\ CompletionIsWhole'
  BY <1>1, <1>2, EndsWhole DEF Reply, tables
<1>3. ASSUME NEW new \in {"completed", "cancelled"}, NEW a \in Appointment,
             Allows(status[a], new)
      PROVE  status[a] # "completed"
  BY <1>3 DEF Allows, LegalTransitions
<1>4. CASE CompleteArrive(r)
  <2>1. PICK a \in Appointment :
          IF Allows(status[a], "completed")
          THEN Go(r, "usage", [NoTx EXCEPT !.kind = "complete", !.appt = a])
          ELSE Reply(r, "refused")
    BY <1>4 DEF CompleteArrive
  <2> DEFINE t == [NoTx EXCEPT !.kind = "complete", !.appt = a]
  <2>2. t.appt = a
    BY DEF NoTx
  <2>3. (Go(r, "usage", t) /\ Allows(status[a], "completed")) \/ Reply(r, "refused")
    BY <2>1
  <2> HIDE DEF t
  <2> QED
    BY <1>1, <1>2, <1>3, <2>2, <2>3, GoWhole
<1>5. CASE CancelArrive(r)
  <2>1. PICK a \in Appointment :
          IF Allows(status[a], "cancelled")
          THEN Go(r, "commit", [NoTx EXCEPT !.kind = "cancel", !.appt = a])
          ELSE Reply(r, "refused")
    BY <1>5 DEF CancelArrive
  <2> DEFINE t == [NoTx EXCEPT !.kind = "cancel", !.appt = a]
  <2>2. t.appt = a /\ t.kind = "cancel"
    BY DEF NoTx
  <2>3. (Go(r, "commit", t) /\ Allows(status[a], "cancelled")) \/ Reply(r, "refused")
    BY <2>1
  <2> HIDE DEF t
  <2> QED
    BY <1>1, <1>2, <1>3, <2>2, <2>3, GoWhole
<1>6. CASE AdjustArrive(r)
  <2>1. PICK p \in Product, delta \in Quantity \cup {0 - qty : qty \in Quantity} :
          \/ Go(r, "commit",
                [NoTx EXCEPT !.kind = "adjust", !.read[p] = stock[p],
                             !.want[p] = stock[p] + delta, !.change[p] = delta])
          \/ Reply(r, "refused")
    BY <1>6 DEF AdjustArrive
  <2> DEFINE t == [NoTx EXCEPT !.kind = "adjust", !.read[p] = stock[p],
                               !.want[p] = stock[p] + delta, !.change[p] = delta]
  <2>2. t.kind \notin StatusKinds
    BY DEF NoTx, StatusKinds
  <2>3. Go(r, "commit", t) \/ Reply(r, "refused")
    BY <2>1
  <2> HIDE DEF t
  <2> QED
    BY <1>1, <1>2, <2>2, <2>3, GoWhole
<1>7. CASE SetArrive(r)
  <2>1. PICK p \in Product, qty \in Quantity \cup {0} :
          \/ Go(r, "commit",
                [NoTx EXCEPT !.kind = "set", !.read[p] = stock[p],
                             !.want[p] = IF qty = stock[p] THEN Null ELSE qty])
          \/ Reply(r, "refused")
    BY <1>7 DEF SetArrive
  <2> DEFINE t == [NoTx EXCEPT !.kind = "set", !.read[p] = stock[p],
                               !.want[p] = IF qty = stock[p] THEN Null ELSE qty]
  <2>2. t.kind \notin StatusKinds
    BY DEF NoTx, StatusKinds
  <2>3. Go(r, "commit", t) \/ Reply(r, "refused")
    BY <2>1
  <2> HIDE DEF t
  <2> QED
    BY <1>1, <1>2, <2>2, <2>3, GoWhole
<1>8. CASE UseArrive(r)
  <2>1. PICK a \in Appointment, p \in Product, qty \in Quantity :
          \/ Go(r, "commit", [NoTx EXCEPT !.kind = "use", !.appt = a,
                      !.row = [appt |-> a, product |-> p, qty |-> qty, live |-> TRUE]])
          \/ Reply(r, "refused")
    BY <1>8 DEF UseArrive
  <2> DEFINE t == [NoTx EXCEPT !.kind = "use", !.appt = a,
                      !.row = [appt |-> a, product |-> p, qty |-> qty, live |-> TRUE]]
  <2>2. t.kind \notin StatusKinds
    BY DEF NoTx, StatusKinds
  <2>3. Go(r, "commit", t) \/ Reply(r, "refused")
    BY <2>1
  <2> HIDE DEF t
  <2> QED
    BY <1>1, <1>2, <2>2, <2>3, GoWhole
<1> QED
  BY <1>4, <1>5, <1>6, <1>7, <1>8

(* The reads of the pipeline: a specialist that is there is paid.          *)
LEMMA ReadWhole ==
    ASSUME IWhole, NEW r \in Request,
           ReadUsage(r) \/ ReadProducts(r) \/ ReadSpecialist(r) \/ ReadCommissions(r)
    PROVE  Judged' /\ CompletionIsWhole'
<1>1. UNCHANGED tables
  BY DEF ReadUsage, ReadProducts, ReadSpecialist, ReadCommissions
<1>2. /\ tx[r] \in Tx /\ tx[r].kind = "complete" /\ tx[r].appt \in Appointment
      /\ status[tx[r].appt] # "completed"
  BY DEF ReadUsage, ReadProducts, ReadSpecialist, ReadCommissions,
         IWhole, IInv, TypeOK, Carries, Judged, StatusKinds
<1>3. CASE ReadUsage(r)
  <2> DEFINE rows == UsageOf(tx[r].appt)
             t == [tx[r] EXCEPT !.rows = rows]
             step == IF rows = {} THEN "specialist" ELSE "products"
  <2>1. Go(r, step, t) /\ step # "commit"
    BY <1>3 DEF ReadUsage
  <2>2. t.appt = tx[r].appt
    BY <1>2 DEF Tx
  <2> HIDE DEF t, step
  <2> QED
    BY <1>1, <1>2, <2>1, <2>2, GoWhole
<1>4. CASE ReadProducts(r)
  <2> DEFINE rows == Counted(tx[r].rows)
             want == [p \in Product |->
                         IF p \in {usage[u].product : u \in rows}
                         THEN Remaining(rows, p) ELSE Null]
             read == [p \in Product |->
                         IF p \in {usage[u].product : u \in rows} THEN stock[p] ELSE Null]
             change == [p \in Product |-> 0 - Used(rows, p)]
             t == [tx[r] EXCEPT !.rows = rows, !.read = read, !.want = want,
                                !.change = change]
  <2>1. Go(r, "specialist", t) \/ Reply(r, "refused")
    BY <1>4 DEF ReadProducts
  <2>2. t.appt = tx[r].appt
    BY <1>2 DEF Tx
  <2> HIDE DEF t
  <2> QED
    BY <1>1, <1>2, <2>1, <2>2, GoWhole, EndsWhole DEF Reply, tables
<1>5. CASE ReadSpecialist(r)
  BY <1>1, <1>2, <1>5, GoWhole DEF ReadSpecialist
<1>6. CASE ReadCommissions(r)
  <2> DEFINE t == [tx[r] EXCEPT !.pays = Unprocessed(tx[r].appt)]
  <2>1. Go(r, "commit", t)
    BY <1>6 DEF ReadCommissions
  <2>2. Unprocessed(tx[r].appt)
    BY <1>2 DEF IWhole, CompletionIsWhole, Unprocessed
  <2>3. t.appt = tx[r].appt /\ t.pays
    BY <1>2, <2>2 DEF Tx
  <2> HIDE DEF t
  <2> QED
    BY <1>1, <1>2, <2>1, <2>3, GoWhole
<1> QED
  BY <1>3, <1>4, <1>5, <1>6

(* The one that changes statuses commits: everything of a completion is    *)
(* there, and nothing of a cancellation.                                   *)
LEMMA CommitWhole ==
    ASSUME IWhole, AloneOn(StatusKinds), NEW r \in Request,
           CommitComplete(r) \/ CommitCancel(r)
    PROVE  Judged' /\ CompletionIsWhole'
<1> USE DEF IWhole, IInv
<1>1. /\ tx'[r] = NoTx
      /\ \A q \in Request \ {r} : tx'[q] = tx[q] /\ pc'[q] = pc[q]
      /\ pc[r] = "commit" /\ tx[r].kind \in StatusKinds
  BY DEF CommitComplete, CommitCancel, Reply, Ends, TypeOK, StatusKinds
<1>2. tx[r].kind \in May[r] /\ tx[r].appt \in Appointment
  BY <1>1 DEF Carries, StatusKinds
<1>3. \A q \in Request \ {r} : tx[q].kind \notin StatusKinds
  <2> SUFFICES ASSUME NEW q \in Request \ {r}, tx[q].kind \in StatusKinds PROVE FALSE
    OBVIOUS
  <2>1. pc[q] # "idle"
    BY NoTxMeant DEF Carries, StatusKinds
  <2>2. tx[q].kind \in May[q]
    BY <2>1 DEF Carries
  <2> QED
    BY <1>1, <1>2, <2>2 DEF AloneOn
<1>4. Judged'
  <2> SUFFICES ASSUME NEW q \in Request PROVE tx'[q].kind \notin StatusKinds
    BY DEF Judged, StatusKinds
  <2> QED
    BY <1>1, <1>3, NoTxMeant DEF StatusKinds
<1> DEFINE a == tx[r].appt
<1>5. status[a] # "completed" /\ history[a] = 0 /\ commissions[a] = 0
  BY <1>1, <1>2 DEF Judged, CompletionIsWhole
<1>6. /\ status' \in [Appointment -> Status]
      /\ \A b \in Appointment \ {a} :
            status'[b] = status[b] /\ commissions'[b] = commissions[b]
            /\ history'[b] = history[b]
      /\ UNCHANGED <<usage, specialist>>
  BY StepInv DEF CommitComplete, CommitCancel, TypeOK, Status
<1>7. \A u \in tx[r].rows : usage[u].appt = a
  BY DEF RowsExist
<1>8. CASE CommitComplete(r)
  <2>1. /\ status'[a] = "completed"
        /\ history'[a] = (IF a \in HasClient THEN 1 ELSE 0)
        /\ commissions'[a] = (IF tx[r].pays THEN 1 ELSE 0)
        /\ spent' = spent \cup tx[r].rows
    <3>1. /\ status'[a] = "completed"
          /\ history'[a] = history[a] + (IF a \in HasClient THEN 1 ELSE 0)
          /\ commissions'[a] = commissions[a] + (IF tx[r].pays THEN 1 ELSE 0)
          /\ spent' = spent \cup tx[r].rows
      BY <1>2, <1>8 DEF CommitComplete, TypeOK
    <3> QED
      BY <1>5, <3>1
  <2>2. specialist => tx[r].pays
    BY <1>8 DEF CommitComplete, Judged
  <2> HIDE DEF a
  <2> QED
    BY <1>4, <1>6, <1>7, <2>1, <2>2 DEF CompletionIsWhole
<1>9. CASE CommitCancel(r)
  <2>1. /\ status'[a] = "cancelled"
        /\ UNCHANGED <<history, commissions, spent>>
    BY <1>2, <1>9 DEF CommitCancel, Reply, TypeOK
  <2> HIDE DEF a
  <2> QED
    BY <1>4, <1>5, <1>6, <2>1 DEF CompletionIsWhole
<1> QED
  BY <1>8, <1>9

LEMMA StepWhole == AloneOn(StatusKinds) /\ IWhole /\ [Next]_vars => IWhole'
<1> SUFFICES ASSUME AloneOn(StatusKinds), IWhole, [Next]_vars
             PROVE  Judged' /\ CompletionIsWhole'
  BY StepInv DEF IWhole
<1>1. ASSUME NEW r \in Request,
             CommitAdjust(r) \/ CommitSet(r) \/ CommitFails(r) \/ Abort(r)
      PROVE  Judged' /\ CompletionIsWhole'
  <2>1. PICK code : Ends(r, code)
    BY <1>1 DEF CommitAdjust, CommitSet, CommitFails, Abort, Reply
  <2>2. UNCHANGED <<status, commissions, history, spent, specialist, usage>>
    BY <1>1 DEF CommitAdjust, CommitSet, CommitFails, Abort, Reply, tables
  <2> QED
    BY <2>1, <2>2, EndsWhole
<1>2. ASSUME NEW r \in Request, CommitUse(r)
      PROVE  Judged' /\ CompletionIsWhole'
  <2>1. PICK u \in UsageKey : usage[u] = Null /\ usage' = [usage EXCEPT ![u] = tx[r].row]
    BY <1>2 DEF CommitUse
  <2>2. \A v \in UsageKey : usage[v] # Null => usage'[v] = usage[v]
    BY <2>1 DEF IWhole, IInv, TypeOK
  <2>3. /\ Ends(r, "done")
        /\ UNCHANGED <<status, commissions, history, spent, specialist>>
    BY <1>2 DEF CommitUse, Reply
  <2> QED
    BY <2>2, <2>3, EndsWhole
<1>3. CASE Administer
  <2>1. UNCHANGED <<status, commissions, history, spent, tx, pc>>
    BY <1>3 DEF Administer, DeleteProduct, DeleteUsage, DeleteSpecialist
  <2>2. specialist' => specialist
    BY <1>3 DEF Administer, DeleteProduct, DeleteUsage, DeleteSpecialist
  <2>3. \A v \in UsageKey : usage[v] # Null => usage'[v].appt = usage[v].appt
    <3>1. CASE \E u \in UsageKey : DeleteUsage(u)
      <4>1. PICK u \in UsageKey : DeleteUsage(u)
        BY <3>1
      <4> QED
        BY <4>1 DEF DeleteUsage, IWhole, IInv, TypeOK, UsageRow
    <3>2. CASE UNCHANGED usage
      BY <3>2
    <3> QED
      BY <1>3, <3>1, <3>2 DEF Administer, DeleteProduct, DeleteSpecialist
  <2> QED
    BY <2>1, <2>2, <2>3, KeepsWhole
<1>4. CASE UNCHANGED vars
  BY <1>4 DEF vars, tables, IWhole, Judged, CompletionIsWhole
<1> QED
  BY <1>1, <1>2, <1>3, <1>4, ArriveWhole, ReadWhole, CommitWhole DEF Next, Complete

(* With one request at a time that completes or cancels, and whatever      *)
(* others do to stock, usage and the specialist, a completion is all or    *)
(* nothing (transition_status and its pipeline).                           *)
THEOREM WholeAlone == AloneOn(StatusKinds) => (Spec => []CompletionIsWhole)
<1> SUFFICES ASSUME AloneOn(StatusKinds) PROVE Spec => []CompletionIsWhole
  OBVIOUS
<1>1. Init => IWhole
  <2>1. Init => Judged /\ CompletionIsWhole
    BY NoTxMeant DEF Init, Judged, CompletionIsWhole, StatusKinds
  <2> QED
    BY <2>1, InitInv DEF IWhole
<1>2. IWhole /\ [Next]_vars => IWhole'
  BY StepWhole
<1>3. IWhole => CompletionIsWhole
  BY DEF IWhole
<1> QED
  BY <1>1, <1>2, <1>3, PTL DEF Spec

=============================================================================
