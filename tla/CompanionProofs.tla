-------------------------- MODULE CompanionProofs ---------------------------
(***************************************************************************)
(* Theorems about Companion, for every set of calls, windows and derived   *)
(* sessions and every bound: the rest of its inductive invariant, the calls *)
(* and what holds as long as nobody else has touched the session; that the *)
(* archive implements an append-only log; and the safety properties of the *)
(* delete and of the reviews.                                              *)
(***************************************************************************)
EXTENDS CompanionStepProofs

USE CompanionAssumption
USE DEF realtime, requests, reviews, memory, store, hermes, history, others

(* The numbers of a batch that continues a log which ends at n: they rise, *)
(* from n on, to the batch's end.                                          *)
LEMMA BatchNumbers ==
  ASSUME NEW n \in Nat, NEW rows \in Log!Batches(n)
  PROVE  /\ rows # <<>> /\ rows[1][1] = n + 1 /\ Len(rows) <= MaxBatch
         /\ End(rows) \in Nat /\ n < End(rows)
         /\ \A i \in DOMAIN rows : n < rows[i][2] /\ rows[i][2] <= End(rows)
<1> DEFINE L == Len(rows)
<1>1. /\ rows \in Seq(Rows) /\ L \in 1..MaxBatch /\ DOMAIN rows = 1..L
      /\ \A i \in 1..L : /\ rows[i] \in (1..MaxSeq) \X (1..MaxSeq)
                         /\ rows[i][1] = (IF i = 1 THEN n ELSE rows[i - 1][2]) + 1
                         /\ rows[i][1] <= rows[i][2]
  BY BatchFacts
<1> HIDE DEF L
<1>2. \A i \in 1..L : rows[i][2] \in Nat /\ rows[i][1] \in Nat
  BY <1>1
<1>3. rows # <<>> /\ End(rows) = rows[L][2] /\ L \in Nat /\ L >= 1
  BY <1>1 DEF End, L
<1>4. \A i \in 1..L : n < rows[i][2]
  <2> DEFINE T == {i \in 1..L : ~(n < rows[i][2])}
  <2>1. SUFFICES ASSUME T # {} PROVE FALSE
    OBVIOUS
  <2>2. PICK i \in T : \A j \in T : i <= j
    <3>1. T \subseteq Nat
      BY <1>3
    <3> QED BY <2>1, <3>1, LeastNumber
  <2>3. i \in 1..L /\ ~(n < rows[i][2]) /\ rows[i][1] <= rows[i][2]
    BY <1>1, <2>2
  <2>4. CASE i = 1
    BY <1>1, <1>2, <2>3, <2>4
  <2>5. CASE i # 1
    <3>1. i - 1 \in 1..L /\ i - 1 < i
      BY <1>3, <2>3, <2>5
    <3>2. i - 1 \notin T
      BY <2>2, <2>3, <3>1
    <3>3. n < rows[i - 1][2] /\ rows[i - 1][2] \in Nat
      BY <1>2, <3>1, <3>2
    <3>4. rows[i][1] = rows[i - 1][2] + 1
      BY <1>1, <2>3, <2>5
    <3> QED BY <1>2, <2>3, <3>3, <3>4
  <2> QED BY <2>4, <2>5
<1>5. \A i \in 1..L : rows[i][2] <= End(rows)
  <2> DEFINE T == {k \in 0..(L - 1) : ~(rows[L - k][2] <= End(rows))}
  <2>1. SUFFICES ASSUME NEW i \in 1..L, ~(rows[i][2] <= End(rows)) PROVE FALSE
    OBVIOUS
  <2>2. L - i \in T
    <3>1. L - i \in 0..(L - 1) /\ L - (L - i) = i
      BY <1>3
    <3> QED BY <2>1, <3>1
  <2>3. PICK k \in T : \A j \in T : k <= j
    <3>1. T \subseteq Nat
      BY <1>3
    <3> QED BY <2>2, <3>1, LeastNumber
  <2>4. k \in 0..(L - 1) /\ ~(rows[L - k][2] <= End(rows))
    BY <2>3
  <2>5. k # 0
    BY <1>2, <1>3, <2>4
  <2>6. k - 1 \in 0..(L - 1) /\ k - 1 < k /\ L - (k - 1) = (L - k) + 1
    BY <1>3, <2>4, <2>5
  <2>7. k - 1 \notin T
    BY <2>3, <2>4, <2>6
  <2>8. rows[(L - k) + 1][2] <= End(rows)
    BY <2>6, <2>7
  <2>9. (L - k) + 1 \in 1..L /\ (L - k) + 1 # 1 /\ ((L - k) + 1) - 1 = L - k /\ L - k \in 1..L
    BY <1>3, <2>4, <2>5
  <2>10. /\ rows[(L - k) + 1][1] = rows[L - k][2] + 1
         /\ rows[(L - k) + 1][1] <= rows[(L - k) + 1][2]
    BY <1>1, <2>9
  <2>11. rows[L - k][2] \in Nat /\ rows[(L - k) + 1][2] \in Nat /\ End(rows) \in Nat
    BY <1>2, <1>3, <2>9
  <2> QED BY <2>4, <2>8, <2>10, <2>11
<1>6. End(rows) \in Nat /\ n < End(rows)
  BY <1>2, <1>3, <1>4
<1> QED BY <1>1, <1>3, <1>4, <1>5, <1>6 DEF L

(* Of late rows none is new, of a batch that continues the log all are.    *)
LEMMA NewRowsLate ==
  ASSUME NEW committed \in Seq(Rows), NEW rows \in Seq(Rows), Late(rows, End(committed))
  PROVE  NewRows(committed, rows) = <<>>
<1> DEFINE keep == {r \in Elements(rows) : r[2] > End(committed)}
<1>1. End(committed) \in Nat
  BY EndType
<1>2. \A i \in DOMAIN rows : rows[i] \in Rows /\ rows[i][2] \in Nat
  BY DEF Rows
<1>3. \A i \in DOMAIN rows : rows[i] \notin keep
  BY <1>1, <1>2 DEF Late
<1> HIDE DEF keep
<1>4. Sift(rows, keep) = <<>>
  BY <1>3, SiftNone
<1> QED BY <1>4 DEF NewRows, keep

(* Of a batch that continues the log all rows are new.                     *)
LEMMA NewRowsBatch ==
  ASSUME NEW committed \in Seq(Rows), NEW rows \in Log!Batches(End(committed))
  PROVE  NewRows(committed, rows) = rows
<1> DEFINE keep == {r \in Elements(rows) : r[2] > End(committed)}
<1>1. End(committed) \in Nat /\ rows \in Seq(Rows)
  BY EndType, BatchFacts
<1>2. \A i \in DOMAIN rows : rows[i][2] \in Nat
  BY <1>1 DEF Rows
<1>3. \A i \in DOMAIN rows : rows[i] \in keep
  BY <1>1, <1>2, BatchNumbers DEF Elements
<1> HIDE DEF keep
<1>4. Sift(rows, keep) = rows
  BY <1>1, <1>3, SiftAll
<1> QED BY <1>4 DEF NewRows, keep

(* A log ends where what was appended to it ends.                          *)
LEMMA EndConcat ==
  ASSUME NEW s \in Seq(Rows), NEW t \in Seq(Rows), t # <<>>
  PROVE  End(s \o t) = End(t)
<1>1. /\ Len(s \o t) = Len(s) + Len(t) /\ Len(t) \in Nat /\ Len(s) \in Nat /\ Len(t) # 0
  BY ConcatProperties, EmptySeq
<1>2. s \o t # <<>> /\ (s \o t)[Len(s) + Len(t)] = t[Len(t)]
  <2>1. Len(s) + Len(t) \in 1..Len(s \o t) /\ ~(Len(s) + Len(t) <= Len(s))
        /\ (Len(s) + Len(t)) - Len(s) = Len(t)
    BY <1>1
  <2>2. (s \o t)[Len(s) + Len(t)] = t[(Len(s) + Len(t)) - Len(s)]
    BY <2>1, ConcatProperties
  <2> QED BY <1>1, <2>1, <2>2
<1> QED BY <1>1, <1>2 DEF End

-----------------------------------------------------------------------------
(* The calls and the log.                                                  *)

CallType == [at : {"none", "open", "archive"}, rows : Seq(Rows)]

(* A call ends, whoever awaits it.                                         *)
LEMMA FitsEnd ==
  ASSUME NEW n, NEW a, NEW b, NEW q, NEW cs \in [Calls -> CallType], NEW ws, NEW c \in Calls,
         Fits(n, a, b, q, cs, ws)
  PROVE  Fits(n, a, b, q, [cs EXCEPT ![c] = NoCall], ws \ {c})
<1> DEFINE ds == [cs EXCEPT ![c] = NoCall]
<1>1. \A d \in Calls : IF d = c THEN ds[d] = NoCall ELSE ds[d] = cs[d]
  OBVIOUS
<1>2. NoCall.at = "none" /\ NoCall.rows = <<>> /\ Len(NoCall.rows) = 0
  BY DEF NoCall
<1> HIDE DEF ds
<1>3. \A d \in Calls : Len(ds[d].rows) <= MaxBatch
  BY <1>1, <1>2 DEF Fits
<1>4. \A d \in Calls : ds[d].at # "none" => d # c /\ ds[d] = cs[d]
  BY <1>1, <1>2
<1>5. \A d \in ws \ {c} : d \in Calls => ds[d] = cs[d]
  BY <1>1
<1> QED BY <1>3, <1>4, <1>5 DEF Fits, ds
(* Calls are gone, and nobody awaits one.                                  *)
LEMMA FitsGone ==
  ASSUME NEW n, NEW a, NEW b, NEW q, NEW cs, NEW ws, NEW ds,
         Fits(n, a, b, q, cs, ws), \A c \in Calls : ds[c] = cs[c] \/ ds[c] = NoCall
  PROVE  Fits(n, a, b, q, ds, {})
<1>1. NoCall.at = "none" /\ NoCall.rows = <<>> /\ Len(NoCall.rows) = 0
  BY DEF NoCall
<1>2. \A c \in Calls : Len(ds[c].rows) <= MaxBatch
  BY <1>1 DEF Fits
<1>3. \A c \in Calls : ds[c].at # "none" => ds[c] = cs[c]
  BY <1>1
<1> QED BY <1>2, <1>3 DEF Fits

(* A call goes on, with the rows it had.                                   *)
LEMMA FitsOn ==
  ASSUME NEW n, NEW a, NEW b, NEW q, NEW cs, NEW ws, NEW ds, ws \subseteq Calls,
         Fits(n, a, b, q, cs, ws),
         \A c \in Calls : ds[c].rows = cs[c].rows /\ (ds[c].at # "none" <=> cs[c].at # "none")
  PROVE  Fits(n, a, b, q, ds, ws)
<1>1. \A c \in Calls : Len(ds[c].rows) <= MaxBatch
  BY DEF Fits
<1>2. \A c \in ws : c \in Calls
  OBVIOUS
<1> QED BY <1>1, <1>2 DEF Fits

(* Realtime freezes the next batch, sends it, gives the conversation up.   *)
LEMMA FitsFreeze ==
  ASSUME NEW n, NEW a, NEW cs, NEW ws, NEW b \in Log!Batches(a), a \in Nat, ws \subseteq Calls,
         Fits(n, a, <<>>, "no", cs, ws)
  PROVE  Fits(n, a, b, "no", cs, ws)
<1>1. ws = {} /\ n = a /\ b # <<>>
  BY BatchNumbers DEF Fits
<1>2. \A c \in Calls : cs[c].at # "none" => Late(cs[c].rows, n)
  <2>1. \A rows : rows = <<>> => Late(rows, n)
    BY DEF Late
  <2> QED BY <2>1 DEF Fits
<1> QED BY <1>1, <1>2 DEF Fits

(* Realtime sends its frozen batch.                                        *)
LEMMA FitsSend ==
  ASSUME NEW n, NEW a \in Nat, NEW b, NEW cs \in [Calls -> CallType], NEW c \in Calls, b # <<>>,
         Fits(n, a, b, "no", cs, {})
  PROVE  Fits(n, a, b, "no", [cs EXCEPT ![c] = [at |-> "open", rows |-> b]], {c})
<1> DEFINE ds == [cs EXCEPT ![c] = [at |-> "open", rows |-> b]]
<1>1. \A d \in Calls : IF d = c THEN ds[d].at = "open" /\ ds[d].rows = b ELSE ds[d] = cs[d]
  OBVIOUS
<1>2. b \in Log!Batches(a) /\ (n = a \/ n = End(b))
  BY DEF Fits
<1>3. Len(b) <= MaxBatch /\ (n = End(b) => Late(b, n))
  BY <1>2, BatchNumbers DEF Late
<1> HIDE DEF ds
<1>4. \A d \in Calls : Len(ds[d].rows) <= MaxBatch
  BY <1>1, <1>3 DEF Fits
<1>5. \A d \in Calls : ds[d].at # "none" => Late(ds[d].rows, n) \/ ds[d].rows = b
  BY <1>1 DEF Fits
<1>6. \A d \in Calls : ds[d].at # "none" =>
        Late(ds[d].rows, n) \/ (ds[d].rows \in Log!Batches(a) /\ n = a)
  BY <1>1, <1>2, <1>3 DEF Fits
<1>7. ds[c].at # "none" /\ ds[c].rows = b
  BY <1>1
<1> QED BY <1>2, <1>4, <1>5, <1>6, <1>7 DEF Fits, ds

(* Realtime gives the conversation up.                                     *)
LEMMA FitsForget ==
  ASSUME NEW n, NEW a, NEW b, NEW q, NEW cs, NEW ws, NEW r, r # "no", Fits(n, a, b, q, cs, ws)
  PROVE  Fits(n, a, <<>>, r, cs, ws)
  BY DEF Fits

(* Realtime awaits no call any more.                                       *)
LEMMA FitsNobody ==
  ASSUME NEW n, NEW a, NEW b, NEW q, NEW cs, NEW ws, Fits(n, a, b, q, cs, ws)
  PROVE  Fits(n, a, b, q, cs, {})
  BY DEF Fits

(* The batch some calls carry is appended.                                 *)
LEMMA FitsGrow ==
  ASSUME NEW n, NEW a \in Nat, NEW b, NEW q, NEW cs \in [Calls -> CallType], NEW ws,
         NEW c \in Calls, cs[c].at # "none", cs[c].rows \in Log!Batches(a), n = a,
         Fits(n, a, b, q, cs, ws)
  PROVE  /\ Fits(End(cs[c].rows), a, b, q, cs, ws)
         /\ Late(cs[c].rows, End(cs[c].rows))
<1> DEFINE m == End(cs[c].rows)
<1>1. m \in Nat /\ n < m /\ Late(cs[c].rows, m) /\ cs[c].rows # <<>> /\ ~Late(cs[c].rows, n)
  <2>1. m \in Nat /\ a < m /\ Late(cs[c].rows, m) /\ cs[c].rows # <<>>
    BY BatchNumbers DEF Late
  <2>2. 1 \in DOMAIN cs[c].rows /\ a < cs[c].rows[1][2] /\ cs[c].rows[1][2] \in Nat
    <3>1. cs[c].rows \in Seq(Rows) /\ Len(cs[c].rows) \in 1..MaxBatch
      BY BatchFacts
    <3>2. 1 \in DOMAIN cs[c].rows
      BY <3>1
    <3> QED BY <3>1, <3>2, BatchNumbers DEF Rows
  <2> QED BY <2>1, <2>2 DEF Late
<1> HIDE DEF m
<1>2. \A d \in Calls : cs[d].at # "none" => Late(cs[d].rows, m)
  <2>1. SUFFICES ASSUME NEW d \in Calls, cs[d].at # "none" PROVE Late(cs[d].rows, m)
    OBVIOUS
  <2>2. CASE cs[d].rows = cs[c].rows
    BY <1>1, <2>2
  <2>3. CASE cs[d].rows # cs[c].rows
    <3>1. Late(cs[d].rows, n)
      BY <1>1, <2>1, <2>3 DEF Fits
    <3>2. \A i \in DOMAIN cs[d].rows : cs[d].rows[i][2] \in Nat
      BY DEF Rows, CallType
    <3> QED BY <1>1, <3>1, <3>2 DEF Late
  <2> QED BY <2>2, <2>3
<1>3. a <= m
  BY <1>1
<1>4. q = "no" => b = cs[c].rows
  BY <1>1 DEF Fits
<1>5. q = "no" => m = End(b)
  BY <1>4 DEF m
<1>6. b # <<>> => q = "no"
  BY DEF Fits
<1>7. q = "no" => b # <<>>
  BY <1>1, <1>4
<1>8. Fits(m, a, b, q, cs, ws)
  BY <1>2, <1>3, <1>5, <1>6, <1>7 DEF Fits
<1> QED BY <1>1, <1>8 DEF m

(* The batch awaited is in the log: its end is acknowledged.               *)
LEMMA FitsAck ==
  ASSUME NEW n \in Nat, NEW a \in Nat, NEW b, NEW cs \in [Calls -> CallType],
         NEW c \in Calls, Late(cs[c].rows, n), Fits(n, a, b, "no", cs, {c})
  PROVE  /\ n = End(b) /\ a < n
         /\ Fits(n, End(b), <<>>, "no", [cs EXCEPT ![c] = NoCall], {})
<1>1. b # <<>> /\ cs[c].rows = b /\ b \in Log!Batches(a) /\ (n = a \/ n = End(b))
  BY DEF Fits
<1>2. n # a
  <2>1. Len(b) \in 1..MaxBatch /\ b \in Seq(Rows)
    BY <1>1, BatchFacts
  <2>2. 1 \in DOMAIN b /\ b[1][2] \in Nat
    BY <2>1 DEF Rows
  <2>3. a < b[1][2]
    BY <1>1, <2>2, BatchNumbers
  <2>4. b[1][2] <= n
    BY <1>1, <2>2 DEF Late
  <2> QED BY <2>2, <2>3, <2>4
<1>3. n = End(b) /\ a < n
  BY <1>1, <1>2, BatchNumbers
<1> DEFINE ds == [cs EXCEPT ![c] = NoCall]
<1>4. \A d \in Calls : IF d = c THEN ds[d] = NoCall ELSE ds[d] = cs[d]
  OBVIOUS
<1>5. NoCall.at = "none" /\ NoCall.rows = <<>> /\ Len(NoCall.rows) = 0
  BY DEF NoCall
<1> HIDE DEF ds
<1>6. \A d \in Calls : Len(ds[d].rows) <= MaxBatch
  BY <1>4, <1>5 DEF Fits
<1>7. \A d \in Calls : ds[d].at # "none" => Late(ds[d].rows, n)
  BY <1>2, <1>4, <1>5 DEF Fits
<1>8. Fits(n, n, <<>>, "no", ds, {})
  BY <1>6, <1>7 DEF Fits
<1> QED BY <1>3, <1>8 DEF ds

-----------------------------------------------------------------------------
(* What a write that applies appends is what its call was found to bring:  *)
(* nothing, or the batch that continues the log.                           *)
LEMMA AppliesAppends ==
  ASSUME Types, TurnHeld, RowsHeld, CallsHeld, NEW c \in Calls, Applies(c)
  PROVE  /\ turn.by = c /\ turn.at = "write" /\ calls[c].at # "none"
         /\ \/ Late(calls[c].rows, End(written)) /\ written \o Inserts(c) = written
            \/ /\ calls[c].rows \in Log!Batches(acked) /\ End(written) = acked
               /\ written \o Inserts(c) = written \o calls[c].rows
               /\ End(written \o Inserts(c)) = End(calls[c].rows)
<1>1. turn.by = c /\ turn.at = "write"
  BY DEF Applies, MayWrite, Holds
<1>2. calls[c].at # "none"
  BY <1>1 DEF TurnHeld, OpeningSteps
<1>3. /\ written \in Seq(Rows) /\ calls[c].rows \in Seq(Rows) /\ acked \in Nat
  BY DEF Types, RealtimeTypes, HistoryTypes, RequestTypes
<1>4. row.pending = {written \o Inserts(c)}
        /\ row.pending = {written \o NewRows(written, calls[c].rows)}
  BY <1>1, AppliesFacts DEF CallsHeld
<1>5. written \o Inserts(c) = written \o NewRows(written, calls[c].rows)
  <2> HIDE DEF Inserts, NewRows
  <2> QED BY <1>4
<1>6. CASE Late(calls[c].rows, End(written))
  <2>1. NewRows(written, calls[c].rows) = <<>>
    BY <1>3, <1>6, NewRowsLate
  <2>2. written \o Inserts(c) = written
    BY <1>3, <1>5, <2>1, ConcatEmptySeq
  <2> QED BY <1>1, <1>2, <1>6, <2>2
<1>7. CASE calls[c].rows \in Log!Batches(acked) /\ End(written) = acked
  <2>1. NewRows(written, calls[c].rows) = calls[c].rows
    BY <1>3, <1>7, NewRowsBatch
  <2>2. End(written \o calls[c].rows) = End(calls[c].rows)
    BY <1>3, <1>7, BatchNumbers, EndConcat
  <2> QED BY <1>1, <1>2, <1>5, <1>7, <2>1, <2>2
<1> QED BY <1>2, <1>6, <1>7 DEF CallsHeld, Fits

(* A step that leaves these variables alone keeps CallsHeld.               *)
LEMMA CallsFrame ==
  ASSUME CallsHeld, UNCHANGED <<written, acked, batch, asked, calls, waiting, turn, row>>
  PROVE  CallsHeld'
  BY DEF CallsHeld, NewRows

(* So does one that leaves the calls alone and goes to no step that relies *)
(* on them.                                                                *)
LEMMA CallsSame ==
  ASSUME CallsHeld, UNCHANGED <<written, acked, batch, asked, calls, waiting>>,
         turn'.at \notin {"write", "promote"}
  PROVE  CallsHeld'
  BY DEF CallsHeld

(* The turn that writes or promotes is a call that is still there.         *)
LEMMA TurnWrites ==
  ASSUME TurnHeld, turn.at \in {"write", "promote"}, Types
  PROVE  turn.by \in Calls /\ calls[turn.by].at # "none"
<1>1. turn.by \in Calls
  BY DEF TurnHeld, Types, TurnTypes, Turns, OpeningSteps, ReviewingSteps, DeletingSteps, Openers
<1> QED BY <1>1 DEF TurnHeld, OpeningSteps

(* A reply other than an acknowledgment only ends its call.                *)
LEMMA ReplyFits ==
  ASSUME Types, NEW c \in Calls, NEW answer, answer # "ack", Reply(c, answer),
         NEW n, Fits(n, acked, batch, asked, calls, waiting)
  PROVE  Fits(n, acked', batch', asked', calls', waiting')
<1>1. UNCHANGED <<acked, batch, asked>> /\ calls' = [calls EXCEPT ![c] = NoCall]
      /\ waiting' = waiting \ {c}
  BY DEF Reply
<1>2. calls \in [Calls -> CallType]
  BY DEF Types, RequestTypes, CallType
<1> QED BY <1>1, <1>2, FitsEnd

(* A refusal, or no reply, keeps CallsHeld.                                *)
LEMMA CallsReplied ==
  ASSUME Types, CallsHeld, NEW c \in Calls, \E answer : answer # "ack" /\ Reply(c, answer),
         written' = written, turn'.at = "free"
  PROVE  CallsHeld'
<1>1. Fits(End(written), acked', batch', asked', calls', waiting')
  BY ReplyFits DEF CallsHeld
<1> QED BY <1>1 DEF CallsHeld

(* So does a refusal of whoever opens.                                     *)
LEMMA CallsAnswered ==
  ASSUME Types, CallsHeld, NEW b \in Openers, \E answer : answer # "ack" /\ Answer(b, answer),
         written' = written, turn'.at = "free"
  PROVE  CallsHeld'
<1>1. CASE b \in Calls
  BY <1>1, CallsReplied DEF Answer
<1>2. CASE b \notin Calls
  BY <1>2, CallsSame DEF Answer
<1> QED BY <1>1, <1>2

(* An acknowledgment is heard only by who still awaits it, and then its    *)
(* batch is what has just been written.                                    *)
LEMMA CallsAcknowledged ==
  ASSUME Types, CallsHeld, NEW c \in Calls, Reply(c, "ack"), Late(calls[c].rows, End(written)),
         written' = written, turn'.at = "free"
  PROVE  CallsHeld'
<1>1. calls \in [Calls -> CallType] /\ End(written) \in Nat /\ acked \in Nat
  BY EndType DEF Types, RealtimeTypes, RequestTypes, HistoryTypes, CallType
<1>2. calls' = [calls EXCEPT ![c] = NoCall] /\ waiting' = waiting \ {c} /\ asked' = asked
  BY DEF Reply
<1>3. CASE waiting = {c} /\ asked = "no"
  <2>1. acked' = End(batch) /\ batch' = <<>> /\ waiting' = {}
    BY <1>2, <1>3 DEF Reply
  <2>2. Fits(End(written), End(batch), <<>>, "no", [calls EXCEPT ![c] = NoCall], {})
    BY <1>1, <1>3, FitsAck DEF CallsHeld
  <2>3. Fits(End(written'), acked', batch', asked', calls', waiting')
    BY <1>2, <1>3, <2>1, <2>2
  <2> QED BY <2>3 DEF CallsHeld
<1>4. CASE ~(waiting = {c} /\ asked = "no")
  <2>1. UNCHANGED <<acked, batch>>
    BY <1>4 DEF Reply
  <2>2. Fits(End(written), acked, batch, asked, [calls EXCEPT ![c] = NoCall], waiting \ {c})
    BY <1>1, FitsEnd DEF CallsHeld
  <2>3. Fits(End(written'), acked', batch', asked', calls', waiting')
    BY <1>2, <2>1, <2>2
  <2> QED BY <2>3 DEF CallsHeld
<1> QED BY <1>3, <1>4

(* So does the end of a reconciliation.                                    *)
LEMMA CallsSettled ==
  ASSUME Types, CallsHeld, \E answer : Settled(turn.by, answer), written' = written
  PROVE  CallsHeld'
<1>1. /\ UNCHANGED <<acked, batch, calls, waiting>> /\ turn'.at = "free"
      /\ asked' = asked \/ (asked = "pending" /\ asked' = "complete")
  BY DEF Settled, NoTurn
<1>2. CASE asked' = asked
  BY <1>1, <1>2, CallsSame
<1>3. CASE asked = "pending" /\ asked' = "complete"
  <2>1. batch = <<>>
    BY <1>3 DEF CallsHeld, Fits
  <2>2. Fits(End(written), acked, <<>>, "complete", calls, waiting)
    BY FitsForget DEF CallsHeld
  <2>3. Fits(End(written'), acked', batch', asked', calls', waiting')
    BY <1>1, <1>3, <2>1, <2>2
  <2> QED BY <1>1, <2>3 DEF CallsHeld
<1> QED BY <1>1, <1>2, <1>3

(* A call whose conversation is open goes on with the rows it had.         *)
LEMMA OpenedFits ==
  ASSUME Types, CallsHeld, NEW b \in Openers, Opened(b), Stage(b) = "open"
  PROVE  /\ Fits(End(written), acked', batch', asked', calls', waiting')
         /\ \A c \in Calls : calls'[c].rows = calls[c].rows
<1>1. UNCHANGED <<acked, batch, asked, waiting>> /\ waiting \subseteq Calls
  BY DEF Opened, Types, RealtimeTypes, Opt
<1>2. \A c \in Calls : calls'[c].rows = calls[c].rows
        /\ (calls'[c].at # "none" <=> calls[c].at # "none")
  <2>1. CASE b = "review"
    BY <2>1 DEF Opened
  <2>2. CASE b \in Calls /\ b # "review"
    <3>1. calls' = [calls EXCEPT ![b].at = "archive"] /\ calls[b].at = "open"
      BY <2>2 DEF Opened, Stage
    <3>2. calls \in [Calls -> CallType]
      BY DEF Types, RequestTypes, CallType
    <3> QED BY <3>1, <3>2 DEF CallType
  <2> QED BY <2>1, <2>2 DEF Openers
<1> QED BY <1>1, <1>2, FitsOn DEF CallsHeld

(* A write that applies leaves the calls fitting the longer log.           *)
LEMMA AppliesFits ==
  ASSUME Types, TurnHeld, RowsHeld, CallsHeld, NEW c \in Calls, Applies(c)
  PROVE  /\ Fits(End(written \o Inserts(c)), acked, batch, asked, calls, waiting)
         /\ Late(calls[c].rows, End(written \o Inserts(c))) /\ turn.by = c
<1>1. calls \in [Calls -> CallType] /\ acked \in Nat
  BY DEF Types, RealtimeTypes, RequestTypes, CallType
<1>2. turn.by = c /\ calls[c].at # "none"
  BY AppliesAppends
<1> HIDE DEF Inserts
<1>3. CASE Late(calls[c].rows, End(written)) /\ written \o Inserts(c) = written
  BY <1>2, <1>3 DEF CallsHeld
<1>4. CASE /\ calls[c].rows \in Log!Batches(acked) /\ End(written) = acked
           /\ End(written \o Inserts(c)) = End(calls[c].rows)
  BY <1>1, <1>2, <1>4, FitsGrow DEF CallsHeld
<1> QED BY <1>3, <1>4, AppliesAppends

(* Each step keeps that the calls carry rows already written, or the one   *)
(* batch that continues the log.                                           *)
LEMMA CallsHold ==
  ASSUME Types, TurnHeld, RowsHeld, CallsHeld, Next
  PROVE  CallsHeld'
<1>1. ASSUME 
              FreezeBatch \/ GiveUp \/ RestartRealtime \/ AskForget \/ SendForget
      PROVE  CallsHeld'
  <2>1. CASE SendForget
    <3>1. UNCHANGED <<written, acked, batch, asked, calls, waiting, turn, row>>
      BY <2>1 DEF SendForget
    <3> QED BY <3>1, CallsFrame
  <2>2. CASE FreezeBatch
    <3>1. /\ UNCHANGED <<written, acked, asked, calls, waiting, turn, row>> /\ batch = <<>>
             /\ asked = "no"
          /\ batch' \in Log!Batches(acked)
      BY <2>2 DEF FreezeBatch
    <3>2. acked \in Nat /\ waiting \subseteq Calls
      BY DEF Types, RealtimeTypes, Opt
    <3>3. Fits(End(written), acked, batch', asked, calls, waiting)
      BY <3>1, <3>2, FitsFreeze DEF CallsHeld
    <3> QED BY <3>1, <3>3 DEF CallsHeld, NewRows
  <2>3. CASE GiveUp
    <3>1. UNCHANGED <<written, acked, asked, batch, calls, turn, row>> /\ waiting' = {}
      BY <2>3 DEF GiveUp
    <3>2. Fits(End(written), acked, batch, asked, calls, {})
      BY FitsNobody DEF CallsHeld
    <3> QED BY <3>1, <3>2 DEF CallsHeld, NewRows
  <2>4. CASE RestartRealtime
    <3>1. UNCHANGED <<written, acked, asked, batch, calls, turn, row>> /\ waiting' = {}
      BY <2>4 DEF RestartRealtime
    <3>2. Fits(End(written), acked, batch, asked, calls, {})
      BY FitsNobody DEF CallsHeld
    <3> QED BY <3>1, <3>2 DEF CallsHeld, NewRows
  <2>5. CASE AskForget
    <3>1. UNCHANGED <<written, acked, waiting, calls, turn, row>> /\ asked' = "pending"
            /\ batch' = <<>>
      BY <2>5 DEF AskForget
    <3>2. Fits(End(written), acked, <<>>, "pending", calls, waiting)
      BY FitsForget DEF CallsHeld
    <3> QED BY <3>1, <3>2 DEF CallsHeld, NewRows
  <2> QED BY <1>1, <2>1, <2>2, <2>3, <2>4, <2>5
<1>2. ASSUME NEW c \in Calls, Send(c)
      PROVE  CallsHeld'
  <2>1. /\ UNCHANGED <<written, acked, batch, asked, turn, row>> /\ asked = "no" /\ batch # <<>>
        /\ waiting = {} /\ waiting' = {c} /\ calls[c] = NoCall
        /\ calls' = [calls EXCEPT ![c] = [at |-> "open", rows |-> batch]]
    BY <1>2 DEF Send
  <2>2. acked \in Nat /\ calls \in [Calls -> CallType]
    BY DEF Types, RealtimeTypes, RequestTypes, CallType
  <2>3. Fits(End(written), acked, batch, asked, calls', waiting')
    BY <2>1, <2>2, FitsSend DEF CallsHeld
  <2>4. turn.at \in {"write", "promote"} => turn.by \in Calls /\ turn.by # c
    BY <2>1, TurnWrites DEF NoCall
  <2>5. turn.at \in {"write", "promote"} => calls'[turn.by] = calls[turn.by]
    BY <2>1, <2>2, <2>4
  <2> QED BY <2>1, <2>3, <2>5 DEF CallsHeld, NewRows
<1>3. ASSUME NEW w \in Windows, AskReview(w)
      PROVE  CallsHeld'
  <2>1. UNCHANGED <<written, acked, batch, asked, calls, waiting, turn, row>>
    BY <1>3 DEF AskReview
  <2> QED BY <2>1, CallsFrame
<1>4. ASSUME NEW b \in Openers,
              AlreadyOpen(b) \/ OpenRefused(b) \/ Bind(b) \/ ReleasePrevious(b) \/ Acquire(b)
           \/ LeaseHeld(b) \/ Create(b) \/ Read(b) \/ Settle(b) \/ SettleFails(b) \/ OpenFails(b)
      PROVE  CallsHeld'
  <2>1. CASE Create(b)
    <3>1. UNCHANGED <<written, acked, batch, asked, calls, waiting, turn, row>>
      BY <2>1 DEF Create
    <3> QED BY <3>1, CallsFrame
  <2>2. CASE AlreadyOpen(b)
    <3>1. /\ Opened(b) /\ Stage(b) = "open" /\ UNCHANGED <<written, turn, row>>
      BY <2>2 DEF AlreadyOpen
    <3>2. /\ Fits(End(written), acked', batch', asked', calls', waiting')
          /\ \A c \in Calls : calls'[c].rows = calls[c].rows
      BY <3>1, OpenedFits
    <3>3. turn.at \in {"write", "promote"} => turn.by \in Calls
      BY TurnWrites
    <3> QED BY <3>1, <3>2, <3>3 DEF CallsHeld, NewRows
  <2>3. CASE OpenRefused(b)
    <3>1. \E answer : answer # "ack" /\ Answer(b, answer)
      BY <2>3 DEF OpenRefused
    <3>2. written' = written /\ turn'.at = "free"
      BY <2>3 DEF OpenRefused, NoTurn, StartsOpen, Free
    <3> QED BY <3>1, <3>2, CallsAnswered
  <2>4. CASE Bind(b)
    <3>1. UNCHANGED <<written, acked, batch, asked, calls, waiting>>
      BY <2>4 DEF Bind
    <3>2. turn'.at \notin {"write", "promote"}
      BY <2>4 DEF Bind, NoTurn
    <3> QED BY <3>1, <3>2, CallsSame
  <2>5. CASE ReleasePrevious(b)
    <3>1. UNCHANGED <<written, acked, batch, asked, calls, waiting>>
      BY <2>5 DEF ReleasePrevious
    <3>2. turn'.at \notin {"write", "promote"}
      BY <2>5 DEF ReleasePrevious, Goto, Types, TurnTypes, Turns
    <3> QED BY <3>1, <3>2, CallsSame
  <2>6. CASE Acquire(b)
    <3>1. UNCHANGED <<written, acked, batch, asked, calls, waiting>>
      BY <2>6 DEF Acquire
    <3>2. turn'.at \notin {"write", "promote"}
      BY <2>6 DEF Acquire, Goto, Types, TurnTypes, Turns
    <3> QED BY <3>1, <3>2, CallsSame
  <2>7. CASE LeaseHeld(b)
    <3>1. \E answer : answer # "ack" /\ Answer(b, answer)
      BY <2>7 DEF LeaseHeld
    <3>2. written' = written /\ turn'.at = "free"
      BY <2>7 DEF LeaseHeld, NoTurn
    <3> QED BY <3>1, <3>2, CallsAnswered
  <2>8. CASE Read(b)
    <3>1. UNCHANGED <<written, acked, batch, asked, calls, waiting>>
      BY <2>8 DEF Read
    <3>2. turn'.at \notin {"write", "promote"}
      BY <2>8 DEF Read, Types, TurnTypes, Turns
    <3> QED BY <3>1, <3>2, CallsSame
  <2>9. CASE Settle(b)
    <3>1. Opened(b) /\ written' = written /\ turn'.at = "free" /\ turn.by = b
            /\ turn.at = "settle"
      BY <2>9 DEF Settle, Holds, NoTurn
    <3>2. Stage(b) = "open"
      BY <3>1 DEF Stage, TurnHeld, OpeningSteps, Openers
    <3>3. Fits(End(written), acked', batch', asked', calls', waiting')
      BY <3>1, <3>2, OpenedFits
    <3> QED BY <3>1, <3>3 DEF CallsHeld
  <2>10. CASE SettleFails(b)
    <3>1. \E answer : answer # "ack" /\ Answer(b, answer)
      BY <2>10 DEF SettleFails
    <3>2. written' = written /\ turn'.at = "free"
      BY <2>10 DEF SettleFails, NoTurn
    <3> QED BY <3>1, <3>2, CallsAnswered
  <2>11. CASE OpenFails(b)
    <3>1. \E answer : answer # "ack" /\ Answer(b, answer)
      BY <2>11 DEF OpenFails
    <3>2. written' = written /\ turn'.at = "free"
      BY <2>11 DEF OpenFails, NoTurn
    <3> QED BY <3>1, <3>2, CallsAnswered
  <2> QED BY <1>4, <2>1, <2>2, <2>3, <2>4, <2>5, <2>6, <2>7, <2>8, <2>9, <2>10, <2>11
<1>5. ASSUME NEW c \in Calls,
              ArchiveRefused(c) \/ BeginPending(c) \/ Write(c) \/ RolledBack(c) \/ Mismatch(c)
           \/ ClearPending(c) \/ Promote(c) \/ BeginFails(c) \/ WriteUnknown(c)
           \/ MismatchUnwritten(c) \/ RecordFails(c)
      PROVE  CallsHeld'
  <2>1. CASE ArchiveRefused(c)
    <3>1. \E answer : answer # "ack" /\ Reply(c, answer)
      BY <2>1 DEF ArchiveRefused
    <3>2. written' = written /\ turn'.at = "free"
      BY <2>1 DEF ArchiveRefused, NoTurn, Takes, Free
    <3> QED BY <3>1, <3>2, CallsReplied
  <2>2. CASE BeginPending(c)
    <3>1. /\ UNCHANGED <<written, acked, batch, asked, calls, waiting>> /\ turn'.at = "write"
             /\ turn'.by = c
          /\ row' = [row EXCEPT !.pending = {Committed \o NewRows(Committed, calls[c].rows)}]
          /\ row.committed # {} /\ row.pending = {}
      BY <2>2 DEF BeginPending, Admits, NoTurn
    <3>2. Committed = written
      BY <3>1 DEF RowsHeld, Committed
    <3>3. row'.pending = {written \o NewRows(written, calls[c].rows)}
      BY <3>1, <3>2 DEF Types, RowType
    <3>4. NewRows(written', calls'[c].rows) = NewRows(written, calls[c].rows)
      BY <3>1 DEF NewRows
    <3> QED BY <3>1, <3>3, <3>4 DEF CallsHeld
  <2>3. CASE Write(c)
    <3>1. /\ UNCHANGED <<acked, batch, asked, calls, waiting>> /\ turn'.at = "promote"
             /\ turn'.by = turn.by
          /\ written' = written \o Inserts(c) /\ Applies(c)
      BY <2>3 DEF Write, Goto, Types, TurnTypes, Turns
    <3>2. /\ Fits(End(written'), acked, batch, asked, calls, waiting)
          /\ Late(calls[c].rows, End(written')) /\ turn.by = c
      BY <3>1, AppliesFits
    <3> QED BY <3>1, <3>2 DEF CallsHeld
  <2>4. CASE RolledBack(c)
    <3>1. UNCHANGED <<written, acked, batch, asked, calls, waiting>>
      BY <2>4 DEF RolledBack
    <3>2. turn'.at \notin {"write", "promote"}
      BY <2>4 DEF RolledBack, Types, TurnTypes, Turns
    <3> QED BY <3>1, <3>2, CallsSame
  <2>5. CASE Mismatch(c)
    <3>1. \E answer : answer # "ack" /\ Reply(c, answer)
      BY <2>5 DEF Mismatch
    <3>2. written' = written /\ turn'.at = "free"
      BY <2>5 DEF Mismatch, NoTurn
    <3> QED BY <3>1, <3>2, CallsReplied
  <2>6. CASE ClearPending(c)
    <3>1. \E answer : answer # "ack" /\ Reply(c, answer)
      BY <2>6 DEF ClearPending
    <3>2. written' = written /\ turn'.at = "free"
      BY <2>6 DEF ClearPending, NoTurn
    <3> QED BY <3>1, <3>2, CallsReplied
  <2>7. CASE Promote(c)
    <3>1. /\ Reply(c, "ack") /\ written' = written /\ turn'.at = "free"
          /\ turn.at = "promote" /\ turn.by = c
      BY <2>7 DEF Promote, Holds, NoTurn
    <3>2. Late(calls[c].rows, End(written))
      BY <3>1 DEF CallsHeld
    <3> QED BY <3>1, <3>2, CallsAcknowledged
  <2>8. CASE BeginFails(c)
    <3>1. \E answer : answer # "ack" /\ Reply(c, answer)
      BY <2>8 DEF BeginFails
    <3>2. written' = written /\ turn'.at = "free"
      BY <2>8 DEF BeginFails, NoTurn, Takes, Free
    <3> QED BY <3>1, <3>2, CallsReplied
  <2>9. CASE WriteUnknown(c)
    <3>1. Reply(c, "none") /\ turn'.at = "free"
      BY <2>9 DEF WriteUnknown, NoTurn
    <3>2. CASE UNCHANGED <<session, written>>
      BY <3>1, <3>2, CallsReplied
    <3>3. CASE Applies(c) /\ session' = row.pending /\ written' = written \o Inserts(c)
      <4>1. Fits(End(written'), acked, batch, asked, calls, waiting)
        BY <3>3, AppliesFits
      <4> QED BY <3>1, <4>1, ReplyFits DEF CallsHeld
    <3> QED BY <2>9, <3>2, <3>3 DEF WriteUnknown
  <2>10. CASE MismatchUnwritten(c)
    <3>1. \E answer : answer # "ack" /\ Reply(c, answer)
      BY <2>10 DEF MismatchUnwritten
    <3>2. written' = written /\ turn'.at = "free"
      BY <2>10 DEF MismatchUnwritten, NoTurn
    <3> QED BY <3>1, <3>2, CallsReplied
  <2>11. CASE RecordFails(c)
    <3>1. \E answer : answer # "ack" /\ Reply(c, answer)
      BY <2>11 DEF RecordFails
    <3>2. written' = written /\ turn'.at = "free"
      BY <2>11 DEF RecordFails, NoTurn
    <3> QED BY <3>1, <3>2, CallsReplied
  <2> QED BY <1>5, <2>1, <2>2, <2>3, <2>4, <2>5, <2>6, <2>7, <2>8, <2>9, <2>10, <2>11
<1>6. ASSUME 
              RefuseReview \/ ReviewAnswered \/ JoinPrevious \/ AdmitReview \/ AdmitRefused
           \/ StartReview \/ Unwind \/ ReserveFails \/ AcceptFails \/ ThreadFinishes
           \/ ThreadExits \/ Finished
      PROVE  CallsHeld'
  <2>1. CASE RefuseReview \/ ReviewAnswered \/ ThreadFinishes \/ ThreadExits \/ Finished
    <3>1. UNCHANGED <<written, acked, batch, asked, calls, waiting, turn, row>>
      BY <2>1
        DEF RefuseReview, ReviewAnswered, RefusedReview, ThreadFinishes, ThreadExits, Finished
    <3> QED BY <3>1, CallsFrame
  <2>2. CASE JoinPrevious
    <3>1. UNCHANGED <<written, acked, batch, asked, calls, waiting>>
      BY <2>2 DEF JoinPrevious
    <3>2. turn'.at \notin {"write", "promote"}
      BY <2>2 DEF JoinPrevious, NoTurn
    <3> QED BY <3>1, <3>2, CallsSame
  <2>3. CASE AdmitReview
    <3>1. UNCHANGED <<written, acked, batch, asked, calls, waiting>>
      BY <2>3 DEF AdmitReview
    <3>2. turn'.at \notin {"write", "promote"}
      BY <2>3 DEF AdmitReview, Goto, Types, TurnTypes, Turns
    <3> QED BY <3>1, <3>2, CallsSame
  <2>4. CASE AdmitRefused
    <3>1. UNCHANGED <<written, acked, batch, asked, calls, waiting>>
      BY <2>4 DEF AdmitRefused, RefusedReview
    <3>2. turn'.at \notin {"write", "promote"}
      BY <2>4 DEF AdmitRefused, NoTurn
    <3> QED BY <3>1, <3>2, CallsSame
  <2>5. CASE StartReview
    <3>1. UNCHANGED <<written, acked, batch, asked, calls, waiting>>
      BY <2>5 DEF StartReview, RefusedReview
    <3>2. turn'.at \notin {"write", "promote"}
      BY <2>5 DEF StartReview, NoTurn
    <3> QED BY <3>1, <3>2, CallsSame
  <2>6. CASE Unwind
    <3>1. UNCHANGED <<written, acked, batch, asked, calls, waiting>>
      BY <2>6 DEF Unwind, RefusedReview
    <3>2. turn'.at \notin {"write", "promote"}
      BY <2>6 DEF Unwind, NoTurn
    <3> QED BY <3>1, <3>2, CallsSame
  <2>7. CASE ReserveFails
    <3>1. UNCHANGED <<written, acked, batch, asked, calls, waiting>>
      BY <2>7 DEF ReserveFails, RefusedReview
    <3>2. turn'.at \notin {"write", "promote"}
      BY <2>7 DEF ReserveFails, NoTurn
    <3> QED BY <3>1, <3>2, CallsSame
  <2>8. CASE AcceptFails
    <3>1. UNCHANGED <<written, acked, batch, asked, calls, waiting>>
      BY <2>8 DEF AcceptFails
    <3>2. turn'.at \notin {"write", "promote"}
      BY <2>8 DEF AcceptFails, Goto, Types, TurnTypes, Turns
    <3> QED BY <3>1, <3>2, CallsSame
  <2> QED BY <1>6, <2>1, <2>2, <2>3, <2>4, <2>5, <2>6, <2>7, <2>8
<1>7. ASSUME 
              ForgetUnbound \/ Tombstone \/ ReconcileAgain \/ CheckDelete \/ DeferDelete
           \/ AlreadyComplete \/ CaptureTargets \/ CaptureRefused \/ CaptureCopies \/ SetManifest
           \/ DeleteTarget \/ DeleteRefused \/ VerifyAbsent \/ VerifyCopies \/ RetireLease
           \/ CompleteDelete \/ DeleteFails
      PROVE  CallsHeld'
  <2>1. CASE ForgetUnbound
    <3>1. UNCHANGED <<written, acked, batch, asked, calls, waiting, turn, row>>
      BY <2>1 DEF ForgetUnbound
    <3> QED BY <3>1, CallsFrame
  <2>2. CASE Tombstone
    <3>1. UNCHANGED <<written, acked, batch, asked, calls, waiting>>
      BY <2>2 DEF Tombstone
    <3>2. turn'.at \notin {"write", "promote"}
      BY <2>2 DEF Tombstone, NoTurn
    <3> QED BY <3>1, <3>2, CallsSame
  <2>3. CASE ReconcileAgain
    <3>1. UNCHANGED <<written, acked, batch, asked, calls, waiting>>
      BY <2>3 DEF ReconcileAgain
    <3>2. turn'.at \notin {"write", "promote"}
      BY <2>3 DEF ReconcileAgain, NoTurn
    <3> QED BY <3>1, <3>2, CallsSame
  <2>4. CASE CheckDelete
    <3>1. UNCHANGED <<written, acked, batch, asked, calls, waiting>>
      BY <2>4 DEF CheckDelete
    <3>2. turn'.at \notin {"write", "promote"}
      BY <2>4 DEF CheckDelete, Types, TurnTypes, Turns
    <3> QED BY <3>1, <3>2, CallsSame
  <2>5. CASE DeferDelete
    <3>1. \E answer : Settled(turn.by, answer)
      BY <2>5 DEF DeferDelete
    <3>2. written' = written
      BY <2>5 DEF DeferDelete
    <3> QED BY <3>1, <3>2, CallsSettled
  <2>6. CASE AlreadyComplete
    <3>1. \E answer : Settled(turn.by, answer)
      BY <2>6 DEF AlreadyComplete
    <3>2. written' = written
      BY <2>6 DEF AlreadyComplete
    <3> QED BY <3>1, <3>2, CallsSettled
  <2>7. CASE CaptureTargets
    <3>1. UNCHANGED <<written, acked, batch, asked, calls, waiting>>
      BY <2>7 DEF CaptureTargets
    <3>2. turn'.at \notin {"write", "promote"}
      BY <2>7 DEF CaptureTargets, Types, TurnTypes, Turns
    <3> QED BY <3>1, <3>2, CallsSame
  <2>8. CASE CaptureRefused
    <3>1. \E answer : Settled(turn.by, answer)
      BY <2>8 DEF CaptureRefused
    <3>2. written' = written
      BY <2>8 DEF CaptureRefused
    <3> QED BY <3>1, <3>2, CallsSettled
  <2>9. CASE CaptureCopies
    <3>1. UNCHANGED <<written, acked, batch, asked, calls, waiting>>
      BY <2>9 DEF CaptureCopies
    <3>2. turn'.at \notin {"write", "promote"}
      BY <2>9 DEF CaptureCopies, Types, TurnTypes, Turns
    <3> QED BY <3>1, <3>2, CallsSame
  <2>10. CASE SetManifest
    <3>1. UNCHANGED <<written, acked, batch, asked, calls, waiting>>
      BY <2>10 DEF SetManifest
    <3>2. turn'.at \notin {"write", "promote"}
      BY <2>10 DEF SetManifest, Goto, Types, TurnTypes, Turns
    <3> QED BY <3>1, <3>2, CallsSame
  <2>11. CASE DeleteTarget
    <3>1. UNCHANGED <<written, acked, batch, asked, calls, waiting>>
      BY <2>11 DEF DeleteTarget
    <3>2. turn'.at \notin {"write", "promote"}
      BY <2>11 DEF DeleteTarget, Types, TurnTypes, Turns, TurnHeld, ArchivingSteps, DeletingSteps
    <3> QED BY <3>1, <3>2, CallsSame
  <2>12. CASE DeleteRefused
    <3>1. \E answer : Settled(turn.by, answer)
      BY <2>12 DEF DeleteRefused
    <3>2. written' = written
      BY <2>12 DEF DeleteRefused
    <3> QED BY <3>1, <3>2, CallsSettled
  <2>13. CASE VerifyAbsent
    <3>1. written' = written
      BY <2>13 DEF VerifyAbsent
    <3>2. CASE \E s \in Frozen : Exists(s)
      <4>1. Settled(turn.by, "pending")
        BY <2>13, <3>2 DEF VerifyAbsent
      <4> QED BY <3>1, <4>1, CallsSettled
    <3>3. CASE ~(\E s \in Frozen : Exists(s))
      <4>1. UNCHANGED <<written, acked, batch, asked, calls, waiting>>
        BY <2>13, <3>3 DEF VerifyAbsent
      <4>2. turn'.at \notin {"write", "promote"}
        BY <2>13, <3>3 DEF VerifyAbsent, Goto, Types, TurnTypes, Turns
      <4> QED BY <4>1, <4>2, CallsSame
    <3> QED BY <3>2, <3>3
  <2>14. CASE VerifyCopies
    <3>1. written' = written
      BY <2>14 DEF VerifyCopies
    <3>2. CASE CopiesRemain
      <4>1. Settled(turn.by, "pending")
        BY <2>14, <3>2 DEF VerifyCopies
      <4> QED BY <3>1, <4>1, CallsSettled
    <3>3. CASE ~(CopiesRemain)
      <4>1. UNCHANGED <<written, acked, batch, asked, calls, waiting>>
        BY <2>14, <3>3 DEF VerifyCopies
      <4>2. turn'.at \notin {"write", "promote"}
        BY <2>14, <3>3 DEF VerifyCopies, Goto, Types, TurnTypes, Turns
      <4> QED BY <4>1, <4>2, CallsSame
    <3> QED BY <3>2, <3>3
  <2>15. CASE RetireLease
    <3>1. UNCHANGED <<written, acked, batch, asked, calls, waiting>>
      BY <2>15 DEF RetireLease
    <3>2. turn'.at \notin {"write", "promote"}
      BY <2>15 DEF RetireLease, Goto, Types, TurnTypes, Turns
    <3> QED BY <3>1, <3>2, CallsSame
  <2>16. CASE CompleteDelete
    <3>1. \E answer : Settled(turn.by, answer)
      BY <2>16 DEF CompleteDelete
    <3>2. written' = written
      BY <2>16 DEF CompleteDelete
    <3> QED BY <3>1, <3>2, CallsSettled
  <2>17. CASE DeleteFails
    <3>1. \E answer : Settled(turn.by, answer)
      BY <2>17 DEF DeleteFails
    <3>2. written' = written
      BY <2>17 DEF DeleteFails
    <3> QED BY <3>1, <3>2, CallsSettled
  <2> QED BY <1>7, <2>1, <2>2, <2>3, <2>4, <2>5, <2>6, <2>7, <2>8, <2>9, <2>10, <2>11, <2>12,
        <2>13,
      <2>14, <2>15, <2>16, <2>17
<1>8. ASSUME 
              OthersWrite \/ OthersDelete \/ OthersLease \/ OthersRelease \/ LeaseLost
      PROVE  CallsHeld'
  <2>1. CASE OthersWrite \/ OthersDelete \/ OthersLease \/ OthersRelease \/ LeaseLost
    <3>1. UNCHANGED <<written, acked, batch, asked, calls, waiting, turn, row>>
      BY <2>1 DEF OthersWrite, OthersDelete, Remove, OthersLease, OthersRelease, LeaseLost
    <3> QED BY <3>1, CallsFrame
  <2> QED BY <1>8, <2>1
<1>9. ASSUME NEW s \in Sessions, NEW k \in Kin,
              Branch(s, k) \/ Fork(s, k) \/ Compress(s, k)
      PROVE  CallsHeld'
  <2>1. CASE Branch(s, k) \/ Fork(s, k) \/ Compress(s, k)
    <3>1. UNCHANGED <<written, acked, batch, asked, calls, waiting, turn, row>>
      BY <2>1 DEF Branch, Fork, Compress
    <3> QED BY <3>1, CallsFrame
  <2> QED BY <1>9, <2>1
<1>10. ASSUME NEW k \in Kin, RemoveKin(k)
      PROVE  CallsHeld'
  <2>1. UNCHANGED <<written, acked, batch, asked, calls, waiting, turn, row>>
    BY <1>10 DEF RemoveKin, Remove
  <2> QED BY <2>1, CallsFrame
<1>11. ASSUME 
              Crash \/ BeginClose \/ CloseReviews \/ Close \/ Start
      PROVE  CallsHeld'
  <2>1. CASE CloseReviews \/ Close
    <3>1. UNCHANGED <<written, acked, batch, asked, calls, waiting, turn, row>>
      BY <2>1 DEF CloseReviews, Close
    <3> QED BY <3>1, CallsFrame
  <2>2. CASE Crash
    <3>1. /\ UNCHANGED <<written, acked, batch, asked>> /\ waiting' = {} /\ turn'.at = "free"
          /\ \A c \in Calls : calls'[c] = NoCall
      BY <2>2 DEF Crash, Gone, NoTurn
    <3>2. Fits(End(written), acked, batch, asked, calls', {})
      BY <3>1, FitsGone DEF CallsHeld
    <3> QED BY <3>1, <3>2 DEF CallsHeld
  <2>3. CASE BeginClose
    <3>1. /\ UNCHANGED <<written, acked, batch, asked, turn, row>> /\ waiting' = {}
          /\ \A c \in Calls : calls'[c] = IF turn.by = c THEN calls[c] ELSE NoCall
      BY <2>3 DEF BeginClose
    <3>2. Fits(End(written), acked, batch, asked, calls', {})
      BY <3>1, FitsGone DEF CallsHeld
    <3>3. turn.at \in {"write", "promote"} => turn.by \in Calls
      BY TurnWrites
    <3> QED BY <3>1, <3>2, <3>3 DEF CallsHeld, NewRows
  <2>4. CASE Start
    <3>1. UNCHANGED <<written, acked, batch, asked, calls, waiting, row>> /\ turn.at = "free"
      BY <2>4 DEF Start, TurnHeld, NoTurn
    <3>2. turn'.at \notin {"write", "promote"}
      BY <2>4, <3>1 DEF Start, NoTurn
    <3> QED BY <3>1, <3>2, CallsSame
  <2> QED BY <1>11, <2>1, <2>2, <2>3, <2>4
<1> QED BY <1>1, <1>2, <1>3, <1>4, <1>5, <1>6, <1>7, <1>8, <1>9, <1>10, <1>11
  DEF Next, Opening, Archiving, Reviewing, Deleting, Failing, Others

-----------------------------------------------------------------------------
(* As long as nobody else has touched the session.                         *)

(* Once somebody has, or the delete is recorded, nothing is claimed.       *)
LEMMA UntouchedOff == ASSUME tampered' \/ deletion'.recorded PROVE Untouched'
  BY DEF Untouched

(* A step that leaves Hermes and what is committed alone, quarantines and  *)
(* fences nothing, and does not go to a step that relies on more.          *)
LEMMA UntouchedNext ==
  ASSUME Untouched, UNCHANGED <<tampered, deletion, kin, rotated, session, written>>,
         row'.committed = row.committed, row'.quarantined => row.quarantined,
         fenced' => fenced, fence' => fence,
         turn' = turn \/ turn'.at \notin {"settle", "clear"}
  PROVE  Untouched'
<1>1. Foreign(session)' = Foreign(session)
        /\ (turn' = turn => Foreign(turn.seen)' = Foreign(turn.seen))
  BY DEF Foreign
<1> QED BY <1>1 DEF Untouched

(* A step that leaves these variables alone keeps Untouched.               *)
LEMMA UntouchedFrame ==
  ASSUME Untouched,
         UNCHANGED <<tampered, deletion, kin, rotated, session, row, written, fenced, fence,
           turn>>
  PROVE  Untouched'
  BY UntouchedNext

(* Only an integrity refusal sets the fence.                               *)
LEMMA FenceReplied ==
  ASSUME NEW c \in Calls, NEW answer, answer # "integrity", Reply(c, answer)
  PROVE  fence' => fence
<1>1. fence' = (fence \/ answer = "integrity") \/ fence' = fence
  BY DEF Reply
<1> QED BY <1>1

(* The same of the answer to whoever opens.                                *)
LEMMA FenceAnswered ==
  ASSUME NEW b \in Openers, NEW answer, answer # "integrity", Answer(b, answer)
  PROVE  fence' => fence
<1>1. CASE b \in Calls
  BY <1>1, FenceReplied DEF Answer
<1>2. CASE b \notin Calls
  BY <1>2 DEF Answer
<1> QED BY <1>1, <1>2

(* A projection of an untouched session shows it as it is, and once        *)
(* something is committed it shows what was written.                       *)
LEMMA UntouchedView ==
  ASSUME RowsHeld, Untouched, ~tampered, ~deletion.recorded
  PROVE  /\ View = session
         /\ row.committed # {} => View = {written}
<1>1. Children(Voice) = {} /\ Voice \notin rotated
  BY DEF Children, Untouched
<1>2. View = session
  BY <1>1 DEF View
<1> QED BY <1>2 DEF RowsHeld, Untouched

(* Write-ahead settles what an open finds.                                 *)
LEMMA UntouchedSettles ==
  ASSUME Types, TurnHeld, DeleteHeld, RowsHeld, Untouched, ~tampered, ~deletion.recorded,
         turn.at = "settle", turn.by \in Openers
  PROVE  Cleared \/ Promoted \/ Intact
<1>1. row.bound /\ ~deletion.complete
  BY DEF TurnHeld, DeleteHeld
<1>2. turn.seen = {written}
  BY DEF RowsHeld, Untouched
<1>3. CASE row.pending = {}
  BY <1>1, <1>2, <1>3 DEF RowsHeld, Intact
<1>4. CASE row.pending # {} /\ row.committed = {}
  BY <1>1, <1>2, <1>4 DEF RowsHeld, Promoted, Cleared
<1>5. CASE row.pending # {} /\ row.committed # {}
  BY <1>1, <1>2, <1>5 DEF RowsHeld, Promoted, Cleared
<1> QED BY <1>3, <1>4, <1>5

(* The rows of a call follow what is committed without a hole.             *)
LEMMA CallsContinue ==
  ASSUME Types, TurnHeld, RowsHeld, CallsHeld, NEW c \in Calls, Takes(c), Admits
  PROVE  Continues(Committed, calls[c].rows)
<1>1. /\ written \in Seq(Rows) /\ calls[c].rows \in Seq(Rows) /\ acked \in Nat
  BY DEF Types, RealtimeTypes, HistoryTypes, RequestTypes
<1>2. Committed = written
  <2>1. row.pending = {}
    BY DEF Takes, Free, NoTurn, Admits, RowsHeld, ArchivingSteps
  <2>2. row.committed = {written}
    BY <2>1 DEF Admits, RowsHeld
  <2> QED BY <2>2 DEF Committed
<1>3. CASE Late(calls[c].rows, End(written))
  <2>1. NewRows(written, calls[c].rows) = <<>>
    BY <1>1, <1>3, NewRowsLate
  <2> QED BY <1>2, <2>1 DEF Continues
<1>4. CASE calls[c].rows \in Log!Batches(acked) /\ End(written) = acked
  <2>1. NewRows(written, calls[c].rows) = calls[c].rows
    BY <1>1, <1>4, NewRowsBatch
  <2>2. calls[c].rows[1][1] = acked + 1
    BY <1>1, <1>4, BatchNumbers
  <2> QED BY <1>2, <1>4, <2>1, <2>2 DEF Continues
<1>5. calls[c].at # "none"
  BY DEF Takes
<1> QED BY <1>3, <1>4, <1>5 DEF CallsHeld, Fits

(* A write under our lease to an untouched session is rolled back only     *)
(* when the archive is full.                                               *)
LEMMA OnlyFull ==
  ASSUME Types, TurnHeld, RowsHeld, CallsHeld, Untouched, ~tampered, ~deletion.recorded,
         NEW c \in Calls, Holds(c, "write"), lease = {"ours"}, View = row.committed, ~MayWrite(c)
  PROVE  Len(written) + MaxBatch > Cap
<1>1. /\ written \in Seq(Rows) /\ calls[c].rows \in Seq(Rows)
  BY DEF Types, HistoryTypes, RequestTypes
<1>2. row.committed = {written} /\ session = {written}
  BY UntouchedView DEF RowsHeld, Holds
<1>3. ~(Len(written) + Len(Inserts(c)) <= Cap)
  BY <1>2 DEF MayWrite
<1>4. Len(Inserts(c)) <= Len(calls[c].rows) /\ Len(Inserts(c)) \in Nat
  <2> DEFINE keep == {r \in Elements(calls[c].rows) :
                        \A rows \in session : r \notin Elements(rows)}
  <2>1. Sift(calls[c].rows, keep) \in Seq(Rows)
    BY <1>1, SiftType
  <2>2. Len(Sift(calls[c].rows, keep)) <= Len(calls[c].rows)
    BY <1>1, SiftLength
  <2>3. Inserts(c) = Sift(calls[c].rows, keep)
    BY DEF Inserts
  <2> HIDE DEF keep
  <2> QED BY <2>1, <2>2, <2>3
<1>5. Len(calls[c].rows) <= MaxBatch
  BY DEF CallsHeld, Fits
<1>6. Len(written) \in Nat /\ Len(calls[c].rows) \in Nat /\ MaxBatch \in Nat /\ Cap \in Nat
  BY <1>1
<1> HIDE DEF Inserts
<1> QED BY <1>3, <1>4, <1>5, <1>6

(* A write that applies leaves in the session what has been written.       *)
LEMMA UntouchedGrows ==
  ASSUME Types, RowsHeld, Untouched, NEW c \in Calls, Applies(c), session' = row.pending,
         written' = written \o Inserts(c), UNCHANGED <<tampered, deletion, kin, rotated, row,
           fenced>>,
         fence' => fence, turn'.at \notin {"settle", "clear"}
  PROVE  Untouched'
<1>1. row.pending = {written \o Inserts(c)} /\ ~Foreign(row.pending)
  BY AppliesFacts DEF RowsHeld
<1>2. session' # {} /\ ~Foreign(session')
  BY <1>1 DEF Foreign
<1>3. Len(written') >= Len(written) /\ Len(written') \in Nat /\ Len(written) \in Nat
  <2>1. Inserts(c) \in Seq(Rows)
    BY SiftType DEF Inserts, Types, RequestTypes
  <2>2. written \in Seq(Rows)
    BY DEF Types, HistoryTypes
  <2> HIDE DEF Inserts
  <2> QED BY <2>1, <2>2, ConcatProperties
<1>4. Len(written) + MaxBatch > Cap => Len(written') + MaxBatch > Cap
  BY <1>3
<1> QED BY <1>2, <1>4 DEF Untouched

(* Each step keeps that an untouched archive is open to its sender.        *)
LEMMA UntouchedHolds ==
  ASSUME Types, TurnHeld, DeleteHeld, RowsHeld, CallsHeld, Untouched, Next
  PROVE  Untouched'
<1>1. ASSUME 
              FreezeBatch \/ GiveUp \/ RestartRealtime \/ AskForget \/ SendForget
      PROVE  Untouched'
  <2>1. CASE FreezeBatch \/ GiveUp \/ AskForget \/ SendForget
    <3>1. UNCHANGED <<tampered, deletion, kin, rotated, session, row, written, fenced, fence,
            turn>>
      BY <2>1 DEF FreezeBatch, GiveUp, AskForget, SendForget
    <3> QED BY <3>1, UntouchedFrame
  <2>2. CASE RestartRealtime
    <3>1. /\ UNCHANGED <<tampered, deletion, kin, rotated, session, row, written>>
          /\ (fenced' => fenced) /\ (fence' => fence)
      BY <2>2 DEF RestartRealtime
    <3>2. turn' = turn \/ turn'.at \notin {"settle", "clear"}
      BY <2>2 DEF RestartRealtime
    <3> QED BY <3>1, <3>2, UntouchedNext
  <2> QED BY <1>1, <2>1, <2>2
<1>2. ASSUME NEW c \in Calls, Send(c)
      PROVE  Untouched'
  <2>1. UNCHANGED <<tampered, deletion, kin, rotated, session, row, written, fenced, fence, turn>>
    BY <1>2 DEF Send
  <2> QED BY <2>1, UntouchedFrame
<1>3. ASSUME NEW w \in Windows, AskReview(w)
      PROVE  Untouched'
  <2>1. UNCHANGED <<tampered, deletion, kin, rotated, session, row, written, fenced, fence, turn>>
    BY <1>3 DEF AskReview
  <2> QED BY <2>1, UntouchedFrame
<1>4. ASSUME NEW b \in Openers,
              AlreadyOpen(b) \/ OpenRefused(b) \/ Bind(b) \/ ReleasePrevious(b) \/ Acquire(b)
           \/ LeaseHeld(b) \/ Create(b) \/ Read(b) \/ Settle(b) \/ SettleFails(b) \/ OpenFails(b)
      PROVE  Untouched'
  <2>1. CASE AlreadyOpen(b)
    <3>1. UNCHANGED <<tampered, deletion, kin, rotated, session, row, written, fenced, fence,
            turn>>
      BY <2>1 DEF AlreadyOpen, Opened
    <3> QED BY <3>1, UntouchedFrame
  <2>2. CASE OpenRefused(b)
    <3>1. UNCHANGED <<tampered, deletion, kin, rotated, session, row, written, fenced, turn>>
      BY <2>2 DEF OpenRefused
    <3>2. CASE fenced /\ Answer(b, "transient")
      <4>1. fence' => fence
        BY <3>2, FenceAnswered
      <4> QED BY <3>1, <4>1, UntouchedNext
    <3>3. CASE row.quarantined \/ row.tombstone \/ deletion.recorded
      <4>1. row.quarantined \/ deletion.recorded
        BY <3>3 DEF TurnHeld
      <4>2. tampered \/ deletion.recorded
        BY <4>1 DEF Untouched
      <4> QED BY <3>1, <4>2, UntouchedOff
    <3> QED BY <2>2, <3>2, <3>3 DEF OpenRefused
  <2>3. CASE Bind(b)
    <3>1. /\ UNCHANGED <<tampered, deletion, kin, rotated, session, written, fenced, fence>>
          /\ turn'.at = "holder" /\ ~row.quarantined
      BY <2>3 DEF Bind, NoTurn
    <3>2. row'.committed = row.committed /\ ~row'.quarantined
      <4>1. CASE row.bound
        BY <2>3, <3>1, <4>1 DEF Bind
      <4>2. CASE ~row.bound
        BY <2>3, <4>2 DEF Bind, NoRow, RowsHeld
      <4> QED BY <4>1, <4>2
    <3> QED BY <3>1, <3>2, UntouchedNext
  <2>4. CASE ReleasePrevious(b)
    <3>1. /\ UNCHANGED <<tampered, deletion, kin, rotated, session, row, written>>
          /\ (fenced' => fenced) /\ (fence' => fence)
      BY <2>4 DEF ReleasePrevious
    <3>2. turn' = turn \/ turn'.at \notin {"settle", "clear"}
      BY <2>4 DEF ReleasePrevious, Goto, Types, TurnTypes, Turns
    <3> QED BY <3>1, <3>2, UntouchedNext
  <2>5. CASE Acquire(b)
    <3>1. /\ UNCHANGED <<tampered, deletion, kin, rotated, session, row, written>>
          /\ (fenced' => fenced) /\ (fence' => fence)
      BY <2>5 DEF Acquire
    <3>2. turn' = turn \/ turn'.at \notin {"settle", "clear"}
      BY <2>5 DEF Acquire, Goto, Types, TurnTypes, Turns
    <3> QED BY <3>1, <3>2, UntouchedNext
  <2>6. CASE LeaseHeld(b)
    <3>1. /\ UNCHANGED <<tampered, deletion, kin, rotated, session, row, written, fenced>>
          /\ Answer(b, "transient")
      BY <2>6 DEF LeaseHeld
    <3>2. turn' = turn \/ turn'.at \notin {"settle", "clear"}
      BY <2>6 DEF LeaseHeld, NoTurn
    <3>3. fence' => fence
      BY <3>1, FenceAnswered
    <3> QED BY <3>1, <3>2, <3>3, UntouchedNext
  <2>7. CASE Create(b)
    <3>1. /\ UNCHANGED <<tampered, deletion, kin, rotated, row, written, fenced, fence, turn>>
          /\ session' = {<<>>} /\ turn.at = "read"
      BY <2>7 DEF Create, Holds
    <3>2. ~Foreign(session')
      BY <3>1 DEF Foreign, Elements
    <3> QED BY <3>1, <3>2 DEF Untouched
  <2>8. CASE Read(b)
    <3>1. /\ UNCHANGED <<tampered, deletion, kin, rotated, session, row, written, fenced, fence>>
          /\ turn'.at = "settle" /\ turn'.seen = View /\ (row.committed # {} \/ session # {})
      BY <2>8 DEF Read, Types, TurnTypes, Turns
    <3>2. SUFFICES ASSUME ~tampered, ~deletion.recorded PROVE Untouched'
      BY <3>1 DEF Untouched
    <3>3. View = session /\ session # {} /\ ~Foreign(session)
      BY <3>1, <3>2, UntouchedView DEF Untouched
    <3>4. ~Foreign(turn'.seen) /\ ~Foreign(session')
      BY <3>1, <3>3 DEF Foreign
    <3> QED BY <3>1, <3>2, <3>3, <3>4 DEF Untouched
  <2>9. CASE Settle(b)
    <3>1. /\ UNCHANGED <<tampered, deletion, kin, rotated, session, written, fenced, fence>>
          /\ turn'.at = "free" /\ turn.at = "settle" /\ row'.quarantined = row.quarantined
      BY <2>9 DEF Settle, Opened, Holds, NoTurn, Types, RowType
    <3> QED BY <3>1 DEF Untouched, Foreign
  <2>10. CASE SettleFails(b)
    <3>1. UNCHANGED <<tampered, deletion>> /\ turn.by = b /\ turn.at = "settle" /\ ~Cleared
            /\ ~Promoted /\ ~Intact
      BY <2>10 DEF SettleFails, Holds
    <3>2. tampered \/ deletion.recorded
      BY <3>1, UntouchedSettles
    <3> QED BY <3>1, <3>2, UntouchedOff
  <2>11. CASE OpenFails(b)
    <3>1. /\ UNCHANGED <<tampered, deletion, kin, rotated, session, row, written>>
          /\ Answer(b, "none") /\ turn'.at = "free" /\ turn.by = b
          /\ fenced' = (fenced \/ (turn.at = "settle" /\ ~Cleared /\ ~Promoted /\ ~Intact))
      BY <2>11 DEF OpenFails, NoTurn
    <3>2. fence' => fence
      BY <3>1, FenceAnswered
    <3>3. CASE tampered \/ deletion.recorded
      BY <3>1, <3>3, UntouchedOff
    <3>4. CASE ~tampered /\ ~deletion.recorded
      <4>1. fenced' => fenced
        BY <3>1, <3>4, UntouchedSettles
      <4> QED BY <3>1, <3>2, <4>1, UntouchedNext
    <3> QED BY <3>3, <3>4
  <2> QED BY <1>4, <2>1, <2>2, <2>3, <2>4, <2>5, <2>6, <2>7, <2>8, <2>9, <2>10, <2>11
<1>5. ASSUME NEW c \in Calls,
              ArchiveRefused(c) \/ BeginPending(c) \/ Write(c) \/ RolledBack(c) \/ Mismatch(c)
           \/ ClearPending(c) \/ Promote(c) \/ BeginFails(c) \/ WriteUnknown(c)
           \/ MismatchUnwritten(c) \/ RecordFails(c)
      PROVE  Untouched'
  <2>1. CASE ArchiveRefused(c)
    <3>1. UNCHANGED <<tampered, deletion, kin, rotated, session, row, written, fenced, turn>>
      BY <2>1 DEF ArchiveRefused
    <3>2. CASE Reply(c, "transient")
      <4>1. fence' => fence
        BY <3>2, FenceReplied
      <4> QED BY <3>1, <4>1, UntouchedNext
    <3>3. CASE /\ Takes(c) /\ Admits
               /\ (~Continues(Committed, calls[c].rows) \/ row.quarantined \/ row.tombstone)
      <4>1. Continues(Committed, calls[c].rows)
        BY <3>3, CallsContinue
      <4>2. row.quarantined \/ deletion.recorded
        BY <3>3, <4>1 DEF TurnHeld
      <4>3. tampered \/ deletion.recorded
        BY <4>2 DEF Untouched
      <4> QED BY <3>1, <4>3, UntouchedOff
    <3> QED BY <2>1, <3>2, <3>3 DEF ArchiveRefused
  <2>2. CASE BeginPending(c)
    <3>1. /\ UNCHANGED <<tampered, deletion, kin, rotated, session, written, fenced, fence>>
          /\ turn'.at = "write"
          /\ row'.committed = row.committed /\ row'.quarantined = row.quarantined
      BY <2>2 DEF BeginPending, NoTurn, Types, RowType
    <3> QED BY <3>1, UntouchedNext
  <2>3. CASE Write(c)
    <3>1. /\ UNCHANGED <<tampered, deletion, kin, rotated, row, fenced, fence>>
             /\ turn'.at = "promote"
          /\ session' = row.pending /\ written' = written \o Inserts(c) /\ Applies(c)
      BY <2>3 DEF Write, Goto, Types, TurnTypes, Turns
    <3> QED BY <3>1, UntouchedGrows
  <2>4. CASE RolledBack(c)
    <3>1. /\ UNCHANGED <<tampered, deletion, kin, rotated, session, row, written, fenced, fence>>
          /\ turn'.at = "clear" /\ turn'.fencing = (lease # {"ours"})
          /\ Holds(c, "write") /\ (lease # {"ours"} \/ (View = row.committed /\ ~MayWrite(c)))
      BY <2>4 DEF RolledBack, Types, TurnTypes, Turns
    <3>2. SUFFICES ASSUME ~tampered, ~deletion.recorded PROVE Untouched'
      BY <3>1 DEF Untouched
    <3>3. lease = {"ours"} => Len(written) + MaxBatch > Cap
      BY <3>1, <3>2, OnlyFull
    <3>4. turn'.at # "settle" /\ (~turn'.fencing => lease = {"ours"})
            /\ Foreign(session)' = Foreign(session)
      BY <3>1 DEF Foreign
    <3> QED BY <3>1, <3>2, <3>3, <3>4 DEF Untouched
  <2>5. CASE Mismatch(c)
    <3>1. UNCHANGED <<tampered, deletion>> /\ turn.at = "write" /\ View # row.committed
      BY <2>5 DEF Mismatch, Holds
    <3>2. tampered \/ deletion.recorded
      BY <3>1, UntouchedView DEF RowsHeld
    <3> QED BY <3>1, <3>2, UntouchedOff
  <2>6. CASE ClearPending(c)
    <3>1. /\ UNCHANGED <<tampered, deletion, kin, rotated, session, written, fenced>>
             /\ turn'.at = "free"
          /\ row'.committed = row.committed /\ row'.quarantined = row.quarantined
             /\ turn.at = "clear"
          /\ Reply(c, IF turn.fencing THEN "transient" ELSE "integrity")
      BY <2>6 DEF ClearPending, Holds, NoTurn, Types, RowType
    <3>2. CASE turn.fencing
      <4>1. fence' => fence
        BY <3>1, <3>2, FenceReplied
      <4> QED BY <3>1, <4>1, UntouchedNext
    <3>3. CASE ~turn.fencing
      BY <3>1, <3>3 DEF Untouched, Foreign
    <3> QED BY <3>2, <3>3
  <2>7. CASE Promote(c)
    <3>1. /\ UNCHANGED <<tampered, deletion, kin, rotated, session, written, fenced>>
             /\ turn'.at = "free"
          /\ row'.quarantined = row.quarantined /\ turn.at = "promote" /\ Reply(c, "ack")
      BY <2>7 DEF Promote, Holds, NoTurn, Types, RowType
    <3>2. fence' => fence
      BY <3>1, FenceReplied
    <3>3. row.committed # {}
      BY <3>1 DEF RowsHeld, ArchivingSteps
    <3> QED BY <3>1, <3>2, <3>3 DEF Untouched, Foreign
  <2>8. CASE BeginFails(c)
    <3>1. /\ UNCHANGED <<tampered, deletion, kin, rotated, session, row, written, fenced>>
          /\ Reply(c, "none")
      BY <2>8 DEF BeginFails
    <3>2. turn' = turn \/ turn'.at \notin {"settle", "clear"}
      BY <2>8 DEF BeginFails, NoTurn
    <3>3. fence' => fence
      BY <3>1, FenceReplied
    <3> QED BY <3>1, <3>2, <3>3, UntouchedNext
  <2>9. CASE WriteUnknown(c)
    <3>1. /\ UNCHANGED <<tampered, deletion, kin, rotated, row, fenced>> /\ turn'.at = "free"
          /\ Reply(c, "none")
      BY <2>9 DEF WriteUnknown, NoTurn
    <3>2. fence' => fence
      BY <3>1, FenceReplied
    <3>3. CASE UNCHANGED <<session, written>>
      BY <3>1, <3>2, <3>3, UntouchedNext
    <3>4. CASE Applies(c) /\ session' = row.pending /\ written' = written \o Inserts(c)
      BY <3>1, <3>2, <3>4, UntouchedGrows
    <3> QED BY <2>9, <3>3, <3>4 DEF WriteUnknown
  <2>10. CASE MismatchUnwritten(c)
    <3>1. UNCHANGED <<tampered, deletion>> /\ turn.at = "write" /\ View # row.committed
      BY <2>10 DEF MismatchUnwritten, Holds
    <3>2. tampered \/ deletion.recorded
      BY <3>1, UntouchedView DEF RowsHeld
    <3> QED BY <3>1, <3>2, UntouchedOff
  <2>11. CASE RecordFails(c)
    <3>1. /\ UNCHANGED <<tampered, deletion, kin, rotated, session, row, written, fenced>>
          /\ Reply(c, "none")
      BY <2>11 DEF RecordFails
    <3>2. turn' = turn \/ turn'.at \notin {"settle", "clear"}
      BY <2>11 DEF RecordFails, NoTurn
    <3>3. fence' => fence
      BY <3>1, FenceReplied
    <3> QED BY <3>1, <3>2, <3>3, UntouchedNext
  <2> QED BY <1>5, <2>1, <2>2, <2>3, <2>4, <2>5, <2>6, <2>7, <2>8, <2>9, <2>10, <2>11
<1>6. ASSUME 
              RefuseReview \/ ReviewAnswered \/ JoinPrevious \/ AdmitReview \/ AdmitRefused
           \/ StartReview \/ Unwind \/ ReserveFails \/ AcceptFails \/ ThreadFinishes
           \/ ThreadExits \/ Finished
      PROVE  Untouched'
  <2>1. CASE RefuseReview \/ ReviewAnswered \/ ThreadFinishes \/ ThreadExits \/ Finished
    <3>1. UNCHANGED <<tampered, deletion, kin, rotated, session, row, written, fenced, fence,
            turn>>
      BY <2>1
        DEF RefuseReview, ReviewAnswered, RefusedReview, ThreadFinishes, ThreadExits, Finished
    <3> QED BY <3>1, UntouchedFrame
  <2>2. CASE JoinPrevious
    <3>1. /\ UNCHANGED <<tampered, deletion, kin, rotated, session, row, written>>
          /\ (fenced' => fenced) /\ (fence' => fence)
      BY <2>2 DEF JoinPrevious
    <3>2. turn' = turn \/ turn'.at \notin {"settle", "clear"}
      BY <2>2 DEF JoinPrevious, NoTurn
    <3> QED BY <3>1, <3>2, UntouchedNext
  <2>3. CASE AdmitReview
    <3>1. /\ UNCHANGED <<tampered, deletion, kin, rotated, session, row, written>>
          /\ (fenced' => fenced) /\ (fence' => fence)
      BY <2>3 DEF AdmitReview
    <3>2. turn' = turn \/ turn'.at \notin {"settle", "clear"}
      BY <2>3 DEF AdmitReview, Goto, Types, TurnTypes, Turns
    <3> QED BY <3>1, <3>2, UntouchedNext
  <2>4. CASE AdmitRefused
    <3>1. /\ UNCHANGED <<tampered, deletion, kin, rotated, session, written, fenced, fence>>
          /\ turn'.at = "free" /\ turn.at = "admit"
      BY <2>4 DEF AdmitRefused, RefusedReview, Holds, NoTurn
    <3>2. CASE UNCHANGED row
      BY <3>1, <3>2, UntouchedNext
    <3>3. CASE View # row.committed
      <4>1. row.committed = {written}
        BY <3>1 DEF RowsHeld, ReviewingSteps
      <4>2. tampered \/ deletion.recorded
        BY <3>3, <4>1, UntouchedView DEF RowsHeld
      <4> QED BY <3>1, <4>2, UntouchedOff
    <3> QED BY <2>4, <3>2, <3>3 DEF AdmitRefused
  <2>5. CASE StartReview
    <3>1. /\ UNCHANGED <<tampered, deletion, kin, rotated, session, row, written>>
          /\ (fenced' => fenced) /\ (fence' => fence)
      BY <2>5 DEF StartReview, RefusedReview
    <3>2. turn' = turn \/ turn'.at \notin {"settle", "clear"}
      BY <2>5 DEF StartReview, NoTurn, RefusedReview
    <3> QED BY <3>1, <3>2, UntouchedNext
  <2>6. CASE Unwind
    <3>1. /\ UNCHANGED <<tampered, deletion, kin, rotated, session, row, written>>
          /\ (fenced' => fenced) /\ (fence' => fence)
      BY <2>6 DEF Unwind, RefusedReview
    <3>2. turn' = turn \/ turn'.at \notin {"settle", "clear"}
      BY <2>6 DEF Unwind, NoTurn, RefusedReview
    <3> QED BY <3>1, <3>2, UntouchedNext
  <2>7. CASE ReserveFails
    <3>1. /\ UNCHANGED <<tampered, deletion, kin, rotated, session, row, written>>
          /\ (fenced' => fenced) /\ (fence' => fence)
      BY <2>7 DEF ReserveFails, RefusedReview
    <3>2. turn' = turn \/ turn'.at \notin {"settle", "clear"}
      BY <2>7 DEF ReserveFails, NoTurn, RefusedReview
    <3> QED BY <3>1, <3>2, UntouchedNext
  <2>8. CASE AcceptFails
    <3>1. /\ UNCHANGED <<tampered, deletion, kin, rotated, session, row, written>>
          /\ (fenced' => fenced) /\ (fence' => fence)
      BY <2>8 DEF AcceptFails
    <3>2. turn' = turn \/ turn'.at \notin {"settle", "clear"}
      BY <2>8 DEF AcceptFails, Goto, Types, TurnTypes, Turns
    <3> QED BY <3>1, <3>2, UntouchedNext
  <2> QED BY <1>6, <2>1, <2>2, <2>3, <2>4, <2>5, <2>6, <2>7, <2>8
<1>7. ASSUME 
              ForgetUnbound \/ Tombstone \/ ReconcileAgain \/ CheckDelete \/ DeferDelete
           \/ AlreadyComplete \/ CaptureTargets \/ CaptureRefused \/ CaptureCopies \/ SetManifest
           \/ DeleteTarget \/ DeleteRefused \/ VerifyAbsent \/ VerifyCopies \/ RetireLease
           \/ CompleteDelete \/ DeleteFails
      PROVE  Untouched'
  <2>1. CASE ForgetUnbound
    <3>1. UNCHANGED <<tampered, deletion, kin, rotated, session, row, written, fenced, fence,
            turn>>
      BY <2>1 DEF ForgetUnbound
    <3> QED BY <3>1, UntouchedFrame
  <2>2. CASE Tombstone
    <3>1. deletion'.recorded
      BY <2>2 DEF Tombstone, Types, DeletionTypes
    <3> QED BY <3>1, UntouchedOff
  <2>3. CASE ReconcileAgain
    <3>1. deletion.recorded /\ deletion' = deletion
      BY <2>3 DEF ReconcileAgain, TurnHeld
    <3> QED BY <3>1, UntouchedOff
  <2>4. CASE CheckDelete
    <3>1. turn.at \in DeletingSteps
      BY <2>4 DEF CheckDelete, DeletingSteps
    <3>2. deletion'.recorded = deletion.recorded
      BY <2>4 DEF CheckDelete, Types, DeletionTypes
    <3> QED BY <3>1, <3>2, UntouchedOff DEF TurnHeld
  <2>5. CASE DeferDelete
    <3>1. turn.at \in DeletingSteps
      BY <2>5 DEF DeferDelete, DeletingSteps
    <3>2. deletion'.recorded = deletion.recorded
      BY <2>5 DEF DeferDelete, Types, DeletionTypes
    <3> QED BY <3>1, <3>2, UntouchedOff DEF TurnHeld
  <2>6. CASE AlreadyComplete
    <3>1. turn.at \in DeletingSteps
      BY <2>6 DEF AlreadyComplete, DeletingSteps
    <3>2. deletion'.recorded = deletion.recorded
      BY <2>6 DEF AlreadyComplete, Types, DeletionTypes
    <3> QED BY <3>1, <3>2, UntouchedOff DEF TurnHeld
  <2>7. CASE CaptureTargets
    <3>1. turn.at \in DeletingSteps
      BY <2>7 DEF CaptureTargets, DeletingSteps
    <3>2. deletion'.recorded = deletion.recorded
      BY <2>7 DEF CaptureTargets, Types, DeletionTypes
    <3> QED BY <3>1, <3>2, UntouchedOff DEF TurnHeld
  <2>8. CASE CaptureRefused
    <3>1. turn.at \in DeletingSteps
      BY <2>8 DEF CaptureRefused, DeletingSteps
    <3>2. deletion'.recorded = deletion.recorded
      BY <2>8 DEF CaptureRefused, Types, DeletionTypes
    <3> QED BY <3>1, <3>2, UntouchedOff DEF TurnHeld
  <2>9. CASE CaptureCopies
    <3>1. turn.at \in DeletingSteps
      BY <2>9 DEF CaptureCopies, DeletingSteps
    <3>2. deletion'.recorded = deletion.recorded
      BY <2>9 DEF CaptureCopies, Types, DeletionTypes
    <3> QED BY <3>1, <3>2, UntouchedOff DEF TurnHeld
  <2>10. CASE SetManifest
    <3>1. turn.at \in DeletingSteps
      BY <2>10 DEF SetManifest, DeletingSteps
    <3>2. deletion'.recorded = deletion.recorded
      BY <2>10 DEF SetManifest, Types, DeletionTypes
    <3> QED BY <3>1, <3>2, UntouchedOff DEF TurnHeld
  <2>11. CASE DeleteTarget
    <3>1. turn.at \in DeletingSteps
      BY <2>11 DEF DeleteTarget, DeletingSteps
    <3>2. deletion'.recorded = deletion.recorded
      BY <2>11 DEF DeleteTarget, Types, DeletionTypes
    <3> QED BY <3>1, <3>2, UntouchedOff DEF TurnHeld
  <2>12. CASE DeleteRefused
    <3>1. turn.at \in DeletingSteps
      BY <2>12 DEF DeleteRefused, DeletingSteps
    <3>2. deletion'.recorded = deletion.recorded
      BY <2>12 DEF DeleteRefused, Types, DeletionTypes
    <3> QED BY <3>1, <3>2, UntouchedOff DEF TurnHeld
  <2>13. CASE VerifyAbsent
    <3>1. turn.at \in DeletingSteps
      BY <2>13 DEF VerifyAbsent, DeletingSteps
    <3>2. deletion'.recorded = deletion.recorded
      BY <2>13 DEF VerifyAbsent, Types, DeletionTypes
    <3> QED BY <3>1, <3>2, UntouchedOff DEF TurnHeld
  <2>14. CASE VerifyCopies
    <3>1. turn.at \in DeletingSteps
      BY <2>14 DEF VerifyCopies, DeletingSteps
    <3>2. deletion'.recorded = deletion.recorded
      BY <2>14 DEF VerifyCopies, Types, DeletionTypes
    <3> QED BY <3>1, <3>2, UntouchedOff DEF TurnHeld
  <2>15. CASE RetireLease
    <3>1. turn.at \in DeletingSteps
      BY <2>15 DEF RetireLease, DeletingSteps
    <3>2. deletion'.recorded = deletion.recorded
      BY <2>15 DEF RetireLease, Types, DeletionTypes
    <3> QED BY <3>1, <3>2, UntouchedOff DEF TurnHeld
  <2>16. CASE CompleteDelete
    <3>1. turn.at \in DeletingSteps
      BY <2>16 DEF CompleteDelete, DeletingSteps
    <3>2. deletion'.recorded = deletion.recorded
      BY <2>16 DEF CompleteDelete, Types, DeletionTypes
    <3> QED BY <3>1, <3>2, UntouchedOff DEF TurnHeld
  <2>17. CASE DeleteFails
    <3>1. turn.at \in DeletingSteps
      BY <2>17 DEF DeleteFails, DeletingSteps, TurnHeld
    <3>2. deletion'.recorded = deletion.recorded
      BY <2>17 DEF DeleteFails, Types, DeletionTypes
    <3> QED BY <3>1, <3>2, UntouchedOff DEF TurnHeld
  <2> QED BY <1>7, <2>1, <2>2, <2>3, <2>4, <2>5, <2>6, <2>7, <2>8, <2>9, <2>10, <2>11, <2>12,
        <2>13,
      <2>14, <2>15, <2>16, <2>17
<1>8. ASSUME 
              OthersWrite \/ OthersDelete \/ OthersLease \/ OthersRelease \/ LeaseLost
      PROVE  Untouched'
  <2>1. CASE OthersLease \/ OthersRelease \/ LeaseLost
    <3>1. UNCHANGED <<tampered, deletion, kin, rotated, session, row, written, fenced, fence,
            turn>>
      BY <2>1 DEF OthersLease, OthersRelease, LeaseLost
    <3> QED BY <3>1, UntouchedFrame
  <2>2. CASE OthersWrite
    <3>1. tampered' = TRUE
      BY <2>2 DEF OthersWrite
    <3> QED BY <3>1, UntouchedOff
  <2>3. CASE OthersDelete
    <3>1. tampered' = TRUE
      BY <2>3 DEF OthersDelete
    <3> QED BY <3>1, UntouchedOff
  <2> QED BY <1>8, <2>1, <2>2, <2>3
<1>9. ASSUME NEW s \in Sessions, NEW k \in Kin,
              Branch(s, k) \/ Fork(s, k) \/ Compress(s, k)
      PROVE  Untouched'
  <2>1. CASE Branch(s, k)
    <3>1. tampered' = TRUE
      BY <2>1 DEF Branch
    <3> QED BY <3>1, UntouchedOff
  <2>2. CASE Fork(s, k)
    <3>1. tampered' = TRUE
      BY <2>2 DEF Fork
    <3> QED BY <3>1, UntouchedOff
  <2>3. CASE Compress(s, k)
    <3>1. tampered' = TRUE
      BY <2>3 DEF Compress
    <3> QED BY <3>1, UntouchedOff
  <2> QED BY <1>9, <2>1, <2>2, <2>3
<1>10. ASSUME NEW k \in Kin, RemoveKin(k)
      PROVE  Untouched'
  <2>1. kin[k].here /\ UNCHANGED <<tampered, deletion>>
    BY <1>10 DEF RemoveKin
  <2>2. tampered \/ deletion.recorded
    BY <2>1 DEF Untouched
  <2> QED BY <2>1, <2>2, UntouchedOff
<1>11. ASSUME 
              Crash \/ BeginClose \/ CloseReviews \/ Close \/ Start
      PROVE  Untouched'
  <2>1. CASE BeginClose \/ CloseReviews
    <3>1. UNCHANGED <<tampered, deletion, kin, rotated, session, row, written, fenced, fence,
            turn>>
      BY <2>1 DEF BeginClose, CloseReviews
    <3> QED BY <3>1, UntouchedFrame
  <2>2. CASE Crash
    <3>1. /\ UNCHANGED <<tampered, deletion, kin, rotated, session, row, written>>
          /\ (fenced' => fenced) /\ (fence' => fence)
      BY <2>2 DEF Crash, Gone
    <3>2. turn' = turn \/ turn'.at \notin {"settle", "clear"}
      BY <2>2 DEF Crash, NoTurn, Gone
    <3> QED BY <3>1, <3>2, UntouchedNext
  <2>3. CASE Close
    <3>1. /\ UNCHANGED <<tampered, deletion, kin, rotated, session, row, written>>
          /\ (fenced' => fenced) /\ (fence' => fence)
      BY <2>3 DEF Close
    <3>2. turn' = turn \/ turn'.at \notin {"settle", "clear"}
      BY <2>3 DEF Close
    <3> QED BY <3>1, <3>2, UntouchedNext
  <2>4. CASE Start
    <3>1. /\ UNCHANGED <<tampered, deletion, kin, rotated, session, row, written>>
          /\ (fenced' => fenced) /\ (fence' => fence)
      BY <2>4 DEF Start
    <3>2. turn' = turn \/ turn'.at \notin {"settle", "clear"}
      BY <2>4 DEF Start, NoTurn
    <3> QED BY <3>1, <3>2, UntouchedNext
  <2> QED BY <1>11, <2>1, <2>2, <2>3, <2>4
<1> QED BY <1>1, <1>2, <1>3, <1>4, <1>5, <1>6, <1>7, <1>8, <1>9, <1>10, <1>11
  DEF Next, Opening, Archiving, Reviewing, Deleting, Failing, Others

-----------------------------------------------------------------------------
(* The archive is an append-only log.                                      *)

LogMoves == [Log!LogNext]_<<written, acked, Spoiled \/ deletion.recorded>>

(* What neither appends nor acknowledges may shut the log, not open it.    *)
LEMMA LogSame ==
  ASSUME Types, UNCHANGED <<written, acked>>,
         Spoiled \/ deletion.recorded => Spoiled' \/ deletion'.recorded
  PROVE  LogMoves
<1>1. CASE Spoiled \/ deletion.recorded
  <2>1. (Spoiled \/ deletion.recorded) = TRUE /\ (Spoiled \/ deletion.recorded)' = TRUE
    BY <1>1
  <2> QED BY <2>1 DEF LogMoves
<1>2. CASE ~(Spoiled \/ deletion.recorded) /\ (Spoiled \/ deletion.recorded)'
  <2>1. (Spoiled \/ deletion.recorded)' = TRUE
    BY <1>2
  <2> QED BY <2>1 DEF LogMoves, Log!LogNext, Log!Shut
<1>3. CASE ~(Spoiled \/ deletion.recorded) /\ ~(Spoiled \/ deletion.recorded)'
  <2>1. (Spoiled \/ deletion.recorded) = FALSE /\ (Spoiled \/ deletion.recorded)' = FALSE
    BY <1>3
  <2> QED BY <2>1 DEF LogMoves
<1> QED BY <1>1, <1>2, <1>3

(* A step next to the log, which leaves the session and what is committed  *)
(* alone.                                                                  *)
LEMMA LogNextTo ==
  ASSUME Types, UNCHANGED <<written, acked, session, rotated>>, row'.committed = row.committed,
         deletion.recorded => deletion'.recorded
  PROVE  LogMoves
<1>1. Spoiled' <=> Spoiled
  BY DEF Spoiled
<1> QED BY <1>1, LogSame

(* A step that leaves these variables alone is no step of the log.         *)
LEMMA LogFrame ==
  ASSUME Types, UNCHANGED <<written, acked, row, deletion, session, rotated>>
  PROVE  LogMoves
  BY LogNextTo

(* Only an acknowledgment moves the cursor of what is acknowledged.        *)
LEMMA AckedReplied ==
  ASSUME NEW c \in Calls, \E answer : answer # "ack" /\ Reply(c, answer)
  PROVE  acked' = acked
  BY DEF Reply

(* The same of the answer to whoever opens.                                *)
LEMMA AckedAnswered ==
  ASSUME NEW b \in Openers, \E answer : answer # "ack" /\ Answer(b, answer)
  PROVE  acked' = acked
<1>1. CASE b \in Calls
  BY <1>1, AckedReplied DEF Answer
<1>2. CASE b \notin Calls
  BY <1>2 DEF Answer
<1> QED BY <1>1, <1>2

(* An acknowledgment that is heard is of rows that have been written.      *)
LEMMA Acknowledges ==
  ASSUME Types, CallsHeld, NEW c \in Calls, Reply(c, "ack"), turn.at = "promote", turn.by = c
  PROVE  acked' = acked \/ acked' \in (acked + 1)..End(written)
<1>1. calls \in [Calls -> CallType] /\ End(written) \in Nat /\ acked \in Nat
  BY EndType DEF Types, RealtimeTypes, RequestTypes, HistoryTypes, CallType
<1>2. CASE waiting = {c} /\ asked = "no"
  <2>1. acked' = End(batch)
    BY <1>2 DEF Reply
  <2>2. Late(calls[c].rows, End(written)) /\ Fits(End(written), acked, batch, "no", calls, {c})
    BY <1>2 DEF CallsHeld
  <2>3. End(written) = End(batch) /\ acked < End(written)
    BY <1>1, <2>2, FitsAck
  <2> QED BY <1>1, <2>1, <2>3
<1>3. CASE ~(waiting = {c} /\ asked = "no")
  BY <1>3 DEF Reply
<1> QED BY <1>2, <1>3

(* A write that applies appends the batch that continues the log, or       *)
(* nothing, and the log is not shut before it nor after.                   *)
LEMMA LogGrows ==
  ASSUME Types, TurnHeld, RowsHeld, CallsHeld, NEW c \in Calls, Applies(c),
           session' = row.pending,
         written' = written \o Inserts(c), UNCHANGED <<acked, row, deletion, rotated>>
  PROVE  LogMoves
<1>1. turn.by = c /\ turn.at = "write" /\ ~deletion.recorded /\ row.committed # {}
  BY DEF Applies, MayWrite, Holds, TurnHeld, Openers, RowsHeld, ArchivingSteps
<1>2. session = {written} /\ row.pending = {written'} /\ View = session
  BY AppliesFacts
<1>3. Voice \notin rotated
  <2>1. SUFFICES ASSUME Voice \in rotated PROVE FALSE
    OBVIOUS
  <2>2. View = {Append(rows, Alien) : rows \in session}
    BY <2>1 DEF View
  <2>3. Append(written, Alien) = written /\ written \in Seq(Rows)
    BY <1>2, <2>2 DEF Types, HistoryTypes
  <2>4. Alien \in Elements(written)
    BY <2>3, AppendForeign
  <2> QED BY <2>4 DEF RowsHeld
<1>4. Alien \notin Elements(written) /\ Alien \notin Elements(written')
  BY <1>2 DEF RowsHeld, Foreign
<1>5. ~(Spoiled \/ deletion.recorded) /\ ~(Spoiled \/ deletion.recorded)'
  BY <1>1, <1>2, <1>3, <1>4 DEF Spoiled
<1>6. (Spoiled \/ deletion.recorded) = FALSE /\ (Spoiled \/ deletion.recorded)' = FALSE
  BY <1>5
<1>7. CASE written' = written
  BY <1>6, <1>7 DEF LogMoves
<1>8. CASE /\ calls[c].rows \in Log!Batches(acked) /\ End(written) = acked
           /\ written' = written \o calls[c].rows
  <2>1. Log!End(written) = acked
    BY <1>8 DEF Log!End, End
  <2>2. \E rows \in Log!Batches(Log!End(written)) : written' = written \o rows
    BY <1>8, <2>1
  <2> QED BY <1>5, <1>6, <2>2 DEF LogMoves, Log!LogNext, Log!Append1
<1> HIDE DEF Inserts
<1> QED BY <1>7, <1>8, AppliesAppends

(* Each step of the system appends, acknowledges, shuts the log, or leaves *)
(* it.                                                                     *)
LEMMA LogStep ==
  ASSUME Types, TurnHeld, RowsHeld, CallsHeld, Next
  PROVE  LogMoves
<1>1. ASSUME 
              FreezeBatch \/ GiveUp \/ RestartRealtime \/ AskForget \/ SendForget
      PROVE  LogMoves
  <2>1. CASE FreezeBatch \/ GiveUp \/ RestartRealtime \/ AskForget \/ SendForget
    <3>1. UNCHANGED <<written, acked, row, deletion, session, rotated>>
      BY <2>1 DEF FreezeBatch, GiveUp, RestartRealtime, AskForget, SendForget
    <3> QED BY <3>1, LogFrame
  <2> QED BY <1>1, <2>1
<1>2. ASSUME NEW c \in Calls, Send(c)
      PROVE  LogMoves
  <2>1. UNCHANGED <<written, acked, row, deletion, session, rotated>>
    BY <1>2 DEF Send
  <2> QED BY <2>1, LogFrame
<1>3. ASSUME NEW w \in Windows, AskReview(w)
      PROVE  LogMoves
  <2>1. UNCHANGED <<written, acked, row, deletion, session, rotated>>
    BY <1>3 DEF AskReview
  <2> QED BY <2>1, LogFrame
<1>4. ASSUME NEW b \in Openers,
              AlreadyOpen(b) \/ OpenRefused(b) \/ Bind(b) \/ ReleasePrevious(b) \/ Acquire(b)
           \/ LeaseHeld(b) \/ Create(b) \/ Read(b) \/ Settle(b) \/ SettleFails(b) \/ OpenFails(b)
      PROVE  LogMoves
  <2>1. CASE AlreadyOpen(b) \/ ReleasePrevious(b) \/ Acquire(b) \/ Read(b)
    <3>1. UNCHANGED <<written, acked, row, deletion, session, rotated>>
      BY <2>1 DEF AlreadyOpen, Opened, ReleasePrevious, Goto, Acquire, Read
    <3> QED BY <3>1, LogFrame
  <2>2. CASE OpenRefused(b)
    <3>1. /\ UNCHANGED <<written, deletion, session, rotated>> /\ row'.committed = row.committed
          /\ \E answer : answer # "ack" /\ Answer(b, answer)
      BY <2>2 DEF OpenRefused
    <3>2. acked' = acked
      BY <3>1, AckedAnswered
    <3> QED BY <3>1, <3>2, LogNextTo
  <2>3. CASE Bind(b)
    <3>1. /\ UNCHANGED <<written, acked, session, rotated>> /\ row'.committed = row.committed
          /\ (deletion.recorded => deletion'.recorded)
      BY <2>3 DEF Bind, Types, RowType, DeletionTypes, RowsHeld, NoRow
    <3> QED BY <3>1, LogNextTo
  <2>4. CASE LeaseHeld(b)
    <3>1. /\ UNCHANGED <<written, deletion, session, rotated>> /\ row'.committed = row.committed
          /\ \E answer : answer # "ack" /\ Answer(b, answer)
      BY <2>4 DEF LeaseHeld
    <3>2. acked' = acked
      BY <3>1, AckedAnswered
    <3> QED BY <3>1, <3>2, LogNextTo
  <2>5. CASE Create(b)
    <3>1. UNCHANGED <<written, acked, deletion>> /\ row.committed = {}
      BY <2>5 DEF Create
    <3>2. ~Spoiled
      BY <3>1 DEF Spoiled
    <3> QED BY <3>1, <3>2, LogSame
  <2>6. CASE Settle(b)
    <3>1. /\ UNCHANGED <<written, acked, deletion, session, rotated>>
          /\ (row'.committed = row.committed \/ (row'.committed = row.pending
             /\ row.pending # {}))
      BY <2>6 DEF Settle, Opened, Promoted, Types, RowType
    <3>2. Spoiled => Spoiled'
      BY <3>1 DEF Spoiled
    <3> QED BY <3>1, <3>2, LogSame
  <2>7. CASE SettleFails(b)
    <3>1. /\ UNCHANGED <<written, deletion, session, rotated>> /\ row'.committed = row.committed
          /\ \E answer : answer # "ack" /\ Answer(b, answer)
      BY <2>7 DEF SettleFails, Types, RowType
    <3>2. acked' = acked
      BY <3>1, AckedAnswered
    <3> QED BY <3>1, <3>2, LogNextTo
  <2>8. CASE OpenFails(b)
    <3>1. /\ UNCHANGED <<written, deletion, session, rotated>> /\ row'.committed = row.committed
          /\ \E answer : answer # "ack" /\ Answer(b, answer)
      BY <2>8 DEF OpenFails
    <3>2. acked' = acked
      BY <3>1, AckedAnswered
    <3> QED BY <3>1, <3>2, LogNextTo
  <2> QED BY <1>4, <2>1, <2>2, <2>3, <2>4, <2>5, <2>6, <2>7, <2>8
<1>5. ASSUME NEW c \in Calls,
              ArchiveRefused(c) \/ BeginPending(c) \/ Write(c) \/ RolledBack(c) \/ Mismatch(c)
           \/ ClearPending(c) \/ Promote(c) \/ BeginFails(c) \/ WriteUnknown(c)
           \/ MismatchUnwritten(c) \/ RecordFails(c)
      PROVE  LogMoves
  <2>1. CASE RolledBack(c)
    <3>1. UNCHANGED <<written, acked, row, deletion, session, rotated>>
      BY <2>1 DEF RolledBack
    <3> QED BY <3>1, LogFrame
  <2>2. CASE ArchiveRefused(c)
    <3>1. /\ UNCHANGED <<written, deletion, session, rotated>> /\ row'.committed = row.committed
          /\ \E answer : answer # "ack" /\ Reply(c, answer)
      BY <2>2 DEF ArchiveRefused
    <3>2. acked' = acked
      BY <3>1, AckedReplied
    <3> QED BY <3>1, <3>2, LogNextTo
  <2>3. CASE BeginPending(c)
    <3>1. /\ UNCHANGED <<written, acked, session, rotated>> /\ row'.committed = row.committed
          /\ (deletion.recorded => deletion'.recorded)
      BY <2>3 DEF BeginPending, Types, RowType, DeletionTypes
    <3> QED BY <3>1, LogNextTo
  <2>4. CASE Write(c)
    <3>1. /\ UNCHANGED <<acked, row, deletion, rotated>> /\ Applies(c)
          /\ session' = row.pending /\ written' = written \o Inserts(c)
      BY <2>4 DEF Write
    <3> QED BY <3>1, LogGrows
  <2>5. CASE Mismatch(c)
    <3>1. /\ UNCHANGED <<written, deletion, session, rotated>> /\ row'.committed = row.committed
          /\ \E answer : answer # "ack" /\ Reply(c, answer)
      BY <2>5 DEF Mismatch, Types, RowType
    <3>2. acked' = acked
      BY <3>1, AckedReplied
    <3> QED BY <3>1, <3>2, LogNextTo
  <2>6. CASE ClearPending(c)
    <3>1. /\ UNCHANGED <<written, deletion, session, rotated>> /\ row'.committed = row.committed
          /\ \E answer : answer # "ack" /\ Reply(c, answer)
      BY <2>6 DEF ClearPending, Types, RowType
    <3>2. acked' = acked
      BY <3>1, AckedReplied
    <3> QED BY <3>1, <3>2, LogNextTo
  <2>7. CASE Promote(c)
    <3>1. /\ UNCHANGED <<written, deletion, session, rotated>> /\ Reply(c, "ack")
          /\ row'.committed = row.pending /\ turn.at = "promote" /\ turn.by = c
      BY <2>7 DEF Promote, Holds, Types, RowType
    <3>2. row.committed # {} /\ row.pending # {}
      BY <3>1 DEF RowsHeld, ArchivingSteps
    <3>3. (Spoiled \/ deletion.recorded)' = (Spoiled \/ deletion.recorded)
      BY <3>1, <3>2 DEF Spoiled
    <3>4. acked' = acked \/ acked' \in (acked + 1)..End(written)
      BY <3>1, Acknowledges
    <3> QED BY <3>1, <3>3, <3>4 DEF LogMoves, Log!LogNext, Log!Acknowledge, Log!End, End
  <2>8. CASE BeginFails(c)
    <3>1. /\ UNCHANGED <<written, deletion, session, rotated>> /\ row'.committed = row.committed
          /\ \E answer : answer # "ack" /\ Reply(c, answer)
      BY <2>8 DEF BeginFails
    <3>2. acked' = acked
      BY <3>1, AckedReplied
    <3> QED BY <3>1, <3>2, LogNextTo
  <2>9. CASE WriteUnknown(c)
    <3>1. UNCHANGED <<row, deletion, rotated>> /\ Reply(c, "none")
      BY <2>9 DEF WriteUnknown
    <3>2. acked' = acked
      BY <3>1, AckedReplied
    <3>3. CASE UNCHANGED <<session, written>>
      BY <3>1, <3>2, <3>3, LogNextTo
    <3>4. CASE Applies(c) /\ session' = row.pending /\ written' = written \o Inserts(c)
      BY <3>1, <3>2, <3>4, LogGrows
    <3> QED BY <2>9, <3>3, <3>4 DEF WriteUnknown
  <2>10. CASE MismatchUnwritten(c)
    <3>1. /\ UNCHANGED <<written, deletion, session, rotated>> /\ row'.committed = row.committed
          /\ \E answer : answer # "ack" /\ Reply(c, answer)
      BY <2>10 DEF MismatchUnwritten
    <3>2. acked' = acked
      BY <3>1, AckedReplied
    <3> QED BY <3>1, <3>2, LogNextTo
  <2>11. CASE RecordFails(c)
    <3>1. /\ UNCHANGED <<written, deletion, session, rotated>> /\ row'.committed = row.committed
          /\ \E answer : answer # "ack" /\ Reply(c, answer)
      BY <2>11 DEF RecordFails
    <3>2. acked' = acked
      BY <3>1, AckedReplied
    <3> QED BY <3>1, <3>2, LogNextTo
  <2> QED BY <1>5, <2>1, <2>2, <2>3, <2>4, <2>5, <2>6, <2>7, <2>8, <2>9, <2>10, <2>11
<1>6. ASSUME 
              RefuseReview \/ ReviewAnswered \/ JoinPrevious \/ AdmitReview \/ AdmitRefused
           \/ StartReview \/ Unwind \/ ReserveFails \/ AcceptFails \/ ThreadFinishes
           \/ ThreadExits \/ Finished
      PROVE  LogMoves
  <2>1. CASE 
             RefuseReview \/ ReviewAnswered \/ JoinPrevious \/ AdmitReview \/ StartReview
          \/ Unwind \/ ReserveFails \/ AcceptFails \/ ThreadFinishes \/ ThreadExits \/ Finished
    <3>1. UNCHANGED <<written, acked, row, deletion, session, rotated>>
      BY <2>1
        DEF RefuseReview, ReviewAnswered, RefusedReview, JoinPrevious, AdmitReview, Goto,
            StartReview, Unwind, ReserveFails, AcceptFails, ThreadFinishes, ThreadExits, Finished
    <3> QED BY <3>1, LogFrame
  <2>2. CASE AdmitRefused
    <3>1. /\ UNCHANGED <<written, acked, session, rotated>> /\ row'.committed = row.committed
          /\ (deletion.recorded => deletion'.recorded)
      BY <2>2 DEF AdmitRefused, Types, RowType, DeletionTypes, RefusedReview
    <3> QED BY <3>1, LogNextTo
  <2> QED BY <1>6, <2>1, <2>2
<1>7. ASSUME 
              ForgetUnbound \/ Tombstone \/ ReconcileAgain \/ CheckDelete \/ DeferDelete
           \/ AlreadyComplete \/ CaptureTargets \/ CaptureRefused \/ CaptureCopies \/ SetManifest
           \/ DeleteTarget \/ DeleteRefused \/ VerifyAbsent \/ VerifyCopies \/ RetireLease
           \/ CompleteDelete \/ DeleteFails
      PROVE  LogMoves
  <2>1. CASE 
             ForgetUnbound \/ ReconcileAgain \/ CheckDelete \/ DeferDelete \/ AlreadyComplete
          \/ CaptureTargets \/ CaptureRefused \/ CaptureCopies \/ DeleteRefused \/ VerifyAbsent
          \/ VerifyCopies \/ RetireLease \/ DeleteFails
    <3>1. UNCHANGED <<written, acked, row, deletion, session, rotated>>
      BY <2>1
        DEF ForgetUnbound, ReconcileAgain, CheckDelete, DeferDelete, Settled, AlreadyComplete,
            CaptureTargets, CaptureRefused, CaptureCopies, DeleteRefused, VerifyAbsent, Goto,
            VerifyCopies, RetireLease, DeleteFails
    <3> QED BY <3>1, LogFrame
  <2>2. CASE Tombstone
    <3>1. /\ UNCHANGED <<written, acked, session, rotated>> /\ row'.committed = row.committed
          /\ (deletion.recorded => deletion'.recorded)
      BY <2>2 DEF Tombstone, Types, RowType, DeletionTypes
    <3> QED BY <3>1, LogNextTo
  <2>3. CASE SetManifest
    <3>1. /\ UNCHANGED <<written, acked, session, rotated>> /\ row'.committed = row.committed
          /\ (deletion.recorded => deletion'.recorded)
      BY <2>3 DEF SetManifest, Types, RowType, DeletionTypes
    <3> QED BY <3>1, LogNextTo
  <2>4. CASE DeleteTarget
    <3>1. UNCHANGED <<written, acked, deletion>> /\ turn.at = "delete"
      BY <2>4 DEF DeleteTarget
    <3>2. deletion.recorded
      BY <3>1 DEF TurnHeld, DeletingSteps
    <3> QED BY <3>1, <3>2, LogSame
  <2>5. CASE CompleteDelete
    <3>1. UNCHANGED <<written, acked>> /\ turn.at = "complete"
      BY <2>5 DEF CompleteDelete, Settled
    <3>2. deletion'.recorded = deletion.recorded
      BY <2>5 DEF CompleteDelete, Types, DeletionTypes
    <3>3. deletion.recorded
      BY <3>1 DEF TurnHeld, DeletingSteps
    <3> QED BY <3>1, <3>2, <3>3, LogSame
  <2> QED BY <1>7, <2>1, <2>2, <2>3, <2>4, <2>5
<1>8. ASSUME 
              OthersWrite \/ OthersDelete \/ OthersLease \/ OthersRelease \/ LeaseLost
      PROVE  LogMoves
  <2>1. CASE OthersLease \/ OthersRelease \/ LeaseLost
    <3>1. UNCHANGED <<written, acked, row, deletion, session, rotated>>
      BY <2>1 DEF OthersLease, OthersRelease, LeaseLost
    <3> QED BY <3>1, LogFrame
  <2>2. CASE OthersWrite
    <3>1. /\ UNCHANGED <<written, acked, row, deletion, rotated>> /\ session # {}
          /\ session' = {Append(rows, Alien) : rows \in session}
      BY <2>2 DEF OthersWrite
    <3>2. Spoiled => Spoiled'
      <4>1. PICK rows \in session : rows \in Seq(Rows)
        BY <3>1 DEF Types, HermesTypes, Opt
      <4>2. Append(rows, Alien) \in session' /\ Alien \in Elements(Append(rows, Alien))
        BY <3>1, <4>1, AppendForeign
      <4> QED BY <3>1, <4>2 DEF Spoiled
    <3> QED BY <3>1, <3>2, LogSame
  <2>3. CASE OthersDelete
    <3>1. UNCHANGED <<written, acked, row, deletion>> /\ session' = {}
      BY <2>3 DEF OthersDelete, Remove
    <3>2. Spoiled => Spoiled'
      BY <3>1 DEF Spoiled
    <3> QED BY <3>1, <3>2, LogSame
  <2> QED BY <1>8, <2>1, <2>2, <2>3
<1>9. ASSUME NEW s \in Sessions, NEW k \in Kin,
              Branch(s, k) \/ Fork(s, k) \/ Compress(s, k)
      PROVE  LogMoves
  <2>1. CASE Branch(s, k) \/ Fork(s, k)
    <3>1. UNCHANGED <<written, acked, row, deletion, session, rotated>>
      BY <2>1 DEF Branch, Fork
    <3> QED BY <3>1, LogFrame
  <2>2. CASE Compress(s, k)
    <3>1. UNCHANGED <<written, acked, row, deletion, session>> /\ rotated \subseteq rotated'
      BY <2>2 DEF Compress
    <3>2. Spoiled => Spoiled'
      BY <3>1 DEF Spoiled
    <3> QED BY <3>1, <3>2, LogSame
  <2> QED BY <1>9, <2>1, <2>2
<1>10. ASSUME NEW k \in Kin, RemoveKin(k)
      PROVE  LogMoves
  <2>1. UNCHANGED <<written, acked, row, deletion, session>> /\ rotated' = rotated \ {k}
          /\ k # Voice
    BY <1>10 DEF RemoveKin, Remove
  <2>2. Spoiled => Spoiled'
    BY <2>1 DEF Spoiled
  <2> QED BY <2>1, <2>2, LogSame
<1>11. ASSUME 
              Crash \/ BeginClose \/ CloseReviews \/ Close \/ Start
      PROVE  LogMoves
  <2>1. CASE Crash \/ BeginClose \/ CloseReviews \/ Close \/ Start
    <3>1. UNCHANGED <<written, acked, row, deletion, session, rotated>>
      BY <2>1 DEF Crash, Gone, BeginClose, CloseReviews, Close, Start
    <3> QED BY <3>1, LogFrame
  <2> QED BY <1>11, <2>1
<1> QED BY <1>1, <1>2, <1>3, <1>4, <1>5, <1>6, <1>7, <1>8, <1>9, <1>10, <1>11
  DEF Next, Opening, Archiving, Reviewing, Deleting, Failing, Others

-----------------------------------------------------------------------------
(* The inductive invariant and what follows from it.                       *)

(* Nothing is bound, written, asked or derived yet.                        *)
LEMMA InductiveInit == Init => CompanionInductive
<1> SUFFICES ASSUME Init PROVE CompanionInductive
  OBVIOUS
<1> USE DEF Init
<1>1. Types
  <2>1. RealtimeTypes /\ MemoryTypes
    <3>1. batch \in Seq(Rows) /\ acked \in 0..MaxSeq /\ waiting \in Opt(Calls)
      BY OptNone
    <3>2. fence \in BOOLEAN /\ asked \in {"no", "pending", "complete"}
      OBVIOUS
    <3>3. live \in Opt(BOOLEAN) /\ active \in Opt(Windows)
      BY OptNone
    <3>4. fenced \in BOOLEAN /\ callback \in BOOLEAN
            /\ thread \in {"none", "running", "finishing", "ended"}
      OBVIOUS
    <3> QED BY <3>1, <3>2, <3>3, <3>4 DEF RealtimeTypes, MemoryTypes
  <2>2. TurnTypes
    BY NoTurnType DEF TurnTypes
  <2>3. RequestTypes
    BY NoCallType, NoReviewType DEF RequestTypes
  <2>4. RowType /\ DeletionTypes
    BY NoRowType, OptNone DEF RowType, DeletionTypes, NoDelete
  <2>5. HermesTypes
    BY OptNone DEF HermesTypes
  <2>6. KinType
    BY OptNone DEF KinType, Unborn
  <2>7. HistoryTypes /\ BudgetType
    <3>1. HistoryTypes
      <4>1. written \in Seq(Rows) /\ owed \subseteq Kin
        OBVIOUS
      <4>2. tampered \in BOOLEAN
        OBVIOUS
      <4>3. reviewed \in [Windows -> Nat]
        OBVIOUS
      <4> QED BY <4>1, <4>2, <4>3 DEF HistoryTypes
    <3>2. budget \in [{"crash", "fault", "foreign", "timeout"} -> Nat]
      BY DEF Init
    <3> QED BY <3>1, <3>2 DEF BudgetType
  <2> QED BY <2>1, <2>2, <2>3, <2>4, <2>5, <2>6, <2>7 DEF Types
<1>2. TurnHeld
  BY DEF TurnHeld, NoTurn, NoReview, NoDelete, NoRow, Openers, Reconcilers, OpeningSteps,
         ArchivingSteps, ReviewingSteps, DeletingSteps
<1>3. RowsHeld
  <2>1. /\ turn.at = "free" /\ row.committed = {} /\ row.pending = {} /\ row.bound = FALSE
        /\ session = {} /\ written = <<>> /\ live = {}
    BY DEF NoTurn, NoRow
  <2>2. ~Foreign({}) /\ Alien \notin Elements(<<>>)
    BY DEF Foreign, Elements
  <2> HIDE DEF Init
  <2> QED BY <2>1, <2>2 DEF RowsHeld, ArchivingSteps, ReviewingSteps, Ready
<1>4. CallsHeld
  BY DEF CallsHeld, Fits, NoCall, NoTurn, End
<1>5. ReviewsHeld
  BY DEF ReviewsHeld, ThreadAlive, NoTurn, NoDelete, DeletingSteps
<1>6. DeleteHeld
  BY DEF DeleteHeld, KinBorn, Unborn, NoTurn, NoDelete, DeletingSteps
<1>7. Untouched
  BY DEF Untouched, Unborn, NoTurn, NoRow, Foreign
<1> QED BY <1>1, <1>2, <1>3, <1>4, <1>5, <1>6, <1>7 DEF CompanionInductive

(* The invariant is inductive: each part is kept by the lemma of that      *)
(* part.                                                                   *)
LEMMA InductiveStep == CompanionInductive /\ [Next]_vars => CompanionInductive'
<1>1. ASSUME CompanionInductive, Next PROVE CompanionInductive'
  BY <1>1, TypesKept, TurnHolds, RowsHold, CallsHold, ReviewsHold, DeleteHolds, UntouchedHolds
  DEF CompanionInductive
<1>2. ASSUME CompanionInductive, UNCHANGED vars PROVE CompanionInductive'
  <2> USE <1>2 DEF CompanionInductive, vars
  <2>1. Types'
    BY DEF Types, RealtimeTypes, TurnTypes, RequestTypes, MemoryTypes, RowType, DeletionTypes,
           HermesTypes, KinType, HistoryTypes, BudgetType
  <2>2. TurnHeld' /\ RowsHeld' /\ CallsHeld' /\ Untouched'
    BY TurnFrame, RowsFrame, CallsFrame, UntouchedFrame
  <2>3. ReviewsHeld' /\ DeleteHeld'
    BY ReviewsFrame, DeleteFrame
  <2> QED BY <2>1, <2>2, <2>3
<1> QED BY <1>1, <1>2

(* The companion, realtime's senders and Hermes never leave the inductive  *)
(* invariant, whatever crashes, faults, late calls and strangers there are *)
(* (store.py, archive.py, forget.py, review.py, host.py).                  *)
THEOREM CompanionInvariant == Spec => []CompanionInductive
  BY InductiveInit, InductiveStep, PTL DEF Spec

(* The archive of a conversation implements the append-only log: rows      *)
(* reach Hermes in order and once, nothing is acknowledged that was not    *)
(* written, nothing is written after the delete was recorded or somebody   *)
(* changed the session (archive_batch, integrity.py).                      *)
THEOREM ArchiveIsLog == Spec => IsArchiveLog
<1>1. Init => Log!LogInit
  BY DEF Init, Log!LogInit, Spoiled, NoRow, NoDelete
<1>2. CompanionInductive /\ [Next]_vars => [Log!LogNext]_<<written, acked, Spoiled
        \/ deletion.recorded>>
  <2>1. ASSUME CompanionInductive, Next PROVE LogMoves
    BY <2>1, LogStep DEF CompanionInductive
  <2>2. ASSUME CompanionInductive, UNCHANGED vars PROVE LogMoves
    BY <2>2, LogFrame DEF CompanionInductive, vars
  <2> QED BY <2>1, <2>2 DEF LogMoves
<1> QED BY <1>1, <1>2, CompanionInvariant, PTL DEF Spec, IsArchiveLog, Log!LogSpec

(* The type invariant of the model follows: an option of the code is a set *)
(* of at most one element.                                                 *)
LEMMA OptOption == ASSUME NEW S, NEW o \in Opt(S) PROVE o \in Option(S)
<1>1. CASE o = {}
  BY <1>1 DEF Option
<1>2. CASE o # {}
  <2>1. PICK x \in S : o = {x}
    BY <1>2, OptCases
  <2> QED BY <2>1 DEF Option
<1> QED BY <1>1, <1>2

(* An option has one element at most.                                      *)
LEMMA OptCardinality == ASSUME NEW S, NEW o \in Opt(S) PROVE Cardinality(o) <= 1 /\ o \subseteq S
<1>1. CASE o = {}
  BY <1>1, FS_EmptySet
<1>2. CASE o # {}
  <2>1. PICK x \in S : o = {x}
    BY <1>2, OptCases
  <2> QED BY <2>1, FS_Singleton
<1> QED BY <1>1, <1>2

(* The types and what holds of the row are the type invariant that the     *)
(* runs check.                                                             *)
LEMMA TypesImplyTypeOK == ASSUME Types, RowsHeld PROVE TypeOK
<1>1. waiting \in Option(Calls) /\ live \in Option(BOOLEAN) /\ active \in Option(Windows)
  BY OptOption DEF Types, RealtimeTypes, MemoryTypes
<1>2. \A option \in {row.committed, row.pending, session} :
        Cardinality(option) <= 1 /\ option \subseteq Seq(Rows)
  <2>1. row.committed \in Opt(Seq(Rows)) /\ row.pending \in Opt(Seq(Rows))
          /\ session \in Opt(Seq(Rows))
    BY DEF Types, RowType, HermesTypes
  <2> QED BY <2>1, OptCardinality
<1>3. kin \in [Kin -> [here : BOOLEAN, born : BOOLEAN, parent : Option(Sessions),
        branch : Option(Sessions)]]
  <2>1. SUFFICES ASSUME NEW k \in Kin
                 PROVE  kin[k] \in [here : BOOLEAN, born : BOOLEAN, parent : Option(Sessions),
                                    branch : Option(Sessions)]
    BY DEF Types, KinType
  <2>2. kin[k] \in [here : BOOLEAN, born : BOOLEAN, parent : Opt(Sessions),
          branch : Opt(Sessions)]
    BY DEF Types, KinType
  <2>3. kin[k].parent \in Option(Sessions) /\ kin[k].branch \in Option(Sessions)
    BY <2>2, OptOption
  <2> QED BY <2>2, <2>3
<1>4. deletion.copies \subseteq Kin /\ deletion.targets \subseteq Seq(Sessions)
  BY DEF Types, DeletionTypes, Opt
<1>5. row.bound = (row.committed # {} \/ row.pending # {})
  BY DEF RowsHeld
<1>6. /\ batch \in Seq(Rows) /\ acked \in 0..MaxSeq /\ fence \in BOOLEAN
         /\ asked \in {"no", "pending", "complete"}
      /\ host \in {"down", "starting", "up", "closing"}
      /\ turn.by \in Openers \union Reconcilers \union {"none"} /\ turn.fencing \in BOOLEAN
  BY DEF Types, RealtimeTypes, TurnTypes, Turns
<1>7. /\ \A c \in Calls : calls[c].at \in {"none", "open", "archive"}
         /\ calls[c].rows \in Seq(Rows)
      /\ rcall.at \in {"none", "open", "take"} /\ rcall.window \in Windows \union {0}
      /\ fcall \in BOOLEAN /\ again \in BOOLEAN
  BY DEF Types, RequestTypes
<1>8. /\ fenced \in BOOLEAN /\ callback \in BOOLEAN
      /\ thread \in {"none", "running", "finishing", "ended"}
      /\ ledger \in [Windows -> {"none", "reserved", "accepted", "over", "unknown"}]
      /\ lease \in {{}, {"ours"}, {Other}} /\ rotated \subseteq Sessions /\ written \in Seq(Rows)
  BY DEF Types, MemoryTypes, DeletionTypes, HermesTypes, HistoryTypes
<1> QED BY <1>1, <1>2, <1>3, <1>4, <1>5, <1>6, <1>7, <1>8 DEF TypeOK

(* An archive nobody else has touched is never quarantined, nor its sender *)
(* fenced unless the archive may be full: every interruption is settled    *)
(* (_settle_open, archive_batch).                                          *)
THEOREM OpenIsHonest == Spec => []HonestlyOpen
<1>1. CompanionInductive => HonestlyOpen
  <2> SUFFICES ASSUME CompanionInductive PROVE HonestlyOpen
    OBVIOUS
  <2>1. TypeOK
    BY TypesImplyTypeOK DEF CompanionInductive
  <2> QED BY <2>1 DEF HonestlyOpen, CompanionInductive, Untouched
<1> QED BY <1>1, CompanionInvariant, PTL

(* A delete is recorded complete only when what it froze is gone, and      *)
(* nothing brings it back (forget.py, _reconcile).                         *)
THEOREM CompleteIsGone == Spec => []CompleteMeansGone
<1>1. CompanionInductive => CompleteMeansGone
  <2> SUFFICES ASSUME CompanionInductive, deletion.complete
               PROVE  /\ session = {} /\ ~row.bound /\ ~Ready
                      /\ \A k \in Kin : kin[k].here =>
                           k \notin Frozen \union owed
                             /\ \A s \in Frozen \union owed : kin[k].branch # {s}
    BY DEF CompleteMeansGone
  <2>1. /\ deletion.targets # {} /\ Absent /\ NoCopies /\ live = {} /\ row = NoRow
        /\ (deletion.targets = {<<>>} => session = {})
        /\ (deletion.targets # {<<>>} => Voice \in Frozen)
        /\ owed = deletion.copies
    BY DEF CompanionInductive, DeleteHeld
  <2>2. session = {}
    BY <2>1 DEF Absent, Exists
  <2>3. ~row.bound /\ ~Ready
    BY <2>1 DEF NoRow, Ready
  <2>4. ASSUME NEW k \in Kin, kin[k].here
        PROVE  k \notin Frozen \union owed /\ \A s \in Frozen \union owed : kin[k].branch # {s}
    <3>1. k \notin Frozen
      BY <2>1, <2>4 DEF Absent, Exists
    <3> QED BY <2>1, <2>4, <3>1 DEF NoCopies
  <2> QED BY <2>2, <2>3, <2>4
<1> QED BY <1>1, CompanionInvariant, PTL

(* No review runs on for a conversation whose delete is complete           *)
(* (forget.py, review.py).                                                 *)
THEOREM DeletedIsNotReviewed == Spec => []NoReviewOfDeleted
<1>1. CompanionInductive => NoReviewOfDeleted
  BY DEF CompanionInductive, ReviewsHeld, NoReviewOfDeleted
<1> QED BY <1>1, CompanionInvariant, PTL

(* A window is reviewed at most once, whatever of the first review was     *)
(* interrupted (review.py).                                                *)
THEOREM ReviewedAtMostOnce == Spec => []ReviewedOnce
<1>1. CompanionInductive => ReviewedOnce
  BY DEF CompanionInductive, ReviewsHeld, ReviewedOnce
<1> QED BY <1>1, CompanionInvariant, PTL
=============================================================================
