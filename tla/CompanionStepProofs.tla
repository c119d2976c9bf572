------------------------ MODULE CompanionStepProofs -------------------------
(***************************************************************************)
(* What every step of Companion keeps, for every set of calls, windows and *)
(* derived sessions and every bound: of its inductive invariant, the types, *)
(* the turn, the reviews, the delete and the rows.  A part of the invariant *)
(* has a lemma with one step per action; the actions that leave its variables *)
(* alone are taken together.                                               *)
(***************************************************************************)
EXTENDS CompanionInduction, SubsequenceProofs, FiniteSetTheorems

USE CompanionAssumption
USE DEF realtime, requests, reviews, memory, store, hermes, history, others

-----------------------------------------------------------------------------
(* Options, turns, replies.                                                *)

(* No value is an option of any set.                                       *)
LEMMA OptNone == ASSUME NEW S PROVE {} \in Opt(S)
  BY DEF Opt

(* A value of the set is an option of it.                                  *)
LEMMA OptOne == ASSUME NEW S, NEW x \in S PROVE {x} \in Opt(S)
  BY DEF Opt

(* What is left of an option is an option.                                 *)
LEMMA OptLess == ASSUME NEW S, NEW o \in Opt(S), NEW p, p \subseteq o PROVE p \in Opt(S)
  BY DEF Opt

(* An option is empty or has one element.                                  *)
LEMMA OptCases == ASSUME NEW S, NEW o \in Opt(S) PROVE o = {} \/ \E x \in S : o = {x}
  BY DEF Opt

(* A call that is not there has the type of a call.                        *)
LEMMA NoCallType == NoCall \in [at : {"none", "open", "archive"}, rows : Seq(Rows)]
  BY DEF NoCall

(* A review request that is not there has the type of one.                 *)
LEMMA NoReviewType == NoReview \in [at : {"none", "open", "take"}, window : Windows \union {0}]
  BY DEF NoReview

(* A bound is spent by one, so it stays a number.                          *)
LEMMA SpendType ==
  ASSUME Types, NEW kind \in {"crash", "fault", "foreign", "timeout"}, Spend(kind)
  PROVE  BudgetType'
<1>1. budget[kind] \in Nat /\ budget[kind] > 0
  BY DEF Types, BudgetType, Spend
<1>2. budget[kind] - 1 \in Nat
  BY <1>1
<1> QED BY <1>2 DEF Types, BudgetType, Spend

(* The last number of rows is a number, or zero if there are none.         *)
LEMMA EndType == ASSUME NEW rows \in Seq(Rows) PROVE End(rows) \in 0..MaxSeq
<1>1. CASE rows = <<>>
  BY <1>1 DEF End
<1>2. CASE rows # <<>>
  <2>1. rows[Len(rows)] \in Rows
    BY <1>2
  <2> QED BY <1>2, <2>1 DEF End, Rows
<1> QED BY <1>1, <1>2

(* The free conversation is a turn.                                        *)
LEMMA NoTurnType == NoTurn \in Turns
<1>1. {} \in Opt(Seq(Rows)) /\ <<>> \in Seq(Sessions)
  BY OptNone
<1> QED BY <1>1 DEF NoTurn, Turns

(* So is a turn at its first step.                                         *)
LEMMA NewTurnType ==
  ASSUME NEW b \in Openers \union Reconcilers,
         NEW at \in OpeningSteps \union ArchivingSteps \union ReviewingSteps \union DeletingSteps
  PROVE  [NoTurn EXCEPT !.by = b, !.at = at] \in Turns
  BY NoTurnType DEF Turns, OpeningSteps, ArchivingSteps, ReviewingSteps, DeletingSteps

(* A reply to an archive call keeps the types of realtime and of the       *)
(* calls.                                                                  *)
LEMMA ReplyTypes ==
  ASSUME Types, NEW c \in Calls, NEW answer, Reply(c, answer)
  PROVE  /\ RealtimeTypes'
         /\ calls' \in [Calls -> [at : {"none", "open", "archive"}, rows : Seq(Rows)]]
<1>1. waiting' \in Opt(Calls)
  BY OptLess DEF Reply, Types, RealtimeTypes
<1>2. End(batch) \in 0..MaxSeq
  BY EndType DEF Types, RealtimeTypes
<1>3. batch' \in Seq(Rows)
  <2>1. batch' = <<>> \/ batch' = batch
    BY DEF Reply
  <2>2. <<>> \in Seq(Rows) /\ batch \in Seq(Rows)
    BY DEF Types, RealtimeTypes
  <2> QED BY <2>1, <2>2
<1>6. acked' \in 0..MaxSeq
  <2>1. acked' = End(batch) \/ acked' = acked
    BY DEF Reply
  <2> QED BY <1>2, <2>1 DEF Types, RealtimeTypes
<1>7. fence' \in BOOLEAN
  <2>1. fence' = fence \/ fence' = (fence \/ answer = "integrity")
    BY DEF Reply
  <2> QED BY <2>1 DEF Types, RealtimeTypes
<1>4. NoCall \in [at : {"none", "open", "archive"}, rows : Seq(Rows)]
  BY DEF NoCall
<1>5. calls' \in [Calls -> [at : {"none", "open", "archive"}, rows : Seq(Rows)]]
  BY <1>4 DEF Reply, Types, RequestTypes
<1>8. asked' \in {"no", "pending", "complete"}
  BY DEF Reply, Types, RealtimeTypes
<1> QED BY <1>1, <1>3, <1>5, <1>6, <1>7, <1>8 DEF RealtimeTypes

(* So does the answer to whoever opens, and those of the review request.   *)
LEMMA AnswerTypes ==
  ASSUME Types, NEW b \in Openers, NEW answer, Answer(b, answer)
  PROVE  /\ RealtimeTypes'
         /\ calls' \in [Calls -> [at : {"none", "open", "archive"}, rows : Seq(Rows)]]
         /\ rcall' \in [at : {"none", "open", "take"}, window : Windows \union {0}]
<1>1. CASE b \in Calls
  <2>1. Reply(b, answer) /\ UNCHANGED rcall
    BY <1>1 DEF Answer
  <2> QED BY <1>1, <2>1, ReplyTypes DEF Types, RequestTypes
<1>2. CASE b \notin Calls
  <2>1. rcall' = NoReview /\ UNCHANGED <<calls, realtime>>
    BY <1>2 DEF Answer
  <2>2. rcall' \in [at : {"none", "open", "take"}, window : Windows \union {0}]
    BY <2>1 DEF NoReview
  <2> QED BY <2>1, <2>2 DEF Types, RealtimeTypes, RequestTypes
<1> QED BY <1>1, <1>2

-----------------------------------------------------------------------------
(* Types.                                                                  *)

(* What it is to be a batch that continues a log which ends at n.          *)
LEMMA BatchFacts ==
  ASSUME NEW n \in Nat, NEW rows \in Log!Batches(n)
  PROVE  /\ rows \in Seq(Rows) /\ Len(rows) \in 1..MaxBatch /\ DOMAIN rows = 1..Len(rows)
         /\ \A i \in DOMAIN rows : /\ rows[i] \in (1..MaxSeq) \X (1..MaxSeq)
                                   /\ rows[i][1] = (IF i = 1 THEN n ELSE rows[i - 1][2]) + 1
                                   /\ rows[i][1] <= rows[i][2]
<1>1. PICK k \in 1..MaxBatch : rows \in [1..k -> (1..MaxSeq) \X (1..MaxSeq)]
  BY DEF Log!Batches
<1>2. (1..MaxSeq) \X (1..MaxSeq) \subseteq Rows
  BY DEF Rows
<1>3. rows \in Seq(Rows) /\ Len(rows) = k
  BY <1>1, <1>2
<1> QED BY <1>1, <1>3 DEF Log!Batches

(* A turn that goes to another step is a turn.                             *)
LEMMA GotoType ==
  ASSUME Types, NEW at, Goto(at),
         at \in OpeningSteps \union ArchivingSteps \union ReviewingSteps \union DeletingSteps
  PROVE  turn' \in Turns
  BY DEF Types, TurnTypes, Goto, Turns, OpeningSteps, ArchivingSteps, ReviewingSteps,
           DeletingSteps

(* An open conversation that admits no more work has the type of one.      *)
LEMMA UnreadyType == ASSUME Unready PROVE live' \in Opt(BOOLEAN)
<1>1. \A r \in {FALSE : x \in live} : r = FALSE
  OBVIOUS
<1> QED BY <1>1 DEF Unready, Opt

(* Going on from an open keeps the types of the requests.                  *)
LEMMA OpenedTypes ==
  ASSUME Types, NEW b \in Openers, Opened(b)
  PROVE  /\ calls' \in [Calls -> [at : {"none", "open", "archive"}, rows : Seq(Rows)]]
         /\ rcall' \in [at : {"none", "open", "take"}, window : Windows \union {0}]
<1>1. CASE b = "review"
  <2>1. rcall' = [rcall EXCEPT !.at = "take"] /\ calls' = calls
    BY <1>1 DEF Opened
  <2>2. rcall' \in [at : {"none", "open", "take"}, window : Windows \union {0}]
    BY <2>1 DEF Types, RequestTypes
  <2> QED BY <2>1, <2>2 DEF Types, RequestTypes
<1>2. CASE b \in Calls /\ b # "review"
  <2>1. calls' = [calls EXCEPT ![b].at = "archive"] /\ rcall' = rcall
    BY <1>2 DEF Opened
  <2>2. calls' \in [Calls -> [at : {"none", "open", "archive"}, rows : Seq(Rows)]]
    BY <1>2, <2>1 DEF Types, RequestTypes
  <2> QED BY <2>1, <2>2 DEF Types, RequestTypes
<1> QED BY <1>1, <1>2 DEF Openers

(* The row of a conversation that is not bound has the type of a row.      *)
LEMMA NoRowType ==
  NoRow \in [bound : BOOLEAN, committed : Opt(Seq(Rows)), pending : Opt(Seq(Rows)),
             quarantined : BOOLEAN, tombstone : BOOLEAN]
<1>1. {} \in Opt(Seq(Rows))
  BY OptNone
<1> QED BY <1>1 DEF NoRow

(* A row of somebody else has the type of a row.                           *)
LEMMA AlienType == Alien \in Rows
  BY DEF Alien, Rows

(* A projection shows at most one sequence of rows.                        *)
LEMMA ViewType ==
  ASSUME Types
  PROVE  View \in Opt(Seq(Rows))
<1>1. session \in Opt(Seq(Rows))
  BY DEF Types, HermesTypes
<1>2. \A rows \in session : Append(rows, Alien) \in Seq(Rows)
  BY <1>1, AlienType DEF Opt
<1>3. {Append(rows, Alien) : rows \in session} \in Opt(Seq(Rows))
  BY <1>1, <1>2 DEF Opt
<1> QED BY <1>1, <1>3 DEF View

(* The chain is one of at most three segments, of which the archive's own  *)
(* session is the first.                                                   *)
LEMMA ChainFacts ==
  ASSUME NEW t \in Chain
  PROVE  /\ t \in Seq(Sessions) /\ t # <<>> /\ Voice \in Elements(t)
         /\ \A k \in Elements(t) : k = Voice \/ (k \in Kin /\ kin[k].here)
<1> DEFINE one == CHOOSE k \in Continuations(Voice) : TRUE
           two == CHOOSE k \in Continuations(one) : TRUE
<1>1. \A s : Continuations(s) \subseteq {k \in Kin : kin[k].here}
  BY DEF Continuations, Children
<1>2. \A s : Cardinality(Continuations(s)) = 1 => Continuations(s) # {}
  <2>1. Cardinality({}) = 0
    BY FS_EmptySet
  <2> QED BY <2>1
<1>3. \/ t = <<Voice>>
      \/ t = <<one, Voice>> /\ Continuations(Voice) # {}
      \/ t = <<two, one, Voice>> /\ Continuations(Voice) # {} /\ Continuations(one) # {}
  BY <1>2 DEF Chain
<1>4. Continuations(Voice) # {} => one \in Kin /\ kin[one].here
  BY <1>1
<1>5. Continuations(one) # {} => two \in Kin /\ kin[two].here
  BY <1>1
<1> HIDE DEF one, two
<1>6. CASE t = <<Voice>>
  BY <1>6 DEF Elements, Sessions
<1>7. CASE t = <<one, Voice>> /\ Continuations(Voice) # {}
  BY <1>4, <1>7 DEF Elements, Sessions
<1>8. CASE t = <<two, one, Voice>> /\ Continuations(Voice) # {} /\ Continuations(one) # {}
  BY <1>4, <1>5, <1>8 DEF Elements, Sessions
<1> QED BY <1>3, <1>6, <1>7, <1>8

(* Removing a session keeps the types of Hermes.                           *)
LEMMA RemoveType ==
  ASSUME Types, NEW s, Remove(s)
  PROVE  KinType'
<1>1. {} \in Opt(Sessions)
  BY OptNone
<1> QED BY <1>1 DEF Types, KinType, Remove

(* Deriving a session keeps the type of the derived sessions.              *)
LEMMA DeriveType ==
  ASSUME Types, NEW s \in Sessions, NEW k \in Kin, NEW branch \in {{}, {s}}, Derive(s, k, branch)
  PROVE  KinType'
<1>1. {s} \in Opt(Sessions) /\ {} \in Opt(Sessions)
  BY OptNone, OptOne
<1>2. branch \in Opt(Sessions)
  <2>1. branch = {} \/ branch = {s}
    OBVIOUS
  <2> QED BY <1>1, <2>1
<1> QED BY <1>1, <1>2 DEF Types, KinType, Derive

(* Each step keeps the types of what realtime keeps.                       *)
LEMMA RealtimeTyped ==
  ASSUME Types, Next
  PROVE  RealtimeTypes'
<1> USE DEF Types
<1>1. ASSUME 
              FreezeBatch \/ GiveUp \/ RestartRealtime \/ AskForget \/ SendForget
      PROVE  RealtimeTypes'
  <2>1. CASE SendForget
    BY <2>1 DEF SendForget, RealtimeTypes
  <2>2. CASE FreezeBatch
    <3>1. batch' \in Seq(Rows)
      BY <2>2, BatchFacts DEF FreezeBatch, RealtimeTypes
    <3> QED BY <2>2, <3>1 DEF FreezeBatch, RealtimeTypes
  <2>3. CASE GiveUp
    BY <2>3, OptNone DEF GiveUp, RealtimeTypes
  <2>4. CASE RestartRealtime
    BY <2>4, OptNone DEF RestartRealtime, RealtimeTypes
  <2>5. CASE AskForget
    BY <2>5 DEF AskForget, RealtimeTypes
  <2> QED BY <1>1, <2>1, <2>2, <2>3, <2>4, <2>5
<1>2. ASSUME NEW c \in Calls, Send(c)
      PROVE  RealtimeTypes'
  BY <1>2, OptOne DEF Send, RealtimeTypes
<1>3. ASSUME NEW w \in Windows, AskReview(w)
      PROVE  RealtimeTypes'
  BY <1>3 DEF AskReview, RealtimeTypes
<1>4. ASSUME NEW b \in Openers,
              AlreadyOpen(b) \/ OpenRefused(b) \/ Bind(b) \/ ReleasePrevious(b) \/ Acquire(b)
           \/ LeaseHeld(b) \/ Create(b) \/ Read(b) \/ Settle(b) \/ SettleFails(b) \/ OpenFails(b)
      PROVE  RealtimeTypes'
  <2>1. CASE 
             AlreadyOpen(b) \/ Bind(b) \/ ReleasePrevious(b) \/ Acquire(b) \/ Create(b)
          \/ Read(b) \/ Settle(b)
    BY <2>1
      DEF AlreadyOpen, Opened, Bind, ReleasePrevious, Goto, Acquire, Create, Read, Settle,
          RealtimeTypes
  <2>2. CASE OpenRefused(b)
    BY <2>2, AnswerTypes DEF OpenRefused
  <2>3. CASE LeaseHeld(b)
    BY <2>3, AnswerTypes DEF LeaseHeld
  <2>4. CASE SettleFails(b)
    BY <2>4, AnswerTypes DEF SettleFails
  <2>5. CASE OpenFails(b)
    BY <2>5, AnswerTypes DEF OpenFails
  <2> QED BY <1>4, <2>1, <2>2, <2>3, <2>4, <2>5
<1>5. ASSUME NEW c \in Calls,
              ArchiveRefused(c) \/ BeginPending(c) \/ Write(c) \/ RolledBack(c) \/ Mismatch(c)
           \/ ClearPending(c) \/ Promote(c) \/ BeginFails(c) \/ WriteUnknown(c)
           \/ MismatchUnwritten(c) \/ RecordFails(c)
      PROVE  RealtimeTypes'
  <2>1. CASE BeginPending(c) \/ Write(c) \/ RolledBack(c)
    BY <2>1 DEF BeginPending, Write, Goto, RolledBack, RealtimeTypes
  <2>2. CASE ArchiveRefused(c)
    BY <2>2, ReplyTypes DEF ArchiveRefused
  <2>3. CASE Mismatch(c)
    BY <2>3, ReplyTypes DEF Mismatch
  <2>4. CASE ClearPending(c)
    BY <2>4, ReplyTypes DEF ClearPending
  <2>5. CASE Promote(c)
    BY <2>5, ReplyTypes DEF Promote
  <2>6. CASE BeginFails(c)
    BY <2>6, ReplyTypes DEF BeginFails
  <2>7. CASE WriteUnknown(c)
    BY <2>7, ReplyTypes DEF WriteUnknown
  <2>8. CASE MismatchUnwritten(c)
    BY <2>8, ReplyTypes DEF MismatchUnwritten
  <2>9. CASE RecordFails(c)
    BY <2>9, ReplyTypes DEF RecordFails
  <2> QED BY <1>5, <2>1, <2>2, <2>3, <2>4, <2>5, <2>6, <2>7, <2>8, <2>9
<1>6. ASSUME 
              RefuseReview \/ ReviewAnswered \/ JoinPrevious \/ AdmitReview \/ AdmitRefused
           \/ StartReview \/ Unwind \/ ReserveFails \/ AcceptFails \/ ThreadFinishes
           \/ ThreadExits \/ Finished
      PROVE  RealtimeTypes'
  <2>1. CASE 
             RefuseReview \/ ReviewAnswered \/ JoinPrevious \/ AdmitReview \/ AdmitRefused
          \/ StartReview \/ Unwind \/ ReserveFails \/ AcceptFails \/ ThreadFinishes
          \/ ThreadExits \/ Finished
    BY <2>1
      DEF RefuseReview, ReviewAnswered, RefusedReview, JoinPrevious, AdmitReview, Goto,
          AdmitRefused, StartReview, Unwind, ReserveFails, AcceptFails, ThreadFinishes,
          ThreadExits, Finished, RealtimeTypes
  <2> QED BY <1>6, <2>1
<1>7. ASSUME 
              ForgetUnbound \/ Tombstone \/ ReconcileAgain \/ CheckDelete \/ DeferDelete
           \/ AlreadyComplete \/ CaptureTargets \/ CaptureRefused \/ CaptureCopies \/ SetManifest
           \/ DeleteTarget \/ DeleteRefused \/ VerifyAbsent \/ VerifyCopies \/ RetireLease
           \/ CompleteDelete \/ DeleteFails
      PROVE  RealtimeTypes'
  <2>1. CASE 
             ForgetUnbound \/ Tombstone \/ ReconcileAgain \/ CheckDelete \/ CaptureTargets
          \/ CaptureCopies \/ SetManifest \/ DeleteTarget \/ RetireLease
    BY <2>1
      DEF ForgetUnbound, Tombstone, ReconcileAgain, CheckDelete, CaptureTargets, CaptureCopies,
          SetManifest, Goto, DeleteTarget, Remove, RetireLease, RealtimeTypes
  <2>2. CASE DeferDelete
    BY <2>2 DEF DeferDelete, Settled, RealtimeTypes
  <2>3. CASE AlreadyComplete
    BY <2>3 DEF AlreadyComplete, Settled, RealtimeTypes
  <2>4. CASE CaptureRefused
    BY <2>4 DEF CaptureRefused, Settled, RealtimeTypes
  <2>5. CASE DeleteRefused
    BY <2>5 DEF DeleteRefused, Settled, RealtimeTypes
  <2>6. CASE VerifyAbsent
    BY <2>6 DEF VerifyAbsent, Settled, RealtimeTypes
  <2>7. CASE VerifyCopies
    BY <2>7 DEF VerifyCopies, Settled, RealtimeTypes
  <2>8. CASE CompleteDelete
    BY <2>8 DEF CompleteDelete, Settled, RealtimeTypes
  <2>9. CASE DeleteFails
    BY <2>9 DEF DeleteFails, Settled, RealtimeTypes
  <2> QED BY <1>7, <2>1, <2>2, <2>3, <2>4, <2>5, <2>6, <2>7, <2>8, <2>9
<1>8. ASSUME 
              OthersWrite \/ OthersDelete \/ OthersLease \/ OthersRelease \/ LeaseLost
      PROVE  RealtimeTypes'
  <2>1. CASE OthersWrite \/ OthersDelete \/ OthersLease \/ OthersRelease \/ LeaseLost
    BY <2>1
      DEF OthersWrite, OthersDelete, Remove, OthersLease, OthersRelease, LeaseLost, RealtimeTypes
  <2> QED BY <1>8, <2>1
<1>9. ASSUME NEW s \in Sessions, NEW k \in Kin,
              Branch(s, k) \/ Fork(s, k) \/ Compress(s, k)
      PROVE  RealtimeTypes'
  <2>1. CASE Branch(s, k) \/ Fork(s, k) \/ Compress(s, k)
    BY <2>1 DEF Branch, Fork, Compress, RealtimeTypes
  <2> QED BY <1>9, <2>1
<1>10. ASSUME NEW k \in Kin, RemoveKin(k)
      PROVE  RealtimeTypes'
  BY <1>10 DEF RemoveKin, Remove, RealtimeTypes
<1>11. ASSUME 
              Crash \/ BeginClose \/ CloseReviews \/ Close \/ Start
      PROVE  RealtimeTypes'
  <2>1. CASE CloseReviews \/ Close \/ Start
    BY <2>1 DEF CloseReviews, Close, Start, RealtimeTypes
  <2>2. CASE Crash
    BY <2>2, OptNone DEF Crash, Gone, RealtimeTypes
  <2>3. CASE BeginClose
    BY <2>3, OptNone DEF BeginClose, RealtimeTypes
  <2> QED BY <1>11, <2>1, <2>2, <2>3
<1> QED BY <1>1, <1>2, <1>3, <1>4, <1>5, <1>6, <1>7, <1>8, <1>9, <1>10, <1>11
  DEF Next, Opening, Archiving, Reviewing, Deleting, Failing, Others

(* Each step keeps the types of the service and its turn.                  *)
LEMMA TurnTyped ==
  ASSUME Types, Next
  PROVE  TurnTypes'
<1> USE DEF Types
<1>1. ASSUME 
              FreezeBatch \/ GiveUp \/ RestartRealtime \/ AskForget \/ SendForget
      PROVE  TurnTypes'
  <2>1. CASE FreezeBatch \/ GiveUp \/ RestartRealtime \/ AskForget \/ SendForget
    BY <2>1 DEF FreezeBatch, GiveUp, RestartRealtime, AskForget, SendForget, TurnTypes
  <2> QED BY <1>1, <2>1
<1>2. ASSUME NEW c \in Calls, Send(c)
      PROVE  TurnTypes'
  BY <1>2 DEF Send, TurnTypes
<1>3. ASSUME NEW w \in Windows, AskReview(w)
      PROVE  TurnTypes'
  BY <1>3 DEF AskReview, TurnTypes
<1>4. ASSUME NEW b \in Openers,
              AlreadyOpen(b) \/ OpenRefused(b) \/ Bind(b) \/ ReleasePrevious(b) \/ Acquire(b)
           \/ LeaseHeld(b) \/ Create(b) \/ Read(b) \/ Settle(b) \/ SettleFails(b) \/ OpenFails(b)
      PROVE  TurnTypes'
  <2>1. CASE AlreadyOpen(b) \/ OpenRefused(b) \/ Create(b)
    BY <2>1 DEF AlreadyOpen, Opened, OpenRefused, Answer, Reply, Create, TurnTypes
  <2>2. CASE Bind(b)
    BY <2>2, NewTurnType DEF Bind, TurnTypes, OpeningSteps, ArchivingSteps, ReviewingSteps,
         DeletingSteps, Openers, Reconcilers
  <2>3. CASE ReleasePrevious(b)
    BY <2>3, GotoType DEF ReleasePrevious, TurnTypes, OpeningSteps, ArchivingSteps,
         ReviewingSteps, DeletingSteps
  <2>4. CASE Acquire(b)
    BY <2>4, GotoType DEF Acquire, TurnTypes, OpeningSteps, ArchivingSteps, ReviewingSteps,
         DeletingSteps
  <2>5. CASE LeaseHeld(b)
    BY <2>5, NoTurnType DEF LeaseHeld, TurnTypes
  <2>6. CASE Read(b)
    <3>1. View \in Opt(Seq(Rows))
      BY ViewType
    <3> QED BY <2>6, <3>1 DEF Read, TurnTypes, Turns
  <2>7. CASE Settle(b)
    BY <2>7, NoTurnType DEF Settle, TurnTypes
  <2>8. CASE SettleFails(b)
    BY <2>8, NoTurnType DEF SettleFails, TurnTypes
  <2>9. CASE OpenFails(b)
    BY <2>9, NoTurnType DEF OpenFails, TurnTypes
  <2> QED BY <1>4, <2>1, <2>2, <2>3, <2>4, <2>5, <2>6, <2>7, <2>8, <2>9
<1>5. ASSUME NEW c \in Calls,
              ArchiveRefused(c) \/ BeginPending(c) \/ Write(c) \/ RolledBack(c) \/ Mismatch(c)
           \/ ClearPending(c) \/ Promote(c) \/ BeginFails(c) \/ WriteUnknown(c)
           \/ MismatchUnwritten(c) \/ RecordFails(c)
      PROVE  TurnTypes'
  <2>1. CASE ArchiveRefused(c) \/ BeginFails(c)
    BY <2>1 DEF ArchiveRefused, Reply, BeginFails, TurnTypes
  <2>2. CASE BeginPending(c)
    BY <2>2, NewTurnType DEF BeginPending, TurnTypes, OpeningSteps, ArchivingSteps,
         ReviewingSteps, DeletingSteps, Openers, Reconcilers
  <2>3. CASE Write(c)
    BY <2>3, GotoType DEF Write, TurnTypes, OpeningSteps, ArchivingSteps, ReviewingSteps,
         DeletingSteps
  <2>4. CASE RolledBack(c)
    BY <2>4 DEF RolledBack, TurnTypes, Turns
  <2>5. CASE Mismatch(c)
    BY <2>5, NoTurnType DEF Mismatch, TurnTypes
  <2>6. CASE ClearPending(c)
    BY <2>6, NoTurnType DEF ClearPending, TurnTypes
  <2>7. CASE Promote(c)
    BY <2>7, NoTurnType DEF Promote, TurnTypes
  <2>8. CASE WriteUnknown(c)
    BY <2>8, NoTurnType DEF WriteUnknown, TurnTypes
  <2>9. CASE MismatchUnwritten(c)
    BY <2>9, NoTurnType DEF MismatchUnwritten, TurnTypes
  <2>10. CASE RecordFails(c)
    BY <2>10, NoTurnType DEF RecordFails, TurnTypes
  <2> QED BY <1>5, <2>1, <2>2, <2>3, <2>4, <2>5, <2>6, <2>7, <2>8, <2>9, <2>10
<1>6. ASSUME 
              RefuseReview \/ ReviewAnswered \/ JoinPrevious \/ AdmitReview \/ AdmitRefused
           \/ StartReview \/ Unwind \/ ReserveFails \/ AcceptFails \/ ThreadFinishes
           \/ ThreadExits \/ Finished
      PROVE  TurnTypes'
  <2>1. CASE RefuseReview \/ ReviewAnswered \/ ThreadFinishes \/ ThreadExits \/ Finished
    BY <2>1
      DEF RefuseReview, ReviewAnswered, RefusedReview, ThreadFinishes, ThreadExits, Finished,
          TurnTypes
  <2>2. CASE JoinPrevious
    BY <2>2, NewTurnType DEF JoinPrevious, TurnTypes, OpeningSteps, ArchivingSteps,
         ReviewingSteps, DeletingSteps, Openers, Reconcilers
  <2>3. CASE AdmitReview
    BY <2>3, GotoType DEF AdmitReview, TurnTypes, OpeningSteps, ArchivingSteps, ReviewingSteps,
         DeletingSteps
  <2>4. CASE AdmitRefused
    BY <2>4, NoTurnType DEF AdmitRefused, TurnTypes
  <2>5. CASE StartReview
    BY <2>5, NoTurnType DEF StartReview, TurnTypes
  <2>6. CASE Unwind
    BY <2>6, NoTurnType DEF Unwind, TurnTypes
  <2>7. CASE ReserveFails
    BY <2>7, NoTurnType DEF ReserveFails, TurnTypes
  <2>8. CASE AcceptFails
    BY <2>8, GotoType DEF AcceptFails, TurnTypes, OpeningSteps, ArchivingSteps, ReviewingSteps,
         DeletingSteps
  <2> QED BY <1>6, <2>1, <2>2, <2>3, <2>4, <2>5, <2>6, <2>7, <2>8
<1>7. ASSUME 
              ForgetUnbound \/ Tombstone \/ ReconcileAgain \/ CheckDelete \/ DeferDelete
           \/ AlreadyComplete \/ CaptureTargets \/ CaptureRefused \/ CaptureCopies \/ SetManifest
           \/ DeleteTarget \/ DeleteRefused \/ VerifyAbsent \/ VerifyCopies \/ RetireLease
           \/ CompleteDelete \/ DeleteFails
      PROVE  TurnTypes'
  <2>1. CASE ForgetUnbound
    BY <2>1 DEF ForgetUnbound, TurnTypes
  <2>2. CASE Tombstone
    BY <2>2, NewTurnType DEF Tombstone, TurnTypes, OpeningSteps, ArchivingSteps, ReviewingSteps,
         DeletingSteps, Openers, Reconcilers
  <2>3. CASE ReconcileAgain
    BY <2>3, NewTurnType DEF ReconcileAgain, TurnTypes, OpeningSteps, ArchivingSteps,
         ReviewingSteps, DeletingSteps, Openers, Reconcilers
  <2>4. CASE CheckDelete
    <3>1. CASE deletion.targets = {}
      BY <2>4, <3>1 DEF CheckDelete, TurnTypes, Turns
    <3>2. CASE deletion.targets # {}
      <4>1. (CHOOSE t \in deletion.targets : TRUE) \in Seq(Sessions)
        BY <3>2 DEF DeletionTypes, Opt
      <4> QED BY <2>4, <3>2, <4>1 DEF CheckDelete, TurnTypes, Turns
    <3> QED BY <3>1, <3>2
  <2>5. CASE DeferDelete
    BY <2>5, NoTurnType DEF DeferDelete, Settled, TurnTypes
  <2>6. CASE AlreadyComplete
    BY <2>6, NoTurnType DEF AlreadyComplete, Settled, TurnTypes
  <2>7. CASE CaptureTargets
    <3>1. CASE session = {}
      BY <2>7, <3>1 DEF CaptureTargets, TurnTypes, Turns
    <3>2. CASE session # {}
      <4>1. PICK t \in Chain : turn' = [turn EXCEPT !.at = "copies", !.targets = t]
        BY <2>7, <3>2 DEF CaptureTargets
      <4>2. t \in Seq(Sessions)
        BY <4>1, ChainFacts
      <4> QED BY <2>7, <4>1, <4>2 DEF CaptureTargets, TurnTypes, Turns
    <3> QED BY <3>1, <3>2
  <2>8. CASE CaptureRefused
    BY <2>8, NoTurnType DEF CaptureRefused, Settled, TurnTypes
  <2>9. CASE CaptureCopies
    <3>1. CopiesOf(Elements(turn.targets)) \subseteq Kin
      BY DEF CopiesOf
    <3> QED BY <2>9, <3>1 DEF CaptureCopies, TurnTypes, Turns
  <2>10. CASE SetManifest
    BY <2>10, GotoType DEF SetManifest, TurnTypes, OpeningSteps, ArchivingSteps, ReviewingSteps,
         DeletingSteps
  <2>11. CASE DeleteTarget
    <3>1. Tail(turn.targets) \in Seq(Sessions)
      BY <2>11 DEF DeleteTarget, TurnTypes, Turns
    <3> QED BY <2>11, <3>1 DEF DeleteTarget, TurnTypes, Turns
  <2>12. CASE DeleteRefused
    BY <2>12, NoTurnType DEF DeleteRefused, Settled, TurnTypes
  <2>13. CASE VerifyAbsent
    BY <2>13, NoTurnType, GotoType DEF VerifyAbsent, Settled, TurnTypes, DeletingSteps
  <2>14. CASE VerifyCopies
    BY <2>14, NoTurnType, GotoType DEF VerifyCopies, Settled, TurnTypes, DeletingSteps
  <2>15. CASE RetireLease
    BY <2>15, GotoType DEF RetireLease, TurnTypes, OpeningSteps, ArchivingSteps, ReviewingSteps,
         DeletingSteps
  <2>16. CASE CompleteDelete
    BY <2>16, NoTurnType DEF CompleteDelete, Settled, TurnTypes
  <2>17. CASE DeleteFails
    BY <2>17, NoTurnType DEF DeleteFails, Settled, TurnTypes
  <2> QED BY <1>7, <2>1, <2>2, <2>3, <2>4, <2>5, <2>6, <2>7, <2>8, <2>9, <2>10, <2>11, <2>12,
        <2>13,
      <2>14, <2>15, <2>16, <2>17
<1>8. ASSUME 
              OthersWrite \/ OthersDelete \/ OthersLease \/ OthersRelease \/ LeaseLost
      PROVE  TurnTypes'
  <2>1. CASE OthersWrite \/ OthersDelete \/ OthersLease \/ OthersRelease \/ LeaseLost
    BY <2>1
      DEF OthersWrite, OthersDelete, Remove, OthersLease, OthersRelease, LeaseLost, TurnTypes
  <2> QED BY <1>8, <2>1
<1>9. ASSUME NEW s \in Sessions, NEW k \in Kin,
              Branch(s, k) \/ Fork(s, k) \/ Compress(s, k)
      PROVE  TurnTypes'
  <2>1. CASE Branch(s, k) \/ Fork(s, k) \/ Compress(s, k)
    BY <2>1 DEF Branch, Fork, Compress, TurnTypes
  <2> QED BY <1>9, <2>1
<1>10. ASSUME NEW k \in Kin, RemoveKin(k)
      PROVE  TurnTypes'
  BY <1>10 DEF RemoveKin, Remove, TurnTypes
<1>11. ASSUME 
              Crash \/ BeginClose \/ CloseReviews \/ Close \/ Start
      PROVE  TurnTypes'
  <2>1. CASE BeginClose \/ CloseReviews \/ Close
    BY <2>1 DEF BeginClose, CloseReviews, Close, TurnTypes
  <2>2. CASE Crash
    BY <2>2, NoTurnType DEF Crash, TurnTypes
  <2>3. CASE Start
    <3>1. [NoTurn EXCEPT !.by = "load", !.at = "check"] \in Turns
      BY NewTurnType DEF DeletingSteps, Reconcilers
    <3>2. turn' = [NoTurn EXCEPT !.by = "load", !.at = "check"] \/ turn' = turn
      BY <2>3 DEF Start
    <3>3. host' \in {"starting", "up"}
      BY <2>3 DEF Start
    <3> QED BY <2>3, <3>1, <3>2, <3>3 DEF TurnTypes
  <2> QED BY <1>11, <2>1, <2>2, <2>3
<1> QED BY <1>1, <1>2, <1>3, <1>4, <1>5, <1>6, <1>7, <1>8, <1>9, <1>10, <1>11
  DEF Next, Opening, Archiving, Reviewing, Deleting, Failing, Others

(* Each step keeps the types of the requests.                              *)
LEMMA RequestsTyped ==
  ASSUME Types, Next
  PROVE  RequestTypes'
<1> USE DEF Types
<1>1. ASSUME 
              FreezeBatch \/ GiveUp \/ RestartRealtime \/ AskForget \/ SendForget
      PROVE  RequestTypes'
  <2>1. CASE FreezeBatch \/ GiveUp \/ RestartRealtime \/ AskForget \/ SendForget
    BY <2>1, NoReviewType
      DEF FreezeBatch, GiveUp, RestartRealtime, AskForget, SendForget, RequestTypes
  <2> QED BY <1>1, <2>1
<1>2. ASSUME NEW c \in Calls, Send(c)
      PROVE  RequestTypes'
  <2>1. [at |-> "open", rows |-> batch] \in [at : {"none", "open", "archive"}, rows : Seq(Rows)]
    BY DEF RealtimeTypes
  <2> QED BY <1>2, <2>1 DEF Send, RequestTypes
<1>3. ASSUME NEW w \in Windows, AskReview(w)
      PROVE  RequestTypes'
  BY <1>3, NoReviewType DEF AskReview, RequestTypes
<1>4. ASSUME NEW b \in Openers,
              AlreadyOpen(b) \/ OpenRefused(b) \/ Bind(b) \/ ReleasePrevious(b) \/ Acquire(b)
           \/ LeaseHeld(b) \/ Create(b) \/ Read(b) \/ Settle(b) \/ SettleFails(b) \/ OpenFails(b)
      PROVE  RequestTypes'
  <2>1. CASE Bind(b) \/ ReleasePrevious(b) \/ Acquire(b) \/ Create(b) \/ Read(b)
    BY <2>1, NoReviewType DEF Bind, ReleasePrevious, Goto, Acquire, Create, Read, RequestTypes
  <2>2. CASE AlreadyOpen(b)
    BY <2>2, OpenedTypes DEF AlreadyOpen, RequestTypes
  <2>3. CASE OpenRefused(b)
    BY <2>3, AnswerTypes DEF OpenRefused, RequestTypes
  <2>4. CASE LeaseHeld(b)
    BY <2>4, AnswerTypes DEF LeaseHeld, RequestTypes
  <2>5. CASE Settle(b)
    BY <2>5, OpenedTypes DEF Settle, RequestTypes
  <2>6. CASE SettleFails(b)
    BY <2>6, AnswerTypes DEF SettleFails, RequestTypes
  <2>7. CASE OpenFails(b)
    BY <2>7, AnswerTypes DEF OpenFails, RequestTypes
  <2> QED BY <1>4, <2>1, <2>2, <2>3, <2>4, <2>5, <2>6, <2>7
<1>5. ASSUME NEW c \in Calls,
              ArchiveRefused(c) \/ BeginPending(c) \/ Write(c) \/ RolledBack(c) \/ Mismatch(c)
           \/ ClearPending(c) \/ Promote(c) \/ BeginFails(c) \/ WriteUnknown(c)
           \/ MismatchUnwritten(c) \/ RecordFails(c)
      PROVE  RequestTypes'
  <2>1. CASE BeginPending(c) \/ Write(c) \/ RolledBack(c)
    BY <2>1, NoReviewType DEF BeginPending, Write, Goto, RolledBack, RequestTypes
  <2>2. CASE ArchiveRefused(c)
    BY <2>2, ReplyTypes DEF ArchiveRefused, RequestTypes
  <2>3. CASE Mismatch(c)
    BY <2>3, ReplyTypes DEF Mismatch, RequestTypes
  <2>4. CASE ClearPending(c)
    BY <2>4, ReplyTypes DEF ClearPending, RequestTypes
  <2>5. CASE Promote(c)
    BY <2>5, ReplyTypes DEF Promote, RequestTypes
  <2>6. CASE BeginFails(c)
    BY <2>6, ReplyTypes DEF BeginFails, RequestTypes
  <2>7. CASE WriteUnknown(c)
    BY <2>7, ReplyTypes DEF WriteUnknown, RequestTypes
  <2>8. CASE MismatchUnwritten(c)
    BY <2>8, ReplyTypes DEF MismatchUnwritten, RequestTypes
  <2>9. CASE RecordFails(c)
    BY <2>9, ReplyTypes DEF RecordFails, RequestTypes
  <2> QED BY <1>5, <2>1, <2>2, <2>3, <2>4, <2>5, <2>6, <2>7, <2>8, <2>9
<1>6. ASSUME 
              RefuseReview \/ ReviewAnswered \/ JoinPrevious \/ AdmitReview \/ AdmitRefused
           \/ StartReview \/ Unwind \/ ReserveFails \/ AcceptFails \/ ThreadFinishes
           \/ ThreadExits \/ Finished
      PROVE  RequestTypes'
  <2>1. CASE 
             RefuseReview \/ ReviewAnswered \/ JoinPrevious \/ AdmitReview \/ AdmitRefused
          \/ StartReview \/ Unwind \/ ReserveFails \/ AcceptFails \/ ThreadFinishes
          \/ ThreadExits \/ Finished
    BY <2>1, NoReviewType
      DEF RefuseReview, ReviewAnswered, RefusedReview, JoinPrevious, AdmitReview, Goto,
          AdmitRefused, StartReview, Unwind, ReserveFails, AcceptFails, ThreadFinishes,
          ThreadExits, Finished, RequestTypes
  <2> QED BY <1>6, <2>1
<1>7. ASSUME 
              ForgetUnbound \/ Tombstone \/ ReconcileAgain \/ CheckDelete \/ DeferDelete
           \/ AlreadyComplete \/ CaptureTargets \/ CaptureRefused \/ CaptureCopies \/ SetManifest
           \/ DeleteTarget \/ DeleteRefused \/ VerifyAbsent \/ VerifyCopies \/ RetireLease
           \/ CompleteDelete \/ DeleteFails
      PROVE  RequestTypes'
  <2>1. CASE 
             ForgetUnbound \/ Tombstone \/ ReconcileAgain \/ CheckDelete \/ DeferDelete
          \/ AlreadyComplete \/ CaptureTargets \/ CaptureRefused \/ CaptureCopies \/ SetManifest
          \/ DeleteTarget \/ DeleteRefused \/ VerifyAbsent \/ VerifyCopies \/ RetireLease
          \/ CompleteDelete \/ DeleteFails
    BY <2>1, NoReviewType
      DEF ForgetUnbound, Tombstone, ReconcileAgain, CheckDelete, DeferDelete, Settled,
          AlreadyComplete, CaptureTargets, CaptureRefused, CaptureCopies, SetManifest, Goto,
          DeleteTarget, Remove, DeleteRefused, VerifyAbsent, VerifyCopies, RetireLease,
          CompleteDelete, DeleteFails, RequestTypes
  <2> QED BY <1>7, <2>1
<1>8. ASSUME 
              OthersWrite \/ OthersDelete \/ OthersLease \/ OthersRelease \/ LeaseLost
      PROVE  RequestTypes'
  <2>1. CASE OthersWrite \/ OthersDelete \/ OthersLease \/ OthersRelease \/ LeaseLost
    BY <2>1, NoReviewType
      DEF OthersWrite, OthersDelete, Remove, OthersLease, OthersRelease, LeaseLost, RequestTypes
  <2> QED BY <1>8, <2>1
<1>9. ASSUME NEW s \in Sessions, NEW k \in Kin,
              Branch(s, k) \/ Fork(s, k) \/ Compress(s, k)
      PROVE  RequestTypes'
  <2>1. CASE Branch(s, k) \/ Fork(s, k) \/ Compress(s, k)
    BY <2>1, NoReviewType DEF Branch, Fork, Compress, RequestTypes
  <2> QED BY <1>9, <2>1
<1>10. ASSUME NEW k \in Kin, RemoveKin(k)
      PROVE  RequestTypes'
  BY <1>10, NoReviewType DEF RemoveKin, Remove, RequestTypes
<1>11. ASSUME 
              Crash \/ BeginClose \/ CloseReviews \/ Close \/ Start
      PROVE  RequestTypes'
  <2>1. CASE CloseReviews \/ Close \/ Start
    BY <2>1, NoReviewType DEF CloseReviews, Close, Start, RequestTypes
  <2>2. CASE Crash
    <3>1. NoCall \in [at : {"none", "open", "archive"}, rows : Seq(Rows)]
      BY DEF NoCall
    <3>2. NoReview \in [at : {"none", "open", "take"}, window : Windows \union {0}]
      BY DEF NoReview
    <3> QED BY <2>2, <3>1, <3>2 DEF Crash, Gone, RequestTypes
  <2>3. CASE BeginClose
    <3>1. NoCall \in [at : {"none", "open", "archive"}, rows : Seq(Rows)]
      BY DEF NoCall
    <3>2. NoReview \in [at : {"none", "open", "take"}, window : Windows \union {0}]
      BY DEF NoReview
    <3> QED BY <2>3, <3>1, <3>2 DEF BeginClose, RequestTypes
  <2> QED BY <1>11, <2>1, <2>2, <2>3
<1> QED BY <1>1, <1>2, <1>3, <1>4, <1>5, <1>6, <1>7, <1>8, <1>9, <1>10, <1>11
  DEF Next, Opening, Archiving, Reviewing, Deleting, Failing, Others

(* Each step keeps the types of what the companion has in memory.          *)
LEMMA MemoryTyped ==
  ASSUME Types, TurnHeld, Next
  PROVE  MemoryTypes'
<1> USE DEF Types
<1>1. ASSUME 
              FreezeBatch \/ GiveUp \/ RestartRealtime \/ AskForget \/ SendForget
      PROVE  MemoryTypes'
  <2>1. CASE FreezeBatch \/ GiveUp \/ RestartRealtime \/ AskForget \/ SendForget
    BY <2>1 DEF FreezeBatch, GiveUp, RestartRealtime, AskForget, SendForget, MemoryTypes
  <2> QED BY <1>1, <2>1
<1>2. ASSUME NEW c \in Calls, Send(c)
      PROVE  MemoryTypes'
  BY <1>2 DEF Send, MemoryTypes
<1>3. ASSUME NEW w \in Windows, AskReview(w)
      PROVE  MemoryTypes'
  BY <1>3 DEF AskReview, MemoryTypes
<1>4. ASSUME NEW b \in Openers,
              AlreadyOpen(b) \/ OpenRefused(b) \/ Bind(b) \/ ReleasePrevious(b) \/ Acquire(b)
           \/ LeaseHeld(b) \/ Create(b) \/ Read(b) \/ Settle(b) \/ SettleFails(b) \/ OpenFails(b)
      PROVE  MemoryTypes'
  <2>1. CASE 
             AlreadyOpen(b) \/ OpenRefused(b) \/ Bind(b) \/ LeaseHeld(b) \/ Create(b) \/ Read(b)
    BY <2>1
      DEF AlreadyOpen, Opened, OpenRefused, Answer, Reply, Bind, LeaseHeld, Create, Read,
          MemoryTypes
  <2>2. CASE ReleasePrevious(b)
    BY <2>2, OptNone DEF ReleasePrevious, MemoryTypes
  <2>3. CASE Acquire(b)
    BY <2>3, OptOne DEF Acquire, MemoryTypes
  <2>4. CASE Settle(b)
    BY <2>4, OptOne DEF Settle, MemoryTypes
  <2>5. CASE SettleFails(b)
    BY <2>5, OptNone DEF SettleFails, MemoryTypes
  <2>6. CASE OpenFails(b)
    BY <2>6, OptNone DEF OpenFails, MemoryTypes
  <2> QED BY <1>4, <2>1, <2>2, <2>3, <2>4, <2>5, <2>6
<1>5. ASSUME NEW c \in Calls,
              ArchiveRefused(c) \/ BeginPending(c) \/ Write(c) \/ RolledBack(c) \/ Mismatch(c)
           \/ ClearPending(c) \/ Promote(c) \/ BeginFails(c) \/ WriteUnknown(c)
           \/ MismatchUnwritten(c) \/ RecordFails(c)
      PROVE  MemoryTypes'
  <2>1. CASE 
             ArchiveRefused(c) \/ BeginPending(c) \/ Write(c) \/ RolledBack(c) \/ Promote(c)
          \/ BeginFails(c)
    BY <2>1
      DEF ArchiveRefused, Reply, BeginPending, Write, Goto, RolledBack, Promote, BeginFails,
          MemoryTypes
  <2>2. CASE Mismatch(c)
    BY <2>2, UnreadyType DEF Mismatch, MemoryTypes
  <2>3. CASE ClearPending(c)
    BY <2>3, UnreadyType DEF ClearPending, MemoryTypes
  <2>4. CASE WriteUnknown(c)
    BY <2>4, UnreadyType DEF WriteUnknown, MemoryTypes
  <2>5. CASE MismatchUnwritten(c)
    BY <2>5, UnreadyType DEF MismatchUnwritten, MemoryTypes
  <2>6. CASE RecordFails(c)
    BY <2>6, UnreadyType DEF RecordFails, MemoryTypes
  <2> QED BY <1>5, <2>1, <2>2, <2>3, <2>4, <2>5, <2>6
<1>6. ASSUME 
              RefuseReview \/ ReviewAnswered \/ JoinPrevious \/ AdmitReview \/ AdmitRefused
           \/ StartReview \/ Unwind \/ ReserveFails \/ AcceptFails \/ ThreadFinishes
           \/ ThreadExits \/ Finished
      PROVE  MemoryTypes'
  <2>1. CASE 
             RefuseReview \/ ReviewAnswered \/ AdmitReview \/ ReserveFails \/ ThreadFinishes
          \/ ThreadExits \/ Finished
    BY <2>1
      DEF RefuseReview, ReviewAnswered, RefusedReview, AdmitReview, Goto, ReserveFails,
          ThreadFinishes, ThreadExits, Finished, MemoryTypes
  <2>2. CASE JoinPrevious
    BY <2>2, OptNone DEF JoinPrevious, MemoryTypes
  <2>3. CASE AdmitRefused
    BY <2>3, UnreadyType DEF AdmitRefused, MemoryTypes
  <2>4. CASE StartReview
    <3>1. rcall.window \in Windows
      BY <2>4 DEF StartReview, Holds, TurnHeld
    <3> QED BY <2>4, <3>1, OptOne DEF StartReview, MemoryTypes
  <2>5. CASE Unwind
    BY <2>5, OptNone DEF Unwind, MemoryTypes
  <2>6. CASE AcceptFails
    <3>1. rcall.window \in Windows
      BY <2>6 DEF AcceptFails, Holds, TurnHeld
    <3> QED BY <2>6, <3>1, OptOne DEF AcceptFails, MemoryTypes
  <2> QED BY <1>6, <2>1, <2>2, <2>3, <2>4, <2>5, <2>6
<1>7. ASSUME 
              ForgetUnbound \/ Tombstone \/ ReconcileAgain \/ CheckDelete \/ DeferDelete
           \/ AlreadyComplete \/ CaptureTargets \/ CaptureRefused \/ CaptureCopies \/ SetManifest
           \/ DeleteTarget \/ DeleteRefused \/ VerifyAbsent \/ VerifyCopies \/ RetireLease
           \/ CompleteDelete \/ DeleteFails
      PROVE  MemoryTypes'
  <2>1. CASE 
             ForgetUnbound \/ ReconcileAgain \/ CheckDelete \/ DeferDelete \/ AlreadyComplete
          \/ CaptureTargets \/ CaptureRefused \/ CaptureCopies \/ SetManifest \/ DeleteTarget
          \/ DeleteRefused \/ VerifyAbsent \/ VerifyCopies \/ CompleteDelete \/ DeleteFails
    BY <2>1
      DEF ForgetUnbound, ReconcileAgain, CheckDelete, DeferDelete, Settled, AlreadyComplete,
          CaptureTargets, CaptureRefused, CaptureCopies, SetManifest, Goto, DeleteTarget, Remove,
          DeleteRefused, VerifyAbsent, VerifyCopies, CompleteDelete, DeleteFails, MemoryTypes
  <2>2. CASE Tombstone
    BY <2>2, UnreadyType DEF Tombstone, MemoryTypes
  <2>3. CASE RetireLease
    BY <2>3, OptNone DEF RetireLease, MemoryTypes
  <2> QED BY <1>7, <2>1, <2>2, <2>3
<1>8. ASSUME 
              OthersWrite \/ OthersDelete \/ OthersLease \/ OthersRelease \/ LeaseLost
      PROVE  MemoryTypes'
  <2>1. CASE OthersWrite \/ OthersDelete \/ OthersLease \/ OthersRelease
    BY <2>1 DEF OthersWrite, OthersDelete, Remove, OthersLease, OthersRelease, MemoryTypes
  <2>2. CASE LeaseLost
    BY <2>2, OptOne DEF LeaseLost, MemoryTypes
  <2> QED BY <1>8, <2>1, <2>2
<1>9. ASSUME NEW s \in Sessions, NEW k \in Kin,
              Branch(s, k) \/ Fork(s, k) \/ Compress(s, k)
      PROVE  MemoryTypes'
  <2>1. CASE Branch(s, k) \/ Fork(s, k) \/ Compress(s, k)
    BY <2>1 DEF Branch, Fork, Compress, MemoryTypes
  <2> QED BY <1>9, <2>1
<1>10. ASSUME NEW k \in Kin, RemoveKin(k)
      PROVE  MemoryTypes'
  BY <1>10 DEF RemoveKin, Remove, MemoryTypes
<1>11. ASSUME 
              Crash \/ BeginClose \/ CloseReviews \/ Close \/ Start
      PROVE  MemoryTypes'
  <2>1. CASE BeginClose \/ Start
    BY <2>1 DEF BeginClose, Start, MemoryTypes
  <2>2. CASE Crash
    BY <2>2, OptNone DEF Crash, MemoryTypes
  <2>3. CASE CloseReviews
    BY <2>3, OptNone DEF CloseReviews, MemoryTypes
  <2>4. CASE Close
    BY <2>4, OptNone DEF Close, MemoryTypes
  <2> QED BY <1>11, <2>1, <2>2, <2>3, <2>4
<1> QED BY <1>1, <1>2, <1>3, <1>4, <1>5, <1>6, <1>7, <1>8, <1>9, <1>10, <1>11
  DEF Next, Opening, Archiving, Reviewing, Deleting, Failing, Others

(* Each step keeps the type of the row.                                    *)
LEMMA RowTyped ==
  ASSUME Types, Next
  PROVE  RowType'
<1> USE DEF Types
<1>1. ASSUME 
              FreezeBatch \/ GiveUp \/ RestartRealtime \/ AskForget \/ SendForget
      PROVE  RowType'
  <2>1. CASE FreezeBatch \/ GiveUp \/ RestartRealtime \/ AskForget \/ SendForget
    BY <2>1 DEF FreezeBatch, GiveUp, RestartRealtime, AskForget, SendForget, RowType
  <2> QED BY <1>1, <2>1
<1>2. ASSUME NEW c \in Calls, Send(c)
      PROVE  RowType'
  BY <1>2 DEF Send, RowType
<1>3. ASSUME NEW w \in Windows, AskReview(w)
      PROVE  RowType'
  BY <1>3 DEF AskReview, RowType
<1>4. ASSUME NEW b \in Openers,
              AlreadyOpen(b) \/ OpenRefused(b) \/ Bind(b) \/ ReleasePrevious(b) \/ Acquire(b)
           \/ LeaseHeld(b) \/ Create(b) \/ Read(b) \/ Settle(b) \/ SettleFails(b) \/ OpenFails(b)
      PROVE  RowType'
  <2>1. CASE 
             AlreadyOpen(b) \/ OpenRefused(b) \/ ReleasePrevious(b) \/ Acquire(b) \/ LeaseHeld(b)
          \/ Create(b) \/ Read(b) \/ SettleFails(b) \/ OpenFails(b)
    BY <2>1
      DEF AlreadyOpen, Opened, OpenRefused, Answer, Reply, ReleasePrevious, Goto, Acquire,
          LeaseHeld, Create, Read, SettleFails, OpenFails, RowType
  <2>2. CASE Bind(b)
    <3>1. [NoRow EXCEPT !.bound = TRUE, !.pending = {<<>>}]
            \in [bound : BOOLEAN, committed : Opt(Seq(Rows)), pending : Opt(Seq(Rows)),
                quarantined : BOOLEAN, tombstone : BOOLEAN]
      <4>1. {<<>>} \in Opt(Seq(Rows))
        <5>1. <<>> \in Seq(Rows)
          OBVIOUS
        <5> QED BY <5>1, OptOne
      <4> QED BY <4>1, NoRowType
    <3> QED BY <2>2, <3>1 DEF Bind, RowType
  <2>3. CASE Settle(b)
    BY <2>3, OptNone DEF Settle, RowType
  <2> QED BY <1>4, <2>1, <2>2, <2>3
<1>5. ASSUME NEW c \in Calls,
              ArchiveRefused(c) \/ BeginPending(c) \/ Write(c) \/ RolledBack(c) \/ Mismatch(c)
           \/ ClearPending(c) \/ Promote(c) \/ BeginFails(c) \/ WriteUnknown(c)
           \/ MismatchUnwritten(c) \/ RecordFails(c)
      PROVE  RowType'
  <2>1. CASE 
             ArchiveRefused(c) \/ Write(c) \/ RolledBack(c) \/ Mismatch(c) \/ BeginFails(c)
          \/ WriteUnknown(c) \/ MismatchUnwritten(c) \/ RecordFails(c)
    BY <2>1
      DEF ArchiveRefused, Reply, Write, Goto, RolledBack, Mismatch, BeginFails, WriteUnknown,
          MismatchUnwritten, RecordFails, RowType
  <2>2. CASE BeginPending(c)
    <3>1. Committed \in Seq(Rows)
      BY <2>2 DEF BeginPending, Admits, Committed, RowType, Opt
    <3>2. NewRows(Committed, calls[c].rows) \in Seq(Rows)
      BY SiftType DEF NewRows, RequestTypes
    <3>3. Committed \o NewRows(Committed, calls[c].rows) \in Seq(Rows)
      BY <3>1, <3>2
    <3>4. {Committed \o NewRows(Committed, calls[c].rows)} \in Opt(Seq(Rows))
      BY <3>3, OptOne
    <3> QED BY <2>2, <3>4 DEF BeginPending, RowType
  <2>3. CASE ClearPending(c)
    BY <2>3, OptNone DEF ClearPending, RowType
  <2>4. CASE Promote(c)
    BY <2>4, OptNone DEF Promote, RowType
  <2> QED BY <1>5, <2>1, <2>2, <2>3, <2>4
<1>6. ASSUME 
              RefuseReview \/ ReviewAnswered \/ JoinPrevious \/ AdmitReview \/ AdmitRefused
           \/ StartReview \/ Unwind \/ ReserveFails \/ AcceptFails \/ ThreadFinishes
           \/ ThreadExits \/ Finished
      PROVE  RowType'
  <2>1. CASE 
             RefuseReview \/ ReviewAnswered \/ JoinPrevious \/ AdmitReview \/ AdmitRefused
          \/ StartReview \/ Unwind \/ ReserveFails \/ AcceptFails \/ ThreadFinishes
          \/ ThreadExits \/ Finished
    BY <2>1
      DEF RefuseReview, ReviewAnswered, RefusedReview, JoinPrevious, AdmitReview, Goto,
          AdmitRefused, StartReview, Unwind, ReserveFails, AcceptFails, ThreadFinishes,
          ThreadExits, Finished, RowType
  <2> QED BY <1>6, <2>1
<1>7. ASSUME 
              ForgetUnbound \/ Tombstone \/ ReconcileAgain \/ CheckDelete \/ DeferDelete
           \/ AlreadyComplete \/ CaptureTargets \/ CaptureRefused \/ CaptureCopies \/ SetManifest
           \/ DeleteTarget \/ DeleteRefused \/ VerifyAbsent \/ VerifyCopies \/ RetireLease
           \/ CompleteDelete \/ DeleteFails
      PROVE  RowType'
  <2>1. CASE 
             ForgetUnbound \/ Tombstone \/ ReconcileAgain \/ CheckDelete \/ DeferDelete
          \/ AlreadyComplete \/ CaptureTargets \/ CaptureRefused \/ CaptureCopies \/ SetManifest
          \/ DeleteTarget \/ DeleteRefused \/ VerifyAbsent \/ VerifyCopies \/ RetireLease
          \/ DeleteFails
    BY <2>1
      DEF ForgetUnbound, Tombstone, ReconcileAgain, CheckDelete, DeferDelete, Settled,
          AlreadyComplete, CaptureTargets, CaptureRefused, CaptureCopies, SetManifest, Goto,
          DeleteTarget, Remove, DeleteRefused, VerifyAbsent, VerifyCopies, RetireLease,
          DeleteFails, RowType
  <2>2. CASE CompleteDelete
    BY <2>2, NoRowType DEF CompleteDelete, RowType
  <2> QED BY <1>7, <2>1, <2>2
<1>8. ASSUME 
              OthersWrite \/ OthersDelete \/ OthersLease \/ OthersRelease \/ LeaseLost
      PROVE  RowType'
  <2>1. CASE OthersWrite \/ OthersDelete \/ OthersLease \/ OthersRelease \/ LeaseLost
    BY <2>1 DEF OthersWrite, OthersDelete, Remove, OthersLease, OthersRelease, LeaseLost, RowType
  <2> QED BY <1>8, <2>1
<1>9. ASSUME NEW s \in Sessions, NEW k \in Kin,
              Branch(s, k) \/ Fork(s, k) \/ Compress(s, k)
      PROVE  RowType'
  <2>1. CASE Branch(s, k) \/ Fork(s, k) \/ Compress(s, k)
    BY <2>1 DEF Branch, Fork, Compress, RowType
  <2> QED BY <1>9, <2>1
<1>10. ASSUME NEW k \in Kin, RemoveKin(k)
      PROVE  RowType'
  BY <1>10 DEF RemoveKin, Remove, RowType
<1>11. ASSUME 
              Crash \/ BeginClose \/ CloseReviews \/ Close \/ Start
      PROVE  RowType'
  <2>1. CASE Crash \/ BeginClose \/ CloseReviews \/ Close \/ Start
    BY <2>1 DEF Crash, Gone, BeginClose, CloseReviews, Close, Start, RowType
  <2> QED BY <1>11, <2>1
<1> QED BY <1>1, <1>2, <1>3, <1>4, <1>5, <1>6, <1>7, <1>8, <1>9, <1>10, <1>11
  DEF Next, Opening, Archiving, Reviewing, Deleting, Failing, Others

(* Each step keeps the types of the delete and of the ledger.              *)
LEMMA DeletionTyped ==
  ASSUME Types, Next
  PROVE  DeletionTypes'
<1> USE DEF Types
<1>1. ASSUME 
              FreezeBatch \/ GiveUp \/ RestartRealtime \/ AskForget \/ SendForget
      PROVE  DeletionTypes'
  <2>1. CASE FreezeBatch \/ GiveUp \/ RestartRealtime \/ AskForget \/ SendForget
    BY <2>1 DEF FreezeBatch, GiveUp, RestartRealtime, AskForget, SendForget, DeletionTypes
  <2> QED BY <1>1, <2>1
<1>2. ASSUME NEW c \in Calls, Send(c)
      PROVE  DeletionTypes'
  BY <1>2 DEF Send, DeletionTypes
<1>3. ASSUME NEW w \in Windows, AskReview(w)
      PROVE  DeletionTypes'
  BY <1>3 DEF AskReview, DeletionTypes
<1>4. ASSUME NEW b \in Openers,
              AlreadyOpen(b) \/ OpenRefused(b) \/ Bind(b) \/ ReleasePrevious(b) \/ Acquire(b)
           \/ LeaseHeld(b) \/ Create(b) \/ Read(b) \/ Settle(b) \/ SettleFails(b) \/ OpenFails(b)
      PROVE  DeletionTypes'
  <2>1. CASE 
             AlreadyOpen(b) \/ OpenRefused(b) \/ Bind(b) \/ ReleasePrevious(b) \/ Acquire(b)
          \/ LeaseHeld(b) \/ Create(b) \/ Read(b) \/ Settle(b) \/ SettleFails(b) \/ OpenFails(b)
    BY <2>1
      DEF AlreadyOpen, Opened, OpenRefused, Answer, Reply, Bind, ReleasePrevious, Goto, Acquire,
          LeaseHeld, Create, Read, Settle, SettleFails, OpenFails, DeletionTypes
  <2> QED BY <1>4, <2>1
<1>5. ASSUME NEW c \in Calls,
              ArchiveRefused(c) \/ BeginPending(c) \/ Write(c) \/ RolledBack(c) \/ Mismatch(c)
           \/ ClearPending(c) \/ Promote(c) \/ BeginFails(c) \/ WriteUnknown(c)
           \/ MismatchUnwritten(c) \/ RecordFails(c)
      PROVE  DeletionTypes'
  <2>1. CASE 
             ArchiveRefused(c) \/ BeginPending(c) \/ Write(c) \/ RolledBack(c) \/ Mismatch(c)
          \/ ClearPending(c) \/ Promote(c) \/ BeginFails(c) \/ WriteUnknown(c)
          \/ MismatchUnwritten(c) \/ RecordFails(c)
    BY <2>1
      DEF ArchiveRefused, Reply, BeginPending, Write, Goto, RolledBack, Mismatch, ClearPending,
          Promote, BeginFails, WriteUnknown, MismatchUnwritten, RecordFails, DeletionTypes
  <2> QED BY <1>5, <2>1
<1>6. ASSUME 
              RefuseReview \/ ReviewAnswered \/ JoinPrevious \/ AdmitReview \/ AdmitRefused
           \/ StartReview \/ Unwind \/ ReserveFails \/ AcceptFails \/ ThreadFinishes
           \/ ThreadExits \/ Finished
      PROVE  DeletionTypes'
  <2>1. CASE 
             RefuseReview \/ ReviewAnswered \/ JoinPrevious \/ AdmitReview \/ AdmitRefused
          \/ StartReview \/ Unwind \/ ReserveFails \/ AcceptFails \/ ThreadFinishes
          \/ ThreadExits \/ Finished
    BY <2>1
      DEF RefuseReview, ReviewAnswered, RefusedReview, JoinPrevious, Over, AdmitReview, Goto,
          AdmitRefused, StartReview, Unwind, ReserveFails, AcceptFails, ThreadFinishes,
          ThreadExits, Finished, DeletionTypes
  <2> QED BY <1>6, <2>1
<1>7. ASSUME 
              ForgetUnbound \/ Tombstone \/ ReconcileAgain \/ CheckDelete \/ DeferDelete
           \/ AlreadyComplete \/ CaptureTargets \/ CaptureRefused \/ CaptureCopies \/ SetManifest
           \/ DeleteTarget \/ DeleteRefused \/ VerifyAbsent \/ VerifyCopies \/ RetireLease
           \/ CompleteDelete \/ DeleteFails
      PROVE  DeletionTypes'
  <2>1. CASE 
             ForgetUnbound \/ Tombstone \/ ReconcileAgain \/ CheckDelete \/ DeferDelete
          \/ AlreadyComplete \/ CaptureTargets \/ CaptureRefused \/ CaptureCopies \/ DeleteTarget
          \/ DeleteRefused \/ VerifyAbsent \/ VerifyCopies \/ RetireLease \/ CompleteDelete
          \/ DeleteFails
    BY <2>1
      DEF ForgetUnbound, Tombstone, ReconcileAgain, CheckDelete, DeferDelete, Settled,
          AlreadyComplete, CaptureTargets, CaptureRefused, CaptureCopies, DeleteTarget, Remove,
          DeleteRefused, VerifyAbsent, Goto, VerifyCopies, RetireLease, CompleteDelete,
          DeleteFails, DeletionTypes
  <2>2. CASE SetManifest
    <3>1. {turn.targets} \in Opt(Seq(Sessions)) /\ turn.copies \subseteq Kin
      BY OptOne DEF TurnTypes, Turns
    <3> QED BY <2>2, <3>1 DEF SetManifest, DeletionTypes
  <2> QED BY <1>7, <2>1, <2>2
<1>8. ASSUME 
              OthersWrite \/ OthersDelete \/ OthersLease \/ OthersRelease \/ LeaseLost
      PROVE  DeletionTypes'
  <2>1. CASE OthersWrite \/ OthersDelete \/ OthersLease \/ OthersRelease \/ LeaseLost
    BY <2>1
      DEF OthersWrite, OthersDelete, Remove, OthersLease, OthersRelease, LeaseLost, DeletionTypes
  <2> QED BY <1>8, <2>1
<1>9. ASSUME NEW s \in Sessions, NEW k \in Kin,
              Branch(s, k) \/ Fork(s, k) \/ Compress(s, k)
      PROVE  DeletionTypes'
  <2>1. CASE Branch(s, k) \/ Fork(s, k) \/ Compress(s, k)
    BY <2>1 DEF Branch, Fork, Compress, DeletionTypes
  <2> QED BY <1>9, <2>1
<1>10. ASSUME NEW k \in Kin, RemoveKin(k)
      PROVE  DeletionTypes'
  BY <1>10 DEF RemoveKin, Remove, DeletionTypes
<1>11. ASSUME 
              Crash \/ BeginClose \/ CloseReviews \/ Close \/ Start
      PROVE  DeletionTypes'
  <2>1. CASE Crash \/ BeginClose \/ CloseReviews \/ Close \/ Start
    BY <2>1 DEF Crash, Gone, BeginClose, CloseReviews, Over, Close, Start, DeletionTypes
  <2> QED BY <1>11, <2>1
<1> QED BY <1>1, <1>2, <1>3, <1>4, <1>5, <1>6, <1>7, <1>8, <1>9, <1>10, <1>11
  DEF Next, Opening, Archiving, Reviewing, Deleting, Failing, Others

(* Each step keeps the types of the session, the lease and the ended       *)
(* sessions.                                                               *)
LEMMA HermesTyped ==
  ASSUME Types, Next
  PROVE  HermesTypes'
<1> USE DEF Types
<1>1. ASSUME 
              FreezeBatch \/ GiveUp \/ RestartRealtime \/ AskForget \/ SendForget
      PROVE  HermesTypes'
  <2>1. CASE FreezeBatch \/ GiveUp \/ RestartRealtime \/ AskForget \/ SendForget
    BY <2>1 DEF FreezeBatch, GiveUp, RestartRealtime, AskForget, SendForget, HermesTypes
  <2> QED BY <1>1, <2>1
<1>2. ASSUME NEW c \in Calls, Send(c)
      PROVE  HermesTypes'
  BY <1>2 DEF Send, HermesTypes
<1>3. ASSUME NEW w \in Windows, AskReview(w)
      PROVE  HermesTypes'
  BY <1>3 DEF AskReview, HermesTypes
<1>4. ASSUME NEW b \in Openers,
              AlreadyOpen(b) \/ OpenRefused(b) \/ Bind(b) \/ ReleasePrevious(b) \/ Acquire(b)
           \/ LeaseHeld(b) \/ Create(b) \/ Read(b) \/ Settle(b) \/ SettleFails(b) \/ OpenFails(b)
      PROVE  HermesTypes'
  <2>1. CASE 
             AlreadyOpen(b) \/ OpenRefused(b) \/ Bind(b) \/ ReleasePrevious(b) \/ Acquire(b)
          \/ LeaseHeld(b) \/ Read(b) \/ Settle(b) \/ SettleFails(b) \/ OpenFails(b)
    BY <2>1
      DEF AlreadyOpen, Opened, OpenRefused, Answer, Reply, Bind, ReleasePrevious, Goto, Acquire,
          LeaseHeld, Read, Settle, SettleFails, OpenFails, HermesTypes
  <2>2. CASE Create(b)
    <3>1. {<<>>} \in Opt(Seq(Rows))
      <4>1. <<>> \in Seq(Rows)
        OBVIOUS
      <4> QED BY <4>1, OptOne
    <3> QED BY <2>2, <3>1 DEF Create, HermesTypes
  <2> QED BY <1>4, <2>1, <2>2
<1>5. ASSUME NEW c \in Calls,
              ArchiveRefused(c) \/ BeginPending(c) \/ Write(c) \/ RolledBack(c) \/ Mismatch(c)
           \/ ClearPending(c) \/ Promote(c) \/ BeginFails(c) \/ WriteUnknown(c)
           \/ MismatchUnwritten(c) \/ RecordFails(c)
      PROVE  HermesTypes'
  <2>1. CASE 
             ArchiveRefused(c) \/ BeginPending(c) \/ RolledBack(c) \/ Mismatch(c)
          \/ ClearPending(c) \/ Promote(c) \/ BeginFails(c) \/ MismatchUnwritten(c)
          \/ RecordFails(c)
    BY <2>1
      DEF ArchiveRefused, Reply, BeginPending, RolledBack, Mismatch, ClearPending, Promote,
          BeginFails, MismatchUnwritten, RecordFails, HermesTypes
  <2>2. CASE Write(c)
    BY <2>2 DEF Write, HermesTypes, RowType
  <2>3. CASE WriteUnknown(c)
    BY <2>3 DEF WriteUnknown, HermesTypes, RowType
  <2> QED BY <1>5, <2>1, <2>2, <2>3
<1>6. ASSUME 
              RefuseReview \/ ReviewAnswered \/ JoinPrevious \/ AdmitReview \/ AdmitRefused
           \/ StartReview \/ Unwind \/ ReserveFails \/ AcceptFails \/ ThreadFinishes
           \/ ThreadExits \/ Finished
      PROVE  HermesTypes'
  <2>1. CASE 
             RefuseReview \/ ReviewAnswered \/ JoinPrevious \/ AdmitReview \/ AdmitRefused
          \/ StartReview \/ Unwind \/ ReserveFails \/ AcceptFails \/ ThreadFinishes
          \/ ThreadExits \/ Finished
    BY <2>1
      DEF RefuseReview, ReviewAnswered, RefusedReview, JoinPrevious, AdmitReview, Goto,
          AdmitRefused, StartReview, Unwind, ReserveFails, AcceptFails, ThreadFinishes,
          ThreadExits, Finished, HermesTypes
  <2> QED BY <1>6, <2>1
<1>7. ASSUME 
              ForgetUnbound \/ Tombstone \/ ReconcileAgain \/ CheckDelete \/ DeferDelete
           \/ AlreadyComplete \/ CaptureTargets \/ CaptureRefused \/ CaptureCopies \/ SetManifest
           \/ DeleteTarget \/ DeleteRefused \/ VerifyAbsent \/ VerifyCopies \/ RetireLease
           \/ CompleteDelete \/ DeleteFails
      PROVE  HermesTypes'
  <2>1. CASE 
             ForgetUnbound \/ Tombstone \/ ReconcileAgain \/ CheckDelete \/ DeferDelete
          \/ AlreadyComplete \/ CaptureTargets \/ CaptureRefused \/ CaptureCopies \/ SetManifest
          \/ DeleteRefused \/ VerifyAbsent \/ VerifyCopies \/ RetireLease \/ CompleteDelete
          \/ DeleteFails
    BY <2>1
      DEF ForgetUnbound, Tombstone, ReconcileAgain, CheckDelete, DeferDelete, Settled,
          AlreadyComplete, CaptureTargets, CaptureRefused, CaptureCopies, SetManifest, Goto,
          DeleteRefused, VerifyAbsent, VerifyCopies, RetireLease, CompleteDelete, DeleteFails,
          HermesTypes
  <2>2. CASE DeleteTarget
    BY <2>2, OptNone DEF DeleteTarget, Remove, HermesTypes
  <2> QED BY <1>7, <2>1, <2>2
<1>8. ASSUME 
              OthersWrite \/ OthersDelete \/ OthersLease \/ OthersRelease \/ LeaseLost
      PROVE  HermesTypes'
  <2>1. CASE OthersLease \/ OthersRelease \/ LeaseLost
    BY <2>1 DEF OthersLease, OthersRelease, LeaseLost, HermesTypes
  <2>2. CASE OthersWrite
    <3>1. \A rows \in session : Append(rows, Alien) \in Seq(Rows)
      BY AlienType DEF HermesTypes, Opt
    <3>2. {Append(rows, Alien) : rows \in session} \in Opt(Seq(Rows))
      <4>1. session \in Opt(Seq(Rows))
        BY DEF HermesTypes
      <4>2. \A x, y \in {Append(rows, Alien) : rows \in session} : x = y
        BY <4>1 DEF Opt
      <4> QED BY <3>1, <4>2 DEF Opt
    <3> QED BY <2>2, <3>2 DEF OthersWrite, HermesTypes
  <2>3. CASE OthersDelete
    BY <2>3, OptNone DEF OthersDelete, Remove, HermesTypes
  <2> QED BY <1>8, <2>1, <2>2, <2>3
<1>9. ASSUME NEW s \in Sessions, NEW k \in Kin,
              Branch(s, k) \/ Fork(s, k) \/ Compress(s, k)
      PROVE  HermesTypes'
  <2>1. CASE Branch(s, k) \/ Fork(s, k) \/ Compress(s, k)
    BY <2>1 DEF Branch, Fork, Compress, HermesTypes
  <2> QED BY <1>9, <2>1
<1>10. ASSUME NEW k \in Kin, RemoveKin(k)
      PROVE  HermesTypes'
  BY <1>10 DEF RemoveKin, Remove, HermesTypes
<1>11. ASSUME 
              Crash \/ BeginClose \/ CloseReviews \/ Close \/ Start
      PROVE  HermesTypes'
  <2>1. CASE Crash \/ BeginClose \/ CloseReviews \/ Close \/ Start
    BY <2>1 DEF Crash, Gone, BeginClose, CloseReviews, Close, Start, HermesTypes
  <2> QED BY <1>11, <2>1
<1> QED BY <1>1, <1>2, <1>3, <1>4, <1>5, <1>6, <1>7, <1>8, <1>9, <1>10, <1>11
  DEF Next, Opening, Archiving, Reviewing, Deleting, Failing, Others

(* Each step keeps the type of the derived sessions.                       *)
LEMMA KinTyped ==
  ASSUME Types, Next
  PROVE  KinType'
<1> USE DEF Types
<1>1. ASSUME 
              FreezeBatch \/ GiveUp \/ RestartRealtime \/ AskForget \/ SendForget
      PROVE  KinType'
  <2>1. CASE FreezeBatch \/ GiveUp \/ RestartRealtime \/ AskForget \/ SendForget
    BY <2>1 DEF FreezeBatch, GiveUp, RestartRealtime, AskForget, SendForget, KinType
  <2> QED BY <1>1, <2>1
<1>2. ASSUME NEW c \in Calls, Send(c)
      PROVE  KinType'
  BY <1>2 DEF Send, KinType
<1>3. ASSUME NEW w \in Windows, AskReview(w)
      PROVE  KinType'
  BY <1>3 DEF AskReview, KinType
<1>4. ASSUME NEW b \in Openers,
              AlreadyOpen(b) \/ OpenRefused(b) \/ Bind(b) \/ ReleasePrevious(b) \/ Acquire(b)
           \/ LeaseHeld(b) \/ Create(b) \/ Read(b) \/ Settle(b) \/ SettleFails(b) \/ OpenFails(b)
      PROVE  KinType'
  <2>1. CASE 
             AlreadyOpen(b) \/ OpenRefused(b) \/ Bind(b) \/ ReleasePrevious(b) \/ Acquire(b)
          \/ LeaseHeld(b) \/ Create(b) \/ Read(b) \/ Settle(b) \/ SettleFails(b) \/ OpenFails(b)
    BY <2>1
      DEF AlreadyOpen, Opened, OpenRefused, Answer, Reply, Bind, ReleasePrevious, Goto, Acquire,
          LeaseHeld, Create, Read, Settle, SettleFails, OpenFails, KinType
  <2> QED BY <1>4, <2>1
<1>5. ASSUME NEW c \in Calls,
              ArchiveRefused(c) \/ BeginPending(c) \/ Write(c) \/ RolledBack(c) \/ Mismatch(c)
           \/ ClearPending(c) \/ Promote(c) \/ BeginFails(c) \/ WriteUnknown(c)
           \/ MismatchUnwritten(c) \/ RecordFails(c)
      PROVE  KinType'
  <2>1. CASE 
             ArchiveRefused(c) \/ BeginPending(c) \/ Write(c) \/ RolledBack(c) \/ Mismatch(c)
          \/ ClearPending(c) \/ Promote(c) \/ BeginFails(c) \/ WriteUnknown(c)
          \/ MismatchUnwritten(c) \/ RecordFails(c)
    BY <2>1
      DEF ArchiveRefused, Reply, BeginPending, Write, Goto, RolledBack, Mismatch, ClearPending,
          Promote, BeginFails, WriteUnknown, MismatchUnwritten, RecordFails, KinType
  <2> QED BY <1>5, <2>1
<1>6. ASSUME 
              RefuseReview \/ ReviewAnswered \/ JoinPrevious \/ AdmitReview \/ AdmitRefused
           \/ StartReview \/ Unwind \/ ReserveFails \/ AcceptFails \/ ThreadFinishes
           \/ ThreadExits \/ Finished
      PROVE  KinType'
  <2>1. CASE 
             RefuseReview \/ ReviewAnswered \/ JoinPrevious \/ AdmitReview \/ AdmitRefused
          \/ StartReview \/ Unwind \/ ReserveFails \/ AcceptFails \/ ThreadFinishes
          \/ ThreadExits \/ Finished
    BY <2>1
      DEF RefuseReview, ReviewAnswered, RefusedReview, JoinPrevious, AdmitReview, Goto,
          AdmitRefused, StartReview, Unwind, ReserveFails, AcceptFails, ThreadFinishes,
          ThreadExits, Finished, KinType
  <2> QED BY <1>6, <2>1
<1>7. ASSUME 
              ForgetUnbound \/ Tombstone \/ ReconcileAgain \/ CheckDelete \/ DeferDelete
           \/ AlreadyComplete \/ CaptureTargets \/ CaptureRefused \/ CaptureCopies \/ SetManifest
           \/ DeleteTarget \/ DeleteRefused \/ VerifyAbsent \/ VerifyCopies \/ RetireLease
           \/ CompleteDelete \/ DeleteFails
      PROVE  KinType'
  <2>1. CASE 
             ForgetUnbound \/ Tombstone \/ ReconcileAgain \/ CheckDelete \/ DeferDelete
          \/ AlreadyComplete \/ CaptureTargets \/ CaptureRefused \/ CaptureCopies \/ SetManifest
          \/ DeleteRefused \/ VerifyAbsent \/ VerifyCopies \/ RetireLease \/ CompleteDelete
          \/ DeleteFails
    BY <2>1
      DEF ForgetUnbound, Tombstone, ReconcileAgain, CheckDelete, DeferDelete, Settled,
          AlreadyComplete, CaptureTargets, CaptureRefused, CaptureCopies, SetManifest, Goto,
          DeleteRefused, VerifyAbsent, VerifyCopies, RetireLease, CompleteDelete, DeleteFails,
          KinType
  <2>2. CASE DeleteTarget
    <3>1. Head(turn.targets) \in Sessions
      BY <2>2 DEF DeleteTarget, TurnTypes, Turns
    <3> QED BY <2>2, <3>1, RemoveType DEF DeleteTarget
  <2> QED BY <1>7, <2>1, <2>2
<1>8. ASSUME 
              OthersWrite \/ OthersDelete \/ OthersLease \/ OthersRelease \/ LeaseLost
      PROVE  KinType'
  <2>1. CASE OthersWrite \/ OthersLease \/ OthersRelease \/ LeaseLost
    BY <2>1 DEF OthersWrite, OthersLease, OthersRelease, LeaseLost, KinType
  <2>2. CASE OthersDelete
    BY <2>2, RemoveType DEF OthersDelete, Sessions
  <2> QED BY <1>8, <2>1, <2>2
<1>9. ASSUME NEW s \in Sessions, NEW k \in Kin,
              Branch(s, k) \/ Fork(s, k) \/ Compress(s, k)
      PROVE  KinType'
  <2>1. CASE Branch(s, k)
    BY <2>1, DeriveType DEF Branch
  <2>2. CASE Fork(s, k)
    BY <2>2, DeriveType DEF Fork
  <2>3. CASE Compress(s, k)
    BY <2>3, DeriveType DEF Compress
  <2> QED BY <1>9, <2>1, <2>2, <2>3
<1>10. ASSUME NEW k \in Kin, RemoveKin(k)
      PROVE  KinType'
  BY <1>10, RemoveType DEF RemoveKin, Sessions
<1>11. ASSUME 
              Crash \/ BeginClose \/ CloseReviews \/ Close \/ Start
      PROVE  KinType'
  <2>1. CASE Crash \/ BeginClose \/ CloseReviews \/ Close \/ Start
    BY <2>1 DEF Crash, Gone, BeginClose, CloseReviews, Close, Start, KinType
  <2> QED BY <1>11, <2>1
<1> QED BY <1>1, <1>2, <1>3, <1>4, <1>5, <1>6, <1>7, <1>8, <1>9, <1>10, <1>11
  DEF Next, Opening, Archiving, Reviewing, Deleting, Failing, Others

(* Each step keeps the types of what has happened.                         *)
LEMMA HistoryTyped ==
  ASSUME Types, TurnHeld, Next
  PROVE  HistoryTypes'
<1> USE DEF Types
<1>1. ASSUME 
              FreezeBatch \/ GiveUp \/ RestartRealtime \/ AskForget \/ SendForget
      PROVE  HistoryTypes'
  <2>1. CASE FreezeBatch \/ GiveUp \/ RestartRealtime \/ AskForget \/ SendForget
    BY <2>1 DEF FreezeBatch, GiveUp, RestartRealtime, AskForget, SendForget, HistoryTypes
  <2> QED BY <1>1, <2>1
<1>2. ASSUME NEW c \in Calls, Send(c)
      PROVE  HistoryTypes'
  BY <1>2 DEF Send, HistoryTypes
<1>3. ASSUME NEW w \in Windows, AskReview(w)
      PROVE  HistoryTypes'
  BY <1>3 DEF AskReview, HistoryTypes
<1>4. ASSUME NEW b \in Openers,
              AlreadyOpen(b) \/ OpenRefused(b) \/ Bind(b) \/ ReleasePrevious(b) \/ Acquire(b)
           \/ LeaseHeld(b) \/ Create(b) \/ Read(b) \/ Settle(b) \/ SettleFails(b) \/ OpenFails(b)
      PROVE  HistoryTypes'
  <2>1. CASE 
             AlreadyOpen(b) \/ OpenRefused(b) \/ Bind(b) \/ ReleasePrevious(b) \/ Acquire(b)
          \/ LeaseHeld(b) \/ Create(b) \/ Read(b) \/ Settle(b) \/ SettleFails(b) \/ OpenFails(b)
    BY <2>1
      DEF AlreadyOpen, Opened, OpenRefused, Answer, Reply, Bind, ReleasePrevious, Goto, Acquire,
          LeaseHeld, Create, Read, Settle, SettleFails, OpenFails, HistoryTypes
  <2> QED BY <1>4, <2>1
<1>5. ASSUME NEW c \in Calls,
              ArchiveRefused(c) \/ BeginPending(c) \/ Write(c) \/ RolledBack(c) \/ Mismatch(c)
           \/ ClearPending(c) \/ Promote(c) \/ BeginFails(c) \/ WriteUnknown(c)
           \/ MismatchUnwritten(c) \/ RecordFails(c)
      PROVE  HistoryTypes'
  <2>1. CASE 
             ArchiveRefused(c) \/ BeginPending(c) \/ RolledBack(c) \/ Mismatch(c)
          \/ ClearPending(c) \/ Promote(c) \/ BeginFails(c) \/ MismatchUnwritten(c)
          \/ RecordFails(c)
    BY <2>1
      DEF ArchiveRefused, Reply, BeginPending, RolledBack, Mismatch, ClearPending, Promote,
          BeginFails, MismatchUnwritten, RecordFails, HistoryTypes
  <2>2. CASE Write(c)
    <3>1. Inserts(c) \in Seq(Rows)
      BY SiftType DEF Inserts, RequestTypes
    <3>2. written \o Inserts(c) \in Seq(Rows)
      BY <3>1 DEF HistoryTypes
    <3> QED BY <2>2, <3>2 DEF Write, HistoryTypes
  <2>3. CASE WriteUnknown(c)
    <3>1. Inserts(c) \in Seq(Rows)
      BY SiftType DEF Inserts, RequestTypes
    <3>2. written \o Inserts(c) \in Seq(Rows)
      BY <3>1 DEF HistoryTypes
    <3> QED BY <2>3, <3>2 DEF WriteUnknown, HistoryTypes
  <2> QED BY <1>5, <2>1, <2>2, <2>3
<1>6. ASSUME 
              RefuseReview \/ ReviewAnswered \/ JoinPrevious \/ AdmitReview \/ AdmitRefused
           \/ StartReview \/ Unwind \/ ReserveFails \/ AcceptFails \/ ThreadFinishes
           \/ ThreadExits \/ Finished
      PROVE  HistoryTypes'
  <2>1. CASE 
             RefuseReview \/ ReviewAnswered \/ JoinPrevious \/ AdmitReview \/ Unwind
          \/ ReserveFails \/ ThreadFinishes \/ ThreadExits \/ Finished
    BY <2>1
      DEF RefuseReview, ReviewAnswered, RefusedReview, JoinPrevious, AdmitReview, Goto, Unwind,
          ReserveFails, ThreadFinishes, ThreadExits, Finished, HistoryTypes
  <2>2. CASE AdmitRefused
    BY <2>2 DEF AdmitRefused, HistoryTypes
  <2>3. CASE StartReview
    <3>1. rcall.window \in Windows
      BY <2>3 DEF StartReview, Holds, TurnHeld
    <3>2. reviewed[rcall.window] + 1 \in Nat
      <4>1. reviewed[rcall.window] \in Nat
        BY <3>1 DEF HistoryTypes
      <4> QED BY <4>1
    <3> QED BY <2>3, <3>1, <3>2 DEF StartReview, HistoryTypes
  <2>4. CASE AcceptFails
    <3>1. rcall.window \in Windows
      BY <2>4 DEF AcceptFails, Holds, TurnHeld
    <3>2. reviewed[rcall.window] + 1 \in Nat
      <4>1. reviewed[rcall.window] \in Nat
        BY <3>1 DEF HistoryTypes
      <4> QED BY <4>1
    <3> QED BY <2>4, <3>1, <3>2 DEF AcceptFails, HistoryTypes
  <2> QED BY <1>6, <2>1, <2>2, <2>3, <2>4
<1>7. ASSUME 
              ForgetUnbound \/ Tombstone \/ ReconcileAgain \/ CheckDelete \/ DeferDelete
           \/ AlreadyComplete \/ CaptureTargets \/ CaptureRefused \/ CaptureCopies \/ SetManifest
           \/ DeleteTarget \/ DeleteRefused \/ VerifyAbsent \/ VerifyCopies \/ RetireLease
           \/ CompleteDelete \/ DeleteFails
      PROVE  HistoryTypes'
  <2>1. CASE 
             ForgetUnbound \/ Tombstone \/ ReconcileAgain \/ CheckDelete \/ DeferDelete
          \/ AlreadyComplete \/ CaptureTargets \/ CaptureRefused \/ SetManifest \/ DeleteTarget
          \/ DeleteRefused \/ VerifyAbsent \/ VerifyCopies \/ RetireLease \/ CompleteDelete
          \/ DeleteFails
    BY <2>1
      DEF ForgetUnbound, Tombstone, ReconcileAgain, CheckDelete, DeferDelete, Settled,
          AlreadyComplete, CaptureTargets, CaptureRefused, SetManifest, Goto, DeleteTarget,
          Remove, DeleteRefused, VerifyAbsent, VerifyCopies, RetireLease, CompleteDelete,
          DeleteFails, HistoryTypes
  <2>2. CASE CaptureCopies
    <3>1. CopiesOf(Elements(turn.targets)) \subseteq Kin
      BY DEF CopiesOf
    <3> QED BY <2>2, <3>1 DEF CaptureCopies, HistoryTypes
  <2> QED BY <1>7, <2>1, <2>2
<1>8. ASSUME 
              OthersWrite \/ OthersDelete \/ OthersLease \/ OthersRelease \/ LeaseLost
      PROVE  HistoryTypes'
  <2>1. CASE OthersWrite \/ OthersLease \/ OthersRelease \/ LeaseLost
    BY <2>1 DEF OthersWrite, OthersLease, OthersRelease, LeaseLost, HistoryTypes
  <2>2. CASE OthersDelete
    BY <2>2 DEF OthersDelete, HistoryTypes
  <2> QED BY <1>8, <2>1, <2>2
<1>9. ASSUME NEW s \in Sessions, NEW k \in Kin,
              Branch(s, k) \/ Fork(s, k) \/ Compress(s, k)
      PROVE  HistoryTypes'
  <2>1. CASE Branch(s, k) \/ Fork(s, k) \/ Compress(s, k)
    BY <2>1 DEF Branch, Fork, Compress, HistoryTypes
  <2> QED BY <1>9, <2>1
<1>10. ASSUME NEW k \in Kin, RemoveKin(k)
      PROVE  HistoryTypes'
  BY <1>10 DEF RemoveKin, Remove, HistoryTypes
<1>11. ASSUME 
              Crash \/ BeginClose \/ CloseReviews \/ Close \/ Start
      PROVE  HistoryTypes'
  <2>1. CASE Crash \/ BeginClose \/ CloseReviews \/ Close \/ Start
    BY <2>1 DEF Crash, Gone, BeginClose, CloseReviews, Close, Start, HistoryTypes
  <2> QED BY <1>11, <2>1
<1> QED BY <1>1, <1>2, <1>3, <1>4, <1>5, <1>6, <1>7, <1>8, <1>9, <1>10, <1>11
  DEF Next, Opening, Archiving, Reviewing, Deleting, Failing, Others

(* Each step keeps the type of what is left of the bounds.                 *)
LEMMA BudgetTyped ==
  ASSUME Types, Next
  PROVE  BudgetType'
<1> USE DEF Types
<1>1. ASSUME 
              FreezeBatch \/ GiveUp \/ RestartRealtime \/ AskForget \/ SendForget
      PROVE  BudgetType'
  <2>1. CASE FreezeBatch \/ GiveUp \/ RestartRealtime \/ AskForget \/ SendForget
    BY <2>1, SpendType DEF FreezeBatch, GiveUp, RestartRealtime, AskForget, SendForget, BudgetType
  <2> QED BY <1>1, <2>1
<1>2. ASSUME NEW c \in Calls, Send(c)
      PROVE  BudgetType'
  BY <1>2, SpendType DEF Send, BudgetType
<1>3. ASSUME NEW w \in Windows, AskReview(w)
      PROVE  BudgetType'
  BY <1>3, SpendType DEF AskReview, BudgetType
<1>4. ASSUME NEW b \in Openers,
              AlreadyOpen(b) \/ OpenRefused(b) \/ Bind(b) \/ ReleasePrevious(b) \/ Acquire(b)
           \/ LeaseHeld(b) \/ Create(b) \/ Read(b) \/ Settle(b) \/ SettleFails(b) \/ OpenFails(b)
      PROVE  BudgetType'
  <2>1. CASE 
             AlreadyOpen(b) \/ OpenRefused(b) \/ Bind(b) \/ ReleasePrevious(b) \/ Acquire(b)
          \/ LeaseHeld(b) \/ Create(b) \/ Read(b) \/ Settle(b) \/ SettleFails(b) \/ OpenFails(b)
    BY <2>1, SpendType
      DEF AlreadyOpen, Opened, OpenRefused, Answer, Reply, Bind, ReleasePrevious, Goto, Acquire,
          LeaseHeld, Create, Read, Settle, SettleFails, OpenFails, BudgetType
  <2> QED BY <1>4, <2>1
<1>5. ASSUME NEW c \in Calls,
              ArchiveRefused(c) \/ BeginPending(c) \/ Write(c) \/ RolledBack(c) \/ Mismatch(c)
           \/ ClearPending(c) \/ Promote(c) \/ BeginFails(c) \/ WriteUnknown(c)
           \/ MismatchUnwritten(c) \/ RecordFails(c)
      PROVE  BudgetType'
  <2>1. CASE 
             ArchiveRefused(c) \/ BeginPending(c) \/ Write(c) \/ RolledBack(c) \/ Mismatch(c)
          \/ ClearPending(c) \/ Promote(c) \/ BeginFails(c) \/ WriteUnknown(c)
          \/ MismatchUnwritten(c) \/ RecordFails(c)
    BY <2>1, SpendType
      DEF ArchiveRefused, Reply, BeginPending, Write, Goto, RolledBack, Mismatch, ClearPending,
          Promote, BeginFails, WriteUnknown, MismatchUnwritten, RecordFails, BudgetType
  <2> QED BY <1>5, <2>1
<1>6. ASSUME 
              RefuseReview \/ ReviewAnswered \/ JoinPrevious \/ AdmitReview \/ AdmitRefused
           \/ StartReview \/ Unwind \/ ReserveFails \/ AcceptFails \/ ThreadFinishes
           \/ ThreadExits \/ Finished
      PROVE  BudgetType'
  <2>1. CASE 
             RefuseReview \/ ReviewAnswered \/ JoinPrevious \/ AdmitReview \/ AdmitRefused
          \/ StartReview \/ Unwind \/ ReserveFails \/ AcceptFails \/ ThreadFinishes
          \/ ThreadExits \/ Finished
    BY <2>1, SpendType
      DEF RefuseReview, ReviewAnswered, RefusedReview, JoinPrevious, AdmitReview, Goto,
          AdmitRefused, StartReview, Unwind, ReserveFails, AcceptFails, ThreadFinishes,
          ThreadExits, Finished, BudgetType
  <2> QED BY <1>6, <2>1
<1>7. ASSUME 
              ForgetUnbound \/ Tombstone \/ ReconcileAgain \/ CheckDelete \/ DeferDelete
           \/ AlreadyComplete \/ CaptureTargets \/ CaptureRefused \/ CaptureCopies \/ SetManifest
           \/ DeleteTarget \/ DeleteRefused \/ VerifyAbsent \/ VerifyCopies \/ RetireLease
           \/ CompleteDelete \/ DeleteFails
      PROVE  BudgetType'
  <2>1. CASE 
             ForgetUnbound \/ Tombstone \/ ReconcileAgain \/ CheckDelete \/ DeferDelete
          \/ AlreadyComplete \/ CaptureTargets \/ CaptureRefused \/ CaptureCopies \/ SetManifest
          \/ DeleteTarget \/ DeleteRefused \/ VerifyAbsent \/ VerifyCopies \/ RetireLease
          \/ CompleteDelete \/ DeleteFails
    BY <2>1, SpendType
      DEF ForgetUnbound, Tombstone, ReconcileAgain, CheckDelete, DeferDelete, Settled,
          AlreadyComplete, CaptureTargets, CaptureRefused, CaptureCopies, SetManifest, Goto,
          DeleteTarget, Remove, DeleteRefused, VerifyAbsent, VerifyCopies, RetireLease,
          CompleteDelete, DeleteFails, BudgetType
  <2> QED BY <1>7, <2>1
<1>8. ASSUME 
              OthersWrite \/ OthersDelete \/ OthersLease \/ OthersRelease \/ LeaseLost
      PROVE  BudgetType'
  <2>1. CASE OthersWrite \/ OthersDelete \/ OthersLease \/ OthersRelease \/ LeaseLost
    BY <2>1, SpendType
      DEF OthersWrite, OthersDelete, Remove, OthersLease, OthersRelease, LeaseLost, BudgetType
  <2> QED BY <1>8, <2>1
<1>9. ASSUME NEW s \in Sessions, NEW k \in Kin,
              Branch(s, k) \/ Fork(s, k) \/ Compress(s, k)
      PROVE  BudgetType'
  <2>1. CASE Branch(s, k) \/ Fork(s, k) \/ Compress(s, k)
    BY <2>1, SpendType DEF Branch, Fork, Compress, BudgetType
  <2> QED BY <1>9, <2>1
<1>10. ASSUME NEW k \in Kin, RemoveKin(k)
      PROVE  BudgetType'
  BY <1>10, SpendType DEF RemoveKin, Remove, BudgetType
<1>11. ASSUME 
              Crash \/ BeginClose \/ CloseReviews \/ Close \/ Start
      PROVE  BudgetType'
  <2>1. CASE Crash \/ BeginClose \/ CloseReviews \/ Close \/ Start
    BY <2>1, SpendType DEF Crash, Gone, BeginClose, CloseReviews, Close, Start, BudgetType
  <2> QED BY <1>11, <2>1
<1> QED BY <1>1, <1>2, <1>3, <1>4, <1>5, <1>6, <1>7, <1>8, <1>9, <1>10, <1>11
  DEF Next, Opening, Archiving, Reviewing, Deleting, Failing, Others

(* Each step keeps all the types.                                          *)
LEMMA TypesKept ==
  ASSUME Types, TurnHeld, Next
  PROVE  Types'
  BY RealtimeTyped, TurnTyped, RequestsTyped, MemoryTyped, RowTyped, DeletionTyped, HermesTyped,
     KinTyped, HistoryTyped, BudgetTyped DEF Types

(* A step that leaves these variables alone keeps TurnHeld.                *)
LEMMA TurnFrame ==
  ASSUME TurnHeld, UNCHANGED <<turn, host, calls, rcall, again, deletion, row>>
  PROVE  TurnHeld'
  BY DEF TurnHeld

(* Each step keeps who is at which step, and that nobody opens, archives   *)
(* or reviews once the delete is recorded.                                 *)
LEMMA TurnHolds ==
  ASSUME Types, TurnHeld, Next
  PROVE  TurnHeld'
<1> USE DEF Types, TurnHeld, OpeningSteps, ArchivingSteps, ReviewingSteps, DeletingSteps, NoTurn,
           Openers, Reconcilers
<1>1. ASSUME 
              FreezeBatch \/ GiveUp \/ RestartRealtime \/ AskForget \/ SendForget
      PROVE  TurnHeld'
  <2>1. CASE FreezeBatch \/ GiveUp \/ RestartRealtime \/ AskForget \/ SendForget
    <3>1. UNCHANGED <<turn, host, calls, rcall, again, deletion, row>>
      BY <2>1 DEF FreezeBatch, GiveUp, RestartRealtime, AskForget, SendForget
    <3> QED BY <3>1, TurnFrame
  <2> QED BY <1>1, <2>1
<1>2. ASSUME NEW c \in Calls, Send(c)
      PROVE  TurnHeld'
  BY <1>2 DEF Send, NoCall
<1>3. ASSUME NEW w \in Windows, AskReview(w)
      PROVE  TurnHeld'
  BY <1>3 DEF AskReview, NoReview
<1>4. ASSUME NEW b \in Openers,
              AlreadyOpen(b) \/ OpenRefused(b) \/ Bind(b) \/ ReleasePrevious(b) \/ Acquire(b)
           \/ LeaseHeld(b) \/ Create(b) \/ Read(b) \/ Settle(b) \/ SettleFails(b) \/ OpenFails(b)
      PROVE  TurnHeld'
  <2>1. CASE Create(b)
    <3>1. UNCHANGED <<turn, host, calls, rcall, again, deletion, row>>
      BY <2>1 DEF Create
    <3> QED BY <3>1, TurnFrame
  <2>2. CASE AlreadyOpen(b)
    <3>1. CASE b = "review"
      BY <2>2, <3>1 DEF AlreadyOpen, Stage, Opened, RequestTypes
    <3>2. CASE b # "review"
      BY <2>2, <3>2 DEF AlreadyOpen, Stage, Opened, RequestTypes
    <3> QED BY <3>1, <3>2
  <2>3. CASE OpenRefused(b)
    BY <2>3 DEF OpenRefused, StartsOpen, Answer, Free, Stage, Ready, Reply, NoReview, NoCall
  <2>4. CASE Bind(b)
    BY <2>4 DEF Bind, StartsOpen, NoRow, Free, Stage, Ready
  <2>5. CASE ReleasePrevious(b)
    BY <2>5 DEF ReleasePrevious, Holds, Goto
  <2>6. CASE Acquire(b)
    BY <2>6 DEF Acquire, Holds, Goto
  <2>7. CASE LeaseHeld(b)
    BY <2>7 DEF LeaseHeld, Holds, Answer, Reply, NoReview, NoCall
  <2>8. CASE Read(b)
    BY <2>8 DEF Read, Holds
  <2>9. CASE Settle(b)
    <3>1. turn.by = b /\ turn.at = "settle" /\ turn' = NoTurn
            /\ UNCHANGED <<again, deletion, host>>
      BY <2>9 DEF Settle, Holds
    <3>2. row'.tombstone = row.tombstone
      BY <2>9 DEF Settle, RowType
    <3>3. row.bound /\ ~deletion.recorded
      BY <3>1
    <3>4. rcall'.at # "none" => rcall'.window \in Windows
      BY <2>9, <3>1 DEF Settle, Opened, RequestTypes
    <3> QED BY <3>1, <3>2, <3>3, <3>4
  <2>10. CASE SettleFails(b)
    BY <2>10 DEF SettleFails, Holds, Cleared, Promoted, Intact, Answer, Reply, NoReview, NoCall
  <2>11. CASE OpenFails(b)
    BY <2>11 DEF OpenFails, Spend, Cleared, Promoted, Intact, Answer, Reply, NoReview, NoCall
  <2> QED BY <1>4, <2>1, <2>2, <2>3, <2>4, <2>5, <2>6, <2>7, <2>8, <2>9, <2>10, <2>11
<1>5. ASSUME NEW c \in Calls,
              ArchiveRefused(c) \/ BeginPending(c) \/ Write(c) \/ RolledBack(c) \/ Mismatch(c)
           \/ ClearPending(c) \/ Promote(c) \/ BeginFails(c) \/ WriteUnknown(c)
           \/ MismatchUnwritten(c) \/ RecordFails(c)
      PROVE  TurnHeld'
  <2>1. CASE ArchiveRefused(c)
    BY <2>1 DEF ArchiveRefused, Takes, Admits, Reply, Free, Ready, NoCall
  <2>2. CASE BeginPending(c)
    BY <2>2 DEF BeginPending, Takes, Admits, Free, Ready
  <2>3. CASE Write(c)
    BY <2>3 DEF Write, Applies, MayWrite, Holds, Goto, TurnTypes, Turns
  <2>4. CASE RolledBack(c)
    BY <2>4 DEF RolledBack, Holds
  <2>5. CASE Mismatch(c)
    BY <2>5 DEF Mismatch, Holds, Unready, Reply, NoCall
  <2>6. CASE ClearPending(c)
    BY <2>6 DEF ClearPending, Holds, Unready, Reply, NoCall
  <2>7. CASE Promote(c)
    BY <2>7 DEF Promote, Holds, Reply, NoCall
  <2>8. CASE BeginFails(c)
    BY <2>8 DEF BeginFails, Takes, Admits, Spend, Reply, Free, Ready, NoCall
  <2>9. CASE WriteUnknown(c)
    BY <2>9 DEF WriteUnknown, Holds, Spend, Unready, Reply, NoCall
  <2>10. CASE MismatchUnwritten(c)
    BY <2>10 DEF MismatchUnwritten, Holds, Spend, Unready, Reply, NoCall
  <2>11. CASE RecordFails(c)
    BY <2>11 DEF RecordFails, Spend, Unready, Reply, NoCall
  <2> QED BY <1>5, <2>1, <2>2, <2>3, <2>4, <2>5, <2>6, <2>7, <2>8, <2>9, <2>10, <2>11
<1>6. ASSUME 
              RefuseReview \/ ReviewAnswered \/ JoinPrevious \/ AdmitReview \/ AdmitRefused
           \/ StartReview \/ Unwind \/ ReserveFails \/ AcceptFails \/ ThreadFinishes
           \/ ThreadExits \/ Finished
      PROVE  TurnHeld'
  <2>1. CASE ThreadFinishes \/ ThreadExits
    <3>1. UNCHANGED <<turn, host, calls, rcall, again, deletion, row>>
      BY <2>1 DEF ThreadFinishes, ThreadExits
    <3> QED BY <3>1, TurnFrame
  <2>2. CASE RefuseReview
    BY <2>2 DEF RefuseReview, NoReview
  <2>3. CASE ReviewAnswered
    BY <2>3 DEF ReviewAnswered, TakesReview, Reviewable, RefusedReview, Free, Ready, NoReview
  <2>4. CASE JoinPrevious
    BY <2>4 DEF JoinPrevious, TakesReview, Reviewable, Over, Free, Ready
  <2>5. CASE AdmitReview
    BY <2>5 DEF AdmitReview, Holds, Goto
  <2>6. CASE AdmitRefused
    BY <2>6 DEF AdmitRefused, Holds, RefusedReview, NoReview, RowType
  <2>7. CASE StartReview
    BY <2>7 DEF StartReview, Holds, RefusedReview, NoReview
  <2>8. CASE Unwind
    BY <2>8 DEF Unwind, Holds, RefusedReview, ThreadAlive, NoReview
  <2>9. CASE ReserveFails
    BY <2>9 DEF ReserveFails, Holds, Spend, RefusedReview, NoReview
  <2>10. CASE AcceptFails
    BY <2>10 DEF AcceptFails, Holds, Spend, Goto
  <2>11. CASE Finished
    BY <2>11 DEF Finished, Over
  <2> QED BY <1>6, <2>1, <2>2, <2>3, <2>4, <2>5, <2>6, <2>7, <2>8, <2>9, <2>10, <2>11
<1>7. ASSUME 
              ForgetUnbound \/ Tombstone \/ ReconcileAgain \/ CheckDelete \/ DeferDelete
           \/ AlreadyComplete \/ CaptureTargets \/ CaptureRefused \/ CaptureCopies \/ SetManifest
           \/ DeleteTarget \/ DeleteRefused \/ VerifyAbsent \/ VerifyCopies \/ RetireLease
           \/ CompleteDelete \/ DeleteFails
      PROVE  TurnHeld'
  <2>1. CASE ForgetUnbound
    BY <2>1 DEF ForgetUnbound, Free
  <2>2. CASE Tombstone
    BY <2>2 DEF Tombstone, Free, Unready
  <2>3. CASE ReconcileAgain
    BY <2>3 DEF ReconcileAgain, Free, ThreadAlive
  <2>4. CASE CheckDelete
    BY <2>4 DEF CheckDelete
  <2>5. CASE DeferDelete
    BY <2>5 DEF DeferDelete, Settled
  <2>6. CASE AlreadyComplete
    BY <2>6 DEF AlreadyComplete, Settled
  <2>7. CASE CaptureTargets
    <3>1. turn'.by = turn.by /\ turn'.at = "copies" /\ turn.at = "capture"
      BY <2>7 DEF CaptureTargets, TurnTypes, Turns
    <3>2. UNCHANGED <<host, calls, rcall, again, deletion, row>>
      BY <2>7 DEF CaptureTargets
    <3> QED BY <3>1, <3>2
  <2>8. CASE CaptureRefused
    BY <2>8 DEF CaptureRefused, Settled
  <2>9. CASE CaptureCopies
    BY <2>9 DEF CaptureCopies
  <2>10. CASE SetManifest
    BY <2>10 DEF SetManifest, Goto
  <2>11. CASE DeleteTarget
    BY <2>11 DEF DeleteTarget, TurnTypes, Turns
  <2>12. CASE DeleteRefused
    BY <2>12 DEF DeleteRefused, Settled
  <2>13. CASE VerifyAbsent
    <3>1. turn.by \in Reconcilers /\ UNCHANGED <<calls, rcall, row, deletion>>
            /\ deletion.recorded
      BY <2>13 DEF VerifyAbsent, Settled
    <3>2. CASE \E s \in Frozen : Exists(s)
      BY <2>13, <3>1, <3>2 DEF VerifyAbsent, Settled
    <3>3. CASE ~(\E s \in Frozen : Exists(s))
      BY <2>13, <3>1, <3>3 DEF VerifyAbsent, Goto, TurnTypes, Turns
    <3> QED BY <3>2, <3>3
  <2>14. CASE VerifyCopies
    <3>1. turn.by \in Reconcilers /\ UNCHANGED <<calls, rcall, row, deletion>>
            /\ deletion.recorded
      BY <2>14 DEF VerifyCopies, Settled
    <3>2. CASE CopiesRemain
      BY <2>14, <3>1, <3>2 DEF VerifyCopies, Settled
    <3>3. CASE ~(CopiesRemain)
      BY <2>14, <3>1, <3>3 DEF VerifyCopies, Goto, TurnTypes, Turns
    <3> QED BY <3>2, <3>3
  <2>15. CASE RetireLease
    BY <2>15 DEF RetireLease, Goto
  <2>16. CASE CompleteDelete
    BY <2>16 DEF CompleteDelete, Settled, NoRow
  <2>17. CASE DeleteFails
    BY <2>17 DEF DeleteFails, Spend, Settled
  <2> QED BY <1>7, <2>1, <2>2, <2>3, <2>4, <2>5, <2>6, <2>7, <2>8, <2>9, <2>10, <2>11, <2>12,
        <2>13,
      <2>14, <2>15, <2>16, <2>17
<1>8. ASSUME 
              OthersWrite \/ OthersDelete \/ OthersLease \/ OthersRelease \/ LeaseLost
      PROVE  TurnHeld'
  <2>1. CASE OthersWrite \/ OthersDelete \/ OthersLease \/ OthersRelease \/ LeaseLost
    <3>1. UNCHANGED <<turn, host, calls, rcall, again, deletion, row>>
      BY <2>1 DEF OthersWrite, OthersDelete, Remove, OthersLease, OthersRelease, LeaseLost
    <3> QED BY <3>1, TurnFrame
  <2> QED BY <1>8, <2>1
<1>9. ASSUME NEW s \in Sessions, NEW k \in Kin,
              Branch(s, k) \/ Fork(s, k) \/ Compress(s, k)
      PROVE  TurnHeld'
  <2>1. CASE Branch(s, k) \/ Fork(s, k) \/ Compress(s, k)
    <3>1. UNCHANGED <<turn, host, calls, rcall, again, deletion, row>>
      BY <2>1 DEF Branch, Fork, Compress
    <3> QED BY <3>1, TurnFrame
  <2> QED BY <1>9, <2>1
<1>10. ASSUME NEW k \in Kin, RemoveKin(k)
      PROVE  TurnHeld'
  <2>1. UNCHANGED <<turn, host, calls, rcall, again, deletion, row>>
    BY <1>10 DEF RemoveKin, Remove
  <2> QED BY <2>1, TurnFrame
<1>11. ASSUME 
              Crash \/ BeginClose \/ CloseReviews \/ Close \/ Start
      PROVE  TurnHeld'
  <2>1. CASE Crash
    BY <2>1 DEF Crash, Spend, Gone, NoCall, NoReview
  <2>2. CASE BeginClose
    BY <2>2 DEF BeginClose, Spend, NoCall, NoReview
  <2>3. CASE CloseReviews
    BY <2>3 DEF CloseReviews, Free, Over
  <2>4. CASE Close
    BY <2>4 DEF Close, Free
  <2>5. CASE Start
    <3>1. UNCHANGED <<calls, rcall, row, deletion, again>> /\ host' # "down"
      BY <2>5 DEF Start
    <3>2. CASE turn' = turn
      BY <3>1, <3>2
    <3>3. CASE turn' # turn
      <4>1. deletion.recorded /\ turn' = [NoTurn EXCEPT !.by = "load", !.at = "check"]
        BY <2>5, <3>3 DEF Start
      <4> QED BY <3>1, <4>1
    <3> QED BY <3>2, <3>3
  <2> QED BY <1>11, <2>1, <2>2, <2>3, <2>4, <2>5
<1> QED BY <1>1, <1>2, <1>3, <1>4, <1>5, <1>6, <1>7, <1>8, <1>9, <1>10, <1>11
  DEF Next, Opening, Archiving, Reviewing, Deleting, Failing, Others

(* A turn that moves on, to a step that relies on nothing of the reviews   *)
(* or with no thread alive, keeps ReviewsHeld.                             *)
LEMMA ReviewsTurn ==
  ASSUME ReviewsHeld, UNCHANGED <<thread, active, deletion, reviewed, ledger>>,
         turn'.at \in {"admit", "start"} => turn.at \in {"admit", "start"} /\ rcall' = rcall,
         turn'.at \in DeletingSteps \ {"check"} =>
           ~ThreadAlive \/ turn.at \in DeletingSteps \ {"check"}
  PROVE  ReviewsHeld'
  BY DEF ReviewsHeld, ThreadAlive

(* A step that leaves these variables alone keeps ReviewsHeld.             *)
LEMMA ReviewsFrame ==
  ASSUME ReviewsHeld, UNCHANGED <<thread, active, deletion, turn, reviewed, ledger, rcall>>
  PROVE  ReviewsHeld'
  BY DEF ReviewsHeld, ThreadAlive

(* Each step keeps that no thread is alive behind a delete, and that a     *)
(* window once reviewed stays in the ledger.                               *)
LEMMA ReviewsHold ==
  ASSUME Types, TurnHeld, DeleteHeld, ReviewsHeld, Next
  PROVE  ReviewsHeld'
<1> USE DEF Types, ReviewsHeld, DeletingSteps, ThreadAlive, NoTurn, Reconcilers
<1>1. ASSUME 
              FreezeBatch \/ GiveUp \/ RestartRealtime \/ AskForget \/ SendForget
      PROVE  ReviewsHeld'
  <2>1. CASE FreezeBatch \/ GiveUp \/ RestartRealtime \/ AskForget \/ SendForget
    <3>1. UNCHANGED <<thread, active, deletion, turn, reviewed, ledger, rcall>>
      BY <2>1 DEF FreezeBatch, GiveUp, RestartRealtime, AskForget, SendForget
    <3> QED BY <3>1, ReviewsFrame
  <2> QED BY <1>1, <2>1
<1>2. ASSUME NEW c \in Calls, Send(c)
      PROVE  ReviewsHeld'
  <2>1. UNCHANGED <<thread, active, deletion, turn, reviewed, ledger, rcall>>
    BY <1>2 DEF Send
  <2> QED BY <2>1, ReviewsFrame
<1>3. ASSUME NEW w \in Windows, AskReview(w)
      PROVE  ReviewsHeld'
  <2>1. UNCHANGED <<thread, active, deletion, reviewed, ledger>>
    BY <1>3 DEF AskReview
  <2>2. turn'.at \in {"admit", "start"} => turn.at \in {"admit", "start"} /\ rcall' = rcall
    BY <1>3 DEF AskReview, NoReview, TurnHeld, OpeningSteps, ArchivingSteps, ReviewingSteps,
         Openers, TurnTypes, Turns
  <2>3. turn'.at \in DeletingSteps \ {"check"} => ~ThreadAlive
          \/ turn.at \in DeletingSteps \ {"check"}
    BY <1>3 DEF AskReview
  <2> QED BY <2>1, <2>2, <2>3, ReviewsTurn
<1>4. ASSUME NEW b \in Openers,
              AlreadyOpen(b) \/ OpenRefused(b) \/ Bind(b) \/ ReleasePrevious(b) \/ Acquire(b)
           \/ LeaseHeld(b) \/ Create(b) \/ Read(b) \/ Settle(b) \/ SettleFails(b) \/ OpenFails(b)
      PROVE  ReviewsHeld'
  <2>1. CASE Create(b)
    <3>1. UNCHANGED <<thread, active, deletion, turn, reviewed, ledger, rcall>>
      BY <2>1 DEF Create
    <3> QED BY <3>1, ReviewsFrame
  <2>2. CASE AlreadyOpen(b)
    <3>1. UNCHANGED <<thread, active, deletion, reviewed, ledger>>
      BY <2>2 DEF AlreadyOpen
    <3>2. turn'.at \in {"admit", "start"} => turn.at \in {"admit", "start"} /\ rcall' = rcall
      BY <2>2 DEF AlreadyOpen, Stage, Opened, TurnHeld, OpeningSteps, ArchivingSteps,
           ReviewingSteps, Openers, TurnTypes, Turns
    <3>3. turn'.at \in DeletingSteps \ {"check"} => ~ThreadAlive
            \/ turn.at \in DeletingSteps \ {"check"}
      BY <2>2 DEF AlreadyOpen
    <3> QED BY <3>1, <3>2, <3>3, ReviewsTurn
  <2>3. CASE OpenRefused(b)
    BY <2>3 DEF OpenRefused, StartsOpen, Answer, Free, Stage, Ready, Reply, NoReview, NoCall
  <2>4. CASE Bind(b)
    BY <2>4 DEF Bind, StartsOpen, NoRow, Free, Stage, Ready
  <2>5. CASE ReleasePrevious(b)
    BY <2>5 DEF ReleasePrevious, Holds, Goto
  <2>6. CASE Acquire(b)
    BY <2>6 DEF Acquire, Holds, Goto
  <2>7. CASE LeaseHeld(b)
    BY <2>7 DEF LeaseHeld, Holds, Answer, Reply, NoReview, NoCall
  <2>8. CASE Read(b)
    BY <2>8 DEF Read, Holds
  <2>9. CASE Settle(b)
    BY <2>9 DEF Settle, Holds, Cleared, Promoted, Intact, Opened
  <2>10. CASE SettleFails(b)
    BY <2>10 DEF SettleFails, Holds, Cleared, Promoted, Intact, Answer, Reply, NoReview, NoCall
  <2>11. CASE OpenFails(b)
    BY <2>11 DEF OpenFails, Spend, Cleared, Promoted, Intact, Answer, Reply, NoReview, NoCall
  <2> QED BY <1>4, <2>1, <2>2, <2>3, <2>4, <2>5, <2>6, <2>7, <2>8, <2>9, <2>10, <2>11
<1>5. ASSUME NEW c \in Calls,
              ArchiveRefused(c) \/ BeginPending(c) \/ Write(c) \/ RolledBack(c) \/ Mismatch(c)
           \/ ClearPending(c) \/ Promote(c) \/ BeginFails(c) \/ WriteUnknown(c)
           \/ MismatchUnwritten(c) \/ RecordFails(c)
      PROVE  ReviewsHeld'
  <2>1. CASE ArchiveRefused(c) \/ BeginFails(c)
    <3>1. UNCHANGED <<thread, active, deletion, turn, reviewed, ledger, rcall>>
      BY <2>1 DEF ArchiveRefused, Reply, BeginFails
    <3> QED BY <3>1, ReviewsFrame
  <2>2. CASE BeginPending(c)
    BY <2>2 DEF BeginPending, Takes, Admits, Free, Ready
  <2>3. CASE Write(c)
    BY <2>3 DEF Write, Goto
  <2>4. CASE RolledBack(c)
    BY <2>4 DEF RolledBack, Holds
  <2>5. CASE Mismatch(c)
    BY <2>5 DEF Mismatch, Holds, Unready, Reply, NoCall
  <2>6. CASE ClearPending(c)
    BY <2>6 DEF ClearPending, Holds, Unready, Reply, NoCall
  <2>7. CASE Promote(c)
    BY <2>7 DEF Promote, Holds, Reply, NoCall
  <2>8. CASE WriteUnknown(c)
    BY <2>8 DEF WriteUnknown, Holds, Spend, Unready, Reply, NoCall
  <2>9. CASE MismatchUnwritten(c)
    BY <2>9 DEF MismatchUnwritten, Holds, Spend, Unready, Reply, NoCall
  <2>10. CASE RecordFails(c)
    BY <2>10 DEF RecordFails, Spend, Unready, Reply, NoCall
  <2> QED BY <1>5, <2>1, <2>2, <2>3, <2>4, <2>5, <2>6, <2>7, <2>8, <2>9, <2>10
<1>6. ASSUME 
              RefuseReview \/ ReviewAnswered \/ JoinPrevious \/ AdmitReview \/ AdmitRefused
           \/ StartReview \/ Unwind \/ ReserveFails \/ AcceptFails \/ ThreadFinishes
           \/ ThreadExits \/ Finished
      PROVE  ReviewsHeld'
  <2>1. CASE RefuseReview
    <3>1. UNCHANGED <<thread, active, deletion, reviewed, ledger>>
      BY <2>1 DEF RefuseReview
    <3>2. turn'.at \in {"admit", "start"} => turn.at \in {"admit", "start"} /\ rcall' = rcall
      BY <2>1 DEF RefuseReview, TurnHeld, OpeningSteps, ArchivingSteps, ReviewingSteps, Openers,
           TurnTypes, Turns
    <3>3. turn'.at \in DeletingSteps \ {"check"} => ~ThreadAlive
            \/ turn.at \in DeletingSteps \ {"check"}
      BY <2>1 DEF RefuseReview
    <3> QED BY <3>1, <3>2, <3>3, ReviewsTurn
  <2>2. CASE ReviewAnswered
    BY <2>2 DEF ReviewAnswered, TakesReview, Reviewable, RefusedReview, Free, Ready, NoReview
  <2>3. CASE JoinPrevious
    <3>1. \A w \in Windows : ledger[w] # "none" => ledger'[w] # "none"
      BY <2>3 DEF JoinPrevious, Over, DeletionTypes
    <3>2. \A w \in Windows : ledger[w] = "none" => ledger'[w] = "none"
      BY <2>3 DEF JoinPrevious, Over, DeletionTypes
    <3>3. rcall.window \in Windows /\ ledger[rcall.window] = "none"
      BY <2>3 DEF JoinPrevious, TakesReview, TurnHeld
    <3>4. UNCHANGED <<deletion, reviewed, rcall>> /\ thread' = "none" /\ turn'.at = "admit"
      BY <2>3 DEF JoinPrevious
    <3> QED BY <3>1, <3>2, <3>3, <3>4
  <2>4. CASE AdmitReview
    BY <2>4 DEF AdmitReview, Holds, Goto
  <2>5. CASE AdmitRefused
    BY <2>5 DEF AdmitRefused, Holds, RefusedReview, Unready, Spend, NoReview
  <2>6. CASE StartReview
    <3>1. /\ turn.by = "review" /\ turn.at = "start" /\ rcall.window \in Windows
          /\ ~deletion.recorded /\ ~deletion.complete
      BY <2>6 DEF StartReview, Holds, TurnHeld, DeleteHeld, Openers
    <3>2. ledger[rcall.window] = "none" /\ reviewed[rcall.window] <= 1
            /\ reviewed[rcall.window] # 1
      BY <3>1
    <3>3. reviewed[rcall.window] = 0
      <4>1. reviewed[rcall.window] \in Nat
        BY <3>1 DEF HistoryTypes
      <4> QED BY <3>2, <4>1
    <3>4. reviewed' = [reviewed EXCEPT ![rcall.window] = 1]
      BY <2>6, <3>3 DEF StartReview
    <3>5. \A w \in Windows : reviewed'[w] <= 1 /\ (reviewed'[w] = 1 => ledger'[w] # "none")
      BY <2>6, <3>1, <3>4 DEF StartReview, HistoryTypes, DeletionTypes
    <3>6. active' # {} /\ deletion' = deletion /\ turn'.at \in {"free", "unwind"}
      BY <2>6 DEF StartReview, Goto, TurnTypes, Turns
    <3> QED BY <3>1, <3>5, <3>6
  <2>7. CASE Unwind
    <3>1. \A w \in Windows : ledger[w] # "none" => ledger'[w] # "none"
      BY <2>7 DEF Unwind, DeletionTypes
    <3>2. ThreadAlive' => ThreadAlive /\ active' = active
      BY <2>7 DEF Unwind, ThreadAlive
    <3>3. UNCHANGED <<deletion, reviewed>> /\ turn'.at = "free"
      BY <2>7 DEF Unwind, NoTurn
    <3> QED BY <3>1, <3>2, <3>3 DEF DeletingSteps
  <2>8. CASE ReserveFails
    BY <2>8 DEF ReserveFails, Holds, Spend, RefusedReview, NoReview
  <2>9. CASE AcceptFails
    <3>1. /\ turn.by = "review" /\ turn.at = "start" /\ rcall.window \in Windows
          /\ ~deletion.recorded /\ ~deletion.complete
      BY <2>9 DEF AcceptFails, Holds, TurnHeld, DeleteHeld, Openers
    <3>2. ledger[rcall.window] = "none" /\ reviewed[rcall.window] <= 1
            /\ reviewed[rcall.window] # 1
      BY <3>1
    <3>3. reviewed[rcall.window] = 0
      <4>1. reviewed[rcall.window] \in Nat
        BY <3>1 DEF HistoryTypes
      <4> QED BY <3>2, <4>1
    <3>4. reviewed' = [reviewed EXCEPT ![rcall.window] = 1]
      BY <2>9, <3>3 DEF AcceptFails
    <3>5. \A w \in Windows : reviewed'[w] <= 1 /\ (reviewed'[w] = 1 => ledger'[w] # "none")
      BY <2>9, <3>1, <3>4 DEF AcceptFails, HistoryTypes, DeletionTypes
    <3>6. active' # {} /\ deletion' = deletion /\ turn'.at \in {"free", "unwind"}
      BY <2>9 DEF AcceptFails, Goto, TurnTypes, Turns
    <3> QED BY <3>1, <3>5, <3>6
  <2>10. CASE ThreadFinishes
    BY <2>10 DEF ThreadFinishes
  <2>11. CASE ThreadExits
    BY <2>11 DEF ThreadExits
  <2>12. CASE Finished
    <3>1. \A w \in Windows : ledger[w] # "none" => ledger'[w] # "none"
      BY <2>12 DEF Finished, Over, DeletionTypes
    <3>2. \A w \in Windows : ledger[w] = "none" => ledger'[w] = "none"
      BY <2>12 DEF Finished, Over, DeletionTypes
    <3>3. turn.at \in {"admit", "start"} => rcall.window \in Windows
      BY DEF TurnHeld, TurnTypes, Turns, OpeningSteps, ArchivingSteps, ReviewingSteps, Openers
    <3>4. UNCHANGED <<thread, active, deletion, turn, reviewed, rcall>>
      BY <2>12 DEF Finished
    <3> QED BY <3>1, <3>2, <3>3, <3>4
  <2> QED BY <1>6, <2>1, <2>2, <2>3, <2>4, <2>5, <2>6, <2>7, <2>8, <2>9, <2>10, <2>11, <2>12
<1>7. ASSUME 
              ForgetUnbound \/ Tombstone \/ ReconcileAgain \/ CheckDelete \/ DeferDelete
           \/ AlreadyComplete \/ CaptureTargets \/ CaptureRefused \/ CaptureCopies \/ SetManifest
           \/ DeleteTarget \/ DeleteRefused \/ VerifyAbsent \/ VerifyCopies \/ RetireLease
           \/ CompleteDelete \/ DeleteFails
      PROVE  ReviewsHeld'
  <2>1. CASE ForgetUnbound
    BY <2>1 DEF ForgetUnbound, Free
  <2>2. CASE Tombstone
    BY <2>2 DEF Tombstone, Free, Unready
  <2>3. CASE ReconcileAgain
    BY <2>3 DEF ReconcileAgain, Free, ThreadAlive
  <2>4. CASE CheckDelete
    <3>1. UNCHANGED <<thread, active, deletion, reviewed, ledger>>
      BY <2>4 DEF CheckDelete, Admitted
    <3>2. turn'.at \in {"admit", "start"} => turn.at \in {"admit", "start"} /\ rcall' = rcall
      BY <2>4 DEF CheckDelete, TurnTypes, Turns
    <3>3. turn'.at \in DeletingSteps \ {"check"} => ~ThreadAlive
            \/ turn.at \in DeletingSteps \ {"check"}
      BY <2>4 DEF CheckDelete, Admitted
    <3> QED BY <3>1, <3>2, <3>3, ReviewsTurn
  <2>5. CASE DeferDelete
    BY <2>5 DEF DeferDelete, Settled
  <2>6. CASE AlreadyComplete
    BY <2>6 DEF AlreadyComplete, Settled
  <2>7. CASE CaptureTargets
    <3>1. turn'.at = "copies" /\ turn.at = "capture"
      BY <2>7 DEF CaptureTargets, TurnTypes, Turns
    <3> QED BY <2>7, <3>1 DEF CaptureTargets
  <2>8. CASE CaptureRefused
    BY <2>8 DEF CaptureRefused, Settled
  <2>9. CASE CaptureCopies
    BY <2>9 DEF CaptureCopies
  <2>10. CASE SetManifest
    BY <2>10 DEF SetManifest, Goto
  <2>11. CASE DeleteTarget
    <3>1. UNCHANGED <<thread, active, deletion, reviewed, ledger>>
      BY <2>11 DEF DeleteTarget
    <3>2. turn'.at \in {"admit", "start"} => turn.at \in {"admit", "start"} /\ rcall' = rcall
      BY <2>11 DEF DeleteTarget, TurnTypes, Turns
    <3>3. turn'.at \in DeletingSteps \ {"check"} => ~ThreadAlive
            \/ turn.at \in DeletingSteps \ {"check"}
      BY <2>11 DEF DeleteTarget
    <3> QED BY <3>1, <3>2, <3>3, ReviewsTurn
  <2>12. CASE DeleteRefused
    BY <2>12 DEF DeleteRefused, Settled
  <2>13. CASE VerifyAbsent
    <3>1. UNCHANGED <<thread, active, deletion, reviewed, ledger>>
      BY <2>13 DEF VerifyAbsent, Settled, Goto
    <3>2. turn'.at \in {"admit", "start"} => turn.at \in {"admit", "start"} /\ rcall' = rcall
      BY <2>13 DEF VerifyAbsent, Settled, Goto, TurnTypes, Turns
    <3>3. turn'.at \in DeletingSteps \ {"check"} => ~ThreadAlive
            \/ turn.at \in DeletingSteps \ {"check"}
      BY <2>13 DEF VerifyAbsent, Settled, Goto
    <3> QED BY <3>1, <3>2, <3>3, ReviewsTurn
  <2>14. CASE VerifyCopies
    <3>1. UNCHANGED <<thread, active, deletion, reviewed, ledger>>
      BY <2>14 DEF VerifyCopies, Settled, Goto
    <3>2. turn'.at \in {"admit", "start"} => turn.at \in {"admit", "start"} /\ rcall' = rcall
      BY <2>14 DEF VerifyCopies, Settled, Goto, TurnTypes, Turns
    <3>3. turn'.at \in DeletingSteps \ {"check"} => ~ThreadAlive
            \/ turn.at \in DeletingSteps \ {"check"}
      BY <2>14 DEF VerifyCopies, Settled, Goto
    <3> QED BY <3>1, <3>2, <3>3, ReviewsTurn
  <2>15. CASE RetireLease
    BY <2>15 DEF RetireLease, Goto
  <2>16. CASE CompleteDelete
    BY <2>16 DEF CompleteDelete, Settled, NoRow
  <2>17. CASE DeleteFails
    BY <2>17 DEF DeleteFails, Spend, Settled
  <2> QED BY <1>7, <2>1, <2>2, <2>3, <2>4, <2>5, <2>6, <2>7, <2>8, <2>9, <2>10, <2>11, <2>12,
        <2>13,
      <2>14, <2>15, <2>16, <2>17
<1>8. ASSUME 
              OthersWrite \/ OthersDelete \/ OthersLease \/ OthersRelease \/ LeaseLost
      PROVE  ReviewsHeld'
  <2>1. CASE OthersWrite \/ OthersDelete \/ OthersLease \/ OthersRelease \/ LeaseLost
    <3>1. UNCHANGED <<thread, active, deletion, turn, reviewed, ledger, rcall>>
      BY <2>1 DEF OthersWrite, OthersDelete, Remove, OthersLease, OthersRelease, LeaseLost
    <3> QED BY <3>1, ReviewsFrame
  <2> QED BY <1>8, <2>1
<1>9. ASSUME NEW s \in Sessions, NEW k \in Kin,
              Branch(s, k) \/ Fork(s, k) \/ Compress(s, k)
      PROVE  ReviewsHeld'
  <2>1. CASE Branch(s, k) \/ Fork(s, k) \/ Compress(s, k)
    <3>1. UNCHANGED <<thread, active, deletion, turn, reviewed, ledger, rcall>>
      BY <2>1 DEF Branch, Fork, Compress
    <3> QED BY <3>1, ReviewsFrame
  <2> QED BY <1>9, <2>1
<1>10. ASSUME NEW k \in Kin, RemoveKin(k)
      PROVE  ReviewsHeld'
  <2>1. UNCHANGED <<thread, active, deletion, turn, reviewed, ledger, rcall>>
    BY <1>10 DEF RemoveKin, Remove
  <2> QED BY <2>1, ReviewsFrame
<1>11. ASSUME 
              Crash \/ BeginClose \/ CloseReviews \/ Close \/ Start
      PROVE  ReviewsHeld'
  <2>1. CASE Close
    <3>1. UNCHANGED <<thread, active, deletion, turn, reviewed, ledger, rcall>>
      BY <2>1 DEF Close
    <3> QED BY <3>1, ReviewsFrame
  <2>2. CASE Crash
    BY <2>2 DEF Crash, Spend, Gone, NoCall, NoReview
  <2>3. CASE BeginClose
    <3>1. UNCHANGED <<thread, active, deletion, reviewed, ledger>>
      BY <2>3 DEF BeginClose
    <3>2. turn'.at \in {"admit", "start"} => turn.at \in {"admit", "start"} /\ rcall' = rcall
      BY <2>3 DEF BeginClose, TurnHeld, OpeningSteps, ArchivingSteps, ReviewingSteps, Openers,
           TurnTypes, Turns
    <3>3. turn'.at \in DeletingSteps \ {"check"} => ~ThreadAlive
            \/ turn.at \in DeletingSteps \ {"check"}
      BY <2>3 DEF BeginClose
    <3> QED BY <3>1, <3>2, <3>3, ReviewsTurn
  <2>4. CASE CloseReviews
    BY <2>4 DEF CloseReviews, Free, Over
  <2>5. CASE Start
    <3>1. UNCHANGED <<thread, active, deletion, reviewed, rcall>>
      BY <2>5 DEF Start
    <3>2. \A w \in Windows : ledger[w] # "none" => ledger'[w] # "none"
      BY <2>5 DEF Start
    <3>3. turn' = turn \/ turn'.at = "check"
      BY <2>5 DEF Start
    <3>4. turn'.at \in {"admit", "start"} => ledger'[rcall.window] = "none"
      <4>1. SUFFICES ASSUME turn' = turn, turn.at \in {"admit", "start"}
                     PROVE  ledger'[rcall.window] = "none"
        BY <3>3
      <4>2. rcall.window \in Windows
        BY <4>1 DEF TurnHeld, TurnTypes, Turns, OpeningSteps, ArchivingSteps, ReviewingSteps,
             Openers
      <4> QED BY <2>5, <4>1, <4>2 DEF Start
    <3> QED BY <3>1, <3>2, <3>3, <3>4
  <2> QED BY <1>11, <2>1, <2>2, <2>3, <2>4, <2>5
<1> QED BY <1>1, <1>2, <1>3, <1>4, <1>5, <1>6, <1>7, <1>8, <1>9, <1>10, <1>11
  DEF Next, Opening, Archiving, Reviewing, Deleting, Failing, Others

(* What is derived from sessions is there.                                 *)
LEMMA CopiesExist ==
  ASSUME NEW t
  PROVE  \A k \in CopiesOf(t) : k \in Kin /\ kin[k].here
<1> DEFINE here == {k \in Kin : kin[k].here}
<1>1. \A s : Derived(s) \subseteq here
  BY DEF Derived, Children
<1>2. here \in SUBSET Kin /\ \A s \in here \union t : Derived(s) \subseteq here
  BY <1>1
<1> QED BY <1>2 DEF CopiesOf

(* What a manifest freezes are sessions.                                   *)
LEMMA FrozenType == ASSUME Types PROVE Frozen \subseteq Sessions
<1>1. \A t \in deletion.targets : t \in Seq(Sessions)
  BY DEF Types, DeletionTypes, Opt
<1>2. \A t \in Seq(Sessions) : Elements(t) \subseteq Sessions
  BY DEF Elements
<1> QED BY <1>1, <1>2 DEF Frozen

(* A step that leaves these variables alone keeps DeleteHeld.              *)
LEMMA DeleteFrame ==
  ASSUME DeleteHeld, UNCHANGED <<kin, deletion, turn, session, owed, live, row>>
  PROVE  DeleteHeld'
  BY DEF DeleteHeld, KinBorn, Absent, NoCopies, Frozen, Exists

(* Before the delete is recorded there is nothing to it but the sessions   *)
(* that have been derived.                                                 *)
LEMMA DeleteIdle ==
  ASSUME DeleteHeld, ~deletion.recorded, UNCHANGED <<kin, deletion>>,
           turn'.at \notin DeletingSteps
  PROVE  DeleteHeld'
<1>1. deletion'.targets = {} /\ ~deletion'.complete /\ KinBorn'
  BY DEF DeleteHeld, KinBorn
<1> QED BY <1>1 DEF DeleteHeld, DeletingSteps

(* A reconciliation that goes on: what the step it goes to relies on.      *)
LEMMA DeleteKept ==
  ASSUME DeleteHeld, UNCHANGED <<kin, deletion, session, owed, row>>, live = {} => live' = {},
         turn'.at \in {"check", "capture"} => turn'.targets = <<>>,
         turn'.at \in {"capture", "copies"} => deletion.targets = {} /\ ~deletion.complete,
         turn'.at = "copies" =>
           /\ turn'.targets = <<>> => session = {}
           /\ turn'.targets # <<>> => Voice \in Elements(turn'.targets)
           /\ \A k \in Elements(turn'.targets) \intersect Kin : kin[k].born,
         turn'.at # "manifest",
         turn'.at \in {"delete", "verify", "retire", "complete"} =>
           deletion.targets # {} /\ ~deletion.complete,
         turn'.at \in {"verify", "retire", "complete"} => Absent,
         turn'.at \in {"retire", "complete"} => NoCopies,
         turn'.at = "complete" => live' = {}
  PROVE  DeleteHeld'
<1>1. /\ KinBorn' /\ Frozen' = Frozen /\ (Absent => Absent') /\ (NoCopies => NoCopies')
  BY DEF DeleteHeld, KinBorn, Absent, NoCopies, Frozen, Exists
<1>2. deletion.complete => Absent /\ NoCopies /\ live = {} /\ deletion.targets # {}
  BY DEF DeleteHeld
<1> QED BY <1>1, <1>2 DEF DeleteHeld, DeletingSteps

(* A turn that is over, or a delete that begins to be reconciled, keeps    *)
(* DeleteHeld.                                                             *)
LEMMA DeleteLater ==
  ASSUME DeleteHeld, UNCHANGED <<kin, deletion, session, owed, row>>, live = {} => live' = {},
         \/ turn'.at = "free" \/ (turn'.at = "check" /\ turn'.targets = <<>>)
         \/ turn' = turn
  PROVE  DeleteHeld'
<1>1. CASE turn'.at = "free" \/ (turn'.at = "check" /\ turn'.targets = <<>>)
  BY <1>1, DeleteKept
<1>2. CASE turn' = turn
  <2>1. /\ KinBorn' /\ Frozen' = Frozen /\ (Absent => Absent') /\ (NoCopies => NoCopies')
    BY DEF DeleteHeld, KinBorn, Absent, NoCopies, Frozen, Exists
  <2> QED BY <1>2, <2>1 DEF DeleteHeld
<1> QED BY <1>1, <1>2

(* Removing a session brings nothing back and derives nothing.             *)
LEMMA RemoveKeeps ==
  ASSUME Types, DeleteHeld, NEW s, Remove(s), UNCHANGED <<deletion, owed, row, live>>,
         turn' = turn \/ (turn.at = "delete" /\ turn'.at = "delete")
  PROVE  DeleteHeld'
<1>1. session' = session \/ session' = {}
  BY DEF Remove
<1>2. \A k \in Kin :
        /\ kin'[k].here => kin[k].here /\ kin'[k].branch = kin[k].branch
        /\ kin'[k].born = kin[k].born
        /\ ~kin'[k].here => kin'[k].parent = {} /\ kin'[k].branch = {}
  <2>1. SUFFICES ASSUME NEW k \in Kin
                 PROVE  /\ kin'[k].here => kin[k].here /\ kin'[k].branch = kin[k].branch
                        /\ kin'[k].born = kin[k].born
                        /\ ~kin'[k].here => kin'[k].parent = {} /\ kin'[k].branch = {}
    OBVIOUS
  <2>2. kin'[k] = IF k = s THEN [kin[k] EXCEPT !.here = FALSE, !.parent = {}, !.branch = {}]
                  ELSE IF kin[k].parent = {s} THEN [kin[k] EXCEPT !.parent = {}]
                  ELSE kin[k]
    BY DEF Remove
  <2>3. kin[k] \in [here : BOOLEAN, born : BOOLEAN, parent : Opt(Sessions),
          branch : Opt(Sessions)]
    BY DEF Types, KinType
  <2>4. ~kin[k].here => kin[k].parent = {} /\ kin[k].branch = {}
    BY DEF DeleteHeld, KinBorn
  <2> QED BY <2>2, <2>3, <2>4
<1>3. KinBorn'
  BY <1>2 DEF DeleteHeld, KinBorn
<1>4. Frozen' = Frozen /\ Frozen \subseteq Sessions /\ deletion.copies \subseteq Kin
  BY FrozenType DEF Frozen, Types, DeletionTypes
<1>5. \A x \in Sessions : Exists(x)' => Exists(x)
  BY <1>1, <1>2 DEF Exists, Sessions
<1>6. (Absent => Absent') /\ (NoCopies => NoCopies')
  BY <1>2, <1>4, <1>5 DEF Absent, NoCopies
<1>7. session = {} => session' = {}
  BY <1>1
<1>8. \A S : (\A k \in S \intersect Kin : kin[k].born) => \A k \in S \intersect Kin : kin'[k].born
  BY <1>2
<1>9. owed \subseteq Kin
  BY DEF Types, HistoryTypes
<1>10. /\ deletion'.targets = deletion.targets /\ deletion'.copies = deletion.copies
       /\ deletion'.recorded = deletion.recorded /\ deletion'.complete = deletion.complete
  OBVIOUS
<1>11. CASE turn' = turn
  BY <1>3, <1>4, <1>6, <1>7, <1>8, <1>9, <1>10, <1>11 DEF DeleteHeld
<1>12. CASE turn.at = "delete" /\ turn'.at = "delete"
  BY <1>3, <1>4, <1>6, <1>7, <1>8, <1>9, <1>10, <1>12 DEF DeleteHeld, DeletingSteps
<1> QED BY <1>11, <1>12

(* A session is derived from one that is there, so it is neither frozen    *)
(* nor derived from what a finished delete has removed.                    *)
LEMMA DeriveKeeps ==
  ASSUME Types, DeleteHeld, NEW s \in Sessions, NEW k \in Kin, NEW branch \in {{}, {s}},
         Derive(s, k, branch), UNCHANGED <<deletion, turn, session, owed, row, live>>
  PROVE  DeleteHeld'
<1>1. /\ Exists(s) /\ ~kin[k].born
      /\ kin'[k] = [here |-> TRUE, born |-> TRUE, parent |-> {s}, branch |-> branch]
      /\ \A j \in Kin : j # k => kin'[j] = kin[j]
  BY DEF Derive, Types, KinType
<1>2. \A j \in Kin : kin[j].born => kin'[j].born
  BY <1>1
<1>3. KinBorn'
  BY <1>1 DEF DeleteHeld, KinBorn
<1>4. Frozen' = Frozen /\ Frozen \subseteq Sessions /\ deletion.copies \subseteq Kin
  BY FrozenType DEF Frozen, Types, DeletionTypes
<1>5. deletion.targets # {} => k \notin Frozen \union deletion.copies
  BY <1>1 DEF DeleteHeld
<1>6. deletion.targets # {} /\ Absent => Absent'
  BY <1>1, <1>4, <1>5 DEF Absent, Exists, Sessions
<1>7. deletion.targets # {} /\ Absent /\ NoCopies => NoCopies'
  <2>1. SUFFICES ASSUME deletion.targets # {}, Absent, NoCopies
                 PROVE  NoCopies'
    OBVIOUS
  <2>2. s \notin Frozen
    BY <1>1, <2>1 DEF Absent
  <2>3. s \notin deletion.copies
    BY <1>1, <1>4, <2>1 DEF NoCopies, Exists
  <2>4. \A x \in Frozen \union deletion.copies : branch # {x}
    BY <2>2, <2>3
  <2> QED BY <1>1, <1>4, <1>5, <2>1, <2>4 DEF NoCopies
<1>8. \A S : (\A j \in S \intersect Kin : kin[j].born) => \A j \in S \intersect Kin : kin'[j].born
  BY <1>2
<1>9. owed \subseteq Kin
  BY DEF Types, HistoryTypes
<1> QED BY <1>3, <1>4, <1>6, <1>7, <1>8, <1>9 DEF DeleteHeld

(* Each step keeps what the current step of a delete relies on, and what a *)
(* complete delete has left.                                               *)
LEMMA DeleteHolds ==
  ASSUME Types, TurnHeld, DeleteHeld, Next
  PROVE  DeleteHeld'
<1>1. ASSUME 
              FreezeBatch \/ GiveUp \/ RestartRealtime \/ AskForget \/ SendForget
      PROVE  DeleteHeld'
  <2>1. CASE FreezeBatch \/ GiveUp \/ RestartRealtime \/ AskForget \/ SendForget
    <3>1. UNCHANGED <<kin, deletion, turn, session, owed, live, row>>
      BY <2>1 DEF FreezeBatch, GiveUp, RestartRealtime, AskForget, SendForget
    <3> QED BY <3>1, DeleteFrame
  <2> QED BY <1>1, <2>1
<1>2. ASSUME NEW c \in Calls, Send(c)
      PROVE  DeleteHeld'
  <2>1. UNCHANGED <<kin, deletion, turn, session, owed, live, row>>
    BY <1>2 DEF Send
  <2> QED BY <2>1, DeleteFrame
<1>3. ASSUME NEW w \in Windows, AskReview(w)
      PROVE  DeleteHeld'
  <2>1. UNCHANGED <<kin, deletion, turn, session, owed, live, row>>
    BY <1>3 DEF AskReview
  <2> QED BY <2>1, DeleteFrame
<1>4. ASSUME NEW b \in Openers,
              AlreadyOpen(b) \/ OpenRefused(b) \/ Bind(b) \/ ReleasePrevious(b) \/ Acquire(b)
           \/ LeaseHeld(b) \/ Create(b) \/ Read(b) \/ Settle(b) \/ SettleFails(b) \/ OpenFails(b)
      PROVE  DeleteHeld'
  <2>1. CASE AlreadyOpen(b) \/ OpenRefused(b)
    <3>1. UNCHANGED <<kin, deletion, turn, session, owed, live, row>>
      BY <2>1 DEF AlreadyOpen, Opened, OpenRefused, Answer, Reply
    <3> QED BY <3>1, DeleteFrame
  <2>2. CASE Bind(b)
    <3>1. ~deletion.recorded
      BY <2>2 DEF Bind, StartsOpen, TurnHeld
    <3>2. UNCHANGED <<kin, deletion>> /\ turn'.at \notin DeletingSteps
      BY <2>2 DEF Bind, NoTurn, DeletingSteps, Types, TurnTypes, Turns
    <3> QED BY <3>1, <3>2, DeleteIdle
  <2>3. CASE ReleasePrevious(b)
    <3>1. ~deletion.recorded
      BY <2>3 DEF ReleasePrevious, Holds, TurnHeld, Openers
    <3>2. UNCHANGED <<kin, deletion>> /\ turn'.at \notin DeletingSteps
      BY <2>3 DEF ReleasePrevious, Goto, DeletingSteps, Types, TurnTypes, Turns
    <3> QED BY <3>1, <3>2, DeleteIdle
  <2>4. CASE Acquire(b)
    <3>1. ~deletion.recorded
      BY <2>4 DEF Acquire, Holds, TurnHeld, Openers
    <3>2. UNCHANGED <<kin, deletion>> /\ turn'.at \notin DeletingSteps
      BY <2>4 DEF Acquire, Goto, DeletingSteps, Types, TurnTypes, Turns
    <3> QED BY <3>1, <3>2, DeleteIdle
  <2>5. CASE LeaseHeld(b)
    <3>1. ~deletion.recorded
      BY <2>5 DEF LeaseHeld, Holds, TurnHeld, Openers
    <3>2. UNCHANGED <<kin, deletion>> /\ turn'.at \notin DeletingSteps
      BY <2>5 DEF LeaseHeld, NoTurn, DeletingSteps, Types, TurnTypes, Turns
    <3> QED BY <3>1, <3>2, DeleteIdle
  <2>6. CASE Create(b)
    <3>1. ~deletion.recorded
      BY <2>6 DEF Create, Holds, TurnHeld, Openers
    <3>2. UNCHANGED <<kin, deletion>> /\ turn'.at \notin DeletingSteps
      BY <2>6 DEF Create, Holds, DeletingSteps, Types, TurnTypes, Turns
    <3> QED BY <3>1, <3>2, DeleteIdle
  <2>7. CASE Read(b)
    <3>1. ~deletion.recorded
      BY <2>7 DEF Read, Holds, TurnHeld, Openers
    <3>2. UNCHANGED <<kin, deletion>> /\ turn'.at \notin DeletingSteps
      BY <2>7 DEF Read, DeletingSteps, Types, TurnTypes, Turns
    <3> QED BY <3>1, <3>2, DeleteIdle
  <2>8. CASE Settle(b)
    <3>1. ~deletion.recorded
      BY <2>8 DEF Settle, Holds, TurnHeld, Openers
    <3>2. UNCHANGED <<kin, deletion>> /\ turn'.at \notin DeletingSteps
      BY <2>8 DEF Settle, NoTurn, DeletingSteps, Types, TurnTypes, Turns
    <3> QED BY <3>1, <3>2, DeleteIdle
  <2>9. CASE SettleFails(b)
    <3>1. ~deletion.recorded
      BY <2>9 DEF SettleFails, Holds, TurnHeld, Openers
    <3>2. UNCHANGED <<kin, deletion>> /\ turn'.at \notin DeletingSteps
      BY <2>9 DEF SettleFails, NoTurn, DeletingSteps, Types, TurnTypes, Turns
    <3> QED BY <3>1, <3>2, DeleteIdle
  <2>10. CASE OpenFails(b)
    <3>1. ~deletion.recorded
      BY <2>10 DEF OpenFails, TurnHeld, Openers
    <3>2. UNCHANGED <<kin, deletion>> /\ turn'.at \notin DeletingSteps
      BY <2>10 DEF OpenFails, NoTurn, DeletingSteps, Types, TurnTypes, Turns
    <3> QED BY <3>1, <3>2, DeleteIdle
  <2> QED BY <1>4, <2>1, <2>2, <2>3, <2>4, <2>5, <2>6, <2>7, <2>8, <2>9, <2>10
<1>5. ASSUME NEW c \in Calls,
              ArchiveRefused(c) \/ BeginPending(c) \/ Write(c) \/ RolledBack(c) \/ Mismatch(c)
           \/ ClearPending(c) \/ Promote(c) \/ BeginFails(c) \/ WriteUnknown(c)
           \/ MismatchUnwritten(c) \/ RecordFails(c)
      PROVE  DeleteHeld'
  <2>1. CASE ArchiveRefused(c) \/ BeginFails(c)
    <3>1. UNCHANGED <<kin, deletion, turn, session, owed, live, row>>
      BY <2>1 DEF ArchiveRefused, Reply, BeginFails
    <3> QED BY <3>1, DeleteFrame
  <2>2. CASE BeginPending(c)
    <3>1. ~deletion.recorded
      BY <2>2 DEF BeginPending, Admits, TurnHeld
    <3>2. UNCHANGED <<kin, deletion>> /\ turn'.at \notin DeletingSteps
      BY <2>2 DEF BeginPending, NoTurn, DeletingSteps, Types, TurnTypes, Turns
    <3> QED BY <3>1, <3>2, DeleteIdle
  <2>3. CASE Write(c)
    <3>1. ~deletion.recorded
      BY <2>3 DEF Write, Applies, MayWrite, Holds, TurnHeld, Openers
    <3>2. UNCHANGED <<kin, deletion>> /\ turn'.at \notin DeletingSteps
      BY <2>3 DEF Write, Goto, DeletingSteps, Types, TurnTypes, Turns
    <3> QED BY <3>1, <3>2, DeleteIdle
  <2>4. CASE RolledBack(c)
    <3>1. ~deletion.recorded
      BY <2>4 DEF RolledBack, Holds, TurnHeld, Openers
    <3>2. UNCHANGED <<kin, deletion>> /\ turn'.at \notin DeletingSteps
      BY <2>4 DEF RolledBack, DeletingSteps, Types, TurnTypes, Turns
    <3> QED BY <3>1, <3>2, DeleteIdle
  <2>5. CASE Mismatch(c)
    <3>1. ~deletion.recorded
      BY <2>5 DEF Mismatch, Holds, TurnHeld, Openers
    <3>2. UNCHANGED <<kin, deletion>> /\ turn'.at \notin DeletingSteps
      BY <2>5 DEF Mismatch, NoTurn, DeletingSteps, Types, TurnTypes, Turns
    <3> QED BY <3>1, <3>2, DeleteIdle
  <2>6. CASE ClearPending(c)
    <3>1. ~deletion.recorded
      BY <2>6 DEF ClearPending, Holds, TurnHeld, Openers
    <3>2. UNCHANGED <<kin, deletion>> /\ turn'.at \notin DeletingSteps
      BY <2>6 DEF ClearPending, NoTurn, DeletingSteps, Types, TurnTypes, Turns
    <3> QED BY <3>1, <3>2, DeleteIdle
  <2>7. CASE Promote(c)
    <3>1. ~deletion.recorded
      BY <2>7 DEF Promote, Holds, TurnHeld, Openers
    <3>2. UNCHANGED <<kin, deletion>> /\ turn'.at \notin DeletingSteps
      BY <2>7 DEF Promote, NoTurn, DeletingSteps, Types, TurnTypes, Turns
    <3> QED BY <3>1, <3>2, DeleteIdle
  <2>8. CASE WriteUnknown(c)
    <3>1. ~deletion.recorded
      BY <2>8 DEF WriteUnknown, Holds, TurnHeld, Openers
    <3>2. UNCHANGED <<kin, deletion>> /\ turn'.at \notin DeletingSteps
      BY <2>8 DEF WriteUnknown, NoTurn, DeletingSteps, Types, TurnTypes, Turns
    <3> QED BY <3>1, <3>2, DeleteIdle
  <2>9. CASE MismatchUnwritten(c)
    <3>1. ~deletion.recorded
      BY <2>9 DEF MismatchUnwritten, Holds, TurnHeld, Openers
    <3>2. UNCHANGED <<kin, deletion>> /\ turn'.at \notin DeletingSteps
      BY <2>9 DEF MismatchUnwritten, NoTurn, DeletingSteps, Types, TurnTypes, Turns
    <3> QED BY <3>1, <3>2, DeleteIdle
  <2>10. CASE RecordFails(c)
    <3>1. ~deletion.recorded
      BY <2>10 DEF RecordFails, TurnHeld, Openers
    <3>2. UNCHANGED <<kin, deletion>> /\ turn'.at \notin DeletingSteps
      BY <2>10 DEF RecordFails, NoTurn, DeletingSteps, Types, TurnTypes, Turns
    <3> QED BY <3>1, <3>2, DeleteIdle
  <2> QED BY <1>5, <2>1, <2>2, <2>3, <2>4, <2>5, <2>6, <2>7, <2>8, <2>9, <2>10
<1>6. ASSUME 
              RefuseReview \/ ReviewAnswered \/ JoinPrevious \/ AdmitReview \/ AdmitRefused
           \/ StartReview \/ Unwind \/ ReserveFails \/ AcceptFails \/ ThreadFinishes
           \/ ThreadExits \/ Finished
      PROVE  DeleteHeld'
  <2>1. CASE RefuseReview \/ ReviewAnswered \/ ThreadFinishes \/ ThreadExits \/ Finished
    <3>1. UNCHANGED <<kin, deletion, turn, session, owed, live, row>>
      BY <2>1
        DEF RefuseReview, ReviewAnswered, RefusedReview, ThreadFinishes, ThreadExits, Finished
    <3> QED BY <3>1, DeleteFrame
  <2>2. CASE JoinPrevious
    <3>1. ~deletion.recorded
      BY <2>2 DEF JoinPrevious, Reviewable, TurnHeld
    <3>2. UNCHANGED <<kin, deletion>> /\ turn'.at \notin DeletingSteps
      BY <2>2 DEF JoinPrevious, NoTurn, DeletingSteps, Types, TurnTypes, Turns
    <3> QED BY <3>1, <3>2, DeleteIdle
  <2>3. CASE AdmitReview
    <3>1. ~deletion.recorded
      BY <2>3 DEF AdmitReview, Holds, TurnHeld, Openers
    <3>2. UNCHANGED <<kin, deletion>> /\ turn'.at \notin DeletingSteps
      BY <2>3 DEF AdmitReview, Goto, DeletingSteps, Types, TurnTypes, Turns
    <3> QED BY <3>1, <3>2, DeleteIdle
  <2>4. CASE AdmitRefused
    <3>1. ~deletion.recorded
      BY <2>4 DEF AdmitRefused, Holds, TurnHeld, Openers
    <3>2. UNCHANGED <<kin, deletion>> /\ turn'.at \notin DeletingSteps
      BY <2>4 DEF AdmitRefused, NoTurn, DeletingSteps, Types, TurnTypes, Turns
    <3> QED BY <3>1, <3>2, DeleteIdle
  <2>5. CASE StartReview
    <3>1. ~deletion.recorded
      BY <2>5 DEF StartReview, Holds, TurnHeld, Openers
    <3>2. UNCHANGED <<kin, deletion>> /\ turn'.at \notin DeletingSteps
      BY <2>5 DEF StartReview, NoTurn, DeletingSteps, Types, TurnTypes, Turns
    <3> QED BY <3>1, <3>2, DeleteIdle
  <2>6. CASE Unwind
    <3>1. ~deletion.recorded
      BY <2>6 DEF Unwind, Holds, TurnHeld, Openers
    <3>2. UNCHANGED <<kin, deletion>> /\ turn'.at \notin DeletingSteps
      BY <2>6 DEF Unwind, NoTurn, DeletingSteps, Types, TurnTypes, Turns
    <3> QED BY <3>1, <3>2, DeleteIdle
  <2>7. CASE ReserveFails
    <3>1. ~deletion.recorded
      BY <2>7 DEF ReserveFails, Holds, TurnHeld, Openers
    <3>2. UNCHANGED <<kin, deletion>> /\ turn'.at \notin DeletingSteps
      BY <2>7 DEF ReserveFails, NoTurn, DeletingSteps, Types, TurnTypes, Turns
    <3> QED BY <3>1, <3>2, DeleteIdle
  <2>8. CASE AcceptFails
    <3>1. ~deletion.recorded
      BY <2>8 DEF AcceptFails, Holds, TurnHeld, Openers
    <3>2. UNCHANGED <<kin, deletion>> /\ turn'.at \notin DeletingSteps
      BY <2>8 DEF AcceptFails, Goto, DeletingSteps, Types, TurnTypes, Turns
    <3> QED BY <3>1, <3>2, DeleteIdle
  <2> QED BY <1>6, <2>1, <2>2, <2>3, <2>4, <2>5, <2>6, <2>7, <2>8
<1>7. ASSUME 
              ForgetUnbound \/ Tombstone \/ ReconcileAgain \/ CheckDelete \/ DeferDelete
           \/ AlreadyComplete \/ CaptureTargets \/ CaptureRefused \/ CaptureCopies \/ SetManifest
           \/ DeleteTarget \/ DeleteRefused \/ VerifyAbsent \/ VerifyCopies \/ RetireLease
           \/ CompleteDelete \/ DeleteFails
      PROVE  DeleteHeld'
  <2>1. CASE ForgetUnbound
    <3>1. UNCHANGED <<kin, deletion, turn, session, owed, live, row>>
      BY <2>1 DEF ForgetUnbound
    <3> QED BY <3>1, DeleteFrame
  <2>2. CASE Tombstone
    <3>1. /\ UNCHANGED <<kin, session, owed>> /\ turn'.at = "check" /\ turn'.targets = <<>>
             /\ Unready
          /\ deletion' = [deletion EXCEPT !.recorded = TRUE]
             /\ row' = [row EXCEPT !.tombstone = row.bound]
      BY <2>2 DEF Tombstone, NoTurn
    <3>2. /\ deletion'.targets = deletion.targets /\ deletion'.copies = deletion.copies
          /\ deletion'.complete = deletion.complete /\ deletion'.recorded
      BY <3>1 DEF Types, DeletionTypes
    <3>3. Frozen' = Frozen /\ (Absent => Absent') /\ (NoCopies => NoCopies') /\ KinBorn'
      BY <3>1, <3>2 DEF DeleteHeld, KinBorn, Absent, NoCopies, Exists, Frozen
    <3>4. live = {} => live' = {}
      BY <3>1 DEF Unready
    <3>5. row = NoRow => row' = NoRow
      <4>1. NoRow.bound = FALSE /\ [NoRow EXCEPT !.tombstone = FALSE] = NoRow
        <5>1. NoRow.bound = FALSE /\ NoRow.tombstone = FALSE
          BY DEF NoRow
        <5> QED BY <5>1, NoRowType
      <4> QED BY <3>1, <4>1
    <3> QED BY <3>1, <3>2, <3>3, <3>4, <3>5 DEF DeleteHeld, DeletingSteps
  <2>3. CASE ReconcileAgain
    <3>1. UNCHANGED <<kin, deletion, session, owed, row>>
      BY <2>3 DEF ReconcileAgain
    <3>2. (live = {} => live' = {})
            /\ (turn'.at = "free" \/ (turn'.at = "check" /\ turn'.targets = <<>>) \/ turn' = turn)
      BY <2>3 DEF ReconcileAgain, NoTurn
    <3> QED BY <3>1, <3>2, DeleteLater
  <2>4. CASE CheckDelete
    <3>1. UNCHANGED <<kin, deletion, session, owed, row, live>> /\ ~deletion.complete
      BY <2>4 DEF CheckDelete
    <3>2. CASE deletion.targets = {}
      <4>1. turn'.at = "capture" /\ turn'.targets = <<>>
        BY <2>4, <3>2 DEF DeleteHeld, CheckDelete, Types, TurnTypes, Turns
      <4> QED BY <3>1, <3>2, <4>1, DeleteKept
    <3>3. CASE deletion.targets # {}
      <4>1. turn'.at = "delete"
        BY <2>4, <3>3 DEF CheckDelete, Types, TurnTypes, Turns
      <4> QED BY <3>1, <3>3, <4>1, DeleteKept
    <3> QED BY <3>2, <3>3
  <2>5. CASE DeferDelete
    <3>1. UNCHANGED <<kin, deletion, session, owed, row>>
      BY <2>5 DEF DeferDelete
    <3>2. (live = {} => live' = {})
            /\ (turn'.at = "free" \/ (turn'.at = "check" /\ turn'.targets = <<>>) \/ turn' = turn)
      BY <2>5 DEF DeferDelete, Settled, NoTurn
    <3> QED BY <3>1, <3>2, DeleteLater
  <2>6. CASE AlreadyComplete
    <3>1. UNCHANGED <<kin, deletion, session, owed, row>>
      BY <2>6 DEF AlreadyComplete
    <3>2. (live = {} => live' = {})
            /\ (turn'.at = "free" \/ (turn'.at = "check" /\ turn'.targets = <<>>) \/ turn' = turn)
      BY <2>6 DEF AlreadyComplete, Settled, NoTurn
    <3> QED BY <3>1, <3>2, DeleteLater
  <2>7. CASE CaptureTargets
    <3>1. /\ UNCHANGED <<kin, deletion, session, owed, row, live>>
          /\ turn.at = "capture" /\ turn'.at = "copies"
      BY <2>7 DEF CaptureTargets, Types, TurnTypes, Turns
    <3>2. deletion.targets = {} /\ ~deletion.complete
      BY <3>1 DEF DeleteHeld, DeletingSteps
    <3>3. CASE session = {}
      <4>1. turn'.targets = turn.targets /\ MayBeMissing
        BY <2>7, <3>3 DEF CaptureTargets, Types, TurnTypes, Turns
      <4>2. turn.targets = <<>>
        BY <3>1 DEF DeleteHeld
      <4>3. Elements(<<>>) = {}
        BY DEF Elements
      <4> QED BY <3>1, <3>2, <3>3, <4>1, <4>2, <4>3, DeleteKept
    <3>4. CASE session # {}
      <4>1. PICK t \in Chain : turn' = [turn EXCEPT !.at = "copies", !.targets = t]
        BY <2>7, <3>4 DEF CaptureTargets
      <4>2. turn'.targets = t
        BY <4>1 DEF Types, TurnTypes, Turns
      <4>3. t # <<>> /\ Voice \in Elements(t) /\ \A k \in Elements(t) \intersect Kin : kin[k].here
        BY <4>1, ChainFacts
      <4>4. \A k \in Elements(t) \intersect Kin : kin[k].born
        BY <4>3 DEF DeleteHeld, KinBorn
      <4> QED BY <3>1, <3>2, <4>2, <4>3, <4>4, DeleteKept
    <3> QED BY <3>3, <3>4
  <2>8. CASE CaptureRefused
    <3>1. UNCHANGED <<kin, deletion, session, owed, row>>
      BY <2>8 DEF CaptureRefused
    <3>2. (live = {} => live' = {})
            /\ (turn'.at = "free" \/ (turn'.at = "check" /\ turn'.targets = <<>>) \/ turn' = turn)
      BY <2>8 DEF CaptureRefused, Settled, NoTurn
    <3> QED BY <3>1, <3>2, DeleteLater
  <2>9. CASE CaptureCopies
    <3>1. /\ UNCHANGED <<kin, deletion, session, row, live>> /\ turn.at = "copies"
          /\ turn'.at = "manifest" /\ turn'.targets = turn.targets
          /\ owed' = CopiesOf(Elements(turn.targets)) /\ turn'.copies = owed'
      BY <2>9 DEF CaptureCopies, Types, TurnTypes, Turns
    <3>2. deletion.targets = {} /\ ~deletion.complete
      BY <3>1 DEF DeleteHeld, DeletingSteps
    <3>3. \A k \in owed' : kin[k].born
      BY <3>1, CopiesExist DEF DeleteHeld, KinBorn
    <3>4. /\ turn.targets = <<>> => session = {}
          /\ turn.targets # <<>> => Voice \in Elements(turn.targets)
          /\ \A k \in Elements(turn.targets) \intersect Kin : kin[k].born
      BY <3>1 DEF DeleteHeld
    <3> HIDE DEF CopiesOf
    <3> QED BY <3>1, <3>2, <3>3, <3>4 DEF DeleteHeld, KinBorn, DeletingSteps
  <2>10. CASE SetManifest
    <3>1. /\ UNCHANGED <<kin, session, owed, row, live>> /\ turn.at = "manifest"
             /\ turn'.at = "delete"
          /\ deletion'.targets = {turn.targets} /\ deletion'.copies = turn.copies
          /\ deletion'.recorded = deletion.recorded /\ deletion'.complete = deletion.complete
      BY <2>10 DEF SetManifest, Goto, Types, TurnTypes, Turns, DeletionTypes
    <3>2. ~deletion.complete /\ deletion.recorded
      BY <3>1 DEF DeleteHeld, DeletingSteps, TurnHeld
    <3>3. Frozen' = Elements(turn.targets)
      BY <3>1 DEF Frozen
    <3>4. /\ turn.targets = <<>> => session = {}
          /\ turn.targets # <<>> => Voice \in Elements(turn.targets)
          /\ \A k \in Elements(turn.targets) \intersect Kin : kin[k].born
          /\ owed = turn.copies /\ \A k \in owed : kin[k].born
      BY <3>1 DEF DeleteHeld
    <3>5. KinBorn'
      BY <3>1 DEF DeleteHeld, KinBorn
    <3> QED BY <3>1, <3>2, <3>3, <3>4, <3>5 DEF DeleteHeld, DeletingSteps
  <2>11. CASE DeleteTarget
    <3>1. /\ Remove(Head(turn.targets)) /\ turn.at = "delete" /\ turn'.at = "delete"
          /\ UNCHANGED <<deletion, owed, row, live>>
      BY <2>11 DEF DeleteTarget, Types, TurnTypes, Turns
    <3> QED BY <3>1, RemoveKeeps
  <2>12. CASE DeleteRefused
    <3>1. UNCHANGED <<kin, deletion, session, owed, row>>
      BY <2>12 DEF DeleteRefused
    <3>2. (live = {} => live' = {})
            /\ (turn'.at = "free" \/ (turn'.at = "check" /\ turn'.targets = <<>>) \/ turn' = turn)
      BY <2>12 DEF DeleteRefused, Settled, NoTurn
    <3> QED BY <3>1, <3>2, DeleteLater
  <2>13. CASE VerifyAbsent
    <3>1. UNCHANGED <<kin, deletion, session, owed, row>> /\ live' = live /\ turn.at = "delete"
      BY <2>13 DEF VerifyAbsent
    <3>2. CASE \E s \in Frozen : Exists(s)
      <4>1. turn'.at = "free"
        BY <2>13, <3>2 DEF VerifyAbsent, Settled, NoTurn
      <4> QED BY <3>1, <4>1, DeleteLater
    <3>3. CASE ~(\E s \in Frozen : Exists(s))
      <4>1. turn'.at = "verify"
        BY <2>13, <3>3 DEF VerifyAbsent, Goto, Types, TurnTypes, Turns
      <4>2. Absent
        BY <3>1, <3>3 DEF DeleteHeld, Absent
      <4>3. deletion.targets # {} /\ ~deletion.complete
        BY <3>1 DEF DeleteHeld, DeletingSteps
      <4> QED BY <3>1, <4>1, <4>2, <4>3, DeleteKept
    <3> QED BY <3>2, <3>3
  <2>14. CASE VerifyCopies
    <3>1. UNCHANGED <<kin, deletion, session, owed, row>> /\ live' = live /\ turn.at = "verify"
      BY <2>14 DEF VerifyCopies
    <3>2. CASE CopiesRemain
      <4>1. turn'.at = "free"
        BY <2>14, <3>2 DEF VerifyCopies, Settled, NoTurn
      <4> QED BY <3>1, <4>1, DeleteLater
    <3>3. CASE ~(CopiesRemain)
      <4>1. turn'.at = "retire"
        BY <2>14, <3>3 DEF VerifyCopies, Goto, Types, TurnTypes, Turns
      <4>2. Absent /\ NoCopies
        BY <3>1, <3>3 DEF DeleteHeld, NoCopies, CopiesRemain
      <4>3. deletion.targets # {} /\ ~deletion.complete
        BY <3>1 DEF DeleteHeld, DeletingSteps
      <4> QED BY <3>1, <4>1, <4>2, <4>3, DeleteKept
    <3> QED BY <3>2, <3>3
  <2>15. CASE RetireLease
    <3>1. UNCHANGED <<kin, deletion, session, owed, row>> /\ live' = {} /\ turn.at = "retire"
            /\ turn'.at = "complete"
      BY <2>15 DEF RetireLease, Goto, Types, TurnTypes, Turns
    <3>2. deletion.targets # {} /\ Absent /\ NoCopies /\ ~deletion.complete
      BY <3>1 DEF DeleteHeld, DeletingSteps
    <3> QED BY <3>1, <3>2, DeleteKept
  <2>16. CASE CompleteDelete
    <3>1. /\ UNCHANGED <<kin, session, owed, live>> /\ row' = NoRow /\ turn.at = "complete"
             /\ turn'.at = "free"
          /\ deletion' = [deletion EXCEPT !.complete = TRUE]
      BY <2>16 DEF CompleteDelete, Settled, NoTurn
    <3>2. deletion.targets # {} /\ deletion.recorded /\ Absent /\ NoCopies /\ live = {}
      BY <3>1 DEF DeleteHeld
    <3>3. /\ deletion'.targets = deletion.targets /\ deletion'.copies = deletion.copies
          /\ deletion'.recorded = deletion.recorded
      BY <3>1 DEF Types, DeletionTypes
    <3>4. Frozen' = Frozen
      BY <3>3 DEF Frozen
    <3>5. KinBorn' /\ Absent' /\ NoCopies'
      BY <3>1, <3>2, <3>3, <3>4 DEF DeleteHeld, KinBorn, Absent, NoCopies, Exists
    <3> QED BY <3>1, <3>2, <3>3, <3>4, <3>5 DEF DeleteHeld, DeletingSteps
  <2>17. CASE DeleteFails
    <3>1. UNCHANGED <<kin, deletion, session, owed, row>>
      BY <2>17 DEF DeleteFails
    <3>2. (live = {} => live' = {})
            /\ (turn'.at = "free" \/ (turn'.at = "check" /\ turn'.targets = <<>>) \/ turn' = turn)
      BY <2>17 DEF DeleteFails, Settled, NoTurn
    <3> QED BY <3>1, <3>2, DeleteLater
  <2> QED BY <1>7, <2>1, <2>2, <2>3, <2>4, <2>5, <2>6, <2>7, <2>8, <2>9, <2>10, <2>11, <2>12,
        <2>13,
      <2>14, <2>15, <2>16, <2>17
<1>8. ASSUME 
              OthersWrite \/ OthersDelete \/ OthersLease \/ OthersRelease \/ LeaseLost
      PROVE  DeleteHeld'
  <2>1. CASE OthersLease \/ OthersRelease
    <3>1. UNCHANGED <<kin, deletion, turn, session, owed, live, row>>
      BY <2>1 DEF OthersLease, OthersRelease
    <3> QED BY <3>1, DeleteFrame
  <2>2. CASE OthersWrite
    <3>1. /\ UNCHANGED <<kin, deletion, turn, owed, row, live>>
          /\ session # {} /\ session' = {Append(rows, Alien) : rows \in session}
      BY <2>2 DEF OthersWrite
    <3>2. session' # {}
      BY <3>1
    <3>3. Frozen' = Frozen /\ KinBorn' /\ (Absent => Absent') /\ (NoCopies => NoCopies')
      BY <3>1, <3>2 DEF DeleteHeld, KinBorn, Absent, NoCopies, Frozen, Exists
    <3>4. deletion.targets = {<<>>} => session # {}
      BY <3>1
    <3> QED BY <3>1, <3>2, <3>3, <3>4 DEF DeleteHeld
  <2>3. CASE OthersDelete
    <3>1. Remove(Voice) /\ turn' = turn /\ UNCHANGED <<deletion, owed, row, live>>
      BY <2>3 DEF OthersDelete
    <3> QED BY <3>1, RemoveKeeps
  <2>4. CASE LeaseLost
    <3>1. UNCHANGED <<kin, deletion, session, owed, row>>
      BY <2>4 DEF LeaseLost
    <3>2. (live = {} => live' = {})
            /\ (turn'.at = "free" \/ (turn'.at = "check" /\ turn'.targets = <<>>) \/ turn' = turn)
      BY <2>4 DEF LeaseLost
    <3> QED BY <3>1, <3>2, DeleteLater
  <2> QED BY <1>8, <2>1, <2>2, <2>3, <2>4
<1>9. ASSUME NEW s \in Sessions, NEW k \in Kin,
              Branch(s, k) \/ Fork(s, k) \/ Compress(s, k)
      PROVE  DeleteHeld'
  <2>1. CASE Branch(s, k)
    <3>1. Derive(s, k, {s}) /\ UNCHANGED <<deletion, turn, session, owed, row, live>>
      BY <2>1 DEF Branch
    <3> QED BY <3>1, DeriveKeeps
  <2>2. CASE Fork(s, k)
    <3>1. Derive(s, k, {}) /\ UNCHANGED <<deletion, turn, session, owed, row, live>>
      BY <2>2 DEF Fork
    <3> QED BY <3>1, DeriveKeeps
  <2>3. CASE Compress(s, k)
    <3>1. Derive(s, k, {}) /\ UNCHANGED <<deletion, turn, session, owed, row, live>>
      BY <2>3 DEF Compress
    <3> QED BY <3>1, DeriveKeeps
  <2> QED BY <1>9, <2>1, <2>2, <2>3
<1>10. ASSUME NEW k \in Kin, RemoveKin(k)
      PROVE  DeleteHeld'
  <2>1. Remove(k) /\ turn' = turn /\ UNCHANGED <<deletion, owed, row, live>>
    BY <1>10 DEF RemoveKin
  <2> QED BY <2>1, RemoveKeeps
<1>11. ASSUME 
              Crash \/ BeginClose \/ CloseReviews \/ Close \/ Start
      PROVE  DeleteHeld'
  <2>1. CASE BeginClose \/ CloseReviews
    <3>1. UNCHANGED <<kin, deletion, turn, session, owed, live, row>>
      BY <2>1 DEF BeginClose, CloseReviews
    <3> QED BY <3>1, DeleteFrame
  <2>2. CASE Crash
    <3>1. UNCHANGED <<kin, deletion, session, owed, row>>
      BY <2>2 DEF Crash
    <3>2. (live = {} => live' = {})
            /\ (turn'.at = "free" \/ (turn'.at = "check" /\ turn'.targets = <<>>) \/ turn' = turn)
      BY <2>2 DEF Crash, NoTurn
    <3> QED BY <3>1, <3>2, DeleteLater
  <2>3. CASE Close
    <3>1. UNCHANGED <<kin, deletion, session, owed, row>>
      BY <2>3 DEF Close
    <3>2. (live = {} => live' = {})
            /\ (turn'.at = "free" \/ (turn'.at = "check" /\ turn'.targets = <<>>) \/ turn' = turn)
      BY <2>3 DEF Close
    <3> QED BY <3>1, <3>2, DeleteLater
  <2>4. CASE Start
    <3>1. UNCHANGED <<kin, deletion, session, owed, row>>
      BY <2>4 DEF Start
    <3>2. (live = {} => live' = {})
            /\ (turn'.at = "free" \/ (turn'.at = "check" /\ turn'.targets = <<>>) \/ turn' = turn)
      BY <2>4 DEF Start, NoTurn
    <3> QED BY <3>1, <3>2, DeleteLater
  <2> QED BY <1>11, <2>1, <2>2, <2>3, <2>4
<1> QED BY <1>1, <1>2, <1>3, <1>4, <1>5, <1>6, <1>7, <1>8, <1>9, <1>10, <1>11
  DEF Next, Opening, Archiving, Reviewing, Deleting, Failing, Others

(* The elements of two sequences joined are those of both.                 *)
LEMMA ElementsConcat ==
  ASSUME NEW S, NEW s \in Seq(S), NEW t \in Seq(S)
  PROVE  Elements(s \o t) = Elements(s) \union Elements(t)
<1>1. /\ Len(s \o t) = Len(s) + Len(t)
      /\ \A i \in 1..Len(s \o t) : (s \o t)[i] = IF i <= Len(s) THEN s[i] ELSE t[i - Len(s)]
  BY ConcatProperties
<1>2. Elements(s \o t) \subseteq Elements(s) \union Elements(t)
  <2>1. SUFFICES ASSUME NEW i \in 1..Len(s \o t)
                 PROVE  (s \o t)[i] \in Elements(s) \union Elements(t)
    BY DEF Elements
  <2>2. CASE i <= Len(s)
    BY <1>1, <2>2 DEF Elements
  <2>3. CASE i > Len(s)
    <3>1. i - Len(s) \in 1..Len(t)
      BY <1>1, <2>3
    <3> QED BY <1>1, <2>3, <3>1 DEF Elements
  <2> QED BY <2>2, <2>3
<1>3. \A i \in 1..Len(s) : s[i] \in Elements(s \o t)
  <2>1. SUFFICES ASSUME NEW i \in 1..Len(s) PROVE s[i] \in Elements(s \o t)
    OBVIOUS
  <2>2. i \in 1..Len(s \o t) /\ (s \o t)[i] = s[i]
    BY <1>1
  <2> QED BY <2>2 DEF Elements
<1>4. \A i \in 1..Len(t) : t[i] \in Elements(s \o t)
  <2>1. SUFFICES ASSUME NEW i \in 1..Len(t) PROVE t[i] \in Elements(s \o t)
    OBVIOUS
  <2>2. Len(s) + i \in 1..Len(s \o t) /\ (s \o t)[Len(s) + i] = t[i]
    BY <1>1
  <2> QED BY <2>2 DEF Elements
<1>5. Elements(s) \subseteq Elements(s \o t)
  BY <1>3 DEF Elements
<1>6. Elements(t) \subseteq Elements(s \o t)
  BY <1>4 DEF Elements
<1> QED BY <1>2, <1>5, <1>6

(* The rows an archive takes of a batch are rows of the conversation.      *)
LEMMA NewRowsOurs ==
  ASSUME NEW committed \in Seq(Rows), NEW rows \in Seq(Rows)
  PROVE  /\ NewRows(committed, rows) \in Seq(Rows)
         /\ Alien \notin Elements(NewRows(committed, rows))
<1> DEFINE keep == {r \in Elements(rows) : r[2] > End(committed)}
           new == NewRows(committed, rows)
<1>1. new \in Seq(Rows) /\ new \in Seq(Rows \intersect keep)
  BY SiftType DEF NewRows
<1>2. Elements(new) \subseteq keep
  BY <1>1 DEF Elements
<1>3. End(committed) \in Nat
  BY EndType
<1>4. Alien \notin keep
  BY <1>3 DEF Alien
<1> QED BY <1>1, <1>2, <1>4

(* A row of somebody else, appended, is in the session.                    *)
LEMMA AppendForeign ==
  ASSUME NEW rows \in Seq(Rows)
  PROVE  Alien \in Elements(Append(rows, Alien))
<1>1. Len(Append(rows, Alien)) = Len(rows) + 1 /\ Append(rows, Alien)[Len(rows) + 1] = Alien
  BY AlienType, AppendProperties
<1>2. Len(rows) + 1 \in DOMAIN Append(rows, Alien)
  BY <1>1, AlienType, AppendProperties
<1> QED BY <1>1, <1>2 DEF Elements

(* What a projection shows without a row of somebody else's is the session *)
(* as it is.                                                               *)
LEMMA ViewSeen ==
  ASSUME Types, RowsHeld
  PROVE  /\ View = {} \/ Foreign(View) \/ View = {written}
         /\ ~Foreign(View) => View = session
<1>1. \A rows \in session : rows \in Seq(Rows)
  BY DEF Types, HermesTypes, Opt
<1>2. CASE View = session
  BY <1>2 DEF RowsHeld
<1>3. CASE View = {Append(rows, Alien) : rows \in session} /\ View # session
  <2>1. session # {}
    BY <1>3
  <2>2. PICK rows \in session : TRUE
    BY <2>1
  <2>3. Append(rows, Alien) \in View /\ Alien \in Elements(Append(rows, Alien))
    BY <1>1, <1>3, AppendForeign
  <2> QED BY <2>3 DEF Foreign
<1> QED BY <1>2, <1>3 DEF View

(* A write that applies finds the session as it was last written, and      *)
(* leaves what is pending in it.                                           *)
LEMMA AppliesFacts ==
  ASSUME Types, RowsHeld, NEW c \in Calls, Applies(c)
  PROVE  session = {written} /\ row.pending = {written \o Inserts(c)} /\ View = session
<1>1. View \in {row.committed, row.pending} /\ View # {}
  BY DEF Applies, MayWrite
<1>2. ~Foreign(View)
  BY <1>1 DEF RowsHeld
<1>3. View = session /\ session = {written}
  BY <1>1, <1>2, ViewSeen
<1>4. {rows \o Inserts(c) : rows \in session} = row.pending
  BY DEF Applies
<1> HIDE DEF Inserts
<1> QED BY <1>3, <1>4

(* A step that leaves these variables alone keeps RowsHeld.                *)
LEMMA RowsFrame ==
  ASSUME RowsHeld, UNCHANGED <<row, session, written, live, fenced, turn, deletion>>
  PROVE  RowsHeld'
  BY DEF RowsHeld, Foreign, Ready

(* A turn that ends, or goes to a step that relies on nothing of the rows. *)
LEMMA RowsTurn ==
  ASSUME RowsHeld, UNCHANGED <<session, written>>, deletion.complete => deletion'.complete,
         row'.bound = row.bound, row'.committed = row.committed, row'.pending = row.pending,
         turn'.at \notin ArchivingSteps \union ReviewingSteps \union {"settle"},
         Ready' => Ready /\ turn.at \notin ArchivingSteps
  PROVE  RowsHeld'
<1>1. Foreign(row.committed)' = Foreign(row.committed)
        /\ Foreign(row.pending)' = Foreign(row.pending)
      /\ Foreign(session)' = Foreign(session)
  BY DEF Foreign
<1> QED BY <1>1 DEF RowsHeld, ArchivingSteps

(* Each step keeps how the row, the session and the rows written stand to  *)
(* one another.                                                            *)
LEMMA RowsHold ==
  ASSUME Types, TurnHeld, DeleteHeld, RowsHeld, Next
  PROVE  RowsHeld'
<1>1. ASSUME 
              FreezeBatch \/ GiveUp \/ RestartRealtime \/ AskForget \/ SendForget
      PROVE  RowsHeld'
  <2>1. CASE FreezeBatch \/ GiveUp \/ RestartRealtime \/ AskForget \/ SendForget
    <3>1. UNCHANGED <<row, session, written, live, fenced, turn, deletion>>
      BY <2>1 DEF FreezeBatch, GiveUp, RestartRealtime, AskForget, SendForget
    <3> QED BY <3>1, RowsFrame
  <2> QED BY <1>1, <2>1
<1>2. ASSUME NEW c \in Calls, Send(c)
      PROVE  RowsHeld'
  <2>1. UNCHANGED <<row, session, written, live, fenced, turn, deletion>>
    BY <1>2 DEF Send
  <2> QED BY <2>1, RowsFrame
<1>3. ASSUME NEW w \in Windows, AskReview(w)
      PROVE  RowsHeld'
  <2>1. UNCHANGED <<row, session, written, live, fenced, turn, deletion>>
    BY <1>3 DEF AskReview
  <2> QED BY <2>1, RowsFrame
<1>4. ASSUME NEW b \in Openers,
              AlreadyOpen(b) \/ OpenRefused(b) \/ Bind(b) \/ ReleasePrevious(b) \/ Acquire(b)
           \/ LeaseHeld(b) \/ Create(b) \/ Read(b) \/ Settle(b) \/ SettleFails(b) \/ OpenFails(b)
      PROVE  RowsHeld'
  <2>1. CASE AlreadyOpen(b) \/ OpenRefused(b)
    <3>1. UNCHANGED <<row, session, written, live, fenced, turn, deletion>>
      BY <2>1 DEF AlreadyOpen, Opened, OpenRefused, Answer, Reply
    <3> QED BY <3>1, RowsFrame
  <2>2. CASE Bind(b)
    <3>1. /\ UNCHANGED <<session, written, live, fenced, deletion>> /\ turn'.at = "holder"
             /\ ~Ready
      BY <2>2 DEF Bind, StartsOpen, NoTurn
    <3>2. ~Ready'
      BY <3>1 DEF Ready
    <3>3. CASE row.bound
      <4>1. row' = row
        BY <2>2, <3>3 DEF Bind
      <4> QED BY <3>1, <3>2, <4>1, RowsTurn DEF ArchivingSteps, ReviewingSteps
    <3>4. CASE ~row.bound
      <4>1. row'.bound /\ row'.committed = {} /\ row'.pending = {<<>>}
        BY <2>2, <3>4 DEF Bind, NoRow
      <4>2. ~deletion.recorded
        BY <2>2, <3>4 DEF Bind
      <4>3. written = <<>>
        BY <3>4, <4>2 DEF RowsHeld, DeleteHeld
      <4>4. ~Foreign(row'.committed) /\ ~Foreign(row'.pending)
        BY <4>1 DEF Foreign, Elements
      <4> QED BY <3>1, <3>2, <4>1, <4>3, <4>4
            DEF RowsHeld, ArchivingSteps, ReviewingSteps, Foreign
    <3> QED BY <3>3, <3>4
  <2>3. CASE ReleasePrevious(b)
    <3>1. /\ UNCHANGED <<session, written>> /\ deletion'.complete = deletion.complete
          /\ row'.bound = row.bound /\ row'.committed = row.committed
             /\ row'.pending = row.pending
      BY <2>3 DEF ReleasePrevious
    <3>2. turn'.at \notin ArchivingSteps \union ReviewingSteps \union {"settle"}
      BY <2>3 DEF ReleasePrevious, Types, TurnTypes, Turns, Goto, ArchivingSteps, ReviewingSteps
    <3>3. ~Ready'
      BY <2>3 DEF ReleasePrevious, Holds, Ready
    <3> QED BY <3>1, <3>2, <3>3, RowsTurn
  <2>4. CASE Acquire(b)
    <3>1. /\ UNCHANGED <<session, written>> /\ deletion'.complete = deletion.complete
          /\ row'.bound = row.bound /\ row'.committed = row.committed
             /\ row'.pending = row.pending
      BY <2>4 DEF Acquire
    <3>2. turn'.at \notin ArchivingSteps \union ReviewingSteps \union {"settle"}
      BY <2>4 DEF Acquire, Types, TurnTypes, Turns, Goto, ArchivingSteps, ReviewingSteps
    <3>3. ~Ready'
      BY <2>4 DEF Acquire, Holds, Ready
    <3> QED BY <3>1, <3>2, <3>3, RowsTurn
  <2>5. CASE LeaseHeld(b)
    <3>1. /\ UNCHANGED <<session, written>> /\ deletion'.complete = deletion.complete
          /\ row'.bound = row.bound /\ row'.committed = row.committed
             /\ row'.pending = row.pending
      BY <2>5 DEF LeaseHeld
    <3>2. turn'.at \notin ArchivingSteps \union ReviewingSteps \union {"settle"}
      BY <2>5 DEF LeaseHeld, NoTurn, ArchivingSteps, ReviewingSteps
    <3>3. Ready' => Ready /\ turn.at \notin ArchivingSteps
      BY <2>5 DEF LeaseHeld, Holds, Ready, ArchivingSteps
    <3> QED BY <3>1, <3>2, <3>3, RowsTurn
  <2>6. CASE Create(b)
    <3>1. /\ UNCHANGED <<row, written, live, fenced, deletion, turn>> /\ session' = {<<>>}
          /\ row.committed = {} /\ turn.at = "read" /\ turn.by \in Openers
      BY <2>6 DEF Create, Holds
    <3>2. written = <<>>
      BY <3>1 DEF RowsHeld, DeleteHeld, TurnHeld
    <3> QED BY <3>1, <3>2 DEF RowsHeld, Ready, Foreign, ArchivingSteps
  <2>7. CASE Read(b)
    <3>1. /\ UNCHANGED <<row, session, written, live, fenced, deletion>> /\ turn.at = "read"
          /\ turn'.at = "settle" /\ turn'.seen = View
      BY <2>7 DEF Read, Holds, Types, TurnTypes, Turns
    <3>2. View = {} \/ Foreign(View) \/ View = {written}
      BY ViewSeen
    <3> QED BY <3>1, <3>2 DEF RowsHeld, Ready, Foreign, ArchivingSteps, ReviewingSteps
  <2>8. CASE Settle(b)
    <3>1. /\ UNCHANGED <<session, written, fenced, deletion>> /\ turn.at = "settle"
             /\ turn'.at = "free"
          /\ turn.by = b
      BY <2>8 DEF Settle, Holds, NoTurn
    <3>2. row.bound
      BY <3>1 DEF TurnHeld
    <3>3. \A o : ~Foreign(o) /\ o # {} /\ turn.seen = o => o = {written}
      BY <3>1 DEF RowsHeld
    <3>4. row'.bound /\ row'.pending = {} /\ row'.committed = {written}
      <4>1. CASE Cleared /\ row' = [row EXCEPT !.pending = {}]
        BY <3>2, <3>3, <4>1 DEF Cleared, RowsHeld, Types, RowType
      <4>2. CASE Promoted /\ row' = [row EXCEPT !.committed = row.pending, !.pending = {}]
        BY <3>2, <3>3, <4>2 DEF Promoted, RowsHeld, Types, RowType
      <4>3. CASE Intact /\ UNCHANGED row
        BY <3>2, <3>3, <4>3 DEF Intact, RowsHeld
      <4> QED BY <2>8, <4>1, <4>2, <4>3 DEF Settle
    <3>5. ~Foreign(row'.committed) /\ ~Foreign(row'.pending)
      BY <3>4 DEF Foreign, RowsHeld
    <3> QED BY <3>1, <3>4, <3>5 DEF RowsHeld, ArchivingSteps, ReviewingSteps, Foreign
  <2>9. CASE SettleFails(b)
    <3>1. /\ UNCHANGED <<session, written>> /\ deletion'.complete = deletion.complete
          /\ row'.bound = row.bound /\ row'.committed = row.committed
             /\ row'.pending = row.pending
      BY <2>9 DEF SettleFails, Types, RowType
    <3>2. turn'.at \notin ArchivingSteps \union ReviewingSteps \union {"settle"}
      BY <2>9 DEF SettleFails, NoTurn, ArchivingSteps, ReviewingSteps
    <3>3. ~Ready'
      BY <2>9 DEF SettleFails, Holds, Ready
    <3> QED BY <3>1, <3>2, <3>3, RowsTurn
  <2>10. CASE OpenFails(b)
    <3>1. /\ UNCHANGED <<session, written>> /\ deletion'.complete = deletion.complete
          /\ row'.bound = row.bound /\ row'.committed = row.committed
             /\ row'.pending = row.pending
      BY <2>10 DEF OpenFails
    <3>2. turn'.at \notin ArchivingSteps \union ReviewingSteps \union {"settle"}
      BY <2>10 DEF OpenFails, NoTurn, ArchivingSteps, ReviewingSteps
    <3>3. Ready' => Ready /\ turn.at \notin ArchivingSteps
      BY <2>10 DEF OpenFails, Ready, ArchivingSteps
    <3> QED BY <3>1, <3>2, <3>3, RowsTurn
  <2> QED BY <1>4, <2>1, <2>2, <2>3, <2>4, <2>5, <2>6, <2>7, <2>8, <2>9, <2>10
<1>5. ASSUME NEW c \in Calls,
              ArchiveRefused(c) \/ BeginPending(c) \/ Write(c) \/ RolledBack(c) \/ Mismatch(c)
           \/ ClearPending(c) \/ Promote(c) \/ BeginFails(c) \/ WriteUnknown(c)
           \/ MismatchUnwritten(c) \/ RecordFails(c)
      PROVE  RowsHeld'
  <2>1. CASE ArchiveRefused(c) \/ BeginFails(c)
    <3>1. UNCHANGED <<row, session, written, live, fenced, turn, deletion>>
      BY <2>1 DEF ArchiveRefused, Reply, BeginFails
    <3> QED BY <3>1, RowsFrame
  <2>2. CASE BeginPending(c)
    <3>1. /\ UNCHANGED <<session, written, live, fenced, deletion>> /\ turn'.at = "write"
          /\ row' = [row EXCEPT !.pending = {Committed \o NewRows(Committed, calls[c].rows)}]
          /\ row.committed # {} /\ row.pending = {} /\ row.bound
      BY <2>2 DEF BeginPending, Admits, NoTurn
    <3>2. row.committed = {written} /\ Committed = written
      BY <3>1 DEF RowsHeld, Committed
    <3>3. /\ row'.bound /\ row'.committed = {written}
          /\ row'.pending = {written \o NewRows(written, calls[c].rows)}
      BY <3>1, <3>2 DEF Types, RowType
    <3>4. Alien \notin Elements(written \o NewRows(written, calls[c].rows))
      <4>1. written \in Seq(Rows) /\ calls[c].rows \in Seq(Rows)
        BY DEF Types, HistoryTypes, RequestTypes
      <4>2. Alien \notin Elements(NewRows(written, calls[c].rows))
              /\ NewRows(written, calls[c].rows) \in Seq(Rows)
        BY <4>1, NewRowsOurs
      <4> QED BY <4>1, <4>2, ElementsConcat DEF RowsHeld
    <3>5. ~Foreign(row'.committed) /\ ~Foreign(row'.pending)
      BY <3>3, <3>4 DEF Foreign, RowsHeld
    <3> QED BY <3>1, <3>3, <3>5 DEF RowsHeld, ArchivingSteps, ReviewingSteps, Foreign
  <2>3. CASE Write(c)
    <3>1. /\ UNCHANGED <<row, live, fenced, deletion>> /\ turn.at = "write"
             /\ turn'.at = "promote"
          /\ session' = row.pending /\ written' = written \o Inserts(c) /\ Applies(c)
      BY <2>3 DEF Write, Applies, MayWrite, Holds, Goto, Types, TurnTypes, Turns
    <3>2. row.pending = {written'} /\ row.committed # {}
      BY <3>1, AppliesFacts DEF RowsHeld, ArchivingSteps
    <3>3. Alien \notin Elements(written')
      BY <3>2 DEF RowsHeld, Foreign
    <3> QED BY <3>1, <3>2, <3>3 DEF RowsHeld, ArchivingSteps, ReviewingSteps, Foreign
  <2>4. CASE RolledBack(c)
    <3>1. UNCHANGED <<row, session, written, live, fenced, deletion>> /\ turn.at = "write"
            /\ turn'.at = "clear"
      BY <2>4 DEF RolledBack, Holds, Types, TurnTypes, Turns
    <3> QED BY <3>1 DEF RowsHeld, ArchivingSteps, ReviewingSteps, Foreign
  <2>5. CASE Mismatch(c)
    <3>1. /\ UNCHANGED <<session, written>> /\ deletion'.complete = deletion.complete
          /\ row'.bound = row.bound /\ row'.committed = row.committed
             /\ row'.pending = row.pending
      BY <2>5 DEF Mismatch, Types, RowType
    <3>2. turn'.at \notin ArchivingSteps \union ReviewingSteps \union {"settle"}
      BY <2>5 DEF Mismatch, NoTurn, ArchivingSteps, ReviewingSteps
    <3>3. ~Ready'
      BY <2>5 DEF Mismatch, Holds, Ready, Unready
    <3> QED BY <3>1, <3>2, <3>3, RowsTurn
  <2>6. CASE ClearPending(c)
    <3>1. /\ UNCHANGED <<session, written, fenced, deletion>> /\ turn.at = "clear"
             /\ turn'.at = "free"
          /\ row'.bound = row.bound /\ row'.committed = row.committed /\ row'.pending = {}
      BY <2>6 DEF ClearPending, Holds, NoTurn, Types, RowType
    <3>2. row'.committed = {written}
      BY <3>1 DEF RowsHeld
    <3>3. row.bound
      BY <3>1 DEF RowsHeld, ArchivingSteps
    <3>4. ~Foreign(row'.committed) /\ ~Foreign(row'.pending)
      BY <3>1 DEF Foreign, RowsHeld
    <3> QED BY <3>1, <3>2, <3>3, <3>4 DEF RowsHeld, ArchivingSteps, ReviewingSteps, Foreign
  <2>7. CASE Promote(c)
    <3>1. /\ UNCHANGED <<session, written, fenced, deletion>> /\ turn.at = "promote"
             /\ turn'.at = "free"
          /\ row'.bound = row.bound /\ row'.committed = row.pending /\ row'.pending = {}
      BY <2>7 DEF Promote, Holds, NoTurn, Types, RowType
    <3>2. row'.committed = {written}
      BY <3>1 DEF RowsHeld
    <3>3. row.bound
      BY <3>1 DEF RowsHeld, ArchivingSteps
    <3>4. ~Foreign(row'.committed) /\ ~Foreign(row'.pending)
      BY <3>1 DEF Foreign, RowsHeld
    <3> QED BY <3>1, <3>2, <3>3, <3>4 DEF RowsHeld, ArchivingSteps, ReviewingSteps, Foreign
  <2>8. CASE WriteUnknown(c)
    <3>1. /\ UNCHANGED <<row, deletion>> /\ turn.at = "write" /\ turn'.at = "free" /\ ~Ready'
      BY <2>8 DEF WriteUnknown, Holds, NoTurn, Unready, Ready
    <3>2. CASE UNCHANGED <<session, written>>
      BY <3>1, <3>2, RowsTurn DEF ArchivingSteps, ReviewingSteps
    <3>3. CASE Applies(c) /\ session' = row.pending /\ written' = written \o Inserts(c)
      <4>1. row.pending = {written'} /\ row.committed # {}
        BY <3>1, <3>3, AppliesFacts DEF RowsHeld, ArchivingSteps
      <4>2. Alien \notin Elements(written')
        BY <4>1 DEF RowsHeld, Foreign
      <4> QED BY <3>1, <3>3, <4>1, <4>2 DEF RowsHeld, ArchivingSteps, ReviewingSteps, Foreign
    <3> QED BY <2>8, <3>2, <3>3 DEF WriteUnknown
  <2>9. CASE MismatchUnwritten(c)
    <3>1. /\ UNCHANGED <<session, written>> /\ deletion'.complete = deletion.complete
          /\ row'.bound = row.bound /\ row'.committed = row.committed
             /\ row'.pending = row.pending
      BY <2>9 DEF MismatchUnwritten
    <3>2. turn'.at \notin ArchivingSteps \union ReviewingSteps \union {"settle"}
      BY <2>9 DEF MismatchUnwritten, NoTurn, ArchivingSteps, ReviewingSteps
    <3>3. ~Ready'
      BY <2>9 DEF MismatchUnwritten, Holds, Ready, Unready
    <3> QED BY <3>1, <3>2, <3>3, RowsTurn
  <2>10. CASE RecordFails(c)
    <3>1. /\ UNCHANGED <<session, written>> /\ deletion'.complete = deletion.complete
          /\ row'.bound = row.bound /\ row'.committed = row.committed
             /\ row'.pending = row.pending
      BY <2>10 DEF RecordFails
    <3>2. turn'.at \notin ArchivingSteps \union ReviewingSteps \union {"settle"}
      BY <2>10 DEF RecordFails, NoTurn, ArchivingSteps, ReviewingSteps
    <3>3. ~Ready'
      BY <2>10 DEF RecordFails, Ready, Unready
    <3> QED BY <3>1, <3>2, <3>3, RowsTurn
  <2> QED BY <1>5, <2>1, <2>2, <2>3, <2>4, <2>5, <2>6, <2>7, <2>8, <2>9, <2>10
<1>6. ASSUME 
              RefuseReview \/ ReviewAnswered \/ JoinPrevious \/ AdmitReview \/ AdmitRefused
           \/ StartReview \/ Unwind \/ ReserveFails \/ AcceptFails \/ ThreadFinishes
           \/ ThreadExits \/ Finished
      PROVE  RowsHeld'
  <2>1. CASE RefuseReview \/ ReviewAnswered \/ ThreadFinishes \/ ThreadExits \/ Finished
    <3>1. UNCHANGED <<row, session, written, live, fenced, turn, deletion>>
      BY <2>1
        DEF RefuseReview, ReviewAnswered, RefusedReview, ThreadFinishes, ThreadExits, Finished
    <3> QED BY <3>1, RowsFrame
  <2>2. CASE JoinPrevious
    <3>1. UNCHANGED <<row, session, written, live, fenced, deletion.complete>>
            /\ turn'.at \in ReviewingSteps
      BY <2>2 DEF JoinPrevious, NoTurn, Goto, ReviewingSteps, Types, TurnTypes, Turns
    <3>2. row.committed # {} /\ row.pending = {}
      BY <2>2 DEF JoinPrevious, Reviewable
    <3> QED BY <3>1, <3>2 DEF RowsHeld, Ready, ArchivingSteps, ReviewingSteps, Foreign
  <2>3. CASE AdmitReview
    <3>1. UNCHANGED <<row, session, written, live, fenced, deletion.complete>>
            /\ turn'.at \in ReviewingSteps
      BY <2>3 DEF AdmitReview, NoTurn, Goto, ReviewingSteps, Types, TurnTypes, Turns
    <3>2. row.committed # {} /\ row.pending = {}
      BY <2>3 DEF AdmitReview, Holds, RowsHeld, ReviewingSteps
    <3> QED BY <3>1, <3>2 DEF RowsHeld, Ready, ArchivingSteps, ReviewingSteps, Foreign
  <2>4. CASE AdmitRefused
    <3>1. /\ UNCHANGED <<session, written>> /\ deletion'.complete = deletion.complete
          /\ row'.bound = row.bound /\ row'.committed = row.committed
             /\ row'.pending = row.pending
      BY <2>4 DEF AdmitRefused, Types, RowType
    <3>2. turn'.at \notin ArchivingSteps \union ReviewingSteps \union {"settle"}
      BY <2>4 DEF AdmitRefused, NoTurn, ArchivingSteps, ReviewingSteps
    <3>3. Ready' => Ready /\ turn.at \notin ArchivingSteps
      BY <2>4 DEF AdmitRefused, Holds, Ready, ArchivingSteps, Unready
    <3> QED BY <3>1, <3>2, <3>3, RowsTurn
  <2>5. CASE StartReview
    <3>1. /\ UNCHANGED <<session, written>> /\ deletion'.complete = deletion.complete
          /\ row'.bound = row.bound /\ row'.committed = row.committed
             /\ row'.pending = row.pending
      BY <2>5 DEF StartReview
    <3>2. turn'.at \notin ArchivingSteps \union ReviewingSteps \union {"settle"}
      BY <2>5 DEF StartReview, NoTurn, ArchivingSteps, ReviewingSteps
    <3>3. Ready' => Ready /\ turn.at \notin ArchivingSteps
      BY <2>5 DEF StartReview, Holds, Ready, ArchivingSteps
    <3> QED BY <3>1, <3>2, <3>3, RowsTurn
  <2>6. CASE Unwind
    <3>1. /\ UNCHANGED <<session, written>> /\ deletion'.complete = deletion.complete
          /\ row'.bound = row.bound /\ row'.committed = row.committed
             /\ row'.pending = row.pending
      BY <2>6 DEF Unwind
    <3>2. turn'.at \notin ArchivingSteps \union ReviewingSteps \union {"settle"}
      BY <2>6 DEF Unwind, NoTurn, ArchivingSteps, ReviewingSteps
    <3>3. Ready' => Ready /\ turn.at \notin ArchivingSteps
      BY <2>6 DEF Unwind, Holds, Ready, ArchivingSteps
    <3> QED BY <3>1, <3>2, <3>3, RowsTurn
  <2>7. CASE ReserveFails
    <3>1. /\ UNCHANGED <<session, written>> /\ deletion'.complete = deletion.complete
          /\ row'.bound = row.bound /\ row'.committed = row.committed
             /\ row'.pending = row.pending
      BY <2>7 DEF ReserveFails
    <3>2. turn'.at \notin ArchivingSteps \union ReviewingSteps \union {"settle"}
      BY <2>7 DEF ReserveFails, NoTurn, ArchivingSteps, ReviewingSteps
    <3>3. Ready' => Ready /\ turn.at \notin ArchivingSteps
      BY <2>7 DEF ReserveFails, Holds, Ready, ArchivingSteps
    <3> QED BY <3>1, <3>2, <3>3, RowsTurn
  <2>8. CASE AcceptFails
    <3>1. UNCHANGED <<row, session, written, live, fenced, deletion.complete>>
            /\ turn'.at \in ReviewingSteps
      BY <2>8 DEF AcceptFails, NoTurn, Goto, ReviewingSteps, Types, TurnTypes, Turns
    <3>2. row.committed # {} /\ row.pending = {}
      BY <2>8 DEF AcceptFails, Holds, RowsHeld, ReviewingSteps
    <3> QED BY <3>1, <3>2 DEF RowsHeld, Ready, ArchivingSteps, ReviewingSteps, Foreign
  <2> QED BY <1>6, <2>1, <2>2, <2>3, <2>4, <2>5, <2>6, <2>7, <2>8
<1>7. ASSUME 
              ForgetUnbound \/ Tombstone \/ ReconcileAgain \/ CheckDelete \/ DeferDelete
           \/ AlreadyComplete \/ CaptureTargets \/ CaptureRefused \/ CaptureCopies \/ SetManifest
           \/ DeleteTarget \/ DeleteRefused \/ VerifyAbsent \/ VerifyCopies \/ RetireLease
           \/ CompleteDelete \/ DeleteFails
      PROVE  RowsHeld'
  <2>1. CASE ForgetUnbound
    <3>1. UNCHANGED <<row, session, written, live, fenced, turn, deletion>>
      BY <2>1 DEF ForgetUnbound
    <3> QED BY <3>1, RowsFrame
  <2>2. CASE Tombstone
    <3>1. /\ UNCHANGED <<session, written>> /\ deletion'.complete = deletion.complete
          /\ row'.bound = row.bound /\ row'.committed = row.committed
             /\ row'.pending = row.pending
      BY <2>2 DEF Tombstone, Types, RowType, DeletionTypes
    <3>2. turn'.at \notin ArchivingSteps \union ReviewingSteps \union {"settle"}
      BY <2>2 DEF Tombstone, NoTurn, ArchivingSteps, ReviewingSteps
    <3>3. ~Ready'
      BY <2>2 DEF Tombstone, Ready, Unready
    <3> QED BY <3>1, <3>2, <3>3, RowsTurn
  <2>3. CASE ReconcileAgain
    <3>1. /\ UNCHANGED <<session, written>> /\ deletion'.complete = deletion.complete
          /\ row'.bound = row.bound /\ row'.committed = row.committed
             /\ row'.pending = row.pending
      BY <2>3 DEF ReconcileAgain
    <3>2. turn'.at \notin ArchivingSteps \union ReviewingSteps \union {"settle"}
      BY <2>3 DEF ReconcileAgain, NoTurn, ArchivingSteps, ReviewingSteps
    <3>3. Ready' => Ready /\ turn.at \notin ArchivingSteps
      BY <2>3 DEF ReconcileAgain, Free, NoTurn, Ready, ArchivingSteps
    <3> QED BY <3>1, <3>2, <3>3, RowsTurn
  <2>4. CASE CheckDelete
    <3>1. /\ UNCHANGED <<session, written>> /\ deletion'.complete = deletion.complete
          /\ row'.bound = row.bound /\ row'.committed = row.committed
             /\ row'.pending = row.pending
      BY <2>4 DEF CheckDelete
    <3>2. turn'.at \notin ArchivingSteps \union ReviewingSteps \union {"settle"}
      BY <2>4 DEF CheckDelete, Types, TurnTypes, Turns, ArchivingSteps, ReviewingSteps
    <3>3. Ready' => Ready /\ turn.at \notin ArchivingSteps
      BY <2>4 DEF CheckDelete, Ready, ArchivingSteps
    <3> QED BY <3>1, <3>2, <3>3, RowsTurn
  <2>5. CASE DeferDelete
    <3>1. /\ UNCHANGED <<session, written>> /\ deletion'.complete = deletion.complete
          /\ row'.bound = row.bound /\ row'.committed = row.committed
             /\ row'.pending = row.pending
      BY <2>5 DEF DeferDelete, Settled
    <3>2. turn'.at \notin ArchivingSteps \union ReviewingSteps \union {"settle"}
      BY <2>5 DEF DeferDelete, Settled, NoTurn, ArchivingSteps, ReviewingSteps
    <3>3. Ready' => Ready /\ turn.at \notin ArchivingSteps
      BY <2>5 DEF DeferDelete, Ready, ArchivingSteps, TurnHeld, DeletingSteps, Reconcilers
    <3> QED BY <3>1, <3>2, <3>3, RowsTurn
  <2>6. CASE AlreadyComplete
    <3>1. /\ UNCHANGED <<session, written>> /\ deletion'.complete = deletion.complete
          /\ row'.bound = row.bound /\ row'.committed = row.committed
             /\ row'.pending = row.pending
      BY <2>6 DEF AlreadyComplete, Settled
    <3>2. turn'.at \notin ArchivingSteps \union ReviewingSteps \union {"settle"}
      BY <2>6 DEF AlreadyComplete, Settled, NoTurn, ArchivingSteps, ReviewingSteps
    <3>3. Ready' => Ready /\ turn.at \notin ArchivingSteps
      BY <2>6 DEF AlreadyComplete, Ready, ArchivingSteps, TurnHeld, DeletingSteps, Reconcilers
    <3> QED BY <3>1, <3>2, <3>3, RowsTurn
  <2>7. CASE CaptureTargets
    <3>1. /\ UNCHANGED <<session, written>> /\ deletion'.complete = deletion.complete
          /\ row'.bound = row.bound /\ row'.committed = row.committed
             /\ row'.pending = row.pending
      BY <2>7 DEF CaptureTargets
    <3>2. turn'.at \notin ArchivingSteps \union ReviewingSteps \union {"settle"}
      BY <2>7 DEF CaptureTargets, Types, TurnTypes, Turns, ArchivingSteps, ReviewingSteps
    <3>3. Ready' => Ready /\ turn.at \notin ArchivingSteps
      BY <2>7 DEF CaptureTargets, Ready, ArchivingSteps
    <3> QED BY <3>1, <3>2, <3>3, RowsTurn
  <2>8. CASE CaptureRefused
    <3>1. /\ UNCHANGED <<session, written>> /\ deletion'.complete = deletion.complete
          /\ row'.bound = row.bound /\ row'.committed = row.committed
             /\ row'.pending = row.pending
      BY <2>8 DEF CaptureRefused, Settled
    <3>2. turn'.at \notin ArchivingSteps \union ReviewingSteps \union {"settle"}
      BY <2>8 DEF CaptureRefused, Settled, NoTurn, ArchivingSteps, ReviewingSteps
    <3>3. Ready' => Ready /\ turn.at \notin ArchivingSteps
      BY <2>8 DEF CaptureRefused, Ready, ArchivingSteps
    <3> QED BY <3>1, <3>2, <3>3, RowsTurn
  <2>9. CASE CaptureCopies
    <3>1. /\ UNCHANGED <<session, written>> /\ deletion'.complete = deletion.complete
          /\ row'.bound = row.bound /\ row'.committed = row.committed
             /\ row'.pending = row.pending
      BY <2>9 DEF CaptureCopies
    <3>2. turn'.at \notin ArchivingSteps \union ReviewingSteps \union {"settle"}
      BY <2>9 DEF CaptureCopies, Types, TurnTypes, Turns, ArchivingSteps, ReviewingSteps
    <3>3. Ready' => Ready /\ turn.at \notin ArchivingSteps
      BY <2>9 DEF CaptureCopies, Ready, ArchivingSteps
    <3> QED BY <3>1, <3>2, <3>3, RowsTurn
  <2>10. CASE SetManifest
    <3>1. /\ UNCHANGED <<session, written>> /\ deletion'.complete = deletion.complete
          /\ row'.bound = row.bound /\ row'.committed = row.committed
             /\ row'.pending = row.pending
      BY <2>10 DEF SetManifest, Types, DeletionTypes
    <3>2. turn'.at \notin ArchivingSteps \union ReviewingSteps \union {"settle"}
      BY <2>10 DEF SetManifest, Types, TurnTypes, Turns, Goto, ArchivingSteps, ReviewingSteps
    <3>3. Ready' => Ready /\ turn.at \notin ArchivingSteps
      BY <2>10 DEF SetManifest, Ready, ArchivingSteps
    <3> QED BY <3>1, <3>2, <3>3, RowsTurn
  <2>11. CASE DeleteTarget
    <3>1. Remove(Head(turn.targets)) /\ UNCHANGED <<row, written, live, fenced, deletion>>
            /\ turn.at = "delete" /\ turn'.at = "delete"
      BY <2>11 DEF DeleteTarget, Types, TurnTypes, Turns
    <3> QED BY <3>1 DEF Remove, RowsHeld, Ready, Foreign, ArchivingSteps, ReviewingSteps
  <2>12. CASE DeleteRefused
    <3>1. /\ UNCHANGED <<session, written>> /\ deletion'.complete = deletion.complete
          /\ row'.bound = row.bound /\ row'.committed = row.committed
             /\ row'.pending = row.pending
      BY <2>12 DEF DeleteRefused, Settled
    <3>2. turn'.at \notin ArchivingSteps \union ReviewingSteps \union {"settle"}
      BY <2>12 DEF DeleteRefused, Settled, NoTurn, ArchivingSteps, ReviewingSteps
    <3>3. Ready' => Ready /\ turn.at \notin ArchivingSteps
      BY <2>12 DEF DeleteRefused, Ready, ArchivingSteps
    <3> QED BY <3>1, <3>2, <3>3, RowsTurn
  <2>13. CASE VerifyAbsent
    <3>1. /\ UNCHANGED <<session, written>> /\ deletion'.complete = deletion.complete
          /\ row'.bound = row.bound /\ row'.committed = row.committed
             /\ row'.pending = row.pending
      BY <2>13 DEF VerifyAbsent
    <3>2. turn'.at \notin ArchivingSteps \union ReviewingSteps \union {"settle"}
      BY <2>13 DEF VerifyAbsent, Types, TurnTypes, Turns, Goto, Settled, NoTurn, ArchivingSteps,
           ReviewingSteps
    <3>3. Ready' => Ready /\ turn.at \notin ArchivingSteps
      BY <2>13 DEF VerifyAbsent, Ready, ArchivingSteps
    <3> QED BY <3>1, <3>2, <3>3, RowsTurn
  <2>14. CASE VerifyCopies
    <3>1. /\ UNCHANGED <<session, written>> /\ deletion'.complete = deletion.complete
          /\ row'.bound = row.bound /\ row'.committed = row.committed
             /\ row'.pending = row.pending
      BY <2>14 DEF VerifyCopies
    <3>2. turn'.at \notin ArchivingSteps \union ReviewingSteps \union {"settle"}
      BY <2>14 DEF VerifyCopies, Types, TurnTypes, Turns, Goto, Settled, NoTurn, ArchivingSteps,
           ReviewingSteps
    <3>3. Ready' => Ready /\ turn.at \notin ArchivingSteps
      BY <2>14 DEF VerifyCopies, Ready, ArchivingSteps
    <3> QED BY <3>1, <3>2, <3>3, RowsTurn
  <2>15. CASE RetireLease
    <3>1. /\ UNCHANGED <<session, written>> /\ deletion'.complete = deletion.complete
          /\ row'.bound = row.bound /\ row'.committed = row.committed
             /\ row'.pending = row.pending
      BY <2>15 DEF RetireLease
    <3>2. turn'.at \notin ArchivingSteps \union ReviewingSteps \union {"settle"}
      BY <2>15 DEF RetireLease, Types, TurnTypes, Turns, Goto, ArchivingSteps, ReviewingSteps
    <3>3. ~Ready'
      BY <2>15 DEF RetireLease, Ready
    <3> QED BY <3>1, <3>2, <3>3, RowsTurn
  <2>16. CASE CompleteDelete
    <3>1. /\ UNCHANGED <<session, written>> /\ row' = NoRow /\ turn'.at = "free"
          /\ deletion' = [deletion EXCEPT !.complete = TRUE]
      BY <2>16 DEF CompleteDelete, Settled, NoTurn
    <3>2. deletion'.complete
      BY <3>1 DEF Types, DeletionTypes
    <3>3. row'.bound = FALSE /\ row'.committed = {} /\ row'.pending = {}
      BY <3>1 DEF NoRow
    <3> QED BY <3>1, <3>2, <3>3 DEF RowsHeld, ArchivingSteps, ReviewingSteps, Foreign
  <2>17. CASE DeleteFails
    <3>1. /\ UNCHANGED <<session, written>> /\ deletion'.complete = deletion.complete
          /\ row'.bound = row.bound /\ row'.committed = row.committed
             /\ row'.pending = row.pending
      BY <2>17 DEF DeleteFails, Settled
    <3>2. turn'.at \notin ArchivingSteps \union ReviewingSteps \union {"settle"}
      BY <2>17 DEF DeleteFails, Settled, NoTurn, ArchivingSteps, ReviewingSteps
    <3>3. Ready' => Ready /\ turn.at \notin ArchivingSteps
      BY <2>17 DEF DeleteFails, Ready, ArchivingSteps, TurnHeld, DeletingSteps, Reconcilers
    <3> QED BY <3>1, <3>2, <3>3, RowsTurn
  <2> QED BY <1>7, <2>1, <2>2, <2>3, <2>4, <2>5, <2>6, <2>7, <2>8, <2>9, <2>10, <2>11, <2>12,
        <2>13,
      <2>14, <2>15, <2>16, <2>17
<1>8. ASSUME 
              OthersWrite \/ OthersDelete \/ OthersLease \/ OthersRelease \/ LeaseLost
      PROVE  RowsHeld'
  <2>1. CASE OthersLease \/ OthersRelease
    <3>1. UNCHANGED <<row, session, written, live, fenced, turn, deletion>>
      BY <2>1 DEF OthersLease, OthersRelease
    <3> QED BY <3>1, RowsFrame
  <2>2. CASE OthersWrite
    <3>1. UNCHANGED <<row, written, live, fenced, deletion, turn>>
            /\ session' = {Append(rows, Alien) : rows \in session}
      BY <2>2 DEF OthersWrite
    <3>2. session' = {} \/ Foreign(session')
      <4>1. SUFFICES ASSUME NEW rows \in session PROVE Foreign(session')
        BY <3>1
      <4>2. rows \in Seq(Rows)
        BY DEF Types, HermesTypes, Opt
      <4>3. Append(rows, Alien) \in session' /\ Alien \in Elements(Append(rows, Alien))
        BY <3>1, <4>2, AppendForeign
      <4> QED BY <4>3 DEF Foreign
    <3> QED BY <3>1, <3>2 DEF RowsHeld, Ready, Foreign
  <2>3. CASE OthersDelete
    <3>1. Remove(Voice) /\ UNCHANGED <<row, written, live, fenced, deletion, turn>>
      BY <2>3 DEF OthersDelete
    <3> QED BY <3>1 DEF Remove, RowsHeld, Ready, Foreign
  <2>4. CASE LeaseLost
    <3>1. UNCHANGED <<row, session, written, fenced, turn, deletion>> /\ live' = {FALSE}
      BY <2>4 DEF LeaseLost
    <3>2. ~Ready'
      BY <3>1 DEF Ready
    <3> QED BY <3>1, <3>2 DEF RowsHeld, Foreign
  <2> QED BY <1>8, <2>1, <2>2, <2>3, <2>4
<1>9. ASSUME NEW s \in Sessions, NEW k \in Kin,
              Branch(s, k) \/ Fork(s, k) \/ Compress(s, k)
      PROVE  RowsHeld'
  <2>1. CASE Branch(s, k) \/ Fork(s, k) \/ Compress(s, k)
    <3>1. UNCHANGED <<row, session, written, live, fenced, turn, deletion>>
      BY <2>1 DEF Branch, Fork, Compress
    <3> QED BY <3>1, RowsFrame
  <2> QED BY <1>9, <2>1
<1>10. ASSUME NEW k \in Kin, RemoveKin(k)
      PROVE  RowsHeld'
  <2>1. Remove(k) /\ UNCHANGED <<row, written, live, fenced, deletion, turn>>
    BY <1>10 DEF RemoveKin
  <2> QED BY <2>1 DEF Remove, RowsHeld, Ready, Foreign
<1>11. ASSUME 
              Crash \/ BeginClose \/ CloseReviews \/ Close \/ Start
      PROVE  RowsHeld'
  <2>1. CASE BeginClose \/ CloseReviews
    <3>1. UNCHANGED <<row, session, written, live, fenced, turn, deletion>>
      BY <2>1 DEF BeginClose, CloseReviews
    <3> QED BY <3>1, RowsFrame
  <2>2. CASE Crash
    <3>1. /\ UNCHANGED <<session, written>> /\ deletion'.complete = deletion.complete
          /\ row'.bound = row.bound /\ row'.committed = row.committed
             /\ row'.pending = row.pending
      BY <2>2 DEF Crash
    <3>2. turn'.at \notin ArchivingSteps \union ReviewingSteps \union {"settle"}
      BY <2>2 DEF Crash, NoTurn, ArchivingSteps, ReviewingSteps
    <3>3. ~Ready'
      BY <2>2 DEF Crash, Ready
    <3> QED BY <3>1, <3>2, <3>3, RowsTurn
  <2>3. CASE Close
    <3>1. UNCHANGED <<row, session, written, turn, deletion>> /\ live' = {}
      BY <2>3 DEF Close
    <3>2. ~Ready'
      BY <3>1 DEF Ready
    <3> QED BY <3>1, <3>2 DEF RowsHeld, Foreign
  <2>4. CASE Start
    <3>1. UNCHANGED <<row, session, written, live, fenced, deletion>>
      BY <2>4 DEF Start
    <3>2. CASE turn' = turn
      BY <3>1, <3>2, RowsFrame
    <3>3. CASE turn' # turn
      <4>1. turn' = [NoTurn EXCEPT !.by = "load", !.at = "check"]
        BY <2>4, <3>3 DEF Start
      <4>2. turn'.at = "check"
        BY <4>1 DEF NoTurn
      <4>3. turn.at = "free"
        BY <2>4 DEF Start, TurnHeld, NoTurn
      <4> QED BY <3>1, <4>2, <4>3, RowsTurn DEF ArchivingSteps, ReviewingSteps, Ready
    <3> QED BY <3>2, <3>3
  <2> QED BY <1>11, <2>1, <2>2, <2>3, <2>4
<1> QED BY <1>1, <1>2, <1>3, <1>4, <1>5, <1>6, <1>7, <1>8, <1>9, <1>10, <1>11
  DEF Next, Opening, Archiving, Reviewing, Deleting, Failing, Others
=============================================================================
