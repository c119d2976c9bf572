---------------------------- MODULE TasksProofs ----------------------------
(***************************************************************************)
(* Theorems about Tasks, for every set of tasks and every capacity: its    *)
(* inductive invariant, and the safety properties that follow from it.     *)
(* There is one lemma per action, and under it one step for each part of   *)
(* the invariant the action can disturb.                                   *)
(***************************************************************************)
EXTENDS TasksInduction, SubsequenceProofs, FiniteSetTheorems

USE TasksAssumption
USE DEF session, control, Waiting, Faults

-----------------------------------------------------------------------------
(* What the operations share.                                              *)

(* A failure keeps the terminals of the queue and leaves something in it.  *)
FailsWith(kind) ==
  /\ queue' \in Seq(Tasks \union {Fault}) /\ Len(queue') <= MaxTerminals /\ queue' # <<>>
  /\ fault' \in Faults \ {"none"} /\ fault' \in {fault, kind}
  /\ Sift(queue', Tasks) = Sift(queue, Tasks)

LEMMA FailKeeps ==
  ASSUME TypeOK, NEW kind \in Faults \ {"none"}, Fail(kind, queue)
  PROVE  FailsWith(kind)
<1>1. CASE queue = <<>>
  <2>1. queue' = <<Fault>>
    BY <1>1 DEF Fail
  <2>2. Sift(<<Fault>>, Tasks) = <<>>
    BY SiftOne
  <2>3. Sift(<<>>, Tasks) = <<>>
    BY SiftEmpty
  <2> QED BY <1>1, <2>1, <2>2, <2>3 DEF Fail, FailsWith, TypeOK
<1>2. CASE queue # <<>>
  BY <1>2 DEF Fail, FailsWith, TypeOK
<1> QED BY <1>1, <1>2

(* The reservations of fewer tasks are fewer.                              *)
LEMMA FewerReserved ==
  ASSUME Capacity, Reserved' \subseteq Reserved
  PROVE  Capacity'
<1>1. IsFiniteSet(Reserved') /\ Cardinality(Reserved') <= Cardinality(Reserved)
  BY FS_Subset DEF Capacity
<1>2. Cardinality(Reserved) \in Nat /\ Cardinality(Reserved') \in Nat
  BY <1>1, FS_CardinalityType DEF Capacity
<1> QED BY <1>1, <1>2 DEF Capacity

(* A terminal, appended to what was settled and to the queue.              *)
LEMMA SettleInOrder ==
  ASSUME InOrder, told \in Seq(Tasks), queue \in Seq(Tasks \union {Fault}),
         NEW t \in Tasks, Settle(t), UNCHANGED told
  PROVE  InOrder'
<1>1. Sift(Append(queue, t), Tasks) = Append(Sift(queue, Tasks), t)
  BY SiftAppend
<1>2. Sift(queue, Tasks) \in Seq(Tasks)
  <2>1. Sift(queue, Tasks) \in Seq((Tasks \union {Fault}) \intersect Tasks)
    BY SiftType
  <2>2. (Tasks \union {Fault}) \intersect Tasks = Tasks
    OBVIOUS
  <2> QED BY <2>1, <2>2
<1>3. told \o Append(Sift(queue, Tasks), t) = Append(told \o Sift(queue, Tasks), t)
  BY <1>2, ConcatAppend
<1> QED BY <1>1, <1>3 DEF InOrder, Settle

(* Settling a task settles it only, and once.                              *)
SettledMore(t) ==
  /\ \A i, j \in DOMAIN ended' : ended'[i] = ended'[j] => i = j
  /\ \A u \in Tasks : Settled(u)' <=> (Settled(u) \/ u = t)

LEMMA SettleSettles ==
  ASSUME TypeOK, OnePlace, NEW t \in Tasks, stage[t] # "ended", Settle(t)
  PROVE  SettledMore(t)
<1>1. ended \in Seq(Tasks) /\ ended' = Append(ended, t) /\ ~Settled(t)
  BY DEF TypeOK, OnePlace, Settle
<1>2. /\ DOMAIN ended = 1..Len(ended) /\ DOMAIN ended' = 1..(Len(ended) + 1) /\ Len(ended) \in Nat
      /\ \A i \in 1..Len(ended) : ended'[i] = ended[i]
      /\ ended'[Len(ended) + 1] = t
  BY <1>1
<1>3. \A i, j \in DOMAIN ended : ended[i] = ended[j] => i = j
  BY DEF OnePlace
<1>4. \A i \in 1..Len(ended) : ended[i] # t
  BY <1>1, <1>2 DEF Settled
<1>5. \A i, j \in DOMAIN ended' : ended'[i] = ended'[j] => i = j
  <2>1. \A i \in DOMAIN ended' : i \in 1..Len(ended) \/ i = Len(ended) + 1
    BY <1>2
  <2> QED BY <1>2, <1>3, <1>4, <2>1
<1>6. \A u \in Tasks : Settled(u)' <=> (Settled(u) \/ u = t)
  BY <1>2 DEF Settled
<1> QED BY <1>5, <1>6 DEF SettledMore

(* What is added to the session's queue is one more update of it.          *)
QueuedMore(x) ==
  /\ \A i, j \in DOMAIN updates' : updates'[i] = updates'[j] /\ updates'[i] \in Tasks => i = j
  /\ \A u \in Tasks \union {Broken} : Queued(u)' <=> (Queued(u) \/ u = x)

LEMMA AppendQueues ==
  ASSUME TypeOK, OnePlace, NEW x \in Tasks \union {Broken}, x \in Tasks => ~Queued(x),
         updates' = Append(updates, x)
  PROVE  QueuedMore(x)
<1>1. /\ DOMAIN updates = 1..Len(updates) /\ DOMAIN updates' = 1..(Len(updates) + 1)
      /\ Len(updates) \in Nat /\ \A i \in 1..Len(updates) : updates'[i] = updates[i]
      /\ updates'[Len(updates) + 1] = x
  BY DEF TypeOK
<1>2. \A i \in DOMAIN updates' : i \in 1..Len(updates) \/ i = Len(updates) + 1
  BY <1>1
<1>3. \A i \in 1..Len(updates) : updates[i] = x => x \notin Tasks
  BY <1>1 DEF Queued
<1>4. \A i, j \in DOMAIN updates' : updates'[i] = updates'[j] /\ updates'[i] \in Tasks => i = j
  BY <1>1, <1>2, <1>3 DEF OnePlace
<1>5. \A u \in Tasks \union {Broken} : Queued(u)' <=> (Queued(u) \/ u = x)
  BY <1>1 DEF Queued
<1> QED BY <1>4, <1>5 DEF QueuedMore

(* Taking the head of the session's queue takes one update out of it, and  *)
(* if it is a terminal, the only one of its task.                          *)
QueuedLess ==
  /\ \A i, j \in DOMAIN updates' : updates'[i] = updates'[j] /\ updates'[i] \in Tasks => i = j
  /\ \A u \in Tasks : Queued(u)' <=> (Queued(u) /\ u # Head(updates))
  /\ Queued(Head(updates)) /\ Head(updates) \in Tasks \union {Broken}
  /\ updates' \in Seq(Tasks \union {Broken}) /\ Len(updates') <= MaxUpdates
  /\ Queued(Broken) /\ Head(updates) # Broken => Queued(Broken)'

LEMMA TailQueues ==
  ASSUME TypeOK, OnePlace, updates # <<>>, updates' = Tail(updates)
  PROVE  QueuedLess
<1> DEFINE n == Len(updates)
<1>1. /\ updates \in Seq(Tasks \union {Broken}) /\ n \in Nat /\ n > 0 /\ n <= MaxUpdates
      /\ DOMAIN updates = 1..n /\ DOMAIN updates' = 1..(n - 1) /\ Len(updates') = n - 1
      /\ \A i \in 1..(n - 1) : updates'[i] = updates[i + 1]
      /\ Head(updates) = updates[1]
      /\ updates' \in Seq(Tasks \union {Broken})
  BY DEF TypeOK
<1> HIDE DEF n
<1>2. \A i, j \in DOMAIN updates' : updates'[i] = updates'[j] /\ updates'[i] \in Tasks => i = j
  <2>1. ASSUME NEW i \in 1..(n - 1), NEW j \in 1..(n - 1), updates'[i] = updates'[j],
               updates'[i] \in Tasks
        PROVE  i = j
    <3>1. i + 1 \in DOMAIN updates /\ j + 1 \in DOMAIN updates
      BY <1>1
    <3>2. updates[i + 1] = updates[j + 1] /\ updates[i + 1] \in Tasks
      BY <1>1, <2>1
    <3>3. i + 1 = j + 1
      BY <3>1, <3>2 DEF OnePlace
    <3> QED BY <1>1, <3>3
  <2> QED BY <1>1, <2>1
<1>3. ASSUME NEW u \in Tasks \union {Broken}
      PROVE  /\ Queued(u)' => Queued(u)
             /\ Queued(u) /\ u # Head(updates) => Queued(u)'
             /\ u \in Tasks /\ u = Head(updates) => ~Queued(u)'
  <2>1. ASSUME Queued(u)' PROVE Queued(u) /\ ~(u \in Tasks /\ u = Head(updates))
    <3>1. PICK i \in 1..(n - 1) : updates'[i] = u
      BY <1>1, <2>1 DEF Queued
    <3>2. i + 1 \in DOMAIN updates /\ updates[i + 1] = u /\ i + 1 # 1 /\ 1 \in DOMAIN updates
      BY <1>1, <3>1
    <3>3. u = updates[1] => u \notin Tasks
      BY <3>2 DEF OnePlace
    <3> QED BY <1>1, <3>2, <3>3 DEF Queued
  <2>2. ASSUME Queued(u), u # Head(updates) PROVE Queued(u)'
    <3>1. PICK i \in 1..n : updates[i] = u
      BY <1>1, <2>2 DEF Queued
    <3>2. i # 1
      BY <1>1, <2>2, <3>1
    <3>3. i - 1 \in 1..(n - 1) /\ (i - 1) + 1 = i
      BY <1>1, <3>2
    <3>4. updates'[i - 1] = u
      BY <1>1, <3>1, <3>3
    <3> QED BY <1>1, <3>3, <3>4 DEF Queued
  <2> QED BY <2>1, <2>2
<1>4. Queued(Head(updates)) /\ Head(updates) \in Tasks \union {Broken}
  <2>1. 1 \in DOMAIN updates
    BY <1>1
  <2> QED BY <1>1, <2>1 DEF Queued
<1>5. Len(updates') <= MaxUpdates
  BY <1>1
<1> QED BY <1>1, <1>2, <1>3, <1>4, <1>5 DEF QueuedLess

-----------------------------------------------------------------------------
(* Dispatch                                                                *)

LEMMA DispatchKeeps ==
  ASSUME TasksInductive, NEW t \in Tasks, Dispatch(t)
  PROVE  TasksInductive'
<1> USE DEF TasksInductive
<1>1. TypeOK'
  <2>1. stage' \in [Tasks -> {"new", "active", "ended", "refused"} \union Waiting]
        /\ asked' \in 0..MaxOperations /\ loop' \in {"none", "running", "over"}
    BY DEF TypeOK, Dispatch
  <2>2. UNCHANGED <<session, answer, early, stop, seen, ended, queue, fault, closed, reader, told>>
    BY DEF Dispatch
  <2> QED BY <2>1, <2>2 DEF TypeOK
<1>2. RunsByStage' /\ Numbers'
  BY DEF TypeOK, Dispatch, RunsByStage, Numbers
<1>3. OnePlace'
  <2>1. \A u \in Tasks : (Settled(u)' <=> Settled(u)) /\ (Queued(u)' <=> Queued(u))
    BY DEF Dispatch, Settled, Queued
  <2> QED BY <2>1 DEF TypeOK, Dispatch, OnePlace, RunsByStage
<1>4. SomePlace'
  BY DEF TypeOK, Dispatch, SomePlace, Queued
<1>5. Capacity'
  <2>1. Pending \intersect Active = {} /\ t \notin Reserved
    BY DEF Pending, Active, Reserved, Dispatch
  <2>2. IsFiniteSet(Pending) /\ IsFiniteSet(Active)
    BY FS_Subset DEF Reserved, Capacity
  <2>3. Cardinality(Reserved) = Cardinality(Pending) + Cardinality(Active)
    <3>1. Cardinality(Pending \intersect Active) = 0
      BY <2>1, FS_EmptySet
    <3>2. Cardinality(Pending) \in Nat /\ Cardinality(Active) \in Nat
      BY <2>2, FS_CardinalityType
    <3> QED BY <2>2, <3>1, <3>2, FS_Union DEF Reserved
  <2>4. Reserved' = Reserved \union {t}
    <3>1. \A u \in Tasks : stage'[u] = IF u = t THEN "posted" ELSE stage[u]
      BY DEF Dispatch, TypeOK
    <3> QED BY <3>1 DEF Reserved, Pending, Active
  <2>5. IsFiniteSet(Reserved') /\ Cardinality(Reserved') = Cardinality(Reserved) + 1
    BY <2>1, <2>4, FS_AddElement DEF Capacity
  <2>6. Cardinality(Reserved) \in Nat
    BY FS_CardinalityType DEF Capacity
  <2> QED BY <2>3, <2>5, <2>6 DEF Dispatch, Capacity
<1>6. InOrder' /\ Overtaken' /\ WaiterWoken'
  BY DEF TypeOK, Dispatch, InOrder, Overtaken, WaiterWoken
<1> QED BY <1>1, <1>2, <1>3, <1>4, <1>5, <1>6

LEMMA HermesAnswersKeeps ==
  ASSUME TasksInductive, NEW t \in Tasks, NEW accepted \in BOOLEAN, HermesAnswers(t, accepted)
  PROVE  TasksInductive'
<1> USE DEF TasksInductive
<1>1. TypeOK'
  BY DEF TypeOK, HermesAnswers
<1>2. RunsByStage' /\ Numbers'
  <2>1. ~early[t] /\ runs[t] = "none" /\ seen[t] = 0 /\ clock[t] \in Nat /\ stop[t] = "none"
    BY DEF TypeOK, HermesAnswers, RunsByStage, Numbers, OnePlace
  <2>2. /\ \A u \in Tasks \ {t} : /\ stage'[u] = stage[u] /\ runs'[u] = runs[u]
                                  /\ clock'[u] = clock[u] /\ answer'[u] = answer[u]
        /\ UNCHANGED <<final, early, stop, seen>>
    BY DEF TypeOK, HermesAnswers
  <2>3. /\ stage'[t] = "answered" /\ clock'[t] = clock[t] + 1
        /\ answer'[t].number = clock[t] + 1
        /\ answer'[t].accepted <=> accepted
        /\ runs'[t] = IF accepted THEN "live" ELSE "none"
    BY DEF TypeOK, HermesAnswers
  <2>4. final[t] \in Nat /\ final[t] = 0
    <3>1. final[t] \in Nat
      BY DEF TypeOK
    <3>2. ~(final[t] > 0)
      BY <2>1 DEF RunsByStage
    <3> QED BY <3>1, <3>2
  <2>5. RunsByStage'
    <3>1. ASSUME NEW u \in Tasks, u # t
          PROVE  /\ runs'[u] = runs[u] /\ stage'[u] = stage[u] /\ answer'[u] = answer[u]
                 /\ final'[u] = final[u] /\ stop'[u] = stop[u]
      BY <2>2, <3>1
    <3> QED BY <2>1, <2>2, <2>3, <2>4, <3>1 DEF RunsByStage
  <2>6. Numbers'
    <3>1. ASSUME NEW u \in Tasks, u # t
          PROVE  /\ seen'[u] = seen[u] /\ clock'[u] = clock[u] /\ final'[u] = final[u]
                 /\ stage'[u] = stage[u] /\ early'[u] = early[u] /\ answer'[u] = answer[u]
                 /\ runs'[u] = runs[u]
      BY <2>2, <3>1
    <3>2. /\ seen'[t] = 0 /\ clock'[t] = clock[t] + 1 /\ final'[t] = 0 /\ ~early'[t]
          /\ answer'[t].number = clock[t] + 1 /\ runs'[t] # "over"
      BY <2>1, <2>2, <2>3, <2>4
    <3> QED BY <2>1, <3>1, <3>2 DEF Numbers
  <2> QED BY <2>5, <2>6
<1>3. OnePlace'
  <2>1. \A u \in Tasks : (Settled(u)' <=> Settled(u)) /\ (Queued(u)' <=> Queued(u))
    BY DEF HermesAnswers, Settled, Queued
  <2> QED BY <2>1 DEF TypeOK, HermesAnswers, OnePlace, RunsByStage
<1>4. SomePlace'
  BY DEF TypeOK, HermesAnswers, SomePlace, Queued, RunsByStage
<1>5. Capacity'
  <2>1. Reserved' = Reserved
    BY DEF HermesAnswers, TypeOK, Reserved, Pending, Active
  <2> QED BY <2>1 DEF Capacity
<1>6. InOrder' /\ Overtaken' /\ WaiterWoken'
  BY DEF TypeOK, HermesAnswers, InOrder, Overtaken, WaiterWoken
<1> QED BY <1>1, <1>2, <1>3, <1>4, <1>5, <1>6

LEMMA DispatchBreaksKeeps ==
  ASSUME TasksInductive, NEW t \in Tasks, DispatchBreaks(t)
  PROVE  TasksInductive'
<1> USE DEF TasksInductive
<1>1. FailsWith("broken") \/ (fault # "none" /\ UNCHANGED <<fault, queue>>)
  <2>1. CASE closed
    BY <2>1 DEF DispatchBreaks, SomePlace
  <2>2. CASE ~closed
    BY <2>2, FailKeeps DEF DispatchBreaks
  <2> QED BY <2>1, <2>2 DEF TypeOK
<1>2. TypeOK'
  BY <1>1 DEF TypeOK, DispatchBreaks, FailsWith
<1>3. RunsByStage' /\ Numbers'
  BY DEF TypeOK, DispatchBreaks, RunsByStage, Numbers
<1>4. OnePlace' /\ SomePlace'
  <2>1. \A u \in Tasks : (Settled(u)' <=> Settled(u)) /\ (Queued(u)' <=> Queued(u))
    BY DEF DispatchBreaks, Settled, Queued
  <2>2. OnePlace'
    BY <2>1 DEF TypeOK, DispatchBreaks, OnePlace, RunsByStage
  <2>3. SomePlace'
    BY <1>1 DEF TypeOK, SomePlace, FailsWith
  <2> QED BY <2>2, <2>3
<1>5. Capacity'
  <2>1. Reserved' = Reserved
    BY DEF DispatchBreaks, TypeOK, Reserved, Pending, Active
  <2> QED BY <2>1 DEF Capacity
<1>6. InOrder' /\ Overtaken' /\ WaiterWoken'
  BY <1>1 DEF TypeOK, DispatchBreaks, InOrder, Overtaken, WaiterWoken, FailsWith
<1> QED BY <1>2, <1>3, <1>4, <1>5, <1>6

(* The acknowledgment of a dispatch is never refused as old: nothing of    *)
(* the task was seen before it, but perhaps the terminal that overtook it. *)
LEMMA AnswerIsFresh ==
  ASSUME TasksInductive, NEW t \in Tasks, stage[t] = "answered"
  PROVE  /\ Fresh(t, answer[t].number, IF early[t] THEN final[t] ELSE 0)
         /\ stop[t] = "none" /\ 0 < answer[t].number /\ answer[t].number <= clock[t]
         /\ ~answer[t].accepted => runs[t] = "none" /\ ~early[t]
         /\ answer[t].accepted => runs[t] # "none"
         /\ early[t] => runs[t] = "over" /\ seen[t] = final[t] /\ answer[t].number < final[t]
         /\ ~early[t] => seen[t] = 0
         /\ runs[t] = "over" => answer[t].number < final[t]
         /\ ~(final[t] < seen[t] /\ 0 < final[t])
<1> USE DEF TasksInductive
<1>1. stage[t] \notin {"active", "ended"}
  OBVIOUS
<1>2. stop[t] = "none"
  BY <1>1 DEF RunsByStage
<1>3. early[t] \in BOOLEAN /\ seen[t] \in Nat /\ final[t] \in Nat /\ answer[t].number \in Nat
      /\ answer[t].accepted \in BOOLEAN
  BY DEF TypeOK
<1>4. /\ early[t] => runs[t] = "over" /\ seen[t] = final[t]
      /\ ~early[t] => seen[t] = 0
  BY <1>3 DEF OnePlace, Numbers
<1>5. /\ 0 < answer[t].number /\ answer[t].number <= clock[t]
      /\ runs[t] = "over" => answer[t].number < final[t]
  BY DEF Numbers
<1>6. runs[t] # "none" <=> answer[t].accepted
  BY DEF RunsByStage
<1> QED BY <1>2, <1>3, <1>4, <1>5, <1>6 DEF Fresh

LEMMA SettleDispatchKeeps ==
  ASSUME TasksInductive, NEW t \in Tasks, SettleDispatch(t)
  PROVE  TasksInductive'
<1> USE DEF TasksInductive
<1> DEFINE number == answer[t].number
           top == IF number > seen[t] THEN number ELSE seen[t]
<1>1. stage[t] = "answered"
  BY DEF SettleDispatch
<1>2. /\ Fresh(t, number, IF early[t] THEN final[t] ELSE 0)
      /\ stop[t] = "none" /\ 0 < number /\ number <= clock[t]
      /\ ~answer[t].accepted => runs[t] = "none" /\ ~early[t]
      /\ answer[t].accepted => runs[t] # "none"
      /\ early[t] => runs[t] = "over" /\ seen[t] = final[t] /\ number < final[t]
      /\ ~early[t] => seen[t] = 0
      /\ runs[t] = "over" => number < final[t]
      /\ ~(final[t] < seen[t] /\ 0 < final[t])
  BY <1>1, AnswerIsFresh
<1>3. UNCHANGED <<runs, clock, final, updates, answer, stop, loop, closed, asked, reader, told>>
  BY DEF SettleDispatch
<1>4. CASE stage' = [stage EXCEPT ![t] = "lost"] /\ closed
  <2>1. UNCHANGED <<early, seen, ended, fault, queue>>
    BY <1>1, <1>4, <1>2 DEF SettleDispatch, TypeOK
  <2>2. TypeOK' /\ RunsByStage' /\ Numbers'
    BY <1>1, <1>2, <1>3, <1>4, <2>1 DEF TypeOK, RunsByStage, Numbers
  <2>3. \A u \in Tasks : (Settled(u)' <=> Settled(u)) /\ (Queued(u)' <=> Queued(u))
    BY <1>3, <2>1 DEF Settled, Queued
  <2>4. OnePlace' /\ SomePlace'
    BY <1>1, <1>3, <1>4, <2>1, <2>3 DEF TypeOK, OnePlace, SomePlace
  <2>5. Capacity'
    <3>1. Reserved' = Reserved
      BY <1>1, <1>4 DEF TypeOK, Reserved, Pending, Active
    <3> QED BY <3>1 DEF Capacity
  <2>6. InOrder' /\ Overtaken' /\ WaiterWoken'
    BY <1>3, <1>4, <2>1 DEF TypeOK, InOrder, Overtaken, WaiterWoken
  <2> QED BY <2>2, <2>4, <2>5, <2>6
<1>5. ASSUME ~(stage' = [stage EXCEPT ![t] = "lost"] /\ closed)
      PROVE  TasksInductive'
  <2>1. ~closed /\ Saw(t, number)
    BY <1>2, <1>5 DEF SettleDispatch
  <2>2. seen' = [seen EXCEPT ![t] = top] /\ top \in Nat /\ top <= clock[t]
        /\ (top = IF early[t] THEN final[t] ELSE number)
    <3>1. number \in Nat /\ seen[t] \in Nat /\ clock[t] \in Nat /\ seen[t] <= clock[t]
      BY DEF TypeOK, Numbers
    <3>2. seen' = [seen EXCEPT ![t] = top]
      BY <2>1 DEF Saw
    <3> QED BY <1>2, <3>1, <3>2
  <2> HIDE DEF top, number
  <2>3. CASE ~answer[t].accepted
    <3>1. stage' = [stage EXCEPT ![t] = "refused"] /\ UNCHANGED <<early, ended, queue, fault>>
      BY <1>2, <2>1, <2>3 DEF SettleDispatch, number
    <3>2. TypeOK' /\ RunsByStage' /\ Numbers'
      BY <1>1, <1>2, <1>3, <2>2, <2>3, <3>1 DEF TypeOK, RunsByStage, Numbers
    <3>3. \A u \in Tasks : (Settled(u)' <=> Settled(u)) /\ (Queued(u)' <=> Queued(u))
      BY <1>3, <3>1 DEF Settled, Queued
    <3>4. OnePlace'
      BY <1>1, <1>2, <1>3, <2>2, <2>3, <3>1, <3>3 DEF TypeOK, OnePlace, RunsByStage
    <3>5. SomePlace'
      BY <1>1, <1>2, <1>3, <2>3, <3>1, <3>3 DEF TypeOK, SomePlace, Queued
    <3>6. Capacity'
      <4>1. Reserved' \subseteq Reserved
        BY <1>1, <3>1 DEF TypeOK, Reserved, Pending, Active
      <4> QED BY <4>1, FewerReserved
    <3>7. InOrder' /\ Overtaken' /\ WaiterWoken'
      BY <1>1, <1>2, <1>3, <2>2, <3>1 DEF TypeOK, InOrder, Overtaken, WaiterWoken
    <3> QED BY <3>2, <3>4, <3>5, <3>6, <3>7
  <2>4. CASE answer[t].accepted /\ ~early[t]
    <3>1. stage' = [stage EXCEPT ![t] = "active"] /\ UNCHANGED <<early, ended, queue, fault>>
      BY <1>2, <2>1, <2>4 DEF SettleDispatch, number
    <3>2. TypeOK' /\ RunsByStage' /\ Numbers'
      BY <1>1, <1>2, <1>3, <2>2, <2>4, <3>1 DEF TypeOK, RunsByStage, Numbers
    <3>3. \A u \in Tasks : (Settled(u)' <=> Settled(u)) /\ (Queued(u)' <=> Queued(u))
      BY <1>3, <3>1 DEF Settled, Queued
    <3>4. OnePlace'
      BY <1>1, <1>2, <1>3, <2>2, <2>4, <3>1, <3>3 DEF TypeOK, OnePlace, RunsByStage
    <3>5. SomePlace'
      BY <1>1, <1>2, <1>3, <2>4, <3>1, <3>3 DEF TypeOK, SomePlace, Queued
    <3>6. Capacity'
      <4>1. Reserved' \subseteq Reserved
        BY <1>1, <3>1 DEF TypeOK, Reserved, Pending, Active
      <4> QED BY <4>1, FewerReserved
    <3>7. InOrder' /\ Overtaken' /\ WaiterWoken'
      BY <1>1, <1>2, <1>3, <2>2, <3>1 DEF TypeOK, InOrder, Overtaken, WaiterWoken
    <3> QED BY <3>2, <3>4, <3>5, <3>6, <3>7
  <2>5. CASE answer[t].accepted /\ early[t] /\ Full
    <3>1. /\ stage' = [stage EXCEPT ![t] = "active"] /\ UNCHANGED ended
          /\ early' = [early EXCEPT ![t] = FALSE] /\ FailsWith("full")
      <4>1. Fail("full", queue)
        BY <1>2, <2>1, <2>5 DEF SettleDispatch, number
      <4>2. FailsWith("full")
        BY <4>1, FailKeeps
      <4> QED BY <1>2, <2>1, <2>5, <4>2 DEF SettleDispatch, number
    <3>2. TypeOK'
      BY <1>3, <2>2, <3>1 DEF TypeOK, FailsWith
    <3>3. RunsByStage' /\ Numbers'
      BY <1>1, <1>2, <1>3, <2>2, <2>5, <3>1 DEF TypeOK, RunsByStage, Numbers
    <3>4. \A u \in Tasks : (Settled(u)' <=> Settled(u)) /\ (Queued(u)' <=> Queued(u))
      BY <1>3, <3>1 DEF Settled, Queued
    <3>5. OnePlace'
      BY <1>1, <1>2, <1>3, <2>2, <2>5, <3>1, <3>4 DEF TypeOK, OnePlace, RunsByStage
    <3>6. SomePlace'
      BY <3>1 DEF SomePlace, FailsWith
    <3>7. Capacity'
      <4>1. Reserved' \subseteq Reserved
        BY <1>1, <3>1 DEF TypeOK, Reserved, Pending, Active
      <4> QED BY <4>1, FewerReserved
    <3>8. InOrder' /\ Overtaken' /\ WaiterWoken'
      BY <1>1, <1>2, <1>3, <2>2, <3>1 DEF TypeOK, InOrder, Overtaken, WaiterWoken, FailsWith
    <3> QED BY <3>2, <3>3, <3>5, <3>6, <3>7, <3>8
  <2>6. CASE answer[t].accepted /\ early[t] /\ ~Full
    <3>1. Settle(t) /\ UNCHANGED fault /\ early' = [early EXCEPT ![t] = FALSE]
      BY <1>2, <2>1, <2>6 DEF SettleDispatch, number
    <3>2. TypeOK'
      <4>1. /\ stage' \in [Tasks -> {"new", "active", "ended", "refused"} \union Waiting]
            /\ early' \in [Tasks -> BOOLEAN] /\ seen' \in [Tasks -> Nat] /\ ended' \in Seq(Tasks)
        BY <2>2, <3>1 DEF TypeOK, Settle
      <4>2. queue' \in Seq(Tasks \union {Fault}) /\ Len(queue') <= MaxTerminals
        <5>1. queue' = Append(queue, t) /\ queue \in Seq(Tasks \union {Fault}) /\ Len(queue) < MaxTerminals
          BY <2>6, <3>1 DEF TypeOK, Settle, Full
        <5>2. queue' \in Seq(Tasks \union {Fault}) /\ Len(queue') = Len(queue) + 1 /\ Len(queue) \in Nat
          BY <5>1
        <5> QED BY <5>1, <5>2
      <4> QED BY <1>3, <3>1, <4>1, <4>2 DEF TypeOK
    <3> DEFINE Frame ==
          /\ \A u \in Tasks : stage'[u] = IF u = t THEN "ended" ELSE stage[u]
          /\ \A u \in Tasks : early'[u] = IF u = t THEN FALSE ELSE early[u]
          /\ \A u \in Tasks \ {t} : seen'[u] = seen[u]
          /\ seen'[t] = final[t] /\ final[t] \in Nat
    <3>11. Frame
      BY <1>3, <2>2, <2>6, <3>1 DEF TypeOK, Settle
    <3> HIDE DEF Frame
    <3>3. RunsByStage' /\ Numbers'
      <4>1. RunsByStage'
        BY <1>1, <1>2, <1>3, <2>6, <3>11 DEF RunsByStage, Frame
      <4>2. Numbers'
        BY <1>1, <1>2, <1>3, <2>6, <3>11 DEF TypeOK, Numbers, Frame
      <4> QED BY <4>1, <4>2
    <3>4. SettledMore(t)
      BY <1>1, <3>1, SettleSettles
    <3>5. \A u \in Tasks : Queued(u)' <=> Queued(u)
      BY <1>3 DEF Queued
    <3>6. OnePlace'
      <4>1. \A u \in Tasks : Settled(u)' <=> (stage'[u] = "ended")
        BY <3>4, <3>11 DEF OnePlace, SettledMore, Frame
      <4>2. \A u \in Tasks : early'[u] => /\ stage'[u] \in Waiting /\ runs'[u] = "over"
                                         /\ seen'[u] = final'[u]
        BY <1>3, <3>11 DEF TypeOK, OnePlace, Frame
      <4>3. \A u \in Tasks : Queued(u)' => /\ runs'[u] = "over" /\ stage'[u] # "ended"
                                          /\ ~early'[u] /\ seen'[u] # final'[u]
        <5>1. ~Queued(t)
          BY <2>6 DEF OnePlace
        <5>2. ASSUME NEW u \in Tasks, Queued(u)
              PROVE  /\ stage'[u] = stage[u] /\ (early'[u] <=> early[u]) /\ seen'[u] = seen[u]
                     /\ runs'[u] = runs[u] /\ final'[u] = final[u]
          BY <1>3, <5>1, <5>2, <3>11 DEF Frame
        <5> QED BY <3>5, <5>2 DEF OnePlace
      <4> QED BY <1>3, <3>4, <4>1, <4>2, <4>3 DEF OnePlace, SettledMore
    <3>7. SomePlace'
      BY <1>1, <1>2, <1>3, <2>6, <3>1, <3>5 DEF TypeOK, SomePlace, Queued, Settle
    <3>8. Capacity'
      <4>1. Reserved' \subseteq Reserved
        BY <1>1, <3>1 DEF TypeOK, Reserved, Pending, Active, Settle
      <4> QED BY <4>1, FewerReserved
    <3>9. InOrder'
      BY <1>3, <3>1, SettleInOrder DEF TypeOK
    <3>10. Overtaken' /\ WaiterWoken'
      <4>1. Overtaken'
        BY <1>2, <1>3, <3>1, <3>11 DEF Overtaken, Frame
      <4>2. queue' # <<>>
        <5>1. queue \in Seq(Tasks \union {Fault}) /\ queue' = Append(queue, t)
          BY <3>1 DEF TypeOK, Settle
        <5>2. Len(queue') = Len(queue) + 1 /\ Len(queue) \in Nat
          BY <5>1
        <5> QED BY <5>2
      <4> QED BY <4>1, <4>2 DEF WaiterWoken
    <3> QED BY <3>2, <3>3, <3>6, <3>7, <3>8, <3>9, <3>10
  <2> QED BY <2>3, <2>4, <2>5, <2>6
<1> QED BY <1>4, <1>5

-----------------------------------------------------------------------------
(* Terminals                                                               *)

(* While the controller serves, the queue of the session holds at most one *)
(* terminal for each task that still has its reservation: a task without a *)
(* terminal leaves room for a failure.                                     *)
LEMMA RoomForFailure ==
  ASSUME TasksInductive, fault = "none", ~Queued(Broken),
         NEW t \in Tasks, runs[t] \notin {"none", "over"}
  PROVE  Len(updates) < MaxUpdates
<1> USE DEF TasksInductive
<1>1. t \in Reserved
  BY DEF TypeOK, RunsByStage, Reserved, Pending, Active
<1>2. ASSUME NEW i \in DOMAIN updates PROVE updates[i] \in Reserved \ {t}
  <2>1. updates[i] \in Tasks
    BY DEF TypeOK, Queued
  <2>2. Queued(updates[i])
    BY DEF Queued
  <2>3. runs[updates[i]] = "over" /\ stage[updates[i]] # "ended"
    BY <2>1, <2>2 DEF OnePlace
  <2> QED BY <2>1, <2>3 DEF TypeOK, RunsByStage, Reserved, Pending, Active
<1>3. \A i, j \in DOMAIN updates : updates[i] = updates[j] => i = j
  BY <1>2 DEF OnePlace, Reserved, Pending, Active
<1>4. DOMAIN updates = 1..Len(updates) /\ Len(updates) \in Nat /\ updates = [i \in DOMAIN updates |-> updates[i]]
  BY DEF TypeOK
<1>5. updates \in Injection(1..Len(updates), Reserved \ {t})
  <2>1. updates \in [1..Len(updates) -> Reserved \ {t}]
    BY <1>2, <1>4
  <2> QED BY <1>3, <1>4, <2>1 DEF Injection, IsInjective
<1>6. IsFiniteSet(Reserved \ {t}) /\ Cardinality(Reserved \ {t}) = Cardinality(Reserved) - 1
  BY <1>1, FS_RemoveElement DEF Capacity
<1>7. Cardinality(1..Len(updates)) = Len(updates)
  <2>1. 1 \in Int /\ Len(updates) \in Int
    BY <1>4
  <2>2. Cardinality(1..Len(updates)) = IF 1 > Len(updates) THEN 0 ELSE Len(updates) - 1 + 1
    BY <2>1, FS_Interval
  <2> QED BY <1>4, <2>2
<1>8. Cardinality(1..Len(updates)) <= Cardinality(Reserved \ {t})
  <2> DEFINE S == 1..Len(updates)
             T == Reserved \ {t}
  <2>1. Injection(S, T) # {} /\ IsFiniteSet(T)
    BY <1>5, <1>6
  <2> HIDE DEF S, T
  <2>2. Cardinality(S) <= Cardinality(T)
    BY <2>1, FS_Injection
  <2> QED BY <2>2 DEF S, T
<1>9. Cardinality(Reserved) \in Nat
  BY FS_CardinalityType DEF Capacity
<1> QED BY <1>4, <1>6, <1>7, <1>8, <1>9 DEF Capacity

LEMMA RunEndsKeeps ==
  ASSUME TasksInductive, NEW t \in Tasks, RunEnds(t)
  PROVE  TasksInductive'
<1> USE DEF TasksInductive
<1>1. /\ runs[t] = "live" /\ ~early[t] /\ ~Queued(t) /\ stage[t] # "ended"
      /\ ~(final[t] > 0) /\ seen[t] <= clock[t] /\ final[t] <= clock[t]
  BY DEF RunEnds, OnePlace, RunsByStage, Numbers
<1>2. clock[t] \in Nat /\ final[t] \in Nat /\ seen[t] \in Nat
  BY DEF TypeOK
<1> DEFINE Frame ==
      /\ \A u \in Tasks \ {t} : runs'[u] = runs[u] /\ clock'[u] = clock[u] /\ final'[u] = final[u]
      /\ runs'[t] = "over" /\ clock'[t] = clock[t] + 1 /\ final'[t] = clock[t] + 1
      /\ UNCHANGED <<stage, answer, early, stop, seen, ended, queue, fault, loop, closed, asked,
                     reader, told>>
<1>3. Frame /\ updates' = Append(updates, t)
  BY DEF TypeOK, RunEnds
<1> HIDE DEF Frame
<1>4. TypeOK'
  <2>1. updates' \in Seq(Tasks \union {Broken}) /\ Len(updates') <= MaxUpdates
    BY DEF TypeOK, RunEnds
  <2>2. runs' \in [Tasks -> {"none", "live", "over", "stuck"}]
        /\ clock' \in [Tasks -> Nat] /\ final' \in [Tasks -> Nat]
    BY <1>2 DEF TypeOK, RunEnds
  <2> QED BY <1>3, <2>1, <2>2 DEF TypeOK, Frame
<1>5. RunsByStage'
  <2>1. ASSUME NEW u \in Tasks, u # t
        PROVE  /\ runs'[u] = runs[u] /\ final'[u] = final[u]
               /\ stage'[u] = stage[u] /\ answer'[u] = answer[u] /\ stop'[u] = stop[u]
    BY <1>3, <2>1 DEF Frame
  <2>2. /\ stage'[t] = stage[t] /\ answer'[t] = answer[t] /\ stop'[t] = stop[t]
        /\ final'[t] > 0 /\ runs'[t] = "over"
    BY <1>2, <1>3 DEF Frame
  <2> QED BY <1>1, <2>1, <2>2 DEF RunsByStage
<1>6. Numbers'
  <2>1. ASSUME NEW u \in Tasks, u # t
        PROVE  /\ runs'[u] = runs[u] /\ final'[u] = final[u] /\ clock'[u] = clock[u]
               /\ seen'[u] = seen[u] /\ early'[u] = early[u]
               /\ stage'[u] = stage[u] /\ answer'[u] = answer[u]
    BY <1>3, <2>1 DEF Frame
  <2>2. /\ stage'[t] = stage[t] /\ answer'[t] = answer[t] /\ seen'[t] = seen[t]
        /\ clock'[t] = clock[t] + 1 /\ final'[t] = clock[t] + 1 /\ ~early'[t]
        /\ answer[t].number \in Nat
    BY <1>1, <1>2, <1>3 DEF Frame, TypeOK
  <2> QED BY <1>1, <1>2, <2>1, <2>2 DEF Numbers
<1>7. QueuedMore(t)
  BY <1>1, <1>3, AppendQueues
<1>8. OnePlace'
  <2>1. \A u \in Tasks : Settled(u)' <=> Settled(u)
    BY <1>3 DEF Frame, Settled
  <2>2. \A u \in Tasks : early'[u] => u # t
    BY <1>1, <1>3 DEF Frame
  <2>3. \A u \in Tasks : Queued(u)' => /\ runs'[u] = "over" /\ stage'[u] # "ended"
                                      /\ ~early'[u] /\ seen'[u] # final'[u]
    <3>1. ASSUME NEW u \in Tasks, Queued(u)', u # t
          PROVE  /\ runs'[u] = "over" /\ stage'[u] # "ended"
                 /\ ~early'[u] /\ seen'[u] # final'[u]
      BY <1>3, <1>7, <3>1 DEF Frame, OnePlace, QueuedMore
    <3>2. runs'[t] = "over" /\ stage'[t] # "ended" /\ ~early'[t] /\ seen'[t] # final'[t]
      BY <1>1, <1>2, <1>3 DEF Frame
    <3> QED BY <3>1, <3>2
  <2>4. \A u \in Tasks : early'[u] => /\ stage'[u] \in Waiting /\ runs'[u] = "over"
                                     /\ seen'[u] = final'[u]
    BY <1>3, <2>2 DEF Frame, OnePlace
  <2>5. \A u \in Tasks : Settled(u)' <=> (stage'[u] = "ended")
    BY <1>3, <2>1 DEF Frame, OnePlace
  <2> QED BY <1>3, <1>7, <2>3, <2>4, <2>5 DEF OnePlace, QueuedMore, Frame
<1>9. SomePlace'
  <2>1. Queued(Broken) => Queued(Broken)'
    BY <1>7 DEF QueuedMore
  <2>2. Queued(t)' /\ \A u \in Tasks : Queued(u) => Queued(u)'
    BY <1>7 DEF QueuedMore
  <2> QED BY <1>3, <2>1, <2>2 DEF SomePlace, Frame
<1>10. Capacity'
  <2>1. Reserved' = Reserved
    BY <1>3 DEF Frame, Reserved, Pending, Active
  <2> QED BY <2>1 DEF Capacity
<1>11. InOrder' /\ WaiterWoken'
  BY <1>3 DEF Frame, InOrder, WaiterWoken
<1>12. Overtaken'
  <2>1. ASSUME NEW u \in Tasks, 0 < final[u] PROVE u # t
    BY <1>1, <1>2, <2>1
  <2> QED BY <1>3, <2>1 DEF Frame, Overtaken
<1> QED BY <1>4, <1>5, <1>6, <1>8, <1>9, <1>10, <1>11, <1>12

LEMMA StreamBreaksKeeps ==
  ASSUME TasksInductive, NEW t \in Tasks, StreamBreaks(t)
  PROVE  TasksInductive'
<1> USE DEF TasksInductive
<1>1. /\ runs[t] = "live" /\ ~early[t] /\ ~Queued(t) /\ stage[t] # "ended" /\ ~(final[t] > 0)
  BY DEF StreamBreaks, OnePlace, RunsByStage
<1> DEFINE Frame ==
      /\ \A u \in Tasks \ {t} : runs'[u] = runs[u]
      /\ runs'[t] = "stuck"
      /\ UNCHANGED <<clock, final, stage, answer, early, stop, seen, ended, queue, fault, loop,
                     closed, asked, reader, told>>
<1>2. Frame
  BY DEF TypeOK, StreamBreaks
<1> HIDE DEF Frame
<1>3. TypeOK'
  BY DEF TypeOK, StreamBreaks
<1>4. RunsByStage'
  <2>1. ASSUME NEW u \in Tasks, u # t
        PROVE  /\ runs'[u] = runs[u] /\ final'[u] = final[u]
               /\ stage'[u] = stage[u] /\ answer'[u] = answer[u] /\ stop'[u] = stop[u]
    BY <1>2, <2>1 DEF Frame
  <2>2. /\ stage'[t] = stage[t] /\ answer'[t] = answer[t] /\ stop'[t] = stop[t]
        /\ final'[t] = final[t] /\ runs'[t] = "stuck"
    BY <1>2 DEF Frame
  <2> QED BY <1>1, <2>1, <2>2 DEF RunsByStage
<1>5. Numbers'
  <2>1. \A u \in Tasks : runs'[u] = "over" => runs[u] = "over"
    BY <1>2 DEF Frame
  <2> QED BY <1>2, <2>1 DEF Numbers, Frame
<1>6. updates' = updates \/ QueuedMore(Broken)
  <2>1. CASE Len(updates) < MaxUpdates
    BY <2>1, AppendQueues DEF StreamBreaks
  <2>2. CASE ~(Len(updates) < MaxUpdates)
    BY <2>2 DEF StreamBreaks
  <2> QED BY <2>1, <2>2
<1>7. \A u \in Tasks : Queued(u)' <=> Queued(u)
  <2>1. CASE updates' = updates
    BY <2>1 DEF Queued
  <2>2. CASE QueuedMore(Broken)
    BY <2>2 DEF QueuedMore
  <2> QED BY <1>6, <2>1, <2>2
<1>8. OnePlace'
  <2>1. \A u \in Tasks : Settled(u)' <=> (stage'[u] = "ended")
    BY <1>2 DEF Frame, Settled, OnePlace
  <2>2. \A u \in Tasks : early'[u] \/ Queued(u)' => runs'[u] = runs[u]
    BY <1>1, <1>2, <1>7 DEF Frame
  <2>3. \A i, j \in DOMAIN updates' : updates'[i] = updates'[j] /\ updates'[i] \in Tasks => i = j
    BY <1>6 DEF OnePlace, QueuedMore
  <2> QED BY <1>2, <1>7, <2>1, <2>2, <2>3 DEF OnePlace, Frame
<1>9. SomePlace'
  <2>1. fault = "none" => Queued(Broken)'
    <3>1. CASE fault = "none" /\ ~Queued(Broken)
      <4>1. Len(updates) < MaxUpdates
        BY <1>1, <3>1, RoomForFailure
      <4>2. updates' = Append(updates, Broken)
        BY <4>1 DEF StreamBreaks
      <4>3. QueuedMore(Broken)
        BY <4>2, AppendQueues
      <4> QED BY <4>3 DEF QueuedMore
    <3>2. CASE Queued(Broken)
      <4>1. CASE updates' = updates
        BY <3>2, <4>1 DEF Queued
      <4>2. CASE QueuedMore(Broken)
        BY <4>2 DEF QueuedMore
      <4> QED BY <1>6, <4>1, <4>2
    <3> QED BY <3>1, <3>2
  <2>2. \A u \in Tasks : runs'[u] = "over" => runs[u] = "over"
    BY <1>2 DEF Frame
  <2> QED BY <1>2, <1>7, <2>1, <2>2 DEF SomePlace, Frame
<1>10. Capacity'
  <2>1. Reserved' = Reserved
    BY <1>2 DEF Frame, Reserved, Pending, Active
  <2> QED BY <2>1 DEF Capacity
<1>11. InOrder' /\ WaiterWoken' /\ Overtaken'
  BY <1>2 DEF Frame, InOrder, WaiterWoken, Overtaken
<1> QED BY <1>3, <1>4, <1>5, <1>8, <1>9, <1>10, <1>11

(* The loop stops at an update it cannot settle, and the controller serves *)
(* no more: whatever the update was, its task keeps the stage it had.      *)
LEMMA RefusedTerminalKeeps ==
  ASSUME TasksInductive, QueuedLess, fault' # "none", fault' \in Faults, loop' = "over",
         queue' \in Seq(Tasks \union {Fault}), Len(queue') <= MaxTerminals,
         queue' # <<>> \/ queue' = queue, fault = "none" => queue' # <<>>,
         Sift(queue', Tasks) = Sift(queue, Tasks),
         UNCHANGED <<runs, clock, final, answer, closed, asked, reader, told, stage, early, stop, ended>>,
         \/ UNCHANGED seen
         \/ /\ Head(updates) \in Tasks /\ final[Head(updates)] > seen[Head(updates)]
            /\ stage[Head(updates)] \notin {"new", "posted", "answered"}
            /\ seen' = [seen EXCEPT ![Head(updates)] = final[Head(updates)]],
         Overtaken'
  PROVE  TasksInductive'
<1> USE DEF TasksInductive
<1>1. seen' \in [Tasks -> Nat]
  BY DEF TypeOK
<1>2. TypeOK'
  BY <1>1 DEF TypeOK, QueuedLess
<1>3. RunsByStage'
  BY DEF RunsByStage
<1>4. Numbers'
  <2>1. CASE UNCHANGED seen
    BY <2>1 DEF Numbers
  <2>2. CASE ~UNCHANGED seen
    <3> DEFINE h == Head(updates)
    <3>1. /\ h \in Tasks /\ stage[h] \notin {"new", "posted", "answered"}
          /\ seen'[h] = final[h] /\ \A u \in Tasks \ {h} : seen'[u] = seen[u]
      BY <2>2 DEF TypeOK
    <3> HIDE DEF h
    <3> QED BY <3>1 DEF Numbers
  <2> QED BY <2>1, <2>2
<1>5. OnePlace'
  <2>1. \A u \in Tasks : (Settled(u)' <=> Settled(u)) /\ (Queued(u)' => Queued(u) /\ u # Head(updates))
    BY DEF Settled, QueuedLess
  <2>2. \A u \in Tasks : early[u] \/ u # Head(updates) => seen'[u] = seen[u]
    <3>1. \A u \in Tasks : u = Head(updates) => ~early[u]
      BY DEF OnePlace, QueuedLess
    <3> QED BY <3>1 DEF TypeOK
  <2> QED BY <2>1, <2>2 DEF OnePlace, QueuedLess
<1>6. SomePlace'
  BY DEF SomePlace
<1>7. Capacity'
  <2>1. Reserved' = Reserved
    BY DEF Reserved, Pending, Active
  <2> QED BY <2>1 DEF Capacity
<1>8. InOrder' /\ WaiterWoken'
  BY DEF InOrder, WaiterWoken
<1> QED BY <1>2, <1>3, <1>4, <1>5, <1>6, <1>7, <1>8

LEMMA ConsumeTerminalKeeps ==
  ASSUME TasksInductive, ConsumeTerminal
  PROVE  TasksInductive'
<1> USE DEF TasksInductive
<1> DEFINE t == Head(updates)
<1>1. QueuedLess
  BY TailQueues DEF ConsumeTerminal
<1>2. UNCHANGED <<runs, clock, final, answer, closed, asked, reader, told>>
  BY DEF ConsumeTerminal
<1>3. CASE closed
  <2>1. loop' = "over" /\ UNCHANGED <<stage, early, stop, seen, ended, queue, fault>>
    BY <1>3 DEF ConsumeTerminal
  <2>2. fault # "none"
    BY <1>3 DEF SomePlace
  <2>3. Overtaken'
    BY <1>2, <2>1 DEF Overtaken
  <2> QED BY <1>1, <1>2, <2>1, <2>2, <2>3, RefusedTerminalKeeps DEF TypeOK
<1>4. CASE ~closed /\ t = Broken
  <2>1. loop' = "over" /\ UNCHANGED <<stage, early, stop, seen, ended>> /\ Fail("broken", queue)
    BY <1>4, TasksAssumption DEF ConsumeTerminal
  <2>2. FailsWith("broken")
    BY <2>1, FailKeeps
  <2>3. Overtaken'
    BY <1>2, <2>1, <2>2 DEF Overtaken, FailsWith
  <2> QED BY <1>1, <1>2, <2>1, <2>2, <2>3, RefusedTerminalKeeps DEF FailsWith
<1>5. CASE ~closed /\ t # Broken
  <2> HIDE DEF t
  <2>1. t \in Tasks /\ Queued(t)
    BY <1>1, <1>5 DEF QueuedLess, t
  <2>2. runs[t] = "over" /\ stage[t] # "ended" /\ ~early[t] /\ seen[t] # final[t] /\ final[t] > 0
    <3>1. runs[t] = "over" /\ stage[t] # "ended" /\ ~early[t] /\ seen[t] # final[t]
      BY <2>1 DEF OnePlace
    <3> QED BY <2>1, <3>1 DEF RunsByStage
  <2>3. final[t] \in Nat /\ seen[t] \in Nat
    BY <2>1 DEF TypeOK
  <2>4. CASE ~Fresh(t, final[t], 0)
    <3>1. loop' = "over" /\ UNCHANGED <<stage, early, stop, ended, seen>> /\ Fail("stale", queue)
      BY <1>5, <2>4 DEF ConsumeTerminal, t
    <3>2. FailsWith("stale")
      BY <3>1, FailKeeps
    <3>3. Overtaken'
      <4>1. final[t] < seen[t] /\ 0 < final[t]
        BY <2>2, <2>3, <2>4 DEF Fresh
      <4> QED BY <1>2, <2>1, <2>2, <3>1, <4>1 DEF Overtaken
    <3> QED BY <1>1, <1>2, <3>1, <3>2, <3>3, RefusedTerminalKeeps DEF FailsWith
  <2>5. CASE Fresh(t, final[t], 0)
    <3>1. final[t] > seen[t] /\ Saw(t, final[t])
      BY <1>5, <2>3, <2>5 DEF ConsumeTerminal, Fresh, t
    <3>2. seen' = [seen EXCEPT ![t] = final[t]]
      BY <3>1 DEF Saw
    <3>3. seen'[t] = final[t] /\ \A u \in Tasks \ {t} : seen'[u] = seen[u]
      BY <2>1, <3>2 DEF TypeOK
    <3>4. CASE t \in Pending
      <4>1. early' = [early EXCEPT ![t] = TRUE] /\ UNCHANGED <<stage, stop, ended, queue, fault, loop>>
        BY <1>5, <2>5, <3>4 DEF ConsumeTerminal, Active, Pending, t
      <4>2. early'[t] /\ \A u \in Tasks \ {t} : (early'[u] <=> early[u])
        BY <2>1, <4>1 DEF TypeOK
      <4>3. stage[t] \in Waiting
        BY <3>4 DEF Pending
      <4>4. TypeOK'
        BY <1>1, <1>2, <2>3, <3>2, <4>1 DEF TypeOK, QueuedLess
      <4>5. RunsByStage'
        BY <1>2, <4>1 DEF RunsByStage
      <4>6. Numbers'
        BY <1>2, <2>1, <3>3, <4>1, <4>2 DEF Numbers
      <4>7. \A u \in Tasks : Settled(u)' <=> Settled(u)
        BY <4>1 DEF Settled
      <4>8. \A u \in Tasks : Queued(u)' <=> (Queued(u) /\ u # t)
        BY <1>1 DEF QueuedLess, t
      <4>9. OnePlace'
        BY <1>1, <1>2, <2>2, <3>3, <4>1, <4>2, <4>3, <4>7, <4>8 DEF OnePlace, QueuedLess
      <4>10. SomePlace'
        <5>1. Queued(Broken) => Queued(Broken)'
          BY <1>1, <1>5 DEF QueuedLess, t
        <5> QED BY <1>2, <4>1, <4>2, <4>8, <5>1 DEF SomePlace
      <4>11. Capacity'
        <5>1. Reserved' = Reserved
          BY <4>1 DEF Reserved, Pending, Active
        <5> QED BY <5>1 DEF Capacity
      <4>12. InOrder' /\ WaiterWoken'
        BY <1>2, <4>1 DEF InOrder, WaiterWoken
      <4>13. Overtaken'
        BY <1>2, <2>3, <3>1, <3>3, <4>1 DEF Overtaken
      <4> QED BY <4>4, <4>5, <4>6, <4>9, <4>10, <4>11, <4>12, <4>13
    <3>5. CASE t \in Active /\ ~Full
      <4>1. Settle(t) /\ UNCHANGED <<early, fault, loop>>
            /\ stop' = [stop EXCEPT ![t] = IF @ \in {"accepted", "broken"} THEN "none" ELSE @]
        BY <1>5, <2>5, <3>5 DEF ConsumeTerminal, Active, Pending, t
      <4>2. /\ stage'[t] = "ended" /\ \A u \in Tasks \ {t} : stage'[u] = stage[u]
            /\ \A u \in Tasks \ {t} : stop'[u] = stop[u]
            /\ ended' \in Seq(Tasks) /\ queue' \in Seq(Tasks \union {Fault})
            /\ Len(queue') <= MaxTerminals /\ queue' # <<>>
        <5>1. queue \in Seq(Tasks \union {Fault}) /\ queue' = Append(queue, t) /\ Len(queue) < MaxTerminals
          BY <3>5, <4>1 DEF TypeOK, Settle, Full
        <5>2. Len(queue') = Len(queue) + 1 /\ Len(queue) \in Nat /\ queue' \in Seq(Tasks \union {Fault})
          BY <2>1, <5>1
        <5>3. queue' # <<>>
          BY <5>2
        <5>4. Len(queue') <= MaxTerminals
          BY <5>1, <5>2
        <5> QED BY <2>1, <4>1, <5>2, <5>3, <5>4 DEF TypeOK, Settle
      <4>3. SettledMore(t)
        BY <2>1, <2>2, <4>1, SettleSettles
      <4>4. TypeOK'
        <5>1. stage' \in [Tasks -> {"new", "active", "ended", "refused"} \union Waiting]
          BY <4>1 DEF TypeOK, Settle
        <5>2. stop' \in [Tasks -> {"none", "asked", "posted", "accepted", "broken"}]
          BY <4>1 DEF TypeOK
        <5>3. seen' \in [Tasks -> Nat]
          BY <2>3, <3>2 DEF TypeOK
        <5> QED BY <1>1, <1>2, <4>1, <4>2, <5>1, <5>2, <5>3 DEF TypeOK, QueuedLess
      <4>5. RunsByStage'
        <5>1. ASSUME NEW u \in Tasks, u # t
              PROVE  stage'[u] = stage[u] /\ stop'[u] = stop[u]
          BY <4>2, <5>1
        <5> QED BY <1>2, <2>2, <4>2, <5>1 DEF RunsByStage
      <4>6. Numbers'
        <5>1. ASSUME NEW u \in Tasks, u # t
              PROVE  stage'[u] = stage[u] /\ seen'[u] = seen[u] /\ early'[u] = early[u]
          BY <3>3, <4>1, <4>2, <5>1
        <5>2. seen'[t] = final[t] /\ stage'[t] = "ended"
          BY <3>3, <4>2
        <5> QED BY <1>2, <2>1, <5>1, <5>2 DEF Numbers
      <4>7. OnePlace'
        <5>1. \A u \in Tasks : Settled(u)' <=> (stage'[u] = "ended")
          BY <4>2, <4>3 DEF OnePlace, SettledMore
        <5>2. \A u \in Tasks : Queued(u)' <=> (Queued(u) /\ u # t)
          BY <1>1 DEF QueuedLess, t
        <5>3. \A u \in Tasks : early'[u] => /\ stage'[u] \in Waiting /\ runs'[u] = "over"
                                           /\ seen'[u] = final'[u]
          BY <1>2, <2>2, <3>3, <4>1, <4>2 DEF OnePlace
        <5>4. \A u \in Tasks : Queued(u)' => /\ runs'[u] = "over" /\ stage'[u] # "ended"
                                            /\ ~early'[u] /\ seen'[u] # final'[u]
          BY <1>2, <3>3, <4>1, <4>2, <5>2 DEF OnePlace
        <5> QED BY <1>1, <4>3, <5>1, <5>3, <5>4 DEF OnePlace, QueuedLess, SettledMore
      <4>8. SomePlace'
        <5>1. \A u \in Tasks : Queued(u) /\ u # t => Queued(u)'
          BY <1>1 DEF QueuedLess, t
        <5>2. Queued(Broken) => Queued(Broken)'
          BY <1>1, <1>5 DEF QueuedLess, t
        <5> QED BY <1>2, <4>1, <4>2, <5>1, <5>2 DEF SomePlace
      <4>9. Capacity'
        <5>1. Reserved' \subseteq Reserved
          BY <4>2 DEF Reserved, Pending, Active
        <5> QED BY <5>1, FewerReserved
      <4>10. InOrder'
        BY <1>2, <2>1, <4>1, SettleInOrder DEF TypeOK
      <4>11. WaiterWoken'
        BY <4>2 DEF WaiterWoken
      <4>12. Overtaken'
        BY <1>2, <2>3, <3>1, <3>3, <4>1, <4>2 DEF Overtaken
      <4> QED BY <4>4, <4>5, <4>6, <4>7, <4>8, <4>9, <4>10, <4>11, <4>12
    <3>6. CASE t \notin Pending /\ (t \in Active => Full)
      <4>1. PICK kind \in {"full", "contradicted"} :
              Fail(kind, queue) /\ loop' = "over" /\ UNCHANGED <<stage, early, stop, ended>>
        BY <1>5, <2>5, <3>6 DEF ConsumeTerminal, t
      <4>2. FailsWith(kind)
        BY <4>1, FailKeeps
      <4>3. Overtaken'
        BY <1>2, <2>3, <3>1, <3>3, <4>1, <4>2 DEF Overtaken, FailsWith
      <4>4. stage[t] \notin {"new", "posted", "answered"}
        <5>1. stage[t] \notin Waiting
          BY <2>1, <3>6 DEF Pending
        <5>2. stage[t] # "new"
          BY <2>1, <2>2 DEF RunsByStage
        <5> QED BY <5>1, <5>2
      <4> QED BY <1>1, <1>2, <2>1, <3>1, <3>2, <4>1, <4>2, <4>3, <4>4, RefusedTerminalKeeps DEF FailsWith, t
    <3> QED BY <3>4, <3>5, <3>6
  <2> QED BY <2>4, <2>5
<1> QED BY <1>3, <1>4, <1>5

-----------------------------------------------------------------------------
(* Cancel                                                                  *)

(* A step of a cancel operation that no event of the session comes with.   *)
LEMMA CancelStepKeeps ==
  ASSUME TasksInductive, NEW t \in Tasks,
         NEW s \in {"none", "asked", "posted", "accepted", "broken"},
         s = "none" \/ stage[t] \in {"active", "ended"},
         stop' = [stop EXCEPT ![t] = s], asked' \in 0..MaxOperations,
         UNCHANGED <<session, stage, answer, early, seen, ended, queue, fault,
                     loop, closed, reader, told>>
  PROVE  TasksInductive'
<1> USE DEF TasksInductive
<1>1. TypeOK'
  BY DEF TypeOK
<1>2. RunsByStage'
  BY DEF RunsByStage, TypeOK
<1>3. Numbers'
  BY DEF Numbers
<1>4. \A u \in Tasks \union {Broken} : (Settled(u)' <=> Settled(u)) /\ (Queued(u)' <=> Queued(u))
  BY DEF Settled, Queued
<1>5. OnePlace' /\ SomePlace'
  BY <1>4 DEF OnePlace, SomePlace
<1>6. Capacity'
  <2>1. Reserved' = Reserved
    BY DEF Reserved, Pending, Active
  <2> QED BY <2>1 DEF Capacity
<1>7. InOrder' /\ WaiterWoken' /\ Overtaken'
  BY DEF InOrder, WaiterWoken, Overtaken
<1> QED BY <1>1, <1>2, <1>3, <1>5, <1>6, <1>7

LEMMA RequestCancelKeeps ==
  ASSUME TasksInductive, NEW t \in Tasks, RequestCancel(t)
  PROVE  TasksInductive'
<1>1. asked' \in 0..MaxOperations
  BY DEF TasksInductive, TypeOK, RequestCancel
<1> QED BY <1>1, CancelStepKeeps DEF RequestCancel

LEMMA StopPostedKeeps ==
  ASSUME TasksInductive, NEW t \in Tasks, StopPosted(t)
  PROVE  TasksInductive'
<1>1. asked' \in 0..MaxOperations /\ stage[t] \in {"active", "ended"}
  BY DEF TasksInductive, TypeOK, StopPosted, RunsByStage
<1> QED BY <1>1, CancelStepKeeps DEF StopPosted

LEMMA StopBreaksKeeps ==
  ASSUME TasksInductive, NEW t \in Tasks, StopBreaks(t)
  PROVE  TasksInductive'
<1>1. asked' \in 0..MaxOperations
  BY DEF TasksInductive, TypeOK, StopBreaks
<1>2. Kept(t, "broken") \in {"none", "broken"} /\ (Kept(t, "broken") = "none" \/ stage[t] = "active")
  BY DEF Kept
<1> DEFINE s == Kept(t, "broken")
<1>3. stop' = [stop EXCEPT ![t] = s]
  BY DEF StopBreaks
<1> HIDE DEF s
<1> QED BY <1>1, <1>2, <1>3, CancelStepKeeps DEF StopBreaks, s

(* The answer to a cancel is newer than all that was said of its task, so  *)
(* the controller never refuses it; it may overtake the task's terminal.   *)
LEMMA StopSettlesKeeps ==
  ASSUME TasksInductive, NEW t \in Tasks, NEW accepted \in BOOLEAN, StopSettles(t, accepted)
  PROVE  TasksInductive'
<1> USE DEF TasksInductive
<1> DEFINE number == clock[t] + 1
           s == stop'[t]
           top == seen'[t]
<1>1. clock[t] \in Nat /\ seen[t] \in Nat /\ final[t] \in Nat /\ seen[t] <= clock[t] /\ final[t] <= clock[t]
  BY DEF TypeOK, Numbers
<1>2. Fresh(t, number, IF t \in ToSet(ended) THEN final[t] ELSE 0)
  BY <1>1 DEF Fresh
<1>3. stage[t] \in {"active", "ended"} /\ ~early[t]
  BY DEF StopSettles, RunsByStage, OnePlace
<1>4. UNCHANGED <<runs, final, updates, stage, answer, early, ended, queue, fault, loop, closed, asked, reader, told>>
  BY <1>2 DEF StopSettles
<1>5. clock' = [clock EXCEPT ![t] = number]
  BY DEF StopSettles
<1>6. /\ stop' = [stop EXCEPT ![t] = s]
      /\ s \in {"none", "accepted", "broken"}
  BY <1>2 DEF StopSettles, Kept, TypeOK
<1>7. /\ seen' = [seen EXCEPT ![t] = top]
      /\ top \in {seen[t], number}
  BY <1>1, <1>2 DEF StopSettles, Saw, TypeOK
<1> HIDE DEF s, top
<1>8. /\ clock'[t] = clock[t] + 1 /\ seen'[t] = top /\ stop'[t] = s
      /\ \A u \in Tasks \ {t} : clock'[u] = clock[u] /\ seen'[u] = seen[u] /\ stop'[u] = stop[u]
  BY <1>5, <1>6, <1>7 DEF TypeOK
<1>9. TypeOK'
  <2>1. clock' \in [Tasks -> Nat] /\ seen' \in [Tasks -> Nat]
    BY <1>1, <1>5, <1>7 DEF TypeOK
  <2>2. stop' \in [Tasks -> {"none", "asked", "posted", "accepted", "broken"}]
    BY <1>6 DEF TypeOK
  <2> QED BY <1>4, <2>1, <2>2 DEF TypeOK
<1>10. RunsByStage'
  <2>1. ASSUME NEW u \in Tasks, u # t PROVE stop'[u] = stop[u]
    BY <1>8, <2>1
  <2> QED BY <1>3, <1>4, <2>1 DEF RunsByStage
<1>11. Numbers'
  <2>1. ASSUME NEW u \in Tasks, u # t PROVE clock'[u] = clock[u] /\ seen'[u] = seen[u]
    BY <1>8, <2>1
  <2>2. seen'[t] <= clock'[t] /\ final[t] <= clock'[t]
    BY <1>1, <1>7, <1>8
  <2> QED BY <1>3, <1>4, <2>1, <2>2 DEF Numbers
<1>12. \A u \in Tasks \union {Broken} : (Settled(u)' <=> Settled(u)) /\ (Queued(u)' <=> Queued(u))
  BY <1>4 DEF Settled, Queued
<1>13. OnePlace'
  <2>1. Queued(t) => seen'[t] # final[t]
    BY <1>1, <1>7, <1>8 DEF OnePlace
  <2>2. \A u \in Tasks : u # t => seen'[u] = seen[u]
    BY <1>8
  <2> QED BY <1>3, <1>4, <1>12, <2>1, <2>2 DEF OnePlace
<1>14. SomePlace'
  BY <1>4, <1>12 DEF SomePlace
<1>15. Capacity'
  <2>1. Reserved' = Reserved
    BY <1>4 DEF Reserved, Pending, Active
  <2> QED BY <2>1 DEF Capacity
<1>16. InOrder' /\ WaiterWoken'
  BY <1>4 DEF InOrder, WaiterWoken
<1>17. Overtaken'
  <2>1. \A u \in Tasks : final[u] < seen[u] => final[u] < seen'[u]
    BY <1>1, <1>7, <1>8
  <2> QED BY <1>4, <2>1 DEF Overtaken
<1> QED BY <1>9, <1>10, <1>11, <1>13, <1>14, <1>15, <1>16, <1>17

-----------------------------------------------------------------------------
(* The reader, and close                                                   *)

(* What the reader, or a failure, changes: nothing of any task.            *)
LEMMA ReaderStepKeeps ==
  ASSUME TasksInductive,
         UNCHANGED <<session, stage, answer, early, stop, seen, ended, asked>>,
         fault' \in Faults, fault' = "none" => fault = "none" /\ ~closed',
         fault' = "stale" => fault = "stale",
         closed' \in BOOLEAN, loop' \in {"none", "running", "over"},
         reader' \in {"idle", "waiting", "failed"},
         told' \in Seq(Tasks), queue' \in Seq(Tasks \union {Fault}), Len(queue') <= MaxTerminals,
         InOrder', WaiterWoken'
  PROVE  TasksInductive'
<1> USE DEF TasksInductive
<1>1. TypeOK'
  BY DEF TypeOK
<1>2. RunsByStage' /\ Numbers'
  BY DEF RunsByStage, Numbers
<1>3. \A u \in Tasks \union {Broken} : (Settled(u)' <=> Settled(u)) /\ (Queued(u)' <=> Queued(u))
  BY DEF Settled, Queued
<1>4. OnePlace' /\ SomePlace'
  BY <1>3 DEF OnePlace, SomePlace
<1>5. Capacity'
  <2>1. Reserved' = Reserved
    BY DEF Reserved, Pending, Active
  <2> QED BY <2>1 DEF Capacity
<1>6. Overtaken'
  BY DEF Overtaken
<1> QED BY <1>1, <1>2, <1>4, <1>5, <1>6

LEMMA AskNextKeeps ==
  ASSUME TasksInductive, AskNext
  PROVE  TasksInductive'
<1> USE DEF TasksInductive
<1>1. UNCHANGED <<session, stage, answer, early, stop, seen, ended, queue, fault, closed, asked, told>>
  BY DEF AskNext
<1>2. loop' \in {"none", "running", "over"} /\ reader' \in {"idle", "waiting", "failed"}
  BY DEF AskNext, TypeOK
<1>3. InOrder'
  BY <1>1 DEF InOrder
<1>4. WaiterWoken'
  BY <1>1 DEF WaiterWoken, AskNext
<1>5. fault = "none" => ~closed
  BY DEF SomePlace
<1> QED BY <1>1, <1>2, <1>3, <1>4, <1>5, ReaderStepKeeps DEF TypeOK

LEMMA GetNextKeeps ==
  ASSUME TasksInductive, GetNext
  PROVE  TasksInductive'
<1> USE DEF TasksInductive
<1> DEFINE q == Tail(queue)
           h == Head(queue)
           S == Tasks \union {Fault}
<1>1. UNCHANGED <<session, stage, answer, early, stop, seen, ended, fault, loop, closed, asked>>
      /\ reader' \in {"idle", "failed"}
  BY DEF GetNext
<1>2. queue \in Seq(S) /\ queue # <<>> /\ q \in Seq(S) /\ h \in S /\ Len(q) = Len(queue) - 1
      /\ Len(q) \in Nat /\ Len(queue) \in Nat /\ Len(queue) <= MaxTerminals
  BY DEF TypeOK, GetNext
<1>3. Sift(queue, Tasks) = IF h \in Tasks THEN <<h>> \o Sift(q, Tasks) ELSE Sift(q, Tasks)
  <2> HIDE DEF S
  <2> QED BY <1>2, SiftHead
<1>4. WaiterWoken'
  BY <1>1 DEF WaiterWoken
<1>5. fault = "none" => ~closed
  BY DEF SomePlace
<1>6. CASE h = Fault
  <2>1. queue' = Append(q, Fault) /\ UNCHANGED told
    BY <1>6 DEF GetNext
  <2>2. h \notin Tasks
    BY <1>6
  <2>3. Sift(Append(q, Fault), Tasks) = Sift(q, Tasks)
    <3>1. Fault \in S /\ Fault \notin Tasks
      OBVIOUS
    <3> HIDE DEF q, S
    <3> QED BY <1>2, <3>1, SiftAppend
  <2>4. InOrder'
    BY <1>1, <1>3, <2>1, <2>2, <2>3 DEF InOrder
  <2>5. queue' \in Seq(S) /\ Len(queue') <= MaxTerminals
    BY <1>2, <2>1
  <2> QED BY <1>1, <1>4, <1>5, <2>1, <2>4, <2>5, ReaderStepKeeps DEF TypeOK
<1>7. CASE h # Fault
  <2>1. queue' = q /\ told' = Append(told, h) /\ h \in Tasks
    BY <1>2, <1>7 DEF GetNext
  <2>2. told \in Seq(Tasks) /\ Sift(q, Tasks) \in Seq(Tasks)
    <3>1. told \in Seq(Tasks) /\ S \intersect Tasks = Tasks
      BY DEF TypeOK
    <3> HIDE DEF q, S
    <3>2. Sift(q, Tasks) \in Seq(S \intersect Tasks)
      BY <1>2, SiftType
    <3> QED BY <3>1, <3>2
  <2>3. InOrder'
    <3> DEFINE r == Sift(q, Tasks)
    <3>1. told \o (<<h>> \o r) = ended /\ Sift(queue, Tasks)' = r
      BY <1>3, <2>1 DEF InOrder
    <3> HIDE DEF r, q, h
    <3>2. told \o (<<h>> \o r) = Append(told, h) \o r
      <4>1. told \in Seq(Tasks) /\ r \in Seq(Tasks) /\ h \in Tasks
        BY <2>1, <2>2 DEF r
      <4>2. Append(told, h) = told \o <<h>> /\ <<h>> \in Seq(Tasks)
        BY <4>1
      <4>3. told \o (<<h>> \o r) = (told \o <<h>>) \o r
        BY <4>1, <4>2
      <4> QED BY <4>2, <4>3
    <3> QED BY <1>1, <2>1, <3>1, <3>2 DEF InOrder
  <2>4. told' \in Seq(Tasks) /\ queue' \in Seq(S) /\ Len(queue') <= MaxTerminals
    BY <1>2, <2>1, <2>2
  <2> QED BY <1>1, <1>4, <1>5, <2>3, <2>4, ReaderStepKeeps DEF TypeOK
<1> QED BY <1>6, <1>7

LEMMA CloseKeeps ==
  ASSUME TasksInductive, Close
  PROVE  TasksInductive'
<1> USE DEF TasksInductive
<1>1. FailsWith("closed")
  BY FailKeeps DEF Close
<1>2. UNCHANGED <<session, stage, answer, early, stop, seen, ended, loop, asked, reader, told>> /\ closed' = TRUE
  BY DEF Close
<1>3. InOrder' /\ WaiterWoken'
  BY <1>1, <1>2 DEF InOrder, WaiterWoken, FailsWith
<1> QED BY <1>1, <1>2, <1>3, ReaderStepKeeps DEF TypeOK, FailsWith

LEMMA CloseDrainsKeeps ==
  ASSUME TasksInductive, CloseDrains
  PROVE  TasksInductive'
<1> USE DEF TasksInductive
<1>1. fault # "none"
  BY DEF CloseDrains, SomePlace
<1> DEFINE Frame ==
      /\ UNCHANGED <<session, answer, early, seen, ended, queue, fault, closed, asked, reader, told>>
      /\ \A u \in Tasks : stage'[u] = IF stage[u] \in {"posted", "answered"} THEN "lost" ELSE stage[u]
      /\ \A u \in Tasks : stop'[u] = stop[u] \/ stop'[u] = "none"
                         \/ (stop'[u] = "broken" /\ stage[u] = "active")
<1>2. Frame
  BY DEF CloseDrains, Kept
<1> HIDE DEF Frame
<1>3. TypeOK'
  <2>1. stage' \in [Tasks -> {"new", "active", "ended", "refused"} \union Waiting]
    BY DEF CloseDrains, TypeOK
  <2>2. stop' \in [Tasks -> {"none", "asked", "posted", "accepted", "broken"}]
    BY DEF CloseDrains, TypeOK, Kept
  <2>3. loop' = "over"
    BY DEF CloseDrains
  <2> QED BY <1>2, <2>1, <2>2, <2>3 DEF TypeOK, Frame
<1>4. RunsByStage'
  BY <1>2 DEF RunsByStage, Frame
<1>5. Numbers'
  BY <1>2 DEF Numbers, Frame
<1>6. \A u \in Tasks \union {Broken} : (Settled(u)' <=> Settled(u)) /\ (Queued(u)' <=> Queued(u))
  BY <1>2 DEF Frame, Settled, Queued
<1>7. OnePlace'
  BY <1>2, <1>6 DEF OnePlace, Frame
<1>8. SomePlace' /\ InOrder' /\ WaiterWoken'
  BY <1>1, <1>2 DEF SomePlace, InOrder, WaiterWoken, Frame
<1>9. Capacity'
  <2>1. Reserved' = Reserved
    BY <1>2 DEF Frame, Reserved, Pending, Active
  <2> QED BY <2>1 DEF Capacity
<1>10. Overtaken'
  BY <1>2 DEF Frame, Overtaken
<1> QED BY <1>3, <1>4, <1>5, <1>7, <1>8, <1>9, <1>10

-----------------------------------------------------------------------------
(* The theorems                                                            *)

LEMMA InitInductive ==
  ASSUME Init
  PROVE  TasksInductive
<1>1. TypeOK
  <2>1. /\ updates \in Seq(Tasks \union {Broken}) /\ Len(updates) <= MaxUpdates
        /\ ended \in Seq(Tasks) /\ told \in Seq(Tasks)
        /\ queue \in Seq(Tasks \union {Fault}) /\ Len(queue) <= MaxTerminals
    BY DEF Init
  <2>2. /\ runs \in [Tasks -> {"none", "live", "over", "stuck"}]
        /\ clock \in [Tasks -> Nat] /\ final \in [Tasks -> Nat] /\ seen \in [Tasks -> Nat]
        /\ stage \in [Tasks -> {"new", "active", "ended", "refused"} \union Waiting]
        /\ answer \in [Tasks -> [accepted : BOOLEAN, number : Nat]]
        /\ early \in [Tasks -> BOOLEAN]
        /\ stop \in [Tasks -> {"none", "asked", "posted", "accepted", "broken"}]
    BY DEF Init
  <2>3. /\ fault \in Faults /\ loop \in {"none", "running", "over"} /\ closed \in BOOLEAN
        /\ reader \in {"idle", "waiting", "failed"} /\ asked \in 0..MaxOperations
    <3>1. MaxOperations \in Nat /\ 0 \in 0..MaxOperations
      OBVIOUS
    <3> QED BY <3>1 DEF Init
  <2> QED BY <2>1, <2>2, <2>3 DEF TypeOK
<1>2. RunsByStage /\ Numbers /\ SomePlace /\ Overtaken /\ WaiterWoken
  BY DEF Init, RunsByStage, Numbers, SomePlace, Overtaken, WaiterWoken
<1>3. OnePlace
  <2>1. \A u \in Tasks : ~Settled(u) /\ ~Queued(u)
    BY DEF Init, Settled, Queued
  <2> QED BY <2>1 DEF Init, OnePlace
<1>4. Capacity
  <2>1. Reserved = {}
    BY DEF Init, Reserved, Pending, Active
  <2> QED BY <2>1, FS_EmptySet DEF Capacity
<1>5. InOrder
  <2>1. Sift(<<>>, Tasks) = <<>>
    BY SiftEmpty
  <2> QED BY <2>1 DEF Init, InOrder
<1> QED BY <1>1, <1>2, <1>3, <1>4, <1>5 DEF TasksInductive

LEMMA StutterKeeps ==
  ASSUME TasksInductive, UNCHANGED vars
  PROVE  TasksInductive'
<1>1. \A u \in Tasks \union {Broken} : (Settled(u)' <=> Settled(u)) /\ (Queued(u)' <=> Queued(u))
  BY DEF vars, Settled, Queued
<1>2. Reserved' = Reserved
  BY DEF vars, Reserved, Pending, Active
<1>3. TypeOK' /\ RunsByStage' /\ Numbers' /\ Overtaken' /\ WaiterWoken' /\ InOrder'
  BY DEF TasksInductive, vars, TypeOK, RunsByStage, Numbers, Overtaken, WaiterWoken, InOrder
<1>4. OnePlace' /\ SomePlace' /\ Capacity'
  BY <1>1, <1>2 DEF TasksInductive, vars, OnePlace, SomePlace, Capacity
<1> QED BY <1>3, <1>4 DEF TasksInductive

(* The inductive invariant holds: the type invariant, the place of every   *)
(* terminal, the numbers, the reservations and the order of what is told.  *)
THEOREM TasksInvariant == Spec => []TasksInductive
<1>1. Init => TasksInductive
  BY InitInductive
<1>2. ASSUME TasksInductive, [Next]_vars PROVE TasksInductive'
  <2>1. ASSUME NEW t \in Tasks, Step(t) PROVE TasksInductive'
    <3>1. CASE Dispatch(t)
      BY <1>2, <3>1, DispatchKeeps
    <3>2. CASE DispatchBreaks(t)
      BY <1>2, <3>2, DispatchBreaksKeeps
    <3>3. CASE SettleDispatch(t)
      BY <1>2, <3>3, SettleDispatchKeeps
    <3>4. ASSUME NEW a \in BOOLEAN, HermesAnswers(t, a) PROVE TasksInductive'
      BY <1>2, <3>4, HermesAnswersKeeps
    <3>5. ASSUME NEW a \in BOOLEAN, StopSettles(t, a) PROVE TasksInductive'
      BY <1>2, <3>5, StopSettlesKeeps
    <3>6. CASE RunEnds(t)
      BY <1>2, <3>6, RunEndsKeeps
    <3>7. CASE StreamBreaks(t)
      BY <1>2, <3>7, StreamBreaksKeeps
    <3>8. CASE RequestCancel(t)
      BY <1>2, <3>8, RequestCancelKeeps
    <3>9. CASE StopPosted(t)
      BY <1>2, <3>9, StopPostedKeeps
    <3>10. CASE StopBreaks(t)
      BY <1>2, <3>10, StopBreaksKeeps
    <3> QED BY <2>1, <3>1, <3>2, <3>3, <3>4, <3>5, <3>6, <3>7, <3>8, <3>9, <3>10 DEF Step
  <2>2. CASE ConsumeTerminal
    BY <1>2, <2>2, ConsumeTerminalKeeps
  <2>3. CASE AskNext
    BY <1>2, <2>3, AskNextKeeps
  <2>4. CASE GetNext
    BY <1>2, <2>4, GetNextKeeps
  <2>5. CASE Close
    BY <1>2, <2>5, CloseKeeps
  <2>6. CASE CloseDrains
    BY <1>2, <2>6, CloseDrainsKeeps
  <2>7. CASE UNCHANGED vars
    BY <1>2, <2>7, StutterKeeps
  <2> QED BY <1>2, <2>1, <2>2, <2>3, <2>4, <2>5, <2>6, <2>7 DEF Next
<1> QED BY <1>1, <1>2, PTL DEF Spec

(* The director that waits is always woken by a failure or a close.        *)
THEOREM DirectorIsWoken == Spec => []WaiterWoken
<1>1. TasksInductive => WaiterWoken
  BY DEF TasksInductive
<1> QED BY <1>1, TasksInvariant, PTL

(* Of all reorderings only a cancel that overtakes a terminal fails the    *)
(* controller.                                                             *)
THEOREM OnlyCancelsFail == Spec => []OnlyCancelsOvertake
<1>1. ASSUME TasksInductive PROVE OnlyCancelsOvertake
  <2>1. \A t \in Tasks : t \in ToSet(ended) => stage[t] = "ended"
    BY <1>1 DEF TasksInductive, OnePlace, Settled, ToSet
  <2> QED BY <1>1, <2>1 DEF TasksInductive, Overtaken, OnlyCancelsOvertake
<1> QED BY <1>1, TasksInvariant, PTL

(* The places at which an injective part of a sequence holds a value: one  *)
(* if it holds it, none otherwise.                                         *)
LEMMA PlacesOf ==
  ASSUME NEW s, NEW x, \A i, j \in DOMAIN s : s[i] = x /\ s[j] = x => i = j
  PROVE  Cardinality({i \in DOMAIN s : s[i] = x}) = IF \E i \in DOMAIN s : s[i] = x THEN 1 ELSE 0
<1>1. CASE \E i \in DOMAIN s : s[i] = x
  <2>1. PICK i \in DOMAIN s : s[i] = x
    BY <1>1
  <2>2. {j \in DOMAIN s : s[j] = x} = {i}
    BY <2>1
  <2> QED BY <1>1, <2>2, FS_Singleton
<1>2. CASE ~ \E i \in DOMAIN s : s[i] = x
  <2>1. {j \in DOMAIN s : s[j] = x} = {}
    BY <1>2
  <2> QED BY <1>2, <2>1, FS_EmptySet
<1> QED BY <1>1, <1>2

(* No terminal is lost, repeated or reordered on its way to the director.  *)
THEOREM TerminalsAreKept == Spec => []TerminalsKept
<1>1. ASSUME TasksInductive PROVE TerminalsKept
  <2> USE <1>1 DEF TasksInductive
  <2>1. ASSUME fault = "none", NEW t \in Tasks, runs[t] = "over"
        PROVE  Cardinality({i \in DOMAIN updates : updates[i] = t})
                 + Cardinality({i \in DOMAIN ended : ended[i] = t})
                 + (IF early[t] THEN 1 ELSE 0) = 1
    <3>1. Cardinality({i \in DOMAIN updates : updates[i] = t}) = IF Queued(t) THEN 1 ELSE 0
      <4>1. \A i, j \in DOMAIN updates : updates[i] = t /\ updates[j] = t => i = j
        BY DEF OnePlace
      <4> QED BY <4>1, PlacesOf DEF Queued
    <3>2. Cardinality({i \in DOMAIN ended : ended[i] = t}) = IF Settled(t) THEN 1 ELSE 0
      BY PlacesOf DEF OnePlace, Settled
    <3>3. Queued(t) \/ early[t] \/ Settled(t)
      BY <2>1 DEF SomePlace, OnePlace
    <3>4. ~(Queued(t) /\ early[t]) /\ ~(Queued(t) /\ Settled(t)) /\ ~(early[t] /\ Settled(t))
      BY DEF OnePlace
    <3> QED BY <3>1, <3>2, <3>3, <3>4
  <2>2. ASSUME fault = "none", NEW t \in Tasks, runs[t] = "stuck" PROVE Broken \in ToSet(updates)
    BY <2>2 DEF SomePlace, Queued, ToSet
  <2> QED BY <2>1, <2>2 DEF TerminalsKept, InOrder
<1> QED BY <1>1, TasksInvariant, PTL

(* The store never holds more reservations than max_active_tasks.          *)
THEOREM ReservationsBounded ==
  Spec => [](Cardinality({t \in Tasks : stage[t] \in Waiting \union {"active"}}) <= MaxActive)
<1>1. TasksInductive => Cardinality({t \in Tasks : stage[t] \in Waiting \union {"active"}}) <= MaxActive
  <2>1. {t \in Tasks : stage[t] \in Waiting \union {"active"}} = Reserved
    BY DEF Reserved, Pending, Active
  <2> QED BY <2>1 DEF TasksInductive, Capacity
<1> QED BY <1>1, TasksInvariant, PTL
=============================================================================
