---------------------------- MODULE SpeechProofs ----------------------------
(***************************************************************************)
(* Theorems about Speech, for every set of turns, replays, commands and    *)
(* stops and every length of a reply: its inductive invariant, and the     *)
(* safety properties that follow from it.  The floor comes first, for      *)
(* every action; then the words and the refusals, the rows, and what is    *)
(* heard of an answer, each from the part before.                          *)
(***************************************************************************)
EXTENDS SpeechInduction, SubsequenceProofs

USE SpeechAssumption

-----------------------------------------------------------------------------
(* Who is who.                                                             *)
LEMMA Names ==
  /\ Turns \subseteq Owners /\ Replays \subseteq Owners /\ Owners \subseteq Callers
  /\ NoOne \notin Owners /\ Close \notin Owners /\ Close \in Callers
  /\ \A c \in Commands \union Stops : c \notin Owners /\ c \in Callers /\ c # Close
  /\ \A o \in Owners : o \notin Commands
  /\ \A o \in Owners : (o \in Turns /\ o \notin Replays) \/ (o \in Replays /\ o \notin Turns)
  BY DEF SpeechAssumption, Owners, Callers

USE DEF calls, floor, work, cleanup, reply, context

-----------------------------------------------------------------------------
(* The line.                                                               *)

(* Who joins the line is behind everybody in it.                           *)
LEMMA JoinsLine ==
  ASSUME TypeOK, LineHeld, NEW c \in Callers, ~Waits(c),
         NEW stage \in {"settling", "stopping", "unwinding"}, Wait(c, stage)
  PROVE  /\ LineHeld' /\ line' \in Seq(Callers)
         /\ \A p, q : Ahead(p, q) => Ahead(p, q)'
         /\ \A p \in Callers : Waits(p) => Ahead(p, c)'
<1> DEFINE n == Len(line)
<1>1. /\ line \in Seq(Callers) /\ n \in Nat /\ DOMAIN line = 1..n
      /\ line' = Append(line, c) /\ line' \in Seq(Callers) /\ DOMAIN line' = 1..(n + 1)
      /\ line'[n + 1] = c /\ \A i \in 1..n : line'[i] = line[i]
  BY DEF TypeOK, Wait
<1> HIDE DEF n
<1>2. /\ \A d \in Callers : d # c => call'[d] = call[d]
      /\ call'[c] = stage
  BY DEF TypeOK, Wait
<1>3. \A i \in 1..n : line[i] # c
  BY <1>1 DEF LineHeld
<1>4. \A i, j \in DOMAIN line' : line'[i] = line'[j] => i = j
  <2>1. \A i \in DOMAIN line' : i \in 1..n \/ i = n + 1
    BY <1>1
  <2>2. n + 1 \notin 1..n
    BY <1>1
  <2> QED BY <1>1, <1>3, <2>1, <2>2 DEF LineHeld
<1>5. \A d \in Callers : Waits(d)' <=> \E i \in DOMAIN line' : line'[i] = d
  <2> SUFFICES ASSUME NEW d \in Callers PROVE Waits(d)' <=> \E i \in DOMAIN line' : line'[i] = d
    OBVIOUS
  <2>1. CASE d = c
    <3>1. n + 1 \in DOMAIN line'
      BY <1>1
    <3> QED BY <1>1, <1>2, <2>1, <3>1 DEF Waits
  <2>2. CASE d # c
    <3>1. Waits(d)' <=> Waits(d)
      BY <1>2, <2>2 DEF Waits
    <3>2. (\E i \in DOMAIN line' : line'[i] = d) <=> \E i \in DOMAIN line : line[i] = d
      <4>1. \A i \in DOMAIN line' : i \in 1..n \/ i = n + 1
        BY <1>1
      <4>2. \A i \in 1..n : i \in DOMAIN line'
        BY <1>1
      <4> QED BY <1>1, <2>2, <4>1, <4>2
    <3> QED BY <3>1, <3>2 DEF LineHeld
  <2> QED BY <2>1, <2>2
<1>6. \A i \in 1..n : i \in DOMAIN line' /\ i < n + 1
  BY <1>1
<1>7. \A p, q : Ahead(p, q) => Ahead(p, q)'
  BY <1>1, <1>6 DEF Ahead
<1>8. ASSUME NEW p \in Callers, Waits(p) PROVE Ahead(p, c)'
  <2>1. PICK i \in 1..n : line[i] = p
    BY <1>1, <1>8 DEF LineHeld
  <2>2. n + 1 \in DOMAIN line'
    BY <1>1
  <2> QED BY <1>1, <1>6, <2>1, <2>2 DEF Ahead
<1> QED BY <1>1, <1>4, <1>5, <1>7, <1>8 DEF LineHeld

(* Who leaves it had nobody ahead.                                         *)
LEMMA LeavesLine ==
  ASSUME TypeOK, LineHeld, NEW c \in Callers, Released(c),
         NEW how, how \notin {"settling", "stopping", "unwinding"},
         call' = [call EXCEPT ![c] = how]
  PROVE  /\ LineHeld' /\ line' \in Seq(Callers)
         /\ \A p, q : p # c /\ Ahead(p, q) => Ahead(p, q)'
         /\ \A p : ~Ahead(p, c)
<1> DEFINE n == Len(line)
<1>1. /\ line \in Seq(Callers) /\ n \in Nat \ {0} /\ DOMAIN line = 1..n /\ line[1] = c
      /\ line' = Tail(line) /\ line' \in Seq(Callers) /\ DOMAIN line' = 1..(n - 1)
      /\ \A i \in 1..(n - 1) : line'[i] = line[i + 1]
  BY DEF TypeOK, Released
<1> HIDE DEF n
<1>2. /\ \A d \in Callers : d # c => call'[d] = call[d]
      /\ call'[c] = how
  BY DEF TypeOK
<1>3. \A i \in 1..n : i # 1 => line[i] # c
  <2>1. 1 \in 1..n
    BY <1>1
  <2> QED BY <1>1, <2>1 DEF LineHeld
<1>4. /\ \A i \in 1..(n - 1) : i + 1 \in 1..n /\ i + 1 # 1
      /\ \A i \in 1..n : i # 1 => i - 1 \in 1..(n - 1) /\ (i - 1) + 1 = i
  BY <1>1
<1>5. \A i, j \in DOMAIN line' : line'[i] = line'[j] => i = j
  <2> SUFFICES ASSUME NEW i \in 1..(n - 1), NEW j \in 1..(n - 1), line'[i] = line'[j] PROVE i = j
    BY <1>1
  <2>1. line[i + 1] = line[j + 1]
    BY <1>1
  <2>2. i + 1 = j + 1
    BY <1>1, <1>4, <2>1 DEF LineHeld
  <2> QED BY <2>2
<1>6. \A d \in Callers : Waits(d)' <=> \E i \in DOMAIN line' : line'[i] = d
  <2> SUFFICES ASSUME NEW d \in Callers PROVE Waits(d)' <=> \E i \in DOMAIN line' : line'[i] = d
    OBVIOUS
  <2>1. CASE d = c
    <3>1. \A i \in 1..(n - 1) : line'[i] # c
      BY <1>1, <1>3, <1>4
    <3> QED BY <1>1, <1>2, <2>1, <3>1 DEF Waits
  <2>2. CASE d # c
    <3>1. Waits(d)' <=> Waits(d)
      BY <1>2, <2>2 DEF Waits
    <3>2. ASSUME NEW i \in 1..(n - 1), line'[i] = d PROVE \E k \in DOMAIN line : line[k] = d
      BY <1>1, <1>4, <3>2
    <3>3. ASSUME NEW i \in 1..n, line[i] = d PROVE \E k \in DOMAIN line' : line'[k] = d
      <4>1. i # 1
        BY <1>1, <2>2, <3>3
      <4>2. i - 1 \in 1..(n - 1) /\ line'[i - 1] = line[(i - 1) + 1] /\ (i - 1) + 1 = i
        BY <1>1, <1>4, <4>1
      <4> QED BY <1>1, <3>3, <4>2
    <3> QED BY <1>1, <3>1, <3>2, <3>3 DEF LineHeld
  <2> QED BY <2>1, <2>2
<1>7. ASSUME NEW p, NEW q, p # c, Ahead(p, q) PROVE Ahead(p, q)'
  <2>1. PICK i \in 1..n, j \in 1..n : i < j /\ line[i] = p /\ line[j] = q
    BY <1>1, <1>7 DEF Ahead
  <2>2. i # 1 /\ j # 1 /\ i - 1 < j - 1
    BY <1>1, <1>7, <2>1
  <2>3. i - 1 \in DOMAIN line' /\ j - 1 \in DOMAIN line' /\ line'[i - 1] = p /\ line'[j - 1] = q
    BY <1>1, <1>4, <2>1, <2>2
  <2> QED BY <2>2, <2>3 DEF Ahead
<1>8. ASSUME NEW p, Ahead(p, c) PROVE FALSE
  <2>1. PICK i \in 1..n, j \in 1..n : i < j /\ line[i] = p /\ line[j] = c
    BY <1>1, <1>8 DEF Ahead
  <2>2. j # 1
    BY <2>1
  <2> QED BY <1>3, <2>1, <2>2
<1> QED BY <1>1, <1>5, <1>6, <1>7, <1>8 DEF LineHeld

(* Nobody joins it or leaves it.                                           *)
LEMMA LineStays ==
  ASSUME LineHeld, line' = line, \A c \in Callers : Waits(c)' <=> Waits(c)
  PROVE  LineHeld' /\ \A p, q : Ahead(p, q)' <=> Ahead(p, q)
  BY DEF LineHeld, Ahead

-----------------------------------------------------------------------------
(* The floor, step by step.                                                *)

(* A revoked owner's producer does not start and its consumer does not go  *)
(* on; nobody else is touched.                                             *)
LEMMA Revokes ==
  ASSUME TypeOK, FloorHeld, Revoke
  PROVE  /\ active' = NoOne
         /\ prod' \in [Owners -> {"none", "ready", "running", "ended", "failed"}]
         /\ cons' \in [Owners -> {"none", "ready", "next", "playing", "cleanup", "spoken", "broken"}]
         /\ tidy' \in [Owners -> {"none", "going", "done", "failed"}]
         /\ bad' \subseteq Owners /\ late' \subseteq Owners
         /\ \A o \in Owners : o # active =>
              prod'[o] = prod[o] /\ cons'[o] = cons[o] /\ tidy'[o] = tidy[o]
         /\ \A o \in Owners : o = active =>
              /\ prod'[o] = IF prod[o] = "ready" THEN "ended" ELSE prod[o]
              /\ cons'[o] = IF cons[o] \in {"ready", "cleanup"} THEN "broken" ELSE cons[o]
              /\ tidy'[o] = "going"
<1>1. CASE active = NoOne
  BY <1>1, Names DEF Revoke, TypeOK
<1>2. CASE active # NoOne
  <2>1. active \in Owners
    BY <1>2 DEF TypeOK
  <2>2. /\ active' = NoOne
        /\ prod' = [prod EXCEPT ![active] = IF @ = "ready" THEN "ended" ELSE @]
        /\ cons' = [cons EXCEPT ![active] = IF @ \in {"ready", "cleanup"} THEN "broken" ELSE @]
        /\ tidy' = [tidy EXCEPT ![active] = "going"]
        /\ bad' \subseteq Owners /\ late' \subseteq Owners
    BY <1>2, <2>1 DEF Revoke, CancelConsumer, TypeOK
  <2> QED BY <2>1, <2>2 DEF TypeOK
<1> QED BY <1>1, <1>2

(* A caller that takes the floor away waits in the line.                   *)
LEMMA TakesFloor ==
  ASSUME TypeOK, FloorHeld, OneAtATime, Revoke,
         NEW c \in Callers, NEW stage \in {"settling", "stopping", "unwinding"}, Wait(c, stage),
         \/ c \in Owners /\ stage = "settling" /\ call[c] = "idle"
         \/ c \in Owners /\ stage = "unwinding" /\ call[c] = "speaking" /\ cons[c] = "broken"
         \/ c \notin Owners /\ call[c] \in {"idle", "again"} /\ stage # "unwinding",
         (c \in Owners /\ current' = c) \/ (c \notin Owners /\ current' \in {active, NoOne}),
         script' \in [Owners -> Seq(Segment)],
         \A o \in Owners : script'[o] # script[o] => o = c /\ c \notin Turns,
         c \in Turns => script'[c] = script[c],
         UNCHANGED <<made, retained>>
  PROVE  FloorHeld' /\ OneAtATime'
<1>0. /\ LineHeld /\ ActiveHeld /\ DrainHeld /\ LatestWaits
      /\ \A o \in Owners : StageHeld(o) /\ RevokedHeld(o)
  BY DEF FloorHeld
<1>1. /\ active' = NoOne
      /\ \A o \in Owners : o # active =>
           prod'[o] = prod[o] /\ cons'[o] = cons[o] /\ tidy'[o] = tidy[o]
      /\ \A o \in Owners : o = active =>
           /\ prod'[o] = IF prod[o] = "ready" THEN "ended" ELSE prod[o]
           /\ cons'[o] = IF cons[o] \in {"ready", "cleanup"} THEN "broken" ELSE cons[o]
           /\ tidy'[o] = "going"
  BY Revokes
<1>2. /\ \A d \in Callers : d # c => call'[d] = call[d]
      /\ call'[c] = stage /\ ~Waits(c)
  BY DEF TypeOK, Wait, Waits
<1>3. /\ LineHeld' /\ (\A p, q : Ahead(p, q) => Ahead(p, q)')
      /\ \A p \in Callers : Waits(p) => Ahead(p, c)'
  BY <1>0, <1>2, JoinsLine
<1>4. ActiveHeld'
  BY <1>1 DEF ActiveHeld
<1>5. DrainHeld'
  <2> SUFFICES ASSUME Draining' PROVE Cleanups' = {} /\ \A o \in Owners : ~Live(o)'
    BY DEF DrainHeld
  <2>1. PICK d \in Owners : call'[d] = "draining"
    BY DEF Draining
  <2>2. d # c /\ call[d] = "draining"
    BY <1>2, <2>1, Names
  <2>3. active = NoOne
    BY <1>0, <2>2 DEF ActiveHeld
  <2>4. Cleanups = {} /\ \A o \in Owners : ~Live(o)
    BY <1>0, <2>2 DEF DrainHeld, Draining
  <2>5. \A o \in Owners : cons'[o] = cons[o] /\ tidy'[o] = tidy[o]
    BY <1>1, <2>3, Names
  <2> QED BY <2>4, <2>5 DEF Cleanups, Live
<1>6. LatestWaits'
  <2> SUFFICES ASSUME NEW o \in Owners, NEW p \in Owners, current' = o,
                      call'[o] \in {"settling", "draining"}, p # o, call'[p] = "settling"
               PROVE  Ahead(p, o)'
    BY DEF LatestWaits
  <2>1. o = c
    <3>1. SUFFICES ASSUME o # c PROVE FALSE
      OBVIOUS
    <3>2. o = active
      BY <3>1, Names
    <3> QED BY <1>0, <1>2, <3>1, <3>2, Names DEF ActiveHeld
  <2>2. call[p] = "settling"
    BY <1>2, <2>1, Names
  <2> QED BY <1>3, <2>1, <2>2, Names DEF Waits
<1>7. ASSUME NEW o \in Owners PROVE StageHeld(o)'
  <2>1. StageHeld(o) /\ o \in Callers /\ (o = active => call[o] = "speaking" /\ o # NoOne)
    BY <1>0, Names DEF ActiveHeld
  <2>2. made'[o] = made[o] /\ (script'[o] # script[o] => o = c /\ c \notin Turns)
    OBVIOUS
  <2>3. CASE o = c
    <3>1. current' = o /\ (o \in Turns => script'[o] = script[o])
      BY <2>3
    <3>2. CASE stage = "settling" /\ call[o] = "idle"
      BY <1>1, <1>2, <2>1, <2>2, <2>3, <3>1, <3>2 DEF StageHeld, Unopened, Over, Revoked
    <3>3. CASE stage = "unwinding" /\ call[o] = "speaking" /\ cons[o] = "broken"
      BY <1>1, <1>2, <2>1, <2>2, <2>3, <3>1, <3>3 DEF StageHeld, Unopened, Over, Revoked
    <3> QED BY <2>3, <3>2, <3>3
  <2>4. CASE o # c
    <3>1. call'[o] = call[o] /\ script'[o] = script[o]
      BY <1>2, <2>1, <2>2, <2>4
    <3>2. call[o] = "idle" => current' # o
      BY <2>1, <2>4, Names
    <3>3. CASE o = active
      BY <1>1, <2>1, <2>2, <3>1, <3>2, <3>3 DEF StageHeld, Unopened, Over, Revoked
    <3>4. CASE o # active
      BY <1>1, <2>1, <2>2, <3>1, <3>2, <3>4 DEF StageHeld, Unopened, Over, Revoked
    <3> QED BY <3>3, <3>4
  <2> QED BY <2>3, <2>4
<1>8. ASSUME NEW o \in Owners PROVE RevokedHeld(o)'
  <2>1. RevokedHeld(o) /\ (o = active => tidy[o] = "none")
    BY <1>0, Names DEF ActiveHeld
  <2> QED BY <1>1, <2>1 DEF RevokedHeld, Live
<1>9. OneAtATime'
  <2> SUFFICES ASSUME NEW o \in Owners, NEW p \in Owners, o # p
               PROVE  /\ ~(prod'[o] = "running" /\ prod'[p] \in {"ready", "running"})
                      /\ ~(cons'[o] \in {"ready", "next", "playing"} /\ cons'[p] = "playing")
    BY DEF OneAtATime
  <2>1. /\ ~(prod[o] = "running" /\ prod[p] \in {"ready", "running"})
        /\ ~(cons[o] \in {"ready", "next", "playing"} /\ cons[p] = "playing")
    BY DEF OneAtATime
  <2> QED BY <1>1, <2>1
<1> QED BY <1>0, <1>3, <1>4, <1>5, <1>6, <1>7, <1>8, <1>9 DEF FloorHeld

FloorInd == TypeOK /\ FloorHeld /\ OneAtATime

LEMMA RespondFloor ==
  ASSUME FloorInd, NEW t \in Turns, Respond(t)
  PROVE  FloorHeld' /\ OneAtATime'
<1>1. /\ t \in Callers /\ t \in Owners /\ Revoke /\ Wait(t, "settling") /\ current' = t
      /\ call[t] = "idle" /\ UNCHANGED <<script, made, retained>>
  BY Names DEF Respond, Calls
<1>2. TypeOK /\ FloorHeld /\ OneAtATime /\ script' \in [Owners -> Seq(Segment)]
  BY <1>1 DEF FloorInd, TypeOK
<1> QED BY <1>1, <1>2, TakesFloor

LEMMA ResumeFloor ==
  ASSUME FloorInd, NEW r \in Replays, Resume(r)
  PROVE  FloorHeld' /\ OneAtATime'
<1>1. /\ r \in Callers /\ r \in Owners /\ r \notin Turns /\ Revoke /\ Wait(r, "settling")
      /\ current' = r /\ call[r] = "idle" /\ UNCHANGED <<made, retained>>
  BY Names DEF Resume, Calls, Revoke
<1>2. TypeOK /\ FloorHeld /\ OneAtATime
  BY DEF FloorInd
<1>3. /\ script' \in [Owners -> Seq(Segment)]
      /\ \A o \in Owners : script'[o] # script[o] => o = r
  BY <1>1 DEF Resume, TypeOK, FloorInd
<1> QED BY <1>1, <1>2, <1>3, TakesFloor

LEMMA StopFloor ==
  ASSUME FloorInd, NEW s \in Stops, NEW keep \in BOOLEAN, Stop(s, keep)
  PROVE  FloorHeld' /\ OneAtATime'
<1>1. /\ s \in Callers /\ s \notin Owners /\ s \notin Turns /\ Revoke /\ Wait(s, "stopping")
      /\ current' \in {active, NoOne} /\ call[s] = "idle" /\ UNCHANGED <<script, made, retained>>
  BY Names DEF Stop, Calls
<1>2. TypeOK /\ FloorHeld /\ OneAtATime /\ script' \in [Owners -> Seq(Segment)]
  BY <1>1 DEF FloorInd, TypeOK
<1> QED BY <1>1, <1>2, TakesFloor

LEMMA SilenceFloor ==
  ASSUME FloorInd, NEW c \in Commands, Silence(c)
  PROVE  FloorHeld' /\ OneAtATime'
<1>1. /\ c \in Callers /\ c \notin Owners /\ c \notin Turns /\ Revoke /\ Wait(c, "settling")
      /\ current' \in {active, NoOne} /\ call[c] \in {"idle", "again"}
      /\ UNCHANGED <<script, made, retained>>
  BY Names DEF Silence, Calls
<1>2. TypeOK /\ FloorHeld /\ OneAtATime /\ script' \in [Owners -> Seq(Segment)]
  BY <1>1 DEF FloorInd, TypeOK
<1> QED BY <1>1, <1>2, TakesFloor

LEMMA BeginCloseFloor ==
  ASSUME FloorInd, BeginClose
  PROVE  FloorHeld' /\ OneAtATime'
<1>1. /\ Close \in Callers /\ Close \notin Owners /\ Close \notin Turns /\ Revoke
      /\ Wait(Close, "settling") /\ current' \in {active, NoOne} /\ call[Close] = "idle"
      /\ UNCHANGED <<script, made, retained>>
  BY Names DEF BeginClose, Calls
<1>2. TypeOK /\ FloorHeld /\ OneAtATime /\ script' \in [Owners -> Seq(Segment)]
  BY <1>1 DEF FloorInd, TypeOK
<1> QED BY <1>1, <1>2, TakesFloor

(* A turn that broke off after it had lost the floor only waits.           *)
LEMMA UnwindFloor ==
  ASSUME FloorInd, NEW o \in Owners, Unwind(o)
  PROVE  FloorHeld' /\ OneAtATime'
<1>1. CASE active = o
  <2>1. /\ o \in Callers /\ Revoke /\ Wait(o, "unwinding") /\ current' = o
        /\ call[o] = "speaking" /\ cons[o] = "broken" /\ UNCHANGED <<script, made, retained>>
    BY <1>1, Names DEF Unwind
  <2>2. TypeOK /\ FloorHeld /\ OneAtATime /\ script' \in [Owners -> Seq(Segment)]
    BY <2>1 DEF FloorInd, TypeOK
  <2> QED BY <2>1, <2>2, TakesFloor
<1>2. CASE active # o
  <2>0. /\ TypeOK /\ OneAtATime /\ LineHeld /\ ActiveHeld /\ DrainHeld /\ LatestWaits
        /\ \A p \in Owners : StageHeld(p) /\ RevokedHeld(p)
    BY DEF FloorHeld, FloorInd
  <2>1. /\ o \in Callers /\ ~Waits(o) /\ Wait(o, "unwinding") /\ Over(o) /\ call[o] = "speaking"
        /\ UNCHANGED <<active, current, prod, cons, tidy, script, made, retained>>
    BY <1>2, Names DEF Unwind, Waits, Over
  <2>2. LineHeld' /\ (\A p, q : Ahead(p, q) => Ahead(p, q)')
    BY <2>0, <2>1, JoinsLine
  <2>3. /\ \A d \in Callers : d # o => call'[d] = call[d]
        /\ call'[o] = "unwinding"
    BY <2>0, <2>1 DEF TypeOK, Wait
  <2>4. ActiveHeld'
    <3> SUFFICES ASSUME active # NoOne PROVE ActiveHeld'
      BY <2>1 DEF ActiveHeld
    <3>1. active \in Owners /\ active # o
      BY <1>2, <2>0 DEF TypeOK
    <3> QED BY <2>0, <2>1, <2>3, <3>1, Names DEF ActiveHeld, Live, Unwind
  <2>5. DrainHeld'
    <3>1. Draining' => Draining
      BY <2>3, Names DEF Draining
    <3> QED BY <2>0, <2>1, <3>1 DEF DrainHeld, Cleanups, Live
  <2>6. LatestWaits'
    <3>1. \A p \in Owners : call'[p] \in {"settling", "draining"} => call'[p] = call[p]
      BY <2>3, Names
    <3> QED BY <2>0, <2>1, <2>2, <3>1 DEF LatestWaits
  <2>7. ASSUME NEW p \in Owners PROVE StageHeld(p)' /\ RevokedHeld(p)'
    <3>1. StageHeld(p) /\ RevokedHeld(p) /\ p \in Callers
      BY <2>0, Names
    <3>2. CASE p = o
      <4>1. call'[p] = "unwinding"
        BY <2>3, <3>2
      <4> QED BY <2>1, <3>1, <3>2, <4>1
              DEF StageHeld, RevokedHeld, Unopened, Over, Revoked, Live
    <3>3. CASE p # o
      <4>1. call'[p] = call[p]
        BY <2>3, <3>1, <3>3
      <4> QED BY <2>1, <3>1, <4>1 DEF StageHeld, RevokedHeld, Unopened, Over, Revoked, Live
    <3> QED BY <3>2, <3>3
  <2>8. OneAtATime'
    BY <2>0, <2>1 DEF OneAtATime
  <2> QED BY <2>0, <2>2, <2>4, <2>5, <2>6, <2>7, <2>8 DEF FloorHeld
<1> QED BY <1>1, <1>2

(* A caller that goes on and opens no turn.                                *)
LEMMA CallGoesOn ==
  ASSUME FloorInd, NEW c \in Callers, NEW how, call' = [call EXCEPT ![c] = how],
         LineHeld', \A p, q : p # c /\ Ahead(p, q) => Ahead(p, q)',
         active' = (IF active = c THEN NoOne ELSE active),
         UNCHANGED <<current, resumable, prod, cons, tidy, script, made, retained>>,
         how # "settling",
         c \in Owners =>
           \/ how \in {"refused", "pending"} /\ call[c] \in {"settling", "draining"}
           \/ /\ how = "draining" /\ call[c] = "settling" /\ Cleanups = {} /\ ~Pending
              /\ \A p : ~Ahead(p, c)
           \/ how = "raised" /\ call[c] = "unwinding"
           \/ how = "returned" /\ call[c] = "speaking" /\ cons[c] = "spoken"
  PROVE  FloorHeld' /\ OneAtATime'
<1>0. /\ TypeOK /\ OneAtATime /\ LineHeld /\ ActiveHeld /\ DrainHeld /\ LatestWaits
      /\ \A p \in Owners : StageHeld(p) /\ RevokedHeld(p)
  BY DEF FloorHeld, FloorInd
<1>1. /\ \A d \in Callers : d # c => call'[d] = call[d]
      /\ call'[c] = how
  BY <1>0 DEF TypeOK
<1>2. ActiveHeld'
  <2> SUFFICES ASSUME active' # NoOne PROVE ActiveHeld'
    BY DEF ActiveHeld
  <2>1. active' = active /\ active # c /\ active \in Owners
    BY <1>0 DEF TypeOK
  <2>2. c \in Owners => call[c] \notin {"settling", "draining"} /\ how # "draining"
    BY <1>0, <2>1, Names DEF ActiveHeld
  <2> QED BY <1>0, <1>1, <2>1, <2>2, Names DEF ActiveHeld, Live
<1>3. DrainHeld'
  <2> SUFFICES ASSUME NEW d \in Owners, call'[d] = "draining"
               PROVE  Cleanups = {} /\ \A o \in Owners : ~Live(o)
    BY DEF DrainHeld, Draining, Cleanups, Live
  <2>1. CASE call[d] = "draining"
    BY <1>0, <2>1 DEF DrainHeld, Draining
  <2>2. CASE call[d] # "draining"
    <3>1. d = c /\ how = "draining" /\ call[c] = "settling" /\ Cleanups = {} /\ ~Pending
      BY <1>1, <2>2, Names
    <3>2. active = NoOne
      BY <1>0, <3>1 DEF ActiveHeld
    <3>3. ASSUME NEW o \in Owners, Live(o) PROVE FALSE
      <4>1. tidy[o] # "going"
        BY <3>1 DEF Cleanups
      <4>2. o \in retained /\ cons[o] = "playing"
        BY <1>0, <3>2, <3>3, <4>1, Names DEF RevokedHeld
      <4> QED BY <3>1, <4>2 DEF Pending, Over
    <3> QED BY <3>1, <3>3
  <2> QED BY <2>1, <2>2
<1>4. LatestWaits'
  <2> SUFFICES ASSUME NEW o \in Owners, NEW p \in Owners, current = o,
                      call'[o] \in {"settling", "draining"}, p # o, call'[p] = "settling"
               PROVE  Ahead(p, o)'
    BY DEF LatestWaits
  <2>1. p # c /\ call[p] = "settling"
    BY <1>1, Names
  <2>2. o = c => call[o] = "settling" /\ ~Ahead(p, o)
    BY <1>1, Names
  <2>3. o # c => call[o] = call'[o]
    BY <1>1, Names
  <2>4. Ahead(p, o)
    BY <1>0, <2>1, <2>2, <2>3 DEF LatestWaits
  <2> QED BY <2>1, <2>4
<1>5. ASSUME NEW p \in Owners PROVE StageHeld(p)' /\ RevokedHeld(p)'
  <2>1. StageHeld(p) /\ RevokedHeld(p) /\ p \in Callers
    BY <1>0, Names
  <2>2. CASE p = c
    <3>1. call'[p] = how
      BY <1>1, <2>2
    <3>2. CASE active # p
      BY <2>1, <2>2, <3>1, <3>2 DEF StageHeld, RevokedHeld, Unopened, Over, Revoked, Live
    <3>3. CASE active = p
      <4>1. call[p] = "speaking" /\ active' = NoOne
        BY <1>0, <2>2, <3>3, Names DEF ActiveHeld
      <4>2. how = "returned" /\ cons[p] = "spoken"
        BY <2>2, <4>1
      <4> QED BY <2>1, <2>2, <3>1, <4>1, <4>2
              DEF StageHeld, RevokedHeld, Unopened, Over, Revoked, Live
    <3> QED BY <3>2, <3>3
  <2>3. CASE p # c
    <3>1. call'[p] = call[p] /\ (active' = p <=> active = p)
      BY <1>1, <2>1, <2>3, Names
    <3> QED BY <2>1, <3>1 DEF StageHeld, RevokedHeld, Unopened, Over, Revoked, Live
  <2> QED BY <2>2, <2>3
<1>6. OneAtATime'
  BY <1>0 DEF OneAtATime
<1> QED BY <1>2, <1>3, <1>4, <1>5, <1>6 DEF FloorHeld

(* Who goes on to open a turn opens it alone, or finds it overtaken.       *)
LEMMA OpensTurn ==
  ASSUME FloorInd, NEW o \in Owners, Open(o), ~Undrained,
         LineHeld', \A p, q : p # o /\ Ahead(p, q) => Ahead(p, q)',
         UNCHANGED <<current, script, made, retained>>,
         \/ /\ call[o] = "settling" /\ Cleanups = {} /\ ~Pending /\ ~Draining
            /\ \A p : ~Ahead(p, o)
         \/ /\ call[o] = "draining"
            /\ Overtaken(o) \/ \A p \in Owners \ {o} : call[p] # "draining"
  PROVE  FloorHeld' /\ OneAtATime'
<1>0. /\ TypeOK /\ OneAtATime /\ LineHeld /\ ActiveHeld /\ DrainHeld /\ LatestWaits
      /\ \A p \in Owners : StageHeld(p) /\ RevokedHeld(p)
  BY DEF FloorHeld, FloorInd
<1>1. /\ active = NoOne /\ prod[o] = "none" /\ cons[o] = "none" /\ tidy[o] = "none" /\ made[o] = <<>>
      /\ o \in Callers /\ o # NoOne
  BY <1>0, Names DEF ActiveHeld, StageHeld, Unopened
<1>2. ASSUME Overtaken(o) PROVE FloorHeld' /\ OneAtATime'
  <2>1. /\ call' = [call EXCEPT ![o] = "overtaken"]
        /\ prod' = [prod EXCEPT ![o] = "ended"] /\ tidy' = [tidy EXCEPT ![o] = "done"]
        /\ UNCHANGED <<active, resumable, cons>>
    BY <1>2 DEF Open
  <2>2. /\ \A p \in Callers : p # o => call'[p] = call[p]
        /\ \A p \in Owners : p # o => prod'[p] = prod[p] /\ tidy'[p] = tidy[p]
        /\ call'[o] = "overtaken" /\ prod'[o] = "ended" /\ tidy'[o] = "done"
    BY <1>0, <1>1, <2>1 DEF TypeOK
  <2>3. ActiveHeld'
    BY <1>1, <2>1 DEF ActiveHeld
  <2>4. DrainHeld'
    <3>1. Draining' => Draining
      BY <2>2, Names DEF Draining
    <3>2. Cleanups' = Cleanups
      BY <1>1, <2>2 DEF Cleanups
    <3> QED BY <1>0, <2>1, <3>1, <3>2 DEF DrainHeld, Live
  <2>5. LatestWaits'
    <3> SUFFICES ASSUME NEW q \in Owners, NEW p \in Owners, current = q,
                        call'[q] \in {"settling", "draining"}, p # q, call'[p] = "settling"
                 PROVE  Ahead(p, q)'
      BY DEF LatestWaits
    <3>1. p # o /\ q # o /\ call[p] = "settling" /\ call[q] \in {"settling", "draining"}
      BY <2>2, Names
    <3> QED BY <1>0, <3>1 DEF LatestWaits
  <2>6. ASSUME NEW p \in Owners PROVE StageHeld(p)' /\ RevokedHeld(p)'
    <3>1. StageHeld(p) /\ RevokedHeld(p) /\ p \in Callers
      BY <1>0, Names
    <3>2. CASE p = o
      BY <1>1, <2>1, <2>2, <3>1, <3>2 DEF StageHeld, RevokedHeld, Unopened, Over, Revoked, Live
    <3>3. CASE p # o
      <4>1. call'[p] = call[p] /\ prod'[p] = prod[p] /\ tidy'[p] = tidy[p]
        BY <2>2, <3>1, <3>3
      <4> QED BY <1>1, <2>1, <3>1, <4>1 DEF StageHeld, RevokedHeld, Unopened, Over, Revoked, Live
    <3> QED BY <3>2, <3>3
  <2>7. OneAtATime'
    BY <1>0, <2>1, <2>2 DEF OneAtATime
  <2> QED BY <2>3, <2>4, <2>5, <2>6, <2>7 DEF FloorHeld
<1>3. ASSUME ~Overtaken(o) PROVE FloorHeld' /\ OneAtATime'
  <2>1. /\ call' = [call EXCEPT ![o] = "speaking"]
        /\ active' = o /\ resumable' = <<>>
        /\ prod' = [prod EXCEPT ![o] = "ready"] /\ cons' = [cons EXCEPT ![o] = "ready"]
        /\ tidy' = tidy /\ current = o
    BY <1>3 DEF Open, Overtaken
  <2>2. /\ \A p \in Callers : p # o => call'[p] = call[p]
        /\ \A p \in Owners : p # o => prod'[p] = prod[p] /\ cons'[p] = cons[p]
        /\ call'[o] = "speaking" /\ prod'[o] = "ready" /\ cons'[o] = "ready"
    BY <1>0, <1>1, <2>1 DEF TypeOK
  <2>3. ASSUME NEW p \in Owners PROVE ~Live(p)
    <3>1. CASE call[o] = "draining"
      BY <1>0, <3>1 DEF DrainHeld, Draining
    <3>2. CASE call[o] = "settling"
      <4>1. Cleanups = {} /\ ~Pending
        BY <3>2
      <4>2. tidy[p] # "going" /\ active # p
        BY <1>1, <4>1, Names DEF Cleanups
      <4>3. p \in retained => Over(p)
        BY <4>1 DEF Pending
      <4> QED BY <1>0, <4>2, <4>3 DEF RevokedHeld, Live, Over
    <3> QED BY <3>1, <3>2
  <2>4. ASSUME NEW p \in Owners, p # o PROVE call[p] \notin {"settling", "draining"}
    <3>1. CASE call[o] = "settling"
      <4>1. ~Draining /\ ~Ahead(p, o)
        BY <3>1
      <4> QED BY <1>0, <2>1, <2>4, <3>1, <4>1 DEF LatestWaits, Draining
    <3>2. CASE call[o] = "draining"
      <4>1. call[p] # "draining"
        BY <1>3, <2>4, <3>2
      <4>2. ~Waits(o)
        BY <3>2 DEF Waits
      <4>3. ~Ahead(p, o)
        BY <1>0, <1>1, <4>2 DEF LineHeld, Ahead
      <4> QED BY <1>0, <2>1, <2>4, <3>2, <4>1, <4>3 DEF LatestWaits
    <3> QED BY <3>1, <3>2
  <2>5. \A p \in Owners : call'[p] \notin {"settling", "draining"}
    BY <2>2, <2>4, Names
  <2>6. ActiveHeld'
    <3>1. \A p \in Owners \ {o} : ~Live(p)' /\ prod'[p] # "running"
      BY <2>2, <2>3 DEF Live, Undrained
    <3> QED BY <1>1, <2>1, <2>2, <2>5, <3>1 DEF ActiveHeld
  <2>7. DrainHeld' /\ LatestWaits'
    BY <2>5 DEF DrainHeld, Draining, LatestWaits
  <2>8. ASSUME NEW p \in Owners PROVE StageHeld(p)' /\ RevokedHeld(p)'
    <3>1. StageHeld(p) /\ RevokedHeld(p) /\ p \in Callers
      BY <1>0, Names
    <3>2. CASE p = o
      BY <1>1, <2>1, <2>2, <3>1, <3>2 DEF StageHeld, RevokedHeld, Unopened, Over, Revoked, Live
    <3>3. CASE p # o
      <4>1. call'[p] = call[p] /\ prod'[p] = prod[p] /\ cons'[p] = cons[p] /\ active' # p
        BY <2>1, <2>2, <3>1, <3>3
      <4>2. active # p
        BY <1>1, Names
      <4> QED BY <2>1, <3>1, <4>1, <4>2 DEF StageHeld, RevokedHeld, Unopened, Over, Revoked, Live
    <3> QED BY <3>2, <3>3
  <2>9. OneAtATime'
    <3> SUFFICES ASSUME NEW q \in Owners, NEW p \in Owners, q # p
                 PROVE  /\ ~(prod'[q] = "running" /\ prod'[p] \in {"ready", "running"})
                        /\ ~(cons'[q] \in {"ready", "next", "playing"} /\ cons'[p] = "playing")
      BY DEF OneAtATime
    <3>1. /\ ~Live(p) /\ ~Live(q) /\ prod[p] # "running" /\ prod[q] # "running"
      BY <2>3 DEF Undrained
    <3> QED BY <2>2, <3>1 DEF Live
  <2> QED BY <2>6, <2>7, <2>8, <2>9 DEF FloorHeld
<1> QED BY <1>2, <1>3

LEMMA EnterFloor ==
  ASSUME FloorInd, NEW o \in Owners, Enter(o)
  PROVE  FloorHeld' /\ OneAtATime'
<1>0. TypeOK /\ LineHeld /\ o \in Callers /\ LineHeld /\ ActiveHeld /\ call[o] = "settling"
  BY Names DEF FloorInd, FloorHeld, Enter
<1>1. /\ Released(o) /\ Cleanups = {} /\ active = NoOne /\ active # o
      /\ UNCHANGED <<current, retained, script, made>>
  BY <1>0, Names DEF Enter, Released, ActiveHeld
<1>2. \E how \in {"refused", "pending", "draining", "overtaken", "speaking"} :
        call' = [call EXCEPT ![o] = how]
  BY DEF Enter, Refuse, EndCall, Open
<1>3. LineHeld' /\ (\A p, q : p # o /\ Ahead(p, q) => Ahead(p, q)') /\ (\A p : ~Ahead(p, o))
  BY <1>0, <1>1, <1>2, LeavesLine
<1>4. CASE Refuse(o) \/ EndCall(o, "pending")
  <2>1. \E how \in {"refused", "pending"} :
          /\ call' = [call EXCEPT ![o] = how]
          /\ UNCHANGED <<active, resumable, prod, cons, tidy>>
    BY <1>4 DEF Refuse, EndCall
  <2> QED BY <1>0, <1>1, <1>3, <2>1, CallGoesOn
<1>5. CASE ~Pending /\ EndCall(o, "draining")
  <2>1. /\ call' = [call EXCEPT ![o] = "draining"]
        /\ UNCHANGED <<active, resumable, prod, cons, tidy>>
    BY <1>5 DEF EndCall
  <2> QED BY <1>0, <1>1, <1>3, <1>5, <2>1, CallGoesOn
<1>6. CASE ~Pending /\ ~Undrained /\ ~Draining /\ Open(o)
  BY <1>0, <1>1, <1>3, <1>6, OpensTurn
<1> QED BY <1>4, <1>5, <1>6 DEF Enter

LEMMA StartDrainedFloor ==
  ASSUME FloorInd, NEW o \in Owners, StartDrained(o)
  PROVE  FloorHeld' /\ OneAtATime'
<1>0. TypeOK /\ LineHeld /\ o \in Callers /\ ActiveHeld /\ call[o] = "draining"
  BY Names DEF FloorInd, FloorHeld, StartDrained
<1>1. /\ ~Undrained /\ active = NoOne /\ active # o
      /\ UNCHANGED <<line, current, retained, script, made>>
  BY <1>0, Names DEF StartDrained, ActiveHeld
<1>2. \E how \in {"refused", "overtaken", "speaking"} : call' = [call EXCEPT ![o] = how]
  BY DEF StartDrained, Refuse, EndCall, Open
<1>3. LineHeld' /\ (\A p, q : p # o /\ Ahead(p, q) => Ahead(p, q)')
  <2>1. \A c \in Callers : Waits(c)' <=> Waits(c)
    BY <1>0, <1>2 DEF Waits, TypeOK
  <2> QED BY <1>0, <1>1, <2>1, LineStays
<1>4. CASE Refuse(o)
  <2>1. /\ call' = [call EXCEPT ![o] = "refused"]
        /\ UNCHANGED <<active, resumable, prod, cons, tidy>>
    BY <1>4 DEF Refuse, EndCall
  <2> QED BY <1>0, <1>1, <1>3, <2>1, CallGoesOn
<1>5. CASE Open(o)
  BY <1>0, <1>1, <1>3, <1>5, OpensTurn DEF StartDrained
<1> QED BY <1>4, <1>5 DEF StartDrained

(* The callers that open no turn.                                          *)
LEMMA OtherCallsFloor ==
  ASSUME FloorInd, NEW c \in Callers,
         \/ c \in Commands \union Stops \union {Close} /\ \E how : call' = [call EXCEPT ![c] = how] /\ how # "settling"
         \/ c \in Owners /\ (DrainGivenUp(c) \/ Finish(c) \/ Raise(c)),
         \/ Released(c) /\ call'[c] \notin {"settling", "stopping", "unwinding"}
         \/ UNCHANGED line /\ ~Waits(c) /\ ~Waits(c)',
         c \in Owners \/ UNCHANGED active,
         UNCHANGED <<current, resumable, prod, cons, tidy, script, made, retained>>
  PROVE  FloorHeld' /\ OneAtATime'
<1>0. TypeOK /\ LineHeld /\ ActiveHeld
  BY DEF FloorInd, FloorHeld
<1>1. PICK how : call' = [call EXCEPT ![c] = how] /\ how # "settling"
  BY DEF DrainGivenUp, Refuse, EndCall, Finish, Raise
<1>2. call'[c] = how
  BY <1>0, <1>1 DEF TypeOK
<1>3. LineHeld' /\ (\A p, q : p # c /\ Ahead(p, q) => Ahead(p, q)')
  <2>1. CASE Released(c) /\ call'[c] \notin {"settling", "stopping", "unwinding"}
    BY <1>0, <1>1, <1>2, <2>1, LeavesLine
  <2>2. CASE UNCHANGED line /\ ~Waits(c) /\ ~Waits(c)'
    <3>1. \A d \in Callers : Waits(d)' <=> Waits(d)
      BY <1>0, <1>1, <2>2 DEF Waits, TypeOK
    <3> QED BY <1>0, <2>2, <3>1, LineStays
  <2> QED BY <2>1, <2>2
<1>4. CASE c \notin Owners
  <2>1. active' = IF active = c THEN NoOne ELSE active
    <3>1. active # c
      BY <1>0, <1>4, Names DEF TypeOK
    <3> QED BY <1>4, <3>1
  <2> QED BY <1>1, <1>3, <1>4, <2>1, CallGoesOn
<1>5. CASE c \in Owners
  <2>1. call[c] = "speaking" \/ active # c
    BY <1>0, <1>5, Names DEF ActiveHeld
  <2>2. /\ active' = IF active = c THEN NoOne ELSE active
        /\ \/ call' = [call EXCEPT ![c] = "refused"] /\ call[c] \in {"draining"}
           \/ call' = [call EXCEPT ![c] = "raised"] /\ call[c] = "unwinding"
           \/ call' = [call EXCEPT ![c] = "returned"] /\ call[c] = "speaking" /\ cons[c] = "spoken"
    <3>1. StageHeld(c)
      BY <1>5 DEF FloorInd, FloorHeld
    <3>2. c \notin Commands \union Stops \union {Close}
      BY <1>5, Names
    <3> QED BY <2>1, <3>1, <3>2 DEF DrainGivenUp, Refuse, EndCall, Finish, Raise, StageHeld
  <2> QED BY <1>3, <1>5, <2>2, CallGoesOn
<1> QED BY <1>4, <1>5

(* What an owner's producer and consumer do: neither starts without the    *)
(* floor.                                                                  *)
LEMMA WorkGoesOn ==
  ASSUME FloorInd, NEW o \in Owners,
         UNCHANGED <<calls, floor, tidy, retained, script>>,
         \A p \in Owners : p # o =>
           prod'[p] = prod[p] /\ cons'[p] = cons[p] /\ made'[p] = made[p],
         StageHeld(o)', RevokedHeld(o)', Live(o)' => Live(o),
         prod'[o] \in {"ready", "running"} => prod[o] \in {"ready", "running"},
         cons'[o] = "playing" => cons[o] = "playing" \/ active = o
  PROVE  FloorHeld' /\ OneAtATime'
<1>0. /\ TypeOK /\ OneAtATime /\ LineHeld /\ ActiveHeld /\ DrainHeld /\ LatestWaits
      /\ \A p \in Owners : StageHeld(p) /\ RevokedHeld(p)
  BY DEF FloorHeld, FloorInd
<1>1. LineHeld' /\ LatestWaits'
  BY <1>0 DEF LineHeld, LatestWaits, Waits, Ahead
<1>2. ActiveHeld'
  <2> SUFFICES ASSUME active # NoOne PROVE ActiveHeld'
    BY DEF ActiveHeld
  <2>1. ASSUME NEW p \in Owners \ {active} PROVE ~Live(p)' /\ prod'[p] # "running"
    <3>1. ~Live(p) /\ prod[p] # "running" /\ active # p
      BY <1>0 DEF ActiveHeld
    <3>2. prod[p] # "ready"
      BY <1>0, <3>1 DEF StageHeld
    <3> QED BY <3>1, <3>2 DEF Live
  <2> QED BY <1>0, <2>1 DEF ActiveHeld
<1>3. DrainHeld'
  BY <1>0 DEF DrainHeld, Draining, Cleanups, Live
<1>4. ASSUME NEW p \in Owners PROVE StageHeld(p)' /\ RevokedHeld(p)'
  <2>1. CASE p = o
    BY <2>1
  <2>2. CASE p # o
    <3>1. StageHeld(p) /\ RevokedHeld(p) /\ prod'[p] = prod[p] /\ cons'[p] = cons[p] /\ made'[p] = made[p]
      BY <1>0, <2>2
    <3> QED BY <3>1 DEF StageHeld, RevokedHeld, Unopened, Over, Revoked, Live
  <2> QED BY <2>1, <2>2
<1>5. OneAtATime'
  <2> SUFFICES ASSUME NEW q \in Owners, NEW p \in Owners, q # p
               PROVE  /\ ~(prod'[q] = "running" /\ prod'[p] \in {"ready", "running"})
                      /\ ~(cons'[q] \in {"ready", "next", "playing"} /\ cons'[p] = "playing")
    BY DEF OneAtATime
  <2>1. /\ prod'[q] \in {"ready", "running"} => prod[q] \in {"ready", "running"}
        /\ prod'[p] \in {"ready", "running"} => prod[p] \in {"ready", "running"}
        /\ (Live(q)' => Live(q)) /\ (Live(p)' => Live(p))
        /\ cons'[p] = "playing" => cons[p] = "playing" \/ active = p
    BY DEF Live
  <2>2. ~(prod[q] \in {"ready", "running"} /\ prod[p] \in {"ready", "running"})
    BY <1>0, Names DEF OneAtATime, StageHeld, ActiveHeld
  <2>3. active = p => ~Live(q)
    BY <1>0, Names DEF ActiveHeld
  <2>4. cons[p] = "playing" => ~Live(q)
    BY <1>0 DEF OneAtATime, Live
  <2> QED BY <2>1, <2>2, <2>3, <2>4 DEF Live
<1> QED BY <1>1, <1>2, <1>3, <1>4, <1>5 DEF FloorHeld

LEMMA ProducerFloor ==
  ASSUME FloorInd, NEW o \in Owners, Producer(o)
  PROVE  FloorHeld' /\ OneAtATime'
<1>0. /\ TypeOK /\ StageHeld(o) /\ RevokedHeld(o) /\ ActiveHeld
  BY DEF FloorHeld, FloorInd
<1>1. CASE Begin(o)
  <2>1. /\ prod[o] = "ready" /\ cons[o] = "ready"
        /\ prod' = [prod EXCEPT ![o] = "running"] /\ cons' = [cons EXCEPT ![o] = "next"]
        /\ UNCHANGED <<calls, floor, bad, cleanup, reply, open>>
    BY <1>0, <1>1 DEF Begin, StageHeld
  <2>2. /\ \A p \in Owners : p # o => prod'[p] = prod[p] /\ cons'[p] = cons[p]
        /\ prod'[o] = "running" /\ cons'[o] = "next"
    BY <1>0, <2>1 DEF TypeOK
  <2>3. StageHeld(o)' /\ RevokedHeld(o)' /\ Live(o)
    BY <1>0, <2>1, <2>2 DEF StageHeld, RevokedHeld, Unopened, Over, Revoked, Live, ActiveHeld
  <2> QED BY <2>1, <2>2, <2>3, WorkGoesOn
<1>2. CASE Publish(o)
  <2>1. /\ prod[o] = "running" /\ UNCHANGED <<calls, floor, work, cleanup, pos, script, context>>
        /\ \A p \in Owners : p # o => made'[p] = made[p]
    BY <1>0, <1>2 DEF Publish, TypeOK
  <2>2. StageHeld(o)' /\ RevokedHeld(o)'
    BY <1>0, <2>1 DEF StageHeld, RevokedHeld, Unopened, Over, Revoked, Live
  <2> QED BY <2>1, <2>2, WorkGoesOn DEF Live
<1>3. CASE ProducerEnds(o)
  <2>1. /\ prod[o] = "running" /\ prod' = [prod EXCEPT ![o] = "ended"]
        /\ UNCHANGED <<calls, floor, cons, bad, cleanup, reply, context>>
    BY <1>3 DEF ProducerEnds
  <2>2. (\A p \in Owners : p # o => prod'[p] = prod[p]) /\ prod'[o] = "ended"
    BY <1>0, <2>1 DEF TypeOK
  <2>3. StageHeld(o)' /\ RevokedHeld(o)'
    BY <1>0, <2>1, <2>2 DEF StageHeld, RevokedHeld, Unopened, Over, Revoked, Live
  <2> QED BY <2>1, <2>2, <2>3, WorkGoesOn DEF Live
<1>4. CASE ProducerFails(o)
  <2>1. /\ prod[o] = "running" /\ prod' = [prod EXCEPT ![o] = "failed"]
        /\ cons' = [cons EXCEPT ![o] = IF @ \in {"ready", "cleanup"} THEN "broken" ELSE @]
        /\ UNCHANGED <<calls, floor, tidy, retained, reply, context>>
    BY <1>4 DEF ProducerFails, CancelConsumer
  <2>2. /\ \A p \in Owners : p # o => prod'[p] = prod[p] /\ cons'[p] = cons[p]
        /\ prod'[o] = "failed" /\ cons'[o] = IF cons[o] \in {"ready", "cleanup"} THEN "broken" ELSE cons[o]
    BY <1>0, <2>1 DEF TypeOK
  <2>3. StageHeld(o)' /\ RevokedHeld(o)'
    BY <1>0, <2>1, <2>2 DEF StageHeld, RevokedHeld, Unopened, Over, Revoked, Live
  <2> QED BY <2>1, <2>2, <2>3, WorkGoesOn DEF Live
<1> QED BY <1>1, <1>2, <1>3, <1>4 DEF Producer

LEMMA ConsumerFloor ==
  ASSUME FloorInd, NEW o \in Owners, Consumer(o)
  PROVE  FloorHeld' /\ OneAtATime'
<1>0. /\ TypeOK /\ StageHeld(o) /\ RevokedHeld(o) /\ ActiveHeld
  BY DEF FloorHeld, FloorInd
<1> DEFINE Others == \A p \in Owners : p # o => cons'[p] = cons[p] /\ made'[p] = made[p]
<1>1. UNCHANGED <<calls, floor, prod, tidy, retained, script>>
  BY DEF Consumer, Play, SegmentEnds, Deliver, ReplyEnds, ConsumerFails, CleanedUp, CleanupGivenUp, ProviderStops
<1>2. /\ Others
      /\ \/ cons[o] = "next" /\ cons'[o] = "playing" /\ ~Revoked(o) /\ made'[o] = made[o]
         \/ cons[o] = "playing" /\ cons'[o] = "next" /\ ~Revoked(o)
         \/ cons[o] = "next" /\ cons'[o] = "spoken" /\ prod[o] = "ended" /\ made'[o] = made[o]
         \/ cons[o] \in {"next", "playing"} /\ cons'[o] = "cleanup" /\ made'[o] = made[o]
         \/ cons[o] = "cleanup" /\ cons'[o] = "broken" /\ made'[o] = made[o]
         \/ cons'[o] = cons[o] /\ made'[o] = made[o]
  <2>1. ASSUME Play(o) PROVE Others /\ cons[o] = "next" /\ cons'[o] = "playing" /\ ~Revoked(o) /\ made'[o] = made[o]
    BY <1>0, <2>1 DEF Play, Cut, TypeOK
  <2>2. ASSUME SegmentEnds(o) PROVE Others /\ cons'[o] = cons[o] /\ made'[o] = made[o]
    BY <1>0, <2>2 DEF SegmentEnds, TypeOK
  <2>3. ASSUME Deliver(o) PROVE Others /\ cons[o] = "playing" /\ cons'[o] = "next" /\ ~Revoked(o)
    BY <1>0, <2>3 DEF Deliver, Started, Cut, TypeOK
  <2>4. ASSUME ReplyEnds(o) PROVE Others /\ cons[o] = "next" /\ cons'[o] = "spoken" /\ prod[o] = "ended" /\ made'[o] = made[o]
    BY <1>0, <2>4 DEF ReplyEnds, TypeOK
  <2>5. ASSUME ConsumerFails(o) PROVE Others /\ cons[o] \in {"next", "playing"} /\ cons'[o] = "cleanup" /\ made'[o] = made[o]
    BY <1>0, <2>5 DEF ConsumerFails, TypeOK
  <2>6. ASSUME CleanedUp(o) PROVE Others /\ cons[o] = "cleanup" /\ cons'[o] = "broken" /\ made'[o] = made[o]
    BY <1>0, <2>6 DEF CleanedUp, TypeOK
  <2>7. ASSUME CleanupGivenUp(o) PROVE Others /\ cons[o] = "cleanup" /\ cons'[o] = "broken" /\ made'[o] = made[o]
    BY <1>0, <2>7 DEF CleanupGivenUp, TypeOK
  <2>8. ASSUME ProviderStops(o) PROVE Others /\ cons'[o] = cons[o] /\ made'[o] = made[o]
    BY <1>0, <2>8 DEF ProviderStops, TypeOK
  <2> QED BY <2>1, <2>2, <2>3, <2>4, <2>5, <2>6, <2>7, <2>8 DEF Consumer
<1> HIDE DEF Others
<1>3. /\ StageHeld(o)' /\ RevokedHeld(o)'
      /\ Live(o)' => Live(o)
      /\ cons'[o] = "playing" => cons[o] = "playing" \/ active = o
  <2>1. CASE cons[o] = "playing" /\ cons'[o] = "next" /\ ~Revoked(o)
    BY <1>0, <1>1, <2>1 DEF StageHeld, RevokedHeld, Unopened, Over, Revoked, Live
  <2>2. CASE cons[o] = "next" /\ cons'[o] = "playing" /\ ~Revoked(o) /\ made'[o] = made[o]
    <3>1. active = o
      BY <1>0, <2>2 DEF RevokedHeld, Live, Revoked
    <3> QED BY <1>0, <1>1, <2>2, <3>1 DEF StageHeld, RevokedHeld, Unopened, Over, Revoked, Live
  <2>3. CASE \/ cons[o] = "next" /\ cons'[o] = "spoken" /\ prod[o] = "ended" /\ made'[o] = made[o]
             \/ cons[o] \in {"next", "playing"} /\ cons'[o] = "cleanup" /\ made'[o] = made[o]
             \/ cons[o] = "cleanup" /\ cons'[o] = "broken" /\ made'[o] = made[o]
    BY <1>0, <1>1, <2>3 DEF StageHeld, RevokedHeld, Unopened, Over, Revoked, Live
  <2>4. CASE cons'[o] = cons[o] /\ made'[o] = made[o]
    BY <1>0, <1>1, <2>4 DEF StageHeld, RevokedHeld, Unopened, Over, Revoked, Live
  <2> QED BY <1>2, <2>1, <2>2, <2>3, <2>4
<1> QED BY <1>1, <1>2, <1>3, WorkGoesOn DEF Others

(* A cleanup ends; what it gives up on has not begun anything new.         *)
LEMMA SettleFloor ==
  ASSUME FloorInd, NEW o \in Owners, NEW drained \in BOOLEAN, NEW settled \in BOOLEAN,
         Settle(o, drained, settled)
  PROVE  FloorHeld' /\ OneAtATime'
<1>0. /\ TypeOK /\ OneAtATime /\ LineHeld /\ ActiveHeld /\ DrainHeld /\ LatestWaits
      /\ \A p \in Owners : StageHeld(p) /\ RevokedHeld(p)
  BY DEF FloorHeld, FloorInd
<1>1. /\ tidy[o] = "going" /\ tidy'[o] \in {"failed", "done"}
      /\ \A p \in Owners : p # o => tidy'[p] = tidy[p]
      /\ ~drained \/ ~settled => tidy'[o] = "failed"
      /\ drained => prod[o] # "running"
      /\ settled => Over(o)
      /\ ~settled => cons[o] \in {"playing", "cleanup"}
      /\ retained' = (IF settled THEN retained ELSE retained \union {o})
      /\ current # o => resumable' = resumable
      /\ UNCHANGED <<call, line, active, current, work, late, reply, context>>
  BY <1>0 DEF Settle, Kept, TypeOK
<1>2. LineHeld' /\ LatestWaits'
  BY <1>0, <1>1 DEF LineHeld, LatestWaits, Waits, Ahead
<1>3. ActiveHeld'
  <2> SUFFICES ASSUME active # NoOne PROVE ActiveHeld'
    BY <1>1 DEF ActiveHeld
  <2>1. active \in Owners /\ active # o /\ current = active
    BY <1>0, <1>1 DEF TypeOK, ActiveHeld
  <2>2. resumable' = <<>> /\ tidy'[active] = tidy[active]
    BY <1>0, <1>1, <2>1 DEF ActiveHeld
  <2> QED BY <1>0, <1>1, <2>1, <2>2 DEF ActiveHeld, Live
<1>4. DrainHeld'
  BY <1>0, <1>1 DEF DrainHeld, Draining, Cleanups, Live
<1>5. ASSUME NEW p \in Owners PROVE StageHeld(p)' /\ RevokedHeld(p)'
  <2>1. StageHeld(p) /\ RevokedHeld(p)
    BY <1>0
  <2>2. CASE p = o
    <3>1. active # p
      BY <1>0, <1>1, <2>2, Names DEF ActiveHeld
    <3>2. StageHeld(p)'
      BY <1>1, <2>1, <2>2, <3>1 DEF StageHeld, Unopened, Over, Revoked
    <3>3. prod[p] # "ready"
      BY <2>1, <3>1 DEF StageHeld
    <3>4. settled => ~Live(p)
      BY <1>1, <2>2 DEF Over, Live
    <3>5. ~settled => p \in retained' /\ tidy'[p] = "failed" /\ (Live(p) => cons[p] = "playing")
      BY <1>1, <2>2 DEF Live
    <3>6. p \notin retained
      BY <1>1, <2>1, <2>2 DEF RevokedHeld
    <3> QED BY <1>1, <2>2, <3>2, <3>3, <3>4, <3>5, <3>6 DEF RevokedHeld, Live
  <2>3. CASE p # o
    <3>1. tidy'[p] = tidy[p] /\ (p \in retained' <=> p \in retained)
      BY <1>1, <2>3
    <3> QED BY <1>1, <2>1, <3>1 DEF StageHeld, RevokedHeld, Unopened, Over, Revoked, Live
  <2> QED BY <2>2, <2>3
<1>6. OneAtATime'
  BY <1>0, <1>1 DEF OneAtATime
<1> QED BY <1>2, <1>3, <1>4, <1>5, <1>6 DEF FloorHeld

LEMMA FloorStep ==
  ASSUME FloorInd, Next
  PROVE  FloorHeld' /\ OneAtATime'
<1>0. TypeOK
  BY DEF FloorInd
<1>1. CASE Callings
  <2>1. ASSUME NEW t \in Turns, Respond(t) PROVE FloorHeld' /\ OneAtATime'
    BY <2>1, RespondFloor
  <2>2. ASSUME NEW r \in Replays, Resume(r) PROVE FloorHeld' /\ OneAtATime'
    BY <2>2, ResumeFloor
  <2>3. ASSUME NEW s \in Stops, (\E keep \in BOOLEAN : Stop(s, keep)) \/ StopReturns(s)
        PROVE  FloorHeld' /\ OneAtATime'
    <3>1. CASE \E keep \in BOOLEAN : Stop(s, keep)
      BY <3>1, StopFloor
    <3>2. CASE StopReturns(s)
      <4>1. s \in Callers /\ s \notin Owners
        BY Names
      <4>2. PICK how \in {"refused", "returned"} : call' = [call EXCEPT ![s] = how]
        BY <3>2 DEF StopReturns
      <4>3. call'[s] = how
        BY <1>0, <4>1, <4>2 DEF TypeOK
      <4> QED BY <3>2, <4>1, <4>2, <4>3, OtherCallsFloor DEF StopReturns
    <3> QED BY <2>3, <3>1, <3>2
  <2>4. ASSUME NEW c \in Commands, Silence(c) \/ RecordCommand(c) \/ CommandRefused(c) \/ LookAgain(c)
        PROVE  FloorHeld' /\ OneAtATime'
    <3>0. c \in Callers /\ c \notin Owners
      BY Names
    <3>1. CASE Silence(c)
      BY <3>1, SilenceFloor
    <3>2. CASE RecordCommand(c)
      <4>1. call' = [call EXCEPT ![c] = "returned"] /\ call'[c] = "returned"
        BY <1>0, <3>0, <3>2 DEF RecordCommand, TypeOK
      <4> QED BY <3>0, <3>2, <4>1, OtherCallsFloor DEF RecordCommand, Calls, Waits
    <3>3. CASE CommandRefused(c)
      <4>1. call' = [call EXCEPT ![c] = "refused"] /\ call'[c] = "refused"
        BY <1>0, <3>0, <3>3 DEF CommandRefused, TypeOK
      <4> QED BY <3>0, <3>3, <4>1, OtherCallsFloor DEF CommandRefused, Waits
    <3>4. CASE LookAgain(c)
      <4>1. PICK how \in {"refused", "again"} : call' = [call EXCEPT ![c] = how]
        BY <3>4 DEF LookAgain
      <4>2. call'[c] = how
        BY <1>0, <3>0, <4>1 DEF TypeOK
      <4> QED BY <3>0, <3>4, <4>1, <4>2, OtherCallsFloor DEF LookAgain
    <3> QED BY <2>4, <3>1, <3>2, <3>3, <3>4
  <2>5. CASE BeginClose
    BY <2>5, BeginCloseFloor
  <2>6. CASE CloseForeground
    <3>1. PICK how \in {"failing", "draining", "refused", "returned"} :
             call' = [call EXCEPT ![Close] = how]
      BY <2>6 DEF CloseForeground
    <3>2. call'[Close] = how
      BY <1>0, <3>1, Names DEF TypeOK
    <3> QED BY <2>6, <3>1, <3>2, Names, OtherCallsFloor DEF CloseForeground, Waits
  <2>7. CASE CloseDrained
    <3>1. PICK how \in {"refused", "returned"} : call' = [call EXCEPT ![Close] = how]
      BY <2>7 DEF CloseDrained
    <3>2. call'[Close] = how
      BY <1>0, <3>1, Names DEF TypeOK
    <3> QED BY <2>7, <3>1, <3>2, Names, OtherCallsFloor DEF CloseDrained, Waits
  <2>8. CASE DrainGivenUp(Close)
    <3>1. call' = [call EXCEPT ![Close] = "refused"] /\ call'[Close] = "refused"
      BY <1>0, <2>8, Names DEF DrainGivenUp, Refuse, EndCall, TypeOK
    <3> QED BY <2>8, <3>1, Names, OtherCallsFloor DEF DrainGivenUp, Refuse, EndCall, Waits
  <2> QED BY <1>1, <2>1, <2>2, <2>3, <2>4, <2>5, <2>6, <2>7, <2>8 DEF Callings
<1>2. ASSUME NEW o \in Owners, Floors(o) PROVE FloorHeld' /\ OneAtATime'
  <2>0. o \in Callers
    BY Names
  <2>1. CASE Enter(o)
    BY <2>1, EnterFloor
  <2>2. CASE StartDrained(o)
    BY <2>2, StartDrainedFloor
  <2>3. CASE DrainGivenUp(o)
    BY <1>0, <2>0, <2>3, OtherCallsFloor DEF DrainGivenUp, Refuse, EndCall, Waits, TypeOK
  <2>4. CASE Finish(o)
    BY <1>0, <2>0, <2>4, OtherCallsFloor DEF Finish, Waits, TypeOK
  <2>5. CASE Unwind(o)
    BY <2>5, UnwindFloor
  <2>6. CASE Raise(o)
    BY <1>0, <2>0, <2>6, OtherCallsFloor DEF Raise, Waits, TypeOK
  <2> QED BY <1>2, <2>1, <2>2, <2>3, <2>4, <2>5, <2>6 DEF Floors
<1>3. ASSUME NEW o \in Owners, Producer(o) \/ Consumer(o) \/ Cleanup(o)
      PROVE  FloorHeld' /\ OneAtATime'
  BY <1>3, ProducerFloor, ConsumerFloor, SettleFloor DEF Cleanup
<1> QED BY <1>1, <1>2, <1>3 DEF Next

-----------------------------------------------------------------------------
(* How the rows grow.                                                      *)

(* The rows keep who they are by and whether they are spoken.              *)
RowsKept ==
  /\ Len(rows) \in Nat /\ DOMAIN rows = 1..Len(rows)
  /\ Len(rows') \in Nat /\ DOMAIN rows' = 1..Len(rows')
  /\ \A i \in DOMAIN rows : /\ i \in DOMAIN rows' /\ rows'[i].by = rows[i].by
                            /\ rows'[i].text = <<>> <=> rows[i].text = <<>>

LEMMA RowAppended ==
  ASSUME TypeOK, NEW r \in Row, rows' = Append(rows, r)
  PROVE  /\ RowsKept /\ rows' \in Seq(Row)
         /\ Len(rows') = Len(rows) + 1 /\ rows'[Len(rows) + 1] = r
         /\ \A i \in DOMAIN rows : rows'[i] = rows[i]
<1> DEFINE n == Len(rows)
<1>1. /\ rows \in Seq(Row) /\ n \in Nat /\ DOMAIN rows = 1..n
      /\ rows' \in Seq(Row) /\ Len(rows') = n + 1 /\ DOMAIN rows' = 1..(n + 1)
      /\ rows'[n + 1] = r /\ \A i \in 1..n : rows'[i] = rows[i]
  BY DEF TypeOK
<1> HIDE DEF n
<1>2. \A i \in 1..n : i \in 1..(n + 1)
  BY <1>1
<1> QED BY <1>1, <1>2 DEF RowsKept, n

LEMMA RowsUnchanged ==
  ASSUME TypeOK, rows' = rows
  PROVE  RowsKept
<1>1. rows \in Seq(Row)
  BY DEF TypeOK
<1>2. Len(rows) \in Nat /\ DOMAIN rows = 1..Len(rows)
  BY <1>1
<1> QED BY <1>2 DEF RowsKept

LEMMA RowTypes ==
  ASSUME NEW r \in Row
  PROVE  /\ r.by \in Owners \union Commands /\ r.text \in Seq(Chunk) /\ r.cut \in BOOLEAN
         /\ [r EXCEPT !.cut = TRUE] \in Row
         /\ \A chunk \in Chunk : [r EXCEPT !.text = Append(@, chunk)] \in Row
<1>1. /\ r = [by |-> r.by, text |-> r.text, cut |-> r.cut]
      /\ r.by \in Owners \union Commands /\ r.text \in Seq(Chunk) /\ r.cut \in BOOLEAN
  BY DEF Row
<1>2. \A chunk \in Chunk : Append(r.text, chunk) \in Seq(Chunk)
  BY <1>1
<1> QED BY <1>1, <1>2 DEF Row

(* A delivered chunk is the last of the last row, or the row is new.       *)
LEMMA ChunkRecorded ==
  ASSUME TypeOK, RowsHeld, NEW o \in Owners, NEW chunk \in Chunk, Record(o, chunk),
         open = o => Last(rows).by = o
  PROVE  /\ RowsKept /\ rows' \in Seq(Row)
         /\ \/ /\ open = o /\ rows # <<>> /\ Len(rows') = Len(rows) /\ rows[Len(rows)].by = o
               /\ rows[Len(rows)].text # <<>>
               /\ rows'[Len(rows)] = [rows[Len(rows)] EXCEPT !.text = Append(@, chunk)]
               /\ \A i \in DOMAIN rows : i # Len(rows) => rows'[i] = rows[i]
            \/ /\ open # o /\ Len(rows') = Len(rows) + 1
               /\ rows'[Len(rows) + 1] = [by |-> o, text |-> <<chunk>>, cut |-> FALSE]
               /\ \A i \in DOMAIN rows : rows'[i] = rows[i]
<1> DEFINE n == Len(rows)
<1>1. rows \in Seq(Row) /\ n \in Nat /\ DOMAIN rows = 1..n
  BY DEF TypeOK
<1>2. CASE open = o
  <2>1. rows # <<>> /\ rows[n].by = o /\ rows[n].text # <<>> /\ n \in 1..n
    BY <1>1, <1>2, Names DEF RowsHeld, Last
  <2>2. rows[n] \in Row /\ rows[n].text \in Seq(Chunk)
    <3>1. rows[n] \in Row
      BY <1>1, <2>1
    <3> QED BY <3>1, RowTypes
  <2>3. /\ rows' = [rows EXCEPT ![n].text = Append(@, chunk)]
        /\ DOMAIN rows' = 1..n
        /\ rows'[n] = [rows[n] EXCEPT !.text = Append(@, chunk)]
        /\ \A i \in 1..n : i # n => rows'[i] = rows[i]
    BY <1>1, <1>2, <2>1 DEF Record
  <2>4. Append(rows[n].text, chunk) # <<>>
    BY <2>2
  <2>5. rows'[n].by = rows[n].by /\ rows'[n].text = Append(rows[n].text, chunk)
    BY <2>2, <2>3 DEF Row
  <2>6. Len(rows') = n /\ rows' \in Seq(Row)
    <3>1. rows' \in [1..n -> Row]
      <4>1. [rows[n] EXCEPT !.text = Append(@, chunk)] \in Row
        BY ONLY <2>2, RowTypes, chunk \in Chunk
      <4> QED BY <1>1, <2>1, <2>3, <4>1
    <3>2. rows' \in Seq(Row)
      BY <1>1, <3>1
    <3> QED BY <1>1, <2>3, <3>2
  <2> QED BY <1>1, <1>2, <2>1, <2>3, <2>4, <2>5, <2>6 DEF RowsKept
<1>3. CASE open # o
  <2>1. rows' = Append(rows, [by |-> o, text |-> <<chunk>>, cut |-> FALSE])
    BY <1>3 DEF Record
  <2>2. [by |-> o, text |-> <<chunk>>, cut |-> FALSE] \in Row
    BY DEF Row
  <2> QED BY <1>3, <2>1, <2>2, RowAppended
<1> QED BY <1>2, <1>3

(* The mark an interrupted reply leaves is on its row, which is the last.  *)
LEMMA RowMarked ==
  ASSUME TypeOK, RowsHeld, NEW o \in Owners, MarkInterrupted(o)
  PROVE  /\ RowsKept /\ rows' \in Seq(Row) /\ Len(rows') = Len(rows)
         /\ \/ /\ HeardAny(o) /\ open = o /\ rows # <<>> /\ rows[Len(rows)].by = o
               /\ rows[Len(rows)].text # <<>> /\ open' = NoOne
               /\ rows'[Len(rows)] = [rows[Len(rows)] EXCEPT !.cut = TRUE]
               /\ \A i \in DOMAIN rows : i # Len(rows) => rows'[i] = rows[i]
            \/ ~HeardAny(o) /\ UNCHANGED <<rows, open>>
            \/ ~(open = o /\ Last(rows).by = o) /\ UNCHANGED <<rows, open>>
<1> DEFINE n == Len(rows)
<1>1. rows \in Seq(Row) /\ n \in Nat /\ DOMAIN rows = 1..n
  BY DEF TypeOK
<1>2. CASE HeardAny(o) /\ ~Displaced(o)
  <2>1. open = o /\ rows # <<>> /\ rows[n].by = o /\ rows[n].text # <<>> /\ n \in 1..n
    BY <1>1, <1>2, Names DEF RowsHeld, Last, Displaced
  <2>2. rows[n] \in Row
    BY <1>1, <2>1
  <2>3. /\ rows' = [rows EXCEPT ![n].cut = TRUE] /\ open' = NoOne
        /\ DOMAIN rows' = 1..n
        /\ rows'[n] = [rows[n] EXCEPT !.cut = TRUE]
        /\ \A i \in 1..n : i # n => rows'[i] = rows[i]
    BY <1>1, <1>2, <2>1 DEF MarkInterrupted
  <2>4. rows'[n].by = rows[n].by /\ rows'[n].text = rows[n].text
    BY <2>2, <2>3 DEF Row
  <2>5. Len(rows') = n /\ rows' \in Seq(Row)
    <3>1. rows' \in [1..n -> Row]
      <4>1. rows'[n] \in Row
        BY <2>2, <2>3, RowTypes
      <4> QED BY <1>1, <2>1, <2>3, <4>1
    <3>2. rows' \in Seq(Row)
      BY <1>1, <3>1
    <3> QED BY <1>1, <2>3, <3>2
  <2> QED BY <1>1, <1>2, <2>1, <2>3, <2>4, <2>5 DEF RowsKept
<1>3. CASE ~(HeardAny(o) /\ ~Displaced(o))
  <2>1. UNCHANGED <<rows, open>>
    BY <1>3 DEF MarkInterrupted
  <2> QED BY <1>1, <1>3, <2>1, RowsUnchanged DEF Displaced
<1> QED BY <1>2, <1>3

(* What is played is a chunk of a segment that was published.              *)
LEMMA ChunkPlayed ==
  ASSUME TypeOK, PlaysHeld, NEW o \in Owners, cons[o] = "playing"
  PROVE  /\ pos[o] \in DOMAIN made[o] /\ Current(o) \in Said /\ made[o] \in Seq(Said)
         /\ Heard(Current(o)) \in 0..(Chunks - 1)
         /\ <<Current(o).of, Current(o).nr, Heard(Current(o)) + 1>> \in Chunk
<1>1. PlayHeld(o)
  BY DEF PlaysHeld
<1>2. made[o] \in Seq(Said) /\ pos[o] \in Nat \ {0} /\ Chunks \in Nat \ {0}
  BY DEF TypeOK, SpeechAssumption
<1>3. pos[o] \in DOMAIN made[o]
  BY <1>1, <1>2 DEF PlayHeld, HasNext
<1>4. Current(o) \in Said
  BY <1>2, <1>3 DEF Current
<1>5. /\ Current(o).of \in Turns /\ Current(o).nr \in 1..Segments
      /\ Current(o).before \in 0..Chunks /\ Current(o).now \in 0..Chunks
  BY <1>4 DEF Said
<1>6. Heard(Current(o)) < Chunks
  BY <1>1 DEF PlayHeld
<1>7. Heard(Current(o)) \in 0..(Chunks - 1)
  BY <1>2, <1>5, <1>6 DEF Heard
<1>8. Heard(Current(o)) + 1 \in 1..Chunks
  BY <1>2, <1>7
<1> QED BY <1>2, <1>3, <1>4, <1>5, <1>7, <1>8 DEF Chunk

(* What an owner may publish next is a segment.                            *)
LEMMA SegmentTypes ==
  ASSUME TypeOK, NEW o \in Owners, NEW s \in NextSegment(o)
  PROVE  [of |-> s.of, nr |-> s.nr, before |-> s.before, now |-> 0] \in Said
<1>1. /\ made[o] \in Seq(Said) /\ Len(made[o]) \in Nat /\ script[o] \in Seq(Segment)
      /\ Segments \in Nat /\ Chunks \in Nat \ {0}
  BY DEF TypeOK, SpeechAssumption
<1>2. CASE o \in Turns
  <2>1. /\ s = [of |-> o, nr |-> Len(made[o]) + 1, before |-> 0]
        /\ Len(made[o]) + 1 \in 1..Segments
    BY <1>1, <1>2 DEF NextSegment
  <2> QED BY <1>1, <1>2, <2>1 DEF Said
<1>3. CASE o \notin Turns
  <2>1. s = script[o][Len(made[o]) + 1] /\ Len(made[o]) + 1 \in 1..Len(script[o])
    BY <1>1, <1>3 DEF NextSegment
  <2>2. s \in Segment
    BY <1>1, <2>1
  <2>3. s.of \in Turns /\ s.nr \in 1..Segments /\ s.before \in 0..Chunks
    BY <2>2 DEF Segment
  <2> QED BY <1>1, <2>3 DEF Said
<1> QED BY <1>2, <1>3

-----------------------------------------------------------------------------
(* The words of turns, and what refuses them.                              *)

(* A new row that is not a question.                                       *)
NoNewQuestion ==
  /\ RowsKept
  /\ \/ Len(rows') = Len(rows)
     \/ /\ Len(rows') = Len(rows) + 1
        /\ rows'[Len(rows) + 1].text # <<>> \/ rows'[Len(rows) + 1].by \notin Turns

LEMMA QuestionsSame ==
  ASSUME NoNewQuestion
  PROVE  \A t : HasQuestion(t)' <=> HasQuestion(t)
<1>1. /\ Len(rows) \in Nat /\ DOMAIN rows = 1..Len(rows) /\ DOMAIN rows' = 1..Len(rows')
      /\ \A i \in DOMAIN rows : /\ i \in DOMAIN rows' /\ rows'[i].by = rows[i].by
                                /\ rows'[i].text = <<>> <=> rows[i].text = <<>>
  BY DEF NoNewQuestion, RowsKept
<1>2. ASSUME NEW i \in DOMAIN rows', IsQuestion(rows'[i]) PROVE i \in DOMAIN rows
  <2>1. CASE Len(rows') = Len(rows)
    BY <1>1, <2>1
  <2>2. CASE /\ Len(rows') = Len(rows) + 1
             /\ rows'[Len(rows) + 1].text # <<>> \/ rows'[Len(rows) + 1].by \notin Turns
    <3>1. i # Len(rows) + 1
      BY <1>2, <2>2 DEF IsQuestion
    <3> QED BY <1>1, <2>2, <3>1
  <2> QED BY <2>1, <2>2 DEF NoNewQuestion
<1> QED BY <1>1, <1>2 DEF HasQuestion, IsQuestion

(* A step in which no turn starts to infer.                                *)
LEMMA WordsStay ==
  ASSUME WordsHeld, NoNewQuestion,
         gathered' => gathered \/ \E o \in Owners : tidy'[o] = "failed",
         \A o \in Owners : /\ tidy[o] = "failed" => tidy'[o] = "failed"
                           /\ Revoked(o) => Revoked(o)'
         , Closed => Closed',
         \A t \in Turns :
           /\ prod[t] \notin {"none", "ready"} => prod'[t] \notin {"none", "ready"}
           /\ prod'[t] \notin {"none", "ready"} =>
                \/ prod[t] \notin {"none", "ready"} /\ (prod[t] = "ended" => prod'[t] = "ended")
                \/ prod'[t] = "ended" /\ Revoked(t)'
           /\ call'[t] = "refused" =>
                \/ call[t] = "refused"
                \/ Closed' \/ \E o \in Owners \ {t} : tidy'[o] = "failed"
  PROVE  WordsHeld'
<1>1. \A t : HasQuestion(t)' <=> HasQuestion(t)
  BY QuestionsSame
<1>2. gathered' => \E o \in Owners : tidy'[o] = "failed"
  BY DEF WordsHeld
<1>3. ASSUME NEW t \in Turns
      PROVE  /\ prod'[t] \notin {"none", "ready"} =>
                  HasQuestion(t)' \/ (prod'[t] = "ended" /\ Revoked(t)')
             /\ HasQuestion(t)' => prod'[t] \notin {"none", "ready"}
  BY <1>1, Names DEF WordsHeld
<1>4. ASSUME NEW t \in Turns, call'[t] = "refused"
      PROVE  Closed' \/ \E o \in Owners \ {t} : tidy'[o] = "failed"
  <2>1. CASE call[t] = "refused"
    <3>1. Closed \/ \E o \in Owners \ {t} : tidy[o] = "failed"
      BY <2>1 DEF WordsHeld
    <3> QED BY <3>1
  <2> QED BY <1>4, <2>1
<1> QED BY <1>2, <1>3, <1>4 DEF WordsHeld

(* Taking the floor, which refuses nobody.                                 *)
LEMMA TakesFloorWords ==
  ASSUME TypeOK, FloorHeld, WordsHeld, Revoke, rows' = rows, gathered' = gathered,
         NEW c \in Callers, NEW stage \in {"settling", "stopping", "unwinding"}, Wait(c, stage)
  PROVE  WordsHeld'
<1>1. /\ \A o \in Owners : o # active => prod'[o] = prod[o] /\ tidy'[o] = tidy[o]
      /\ \A o \in Owners : o = active =>
           /\ prod'[o] = IF prod[o] = "ready" THEN "ended" ELSE prod[o]
           /\ tidy'[o] = "going"
  BY Revokes
<1>2. \A o \in Owners : o = active => tidy[o] = "none"
  BY Names DEF FloorHeld, ActiveHeld
<1>3. \A d \in Callers : call'[d] = call[d] \/ call'[d] = stage
  BY DEF Wait, TypeOK
<1>4. Closed => Closed'
  BY <1>3, Names DEF Closed
<1>5. \A t \in Turns : call'[t] = "refused" => call[t] = "refused"
  BY <1>3, Names
<1>6. NoNewQuestion
  BY RowsUnchanged DEF NoNewQuestion
<1>7. \A o \in Owners : /\ tidy[o] = "failed" => tidy'[o] = "failed"
                        /\ Revoked(o) => Revoked(o)'
  BY <1>1, <1>2 DEF Revoked
<1>8. \A t \in Turns :
        /\ prod[t] \notin {"none", "ready"} => prod'[t] \notin {"none", "ready"}
        /\ prod'[t] \notin {"none", "ready"} =>
             \/ prod[t] \notin {"none", "ready"} /\ (prod[t] = "ended" => prod'[t] = "ended")
             \/ prod'[t] = "ended" /\ Revoked(t)'
  <2> TAKE t \in Turns
  <2>1. t \in Owners
    BY Names
  <2>2. CASE t = active
    BY <1>1, <2>1, <2>2 DEF Revoked
  <2>3. CASE t # active
    BY <1>1, <2>1, <2>3
  <2> QED BY <2>2, <2>3
<1> QED BY <1>4, <1>5, <1>6, <1>7, <1>8, WordsStay

(* A caller that goes on, whatever it is told.                             *)
LEMMA CallGoesOnWords ==
  ASSUME TypeOK, WordsHeld, NoNewQuestion, NEW c \in Callers, NEW how, how # "idle",
         call' = [call EXCEPT ![c] = how], gathered' => gathered, UNCHANGED <<prod, tidy>>,
         c \in Turns /\ how = "refused" => Closed \/ \E o \in Owners \ {c} : tidy[o] = "failed"
  PROVE  WordsHeld'
<1>1. \A d \in Callers : call'[d] = IF d = c THEN how ELSE call[d]
  BY DEF TypeOK
<1>2. Closed => Closed'
  BY <1>1, Names DEF Closed
<1>3. \A t \in Turns : call'[t] = "refused" =>
        call[t] = "refused" \/ Closed' \/ \E o \in Owners \ {t} : tidy'[o] = "failed"
  BY <1>1, <1>2, Names
<1> QED BY <1>2, <1>3, WordsStay DEF Revoked

(* A refusal of a turn that has done nothing yet is somebody else's fault. *)
LEMMA RefusalsGrounded ==
  ASSUME FloorInd, WordsHeld, NEW o \in Owners
  PROVE  /\ call[o] = "settling" /\ (gathered \/ ForegroundClosed) =>
              Closed \/ \E p \in Owners \ {o} : tidy[p] = "failed"
         /\ call[o] = "draining" /\ (Undrained \/ ForegroundClosed) =>
              Closed \/ \E p \in Owners \ {o} : tidy[p] = "failed"
<1>0. /\ ActiveHeld /\ DrainHeld /\ \A p \in Owners : StageHeld(p) /\ RevokedHeld(p)
      /\ TypeOK
  BY DEF FloorInd, FloorHeld
<1>1. ForegroundClosed => Closed
  BY DEF ForegroundClosed, Closed
<1>2. call[o] \in {"settling", "draining"} => tidy[o] = "none" /\ prod[o] = "none" /\ active = NoOne
  BY <1>0 DEF StageHeld, Unopened, ActiveHeld
<1>3. ASSUME call[o] = "settling", gathered PROVE \E p \in Owners \ {o} : tidy[p] = "failed"
  BY <1>2, <1>3 DEF WordsHeld
<1>4. ASSUME call[o] = "draining", Undrained PROVE \E p \in Owners \ {o} : tidy[p] = "failed"
  <2>1. PICK p \in Owners : prod[p] = "running"
    BY <1>4 DEF Undrained
  <2>2. p # o /\ active # p
    BY <1>2, <1>4, <2>1, Names
  <2>3. tidy[p] # "none" /\ tidy[p] # "done"
    BY <1>0, <2>1, <2>2 DEF StageHeld, RevokedHeld, Revoked
  <2>4. tidy[p] # "going"
    BY <1>0, <1>4 DEF DrainHeld, Draining, Cleanups
  <2>5. tidy[p] = "failed"
    BY <1>0, <2>3, <2>4 DEF TypeOK
  <2> QED BY <2>2, <2>5
<1> QED BY <1>1, <1>3, <1>4

LEMMA OpensTurnWords ==
  ASSUME FloorInd, WordsHeld, NEW o \in Owners, Open(o), Unopened(o), rows' = rows, gathered' => gathered
  PROVE  WordsHeld'
<1>1. TypeOK /\ StageHeld(o) /\ NoNewQuestion
  BY RowsUnchanged DEF FloorInd, FloorHeld, NoNewQuestion
<1>2. tidy[o] = "none" /\ prod[o] = "none"
  BY <1>1 DEF StageHeld
<1>3. /\ \A d \in Callers : call'[d] = call[d] \/ (d = o /\ call'[d] \in {"overtaken", "speaking"})
      /\ \A p \in Owners : p # o => prod'[p] = prod[p] /\ tidy'[p] = tidy[p]
      /\ \/ prod'[o] = "ended" /\ tidy'[o] = "done"
         \/ prod'[o] = "ready" /\ tidy'[o] = "none"
  <2>1. CASE Overtaken(o)
    <3>1. /\ call' = [call EXCEPT ![o] = "overtaken"]
          /\ prod' = [prod EXCEPT ![o] = "ended"] /\ tidy' = [tidy EXCEPT ![o] = "done"]
      BY <2>1 DEF Open
    <3> QED BY <1>1, <1>2, <3>1 DEF TypeOK
  <2>2. CASE ~Overtaken(o)
    <3>1. /\ call' = [call EXCEPT ![o] = "speaking"]
          /\ prod' = [prod EXCEPT ![o] = "ready"] /\ tidy' = tidy
      BY <2>2 DEF Open
    <3> QED BY <1>1, <1>2, <3>1 DEF TypeOK
  <2> QED BY <2>1, <2>2
<1>4. Closed => Closed'
  BY <1>3, Names DEF Closed
<1>5. \A t \in Turns : call'[t] = "refused" => call[t] = "refused"
  BY <1>3, Names
<1>6. \A p \in Owners : /\ tidy[p] = "failed" => tidy'[p] = "failed"
                        /\ Revoked(p) => Revoked(p)'
  BY <1>2, <1>3 DEF Revoked
<1>7. \A t \in Turns :
        /\ prod[t] \notin {"none", "ready"} => prod'[t] \notin {"none", "ready"}
        /\ prod'[t] \notin {"none", "ready"} =>
             \/ prod[t] \notin {"none", "ready"} /\ (prod[t] = "ended" => prod'[t] = "ended")
             \/ prod'[t] = "ended" /\ Revoked(t)'
  <2> TAKE t \in Turns
  <2>1. t \in Owners
    BY Names
  <2>2. CASE t = o
    BY <1>2, <1>3, <2>1, <2>2 DEF Revoked
  <2>3. CASE t # o
    BY <1>3, <2>1, <2>3
  <2> QED BY <2>2, <2>3
<1> QED BY <1>1, <1>4, <1>5, <1>6, <1>7, WordsStay

LEMMA FloorsWords ==
  ASSUME FloorInd, WordsHeld, NEW o \in Owners, Floors(o)
  PROVE  WordsHeld'
<1>0. TypeOK /\ FloorHeld /\ o \in Callers
  BY Names DEF FloorInd
<1>1. ASSUME rows' = rows PROVE NoNewQuestion
  BY <1>0, <1>1, RowsUnchanged DEF NoNewQuestion
<1>2. CASE Enter(o)
  <2>1. call[o] = "settling" /\ rows' = rows /\ (gathered' => gathered)
    BY <1>2 DEF Enter, Released
  <2>2. CASE (gathered \/ ForegroundClosed) /\ Refuse(o)
    BY <1>0, <1>1, <2>1, <2>2, RefusalsGrounded, CallGoesOnWords DEF Refuse, EndCall
  <2>3. CASE EndCall(o, "pending") \/ EndCall(o, "draining")
    BY <1>0, <1>1, <2>1, <2>3, CallGoesOnWords DEF EndCall
  <2>4. CASE Open(o)
    BY <2>1, <2>4, OpensTurnWords DEF Unopened
  <2> QED BY <1>2, <2>2, <2>3, <2>4 DEF Enter
<1>3. CASE StartDrained(o)
  <2>1. call[o] = "draining" /\ rows' = rows /\ (gathered' => gathered)
    BY <1>3 DEF StartDrained
  <2>2. CASE ForegroundClosed /\ Refuse(o)
    BY <1>0, <1>1, <2>1, <2>2, RefusalsGrounded, CallGoesOnWords DEF Refuse, EndCall
  <2>3. CASE Open(o)
    BY <2>1, <2>3, OpensTurnWords DEF Unopened
  <2> QED BY <1>3, <2>2, <2>3 DEF StartDrained
<1>4. CASE DrainGivenUp(o)
  <2>1. call[o] = "draining"
    BY <1>0, <1>4 DEF DrainGivenUp, FloorHeld, StageHeld
  <2> QED BY <1>0, <1>1, <1>4, <2>1, RefusalsGrounded, CallGoesOnWords DEF DrainGivenUp, Refuse, EndCall
<1>5. CASE Finish(o)
  BY <1>0, <1>1, <1>5, CallGoesOnWords DEF Finish
<1>6. CASE Unwind(o)
  <2>1. CASE active = o
    BY <1>0, <1>6, <2>1, TakesFloorWords DEF Unwind
  <2>2. CASE active # o
    <3>1. call' = [call EXCEPT ![o] = "unwinding"] /\ rows' = rows /\ UNCHANGED <<gathered, prod, tidy>>
      BY <1>6, <2>2 DEF Unwind, Wait
    <3> QED BY <1>0, <1>1, <3>1, CallGoesOnWords
  <2> QED BY <2>1, <2>2
<1>7. CASE Raise(o)
  BY <1>0, <1>1, <1>7, CallGoesOnWords DEF Raise, Released
<1> QED BY <1>2, <1>3, <1>4, <1>5, <1>6, <1>7 DEF Floors

LEMMA CallingsWords ==
  ASSUME FloorInd, WordsHeld, Callings
  PROVE  WordsHeld'
<1>0. TypeOK /\ FloorHeld
  BY DEF FloorInd
<1>1. ASSUME rows' = rows PROVE NoNewQuestion
  BY <1>0, <1>1, RowsUnchanged DEF NoNewQuestion
<1>2. ASSUME NEW t \in Turns, Respond(t) PROVE WordsHeld'
  BY <1>0, <1>2, Names, TakesFloorWords DEF Respond
<1>3. ASSUME NEW r \in Replays, Resume(r) PROVE WordsHeld'
  <2>1. Revoke /\ r \in Callers
    BY <1>3, Names DEF Resume, Revoke
  <2> QED BY <1>0, <1>3, <2>1, TakesFloorWords DEF Resume
<1>4. ASSUME NEW s \in Stops, (\E keep \in BOOLEAN : Stop(s, keep)) \/ StopReturns(s) PROVE WordsHeld'
  <2>0. s \in Callers /\ s \notin Turns
    BY Names
  <2>1. CASE \E keep \in BOOLEAN : Stop(s, keep)
    BY <1>0, <2>0, <2>1, TakesFloorWords DEF Stop
  <2>2. CASE StopReturns(s)
    <3>1. PICK how \in {"refused", "returned"} : call' = [call EXCEPT ![s] = how]
      BY <2>2 DEF StopReturns
    <3> QED BY <1>0, <1>1, <2>0, <2>2, <3>1, CallGoesOnWords DEF StopReturns, Released
  <2> QED BY <1>4, <2>1, <2>2
<1>5. ASSUME NEW c \in Commands, Silence(c) \/ RecordCommand(c) \/ CommandRefused(c) \/ LookAgain(c)
      PROVE  WordsHeld'
  <2>0. c \in Callers /\ c \notin Turns
    BY Names
  <2>1. CASE Silence(c)
    BY <1>0, <2>0, <2>1, TakesFloorWords DEF Silence
  <2>2. CASE RecordCommand(c)
    <3>1. NoNewQuestion
      <4>1. [by |-> c, text |-> <<>>, cut |-> FALSE] \in Row
        BY DEF Row
      <4>2. rows' = Append(rows, [by |-> c, text |-> <<>>, cut |-> FALSE])
        BY <2>2 DEF RecordCommand
      <4>3. /\ RowsKept /\ Len(rows') = Len(rows) + 1
            /\ rows'[Len(rows) + 1] = [by |-> c, text |-> <<>>, cut |-> FALSE]
        BY <1>0, <4>1, <4>2, RowAppended
      <4> QED BY <2>0, <4>3 DEF NoNewQuestion
    <3>2. call' = [call EXCEPT ![c] = "returned"] /\ UNCHANGED <<gathered, prod, tidy>>
      BY <2>2 DEF RecordCommand
    <3> QED BY <1>0, <2>0, <3>1, <3>2, CallGoesOnWords
  <2>3. CASE CommandRefused(c)
    BY <1>0, <1>1, <2>0, <2>3, CallGoesOnWords DEF CommandRefused
  <2>4. CASE LookAgain(c)
    <3>1. PICK how \in {"refused", "again"} : call' = [call EXCEPT ![c] = how]
      BY <2>4 DEF LookAgain
    <3> QED BY <1>0, <1>1, <2>0, <2>4, <3>1, CallGoesOnWords DEF LookAgain, Released
  <2> QED BY <1>5, <2>1, <2>2, <2>3, <2>4
<1>6. CASE BeginClose
  BY <1>0, <1>6, Names, TakesFloorWords DEF BeginClose
<1>7. CASE CloseForeground \/ CloseDrained \/ DrainGivenUp(Close)
  <2>1. PICK how \in {"failing", "draining", "refused", "returned"} : call' = [call EXCEPT ![Close] = how]
    BY <1>7 DEF CloseForeground, CloseDrained, DrainGivenUp, Refuse, EndCall
  <2>2. rows' = rows /\ (gathered' => gathered) /\ UNCHANGED <<prod, tidy>>
    BY <1>7 DEF CloseForeground, CloseDrained, DrainGivenUp, Refuse, EndCall, Released
  <2>3. Close \notin Turns /\ Close \in Callers
    BY Names
  <2> QED BY <1>0, <1>1, <2>1, <2>2, <2>3, CallGoesOnWords
<1> QED BY <1>2, <1>3, <1>4, <1>5, <1>6, <1>7 DEF Callings

LEMMA ProducerWords ==
  ASSUME FloorInd, WordsHeld, NEW o \in Owners, Producer(o)
  PROVE  WordsHeld'
<1>0. TypeOK /\ o \in Callers /\ StageHeld(o)
  BY Names DEF FloorInd, FloorHeld
<1>1. ASSUME rows' = rows, UNCHANGED <<calls, tidy>>,
             NEW q \in {"running", "ended", "failed"}, prod' = [prod EXCEPT ![o] = q],
             prod[o] = "running"
      PROVE  WordsHeld'
  <2>1. NoNewQuestion
    BY <1>0, <1>1, RowsUnchanged DEF NoNewQuestion
  <2>2. \A p \in Owners : prod'[p] = IF p = o THEN q ELSE prod[p]
    BY <1>0, <1>1 DEF TypeOK
  <2>3. Closed' = Closed /\ \A p \in Owners : Revoked(p)' <=> Revoked(p)
    BY <1>1 DEF Closed, Revoked
  <2> QED BY <1>1, <2>1, <2>2, <2>3, Names, WordsStay
<1>2. CASE Begin(o)
  <2>1. /\ prod[o] = "ready" /\ UNCHANGED <<calls, tidy>>
        /\ \A p \in Owners : prod'[p] = IF p = o THEN "running" ELSE prod[p]
    BY <1>0, <1>2 DEF Begin, TypeOK
  <2>2. Closed' = Closed /\ \A p \in Owners : Revoked(p)' <=> Revoked(p)
    BY <2>1 DEF Closed, Revoked
  <2>3. \A t \in Turns : HasQuestion(t)' <=> HasQuestion(t) \/ t = o
    <3>1. CASE o \in Turns
      <4>1. [by |-> o, text |-> <<>>, cut |-> FALSE] \in Row
        BY DEF Row
      <4>2. rows' = Append(rows, [by |-> o, text |-> <<>>, cut |-> FALSE])
        BY <1>2, <3>1 DEF Begin
      <4>3. /\ RowsKept /\ Len(rows') = Len(rows) + 1
            /\ rows'[Len(rows) + 1] = [by |-> o, text |-> <<>>, cut |-> FALSE]
        BY <1>0, <4>1, <4>2, RowAppended
      <4>4. /\ \A i \in DOMAIN rows' : i \in DOMAIN rows \/ i = Len(rows) + 1
            /\ Len(rows) + 1 \in DOMAIN rows'
        BY <4>3 DEF RowsKept
      <4>5. IsQuestion(rows'[Len(rows) + 1]) /\ rows'[Len(rows) + 1].by = o
        BY <3>1, <4>3 DEF IsQuestion
      <4> QED BY <4>3, <4>4, <4>5 DEF HasQuestion, IsQuestion, RowsKept
    <3>2. CASE o \notin Turns
      <4>1. rows' = rows
        BY <1>2, <3>2 DEF Begin
      <4> QED BY <3>2, <4>1 DEF HasQuestion
    <3> QED BY <3>1, <3>2
  <2>4. gathered' => \E p \in Owners : tidy'[p] = "failed"
    BY <2>1 DEF WordsHeld
  <2>5. ASSUME NEW t \in Turns
        PROVE  /\ prod'[t] \notin {"none", "ready"} =>
                    HasQuestion(t)' \/ (prod'[t] = "ended" /\ Revoked(t)')
               /\ call'[t] = "refused" => Closed' \/ \E p \in Owners \ {t} : tidy'[p] = "failed"
               /\ HasQuestion(t)' => prod'[t] \notin {"none", "ready"}
    BY <2>1, <2>2, <2>3, Names DEF WordsHeld
  <2> QED BY <2>4, <2>5 DEF WordsHeld
<1>3. CASE Publish(o)
  <2>1. prod' = [prod EXCEPT ![o] = "running"]
    BY <1>0, <1>3 DEF Publish, TypeOK
  <2> QED BY <1>1, <1>3, <2>1 DEF Publish
<1>4. CASE ProducerEnds(o)
  BY <1>1, <1>4 DEF ProducerEnds
<1>5. CASE ProducerFails(o)
  BY <1>1, <1>5 DEF ProducerFails
<1> QED BY <1>2, <1>3, <1>4, <1>5 DEF Producer

LEMMA ConsumerWords ==
  ASSUME FloorInd, WordsHeld, RowsHeld, PlaysHeld, NEW o \in Owners, Consumer(o)
  PROVE  WordsHeld'
<1>0. TypeOK
  BY DEF FloorInd
<1>1. UNCHANGED <<calls, prod, tidy>>
  BY DEF Consumer, Play, SegmentEnds, Deliver, ReplyEnds, ConsumerFails, CleanedUp,
         CleanupGivenUp, ProviderStops
<1>2. NoNewQuestion
  <2>1. CASE rows' = rows
    BY <1>0, <2>1, RowsUnchanged DEF NoNewQuestion
  <2>2. CASE Deliver(o)
    <3> DEFINE chunk == <<Current(o).of, Current(o).nr, Heard(Current(o)) + 1>>
    <3>1. Record(o, chunk) /\ (open = o => Last(rows).by = o)
      BY <2>2 DEF Deliver
    <3>2. chunk \in Chunk
      BY <1>0, <2>2, ChunkPlayed DEF Deliver, Started
    <3> HIDE DEF chunk
    <3>3. RowsKept /\ (\/ Len(rows') = Len(rows)
                       \/ /\ Len(rows') = Len(rows) + 1
                          /\ rows'[Len(rows) + 1] = [by |-> o, text |-> <<chunk>>, cut |-> FALSE])
      BY <1>0, <3>1, <3>2, ChunkRecorded
    <3>4. <<chunk>> # <<>>
      OBVIOUS
    <3>5. CASE Len(rows') = Len(rows)
      BY <3>3, <3>5 DEF NoNewQuestion
    <3>6. CASE /\ Len(rows') = Len(rows) + 1
               /\ rows'[Len(rows) + 1] = [by |-> o, text |-> <<chunk>>, cut |-> FALSE]
      <4>1. rows'[Len(rows) + 1].text # <<>>
        BY ONLY <3>4, <3>6
      <4> QED BY <3>3, <3>6, <4>1 DEF NoNewQuestion
    <3> QED BY <3>3, <3>5, <3>6
  <2>3. CASE ConsumerFails(o)
    BY <1>0, <2>3, RowMarked DEF ConsumerFails, NoNewQuestion
  <2> QED BY <2>1, <2>2, <2>3 DEF Consumer, Play, SegmentEnds, ReplyEnds, CleanedUp,
              CleanupGivenUp, ProviderStops
<1>3. Closed' = Closed /\ \A p \in Owners : Revoked(p)' <=> Revoked(p)
  BY <1>1 DEF Closed, Revoked
<1> QED BY <1>1, <1>2, <1>3, Names, WordsStay

LEMMA SettleWords ==
  ASSUME FloorInd, WordsHeld, NEW o \in Owners, NEW drained \in BOOLEAN, NEW settled \in BOOLEAN,
         Settle(o, drained, settled)
  PROVE  WordsHeld'
<1>0. TypeOK
  BY DEF FloorInd
<1>1. /\ UNCHANGED <<call, prod, rows>> /\ tidy[o] = "going"
      /\ tidy'[o] \in {"failed", "done"} /\ \A p \in Owners : p # o => tidy'[p] = tidy[p]
      /\ gathered' => gathered \/ tidy'[o] = "failed"
  BY <1>0 DEF Settle, TypeOK
<1>2. NoNewQuestion
  BY <1>0, <1>1, RowsUnchanged DEF NoNewQuestion
<1>3. Closed' = Closed /\ \A p \in Owners : Revoked(p) => Revoked(p)'
  BY <1>1 DEF Closed, Revoked
<1>4. \A p \in Owners : tidy[p] = "failed" => tidy'[p] = "failed"
  BY <1>1
<1>5. \A t \in Turns : prod'[t] = prod[t] /\ call'[t] = call[t]
  BY <1>1
<1>6. gathered' => gathered \/ \E p \in Owners : tidy'[p] = "failed"
  BY <1>1
<1> QED BY <1>2, <1>3, <1>4, <1>5, <1>6, WordsStay

LEMMA WordsStep ==
  ASSUME FloorInd, WordsHeld, RowsHeld, PlaysHeld, Next
  PROVE  WordsHeld'
<1>1. CASE Callings
  BY <1>1, CallingsWords
<1>2. ASSUME NEW o \in Owners, Floors(o) \/ Producer(o) \/ Consumer(o) \/ Cleanup(o)
      PROVE  WordsHeld'
  BY <1>2, FloorsWords, ProducerWords, ConsumerWords, SettleWords DEF Cleanup
<1> QED BY <1>1, <1>2 DEF Next

-----------------------------------------------------------------------------
(* The rows of replies.                                                    *)

(* How a consumer may go on without touching its row.                      *)
GoesOn(o) ==
  /\ cons[o] \notin {"none", "ready"} => cons'[o] \notin {"none", "ready"}
  /\ cons'[o] \in {"next", "playing"} => cons[o] \in {"none", "ready", "next", "playing"}
  /\ cons'[o] \in {"cleanup", "broken"} => cons[o] \in {"none", "ready", "cleanup", "broken"}
  /\ cons'[o] = "spoken" => cons[o] \in {"none", "ready", "spoken"}

LEMMA RowsStay ==
  ASSUME TypeOK, RowsHeld, UNCHANGED <<rows, open>>, retained \subseteq retained',
         \A o \in Owners : GoesOn(o) /\ (HeardAny(o) => HeardAny(o)')
  PROVE  RowsHeld'
<1>1. ASSUME NEW i \in DOMAIN rows PROVE RowHeld(i)'
  <2>1. RowHeld(i)
    BY DEF RowsHeld
  <2> QED BY <2>1 DEF RowHeld, Spoken, DisplacedRow, GoesOn
<1>2. ASSUME open # NoOne PROVE cons'[open] \notin {"none", "ready"}
  <2>1. open \in Owners /\ cons[open] \notin {"none", "ready"}
    BY <1>2 DEF TypeOK, RowsHeld
  <2> QED BY <2>1 DEF GoesOn
<1> QED BY <1>1, <1>2 DEF RowsHeld, Spoken, Last

(* A silent row comes after a reply's only if the reply is given up on, or *)
(* has ended.                                                              *)
LEMMA SilentRow ==
  ASSUME TypeOK, RowsHeld, UNCHANGED <<open, retained, made>>,
         NEW r \in Row, r.text = <<>>, rows' = Append(rows, r),
         \A o \in Owners : /\ GoesOn(o)
                           /\ cons[o] \in {"next", "playing"} => o \in retained /\ r.by \in Commands
                           /\ r.by = o => cons[o] \in {"none", "ready"}
  PROVE  RowsHeld'
<1> DEFINE n == Len(rows)
<1>0. RowsKept /\ Len(rows') = n + 1 /\ rows'[n + 1] = r /\ \A i \in DOMAIN rows : rows'[i] = rows[i]
  BY RowAppended
<1>1. /\ n \in Nat /\ DOMAIN rows = 1..n /\ DOMAIN rows' = 1..(n + 1) /\ Len(rows') = n + 1
      /\ rows'[n + 1] = r /\ \A i \in 1..n : rows'[i] = rows[i]
  BY <1>0 DEF RowsKept
<1> HIDE DEF n
<1>2. ASSUME NEW i \in 1..n PROVE RowHeld(i)'
  <2> SUFFICES ASSUME Spoken(i) PROVE RowHeld(i)'
    BY <1>1 DEF RowHeld, Spoken
  <2>1. RowHeld(i) /\ rows'[i] = rows[i] /\ rows[i].by \in Owners
    BY <1>1 DEF RowsHeld, RowHeld
  <2>2. i < Len(rows') /\ (i = n \/ i < n)
    BY <1>1
  <2>3. i = n => rows'[i + 1].by = r.by
    BY <1>1
  <2>4. i < n => rows'[i + 1] = rows[i + 1]
    BY <1>1
  <2>5. DisplacedRow(rows[i].by, i) => DisplacedRow(rows[i].by, i)'
    BY <2>1, <2>2, <2>4 DEF DisplacedRow, n
  <2>6. cons[rows[i].by] \in {"next", "playing"} => DisplacedRow(rows[i].by, i)'
    <3> SUFFICES ASSUME cons[rows[i].by] \in {"next", "playing"} PROVE DisplacedRow(rows[i].by, i)'
      OBVIOUS
    <3>1. CASE i = n
      BY <2>1, <2>2, <2>3, <3>1 DEF DisplacedRow
    <3>2. CASE i < n
      BY <2>1, <2>5, <3>2, <1>1 DEF RowHeld, n
    <3> QED BY <2>2, <3>1, <3>2
  <2>7. GoesOn(rows[i].by) /\ (HeardAny(rows[i].by) => HeardAny(rows[i].by)')
    BY <2>1 DEF HeardAny
  <2> QED BY <2>1, <2>5, <2>6, <2>7 DEF RowHeld, Spoken, GoesOn
<1>3. \A i \in DOMAIN rows' : Spoken(i)' => i \in 1..n /\ Spoken(i)
  <2> SUFFICES ASSUME NEW i \in 1..(n + 1), Spoken(i)' PROVE i \in 1..n /\ Spoken(i)
    BY <1>1
  <2>1. i # n + 1
    BY <1>1 DEF Spoken
  <2>2. i \in 1..n
    BY <1>1, <2>1
  <2> QED BY <1>1, <2>2 DEF Spoken
<1>4. \A i \in DOMAIN rows' : RowHeld(i)'
  BY <1>2, <1>3 DEF RowHeld
<1>5. \A i, j \in DOMAIN rows' : Spoken(i)' /\ Spoken(j)' /\ rows'[i].by = rows'[j].by => i = j
  BY <1>1, <1>3 DEF RowsHeld
<1>6. ASSUME open # NoOne PROVE rows' # <<>> /\ cons'[open] \notin {"none", "ready"} /\ Last(rows').by # open
  <2>1. open \in Owners /\ cons[open] \notin {"none", "ready"}
    BY <1>6 DEF TypeOK, RowsHeld
  <2>2. Last(rows') = r /\ rows' # <<>>
    <3>1. Len(rows') # 0
      BY <1>1
    <3>2. Last(rows') = rows'[Len(rows')]
      BY DEF Last
    <3> QED BY <1>1, <3>1, <3>2
  <2> QED BY <2>1, <2>2 DEF GoesOn
<1> QED BY <1>4, <1>5, <1>6 DEF RowsHeld

LEMMA DeliverRows ==
  ASSUME FloorInd, RowsHeld, PlaysHeld, NEW o \in Owners, Deliver(o)
  PROVE  RowsHeld'
<1>n. PICK n \in Nat : n = Len(rows)
  BY DEF FloorInd, TypeOK
<1> USE <1>n
<1> DEFINE chunk == <<Current(o).of, Current(o).nr, Heard(Current(o)) + 1>>
<1>0. TypeOK /\ RevokedHeld(o) /\ ActiveHeld
  BY DEF FloorInd, FloorHeld
<1>1. /\ cons[o] = "playing" /\ ~Revoked(o) /\ Record(o, chunk) /\ open' = o /\ retained' = retained
      /\ cons'[o] = "next" /\ \A p \in Owners : p # o => cons'[p] = cons[p]
  BY <1>0 DEF Deliver, Started, Cut, Record, TypeOK
<1>2. active = o /\ \A p \in Owners : p # o => ~Live(p)
  BY <1>0, <1>1, Names DEF RevokedHeld, Revoked, Live, ActiveHeld
<1>3. chunk \in Chunk
  BY <1>0, <1>1, ChunkPlayed
<1>4. /\ RowsKept
      /\ \/ /\ open = o /\ rows # <<>> /\ Len(rows') = n /\ rows[n].by = o
            /\ rows[n].text # <<>>
            /\ rows'[n] = [rows[n] EXCEPT !.text = Append(@, chunk)]
            /\ \A i \in DOMAIN rows : i # n => rows'[i] = rows[i]
         \/ /\ open # o /\ Len(rows') = n + 1
            /\ rows'[n + 1] = [by |-> o, text |-> <<chunk>>, cut |-> FALSE]
            /\ \A i \in DOMAIN rows : rows'[i] = rows[i]
  <2>1. open = o => Last(rows).by = o
    BY DEF Deliver
  <2> HIDE DEF chunk
  <2> QED BY <1>0, <1>1, <1>3, <2>1, ChunkRecorded
<1>5. HeardAny(o)' /\ \A p \in Owners : HeardAny(p) => HeardAny(p)'
  <2>1. /\ made \in [Owners -> Seq(Said)] /\ pos[o] \in DOMAIN made[o] /\ made[o] \in Seq(Said)
        /\ made' = [made EXCEPT ![o][pos[o]].now = @ + 1]
    BY <1>0, <1>1, ChunkPlayed DEF Deliver, TypeOK
  <2>2. /\ \A p \in Owners : p # o => made'[p] = made[p]
        /\ DOMAIN made'[o] = DOMAIN made[o]
        /\ made'[o][pos[o]] = [made[o][pos[o]] EXCEPT !.now = @ + 1]
    BY <2>1
  <2>3. made[o][pos[o]] \in Said
    BY <2>1
  <2>4. made[o][pos[o]].now \in Nat
    BY <2>3 DEF Said
  <2>5. made'[o][pos[o]].now = made[o][pos[o]].now + 1
    BY <2>2, <2>3 DEF Said
  <2>6. made'[o][pos[o]].now > 0
    BY <2>4, <2>5
  <2>7. HeardAny(o)'
    BY <2>1, <2>2, <2>6 DEF HeardAny
  <2> QED BY <2>2, <2>7 DEF HeardAny
<1>6. /\ n \in Nat /\ DOMAIN rows = 1..n /\ DOMAIN rows' = 1..Len(rows')
      /\ Len(rows') \in Nat /\ n <= Len(rows')
  <2>1. Len(rows') = n \/ Len(rows') = n + 1
    BY <1>4
  <2>2. DOMAIN rows = 1..n /\ DOMAIN rows' = 1..Len(rows') /\ Len(rows') \in Nat
    BY <1>4 DEF RowsKept
  <2>3. n <= n /\ n <= n + 1
    OBVIOUS
  <2>4. n <= Len(rows')
    BY <2>1, <2>3
  <2> QED BY <2>2, <2>4
<1> HIDE DEF chunk
<1>7. ASSUME NEW i \in 1..n, Spoken(i), rows[i].by # o, rows'[i] = rows[i]
      PROVE  RowHeld(i)'
  <2>1. RowHeld(i) /\ rows[i].by \in Owners
    BY <1>6, <1>7 DEF RowsHeld, RowHeld
  <2>2. cons[rows[i].by] \notin {"next", "playing"} /\ cons'[rows[i].by] = cons[rows[i].by]
    BY <1>1, <1>2, <1>7, <2>1 DEF Live
  <2>3. DisplacedRow(rows[i].by, i) => DisplacedRow(rows[i].by, i)'
    <3> SUFFICES ASSUME DisplacedRow(rows[i].by, i) PROVE DisplacedRow(rows[i].by, i)'
      OBVIOUS
    <3>1. i < n /\ i + 1 \in 1..n /\ i < Len(rows')
      BY <1>6 DEF DisplacedRow
    <3>2. rows'[i + 1].by = rows[i + 1].by
      BY <1>4, <1>6, <3>1 DEF RowsKept
    <3> QED BY <1>1, <1>7, <3>1, <3>2 DEF DisplacedRow
  <2> QED BY <1>5, <1>7, <2>1, <2>2, <2>3 DEF RowHeld, Spoken
<1>8. CASE open = o
  <2>1. /\ n \in 1..n /\ Len(rows') = n /\ rows[n].by = o /\ rows[n].text # <<>>
        /\ rows'[n] = [rows[n] EXCEPT !.text = Append(@, chunk)]
        /\ \A i \in 1..n : i # n => rows'[i] = rows[i]
    <3>1. n # 0
      BY <1>0, <1>4, <1>8 DEF TypeOK
    <3> QED BY <1>4, <1>6, <1>8, <3>1
  <2>2. \A i \in 1..n : Spoken(i) /\ rows[i].by = o => i = n
    BY <1>6, <2>1 DEF RowsHeld, Spoken
  <2>3. \A i \in 1..n : rows'[i].by = rows[i].by /\ (Spoken(i)' <=> Spoken(i))
    BY <1>4, <1>6 DEF RowsKept, Spoken
  <2>4. RowHeld(n)'
    <3>1. RowHeld(n) /\ ~rows[n].cut
      BY <1>1, <1>6, <2>1 DEF RowsHeld, RowHeld, Spoken
    <3>2. rows'[n].cut = rows[n].cut
      <4>1. rows[n] \in Row
        BY <1>0, <1>6, <2>1 DEF TypeOK
      <4>2. rows[n] = [by |-> rows[n].by, text |-> rows[n].text, cut |-> rows[n].cut]
        BY <4>1 DEF Row
      <4> QED BY <2>1, <4>2
    <3>3. rows'[n].by = o /\ cons'[o] = "next" /\ open' = o /\ HeardAny(o)'
      BY <1>1, <1>5, <2>1, <2>3
    <3> QED BY <2>1, <3>1, <3>2, <3>3 DEF RowHeld
  <2>5. \A i \in DOMAIN rows' : RowHeld(i)'
    <3> SUFFICES ASSUME NEW i \in 1..n, i # n, Spoken(i) PROVE RowHeld(i)'
      BY <1>6, <2>1, <2>3, <2>4 DEF RowHeld
    <3> QED BY <1>7, <2>1, <2>2
  <2>6. \A i, j \in DOMAIN rows' : Spoken(i)' /\ Spoken(j)' /\ rows'[i].by = rows'[j].by => i = j
    BY <1>6, <2>1, <2>3 DEF RowsHeld
  <2>7. rows' # <<>> /\ Last(rows').text # <<>>
    <3>1. Last(rows') = rows'[n] /\ Len(rows') # 0
      BY <1>6, <2>1 DEF Last
    <3>2. Spoken(n)'
      BY <2>1, <2>3 DEF Spoken
    <3> QED BY <3>1, <3>2 DEF Spoken
  <2> QED BY <1>1, <2>5, <2>6, <2>7 DEF RowsHeld
<1>9. CASE open # o
  <2>1. /\ Len(rows') = n + 1 /\ DOMAIN rows' = 1..(n + 1)
        /\ rows'[n + 1] = [by |-> o, text |-> <<chunk>>, cut |-> FALSE]
        /\ \A i \in 1..n : rows'[i] = rows[i]
    BY <1>4, <1>6, <1>9
  <2>2. \A i \in 1..n : Spoken(i) => rows[i].by # o
    BY <1>1, <1>6, <1>9 DEF RowsHeld, RowHeld
  <2>3. rows'[n + 1].by = o /\ ~rows'[n + 1].cut /\ rows'[n + 1].text # <<>>
    <3>1. <<chunk>> # <<>>
      OBVIOUS
    <3> QED BY ONLY <2>1, <3>1
  <2>4. RowHeld(n + 1)'
    BY <1>1, <1>5, <2>1, <2>3 DEF RowHeld
  <2>5. \A i \in DOMAIN rows' : i \in 1..n \/ i = n + 1
    BY <1>6, <2>1
  <2>6. \A i \in DOMAIN rows' : RowHeld(i)'
    <3> SUFFICES ASSUME NEW i \in 1..n, Spoken(i) PROVE RowHeld(i)'
      BY <2>1, <2>4, <2>5 DEF RowHeld, Spoken
    <3> QED BY <1>7, <2>1, <2>2
  <2>7. \A i, j \in DOMAIN rows' : Spoken(i)' /\ Spoken(j)' /\ rows'[i].by = rows'[j].by => i = j
    BY <1>6, <2>1, <2>2, <2>3, <2>5 DEF RowsHeld, Spoken
  <2>8. rows' # <<>> /\ Last(rows').text # <<>>
    <3>1. Last(rows') = rows'[n + 1] /\ Len(rows') # 0
      BY <1>6, <2>1 DEF Last
    <3> QED BY <2>3, <3>1
  <2> QED BY <1>1, <2>6, <2>7, <2>8 DEF RowsHeld
<1> QED BY <1>8, <1>9

LEMMA ConsumerFailsRows ==
  ASSUME FloorInd, RowsHeld, NEW o \in Owners, ConsumerFails(o)
  PROVE  RowsHeld'
<1>n. PICK n \in Nat : n = Len(rows)
  BY DEF FloorInd, TypeOK
<1> USE <1>n
<1>0. TypeOK
  BY DEF FloorInd
<1>1. /\ cons[o] \in {"next", "playing"} /\ MarkInterrupted(o) /\ UNCHANGED <<retained, made>>
      /\ cons'[o] = "cleanup" /\ \A p \in Owners : p # o => cons'[p] = cons[p]
  BY <1>0 DEF ConsumerFails, TypeOK
<1>2. /\ RowsKept /\ Len(rows') = n
      /\ \/ /\ HeardAny(o) /\ open = o /\ rows # <<>> /\ rows[n].by = o
            /\ rows[n].text # <<>> /\ open' = NoOne
            /\ rows'[n] = [rows[n] EXCEPT !.cut = TRUE]
            /\ \A i \in DOMAIN rows : i # n => rows'[i] = rows[i]
         \/ ~HeardAny(o) /\ UNCHANGED <<rows, open>>
         \/ ~(open = o /\ Last(rows).by = o) /\ UNCHANGED <<rows, open>>
  BY <1>0, <1>1, RowMarked
<1>3. n \in Nat /\ DOMAIN rows = 1..n /\ DOMAIN rows' = 1..n
  BY <1>2 DEF RowsKept
<1>4. \A p : HeardAny(p)' <=> HeardAny(p)
  BY <1>1 DEF HeardAny
<1>5. CASE UNCHANGED <<rows, open>>
  <2>1. ASSUME NEW i \in 1..n, Spoken(i), rows[i].by = o PROVE DisplacedRow(o, i)'
    <3>1. RowHeld(i) /\ HeardAny(o) /\ open = o /\ (i = n \/ DisplacedRow(o, i))
      BY <1>1, <1>3, <2>1 DEF RowsHeld, RowHeld
    <3>2. Last(rows).by # o
      BY <1>2, <1>5, <3>1, Names
    <3>3. i # n
      BY <2>1, <3>2 DEF Last
    <3> QED BY <1>1, <1>5, <3>1, <3>3 DEF DisplacedRow
  <2>2. ASSUME NEW i \in 1..n PROVE RowHeld(i)'
    <3>1. RowHeld(i)
      BY <1>3 DEF RowsHeld
    <3>2. CASE rows[i].by = o
      BY <1>1, <1>4, <1>5, <2>1, <3>1, <3>2 DEF RowHeld, Spoken
    <3>3. CASE rows[i].by # o
      BY <1>1, <1>4, <1>5, <3>1, <3>3 DEF RowHeld, Spoken, DisplacedRow
    <3> QED BY <3>2, <3>3
  <2>3. ASSUME open # NoOne PROVE cons'[open] \notin {"none", "ready"}
    <3>1. open \in Owners /\ cons[open] \notin {"none", "ready"}
      BY <1>0, <2>3 DEF TypeOK, RowsHeld
    <3> QED BY <1>1, <3>1
  <2> QED BY <1>3, <1>5, <2>2, <2>3 DEF RowsHeld, Spoken, Last
<1>6. CASE /\ HeardAny(o) /\ open = o /\ rows # <<>> /\ rows[n].by = o
           /\ rows[n].text # <<>> /\ open' = NoOne
           /\ rows'[n] = [rows[n] EXCEPT !.cut = TRUE]
           /\ \A i \in DOMAIN rows : i # n => rows'[i] = rows[i]
  <2>1. n \in 1..n
    <3>1. n # 0
      BY <1>0, <1>6 DEF TypeOK
    <3> QED BY <1>3, <3>1
  <2>2. \A i \in 1..n : Spoken(i) /\ rows[i].by = o => i = n
    BY <1>3, <1>6, <2>1 DEF RowsHeld, Spoken
  <2>3. \A i \in 1..n : rows'[i].by = rows[i].by /\ (Spoken(i)' <=> Spoken(i))
    BY <1>2, <1>3 DEF RowsKept, Spoken
  <2>4. RowHeld(n)'
    <3>1. rows'[n].cut
      <4>1. rows[n] \in Row
        BY <1>0, <1>3, <2>1 DEF TypeOK
      <4>2. rows[n] = [by |-> rows[n].by, text |-> rows[n].text, cut |-> rows[n].cut]
        BY <4>1 DEF Row
      <4> QED BY <1>6, <4>2
    <3> QED BY <1>1, <1>4, <1>6, <2>1, <2>3, <3>1 DEF RowHeld
  <2>5. ASSUME NEW i \in 1..n, i # n, Spoken(i) PROVE RowHeld(i)'
    <3>1. rows[i].by # o /\ rows'[i] = rows[i] /\ RowHeld(i) /\ rows[i].by \in Owners
      BY <1>3, <1>6, <2>2, <2>5 DEF RowsHeld, RowHeld
    <3>2. cons[rows[i].by] \notin {"next", "playing"} /\ cons'[rows[i].by] = cons[rows[i].by]
      BY <1>1, <1>6, <2>5, <3>1 DEF RowHeld
    <3>3. DisplacedRow(rows[i].by, i) => DisplacedRow(rows[i].by, i)'
      <4> SUFFICES ASSUME DisplacedRow(rows[i].by, i) PROVE DisplacedRow(rows[i].by, i)'
        OBVIOUS
      <4>1. i < n /\ i + 1 \in 1..n /\ i < Len(rows')
        BY <1>2, <1>3 DEF DisplacedRow
      <4> QED BY <1>1, <2>3, <4>1 DEF DisplacedRow
    <3> QED BY <1>4, <3>1, <3>2, <3>3 DEF RowHeld, Spoken
  <2>6. \A i \in DOMAIN rows' : RowHeld(i)'
    <3> SUFFICES ASSUME NEW i \in 1..n, i # n, Spoken(i) PROVE RowHeld(i)'
      BY <1>3, <2>3, <2>4 DEF RowHeld
    <3> QED BY <2>5
  <2>7. \A i, j \in DOMAIN rows' : Spoken(i)' /\ Spoken(j)' /\ rows'[i].by = rows'[j].by => i = j
    BY <1>3, <2>3 DEF RowsHeld
  <2> QED BY <1>6, <2>6, <2>7 DEF RowsHeld
<1> QED BY <1>2, <1>5, <1>6

(* A reply that was spoken to its end has its row closed.                  *)
LEMMA ReplyEndsRows ==
  ASSUME FloorInd, RowsHeld, NEW o \in Owners, ReplyEnds(o)
  PROVE  RowsHeld'
<1>0. TypeOK /\ RevokedHeld(o) /\ ActiveHeld /\ StageHeld(o)
  BY DEF FloorInd, FloorHeld
<1>1. /\ cons[o] = "next" /\ ~Revoked(o) /\ UNCHANGED <<rows, retained, made>>
      /\ cons'[o] = "spoken" /\ \A p \in Owners : p # o => cons'[p] = cons[p]
      /\ open' = IF open = o THEN NoOne ELSE open
  BY <1>0 DEF ReplyEnds, Cut, TypeOK
<1>2. \A p \in Owners : p # o => cons[p] \notin {"next", "playing"}
  BY <1>0, <1>1, Names DEF RevokedHeld, Revoked, Live, ActiveHeld
<1>3. \A p : HeardAny(p)' <=> HeardAny(p)
  BY <1>1 DEF HeardAny
<1>4. ASSUME NEW i \in DOMAIN rows PROVE RowHeld(i)'
  <2>1. RowHeld(i)
    BY DEF RowsHeld
  <2>2. CASE rows[i].by = o
    BY <1>1, <1>3, <2>1, <2>2 DEF RowHeld, Spoken
  <2>3. CASE rows[i].by # o
    BY <1>1, <1>2, <1>3, <2>1, <2>3 DEF RowHeld, Spoken, DisplacedRow
  <2> QED BY <2>2, <2>3
<1>5. ASSUME open' # NoOne
      PROVE  /\ rows # <<>> /\ cons'[open'] \notin {"none", "ready"}
             /\ Last(rows).by = open' => Last(rows).text # <<>>
  <2>1. open' = open /\ open # o /\ open # NoOne /\ open \in Owners
    BY <1>0, <1>1, <1>5 DEF TypeOK
  <2>2. cons'[open] = cons[open]
    BY <1>1, <2>1
  <2> QED BY <2>1, <2>2 DEF RowsHeld
<1> QED BY <1>1, <1>4, <1>5 DEF RowsHeld, Spoken, Last

(* A revocation touches no row.                                            *)
LEMMA RowsQuiet ==
  ASSUME FloorInd, RowsHeld, UNCHANGED <<rows, open, made, retained>>, Revoke \/ cons' = cons
  PROVE  RowsHeld'
<1>0. TypeOK /\ FloorHeld
  BY DEF FloorInd
<1>1. ASSUME NEW o \in Owners PROVE GoesOn(o) /\ (HeardAny(o) => HeardAny(o)')
  <2>1. HeardAny(o)' <=> HeardAny(o)
    BY DEF HeardAny
  <2>2. CASE Revoke
    <3>1. cons'[o] = cons[o] \/ (cons[o] \in {"ready", "cleanup"} /\ cons'[o] = "broken")
      BY <1>0, <2>2, Revokes
    <3> QED BY <2>1, <3>1 DEF GoesOn
  <2>3. CASE cons' = cons
    BY <2>1, <2>3 DEF GoesOn
  <2> QED BY <2>2, <2>3
<1> QED BY <1>0, <1>1, RowsStay

LEMMA CallingsRows ==
  ASSUME FloorInd, RowsHeld, Callings
  PROVE  RowsHeld'
<1>1. CASE UNCHANGED <<rows, open, made, retained>> /\ (Revoke \/ cons' = cons)
  BY <1>1, RowsQuiet
<1>2. ASSUME NEW c \in Commands, RecordCommand(c) PROVE RowsHeld'
  <2> DEFINE r == [by |-> c, text |-> <<>>, cut |-> FALSE]
  <2>1. r \in Row /\ r.text = <<>> /\ r.by = c
    BY DEF Row
  <2>2. /\ rows' = Append(rows, r) /\ UNCHANGED <<open, retained, made, cons>>
        /\ ~Speaking /\ Cleanups = {}
    BY <1>2 DEF RecordCommand
  <2>3. \A o \in Owners : GoesOn(o)
    BY <2>2 DEF GoesOn
  <2>4. \A o \in Owners : cons[o] \in {"next", "playing"} => o \in retained
    <3> SUFFICES ASSUME NEW o \in Owners, cons[o] \in {"next", "playing"} PROVE o \in retained
      OBVIOUS
    <3>1. active # o
      BY <2>2, Names DEF Speaking, Over
    <3>2. tidy[o] # "going"
      BY <2>2 DEF Cleanups
    <3> QED BY <3>1, <3>2 DEF FloorInd, FloorHeld, RevokedHeld, Live
  <2>5. TypeOK /\ \A o \in Owners : o # c
    BY Names DEF FloorInd
  <2> HIDE DEF r
  <2> QED BY <2>1, <2>2, <2>3, <2>4, <2>5, SilentRow
<1> QED BY <1>1, <1>2 DEF Callings, Respond, Resume, Stop, StopReturns, Silence, CommandRefused,
           LookAgain, BeginClose, CloseForeground, CloseDrained, DrainGivenUp, Refuse, EndCall

LEMMA FloorsRows ==
  ASSUME FloorInd, RowsHeld, NEW o \in Owners, Floors(o)
  PROVE  RowsHeld'
<1>0. TypeOK /\ FloorHeld
  BY DEF FloorInd
<1>1. CASE Open(o) /\ Unopened(o) /\ UNCHANGED <<rows, open, made, retained>>
  <2>1. cons[o] = "none"
    BY <1>0, <1>1 DEF FloorHeld, StageHeld
  <2>2. cons' = cons \/ cons' = [cons EXCEPT ![o] = "ready"]
    BY <1>1 DEF Open
  <2>3. \A p \in Owners : cons'[p] = cons[p] \/ (p = o /\ cons'[p] = "ready")
    BY <1>0, <2>2 DEF TypeOK
  <2>4. \A p \in Owners : GoesOn(p) /\ (HeardAny(p) => HeardAny(p)')
    BY <1>1, <2>1, <2>3 DEF GoesOn, HeardAny
  <2> QED BY <1>0, <1>1, <2>4, RowsStay
<1>2. CASE UNCHANGED <<rows, open, made, retained>> /\ (Revoke \/ cons' = cons)
  BY <1>2, RowsQuiet
<1>3. Enter(o) => \/ UNCHANGED <<rows, open, made, retained, cons>>
                  \/ Open(o) /\ Unopened(o) /\ UNCHANGED <<rows, open, made, retained>>
  BY DEF Enter, Refuse, EndCall, Unopened
<1>4. StartDrained(o) => \/ UNCHANGED <<rows, open, made, retained, cons>>
                         \/ Open(o) /\ Unopened(o) /\ UNCHANGED <<rows, open, made, retained>>
  BY DEF StartDrained, Refuse, EndCall, Unopened
<1>5. DrainGivenUp(o) \/ Finish(o) \/ Unwind(o) \/ Raise(o) =>
        UNCHANGED <<rows, open, made, retained>> /\ (Revoke \/ cons' = cons)
  BY DEF DrainGivenUp, Refuse, EndCall, Finish, Unwind, Raise
<1> QED BY <1>1, <1>2, <1>3, <1>4, <1>5 DEF Floors

LEMMA ProducerRows ==
  ASSUME FloorInd, RowsHeld, NEW o \in Owners, Producer(o)
  PROVE  RowsHeld'
<1>0. TypeOK /\ StageHeld(o) /\ ActiveHeld
  BY DEF FloorInd, FloorHeld
<1>1. CASE Begin(o)
  <2>1. /\ prod[o] = "ready" /\ cons[o] = "ready" /\ active = o
        /\ cons'[o] = "next" /\ \A p \in Owners : p # o => cons'[p] = cons[p]
        /\ UNCHANGED <<open, retained, made>>
    BY <1>0, <1>1 DEF Begin, StageHeld, TypeOK
  <2>2. \A p \in Owners : GoesOn(p) /\ (HeardAny(p) => HeardAny(p)')
    BY <2>1 DEF GoesOn, HeardAny
  <2>3. CASE o \in Turns
    <3> DEFINE r == [by |-> o, text |-> <<>>, cut |-> FALSE]
    <3>1. r \in Row /\ r.text = <<>> /\ r.by = o /\ rows' = Append(rows, r)
      BY <1>1, <2>3 DEF Begin, Row
    <3>2. \A p \in Owners : cons[p] \notin {"next", "playing"}
      BY <1>0, <2>1, Names DEF ActiveHeld, Live
    <3> HIDE DEF r
    <3> QED BY <1>0, <2>1, <2>2, <3>1, <3>2, SilentRow
  <2>4. CASE o \notin Turns
    <3>1. rows' = rows
      BY <1>1, <2>4 DEF Begin
    <3> QED BY <1>0, <2>1, <2>2, <3>1, RowsStay
  <2> QED BY <2>3, <2>4
<1>2. CASE Publish(o)
  <2>1. PICK s \in Said : made' = [made EXCEPT ![o] = Append(@, s)]
    <3>1. \A s \in NextSegment(o) : [of |-> s.of, nr |-> s.nr, before |-> s.before, now |-> 0] \in Said
      BY <1>0, SegmentTypes
    <3> QED BY <1>2, <3>1 DEF Publish
  <2>2. /\ made \in [Owners -> Seq(Said)] /\ UNCHANGED <<rows, open, retained, cons>>
        /\ made'[o] = Append(made[o], s) /\ \A p \in Owners : p # o => made'[p] = made[p]
    BY <1>0, <1>2, <2>1 DEF Publish, TypeOK
  <2>3. HeardAny(o) => HeardAny(o)'
    BY <2>2 DEF HeardAny
  <2>4. \A p \in Owners : GoesOn(p) /\ (HeardAny(p) => HeardAny(p)')
    BY <2>2, <2>3 DEF GoesOn, HeardAny
  <2> QED BY <1>0, <2>2, <2>4, RowsStay
<1>3. CASE ProducerEnds(o)
  BY <1>3, RowsQuiet DEF ProducerEnds
<1>4. CASE ProducerFails(o)
  <2>1. /\ cons' = [cons EXCEPT ![o] = IF @ \in {"ready", "cleanup"} THEN "broken" ELSE @]
        /\ UNCHANGED <<rows, open, retained, made>>
    BY <1>4 DEF ProducerFails, CancelConsumer
  <2>2. \A p \in Owners : cons'[p] = cons[p] \/ (cons[p] \in {"ready", "cleanup"} /\ cons'[p] = "broken")
    BY <1>0, <2>1 DEF TypeOK
  <2>3. \A p \in Owners : GoesOn(p) /\ (HeardAny(p) => HeardAny(p)')
    BY <2>1, <2>2 DEF GoesOn, HeardAny
  <2> QED BY <1>0, <2>1, <2>3, RowsStay
<1> QED BY <1>1, <1>2, <1>3, <1>4 DEF Producer

LEMMA ConsumerRows ==
  ASSUME FloorInd, RowsHeld, PlaysHeld, NEW o \in Owners, Consumer(o)
  PROVE  RowsHeld'
<1>0. TypeOK
  BY DEF FloorInd
<1>1. ASSUME UNCHANGED <<rows, open, made, retained>>,
             \A p \in Owners : \/ cons'[p] = cons[p]
                               \/ cons[p] = "next" /\ cons'[p] = "playing"
                               \/ cons[p] = "cleanup" /\ cons'[p] = "broken"
      PROVE  RowsHeld'
  <2>1. \A p \in Owners : GoesOn(p) /\ (HeardAny(p) => HeardAny(p)')
    BY <1>1 DEF GoesOn, HeardAny
  <2> QED BY <1>0, <1>1, <2>1, RowsStay
<1>2. CASE Play(o)
  BY <1>0, <1>1, <1>2 DEF Play, TypeOK
<1>3. CASE SegmentEnds(o) \/ ProviderStops(o)
  BY <1>0, <1>1, <1>3 DEF SegmentEnds, ProviderStops
<1>4. CASE Deliver(o)
  BY <1>4, DeliverRows
<1>5. CASE ReplyEnds(o)
  BY <1>5, ReplyEndsRows
<1>6. CASE ConsumerFails(o)
  BY <1>6, ConsumerFailsRows
<1>7. CASE CleanedUp(o)
  BY <1>0, <1>1, <1>7 DEF CleanedUp, TypeOK
<1>8. CASE CleanupGivenUp(o)
  BY <1>0, <1>1, <1>8 DEF CleanupGivenUp, TypeOK
<1> QED BY <1>2, <1>3, <1>4, <1>5, <1>6, <1>7, <1>8 DEF Consumer

LEMMA RowsStep ==
  ASSUME FloorInd, RowsHeld, PlaysHeld, Next
  PROVE  RowsHeld'
<1>1. ASSUME NEW o \in Owners, NEW drained \in BOOLEAN, NEW settled \in BOOLEAN,
             Settle(o, drained, settled)
      PROVE  RowsHeld'
  <2>1. TypeOK /\ UNCHANGED <<rows, open, cons, made>> /\ retained \subseteq retained'
    BY <1>1 DEF Settle, FloorInd
  <2>2. \A p \in Owners : GoesOn(p) /\ (HeardAny(p) => HeardAny(p)')
    BY <2>1 DEF GoesOn, HeardAny
  <2> QED BY <2>1, <2>2, RowsStay
<1> QED BY <1>1, CallingsRows, FloorsRows, ProducerRows, ConsumerRows DEF Next, Cleanup

-----------------------------------------------------------------------------
(* What was published and how far it is played.                            *)

(* A step that publishes and plays nothing.                                *)
LEMMA PlaysStay ==
  ASSUME TypeOK, PlaysHeld, UNCHANGED <<made, pos>>,
         \A o \in Owners : /\ cons'[o] \in {"none", "ready"} => made[o] = <<>>
                           /\ cons'[o] = "playing" => cons[o] = "playing"
                           /\ script'[o] # script[o] => made[o] = <<>>
  PROVE  PlaysHeld'
<1> SUFFICES ASSUME NEW o \in Owners PROVE PlayHeld(o)'
  BY DEF PlaysHeld
<1>1. PlayHeld(o)
  BY DEF PlaysHeld
<1>2. made[o] = <<>> => DOMAIN made[o] = {}
  OBVIOUS
<1> QED BY <1>1, <1>2 DEF PlayHeld, HasNext, Heard, Current

(* Taking the floor, or leaving every consumer as it is.                   *)
LEMMA PlaysQuiet ==
  ASSUME FloorInd, PlaysHeld, UNCHANGED <<made, pos, script>>, Revoke \/ cons' = cons
  PROVE  PlaysHeld'
<1>0. TypeOK /\ FloorHeld
  BY DEF FloorInd
<1>1. ASSUME NEW o \in Owners
      PROVE  cons'[o] = cons[o] \/ (cons[o] \in {"ready", "cleanup"} /\ cons'[o] = "broken")
  BY <1>0, Revokes
<1> QED BY <1>0, <1>1, PlaysStay DEF PlaysHeld, PlayHeld

LEMMA CallingsPlays ==
  ASSUME FloorInd, PlaysHeld, Callings
  PROVE  PlaysHeld'
<1>1. CASE UNCHANGED <<made, pos, script>> /\ (Revoke \/ cons' = cons)
  BY <1>1, PlaysQuiet
<1>2. ASSUME NEW r \in Replays, Resume(r) PROVE PlaysHeld'
  <2>0. TypeOK /\ StageHeld(r)
    BY Names DEF FloorInd, FloorHeld
  <2>1. /\ UNCHANGED <<made, pos, cons>> /\ made[r] = <<>>
        /\ \A o \in Owners : o # r => script'[o] = script[o]
    BY <1>2, <2>0 DEF Resume, Calls, StageHeld, Unopened, TypeOK
  <2> QED BY <2>0, <2>1, PlaysStay DEF PlaysHeld, PlayHeld
<1> QED BY <1>1, <1>2 DEF Callings, Respond, Stop, StopReturns, Silence, RecordCommand, CommandRefused,
           LookAgain, BeginClose, CloseForeground, CloseDrained, DrainGivenUp, Refuse, EndCall

LEMMA FloorsPlays ==
  ASSUME FloorInd, PlaysHeld, NEW o \in Owners, Floors(o)
  PROVE  PlaysHeld'
<1>0. TypeOK /\ FloorHeld
  BY DEF FloorInd
<1>1. CASE Open(o) /\ Unopened(o) /\ UNCHANGED <<made, pos, script>>
  <2>1. made[o] = <<>>
    BY <1>0, <1>1 DEF FloorHeld, StageHeld
  <2>2. cons' = cons \/ cons' = [cons EXCEPT ![o] = "ready"]
    BY <1>1 DEF Open
  <2>3. \A p \in Owners : cons'[p] = cons[p] \/ (p = o /\ cons'[p] = "ready")
    BY <1>0, <2>2 DEF TypeOK
  <2> QED BY <1>0, <1>1, <2>1, <2>3, PlaysStay DEF PlaysHeld, PlayHeld
<1>2. CASE UNCHANGED <<made, pos, script>> /\ (Revoke \/ cons' = cons)
  BY <1>2, PlaysQuiet
<1>3. Enter(o) => \/ UNCHANGED <<made, pos, script, cons>>
                  \/ Open(o) /\ Unopened(o) /\ UNCHANGED <<made, pos, script>>
  BY DEF Enter, Refuse, EndCall, Unopened
<1>4. StartDrained(o) => \/ UNCHANGED <<made, pos, script, cons>>
                         \/ Open(o) /\ Unopened(o) /\ UNCHANGED <<made, pos, script>>
  BY DEF StartDrained, Refuse, EndCall, Unopened
<1>5. DrainGivenUp(o) \/ Finish(o) \/ Unwind(o) \/ Raise(o) =>
        UNCHANGED <<made, pos, script>> /\ (Revoke \/ cons' = cons)
  BY DEF DrainGivenUp, Refuse, EndCall, Finish, Unwind, Raise
<1> QED BY <1>1, <1>2, <1>3, <1>4, <1>5 DEF Floors

(* What is published is what the owner has to say next.                    *)
LEMMA PublishPlays ==
  ASSUME FloorInd, PlaysHeld, NEW o \in Owners, Publish(o)
  PROVE  /\ PlaysHeld'
         /\ made'[o] \in Seq(Said) /\ Len(made'[o]) = Len(made[o]) + 1
         /\ \A i \in DOMAIN made[o] : i \in DOMAIN made'[o] /\ made'[o][i] = made[o][i]
         /\ made'[o][Len(made[o]) + 1].now = 0
         /\ \A p \in Owners : p # o => made'[p] = made[p]
<1>0. TypeOK /\ StageHeld(o) /\ PlayHeld(o)
  BY DEF FloorInd, FloorHeld, PlaysHeld
<1>n. PICK n \in Nat : n = Len(made[o])
  BY <1>0 DEF TypeOK
<1>1. PICK s \in NextSegment(o) :
        made' = [made EXCEPT ![o] = Append(@, [of |-> s.of, nr |-> s.nr, before |-> s.before, now |-> 0])]
  BY DEF Publish
<1> DEFINE said == [of |-> s.of, nr |-> s.nr, before |-> s.before, now |-> 0]
<1>2. said \in Said
  BY <1>0, SegmentTypes
<1>3. /\ made[o] \in Seq(Said) /\ DOMAIN made[o] = 1..n /\ DOMAIN made'[o] = 1..(n + 1)
      /\ made'[o] \in Seq(Said) /\ Len(made'[o]) = n + 1 /\ made'[o][n + 1] = said
      /\ \A i \in 1..n : made'[o][i] = made[o][i]
      /\ \A p \in Owners : p # o => made'[p] = made[p]
  <2>1. made \in [Owners -> Seq(Said)]
    BY <1>0 DEF TypeOK
  <2>2. /\ made'[o] = Append(made[o], said) /\ made[o] \in Seq(Said)
        /\ \A p \in Owners : p # o => made'[p] = made[p]
    BY <1>1, <2>1
  <2> HIDE DEF said
  <2> QED BY <1>n, <1>2, <2>2
<1>4. UNCHANGED <<pos, script, cons>> /\ prod[o] = "running"
  BY DEF Publish
<1>5. cons[o] \notin {"none", "ready"}
  BY <1>0, <1>4 DEF StageHeld
<1>6. /\ said.now = 0 /\ Heard(said) <= Chunks
      /\ o \in Turns => said.of = o /\ said.nr = n + 1 /\ said.before = 0
      /\ o \in Replays => /\ n + 1 <= Len(script[o])
                          /\ said.of = script[o][n + 1].of /\ said.nr = script[o][n + 1].nr
                          /\ said.before = script[o][n + 1].before
  <2>1. CASE o \in Turns
    <3>1. s = [of |-> o, nr |-> n + 1, before |-> 0]
      BY <1>n, <2>1 DEF NextSegment
    <3>2. said = [of |-> o, nr |-> n + 1, before |-> 0, now |-> 0]
      BY <3>1
    <3> QED BY <2>1, <3>2, Names DEF Heard, SpeechAssumption
  <2>2. CASE o \in Replays
    <3>0. o \notin Turns
      BY <2>2, Names
    <3>1. s = script[o][n + 1] /\ n + 1 <= Len(script[o])
      <4>1. script[o] \in Seq(Segment)
        BY <1>0 DEF TypeOK
      <4> QED BY <1>n, <3>0, <4>1 DEF NextSegment
    <3>2. said.of = s.of /\ said.nr = s.nr /\ said.before = s.before /\ said.now = 0
      OBVIOUS
    <3>3. said.before \in 0..Chunks
      BY <1>2 DEF Said
    <3> QED BY <3>0, <3>1, <3>2, <3>3 DEF Heard, SpeechAssumption
  <2> QED BY <2>1, <2>2, Names
<1> HIDE DEF said
<1>7. PlayHeld(o)'
  <2>1. pos[o] \in Nat /\ pos[o] <= n + 1 /\ pos[o] <= n + 2
    BY <1>0, <1>n DEF PlayHeld, TypeOK
  <2>2. ASSUME NEW i \in 1..(n + 1)
        PROVE  /\ Heard(made'[o][i]) <= Chunks
               /\ i < pos[o] => Heard(made'[o][i]) = Chunks
               /\ i > pos[o] => made'[o][i].now = 0
               /\ o \in Turns => made'[o][i].of = o /\ made'[o][i].nr = i /\ made'[o][i].before = 0
               /\ o \in Replays => /\ i <= Len(script[o])
                                   /\ made'[o][i].of = script[o][i].of
                                   /\ made'[o][i].nr = script[o][i].nr
                                   /\ made'[o][i].before = script[o][i].before
    <3>1. CASE i = n + 1
      <4>1. made'[o][i] = said /\ ~(i < pos[o])
        BY <1>3, <2>1, <3>1
      <4> QED BY <1>6, <3>1, <4>1
    <3>2. CASE i \in 1..n
      <4>1. made'[o][i] = made[o][i] /\ i \in DOMAIN made[o]
        BY <1>3, <3>2
      <4> QED BY <1>0, <4>1 DEF PlayHeld
    <3> QED BY <3>1, <3>2
  <2>3. cons[o] = "playing" => /\ pos[o] <= n /\ pos[o] \in 1..n
                               /\ Heard(made'[o][pos[o]]) < Chunks
    <3> SUFFICES ASSUME cons[o] = "playing" PROVE pos[o] \in 1..n /\ Heard(made'[o][pos[o]]) < Chunks
      BY <2>1
    <3>1. pos[o] <= n /\ Heard(made[o][pos[o]]) < Chunks
      BY <1>0, <1>n DEF PlayHeld, HasNext, Current
    <3>2. pos[o] \in 1..n
      BY <1>0, <3>1 DEF TypeOK
    <3> QED BY <1>3, <3>1, <3>2
  <2>4. pos[o] <= n => pos[o] <= n + 1
    BY <2>1
  <2>5. (pos[o] <= Len(made[o]) + 1)'
    BY <1>3, <1>4, <2>1
  <2>6. (cons[o] = "playing" => HasNext(o) /\ Heard(Current(o)) < Chunks)'
    BY <1>3, <1>4, <2>3, <2>4 DEF HasNext, Current
  <2>7. (cons[o] \in {"none", "ready"} => made[o] = <<>>)'
    BY <1>4, <1>5
  <2>8. DOMAIN made'[o] = 1..(n + 1) /\ pos' = pos /\ script' = script
    BY <1>3, <1>4
  <2> QED BY <2>2, <2>5, <2>6, <2>7, <2>8 DEF PlayHeld
<1>8. ASSUME NEW p \in Owners, p # o PROVE PlayHeld(p)'
  <2>1. PlayHeld(p)
    BY DEF PlaysHeld
  <2>2. made'[p] = made[p] /\ UNCHANGED <<pos, script, cons>>
    BY <1>3, <1>4, <1>8
  <2> QED BY ONLY <2>1, <2>2 DEF PlayHeld, HasNext, Current, Heard
<1> QED BY <1>n, <1>3, <1>6, <1>7, <1>8 DEF PlaysHeld

LEMMA ProducerPlays ==
  ASSUME FloorInd, PlaysHeld, NEW o \in Owners, Producer(o)
  PROVE  PlaysHeld'
<1>0. TypeOK
  BY DEF FloorInd
<1>1. CASE UNCHANGED <<made, pos, script>> /\ \A p \in Owners :
             \/ cons'[p] = cons[p]
             \/ cons'[p] \in {"next", "broken"}
  BY <1>0, <1>1, PlaysStay DEF PlaysHeld, PlayHeld
<1>2. Begin(o) => UNCHANGED <<made, pos, script>> /\ cons' = [cons EXCEPT ![o] = "next"]
  BY DEF Begin
<1>3. ProducerEnds(o) => UNCHANGED <<made, pos, script, cons>>
  BY DEF ProducerEnds
<1>4. ProducerFails(o) =>
        /\ UNCHANGED <<made, pos, script>>
        /\ cons' = [cons EXCEPT ![o] = IF @ \in {"ready", "cleanup"} THEN "broken" ELSE @]
  BY DEF ProducerFails, CancelConsumer
<1> QED BY <1>0, <1>1, <1>2, <1>3, <1>4, PublishPlays DEF Producer, TypeOK

(* The consumer's segment is heard one chunk further.                      *)
LEMMA DeliverPlays ==
  ASSUME FloorInd, PlaysHeld, NEW o \in Owners, Deliver(o)
  PROVE  /\ PlaysHeld'
         /\ pos[o] \in DOMAIN made[o] /\ Len(made'[o]) = Len(made[o]) /\ DOMAIN made'[o] = DOMAIN made[o]
         /\ made'[o][pos[o]] = [made[o][pos[o]] EXCEPT !.now = made[o][pos[o]].now + 1]
         /\ \A i \in DOMAIN made[o] : i # pos[o] => made'[o][i] = made[o][i]
         /\ \A p \in Owners : p # o => made'[p] = made[p]
         /\ made'[o][pos[o]] \in Said /\ made' \in [Owners -> Seq(Said)]
         /\ Heard(made'[o][pos[o]]) = Heard(made[o][pos[o]]) + 1
<1>0. TypeOK /\ PlayHeld(o) /\ cons[o] = "playing" /\ UNCHANGED <<pos, script>>
  BY DEF FloorInd, PlaysHeld, Deliver, Started
<1>1. /\ pos[o] \in DOMAIN made[o] /\ made[o][pos[o]] \in Said /\ made[o] \in Seq(Said)
      /\ Heard(made[o][pos[o]]) \in 0..(Chunks - 1)
  BY <1>0, ChunkPlayed DEF Current
<1>2. PICK n \in Nat : n = Len(made[o]) /\ DOMAIN made[o] = 1..n
  BY <1>1
<1>3. PICK k : k = pos[o]
  OBVIOUS
<1>4. PICK s : s = made[o][k]
  OBVIOUS
<1>5. /\ s \in Said /\ k \in 1..n /\ s.now \in Nat /\ s.before \in Nat
      /\ s.before + s.now < Chunks /\ s.before + s.now + 1 <= Chunks /\ Chunks \in Nat
  <2>1. s \in Said /\ k \in 1..n /\ Heard(s) \in 0..(Chunks - 1) /\ Chunks \in Nat
    BY <1>1, <1>2, <1>3, <1>4 DEF SpeechAssumption
  <2>2. s.now \in Nat /\ s.before \in Nat
    BY <2>1 DEF Said
  <2> QED BY <2>1, <2>2 DEF Heard
<1>6. PICK t : t = [s EXCEPT !.now = s.now + 1]
  OBVIOUS
<1>7. /\ t.now = s.now + 1 /\ t.of = s.of /\ t.nr = s.nr /\ t.before = s.before /\ t \in Said
      /\ Heard(t) = Heard(s) + 1 /\ Heard(t) <= Chunks
  <2>1. s = [of |-> s.of, nr |-> s.nr, before |-> s.before, now |-> s.now]
    BY <1>5 DEF Said
  <2>2. t = [of |-> s.of, nr |-> s.nr, before |-> s.before, now |-> s.now + 1]
    BY <1>6, <2>1
  <2>3. t.now = s.now + 1 /\ t.of = s.of /\ t.nr = s.nr /\ t.before = s.before
    BY <2>2
  <2>4. s.of \in Turns /\ s.nr \in 1..Segments /\ s.before \in 0..Chunks
    BY <1>5 DEF Said
  <2>5. s.now + 1 \in 0..Chunks
    BY <1>5
  <2>6. t \in Said
    BY <2>2, <2>4, <2>5 DEF Said
  <2> QED BY <1>5, <2>3, <2>6 DEF Heard
<1>8. /\ made'[o] = [made[o] EXCEPT ![k] = t] /\ \A p \in Owners : p # o => made'[p] = made[p]
      /\ made' = [made EXCEPT ![o] = [made[o] EXCEPT ![k] = t]]
  <2>1. made \in [Owners -> Seq(Said)] /\ made' = [made EXCEPT ![o][pos[o]].now = @ + 1]
    BY <1>0 DEF Deliver, TypeOK
  <2>2. made' = [made EXCEPT ![o] = [made[o] EXCEPT ![k] = [made[o][k] EXCEPT !.now = made[o][k].now + 1]]]
    BY <1>3, <2>1
  <2>3. made' = [made EXCEPT ![o] = [made[o] EXCEPT ![k] = t]]
    BY <1>4, <1>6, <2>2
  <2> QED BY <2>1, <2>3
<1>9. /\ DOMAIN made'[o] = 1..n /\ made'[o][k] = t /\ \A i \in 1..n : i # k => made'[o][i] = made[o][i]
      /\ made'[o] \in Seq(Said) /\ Len(made'[o]) = n
  <2>1. made[o] \in [1..n -> Said]
    BY <1>1, <1>2
  <2>2. /\ made'[o] \in [1..n -> Said] /\ made'[o][k] = t
        /\ \A i \in 1..n : i # k => made'[o][i] = made[o][i]
    BY <1>5, <1>7, <1>8, <2>1
  <2>3. made'[o] \in Seq(Said)
    BY <2>2
  <2> QED BY <2>2, <2>3
<1>10. made' \in [Owners -> Seq(Said)]
  BY <1>0, <1>8, <1>9 DEF TypeOK
<1>11. \A p \in Owners : p # o => cons'[p] = cons[p] /\ made'[p] = made[p]
  BY <1>0, <1>8 DEF Deliver, TypeOK
<1>12. cons'[o] = "next"
  BY <1>0 DEF Deliver, TypeOK
<1>13. PlayHeld(o)'
  <2>1. pos[o] <= n + 1
    BY <1>0, <1>2 DEF PlayHeld
  <2>2. ASSUME NEW i \in 1..n
        PROVE  /\ Heard(made'[o][i]) <= Chunks
               /\ i < pos[o] => Heard(made'[o][i]) = Chunks
               /\ i > pos[o] => made'[o][i].now = 0
               /\ o \in Turns => made'[o][i].of = o /\ made'[o][i].nr = i /\ made'[o][i].before = 0
               /\ o \in Replays => /\ i <= Len(script[o])
                                   /\ made'[o][i].of = script[o][i].of
                                   /\ made'[o][i].nr = script[o][i].nr
                                   /\ made'[o][i].before = script[o][i].before
    <3>0. /\ Heard(made[o][i]) <= Chunks
          /\ i < pos[o] => Heard(made[o][i]) = Chunks
          /\ i > pos[o] => made[o][i].now = 0
          /\ o \in Turns => made[o][i].of = o /\ made[o][i].nr = i /\ made[o][i].before = 0
          /\ o \in Replays => /\ i <= Len(script[o])
                              /\ made[o][i].of = script[o][i].of
                              /\ made[o][i].nr = script[o][i].nr
                              /\ made[o][i].before = script[o][i].before
      BY <1>0, <1>2 DEF PlayHeld
    <3>1. CASE i = k
      <4>1. made'[o][i] = t /\ made[o][i] = s
        BY <1>4, <1>9, <3>1
      <4>2. ~(i < pos[o]) /\ ~(i > pos[o])
        BY <1>3, <1>5, <3>1
      <4> QED BY <1>7, <3>0, <4>1, <4>2
    <3>2. CASE i # k
      BY <1>9, <3>0, <3>2
    <3> QED BY <3>1, <3>2
  <2>3. UNCHANGED <<pos, script>>
    BY <1>0
  <2> QED BY <1>9, <1>12, <2>1, <2>2, <2>3 DEF PlayHeld, Heard
<1>14. \A p \in Owners : p # o => PlayHeld(p)'
  BY <1>0, <1>11 DEF PlaysHeld, PlayHeld, HasNext, Current, Heard
<1>15. PlaysHeld'
  BY <1>13, <1>14 DEF PlaysHeld
<1> QED BY <1>2, <1>3, <1>4, <1>5, <1>6, <1>7, <1>8, <1>9, <1>10, <1>15

(* What a revoked owner leaves: the segments it was not heard to the end   *)
(* of, in their order, as far as each was heard.                           *)
LEMMA RestIs ==
  ASSUME TypeOK, PlaysHeld, NEW o \in Owners
  PROVE  \E left \in Seq(Nat) :
           /\ Rest(o) \in Seq(Segment) /\ Len(Rest(o)) = Len(left) /\ DOMAIN Rest(o) = DOMAIN left
           /\ Increasing(left)
           /\ \A j \in DOMAIN left :
                /\ left[j] \in DOMAIN made[o]
                /\ Rest(o)[j].of = made[o][left[j]].of /\ Rest(o)[j].nr = made[o][left[j]].nr
                /\ Rest(o)[j].before = Heard(made[o][left[j]])
           /\ \A i \in DOMAIN made[o] :
                (i >= pos[o] \/ made[o][i].now = 0) <=> \E j \in DOMAIN left : left[j] = i
<1> DEFINE unheard == {i \in DOMAIN made[o] : i >= pos[o] \/ made[o][i].now = 0}
           order == [i \in DOMAIN made[o] |-> i]
<1>1. made[o] \in Seq(Said) /\ Len(made[o]) \in Nat /\ DOMAIN made[o] = 1..Len(made[o])
  BY DEF TypeOK
<1>2. /\ order \in Seq(Nat) /\ DOMAIN order = DOMAIN made[o] /\ \A i \in DOMAIN made[o] : order[i] = i
  <2>1. order \in [1..Len(made[o]) -> Nat]
    BY <1>1
  <2> QED BY <1>1, <2>1
<1>3. Increasing(order) /\ \A i : HasElement(order, i) <=> i \in DOMAIN made[o]
  BY <1>2 DEF Increasing, HasElement
<1>4. PICK left : left = Sift(order, unheard)
  OBVIOUS
<1>5. Rest(o) = [j \in DOMAIN left |-> [of |-> made[o][left[j]].of, nr |-> made[o][left[j]].nr,
                                        before |-> Heard(made[o][left[j]])]]
  BY <1>4 DEF Rest
<1> HIDE DEF order
<1>6. left \in Seq(Nat) /\ Increasing(left)
      /\ \A i : HasElement(left, i) <=> i \in unheard /\ HasElement(order, i)
  <2> HIDE DEF unheard
  <2> QED BY <1>2, <1>3, <1>4, SiftType, SiftIncreasing, SiftElements
<1>7. \A i : (\E j \in DOMAIN left : left[j] = i) <=> i \in unheard
  BY <1>3, <1>6 DEF HasElement
<1>8. ASSUME NEW j \in DOMAIN left
      PROVE  /\ left[j] \in DOMAIN made[o]
             /\ [of |-> made[o][left[j]].of, nr |-> made[o][left[j]].nr,
                 before |-> Heard(made[o][left[j]])] \in Segment
  <2>1. left[j] \in unheard
    BY <1>7
  <2>2. left[j] \in DOMAIN made[o]
    BY <2>1
  <2>3. PICK s \in Said : s = made[o][left[j]]
    BY <1>1, <2>2
  <2>4. s.of \in Turns /\ s.nr \in 1..Segments /\ s.before \in 0..Chunks /\ s.now \in 0..Chunks
    BY <2>3 DEF Said
  <2>5. Heard(s) <= Chunks
    BY <2>2, <2>3 DEF PlaysHeld, PlayHeld
  <2>6. Heard(s) \in 0..Chunks
    BY <2>4, <2>5, SpeechAssumption DEF Heard
  <2> QED BY <2>2, <2>3, <2>4, <2>6 DEF Segment
<1>9. /\ DOMAIN left = 1..Len(left) /\ Len(left) \in Nat
  BY <1>6
<1>10. Rest(o) \in Seq(Segment) /\ Len(Rest(o)) = Len(left) /\ DOMAIN Rest(o) = DOMAIN left
  <2>1. Rest(o) \in [1..Len(left) -> Segment]
    BY <1>5, <1>8, <1>9
  <2> QED BY <1>9, <2>1
<1>11. \A j \in DOMAIN left : /\ Rest(o)[j].of = made[o][left[j]].of /\ Rest(o)[j].nr = made[o][left[j]].nr
                              /\ Rest(o)[j].before = Heard(made[o][left[j]])
  BY <1>5
<1>12. \A i \in DOMAIN made[o] : (i >= pos[o] \/ made[o][i].now = 0) <=> \E j \in DOMAIN left : left[j] = i
  BY <1>7
<1> QED BY <1>6, <1>8, <1>10, <1>11, <1>12

LEMMA ConsumerPlays ==
  ASSUME FloorInd, PlaysHeld, NEW o \in Owners, Consumer(o)
  PROVE  PlaysHeld'
<1>0. TypeOK
  BY DEF FloorInd
<1>1. CASE Play(o)
  <2>1. /\ cons' = [cons EXCEPT ![o] = "playing"] /\ UNCHANGED <<made, pos, script>>
        /\ cons[o] = "next" /\ HasNext(o) /\ Heard(Current(o)) < Chunks
    BY <1>1 DEF Play
  <2>2. \A p \in Owners : cons'[p] = IF p = o THEN "playing" ELSE cons[p]
    BY <1>0, <2>1 DEF TypeOK
  <2> QED BY <2>1, <2>2 DEF PlaysHeld, PlayHeld, HasNext, Current, Heard
<1>2. CASE SegmentEnds(o)
  <2>1. /\ pos' = [pos EXCEPT ![o] = @ + 1] /\ UNCHANGED <<made, script, cons>>
        /\ cons[o] = "next" /\ pos[o] <= Len(made[o]) /\ Heard(made[o][pos[o]]) = Chunks
    BY <1>2 DEF SegmentEnds, HasNext, Current
  <2>2. pos[o] \in Nat /\ Len(made[o]) \in Nat /\ DOMAIN made[o] = 1..Len(made[o])
        /\ \A p \in Owners : pos'[p] = IF p = o THEN pos[o] + 1 ELSE pos[p]
    BY <1>0, <2>1 DEF TypeOK
  <2>3. PlayHeld(o)'
    <3>1. PlayHeld(o) /\ pos'[o] = pos[o] + 1 /\ pos[o] + 1 <= Len(made[o]) + 1
      BY <2>1, <2>2 DEF PlaysHeld
    <3>2. \A i \in DOMAIN made[o] : i < pos[o] + 1 => i < pos[o] \/ i = pos[o]
      BY <2>2
    <3>3. \A i \in DOMAIN made[o] : i > pos[o] + 1 => i > pos[o]
      BY <2>2
    <3>4. \A i \in DOMAIN made[o] : (i < pos'[o] => Heard(made[o][i]) = Chunks)
                                    /\ (i > pos'[o] => made[o][i].now = 0)
      BY <2>1, <3>1, <3>2, <3>3 DEF PlayHeld
    <3> QED BY <2>1, <3>1, <3>4 DEF PlayHeld, Heard
  <2>4. \A p \in Owners : p # o => PlayHeld(p)'
    BY <2>1, <2>2 DEF PlaysHeld, PlayHeld, HasNext, Current, Heard
  <2> QED BY <2>3, <2>4 DEF PlaysHeld
<1>3. CASE Deliver(o)
  BY <1>3, DeliverPlays
<1>4. CASE UNCHANGED <<made, pos, script>> /\ \A p \in Owners :
             cons'[p] = cons[p] \/ cons'[p] \in {"spoken", "cleanup", "broken"}
  BY <1>0, <1>4, PlaysStay DEF PlaysHeld, PlayHeld
<1>5. ReplyEnds(o) => UNCHANGED <<made, pos, script>> /\ cons' = [cons EXCEPT ![o] = "spoken"]
  BY DEF ReplyEnds
<1>6. ConsumerFails(o) => UNCHANGED <<made, pos, script>> /\ cons' = [cons EXCEPT ![o] = "cleanup"]
  BY DEF ConsumerFails
<1>7. CleanedUp(o) \/ CleanupGivenUp(o) =>
        UNCHANGED <<made, pos, script>> /\ cons' = [cons EXCEPT ![o] = "broken"]
  BY DEF CleanedUp, CleanupGivenUp
<1>8. ProviderStops(o) => UNCHANGED <<made, pos, script, cons>>
  BY DEF ProviderStops
<1> QED BY <1>0, <1>1, <1>2, <1>3, <1>4, <1>5, <1>6, <1>7, <1>8 DEF Consumer, TypeOK

LEMMA PlaysStep ==
  ASSUME FloorInd, PlaysHeld, Next
  PROVE  PlaysHeld'
<1>1. ASSUME NEW o \in Owners, NEW drained \in BOOLEAN, NEW settled \in BOOLEAN,
             Settle(o, drained, settled)
      PROVE  PlaysHeld'
  BY <1>1, PlaysQuiet DEF Settle
<1> QED BY <1>1, CallingsPlays, FloorsPlays, ProducerPlays, ConsumerPlays DEF Next, Cleanup

-----------------------------------------------------------------------------
(* Types.                                                                  *)

CallStages == {"idle", "settling", "stopping", "draining", "failing", "speaking", "unwinding",
               "again", "returned", "raised", "refused", "pending", "overtaken"}

(* A caller that goes on.                                                  *)
LEMMA CallTypes ==
  ASSUME TypeOK, NEW c, NEW how \in CallStages, call' = [call EXCEPT ![c] = how],
         line' = line \/ (line # <<>> /\ line' = Tail(line)), gathered' \in BOOLEAN,
         active' \in Owners \union {NoOne}, resumable' \in Seq(Segment), rows' \in Seq(Row),
         prod' \in [Owners -> {"none", "ready", "running", "ended", "failed"}],
         cons' \in [Owners -> {"none", "ready", "next", "playing", "cleanup", "spoken", "broken"}],
         tidy' \in [Owners -> {"none", "going", "done", "failed"}],
         UNCHANGED <<current, bad, retained, late, made, pos, script, open>>
  PROVE  TypeOK'
<1>1. call' \in [Callers -> CallStages]
  BY DEF TypeOK, CallStages
<1>2. line' \in Seq(Callers)
  <2>1. line \in Seq(Callers)
    BY DEF TypeOK
  <2>2. ASSUME line # <<>> PROVE Tail(line) \in Seq(Callers)
    BY ONLY <2>1, <2>2
  <2> QED BY <2>1, <2>2
<1> QED BY <1>1, <1>2 DEF TypeOK, CallStages

LEMMA TakesFloorTypes ==
  ASSUME TypeOK, FloorHeld, Revoke, NEW c \in Callers, NEW stage \in CallStages, Wait(c, stage),
         current' \in Owners \union {NoOne}, script' \in [Owners -> Seq(Segment)],
         UNCHANGED <<gathered, resumable, retained, made, pos, rows, open>>
  PROVE  TypeOK'
<1>1. call' \in [Callers -> CallStages] /\ line' \in Seq(Callers)
  BY DEF TypeOK, CallStages, Wait
<1>2. /\ active' = NoOne
      /\ prod' \in [Owners -> {"none", "ready", "running", "ended", "failed"}]
      /\ cons' \in [Owners -> {"none", "ready", "next", "playing", "cleanup", "spoken", "broken"}]
      /\ tidy' \in [Owners -> {"none", "going", "done", "failed"}]
      /\ bad' \subseteq Owners /\ late' \subseteq Owners
  BY Revokes
<1> QED BY <1>1, <1>2 DEF TypeOK, CallStages

LEMMA CallingsTypes ==
  ASSUME FloorInd, Callings
  PROVE  TypeOK'
<1>0. TypeOK /\ FloorHeld /\ "settling" \in CallStages /\ "stopping" \in CallStages
  BY DEF FloorInd, CallStages
<1>1. ASSUME NEW t \in Turns, Respond(t) PROVE TypeOK'
  <2>1. /\ t \in Callers /\ Revoke /\ Wait(t, "settling") /\ current' \in Owners
        /\ UNCHANGED <<gathered, resumable, retained, made, pos, script, rows, open>>
    BY <1>1, Names DEF Respond
  <2>2. script' \in [Owners -> Seq(Segment)]
    BY <1>0, <2>1 DEF TypeOK
  <2> QED BY <1>0, <2>1, <2>2, TakesFloorTypes
<1>2. ASSUME NEW r \in Replays, Resume(r) PROVE TypeOK'
  <2>1. /\ r \in Callers /\ Revoke /\ Wait(r, "settling") /\ current' \in Owners
        /\ UNCHANGED <<gathered, resumable, retained, made, pos, rows, open>>
    BY <1>2, Names DEF Resume, Revoke
  <2>2. script' \in [Owners -> Seq(Segment)]
    BY <1>0, <1>2 DEF Resume, TypeOK
  <2> QED BY <1>0, <2>1, <2>2, TakesFloorTypes
<1>3. ASSUME NEW s \in Stops, NEW keep \in BOOLEAN, Stop(s, keep) PROVE TypeOK'
  <2>1. /\ s \in Callers /\ Revoke /\ Wait(s, "stopping") /\ current' \in {active, NoOne}
        /\ UNCHANGED <<gathered, resumable, retained, made, pos, script, rows, open>>
    BY <1>3, Names DEF Stop
  <2>2. script' \in [Owners -> Seq(Segment)] /\ current' \in Owners \union {NoOne}
    BY <1>0, <2>1 DEF TypeOK
  <2> QED BY <1>0, <2>1, <2>2, TakesFloorTypes
<1>4. ASSUME NEW c \in Commands, Silence(c) PROVE TypeOK'
  <2>1. /\ c \in Callers /\ Revoke /\ Wait(c, "settling") /\ current' = active
        /\ UNCHANGED <<gathered, resumable, retained, made, pos, script, rows, open>>
    BY <1>4, Names DEF Silence
  <2>2. script' \in [Owners -> Seq(Segment)] /\ current' \in Owners \union {NoOne}
    BY <1>0, <2>1 DEF TypeOK
  <2> QED BY <1>0, <2>1, <2>2, TakesFloorTypes
<1>5. CASE BeginClose
  <2>1. /\ Close \in Callers /\ Revoke /\ Wait(Close, "settling") /\ current' = NoOne
        /\ UNCHANGED <<gathered, resumable, retained, made, pos, script, rows, open>>
    BY <1>5, Names DEF BeginClose
  <2>2. script' \in [Owners -> Seq(Segment)]
    BY <1>0, <2>1 DEF TypeOK
  <2> QED BY <1>0, <2>1, <2>2, TakesFloorTypes
<1>6. ASSUME NEW c, NEW how \in CallStages, call' = [call EXCEPT ![c] = how],
             line' = line \/ (line # <<>> /\ line' = Tail(line)), gathered' \in BOOLEAN,
             UNCHANGED <<floor, work, cleanup, reply, open>>, rows' \in Seq(Row)
      PROVE  TypeOK'
  <2>1. /\ active' \in Owners \union {NoOne} /\ resumable' \in Seq(Segment)
        /\ prod' \in [Owners -> {"none", "ready", "running", "ended", "failed"}]
        /\ cons' \in [Owners -> {"none", "ready", "next", "playing", "cleanup", "spoken", "broken"}]
        /\ tidy' \in [Owners -> {"none", "going", "done", "failed"}]
        /\ UNCHANGED <<current, bad, retained, late, made, pos, script, open>>
    BY <1>0, <1>6 DEF TypeOK
  <2> QED BY <1>0, <1>6, <2>1, CallTypes
<1>7. rows \in Seq(Row) /\ gathered \in BOOLEAN /\ FALSE \in BOOLEAN
  BY <1>0 DEF TypeOK
<1>8. ASSUME NEW s \in Stops, StopReturns(s) PROVE TypeOK'
  <2>1. PICK how \in {"refused", "returned"} : call' = [call EXCEPT ![s] = how]
    BY <1>8 DEF StopReturns
  <2>2. how \in CallStages
    BY DEF CallStages
  <2> QED BY <1>6, <1>7, <1>8, <2>1, <2>2 DEF StopReturns, Released
<1>9. ASSUME NEW c \in Commands, RecordCommand(c) PROVE TypeOK'
  <2>1. /\ rows' = Append(rows, [by |-> c, text |-> <<>>, cut |-> FALSE])
        /\ call' = [call EXCEPT ![c] = "returned"] /\ UNCHANGED <<line, gathered>>
        /\ UNCHANGED <<floor, work, cleanup, reply, open>>
    BY <1>9 DEF RecordCommand
  <2>2. [by |-> c, text |-> <<>>, cut |-> FALSE] \in Row /\ "returned" \in CallStages
    BY DEF Row, CallStages
  <2>3. rows' \in Seq(Row)
    BY <1>7, <2>1, <2>2
  <2> QED BY <1>6, <1>7, <2>1, <2>2, <2>3
<1>10. ASSUME NEW c \in Commands, CommandRefused(c) PROVE TypeOK'
  <2>1. "refused" \in CallStages
    BY DEF CallStages
  <2> QED BY <1>6, <1>7, <1>10, <2>1 DEF CommandRefused
<1>11. ASSUME NEW c \in Commands, LookAgain(c) PROVE TypeOK'
  <2>1. PICK how \in {"refused", "again"} : call' = [call EXCEPT ![c] = how]
    BY <1>11 DEF LookAgain
  <2>2. how \in CallStages
    BY DEF CallStages
  <2> QED BY <1>6, <1>7, <1>11, <2>1, <2>2 DEF LookAgain, Released
<1>12. CASE CloseForeground
  <2>1. PICK how \in {"failing", "draining", "refused", "returned"} : call' = [call EXCEPT ![Close] = how]
    BY <1>12 DEF CloseForeground
  <2>2. how \in CallStages
    BY DEF CallStages
  <2> QED BY <1>6, <1>7, <1>12, <2>1, <2>2 DEF CloseForeground, Released
<1>13. CASE CloseDrained
  <2>1. PICK how \in {"refused", "returned"} : call' = [call EXCEPT ![Close] = how]
    BY <1>13 DEF CloseDrained
  <2>2. how \in CallStages
    BY DEF CallStages
  <2> QED BY <1>6, <1>7, <1>13, <2>1, <2>2 DEF CloseDrained
<1>14. CASE DrainGivenUp(Close)
  <2>1. "refused" \in CallStages
    BY DEF CallStages
  <2> QED BY <1>6, <1>7, <1>14, <2>1 DEF DrainGivenUp, Refuse, EndCall
<1> QED BY <1>1, <1>2, <1>3, <1>4, <1>5, <1>8, <1>9, <1>10, <1>11, <1>12, <1>13, <1>14 DEF Callings

LEMMA FloorsTypes ==
  ASSUME FloorInd, NEW o \in Owners, Floors(o)
  PROVE  TypeOK'
<1>0. TypeOK /\ FloorHeld /\ o \in Callers
  BY Names DEF FloorInd
<1>1. ASSUME line' = line \/ (line # <<>> /\ line' = Tail(line)), gathered' \in BOOLEAN,
             UNCHANGED <<current, bad, retained, late, made, pos, script, rows, open>>,
             \/ \E how \in CallStages : EndCall(o, how)
             \/ Open(o)
             \/ /\ \E how \in CallStages : call' = [call EXCEPT ![o] = how]
                /\ active' \in {active, NoOne} /\ UNCHANGED <<resumable, prod, cons, tidy>>
      PROVE  TypeOK'
  <2>1. \E how \in CallStages : call' = [call EXCEPT ![o] = how]
    BY <1>1 DEF EndCall, Open, CallStages
  <2>2. /\ active' \in Owners \union {NoOne} /\ resumable' \in Seq(Segment)
        /\ prod' \in [Owners -> {"none", "ready", "running", "ended", "failed"}]
        /\ cons' \in [Owners -> {"none", "ready", "next", "playing", "cleanup", "spoken", "broken"}]
        /\ tidy' \in [Owners -> {"none", "going", "done", "failed"}]
    <3>1. CASE Open(o)
      <4>0. /\ prod' \in {prod, [prod EXCEPT ![o] = "ended"], [prod EXCEPT ![o] = "ready"]}
            /\ tidy' \in {tidy, [tidy EXCEPT ![o] = "done"]}
            /\ cons' \in {cons, [cons EXCEPT ![o] = "ready"]}
            /\ active' \in {active, o} /\ resumable' \in {resumable, <<>>}
        BY <3>1 DEF Open
      <4>1. active \in Owners \union {NoOne} /\ resumable \in Seq(Segment) /\ <<>> \in Seq(Segment)
        BY <1>0 DEF TypeOK
      <4>2. prod' \in [Owners -> {"none", "ready", "running", "ended", "failed"}]
        BY <1>0, <4>0 DEF TypeOK
      <4>3. cons' \in [Owners -> {"none", "ready", "next", "playing", "cleanup", "spoken", "broken"}]
        BY <1>0, <4>0 DEF TypeOK
      <4>4. tidy' \in [Owners -> {"none", "going", "done", "failed"}]
        BY <1>0, <4>0 DEF TypeOK
      <4> QED BY <4>0, <4>1, <4>2, <4>3, <4>4
    <3>2. CASE active' \in {active, NoOne} /\ UNCHANGED <<resumable, prod, cons, tidy>>
      BY <1>0, <3>2 DEF TypeOK
    <3> QED BY <1>1, <3>1, <3>2 DEF EndCall
  <2>3. rows' \in Seq(Row)
    BY <1>0, <1>1 DEF TypeOK
  <2> QED BY <1>0, <1>1, <2>1, <2>2, <2>3, CallTypes
<1>2. /\ {"refused", "pending", "draining", "returned", "raised", "unwinding"} \subseteq CallStages
      /\ gathered \in BOOLEAN
  BY <1>0 DEF CallStages, TypeOK
<1>3. CASE Enter(o)
  BY <1>1, <1>2, <1>3 DEF Enter, Released, Refuse
<1>4. CASE StartDrained(o)
  BY <1>1, <1>2, <1>4 DEF StartDrained, Refuse
<1>5. CASE DrainGivenUp(o)
  BY <1>1, <1>2, <1>5 DEF DrainGivenUp, Refuse
<1>6. CASE Finish(o)
  BY <1>1, <1>2, <1>6 DEF Finish
<1>7. CASE Unwind(o)
  <2>1. Wait(o, "unwinding") /\ UNCHANGED <<gathered, resumable, retained, made, pos, script, rows, open>>
    BY <1>7 DEF Unwind
  <2>2. script' \in [Owners -> Seq(Segment)]
    BY <1>0, <2>1 DEF TypeOK
  <2>3. CASE active = o
    BY <1>0, <1>2, <1>7, <2>1, <2>2, <2>3, TakesFloorTypes DEF Unwind
  <2>4. CASE active # o
    <3>1. UNCHANGED <<active, current, prod, cons, bad, tidy, late>>
      BY <1>7, <2>4 DEF Unwind
    <3>2. call' \in [Callers -> CallStages] /\ line' \in Seq(Callers)
      BY <1>0, <2>1 DEF TypeOK, CallStages, Wait
    <3> QED BY <1>0, <2>1, <3>1, <3>2 DEF TypeOK, CallStages
  <2> QED BY <2>3, <2>4
<1>8. CASE Raise(o)
  BY <1>1, <1>2, <1>8 DEF Raise, Released
<1> QED BY <1>3, <1>4, <1>5, <1>6, <1>7, <1>8 DEF Floors

(* What an owner's producer and consumer do.                               *)
LEMMA WorkTypes ==
  ASSUME TypeOK, UNCHANGED <<calls, floor, tidy, script>>,
         prod' \in [Owners -> {"none", "ready", "running", "ended", "failed"}],
         cons' \in [Owners -> {"none", "ready", "next", "playing", "cleanup", "spoken", "broken"}],
         bad' \union retained' \union late' \subseteq Owners,
         made' \in [Owners -> Seq(Said)], pos' \in [Owners -> Nat \ {0}],
         rows' \in Seq(Row), open' \in Owners \union {NoOne}
  PROVE  TypeOK'
BY DEF TypeOK

LEMMA ProducerTypes ==
  ASSUME FloorInd, PlaysHeld, NEW o \in Owners, Producer(o)
  PROVE  TypeOK'
<1>0. TypeOK
  BY DEF FloorInd
<1>1. /\ bad \union retained \union late \subseteq Owners
      /\ made \in [Owners -> Seq(Said)] /\ pos \in [Owners -> Nat \ {0}]
      /\ rows \in Seq(Row) /\ open \in Owners \union {NoOne}
      /\ prod \in [Owners -> {"none", "ready", "running", "ended", "failed"}]
      /\ cons \in [Owners -> {"none", "ready", "next", "playing", "cleanup", "spoken", "broken"}]
  BY <1>0 DEF TypeOK
<1>2. CASE Begin(o)
  <2>1. /\ UNCHANGED <<calls, floor, bad, cleanup, reply, open>>
        /\ prod' = [prod EXCEPT ![o] = "running"] /\ cons' = [cons EXCEPT ![o] = "next"]
        /\ rows' = rows \/ rows' = Append(rows, [by |-> o, text |-> <<>>, cut |-> FALSE])
    BY <1>2 DEF Begin
  <2>2. [by |-> o, text |-> <<>>, cut |-> FALSE] \in Row
    BY DEF Row
  <2>3. rows' \in Seq(Row)
    <3>1. Append(rows, [by |-> o, text |-> <<>>, cut |-> FALSE]) \in Seq(Row)
      BY <1>1, <2>2, AppendProperties
    <3> QED BY <1>1, <2>1, <3>1
  <2> QED BY <1>0, <1>1, <2>1, <2>3, WorkTypes
<1>3. CASE Publish(o)
  <2>1. made'[o] \in Seq(Said) /\ \A p \in Owners : p # o => made'[p] = made[p]
    BY <1>3, PublishPlays
  <2>2. made' \in [Owners -> Seq(Said)]
    <3>1. PICK s : made' = [made EXCEPT ![o] = s]
      BY <1>3 DEF Publish
    <3> QED BY <1>1, <2>1, <3>1
  <2> QED BY <1>0, <1>1, <1>3, <2>2, WorkTypes DEF Publish
<1>4. CASE ProducerEnds(o)
  BY <1>0, <1>1, <1>4, WorkTypes DEF ProducerEnds
<1>5. CASE ProducerFails(o)
  <2>1. /\ prod' = [prod EXCEPT ![o] = "failed"]
        /\ cons' = [cons EXCEPT ![o] = IF @ \in {"ready", "cleanup"} THEN "broken" ELSE @]
        /\ bad' \in {bad, bad \ {o}} /\ late' \in {late, late \union {o}}
        /\ UNCHANGED <<calls, floor, tidy, retained, reply, context>>
    BY <1>5 DEF ProducerFails, CancelConsumer
  <2>2. /\ prod' \in [Owners -> {"none", "ready", "running", "ended", "failed"}]
        /\ cons' \in [Owners -> {"none", "ready", "next", "playing", "cleanup", "spoken", "broken"}]
        /\ bad' \union retained' \union late' \subseteq Owners
    BY <1>1, <2>1
  <2> QED BY <1>0, <1>1, <2>1, <2>2, WorkTypes
<1> QED BY <1>2, <1>3, <1>4, <1>5 DEF Producer

LEMMA ConsumerTypes ==
  ASSUME FloorInd, RowsHeld, PlaysHeld, NEW o \in Owners, Consumer(o)
  PROVE  TypeOK'
<1>0. TypeOK
  BY DEF FloorInd
<1>1. /\ bad \union retained \union late \subseteq Owners
      /\ made \in [Owners -> Seq(Said)] /\ pos \in [Owners -> Nat \ {0}]
      /\ rows \in Seq(Row) /\ open \in Owners \union {NoOne}
      /\ prod \in [Owners -> {"none", "ready", "running", "ended", "failed"}]
      /\ cons \in [Owners -> {"none", "ready", "next", "playing", "cleanup", "spoken", "broken"}]
  BY <1>0 DEF TypeOK
<1>2. CASE Play(o)
  BY <1>0, <1>1, <1>2, WorkTypes DEF Play
<1>3. CASE SegmentEnds(o)
  <2>1. pos' \in [Owners -> Nat \ {0}]
    BY <1>1, <1>3 DEF SegmentEnds
  <2> QED BY <1>0, <1>1, <1>3, <2>1, WorkTypes DEF SegmentEnds
<1>4. CASE Deliver(o)
  <2> DEFINE chunk == <<Current(o).of, Current(o).nr, Heard(Current(o)) + 1>>
  <2>1. /\ Record(o, chunk) /\ (open = o => Last(rows).by = o) /\ open' = o
        /\ cons' = [cons EXCEPT ![o] = "next"]
        /\ UNCHANGED <<calls, floor, prod, bad, cleanup, pos, script>>
    BY <1>4 DEF Deliver, Record
  <2>2. chunk \in Chunk
    BY <1>0, <1>4, ChunkPlayed DEF Deliver, Started
  <2> HIDE DEF chunk
  <2>3. rows' \in Seq(Row)
    BY <1>0, <2>1, <2>2, ChunkRecorded
  <2>4. made' \in [Owners -> Seq(Said)]
    BY <1>4, DeliverPlays
  <2>5. /\ bad' \union retained' \union late' \subseteq Owners /\ pos' \in [Owners -> Nat \ {0}]
        /\ prod' \in [Owners -> {"none", "ready", "running", "ended", "failed"}]
        /\ cons' \in [Owners -> {"none", "ready", "next", "playing", "cleanup", "spoken", "broken"}]
    BY <1>1, <2>1
  <2> QED BY <1>0, <2>1, <2>3, <2>4, <2>5, WorkTypes
<1>5. CASE ReplyEnds(o)
  BY <1>0, <1>1, <1>5, WorkTypes DEF ReplyEnds
<1>6. CASE ConsumerFails(o)
  <2>1. /\ MarkInterrupted(o) /\ cons' = [cons EXCEPT ![o] = "cleanup"] /\ bad' \subseteq bad \union {o}
        /\ UNCHANGED <<calls, floor, prod, cleanup, reply>> /\ open' \in {open, NoOne}
    BY <1>6 DEF ConsumerFails, MarkInterrupted
  <2>2. rows' \in Seq(Row)
    BY <1>0, <2>1, RowMarked
  <2> QED BY <1>0, <1>1, <2>1, <2>2, WorkTypes
<1>7. CASE CleanedUp(o)
  BY <1>0, <1>1, <1>7, WorkTypes DEF CleanedUp
<1>8. CASE CleanupGivenUp(o)
  BY <1>0, <1>1, <1>8, WorkTypes DEF CleanupGivenUp
<1>9. CASE ProviderStops(o)
  BY <1>0, <1>1, <1>9, WorkTypes DEF ProviderStops
<1> QED BY <1>2, <1>3, <1>4, <1>5, <1>6, <1>7, <1>8, <1>9 DEF Consumer

LEMMA TypeStep ==
  ASSUME FloorInd, RowsHeld, PlaysHeld, Next
  PROVE  TypeOK'
<1>1. ASSUME NEW o \in Owners, NEW drained \in BOOLEAN, NEW settled \in BOOLEAN,
             Settle(o, drained, settled)
      PROVE  TypeOK'
  <2>1. TypeOK
    BY DEF FloorInd
  <2>2. /\ tidy' \in [Owners -> {"none", "going", "done", "failed"}] /\ gathered' \in BOOLEAN
        /\ retained' \subseteq Owners
    BY <1>1, <2>1 DEF Settle, TypeOK
  <2>3. resumable' \in Seq(Segment)
    <3>1. Rest(o) \in Seq(Segment)
      BY <2>1, RestIs
    <3>2. resumable \in Seq(Segment)
      BY <2>1 DEF TypeOK
    <3> QED BY <1>1, <3>1, <3>2 DEF Settle, Kept
  <2>4. UNCHANGED <<call, line, active, current, work, late, reply, context>>
    BY <1>1 DEF Settle
  <2> QED BY <2>1, <2>2, <2>3, <2>4 DEF TypeOK
<1> QED BY <1>1, CallingsTypes, FloorsTypes, ProducerTypes, ConsumerTypes DEF Next, Cleanup

-----------------------------------------------------------------------------
(* The first part of the invariant.                                        *)

LEMMA InitConducted ==
  ASSUME Init
  PROVE  Conducted
<1>1. TypeOK
  <2>1. /\ <<>> \in Seq(Callers) /\ <<>> \in Seq(Segment) /\ <<>> \in Seq(Row) /\ <<>> \in Seq(Said)
    OBVIOUS
  <2>2. /\ made \in [Owners -> Seq(Said)] /\ script \in [Owners -> Seq(Segment)]
        /\ pos \in [Owners -> Nat \ {0}]
    BY <2>1 DEF Init
  <2>3. /\ call \in [Callers -> CallStages]
        /\ prod \in [Owners -> {"none", "ready", "running", "ended", "failed"}]
        /\ cons \in [Owners -> {"none", "ready", "next", "playing", "cleanup", "spoken", "broken"}]
        /\ tidy \in [Owners -> {"none", "going", "done", "failed"}]
    BY DEF Init, CallStages
  <2>4. /\ line \in Seq(Callers) /\ gathered \in BOOLEAN /\ resumable \in Seq(Segment) /\ rows \in Seq(Row)
        /\ {active, current, open} \subseteq Owners \union {NoOne}
        /\ bad \union retained \union late \subseteq Owners
    BY <2>1 DEF Init
  <2> QED BY <2>2, <2>3, <2>4 DEF TypeOK, CallStages
<1>2. FloorHeld
  <2>1. LineHeld
    BY DEF Init, LineHeld, Waits
  <2>2. ActiveHeld /\ DrainHeld /\ LatestWaits
    BY Names DEF Init, ActiveHeld, DrainHeld, Draining, LatestWaits
  <2>3. ASSUME NEW o \in Owners PROVE StageHeld(o) /\ RevokedHeld(o)
    BY Names DEF Init, StageHeld, RevokedHeld, Unopened, Over, Revoked, Live
  <2> QED BY <2>1, <2>2, <2>3 DEF FloorHeld
<1>3. OneAtATime
  BY DEF Init, OneAtATime
<1>4. WordsHeld /\ RowsHeld
  <2>1. DOMAIN rows = {} /\ open = NoOne /\ ~gathered
    BY DEF Init
  <2>2. \A t \in Turns : prod[t] = "none" /\ call[t] = "idle"
    BY Names DEF Init
  <2> QED BY <2>1, <2>2 DEF WordsHeld, HasQuestion, RowsHeld
<1>5. PlaysHeld
  <2> SUFFICES ASSUME NEW o \in Owners PROVE PlayHeld(o)
    BY DEF PlaysHeld
  <2>1. made[o] = <<>> /\ pos[o] = 1 /\ cons[o] = "none" /\ Len(made[o]) = 0 /\ DOMAIN made[o] = {}
    BY DEF Init
  <2> QED BY <2>1 DEF PlayHeld
<1> QED BY <1>1, <1>2, <1>3, <1>4, <1>5 DEF Conducted

LEMMA StepConducted ==
  ASSUME Conducted, [Next]_vars
  PROVE  Conducted'
<1>0. FloorInd /\ WordsHeld /\ RowsHeld /\ PlaysHeld
  BY DEF Conducted, FloorInd
<1>1. CASE Next
  BY <1>0, <1>1, FloorStep, WordsStep, RowsStep, PlaysStep, TypeStep DEF Conducted
<1>2. CASE UNCHANGED vars
  <2>1. UNCHANGED <<call, line, gathered, active, current, resumable, prod, cons, bad, tidy, retained,
                    late, made, pos, script, rows, open>>
    BY <1>2 DEF vars
  <2>2. TypeOK' /\ OneAtATime'
    BY <1>0, <2>1 DEF FloorInd, TypeOK, OneAtATime
  <2>3. FloorHeld'
    <3>1. LineHeld' /\ ActiveHeld' /\ DrainHeld' /\ LatestWaits'
      BY <1>0, <2>1 DEF FloorInd, FloorHeld, LineHeld, Waits, ActiveHeld, Live, DrainHeld, Draining,
                        Cleanups, LatestWaits, Ahead
    <3>2. \A o \in Owners : StageHeld(o)' /\ RevokedHeld(o)'
      BY <1>0, <2>1 DEF FloorInd, FloorHeld, StageHeld, Unopened, Over, Revoked, RevokedHeld, Live
    <3> QED BY <3>1, <3>2 DEF FloorHeld
  <2>4. WordsHeld'
    BY <1>0, <2>1 DEF WordsHeld, HasQuestion, Revoked, Closed
  <2>5. RowsHeld'
    BY <1>0, <2>1 DEF RowsHeld, RowHeld, Spoken, DisplacedRow, HeardAny
  <2>6. PlaysHeld'
    BY <1>0, <2>1 DEF PlaysHeld, PlayHeld, HasNext, Heard, Current
  <2> QED BY <2>2, <2>3, <2>4, <2>5, <2>6 DEF Conducted
<1> QED BY <1>1, <1>2

(* Whatever is asked of the loop and whatever fails, the types hold, who   *)
(* has the floor is alone, a turn's words are recorded or never will be,   *)
(* each reply's row is where its consumer may add to it, and its consumer  *)
(* plays within what was published.                                        *)
THEOREM SpeechConducted == Spec => []Conducted
<1>1. Init => Conducted
  BY InitConducted
<1>2. Conducted /\ [Next]_vars => Conducted'
  BY StepConducted
<1> QED BY <1>1, <1>2, PTL DEF Spec

(* No two owners infer at once and no two are heard at once, however long  *)
(* providers ignore a cancellation.                                        *)
THEOREM OneSpeaksAtATime == Spec => []OneAtATime
<1>1. Conducted => OneAtATime
  BY DEF Conducted
<1> QED BY <1>1, SpeechConducted, PTL

(* No turn returns, raises or is refused with its words silently lost.     *)
THEOREM WordsAreKept == Spec => []WordsKept
<1>1. ASSUME Conducted PROVE WordsKept
  <2> SUFFICES ASSUME NEW t \in Turns, call[t] \in {"returned", "raised", "refused"}
               PROVE  \/ HasQuestion(t)
                      \/ prod[t] = "ended" /\ Revoked(t)
                      \/ call[t] = "refused" /\ (Closed \/ \E o \in Owners \ {t} : tidy[o] = "failed")
    BY DEF WordsKept, HasQuestion
  <2>1. WordsHeld /\ StageHeld(t)
    BY <1>1, Names DEF Conducted, FloorHeld
  <2>2. CASE call[t] = "refused"
    BY <2>1, <2>2 DEF WordsHeld
  <2>3. CASE call[t] \in {"returned", "raised"}
    <3>1. prod[t] \notin {"none", "ready"}
      BY <2>1, <2>3 DEF StageHeld, Over
    <3> QED BY <2>1, <3>1 DEF WordsHeld
  <2> QED BY <2>2, <2>3
<1> QED BY <1>1, SpeechConducted, PTL

(* A reply that was broken off after some of it was heard is flagged, and  *)
(* one that was spoken to its end is not.                                  *)
THEOREM InterruptionsAreMarked == Spec => []InterruptedMarked
<1>1. ASSUME Conducted PROVE InterruptedMarked
  <2> SUFFICES ASSUME NEW i \in DOMAIN rows, rows[i].text # <<>>
               PROVE  LET o == rows[i].by
                      IN  /\ rows[i].cut => cons[o] \in {"cleanup", "broken"}
                          /\ cons[o] \in {"cleanup", "broken"} => rows[i].cut \/ DisplacedRow(o, i)
    BY DEF InterruptedMarked, DisplacedRow
  <2>1. RowHeld(i) /\ Spoken(i) /\ TypeOK
    BY <1>1 DEF Conducted, RowsHeld, Spoken
  <2>2. cons[rows[i].by] \in {"none", "ready", "next", "playing", "cleanup", "spoken", "broken"}
    BY <2>1 DEF RowHeld, TypeOK
  <2> QED BY <2>1, <2>2 DEF RowHeld
<1> QED BY <1>1, SpeechConducted, PTL

-----------------------------------------------------------------------------
(* What is heard: facts about any rows and any plan.                       *)

SpokenAt(rs, i, k) == i \in DOMAIN rs /\ k \in DOMAIN rs[i].text
Before(i, k, h, l) == i < h \/ (i = h /\ k < l)

(* HeardInOrder and AnswersLatest of rows rs.                              *)
OrderedAt(rs, h, l) ==
  LET c == rs[h].text[l]
      Sooner_(i, k) == SpokenAt(rs, i, k) /\ Before(i, k, h, l) /\ rs[i].text[k][1] = c[1]
  IN  /\ \A i, k : Sooner_(i, k) =>
           rs[i].text[k][2] < c[2] \/ (rs[i].text[k][2] = c[2] /\ rs[i].text[k][3] < c[3])
      /\ (c[2] = 1 /\ c[3] = 1) \/ \E i, k : Sooner_(i, k) /\ Follows(rs[i].text[k], c[2], c[3])
OrderedIn(rs) == \A h, l : SpokenAt(rs, h, l) => OrderedAt(rs, h, l)

AnsweredAt(rs, t, i) ==
  \E j \in 1..(i - 1) :
    IsQuestion(rs[j]) /\ rs[j].by = t /\ \A k \in (j + 1)..(i - 1) : ~IsQuestion(rs[k])
AnswersIn(rs) == \A i, k : SpokenAt(rs, i, k) => AnsweredAt(rs, rs[i].text[k][1], i)

LEMMA PlacesAre ==
  ASSUME NEW rs
  PROVE  \A p : p \in UNION {{i} \X DOMAIN rs[i].text : i \in DOMAIN rs} <=>
                  p = <<p[1], p[2]>> /\ SpokenAt(rs, p[1], p[2])
<1>1. ASSUME NEW p, p \in UNION {{i} \X DOMAIN rs[i].text : i \in DOMAIN rs}
      PROVE  p = <<p[1], p[2]>> /\ SpokenAt(rs, p[1], p[2])
  <2>1. PICK i \in DOMAIN rs : p \in {i} \X DOMAIN rs[i].text
    BY <1>1
  <2> QED BY <2>1 DEF SpokenAt
<1>2. ASSUME NEW p, p = <<p[1], p[2]>>, SpokenAt(rs, p[1], p[2])
      PROVE  p \in UNION {{i} \X DOMAIN rs[i].text : i \in DOMAIN rs}
  <2>1. p[1] \in DOMAIN rs /\ p \in {p[1]} \X DOMAIN rs[p[1]].text
    BY <1>2 DEF SpokenAt
  <2> QED BY <2>1
<1> QED BY <1>1, <1>2

(* The two forms of HeardInOrder, for rows rs.                             *)
LEMMA Orders ==
  ASSUME NEW rs, NEW places, places = UNION {{i} \X DOMAIN rs[i].text : i \in DOMAIN rs}
  PROVE  OrderedIn(rs) <=>
           \A q \in places :
             LET c == rs[q[1]].text[q[2]]
                 sooner == {rs[p[1]].text[p[2]] :
                              p \in {p \in places : Sooner(p, q) /\ rs[p[1]].text[p[2]][1] = c[1]}}
             IN  /\ \A b \in sooner : b[2] < c[2] \/ (b[2] = c[2] /\ b[3] < c[3])
                 /\ (c[2] = 1 /\ c[3] = 1) \/ \E b \in sooner : Follows(b, c[2], c[3])
<1>1. \A p : p \in places <=> p = <<p[1], p[2]>> /\ SpokenAt(rs, p[1], p[2])
  BY PlacesAre
<1>2. \A i, k : SpokenAt(rs, i, k) <=> <<i, k>> \in places
  <2> SUFFICES ASSUME NEW i, NEW k PROVE SpokenAt(rs, i, k) <=> <<i, k>> \in places
    OBVIOUS
  <2>1. PICK p : p = <<i, k>>
    OBVIOUS
  <2>2. p[1] = i /\ p[2] = k
    BY <2>1
  <2>3. p \in places <=> SpokenAt(rs, i, k)
    BY <1>1, <2>1, <2>2
  <2> QED BY <2>1, <2>3
<1>3. ASSUME NEW q \in places
      PROVE  OrderedAt(rs, q[1], q[2]) <=>
             LET c == rs[q[1]].text[q[2]]
                 sooner == {rs[p[1]].text[p[2]] :
                              p \in {p \in places : Sooner(p, q) /\ rs[p[1]].text[p[2]][1] = c[1]}}
             IN  /\ \A b \in sooner : b[2] < c[2] \/ (b[2] = c[2] /\ b[3] < c[3])
                 /\ (c[2] = 1 /\ c[3] = 1) \/ \E b \in sooner : Follows(b, c[2], c[3])
  <2> DEFINE c == rs[q[1]].text[q[2]]
             sooner == {rs[p[1]].text[p[2]] :
                          p \in {p \in places : Sooner(p, q) /\ rs[p[1]].text[p[2]][1] = c[1]}}
             Soon(i, k) == SpokenAt(rs, i, k) /\ Before(i, k, q[1], q[2]) /\ rs[i].text[k][1] = c[1]
  <2>2. ASSUME NEW b \in sooner PROVE \E i, k : Soon(i, k) /\ b = rs[i].text[k]
    <3>1. PICK p \in places : Sooner(p, q) /\ rs[p[1]].text[p[2]][1] = c[1] /\ b = rs[p[1]].text[p[2]]
      OBVIOUS
    <3>2. Soon(p[1], p[2])
      BY <1>1, <3>1 DEF Sooner, Before
    <3> QED BY <3>1, <3>2
  <2>3. ASSUME NEW i, NEW k, Soon(i, k) PROVE rs[i].text[k] \in sooner
    <3>1. PICK p \in places : p[1] = i /\ p[2] = k
      <4>1. <<i, k>> \in places /\ <<i, k>>[1] = i /\ <<i, k>>[2] = k
        BY <1>2, <2>3
      <4> QED BY ONLY <4>1
    <3>2. Sooner(p, q) /\ rs[p[1]].text[p[2]][1] = c[1]
      BY <2>3, <3>1 DEF Sooner, Before
    <3>3. rs[p[1]].text[p[2]] \in sooner
      BY <3>2
    <3> QED BY <3>1, <3>3
  <2> HIDE DEF sooner, Soon
  <2>4. (\A b \in sooner : b[2] < c[2] \/ (b[2] = c[2] /\ b[3] < c[3])) <=>
        (\A i, k : Soon(i, k) =>
           rs[i].text[k][2] < c[2] \/ (rs[i].text[k][2] = c[2] /\ rs[i].text[k][3] < c[3]))
    BY <2>2, <2>3
  <2>5. (\E b \in sooner : Follows(b, c[2], c[3])) <=>
        (\E i, k : Soon(i, k) /\ Follows(rs[i].text[k], c[2], c[3]))
    BY <2>2, <2>3
  <2>6. OrderedAt(rs, q[1], q[2]) <=>
          /\ \A i, k : Soon(i, k) =>
               rs[i].text[k][2] < c[2] \/ (rs[i].text[k][2] = c[2] /\ rs[i].text[k][3] < c[3])
          /\ (c[2] = 1 /\ c[3] = 1) \/ \E i, k : Soon(i, k) /\ Follows(rs[i].text[k], c[2], c[3])
    BY DEF OrderedAt, Soon
  <2> HIDE DEF c
  <2>7. OrderedAt(rs, q[1], q[2]) <=>
          /\ \A b \in sooner : b[2] < c[2] \/ (b[2] = c[2] /\ b[3] < c[3])
          /\ (c[2] = 1 /\ c[3] = 1) \/ \E b \in sooner : Follows(b, c[2], c[3])
    BY <2>4, <2>5, <2>6
  <2> QED BY ONLY <2>7, Zenon DEF sooner, c
<1>4. ASSUME \A q \in places : OrderedAt(rs, q[1], q[2]), NEW h, NEW l, SpokenAt(rs, h, l)
      PROVE  OrderedAt(rs, h, l)
  <2>1. PICK q \in places : q[1] = h /\ q[2] = l
    <3>1. <<h, l>> \in places /\ <<h, l>>[1] = h /\ <<h, l>>[2] = l
      BY <1>2, <1>4
    <3> QED BY ONLY <3>1
  <2> QED BY <1>4, <2>1
<1>5. OrderedIn(rs) <=> \A q \in places : OrderedAt(rs, q[1], q[2])
  BY <1>1, <1>4 DEF OrderedIn
<1> QED BY <1>3, <1>5

LEMMA OrderIs ==
  /\ HeardInOrder <=> OrderedIn(rows)
  /\ HeardInOrder' <=> OrderedIn(rows')
  /\ AnswersLatest <=> AnswersIn(rows)
  /\ AnswersLatest' <=> AnswersIn(rows')
<1>1. HeardInOrder <=> OrderedIn(rows)
  BY Orders DEF HeardInOrder, Places, ChunkAt
<1>2. HeardInOrder' <=> OrderedIn(rows')
  BY Orders DEF HeardInOrder, Places, ChunkAt
<1>3. AnswersLatest <=> AnswersIn(rows)
  BY DEF AnswersLatest, AnswersIn, AnsweredAt, SpokenAt, Range
<1>4. AnswersLatest' <=> AnswersIn(rows')
  BY DEF AnswersLatest, AnswersIn, AnsweredAt, SpokenAt, Range
<1> QED BY <1>1, <1>2, <1>3, <1>4

HeardSame(rs, rs2) == \A t, nr, k : HeardChunk(rs2, t, nr, k) <=> HeardChunk(rs, t, nr, k)
LatestKept(rs, rs2) == \A t : LatestQuestion(rs, t) => LatestQuestion(rs2, t)

(* The rows rs2 say what rs say, in the same places.                       *)
SaysSame(rs, rs2) ==
  \A i, k : /\ SpokenAt(rs2, i, k) <=> SpokenAt(rs, i, k)
            /\ SpokenAt(rs, i, k) => rs2[i].text[k] = rs[i].text[k]

LEMMA HeardAt ==
  ASSUME NEW rs, \A i, k : SpokenAt(rs, i, k) => rs[i].text[k] \in Chunk
  PROVE  /\ \A t, nr, k : HeardChunk(rs, t, nr, k) <=>
                            \E i, j : SpokenAt(rs, i, j) /\ rs[i].text[j] = <<t, nr, k>>
         /\ \A i, j : SpokenAt(rs, i, j) =>
              HeardChunk(rs, rs[i].text[j][1], rs[i].text[j][2], rs[i].text[j][3])
<1>1. \A t, nr, k : HeardChunk(rs, t, nr, k) <=>
                      \E i, j : SpokenAt(rs, i, j) /\ rs[i].text[j] = <<t, nr, k>>
  BY DEF HeardChunk, SpokenAt
<1>2. \A c \in Chunk : c = <<c[1], c[2], c[3]>>
  BY DEF Chunk
<1> QED BY <1>1, <1>2

(* The order of a chunk is that of what is said before it.                 *)
LEMMA OrderedStays ==
  ASSUME NEW rs, NEW rs2, NEW x, NEW y, OrderedAt(rs, x, y), rs2[x].text[y] = rs[x].text[y],
         \A i, k : Before(i, k, x, y) => (SpokenAt(rs2, i, k) <=> SpokenAt(rs, i, k)),
         \A i, k : (SpokenAt(rs, i, k) => rs2[i].text[k] = rs[i].text[k])
  PROVE  OrderedAt(rs2, x, y)
<1> DEFINE c == rs[x].text[y]
           Old(i, k) == SpokenAt(rs, i, k) /\ Before(i, k, x, y) /\ rs[i].text[k][1] = c[1]
           d == rs2[x].text[y]
           New(i, k) == SpokenAt(rs2, i, k) /\ Before(i, k, x, y) /\ rs2[i].text[k][1] = d[1]
<1>1. /\ \A i, k : Old(i, k) =>
           rs[i].text[k][2] < c[2] \/ (rs[i].text[k][2] = c[2] /\ rs[i].text[k][3] < c[3])
      /\ (c[2] = 1 /\ c[3] = 1) \/ \E i, k : Old(i, k) /\ Follows(rs[i].text[k], c[2], c[3])
  BY DEF OrderedAt
<1>2. \A i, k : New(i, k) <=> Old(i, k)
  OBVIOUS
<1>3. \A i, k : Old(i, k) => rs2[i].text[k] = rs[i].text[k]
  OBVIOUS
<1>4. /\ \A i, k : New(i, k) =>
           rs2[i].text[k][2] < d[2] \/ (rs2[i].text[k][2] = d[2] /\ rs2[i].text[k][3] < d[3])
      /\ (d[2] = 1 /\ d[3] = 1) \/ \E i, k : New(i, k) /\ Follows(rs2[i].text[k], d[2], d[3])
  <2>1. d = c
    OBVIOUS
  <2> HIDE DEF New, Old, c, d
  <2> QED BY <1>1, <1>2, <1>3, <2>1
<1> QED BY <1>4 DEF OrderedAt

LEMMA SaidSame ==
  ASSUME NEW rs, NEW rs2, SaysSame(rs, rs2)
  PROVE  HeardSame(rs, rs2) /\ (OrderedIn(rs) => OrderedIn(rs2))
<1>1. ASSUME NEW t, NEW nr, NEW k PROVE HeardChunk(rs2, t, nr, k) <=> HeardChunk(rs, t, nr, k)
  <2>1. HeardChunk(rs, t, nr, k) <=> \E i, j : SpokenAt(rs, i, j) /\ rs[i].text[j] = <<t, nr, k>>
    BY DEF HeardChunk, SpokenAt
  <2>2. HeardChunk(rs2, t, nr, k) <=> \E i, j : SpokenAt(rs2, i, j) /\ rs2[i].text[j] = <<t, nr, k>>
    BY DEF HeardChunk, SpokenAt
  <2> QED BY <2>1, <2>2 DEF SaysSame
<1>2. ASSUME OrderedIn(rs), NEW x, NEW y, SpokenAt(rs2, x, y) PROVE OrderedAt(rs2, x, y)
  <2>1. SpokenAt(rs, x, y) /\ rs2[x].text[y] = rs[x].text[y] /\ OrderedAt(rs, x, y)
    BY <1>2 DEF SaysSame, OrderedIn
  <2> QED BY <2>1, OrderedStays DEF SaysSame
<1> QED BY <1>1, <1>2 DEF HeardSame, OrderedIn

LEMMA ContinuesSame ==
  ASSUME NEW rs, NEW rs2, NEW plan, HeardSame(rs, rs2), LatestKept(rs, rs2), Continues(rs, plan)
  PROVE  Continues(rs2, plan)
  BY DEF HeardSame, LatestKept, Continues

(* The rows rs2 say one chunk more than rs, after all the others.          *)
SaysMore(rs, rs2, h, l, chunk) ==
  /\ h \in Nat /\ l \in Nat /\ chunk \in Chunk /\ rs2[h].text[l] = chunk
  /\ \A i, k : /\ SpokenAt(rs2, i, k) <=> SpokenAt(rs, i, k) \/ (i = h /\ k = l)
               /\ SpokenAt(rs, i, k) =>
                    /\ i \in Nat /\ k \in Nat /\ Before(i, k, h, l)
                    /\ rs[i].text[k] \in Chunk /\ rs2[i].text[k] = rs[i].text[k]

LEMMA SaidMore ==
  ASSUME NEW rs, NEW rs2, NEW h, NEW l, NEW chunk, SaysMore(rs, rs2, h, l, chunk)
  PROVE  \A t, nr, k : HeardChunk(rs2, t, nr, k) <=> HeardChunk(rs, t, nr, k) \/ chunk = <<t, nr, k>>
<1> SUFFICES ASSUME NEW t, NEW nr, NEW k
             PROVE  HeardChunk(rs2, t, nr, k) <=> HeardChunk(rs, t, nr, k) \/ chunk = <<t, nr, k>>
  OBVIOUS
<1>1. HeardChunk(rs, t, nr, k) <=> \E i, j : SpokenAt(rs, i, j) /\ rs[i].text[j] = <<t, nr, k>>
  BY DEF HeardChunk, SpokenAt
<1>2. HeardChunk(rs2, t, nr, k) <=> \E i, j : SpokenAt(rs2, i, j) /\ rs2[i].text[j] = <<t, nr, k>>
  BY DEF HeardChunk, SpokenAt
<1>3. ASSUME NEW i, NEW j, SpokenAt(rs2, i, j), rs2[i].text[j] = <<t, nr, k>>
      PROVE  HeardChunk(rs, t, nr, k) \/ chunk = <<t, nr, k>>
  <2>1. CASE SpokenAt(rs, i, j)
    BY <1>1, <1>3, <2>1 DEF SaysMore
  <2>2. CASE i = h /\ j = l
    BY <1>3, <2>2 DEF SaysMore
  <2> QED BY <1>3, <2>1, <2>2 DEF SaysMore
<1>4. ASSUME NEW i, NEW j, SpokenAt(rs, i, j), rs[i].text[j] = <<t, nr, k>>
      PROVE  SpokenAt(rs2, i, j) /\ rs2[i].text[j] = <<t, nr, k>>
  BY <1>4 DEF SaysMore
<1>5. SpokenAt(rs2, h, l) /\ rs2[h].text[l] = chunk
  BY DEF SaysMore
<1> QED BY <1>1, <1>2, <1>3, <1>4, <1>5

(* Of its answer, chunk c comes after all that rs say, and goes on with it.*)
ComesNext(rs, c) ==
  /\ \A nr, k : HeardChunk(rs, c[1], nr, k) => nr < c[2] \/ (nr = c[2] /\ k < c[3])
  /\ \/ c[2] = 1 /\ c[3] = 1
     \/ \E nr, k : HeardChunk(rs, c[1], nr, k) /\ Follows(<<c[1], nr, k>>, c[2], c[3])

LEMMA OrderedMore ==
  ASSUME NEW rs, NEW rs2, NEW h, NEW l, NEW chunk, SaysMore(rs, rs2, h, l, chunk), OrderedIn(rs),
         ComesNext(rs, chunk)
  PROVE  OrderedIn(rs2)
<1>0. /\ \A nr, k : HeardChunk(rs, chunk[1], nr, k) =>
                      nr < chunk[2] \/ (nr = chunk[2] /\ k < chunk[3])
      /\ \/ chunk[2] = 1 /\ chunk[3] = 1
         \/ \E nr, k : /\ HeardChunk(rs, chunk[1], nr, k)
                       /\ Follows(<<chunk[1], nr, k>>, chunk[2], chunk[3])
  BY DEF ComesNext
<1>1. /\ \A t, nr, k : HeardChunk(rs, t, nr, k) <=>
                         \E i, j : SpokenAt(rs, i, j) /\ rs[i].text[j] = <<t, nr, k>>
      /\ \A i, j : SpokenAt(rs, i, j) =>
           HeardChunk(rs, rs[i].text[j][1], rs[i].text[j][2], rs[i].text[j][3])
  BY HeardAt DEF SaysMore
<1>2. \A i, k : ~(SpokenAt(rs2, i, k) /\ Before(i, k, h, l)) \/ SpokenAt(rs, i, k)
  BY DEF SaysMore, Before
<1>3. \A i, k : SpokenAt(rs, i, k) => SpokenAt(rs2, i, k) /\ rs2[i].text[k] = rs[i].text[k]
  BY DEF SaysMore
<1>4. ASSUME NEW x, NEW y, SpokenAt(rs2, x, y) PROVE OrderedAt(rs2, x, y)
  <2>1. CASE SpokenAt(rs, x, y)
    <3>1. ASSUME NEW i, NEW k, Before(i, k, x, y)
          PROVE  SpokenAt(rs2, i, k) <=> SpokenAt(rs, i, k)
      BY <2>1, <3>1 DEF SaysMore, Before
    <3> QED BY <1>3, <2>1, <3>1, OrderedStays DEF OrderedIn
  <2>2. CASE ~SpokenAt(rs, x, y)
    <3>1. x = h /\ y = l /\ rs2[x].text[y] = chunk
      BY <1>4, <2>2 DEF SaysMore
    <3>2. ASSUME NEW i, NEW k, SpokenAt(rs2, i, k), Before(i, k, x, y), rs2[i].text[k][1] = chunk[1]
          PROVE  rs2[i].text[k][2] < chunk[2] \/ (rs2[i].text[k][2] = chunk[2] /\ rs2[i].text[k][3] < chunk[3])
      <4>1. SpokenAt(rs, i, k) /\ rs2[i].text[k] = rs[i].text[k]
        BY <1>2, <1>3, <3>1, <3>2
      <4>2. HeardChunk(rs, chunk[1], rs[i].text[k][2], rs[i].text[k][3])
        BY <1>1, <3>2, <4>1
      <4> QED BY <1>0, <4>1, <4>2
    <3>3. ASSUME NEW nr, NEW k, HeardChunk(rs, chunk[1], nr, k),
                 Follows(<<chunk[1], nr, k>>, chunk[2], chunk[3])
          PROVE  \E i, j : /\ SpokenAt(rs2, i, j) /\ Before(i, j, x, y) /\ rs2[i].text[j][1] = chunk[1]
                           /\ Follows(rs2[i].text[j], chunk[2], chunk[3])
      <4>1. PICK i, j : SpokenAt(rs, i, j) /\ rs[i].text[j] = <<chunk[1], nr, k>>
        BY <1>1, <3>3
      <4>2. SpokenAt(rs2, i, j) /\ Before(i, j, x, y) /\ rs2[i].text[j] = <<chunk[1], nr, k>>
        BY <3>1, <4>1 DEF SaysMore
      <4> QED BY <3>3, <4>2
    <3> QED BY <1>0, <3>1, <3>2, <3>3 DEF OrderedAt
  <2> QED BY <2>1, <2>2
<1> QED BY <1>4 DEF OrderedIn

(* Questions stay where they are.                                          *)
QuestionsStay(rs, rs2) ==
  /\ Len(rs) \in Nat /\ DOMAIN rs = 1..Len(rs)
  /\ \A i \in DOMAIN rs : rs2[i].by = rs[i].by /\ (IsQuestion(rs2[i]) <=> IsQuestion(rs[i]))

LEMMA AnsweredStays ==
  ASSUME NEW rs, NEW rs2, QuestionsStay(rs, rs2), NEW t, NEW i \in 1..(Len(rs) + 1), AnsweredAt(rs, t, i)
  PROVE  AnsweredAt(rs2, t, i)
<1>1. PICK j \in 1..(i - 1) :
        IsQuestion(rs[j]) /\ rs[j].by = t /\ \A k \in (j + 1)..(i - 1) : ~IsQuestion(rs[k])
  BY DEF AnsweredAt
<1>2. Len(rs) \in Nat /\ \A k \in 1..(i - 1) : k \in DOMAIN rs
  BY DEF QuestionsStay
<1>3. \A k \in (j + 1)..(i - 1) : k \in 1..(i - 1)
  BY <1>2
<1> QED BY <1>1, <1>2, <1>3 DEF QuestionsStay, AnsweredAt

LEMMA AnswersSame ==
  ASSUME NEW rs, NEW rs2, SaysSame(rs, rs2), QuestionsStay(rs, rs2), AnswersIn(rs)
  PROVE  AnswersIn(rs2)
<1> SUFFICES ASSUME NEW i, NEW k, SpokenAt(rs2, i, k) PROVE AnsweredAt(rs2, rs2[i].text[k][1], i)
  BY DEF AnswersIn
<1>1. SpokenAt(rs, i, k) /\ rs2[i].text[k] = rs[i].text[k]
  BY DEF SaysSame
<1>2. i \in 1..(Len(rs) + 1)
  BY <1>1 DEF SpokenAt, QuestionsStay
<1> QED BY <1>1, <1>2, AnsweredStays DEF AnswersIn

LEMMA AnswersMore ==
  ASSUME NEW rs, NEW rs2, NEW h, NEW l, NEW chunk, SaysMore(rs, rs2, h, l, chunk),
         QuestionsStay(rs, rs2), AnswersIn(rs), LatestQuestion(rs, chunk[1]),
         \A j \in DOMAIN rs : IsQuestion(rs[j]) => j < h,
         h \in 1..(Len(rs) + 1)
  PROVE  AnswersIn(rs2)
<1> SUFFICES ASSUME NEW i, NEW k, SpokenAt(rs2, i, k) PROVE AnsweredAt(rs2, rs2[i].text[k][1], i)
  BY DEF AnswersIn
<1>1. CASE SpokenAt(rs, i, k)
  <2>1. rs2[i].text[k] = rs[i].text[k]
    BY <1>1 DEF SaysMore
  <2>2. i \in 1..(Len(rs) + 1)
    BY <1>1 DEF SpokenAt, QuestionsStay
  <2> QED BY <1>1, <2>1, <2>2, AnsweredStays DEF AnswersIn
<1>2. CASE ~SpokenAt(rs, i, k)
  <2>1. i = h /\ rs2[i].text[k] = chunk
    BY <1>2 DEF SaysMore
  <2>2. PICK j \in DOMAIN rs : /\ IsQuestion(rs[j]) /\ rs[j].by = chunk[1]
                               /\ \A x \in DOMAIN rs : x > j => ~IsQuestion(rs[x])
    BY DEF LatestQuestion
  <2>3. Len(rs) \in Nat /\ DOMAIN rs = 1..Len(rs)
    BY DEF QuestionsStay
  <2>4. j \in 1..(h - 1) /\ \A x \in (j + 1)..(h - 1) : x \in DOMAIN rs /\ x > j
    BY <2>2, <2>3
  <2>5. AnsweredAt(rs, chunk[1], h)
    BY <2>2, <2>4 DEF AnsweredAt
  <2> QED BY <2>1, <2>5, AnsweredStays
<1> QED BY <1>1, <1>2

-----------------------------------------------------------------------------
(* How a plan goes on.                                                     *)

HeardTyped(rs) == \A t, nr, k : HeardChunk(rs, t, nr, k) => nr \in 1..Segments /\ k \in 1..Chunks

LEMMA LatestIsOne ==
  ASSUME NEW rs, DOMAIN rs \subseteq Nat, NEW t, NEW u, LatestQuestion(rs, t), LatestQuestion(rs, u)
  PROVE  t = u
<1>1. PICK i \in DOMAIN rs : /\ rs[i].by = t /\ IsQuestion(rs[i])
                             /\ \A k \in DOMAIN rs : k > i => ~IsQuestion(rs[k])
  BY DEF LatestQuestion
<1>2. PICK j \in DOMAIN rs : /\ rs[j].by = u /\ IsQuestion(rs[j])
                             /\ \A k \in DOMAIN rs : k > j => ~IsQuestion(rs[k])
  BY DEF LatestQuestion
<1>3. ~(i > j) /\ ~(j > i) /\ i \in Nat /\ j \in Nat
  BY <1>1, <1>2
<1>4. i = j
  BY <1>3
<1> QED BY <1>1, <1>2, <1>4

(* p is where the plan is at: what comes before it is heard.               *)
IsAt(plan, p) ==
  /\ DOMAIN plan \subseteq Nat /\ p \in DOMAIN plan
  /\ \A i \in DOMAIN plan : /\ plan[i].nr \in 1..Segments /\ plan[i].heard \in 0..Chunks
                            /\ i < p => plan[i].heard = Chunks
  /\ plan[p].heard < Chunks

NextChunk(plan, p) == <<plan[p].of, plan[p].nr, plan[p].heard + 1>>

(* The next chunk of a plan comes after all that is heard of its answer,   *)
(* and goes on with it.                                                    *)
LEMMA NextInOrder ==
  ASSUME NEW rs, DOMAIN rs \subseteq Nat, NEW plan, NEW p, HeardTyped(rs), IsAt(plan, p), Continues(rs, plan),
         NEW c, c = NextChunk(plan, p)
  PROVE  ComesNext(rs, c)
<1> SUFFICES /\ \A nr, k : HeardChunk(rs, c[1], nr, k) => nr < c[2] \/ (nr = c[2] /\ k < c[3])
             /\ \/ c[2] = 1 /\ c[3] = 1
                \/ \E nr, k : HeardChunk(rs, c[1], nr, k) /\ Follows(<<c[1], nr, k>>, c[2], c[3])
  BY DEF ComesNext
<1> PICK of, n, m : of = plan[p].of /\ n = plan[p].nr /\ m = plan[p].heard
  OBVIOUS
<1>0. /\ c[1] = of /\ c[2] = n /\ c[3] = m + 1 /\ n \in 1..Segments /\ m \in 0..Chunks /\ m < Chunks
      /\ Segments \in Nat /\ Chunks \in Nat \ {0}
  BY DEF IsAt, NextChunk, SpeechAssumption
<1>1. /\ \A k \in 1..Chunks : HeardChunk(rs, of, n, k) <=> k <= m
      /\ \A nr \in 1..(n - 1) :
           \/ \E j \in DOMAIN plan : j < p /\ plan[j].nr = nr
           \/ \A k \in 1..Chunks : HeardChunk(rs, of, nr, k)
      /\ \A nr \in 1..Segments, k \in 1..Chunks : HeardChunk(rs, of, nr, k) /\ nr > n => m = Chunks
  BY DEF IsAt, Continues
<1>2. ASSUME NEW nr, NEW k, HeardChunk(rs, of, nr, k) PROVE nr < n \/ (nr = n /\ k < m + 1)
  <2>1. nr \in 1..Segments /\ k \in 1..Chunks
    BY <1>2 DEF HeardTyped
  <2>2. ~(nr > n)
    BY <1>0, <1>1, <1>2, <2>1
  <2>3. nr = n => k <= m
    BY <1>1, <1>2, <2>1
  <2> QED BY <1>0, <2>1, <2>2, <2>3
<1>3. CASE m # 0
  <2>1. m \in 1..Chunks /\ m <= m
    BY <1>0, <1>3
  <2>2. HeardChunk(rs, of, n, m)
    BY <1>1, <2>1
  <2>3. Follows(<<of, n, m>>, n, m + 1)
    BY <1>0, <1>3 DEF Follows
  <2> QED BY <1>0, <1>2, <2>2, <2>3
<1>4. CASE m = 0 /\ n # 1
  <2>1. n - 1 \in 1..(n - 1) /\ Chunks \in 1..Chunks /\ n - 1 \in 1..Segments
    BY <1>0, <1>4
  <2>2. HeardChunk(rs, of, n - 1, Chunks)
    <3>1. CASE \A k \in 1..Chunks : HeardChunk(rs, of, n - 1, k)
      BY <2>1, <3>1
    <3>2. CASE \E j \in DOMAIN plan : j < p /\ plan[j].nr = n - 1
      <4>1. PICK j \in DOMAIN plan : j < p /\ plan[j].nr = n - 1
        BY <3>2
      <4>2. plan[j].heard = Chunks
        BY <4>1 DEF IsAt
      <4>3. \A k \in 1..Chunks : HeardChunk(rs, plan[j].of, n - 1, k)
        BY <1>0, <4>1, <4>2 DEF Continues
      <4>4. LatestQuestion(rs, plan[j].of) /\ LatestQuestion(rs, of)
        BY DEF Continues, IsAt
      <4>5. plan[j].of = of
        BY <4>4, LatestIsOne
      <4> QED BY <2>1, <4>3, <4>5
    <3> QED BY <1>1, <2>1, <3>1, <3>2
  <2>3. Follows(<<of, n - 1, Chunks>>, n, 1)
    BY <1>0 DEF Follows
  <2> QED BY <1>0, <1>2, <1>4, <2>2, <2>3
<1>5. CASE m = 0 /\ n = 1
  BY <1>0, <1>2, <1>5
<1> QED BY <1>3, <1>4, <1>5

(* Once its next chunk is heard, a plan goes on with the one after it.     *)
Advanced(plan, plan2, p) ==
  /\ DOMAIN plan2 = DOMAIN plan
  /\ \A i \in DOMAIN plan : /\ plan2[i].of = plan[i].of /\ plan2[i].nr = plan[i].nr
                            /\ plan2[i].heard = IF i = p THEN plan[i].heard + 1 ELSE plan[i].heard

LEMMA PlanAdvances ==
  ASSUME NEW rs, DOMAIN rs \subseteq Nat, NEW rs2, NEW plan, NEW plan2, NEW p,
         IsAt(plan, p), Advanced(plan, plan2, p),
         Continues(rs, plan), LatestKept(rs, rs2),
         \A t, nr, k : HeardChunk(rs2, t, nr, k) <=>
                         HeardChunk(rs, t, nr, k) \/ NextChunk(plan, p) = <<t, nr, k>>
  PROVE  Continues(rs2, plan2)
<1> PICK of, n, m : of = plan[p].of /\ n = plan[p].nr /\ m = plan[p].heard
  OBVIOUS
<1>0. /\ DOMAIN plan2 = DOMAIN plan /\ DOMAIN plan \subseteq Nat /\ p \in DOMAIN plan
      /\ n \in 1..Segments /\ m \in 0..Chunks /\ m < Chunks /\ Segments \in Nat /\ Chunks \in Nat \ {0}
      /\ \A t, nr, k : HeardChunk(rs2, t, nr, k) <=>
                         HeardChunk(rs, t, nr, k) \/ (t = of /\ nr = n /\ k = m + 1)
  BY DEF IsAt, NextChunk, SpeechAssumption, Advanced
<1>1. ASSUME NEW i \in DOMAIN plan
      PROVE  /\ plan2[i].of = plan[i].of /\ plan2[i].nr = plan[i].nr
             /\ i # p => plan2[i].heard = plan[i].heard
             /\ i = p => plan2[i].heard = m + 1
             /\ plan[i].nr \in 1..Segments /\ plan[i].heard \in 0..Chunks /\ i \in Nat
             /\ i < p => plan[i].heard = Chunks
             /\ plan[i].of = of
  <2>1. LatestQuestion(rs, plan[i].of) /\ LatestQuestion(rs, of)
    BY <1>0 DEF Continues
  <2>2. plan[i].of = of
    BY <2>1, LatestIsOne
  <2> QED BY <1>0, <2>2 DEF IsAt, Advanced
<1>2. \A i, j \in DOMAIN plan : i < j => plan[i].nr < plan[j].nr
  BY DEF Continues
<1>3. \A i, j \in DOMAIN plan2 : i < j => plan2[i].nr < plan2[j].nr
  BY <1>0, <1>1, <1>2
<1>4. ASSUME NEW i \in DOMAIN plan
      PROVE  /\ LatestQuestion(rs, plan[i].of)
             /\ \A k \in 1..Chunks : HeardChunk(rs, plan[i].of, plan[i].nr, k) <=> k <= plan[i].heard
             /\ \A nr \in 1..(plan[i].nr - 1) :
                  \/ \E j \in DOMAIN plan : j < i /\ plan[j].nr = nr
                  \/ \A k \in 1..Chunks : HeardChunk(rs, plan[i].of, nr, k)
             /\ \A nr \in 1..Segments, k \in 1..Chunks :
                  HeardChunk(rs, plan[i].of, nr, k) /\ nr > plan[i].nr => plan[i].heard = Chunks
  BY DEF Continues
<1>5. ASSUME NEW i \in DOMAIN plan2
      PROVE  \A k \in 1..Chunks : HeardChunk(rs2, plan2[i].of, plan2[i].nr, k) <=> k <= plan2[i].heard
  <2>1. CASE i = p
    BY <1>0, <1>1, <1>4, <2>1
  <2>2. CASE i # p
    <3>1. plan[i].nr # n
      <4>1. i \in Nat /\ p \in Nat /\ (i < p \/ p < i)
        BY <1>0, <2>2
      <4> QED BY <1>0, <1>1, <1>2, <4>1
    <3> QED BY <1>0, <1>1, <1>4, <2>2, <3>1
  <2> QED BY <2>1, <2>2
<1>6. ASSUME NEW i \in DOMAIN plan2, NEW nr \in 1..(plan2[i].nr - 1)
      PROVE  \/ \E j \in DOMAIN plan2 : j < i /\ plan2[j].nr = nr
             \/ \A k \in 1..Chunks : HeardChunk(rs2, plan2[i].of, nr, k)
  <2>1. i \in DOMAIN plan /\ nr \in 1..(plan[i].nr - 1) /\ plan2[i].of = plan[i].of
    BY <1>0, <1>1, <1>6
  <2>2. CASE \E j \in DOMAIN plan : j < i /\ plan[j].nr = nr
    BY <1>0, <1>1, <2>2
  <2>3. CASE \A k \in 1..Chunks : HeardChunk(rs, plan[i].of, nr, k)
    BY <1>0, <2>1, <2>3
  <2> QED BY <1>4, <2>1, <2>2, <2>3
<1>7. ASSUME NEW i \in DOMAIN plan2, NEW nr \in 1..Segments, NEW k \in 1..Chunks,
             HeardChunk(rs2, plan2[i].of, nr, k), nr > plan2[i].nr
      PROVE  plan2[i].heard = Chunks
  <2>1. CASE HeardChunk(rs, plan[i].of, nr, k)
    BY <1>0, <1>1, <1>4, <1>7, <2>1
  <2>2. CASE nr = n
    <3>1. i \in Nat /\ p \in Nat /\ i # p /\ ~(p < i)
      BY <1>0, <1>1, <1>2, <1>7, <2>2
    <3> QED BY <1>0, <1>1, <3>1
  <2> QED BY <1>0, <1>1, <1>7, <2>1, <2>2
<1>8. \A i \in DOMAIN plan2 : LatestQuestion(rs2, plan2[i].of)
  BY <1>0, <1>1, <1>4 DEF LatestKept
<1> QED BY <1>3, <1>5, <1>6, <1>7, <1>8 DEF Continues

(* A turn's plan, once it published its next segment.                      *)
LEMMA PlanGrows ==
  ASSUME NEW rs, NEW t, NEW n \in Nat, NEW plan, NEW plan2, DOMAIN plan = 1..n, DOMAIN plan2 = 1..(n + 1),
         \A i \in 1..n : /\ plan[i].of = t /\ plan[i].nr = i
                         /\ plan2[i].of = t /\ plan2[i].nr = i /\ plan2[i].heard = plan[i].heard,
         plan2[n + 1].of = t, plan2[n + 1].nr = n + 1, plan2[n + 1].heard = 0,
         LatestQuestion(rs, t), HeardTyped(rs),
         \A nr \in 1..Segments, k \in 1..Chunks : HeardChunk(rs, t, nr, k) => nr <= n,
         Continues(rs, plan)
  PROVE  Continues(rs, plan2)
<1>0. Segments \in Nat /\ Chunks \in Nat
  BY DEF SpeechAssumption
<1>1. \A i \in 1..(n + 1) : i \in 1..n \/ i = n + 1
  OBVIOUS
<1>2. \A i \in 1..(n + 1) : plan2[i].of = t /\ plan2[i].nr = i
  BY <1>1
<1>3. \A i, j \in DOMAIN plan2 : i < j => plan2[i].nr < plan2[j].nr
  BY <1>2
<1>4. ASSUME NEW i \in 1..(n + 1), NEW k \in 1..Chunks
      PROVE  HeardChunk(rs, t, i, k) <=> k <= plan2[i].heard
  <2>1. CASE i \in 1..n
    BY <2>1 DEF Continues
  <2>2. CASE i = n + 1
    <3>1. ~HeardChunk(rs, t, n + 1, k)
      <4>1. SUFFICES ASSUME HeardChunk(rs, t, n + 1, k) PROVE FALSE
        OBVIOUS
      <4>2. n + 1 \in 1..Segments
        BY <4>1 DEF HeardTyped
      <4>3. n + 1 <= n
        BY <4>1, <4>2
      <4> QED BY <4>3
    <3>2. ~(k <= 0)
      BY <1>0
    <3> QED BY <2>2, <3>1, <3>2
  <2> QED BY <1>1, <2>1, <2>2
<1>5. ASSUME NEW i \in 1..(n + 1), NEW nr \in 1..(i - 1)
      PROVE  \E j \in 1..(n + 1) : j < i /\ plan2[j].nr = nr
  <2>1. nr \in 1..(n + 1) /\ nr < i
    OBVIOUS
  <2> QED BY <1>2, <2>1
<1>6. ASSUME NEW i \in 1..(n + 1), NEW nr \in 1..Segments, NEW k \in 1..Chunks,
             HeardChunk(rs, t, nr, k), nr > i
      PROVE  plan2[i].heard = Chunks
  <2>1. nr <= n
    BY <1>6
  <2>2. i \in 1..n
    BY <1>0, <1>6, <2>1
  <2>3. plan[i].heard = Chunks
    BY <1>6, <2>2 DEF Continues
  <2> QED BY <2>2, <2>3
<1>7. ASSUME NEW i \in 1..(n + 1)
      PROVE  \A k \in 1..Chunks : HeardChunk(rs, plan2[i].of, plan2[i].nr, k) <=> k <= plan2[i].heard
  BY <1>2, <1>4
<1>8. ASSUME NEW i \in 1..(n + 1)
      PROVE  \A nr \in 1..(plan2[i].nr - 1) : \E j \in 1..(n + 1) : j < i /\ plan2[j].nr = nr
  <2>1. \A nr \in 1..(i - 1) : \E j \in 1..(n + 1) : j < i /\ plan2[j].nr = nr
    BY <1>5
  <2> QED BY <1>2, <2>1
<1>9. ASSUME NEW i \in 1..(n + 1)
      PROVE  \A nr \in 1..Segments, k \in 1..Chunks :
               HeardChunk(rs, plan2[i].of, nr, k) /\ nr > plan2[i].nr => plan2[i].heard = Chunks
  BY <1>2, <1>6
<1>10. \A i \in 1..(n + 1) : LatestQuestion(rs, plan2[i].of)
  BY <1>2
<1> QED
  <2> SUFFICES /\ \A i, j \in 1..(n + 1) : i < j => plan2[i].nr < plan2[j].nr
               /\ \A i \in 1..(n + 1) :
                    /\ LatestQuestion(rs, plan2[i].of)
                    /\ \A k \in 1..Chunks :
                         HeardChunk(rs, plan2[i].of, plan2[i].nr, k) <=> k <= plan2[i].heard
                    /\ \A nr \in 1..(plan2[i].nr - 1) :
                         \/ \E j \in 1..(n + 1) : j < i /\ plan2[j].nr = nr
                         \/ \A k \in 1..Chunks : HeardChunk(rs, plan2[i].of, nr, k)
                    /\ \A nr \in 1..Segments, k \in 1..Chunks :
                         HeardChunk(rs, plan2[i].of, nr, k) /\ nr > plan2[i].nr => plan2[i].heard = Chunks
    BY DEF Continues
  <2> QED BY <1>3, <1>7, <1>8, <1>9, <1>10

(* What a plan has left to say goes on where it does.                      *)
LEMMA PlanLeft ==
  ASSUME NEW rs, NEW plan, NEW plan2, NEW left, DOMAIN plan \subseteq Nat, DOMAIN left \subseteq Nat,
         DOMAIN rs \subseteq Nat,
         DOMAIN plan2 = DOMAIN left, Increasing(left),
         \A j \in DOMAIN left : /\ left[j] \in DOMAIN plan
                                /\ plan2[j].of = plan[left[j]].of /\ plan2[j].nr = plan[left[j]].nr
                                /\ plan2[j].heard = plan[left[j]].heard,
         \A j \in DOMAIN left, i \in DOMAIN plan :
           i < left[j] => plan[i].heard = Chunks \/ \E h \in DOMAIN left : left[h] = i,
         Continues(rs, plan)
  PROVE  Continues(rs, plan2)
<1>0. Segments \in Nat /\ Chunks \in Nat
  BY DEF SpeechAssumption
<1>1. \A i, j \in DOMAIN plan2 : i < j => plan2[i].nr < plan2[j].nr
  BY DEF Increasing, Continues
<1>2. ASSUME NEW j \in DOMAIN left
      PROVE  /\ LatestQuestion(rs, plan2[j].of)
             /\ \A k \in 1..Chunks : HeardChunk(rs, plan2[j].of, plan2[j].nr, k) <=> k <= plan2[j].heard
             /\ \A nr \in 1..Segments, k \in 1..Chunks :
                  HeardChunk(rs, plan2[j].of, nr, k) /\ nr > plan2[j].nr => plan2[j].heard = Chunks
  BY DEF Continues
<1>3. ASSUME NEW j \in DOMAIN left, NEW nr \in 1..(plan2[j].nr - 1)
      PROVE  \/ \E h \in DOMAIN left : h < j /\ plan2[h].nr = nr
             \/ \A k \in 1..Chunks : HeardChunk(rs, plan2[j].of, nr, k)
  <2>1. nr \in 1..(plan[left[j]].nr - 1) /\ left[j] \in DOMAIN plan /\ plan2[j].of = plan[left[j]].of
    BY <1>3
  <2>2. CASE \A k \in 1..Chunks : HeardChunk(rs, plan[left[j]].of, nr, k)
    BY <2>1, <2>2
  <2>3. CASE \E i \in DOMAIN plan : i < left[j] /\ plan[i].nr = nr
    <3>1. PICK i \in DOMAIN plan : i < left[j] /\ plan[i].nr = nr
      BY <2>3
    <3>2. CASE plan[i].heard = Chunks
      <4>1. \A k \in 1..Chunks : HeardChunk(rs, plan[i].of, nr, k)
        BY <1>0, <3>1, <3>2 DEF Continues
      <4>2. LatestQuestion(rs, plan[i].of) /\ LatestQuestion(rs, plan[left[j]].of)
        BY <2>1 DEF Continues
      <4>3. plan[i].of = plan[left[j]].of
        BY <4>2, LatestIsOne
      <4> QED BY <2>1, <4>1, <4>3
    <3>3. CASE \E h \in DOMAIN left : left[h] = i
      <4>1. PICK h \in DOMAIN left : left[h] = i
        BY <3>3
      <4>2. h < j
        <5>1. ~(j < h) /\ h # j /\ h \in Nat /\ j \in Nat
          <6>1. ~(left[j] < left[h]) /\ left[h] # left[j]
            BY <3>1, <4>1
          <6> QED BY <6>1 DEF Increasing
        <5> QED BY <5>1
      <4> QED BY <3>1, <4>1, <4>2
    <3> QED BY <2>1, <3>1, <3>2, <3>3
  <2> QED BY <2>1, <2>2, <2>3 DEF Continues
<1> QED BY <1>1, <1>2, <1>3 DEF Continues

-----------------------------------------------------------------------------
(* What is heard, step by step.                                            *)

HeardHeld == PlansHeld /\ OrderedIn(rows) /\ AnswersIn(rows)

LEMMA PlansAre ==
  PlansHeld' <=>
    /\ Continues(rows', KeptPlan(resumable'))
    /\ current' # NoOne => Continues(rows', Plan(current', made'[current'], script'[current']))
    /\ current' \in Turns =>
         /\ \A nr \in 1..Segments, k \in 1..Chunks :
              HeardChunk(rows', current', nr, k) => nr <= Len(made'[current'])
         /\ active' = current' /\ prod'[current'] # "ready" => LatestQuestion(rows', current')
  BY DEF PlansHeld

LEMMA HeardAre ==
  HeardHeld' <=> PlansHeld' /\ OrderedIn(rows') /\ AnswersIn(rows')
  BY DEF HeardHeld

LEMMA SpokenTypes ==
  ASSUME NEW rs \in Seq(Row)
  PROVE  /\ Len(rs) \in Nat /\ DOMAIN rs = 1..Len(rs) /\ DOMAIN rs \subseteq Nat
         /\ \A i \in DOMAIN rs : /\ rs[i].text \in Seq(Chunk) /\ Len(rs[i].text) \in Nat
                                 /\ DOMAIN rs[i].text = 1..Len(rs[i].text)
         /\ \A i, k : SpokenAt(rs, i, k) => /\ i \in DOMAIN rs /\ i \in Nat /\ k \in Nat
                                            /\ k \in 1..Len(rs[i].text) /\ rs[i].text[k] \in Chunk
         /\ HeardTyped(rs)
<1>1. Len(rs) \in Nat /\ DOMAIN rs = 1..Len(rs) /\ DOMAIN rs \subseteq Nat
  OBVIOUS
<1>2. ASSUME NEW i \in DOMAIN rs
      PROVE  /\ rs[i].text \in Seq(Chunk) /\ Len(rs[i].text) \in Nat
             /\ DOMAIN rs[i].text = 1..Len(rs[i].text)
             /\ \A k \in DOMAIN rs[i].text : rs[i].text[k] \in Chunk /\ k \in Nat
  <2>1. rs[i] \in Row
    OBVIOUS
  <2>2. rs[i].text \in Seq(Chunk)
    BY <2>1, RowTypes
  <2> QED BY <2>2
<1>3. \A i, k : SpokenAt(rs, i, k) => /\ i \in DOMAIN rs /\ i \in Nat /\ k \in Nat
                                      /\ k \in 1..Len(rs[i].text) /\ rs[i].text[k] \in Chunk
  BY <1>1, <1>2 DEF SpokenAt
<1>4. HeardTyped(rs)
  <2> SUFFICES ASSUME NEW t, NEW nr, NEW k, HeardChunk(rs, t, nr, k)
               PROVE  nr \in 1..Segments /\ k \in 1..Chunks
    BY DEF HeardTyped
  <2>1. <<t, nr, k>> \in Chunk
    BY <1>2 DEF HeardChunk
  <2> QED BY <2>1 DEF Chunk
<1> QED BY <1>1, <1>2, <1>3, <1>4

RowsSame(rs, rs2) == SaysSame(rs, rs2) /\ QuestionsStay(rs, rs2) /\ LatestKept(rs, rs2)

LEMMA Unchanged ==
  ASSUME NEW rs \in Seq(Row)
  PROVE  RowsSame(rs, rs)
  BY SpokenTypes DEF RowsSame, SaysSame, QuestionsStay, LatestKept

LEMMA SilentSame ==
  ASSUME TypeOK, NEW r \in Row, r.text = <<>>, rows' = Append(rows, r)
  PROVE  /\ SaysSame(rows, rows') /\ QuestionsStay(rows, rows')
         /\ r.by \notin Turns => LatestKept(rows, rows')
         /\ r.by \in Turns => LatestQuestion(rows', r.by)
<1> PICK n \in Nat : n = Len(rows) /\ DOMAIN rows = 1..n
  BY DEF TypeOK
<1>1. /\ DOMAIN rows' = 1..(n + 1) /\ rows'[n + 1] = r /\ \A i \in 1..n : rows'[i] = rows[i]
  BY RowAppended DEF RowsKept
<1>2. \A i \in 1..(n + 1) : i \in 1..n \/ i = n + 1
  OBVIOUS
<1>3. \A k : ~SpokenAt(rows', n + 1, k)
  BY <1>1 DEF SpokenAt
<1>4. SaysSame(rows, rows')
  <2> SUFFICES ASSUME NEW i, NEW k
               PROVE  /\ SpokenAt(rows', i, k) <=> SpokenAt(rows, i, k)
                      /\ SpokenAt(rows, i, k) => rows'[i].text[k] = rows[i].text[k]
    BY DEF SaysSame
  <2>1. CASE i \in 1..n
    <3>1. i \in 1..(n + 1)
      BY <2>1
    <3> QED BY <1>1, <2>1, <3>1 DEF SpokenAt
  <2>2. CASE i \notin 1..n
    BY <1>1, <1>2, <1>3, <2>2 DEF SpokenAt
  <2> QED BY <2>1, <2>2
<1>5. QuestionsStay(rows, rows')
  BY <1>1 DEF QuestionsStay
<1>6. ASSUME r.by \notin Turns, NEW t, LatestQuestion(rows, t) PROVE LatestQuestion(rows', t)
  <2>1. PICK j \in 1..n : /\ IsQuestion(rows[j]) /\ rows[j].by = t
                          /\ \A k \in 1..n : k > j => ~IsQuestion(rows[k])
    BY <1>6 DEF LatestQuestion
  <2>2. ~IsQuestion(rows'[n + 1]) /\ j \in 1..(n + 1)
    BY <1>1, <1>6 DEF IsQuestion
  <2>3. \A k \in 1..(n + 1) : k > j => ~IsQuestion(rows'[k])
    BY <1>1, <1>2, <2>1, <2>2
  <2> QED BY <1>1, <2>1, <2>2, <2>3 DEF LatestQuestion
<1>7. ASSUME r.by \in Turns PROVE LatestQuestion(rows', r.by)
  <2>1. n + 1 \in DOMAIN rows' /\ IsQuestion(rows'[n + 1]) /\ \A k \in DOMAIN rows' : ~(k > n + 1)
    BY <1>1, <1>7 DEF IsQuestion
  <2> QED BY <1>1, <2>1 DEF LatestQuestion
<1> QED BY <1>4, <1>5, <1>6, <1>7 DEF LatestKept

LEMMA MarkedSame ==
  ASSUME TypeOK, RowsHeld, NEW o \in Owners, MarkInterrupted(o)
  PROVE  RowsSame(rows, rows')
<1>1. CASE rows' = rows
  BY <1>1, Unchanged DEF TypeOK
<1>2. CASE rows' # rows
  <2>1. /\ rows # <<>> /\ rows'[Len(rows)] = [rows[Len(rows)] EXCEPT !.cut = TRUE]
        /\ Len(rows') = Len(rows) /\ RowsKept
        /\ \A i \in DOMAIN rows : i # Len(rows) => rows'[i] = rows[i]
    BY <1>2, RowMarked
  <2>2. DOMAIN rows' = DOMAIN rows /\ Len(rows) \in Nat /\ DOMAIN rows = 1..Len(rows)
    BY <2>1 DEF RowsKept
  <2>3. \A i \in DOMAIN rows : rows'[i].text = rows[i].text /\ rows'[i].by = rows[i].by
    <3>1. Len(rows) \in DOMAIN rows
      BY <2>1, <2>2 DEF TypeOK
    <3>2. PICK r \in Row : r = rows[Len(rows)]
      BY <3>1, <2>2 DEF TypeOK
    <3>3. [r EXCEPT !.cut = TRUE].text = r.text /\ [r EXCEPT !.cut = TRUE].by = r.by
      BY DEF Row
    <3> QED BY <2>1, <3>2, <3>3
  <2>4. SaysSame(rows, rows')
    BY <2>2, <2>3 DEF SaysSame, SpokenAt
  <2>5. \A i \in DOMAIN rows : IsQuestion(rows'[i]) <=> IsQuestion(rows[i])
    BY <2>3 DEF IsQuestion
  <2>6. QuestionsStay(rows, rows')
    BY <2>2, <2>3, <2>5 DEF QuestionsStay
  <2>7. LatestKept(rows, rows')
    BY <2>2, <2>3, <2>5 DEF LatestKept, LatestQuestion
  <2> QED BY <2>4, <2>6, <2>7 DEF RowsSame
<1> QED BY <1>1, <1>2

(* Nothing more is heard, kept or published.                               *)
LEMMA HeardStays ==
  ASSUME HeardHeld, RowsSame(rows, rows'), resumable' \in {resumable, <<>>},
         current' \in {current, NoOne},
         current' # NoOne => made'[current] = made[current] /\ script'[current] = script[current],
         current' # NoOne /\ active' = current' /\ prod'[current'] # "ready" =>
           active = current /\ prod[current] # "ready"
  PROVE  HeardHeld'
<1>1. HeardSame(rows, rows') /\ OrderedIn(rows') /\ AnswersIn(rows') /\ LatestKept(rows, rows')
  BY SaidSame, AnswersSame DEF HeardHeld, RowsSame
<1>2. \A plan : Continues(rows, plan) => Continues(rows', plan)
  BY <1>1, ContinuesSame
<1>3. Continues(rows', KeptPlan(resumable'))
  <2>1. CASE resumable' = resumable
    BY <1>2, <2>1 DEF HeardHeld, PlansHeld
  <2>2. CASE resumable' = <<>>
    <3>1. DOMAIN KeptPlan(resumable') = {}
      BY <2>2 DEF KeptPlan
    <3> QED BY <3>1 DEF Continues
  <2> QED BY <2>1, <2>2
<1>4. ASSUME current' # NoOne
      PROVE  Continues(rows', Plan(current', made'[current'], script'[current']))
  <2>1. current' = current /\ made'[current'] = made[current] /\ script'[current'] = script[current]
    BY <1>4
  <2>2. Continues(rows, Plan(current, made[current], script[current]))
    BY <1>4, <2>1 DEF HeardHeld, PlansHeld
  <2> QED BY <1>2, <2>1, <2>2
<1>5. ASSUME current' \in Turns
      PROVE  /\ \A nr \in 1..Segments, k \in 1..Chunks :
                  HeardChunk(rows', current', nr, k) => nr <= Len(made'[current'])
             /\ active' = current' /\ prod'[current'] # "ready" => LatestQuestion(rows', current')
  <2>1. current' = current /\ made'[current'] = made[current] /\ current' # NoOne
    BY <1>5, Names
  <2> QED BY <1>1, <1>5, <2>1 DEF HeardHeld, PlansHeld, HeardSame, LatestKept
<1> QED BY <1>1, <1>3, <1>4, <1>5, PlansAre, HeardAre

(* Who opens a turn, or has one, has it while its producer may run.        *)
LEMMA HeardQuiet ==
  ASSUME FloorInd, HeardHeld, RowsSame(rows, rows'), UNCHANGED <<made, script>>,
         resumable' \in {resumable, <<>>}, current' \in {current, NoOne},
         active' \in {active, NoOne}, \A o \in Owners : prod[o] = "ready" => prod'[o] = "ready" \/ active' # o
  PROVE  HeardHeld'
<1>1. active # NoOne => active = current
  BY DEF FloorInd, FloorHeld, ActiveHeld
<1>2. ASSUME current' # NoOne, active' = current', prod'[current'] # "ready"
      PROVE  active = current /\ prod[current] # "ready"
  <2>1. current' = current /\ active' = active /\ active = current /\ active \in Owners
    BY <1>1, <1>2 DEF FloorInd, TypeOK
  <2> QED BY <1>2, <2>1
<1> QED BY <1>2, HeardStays

(* The floor is taken away, or not.                                        *)
LEMMA RevokeHeard ==
  ASSUME FloorInd, HeardHeld, Revoke, UNCHANGED <<rows, made, script, resumable>>,
         current' \in {active, NoOne}
  PROVE  HeardHeld'
<1>1. TypeOK /\ FloorHeld /\ (active # NoOne => active = current)
  BY DEF FloorInd, FloorHeld, ActiveHeld
<1>2. active' = NoOne
  BY <1>1, Revokes
<1>3. current' \in {current, NoOne} /\ \A o \in Owners : active' # o
  BY <1>1, <1>2, Names
<1>4. RowsSame(rows, rows')
  BY <1>1, Unchanged DEF TypeOK
<1> QED BY <1>2, <1>3, <1>4, HeardQuiet

LEMMA StillHeard ==
  ASSUME FloorInd, HeardHeld, UNCHANGED <<rows, made, script, resumable, current>>,
         active' \in {active, NoOne}, \A o \in Owners : prod[o] = "ready" => prod'[o] = "ready" \/ active' # o
  PROVE  HeardHeld'
<1>1. RowsSame(rows, rows')
  BY Unchanged DEF FloorInd, TypeOK
<1> QED BY <1>1, HeardQuiet

(* A turn that is admitted has said nothing.                               *)
LEMMA RespondHeard ==
  ASSUME FloorInd, WordsHeld, HeardHeld, NEW t \in Turns, Respond(t)
  PROVE  HeardHeld'
<1>0. TypeOK /\ FloorHeld /\ t \in Owners
  BY Names DEF FloorInd
<1>1. /\ UNCHANGED <<rows, made, script, resumable>> /\ current' = t /\ active' = NoOne
      /\ call[t] = "idle"
  BY <1>0, Revokes DEF Respond, Calls
<1>2. made[t] = <<>> /\ prod[t] = "none"
  BY <1>0, <1>1 DEF FloorHeld, StageHeld, Unopened
<1>3. ASSUME NEW nr, NEW k, HeardChunk(rows, t, nr, k) PROVE FALSE
  <2>1. PICK i, j : SpokenAt(rows, i, j) /\ rows[i].text[j] = <<t, nr, k>>
    BY <1>3 DEF HeardChunk, SpokenAt
  <2>2. AnsweredAt(rows, t, i)
    BY <2>1 DEF HeardHeld, AnswersIn
  <2>3. i \in DOMAIN rows /\ DOMAIN rows = 1..Len(rows) /\ Len(rows) \in Nat
    BY <1>0, <2>1 DEF SpokenAt, TypeOK
  <2>4. HasQuestion(t)
    BY <2>2, <2>3 DEF AnsweredAt, HasQuestion
  <2> QED BY <1>2, <2>4 DEF WordsHeld
<1>4. Continues(rows', Plan(current', made'[current'], script'[current']))
  <2>1. DOMAIN Plan(t, <<>>, script[t]) = {}
    BY DEF Plan
  <2>2. Continues(rows, Plan(t, <<>>, script[t]))
    BY <2>1 DEF Continues
  <2> QED BY <1>1, <1>2, <2>2
<1>5. Continues(rows', KeptPlan(resumable'))
  BY <1>1 DEF HeardHeld, PlansHeld
<1>6. active' # current'
  BY <1>0, <1>1, Names
<1>7. OrderedIn(rows') /\ AnswersIn(rows')
  BY <1>1 DEF HeardHeld
<1> QED BY <1>1, <1>3, <1>4, <1>5, <1>6, <1>7, PlansAre, HeardAre

(* A replay is to say what was kept.                                       *)
LEMMA ResumeHeard ==
  ASSUME FloorInd, HeardHeld, NEW r \in Replays, Resume(r)
  PROVE  HeardHeld'
<1>0. TypeOK /\ FloorHeld /\ r \in Owners /\ r \notin Turns
  BY Names DEF FloorInd
<1>1. /\ UNCHANGED <<rows, made, resumable>> /\ current' = r /\ call[r] = "idle"
      /\ script'[r] = resumable
  BY <1>0 DEF Resume, Calls, TypeOK
<1>2. made[r] = <<>>
  BY <1>0, <1>1 DEF FloorHeld, StageHeld, Unopened
<1>3. Plan(r, <<>>, resumable) = KeptPlan(resumable)
  <2>1. \A i \in DOMAIN resumable : resumable[i].before \in Nat
    <3>1. \A i \in DOMAIN resumable : resumable[i] \in Segment
      BY <1>0 DEF TypeOK
    <3> QED BY <3>1 DEF Segment
  <2>2. \A i \in DOMAIN resumable :
          resumable[i].before + (IF i \in DOMAIN <<>> THEN <<>>[i].now ELSE 0) = resumable[i].before
    BY <2>1
  <2> QED BY <1>0, <2>2 DEF Plan, KeptPlan
<1>4. Continues(rows', Plan(current', made'[current'], script'[current']))
  BY <1>1, <1>2, <1>3 DEF HeardHeld, PlansHeld
<1>5. Continues(rows', KeptPlan(resumable'))
  BY <1>1 DEF HeardHeld, PlansHeld
<1>6. OrderedIn(rows') /\ AnswersIn(rows')
  BY <1>1 DEF HeardHeld
<1> QED BY <1>0, <1>1, <1>4, <1>5, <1>6, PlansAre, HeardAre

LEMMA CallingsHeard ==
  ASSUME FloorInd, WordsHeld, RowsHeld, HeardHeld, Callings
  PROVE  HeardHeld'
<1>1. CASE \E t \in Turns : Respond(t)
  BY <1>1, RespondHeard
<1>2. CASE \E r \in Replays : Resume(r)
  BY <1>2, ResumeHeard
<1>3. ASSUME NEW s \in Stops, NEW keep \in BOOLEAN, Stop(s, keep) PROVE HeardHeld'
  BY <1>3, RevokeHeard DEF Stop
<1>4. ASSUME NEW c \in Commands, Silence(c) PROVE HeardHeld'
  BY <1>4, RevokeHeard DEF Silence
<1>5. CASE BeginClose
  BY <1>5, RevokeHeard DEF BeginClose
<1>6. ASSUME NEW c \in Commands, RecordCommand(c) PROVE HeardHeld'
  <2> DEFINE r == [by |-> c, text |-> <<>>, cut |-> FALSE]
  <2>1. r \in Row /\ r.text = <<>> /\ r.by \notin Turns
    BY Names DEF Row
  <2>2. /\ rows' = Append(rows, r) /\ UNCHANGED <<made, script, resumable, current, active, prod>>
        /\ TypeOK
    BY <1>6 DEF RecordCommand, FloorInd
  <2> HIDE DEF r
  <2>3. RowsSame(rows, rows')
    BY <2>1, <2>2, SilentSame DEF RowsSame
  <2> QED BY <2>2, <2>3, HeardQuiet
<1>7. CASE UNCHANGED <<rows, made, script, resumable, current, active, prod>>
  BY <1>7, StillHeard
<1> QED BY <1>1, <1>2, <1>3, <1>4, <1>5, <1>6, <1>7 DEF Callings, StopReturns, CommandRefused,
           LookAgain, CloseForeground, CloseDrained, DrainGivenUp, Refuse, EndCall

LEMMA FloorsHeard ==
  ASSUME FloorInd, HeardHeld, NEW o \in Owners, Floors(o)
  PROVE  HeardHeld'
<1>0. TypeOK /\ FloorHeld /\ RowsSame(rows, rows)
  BY Unchanged DEF FloorInd, TypeOK
<1>1. CASE Open(o) /\ Unopened(o) /\ UNCHANGED <<rows, made, script, current>>
  <2>1. CASE Overtaken(o)
    <3>1. prod[o] = "none" /\ UNCHANGED <<active, resumable>>
      BY <1>0, <1>1, <2>1 DEF Open, FloorHeld, StageHeld
    <3>2. \A p \in Owners : prod[p] = "ready" => prod'[p] = "ready"
      BY <1>0, <1>1, <2>1, <3>1 DEF Open, TypeOK
    <3> QED BY <1>1, <3>1, <3>2, StillHeard
  <2>2. CASE ~Overtaken(o)
    <3>1. active' = o /\ resumable' = <<>> /\ prod'[o] = "ready"
      BY <1>0, <1>1, <2>2 DEF Open, TypeOK
    <3> QED BY <1>0, <1>1, <3>1, HeardStays
  <2> QED BY <2>1, <2>2
<1>2. CASE UNCHANGED <<rows, made, script, resumable, current, prod>> /\ active' \in {active, NoOne}
  BY <1>2, StillHeard
<1>3. Enter(o) => \/ UNCHANGED <<rows, made, script, resumable, current, active, prod>>
                  \/ Open(o) /\ Unopened(o) /\ UNCHANGED <<rows, made, script, current>>
  BY DEF Enter, Refuse, EndCall, Unopened
<1>4. StartDrained(o) => \/ UNCHANGED <<rows, made, script, resumable, current, active, prod>>
                         \/ Open(o) /\ Unopened(o) /\ UNCHANGED <<rows, made, script, current>>
  BY DEF StartDrained, Refuse, EndCall, Unopened
<1>5. DrainGivenUp(o) \/ Finish(o) \/ Raise(o) =>
        UNCHANGED <<rows, made, script, resumable, current, prod>> /\ active' \in {active, NoOne}
  BY DEF DrainGivenUp, Refuse, EndCall, Finish, Raise
<1>6. CASE Unwind(o)
  <2>1. CASE active = o
    BY <1>6, <2>1, RevokeHeard DEF Unwind
  <2>2. CASE active # o
    BY <1>2, <1>6, <2>2 DEF Unwind
  <2> QED BY <2>1, <2>2
<1> QED BY <1>1, <1>2, <1>3, <1>4, <1>5, <1>6 DEF Floors

LEMMA BeginHeard ==
  ASSUME FloorInd, HeardHeld, NEW o \in Owners, Begin(o)
  PROVE  HeardHeld'
<1>0. /\ TypeOK /\ StageHeld(o) /\ ActiveHeld
      /\ UNCHANGED <<made, script, resumable, current, active>>
      /\ prod[o] = "ready" /\ prod' = [prod EXCEPT ![o] = "running"]
  BY DEF FloorInd, FloorHeld, Begin
<1>1. active = o /\ current = o /\ resumable = <<>> /\ made[o] = <<>>
  BY <1>0, Names DEF StageHeld, ActiveHeld
<1>2. RowsSame(rows, rows)
  BY <1>0, Unchanged DEF TypeOK
<1>3. CASE o \in Turns
  <2> DEFINE r == [by |-> o, text |-> <<>>, cut |-> FALSE]
  <2>1. r \in Row /\ r.text = <<>> /\ r.by = o /\ rows' = Append(rows, r)
    BY <1>3 DEF Begin, Row
  <2> HIDE DEF r
  <2>2. SaysSame(rows, rows') /\ QuestionsStay(rows, rows') /\ LatestQuestion(rows', o)
    BY <1>0, <1>3, <2>1, SilentSame
  <2>3. HeardSame(rows, rows') /\ OrderedIn(rows') /\ AnswersIn(rows')
    BY <2>2, SaidSame, AnswersSame DEF HeardHeld
  <2>4. Continues(rows', KeptPlan(<<>>)) /\ Continues(rows', Plan(o, <<>>, script[o]))
    <3>1. DOMAIN KeptPlan(<<>>) = {} /\ DOMAIN Plan(o, <<>>, script[o]) = {}
      BY <1>3 DEF KeptPlan, Plan
    <3> QED BY <3>1 DEF Continues
  <2>5. \A nr \in 1..Segments, k \in 1..Chunks : HeardChunk(rows', o, nr, k) => nr <= Len(made[o])
    BY <1>1, <1>3, <2>3 DEF HeardHeld, PlansHeld, HeardSame
  <2> QED BY <1>0, <1>1, <2>2, <2>3, <2>4, <2>5, PlansAre, HeardAre
<1>4. CASE o \notin Turns
  <2>1. rows' = rows /\ current' \notin Turns
    BY <1>0, <1>1, <1>4 DEF Begin
  <2>2. /\ Continues(rows', KeptPlan(resumable'))
        /\ current' # NoOne => Continues(rows', Plan(current', made'[current'], script'[current']))
        /\ OrderedIn(rows') /\ AnswersIn(rows')
    BY <1>0, <2>1 DEF HeardHeld, PlansHeld
  <2> QED BY <2>1, <2>2, PlansAre, HeardAre
<1> QED BY <1>3, <1>4

(* An owner's plan holds what it published, as far as it is heard.         *)
LEMMA PlanIs ==
  ASSUME TypeOK, NEW o \in Owners, PlayHeld(o), NEW plan, plan = Plan(o, made[o], script[o])
  PROVE  /\ DOMAIN plan \subseteq Nat
         /\ \A i \in DOMAIN plan : plan[i].nr \in 1..Segments /\ plan[i].heard \in 0..Chunks
         /\ \A i \in DOMAIN made[o] :
              /\ i \in DOMAIN plan /\ plan[i].of = made[o][i].of /\ plan[i].nr = made[o][i].nr
              /\ plan[i].heard = Heard(made[o][i]) /\ Heard(made[o][i]) \in 0..Chunks
         /\ o \in Turns => DOMAIN plan = DOMAIN made[o]
<1>0. /\ made[o] \in Seq(Said) /\ script[o] \in Seq(Segment) /\ Segments \in Nat /\ Chunks \in Nat
      /\ DOMAIN made[o] \subseteq Nat /\ DOMAIN script[o] = 1..Len(script[o]) /\ Len(script[o]) \in Nat
      /\ DOMAIN made[o] = 1..Len(made[o]) /\ Len(made[o]) \in Nat
  <2>1. made[o] \in Seq(Said) /\ script[o] \in Seq(Segment) /\ Segments \in Nat /\ Chunks \in Nat
    BY DEF TypeOK, SpeechAssumption
  <2> QED BY <2>1
<1>1. ASSUME NEW i \in DOMAIN made[o]
      PROVE  /\ made[o][i].nr \in 1..Segments /\ made[o][i].before \in 0..Chunks
             /\ made[o][i].now \in 0..Chunks /\ Heard(made[o][i]) \in 0..Chunks
             /\ o \in Turns => Heard(made[o][i]) = made[o][i].now
  <2>1. made[o][i] \in Said
    BY <1>0
  <2>2. /\ made[o][i].nr \in 1..Segments /\ made[o][i].before \in 0..Chunks
        /\ made[o][i].now \in 0..Chunks
    BY <2>1 DEF Said
  <2>3. Heard(made[o][i]) <= Chunks /\ (o \in Turns => made[o][i].before = 0)
    BY DEF PlayHeld
  <2> QED BY <1>0, <2>2, <2>3 DEF Heard
<1>2. CASE o \in Turns
  <2>1. /\ DOMAIN plan = DOMAIN made[o]
        /\ \A i \in DOMAIN made[o] : plan[i].of = o /\ plan[i].nr = i /\ plan[i].heard = made[o][i].now
    BY <1>2 DEF Plan
  <2>2. \A i \in DOMAIN made[o] : made[o][i].of = o /\ made[o][i].nr = i
    BY <1>2 DEF PlayHeld
  <2> QED BY <1>0, <1>1, <1>2, <2>1, <2>2
<1>3. CASE o \notin Turns
  <2>1. DOMAIN plan = DOMAIN script[o]
    BY <1>3 DEF Plan
  <2>2. \A i \in DOMAIN script[o] :
          /\ plan[i].of = script[o][i].of /\ plan[i].nr = script[o][i].nr
          /\ i \in DOMAIN made[o] => plan[i].heard = script[o][i].before + made[o][i].now
          /\ i \notin DOMAIN made[o] => plan[i].heard = script[o][i].before + 0
    BY <1>3 DEF Plan
  <2>3. \A i \in DOMAIN made[o] :
          /\ i <= Len(script[o])
          /\ made[o][i].of = script[o][i].of /\ made[o][i].nr = script[o][i].nr
          /\ made[o][i].before = script[o][i].before
    BY <1>3, Names DEF PlayHeld
  <2>4. \A i \in DOMAIN made[o] : i \in DOMAIN script[o]
    BY <1>0, <2>3
  <2>5. \A i \in DOMAIN script[o] : script[o][i].nr \in 1..Segments /\ script[o][i].before \in 0..Chunks
    <3>1. \A i \in DOMAIN script[o] : script[o][i] \in Segment
      BY <1>0
    <3> QED BY <3>1 DEF Segment
  <2>6. \A i \in DOMAIN made[o] : plan[i].heard = Heard(made[o][i])
    BY <2>2, <2>3, <2>4 DEF Heard
  <2>7. \A i \in DOMAIN plan : plan[i].nr \in 1..Segments /\ plan[i].heard \in 0..Chunks
    <3> SUFFICES ASSUME NEW i \in DOMAIN script[o] PROVE plan[i].nr \in 1..Segments /\ plan[i].heard \in 0..Chunks
      BY <2>1
    <3>1. CASE i \in DOMAIN made[o]
      BY <1>1, <2>2, <2>5, <2>6, <3>1
    <3>2. CASE i \notin DOMAIN made[o]
      <4>1. script[o][i].before + 0 = script[o][i].before
        BY <1>0, <2>5
      <4> QED BY <2>2, <2>5, <3>2, <4>1
    <3> QED BY <3>1, <3>2
  <2> QED BY <1>0, <1>1, <1>3, <2>1, <2>2, <2>3, <2>4, <2>6, <2>7
<1> QED BY <1>2, <1>3

LEMMA PublishHeard ==
  ASSUME FloorInd, PlaysHeld, HeardHeld, NEW o \in Owners, Publish(o)
  PROVE  HeardHeld'
<1>0. /\ TypeOK /\ PlayHeld(o) /\ UNCHANGED <<script, resumable, current, active, prod, rows>>
      /\ active = o /\ current = o /\ prod[o] = "running" /\ o # NoOne
  BY Names DEF FloorInd, FloorHeld, ActiveHeld, PlaysHeld, Publish
<1> PICK n \in Nat : n = Len(made[o]) /\ DOMAIN made[o] = 1..n
  BY <1>0 DEF TypeOK
<1>1. /\ PlaysHeld' /\ made'[o] \in Seq(Said) /\ DOMAIN made'[o] = 1..(n + 1) /\ Len(made'[o]) = n + 1
      /\ \A i \in 1..n : made'[o][i] = made[o][i]
      /\ made'[o][n + 1].now = 0
  BY PublishPlays
<1> PICK plan : plan = Plan(o, made[o], script[o])
  OBVIOUS
<1> PICK plan2 : plan2 = Plan(o, made'[o], script[o])
  OBVIOUS
<1>2. Continues(rows, plan) /\ Continues(rows, KeptPlan(resumable)) /\ OrderedIn(rows) /\ AnswersIn(rows)
  BY <1>0 DEF HeardHeld, PlansHeld
<1>3. CASE o \in Turns
  <2>1. /\ LatestQuestion(rows, o) /\ HeardTyped(rows)
        /\ \A nr \in 1..Segments, k \in 1..Chunks : HeardChunk(rows, o, nr, k) => nr <= n
    BY <1>0, <1>3, SpokenTypes DEF HeardHeld, PlansHeld, TypeOK
  <2>2. /\ DOMAIN plan = 1..n
        /\ \A i \in 1..n : plan[i].of = o /\ plan[i].nr = i /\ plan[i].heard = made[o][i].now
    BY <1>3 DEF Plan
  <2>3. /\ DOMAIN plan2 = 1..(n + 1)
        /\ \A i \in 1..(n + 1) : plan2[i].of = o /\ plan2[i].nr = i /\ plan2[i].heard = made'[o][i].now
    BY <1>1, <1>3 DEF Plan
  <2>4. n + 1 \in 1..(n + 1) /\ \A i \in 1..n : i \in 1..(n + 1)
    OBVIOUS
  <2>5. Continues(rows, plan2)
    <3>1. \A i \in 1..n : /\ plan[i].of = o /\ plan[i].nr = i
                          /\ plan2[i].of = o /\ plan2[i].nr = i /\ plan2[i].heard = plan[i].heard
      <4> SUFFICES ASSUME NEW i \in 1..n
                   PROVE  /\ plan[i].of = o /\ plan[i].nr = i
                          /\ plan2[i].of = o /\ plan2[i].nr = i /\ plan2[i].heard = plan[i].heard
        OBVIOUS
      <4>1. plan2[i].of = o /\ plan2[i].nr = i /\ plan2[i].heard = made'[o][i].now
        BY <2>3, <2>4
      <4>2. plan[i].of = o /\ plan[i].nr = i /\ plan[i].heard = made[o][i].now
        BY <2>2
      <4>3. made'[o][i] = made[o][i]
        BY <1>1
      <4> QED BY <4>1, <4>2, <4>3
    <3>2. plan2[n + 1].of = o /\ plan2[n + 1].nr = n + 1 /\ plan2[n + 1].heard = 0
      BY <1>1, <2>3, <2>4
    <3>3. DOMAIN plan = 1..n /\ DOMAIN plan2 = 1..(n + 1)
      BY <2>2, <2>3
    <3> QED BY ONLY n \in Nat, <1>2, <2>1, <3>1, <3>2, <3>3, PlanGrows, SMTT(60)
  <2>6. \A nr \in 1..Segments, k \in 1..Chunks : HeardChunk(rows, o, nr, k) => nr <= n + 1
    <3>1. \A nr \in 1..Segments : nr <= n => nr <= n + 1
      BY DEF SpeechAssumption
    <3> QED BY <2>1, <3>1
  <2> QED BY <1>0, <1>1, <1>2, <2>1, <2>5, <2>6, PlansAre, HeardAre
<1>4. CASE o \notin Turns
  <2>1. \A i \in DOMAIN script[o] : (IF i \in DOMAIN made'[o] THEN made'[o][i].now ELSE 0)
                                      = (IF i \in DOMAIN made[o] THEN made[o][i].now ELSE 0)
    <3>1. \A i \in 1..(n + 1) : i \in 1..n \/ i = n + 1
      OBVIOUS
    <3>2. n + 1 \notin 1..n /\ \A i \in 1..n : i \in 1..(n + 1)
      OBVIOUS
    <3> QED BY <1>1, <3>1, <3>2
  <2>2. plan2 = plan
    BY <1>4, <2>1 DEF Plan
  <2> QED BY <1>0, <1>2, <1>4, <2>2, PlansAre, HeardAre
<1> QED BY <1>3, <1>4

LEMMA ProducerHeard ==
  ASSUME FloorInd, RowsHeld, PlaysHeld, HeardHeld, NEW o \in Owners, Producer(o)
  PROVE  HeardHeld'
<1>1. CASE ProducerEnds(o) \/ ProducerFails(o)
  <2>1. /\ UNCHANGED <<rows, made, script, resumable, current, active>>
        /\ prod[o] = "running" /\ \E how : prod' = [prod EXCEPT ![o] = how]
    BY <1>1 DEF ProducerEnds, ProducerFails
  <2>2. \A p \in Owners : prod[p] = "ready" => prod'[p] = "ready"
    BY <2>1 DEF FloorInd, TypeOK
  <2> QED BY <2>1, <2>2, StillHeard
<1> QED BY <1>1, BeginHeard, PublishHeard DEF Producer

(* Where the delivered chunk is in the rows.                               *)
LEMMA ChunkSaid ==
  ASSUME TypeOK, RowsHeld, NEW o \in Owners, NEW chunk \in Chunk, Record(o, chunk),
         open = o => Last(rows).by = o
  PROVE  /\ QuestionsStay(rows, rows') /\ LatestKept(rows, rows')
         /\ \E h, l : /\ SaysMore(rows, rows', h, l, chunk) /\ h \in 1..(Len(rows) + 1)
                      /\ \A j \in DOMAIN rows : IsQuestion(rows[j]) => j < h
<1> PICK n \in Nat : n = Len(rows)
  BY DEF TypeOK
<1>0. /\ rows \in Seq(Row) /\ rows' \in Seq(Row) /\ RowsKept /\ n = Len(rows)
      /\ DOMAIN rows = 1..n /\ DOMAIN rows' = 1..Len(rows') /\ Len(rows') \in Nat
      /\ \A i \in 1..n : /\ i \in DOMAIN rows' /\ rows'[i].by = rows[i].by
                         /\ rows'[i].text = <<>> <=> rows[i].text = <<>>
  BY ChunkRecorded DEF TypeOK, RowsKept
<1>1. QuestionsStay(rows, rows')
  BY <1>0 DEF QuestionsStay, IsQuestion
<1>2. \A i, k : SpokenAt(rows, i, k) => /\ i \in 1..n /\ i \in Nat /\ k \in Nat
                                        /\ k \in 1..Len(rows[i].text) /\ rows[i].text[k] \in Chunk
  BY <1>0, SpokenTypes
<1>3. CASE /\ open = o /\ rows # <<>> /\ Len(rows') = n
           /\ rows[n].text # <<>>
           /\ rows'[n] = [rows[n] EXCEPT !.text = Append(@, chunk)]
           /\ \A i \in DOMAIN rows : i # n => rows'[i] = rows[i]
  <2>1. n \in 1..n
    <3>1. n # 0
      BY <1>0, <1>3
    <3> QED BY <3>1
  <2>2. PICK r \in Row : r = rows[n]
    BY <1>0, <2>1
  <2>3. PICK m \in Nat : m = Len(rows[n].text) /\ DOMAIN rows[n].text = 1..m /\ rows[n].text \in Seq(Chunk)
    BY <1>0, <2>1, SpokenTypes
  <2>4. rows'[n].text = Append(rows[n].text, chunk)
    <3>1. [r EXCEPT !.text = Append(@, chunk)].text = Append(r.text, chunk)
      BY DEF Row
    <3> QED BY <1>3, <2>2, <3>1
  <2>5. /\ DOMAIN rows'[n].text = 1..(m + 1) /\ rows'[n].text[m + 1] = chunk
        /\ \A k \in 1..m : rows'[n].text[k] = rows[n].text[k]
    BY <2>3, <2>4
  <2>6. ASSUME NEW i, NEW k
        PROVE  /\ SpokenAt(rows', i, k) <=> SpokenAt(rows, i, k) \/ (i = n /\ k = m + 1)
               /\ SpokenAt(rows, i, k) =>
                    /\ i \in Nat /\ k \in Nat /\ Before(i, k, n, m + 1)
                    /\ rows[i].text[k] \in Chunk /\ rows'[i].text[k] = rows[i].text[k]
    <3>1. CASE i = n
      <4>1. k \in 1..(m + 1) <=> k \in 1..m \/ k = m + 1
        OBVIOUS
      <4>2. \A x \in 1..m : x < m + 1
        OBVIOUS
      <4> QED BY <1>0, <1>2, <1>3, <2>1, <2>3, <2>5, <3>1, <4>1, <4>2 DEF SpokenAt, Before
    <3>2. CASE i # n
      BY <1>0, <1>2, <1>3, <3>2 DEF SpokenAt, Before
    <3> QED BY <3>1, <3>2
  <2>7. SaysMore(rows, rows', n, m + 1, chunk)
    BY <2>5, <2>6 DEF SaysMore
  <2>8. \A j \in DOMAIN rows : IsQuestion(rows[j]) => j < n
    BY <1>0, <1>3 DEF IsQuestion
  <2>9. n \in 1..(n + 1)
    BY <2>1
  <2>10. LatestKept(rows, rows')
    BY <1>0, <1>1, <1>3 DEF LatestKept, LatestQuestion, QuestionsStay
  <2> QED BY <1>0, <1>1, <2>7, <2>8, <2>9, <2>10
<1>4. CASE /\ open # o /\ Len(rows') = n + 1
           /\ rows'[n + 1] = [by |-> o, text |-> <<chunk>>, cut |-> FALSE]
           /\ \A i \in DOMAIN rows : rows'[i] = rows[i]
  <2>1. /\ rows'[n + 1].text = <<chunk>> /\ DOMAIN rows'[n + 1].text = {1}
        /\ rows'[n + 1].text[1] = chunk /\ rows'[n + 1].text # <<>>
    BY <1>4
  <2>2. \A i : i \in DOMAIN rows' <=> i \in 1..n \/ i = n + 1
    BY <1>0, <1>4
  <2>3. n + 1 \notin 1..n
    OBVIOUS
  <2>4. ASSUME NEW i, NEW k
        PROVE  /\ SpokenAt(rows', i, k) <=> SpokenAt(rows, i, k) \/ (i = n + 1 /\ k = 1)
               /\ SpokenAt(rows, i, k) =>
                    /\ i \in Nat /\ k \in Nat /\ Before(i, k, n + 1, 1)
                    /\ rows[i].text[k] \in Chunk /\ rows'[i].text[k] = rows[i].text[k]
    <3>1. CASE i = n + 1
      BY <1>0, <2>1, <2>2, <2>3, <3>1 DEF SpokenAt
    <3>2. CASE i # n + 1
      BY <1>0, <1>2, <1>4, <2>2, <3>2 DEF SpokenAt, Before
    <3> QED BY <3>1, <3>2
  <2>5. SaysMore(rows, rows', n + 1, 1, chunk)
    BY <2>1, <2>4 DEF SaysMore
  <2>6. ~IsQuestion(rows'[n + 1])
    BY <2>1 DEF IsQuestion
  <2>7. LatestKept(rows, rows')
    <3> SUFFICES ASSUME NEW t, LatestQuestion(rows, t) PROVE LatestQuestion(rows', t)
      BY DEF LatestKept
    <3>1. PICK j \in 1..n : /\ IsQuestion(rows[j]) /\ rows[j].by = t
                            /\ \A k \in 1..n : k > j => ~IsQuestion(rows[k])
      BY <1>0 DEF LatestQuestion
    <3>2. \A k \in DOMAIN rows' : k > j => ~IsQuestion(rows'[k])
      BY <1>0, <1>4, <2>2, <2>6, <3>1
    <3> QED BY <1>0, <1>4, <2>2, <3>1, <3>2 DEF LatestQuestion
  <2>8. n + 1 \in 1..(n + 1) /\ \A j \in DOMAIN rows : j < n + 1
    BY <1>0
  <2> QED BY <1>0, <1>1, <2>5, <2>7, <2>8
<1> QED BY <1>3, <1>4, ChunkRecorded

LEMMA DeliverHeard ==
  ASSUME FloorInd, RowsHeld, PlaysHeld, HeardHeld, NEW o \in Owners, Deliver(o)
  PROVE  HeardHeld'
<1>0. /\ TypeOK /\ PlayHeld(o) /\ RevokedHeld(o) /\ ActiveHeld /\ cons[o] = "playing" /\ ~Revoked(o)
      /\ UNCHANGED <<script, pos, resumable, current, active, prod>>
      /\ open = o => Last(rows).by = o
      /\ o # NoOne
  BY Names DEF FloorInd, FloorHeld, PlaysHeld, Deliver, Started, Cut
<1>1. active = o /\ current = o /\ resumable = <<>>
  BY <1>0 DEF RevokedHeld, ActiveHeld, Live, Revoked
<1> PICK chunk : chunk = <<Current(o).of, Current(o).nr, Heard(Current(o)) + 1>>
  OBVIOUS
<1>2. chunk \in Chunk /\ Record(o, chunk)
  BY <1>0, ChunkPlayed DEF Deliver
<1>3. PICK h, l : /\ SaysMore(rows, rows', h, l, chunk) /\ h \in 1..(Len(rows) + 1)
                  /\ \A j \in DOMAIN rows : IsQuestion(rows[j]) => j < h
  BY <1>0, <1>2, ChunkSaid
<1>4. QuestionsStay(rows, rows') /\ LatestKept(rows, rows')
  BY <1>0, <1>2, ChunkSaid
<1> PICK plan : plan = Plan(o, made[o], script[o])
  OBVIOUS
<1> PICK plan2 : plan2 = Plan(o, made'[o], script[o])
  OBVIOUS
<1> PICK p : p = pos[o]
  OBVIOUS
<1>5. /\ PlaysHeld' /\ p \in DOMAIN made[o] /\ DOMAIN made'[o] = DOMAIN made[o]
      /\ Heard(made'[o][p]) = Heard(made[o][p]) + 1
      /\ made'[o][p].now = made[o][p].now + 1
      /\ \A i \in DOMAIN made[o] : i # p => made'[o][i] = made[o][i]
      /\ Len(made'[o]) = Len(made[o])
  <2>1. made'[o][p] = [made[o][p] EXCEPT !.now = made[o][p].now + 1] /\ made[o][p] \in Said
    BY <1>0, DeliverPlays, ChunkPlayed DEF Current
  <2>2. made'[o][p].now = made[o][p].now + 1
    BY <2>1 DEF Said
  <2> QED BY <2>2, DeliverPlays
<1>6. /\ DOMAIN plan \subseteq Nat
      /\ \A i \in DOMAIN plan : plan[i].nr \in 1..Segments /\ plan[i].heard \in 0..Chunks
      /\ \A i \in DOMAIN made[o] :
           /\ i \in DOMAIN plan /\ plan[i].of = made[o][i].of /\ plan[i].nr = made[o][i].nr
           /\ plan[i].heard = Heard(made[o][i])
      /\ o \in Turns => DOMAIN plan = DOMAIN made[o]
  BY <1>0, PlanIs
<1>7. IsAt(plan, p)
  <2>1. plan[p].heard < Chunks
    BY <1>0, <1>5, <1>6 DEF PlayHeld, Current
  <2>2. ASSUME NEW i \in DOMAIN plan, i < p PROVE plan[i].heard = Chunks
    <3>1. i \in DOMAIN made[o]
      <4>1. DOMAIN made[o] = 1..Len(made[o]) /\ Len(made[o]) \in Nat
        BY <1>0 DEF TypeOK
      <4>2. DOMAIN script[o] = 1..Len(script[o]) /\ Len(script[o]) \in Nat
        BY <1>0 DEF TypeOK
      <4>3. i \in Nat \ {0}
        <5>1. CASE o \in Turns
          BY <1>6, <4>1, <5>1
        <5>2. CASE o \notin Turns
          BY <4>2, <5>2 DEF Plan
        <5> QED BY <5>1, <5>2
      <4> QED BY <1>5, <2>2, <4>1, <4>3
    <3> QED BY <1>0, <1>6, <2>2, <3>1 DEF PlayHeld
  <2> QED BY <1>5, <1>6, <2>1, <2>2 DEF IsAt
<1>8. Advanced(plan, plan2, p)
  <2>1. CASE o \in Turns
    <3>1. /\ DOMAIN plan = DOMAIN made[o] /\ DOMAIN plan2 = DOMAIN made[o]
          /\ \A i \in DOMAIN made[o] :
               /\ plan[i].of = o /\ plan[i].nr = i /\ plan[i].heard = made[o][i].now
               /\ plan2[i].of = o /\ plan2[i].nr = i /\ plan2[i].heard = made'[o][i].now
      BY <1>5, <2>1 DEF Plan
    <3> QED BY <1>5, <3>1 DEF Advanced
  <2>2. CASE o \notin Turns
    <3>1. /\ DOMAIN plan = DOMAIN script[o] /\ DOMAIN plan2 = DOMAIN script[o]
          /\ \A i \in DOMAIN script[o] :
               /\ plan[i].of = script[o][i].of /\ plan[i].nr = script[o][i].nr
               /\ plan2[i].of = script[o][i].of /\ plan2[i].nr = script[o][i].nr
               /\ i \notin DOMAIN made[o] => plan2[i].heard = plan[i].heard
               /\ i \in DOMAIN made[o] => /\ plan[i].heard = script[o][i].before + made[o][i].now
                                          /\ plan2[i].heard = script[o][i].before + made'[o][i].now
      BY <1>5, <2>2 DEF Plan
    <3>2. ASSUME NEW i \in DOMAIN made[o]
          PROVE  plan2[i].heard = IF i = p THEN plan[i].heard + 1 ELSE plan[i].heard
      <4>1. i \in DOMAIN script[o]
        BY <1>6, <3>1
      <4>2. CASE i = p
        <5>1. script[o][i].before \in Nat /\ made[o][i].now \in Nat
          <6>1. script[o][i] \in Segment /\ made[o][i] \in Said
            BY <1>0, <4>1 DEF TypeOK
          <6> QED BY <6>1 DEF Segment, Said
        <5>2. /\ plan[i].heard = script[o][i].before + made[o][i].now
              /\ plan2[i].heard = script[o][i].before + (made[o][i].now + 1)
          BY <1>5, <3>1, <4>1, <4>2
        <5> QED BY ONLY <4>2, <5>1, <5>2
      <4>3. CASE i # p
        BY <1>5, <3>1, <4>1, <4>3
      <4> QED BY <4>2, <4>3
    <3>3. ASSUME NEW i \in DOMAIN plan
          PROVE  plan2[i].heard = IF i = p THEN plan[i].heard + 1 ELSE plan[i].heard
      BY <1>5, <3>1, <3>2
    <3> QED BY <3>1, <3>3 DEF Advanced
  <2> QED BY <2>1, <2>2
<1>9. chunk = NextChunk(plan, p)
  BY <1>5, <1>6 DEF NextChunk, Current
<1>10. Continues(rows, plan) /\ OrderedIn(rows) /\ AnswersIn(rows)
  BY <1>0, <1>1 DEF HeardHeld, PlansHeld
<1>11. DOMAIN rows \subseteq Nat /\ HeardTyped(rows)
  BY <1>0, SpokenTypes DEF TypeOK
<1>12. \A t, nr, k : HeardChunk(rows', t, nr, k) <=> HeardChunk(rows, t, nr, k) \/ chunk = <<t, nr, k>>
  BY <1>3, SaidMore
<1>13. Continues(rows', plan2)
  BY <1>4, <1>7, <1>8, <1>9, <1>10, <1>11, <1>12, PlanAdvances
<1>14. OrderedIn(rows')
  <2>1. ComesNext(rows, chunk)
    BY <1>7, <1>9, <1>10, <1>11, NextInOrder
  <2> QED BY <1>3, <1>10, <2>1, OrderedMore
<1>15. AnswersIn(rows')
  <2>1. LatestQuestion(rows, chunk[1])
    <3>1. LatestQuestion(rows, plan[p].of)
      BY <1>7, <1>10 DEF Continues, IsAt
    <3> QED BY <1>9, <3>1 DEF NextChunk
  <2> QED BY <1>3, <1>4, <1>10, <2>1, AnswersMore
<1>16. Continues(rows', KeptPlan(resumable'))
  <2>1. DOMAIN KeptPlan(resumable') = {}
    BY <1>0, <1>1 DEF KeptPlan
  <2> QED BY <2>1 DEF Continues
<1>17. ASSUME o \in Turns
       PROVE  /\ \A nr \in 1..Segments, k \in 1..Chunks : HeardChunk(rows', o, nr, k) => nr <= Len(made[o])
              /\ prod[o] # "ready" => LatestQuestion(rows', o)
  <2>1. /\ \A nr \in 1..Segments, k \in 1..Chunks : HeardChunk(rows, o, nr, k) => nr <= Len(made[o])
        /\ prod[o] # "ready" => LatestQuestion(rows, o)
    BY <1>1, <1>17 DEF HeardHeld, PlansHeld
  <2>2. chunk[2] <= Len(made[o])
    <3>1. chunk[2] = p
      <4>1. chunk[2] = made[o][p].nr
        BY <1>5, <1>6, <1>9 DEF NextChunk
      <4> QED BY <1>0, <1>5, <1>17, <4>1 DEF PlayHeld
    <3>2. DOMAIN made[o] = 1..Len(made[o]) /\ Len(made[o]) \in Nat
      BY <1>0 DEF TypeOK
    <3> QED BY <1>5, <3>1, <3>2
  <2>3. \A nr, k : chunk = <<o, nr, k>> => nr = chunk[2]
    OBVIOUS
  <2> QED BY <1>4, <1>12, <2>1, <2>2, <2>3 DEF LatestKept
<1> QED BY <1>0, <1>1, <1>5, <1>13, <1>14, <1>15, <1>16, <1>17, PlansAre, HeardAre

LEMMA ConsumerHeard ==
  ASSUME FloorInd, RowsHeld, PlaysHeld, HeardHeld, NEW o \in Owners, Consumer(o)
  PROVE  HeardHeld'
<1>1. CASE UNCHANGED <<rows, made, script, resumable, current, active, prod>>
  BY <1>1, StillHeard
<1>2. CASE ConsumerFails(o)
  <2>1. RowsSame(rows, rows')
    BY <1>2, MarkedSame DEF ConsumerFails, FloorInd
  <2> QED BY <1>2, <2>1, HeardQuiet DEF ConsumerFails
<1>3. Play(o) \/ SegmentEnds(o) \/ ReplyEnds(o) \/ CleanedUp(o) \/ CleanupGivenUp(o) \/ ProviderStops(o)
        => UNCHANGED <<rows, made, script, resumable, current, active, prod>>
  BY DEF Play, SegmentEnds, ReplyEnds, CleanedUp, CleanupGivenUp, ProviderStops
<1> QED BY <1>1, <1>2, <1>3, DeliverHeard DEF Consumer

(* What is kept of a reply goes on where it was stopped.                   *)
LEMMA SettleHeard ==
  ASSUME FloorInd, PlaysHeld, HeardHeld, NEW o \in Owners, NEW drained, NEW settled,
         Settle(o, drained, settled)
  PROVE  HeardHeld'
<1>0. /\ TypeOK /\ PlayHeld(o) /\ UNCHANGED <<rows, made, script, current, active, prod>>
      /\ o # NoOne
  BY Names DEF FloorInd, PlaysHeld, Settle
<1>1. CASE resumable' = resumable
  BY <1>0, <1>1, StillHeard
<1>2. CASE current = o /\ resumable' = Rest(o)
  <2> PICK plan : plan = Plan(o, made[o], script[o])
    OBVIOUS
  <2>1. /\ DOMAIN plan \subseteq Nat
        /\ \A i \in DOMAIN made[o] :
             /\ i \in DOMAIN plan /\ plan[i].of = made[o][i].of /\ plan[i].nr = made[o][i].nr
             /\ plan[i].heard = Heard(made[o][i])
    BY <1>0, PlanIs
  <2>2. PICK left \in Seq(Nat) :
          /\ DOMAIN Rest(o) = DOMAIN left /\ Increasing(left)
          /\ \A j \in DOMAIN left :
               /\ left[j] \in DOMAIN made[o]
               /\ Rest(o)[j].of = made[o][left[j]].of /\ Rest(o)[j].nr = made[o][left[j]].nr
               /\ Rest(o)[j].before = Heard(made[o][left[j]])
          /\ \A i \in DOMAIN made[o] :
               (i >= pos[o] \/ made[o][i].now = 0) <=> \E j \in DOMAIN left : left[j] = i
    BY <1>0, RestIs
  <2> PICK plan2 : plan2 = KeptPlan(Rest(o))
    OBVIOUS
  <2>3. /\ DOMAIN plan2 = DOMAIN left
        /\ \A j \in DOMAIN left :
             /\ plan2[j].of = Rest(o)[j].of /\ plan2[j].nr = Rest(o)[j].nr
             /\ plan2[j].heard = Rest(o)[j].before
    BY <2>2 DEF KeptPlan
  <2>4. \A j \in DOMAIN left : /\ left[j] \in DOMAIN plan
                               /\ plan2[j].of = plan[left[j]].of /\ plan2[j].nr = plan[left[j]].nr
                               /\ plan2[j].heard = plan[left[j]].heard
    BY <2>1, <2>2, <2>3
  <2>5. ASSUME NEW j \in DOMAIN left, NEW i \in DOMAIN plan, i < left[j]
        PROVE  plan[i].heard = Chunks \/ \E h \in DOMAIN left : left[h] = i
    <3>1. i \in DOMAIN made[o]
      <4>1. DOMAIN made[o] = 1..Len(made[o]) /\ Len(made[o]) \in Nat
        BY <1>0 DEF TypeOK
      <4>2. DOMAIN script[o] = 1..Len(script[o]) /\ Len(script[o]) \in Nat
        BY <1>0 DEF TypeOK
      <4>3. i \in Nat \ {0}
        BY <4>1, <4>2 DEF Plan
      <4> QED BY <2>2, <2>5, <4>1, <4>3
    <3>2. CASE i < pos[o]
      BY <1>0, <2>1, <3>1, <3>2 DEF PlayHeld
    <3>3. CASE i >= pos[o]
      BY <2>2, <3>1, <3>3
    <3>4. i \in Nat /\ pos[o] \in Nat
      BY <1>0, <2>1 DEF TypeOK
    <3> QED BY <3>2, <3>3, <3>4
  <2>6. Continues(rows, plan)
    BY <1>0, <1>2 DEF HeardHeld, PlansHeld
  <2>7. DOMAIN left \subseteq Nat /\ DOMAIN rows \subseteq Nat
    <3>1. rows \in Seq(Row)
      BY <1>0 DEF TypeOK
    <3> QED BY <2>2, <3>1, SpokenTypes
  <2>8. Continues(rows, plan2)
    BY <2>1, <2>2, <2>3, <2>4, <2>5, <2>6, <2>7, PlanLeft
  <2>9. /\ Continues(rows', KeptPlan(resumable'))
        /\ current' # NoOne => Continues(rows', Plan(current', made'[current'], script'[current']))
        /\ OrderedIn(rows') /\ AnswersIn(rows')
    BY <1>0, <1>2, <2>8 DEF HeardHeld, PlansHeld
  <2>10. current' \in Turns =>
           /\ \A nr \in 1..Segments, k \in 1..Chunks :
                HeardChunk(rows', current', nr, k) => nr <= Len(made'[current'])
           /\ active' = current' /\ prod'[current'] # "ready" => LatestQuestion(rows', current')
    BY <1>0 DEF HeardHeld, PlansHeld
  <2> QED BY <2>9, <2>10, PlansAre, HeardAre
<1>3. resumable' = resumable \/ (current = o /\ resumable' = Rest(o))
  BY DEF Settle, Kept
<1> QED BY <1>1, <1>2, <1>3

LEMMA HeardStep ==
  ASSUME Conducted, HeardHeld, Next
  PROVE  HeardHeld'
<1>0. FloorInd /\ WordsHeld /\ RowsHeld /\ PlaysHeld
  BY DEF Conducted, FloorInd
<1> QED BY <1>0, CallingsHeard, FloorsHeard, ProducerHeard, ConsumerHeard, SettleHeard
        DEF Next, Cleanup

-----------------------------------------------------------------------------
(* The invariant.                                                          *)

LEMMA InitHeard ==
  ASSUME Init
  PROVE  HeardHeld
<1>1. rows = <<>> /\ resumable = <<>> /\ current = NoOne
  BY DEF Init
<1>2. \A i, k : ~SpokenAt(rows, i, k)
  BY <1>1 DEF SpokenAt
<1>3. DOMAIN KeptPlan(resumable) = {}
  BY <1>1 DEF KeptPlan
<1> QED BY <1>1, <1>2, <1>3, Names DEF HeardHeld, PlansHeld, Continues, OrderedIn, AnswersIn

(* What is kept and what the owner of the floor is to say goes on with     *)
(* what was heard of the latest answer, of which nothing is heard twice or *)
(* out of order.                                                           *)
THEOREM SpeechInvariant == Spec => []SpeechInductive
<1>1. Init => SpeechInductive
  BY InitConducted, InitHeard, OrderIs DEF SpeechInductive, HeardHeld
<1>2. SpeechInductive /\ [Next]_vars => SpeechInductive'
  <2> SUFFICES ASSUME SpeechInductive, [Next]_vars PROVE SpeechInductive'
    OBVIOUS
  <2>1. Conducted /\ HeardHeld /\ Conducted'
    BY OrderIs, StepConducted DEF SpeechInductive, HeardHeld
  <2>2. HeardHeld'
    <3>1. CASE Next
      BY <2>1, <3>1, HeardStep
    <3>2. CASE UNCHANGED vars
      <4>1. UNCHANGED <<rows, made, script, resumable, current, active, prod>>
        BY <3>2 DEF vars
      <4> QED BY <2>1, <4>1, StillHeard DEF Conducted, FloorInd
    <3> QED BY <3>1, <3>2
  <2>3. PlansHeld' /\ HeardInOrder' /\ AnswersLatest'
    BY <2>2, HeardAre, OrderIs
  <2> QED BY <2>1, <2>3 DEF SpeechInductive
<1> QED BY <1>1, <1>2, PTL DEF Spec

(* However often replies are stopped and replayed, each is heard from its  *)
(* beginning, each chunk once and in its order, and never after the words  *)
(* of a newer question.                                                    *)
THEOREM RepliesAreHeardRight == Spec => []HeardRight
<1>1. SpeechInductive => HeardRight
  BY DEF SpeechInductive, Conducted, HeardRight
<1> QED BY <1>1, SpeechInvariant, PTL
=============================================================================
