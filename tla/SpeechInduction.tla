-------------------------- MODULE SpeechInduction --------------------------
(***************************************************************************)
(* Speech's inductive invariant: who may have the floor and what may run   *)
(* beside its owner, which errors a caller may meet, where a reply's row   *)
(* is, and what is still to be heard of the latest answer.                 *)
(***************************************************************************)
EXTENDS Speech

-----------------------------------------------------------------------------
(* The floor.                                                              *)
Waits(c) == call[c] \in {"settling", "stopping", "unwinding"}

(* Who waits is in line, once.                                             *)
LineHeld ==
  /\ \A i, j \in DOMAIN line : line[i] = line[j] => i = j
  /\ \A c \in Callers : Waits(c) <=> \E i \in DOMAIN line : line[i] = c

(* What an owner has at each stage of its call.                            *)
Unopened(o) == call[o] \in {"idle", "settling", "draining", "refused", "pending"}
StageHeld(o) ==
  /\ call[o] \in {"idle", "settling", "draining", "speaking", "unwinding",
                  "returned", "raised", "refused", "pending", "overtaken"}
  /\ Unopened(o) => prod[o] = "none" /\ cons[o] = "none" /\ tidy[o] = "none" /\ made[o] = <<>>
  /\ call[o] = "overtaken" =>
       prod[o] = "ended" /\ cons[o] = "none" /\ tidy[o] = "done" /\ made[o] = <<>>
  /\ call[o] \in {"unwinding", "returned", "raised"} => Over(o)
  /\ call[o] = "speaking" => cons[o] # "none"
  /\ call[o] = "idle" => current # o
  /\ call[o] = "idle" \/ o \in Turns => script[o] = <<>>
  /\ cons[o] = "none" => prod[o] \in {"none", "ended"}
  /\ prod[o] = "ready" <=> cons[o] = "ready"
  /\ cons[o] = "spoken" => prod[o] = "ended"
  /\ prod[o] = "none" => cons[o] = "none"
  /\ prod[o] = "ready" => active = o /\ made[o] = <<>>
  /\ prod[o] = "running" => active = o \/ Revoked(o)

Live(o) == cons[o] \in {"ready", "next", "playing"}

(* The owner of the floor is alone: nobody else infers or plays, nobody is *)
(* about to open a turn, nothing is kept for a replay.                     *)
ActiveHeld ==
  active # NoOne =>
    /\ call[active] = "speaking" /\ tidy[active] = "none" /\ current = active /\ resumable = <<>>
    /\ \A o \in Owners \ {active} : ~Live(o) /\ prod[o] # "running"
    /\ \A o \in Owners : call[o] \notin {"settling", "draining"}

(* A consumer that was revoked is being cleaned up or retained.            *)
RevokedHeld(o) ==
  /\ Live(o) => \/ active = o
                \/ tidy[o] = "going"
                \/ o \in retained /\ cons[o] = "playing"
  /\ o \in retained => tidy[o] = "failed"
  /\ tidy[o] = "done" => prod[o] \notin {"ready", "running"}

(* While a turn drains, what plays has ended.                              *)
DrainHeld == Draining => Cleanups = {} /\ \A o \in Owners : ~Live(o)

(* Whoever waits for the floor and is not overtaken came last.             *)
Ahead(p, o) == \E i, j \in DOMAIN line : i < j /\ line[i] = p /\ line[j] = o

LatestWaits ==
  \A o, p \in Owners :
    current = o /\ call[o] \in {"settling", "draining"} /\ p # o /\ call[p] = "settling" =>
      Ahead(p, o)

FloorHeld ==
  /\ LineHeld /\ ActiveHeld /\ DrainHeld /\ LatestWaits
  /\ \A o \in Owners : StageHeld(o) /\ RevokedHeld(o)

-----------------------------------------------------------------------------
(* A turn's words are recorded, or will never be; a refusal has a reason.  *)
HasQuestion(t) == \E i \in DOMAIN rows : IsQuestion(rows[i]) /\ rows[i].by = t

WordsHeld ==
  /\ gathered => \E o \in Owners : tidy[o] = "failed"
  /\ \A t \in Turns :
       /\ prod[t] \notin {"none", "ready"} => HasQuestion(t) \/ (prod[t] = "ended" /\ Revoked(t))
       /\ call[t] = "refused" => Closed \/ \E o \in Owners \ {t} : tidy[o] = "failed"
       /\ HasQuestion(t) => prod[t] \notin {"none", "ready"}

-----------------------------------------------------------------------------
(* The rows: a reply is one, which is last, or displaced by a command, as  *)
(* long as its consumer may add to it.                                     *)
Spoken(i) == rows[i].text # <<>>
DisplacedRow(o, i) == o \in retained /\ i < Len(rows) /\ rows[i + 1].by \in Commands

RowHeld(i) ==
  LET o == rows[i].by
  IN  Spoken(i) =>
        /\ o \in Owners /\ cons[o] \notin {"none", "ready"} /\ HeardAny(o)
        /\ cons[o] \in {"next", "playing"} =>
             open = o /\ ~rows[i].cut /\ (i = Len(rows) \/ DisplacedRow(o, i))
        /\ cons[o] \in {"cleanup", "broken"} => rows[i].cut \/ DisplacedRow(o, i)
        /\ cons[o] = "spoken" => ~rows[i].cut

RowsHeld ==
  /\ \A i \in DOMAIN rows : RowHeld(i)
  /\ \A i, j \in DOMAIN rows : Spoken(i) /\ Spoken(j) /\ rows[i].by = rows[j].by => i = j
  /\ open # NoOne => /\ rows # <<>> /\ cons[open] \notin {"none", "ready"}
                     /\ Last(rows).by = open => Last(rows).text # <<>>

-----------------------------------------------------------------------------
(* What is played.                                                         *)

(* The consumer has had all before its segment heard, and is within it.    *)
PlayHeld(o) ==
  /\ cons[o] \in {"none", "ready"} => made[o] = <<>>
  /\ pos[o] <= Len(made[o]) + 1
  /\ \A i \in DOMAIN made[o] :
       /\ Heard(made[o][i]) <= Chunks
       /\ i < pos[o] => Heard(made[o][i]) = Chunks
       /\ i > pos[o] => made[o][i].now = 0
       /\ o \in Turns => made[o][i].of = o /\ made[o][i].nr = i /\ made[o][i].before = 0
       /\ o \in Replays => /\ i <= Len(script[o])
                           /\ made[o][i].of = script[o][i].of /\ made[o][i].nr = script[o][i].nr
                           /\ made[o][i].before = script[o][i].before
  /\ cons[o] = "playing" => HasNext(o) /\ Heard(Current(o)) < Chunks

PlaysHeld == \A o \in Owners : PlayHeld(o)

(* Who may speak, what is recorded and what is marked.                     *)
Conducted == TypeOK /\ FloorHeld /\ OneAtATime /\ WordsHeld /\ RowsHeld /\ PlaysHeld

-----------------------------------------------------------------------------
(* What is heard, and what is still to be.                                 *)

(* Of rows rs: what of an answer is heard, and which question is the last. *)
HeardChunk(rs, t, nr, k) ==
  \E i \in DOMAIN rs : \E j \in DOMAIN rs[i].text : rs[i].text[j] = <<t, nr, k>>

LatestQuestion(rs, t) ==
  \E j \in DOMAIN rs :
    /\ IsQuestion(rs[j]) /\ rs[j].by = t
    /\ \A k \in DOMAIN rs : k > j => ~IsQuestion(rs[k])

(* What an owner o that published said of what it was asked is to say, and *)
(* what is kept for a replay to say, with how much of it is heard.         *)
Plan(o, said, asked) ==
  IF o \in Turns
  THEN [i \in DOMAIN said |-> [of |-> o, nr |-> i, heard |-> said[i].now]]
  ELSE [i \in DOMAIN asked |->
          [of |-> asked[i].of, nr |-> asked[i].nr,
           heard |-> asked[i].before + (IF i \in DOMAIN said THEN said[i].now ELSE 0)]]
KeptPlan(asked) ==
  [i \in DOMAIN asked |-> [of |-> asked[i].of, nr |-> asked[i].nr, heard |-> asked[i].before]]

(* A plan goes on in the latest answer where it is no longer heard: of its *)
(* segments the first chunks are heard, of those before one all, and of    *)
(* those after one nothing until that one is heard to its end.             *)
Continues(rs, plan) ==
  /\ \A i, j \in DOMAIN plan : i < j => plan[i].nr < plan[j].nr
  /\ \A i \in DOMAIN plan :
       /\ LatestQuestion(rs, plan[i].of)
       /\ \A k \in 1..Chunks : HeardChunk(rs, plan[i].of, plan[i].nr, k) <=> k <= plan[i].heard
       /\ \A nr \in 1..(plan[i].nr - 1) :
            \/ \E j \in DOMAIN plan : j < i /\ plan[j].nr = nr
            \/ \A k \in 1..Chunks : HeardChunk(rs, plan[i].of, nr, k)
       /\ \A nr \in 1..Segments, k \in 1..Chunks :
            HeardChunk(rs, plan[i].of, nr, k) /\ nr > plan[i].nr => plan[i].heard = Chunks

(* What is kept, and what the owner that was not overtaken is to say,      *)
(* continue what is heard; of a turn nothing is heard that is not          *)
(* published, and what it publishes answers the latest question.           *)
PlansHeld ==
  /\ Continues(rows, KeptPlan(resumable))
  /\ current # NoOne => Continues(rows, Plan(current, made[current], script[current]))
  /\ current \in Turns =>
       /\ \A nr \in 1..Segments, k \in 1..Chunks :
            HeardChunk(rows, current, nr, k) => nr <= Len(made[current])
       /\ active = current /\ prod[current] # "ready" => LatestQuestion(rows, current)

SpeechInductive == Conducted /\ PlansHeld /\ AnswersLatest /\ HeardInOrder
=============================================================================
