--------------------------- MODULE TasksInduction ---------------------------
(***************************************************************************)
(* The inductive invariant of Tasks: where the terminal of a task can be,  *)
(* by the stage of its dispatch, and how the numbers of its events relate  *)
(* to what the controller has seen of it.                                  *)
(***************************************************************************)
EXTENDS Tasks

(* A run exists from the answer to the dispatch on, and its terminal has a *)
(* number once it is over.                                                 *)
RunsByStage ==
  \A t \in Tasks :
    /\ stage[t] \in {"new", "posted", "refused"} => runs[t] = "none"
    /\ stage[t] = "answered" => (runs[t] # "none" <=> answer[t].accepted)
    /\ stage[t] = "active" => runs[t] # "none"
    /\ stage[t] = "ended" => runs[t] = "over"
    /\ (final[t] > 0) <=> (runs[t] = "over")
    /\ stop[t] # "none" => stage[t] \in {"active", "ended"}

(* What was seen of a task was said before; before its dispatch settles    *)
(* that is its terminal or nothing; and the answer to the dispatch is the  *)
(* oldest of all.                                                          *)
Numbers ==
  \A t \in Tasks :
    /\ seen[t] <= clock[t] /\ final[t] <= clock[t]
    /\ stage[t] \in {"new", "posted", "answered"} => seen[t] = (IF early[t] THEN final[t] ELSE 0)
    /\ stage[t] = "answered" => 0 < answer[t].number /\ answer[t].number <= clock[t]
    /\ stage[t] = "answered" /\ runs[t] = "over" => answer[t].number < final[t]

(* A terminal is in one place.                                             *)
Settled(t) == \E i \in DOMAIN ended : ended[i] = t
Queued(t)  == \E i \in DOMAIN updates : updates[i] = t

OnePlace ==
  /\ \A i, j \in DOMAIN ended : ended[i] = ended[j] => i = j
  /\ \A i, j \in DOMAIN updates : updates[i] = updates[j] /\ updates[i] \in Tasks => i = j
  /\ \A t \in Tasks :
       /\ Settled(t) <=> (stage[t] = "ended")
       /\ early[t] => stage[t] \in Waiting /\ runs[t] = "over" /\ seen[t] = final[t]
       /\ Queued(t) => /\ runs[t] = "over" /\ stage[t] # "ended"
                       /\ ~early[t] /\ seen[t] # final[t]

(* While the controller serves it is somewhere, and a broken stream too.   *)
SomePlace ==
  fault = "none" =>
    /\ ~closed
    /\ \A t \in Tasks :
         /\ runs[t] = "over" => Queued(t) \/ early[t] \/ stage[t] = "ended"
         /\ runs[t] = "stuck" => Queued(Broken)

(* The reservations of the context store.                                  *)
Reserved == Pending \union Active

Capacity == IsFiniteSet(Reserved) /\ Cardinality(Reserved) <= MaxActive

InOrder == told \o Sift(queue, Tasks) = ended

(* The cancel that overtook the terminal the controller refused.           *)
Overtaken ==
  fault = "stale" =>
    \E t \in Tasks : stage[t] # "ended" /\ 0 < final[t] /\ final[t] < seen[t]

TasksInductive ==
  /\ TypeOK /\ RunsByStage /\ Numbers /\ OnePlace /\ SomePlace /\ Capacity
  /\ InOrder /\ Overtaken /\ WaiterWoken
=============================================================================
