-------------------------- MODULE DispatchPromise --------------------------
(***************************************************************************)
(* What the Hermes task session promises of the work it dispatches, over   *)
(* lost answers, failed writes, crashes and restarts: a dispatch's work    *)
(* begins at most once, only when the host has kept a durable note of it,  *)
(* and the note of work that is going is dropped only by a restart that    *)
(* then owes the report that it does not know what became of it.  Nothing  *)
(* but a kill before the report takes that debt away.                      *)
(***************************************************************************)
EXTENDS Naturals

CONSTANT Dispatches

VARIABLES
  kept,      \* dispatches durably noted
  owed,      \* dispatches whose note was dropped and whose report is due
  reported,  \* dispatches reported as of unknown outcome
  forgotten, \* dispatches whose report was due at a kill
  starts,    \* how often the work of each was started
  over       \* dispatches whose work was started and has ended

vars == <<kept, owed, reported, forgotten, starts, over>>

Going(d) == starts[d] > 0 /\ d \notin over

Init ==
  /\ kept = {} /\ owed = {} /\ reported = {} /\ forgotten = {} /\ over = {}
  /\ starts = [d \in Dispatches |-> 0]

(* The note is replaced; what it drops is not going, or its report is due. *)
Note ==
  /\ owed = {}
  /\ kept' \subseteq Dispatches /\ owed' \subseteq kept
  /\ \A d \in kept \ kept' : Going(d) => d \in owed'
  /\ UNCHANGED <<reported, forgotten, starts, over>>

Report ==
  /\ reported' = reported \union owed /\ owed' = {}
  /\ UNCHANGED <<kept, forgotten, starts, over>>

Kill ==
  /\ forgotten' = forgotten \union owed /\ owed' = {}
  /\ UNCHANGED <<kept, reported, starts, over>>

(* A call may arrive after the host gave up the note of it.                *)
Begin(d) ==
  /\ starts[d] = 0
  /\ d \in kept \union owed \union reported \union forgotten
  /\ starts' = [starts EXCEPT ![d] = 1]
  /\ UNCHANGED <<kept, owed, reported, forgotten, over>>

Finish(d) ==
  /\ Going(d)
  /\ over' = over \union {d}
  /\ UNCHANGED <<kept, owed, reported, forgotten, starts>>

Next == Note \/ Report \/ Kill \/ \E d \in Dispatches : Begin(d) \/ Finish(d)

Spec == Init /\ [][Next]_vars
=============================================================================
