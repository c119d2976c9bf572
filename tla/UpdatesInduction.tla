-------------------------- MODULE UpdatesInduction --------------------------
(***************************************************************************)
(* The inductive invariant of Updates: what the director has in hand, which *)
(* queue or claim an update published is in, which stage an operation may  *)
(* be at with it, and who bears a reservation.                             *)
(***************************************************************************)
EXTENDS Updates

(* The values the variables take, with the whole of the records.           *)
Types ==
  /\ TypeOK /\ IsFiniteSet(claims)
  /\ hand \in [at : {"waiting", "policy", "slot", "room", "over"}, task : Tasks \union {NoOne}]
  /\ consumer \in [at : {"next", "held", "replacing", "over"}, task : Tasks \union {NoOne}]

(* What the director works on is nowhere else yet.                         *)
HandHeld ==
  /\ hand.task \in Tasks <=> hand.at \in {"policy", "slot", "room"}
  /\ hand.task \notin unresolved
  /\ hand.at = "policy" => kind[hand.task] = "none"
  /\ hand.at = "slot" => kind[hand.task] = "mention"
  /\ hand.at = "room" => kind[hand.task] # "none"

Mentions   == Published("mention")
Interrupts == Published("interrupt")

(* The queues hold updates that were published, each once; a mention that  *)
(* waits has no claim.                                                     *)
QueuesHeld ==
  /\ IsInjective(decisions) /\ IsInjective(mentions)
  /\ ToSet(decisions) \subseteq Published("retain") \union Mentions \union Interrupts
  /\ ToSet(mentions) \subseteq Mentions \ (claims \union settled)
  /\ interrupts = Sift(decisions, {t \in Tasks : kind[t] = "interrupt"})

(* A claim is on something published, and not settled; a mention's is one  *)
(* operation's, which is past its start.                                   *)
ClaimsHeld ==
  /\ claims \union settled \subseteq Mentions \union Interrupts
  /\ claims \intersect settled = {}
  /\ \A o \in Ops :
       /\ IsInjective(mine[o]) /\ ToSet(mine[o]) \subseteq Mentions \intersect claims
       /\ mine[o] # <<>> => /\ o \notin Tasks
                            /\ pc[o] \in {"entering", "speaking", "ending", "revoked"}
  /\ \A o, p \in Ops : o # p => ToSet(mine[o]) \intersect ToSet(mine[p]) = {}
  /\ \A t \in Mentions \intersect claims : \E o \in Ops : t \in ToSet(mine[o])
  /\ Mentions \subseteq ToSet(mentions) \union claims \union settled

Held(t) == consumer = [at |-> "held", task |-> t]

(* An interrupt is in the queue, held by the loop, under way, or over; it  *)
(* has its claim from the queue to its end.                                *)
InterruptsHeld ==
  /\ \A t \in Tasks :
       /\ pc[t] # "off" => t \in Interrupts \ ToSet(decisions)
       /\ pc[t] # "off" => IF pc[t] = "done" THEN t \in settled ELSE Running(t) /\ t \in claims
       /\ t \in Interrupts \intersect ToSet(decisions) => t \notin claims \union settled
       /\ Held(t) => /\ t \in Published("retain") \union Mentions \union Interrupts
                     /\ t \notin ToSet(decisions)
       /\ Held(t) /\ kind[t] = "interrupt" => t \in claims /\ pc[t] = "off"
  /\ consumer.at = "held" => consumer.task \in Tasks
  /\ consumer.at = "replacing" => consumer.task \in Tasks /\ active \in Tasks
  /\ executor = "open" /\ ~failed =>
       \A t \in Interrupts :
         t \in ToSet(decisions) \/ t \in settled \/ Running(t) \/ Held(t)

SlotsHeld ==
  MaxMentions =
    slots + Len(mentions) + Cardinality({t \in claims : kind[t] = "mention"})
      + (IF hand.at = "room" /\ kind[hand.task] = "mention" THEN 1 ELSE 0)

(* Whoever is under way has a reservation, and who is not has none.        *)
Bears(pcs, bs) ==
  /\ IsFiniteSet(Reserved(bs)) /\ Cardinality(Reserved(bs)) <= MaxOperations
  /\ \A o \in Ops :
       /\ bs[o] # "none" => pcs[o] \notin {"off", "done"}
       /\ pcs[o] \notin {"off", "done"} /\ o # Idle => bs[o] # "none"

BearersHeld == Bears(pc, bearer) /\ (floor # NoOne => pc[floor] = "speaking")

UpdatesInductive ==
  /\ Types /\ HandHeld /\ QueuesHeld /\ ClaimsHeld /\ InterruptsHeld /\ SlotsHeld /\ BearersHeld
=============================================================================
