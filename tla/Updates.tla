------------------------------ MODULE Updates ------------------------------
(***************************************************************************)
(* What a conversation does with the tasks that ended: the director, which *)
(* has a policy decide on each (conversation/updates.py), and the executor *)
(* that speaks the decisions between the user's turns                      *)
(* (conversation/actions.py), with the operation limit all speech shares   *)
(* (evidence/admission.py) and who holds the floor                         *)
(* (conversation/streaming.py).                                            *)
(*                                                                         *)
(* A decision is to retain an update, to mention it, or to interrupt with  *)
(* it.  Mentions wait for a turn of the user's, which takes some into its  *)
(* prompt, or for an idle floor, where one operation speaks them one by    *)
(* one.  An interrupt is an operation of its own and takes the floor; it   *)
(* takes the idle operation's reservation too.  Whoever works on an update *)
(* has a claim on it, which is settled once it was spoken and given back   *)
(* otherwise.                                                              *)
(*                                                                         *)
(* An update is named by its task.  Texts, identities, inference, playback *)
(* and what is heard are left out, and so are replays: an operation gets   *)
(* to the floor, says its first sentence or does not, and ends or loses    *)
(* the floor.                                                              *)
(***************************************************************************)
EXTENDS Naturals, FiniteSets, SequencesExt, Subsequence

CONSTANTS
  Tasks,          \* the tasks that end
  Turns,          \* the user's turns
  Idle,           \* the operation that speaks mentions on an idle floor
  NoOne,          \* no operation
  Kinds,          \* what the policy may decide, a subset of DecisionKinds
  Evidence,       \* whether evidence is recorded, a subset of BOOLEAN
  MaxDecisions,   \* capacity of the decision queue
  MaxMentions,    \* mention slots
  MaxInterrupts,  \* capacity of the interrupt queue
  MaxRetained,    \* capacity of the retained updates
  MaxAudit,       \* capacity of the audit records
  MaxPerTurn,     \* mentions a turn takes at most
  MaxOperations,  \* the shared operation limit
  MaxFaults       \* bound: policies, operations and timeouts that fail

DecisionKinds == {"retain", "mention", "interrupt"}

ASSUME UpdatesAssumption ==
  /\ {MaxDecisions, MaxMentions, MaxInterrupts, MaxRetained, MaxAudit,
      MaxPerTurn, MaxOperations} \subseteq Nat \ {0}
  /\ MaxFaults \in Nat
  /\ Kinds \subseteq DecisionKinds /\ Evidence \subseteq BOOLEAN
  /\ Tasks \intersect Turns = {}
  /\ Idle \notin Tasks \union Turns /\ NoOne \notin Tasks \union Turns \union {Idle}

Ops == Turns \union {Idle} \union Tasks   \* an interrupt is named by its task

VARIABLES
  evidence,    \* whether this conversation records evidence
  hand,        \* the update the director works on, and how far it is
  kind,        \* what the policy decided of a task
  decisions,   \* decisions the executor has not taken
  mentions,    \* mentions nobody has claimed
  interrupts,  \* interrupts nobody has claimed
  slots,       \* mention slots that are free
  claims,      \* updates with an active claim
  settled,     \* updates whose claim was settled
  unresolved,  \* updates the director could not publish
  director,    \* "open", "failed" or "closed"
  consumer,    \* the executor's loop over the decisions
  active,      \* the interrupt it started last
  pc,          \* where an operation is
  bearer,      \* the reservation of an operation
  mine,        \* the mentions an operation has claimed
  said,        \* operations that have said a sentence
  origins,     \* interrupts that took the idle operation's reservation
  floor,       \* the operation that speaks
  revision,    \* the operation that went for the floor last
  resumable,   \* interrupted speech is kept for a replay
  paused,      \* a provider is being prepared
  executor,    \* "open", "closing", "joined", "closed" or "stuck"
  failed,      \* the executor has failed and serves no turn
  faults       \* faults so far

dvars == <<hand, kind, unresolved, director>>
queues == <<decisions, mentions, interrupts, slots>>
owned == <<claims, settled>>
loop == <<consumer, active, failed>>
speech == <<floor, revision, resumable>>
ops == <<pc, bearer, mine, said, origins>>
rest == <<evidence, paused, executor>>
vars == <<dvars, queues, owned, loop, speech, ops, rest, faults>>

Running(o) == pc[o] \in {"ready", "entering", "speaking", "ending", "revoked"}

TypeOK ==
  /\ evidence \in BOOLEAN
  /\ hand.at \in {"waiting", "policy", "slot", "room", "over"}
  /\ hand.task \in Tasks \union {NoOne}
  /\ kind \in [Tasks -> DecisionKinds \union {"none"}]
  /\ decisions \in Seq(Tasks) /\ Len(decisions) <= MaxDecisions
  /\ mentions \in Seq(Tasks) /\ interrupts \in Seq(Tasks)
  /\ slots \in 0..MaxMentions
  /\ claims \subseteq Tasks /\ Cardinality(claims) <= MaxMentions + MaxInterrupts
  /\ settled \subseteq Tasks /\ unresolved \subseteq Tasks
  /\ director \in {"open", "failed", "closed"}
  /\ consumer.at \in {"next", "held", "replacing", "over"}
  /\ consumer.task \in Tasks \union {NoOne} /\ active \in Tasks \union {NoOne}
  /\ pc \in [Ops -> {"off", "reserved", "ready", "entering", "speaking",
                     "ending", "revoked", "done"}]
  /\ bearer \in [Ops -> {"none", "reserved", "consumed"}]
  /\ mine \in [Ops -> Seq(Tasks)] /\ said \subseteq Ops /\ origins \subseteq Tasks
  /\ floor \in Ops \union {NoOne} /\ revision \in Ops \union {NoOne}
  /\ resumable \in BOOLEAN /\ paused \in BOOLEAN /\ failed \in BOOLEAN
  /\ executor \in {"open", "closing", "joined", "closed", "stuck"}
  /\ faults \in 0..MaxFaults

Init ==
  /\ evidence \in Evidence
  /\ hand = [at |-> "waiting", task |-> NoOne]
  /\ kind = [t \in Tasks |-> "none"]
  /\ decisions = <<>> /\ mentions = <<>> /\ interrupts = <<>>
  /\ slots = MaxMentions
  /\ claims = {} /\ settled = {} /\ unresolved = {}
  /\ director = "open"
  /\ consumer = [at |-> "next", task |-> NoOne] /\ active = NoOne
  /\ pc = [o \in Ops |-> "off"] /\ bearer = [o \in Ops |-> "none"]
  /\ mine = [o \in Ops |-> <<>>] /\ said = {} /\ origins = {}
  /\ floor = NoOne /\ revision = NoOne /\ resumable = FALSE
  /\ paused = FALSE /\ executor = "open" /\ failed = FALSE /\ faults = 0

Fault == faults < MaxFaults /\ faults' = faults + 1

----------------------------------------------------------------------------
(* The director: one update at a time, in the order the tasks ended. *)

Receive(t) ==
  /\ director = "open" /\ hand.at = "waiting" /\ kind[t] = "none"
  /\ t \notin unresolved
  /\ hand' = [at |-> "policy", task |-> t]
  /\ UNCHANGED <<kind, unresolved, director, queues, owned, loop, speech, ops,
                 rest, faults>>

(* The consumer's handler: what it worked on is kept as unresolved.        *)
DirectorFails(t) ==
  /\ director' = "failed"
  /\ hand' = [at |-> "over", task |-> NoOne]
  /\ unresolved' = unresolved \union {t}

PolicyFails ==
  /\ hand.at = "policy" /\ Fault
  /\ DirectorFails(hand.task)
  /\ UNCHANGED <<kind, queues, owned, loop, speech, ops, rest>>

Published(k) == {t \in Tasks : kind[t] = k} \ (unresolved \union {hand.task})

(* _publish_reserved_decision's refusals.                                  *)
NoCapacity(k) ==
  \/ Cardinality(UNION {Published(j) : j \in DecisionKinds}) >= MaxAudit
  \/ k = "retain" /\ Cardinality(Published("retain")) >= MaxRetained
  \/ k = "interrupt" /\ Len(interrupts) >= MaxInterrupts

(* _publish_decision once a mention has its slot: wait for room, be        *)
(* refused and give the slot back, or be queued as a decision and for      *)
(* whoever acts on it, all at once.                                        *)
Publish(t, k, free) ==
  IF Len(decisions) >= MaxDecisions
    THEN /\ hand' = [at |-> "room", task |-> t] /\ slots' = free
         /\ UNCHANGED <<unresolved, director, decisions, mentions, interrupts>>
  ELSE IF NoCapacity(k)
    THEN /\ DirectorFails(t)
         /\ slots' = IF k = "mention" THEN free + 1 ELSE free
         /\ UNCHANGED <<decisions, mentions, interrupts>>
    ELSE /\ decisions' = Append(decisions, t) /\ slots' = free
         /\ mentions' = IF k = "mention" THEN Append(mentions, t) ELSE mentions
         /\ interrupts' = IF k = "interrupt" THEN Append(interrupts, t)
                                             ELSE interrupts
         /\ hand' = [at |-> "waiting", task |-> NoOne]
         /\ UNCHANGED <<unresolved, director>>

Decide(k) ==
  /\ hand.at = "policy"
  /\ kind' = [kind EXCEPT ![hand.task] = k]
  /\ IF k = "mention" /\ slots = 0
       THEN /\ hand' = [hand EXCEPT !.at = "slot"]
            /\ UNCHANGED <<unresolved, director, queues>>
       ELSE Publish(hand.task, k, IF k = "mention" THEN slots - 1 ELSE slots)
  /\ UNCHANGED <<owned, loop, speech, ops, rest, faults>>

GetSlot ==
  /\ hand.at = "slot" /\ slots > 0
  /\ Publish(hand.task, "mention", slots - 1)
  /\ UNCHANGED <<kind, owned, loop, speech, ops, rest, faults>>

GetRoom ==
  /\ hand.at = "room" /\ Len(decisions) < MaxDecisions
  /\ Publish(hand.task, kind[hand.task], slots)
  /\ UNCHANGED <<kind, owned, loop, speech, ops, rest, faults>>

----------------------------------------------------------------------------
(* What operations share. *)

Reserved(bs) == {o \in Ops : bs[o] # "none"}

(* ConversationOperationScheduler.try_reserve, where nothing is paused.    *)
MayReserve(bs) ==
  executor = "open" /\ Cardinality(Reserved(bs)) < MaxOperations

(* _start_idle_mention_drain, given what the caller leaves behind: one     *)
(* idle operation, when there are mentions and nobody speaks.              *)
WithDrain(pcs, bs, waiting, on) ==
  IF /\ executor = "open" /\ on = NoOne /\ waiting # <<>> /\ pcs[Idle] = "off"
     /\ MayReserve(bs)
    THEN /\ pc' = [pcs EXCEPT ![Idle] = "ready"]
         /\ bearer' = [bs EXCEPT ![Idle] = "reserved"]
    ELSE pc' = pcs /\ bearer' = bs

(* _revoke_active_locked: the operation on the floor loses it, and ends.   *)
Revoked(pcs) ==
  IF floor = NoOne THEN pcs ELSE [pcs EXCEPT ![floor] = "revoked"]

ClaimsLeft == MaxMentions + MaxInterrupts - Cardinality(claims)

----------------------------------------------------------------------------
(* The executor's loop over the decisions *)

ConsumerEnds ==
  /\ consumer' = [at |-> "over", task |-> NoOne]
  /\ failed' = (failed \/ executor = "open")

(* _start_interrupt_operation for t, whose claim is among all.  The idle   *)
(* operation's reservation is taken over, which fails once the executor    *)
(* closes or the reservation was consumed; without one a new one is made,  *)
(* or the interrupt is given up.                                           *)
StartInterrupt(t, all) ==
  LET from == IF Running(Idle) /\ bearer[Idle] # "none" THEN {Idle} ELSE {}
      mayTake == executor = "open" /\ bearer[Idle] = "reserved"
      started == IF from # {} THEN mayTake ELSE MayReserve(bearer)
  IN
  /\ UNCHANGED <<mentions, speech, mine, said, rest, faults>>
  /\ \/ /\ started
        /\ pc' = [pc EXCEPT ![t] = "ready"]
        /\ bearer' = [o \in Ops |-> IF o = t THEN "reserved"
                                    ELSE IF o \in from THEN "none" ELSE bearer[o]]
        /\ origins' = IF from = {} THEN origins ELSE origins \union {t}
        /\ claims' = all
        /\ IF active # NoOne /\ Running(active)
             THEN /\ consumer' = [at |-> "replacing", task |-> t]
                  /\ UNCHANGED active
             ELSE /\ consumer' = [at |-> "next", task |-> NoOne]
                  /\ active' = t
        /\ UNCHANGED <<failed, settled>>
     \/ /\ ~started /\ from = {}
        /\ claims' = all \ {t} /\ settled' = settled \union {t}
        /\ consumer' = [at |-> "next", task |-> NoOne]
        /\ UNCHANGED <<active, failed, ops>>
     \/ /\ ~started /\ from # {}
        /\ claims' = all /\ ConsumerEnds
        /\ UNCHANGED <<active, settled, ops>>

(* The body of _consume_decisions for one decision.                        *)
Act(t, all) ==
  IF kind[t] = "interrupt" THEN StartInterrupt(t, all)
  ELSE /\ consumer' = [at |-> "next", task |-> NoOne]
       /\ IF kind[t] = "mention" THEN WithDrain(pc, bearer, mentions, floor)
                                 ELSE UNCHANGED <<pc, bearer>>
       /\ UNCHANGED <<mentions, owned, active, failed, speech, mine, said,
                      origins, rest, faults>>

(* _next_execution: an interrupt leaves both queues under a claim.  While  *)
(* a provider is being prepared the decision is held.                      *)
TakeDecision ==
  /\ consumer.at = "next" /\ decisions # <<>>
  /\ kind[Head(decisions)] = "interrupt" => ClaimsLeft > 0
  /\ decisions' = Tail(decisions)
  /\ UNCHANGED <<dvars, slots>>
  /\ LET t   == Head(decisions)
         all == IF kind[t] = "interrupt" THEN claims \union {t} ELSE claims
     IN /\ interrupts' = IF kind[t] = "interrupt" THEN Tail(interrupts)
                                                  ELSE interrupts
        /\ IF paused
             THEN /\ consumer' = [at |-> "held", task |-> t] /\ claims' = all
                  /\ UNCHANGED <<mentions, settled, active, failed, speech, ops,
                                 rest, faults>>
             ELSE Act(t, all)

ActOnHeld ==
  /\ consumer.at = "held" /\ ~paused
  /\ Act(consumer.task, claims)
  /\ UNCHANGED <<dvars, decisions, interrupts, slots>>

(* The loop ends with the director's failure once the decisions are taken, *)
(* and when there are more claims than there may be.                       *)
NoDecision ==
  /\ consumer.at = "next"
  /\ IF decisions = <<>> THEN director = "failed"
     ELSE kind[Head(decisions)] = "interrupt" /\ ClaimsLeft = 0
  /\ ConsumerEnds
  /\ UNCHANGED <<dvars, queues, owned, active, speech, ops, rest, faults>>

(* The interrupt that is replaced has settled, or does not in time.        *)
Replaced ==
  /\ consumer.at = "replacing" /\ ~Running(active)
  /\ active' = consumer.task
  /\ consumer' = [at |-> "next", task |-> NoOne]
  /\ UNCHANGED <<dvars, queues, owned, failed, speech, ops, rest, faults>>

ReplaceTimesOut ==
  /\ consumer.at = "replacing" /\ Running(active) /\ Fault
  /\ ConsumerEnds
  /\ UNCHANGED <<dvars, queues, owned, active, speech, ops, rest>>

----------------------------------------------------------------------------
(* Operations *)

(* reserve_response, and release_response by a caller that gives up.       *)
Reserve(u) ==
  /\ pc[u] = "off" /\ ~failed /\ ~paused /\ MayReserve(bearer)
  /\ pc' = [pc EXCEPT ![u] = "reserved"]
  /\ bearer' = [bearer EXCEPT ![u] = "reserved"]
  /\ UNCHANGED <<dvars, queues, owned, loop, speech, mine, said, origins, rest,
                 faults>>

Release(u) ==
  /\ pc[u] = "reserved" /\ executor = "open"
  /\ pc' = [pc EXCEPT ![u] = "off"] /\ bearer' = [bearer EXCEPT ![u] = "none"]
  /\ UNCHANGED <<dvars, queues, owned, loop, speech, mine, said, origins, rest,
                 faults>>

Respond(u) ==
  /\ pc[u] = "reserved" /\ executor = "open" /\ ~failed
  /\ pc' = [pc EXCEPT ![u] = "ready"]
  /\ UNCHANGED <<dvars, queues, owned, loop, speech, bearer, mine, said, origins,
                 rest, faults>>

(* _run_turn up to its first wait: the operation is the last that went for *)
(* the floor, and whoever has it loses it.                                 *)
GoForFloor(o) ==
  /\ pc' = [Revoked(pc) EXCEPT ![o] = "entering"]
  /\ floor' = NoOne /\ revision' = o /\ UNCHANGED resumable

(* _execute_response: the turn claims the oldest mentions for its prompt.  *)
StartTurn(u) ==
  LET n == CHOOSE m \in 0..Len(mentions) :
             /\ m <= MaxPerTurn /\ m <= ClaimsLeft
             /\ \/ m = Len(mentions) \/ m = MaxPerTurn \/ m = ClaimsLeft
      taken == SubSeq(mentions, 1, n)
  IN
  /\ pc[u] = "ready"
  /\ mine' = [mine EXCEPT ![u] = taken]
  /\ mentions' = SubSeq(mentions, n + 1, Len(mentions))
  /\ claims' = claims \union ToSet(taken)
  /\ GoForFloor(u)
  /\ UNCHANGED <<dvars, decisions, interrupts, slots, settled, loop, bearer, said,
                 origins, rest, faults>>

(* _admit_proactive_evidence: a turn that is recorded consumes its         *)
(* reservation; one the evidence does not admit is spoken unrecorded.      *)
WithEvidence(o) ==
  bearer' \in IF evidence THEN {[bearer EXCEPT ![o] = "consumed"], bearer}
                          ELSE {bearer}

(* _execute_interrupt; with evidence it needs the reservation, which the   *)
(* executor's close has taken away.                                        *)
StartSpeaking(t) ==
  /\ pc[t] = "ready" /\ (evidence => executor = "open")
  /\ WithEvidence(t)
  /\ GoForFloor(t)
  /\ UNCHANGED <<dvars, queues, owned, loop, mine, said, origins, rest, faults>>

Priority == \E o \in Turns \union Tasks :
              pc[o] \in {"entering", "speaking", "ending", "revoked"}

(* _drain_idle_mentions and _execute_idle_mention: the oldest mention is   *)
(* claimed unless somebody speaks or is about to, speech waits for a       *)
(* replay, or the reservation is gone or was consumed; then the operation  *)
(* ends, and leaves the mentions where they are.                           *)
NextIdle ==
  LET may == /\ executor = "open" /\ floor = NoOne /\ mentions # <<>>
             /\ ClaimsLeft > 0
             /\ IF evidence THEN bearer[Idle] = "reserved" ELSE bearer[Idle] # "none"
             /\ ~Priority /\ ~resumable
  IN
  /\ pc[Idle] = "ready"
  /\ IF may
       THEN /\ mine' = [mine EXCEPT ![Idle] = <<Head(mentions)>>]
            /\ mentions' = Tail(mentions)
            /\ claims' = claims \union {Head(mentions)}
            /\ WithEvidence(Idle)
            /\ GoForFloor(Idle) /\ UNCHANGED origins
       ELSE /\ pc' = [pc EXCEPT ![Idle] = "off"]
            /\ bearer' = [bearer EXCEPT ![Idle] = "none"] /\ origins' = {}
            /\ UNCHANGED <<mine, mentions, claims, speech>>
  /\ UNCHANGED <<dvars, decisions, interrupts, slots, settled, loop, said, rest,
                 faults>>

(* The rest of _run_turn: the floor, unless another went for it since.     *)
Enter(o) ==
  /\ pc[o] = "entering" /\ revision = o
  /\ pc' = [pc EXCEPT ![o] = "speaking"]
  /\ floor' = o /\ resumable' = FALSE
  /\ UNCHANGED <<dvars, queues, owned, loop, revision, bearer, mine, said, origins,
                 rest, faults>>

(* The evidence refuses to open the recorded turn of an interrupt or of a  *)
(* mention: it ends unspoken, and without an error.                        *)
OpeningRefused(o) ==
  /\ pc[o] = "entering" /\ revision = o /\ bearer[o] = "consumed"
  /\ pc' = [pc EXCEPT ![o] = "ending"]
  /\ UNCHANGED <<dvars, queues, owned, loop, speech, bearer, mine, said, origins,
                 rest, faults>>

(* A plausible bug: an operation that came too late ends at once, and with *)
(* it the knowledge of what it had claimed.                                *)
SupersededForgets(o) ==
  /\ pc[o] = "entering" /\ revision # o
  /\ pc' = [pc EXCEPT ![o] = IF o = Idle THEN "off" ELSE "done"]
  /\ bearer' = [bearer EXCEPT ![o] = "none"] /\ mine' = [mine EXCEPT ![o] = <<>>]
  /\ UNCHANGED <<dvars, queues, owned, loop, speech, said, origins, rest, faults>>

Superseded(o) ==
  /\ pc[o] = "entering" /\ revision # o
  /\ pc' = [pc EXCEPT ![o] = "revoked"]
  /\ UNCHANGED <<dvars, queues, owned, loop, speech, bearer, mine, said, origins,
                 rest, faults>>

Say(o) ==
  /\ pc[o] = "speaking" /\ o \notin said
  /\ said' = said \union {o}
  /\ UNCHANGED <<dvars, queues, owned, loop, speech, pc, bearer, mine, origins,
                 rest, faults>>

SpeechEnds(o) ==
  /\ pc[o] = "speaking"
  /\ pc' = [pc EXCEPT ![o] = "ending"] /\ floor' = NoOne
  /\ UNCHANGED <<dvars, queues, owned, loop, revision, resumable, bearer, mine,
                 said, origins, rest, faults>>

(* Inference, synthesis or playback fails, or the task cannot be opened.   *)
OperationFails(o) ==
  /\ Running(o) /\ pc[o] \notin {"ending", "revoked"} /\ Fault
  /\ pc' = [pc EXCEPT ![o] = "revoked"]
  /\ floor' = IF floor = o THEN NoOne ELSE floor
  /\ revision' = IF floor = o THEN NoOne ELSE revision
  /\ UNCHANGED <<dvars, queues, owned, loop, resumable, bearer, mine, said,
                 origins, rest>>

(* What becomes of the mentions an operation claimed: they are settled if  *)
(* it said a sentence, or return to the front of the queue.                *)
MentionsEnd(o) ==
  /\ claims' = claims \ ToSet(mine[o])
  /\ mine' = [mine EXCEPT ![o] = <<>>]
  /\ said' = said \ {o}
  /\ IF o \in said
       THEN /\ settled' = settled \union ToSet(mine[o])
            /\ slots' = slots + Len(mine[o]) /\ UNCHANGED mentions
       ELSE mentions' = mine[o] \o mentions /\ UNCHANGED <<settled, slots>>

Ended(o) == pc[o] \in {"ending", "revoked"}

(* _finish_mentions and _operation_done of a response.                     *)
FinishTurn(u) ==
  LET pcs == [pc EXCEPT ![u] = "done"]
      bs  == [bearer EXCEPT ![u] = "none"]
  IN
  /\ Ended(u) /\ MentionsEnd(u)
  /\ IF pc[u] = "ending" THEN WithDrain(pcs, bs, mentions', floor)
                         ELSE pc' = pcs /\ bearer' = bs
  /\ UNCHANGED <<dvars, decisions, interrupts, loop, speech, origins, rest, faults>>

(* A plausible bug: an interrupt that was not heard keeps its claim.       *)
FinishInterruptSaid(t) ==
  LET heard == {t} \intersect said IN
  /\ Ended(t)
  /\ claims' = claims \ heard /\ settled' = settled \union heard
  /\ said' = said \ {t} /\ origins' = origins \ {t}
  /\ WithDrain([pc EXCEPT ![t] = "done"], [bearer EXCEPT ![t] = "none"],
               mentions, floor)
  /\ UNCHANGED <<dvars, queues, loop, speech, mine, rest, faults>>

(* A plausible bug: the reservation goes back whether or not the idle      *)
(* operation still runs.                                                   *)
FinishInterruptRestores(t) ==
  LET back == pc[t] = "revoked" /\ executor = "open" /\ bearer[Idle] = "none" IN
  /\ Ended(t)
  /\ claims' = claims \ {t} /\ settled' = settled \union {t}
  /\ said' = said \ {t} /\ origins' = origins \ {t}
  /\ pc' = [pc EXCEPT ![t] = "done"]
  /\ bearer' = [bearer EXCEPT ![t] = "none",
                              ![Idle] = IF back THEN "reserved" ELSE @]
  /\ UNCHANGED <<dvars, queues, loop, speech, mine, rest, faults>>

(* The same of an interrupt: its claim is settled however it ended, and a  *)
(* reservation it took over goes back if the idle operation still runs.    *)
FinishInterrupt(t) ==
  LET back == /\ pc[t] = "revoked" /\ t \in origins /\ Running(Idle)
              /\ executor = "open" /\ bearer[t] = "reserved"
      pcs == [pc EXCEPT ![t] = "done"]
      bs  == [bearer EXCEPT ![t] = "none", ![Idle] = IF back THEN "reserved" ELSE @]
  IN
  /\ Ended(t)
  /\ claims' = claims \ {t} /\ settled' = settled \union {t}
  /\ said' = said \ {t} /\ origins' = origins \ {t}
  /\ IF pc[t] = "ending" THEN WithDrain(pcs, bs, mentions, floor)
                         ELSE pc' = pcs /\ bearer' = bs
  /\ UNCHANGED <<dvars, queues, loop, speech, mine, rest, faults>>

(* The same of an idle mention: after one that was spoken, the next.       *)
FinishIdle ==
  LET goesOn == pc[Idle] = "ending" /\ Idle \in said IN
  /\ Ended(Idle) /\ MentionsEnd(Idle)
  /\ pc' = [pc EXCEPT ![Idle] = IF goesOn THEN "ready" ELSE "off"]
  /\ bearer' = IF goesOn THEN bearer ELSE [bearer EXCEPT ![Idle] = "none"]
  /\ origins' = IF goesOn THEN origins ELSE {}
  /\ UNCHANGED <<dvars, decisions, interrupts, loop, speech, rest, faults>>

----------------------------------------------------------------------------
(* The user interrupts, a provider is prepared, the conversation closes. *)

(* cancel_foreground: whoever goes for the floor is too late even when     *)
(* nobody speaks; what a turn had left to say may be kept.                 *)
CancelForeground ==
  /\ executor = "open" /\ ~failed
  /\ pc' = Revoked(pc) /\ floor' = NoOne /\ revision' = NoOne
  /\ resumable' \in IF floor \in {NoOne, Idle} THEN {resumable} ELSE BOOLEAN
  /\ UNCHANGED <<dvars, queues, owned, loop, bearer, mine, said, origins, rest,
                 faults>>

(* quiescent(): nothing runs and nothing is reserved.                      *)
Pause ==
  /\ ~paused /\ executor = "open" /\ Reserved(bearer) = {}
  /\ \A o \in Ops : ~Running(o)
  /\ paused' = TRUE
  /\ UNCHANGED <<dvars, queues, owned, loop, speech, ops, evidence, executor,
                 faults>>

Unpause ==
  /\ paused /\ paused' = FALSE
  /\ WithDrain(pc, bearer, mentions, floor)
  /\ UNCHANGED <<dvars, queues, owned, loop, speech, mine, said, origins,
                 evidence, executor, faults>>

(* _close_owned up to its first wait: the scheduler is closed and whoever  *)
(* speaks loses the floor.                                                 *)
BeginClose ==
  /\ executor = "open" /\ executor' = "closing"
  /\ pc' = Revoked(pc) /\ floor' = NoOne /\ revision' = NoOne
  /\ resumable' = FALSE
  /\ UNCHANGED <<dvars, queues, owned, loop, bearer, mine, said, origins,
                 evidence, paused, faults>>

(* Then the loop is cancelled and joined, and the operations.              *)
CancelOperations ==
  /\ executor = "closing" /\ executor' = "joined"
  /\ consumer' = [at |-> "over", task |-> NoOne]
  /\ pc' = [o \in Ops |-> IF Running(o) THEN "revoked" ELSE pc[o]]
  /\ floor' = NoOne /\ revision' = NoOne
  /\ UNCHANGED <<dvars, queues, owned, active, failed, resumable, bearer, mine,
                 said, origins, evidence, paused, faults>>

(* A plausible bug: the update that is given up keeps its slot.            *)
CloseDirectorKeepsSlot ==
  /\ executor = "joined" /\ \A o \in Ops : ~Running(o)
  /\ executor' = IF claims = {} THEN "closed" ELSE "stuck"
  /\ director' = IF director = "open" THEN "closed" ELSE director
  /\ hand' = [at |-> "over", task |-> NoOne]
  /\ unresolved' = unresolved \union ({hand.task} \ {NoOne})
  /\ UNCHANGED <<kind, queues, owned, loop, speech, ops, evidence, paused, faults>>

(* ConversationUpdateDirector._close_owned: what the director worked on is *)
(* unresolved, a reserved slot is given back, and a claim that is still    *)
(* active makes this close fail, and every later one.                      *)
CloseDirector ==
  /\ executor = "joined" /\ \A o \in Ops : ~Running(o)
  /\ executor' = IF claims = {} THEN "closed" ELSE "stuck"
  /\ director' = IF director = "open" THEN "closed" ELSE director
  /\ hand' = [at |-> "over", task |-> NoOne]
  /\ unresolved' = unresolved \union ({hand.task} \ {NoOne})
  /\ slots' = IF hand.at = "room" /\ kind[hand.task] = "mention" THEN slots + 1
                                                               ELSE slots
  /\ UNCHANGED <<kind, decisions, mentions, interrupts, owned, loop, speech, ops,
                 evidence, paused, faults>>

----------------------------------------------------------------------------
Directing ==
  \/ \E t \in Tasks : Receive(t)
  \/ \E k \in Kinds : Decide(k)
  \/ PolicyFails \/ GetSlot \/ GetRoom

Consuming == TakeDecision \/ ActOnHeld \/ NoDecision \/ Replaced

(* What an operation does by itself, once it is there.                     *)
Operating(o) ==
  \/ o \in Turns /\ (StartTurn(o) \/ FinishTurn(o))
  \/ o \in Tasks /\ (StartSpeaking(o) \/ FinishInterrupt(o))
  \/ o = Idle /\ (NextIdle \/ FinishIdle)
  \/ Enter(o) \/ Superseded(o) \/ SpeechEnds(o)

Next ==
  \/ Directing \/ Consuming \/ ReplaceTimesOut
  \/ \E u \in Turns : Reserve(u) \/ Release(u) \/ Respond(u)
  \/ \E o \in Ops : Operating(o) \/ Say(o) \/ OpeningRefused(o) \/ OperationFails(o)
  \/ CancelForeground \/ Pause \/ Unpause
  \/ BeginClose \/ CancelOperations \/ CloseDirector

Spec == Init /\ [][Next]_vars

(* The loop and the operations take the steps that are due, speech comes   *)
(* to an end, and so does the preparation of a provider; the loop, woken   *)
(* by that end, is not kept out by one preparation after the other.        *)
FairSpec ==
  /\ Spec
  /\ WF_vars(TakeDecision \/ Replaced) /\ SF_vars(ActOnHeld)
  /\ WF_vars(Unpause)
  /\ \A o \in Ops : WF_vars(Operating(o))

----------------------------------------------------------------------------
(* Properties *)

(* Each mention slot is free, reserved by the director, or belongs to one  *)
(* mention that waits or is claimed: slots neither leak, which would stop  *)
(* the director for good, nor multiply, whoever fails or closes when.      *)
SlotsConserved ==
  /\ TypeOK
  /\ MaxMentions =
       slots + Len(mentions)
         + Cardinality({t \in claims : kind[t] = "mention"})
         + (IF hand.at = "room" /\ kind[hand.task] = "mention" THEN 1 ELSE 0)

Holder(t, o) == IF kind[t] = "interrupt" THEN o = t /\ Running(o)
                                         ELSE t \in ToSet(mine[o])

(* While the executor serves, no update is lost or acted on twice: a       *)
(* mention or an interrupt that was published waits in its queue, or is    *)
(* claimed by one operation or by the loop, or was settled; and interrupts *)
(* wait in the order they will be taken.                                   *)
UpdateKept ==
  executor = "open" /\ ~failed =>
    /\ interrupts = Sift(decisions, {t \in Tasks : kind[t] = "interrupt"})
    /\ \A t \in Published("mention") \union Published("interrupt") :
         Cardinality({i \in DOMAIN mentions : mentions[i] = t})
           + Cardinality({i \in DOMAIN interrupts : interrupts[i] = t})
           + Cardinality({o \in Ops : t \in claims /\ Holder(t, o)})
           + (IF consumer = [at |-> "held", task |-> t] /\ kind[t] = "interrupt"
                THEN 1 ELSE 0)
           + (IF t \in settled THEN 1 ELSE 0) = 1

(* A reservation ends with its operation: none is left behind by one that  *)
(* is over, nor given to one, so the limit cannot fill up with nobody      *)
(* speaking; and all but an idle operation that was displaced have one.    *)
BearersOwned ==
  executor = "open" =>
    /\ Cardinality(Reserved(bearer)) <= MaxOperations
    /\ \A o \in Ops :
         /\ bearer[o] # "none" => pc[o] \notin {"off", "done"}
         /\ pc[o] \notin {"off", "done"} /\ o # Idle => bearer[o] # "none"

(* An interrupt that was decided is acted on to its end, whatever it has   *)
(* to replace, unless the executor fails or is closed.                     *)
InterruptSettles ==
  \A t \in Tasks :
    t \in ToSet(interrupts) ~> (t \in settled \/ failed \/ executor # "open")

(* An interrupt decided while an idle mention is under way takes it over:  *)
(* the loop never ends with the claim of an interrupt that nobody speaks.  *)
InterruptTakesOver ==
  executor = "open" =>
    \A t \in claims : kind[t] = "interrupt" =>
      consumer = [at |-> "held", task |-> t] \/ Running(t)
============================================================================
