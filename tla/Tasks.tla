------------------------------- MODULE Tasks -------------------------------
(***************************************************************************)
(* The background tasks of a conversation, from the voice side             *)
(* (conversation/tasks.py) and the front of the Hermes session it shares   *)
(* them with (integration/api.py).                                         *)
(*                                                                         *)
(* The session numbers what it says of a task: the acknowledgment of the   *)
(* dispatch, of each cancel, and the task's terminal.  Acknowledgments are *)
(* returned to the operation that asked; terminals go through a queue of   *)
(* updates read by one loop.  The controller therefore sees the three in   *)
(* any order, refuses what is older than what it has seen of the task, and *)
(* after its first refusal ("fault") serves no new request.  What ended is *)
(* handed, in order, to one reader: the update director.                   *)
(*                                                                         *)
(* Identities, texts and statuses of the events are left out: a task has   *)
(* one run and the run one terminal.  A run is dispatched and settled by   *)
(* HermesRuns; here it is live, over or stuck.                             *)
(***************************************************************************)
EXTENDS Naturals, FiniteSets, SequencesExt, Subsequence

CONSTANTS
  Tasks,          \* the tasks the conversation starts
  MaxActive,      \* max_active_tasks of the context store
  MaxTerminals,   \* max_terminal_updates of the controller
  MaxOperations,  \* max_protocol_operations of the controller
  MaxUpdates,     \* capacity of the session's update queue
  Broken,         \* in that queue: the failure of an event stream
  Fault           \* in the controller's queue: the failure it ends with

ASSUME TasksAssumption ==
  /\ {MaxActive, MaxTerminals, MaxOperations, MaxUpdates} \subseteq Nat \ {0}
  /\ MaxActive <= MaxUpdates    \* 8 (context.py) and 32 (api.py), which no caller changes
  /\ Broken \notin Tasks /\ Fault \notin Tasks

VARIABLES
  runs,      \* the session's run of a task: "none", "live", "over", "stuck"
  clock,     \* the number the session gave last to an event of the task
  final,     \* the number of the task's terminal, 0 before it
  updates,   \* the session's queue of terminals
  stage,     \* the dispatch of a task, as the controller sees it
  answer,    \* what the session answered: accepted, and its number
  early,     \* a terminal came before the acknowledgment of the dispatch
  stop,      \* the cancel operation of a task
  seen,      \* the highest number the controller has seen of a task
  ended,     \* the tasks settled, in order
  queue,     \* the controller's queue for the reader
  fault,     \* why the controller serves no new request
  loop,      \* the loop that reads the session's updates
  closed,    \* close() has begun
  reader,    \* the caller of next_completion
  told,      \* the tasks the reader was told of, in order
  asked      \* protocol operations used (_sequence)

session == <<runs, clock, final, updates>>
control == <<stage, answer, early, stop, seen, ended, queue, fault, loop,
             closed, asked>>
vars == <<session, control, reader, told>>

Waiting == {"posted", "answered", "lost"}   \* keys of _pending_dispatches
Faults  == {"none", "broken", "stale", "contradicted", "full", "closed"}

TypeOK ==
  /\ runs \in [Tasks -> {"none", "live", "over", "stuck"}]
  /\ clock \in [Tasks -> Nat] /\ final \in [Tasks -> Nat]
  /\ updates \in Seq(Tasks \union {Broken}) /\ Len(updates) <= MaxUpdates
  /\ stage \in [Tasks -> {"new", "active", "ended", "refused"} \union Waiting]
  /\ answer \in [Tasks -> [accepted : BOOLEAN, number : Nat]]
  /\ early \in [Tasks -> BOOLEAN]
  /\ stop \in [Tasks -> {"none", "asked", "posted", "accepted", "broken"}]
  /\ seen \in [Tasks -> Nat]
  /\ ended \in Seq(Tasks) /\ told \in Seq(Tasks)
  /\ queue \in Seq(Tasks \union {Fault}) /\ Len(queue) <= MaxTerminals
  /\ fault \in Faults
  /\ loop \in {"none", "running", "over"} /\ closed \in BOOLEAN
  /\ reader \in {"idle", "waiting", "failed"}
  /\ asked \in 0..MaxOperations

Init ==
  /\ runs = [t \in Tasks |-> "none"]
  /\ clock = [t \in Tasks |-> 0] /\ final = [t \in Tasks |-> 0]
  /\ updates = <<>>
  /\ stage = [t \in Tasks |-> "new"]
  /\ answer = [t \in Tasks |-> [accepted |-> FALSE, number |-> 0]]
  /\ early = [t \in Tasks |-> FALSE]
  /\ stop = [t \in Tasks |-> "none"]
  /\ seen = [t \in Tasks |-> 0]
  /\ ended = <<>> /\ queue = <<>> /\ told = <<>>
  /\ fault = "none" /\ loop = "none" /\ closed = FALSE
  /\ reader = "idle" /\ asked = 0

----------------------------------------------------------------------------
(* What the operations share. *)

(* A plausible bug: the failure is only remembered, and the reader that    *)
(* already waits is not woken.                                             *)
FailSilently(kind, q) ==
  /\ fault' = IF fault = "none" THEN kind ELSE fault
  /\ queue' = q

(* A plausible bug: the failure takes the place of the terminals nobody    *)
(* has read.                                                               *)
FailAhead(kind, q) ==
  /\ fault' = IF fault = "none" THEN kind ELSE fault
  /\ queue' = <<Fault>>

(* _fail_locked: the first failure stays; a reader of an empty queue is    *)
(* told at once, one of a queue that is not empty after it.                *)
Fail(kind, q) ==
  /\ fault' = IF fault = "none" THEN kind ELSE fault
  /\ queue' = IF q = <<>> THEN <<Fault>> ELSE q

Available == fault = "none" /\ ~closed

(* A plausible bug: an acknowledgment that a terminal overtook is refused  *)
(* like any other old event.                                               *)
FreshOnly(t, number, after) == number > seen[t]

(* _claim_inbound_event_locked: an event of a task must be newer than all  *)
(* seen of it, unless a known terminal of a higher number overtook it.     *)
Fresh(t, number, after) == number > seen[t] \/ number < after

Saw(t, number) == seen' = [seen EXCEPT ![t] = IF number > @ THEN number ELSE @]

Pending == {t \in Tasks : stage[t] \in Waiting}
Active  == {t \in Tasks : stage[t] = "active"}

(* _settle_terminal_locked, the part that can only succeed: the task is    *)
(* over in the context store and in the controller, its cancel operation   *)
(* is forgotten, and the reader's queue has it.                            *)
Settle(t) ==
  /\ stage' = [stage EXCEPT ![t] = "ended"]
  /\ ended' = Append(ended, t)
  /\ queue' = Append(queue, t)

Full == Len(queue) >= MaxTerminals

----------------------------------------------------------------------------
(* Dispatch *)

(* ConversationTaskController.dispatch: capacity is reserved in the        *)
(* context store before the request leaves, the terminal loop is started,  *)
(* and an owned operation waits for the answer.                            *)
Dispatch(t) ==
  /\ stage[t] = "new" /\ Available /\ asked < MaxOperations
  /\ Cardinality(Pending) + Cardinality(Active) < MaxActive
  /\ stage' = [stage EXCEPT ![t] = "posted"]
  /\ asked' = asked + 1
  /\ loop' = IF loop = "none" THEN "running" ELSE loop
  /\ UNCHANGED <<session, answer, early, stop, seen, ended, queue, fault,
                 closed, reader, told>>

(* The end of _dispatch_admitted: the run is published and its event       *)
(* stream read before the acknowledgment reaches the controller.           *)
HermesAnswers(t, accepted) ==
  /\ stage[t] = "posted"
  /\ clock' = [clock EXCEPT ![t] = @ + 1]
  /\ runs' = [runs EXCEPT ![t] = IF accepted THEN "live" ELSE "none"]
  /\ answer' = [answer EXCEPT
       ![t] = [accepted |-> accepted, number |-> clock[t] + 1]]
  /\ stage' = [stage EXCEPT ![t] = "answered"]
  /\ UNCHANGED <<final, updates, early, stop, seen, ended, queue, fault, loop,
                 closed, asked, reader, told>>

(* The session raises instead, and publishes no run: the reservation stays *)
(* and the controller fails.                                               *)
DispatchBreaks(t) ==
  /\ stage[t] = "posted"
  /\ stage' = [stage EXCEPT ![t] = "lost"]
  /\ IF closed THEN UNCHANGED <<fault, queue>> ELSE Fail("broken", queue)
  /\ UNCHANGED <<session, answer, early, stop, seen, ended, loop, closed,
                 asked, reader, told>>

(* A plausible bug: a terminal that came before the acknowledgment stays   *)
(* where it was kept when the task becomes active.                         *)
SettleDispatchOnly(t) ==
  /\ stage[t] = "answered" /\ ~closed
  /\ Fresh(t, answer[t].number, IF early[t] THEN final[t] ELSE 0)
  /\ Saw(t, answer[t].number)
  /\ stage' = [stage EXCEPT
       ![t] = IF answer[t].accepted THEN "active" ELSE "refused"]
  /\ UNCHANGED <<session, answer, early, stop, ended, queue, fault, loop,
                 closed, asked, reader, told>>

(* _settle_dispatch: a refused task gives its reservation back; an         *)
(* accepted one is active, and a terminal that came first settles it in    *)
(* the same step.                                                          *)
SettleDispatch(t) ==
  LET number == answer[t].number
      after  == IF early[t] THEN final[t] ELSE 0 IN
  /\ stage[t] = "answered"
  /\ UNCHANGED <<session, answer, stop, loop, closed, asked, reader, told>>
  /\ \/ /\ ~closed => ~Fresh(t, number, after)
        /\ stage' = [stage EXCEPT ![t] = "lost"]
        /\ IF closed THEN UNCHANGED <<fault, queue>> ELSE Fail("stale", queue)
        /\ UNCHANGED <<early, seen, ended>>
     \/ /\ ~closed /\ Fresh(t, number, after)
        /\ Saw(t, number)
        /\ \/ /\ ~answer[t].accepted
              /\ stage' = [stage EXCEPT ![t] = "refused"]
              /\ UNCHANGED <<early, ended, queue, fault>>
           \/ /\ answer[t].accepted /\ ~early[t]
              /\ stage' = [stage EXCEPT ![t] = "active"]
              /\ UNCHANGED <<early, ended, queue, fault>>
           \/ /\ answer[t].accepted /\ early[t]
              /\ early' = [early EXCEPT ![t] = FALSE]
              /\ IF Full THEN /\ stage' = [stage EXCEPT ![t] = "active"]
                              /\ Fail("full", queue)
                              /\ UNCHANGED ended
                         ELSE Settle(t) /\ UNCHANGED fault

----------------------------------------------------------------------------
(* Terminals *)

(* _consume_event and _commit_terminal: the terminal takes its number and  *)
(* its place in the queue in one step; with a full queue the stream fails. *)
RunEnds(t) ==
  /\ runs[t] = "live" /\ Len(updates) < MaxUpdates
  /\ runs' = [runs EXCEPT ![t] = "over"]
  /\ clock' = [clock EXCEPT ![t] = @ + 1]
  /\ final' = [final EXCEPT ![t] = clock[t] + 1]
  /\ updates' = Append(updates, t)
  /\ UNCHANGED <<control, reader, told>>

(* _publish_failure: the event stream broke and the run could not be       *)
(* settled either; a full queue swallows the failure.                      *)
StreamBreaks(t) ==
  /\ runs[t] = "live"
  /\ runs' = [runs EXCEPT ![t] = "stuck"]
  /\ updates' = IF Len(updates) < MaxUpdates THEN Append(updates, Broken)
                                             ELSE updates
  /\ UNCHANGED <<clock, final, control, reader, told>>

(* _consume_terminals and _accept_terminal_locked: what the loop cannot    *)
(* settle fails the controller and ends the loop.                          *)
ConsumeTerminal ==
  /\ loop = "running" /\ updates # <<>>
  /\ updates' = Tail(updates)
  /\ UNCHANGED <<runs, clock, final, answer, closed, asked, reader, told>>
  /\ LET t == Head(updates)
         Refuse(kind) == /\ Fail(kind, queue) /\ loop' = "over"
                         /\ UNCHANGED <<stage, early, stop, ended>>
     IN \/ /\ closed /\ loop' = "over"
           /\ UNCHANGED <<stage, early, stop, seen, ended, queue, fault>>
        \/ /\ ~closed /\ t = Broken /\ Refuse("broken") /\ UNCHANGED seen
        \/ /\ ~closed /\ t # Broken
           /\ \/ /\ ~Fresh(t, final[t], 0)
                 /\ Refuse("stale") /\ UNCHANGED seen
              \/ /\ Fresh(t, final[t], 0) /\ Saw(t, final[t])
                 /\ \/ /\ t \in Pending
                       /\ early' = [early EXCEPT ![t] = TRUE]
                       /\ UNCHANGED <<stage, stop, ended, queue, fault, loop>>
                    \/ /\ t \in Active /\ ~Full
                       /\ Settle(t)
                       /\ stop' = [stop EXCEPT
                            ![t] = IF @ \in {"accepted", "broken"} THEN "none"
                                                                   ELSE @]
                       /\ UNCHANGED <<early, fault, loop>>
                    \/ /\ t \notin Pending /\ (t \in Active => Full)
                       /\ Refuse(IF t \in Active THEN "full"
                                                 ELSE "contradicted")

----------------------------------------------------------------------------
(* Cancel *)

(* request_cancel: one cancel operation for a task; a second request joins *)
(* the first, or gets the answer it had.                                   *)
RequestCancel(t) ==
  /\ Available /\ stage[t] = "active" /\ stop[t] = "none"
  /\ asked < MaxOperations
  /\ stop' = [stop EXCEPT ![t] = "asked"]
  /\ asked' = asked + 1
  /\ UNCHANGED <<session, stage, answer, early, seen, ended, queue, fault,
                 loop, closed, reader, told>>

(* The entry of _cancel_operations outlives its operation unless the task  *)
(* was settled meanwhile, which removed it.                                *)
Kept(t, outcome) == IF stage[t] = "active" THEN outcome ELSE "none"

(* HermesApiTaskSession.cancel, the session no longer knowing the run, and *)
(* _settle_cancel without a step between: the refusal is numbered after    *)
(* the terminal and claimed before it, unless the terminal was read first. *)
(* The same holds for Hermes' answer to a stop.                            *)
StopSettles(t, accepted) ==
  LET number == clock[t] + 1
      after  == IF t \in ToSet(ended) THEN final[t] ELSE 0
  IN
  /\ IF accepted THEN stop[t] = "posted"
                 ELSE \/ stop[t] = "asked" /\ runs[t] # "live"
                      \/ stop[t] = "posted"
  /\ clock' = [clock EXCEPT ![t] = number]
  /\ IF closed \/ ~Fresh(t, number, after)
       THEN /\ stop' = [stop EXCEPT ![t] = Kept(t, "broken")]
            /\ IF closed THEN UNCHANGED <<fault, queue>>
                         ELSE Fail("stale", queue)
            /\ UNCHANGED seen
       ELSE /\ Saw(t, number)
            /\ stop' = [stop EXCEPT
                 ![t] = IF accepted THEN Kept(t, "accepted") ELSE "none"]
            /\ UNCHANGED <<fault, queue>>
  /\ UNCHANGED <<runs, final, updates, stage, answer, early, ended, loop,
                 closed, asked, reader, told>>

(* The session still has the run and asks Hermes to stop it. *)
StopPosted(t) ==
  /\ stop[t] = "asked" /\ runs[t] = "live"
  /\ stop' = [stop EXCEPT ![t] = "posted"]
  /\ UNCHANGED <<session, stage, answer, early, seen, ended, queue, fault,
                 loop, closed, asked, reader, told>>

(* The stop got no answer: the operation keeps its failure, the controller *)
(* goes on.                                                                *)
StopBreaks(t) ==
  /\ stop[t] \in {"asked", "posted"}
  /\ stop' = [stop EXCEPT ![t] = Kept(t, "broken")]
  /\ UNCHANGED <<session, stage, answer, early, seen, ended, queue, fault,
                 loop, closed, asked, reader, told>>

----------------------------------------------------------------------------
(* The reader, and close *)

(* next_completion up to its await: start() raises a failure once the      *)
(* queue is empty, and refuses a closed controller.                        *)
AskNext ==
  /\ reader = "idle"
  /\ reader' = IF closed \/ (fault # "none" /\ queue = <<>>)
                 THEN "failed" ELSE "waiting"
  /\ loop' = IF loop = "none" /\ reader' = "waiting" THEN "running" ELSE loop
  /\ UNCHANGED <<session, stage, answer, early, stop, seen, ended, queue, fault,
                 closed, asked, told>>

(* next_completion after it: a failure is put back for the next caller.    *)
GetNext ==
  /\ reader = "waiting" /\ queue # <<>>
  /\ IF Head(queue) = Fault
       THEN /\ queue' = Append(Tail(queue), Fault)
            /\ reader' = "failed" /\ UNCHANGED told
       ELSE /\ queue' = Tail(queue)
            /\ reader' = "idle" /\ told' = Append(told, Head(queue))
  /\ UNCHANGED <<session, stage, answer, early, stop, seen, ended, fault, loop,
                 closed, asked>>

(* _close_owned: the controller fails before it closes, so a reader that   *)
(* waits is woken.                                                         *)
Close ==
  /\ ~closed
  /\ closed' = TRUE
  /\ Fail("closed", queue)
  /\ UNCHANGED <<session, stage, answer, early, stop, seen, ended, loop, asked,
                 reader, told>>

(* _bounded_cancel_and_drain: the loop and the operations that are still   *)
(* under way are cancelled; none of them settles anything any more.        *)
CloseDrains ==
  /\ closed
  /\ \/ loop = "running"
     \/ \E t \in Tasks : \/ stage[t] \in {"posted", "answered"}
                        \/ stop[t] \in {"asked", "posted"}
  /\ loop' = "over"
  /\ stage' = [t \in Tasks |->
       IF stage[t] \in {"posted", "answered"} THEN "lost" ELSE stage[t]]
  /\ stop' = [t \in Tasks |->
       IF stop[t] \in {"asked", "posted"} THEN Kept(t, "broken") ELSE stop[t]]
  /\ UNCHANGED <<session, answer, early, seen, ended, queue, fault, closed,
                 asked, reader, told>>

Step(t) ==
  \/ Dispatch(t) \/ DispatchBreaks(t) \/ SettleDispatch(t)
  \/ \E accepted \in BOOLEAN : HermesAnswers(t, accepted) \/ StopSettles(t, accepted)
  \/ RunEnds(t) \/ StreamBreaks(t)
  \/ RequestCancel(t) \/ StopPosted(t) \/ StopBreaks(t)

Next ==
  \/ \E t \in Tasks : Step(t)
  \/ ConsumeTerminal \/ AskNext \/ GetNext \/ Close \/ CloseDrains

Spec == Init /\ [][Next]_vars

(* The steps of the event loop are taken once they are due, Hermes answers *)
(* a dispatch or its request times out, and the director asks again for    *)
(* what ended.  Nothing makes a run end, a user cancel, or anyone close.   *)
FairSpec ==
  /\ Spec
  /\ WF_vars(ConsumeTerminal) /\ WF_vars(AskNext) /\ WF_vars(GetNext)
  /\ \A t \in Tasks :
       /\ WF_vars(SettleDispatch(t))
       /\ WF_vars(DispatchBreaks(t) \/ \E a \in BOOLEAN : HermesAnswers(t, a))

----------------------------------------------------------------------------
(* Properties *)

(* No terminal is lost, repeated or reordered on its way from the event    *)
(* stream to the director: one the session committed is in its queue, kept *)
(* for a dispatch without acknowledgment, or settled, and in only one of   *)
(* the three, for as long as the controller serves; a run whose end is     *)
(* unknown has its failure in that queue; and what was settled is told, or *)
(* waits to be told, in the order it was settled, whatever failed since.   *)
TerminalsKept ==
  /\ TypeOK
  /\ told \o Sift(queue, Tasks) = ended
  /\ fault = "none" => \A t \in Tasks :
       /\ runs[t] = "over" =>
            Cardinality({i \in DOMAIN updates : updates[i] = t})
              + Cardinality({i \in DOMAIN ended : ended[i] = t})
              + (IF early[t] THEN 1 ELSE 0) = 1
       /\ runs[t] = "stuck" => Broken \in ToSet(updates)

(* Reordering alone does not fail the controller: the only old event it    *)
(* ever refuses is a terminal that the answer to a cancel of the same task *)
(* overtook, never an acknowledgment that its task's end overtook.         *)
OnlyCancelsOvertake ==
  fault = "stale" =>
    \E t \in Tasks \ ToSet(ended) : 0 < final[t] /\ final[t] < seen[t]

(* The director, waiting for the next terminal when the controller fails   *)
(* or is closed, always has something to wake it.                          *)
WaiterWoken == reader = "waiting" /\ fault # "none" => queue # <<>>

(* A terminal the session committed reaches the director, or the           *)
(* controller fails, which the director is told instead.                   *)
RunReported ==
  \A t \in Tasks : t \in ToSet(updates) ~> (t \in ToSet(told) \/ fault # "none")
============================================================================
