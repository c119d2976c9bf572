------------------------------- MODULE Speech -------------------------------
(***************************************************************************)
(* How a reply is spoken and what of it enters the conversation: the       *)
(* foreground owner (conversation/foreground.py), the speech loop above it *)
(* (conversation/streaming.py), the delivered-speech ledger                *)
(* (speech/delivery.py) and the rows of the context store                  *)
(* (conversation/context.py).                                              *)
(*                                                                         *)
(* A turn records the user's words and has a producer, which generates     *)
(* segments, and a consumer, which has each played chunk by chunk and puts *)
(* a chunk into the context once its playback is confirmed.  A newer turn, *)
(* a command, a stop or the close takes the floor away at any moment.      *)
(* Whoever does so waits until the producer and the consumer it revoked    *)
(* are cleaned up, within bounds, and only then goes on; by then it may    *)
(* have been overtaken itself.  What a stopped reply had left to say is    *)
(* kept, and a replay can say it later.                                    *)
(*                                                                         *)
(* Text is the chunks it is heard in; a synthesizer divides a segment the  *)
(* same way each time, as replays assume.  A reply is one row (rows that   *)
(* grow too long are left out, as are announcements, tasks' readbacks and  *)
(* the window's eviction, VoiceTail's).  The ledger holds a chunk from the *)
(* start of its playback to its confirmation or the turn's failure: the    *)
(* consumer's stage "playing".  A code section without an await is one     *)
(* action; _lifecycle_lock is never held across one, so opening a turn is  *)
(* one with the start of its producer.  The loop's authority revision, and *)
(* the revisions a turn and a cleanup remember to compare with it, are the *)
(* variable current: no more than one of them can still be equal to it.    *)
(***************************************************************************)
EXTENDS Naturals, FiniteSets, SequencesExt, Subsequence

CONSTANTS
  Turns,      \* the user's turns
  Replays,    \* requests to say the rest of what was stopped
  Commands,   \* inputs that are recorded and start no turn
  Stops,      \* barge-ins and stops
  Close,      \* the closing of the loop
  NoOne,
  Segments,   \* segments of a reply
  Chunks,     \* chunks of a segment
  Stubborn,   \* bound: owners whose providers may ignore a cancellation
  Faulty,     \* bound: owners whose inference, synthesis, playback or caller may fail
  MaxCalls    \* bound: callers that call

Owners == Turns \union Replays   \* those who may own the floor
Callers == Owners \union Commands \union Stops \union {Close}

ASSUME SpeechAssumption ==
  /\ {Segments, Chunks, MaxCalls} \subseteq Nat \ {0}
  /\ Turns \intersect Replays = {} /\ Owners \intersect (Commands \union Stops) = {}
  /\ Close \notin Owners \union Commands \union Stops
  /\ NoOne \notin Callers /\ Stubborn \union Faulty \subseteq Owners

VARIABLES
  call,       \* how far each caller is
  line,       \* callers waiting for cleanups; the first one gathers their errors
  gathered,   \* whether it gathered one
  active,     \* the owner of the floor, or NoOne
  current,    \* whose remembered revision is still the loop's, or NoOne
  resumable,  \* what a stopped reply has left to say; <<>> when nothing is kept
  prod, cons, \* how far a producer and a consumer are
  bad,        \* consumers that end with more than a cancellation
  tidy,       \* the cleanup of a revoked owner
  retained,   \* consumers that outlived their cleanup
  late,       \* owners whose calls to providers outlived their bound
  made,       \* segments published: [of, nr, before, now]
  pos,        \* the segment the consumer is at
  script,     \* what a replay is to say: segments [of, nr, before]
  rows,       \* the conversation: [by, text, cut]; text is <<>> in the user's rows
  open        \* whose row may still grow, or NoOne

calls == <<call, line, gathered>>
floor == <<active, current, resumable>>
work == <<prod, cons, bad>>
cleanup == <<tidy, retained, late>>
reply == <<made, pos, script>>
context == <<rows, open>>
vars == <<calls, floor, work, cleanup, reply, context>>

Closed == call[Close] # "idle"
ForegroundClosed == call[Close] \notin {"idle", "settling"}
Over(o) == cons[o] \in {"spoken", "broken"}
Speaking == active # NoOne /\ ~Over(active)   \* foreground_active
Revoked(o) == tidy[o] # "none"
Cut(o) == Revoked(o) \/ prod[o] = "failed"     \* its publications are invalid
Cleanups == {o \in Owners : tidy[o] = "going"}
Draining == \E o \in Owners : call[o] = "draining"
Undrained == \E o \in Owners : prod[o] = "running"   \* a task the coordinator owns
Pending == late # {} \/ \E o \in retained : ~Over(o)

Init ==
  /\ call = [c \in Callers |-> "idle"] /\ line = <<>> /\ gathered = FALSE
  /\ active = NoOne /\ current = NoOne /\ resumable = <<>>
  /\ prod = [o \in Owners |-> "none"] /\ cons = [o \in Owners |-> "none"] /\ bad = {}
  /\ tidy = [o \in Owners |-> "none"] /\ retained = {} /\ late = {}
  /\ made = [o \in Owners |-> <<>>] /\ pos = [o \in Owners |-> 1]
  /\ script = [o \in Owners |-> <<>>]
  /\ rows = <<>> /\ open = NoOne
-----------------------------------------------------------------------------
(* Cancelling a consumer.  One that is cleaning up already ends at once    *)
(* and leaves its calls to the providers behind; a task that is cancelled  *)
(* before its first step never takes one.                                  *)
CancelConsumer(o) ==
  /\ cons' = [cons EXCEPT ![o] = IF @ \in {"ready", "cleanup"} THEN "broken" ELSE @]
  /\ IF cons[o] = "cleanup"
     THEN bad' = bad \ {o} /\ late' = late \union {o}
     ELSE UNCHANGED <<bad, late>>

(* Taking the floor away: the owner's publications become invalid, both    *)
(* its tasks are cancelled, and a cleanup is started.                      *)
Revoke ==
  IF active = NoOne THEN UNCHANGED <<active, prod, cons, bad, tidy, late>>
  ELSE /\ active' = NoOne
       /\ prod' = [prod EXCEPT ![active] = IF @ = "ready" THEN "ended" ELSE @]
       /\ CancelConsumer(active)
       /\ tidy' = [tidy EXCEPT ![active] = "going"]

Calls(c) == call[c] = "idle" /\ Cardinality({d \in Callers : call[d] # "idle"}) < MaxCalls
Wait(c, stage) == call' = [call EXCEPT ![c] = stage] /\ line' = Append(line, c)

(* A turn is admitted, takes the floor and waits for the cleanups.         *)
Respond(t) ==
  /\ Calls(t) /\ ~Closed
  /\ Revoke /\ current' = t /\ Wait(t, "settling")
  /\ UNCHANGED <<gathered, resumable, retained, reply, context>>

(* A replay is of what is kept now, and only while nobody has the floor.   *)
Resume(r) ==
  /\ Calls(r) /\ ~Closed /\ resumable # <<>> /\ active = NoOne
  /\ current' = r /\ script' = [script EXCEPT ![r] = resumable] /\ Wait(r, "settling")
  /\ UNCHANGED <<gathered, active, resumable, work, cleanup, made, pos, context>>

(* A barge-in or a stop keeps the rest of the reply (keep); the cancels    *)
(* for a closing host, binding or retention keep nothing.                  *)
Stop(s, keep) ==
  /\ Calls(s)
  /\ Revoke /\ current' = (IF keep THEN active ELSE NoOne) /\ Wait(s, "stopping")
  /\ UNCHANGED <<gathered, resumable, retained, reply, context>>

(* A command takes live speech away first, as often as it takes.           *)
Silence(c) ==
  /\ (Calls(c) \/ call[c] = "again") /\ ~Closed
  /\ Speaking \/ Cleanups # {}
  /\ Revoke /\ current' = active /\ Wait(c, "settling")
  /\ UNCHANGED <<gathered, resumable, retained, reply, context>>

RecordCommand(c) ==
  /\ (Calls(c) \/ call[c] = "again") /\ ~Closed
  /\ ~Speaking /\ Cleanups = {}
  /\ rows' = Append(rows, [by |-> c, text |-> <<>>, cut |-> FALSE])
  /\ call' = [call EXCEPT ![c] = "returned"]
  /\ UNCHANGED <<line, gathered, floor, work, cleanup, reply, open>>

CommandRefused(c) ==
  /\ call[c] = "again" /\ Closed
  /\ call' = [call EXCEPT ![c] = "refused"]
  /\ UNCHANGED <<line, gathered, floor, work, cleanup, reply, context>>

BeginClose ==
  /\ Calls(Close)
  /\ Revoke /\ current' = NoOne /\ Wait(Close, "settling")
  /\ UNCHANGED <<gathered, resumable, retained, reply, context>>
-----------------------------------------------------------------------------
(* The first in line goes on when no cleanup is left, with the errors of   *)
(* those it gathered.                                                      *)
Released(c) ==
  /\ line # <<>> /\ Head(line) = c /\ Cleanups = {}
  /\ line' = Tail(line) /\ gathered' = FALSE

(* A plausible bug: the turn does not look again after it waited.          *)
OpenRegardless(o) ==
  /\ call' = [call EXCEPT ![o] = "speaking"]
  /\ active' = o /\ resumable' = <<>>
  /\ prod' = [prod EXCEPT ![o] = "ready"] /\ cons' = [cons EXCEPT ![o] = "ready"]
  /\ UNCHANGED tidy

(* The floor is a turn's unless something was asked of the loop since the  *)
(* turn was admitted: then its producer is revoked before its first step,  *)
(* and its cleanup has nothing to wait for.                                *)
Overtaken(o) == Closed \/ current # o

Open(o) ==
  IF Overtaken(o)
  THEN /\ call' = [call EXCEPT ![o] = "overtaken"]
       /\ prod' = [prod EXCEPT ![o] = "ended"] /\ tidy' = [tidy EXCEPT ![o] = "done"]
       /\ UNCHANGED <<active, resumable, cons>>
  ELSE /\ call' = [call EXCEPT ![o] = "speaking"]
       /\ active' = o /\ resumable' = <<>>
       /\ prod' = [prod EXCEPT ![o] = "ready"] /\ cons' = [cons EXCEPT ![o] = "ready"]
       /\ UNCHANGED tidy

EndCall(c, how) ==
  /\ call' = [call EXCEPT ![c] = how]
  /\ UNCHANGED <<active, resumable, prod, cons, tidy>>
Refuse(c) == EndCall(c, "refused")

(* A plausible bug: a retained consumer does not hold up the next turn.    *)
EnterAlongside(o) ==
  /\ call[o] = "settling" /\ Released(o)
  /\ IF gathered \/ ForegroundClosed THEN Refuse(o)
     ELSE IF Undrained \/ Draining THEN EndCall(o, "draining")
     ELSE Open(o)
  /\ UNCHANGED <<current, bad, retained, late, reply, context>>

(* The wait ended with somebody's error, or providers are still pending,   *)
(* or the coordinator is closed; or it drains a producer that an earlier   *)
(* cleanup gave up on; or the turn opens.                                  *)
Enter(o) ==
  /\ call[o] = "settling" /\ Released(o)
  /\ IF gathered THEN Refuse(o)
     ELSE IF Pending THEN EndCall(o, "pending")
     ELSE IF ForegroundClosed THEN Refuse(o)
     ELSE IF Undrained \/ Draining THEN EndCall(o, "draining")
     ELSE Open(o)
  /\ UNCHANGED <<current, bad, retained, late, reply, context>>

(* The coordinator's lifecycle lock takes those who wait in their order: a *)
(* turn that was overtaken first.                                          *)
StartDrained(o) ==
  /\ call[o] = "draining" /\ ~Undrained
  /\ Overtaken(o) \/ \A p \in Owners \ {o} : call[p] # "draining"
  /\ IF ForegroundClosed THEN Refuse(o) ELSE Open(o)
  /\ UNCHANGED <<line, gathered, current, bad, retained, late, reply, context>>

DrainGivenUp(c) ==
  /\ call[c] \in {"draining", "failing"} /\ Undrained /\ Refuse(c)
  /\ UNCHANGED <<line, gathered, current, bad, retained, late, reply, context>>

(* A stop returns, a command looks again, a turn that broke off raises.    *)
StopReturns(s) ==
  /\ call[s] = "stopping" /\ Released(s)
  /\ call' = [call EXCEPT ![s] = IF gathered THEN "refused" ELSE "returned"]
  /\ UNCHANGED <<floor, work, cleanup, reply, context>>

LookAgain(c) ==
  /\ call[c] = "settling" /\ Released(c)
  /\ call' = [call EXCEPT ![c] = IF gathered THEN "refused" ELSE "again"]
  /\ UNCHANGED <<floor, work, cleanup, reply, context>>

Raise(o) ==
  /\ call[o] = "unwinding" /\ Released(o)
  /\ call' = [call EXCEPT ![o] = "raised"]
  /\ UNCHANGED <<floor, work, cleanup, reply, context>>

CloseForeground ==
  /\ call[Close] = "settling" /\ Released(Close)
  /\ call' = [call EXCEPT ![Close] = IF Undrained THEN IF gathered THEN "failing" ELSE "draining"
                                     ELSE IF gathered \/ Pending THEN "refused" ELSE "returned"]
  /\ UNCHANGED <<floor, work, cleanup, reply, context>>

CloseDrained ==
  /\ call[Close] \in {"draining", "failing"} /\ ~Undrained
  /\ call' = [call EXCEPT ![Close] =
                IF call[Close] = "failing" \/ Pending THEN "refused" ELSE "returned"]
  /\ UNCHANGED <<line, gathered, floor, work, cleanup, reply, context>>
-----------------------------------------------------------------------------
(* The producer's first step records the user's words; the consumer's      *)
(* first step is the next one of the event loop.                           *)
Begin(o) ==
  /\ prod[o] = "ready"
  /\ prod' = [prod EXCEPT ![o] = "running"] /\ cons' = [cons EXCEPT ![o] = "next"]
  /\ rows' = IF o \in Turns THEN Append(rows, [by |-> o, text |-> <<>>, cut |-> FALSE]) ELSE rows
  /\ UNCHANGED <<calls, floor, bad, cleanup, reply, open>>

(* What an owner has to say next, if anything.                             *)
NextSegment(o) ==
  LET nr == Len(made[o]) + 1
  IN  IF o \in Turns
      THEN IF nr > Segments THEN {} ELSE {[of |-> o, nr |-> nr, before |-> 0]}
      ELSE IF nr > Len(script[o]) THEN {} ELSE {script[o][nr]}

Publish(o) ==
  /\ prod[o] = "running" /\ active = o
  /\ \E s \in NextSegment(o) :
       made' = [made EXCEPT ![o] = Append(@, [of |-> s.of, nr |-> s.nr, before |-> s.before,
                                              now |-> 0])]
  /\ UNCHANGED <<calls, floor, work, cleanup, pos, script, context>>

(* Inference ends when it likes, a replay at its end; a revoked producer   *)
(* ends when its provider lets it.                                         *)
ProducerEnds(o) ==
  /\ prod[o] = "running"
  /\ o \in Turns \/ Revoked(o) \/ NextSegment(o) = {}
  /\ prod' = [prod EXCEPT ![o] = "ended"]
  /\ UNCHANGED <<calls, floor, cons, bad, cleanup, reply, context>>

(* Inference fails, or a long reply fills the queue: nothing more of it is *)
(* valid, and the monitor cancels the consumer.                            *)
ProducerFails(o) ==
  /\ o \in Faulty /\ prod[o] = "running" /\ ~Revoked(o)
  /\ prod' = [prod EXCEPT ![o] = "failed"]
  /\ CancelConsumer(o)
  /\ UNCHANGED <<calls, floor, tidy, retained, reply, context>>
-----------------------------------------------------------------------------
(* The consumer plays what was published, chunk by chunk.                  *)
Current(o) == made[o][pos[o]]
HasNext(o) == pos[o] <= Len(made[o])
Heard(s) == s.before + s.now
Started(o) == cons[o] = "playing"   \* the ledger holds a chunk of its turn

Play(o) ==
  /\ cons[o] = "next" /\ ~Cut(o) /\ HasNext(o) /\ Heard(Current(o)) < Chunks
  /\ cons' = [cons EXCEPT ![o] = "playing"]
  /\ UNCHANGED <<calls, floor, prod, bad, cleanup, reply, context>>

SegmentEnds(o) ==
  /\ cons[o] = "next" /\ ~Cut(o) /\ HasNext(o) /\ Heard(Current(o)) = Chunks
  /\ pos' = [pos EXCEPT ![o] = @ + 1]
  /\ UNCHANGED <<calls, floor, work, cleanup, made, script, context>>

(* A confirmed chunk extends the row that is open for its owner, or opens  *)
(* one.                                                                    *)
Record(o, chunk) ==
  /\ rows' = IF open = o
             THEN [rows EXCEPT ![Len(rows)].text = Append(@, chunk)]
             ELSE Append(rows, [by |-> o, text |-> <<chunk>>, cut |-> FALSE])
  /\ open' = o

Deliver(o) ==
  /\ Started(o) /\ ~Cut(o)
  /\ open = o => Last(rows).by = o   \* never displaced while the floor is o's
  /\ Record(o, <<Current(o).of, Current(o).nr, Heard(Current(o)) + 1>>)
  /\ made' = [made EXCEPT ![o][pos[o]].now = @ + 1]
  /\ cons' = [cons EXCEPT ![o] = "next"]
  /\ UNCHANGED <<calls, floor, prod, bad, cleanup, pos, script>>

(* The reply was spoken to its end: its row is whole.                      *)
ReplyEnds(o) ==
  /\ cons[o] = "next" /\ ~Cut(o) /\ prod[o] = "ended" /\ ~HasNext(o)
  /\ cons' = [cons EXCEPT ![o] = "spoken"]
  /\ open' = IF open = o THEN NoOne ELSE open
  /\ UNCHANGED <<calls, floor, prod, bad, cleanup, reply, rows>>

(* The row a consumer leaves open is flagged, unless it was displaced.     *)
HeardAny(o) == \E i \in DOMAIN made[o] : made[o][i].now > 0
Displaced(o) == HeardAny(o) /\ ~(open = o /\ Last(rows).by = o)

(* A plausible bug: the row is closed as if the reply had been whole.      *)
MarkWhole(o) ==
  /\ open' = IF HeardAny(o) /\ ~Displaced(o) THEN NoOne ELSE open
  /\ UNCHANGED rows

MarkInterrupted(o) ==
  IF HeardAny(o) /\ ~Displaced(o)
  THEN rows' = [rows EXCEPT ![Len(rows)].cut = TRUE] /\ open' = NoOne
  ELSE UNCHANGED <<rows, open>>

(* It is cancelled, finds its publication invalid, or fails (a synthesizer,*)
(* the playback, its caller): it marks its row, lets go of what it holds   *)
(* in the ledger and asks the providers to stop.                           *)
ConsumerFails(o) ==
  /\ cons[o] \in {"next", "playing"}
  /\ Cut(o) \/ o \in Faulty
  /\ MarkInterrupted(o)
  /\ cons' = [cons EXCEPT ![o] = "cleanup"]
  /\ bad' = IF Cut(o) /\ ~Displaced(o) THEN bad ELSE bad \union {o}
  /\ UNCHANGED <<calls, floor, prod, cleanup, reply>>

(* The providers stop, or one does not within its bound.                   *)
CleanedUp(o) ==
  /\ cons[o] = "cleanup"
  /\ cons' = [cons EXCEPT ![o] = "broken"]
  /\ UNCHANGED <<calls, floor, prod, bad, cleanup, reply, context>>

CleanupGivenUp(o) ==
  /\ o \in Stubborn /\ cons[o] = "cleanup"
  /\ cons' = [cons EXCEPT ![o] = "broken"]
  /\ bad' = bad \union {o} /\ late' = late \union {o}
  /\ UNCHANGED <<calls, floor, prod, tidy, retained, reply, context>>

ProviderStops(o) ==
  /\ o \in late /\ late' = late \ {o}
  /\ UNCHANGED <<calls, floor, work, tidy, retained, reply, context>>
-----------------------------------------------------------------------------
(* What an owner published and was not heard to its end: a segment needs   *)
(* no replay once its end was reached in the run that heard its last chunk.*)
Rest(o) ==
  LET unheard == {i \in DOMAIN made[o] : i >= pos[o] \/ made[o][i].now = 0}
      left == Sift([i \in DOMAIN made[o] |-> i], unheard)
  IN  [j \in DOMAIN left |-> LET s == made[o][left[j]]
                             IN  [of |-> s.of, nr |-> s.nr, before |-> Heard(s)]]

(* It is kept only if nothing was asked of the loop since the revocation.  *)
Kept(o) == IF current = o THEN resumable' = Rest(o) ELSE UNCHANGED resumable

(* A plausible bug: every consumer that was cancelled counts as an error.  *)
SettleCancelled(o, drained, settled) ==
  /\ tidy[o] = "going"
  /\ o \in Stubborn \/ (drained /\ settled)
  /\ drained => prod[o] # "running"
  /\ IF settled THEN Over(o) ELSE cons[o] \in {"playing", "cleanup"}
  /\ tidy' = [tidy EXCEPT ![o] = IF ~drained \/ ~settled \/ o \in bad THEN "failed" ELSE "done"]
  /\ gathered' = (gathered \/ (cons[o] = "broken" /\ line # <<>>))
  /\ retained' = IF settled THEN retained ELSE retained \union {o}
  /\ Kept(o)
  /\ UNCHANGED <<call, line, active, current, work, late, reply, context>>

(* The cleanup of a revoked owner waits for its producer, then for its     *)
(* consumer, gives up on either that outlives its bound, and keeps the     *)
(* rest.  Its error is the first in line's.  drained: the producer ended   *)
(* in time; settled: the consumer did.                                     *)
Settle(o, drained, settled) ==
  /\ tidy[o] = "going"
  /\ o \in Stubborn \/ (drained /\ settled)
  /\ drained => prod[o] # "running"
  /\ IF settled THEN Over(o) ELSE cons[o] \in {"playing", "cleanup"}
  /\ LET failed == ~drained \/ ~settled \/ o \in bad
     IN  /\ tidy' = [tidy EXCEPT ![o] = IF failed THEN "failed" ELSE "done"]
         /\ gathered' = (gathered \/ (failed /\ line # <<>>))
  /\ retained' = IF settled THEN retained ELSE retained \union {o}
  /\ Kept(o)
  /\ UNCHANGED <<call, line, active, current, work, late, reply, context>>
-----------------------------------------------------------------------------
(* A turn returns when its reply was spoken, and gives the floor back.     *)
Finish(o) ==
  /\ call[o] = "speaking" /\ cons[o] = "spoken"
  /\ call' = [call EXCEPT ![o] = "returned"]
  /\ active' = IF active = o THEN NoOne ELSE active
  /\ UNCHANGED <<line, gathered, current, resumable, work, cleanup, reply, context>>

(* When its consumer broke off, it revokes itself unless somebody did, and *)
(* waits for the cleanups too.                                             *)
Unwind(o) ==
  /\ call[o] = "speaking" /\ cons[o] = "broken"
  /\ IF active = o THEN Revoke /\ current' = o
     ELSE UNCHANGED <<active, current, prod, cons, bad, tidy, late>>
  /\ Wait(o, "unwinding")
  /\ UNCHANGED <<gathered, resumable, retained, reply, context>>

Callings ==
  \/ \E t \in Turns : Respond(t)
  \/ \E r \in Replays : Resume(r)
  \/ \E s \in Stops : (\E keep \in BOOLEAN : Stop(s, keep)) \/ StopReturns(s)
  \/ \E c \in Commands : Silence(c) \/ RecordCommand(c) \/ CommandRefused(c) \/ LookAgain(c)
  \/ BeginClose \/ CloseForeground \/ CloseDrained \/ DrainGivenUp(Close)

Floors(o) ==
  Enter(o) \/ StartDrained(o) \/ DrainGivenUp(o) \/ Finish(o) \/ Unwind(o) \/ Raise(o)
Producer(o) == Begin(o) \/ Publish(o) \/ ProducerEnds(o) \/ ProducerFails(o)
Consumer(o) ==
  \/ Play(o) \/ SegmentEnds(o) \/ Deliver(o) \/ ReplyEnds(o)
  \/ ConsumerFails(o) \/ CleanedUp(o) \/ CleanupGivenUp(o) \/ ProviderStops(o)
Cleanup(o) == \E drained, settled \in BOOLEAN : Settle(o, drained, settled)

Next ==
  Callings \/ \E o \in Owners : Floors(o) \/ Producer(o) \/ Consumer(o) \/ Cleanup(o)

Spec == Init /\ [][Next]_vars

-----------------------------------------------------------------------------
Segment == [of : Turns, nr : 1..Segments, before : 0..Chunks]
Said == [of : Turns, nr : 1..Segments, before : 0..Chunks, now : 0..Chunks]
Chunk == Turns \X (1..Segments) \X (1..Chunks)
Row == [by : Owners \union Commands, text : Seq(Chunk), cut : BOOLEAN]

TypeOK ==
  /\ call \in [Callers -> {"idle", "settling", "stopping", "draining", "failing", "speaking", "unwinding",
                           "again", "returned", "raised", "refused", "pending", "overtaken"}]
  /\ line \in Seq(Callers) /\ gathered \in BOOLEAN
  /\ {active, current, open} \subseteq Owners \union {NoOne} /\ resumable \in Seq(Segment)
  /\ prod \in [Owners -> {"none", "ready", "running", "ended", "failed"}]
  /\ cons \in [Owners -> {"none", "ready", "next", "playing", "cleanup", "spoken", "broken"}]
  /\ tidy \in [Owners -> {"none", "going", "done", "failed"}]
  /\ bad \union retained \union late \subseteq Owners
  /\ made \in [Owners -> Seq(Said)] /\ pos \in [Owners -> Nat \ {0}]
  /\ script \in [Owners -> Seq(Segment)] /\ rows \in Seq(Row)

(* What is heard of a reply is its beginning, each chunk once and in its   *)
(* order, however often it was stopped and replayed (the counts that       *)
(* _capture_resumable_owner carries from one replay to the next).          *)
Places == UNION {{i} \X DOMAIN rows[i].text : i \in DOMAIN rows}
ChunkAt(p) == rows[p[1]].text[p[2]]
Sooner(p, q) == p[1] < q[1] \/ (p[1] = q[1] /\ p[2] < q[2])
Follows(c, nr, k) == IF k = 1 THEN nr = c[2] + 1 /\ c[3] = Chunks ELSE nr = c[2] /\ k = c[3] + 1

HeardInOrder ==
  \A q \in Places :
    LET c == ChunkAt(q)
        sooner == {ChunkAt(p) : p \in {p \in Places : Sooner(p, q) /\ ChunkAt(p)[1] = c[1]}}
    IN  /\ \A b \in sooner : b[2] < c[2] \/ (b[2] = c[2] /\ b[3] < c[3])
        /\ (c[2] = 1 /\ c[3] = 1) \/ \E b \in sooner : Follows(b, c[2], c[3])

(* Nothing of the answer to an earlier question is heard after the words   *)
(* of a newer one (the revisions of _run_turn and _settle_revoked_owner).  *)
IsQuestion(row) == row.text = <<>> /\ row.by \in Turns

AnswersLatest ==
  \A i \in DOMAIN rows : \A chunk \in Range(rows[i].text) :
    \E j \in 1..(i - 1) :
      /\ IsQuestion(rows[j]) /\ rows[j].by = chunk[1]
      /\ \A k \in (j + 1)..(i - 1) : ~IsQuestion(rows[k])

HeardRight == TypeOK /\ HeardInOrder /\ AnswersLatest

(* A reply whose consumer broke off after some of it was heard is flagged  *)
(* in the conversation, and one that was spoken to its end is not: except  *)
(* that a command's row may follow the row of a consumer that outlived its *)
(* cleanup, which then cannot be flagged (_consume_turn, record_user_input,*)
(* mark_assistant_segment_interrupted).                                    *)
InterruptedMarked ==
  \A i \in DOMAIN rows :
    LET o == rows[i].by
    IN  rows[i].text # <<>> =>
          /\ rows[i].cut => cons[o] \in {"cleanup", "broken"}
          /\ cons[o] \in {"cleanup", "broken"} =>
               \/ rows[i].cut
               \/ o \in retained /\ i < Len(rows) /\ rows[i + 1].by \in Commands

(* The words of a turn that is over are in the conversation, unless        *)
(* something else was asked of the loop before its producer's first step,  *)
(* or what an earlier turn left behind failed or was still pending         *)
(* (_run_turn, _settle_owned_cleanups, _raise_if_provider_cleanup_pending).*)
WordsKept ==
  \A t \in Turns :
    call[t] \in {"returned", "raised", "refused"} =>
      \/ \E i \in DOMAIN rows : IsQuestion(rows[i]) /\ rows[i].by = t
      \/ prod[t] = "ended" /\ Revoked(t)
      \/ call[t] = "refused" /\ (Closed \/ \E o \in Owners \ {t} : tidy[o] = "failed")

(* However long providers ignore a cancellation, no turn or replay begins  *)
(* to infer while another's inference runs, and none is played while       *)
(* another's playback is not given up (the drain of                        *)
(* ForegroundCoordinator.start, _raise_if_provider_cleanup_pending).       *)
OneAtATime ==
  \A o, p \in Owners : o # p =>
    /\ ~(prod[o] = "running" /\ prod[p] \in {"ready", "running"})
    /\ ~(cons[o] \in {"ready", "next", "playing"} /\ cons[p] = "playing")
=============================================================================
