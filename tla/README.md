# TLA+ models of hermes-realtime

hermes-realtime is a voice front end to a Hermes agent. A host process holds the
conversation with the user, dispatches background work to Hermes, and keeps what
was said across restarts; a companion process beside Hermes archives the voice
conversation into Hermes' session database, reviews it, and deletes it there on
request. The modules here model the parts of that program whose correctness depends
on order: writes to disk against crashes, requests against lost answers, deletes
against archiving, terminals against cancels, turns and barge-ins against speech
that is still being played. TLC checks them on small instances, TLAPS proves the central
invariants for every value of the constants.

All paths are relative to `src/src/hermes_realtime/`. `PROJECT.json` gives, for
every definition that models code, the lines it stands for; the list of hazards
there names the line where each bites and the properties that cover it.

## 1. The system

| part | state it keeps | operations | interacts with | hard behaviour | what makes it correct | module |
|---|---|---|---|---|---|---|
| Voice tail writer (`integration/voice_tail.py`) | rows waiting for the archive, their numbers, the batch in flight, binding of the conversation, pending deletes; two files | update, next_batch, acknowledge, request_forget, next_deletes, acknowledge_forget, open, close, the mirror task | context store (synchronous callback), archive sender, forget sender, disk | rows, freezes and deletes change the state while a write is in a thread; two files, crash between them; damaged files | numbers agree with rows, a resend repeats the batch, a deleted conversation never returns, a delete is never lost | VoiceTail |
| Delete record (`integration/voice_deletes.py`) | pending deletes, live binding, newest outcome, "lost" mark | parse, write | voice tail writer | written before the tail, adopted at open | always readable by its own parser | VoiceTail |
| Context store (`conversation/context.py`) | bounded window of rows, open assistant segment | record user/assistant, close and flag a segment, evict, clear, restore | delivery ledger, voice tail | eviction under an open segment, a row displaced by another | the durable view is a suffix of what was said | VoiceTail, Speech |
| Archive sender (`integration/voice_archive.py`), companion archive (`companion/archive.py`, `store.py`, `integrity.py`) | write-ahead batch, lease, verified rows, quarantine | archive, settle after crash, verify | voice tail, Hermes database, others who use it | crash between write-ahead, commit and receipt; foreign changes; late duplicates | append only, each row once, no quarantine of its own making | Companion, ArchiveLog |
| Forget (`companion/forget.py`, `integration/voice_forget.py`) | tombstones, manifest of copies | reconcile, delete each copy, verify, complete | archive, review, Hermes database | a stop after any step; new copies meanwhile | complete only when no copy is left | Companion |
| Review (`companion/review.py`) | thread, ledger of outcomes | reserve, run, join, unwind, close | archive, forget, host | a conversation deleted under review, a kill during one | nothing reviewed twice or after delete; close ends | Companion |
| Hermes task session (`integration/api.py`) and run record (`run_record.py`) | runs by task, pending and admitted entries, the record file | dispatch, resend, publish, stop, event stream, close, start | task controller, Hermes HTTP API, disk | lost POST or answer, failed write, crash, expiring idempotency keys, close during dispatch | work starts at most once, no run is left running unknown, an end is reported once | HermesRuns, DispatchPromise |
| Task controller (`conversation/tasks.py`) | tasks, numbers seen, terminal queue | dispatch, cancel, next_notification, close | API session, context, director | a terminal before its dispatch returned, cancel against completion | outcome told once, no task lost, the reader woken | Tasks |
| Update director and executor (`conversation/updates.py`, `actions.py`) | slots, queues, claims, reservations | decide, claim, settle, interrupt, drain, close | task controller, speech loop, operation limit | a completion while someone speaks, replacement that times out | slots, claims and reservations conserved | Updates |
| Speech loop (`conversation/streaming.py`), foreground (`foreground.py`), delivery ledger (`speech/delivery.py`) | floor, revision, cleanups, resumable rest, chunks | respond, resume, record input, cancel, close; produce, play, confirm, clean up | context, providers, executor | a turn overtaken while it waits, providers that ignore cancellation, a drain that times out | only heard text reaches the context, once, in order, after its question | Speech |
| Client projection (`client/projection.py`, `session.py`) | revisioned event log | publish, replay | browser | reconnects, overflow | a replay is a suffix | planned |
| Evidence (`evidence/`) | consent, spool | record, erase | sqlite | erase against record | nothing kept after erasure | the operation limit only (Updates) |
| Host launcher (`host_launcher.py`) | wiring, delete transaction, close order | start, delete, close | everything | compare after await | one delete at a time | planned |
| Bridge (`integration/bridge.py`, `worker.py`) | sequences, pending calls | dispatch, progress, completion | Hermes plugin | duplicates, reconnect | each message applied once | planned |
| Providers, LiveKit, HTTP serving | | | | I/O | | not modelled |

## 2. Modules

    VoiceOutbox          rows and their numbers: pure operators (admit, assign, overflow)
    VoiceTail            the writer, both files, the context store's window, the environment
    VoiceTailInduction   its inductive invariants
    VoiceTailProofs      theorems
    MCVoiceTail          model values for TLC

    DispatchPromise      what the task session promises of dispatched work (abstract)
    HermesRuns           the task session, its record, and Hermes as it uses it (detailed)
    HermesRunsInduction  its inductive invariant
    HermesRunsProofs     theorems, and that HermesRuns implements DispatchPromise
    MCHermesRuns         model values for TLC

    Subsequence          what a list comprehension keeps of a sequence
    SubsequenceProofs    lemmas about it

    ArchiveLog           what archiving promises: an append-only log (abstract)
    Companion            archive, delete, review and service of one conversation (detailed)
    CompanionInduction   its inductive invariant
    CompanionStepProofs  types, turn, reviews, delete and rows are preserved
    CompanionProofs      requests and an untouched session are preserved; theorems, and
                         that Companion implements ArchiveLog

    Tasks                the task controller and the front of its session
    TasksInduction       its inductive invariant
    TasksProofs          theorems

    Updates              the update director, its executor, the operation limit, the floor
    UpdatesInduction     its inductive invariant
    UpdatesProofs        theorems

    Speech               inside the floor: turns, replays, commands, stops, playback, cleanup
    SpeechInduction      its inductive invariant
    SpeechProofs         theorems
    MCCompanion, MCTasks, MCUpdates, MCSpeech   model values for TLC

They meet at what one hands to the other. The writer's offered batch is
Companion's `batch`, and a released delete its `asked`. HermesRuns settles one run;
Tasks takes it as `live`, `over` or `stuck` and orders its terminal against the
answers to dispatches and cancels. What Tasks has told its reader is what Updates
receives. A turn that is one step in Updates is the whole of Speech, and the floor
that Updates gives and revokes is Speech's `active`. Speech's rows are the ones that
enter VoiceTail's window.

### VoiceTail

`rows`, `open`, and the store's window are the context store's durable view;
`outbox`, `flight`, the numbers and `binding` are the writer's fields; `diskTail`
and `diskDeletes` are the two files. `version`, `written`, `frozenVer`,
`forgetVer` are the mirror's version counters. The critical sections of the
writer are synchronous on the event loop, so each is one action; the mirror
awaits a thread between snapshot and write and between the two writes, so it is
four (`Snapshot`, `WriteRecord`, `WriteTail`, `Landed`, or `WriteFails`), and
everything else may run between them. `offered`, `acked`, `released`, `verified`,
`asked`, `recorded`, `promised`, `replaced` are histories: what left the
writer, and what a caller or the companion was told; `exposed` are the recorded
deletes an unreadable record had forgotten when a version-1 tail was restored.

Abstractions: text is a row's identity. The byte budget of a batch and the
character budget of the store are nondeterministic choices of how many rows fit.
A file write is atomic (temporary, fsync, replace: `run_record.py:41-56`).
Pending deletes are a set, which the code's tuple is: the live binding is never
pending and adoption tests membership. Review progress and prior work kept in
the same file are a change of version (`OtherChange`). The writer permits two
overlapping delete requests, though the host's clear reservation normally
prevents it; the model allows them.

### HermesRuns

`pc[d]` is where dispatch `d` is: on its way (`ahead` of its record write,
`send`, `post`, `resend`, `promote`, ...), a tracked run (`live`, `settling`,
`stuck`), or an entry a starting session settles (`replaying`, `restopping`).
`pend` and `adm` are `_record_pending` and `_record_admitted`; `saver` is the
snapshot in `write_run_record` under `_record_lock`; `disk` is the file. `wire`
holds POSTs that Hermes has not handled, `starts`, `ended`, `retained`, `durable`
are Hermes. A POST may be handled after its sender timed out, after a resend, or
after the host was killed. The lookups before and after a POST can only refuse,
so they are `ReadinessFails` and `RefuseAdmission`.

Abstractions: every dispatch has a task identity and, if Hermes is durable, a
key of its own, so "task is already active" cannot arise. The run record is
configured. One host runs at a time (an OS lock excludes a second; another is
`Crash` and `Start`). Hermes' durable idempotency may appear (`Upgrade`, while
the host is down) but not disappear. Hermes retains a key for its window from
first use, which is later than its minting by more than a POST takes to arrive;
so a key is pruned only once it is `old` and no POST bearing it is under way. A
stop request has no effect of its own: a run may end at any time, and asking it
to stop only makes it likely. A run Hermes has forgotten counts as ended, and
asking about it may fail (`StopFails`, `SettleFails`). The updates queue (32
entries) does not fill. Cancel, approvals and validation of payloads are left out.

A start settles the record in two steps, as the code does: `SettleRecord` writes
the shortened file (awaited in a thread, api.py:552), and `ReportSettlement` counts
and reports what it dropped with an unknown outcome (553-572). In between those are
`Owed`, and a kill, or the cancellation of the start, leaves them `unreported`.

`DispatchPromise` is the abstract specification: a dispatch is durably noted before
its work begins, begins at most once, and the note of going work is dropped only by a
restart that then owes the report of it, which nothing but a kill takes away.
`HermesRuns!Promise` maps `kept` to the entries of the file, `owed` to what a start
has still to report, `reported` to what it counted as unknown, `forgotten` to
`unreported`, `over` to dispatches whose run has ended.

### Companion

One lock guards a conversation (`archive.py`, `VoiceArchive._lock`); `turn` is who
holds it and how far the holder is. Every await under the lock and every call to the
store or to Hermes ends a step, so that a kill, a fault or somebody else's change may
come between any two. `row` and `deletion` are the rows of the companion's SQLite
store (write-ahead `pending`, `committed`, `quarantined`; tombstone, manifest,
completion), `session` and `kin` are Hermes' sessions, `lease` its session lease,
`calls`, `rcall`, `fcall` the requests being served, and `live`, `fenced`, `active`,
`thread`, `callback` the process's memory, which `Crash` drops. Faults are explicit:
`MaxFaults` store writes or Hermes calls fail, each through the code's own handler
(quarantine, roll-back, refusal, retry). Foreign changes are other clients of Hermes:
a row written, a session deleted, branched, forked or compressed, the lease taken.

`ArchiveLog` is the abstract specification. The mapping takes `written` (what Hermes
committed), the sender's `acked`, and `shut`, which holds once a delete was recorded
or the session was spoiled: rows of it were committed and it is gone, ended by Hermes,
or holds a row of somebody else (`Spoiled`).

Abstractions: the chained hash of rows is the rows themselves; a lease's holder is
"ours" or not; a batch the size of a gap is numbers. Left out: the refusal of a
second write-ahead while one is pending, which the lock makes unreachable; the check
of copies when a completed delete is asked for again; the reconciliation of delegated children; reading memory back; the
review's watchdog, which the end of the thread stands for. Two review requests
outstanding at once (realtime's time-out and resend) are two in a row, as each waits for
the conversation and keeps nothing meanwhile. A close that cannot write a review's
outcome tries again with nothing changed. A delete of a conversation
that was never bound stays refused ("unbound"), so `ForgetSettles` speaks of bound ones.

### Tasks

A task's `stage` follows its entry from `_pending_dispatches` to `_active` and out;
`seen` is the sequence `_claim_sequence` compares with; `queue` and `ended` are the
terminal queue and the order of settlement; `fault` is the first failure, after which
the controller serves nothing new. `runs`, `clock`, `final` and `updates` are the
session: the numbers it gives and its bounded queue of updates. Operations of the
controller are owned tasks whose answers arrive in any order; a section without an
await is one step.

Abstractions: a task has one run and one terminal; numbers are per task (the host
gives each task a session view of its own); the answer to a cancel is numbered and
claimed in one step, as no await lies between. The host wraps the session, so closing
the controller does not close it. Approvals and steering are left out.

### Updates

`hand` is the decision the director is at (waiting, policy, slot, room); `decisions`,
`mentions`, `interrupts` its queues; `slots` the mention semaphore; `claims`
and `settled` what became of each update. `consumer` is the executor's decision loop,
`pc`, `bearer`, `mine`, `said` are its operations (a user's turn, an interrupt, the idle
drain): how far each is, the reservation it bears of the shared operation limit, the
mentions it has claimed, and whether a sentence was heard. `floor` and `revision` are
who speaks and whose claim to it is still current.

Abstractions: an update is named by its task, the policy is a choice, a task's end and
its done-callback are one step, the idle drain's choice of its next mention is a step
of its own. With evidence on (`Evidence`), interrupts and idle mentions that are
admitted consume their reservations, and the evidence may refuse to open their turn
(`OpeningRefused`); one it does not admit is spoken unrecorded. Replays
are the flag `resumable`. Terminals come in no order. Nothing releases retained or
audit records, as in the code. A close that fails is final ("stuck"): every later
close of the code fails the same way.

### Speech

`call` is how far each caller is: a turn or a replay from its admission through the
wait for cleanups (`settling`), the coordinator's drain (`draining`) and `speaking` to
how it ends; a command, a stop, the close. `line` is the queue of
`_cleanup_settlement_lock`; the first in it gathers the errors of the cleanups that end
meanwhile (`gathered`), as `_settle_owned_cleanups` does. `current` stands for all
comparisons of authority revisions: it names whose remembered revision is still the
loop's. `prod` and `cons` are the two tasks of a turn, `tidy` the cleanup of a revoked
one (`_settle_revoked_owner`), `retained` and `late` are what outlived its bounds
(`_provider_cleanup_tasks`). `made`, `pos`, `script` and `resumable` are publications,
what was heard of them, and what a replay has to say; `rows` and `open` the context.
A chunk is in the delivery ledger, started, exactly while its consumer is `playing`.

Abstractions: announcements, read-backs, evidence admission, rows that outgrow their
limit, and window eviction are left out; a synthesizer divides a segment the same way
each time, as replays assume; a publication queue belongs to its owner (the code's is
shared, and cleared whenever the owner changes); a caller that is cancelled is one of
the consumer's faults; an overtaken turn's producer never took a step, so its cleanup
has nothing to wait for. A close that failed may be retried in the code, not here.

## 3. Runs

| run | instance | shows |
|---|---|---|
| `rows` | 4 rows, store of 2, outbox of 2, a restart | `DurableTailParses`, `OfferDurable`, `OfferedOnce` |
| `deletes` | 2 delete requests, 2 restarts, both files damaged, no tail at first, a version-1 or a version-4 one | `TailInductive`, `ReleasedIsRetired`, `DeletedStaysGone`, `DeleteKept`, `DeletedPreviousIsTrue`, `RecordWritable` |
| `liveness` | every kind of earlier tail, failed writes, a restart, fairness | `ForgetReturns`, `PendingReleased`, `FrozenOffered` |
| `recovery` | 1 dispatch, 3 starts, 2 failed writes, Hermes durable or not, fairness | `RunsInductive`, `StartedClean`, `CloseClean`, `RejectedNeverStarts`, `PromiseKept`, `CallsEnd`, `EndReported` |
| `runs` | 2 dispatches, 1 slot, 2 starts, 1 failed write, symmetry | `ReportedIsOver`, `RecordFits` |
| `archive` | 2 archive requests alive, 4 numbers, batches of 2, a kill or close, a fault, a foreign change, a request given up; symmetry | `HonestlyOpen`, `IsArchiveLog` |
| `forget` | a batch, a review window, a derived session, the user's delete, a kill or close, a fault, a foreign change, fairness | `CompleteMeansGone`, `NoReviewOfDeleted`, `ReviewedOnce`, `BatchArchived`, `ForgetSettles` |
| `close_hangs` | a finished review, its delete, a close | violates `CloseEnds`, see 5 |
| `tasks` | 3 tasks, 2 slots, 1 terminal queued, 4 operations, 2 updates, fairness | `TerminalsKept`, `OnlyCancelsOvertake`, `WaiterWoken`, `RunReported` |
| `updates` | 2 updates, 1 turn, capacities of 1, evidence on and off, a fault, fairness | `SlotsConserved`, `UpdateKept`, `BearersOwned`, `InterruptSettles` |
| `interrupt_stranded` | a mention being spoken and an interrupt, evidence on | violates `InterruptTakesOver`, see 5 |
| `speech` | 2 turns, a replay, a stop or command, the close, any 4 of them; segments of 2 chunks; one turn's providers may fail or ignore cancellation | `HeardRight`, `InterruptedMarked`, `WordsKept`, `OneAtATime` |

Why the bounds are enough. *Voice tail*: a batch, the rows behind it and the
window each need two rows for order and gaps to be visible, and the fourth row
overflows behind a frozen batch; a delete needs a successor conversation and one
more to be confused with it, hence two requests (the one a version-4 tail holds counts); one failed write and one
restart between any two steps reach every order of the two files, and the second
restart meets what the first adopted. *Task session*: entries of different
dispatches meet only in the record (whole-file snapshots) and in the slots, so
two dispatches show every interference, and one slot makes one of them refused; a
run's own life needs a crash during its dispatch, a crash during the settlement of
the first, and a third start to find what that one left, in particular what it dropped
from the record and was killed before it reported; two failed writes cover one
on each side of a crash. That the safety properties hold for every number of
dispatches and slots is proved. *Companion*: a lost answer and its resend are two
requests alive at once; batches of two rows with gaps over four numbers give a first,
a continuing, a duplicate and a foreign batch; each kind of trouble comes once, at any
step, and the code's handlers of one are not entered by a second before the next
start, but for a review's callback whose failed write is followed by another
(`MaxFaults = 2` in `Forget.cfg` passes too, in twice the time). `archive` has no
delete: that nothing is written after one is the theorem `ArchiveIsLog`. Deleting is independent of a batch's length, so `forget` has one row and spends
its states on the review and on the session Hermes derives. *Tasks*: the third task is
the one that finds two slots taken and the queue of terminals full. *Updates*: the
capacities are 1, so that every queue, slot and claim fills with two updates.
*Speech*: three owners are needed for a rest kept from the first and replayed by the
third to meet the second's words; two chunks are the least a segment can be broken in,
and the order across segments is the theorem `RepliesAreHeardRight`;
any four of the five callers occur together, not all five. `MaxVersion` bounds only
row extensions and other changes, which play no part in `deletes`; the remaining `Max` constants with the comment
"bound" limit the environment. Symmetries permute values the specification never tells
apart, in runs without liveness.

Deadlock is not checked: a run ends when its bounds are used up, and a host may
simply stay closed. The liveness properties check what must not stop instead.

Every property has a mutant in `PROJECT.json`: a plausible bug in one mapped
definition (an operator named for it, next to the original), under which TLC
finds the property violated. Type invariants are conjuncts of one invariant of each
run.

### Fairness

*Voice tail* (`FairSpec` in VoiceTail): weak fairness of open, snapshot, landing, freezing and of the
two senders' calls, because each is a task the event loop keeps running; strong
fairness of a successful record and tail write, which says that the disk can be
written eventually: the mirror retries with backoff for ever (voice_tail.py:1509-1518),
so a write that is possible again and again does succeed. Nothing is assumed of
the user, of crashes or of the companion.

*Task session* (`FairSpec` in HermesRuns): weak fairness of each dispatch's next step
(`Proceeds(d)`: the event loop runs it, a request is answered or times out after
`request_timeout_seconds`, a stop is seen to work or given up after
`settlement_timeout_seconds`, the event stream delivers the end of a run unless it
breaks), of a write ending either way, and of a settled start going on. The stream is
opened without a time-out for reading (api.py:1174-1179), so the code does nothing about
a connection that falls silent without breaking; fairness excludes it, and `EndReported`
says nothing of it. Otherwise nothing is assumed of Hermes, of the network or of the run
itself.

*Companion*: weak fairness of the senders' retries (both loop with a delay for ever),
of the companion's own steps and of a review thread ending (its watchdog sees to it);
strong fairness of a request getting the lock, which asyncio hands out in order; weak
fairness of others giving a lease up, which expires. Nothing makes others change
anything, a process die or a user delete.

*Tasks*: the loop of terminals, an operation whose answer is there, an answer or its
time-out, and the director's next request. Nothing makes a run end or a user cancel.

*Updates*: the decision loop and every operation take the steps that are due, and
speech comes to an end (playback is bounded and may be cancelled); strong fairness of
the loop acting on a decision it holds, because each end of a preparation wakes it; a
paused drain is resumed. Nothing is assumed of the user, the policy or the provider.

*Speech* is checked for safety only, under no fairness: its waits are all bounded by
timers, and with them the instance is too large for TLC's liveness checking.

## 4. What the properties say

`DeletedStaysGone`, `DeleteKept`, `ReleasedIsRetired` and `DeletedPreviousIsTrue`
are about deletes across crashes: a conversation whose delete was recorded is
never restored or archived again, with the exception of a version-1 tail in section 5;
a delete stays pending until the companion
verified it; it is not handed out before process and disk can no longer write
its conversation; and the "previous" a review is told of is really the
predecessor. `OfferDurable` and `OfferedOnce` are about the archive: what was
sent is exactly what a resend, even after a restart, would send, and no row is
sent under two numbers. `RecordWritable` says the record never refuses its own
content, on which the mirror would loop.

`PromiseKept`, `StartedClean` and `CloseClean` are about runs on Hermes: none is
started twice, none is going that is neither in the record of a session that is up nor
was reported, and none is left by a clean close except of unknown outcome: this
session's stay on disk, an earlier one's were reported. All three except what a
start killed before its report had dropped (`unreported`, section 5). `ReportedIsOver` and `RejectedNeverStarts` are about what callers are told.
The second holds only while no record write failed: the removal of a refused
dispatch is best effort, and if it is lost the next start replays the dispatch
and may start the work in order to stop it, as the comment in
`_persist_record_best_effort` (api.py:957-960) accepts. `RecordFits` says that the
file is one the next start's parser accepts. `CallsEnd` and `EndReported` are about
waiting: every start and dispatch ends, and so does whoever waits for a run's end.

`IsArchiveLog` is the companion's archive seen from outside; `HonestlyOpen` says its
write-ahead record settles every interruption of its own, so that a quarantine is
always somebody else's doing. `CompleteMeansGone` is what the user was promised of a
delete, for the session, its copies and the branches of it. A fork made after the
copies were captured bears no marker and is not promised (forget.py:151-166).
`BatchArchived` and `ForgetSettles` say that both come to an end, through retries,
review threads and restarts; a review whose outcome could not be written (`Unrecorded`)
holds its conversation's delete up until the next start (section 5).

`TerminalsKept` follows a terminal through three queues and the window before the
dispatch is acknowledged. `OnlyCancelsOvertake` characterises the one reordering that
fails the controller (see 5). `WaiterWoken` and `RunReported` are about the director,
which waits without a time-out.

`SlotsConserved`, `UpdateKept` and `BearersOwned` are conservation laws over the
director, the executor and the operation limit; a leak of any of the three stops
updates for good without an error. `InterruptSettles` is the retry loop around a
replacement that may time out.

`HeardRight` is the promise of the context: confirmed speech only, each chunk once and
in order over any number of stops and replays, and only after the question it answers.
`InterruptedMarked` and `WordsKept` say when a broken reply is flagged and a user's
words are recorded, and name the exceptions (see 5). `OneAtATime` is about providers
that ignore cancellation: no second inference and no second voice starts until the
first is known to be over.

## 5. Findings

`close_hangs`: a review's thread has ended, its conversation's delete completes and
removes the row its outcome is kept with, and then the companion closes. `join` asks
for that outcome, is refused as unbound (store.py:475-477), `cancel_and_join` takes the
refusal for a thread that has not ended (review.py:483), and the loop of
host.py:652-661 retries for ever, although host.py:587 calls close bounded.

`interrupt_stranded`: with evidence recorded, an idle mention consumes its operation
reservation when its turn is reserved, so the interrupt that should take it over raises
(admission.py:384-385, actions.py:938), the decision loop ends with that error, no
response is admitted any more, and the director's close fails for the claim.
`test_interrupt_transfer_replaces_proactive_authority_before_spawn` asserts the
interrupt is delivered, with evidence patched off.

Other behaviour met while modelling, which the properties characterise and no run
reports as violated:

- A start that is killed, or cancelled, after it wrote the shortened record (api.py:552)
  and before it counted and printed what became of the entries (553-572) never reports
  the ones of unknown outcome, and no later start can, as the record no longer names
  them; a run of theirs may still be going. docs/adr/0003 says of such an entry that
  "its outcome is reported as unknown". `StartedClean`, `CloseClean` and
  `DispatchPromise` except exactly these dispatches (`unreported`); without the
  exception TLC finds both invariants violated in `recovery`.
- An unreadable delete record and a version-1 tail: `binding != self._deletes.live`
  compares `None` with `None` (voice_tail.py:1426), so a version-1 tail that is the
  deleted conversation is restored, against the comment above it (1419-1421). It takes
  a kill between the two files, before the delete has returned, and a damaged record.
  `DeletedStaysGone` excepts the rows of exactly these deletes (`exposed`); without the
  exception TLC finds it violated in `deletes`. An archive tail beside an unreadable
  record is not restored, and a version-1 tail beside a readable one neither
  (tests/integration/test_voice_deletes.py:484, 585).
- A review's callback cancels the watchdog before it writes the outcome
  (review.py:378-383). If that write fails, the outcome stays accepted and the end of the
  review is not announced (387), so `admitted` (223-230) defers every reconciliation of
  the conversation's delete (forget.py:105), and the next review is refused, until the
  companion is restarted. `ForgetSettles` excepts this state (`Unrecorded`); without
  the exception TLC finds it violated in `forget`.
- The answer to a cancel may overtake the task's terminal, which is then refused as
  stale and fails the controller (tasks.py:748-768). `OnlyCancelsOvertake` shows it is
  the only such case.
- A turn overtaken while it waits for the cleanup of what it displaced, by any change of
  the revision (a `cancel()` with nothing to cancel included), or refused because an
  earlier turn's cleanup failed or is pending, never records the user's final words,
  although conversation/commands.py:75-76 speaks of a final input as recorded.
  `WordsKept` lists these cases.
- `record_user_input` looks at the active consumer and the cleanups, not at a consumer
  that outlived its cleanup: its row may displace that consumer's open row, against its
  docstring, which then stays unflagged. `InterruptedMarked` states the exception.
- A replay that is revoked before it republished all its segments loses the rest of
  them (streaming.py:2224, 2421-2427).
- An interrupt taken while `_close_owned` waits for the foreground finds the operation
  limit closed; its claim is never settled, and the director's close fails for ever
  (`executor = "stuck"` in Updates). The same holds for a decision that waits for room
  (`_actions_ready`) when close cancels the loop.
- The second mention of an idle drain under evidence finds its reservation consumed;
  it returns to the queue and waits for the next operation or decision.
- Nothing releases audit and retained records: after 256 decisions the director fails
  (updates.py:711).

## 6. Proofs

The proofs assume nothing but the named assumptions on the constants: no fairness, and
no bound on crashes, failed writes, faults, foreign changes or requests.
`HermesRunsAssumption`, `VoiceTailAssumption` and `MaxOutboxAssumption` say that bounds
are numbers. `TasksAssumption` adds `MaxActive <= MaxUpdates` (8 reservations in
`conversation/context.py` against 32 entries in `integration/api.py`, which no caller
changes): with it the queue of updates cannot fill with terminals. `CompanionAssumption`
adds that requests, sessions and windows have names that are not those of the
companion's own activities.

Each component has one inductive invariant, VoiceTail three, each around the one before;
TLC checked each on the instances of its runs before it was proved. The outermost one of
VoiceTail (`TailInductive`) and that of HermesRuns are properties of a run.

**VoiceTailProofs.** `InductiveInvariant`: `Spec => []Inductive`.
`ReleasedIsRetired` and `OfferDurable` are not inductive alone. A delete is
released when `written >= forgetVer`; that this means the tail on disk no longer
holds the conversation needs the order of the versions (`VersionOrder`), that a
snapshot as new as the request carries the retirement (`WritesAreCurrent`,
`SnapshotIsSafe`), that the live binding is never pending (`LiveIsKept`), and
that a new binding is one no file names (`KnownIds`). From it:
`ReleasedStaysRetired` and `OfferStaysDurable`.

`DeletesInvariant`: `Spec => []DeletesInductive`, which adds to `Inductive` what the
delete record needs. A record is `SoundRecord` in memory, in the mirror's hands and on
disk; only the version-4 tail of an earlier build can push a record one over its limit,
once (`EarlierTail`). `RetireGenSkips` says of the next generation that it comes right
after a recorded delete only if that delete is the conversation being replaced
(`AdjacentIsReplaced`). `RecordFirst` is the order of the two files, `Retired` that a
conversation whose delete is recorded is never live again, because a tail that still
holds it is not the record's live one, and `OffersShow` that a conversation with an
offered batch has a cursor or a batch in flight, on which `request_forget` decides.
From it: `RecordStaysWritable`, `OutcomeIsThePrevious` and `DeletesAreKept`.

`TailInvariant`: `Spec => []TailInductive`, which adds the rows (`RowsInductive`) and what
a deleted conversation leaves (`GoneInductive`). A conversation's rows exist up to three
times: in memory, in the mirror's hands and in the file. Each is a tail, and each is
`TailSound`. Its numbers are a chain from the archive's cursor to the next number: a row,
or a row and the gap before it, follows what came before (`Parses`, read as `Chained` and
`Closes`). Its rows rise in the order they were spoken in, those without a number after
all that have one (`TailRising`). And of the batches ever offered of its conversation, the
cursor is the end of one, and each is the one in flight or is behind the cursor and before
every row that may still be offered (`TailOffers`). So a tail that is older than memory
is as good as memory: what a restart offers from it either is the batch that was offered
or begins at its cursor. `NumbersFollow` says that exactly the closed rows of the window
have a number, so that rows evicted before they closed, and those that close when they
are restored, get the next ones. The lemmas on `Discard`, `Overflow` and `Admit`
(`DiscardFits`, `OverflowFits`, `AdmitFits`) say that each keeps the chain; `AssignKeeps`
carries what one row keeps over the recursive function in `Assign`, by a least
counterexample as in SubsequenceProofs. From it: `DurableTailAlwaysParses` and
`OfferedIsOneHistory`, for every size of outbox and window.

`DeletedStaysDeleted` is `DeletedStaysGone` of every behaviour. That a conversation begun
after a request holds no row from before it is `RequestsFollow`; that neither file is
ahead of the mirror, nor the mirror of memory, in the order of the conversations is
`FilesTrail`; and `RecordedIsOver` says that, once a request is recorded, the live
conversation, the write under way and a record that can be read name later ones, and
once it returned the tail does. The exception is needed where a restart meets a tail whose
conversation only the record could name: a version-1 tail has no binding, and beside a
record that cannot be read the code restores it (section 5). `ExposedIsUnanswered` says
that only a delete that had not returned can be among the excepted.

**HermesRunsProofs.** `RunsInvariant`: `Spec => []RunsInductive`. Its centre is
`Accounted`: a run that is going, or that a POST on its way may start, is in the
file, in the write in progress and in memory, or a start dropped its note and has
reported it, owes the report, or was killed owing it. Why no step loses
it: `Noted` (a dispatch that may have been sent is on disk, and in every write
that may replace the disk), `Once` (work that started is not started again,
because a key is retained while a POST bearing it may arrive, and without a key
there is one POST), `Places` and `Phases` (what the stage of a dispatch and of
the host say of memory), `Writes`. `Refusals` and `Slots` are the strengthenings
for rejections and for the size of the record. From it follow `UpKnowsItsRuns`,
`CloseLeavesNothing`, `ReportIsFinal`, `RejectionIsFinal`, `RecordAlwaysFits`,
and the refinement `SessionKeepsPromise`: a start of the work is `Begin`, which
`Accounted` enables; a landed write and a settled record are `Note`, which
`Accounted` in the next state allows, with what a start drops then owed
(`DroppedStep`); its report is `Report`, a kill before it `Kill`; the end of a run is
`Finish`; everything else stutters. `Dropped` says that what was reported, owed or
left unreported is nowhere any more: not in memory, a write under way or the file.

**TasksProofs.** `TasksInvariant`: `Spec => []TasksInductive`. `TerminalsKept` counts
places; that no step makes the count 2 or 0 needs to know which places each stage of a
dispatch allows (`RunsByStage`, `OnePlace`, `SomePlace`), and that a terminal put in the
session's queue finds room (`Capacity`: each entry has a reservation, and there are at
most `MaxActive`; also `ReservationsBounded`). `OnlyCancelsOvertake` says who can refuse
a number: `Numbers` relates the clock of the session, the number of the terminal and the
highest number seen, stage by stage, so that only a cancel's answer is left; `Overtaken`
is the form of it that is kept by every step. `InOrder` (what was told, followed by the
terminals queued, is the order of settlement) is about a list comprehension over the
queue, and rests on the lemmas of SubsequenceProofs.

**CompanionStepProofs, CompanionProofs.** `CompanionInvariant`: `Spec =>
[]CompanionInductive`. The archive, the delete and the review share one lock, so the
invariant says what the holder's next step relies on, and that nobody else can disturb
it. `TurnHeld` is who may be at which step, and that a recorded delete keeps openers
out. `RowsHeld` is what the write-ahead record proves: what was written is committed or,
while the end of a write is not known, pending; and the session holds exactly that,
unless it is gone or bears somebody else's row. `CallsHeld` is about requests that are
resent, late or given up: each carries rows already written, or the one batch that
continues the log. `ReviewsHeld`, `DeleteHeld` and `Untouched` are the strengthenings of
`NoReviewOfDeleted` and `ReviewedOnce`, of `CompleteMeansGone` (what each step of the
delete has already made absent, and that it stays absent while others branch and fork),
and of `HonestlyOpen`. From it follow the theorems `OpenIsHonest`, `CompleteIsGone`,
`DeletedIsNotReviewed`, `ReviewedAtMostOnce`, and the refinement `ArchiveIsLog`: a write
that Hermes commits, its answer known or not, is `Append1`, and it is allowed because of
`RowsHeld` and `CallsHeld`; the reply the sender takes is `Acknowledge`; recording the
delete, and a foreign change that spoils the session, is `Shut`; every other step
stutters.

**UpdatesProofs.** `UpdatesInvariant`: `Spec => []UpdatesInductive`. The three
properties count things that many actions move between variables, so the invariant says
where each thing is. `SlotsConserved` is inductive with `QueuesHeld` and `ClaimsHeld`: a
mention that waits has no claim, and what an operation claimed (`mine`) are mentions with
a claim, each of one operation, so a turn that takes several, or gives them back or
settles them, moves as many as it has. `UpdateKept` needs the same of interrupts
(`InterruptsHeld`): from the decision queue, through the loop's hands, to an operation
that is named by its task and past which nothing finds it again. What the queue of
interrupts holds is a comprehension over the queue of decisions. `BearersOwned` is about
the shared limit (`BearersHeld`): an interrupt that takes over the idle operation's
reservation and gives it back leaves as many as before (`SwapBears`), and who goes on
keeps what it has. Most steps move operations along and no update: `QuietKeeps` and
`GoOn` say once that such a step keeps the invariant. From it: `SlotsAreConserved`,
`UpdatesAreKept`, `BearersAreOwned`.

**SpeechProofs.** `SpeechConducted`: `Spec => []Conducted`. The floor comes first
(`FloorHeld`): the owner of the floor is alone (`ActiveHeld`), and that the next turn
finds nobody else at work when it takes it needs who may still be at work after a
revocation (`RevokedHeld`: who is cleaned up, or whose consumer was given up on and is
retained), that nobody plays while a turn drains (`DrainHeld`), and that of those who
wait, the one that was not overtaken is the last in line (`LatestWaits`), so that two
turns never open from one drain. `OneAtATime` is inductive with these (`FloorStep`). The
words follow (`WordsHeld`: an error gathered in the line was somebody's cleanup, which
stays failed), then the rows (`RowsHeld`: a reply is one row, which is open and the last,
or displaced by a command's, as long as its consumer may add to it), which need
`PlaysHeld`: a consumer plays within what was published. From it: `OneSpeaksAtATime`,
`WordsAreKept`, `InterruptionsAreMarked`.

`SpeechInvariant`: `Spec => []SpeechInductive` adds what is heard. `HeardInOrder` alone says
nothing of what comes next, so a plan does: the segments an owner is to say, each with how
much of it is heard in any reply so far. `PlansHeld` says of two plans, the one of the owner
that was not overtaken and the one kept for a replay, that they continue what the rows hold
(`Continues`): of a segment exactly its first chunks are heard, everything before it is, and
nothing after it until it is heard to its end; and the answer is to the latest question. A
delivered chunk is the next one of its plan (`NextInOrder`), which then continues
(`PlanAdvances`); what a stop leaves is a part of the plan that goes on where the whole did
(`PlanLeft`, from `Rest` and the lemmas on `Sift`), and a replay takes over what is kept. A
turn that takes the floor has said nothing, because what is heard of it would need its
question to be recorded. From it: `RepliesAreHeardRight`.

**SubsequenceProofs.** `Sift` is a recursive function over the positions of a sequence.
The library's induction theorems cannot be used with the provers at hand, as they take
an operator as a parameter; the lemmas are proved by a least counterexample instead: a
set of naturals that is not empty has a least element (`LeastNumber`).

**Only model-checked.** The liveness properties: fairness and ENABLED are out of the
prover's reach. Every safety invariant and action property of a passing run is stated by
a theorem.

## 7. Plan

In order of importance.

1. The host's delete transaction (`host_launcher.py:2791-2870`) over VoiceTail's
   request_forget and Companion's completion.
2. Projection (`client/projection.py`), Playback (`livekit/playback.py`), the bridge's
   sequencing (`integration/sequencing.py`, `bridge.py`), EvidenceLifecycle (`evidence/`).

## 8. Not modelled

Providers, LiveKit media, HTTP and address checks, wire formats, prompts, tool schemas
and telemetry: I/O and data without order of their own. Review windows and memory on
realtime's side, approvals and steering, announcements and read-backs, task proposals:
parts of modelled components, named in `PROJECT.json`. The evidence spool and its
erasure, the client's projection, the bridge and the launcher's order of closing have
order of their own and are in the plan. The test harness is not part of the program.
