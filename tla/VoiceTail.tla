----------------------------- MODULE VoiceTail -----------------------------
(***************************************************************************)
(* The voice tail writer (integration/voice_tail.py) with the store it     *)
(* mirrors (conversation/context.py), the two files it owns and the delete *)
(* record beside the tail (integration/voice_deletes.py).                  *)
(*                                                                         *)
(* The store calls the writer synchronously on every change.  One task,    *)
(* the mirror, writes the delete record and then the tail, each by an      *)
(* atomic replace.  An archive sender asks for batches and acknowledges    *)
(* them, a forget sender does the same for deletes, and the host may be    *)
(* killed between any two steps.  One step here is what the event loop     *)
(* runs between two suspensions.                                           *)
(***************************************************************************)
EXTENDS VoiceOutbox

CONSTANTS
  MaxMessages,        \* rows the store retains
  MaxBatch,           \* rows of one archive batch
  MaxPendingDeletes,  \* deletes a request may leave pending
  InitialTails,       \* what an earlier build left on disk
  MaxRows,            \* bound: rows ever pushed
  MaxVersion,         \* bound: versions up to which a change of no row happens
  MaxRestarts,        \* bound: crashes and closes
  MaxForgets,         \* bound: delete requests, that of a version-4 tail included
  MaxTailFaults,      \* bound: corruptions of the tail
  MaxRecordFaults     \* bound: corruptions of the delete record

ASSUME VoiceTailAssumption ==
  /\ MaxMessages \in Nat \ {0}
  /\ MaxBatch \in Nat \ {0} /\ MaxBatch < MaxOutbox
  /\ MaxPendingDeletes \in Nat \ {0}
  /\ InitialTails \subseteq {"none", "legacy", "forget"}
  /\ {MaxRows, MaxVersion, MaxRestarts, MaxForgets, MaxTailFaults, MaxRecordFaults} \subseteq Nat

VARIABLES
  view,          \* what the store would restore: [rows, first, unsettled]
  binding,       \* the live conversation: [id, gen]
  seqs,          \* [base, next]: the number of the first row, the next number
  cursor,        \* the last number acknowledged, or None
  flight,        \* the frozen rows, sent until acknowledged
  queue,         \* [unsent, gap]: the rows after them, and the trailing gap
  deletes,       \* [pending, outcome, live, lost]
  version, dirty,                  \* changes so far; whether one is unwritten
  written, frozenVer, forgetVer,   \* the version durable, of the freeze, of the forget
  writtenDeletes, \* {what the record holds}, or {} when it is unreadable
  pc,            \* the mirror: "down", "idle", "record", "tail" or "landed"
  snap,          \* what the mirror is writing: [version, deletes, tail]
  diskTail,      \* the tail file
  diskDeletes,   \* the record file: [readable, deletes]
  offered,       \* history: batches handed to the archive sender
  acked,         \* history: batches an acknowledgment removed
  released,      \* history: bindings handed to the forget sender
  verified,      \* history: bindings the companion verified deleted
  asked,         \* history: requests not yet returned, [binding, upTo]
  recorded,      \* history: requests whose record is durable
  promised,      \* history: requests that returned
  replaced,      \* history: <<conversation, the one it replaced>>
  exposed,       \* history: recorded requests that an unreadable record forgot
                 \*          just when a version-1 tail was restored
  nextUid, nextId,            \* fresh row and conversation identities
  restarts, forgets, tailFaults, recordFaults

conversation == <<binding, seqs, cursor, flight, queue>>
versions     == <<version, dirty, written, frozenVer, forgetVer, writtenDeletes>>
mirror       == <<pc, snap>>
disk         == <<diskTail, diskDeletes>>
history      == <<offered, acked, released, verified, asked, recorded, promised, replaced,
                  exposed>>
bounds       == <<nextUid, nextId, restarts, forgets, tailFaults, recordFaults>>
vars == <<view, conversation, deletes, versions, mirror, disk, history, bounds>>

-----------------------------------------------------------------------------

NoBinding == [id |-> 0, gen |-> 0]
NoDeletes == [pending |-> {}, outcome |-> NoBinding, live |-> NoBinding, lost |-> FALSE]
LostDeletes == [pending |-> {}, outcome |-> NoBinding, live |-> NoBinding, lost |-> TRUE]
EmptyView == [rows |-> <<>>, first |-> 0, unsettled |-> 0]
NoTail    == [kind |-> "none"]
NoSnap    == [version |-> 0, deletes |-> NoDeletes, tail |-> NoTail]

Up == pc # "down"

HoldsDeletes(d) == d.pending # {} \/ d.outcome # NoBinding \/ d.lost

(* The record's own parser, which every write of it must satisfy first.    *)
RecordValid(d) ==
  /\ Cardinality(d.pending) <= MaxPendingDeletes + 1
  /\ d.outcome \notin d.pending
  /\ d.live # NoBinding => d.live \notin d.pending /\ d.live # d.outcome

(* Whether the record must be written before the next tail.                *)
MustRecord(d, onDisk) == HoldsDeletes(d) /\ d \notin onDisk

(* Delete outcomes are ordered by generation: keep the newest.             *)
NewestOutcome(d, b) ==
  IF d.outcome # NoBinding /\ d.outcome.gen > b.gen THEN d.outcome ELSE b

(* A plausible bug: the adjacent generation is never skipped.              *)
RetireGenAdjacent(gen, d, previous) ==
  Max({gen, d.live.gen} \union {r.gen + 1 : r \in (d.pending \union {d.outcome}) \ {NoBinding}})

(* The generation of the next conversation.  The one right after a         *)
(* recorded delete is reserved for the conversation that replaces it.      *)
RetireGen(gen, d, previous) ==
  LET taken == (d.pending \union {d.outcome}) \ {NoBinding}
      floor    == Max({gen, d.live.gen} \union {r.gen + 1 : r \in taken})
  IN  IF \E r \in taken : floor = r.gen + 1 /\ r # previous THEN floor + 1 ELSE floor

NewBinding(gen, d, previous) == [id |-> nextId, gen |-> RetireGen(gen, d, previous)]

(* What the mirror would write now.                                        *)
CurrentTail ==
  [kind |-> "archive", binding |-> binding, next |-> seqs.next,
   settled |-> Settled(seqs, view), cursor |-> cursor, flight |-> flight,
   unsent |-> queue.unsent, gap |-> queue.gap, rows |-> view.rows, forget |-> NoBinding]

(* What the tail's parser accepts.                                         *)
Parses(tail) ==
  \/ tail.kind = "legacy"
  \/ /\ tail.kind = "archive"
     /\ Len(tail.rows) <= MaxMessages
     /\ tail.settled <= Len(tail.rows) /\ tail.settled <= tail.next
     /\ Len(tail.flight) + Len(tail.unsent) <= MaxOutbox
     /\ Partitions(tail.cursor, tail.flight \o tail.unsent, tail.gap, tail.next)
     /\ tail.forget # NoBinding =>
          tail.binding.gen > tail.forget.gen /\ tail.binding.id # tail.forget.id

(* The binding a tail carries; a version-1 tail carries none.              *)
TailBinding(tail) == IF tail.kind = "archive" THEN tail.binding ELSE NoBinding

Batch == [binding |-> binding, rows |-> flight]
SeqFrom(batch)    == StartOf(Head(batch.rows))
SeqThrough(batch) == Last(batch.rows).seq

-----------------------------------------------------------------------------
(* What the files may hold when this build first opens them: nothing, a    *)
(* version-1 tail, or a version-4 tail that keeps one delete itself.       *)

LegacyRows == <<[uid |-> 1, kind |-> "user"]>>

InitialTail(kind) ==
  CASE kind = "none"   -> NoTail
    [] kind = "legacy" -> [kind |-> "legacy", rows |-> LegacyRows]
    [] kind = "forget" -> [kind |-> "archive", binding |-> [id |-> 2, gen |-> 1], next |-> 0,
                           settled |-> 0, cursor |-> None, flight |-> <<>>, unsent |-> <<>>,
                           gap |-> NoGap, rows |-> <<>>, forget |-> [id |-> 1, gen |-> 0]]

(* A process that is not running keeps nothing.                            *)
Down ==
  /\ pc' = "down" /\ snap' = NoSnap
  /\ view' = EmptyView /\ binding' = NoBinding /\ seqs' = [base |-> 0, next |-> 0]
  /\ cursor' = None /\ flight' = <<>> /\ queue' = EmptyQueue
  /\ deletes' = NoDeletes /\ writtenDeletes' = {}
  /\ version' = 0 /\ dirty' = FALSE /\ written' = 0 /\ frozenVer' = 0 /\ forgetVer' = 0

Init ==
  /\ pc = "down" /\ snap = NoSnap
  /\ view = EmptyView /\ binding = NoBinding /\ seqs = [base |-> 0, next |-> 0]
  /\ cursor = None /\ flight = <<>> /\ queue = EmptyQueue
  /\ deletes = NoDeletes /\ writtenDeletes = {}
  /\ version = 0 /\ dirty = FALSE /\ written = 0 /\ frozenVer = 0 /\ forgetVer = 0
  /\ \E kind \in InitialTails :
       /\ diskTail = InitialTail(kind)
       /\ nextUid = IF kind = "legacy" THEN 2 ELSE 1
       /\ nextId  = IF kind = "forget" THEN 3 ELSE 1
       /\ replaced = IF kind = "forget"
                     THEN {<<[id |-> 2, gen |-> 1], [id |-> 1, gen |-> 0]>>} ELSE {}
  /\ diskDeletes = [readable |-> TRUE, deletes |-> NoDeletes]
  /\ offered = {} /\ acked = {} /\ released = {} /\ verified = {} /\ asked = {}
  /\ recorded = {} /\ promised = {} /\ exposed = {}
  /\ forgets = (IF diskTail.kind = "archive" THEN 1 ELSE 0)   \* the one a version-4 tail holds
  /\ restarts = 0 /\ tailFaults = 0 /\ recordFaults = 0

-----------------------------------------------------------------------------
(* The store's changes.  Each one calls the writer before it returns.      *)

Changed ==
  /\ version' = version + 1
  /\ dirty' = TRUE

Update(next) ==
  /\ view' = next
  /\ queue' = Assign(queue, Len(flight), seqs, next)
  /\ seqs' = Advance(seqs, next)
  /\ Changed

StoreFrame ==
  UNCHANGED <<binding, cursor, flight, deletes, written, frozenVer, forgetVer, writtenDeletes,
              mirror, disk, history, nextId, restarts, forgets, tailFaults, recordFaults>>

(* How many rows the budgets may evict when the store holds these: enough  *)
(* for the row bound, more for the character bound, never the newest.      *)
Evictions(rows) == {n \in 0..(Len(rows) - 1) : Len(rows) - n <= MaxMessages}

(* The view with n rows evicted; an open row that goes is open no longer.  *)
Evict(rows, unsettled, n) ==
  [rows |-> SubSeq(rows, n + 1, Len(rows)), first |-> view.first + n,
   unsettled |-> IF unsettled > Len(rows) - n THEN 0 ELSE unsettled]

(* A final transcript.  A row still open stays open behind it.             *)
RecordUserTranscript(kind) ==
  /\ Up /\ nextUid <= MaxRows
  /\ nextUid' = nextUid + 1
  /\ LET rows == Append(view.rows, [uid |-> nextUid, kind |-> kind])
         open == IF view.unsettled > 0 THEN view.unsettled + 1 ELSE 0
     IN  \E n \in Evictions(rows) : Update(Evict(rows, open, n))
  /\ StoreFrame

(* The first heard chunk of an assistant segment opens its row, and        *)
(* settles whatever row was open before.                                   *)
OpenSegment ==
  /\ Up /\ nextUid <= MaxRows
  /\ nextUid' = nextUid + 1
  /\ LET rows == Append(view.rows, [uid |-> nextUid, kind |-> "assistant"])
     IN  \E n \in Evictions(rows) : Update(Evict(rows, 1, n))
  /\ StoreFrame

(* A later chunk of the same segment extends its row, the last one.        *)
ExtendSegment ==
  /\ Up /\ version < MaxVersion
  /\ view.unsettled = 1
  /\ \E n \in Evictions(view.rows) : Update(Evict(view.rows, 1, n))
  /\ UNCHANGED nextUid
  /\ StoreFrame

(* The open row ends: its speech completed or was interrupted.             *)
CloseSegment ==
  /\ Up /\ view.unsettled > 0
  /\ Update([view EXCEPT !.unsettled = 0])
  /\ UNCHANGED nextUid
  /\ StoreFrame

(* A change of prior work, or of review progress: nothing here but its     *)
(* version.                                                                *)
OtherChange ==
  /\ Up /\ version < MaxVersion
  /\ Changed
  /\ UNCHANGED <<view, queue, seqs, nextUid>>
  /\ StoreFrame

-----------------------------------------------------------------------------
(* The archive sender's calls.                                             *)

(* Freeze a batch: as many rows as the row and byte budgets take.          *)
Freeze ==
  /\ Up /\ flight = <<>> /\ queue.unsent # <<>>
  /\ \E n \in 1..Min({MaxBatch, Len(queue.unsent)}) :
       /\ flight' = SubSeq(queue.unsent, 1, n)
       /\ queue' = [queue EXCEPT !.unsent = SubSeq(@, n + 1, Len(@))]
  /\ Changed
  /\ frozenVer' = version + 1
  /\ UNCHANGED <<view, binding, seqs, cursor, deletes, written, forgetVer, writtenDeletes,
                 mirror, disk, history, bounds>>

(* A plausible bug: the batch is handed out as soon as it is frozen.       *)
OfferUndurable ==
  /\ Up /\ flight # <<>>
  /\ offered' = offered \union {Batch}
  /\ UNCHANGED <<view, conversation, deletes, versions, mirror, disk, acked, released, verified,
                 asked, recorded, promised, replaced, exposed, bounds>>

(* A plausible bug: a write must be newer than the freeze, not as new.     *)
NextBatchStrict ==
  /\ Up /\ flight # <<>> /\ written > frozenVer
  /\ offered' = offered \union {Batch}
  /\ UNCHANGED <<view, conversation, deletes, versions, mirror, disk, acked, released, verified,
                 asked, recorded, promised, replaced, exposed, bounds>>

(* Hand the frozen batch out once a write that holds it completed.         *)
NextBatch ==
  /\ Up /\ flight # <<>> /\ written >= frozenVer
  /\ offered' = offered \union {Batch}
  /\ UNCHANGED <<view, conversation, deletes, versions, mirror, disk, acked, released, verified,
                 asked, recorded, promised, replaced, exposed, bounds>>

(* An acknowledgment of a batch, however old.  It removes the batch in     *)
(* flight only if it names exactly its conversation and range.             *)
Acknowledge(batch) ==
  /\ Up /\ flight # <<>>
  /\ batch.binding = binding
  /\ SeqFrom(batch) = SeqFrom(Batch) /\ SeqThrough(batch) = SeqThrough(Batch)
  /\ cursor' = <<SeqThrough(batch)>>
  /\ flight' = <<>>
  /\ acked' = acked \union {Batch}
  /\ Changed
  /\ UNCHANGED <<view, binding, seqs, queue, deletes, written, frozenVer, forgetVer,
                 writtenDeletes, mirror, disk, offered, released, verified, asked, recorded,
                 promised, replaced, exposed, bounds>>

-----------------------------------------------------------------------------
(* The delete request and the forget sender's calls.                       *)

(* Whether a batch of the live conversation can have left this host.       *)
EverOffered == cursor # None \/ flight # <<>>

(* Start the next conversation with an empty outbox.                       *)
Retire(d, new) ==
  /\ binding' = new
  /\ nextId' = nextId + 1
  /\ seqs' = [base |-> 0, next |-> 0]
  /\ cursor' = None /\ flight' = <<>> /\ queue' = EmptyQueue
  /\ deletes' = [d EXCEPT !.live = new]

(* The store clears, the conversation is retired and its delete recorded,  *)
(* all before the first suspension; the request returns when it is durable.*)
RequestForget ==
  /\ Up /\ forgets < MaxForgets
  /\ Cardinality(deletes.pending) < MaxPendingDeletes
  /\ forgets' = forgets + 1
  /\ view' = EmptyView
  /\ LET new == NewBinding(binding.gen + 1, deletes, binding)
     IN  /\ Retire(IF EverOffered
                   THEN [deletes EXCEPT !.pending = @ \union {binding}]
                   ELSE [deletes EXCEPT !.outcome = NewestOutcome(deletes, binding)], new)
         /\ replaced' = replaced \union {<<new, binding>>}
  /\ asked' = asked \union {[binding |-> binding, upTo |-> nextUid - 1]}
  /\ version' = version + 2 /\ dirty' = TRUE
  /\ forgetVer' = version + 2
  /\ UNCHANGED <<written, frozenVer, writtenDeletes, mirror, disk, offered, acked, released, verified,
                 recorded, promised, exposed, nextUid, restarts, tailFaults, recordFaults>>

(* A plausible bug: deletes are handed out as soon as the record has them. *)
ReleaseOnRecord ==
  /\ Up /\ deletes.pending # {}
  /\ deletes \in writtenDeletes
  /\ released' = released \union deletes.pending
  /\ UNCHANGED <<view, conversation, deletes, versions, mirror, disk, offered, acked, verified,
                 asked, recorded, promised, replaced, exposed, bounds>>

(* A plausible bug: a write must be newer than the request, not as new.    *)
NextDeletesStrict ==
  /\ Up /\ deletes.pending # {}
  /\ written > forgetVer
  /\ released' = released \union deletes.pending
  /\ UNCHANGED <<view, conversation, deletes, versions, mirror, disk, offered, acked, verified,
                 asked, recorded, promised, replaced, exposed, bounds>>

(* Hand every pending delete out, once the tail that retired it is durable.*)
NextDeletes ==
  /\ Up /\ deletes.pending # {}
  /\ written >= forgetVer
  /\ released' = released \union deletes.pending
  /\ UNCHANGED <<view, conversation, deletes, versions, mirror, disk, offered, acked, verified,
                 asked, recorded, promised, replaced, exposed, bounds>>

(* A plausible bug: a delete becomes the outcome and stays pending.        *)
AcknowledgeForgetKeeps(b) ==
  /\ Up /\ b \in deletes.pending
  /\ deletes' = [deletes EXCEPT !.outcome = NewestOutcome(deletes, b)]
  /\ verified' = verified \union {b}
  /\ Changed
  /\ UNCHANGED <<view, conversation, written, frozenVer, forgetVer, writtenDeletes, mirror,
                 disk, offered, acked, released, asked, recorded, promised, replaced, exposed, bounds>>

(* The companion verified one delete complete.                             *)
AcknowledgeForget(b) ==
  /\ Up /\ b \in deletes.pending
  /\ deletes' = [deletes EXCEPT !.pending = @ \ {b}, !.outcome = NewestOutcome(deletes, b)]
  /\ verified' = verified \union {b}
  /\ Changed
  /\ UNCHANGED <<view, conversation, written, frozenVer, forgetVer, writtenDeletes, mirror,
                 disk, offered, acked, released, asked, recorded, promised, replaced, exposed, bounds>>

-----------------------------------------------------------------------------
(* The mirror.                                                             *)

(* A plausible bug: a pass writes the tail and leaves the record for later.*)
SnapshotTailFirst ==
  /\ pc = "idle" /\ dirty
  /\ snap' = [version |-> version, deletes |-> deletes, tail |-> CurrentTail]
  /\ dirty' = FALSE
  /\ pc' = "tail"
  /\ UNCHANGED <<view, conversation, deletes, version, written, frozenVer, forgetVer,
                 writtenDeletes, disk, history, bounds>>

(* Take the latest state; the record goes first when it must change.       *)
Snapshot ==
  /\ pc = "idle" /\ dirty
  /\ snap' = [version |-> version, deletes |-> deletes, tail |-> CurrentTail]
  /\ dirty' = FALSE
  /\ pc' = IF MustRecord(deletes, writtenDeletes) THEN "record" ELSE "tail"
  /\ UNCHANGED <<view, conversation, deletes, version, written, frozenVer, forgetVer,
                 writtenDeletes, disk, history, bounds>>

WriteRecord ==
  /\ pc = "record" /\ RecordValid(snap.deletes)
  /\ diskDeletes' = [readable |-> TRUE, deletes |-> snap.deletes]
  /\ writtenDeletes' = {snap.deletes}
  /\ recorded' = recorded \union {a \in asked : a.binding.id < snap.tail.binding.id}
  /\ pc' = "tail"
  /\ UNCHANGED <<view, conversation, deletes, version, dirty, written, frozenVer, forgetVer,
                 snap, diskTail, offered, acked, released, verified, asked, promised, replaced, exposed, bounds>>

WriteTail ==
  /\ pc = "tail"
  /\ diskTail' = snap.tail
  /\ pc' = "landed"
  /\ UNCHANGED <<view, conversation, deletes, versions, snap, diskDeletes, history, bounds>>

(* A plausible bug: what is durable is the latest version, not the one     *)
(* that was written.                                                       *)
LandedLatest ==
  /\ pc = "landed"
  /\ written' = version
  /\ IF version >= forgetVer
     THEN promised' = promised \union asked /\ asked' = {}
     ELSE UNCHANGED <<promised, asked>>
  /\ pc' = "idle" /\ snap' = NoSnap
  /\ UNCHANGED <<view, conversation, deletes, version, dirty, frozenVer, forgetVer,
                 writtenDeletes, disk, offered, acked, released, verified, recorded, replaced, exposed, bounds>>

(* The write returned: its version is durable, and so are the requests it  *)
(* covers.                                                                 *)
Landed ==
  /\ pc = "landed"
  /\ written' = snap.version
  /\ IF snap.version >= forgetVer
     THEN promised' = promised \union asked /\ asked' = {}
     ELSE UNCHANGED <<promised, asked>>
  /\ pc' = "idle" /\ snap' = NoSnap
  /\ UNCHANGED <<view, conversation, deletes, version, dirty, frozenVer, forgetVer,
                 writtenDeletes, disk, offered, acked, released, verified, recorded, replaced, exposed, bounds>>

(* A plausible bug: a failed write is forgotten until the next change.     *)
WriteFailsClean ==
  /\ pc \in {"record", "tail"}
  /\ pc' = "idle" /\ snap' = NoSnap
  /\ UNCHANGED <<view, conversation, deletes, versions, disk, history, bounds>>

(* A write failed: whatever is latest is still unwritten.                  *)
WriteFails ==
  /\ pc \in {"record", "tail"}
  /\ dirty' = TRUE
  /\ pc' = "idle" /\ snap' = NoSnap
  /\ UNCHANGED <<view, conversation, deletes, version, written, frozenVer, forgetVer,
                 writtenDeletes, disk, history, bounds>>

-----------------------------------------------------------------------------
(* Opening: adopt the record, then the tail, then start the mirror.        *)

(* The record as read; one that cannot be read is a known loss.            *)
RecordRead ==
  IF diskDeletes.readable THEN diskDeletes.deletes ELSE LostDeletes

(* A version-4 tail held its one delete itself; the record holds it now.   *)
Adopted(tail) ==
  LET d == RecordRead
  IN  IF /\ tail.kind = "archive" /\ tail.forget # NoBinding
         /\ tail.forget \notin d.pending \union {d.outcome}
      THEN [d EXCEPT !.pending = @ \union {tail.forget}]
      ELSE d

(* A plausible bug: only a binding still listed in the record is refused.  *)
UnprovenListed(tail) ==
  /\ TailBinding(tail) # NoBinding
  /\ TailBinding(tail) \in RecordRead.pending \union {RecordRead.outcome}

(* Once any delete is recorded, a tail that is not the live binding's      *)
(* may be a deleted conversation.                                          *)
Unproven(tail) == HoldsDeletes(RecordRead) /\ TailBinding(tail) # RecordRead.live

(* What every open ends with.  A pending delete waits for a fresh tail.    *)
Opened(d, restored) ==
  /\ writtenDeletes' = IF diskDeletes.readable THEN {diskDeletes.deletes} ELSE {}
  /\ version' = IF d.pending # {} THEN restored + 1 ELSE restored
  /\ forgetVer' = IF d.pending # {} THEN restored + 1 ELSE 0
  /\ dirty' = (version' > 0 \/ MustRecord(deletes', writtenDeletes'))
  /\ written' = 0 /\ frozenVer' = 0
  /\ pc' = "idle" /\ snap' = NoSnap
  /\ UNCHANGED <<disk, offered, acked, released, verified, asked, recorded, promised, nextUid,
                 restarts, forgets, recordFaults>>

(* No tail, or none that parses: a fresh conversation.                     *)
OpenFresh ==
  /\ pc = "down" /\ ~Parses(diskTail)
  /\ LET d == RecordRead
     IN  Retire(d, NewBinding(0, d, NoBinding)) /\ Opened(d, 0)
  /\ view' = EmptyView
  /\ UNCHANGED <<replaced, exposed, tailFaults>>

(* A tail not provably live is retired; its rows are never restored.       *)
OpenRetired ==
  /\ pc = "down" /\ Parses(diskTail) /\ Unproven(diskTail)
  /\ LET d   == Adopted(diskTail)
         old == TailBinding(diskTail)
         new == NewBinding(IF old = NoBinding THEN 0 ELSE old.gen + 1, d, old)
     IN  /\ Retire(d, new) /\ Opened(d, 0)
         /\ replaced' = IF old = NoBinding THEN replaced ELSE replaced \union {<<new, old>>}
  /\ view' = EmptyView
  /\ UNCHANGED <<exposed, tailFaults>>

Restored(rows) == [rows |-> rows, first |-> 0, unsettled |-> 0]

(* A version-1 tail: its rows restore into a fresh conversation, and close.*)
(* It names no conversation, and neither does a record that cannot be read:*)
(* the two agree, and rows of a deleted conversation may come back.        *)
OpenLegacy ==
  /\ pc = "down" /\ diskTail.kind = "legacy" /\ ~Unproven(diskTail)
  /\ LET d    == RecordRead
         new  == NewBinding(0, d, NoBinding)
         next == Restored(diskTail.rows)
         none == [base |-> 0, next |-> 0]
     IN  /\ binding' = new /\ nextId' = nextId + 1
         /\ deletes' = [d EXCEPT !.live = new]
         /\ cursor' = None /\ flight' = <<>>
         /\ view' = next
         /\ queue' = Assign(EmptyQueue, 0, none, next)
         /\ seqs' = Advance(none, next)
         /\ Opened(d, 1)
  /\ exposed' = IF diskDeletes.readable THEN exposed ELSE exposed \union recorded
  /\ UNCHANGED <<replaced, tailFaults>>

(* The live conversation resumes: the batch in flight as it was frozen,    *)
(* and a row that was open closes now.                                     *)
OpenArchive ==
  /\ pc = "down" /\ diskTail.kind = "archive" /\ Parses(diskTail) /\ ~Unproven(diskTail)
  /\ LET d    == Adopted(diskTail)
         next == Restored(diskTail.rows)
         read == [base |-> diskTail.next - diskTail.settled, next |-> diskTail.next]
         held == [unsent |-> diskTail.unsent, gap |-> diskTail.gap]
     IN  /\ binding' = diskTail.binding
         /\ deletes' = [d EXCEPT !.live = diskTail.binding]
         /\ cursor' = diskTail.cursor /\ flight' = diskTail.flight
         /\ view' = next
         /\ queue' = Assign(held, Len(diskTail.flight), read, next)
         /\ seqs' = Advance(read, next)
         /\ Opened(d, 1)
  /\ UNCHANGED <<nextId, replaced, exposed, tailFaults>>

(* The store refuses the rows (its bounds shrank): a fresh conversation.   *)
OpenRefused ==
  /\ pc = "down" /\ tailFaults < MaxTailFaults
  /\ tailFaults' = tailFaults + 1
  /\ Parses(diskTail) /\ ~Unproven(diskTail)
  /\ diskTail.rows # <<>>
  /\ LET d == IF diskTail.kind = "legacy" THEN RecordRead
              ELSE [Adopted(diskTail) EXCEPT !.live = diskTail.binding]
     IN  Retire(d, NewBinding(0, d, NoBinding)) /\ Opened(d, 0)
  /\ view' = EmptyView
  /\ UNCHANGED <<replaced, exposed>>

Open == OpenFresh \/ OpenRetired \/ OpenLegacy \/ OpenArchive \/ OpenRefused

-----------------------------------------------------------------------------
(* The host stops: killed at any point, or closed once all is written.     *)

Crash ==
  /\ Up /\ restarts < MaxRestarts
  /\ restarts' = restarts + 1
  /\ Down
  /\ asked' = {}
  /\ UNCHANGED <<disk, offered, acked, released, verified, recorded, promised, replaced,
                 exposed, nextUid, nextId, forgets, tailFaults, recordFaults>>

Close ==
  /\ pc = "idle" /\ ~dirty /\ restarts < MaxRestarts
  /\ restarts' = restarts + 1
  /\ Down
  /\ asked' = {}
  /\ UNCHANGED <<disk, offered, acked, released, verified, recorded, promised, replaced,
                 exposed, nextUid, nextId, forgets, tailFaults, recordFaults>>

(* A file is damaged, or replaced by a build that cannot be read.          *)
CorruptTail ==
  /\ pc = "down" /\ tailFaults < MaxTailFaults
  /\ tailFaults' = tailFaults + 1
  /\ diskTail' = [kind |-> "malformed"]
  /\ UNCHANGED <<view, conversation, deletes, versions, mirror, diskDeletes, history,
                 nextUid, nextId, restarts, forgets, recordFaults>>

CorruptRecord ==
  /\ pc = "down" /\ recordFaults < MaxRecordFaults
  /\ recordFaults' = recordFaults + 1
  /\ diskDeletes' = [readable |-> FALSE, deletes |-> NoDeletes]
  /\ UNCHANGED <<view, conversation, deletes, versions, mirror, diskTail, history,
                 nextUid, nextId, restarts, forgets, tailFaults>>

-----------------------------------------------------------------------------

StoreChange ==
  \/ \E kind \in {"user", "invalid"} : RecordUserTranscript(kind)
  \/ OpenSegment \/ ExtendSegment \/ CloseSegment \/ OtherChange

Archive == Freeze \/ NextBatch \/ \E batch \in offered : Acknowledge(batch)

Forget == RequestForget \/ NextDeletes \/ \E b \in released : AcknowledgeForget(b)

Mirror == Snapshot \/ WriteRecord \/ WriteTail \/ Landed \/ WriteFails

Environment == Crash \/ Close \/ CorruptTail \/ CorruptRecord

Next == StoreChange \/ Archive \/ Forget \/ Mirror \/ Open \/ Environment

Spec == Init /\ [][Next]_vars

(* The mirror task and the senders run whenever they can, an open ends,    *)
(* and a file that can be written is written in the end.                   *)
FairSpec ==
  /\ Spec
  /\ WF_vars(Open) /\ WF_vars(Snapshot) /\ WF_vars(Landed)
  /\ WF_vars(Freeze) /\ WF_vars(NextBatch) /\ WF_vars(NextDeletes)
  /\ SF_vars(WriteRecord) /\ SF_vars(WriteTail)

-----------------------------------------------------------------------------
(* Properties.                                                             *)

Bindings == [id : 0..(nextId - 1), gen : Nat]
Rows     == [seq : Nat, uid : 1..(nextUid - 1), kind : {"user", "assistant"},
             gap : {NoGap} \union (Nat \X Nat)]
Requests == [binding : Bindings, upTo : Nat]

(* Every variable keeps its type: identities are ones handed out, numbers  *)
(* are naturals, and rows that reach the outbox are of a kind the archive  *)
(* takes (voice_tail.py _admit, _retire, _mirror).                         *)
TypeOK ==
  /\ view.rows \in Seq([uid : 1..(nextUid - 1), kind : Kinds])
  /\ view.first \in Nat /\ view.unsettled \in 0..Len(view.rows)
  /\ binding \in Bindings
  /\ seqs \in [base : Int, next : Nat]
  /\ cursor \in Seq(Nat) /\ Len(cursor) <= 1
  /\ flight \in Seq(Rows) /\ queue.unsent \in Seq(Rows)
  /\ queue.gap \in {NoGap} \union (Nat \X Nat)
  /\ deletes \in [pending : SUBSET Bindings, outcome : Bindings, live : Bindings, lost : BOOLEAN]
  /\ {version, written, frozenVer, forgetVer, nextUid, nextId} \subseteq Nat
  /\ dirty \in BOOLEAN
  /\ pc \in {"down", "idle", "record", "tail", "landed"}
  /\ released \subseteq Bindings /\ verified \subseteq released
  /\ asked \union recorded \union promised \union exposed \subseteq Requests

(* A tail this writer wrote is one the next start accepts: its rows and    *)
(* gaps cover every number once, and only a user row follows a gap         *)
(* (_admit, _overflow, _discard against _parse_archive).                   *)
DurableTailParses == diskTail.kind = "archive" => Parses(diskTail)

(* A batch that left this host stays exactly as it was sent, in memory and *)
(* on disk, until it is acknowledged; a crash at any point resends it      *)
(* unchanged (next_batch, _freeze, acknowledge).                           *)
OfferDurable ==
  \A batch \in offered \ acked :
    /\ Up /\ batch.binding = binding => batch.rows = flight
    /\ diskTail.kind = "archive" /\ batch.binding = diskTail.binding =>
         batch.rows = diskTail.flight

(* What the archive is offered of one conversation is one history: the     *)
(* batches cover its numbers in order without a hole, no number is given   *)
(* to two rows, and rows keep the order they were spoken in, over every    *)
(* restart (_assign, _freeze, _restore).                                   *)
OfferedOnce ==
  \A b \in offered :
    /\ \/ SeqFrom(b) = 0
       \/ \E c \in offered : c.binding = b.binding /\ SeqThrough(c) + 1 = SeqFrom(b)
    /\ \A c \in offered :
         \/ c.binding # b.binding \/ c = b
         \/ SeqThrough(b) < SeqFrom(c) /\ Last(b.rows).uid < Head(c.rows).uid
         \/ SeqThrough(c) < SeqFrom(b) /\ Last(c.rows).uid < Head(b.rows).uid

(* A delete handed to the companion is of a conversation that is over: no  *)
(* process and no file can archive under that binding again                *)
(* (next_deletes, request_forget, open).                                   *)
ReleasedIsRetired ==
  \A b \in released : b # binding /\ b # TailBinding(diskTail)

SpokenAfter(rows, upTo) == \A i \in 1..Len(rows) : rows[i].uid > upTo

(* Once the record of a delete is durable no later start continues the     *)
(* deleted conversation or restores what was said in it; once the request  *)
(* returned no file holds it (request_forget, _restore).  One case is      *)
(* excepted, against the comment on _restore: a host killed after the      *)
(* record was written and before the tail was, whose record is then        *)
(* damaged, restores a version-1 tail, because that tail names no          *)
(* conversation and the unreadable record names none either                *)
(* (voice_tail.py:1426).                                                   *)
DeletedStaysGone ==
  /\ \A r \in recorded : binding # r.binding
  /\ \A r \in recorded \ exposed :
       SpokenAfter(view.rows, r.upTo) /\ SpokenAfter(flight \o queue.unsent, r.upTo)
  /\ \A r \in promised :
       diskTail.kind \in {"legacy", "archive"} => SpokenAfter(diskTail.rows, r.upTo)

OfferedBefore(b) == \E batch \in offered : batch.binding = b

(* A delete that returned is carried out or still intended: it is pending, *)
(* verified by the companion, or of a conversation that never left this    *)
(* host.  Only a record that could not be read loses it, and then the loss *)
(* is known (request_forget, acknowledge_forget, _read_deletes).           *)
DeleteKept ==
  LET held == IF Up THEN deletes ELSE RecordRead
  IN  \A r \in promised :
        \/ r.binding \in held.pending \union verified
        \/ ~OfferedBefore(r.binding)
        \/ held.lost

(* The status "complete" names the right conversation: an outcome adjacent *)
(* to the live generation is the conversation this one replaced            *)
(* (_retire, deleted_previous).                                            *)
DeletedPreviousIsTrue ==
  Up /\ deletes.outcome # NoBinding /\ deletes.outcome.gen + 1 = binding.gen =>
    <<binding, deletes.outcome>> \in replaced

(* The record is always one its own parser accepts, so no write of it can  *)
(* fail for its content and block the mirror for ever (voice_deletes_bytes)*)
RecordWritable ==
  /\ RecordValid(deletes)
  /\ Up => deletes.live = binding
  /\ pc = "record" => RecordValid(snap.deletes)

(* A delete request returns, unless the host stops (request_forget waits   *)
(* on the mirror's ticks).                                                 *)
ForgetReturns == asked # {} ~> asked = {}

(* A pending delete reaches the forget sender, unless the host stops, also *)
(* after a restart that found it pending (next_deletes, open).             *)
PendingReleased ==
  Up /\ deletes.pending # {} ~> deletes.pending \subseteq released \/ ~Up

(* A frozen batch is handed out, unless it is deleted or the host stops    *)
(* (next_batch).                                                           *)
FrozenOffered ==
  Up /\ flight # <<>> ~> Batch \in offered \/ flight = <<>> \/ ~Up
=============================================================================
