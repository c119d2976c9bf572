------------------------ MODULE VoiceTailInduction ------------------------
(***************************************************************************)
(* The inductive invariants of VoiceTail, each around the one before:      *)
(* Inductive, for ReleasedIsRetired and OfferDurable; DeletesInductive,    *)
(* which adds the delete record, for RecordWritable, DeletedPreviousIsTrue *)
(* and DeleteKept; TailInductive, which adds the rows, for OfferedOnce and *)
(* DurableTailParses, and what a delete leaves, for DeletedStaysGone. They *)
(* are kept apart from the proofs so that TLC can check them.              *)
(***************************************************************************)
EXTENDS VoiceTail

Writing == pc \in {"record", "tail", "landed"}

Known == 1..(nextId - 1)

IsRecord(d) ==
  d = [pending |-> d.pending, outcome |-> d.outcome, live |-> d.live, lost |-> d.lost]

(* Each copy of the delete record has its four fields, a batch its two and *)
(* rows.                                                                   *)
RecordShapes ==
  /\ \A batch \in offered :
       batch = [binding |-> batch.binding, rows |-> batch.rows] /\ batch.rows # <<>>
  /\ IsRecord(deletes) /\ IsRecord(diskDeletes.deletes)
  /\ Writing => IsRecord(snap.deletes)

(* Every conversation any file, record or history names was made here.     *)
KnownIds ==
  /\ nextId \in Nat \ {0}
  /\ Up => binding.id \in Known
  /\ ~Up => binding = NoBinding
  /\ \A b \in released : b.id \in Known
  /\ \A b \in deletes.pending : b.id \in Known
  /\ \A b \in diskDeletes.deletes.pending : b.id \in Known
  /\ Writing => \A b \in snap.deletes.pending : b.id \in Known
  /\ \A batch \in offered : batch.binding.id \in Known
  /\ diskTail.kind = "archive" =>
       /\ diskTail.binding.id \in Known
       /\ diskTail.forget # NoBinding => diskTail.forget.id \in Known
  /\ Writing => /\ snap.tail.kind = "archive"
                /\ snap.tail.binding.id \in Known
                /\ snap.tail.forget = NoBinding

(* What is durable is never newer than what is being written, nor that     *)
(* than the present.                                                       *)
VersionOrder ==
  /\ {version, written, frozenVer, forgetVer} \subseteq Nat
  /\ written <= version /\ forgetVer <= version
  /\ Writing => snap.version \in Nat /\ written <= snap.version /\ snap.version <= version
  /\ deletes.pending # {} => forgetVer >= 1

(* The live conversation is never a pending delete, in any copy.           *)
LiveIsKept ==
  /\ Up => deletes.live = binding
  /\ deletes.live \notin deletes.pending
  /\ diskDeletes.deletes.live \notin diskDeletes.deletes.pending
  /\ Writing => snap.deletes.live \notin snap.deletes.pending

(* A write newer than the last retirement carries the live conversation,   *)
(* and one newer than the last freeze carries the batch in flight.         *)
WritesAreCurrent ==
  /\ pc = "landed" => diskTail = snap.tail
  /\ Writing /\ snap.version >= forgetVer => snap.tail.binding = binding
  /\ Up /\ written >= 1 /\ written >= forgetVer =>
       diskTail.kind = "archive" /\ diskTail.binding = binding
  /\ Writing /\ flight # <<>> /\ snap.version >= frozenVer =>
       snap.tail.binding = binding /\ snap.tail.flight = flight
  /\ Up /\ flight # <<>> /\ written >= frozenVer =>
       diskTail.kind = "archive" /\ diskTail.binding = binding /\ diskTail.flight = flight

(* The two properties, for the copy in the mirror's hands too.             *)
SnapshotIsSafe ==
  Writing =>
    /\ \A b \in released : b # snap.tail.binding
    /\ \A batch \in offered \ acked :
         batch.binding = snap.tail.binding => batch.rows = snap.tail.flight

(* ReleasedIsRetired and OfferDurable are inductive with these.            *)
Inductive ==
  /\ RecordShapes
  /\ KnownIds
  /\ VersionOrder
  /\ LiveIsKept
  /\ WritesAreCurrent
  /\ SnapshotIsSafe
  /\ ReleasedIsRetired
  /\ OfferDurable

-----------------------------------------------------------------------------
Listed(d) == (d.pending \union {d.outcome}) \ {NoBinding}   \* deleted, says the record

(* Each copy of the record is finite, names conversations made here, and   *)
(* is one its parser accepts.                                              *)
SoundRecord(d) ==
  /\ IsFiniteSet(d.pending)
  /\ d.pending \subseteq Bindings /\ d.outcome \in Bindings /\ d.live \in Bindings
  /\ RecordValid(d)

RecordsSound ==
  /\ SoundRecord(deletes) /\ SoundRecord(diskDeletes.deletes)
  /\ Writing => SoundRecord(snap.deletes)
  /\ binding \in Bindings
  /\ diskTail.kind = "archive" => diskTail.binding \in Bindings
  /\ Writing => snap.tail.binding \in Bindings

(* A tail that holds a delete itself is the earlier build's, untouched; no *)
(* delete was released yet, and every copy of the record made since it was *)
(* read has its delete.                                                    *)
EarlierTail ==
  diskTail.kind = "archive" /\ diskTail.forget # NoBinding =>
    /\ diskTail = InitialTail("forget")
    /\ <<diskTail.binding, diskTail.forget>> \in replaced
    /\ released = {} /\ (Up => written = 0)
    /\ Up => diskTail.forget \in deletes.pending
    /\ Writing => diskTail.forget \in snap.deletes.pending
    /\ diskDeletes.deletes = NoDeletes \/ diskTail.forget \in diskDeletes.deletes.pending

(* In each copy a delete of the generation before the live one is of the   *)
(* conversation the live one replaced.                                     *)
AdjacentIsReplaced(d) ==
  \A r \in Listed(d) : r.gen + 1 < d.live.gen \/ <<d.live, r>> \in replaced

AdjacentsReplaced ==
  /\ AdjacentIsReplaced(deletes) /\ AdjacentIsReplaced(diskDeletes.deletes)
  /\ Writing => AdjacentIsReplaced(snap.deletes)

(* A conversation of which a batch was offered shows it.                   *)
OffersShow ==
  \A batch \in offered :
    /\ Up /\ batch.binding = binding => EverOffered
    /\ diskTail.kind = "archive" /\ batch.binding = diskTail.binding =>
         diskTail.cursor # None \/ diskTail.flight # <<>>
    /\ Writing /\ batch.binding = snap.tail.binding =>
         snap.tail.cursor # None \/ snap.tail.flight # <<>>

(* The mirror knows what the record on disk holds, and a tail goes to disk *)
(* after the record that belongs to it.                                    *)
RecordFirst ==
  /\ Up => writtenDeletes = IF diskDeletes.readable THEN {diskDeletes.deletes} ELSE {}
  /\ Up => diskDeletes.deletes.live.id <= binding.id
  /\ ~HoldsDeletes(diskDeletes.deletes) \/ ~diskDeletes.readable =>
       diskDeletes.deletes = NoDeletes
  /\ Writing => /\ snap.deletes.live = snap.tail.binding
                /\ snap.tail.binding.id <= binding.id
  /\ pc = "record" => HoldsDeletes(snap.deletes)
  /\ pc \in {"tail", "landed"} /\ HoldsDeletes(snap.deletes) =>
       diskDeletes.readable /\ diskDeletes.deletes = snap.deletes

(* A conversation asked to be deleted is not the live one, and once its    *)
(* delete is recorded no start makes it live again.                        *)
Retired ==
  /\ \A a \in asked :
       /\ Up /\ a.binding.id \in Known /\ a.binding.id < binding.id
       /\ HoldsDeletes(deletes)
       /\ Writing /\ a.binding.id < snap.tail.binding.id => HoldsDeletes(snap.deletes)
       /\ diskDeletes.readable /\ a.binding.id < diskDeletes.deletes.live.id => a \in recorded
  /\ \A r \in recorded :
       /\ r.binding.id \in Known /\ binding # r.binding
       /\ Writing => snap.tail.binding # r.binding
       /\ diskTail.kind = "archive" /\ diskTail.binding = r.binding =>
            HoldsDeletes(RecordRead) /\ RecordRead.live # r.binding
  /\ promised \subseteq recorded

(* What DeleteKept says of a request, for a copy of the record.            *)
Keeps(d, r) ==
  r.binding \in d.pending \union verified \/ ~OfferedBefore(r.binding) \/ d.lost

RequestsKept ==
  /\ \A a \in asked : Keeps(deletes, a)
  /\ \A r \in recorded : Keeps(RecordRead, r)
  /\ Up => \A r \in recorded : Keeps(deletes, r)
  /\ Writing =>
       /\ \A r \in recorded : Keeps(snap.deletes, r)
       /\ \A a \in asked : a.binding.id < snap.tail.binding.id => Keeps(snap.deletes, a)

DeletesInductive ==
  /\ Inductive
  /\ RecordsSound
  /\ EarlierTail
  /\ AdjacentsReplaced
  /\ OffersShow
  /\ RecordFirst
  /\ Retired
  /\ RequestsKept

-----------------------------------------------------------------------------
(* A conversation's rows exist up to three times, each in the form of a    *)
(* tail: what memory would write, what the mirror is writing, and the file.*)

OutboxRows(uids) ==
  [seq : Int, uid : uids, kind : Kinds, gap : {NoGap} \union (Int \X Int)]

Spoken == 1..(nextUid - 1)   \* the rows spoken so far

TailTyped(t, uids) ==
  /\ t.rows \in Seq([uid : uids, kind : Kinds])
  /\ t.flight \in Seq(OutboxRows(uids)) /\ t.unsent \in Seq(OutboxRows(uids))
  /\ t.gap \in {NoGap} \union (Int \X Int)
  /\ t.cursor \in Seq(Int) /\ Len(t.cursor) <= 1
  /\ t.next \in Nat /\ t.settled \in Nat

(* Rows are in the order they were spoken in, and those of the outbox come *)
(* before those that have no number yet.                                   *)
Rising(rows) == \A i, j \in 1..Len(rows) : i < j => rows[i].uid < rows[j].uid

TailRising(t) ==
  LET outbox == t.flight \o t.unsent
  IN  /\ Rising(t.rows) /\ Rising(outbox)
      /\ \A i \in 1..Len(outbox), j \in (t.settled + 1)..Len(t.rows) :
           outbox[i].uid < t.rows[j].uid

(* Every row that may still be offered comes after the batch.              *)
BehindCursor(batch, t) ==
  /\ t.cursor # None /\ SeqThrough(batch) <= t.cursor[1]
  /\ SpokenAfter(t.flight \o t.unsent, Last(batch.rows).uid)
  /\ \A j \in (t.settled + 1)..Len(t.rows) : t.rows[j].uid > Last(batch.rows).uid

(* The cursor is where an offered batch ended, and every batch offered of  *)
(* this conversation is the one in flight or is behind the cursor.         *)
TailOffers(t, batches) ==
  /\ t.cursor # None =>
       \E c \in batches : c.binding = t.binding /\ SeqThrough(c) = t.cursor[1]
  /\ \A b \in batches :
       b.binding = t.binding => b.rows = t.flight \/ BehindCursor(b, t)

TailSound(t, uids, batches) ==
  /\ t.kind = "archive" /\ Parses(t)
  /\ TailTyped(t, uids) /\ TailRising(t) /\ TailOffers(t, batches)

(* The numbers of the rows in memory: those that closed have one.          *)
NumbersFollow ==
  /\ seqs = [base |-> seqs.base, next |-> seqs.base + ClosedEnd(view)]
  /\ seqs.base \in Nat /\ view.first \in Nat /\ view.unsettled \in 0..Len(view.rows)
  /\ queue = [unsent |-> queue.unsent, gap |-> queue.gap]
  /\ view = [rows |-> view.rows, first |-> view.first, unsettled |-> view.unsettled]

RowsInductive ==
  /\ nextUid \in Nat \ {0}
  /\ \A b \in offered : b.rows \in Seq(OutboxRows(Spoken)) /\ b.rows # <<>>
  /\ IF Up THEN TailSound(CurrentTail, Spoken, offered) /\ NumbersFollow
            ELSE view = EmptyView /\ flight = <<>> /\ queue = EmptyQueue
  /\ Writing => TailSound(snap.tail, Spoken, offered)
  /\ diskTail.kind = "archive" => TailSound(diskTail, Spoken, offered)
  /\ diskTail.kind = "legacy" =>
       diskTail = InitialTail("legacy") /\ nextUid > 1 /\ "legacy" \in InitialTails
  /\ OfferedOnce

-----------------------------------------------------------------------------
(* The rows of a conversation begun after a delete were spoken after it.   *)
SpokenSince(t, r) ==
  r.binding.id < t.binding.id =>
    SpokenAfter(t.rows, r.upTo) /\ SpokenAfter(t.flight \o t.unsent, r.upTo)

RequestsFollow ==
  \A r \in asked \union recorded :
    /\ r.upTo \in Nat /\ r.upTo < nextUid
    /\ Up /\ r \notin exposed => SpokenSince(CurrentTail, r)
    /\ Writing /\ r \notin exposed => SpokenSince(snap.tail, r)
    /\ diskTail.kind = "archive" /\ r \notin exposed => SpokenSince(diskTail, r)

(* Neither file is ahead of the mirror, nor the mirror of memory.          *)
FilesTrail ==
  /\ diskTail.kind = "archive" =>
       /\ Up => diskTail.binding.id <= binding.id
       /\ Writing => diskTail.binding.id <= snap.tail.binding.id
  /\ Writing => diskDeletes.deletes.live.id <= snap.tail.binding.id

(* Once recorded, every conversation that can be restored is a later one.  *)
RecordedIsOver ==
  /\ \A r \in recorded :
       /\ Up => r.binding.id < binding.id
       /\ Writing => r.binding.id < snap.tail.binding.id
       /\ diskDeletes.readable =>
            HoldsDeletes(diskDeletes.deletes) /\ r.binding.id < diskDeletes.deletes.live.id
  /\ \A r \in promised :
       /\ diskTail.kind # "legacy"
       /\ diskTail.kind = "archive" => r.binding.id < diskTail.binding.id

(* Only a request that never returned can be forgotten by the record.      *)
ExposedIsUnanswered ==
  exposed \subseteq recorded /\ exposed \intersect (asked \union promised) = {}

(* What a delete leaves behind.                                            *)
GoneInductive ==
  RequestsFollow /\ FilesTrail /\ RecordedIsOver /\ ExposedIsUnanswered

TailInductive == DeletesInductive /\ RowsInductive /\ GoneInductive
=============================================================================
