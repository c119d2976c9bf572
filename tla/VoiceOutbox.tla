---------------------------- MODULE VoiceOutbox ----------------------------
(***************************************************************************)
(* The row bookkeeping of the voice tail's archive outbox, as pure         *)
(* operators (integration/voice_tail.py).                                  *)
(*                                                                         *)
(* A row that closes gets the next sequence number of its conversation.    *)
(* It is then archived with that number, or the number is accounted for by *)
(* a gap.  A gap is carried by the user row that follows it, or is the     *)
(* trailing gap while no user row has followed yet.                        *)
(*                                                                         *)
(* The code keeps one list, _outbox, whose first _frozen rows are the      *)
(* batch in flight.  Here the two parts are two sequences: the flight, and *)
(* the unsent rows of a queue [unsent, gap].                               *)
(***************************************************************************)
EXTENDS Integers, Sequences, FiniteSets, SequencesExt

CONSTANT MaxOutbox     \* rows the outbox holds, the batch in flight included

ASSUME MaxOutboxAssumption == MaxOutbox \in Nat \ {0}

(* What the archive can tell apart in a row: the two roles, and text the   *)
(* companion's row rules refuse (a NUL, say), which the store may hold.    *)
Kinds == {"user", "assistant", "invalid"}

NoGap == <<>>   \* otherwise <<first, last>>
None  == <<>>   \* no cursor; otherwise <<last number acknowledged>>

EmptyQueue == [unsent |-> <<>>, gap |-> NoGap]

-----------------------------------------------------------------------------

(* The first number a row accounts for: its gap's start, or its own.       *)
StartOf(row) == IF row.gap = NoGap THEN row.seq ELSE row.gap[1]

(* A number that is not archived joins the trailing gap.                   *)
Discard(queue, seq) ==
  [queue EXCEPT !.gap = <<IF @ = NoGap THEN seq ELSE @[1], seq>>]

(* A plausible bug: overflow discards one row, whatever follows it.        *)
OverflowOneRow(queue) ==
  LET unsent == queue.unsent
      kept   == Tail(unsent)
      start  == StartOf(Head(unsent))
  IN  IF kept # <<>>
      THEN [queue EXCEPT !.unsent = [kept EXCEPT ![1].gap = <<start, kept[1].seq - 1>>]]
      ELSE [unsent |-> <<>>,
            gap |-> <<start, IF queue.gap = NoGap THEN Head(unsent).seq ELSE queue.gap[2]>>]

(* Make room: drop the oldest unsent rows up to the next user row, and let *)
(* the row that is now first (or the trailing gap) account for them.       *)
Overflow(queue) ==
  LET unsent == queue.unsent
      users  == {i \in 2..Len(unsent) : unsent[i].kind = "user"}
      count  == IF users = {} THEN Len(unsent) ELSE Min(users) - 1
      kept   == SubSeq(unsent, count + 1, Len(unsent))
      start  == StartOf(Head(unsent))
  IN  IF kept # <<>>
      THEN [queue EXCEPT !.unsent = [kept EXCEPT ![1].gap = <<start, kept[1].seq - 1>>]]
      ELSE [unsent |-> <<>>,
            gap |-> <<start, IF queue.gap = NoGap THEN unsent[count].seq ELSE queue.gap[2]>>]

(* Queue one closed row.  After a gap only a user row is queued, so that   *)
(* an archived reply is never separated from its question by a gap.        *)
Admit(queue, inFlight, row) ==
  LET full   == inFlight + Len(queue.unsent) >= MaxOutbox
      roomy  == IF full THEN Overflow(queue) ELSE queue
  IN  IF full /\ queue.unsent = <<>>
      THEN Discard(queue, row.seq)
      ELSE IF roomy.gap = NoGap
      THEN [roomy EXCEPT !.unsent = Append(@, row)]
      ELSE IF row.kind # "user"
      THEN [roomy EXCEPT !.gap = <<@[1], row.seq>>]
      ELSE [unsent |-> Append(roomy.unsent, [row EXCEPT !.gap = roomy.gap]), gap |-> NoGap]

(* How many rows of a view are closed for good, counted from the start of  *)
(* this process's conversation: those before its first unsettled row.      *)
ClosedEnd(view) == view.first + Len(view.rows) - view.unsettled

(* Give the row of one ordinal its number: it is queued, or joins the gap  *)
(* when it was evicted before it closed or the archive refuses its text.   *)
Number(queue, inFlight, seqs, view, ordinal) ==
  LET seq == seqs.base + ordinal
      row == view.rows[ordinal - view.first + 1]
  IN  IF ordinal < view.first \/ row.kind = "invalid"
      THEN Discard(queue, seq)
      ELSE Admit(queue, inFlight,
                 [seq |-> seq, uid |-> row.uid, kind |-> row.kind, gap |-> NoGap])

(* Number every row that closed since the last view, in order.             *)
Assign(queue, inFlight, seqs, view) ==
  LET start == seqs.next - seqs.base
      count == ClosedEnd(view) - start
      numbered[n \in 0..count] ==
        IF n = 0 THEN queue
        ELSE Number(numbered[n - 1], inFlight, seqs, view, start + n - 1)
  IN  IF count <= 0 THEN queue ELSE numbered[count]

(* The numbers in use afterwards.                                          *)
Advance(seqs, view) ==
  [seqs EXCEPT !.next = Max({@, seqs.base + ClosedEnd(view)})]

(* How many leading rows of a view the tail records as numbered.           *)
Settled(seqs, view) == Max({0, Min({Len(view.rows) - view.unsettled, seqs.next})})

-----------------------------------------------------------------------------

(* Archived numbers, outbox rows, the gaps they carry and the trailing gap *)
(* cover 0 .. next-1 with no hole and no overlap; only a user row carries  *)
(* a gap.  A tail for which this fails is refused as malformed.            *)
Partitions(cursor, outbox, gap, next) ==
  LET end(i) == IF i > 0 THEN outbox[i].seq ELSE IF cursor = None THEN -1 ELSE cursor[1]
      last   == end(Len(outbox))
  IN  /\ \A i \in 1..Len(outbox) :
           /\ StartOf(outbox[i]) = end(i - 1) + 1
           /\ outbox[i].gap # NoGap =>
                /\ outbox[i].kind = "user"
                /\ outbox[i].gap[1] <= outbox[i].gap[2]
                /\ outbox[i].gap[2] + 1 = outbox[i].seq
      /\ IF gap = NoGap
         THEN next = last + 1
         ELSE gap[1] = last + 1 /\ gap[1] <= gap[2] /\ next = gap[2] + 1
=============================================================================
