------------------------- MODULE CompanionInduction -------------------------
(***************************************************************************)
(* The inductive invariant of Companion, in parts that change together:    *)
(* who holds the conversation and what of its row that turn relies on; how *)
(* the row, the session and the rows written stand to one another; what    *)
(* the calls carry; the reviews; the delete; and what holds as long as     *)
(* nobody else has touched the session.                                    *)
(***************************************************************************)
EXTENDS Companion

Opt(S) == {x \in SUBSET S : \A y, z \in x : y = z}

Turns == [by : Openers \union Reconcilers \union {"none"},
          at : {"free", "holder", "acquire", "read", "settle", "write", "clear", "promote",
                "admit", "start", "unwind", "check", "capture", "copies", "manifest", "delete",
                "verify", "retire", "complete"},
          seen : Opt(Seq(Rows)), targets : Seq(Sessions), copies : SUBSET Kin, fencing : BOOLEAN]

(* The values the variables take, with the whole of every record.          *)
RealtimeTypes ==
  /\ batch \in Seq(Rows) /\ acked \in 0..MaxSeq /\ waiting \in Opt(Calls)
  /\ fence \in BOOLEAN /\ asked \in {"no", "pending", "complete"}

TurnTypes == host \in {"down", "starting", "up", "closing"} /\ turn \in Turns

RequestTypes ==
  /\ calls \in [Calls -> [at : {"none", "open", "archive"}, rows : Seq(Rows)]]
  /\ rcall \in [at : {"none", "open", "take"}, window : Windows \union {0}]
  /\ fcall \in BOOLEAN /\ again \in BOOLEAN

MemoryTypes ==
  /\ live \in Opt(BOOLEAN) /\ fenced \in BOOLEAN
  /\ active \in Opt(Windows) /\ callback \in BOOLEAN
  /\ thread \in {"none", "running", "finishing", "ended"}

RowType == row \in [bound : BOOLEAN, committed : Opt(Seq(Rows)), pending : Opt(Seq(Rows)),
                    quarantined : BOOLEAN, tombstone : BOOLEAN]

DeletionTypes ==
  /\ deletion \in [recorded : BOOLEAN, targets : Opt(Seq(Sessions)), copies : SUBSET Kin,
                   complete : BOOLEAN]
  /\ ledger \in [Windows -> {"none", "reserved", "accepted", "over", "unknown"}]

HermesTypes ==
  /\ session \in Opt(Seq(Rows)) /\ lease \in {{}, {"ours"}, {Other}}
  /\ rotated \subseteq Sessions

KinType == kin \in [Kin -> [here : BOOLEAN, born : BOOLEAN, parent : Opt(Sessions),
                            branch : Opt(Sessions)]]

HistoryTypes ==
  /\ written \in Seq(Rows) /\ tampered \in BOOLEAN
  /\ reviewed \in [Windows -> Nat] /\ owed \subseteq Kin

BudgetType == budget \in [{"crash", "fault", "foreign", "timeout"} -> Nat]

Types ==
  /\ RealtimeTypes /\ TurnTypes /\ RequestTypes /\ MemoryTypes /\ RowType /\ DeletionTypes
  /\ HermesTypes /\ KinType /\ HistoryTypes /\ BudgetType

-----------------------------------------------------------------------------
(* The turn.                                                               *)

OpeningSteps   == {"holder", "acquire", "read", "settle"}
ArchivingSteps == {"write", "clear", "promote"}
ReviewingSteps == {"admit", "start", "unwind"}
DeletingSteps  == {"check", "capture", "copies", "manifest", "delete", "verify", "retire", "complete"}

(* Who is at which step; and that once the delete is recorded, or while    *)
(* the row is fenced for it, nobody opens, archives or reviews.            *)
TurnHeld ==
  /\ turn.by = "none" <=> turn.at = "free"
  /\ turn.by \in Calls => turn.at \in OpeningSteps \union ArchivingSteps
  /\ turn.by = "review" => turn.at \in OpeningSteps \union ReviewingSteps
  /\ turn.by \in Reconcilers <=> turn.at \in DeletingSteps
  /\ turn.at = "free" \/ host = "down" => turn = NoTurn
  /\ turn.by \in Calls => calls[turn.by].at = (IF turn.at \in OpeningSteps THEN "open" ELSE "archive")
  /\ turn.by = "review" => /\ rcall.at = (IF turn.at \in OpeningSteps THEN "open" ELSE "take")
                           /\ rcall.window \in Windows
  /\ rcall.at # "none" => rcall.window \in Windows
  /\ turn.by \in Reconcilers => deletion.recorded
  /\ again => deletion.recorded
  /\ turn.by \in Openers => row.bound /\ ~deletion.recorded
  /\ row.tombstone => deletion.recorded
  /\ deletion.recorded /\ row.bound => row.tombstone

-----------------------------------------------------------------------------
(* The rows.                                                               *)

Foreign(option) == \E rows \in option : Alien \in Elements(rows)

(* The session holds what was written, unless it is gone or holds a row of *)
(* somebody else; what was written is committed or, with the write's end   *)
(* not known, pending; and what the current turn relies on.                *)
RowsHeld ==
  /\ session = {} \/ Foreign(session) \/ session = {written}
  /\ Alien \notin Elements(written)
  /\ ~Foreign(row.committed) /\ ~Foreign(row.pending)
  /\ row.bound = (row.committed # {} \/ row.pending # {})
  /\ row.committed = {} => written = <<>> \/ deletion.complete
  /\ row.bound /\ row.committed = {} => row.pending = {<<>>}
  /\ row.committed # {} => {written} = row.committed \/ {written} = row.pending
  /\ turn.at = "settle" => turn.seen = {} \/ Foreign(turn.seen) \/ turn.seen = {written}
  /\ turn.at \in ArchivingSteps => row.committed # {} /\ row.pending # {}
  /\ turn.at \in {"write", "clear"} => {written} = row.committed
  /\ turn.at = "promote" => {written} = row.pending
  /\ turn.at \in ReviewingSteps => row.committed # {} /\ row.pending = {}
  /\ Ready /\ turn.at \notin ArchivingSteps => row.pending = {}

-----------------------------------------------------------------------------
(* The calls.                                                              *)

Late(rows, n) == \A i \in DOMAIN rows : rows[i][2] <= n

(* Of a log that ends at n, with a acknowledged: a call carries rows that  *)
(* are written already, or the one batch that continues the log; realtime, *)
(* as long as it has the conversation, waits for its frozen batch only.    *)
Fits(n, a, frozen, asking, cs, awaited) ==
  /\ a <= n
  /\ \A c \in Calls : Len(cs[c].rows) <= MaxBatch
  /\ \A c \in Calls : cs[c].at # "none" =>
       Late(cs[c].rows, n) \/ (cs[c].rows \in Log!Batches(a) /\ n = a)
  /\ \A c, d \in Calls : cs[c].at # "none" /\ cs[d].at # "none" =>
       Late(cs[c].rows, n) \/ Late(cs[d].rows, n) \/ cs[c].rows = cs[d].rows
  /\ frozen # <<>> => frozen \in Log!Batches(a) /\ n \in {a, End(frozen)}
  /\ asking = "no" /\ frozen = <<>> => n = a
  /\ asking # "no" => frozen = <<>>
  /\ asking = "no" => \A c \in Calls : cs[c].at # "none" =>
       Late(cs[c].rows, n) \/ cs[c].rows = frozen
  /\ asking = "no" => \A c \in awaited :
       frozen # <<>> /\ cs[c].at # "none" /\ cs[c].rows = frozen

(* And what the step of the call that has the turn relies on.              *)
CallsHeld ==
  /\ Fits(End(written), acked, batch, asked, calls, waiting)
  /\ turn.at = "write" => row.pending = {written \o NewRows(written, calls[turn.by].rows)}
  /\ turn.at = "promote" => Late(calls[turn.by].rows, End(written))

-----------------------------------------------------------------------------
(* The reviews.                                                            *)

ReviewsHeld ==
  /\ ThreadAlive => active # {}
  /\ deletion.complete \/ turn.at \in DeletingSteps \ {"check"} => ~ThreadAlive
  /\ \A w \in Windows : reviewed[w] <= 1
       /\ (reviewed[w] = 1 => ledger[w] # "none" \/ deletion.complete)
  /\ turn.at \in {"admit", "start"} => ledger[rcall.window] = "none"

-----------------------------------------------------------------------------
(* The delete.                                                             *)

KinBorn == \A k \in Kin :
  /\ kin[k].here => kin[k].born
  /\ ~kin[k].here => kin[k].parent = {} /\ kin[k].branch = {}

(* What of the frozen sessions and copies there may not be any more.       *)
Absent == \A s \in Frozen : ~Exists(s)
NoCopies == \A k \in Kin : kin[k].here =>
  k \notin deletion.copies /\ \A s \in Frozen \union deletion.copies : kin[k].branch # {s}

DeleteHeld ==
  /\ KinBorn
  /\ deletion.targets # {} \/ deletion.complete => deletion.recorded
  /\ turn.at \in {"check", "capture"} => turn.targets = <<>>
  /\ turn.at \in {"capture", "copies", "manifest"} => deletion.targets = {}
  /\ turn.at \in {"copies", "manifest"} =>
       /\ turn.targets = <<>> => session = {}
       /\ turn.targets # <<>> => Voice \in Elements(turn.targets)
       /\ \A k \in Elements(turn.targets) \intersect Kin : kin[k].born
  /\ turn.at = "manifest" => owed = turn.copies /\ \A k \in owed : kin[k].born
  /\ deletion.targets # {} =>
       /\ deletion.targets = {<<>>} => session = {}
       /\ deletion.targets # {<<>>} => Voice \in Frozen
       /\ owed = deletion.copies
       /\ \A k \in (Frozen \union deletion.copies) \intersect Kin : kin[k].born
  /\ turn.at \in {"delete", "verify", "retire", "complete"} \/ deletion.complete =>
       deletion.targets # {}
  /\ turn.at \in {"verify", "retire", "complete"} \/ deletion.complete => Absent
  /\ turn.at \in {"retire", "complete"} \/ deletion.complete => NoCopies
  /\ turn.at = "complete" \/ deletion.complete => live = {}
  /\ turn.at \in DeletingSteps \ {"check"} => ~deletion.complete
  /\ deletion.complete => row = NoRow

-----------------------------------------------------------------------------
(* As long as nobody else has touched the session.                         *)

Untouched ==
  ~tampered /\ ~deletion.recorded =>
    /\ \A k \in Kin : ~kin[k].here
    /\ rotated = {} /\ ~Foreign(session)
    /\ row.committed # {} => session # {}
    /\ turn.at = "settle" => session # {} /\ turn.seen # {} /\ ~Foreign(turn.seen)
    /\ ~row.quarantined /\ ~fenced
    /\ fence => Len(written) + MaxBatch > Cap
    /\ turn.at = "clear" /\ ~turn.fencing => Len(written) + MaxBatch > Cap

CompanionInductive ==
  /\ Types /\ TurnHeld /\ RowsHeld /\ CallsHeld /\ ReviewsHeld /\ DeleteHeld /\ Untouched
=============================================================================
