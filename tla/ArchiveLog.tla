----------------------------- MODULE ArchiveLog -----------------------------
(***************************************************************************)
(* What archiving a conversation promises: its rows are appended in the    *)
(* order of their numbers, each once, none skipped but by a recorded gap;  *)
(* what is acknowledged has been appended; and once the log is shut, by a  *)
(* delete or because somebody else has changed it, nothing is appended.    *)
(* A row is <<first, last>>: its number is last, and the numbers from      *)
(* first to last - 1 are the gap it records.                               *)
(***************************************************************************)
EXTENDS Naturals, Sequences

CONSTANTS MaxSeq,  \* bound: numbers given to rows
          MaxBatch \* bound: rows of a batch

VARIABLES written,  \* the rows appended
          acked,    \* the last number acknowledged
          shut      \* nothing may be appended any more

End(rows) == IF rows = <<>> THEN 0 ELSE rows[Len(rows)][2]

(* The batches that continue a log which ends at n.                        *)
Batches(n) ==
  {rows \in UNION {[1..k -> (1..MaxSeq) \X (1..MaxSeq)] : k \in 1..MaxBatch} :
     \A i \in DOMAIN rows :
       /\ rows[i][1] = (IF i = 1 THEN n ELSE rows[i - 1][2]) + 1
       /\ rows[i][1] <= rows[i][2]}

LogInit == written = <<>> /\ acked = 0 /\ shut = FALSE

Append1 ==
  /\ ~shut
  /\ \E rows \in Batches(End(written)) : written' = written \o rows
  /\ UNCHANGED <<acked, shut>>

Acknowledge ==
  /\ acked' \in (acked + 1)..End(written)
  /\ UNCHANGED <<written, shut>>

Shut == shut' = TRUE /\ UNCHANGED <<written, acked>>

LogNext == Append1 \/ Acknowledge \/ Shut

LogSpec == LogInit /\ [][LogNext]_<<written, acked, shut>>
=============================================================================
